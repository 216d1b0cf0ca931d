---------------------------- MODULE MediaAccess -----------------------------
(***************************************************************************)
(* Accounts on one media server (server/internal/mediaaccess): a user who  *)
(* is granted the server creates an account, is sent an invitation or      *)
(* links an account; from then on the account follows the grant.           *)
(*                                                                         *)
(* An account server switches accounts off and on; an invite server (Plex) *)
(* removes the share and sends another one.  Only the server knows what is *)
(* true of an account; it is also changed there by hand.                   *)
(***************************************************************************)
EXTENDS Naturals

CONSTANTS
  User,
  Id, NoId,    \* accounts of the server, or addresses it is shared with
  MaxFault     \* bound on lost replies, failed statements, restarts and changes by hand

VARIABLES
  invite,    \* what kind of server it is
  users,     \* users that exist
  granted,   \* user_instance_grants
  unlinked,  \* user_media_server_unlinks
  row,       \* user_media_server_accounts
  remote,    \* the server: each account
  admin,     \* the server: its administrators
  todo,      \* users to reconcile, after a grant changed or a sweep
  op,        \* what runs under the lock of each user and this server
  made,      \* history: accounts Cantinarr made
  astray,    \* history: accounts let go of, or lost to a failure
  touched,   \* history: accounts changed by hand, or for a user whose account they are not
  fault

vars == <<invite, users, granted, unlinked, row, remote, admin, todo, op, made, astray, touched, fault>>

NoRow == [id |-> NoId, created |-> FALSE, manage |-> FALSE, pending |-> FALSE, off |-> FALSE]
Idle == [pc |-> "idle", id |-> NoId, created |-> FALSE, want |-> FALSE]

Init ==
  /\ invite \in BOOLEAN /\ users = User /\ granted = {} /\ unlinked = {}
  /\ row = [u \in User |-> NoRow] /\ remote \in [Id -> {"none", "on"}] /\ admin = {}
  /\ todo = {} /\ op = [u \in User |-> Idle] /\ made = {} /\ astray = {} /\ touched = {} /\ fault = 0

TypeOK ==
  /\ granted \subseteq users /\ unlinked \subseteq users /\ todo \subseteq User
  /\ \A u \in User : /\ row[u].id \in Id \union {NoId} /\ row[u].id = NoId => row[u] = NoRow
                     /\ op[u].pc \in {"idle", "replace", "look", "create", "insert", "undo", "grant",
                                      "mark", "ask", "set", "stamp", "leave"}
  /\ \A u, v \in User : row[u].id = row[v].id /\ u # v => row[u].id = NoId
  /\ \A i \in Id : remote[i] \in {"none", "on", "off"} /\ (invite => remote[i] # "off")

Fails == fault < MaxFault /\ fault' = fault + 1
Free(u) == u \in users /\ op[u].pc = "idle"
At(u, pc) == op[u].pc = pc
Goto(u, pc) == op' = [op EXCEPT ![u].pc = pc]
Stop(u) == op' = [op EXCEPT ![u] = Idle]
HasRow(u) == row[u].id # NoId
Taken(i, u) == \E v \in User \ {u} : row[v].id = i
(* Nobody links an account that is just being made for another user.       *)
BeingMade(i) == \E v \in User : op[v].id = i /\ op[v].created
Off == IF invite THEN "none" ELSE "off"

world == <<invite, users, granted, unlinked, todo>>
server == <<remote, admin>>
history == <<made, astray, touched>>

---------------------------------------------------------------------------
(* Grants.  The write is followed by OnGrantsChanged.                      *)
Grant(u) ==
  /\ u \in users \ granted /\ granted' = granted \union {u} /\ todo' = todo \union {u}
  /\ UNCHANGED <<invite, users, unlinked, row, op, fault>> /\ UNCHANGED server /\ UNCHANGED history

Revoke(u) ==
  /\ u \in granted /\ granted' = granted \ {u} /\ todo' = todo \union {u}
  /\ UNCHANGED <<invite, users, unlinked, row, op, fault>> /\ UNCHANGED server /\ UNCHANGED history

---------------------------------------------------------------------------
(* CreateAccount, RequestInvite, LinkOwnAccount: self-service.  A row is a *)
(* claim; one whose account is gone is dropped.                            *)
Dropped(u) == [row EXCEPT ![u] = NoRow]
Vacant(u) == HasRow(u) => remote[row[u].id] = "none"

Create(u, i) ==
  /\ ~invite /\ Free(u) /\ u \in granted /\ Vacant(u) /\ remote[i] = "none"
  /\ row' = Dropped(u) /\ op' = [op EXCEPT ![u] = [Idle EXCEPT !.pc = "create", !.id = i]]
  /\ UNCHANGED fault /\ UNCHANGED world /\ UNCHANGED server /\ UNCHANGED history

LinkOwn(u, i) ==
  /\ ~invite /\ Free(u) /\ u \in granted /\ Vacant(u) /\ remote[i] = "on"
  /\ ~Taken(i, u) /\ ~BeingMade(i)
  /\ row' = Dropped(u) /\ op' = [op EXCEPT ![u] = [Idle EXCEPT !.pc = "insert", !.id = i]]
  /\ UNCHANGED fault /\ UNCHANGED world /\ UNCHANGED server /\ UNCHANGED history

(* The automatic invitation, of inviteGranted, is not sent after an unlink.*)
Invite(u, i, auto) ==
  /\ invite /\ Free(u) /\ u \in granted /\ ~Taken(i, u)
  /\ auto => u \notin unlinked /\ ~HasRow(u)
  /\ \/ /\ Vacant(u) /\ row[u].id \in {NoId, i} /\ row' = Dropped(u)
        /\ op' = [op EXCEPT ![u] = [Idle EXCEPT !.pc = "look", !.id = i]]
     \/ /\ HasRow(u) /\ row[u].id # i /\ row[u].created /\ row[u].manage /\ row[u].id \notin admin
        /\ op' = [op EXCEPT ![u] = [Idle EXCEPT !.pc = "replace", !.id = i]] /\ UNCHANGED row
  /\ UNCHANGED fault /\ UNCHANGED world /\ UNCHANGED server /\ UNCHANGED history

(* The share sent to the address before is removed, then its row.          *)
Replace(u) ==
  /\ At(u, "replace")
  /\ \/ /\ remote' = [remote EXCEPT ![row[u].id] = Off] /\ row' = Dropped(u) /\ Goto(u, "look")
        /\ UNCHANGED <<fault, astray>>
     \/ /\ Fails /\ Stop(u) /\ UNCHANGED <<row, astray>>
        /\ remote' \in {remote, [remote EXCEPT ![row[u].id] = Off]}
  /\ UNCHANGED <<admin, made, touched>> /\ UNCHANGED world

(* A share that is there already is adopted.                               *)
Look(u) ==
  /\ At(u, "look")
  /\ \/ Goto(u, IF remote[op[u].id] = "none" THEN "create" ELSE "insert") /\ UNCHANGED fault
     \/ Fails /\ Stop(u)
  /\ UNCHANGED row /\ UNCHANGED world /\ UNCHANGED server /\ UNCHANGED history

(* An account that exists by now is refused; an address that is shared by  *)
(* now is answered with that share.                                        *)
CreateRemote(u) ==
  LET i == op[u].id
      on == [remote EXCEPT ![i] = "on"]
  IN /\ At(u, "create")
     /\ \/ /\ remote[i] = "none" \/ invite
           /\ remote' = on /\ made' = IF remote[i] = "none" THEN made \union {i} ELSE made
           /\ op' = [op EXCEPT ![u].pc = "insert", ![u].created = TRUE] /\ UNCHANGED <<astray, fault>>
        \/ remote[i] # "none" /\ ~invite /\ Stop(u) /\ UNCHANGED <<remote, made, astray, fault>>
        \/ /\ Fails /\ Stop(u) /\ remote' \in {remote, on}
           /\ made' = made \union {i} /\ astray' = astray \union {i}
     /\ touched' = IF Taken(i, u) THEN touched \union {i} ELSE touched
     /\ UNCHANGED <<row, admin>> /\ UNCHANGED world

(* insertAccount, guarded by the grant in one statement.  Whatever it      *)
(* could not record of a new account is undone, unless the share is        *)
(* another user's.                                                         *)
KeepsUnrecorded(u) == FALSE
Undoes(u) == op[u].created /\ ~(invite /\ u \in granted /\ Taken(op[u].id, u))
Insert(u) ==
  LET i == op[u].id
      refused == IF Undoes(u) THEN Goto(u, "undo") ELSE Stop(u)
  IN /\ At(u, "insert")
     /\ \/ /\ u \in granted /\ ~Taken(i, u) /\ Stop(u)
           /\ row' = [row EXCEPT ![u] = [NoRow EXCEPT !.id = i, !.created = op[u].created,
                                         !.manage = op[u].created /\ ~(invite /\ i \in admin)]]
           /\ unlinked' = unlinked \ {u} /\ UNCHANGED fault
        \/ (u \notin granted \/ Taken(i, u)) /\ refused /\ UNCHANGED <<row, unlinked, fault>>
        \/ Fails /\ refused /\ UNCHANGED <<row, unlinked>>
     /\ UNCHANGED <<invite, users, granted, todo>> /\ UNCHANGED server /\ UNCHANGED history

(* rollbackCreate: it is tried once.                                       *)
Undo(u) ==
  /\ At(u, "undo") /\ Stop(u)
  /\ \/ remote' = [remote EXCEPT ![op[u].id] = "none"] /\ UNCHANGED <<astray, fault>>
     \/ Fails /\ astray' = astray \union {op[u].id} /\ UNCHANGED remote
  /\ UNCHANGED <<row, admin, made, touched>> /\ UNCHANGED world

---------------------------------------------------------------------------
(* What an administrator does.                                             *)

(* LinkAccount: the row, then the grant, then the account follows it.      *)
Link(u, i, manage) ==
  /\ Free(u) /\ remote[i] # "none" /\ ~BeingMade(i) /\ op' = [op EXCEPT ![u].pc = "grant"]
  /\ \/ row[u].id = i /\ UNCHANGED <<row, unlinked>>
     \/ /\ ~HasRow(u) /\ ~Taken(i, u) /\ unlinked' = unlinked \ {u}
        /\ LET m == manage /\ i \notin admin
           IN row' = [row EXCEPT ![u] = [NoRow EXCEPT !.id = i, !.manage = m, !.pending = m]]
  /\ UNCHANGED <<invite, users, granted, todo, fault>> /\ UNCHANGED server /\ UNCHANGED history

LinkGrant(u) ==
  /\ At(u, "grant")
  /\ \/ granted' = granted \union {u} /\ Goto(u, "mark") /\ UNCHANGED fault
     \/ Fails /\ Stop(u) /\ UNCHANGED granted
  /\ UNCHANGED <<invite, users, unlinked, todo, row>> /\ UNCHANGED server /\ UNCHANGED history

(* UnlinkAccount forgets the row, and nothing else.                        *)
Unlink(u) ==
  /\ Free(u) /\ HasRow(u) /\ row' = Dropped(u) /\ unlinked' = unlinked \union {u}
  /\ astray' = astray \union {row[u].id}
  /\ UNCHANGED <<invite, users, granted, todo, op, made, touched, fault>> /\ UNCHANGED server

SetManagement(u, manage) ==
  /\ Free(u) /\ HasRow(u)
  /\ manage => remote[row[u].id] # "none" /\ row[u].id \notin admin
  /\ row' = [row EXCEPT ![u].manage = manage, ![u].pending = manage]
  /\ IF manage THEN Goto(u, "mark") ELSE UNCHANGED op
  /\ UNCHANGED fault /\ UNCHANGED world /\ UNCHANGED server /\ UNCHANGED history

(* Deleting a user waits for the user's lock (BeforeUserDelete) and takes  *)
(* the row; the account it named is then switched off, once.               *)
Delete(u) ==
  /\ Free(u) /\ users' = users \ {u} /\ granted' = granted \ {u} /\ unlinked' = unlinked \ {u}
  /\ row' = Dropped(u)
  /\ IF row[u].manage THEN op' = [op EXCEPT ![u] = [Idle EXCEPT !.pc = "leave", !.id = row[u].id]] /\ UNCHANGED astray
     ELSE astray' = astray \union ({row[u].id} \ {NoId}) /\ UNCHANGED op
  /\ UNCHANGED <<invite, todo, made, touched, fault>> /\ UNCHANGED server

SwitchOff(u) ==
  LET i == op[u].id
  IN /\ At(u, "leave") /\ Stop(u)
     /\ \/ remote' = (IF remote[i] = "on" /\ i \notin admin THEN [remote EXCEPT ![i] = Off] ELSE remote)
           /\ astray' = (IF i \in admin THEN astray \union {i} ELSE astray) /\ UNCHANGED fault
        \/ Fails /\ astray' = astray \union {i} /\ UNCHANGED remote
     /\ touched' = IF Taken(i, u) THEN touched \union {i} ELSE touched
     /\ UNCHANGED <<row, admin, made>> /\ UNCHANGED world

---------------------------------------------------------------------------
(* reconcileUser, of OnGrantsChanged and of the sweep.                     *)

DriftedByStamp == {u \in User : row[u].manage /\ row[u].off = (u \in granted)}
Drifted == {u \in User : row[u].manage /\ (row[u].pending \/ row[u].off = (u \in granted))}
Sweep ==
  /\ todo' = todo \union Drifted /\ todo' # todo
  /\ UNCHANGED <<invite, users, granted, unlinked, row, op, fault>> /\ UNCHANGED server /\ UNCHANGED history

Take(u) ==
  /\ u \in todo /\ op[u].pc = "idle" /\ todo' = todo \ {u} /\ Goto(u, "mark")
  /\ UNCHANGED <<invite, users, granted, unlinked, row, fault>> /\ UNCHANGED server /\ UNCHANGED history

(* What is intended is remembered before anything is asked of the server.  *)
ForgetsIntent(u) == row
Marked(u) == [row EXCEPT ![u].pending = TRUE]
Mark(u) ==
  /\ At(u, "mark")
  /\ IF ~row[u].manage THEN Stop(u) /\ UNCHANGED <<row, fault>>
     ELSE \/ row' = Marked(u) /\ Goto(u, "ask") /\ UNCHANGED fault
          \/ Fails /\ Stop(u) /\ UNCHANGED row
  /\ UNCHANGED world /\ UNCHANGED server /\ UNCHANGED history

Stamped(u, off) == [row EXCEPT ![u].off = off, ![u].pending = FALSE]

(* The account, then the grant, are read.  An administrator is never       *)
(* managed; a share that is gone is sent again if Cantinarr removed it.    *)
Ask(u) ==
  LET i == row[u].id
      want == u \notin granted
      missing == remote[i] = "none"
      set == op' = [op EXCEPT ![u].pc = "set", ![u].want = want] /\ UNCHANGED row
  IN /\ At(u, "ask")
     /\ \/ Fails /\ Stop(u) /\ UNCHANGED row
        \/ /\ ~missing /\ i \in admin /\ Stop(u) /\ UNCHANGED fault
           /\ row' = [row EXCEPT ![u].manage = FALSE, ![u].pending = FALSE]
        \/ missing /\ ~invite /\ Stop(u) /\ UNCHANGED <<row, fault>>
        \/ /\ missing /\ invite /\ UNCHANGED fault
           /\ IF ~want /\ row[u].off THEN set ELSE Stop(u) /\ row' = Stamped(u, want)
        \/ /\ ~missing /\ i \notin admin /\ UNCHANGED fault
           /\ IF want # (remote[i] = "off") THEN set
              ELSE op' = [op EXCEPT ![u].pc = "stamp", ![u].want = want] /\ UNCHANGED row
     /\ UNCHANGED world /\ UNCHANGED server /\ UNCHANGED history

(* SetDisabled, or the invitation sent again.                              *)
Set(u) ==
  LET i == row[u].id
      done == [remote EXCEPT ![i] = IF op[u].want THEN Off ELSE "on"]
  IN /\ At(u, "set")
     /\ \/ (remote[i] # "none" \/ invite) /\ remote' = done /\ Goto(u, "stamp") /\ UNCHANGED fault
        \/ remote[i] = "none" /\ ~invite /\ Stop(u) /\ UNCHANGED <<remote, fault>>
        \/ Fails /\ Stop(u) /\ remote' \in {remote, IF remote[i] = "none" /\ ~invite THEN remote ELSE done}
     /\ UNCHANGED <<row, admin>> /\ UNCHANGED world /\ UNCHANGED history

Stamp(u) ==
  /\ At(u, "stamp") /\ Stop(u)
  /\ \/ row' = Stamped(u, op[u].want) /\ UNCHANGED fault
     \/ Fails /\ UNCHANGED row
  /\ UNCHANGED world /\ UNCHANGED server /\ UNCHANGED history

---------------------------------------------------------------------------
(* The server's own administrator changes an account.                      *)
ByHand(i) ==
  /\ Fails /\ touched' = touched \union {i}
  /\ \/ remote' \in {[remote EXCEPT ![i] = s] : s \in {"none", "on", Off}} \ {remote} /\ admin' = admin \ {i}
     \/ remote[i] # "none" /\ i \notin admin /\ admin' = admin \union {i} /\ UNCHANGED remote
  /\ UNCHANGED <<row, op, made, astray>> /\ UNCHANGED world

Crash ==
  /\ Fails /\ todo' = {} /\ op' = [u \in User |-> Idle]
  /\ astray' = astray \union ({op[u].id : u \in User} \ {NoId})
  /\ UNCHANGED <<invite, users, granted, unlinked, row, made, touched>> /\ UNCHANGED server

Reconcile(u) == Mark(u) \/ Ask(u) \/ Set(u) \/ Stamp(u)
Working(u) == Replace(u) \/ Look(u) \/ CreateRemote(u) \/ Insert(u) \/ Undo(u) \/ LinkGrant(u) \/ SwitchOff(u)

Next ==
  \/ \E u \in User : \/ Grant(u) \/ Revoke(u) \/ Unlink(u) \/ Delete(u) \/ Take(u)
                     \/ Reconcile(u) \/ Working(u)
                     \/ \E i \in Id : Create(u, i) \/ LinkOwn(u, i)
                     \/ \E i \in Id, b \in BOOLEAN : Invite(u, i, b) \/ Link(u, i, b)
                     \/ \E b \in BOOLEAN : SetManagement(u, b)
  \/ Sweep \/ Crash
  \/ \E i \in Id : ByHand(i)

Spec == Init /\ [][Next]_vars

(* The sweep comes again, a mutex is handed on to whoever waits, and what  *)
(* holds it goes on.                                                       *)
Fairness ==
  /\ WF_vars(Sweep)
  /\ \A u \in User : SF_vars(Take(u)) /\ WF_vars(Reconcile(u)) /\ WF_vars(Working(u))

(* A managed account whose row is settled is as the row says, unless it    *)
(* was changed by hand: an access change in doubt is never taken for done  *)
(* (reconcileAccountLocked).                                               *)
SettledIsTrue ==
  \A u \in User : row[u].manage /\ ~row[u].pending /\ row[u].id \notin touched \union admin =>
    remote[row[u].id] \in IF row[u].off THEN {"none", Off} ELSE {"none", "on"}

(* An account Cantinarr made, and did not let go of, is recorded or being  *)
(* recorded, whatever happened to the grant meanwhile (CreateAccount,      *)
(* "undo the remote side so nothing unrestricted survives").               *)
MadeIsRecorded ==
  \A i \in made \ (astray \union touched) : remote[i] = "on" =>
    \E u \in User : row[u].id = i \/ (op[u].id = i /\ op[u].pc # "idle")

(* A managed account ends with the access the grant says, though replies   *)
(* are lost and the server restarts (SweepAccountDrift).                   *)
AccessConverges ==
  \A u \in User :
    LET wrong == /\ row[u].manage /\ row[u].id \notin touched \union admin
                 /\ remote[row[u].id] = IF u \in granted THEN "off" ELSE "on"
    IN wrong ~> ~wrong
=============================================================================
