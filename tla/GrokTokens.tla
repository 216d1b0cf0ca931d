----------------------------- MODULE GrokTokens -----------------------------
(***************************************************************************)
(* The xAI authorization of one account (server/internal/grokoauth):       *)
(* linking by a device login, refreshing by whoever needs a token, and     *)
(* unlinking.                                                              *)
(*                                                                         *)
(* xAI replaces the refresh token at every refresh and takes the old one   *)
(* once.  A pair is the grant it belongs to and the number of the refresh  *)
(* that brought it; every grant of this account has both.                  *)
(***************************************************************************)
EXTENDS Naturals

CONSTANTS
  Caller, NoCaller, \* goroutines in AccessToken
  Flow, NoFlow,     \* device logins
  MaxGrant,         \* bound on authorizations given
  MaxRefresh,       \* bound on refreshes of a grant
  MaxFault          \* bound on lost replies, failed writes and restarts

VARIABLES
  row,       \* user_grok_accounts: its pair, or NoPair
  pending,   \* pendingAuth: the pair that could not be saved, or NoPair
  lock,      \* accountLocks: who holds it
  caller,    \* each caller: next step, and the pair it works with
  slot,      \* accountFlows: nothing, reserved, or the flow
  flow,      \* each flow: its step, and the grant it got
  open,      \* flows that can be polled (flows)
  current,   \* xAI: the refresh token of each grant, 0 before it is given
  aged,      \* pairs of a grant up to this one have an expiring access token
  again,     \* history: grants of which xAI saw a consumed token
  lost,      \* history: grants whose newest pair was lost with a reply or the process
  gone,      \* history: grants that were unlinked
  fault

vars == <<row, pending, lock, caller, slot, flow, open, current, aged, again, lost, gone, fault>>

Grant == 1 .. MaxGrant
Pair == [grant : Grant, no : 1 .. MaxRefresh]
NoPair == [grant |-> 0, no |-> 0]
Reserved == "reserved"
Idle == [pc |-> "idle", pair |-> NoPair]
Unused == [pc |-> "none", grant |-> 0]

Init ==
  /\ row = NoPair /\ pending = NoPair /\ lock = NoCaller /\ caller = [c \in Caller |-> Idle]
  /\ slot = NoFlow /\ flow = [d \in Flow |-> Unused] /\ open = {}
  /\ current = [g \in Grant |-> 0] /\ aged = [g \in Grant |-> 0]
  /\ again = {} /\ lost = {} /\ gone = {} /\ fault = 0

TypeOK ==
  /\ row \in Pair \union {NoPair} /\ pending \in Pair \union {NoPair}
  /\ lock \in Caller \union {NoCaller} /\ open \subseteq Flow
  /\ \A c \in Caller : /\ caller[c].pc \in {"idle", "wait", "land", "send", "save"}
                       /\ caller[c].pair \in Pair \union {NoPair}
                       /\ caller[c].pc \in {"land", "send", "save"} <=> lock = c
  /\ slot \in Flow \union {NoFlow, Reserved}
  /\ current \in [Grant -> 0 .. MaxRefresh] /\ aged \in [Grant -> 0 .. MaxRefresh]

Expiring(p) == p.no <= aged[p.grant]
Lost == fault < MaxFault /\ fault' = fault + 1

account == <<row, pending, lock, caller>>
logins == <<slot, flow, open>>
upstream == <<current, aged, again>>

---------------------------------------------------------------------------
(* A device login.                                                         *)

Removed(d) == slot' = (IF slot = d THEN NoFlow ELSE slot) /\ open' = open \ {d}
Ended(d) == IF flow[d].pc = "shown" THEN [flow EXCEPT ![d] = Unused] ELSE flow

(* BeginDeviceLogin of an account that is not linked: it takes the place   *)
(* of a login that waits, and refuses while one is being started.          *)
Begin(d) ==
  /\ flow[d].pc = "none" /\ row = NoPair /\ slot # Reserved
  /\ slot' = Reserved /\ open' = open \ {slot}
  /\ flow' = [IF slot \in Flow THEN Ended(slot) ELSE flow EXCEPT ![d].pc = "start"]
  /\ UNCHANGED <<lost, gone, fault>> /\ UNCHANGED account /\ UNCHANGED upstream

(* xAI answers with a code to show, or it does not.                        *)
Publish(d) ==
  /\ flow[d].pc = "start"
  /\ \/ slot' = d /\ open' = open \union {d} /\ flow' = [flow EXCEPT ![d].pc = "shown"]
     \/ slot' = (IF slot = Reserved THEN NoFlow ELSE slot) /\ flow' = [flow EXCEPT ![d] = Unused]
        /\ UNCHANGED open
  /\ UNCHANGED <<lost, gone, fault>> /\ UNCHANGED account /\ UNCHANGED upstream

Poll(d) ==
  /\ d \in open /\ flow[d].pc = "shown"
  /\ flow' = [flow EXCEPT ![d].pc = "poll"]
  /\ UNCHANGED <<slot, open, lost, gone, fault>> /\ UNCHANGED account /\ UNCHANGED upstream

(* The person has approved, not yet, or refused.                           *)
Answer(d) ==
  /\ flow[d].pc = "poll"
  /\ \/ \E g \in Grant :
          /\ current[g] = 0 /\ \A h \in Grant : h < g => current[h] > 0
          /\ current' = [current EXCEPT ![g] = 1]
          /\ flow' = [flow EXCEPT ![d] = [pc |-> "save", grant |-> g]] /\ UNCHANGED <<slot, open>>
     \/ flow' = [flow EXCEPT ![d].pc = "shown"] /\ UNCHANGED <<current, slot, open>>
     \/ flow' = [flow EXCEPT ![d] = Unused] /\ Removed(d) /\ UNCHANGED current
  /\ UNCHANGED <<aged, again, lost, gone, fault>> /\ UNCHANGED account

(* saveAccount inserts or replaces the row, and removes the flow.          *)
Link(d) ==
  /\ flow[d].pc = "save"
  /\ \/ row' = [grant |-> flow[d].grant, no |-> 1] /\ UNCHANGED fault
     \/ Lost /\ UNCHANGED row
  /\ flow' = [flow EXCEPT ![d] = Unused] /\ Removed(d)
  /\ UNCHANGED <<pending, lock, caller, lost, gone>> /\ UNCHANGED upstream

(* CancelDeviceLogin, or the login expires.                                *)
Cancel(d) ==
  /\ d \in open /\ Removed(d) /\ flow' = Ended(d)
  /\ UNCHANGED <<lost, gone, fault>> /\ UNCHANGED account /\ UNCHANGED upstream

(* UnlinkAccount does not wait for the account's lock.                     *)
Unlink ==
  /\ slot' = NoFlow /\ open' = open \ {slot}
  /\ flow' = IF slot \in Flow THEN Ended(slot) ELSE flow
  /\ row' = NoPair /\ pending' = NoPair
  /\ gone' = gone \union ({row.grant, pending.grant} \ {0})
  /\ UNCHANGED <<lock, caller, lost, fault>> /\ UNCHANGED upstream

---------------------------------------------------------------------------
(* AccessToken.                                                            *)

Goto(c, pc, p) == caller' = [caller EXCEPT ![c] = [pc |-> pc, pair |-> p]]
Return(c) == caller' = [caller EXCEPT ![c] = Idle] /\ lock' = NoCaller

(* The fast path, which takes no lock, returns a token that is not         *)
(* expiring; it changes nothing.                                           *)
Call(c) ==
  /\ caller[c].pc = "idle"
  /\ pending # NoPair \/ (row # NoPair /\ Expiring(row))
  /\ Goto(c, "wait", NoPair)
  /\ UNCHANGED <<row, pending, lock, lost, gone, fault>> /\ UNCHANGED logins /\ UNCHANGED upstream

AtOnce == TRUE
Unlocked == lock = NoCaller

Load(c) ==
  /\ caller[c].pc = "wait" /\ Unlocked
  /\ IF row = NoPair
     THEN pending' = NoPair /\ Goto(c, "idle", NoPair) /\ UNCHANGED lock
     ELSE lock' = c /\ Goto(c, "land", row) /\ UNCHANGED pending
  /\ UNCHANGED <<row, lost, gone, fault>> /\ UNCHANGED logins /\ UNCHANGED upstream

(* saveRefreshedAuth: the row takes the pair, if there is a row.           *)
Saved(p) == row # NoPair /\ row' = p

(* A pair that is pending is the newest; it is saved now, or stays.        *)
NewestIfSaved(p) == p
Newest(p) == IF pending # NoPair THEN pending ELSE p
Land(c) ==
  /\ caller[c].pc = "land"
  /\ LET p == Newest(caller[c].pair) IN
     /\ \/ pending # NoPair /\ Saved(pending) /\ pending' = NoPair /\ UNCHANGED fault
        \/ pending # NoPair /\ row = NoPair /\ UNCHANGED <<row, pending, fault>>
        \/ pending # NoPair /\ Lost /\ UNCHANGED <<row, pending>>
        \/ pending = NoPair /\ UNCHANGED <<row, pending, fault>>
     /\ IF Expiring(p) THEN Goto(c, "send", p) /\ UNCHANGED lock ELSE Return(c)
  /\ UNCHANGED <<lost, gone>> /\ UNCHANGED logins /\ UNCHANGED upstream

(* xAI takes the newest token and hands out its successor, or does not     *)
(* hear of it; it refuses one that is consumed.                            *)
Send(c) ==
  /\ caller[c].pc = "send"
  /\ LET p == caller[c].pair
         next == [p EXCEPT !.no = @ + 1]
         newest == p.no = current[p.grant]
     IN \/ /\ newest /\ p.no < MaxRefresh
           /\ current' = [current EXCEPT ![p.grant] = next.no]
           /\ \/ Goto(c, "save", next) /\ UNCHANGED <<lock, lost, fault>>
              \/ Lost /\ Return(c) /\ lost' = lost \union {p.grant}
           /\ UNCHANGED again
        \/ /\ Return(c) /\ again' = IF newest THEN again ELSE again \union {p.grant}
           /\ UNCHANGED <<current, lost, fault>>
  /\ UNCHANGED <<row, pending, aged, gone>> /\ UNCHANGED logins

UnsavedForgotten(p) == pending
Unsaved(p) == p
Save(c) ==
  /\ caller[c].pc = "save" /\ Return(c)
  /\ LET p == caller[c].pair IN
     \/ Saved(p) /\ pending' = NoPair /\ UNCHANGED fault
     \/ row = NoPair /\ pending' = Unsaved(p) /\ UNCHANGED <<row, fault>>
     \/ Lost /\ pending' = Unsaved(p) /\ UNCHANGED row
  /\ UNCHANGED <<lost, gone>> /\ UNCHANGED logins /\ UNCHANGED upstream

---------------------------------------------------------------------------
Age(g) ==
  /\ aged[g] < current[g] /\ aged' = [aged EXCEPT ![g] = current[g]]
  /\ UNCHANGED <<current, again, lost, gone, fault>> /\ UNCHANGED account /\ UNCHANGED logins

(* A restart: what was not in the database is gone.                        *)
Crash ==
  /\ Lost
  /\ lost' = lost \union {pending.grant} \union {caller[c].pair.grant : c \in {c \in Caller : caller[c].pc = "save"}}
  /\ pending' = NoPair /\ lock' = NoCaller /\ caller' = [c \in Caller |-> Idle]
  /\ slot' = NoFlow /\ flow' = [d \in Flow |-> Unused] /\ open' = {}
  /\ UNCHANGED <<row, gone>> /\ UNCHANGED upstream

Next ==
  \/ \E d \in Flow : Begin(d) \/ Publish(d) \/ Poll(d) \/ Answer(d) \/ Link(d) \/ Cancel(d)
  \/ \E c \in Caller : Call(c) \/ Load(c) \/ Land(c) \/ Send(c) \/ Save(c)
  \/ Unlink \/ Crash \/ \E g \in Grant : Age(g)

Spec == Init /\ [][Next]_vars

(* The only refresh token xAI still takes is never dropped: it is in the   *)
(* row, pending, or with a caller until the account is unlinked, however   *)
(* often saving it failed                                                  *)
(* (AccessToken, "its predecessor is already consumed upstream").          *)
TokenIsKept ==
  LET g == row.grant
      held == {row, pending} \union {caller[c].pair : c \in {c \in Caller : caller[c].pc = "save"}}
  IN g # 0 /\ g \notin lost \union gone => [grant |-> g, no |-> current[g]] \in held

(* A consumed token is never presented, by whichever of the callers that   *)
(* found the access token expiring ("refreshes are serialized per          *)
(* account"), unless the reply with its successor was lost or the account  *)
(* was unlinked meanwhile.                                                 *)
ConsumedOnce == again \subseteq lost \union gone
=============================================================================
