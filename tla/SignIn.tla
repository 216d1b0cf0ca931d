------------------------------- MODULE SignIn --------------------------------
(***************************************************************************)
(* Signing in (server/internal/auth): passwords, invitations, external     *)
(* single sign-on, the OAuth codes and tokens of MCP clients, and what     *)
(* takes sessions away again.                                              *)
(*                                                                         *)
(* One identity provider and one person of it, one browser flow, one code, *)
(* one user's open invitation at a time, and one MCP client.  A device is  *)
(* a pair of its user and of how it signed in; it is the same device until *)
(* it is revoked.                                                          *)
(***************************************************************************)
EXTENDS Naturals

CONSTANTS
  User, NoUser,
  Call,        \* requests being served
  MaxStart,    \* bound on requests and browser flows begun
  MaxChange,   \* bound on changes of policy, roles, passwords, links and invitations
  MaxToken,    \* bound on refresh tokens of an MCP client
  MaxFault     \* bound on failed statements and restarts

VARIABLES
  role,      \* users: their role, "new" before they exist, "gone" after
  pw,        \* users with a usable local password
  conf,      \* oidc_config: enabled, SSO-only, and the fingerprint of the rest
  tested,    \* oidc_tested: a fingerprint, 0 for none
  identity,  \* oidc_identities: whom the person is linked to
  invite,    \* connect_tokens: the last one
  device,    \* devices that are not revoked
  agent,     \* the MCP client: its device and its oauth_refresh_tokens
  code,      \* oauth_authorization_codes
  flow,      \* oidcFlows: attempt, handoff or consent
  op,        \* each request: its next step
  kept,      \* history: users demoted in a session while SSO-only
  spent, twice, relinked, \* history: invitations used, used again; links made by old flows
  starts, changes, fault

vars == <<role, pw, conf, tested, identity, invite, device, agent, code, flow, op,
          kept, spent, twice, relinked, starts, changes, fault>>

Methods == {"local", "oidc"}
NoInvite == [no |-> 0, user |-> NoUser, by |-> NoUser, st |-> "none"]
NoAgent == [user |-> NoUser, method |-> "none", on |-> FALSE, live |-> {}, next |-> 1]
NoCode == [user |-> NoUser, method |-> "none"]
NoFlow == [pc |-> "none", purpose |-> "none", user |-> NoUser, method |-> "none", inv |-> 0,
           conf |-> <<>>, fresh |-> TRUE, session |-> TRUE, old |-> FALSE]
Idle == [pc |-> "idle", user |-> NoUser, no |-> 0]

(* An administrator set the server up, and tested the configuration;       *)
(* administrators with a password are signed in.                           *)
Init ==
  /\ role \in [User -> {"admin", "user", "new"}] /\ pw \in SUBSET {u \in User : role[u] # "new"}
  /\ device = {u \in pw : role[u] = "admin"} \X {"local"} /\ device # {}
  /\ conf = [on |-> TRUE, sso |-> FALSE, print |-> 1] /\ tested = 1 /\ identity = NoUser
  /\ invite = NoInvite /\ agent = NoAgent /\ code = NoCode /\ flow = NoFlow
  /\ op = [c \in Call |-> Idle]
  /\ kept = {} /\ spent = {} /\ twice = {} /\ relinked = FALSE /\ starts = 0 /\ changes = 0 /\ fault = 0

Account(u) == role[u] \in {"admin", "user"}

TypeOK ==
  /\ pw \subseteq User /\ device \subseteq User \X Methods
  /\ \A u \in User : role[u] \in {"admin", "user", "new", "gone"}
  /\ \A d \in device : Account(d[1])
  /\ conf.sso => conf.on
  /\ identity # NoUser => Account(identity)
  /\ invite.st = "open" => Account(invite.user)
  /\ agent.on => agent.user # NoUser /\ Account(agent.user)
  /\ \A c \in Call : op[c].pc \in {"idle", "form", "issue", "device", "claim", "rotate", "mint"}

Fails == fault < MaxFault /\ fault' = fault + 1
Starts == starts < MaxStart /\ starts' = starts + 1
Changes == changes < MaxChange /\ changes' = changes + 1

(* authoritativeSession, and requireLocalSignIn.                           *)
LocalAllowed(u) == role[u] = "admin" \/ (role[u] = "user" /\ ~conf.sso)
Allowed(u, m) == m = "oidc" \/ LocalAllowed(u)
Session(u, m) == <<u, m>> \in device /\ Allowed(u, m)
Admins == {u \in User : role[u] = "admin"}
AdminIsIn == \E a \in Admins, m \in Methods : Session(a, m)

(* policyMu: a request is inside, or it waits at the form.                 *)
AtOnce == TRUE
Unlocked == \A c \in Call : op[c].pc \in {"idle", "form"}

Goto(c, pc) == op' = [op EXCEPT ![c].pc = pc]
Stop(c) == op' = [op EXCEPT ![c] = Idle]
At(c, pc) == op[c].pc = pc

settings == <<role, pw, conf, tested>>
links == <<identity, invite>>
history == <<kept, spent, twice, relinked>>

---------------------------------------------------------------------------
(* Requests that sign somebody in.                                         *)

(* Login, up to its device.                                                *)
Login(c, u) ==
  /\ Starts /\ At(c, "idle") /\ Unlocked /\ u \in pw /\ LocalAllowed(u)
  /\ op' = [op EXCEPT ![c] = [pc |-> "device", user |-> u, no |-> 0]]
  /\ UNCHANGED <<device, agent, code, flow, changes, fault>>
  /\ UNCHANGED settings /\ UNCHANGED links /\ UNCHANGED history

(* RedeemConnectToken: the link is looked at, claimed, and only then is a  *)
(* device made for its user.  SSO-only refuses it, to administrators too.  *)
Redeem(c) ==
  /\ Starts /\ At(c, "idle") /\ Unlocked /\ invite.st = "open" /\ ~conf.sso
  /\ op' = [op EXCEPT ![c] = [pc |-> "claim", user |-> invite.user, no |-> invite.no]]
  /\ UNCHANGED <<device, agent, code, flow, changes, fault>>
  /\ UNCHANGED settings /\ UNCHANGED links /\ UNCHANGED history

Claim(c) ==
  /\ At(c, "claim")
  /\ IF invite.no = op[c].no /\ invite.st = "open"
     THEN invite' = [invite EXCEPT !.st = "redeemed"] /\ Goto(c, "device")
     ELSE Stop(c) /\ UNCHANGED invite
  /\ UNCHANGED <<starts, identity, device, agent, code, flow, changes, fault>>
  /\ UNCHANGED settings /\ UNCHANGED history

Used(no) ==
  /\ twice' = (IF no \in spent THEN twice \union {no} ELSE twice)
  /\ spent' = spent \union ({no} \ {0})

(* upsertDevice and generateTokens.  A link that was claimed stays so.     *)
NewDevice(c) ==
  /\ At(c, "device") /\ Stop(c)
  /\ \/ /\ Account(op[c].user) /\ device' = device \union {<<op[c].user, "local">>}
        /\ Used(op[c].no) /\ UNCHANGED fault
     \/ Fails /\ UNCHANGED <<device, spent, twice>>
  /\ UNCHANGED <<starts, agent, code, flow, kept, relinked, changes>> /\ UNCHANGED settings /\ UNCHANGED links

(* AuthenticatePassword takes no lock; the code is issued under it, after  *)
(* the policy is looked at again (CreateOAuthAuthorizationCode).           *)
Form(c, u) ==
  /\ Starts /\ At(c, "idle") /\ u \in pw /\ LocalAllowed(u)
  /\ op' = [op EXCEPT ![c] = [pc |-> "form", user |-> u, no |-> 0]]
  /\ UNCHANGED <<device, agent, code, flow, changes, fault>>
  /\ UNCHANGED settings /\ UNCHANGED links /\ UNCHANGED history

Authorize(c) ==
  /\ At(c, "form") /\ Unlocked
  /\ IF LocalAllowed(op[c].user) THEN Goto(c, "issue") ELSE Stop(c)
  /\ UNCHANGED <<starts, device, agent, code, flow, changes, fault>>
  /\ UNCHANGED settings /\ UNCHANGED links /\ UNCHANGED history

Issue(c) ==
  /\ At(c, "issue") /\ Stop(c) /\ code' = [user |-> op[c].user, method |-> "local"]
  /\ UNCHANGED <<starts, device, agent, flow, changes, fault>>
  /\ UNCHANGED settings /\ UNCHANGED links /\ UNCHANGED history

(* ExchangeOAuthAuthorizationCode: the code is gone whatever follows, and  *)
(* what its sign-in rests on is looked at again beside the new device.     *)
Stands(k) == IF k.method = "local" THEN LocalAllowed(k.user) ELSE identity = k.user
Exchange ==
  /\ Unlocked /\ code # NoCode /\ agent = NoAgent /\ code' = NoCode
  /\ \/ /\ Stands(code) /\ UNCHANGED fault
        /\ agent' = [user |-> code.user, method |-> code.method, on |-> TRUE, live |-> {1}, next |-> 2]
     \/ ~Stands(code) /\ UNCHANGED <<agent, fault>>
     \/ Fails /\ UNCHANGED agent
  /\ UNCHANGED <<starts, device, flow, op, changes>>
  /\ UNCHANGED settings /\ UNCHANGED links /\ UNCHANGED history

(* RefreshOAuthToken: the token presented is deleted, then its successor   *)
(* is inserted.                                                            *)
Refresh(c, t) ==
  /\ Starts /\ At(c, "idle") /\ Unlocked /\ t \in agent.live /\ agent.next <= MaxToken
  /\ agent.on /\ Allowed(agent.user, agent.method)
  /\ op' = [op EXCEPT ![c] = [pc |-> "rotate", user |-> agent.user, no |-> t]]
  /\ UNCHANGED <<device, agent, code, flow, changes, fault>>
  /\ UNCHANGED settings /\ UNCHANGED links /\ UNCHANGED history

LeavesOld(t) == agent.live
Without(t) == agent.live \ {t}
Rotate(c) ==
  /\ At(c, "rotate")
  /\ IF op[c].no \in agent.live
     THEN agent' = [agent EXCEPT !.live = Without(op[c].no)] /\ Goto(c, "mint")
     ELSE Stop(c) /\ UNCHANGED agent
  /\ UNCHANGED <<starts, device, code, flow, changes, fault>>
  /\ UNCHANGED settings /\ UNCHANGED links /\ UNCHANGED history

Mint(c) ==
  /\ At(c, "mint") /\ Stop(c)
  /\ \/ agent' = [agent EXCEPT !.live = @ \union {agent.next}, !.next = @ + 1] /\ UNCHANGED fault
     \/ Fails /\ UNCHANGED agent
  /\ UNCHANGED <<starts, device, code, flow, changes>>
  /\ UNCHANGED settings /\ UNCHANGED links /\ UNCHANGED history

---------------------------------------------------------------------------
(* Single sign-on in a browser.                                            *)

(* beginOIDC.                                                              *)
BeginWith(purpose, u, m, inv) ==
  /\ Starts /\ flow.pc = "none"
  /\ flow' = [NoFlow EXCEPT !.pc = "attempt", !.purpose = purpose, !.user = u, !.method = m,
                            !.inv = inv, !.conf = conf]
  /\ UNCHANGED <<device, agent, code, op, changes, fault>>
  /\ UNCHANGED settings /\ UNCHANGED links /\ UNCHANGED history

Begin ==
  \/ conf.on /\ BeginWith("login", NoUser, "none", 0)
  \/ conf.on /\ invite.st = "open" /\ BeginWith("login", NoUser, "none", invite.no)
  \/ conf.on /\ BeginWith("mcp", NoUser, "none", 0)
  \/ \E u \in User, m \in Methods :
       /\ Session(u, m)
       /\ \/ conf.on /\ BeginWith("link", u, m, 0)
          \/ role[u] = "admin" /\ BeginWith("test", u, m, 0)

(* OIDCCallback: the attempt is taken, the provider is asked, and what it  *)
(* answered waits for the browser, whatever happened meanwhile.            *)
Callback ==
  /\ flow.pc = "attempt" /\ flow' = [flow EXCEPT !.pc = "verify"]
  /\ UNCHANGED <<starts, device, agent, code, op, changes, fault>>
  /\ UNCHANGED settings /\ UNCHANGED links /\ UNCHANGED history

Handoff ==
  /\ flow.pc = "verify" /\ flow' \in {NoFlow, [flow EXCEPT !.pc = "handoff"]}
  /\ UNCHANGED <<starts, device, agent, code, op, changes, fault>>
  /\ UNCHANGED settings /\ UNCHANGED links /\ UNCHANGED history

(* A flow expires, or its exchange is refused, in conflict or fails.       *)
Expire ==
  /\ flow.pc \in {"attempt", "handoff", "consent"} /\ flow' = NoFlow
  /\ UNCHANGED <<starts, device, agent, code, op, changes, fault>>
  /\ UNCHANGED settings /\ UNCHANGED links /\ UNCHANGED history

(* currentOIDCAttempt: no clear() since it began, and the configuration.   *)
ConfigStands(f) == f.conf = conf
Current(f) == f.fresh /\ f.conf = conf
ActorStands(f) == f.session /\ Session(f.user, f.method)

(* exchangeOIDC of a test.                                                 *)
Tested ==
  /\ flow.pc = "handoff" /\ flow.purpose = "test" /\ Unlocked /\ flow' = NoFlow
  /\ Current(flow) /\ ActorStands(flow) /\ role[flow.user] = "admin"
  /\ tested' = flow.conf.print
  /\ UNCHANGED <<starts, role, pw, conf, device, agent, code, op, changes, fault>>
  /\ UNCHANGED links /\ UNCHANGED history

(* commitOIDCIdentity, in one transaction: whom the person is, or is to be *)
(* linked to; an unknown one may get a new account.                        *)
Intended(f) ==
  IF f.purpose = "link" THEN f.user ELSE IF f.inv # 0 THEN invite.user ELSE NoUser
InviteStands(f) == f.inv # 0 => f.inv = invite.no /\ invite.st = "open"
Linked(f) ==
  IF identity # NoUser THEN {identity}
  ELSE IF Intended(f) # NoUser THEN {Intended(f)} ELSE {u \in User : role[u] = "new"}

Commit(u) ==
  /\ flow.pc = "handoff" /\ flow.purpose # "test" /\ Unlocked
  /\ Current(flow) /\ (flow.purpose = "link" => ActorStands(flow))
  /\ InviteStands(flow) /\ Intended(flow) \in {u, NoUser} /\ u \in Linked(flow)
  /\ identity' = u /\ relinked' = (relinked \/ (identity = NoUser /\ flow.old))
  /\ role' = [role EXCEPT ![u] = IF @ = "new" THEN "user" ELSE @]
  /\ invite' = IF flow.inv # 0 THEN [invite EXCEPT !.st = "redeemed"] ELSE invite
  /\ Used(flow.inv)
  /\ device' = IF flow.purpose = "login" THEN device \union {<<u, "oidc">>} ELSE device
  /\ flow' = IF flow.purpose = "mcp" THEN [flow EXCEPT !.pc = "consent", !.user = u] ELSE NoFlow
  /\ UNCHANGED <<starts, pw, conf, tested, agent, code, op, kept, changes, fault>>

(* authorizeExternal: the consent becomes a code.                          *)
Consent ==
  /\ flow.pc = "consent" /\ Unlocked /\ flow' = NoFlow
  /\ code' = IF conf.on /\ conf.print = flow.conf.print /\ identity = flow.user
             THEN [user |-> flow.user, method |-> "oidc"] ELSE code
  /\ UNCHANGED <<starts, device, agent, op, changes, fault>>
  /\ UNCHANGED settings /\ UNCHANGED links /\ UNCHANGED history

---------------------------------------------------------------------------
(* What takes sessions away.                                               *)

(* oidcFlowStore.clear.  What is with the provider is not in the store.    *)
Cleared(f) == IF f.pc = "verify" THEN [f EXCEPT !.fresh = FALSE] ELSE NoFlow
Off(a, revoked) == IF revoked THEN [a EXCEPT !.on = FALSE] ELSE a

(* oidcRecoveryCount, without a user.                                      *)
AdminsLeft(u) == Admins \ {u}
Recovery(u) == (Admins \ {u}) \intersect pw
CanSpare(u) == Admins \ {u} # {} /\ (conf.sso => Recovery(u) # {})

(* saveOIDCConfig.                                                         *)
Save(on, sso, print) ==
  LET out == IF sso THEN {u \in User : role[u] # "admin"} ELSE {}
  IN /\ Changes /\ Unlocked /\ AdminIsIn /\ (sso => on)
     /\ sso => tested = conf.print /\ print = conf.print /\ Recovery(NoUser) # {}
     /\ conf' = [on |-> on, sso |-> sso, print |-> print]
     /\ device' = device \ (out \X {"local"})
     /\ agent' = Off(agent, agent.method = "local" /\ agent.user \in out)
     /\ code' = IF code.method = "local" /\ code.user \in out THEN NoCode ELSE code
     /\ flow' = Cleared(flow) /\ kept' = IF sso THEN {} ELSE kept
     /\ UNCHANGED <<starts, role, pw, tested, op, spent, twice, relinked, fault>> /\ UNCHANGED links

(* unlinkOIDC, by the user, who needs another way in, or an administrator. *)
Unlink(u) ==
  /\ Changes /\ Unlocked /\ identity = u
  /\ \/ u \in pw /\ LocalAllowed(u) /\ \E m \in Methods : Session(u, m)
     \/ \E a \in Admins \ {u}, m \in Methods : Session(a, m)
  /\ identity' = NoUser /\ device' = device \ {<<u, "oidc">>}
  /\ agent' = Off(agent, agent.method = "oidc" /\ agent.user = u)
  /\ code' = IF code.method = "oidc" /\ code.user = u THEN NoCode ELSE code
  /\ flow' = IF flow.pc = "verify" THEN [Cleared(flow) EXCEPT !.old = TRUE] ELSE Cleared(flow)
  /\ UNCHANGED <<starts, invite, op, fault>> /\ UNCHANGED settings /\ UNCHANGED history

(* UpdateUserRole.                                                         *)
SetRole(u) ==
  /\ Changes /\ Unlocked /\ AdminIsIn /\ Account(u)
  /\ role[u] = "admin" => CanSpare(u)
  /\ role' = [role EXCEPT ![u] = IF @ = "admin" THEN "user" ELSE "admin"]
  /\ kept' = IF role[u] = "admin" /\ conf.sso THEN kept \union {u} ELSE kept
  /\ UNCHANGED <<starts, pw, conf, tested, device, agent, code, flow, op, spent, twice, relinked, fault>>
  /\ UNCHANGED links

(* DeleteUser, and what cascades.                                          *)
Delete(u) ==
  /\ Changes /\ Unlocked /\ Account(u) /\ (role[u] = "admin" => CanSpare(u))
  /\ \E a \in Admins \ {u}, m \in Methods : Session(a, m)
  /\ role' = [role EXCEPT ![u] = "gone"] /\ pw' = pw \ {u}
  /\ identity' = (IF identity = u THEN NoUser ELSE identity)
  /\ invite' = IF u \in {invite.user, invite.by} THEN [NoInvite EXCEPT !.no = invite.no] ELSE invite
  /\ device' = device \ ({u} \X Methods)
  /\ agent' = (IF agent.user = u THEN NoAgent ELSE agent)
  /\ code' = IF code.user = u THEN NoCode ELSE code
  /\ flow' = [flow EXCEPT !.session = @ /\ flow.user # u]
  /\ UNCHANGED <<starts, conf, tested, op, fault>> /\ UNCHANGED history

(* RevokeDevice takes no lock.                                             *)
Revoke(u, m) ==
  /\ Changes
  /\ \/ /\ <<u, m>> \in device /\ device' = device \ {<<u, m>>} /\ UNCHANGED agent
        /\ flow' = [flow EXCEPT !.session = @ /\ <<flow.user, flow.method>> # <<u, m>>]
     \/ /\ agent.on /\ agent.user = u /\ agent.method = m
        /\ agent' = [agent EXCEPT !.on = FALSE, !.live = {}] /\ UNCHANGED <<device, flow>>
  /\ UNCHANGED <<starts, code, op, fault>> /\ UNCHANGED settings /\ UNCHANGED links /\ UNCHANGED history

(* SetPassword and SetUserAuthMethods, which takes a regular user's        *)
(* password away; neither takes the lock.                                  *)
SetPassword(u) ==
  /\ Changes
  /\ \/ u \notin pw /\ (\E m \in Methods : Session(u, m)) /\ pw' = pw \union {u}
     \/ u \in pw /\ role[u] = "user" /\ AdminIsIn /\ pw' = pw \ {u}
  /\ UNCHANGED <<starts, role, conf, tested, device, agent, code, flow, op, fault>>
  /\ UNCHANGED links /\ UNCHANGED history

(* CreateConnectToken: a new link of any user, old or new, replaces the    *)
(* one before.  It takes no lock.                                          *)
Invite(u, by) ==
  /\ Changes /\ role[u] # "gone" /\ by \in Admins /\ \E m \in Methods : Session(by, m)
  /\ invite.st = "open" => invite.user = u
  /\ role' = [role EXCEPT ![u] = IF @ = "new" THEN "user" ELSE @]
  /\ invite' = [no |-> invite.no + 1, user |-> u, by |-> by, st |-> "open"]
  /\ UNCHANGED <<starts, pw, conf, tested, identity, device, agent, code, flow, op, fault>> /\ UNCHANGED history

(* What was only in memory is gone.                                        *)
Crash ==
  /\ flow # NoFlow \/ \E c \in Call : ~At(c, "idle")
  /\ Fails /\ flow' = NoFlow /\ op' = [c \in Call |-> Idle]
  /\ UNCHANGED <<starts, device, agent, code, changes>>
  /\ UNCHANGED settings /\ UNCHANGED links /\ UNCHANGED history

Next ==
  \/ \E c \in Call : \/ Redeem(c) \/ Claim(c) \/ NewDevice(c) \/ Authorize(c) \/ Issue(c)
                     \/ Rotate(c) \/ Mint(c)
                     \/ \E u \in User : Login(c, u) \/ Form(c, u)
                     \/ \E t \in 1 .. MaxToken : Refresh(c, t)
  \/ Exchange \/ Begin \/ Callback \/ Handoff \/ Expire \/ Tested \/ Consent
  \/ \E u \in User : \/ Commit(u) \/ Unlink(u) \/ SetRole(u) \/ Delete(u) \/ SetPassword(u)
                     \/ \E m \in Methods : Revoke(u, m)
                     \/ \E by \in User : Invite(u, by)
  \/ \E on, sso \in BOOLEAN, print \in {1, 2} : Save(on, sso, print)
  \/ Crash

Spec == Init /\ [][Next]_vars

(* While single sign-on is required, some administrator has a local        *)
(* password to get back in with, whoever is demoted or deleted             *)
(* (protectOIDCRecovery).                                                  *)
NeverLockedOut == conf.sso => Admins \intersect pw # {}

(* Requiring single sign-on leaves no local session, code or MCP client of *)
(* a regular user, those of sign-ins under way when it was saved included  *)
(* ("revokes regular users' local sessions"); a demoted administrator's    *)
(* only waits, refused.                                                    *)
NoEscape ==
  conf.sso => \A u \in User : role[u] = "user" /\ u \notin kept =>
    /\ <<u, "local">> \notin device
    /\ ~(agent.on /\ agent.user = u /\ agent.method = "local")
    /\ code # [user |-> u, method |-> "local"]

(* A sign-in that was with the provider when its identity was unlinked     *)
(* does not link it again (unlinkOIDC, "must not silently re-link").       *)
UnlinkIsFinal == ~relinked

(* Sessions that single sign-on gave end with the link they came by.       *)
SessionsFollowIdentity ==
  \A u \in User : identity # u =>
    <<u, "oidc">> \notin device /\ ~(agent.on /\ agent.user = u /\ agent.method = "oidc")

(* An invitation lets somebody in once, by whichever way, and an MCP       *)
(* client never has two refresh tokens that work.                          *)
SpentOnce == twice = {} /\ \A s, t \in agent.live : s = t
=============================================================================
