------------------------ MODULE AccountServicesProofs -------------------------
(*****************************************************************************)
(* Theorems about the services around accounts: Grok tokens, Discord alerts, *)
(* profiles and signing in, for every value of the constants of Services.   *)
(*****************************************************************************)
EXTENDS Services, TLAPS

---------------------------------------------------------------------------
(* Grok tokens.                                                            *)

Locking == {"land", "send", "save"}
GrokCaller == [pc : {"idle", "wait", "land", "send", "save"}, pair : Grok!Pair \union {Grok!NoPair}]
GrokFlow == [pc : {"none", "start", "shown", "poll", "save"}, grant : 0 .. MaxGrant]
Dead(g) == g \in gkLost \union gkGone
InHand == {gkRow, gkPending} \union {gkCaller[c].pair : c \in Party}

GrokTypes ==
  /\ gkRow \in Grok!Pair \union {Grok!NoPair} /\ gkPending \in Grok!Pair \union {Grok!NoPair}
  /\ gkCaller \in [Party -> GrokCaller] /\ gkLock \in Party \union {NoParty}
  /\ \A c \in Party : /\ gkCaller[c].pc \in Locking <=> gkLock = c
                      /\ gkCaller[c].pc \in Locking <=> gkCaller[c].pair # Grok!NoPair
  /\ gkSlot \in DeviceLogin \union {NoParty, Grok!Reserved} /\ gkOpen \subseteq DeviceLogin
  /\ gkFlow \in [DeviceLogin -> GrokFlow]
  /\ \A d \in DeviceLogin : gkFlow[d].pc = "save" => gkFlow[d].grant \in Grok!Grant
  /\ gkCurrent \in [Grok!Grant -> 0 .. MaxRenewal] /\ gkAged \in [Grok!Grant -> 0 .. MaxRenewal]

\* No pair is of a grant that xAI has not given, or newer than the newest.
GrokGiven == \A p \in InHand : p # Grok!NoPair => p.no <= gkCurrent[p.grant]

\* A grant that is still to be saved is in one login's hand alone.
GrokFresh ==
  \A d \in DeviceLogin : gkFlow[d].pc = "save" =>
    /\ gkCurrent[gkFlow[d].grant] = 1
    /\ \A p \in InHand : p.grant # gkFlow[d].grant
    /\ \A e \in DeviceLogin : e # d /\ gkFlow[e].pc = "save" => gkFlow[e].grant # gkFlow[d].grant

\* Where the newest pair of a grant is.
GrokNewest(p) == p.no = gkCurrent[p.grant] \/ Dead(p.grant)
Saving(g) == \E c \in Party : gkCaller[c].pc = "save" /\ gkCaller[c].pair.grant = g
GrokKept ==
  /\ \A c \in Party :
       /\ gkCaller[c].pc = "save" => gkCaller[c].pair.no = gkCurrent[gkCaller[c].pair.grant]
       /\ gkCaller[c].pc = "send" => GrokNewest(gkCaller[c].pair)
       /\ gkCaller[c].pc = "land" =>
            GrokNewest(gkCaller[c].pair) \/ gkPending.grant = gkCaller[c].pair.grant
       /\ gkCaller[c].pc \in {"send", "save"} /\ gkPending # Grok!NoPair => gkPending.grant = gkCaller[c].pair.grant
  /\ gkPending # Grok!NoPair => GrokNewest(gkPending) \/ Saving(gkPending.grant)
  /\ gkRow # Grok!NoPair => GrokNewest(gkRow) \/ Saving(gkRow.grant) \/ gkPending.grant = gkRow.grant

GrokInv == GrokTypes /\ GrokGiven /\ GrokFresh /\ GrokKept /\ Grok!ConsumedOnce

\* Logins change, and none has got a grant that it had not got.
LoginsKeep ==
  /\ gkFlow' \in [DeviceLogin -> GrokFlow] /\ gkSlot' \in DeviceLogin \union {NoParty, Grok!Reserved} /\ gkOpen' \subseteq DeviceLogin
  /\ \A d \in DeviceLogin : gkFlow'[d].pc = "save" => gkFlow'[d] = gkFlow[d]
CallersKeep == UNCHANGED <<gkLock, gkCaller>>
GrantsKeep == UNCHANGED <<gkCurrent, gkAged, gkAgain>>
LossesKeep == UNCHANGED <<gkLost, gkGone>>

OnlyLogins == LoginsKeep /\ CallersKeep /\ GrantsKeep /\ LossesKeep /\ UNCHANGED <<gkRow, gkPending>>
Gives ==
  \E d \in DeviceLogin, g \in Grok!Grant :
    /\ gkCurrent[g] = 0 /\ gkCurrent' = [gkCurrent EXCEPT ![g] = 1]
    /\ gkFlow' = [gkFlow EXCEPT ![d] = [pc |-> "save", grant |-> g]]
    /\ CallersKeep /\ LossesKeep /\ UNCHANGED <<gkRow, gkPending, gkSlot, gkOpen, gkAged, gkAgain>>
Links(d) ==
  /\ gkFlow[d].pc = "save" /\ LoginsKeep /\ gkFlow'[d].pc = "none"
  /\ gkRow' = [grant |-> gkFlow[d].grant, no |-> 1]
  /\ CallersKeep /\ GrantsKeep /\ LossesKeep /\ UNCHANGED gkPending
Unlinks ==
  /\ LoginsKeep /\ CallersKeep /\ GrantsKeep /\ UNCHANGED gkLost
  /\ gkRow' = Grok!NoPair /\ gkPending' = Grok!NoPair
  /\ gkGone' = gkGone \union ({gkRow.grant, gkPending.grant} \ {0})

\* A caller takes its step; it works with p from then on.
Moved(c, pc, p) ==
  /\ gkCaller' \in [Party -> GrokCaller] /\ gkCaller'[c].pc = pc /\ gkCaller'[c].pair = p
  /\ \A b \in Party \ {c} : gkCaller'[b] = gkCaller[b]
CallerStep == GrantsKeep /\ LossesKeep /\ UNCHANGED <<gkSlot, gkFlow, gkOpen>>
Calls(c) ==
  /\ gkCaller[c].pc = "idle" /\ Moved(c, "wait", Grok!NoPair)
  /\ CallerStep /\ UNCHANGED <<gkRow, gkPending, gkLock>>
Loads(c) ==
  /\ gkCaller[c].pc = "wait" /\ gkLock = NoParty /\ CallerStep /\ UNCHANGED gkRow
  /\ \/ /\ gkRow = Grok!NoPair /\ gkPending' = Grok!NoPair /\ Moved(c, "idle", Grok!NoPair)
        /\ UNCHANGED gkLock
     \/ gkRow # Grok!NoPair /\ gkLock' = c /\ Moved(c, "land", gkRow) /\ UNCHANGED gkPending
Lands(c) ==
  /\ gkCaller[c].pc = "land" /\ CallerStep
  /\ \/ gkPending # Grok!NoPair /\ gkRow' = gkPending /\ gkPending' = Grok!NoPair
     \/ UNCHANGED <<gkRow, gkPending>>
  /\ \/ Moved(c, "send", Grok!Newest(gkCaller[c].pair)) /\ UNCHANGED gkLock
     \/ Moved(c, "idle", Grok!NoPair) /\ gkLock' = NoParty
Sends(c) ==
  LET p == gkCaller[c].pair
      next == [grant |-> p.grant, no |-> p.no + 1]
  IN /\ gkCaller[c].pc = "send" /\ UNCHANGED <<gkRow, gkPending, gkAged, gkGone, gkSlot, gkFlow, gkOpen>>
     /\ \/ /\ p.no = gkCurrent[p.grant] /\ next \in Grok!Pair /\ gkAgain' = gkAgain
           /\ gkCurrent' = [gkCurrent EXCEPT ![p.grant] = p.no + 1]
           /\ \/ Moved(c, "save", next) /\ UNCHANGED <<gkLock, gkLost>>
              \/ Moved(c, "idle", Grok!NoPair) /\ gkLock' = NoParty /\ gkLost' = gkLost \union {p.grant}
        \/ /\ Moved(c, "idle", Grok!NoPair) /\ gkLock' = NoParty /\ UNCHANGED <<gkCurrent, gkLost>>
           /\ gkAgain' = IF p.no = gkCurrent[p.grant] THEN gkAgain ELSE gkAgain \union {p.grant}
Saves(c) ==
  /\ gkCaller[c].pc = "save" /\ CallerStep /\ Moved(c, "idle", Grok!NoPair) /\ gkLock' = NoParty
  /\ \/ gkRow' = gkCaller[c].pair /\ gkPending' = Grok!NoPair
     \/ gkPending' = gkCaller[c].pair /\ UNCHANGED gkRow
Ages ==
  /\ gkAged' \in [Grok!Grant -> 0 .. MaxRenewal] /\ UNCHANGED <<gkCurrent, gkAgain>> /\ CallersKeep /\ LossesKeep
  /\ UNCHANGED <<gkRow, gkPending, gkSlot, gkFlow, gkOpen>>
Restarts ==
  /\ LoginsKeep /\ GrantsKeep /\ UNCHANGED <<gkRow, gkGone>>
  /\ gkPending' = Grok!NoPair /\ gkLock' = NoParty
  /\ gkCaller' \in [Party -> GrokCaller]
  /\ \A c \in Party : gkCaller'[c].pc = "idle" /\ gkCaller'[c].pair = Grok!NoPair
  /\ gkLost \subseteq gkLost' /\ gkPending.grant \in gkLost'
  /\ \A g : Saving(g) => g \in gkLost'

GrokStep ==
  \/ OnlyLogins \/ Gives \/ Unlinks \/ Ages \/ Restarts
  \/ \E d \in DeviceLogin : Links(d)
  \/ \E c \in Party : Calls(c) \/ Loads(c) \/ Lands(c) \/ Sends(c) \/ Saves(c)

\* A caller that moves, alone.
LEMMA CallerMoved ==
  ASSUME GrokTypes, NEW c \in Party, NEW pc \in {"idle", "wait", "land", "send", "save"},
         NEW p \in Grok!Pair \union {Grok!NoPair}, gkCaller' = [gkCaller EXCEPT ![c] = [pc |-> pc, pair |-> p]]
  PROVE  Moved(c, pc, p)
  BY DEF GrokTypes, GrokCaller, Moved

\* A login nobody began.
LEMMA GrokUnused == Grok!Unused \in GrokFlow /\ Grok!Unused.pc = "none"
  BY PartyAssumption, GrokAssumption DEF Grok!Unused, GrokFlow

\* A login that ends, alone.
LEMMA LoginEnded ==
  ASSUME GrokTypes, NEW d \in DeviceLogin
  PROVE  /\ Grok!Ended(d) \in [DeviceLogin -> GrokFlow]
         /\ \A e \in DeviceLogin : Grok!Ended(d)[e].pc = "save" => Grok!Ended(d)[e] = gkFlow[e]
  BY GrokUnused DEF GrokTypes, Grok!Ended

\* A login that goes on, alone: it saves nothing new.
LEMMA LoginMoved ==
  ASSUME GrokTypes, NEW d \in DeviceLogin, NEW pc \in {"start", "shown", "poll"}, gkFlow' = [gkFlow EXCEPT ![d].pc = pc]
  PROVE  gkFlow' \in [DeviceLogin -> GrokFlow] /\ \A e \in DeviceLogin : gkFlow'[e].pc = "save" => gkFlow'[e] = gkFlow[e]
<1>1. gkFlow \in [DeviceLogin -> GrokFlow]
  BY DEF GrokTypes
<1>2. gkFlow' = [gkFlow EXCEPT ![d] = [gkFlow[d] EXCEPT !.pc = pc]]
  OBVIOUS
<1>3. [gkFlow[d] EXCEPT !.pc = pc] \in GrokFlow /\ [gkFlow[d] EXCEPT !.pc = pc].pc = pc
  BY <1>1 DEF GrokFlow
<1>4. QED
  BY <1>1, <1>2, <1>3

\* Beginning a login touches logins only.
LEMMA BeginEffect == ASSUME GrokTypes, NEW d \in DeviceLogin, Grok!Begin(d) PROVE OnlyLogins
<1> DEFINE f == IF gkSlot \in DeviceLogin THEN Grok!Ended(gkSlot) ELSE gkFlow
<1>1. f \in [DeviceLogin -> GrokFlow] /\ \A e \in DeviceLogin : f[e].pc = "save" => f[e] = gkFlow[e]
  BY LoginEnded DEF GrokTypes
<1>2. gkFlow' = [f EXCEPT ![d].pc = "start"]
  BY DEF Grok!Begin
<1>3. gkFlow' \in [DeviceLogin -> GrokFlow] /\ \A e \in DeviceLogin : gkFlow'[e].pc = "save" => gkFlow'[e] = gkFlow[e]
  <2> HIDE DEF f
  <2>1. gkFlow' = [f EXCEPT ![d] = [f[d] EXCEPT !.pc = "start"]]
    BY <1>2
  <2>2. [f[d] EXCEPT !.pc = "start"] \in GrokFlow /\ [f[d] EXCEPT !.pc = "start"].pc = "start"
    BY <1>1 DEF GrokFlow
  <2>3. QED
    BY <1>1, <2>1, <2>2
<1>4. gkSlot' = Grok!Reserved /\ gkOpen' \subseteq DeviceLogin
  BY DEF Grok!Begin, GrokTypes
<1>5. QED
  BY <1>3, <1>4 DEF Grok!Begin, Grok!account, Grok!upstream, OnlyLogins, LoginsKeep, CallersKeep, GrantsKeep, LossesKeep

\* Publishing the code touches logins only.
LEMMA PublishEffect == ASSUME GrokTypes, NEW d \in DeviceLogin, Grok!Publish(d) PROVE OnlyLogins
<1>1. gkSlot' \in DeviceLogin \union {NoParty, Grok!Reserved} /\ gkOpen' \subseteq DeviceLogin
  BY DEF Grok!Publish, GrokTypes
<1>2. CASE gkFlow' = [gkFlow EXCEPT ![d].pc = "shown"]
  <2>1. gkFlow' \in [DeviceLogin -> GrokFlow] /\ \A e \in DeviceLogin : gkFlow'[e].pc = "save" => gkFlow'[e] = gkFlow[e]
    BY <1>2, LoginMoved DEF GrokTypes
  <2>2. QED
    BY <1>1, <2>1 DEF Grok!Publish, Grok!account, Grok!upstream, OnlyLogins, LoginsKeep, CallersKeep, GrantsKeep, LossesKeep
<1>3. CASE gkFlow' = [gkFlow EXCEPT ![d] = Grok!Unused]
  <2>1. gkFlow' \in [DeviceLogin -> GrokFlow] /\ \A e \in DeviceLogin : gkFlow'[e].pc = "save" => gkFlow'[e] = gkFlow[e]
    BY <1>3, GrokUnused DEF GrokTypes
  <2>2. QED
    BY <1>1, <2>1 DEF Grok!Publish, Grok!account, Grok!upstream, OnlyLogins, LoginsKeep, CallersKeep, GrantsKeep, LossesKeep
<1>4. QED
  BY <1>2, <1>3 DEF Grok!Publish

\* Polling touches logins only.
LEMMA PollEffect == ASSUME GrokTypes, NEW d \in DeviceLogin, Grok!Poll(d) PROVE OnlyLogins
<1>1. gkFlow' \in [DeviceLogin -> GrokFlow] /\ \A e \in DeviceLogin : gkFlow'[e].pc = "save" => gkFlow'[e] = gkFlow[e]
  BY LoginMoved DEF GrokTypes, Grok!Poll
<1>2. QED
  BY <1>1 DEF Grok!Poll, GrokTypes, Grok!account, Grok!upstream, OnlyLogins, LoginsKeep, CallersKeep, GrantsKeep, LossesKeep

\* An answer ends a login or gives it a grant.
LEMMA AnswerEffect == ASSUME GrokTypes, NEW d \in DeviceLogin, Grok!Answer(d) PROVE OnlyLogins \/ Gives
<1>1. UNCHANGED <<gkAged, gkAgain, gkRow, gkPending>> /\ CallersKeep /\ LossesKeep
  BY DEF Grok!Answer, Grok!account, CallersKeep, LossesKeep
<1>2. CASE \E g \in Grok!Grant :
        /\ gkCurrent[g] = 0 /\ gkCurrent' = [gkCurrent EXCEPT ![g] = 1]
        /\ gkFlow' = [gkFlow EXCEPT ![d] = [pc |-> "save", grant |-> g]] /\ UNCHANGED <<gkSlot, gkOpen>>
  BY <1>1, <1>2 DEF Gives
<1>3. CASE gkFlow' = [gkFlow EXCEPT ![d].pc = "shown"] /\ UNCHANGED <<gkCurrent, gkSlot, gkOpen>>
  <2>1. gkFlow' \in [DeviceLogin -> GrokFlow] /\ \A e \in DeviceLogin : gkFlow'[e].pc = "save" => gkFlow'[e] = gkFlow[e]
    BY <1>3, LoginMoved DEF GrokTypes
  <2>2. QED
    BY <1>1, <1>3, <2>1 DEF GrokTypes, OnlyLogins, LoginsKeep, GrantsKeep
<1>4. CASE gkFlow' = [gkFlow EXCEPT ![d] = Grok!Unused] /\ Grok!Removed(d) /\ UNCHANGED gkCurrent
  <2>1. gkFlow' \in [DeviceLogin -> GrokFlow] /\ \A e \in DeviceLogin : gkFlow'[e].pc = "save" => gkFlow'[e] = gkFlow[e]
    BY <1>4, GrokUnused DEF GrokTypes
  <2>2. QED
    BY <1>1, <1>4, <2>1 DEF GrokTypes, OnlyLogins, LoginsKeep, GrantsKeep, Grok!Removed
<1>5. QED
  BY <1>2, <1>3, <1>4 DEF Grok!Answer

\* A login that saves links its own grant, or ends.
LEMMA LinkEffect == ASSUME GrokTypes, NEW d \in DeviceLogin, Grok!Link(d) PROVE OnlyLogins \/ Links(d)
<1>1. gkFlow' \in [DeviceLogin -> GrokFlow] /\ gkFlow'[d].pc = "none"
      /\ \A e \in DeviceLogin : gkFlow'[e].pc = "save" => gkFlow'[e] = gkFlow[e]
  BY GrokUnused DEF GrokTypes, Grok!Link
<1>2. LoginsKeep
  BY <1>1 DEF Grok!Link, Grok!Removed, GrokTypes, LoginsKeep
<1>3. QED
  BY <1>1, <1>2 DEF Grok!Link, Grok!upstream, OnlyLogins, Links, CallersKeep, GrantsKeep, LossesKeep

\* A cancelled login saves nothing.
LEMMA CancelEffect == ASSUME GrokTypes, NEW d \in DeviceLogin, Grok!Cancel(d) PROVE OnlyLogins
  BY LoginEnded DEF Grok!Cancel, Grok!Removed, Grok!account, Grok!upstream, GrokTypes, OnlyLogins, LoginsKeep,
     CallersKeep, GrantsKeep, LossesKeep

\* Unlinking drops the stored pair, and every login with it.
LEMMA GrokUnlinkEffect == ASSUME GrokTypes, Grok!Unlink PROVE Unlinks
<1>1. LoginsKeep
  BY LoginEnded DEF Grok!Unlink, GrokTypes, LoginsKeep
<1>2. QED
  BY <1>1 DEF Grok!Unlink, Grok!upstream, Unlinks, CallersKeep, GrantsKeep

\* A caller asks for a token.
LEMMA GrokCallEffect == ASSUME GrokTypes, NEW c \in Party, Grok!Call(c) PROVE Calls(c)
<1>1. Moved(c, "wait", Grok!NoPair)
  BY CallerMoved DEF Grok!Call, Grok!Goto
<1>2. QED
  BY <1>1 DEF Grok!Call, Grok!logins, Grok!upstream, Calls, CallerStep, GrantsKeep, LossesKeep

\* A caller reads the stored pair, or returns.
LEMMA LoadEffect == ASSUME GrokTypes, NEW c \in Party, Grok!Load(c) PROVE Loads(c)
<1>1. gkCaller[c].pc = "wait" /\ gkLock = NoParty /\ CallerStep /\ UNCHANGED gkRow
  BY DEF Grok!Load, Grok!Unlocked, Grok!logins, Grok!upstream, CallerStep, GrantsKeep, LossesKeep
<1>2. CASE gkRow = Grok!NoPair
  <2>1. gkPending' = Grok!NoPair /\ UNCHANGED gkLock /\ Moved(c, "idle", Grok!NoPair)
    BY <1>2, CallerMoved DEF Grok!Load, Grok!Goto
  <2>2. QED
    BY <1>1, <1>2, <2>1 DEF Loads
<1>3. CASE gkRow # Grok!NoPair
  <2>1. gkRow \in Grok!Pair \union {Grok!NoPair}
    BY DEF GrokTypes
  <2>2. gkLock' = c /\ UNCHANGED gkPending /\ Moved(c, "land", gkRow)
    BY <1>3, <2>1, CallerMoved DEF Grok!Load, Grok!Goto
  <2>3. QED
    BY <1>1, <1>3, <2>2 DEF Loads
<1>4. QED
  BY <1>2, <1>3

\* A caller that returns gives up the lock and forgets its pair.
LEMMA CallerReturns == ASSUME GrokTypes, NEW c \in Party, Grok!Return(c)
                       PROVE Moved(c, "idle", Grok!NoPair) /\ gkLock' = NoParty
  BY CallerMoved DEF Grok!Return, Grok!Idle

\* A pending pair is landed before anything is sent.
LEMMA LandEffect == ASSUME GrokTypes, NEW c \in Party, Grok!Land(c) PROVE Lands(c)
<1>1. gkCaller[c].pc = "land" /\ CallerStep
  BY DEF Grok!Land, Grok!logins, Grok!upstream, CallerStep, GrantsKeep, LossesKeep
<1>2. \/ gkPending # Grok!NoPair /\ gkRow' = gkPending /\ gkPending' = Grok!NoPair
      \/ UNCHANGED <<gkRow, gkPending>>
  BY DEF Grok!Land, Grok!Saved
<1> DEFINE p == Grok!Newest(gkCaller[c].pair)
<1>3. p \in Grok!Pair \union {Grok!NoPair}
  BY DEF Grok!Newest, GrokTypes, GrokCaller
<1>4. (Grok!Goto(c, "send", p) /\ UNCHANGED gkLock) \/ Grok!Return(c)
  BY DEF Grok!Land
<1>5. \/ Moved(c, "send", p) /\ UNCHANGED gkLock
      \/ Moved(c, "idle", Grok!NoPair) /\ gkLock' = NoParty
  <2> HIDE DEF p
  <2> QED BY <1>3, <1>4, CallerMoved, CallerReturns DEF Grok!Goto
<1>6. QED
  BY <1>1, <1>2, <1>5 DEF Lands

\* A refresh sends the pair read under the lock.
LEMMA SendEffect == ASSUME GrokTypes, NEW c \in Party, Grok!Send(c) PROVE Sends(c)
<1> DEFINE p == gkCaller[c].pair
           next == [grant |-> p.grant, no |-> p.no + 1]
<1>1. gkCaller[c].pc = "send" /\ UNCHANGED <<gkRow, gkPending, gkAged, gkGone, gkSlot, gkFlow, gkOpen>>
  BY DEF Grok!Send, Grok!logins
<1>2. p \in Grok!Pair
  BY <1>1 DEF GrokTypes, GrokCaller, Locking
<1>3. [p EXCEPT !.no = @ + 1] = next
  BY <1>2 DEF Grok!Pair
<1>4. CASE /\ p.no = gkCurrent[p.grant] /\ p.no < MaxRenewal
           /\ gkCurrent' = [gkCurrent EXCEPT ![p.grant] = next.no]
           /\ \/ Grok!Goto(c, "save", next) /\ UNCHANGED <<gkLock, gkLost>>
              \/ Grok!Return(c) /\ gkLost' = gkLost \union {p.grant}
           /\ UNCHANGED gkAgain
  <2>1. p.grant \in Grok!Grant /\ p.no \in 1 .. MaxRenewal
    BY <1>2 DEF Grok!Pair
  <2>2. p.no + 1 \in 1 .. MaxRenewal
    BY <1>4, <2>1, PartyAssumption, GrokAssumption
  <2>3. next \in Grok!Pair /\ next.no = p.no + 1
    BY <2>1, <2>2 DEF Grok!Pair
  <2>4. \/ Moved(c, "save", next) /\ UNCHANGED <<gkLock, gkLost>>
        \/ Moved(c, "idle", Grok!NoPair) /\ gkLock' = NoParty /\ gkLost' = gkLost \union {p.grant}
    <3> HIDE DEF next, p
    <3> QED BY <1>4, <2>3, CallerMoved, CallerReturns DEF Grok!Goto
  <2>5. QED
    BY <1>1, <1>4, <2>3, <2>4 DEF Sends
<1>5. CASE /\ Grok!Return(c) /\ gkAgain' = (IF p.no = gkCurrent[p.grant] THEN gkAgain ELSE gkAgain \union {p.grant})
           /\ UNCHANGED <<gkCurrent, gkLost>>
  BY <1>1, <1>5, CallerReturns DEF Sends
<1>6. QED
  BY <1>3, <1>4, <1>5 DEF Grok!Send

\* The new pair is saved, or stays pending.
LEMMA SaveEffect == ASSUME GrokTypes, NEW c \in Party, Grok!Save(c) PROVE Saves(c)
<1>1. Moved(c, "idle", Grok!NoPair) /\ gkLock' = NoParty
  BY CallerReturns DEF Grok!Save
<1>2. QED
  BY <1>1 DEF Grok!Save, Grok!Saved, Grok!Unsaved, Grok!logins, Grok!upstream, Saves, CallerStep, GrantsKeep, LossesKeep

\* A token ages.
LEMMA AgeEffect == ASSUME GrokTypes, NEW g \in Grok!Grant, Grok!Age(g) PROVE Ages
  BY DEF Grok!Age, GrokTypes, Grok!account, Grok!logins, Ages, CallersKeep, LossesKeep

\* A restart forgets callers, logins and the pending pair.
LEMMA RestartEffect == ASSUME GrokTypes, Grok!Crash PROVE Restarts
<1>1. gkFlow' \in [DeviceLogin -> GrokFlow] /\ \A d \in DeviceLogin : gkFlow'[d].pc = "none"
  BY GrokUnused DEF Grok!Crash
<1>2. gkCaller' \in [Party -> GrokCaller] /\ \A c \in Party : gkCaller'[c].pc = "idle" /\ gkCaller'[c].pair = Grok!NoPair
  BY DEF Grok!Crash, Grok!Idle, GrokCaller
<1>3. gkLost \subseteq gkLost' /\ gkPending.grant \in gkLost' /\ \A g : Saving(g) => g \in gkLost'
  BY DEF Grok!Crash, Saving
<1>4. LoginsKeep
  BY <1>1 DEF Grok!Crash, LoginsKeep
<1>5. QED
  BY <1>2, <1>3, <1>4 DEF Grok!Crash, Grok!upstream, Restarts, GrantsKeep

\* Every action of the token store has one of these effects.
LEMMA GrokSteps == ASSUME GrokInv, Grok!Next PROVE GrokStep
  BY BeginEffect, PublishEffect, PollEffect, AnswerEffect, LinkEffect, CancelEffect, GrokUnlinkEffect, GrokCallEffect,
     LoadEffect, LandEffect, SendEffect, SaveEffect, AgeEffect, RestartEffect
     DEF GrokInv, Grok!Next, GrokStep

\* What pairs are.
LEMMA PairFacts ==
  /\ \A p \in Grok!Pair : p.grant \in Grok!Grant /\ p.no \in 1 .. MaxRenewal /\ p # Grok!NoPair /\ p.grant # 0
  /\ Grok!NoPair.grant = 0 /\ \A g \in Grok!Grant : g \in Nat /\ g # 0
  /\ Grok!Grant \subseteq 0 .. MaxGrant
<1>1. Grok!NoPair.grant = 0 /\ \A g \in Grok!Grant : g \in 0 .. MaxGrant /\ g \in Nat /\ g # 0
  BY PartyAssumption, GrokAssumption DEF Grok!NoPair, Grok!Grant
<1>2. \A p \in Grok!Pair : p.grant \in Grok!Grant /\ p.no \in 1 .. MaxRenewal
  BY DEF Grok!Pair
<1>3. QED
  BY <1>1, <1>2

\* Whatever is in hand is a pair.
LEMMA InHandPairs == ASSUME GrokTypes PROVE InHand \subseteq Grok!Pair \union {Grok!NoPair}
  BY DEF GrokTypes, GrokCaller, InHand

\* The pair a login saves is the first of its grant.
LEMMA LinkedPair ==
  ASSUME GrokTypes, NEW d \in DeviceLogin, gkFlow[d].pc = "save"
  PROVE  LET p == [grant |-> gkFlow[d].grant, no |-> 1]
         IN p \in Grok!Pair /\ p.grant = gkFlow[d].grant /\ p.no = 1
<1>1. gkFlow[d].grant \in Grok!Grant /\ 1 \in 1 .. MaxRenewal
  BY PartyAssumption, GrokAssumption DEF GrokTypes
<1>2. QED
  BY <1>1 DEF Grok!Pair

\* A caller's newest pair is the pending one, or its own.
LEMMA NewestFacts ==
  ASSUME GrokTypes, NEW c \in Party, gkCaller[c].pc = "land"
  PROVE  /\ gkPending # Grok!NoPair => Grok!Newest(gkCaller[c].pair) = gkPending
         /\ gkPending = Grok!NoPair => Grok!Newest(gkCaller[c].pair) = gkCaller[c].pair
         /\ Grok!Newest(gkCaller[c].pair) \in Grok!Pair /\ gkCaller[c].pair \in Grok!Pair
         /\ Grok!Newest(gkCaller[c].pair) \in InHand
<1>1. gkCaller[c].pair \in Grok!Pair /\ gkCaller[c].pair \in InHand
  BY DEF GrokTypes, GrokCaller, Locking, InHand
<1>2. gkPending \in Grok!Pair \union {Grok!NoPair} /\ gkPending \in InHand
  BY DEF GrokTypes, InHand
<1>3. QED
  BY <1>1, <1>2 DEF Grok!Newest

\* Pairs come into somebody's hand by a login and by a refresh.
LEMMA HandsStep ==
  ASSUME GrokTypes, GrokStep
  PROVE  \/ InHand' \subseteq InHand \union {Grok!NoPair}
         \/ \E d \in DeviceLogin : Links(d) /\ InHand' \subseteq InHand \union {[grant |-> gkFlow[d].grant, no |-> 1]}
         \/ \E c \in Party :
              LET p == gkCaller[c].pair
                  next == [grant |-> p.grant, no |-> p.no + 1]
              IN /\ Sends(c) /\ Moved(c, "save", next) /\ p.no = gkCurrent[p.grant]
                 /\ InHand' \subseteq InHand \union {next}
<1> DEFINE Same == InHand' \subseteq InHand \union {Grok!NoPair}
<1>1. CASE OnlyLogins \/ Gives \/ Ages
  BY <1>1 DEF OnlyLogins, Gives, Ages, InHand, CallersKeep
<1>2. CASE Unlinks \/ Restarts
  BY <1>2 DEF Unlinks, Restarts, InHand, CallersKeep
<1>3. ASSUME NEW d \in DeviceLogin, Links(d)
      PROVE  InHand' \subseteq InHand \union {[grant |-> gkFlow[d].grant, no |-> 1]}
  BY <1>3 DEF Links, InHand, CallersKeep
<1>4. ASSUME NEW c \in Party, Calls(c) \/ Loads(c) PROVE Same
  BY <1>4 DEF Calls, Loads, Moved, InHand
<1>5. ASSUME NEW c \in Party, Lands(c) PROVE Same
  <2>1. gkRow' \in InHand /\ gkPending' \in InHand \union {Grok!NoPair}
    BY <1>5 DEF Lands, InHand
  <2>2. Grok!Newest(gkCaller[c].pair) \in InHand
    BY <1>5, NewestFacts DEF Lands
  <2>3. gkCaller'[c].pair \in InHand \union {Grok!NoPair} /\ \A b \in Party \ {c} : gkCaller'[b] = gkCaller[b]
    BY <1>5, <2>2 DEF Lands, Moved
  <2>4. \A b \in Party : gkCaller'[b].pair \in InHand \union {Grok!NoPair}
    BY <2>3 DEF InHand
  <2>5. QED
    BY <2>1, <2>4 DEF InHand
<1>6. ASSUME NEW c \in Party, Saves(c) PROVE Same
  <2>1. gkRow' \in InHand /\ gkPending' \in InHand \union {Grok!NoPair}
    BY <1>6 DEF Saves, InHand
  <2>2. \A b \in Party : gkCaller'[b].pair \in InHand \union {Grok!NoPair}
    BY <1>6 DEF Saves, Moved, InHand
  <2>3. QED
    BY <2>1, <2>2 DEF InHand
<1>7. ASSUME NEW c \in Party, Sends(c)
      PROVE  LET p == gkCaller[c].pair
                 next == [grant |-> p.grant, no |-> p.no + 1]
             IN \/ Same
                \/ /\ Moved(c, "save", next) /\ p.no = gkCurrent[p.grant]
                   /\ InHand' \subseteq InHand \union {next}
  <2> DEFINE p == gkCaller[c].pair
             next == [grant |-> p.grant, no |-> p.no + 1]
  <2>1. CASE Moved(c, "save", next) /\ p.no = gkCurrent[p.grant]
    BY <1>7, <2>1 DEF Sends, Moved, InHand
  <2>2. CASE Moved(c, "idle", Grok!NoPair)
    BY <1>7, <2>2 DEF Sends, Moved, InHand
  <2>3. QED
    BY <1>7, <2>1, <2>2 DEF Sends
<1>8. QED
  BY <1>1, <1>2, <1>3, <1>4, <1>5, <1>6, <1>7 DEF GrokStep

\* The effects keep pairs to grants that were given.
LEMMA GrokGivenStep == ASSUME GrokInv, GrokStep PROVE GrokGiven'
<1>1. /\ \A p \in InHand : p \in Grok!Pair \union {Grok!NoPair} /\ (p # Grok!NoPair => p.no <= gkCurrent[p.grant])
      /\ gkCurrent \in [Grok!Grant -> 0 .. MaxRenewal]
  BY InHandPairs DEF GrokInv, GrokGiven, GrokTypes
<1>2. \A g \in Grok!Grant : gkCurrent'[g] \in Nat /\ gkCurrent[g] \in Nat /\ gkCurrent[g] <= gkCurrent'[g]
  <2>1. CASE UNCHANGED gkCurrent
    BY <1>1, <2>1, PartyAssumption, GrokAssumption
  <2>2. CASE \E g \in Grok!Grant : gkCurrent[g] = 0 /\ gkCurrent' = [gkCurrent EXCEPT ![g] = 1]
    BY <1>1, <2>2, PartyAssumption, GrokAssumption
  <2>3. CASE \E c \in Party : Sends(c)
    <3>1. PICK c \in Party : Sends(c)
      BY <2>3
    <3>2. gkCaller[c].pair \in Grok!Pair
      BY <3>1 DEF Sends, GrokInv, GrokTypes, GrokCaller, Locking
    <3>3. gkCaller[c].pair.grant \in Grok!Grant /\ gkCaller[c].pair.no \in Nat
      BY <3>2, PairFacts, PartyAssumption, GrokAssumption
    <3>4. QED
      BY <1>1, <3>1, <3>3, PartyAssumption, GrokAssumption DEF Sends
  <2>4. QED
    BY <2>1, <2>2, <2>3 DEF GrokStep, OnlyLogins, Gives, Unlinks, Ages, Restarts, Links, Calls, Loads, Lands, Saves,
       CallerStep, GrantsKeep
<1>3. ASSUME NEW p \in InHand, p # Grok!NoPair PROVE p.no <= gkCurrent'[p.grant]
  <2>1. p.grant \in Grok!Grant /\ p.no \in Nat /\ p.no <= gkCurrent[p.grant]
    BY <1>1, <1>3, PairFacts, PartyAssumption, GrokAssumption
  <2>2. QED
    BY <1>2, <2>1
<1>4. CASE InHand' \subseteq InHand \union {Grok!NoPair}
  BY <1>3, <1>4 DEF GrokGiven
<1>5. ASSUME NEW d \in DeviceLogin, Links(d), InHand' \subseteq InHand \union {[grant |-> gkFlow[d].grant, no |-> 1]}
      PROVE  GrokGiven'
  <2>1. gkFlow[d].pc = "save" /\ UNCHANGED gkCurrent
    BY <1>5 DEF Links, GrantsKeep
  <2>2. gkCurrent[gkFlow[d].grant] = 1
    BY <2>1 DEF GrokInv, GrokFresh
  <2>3. QED
    BY <1>3, <1>5, <2>1, <2>2 DEF GrokGiven
<1>6. ASSUME NEW c \in Party, Sends(c), Moved(c, "save", [grant |-> gkCaller[c].pair.grant, no |-> gkCaller[c].pair.no + 1]),
             gkCaller[c].pair.no = gkCurrent[gkCaller[c].pair.grant],
             InHand' \subseteq InHand \union {[grant |-> gkCaller[c].pair.grant, no |-> gkCaller[c].pair.no + 1]}
      PROVE  GrokGiven'
  <2> DEFINE p == gkCaller[c].pair
             n == [grant |-> gkCaller[c].pair.grant, no |-> gkCaller[c].pair.no + 1]
  <2>1. p \in Grok!Pair
    BY <1>6 DEF Sends, GrokInv, GrokTypes, GrokCaller, Locking
  <2>2. p.grant \in Grok!Grant /\ p.no \in Nat
    BY <2>1, PairFacts, PartyAssumption, GrokAssumption
  <2>3. n # Grok!NoPair
    BY <2>1, PairFacts DEF Grok!NoPair
  <2>4. (gkCurrent' = [gkCurrent EXCEPT ![p.grant] = p.no + 1]) \/ Moved(c, "idle", Grok!NoPair)
    BY <1>6 DEF Sends
  <2>5. gkCurrent' = [gkCurrent EXCEPT ![p.grant] = p.no + 1]
    BY <1>6, <2>4 DEF Moved
  <2>6. n.no <= gkCurrent'[n.grant]
    BY <1>1, <2>2, <2>5
  <2>7. QED
    BY <1>3, <1>6, <2>6 DEF GrokGiven
<1>7. QED
  BY <1>4, <1>5, <1>6, HandsStep DEF GrokInv

\* The effects keep what is in hand no newer than the provider's last.
LEMMA GrokFreshStep == ASSUME GrokInv, GrokStep PROVE GrokFresh'
<1>1. /\ \A p \in InHand : p \in Grok!Pair \union {Grok!NoPair} /\ (p # Grok!NoPair => p.no <= gkCurrent[p.grant])
      /\ gkCurrent \in [Grok!Grant -> 0 .. MaxRenewal]
      /\ \A d \in DeviceLogin : gkFlow[d].pc = "save" => gkFlow[d].grant \in Grok!Grant
  BY InHandPairs DEF GrokInv, GrokGiven, GrokTypes
<1>2. /\ \A p \in InHand : p.grant \in Grok!Grant \union {0} /\ (p.grant # 0 => p # Grok!NoPair /\ p.no # 0)
      /\ \A p \in InHand : p.grant # 0 => gkCurrent[p.grant] # 0
  <2> SUFFICES ASSUME NEW p \in InHand
               PROVE  /\ p.grant \in Grok!Grant \union {0} /\ (p.grant # 0 => p # Grok!NoPair /\ p.no # 0)
                      /\ p.grant # 0 => gkCurrent[p.grant] # 0
    OBVIOUS
  <2>1. CASE p = Grok!NoPair
    BY <2>1, PairFacts
  <2>2. CASE p \in Grok!Pair
    <3>1. p.grant \in Grok!Grant /\ p.no \in 1 .. MaxRenewal /\ p # Grok!NoPair
      BY <2>2, PairFacts
    <3>2. p.no <= gkCurrent[p.grant] /\ gkCurrent[p.grant] \in 0 .. MaxRenewal
      BY <1>1, <3>1
    <3>3. QED
      BY <3>1, <3>2, PartyAssumption, GrokAssumption
  <2>3. QED
    BY <1>1, <2>1, <2>2
<1> DEFINE Waits(d) == gkFlow[d].pc = "save"
\* A login that waited still does, and nobody got hold of its grant.
<1>3. ASSUME \A d \in DeviceLogin : gkFlow'[d].pc = "save" => gkFlow'[d] = gkFlow[d],
             \A d \in DeviceLogin : gkFlow'[d].pc = "save" => gkCurrent'[gkFlow[d].grant] = gkCurrent[gkFlow[d].grant],
             \A d \in DeviceLogin, p \in InHand' \ InHand : gkFlow'[d].pc = "save" => p.grant # gkFlow[d].grant
      PROVE  GrokFresh'
  BY <1>3 DEF GrokInv, GrokFresh
<1>4. \A d \in DeviceLogin : gkFlow[d].pc = "save" => gkFlow[d].grant # 0
  BY <1>1, PairFacts
<1>5. CASE Gives
  <2>1. PICK d \in DeviceLogin, g \in Grok!Grant :
          /\ gkCurrent[g] = 0 /\ gkCurrent' = [gkCurrent EXCEPT ![g] = 1]
          /\ gkFlow' = [gkFlow EXCEPT ![d] = [pc |-> "save", grant |-> g]]
          /\ CallersKeep /\ UNCHANGED <<gkRow, gkPending>>
    BY <1>5 DEF Gives
  <2>2. InHand' = InHand
    BY <2>1 DEF InHand, CallersKeep
  <2>3. gkFlow'[d].grant = g /\ \A e \in DeviceLogin : e # d => gkFlow'[e] = gkFlow[e]
    BY <2>1 DEF GrokInv, GrokTypes
  <2>4. gkCurrent'[g] = 1 /\ \A h \in Grok!Grant : h # g => gkCurrent'[h] = gkCurrent[h]
    BY <1>1, <2>1
  <2>5. \A p \in InHand : p.grant # g
    BY <1>2, <2>1, PairFacts
  <2>6. \A e \in DeviceLogin : e # d /\ gkFlow[e].pc = "save" => gkFlow[e].grant # g /\ gkFlow[e].grant \in Grok!Grant
    BY <1>1, <2>1 DEF GrokInv, GrokFresh
  <2>7. QED
    BY <2>2, <2>3, <2>4, <2>5, <2>6 DEF GrokInv, GrokFresh
<1>6. CASE ~Gives /\ InHand' \subseteq InHand \union {Grok!NoPair}
  <2>1. \A d \in DeviceLogin : gkFlow'[d].pc = "save" => gkFlow'[d] = gkFlow[d]
    BY <1>6 DEF GrokStep, OnlyLogins, Unlinks, Ages, Restarts, Links, Calls, Loads, Lands, Sends, Saves, CallerStep, LoginsKeep
  <2>2. \A d \in DeviceLogin : gkFlow'[d].pc = "save" => gkCurrent'[gkFlow[d].grant] = gkCurrent[gkFlow[d].grant]
    <3>1. CASE \E c \in Party : Sends(c)
      <4>1. PICK c \in Party : Sends(c)
        BY <3>1
      <4>2. gkCaller[c].pair \in InHand
        BY DEF InHand
      <4>3. \A d \in DeviceLogin : gkFlow'[d].pc = "save" => gkFlow[d].grant # gkCaller[c].pair.grant
        BY <2>1, <4>2 DEF GrokInv, GrokFresh
      <4>4. QED
        BY <1>1, <4>1, <4>3 DEF Sends
    <3>2. CASE UNCHANGED gkCurrent
      BY <3>2
    <3>3. QED
      BY <1>6, <3>1, <3>2 DEF GrokStep, OnlyLogins, Unlinks, Ages, Restarts, Links, Calls, Loads, Lands, Saves,
         CallerStep, GrantsKeep
  <2>3. \A d \in DeviceLogin, p \in InHand' \ InHand : gkFlow'[d].pc = "save" => p.grant # gkFlow[d].grant
    BY <1>4, <1>6, <2>1, PairFacts
  <2>4. QED
    BY <1>3, <2>1, <2>2, <2>3
<1>7. ASSUME NEW d \in DeviceLogin, Links(d), InHand' \subseteq InHand \union {[grant |-> gkFlow[d].grant, no |-> 1]}
      PROVE  GrokFresh'
  <2>1. /\ gkFlow[d].pc = "save" /\ gkFlow'[d].pc = "none" /\ UNCHANGED gkCurrent
        /\ \A e \in DeviceLogin : gkFlow'[e].pc = "save" => gkFlow'[e] = gkFlow[e]
    BY <1>7 DEF Links, LoginsKeep, GrantsKeep
  <2>2. \A e \in DeviceLogin : gkFlow'[e].pc = "save" => gkFlow[e].grant # gkFlow[d].grant
    BY <2>1 DEF GrokInv, GrokFresh
  <2>3. QED
    BY <1>3, <1>7, <2>1, <2>2
<1>8. ASSUME NEW c \in Party, Sends(c),
             InHand' \subseteq InHand \union {[grant |-> gkCaller[c].pair.grant, no |-> gkCaller[c].pair.no + 1]}
      PROVE  GrokFresh'
  <2>1. gkCaller[c].pair \in InHand /\ UNCHANGED gkFlow
    BY <1>8 DEF InHand, Sends
  <2>2. \A d \in DeviceLogin : gkFlow'[d].pc = "save" => gkFlow[d].grant # gkCaller[c].pair.grant
    BY <2>1 DEF GrokInv, GrokFresh
  <2>3. \A d \in DeviceLogin : gkFlow'[d].pc = "save" => gkCurrent'[gkFlow[d].grant] = gkCurrent[gkFlow[d].grant]
    BY <1>1, <1>8, <2>1, <2>2 DEF Sends
  <2>4. QED
    BY <1>3, <1>8, <2>1, <2>2, <2>3
<1>9. QED
  BY <1>5, <1>6, <1>7, <1>8, HandsStep DEF GrokInv

\* The effects never send a consumed pair.
LEMMA GrokAgainStep == ASSUME GrokInv, GrokStep PROVE Grok!ConsumedOnce'
<1>1. gkLost \union gkGone \subseteq gkLost' \union gkGone'
  BY DEF GrokStep, OnlyLogins, Gives, Unlinks, Ages, Restarts, Links, Calls, Loads, Lands, Sends, Saves,
     CallerStep, LossesKeep
<1>2. CASE gkAgain' = gkAgain
  BY <1>1, <1>2 DEF GrokInv, Grok!ConsumedOnce
<1>3. ASSUME NEW c \in Party, Sends(c) PROVE Grok!ConsumedOnce'
  <2>1. GrokNewest(gkCaller[c].pair)
    BY <1>3 DEF Sends, GrokInv, GrokKept
  <2>2. gkAgain' \subseteq gkAgain \union {gkCaller[c].pair.grant}
        /\ (gkAgain' = gkAgain \/ gkCaller[c].pair.no # gkCurrent[gkCaller[c].pair.grant])
    BY <1>3 DEF Sends
  <2>3. QED
    BY <1>1, <1>2, <2>1, <2>2 DEF GrokInv, Grok!ConsumedOnce, GrokNewest, Dead
<1>4. QED
  BY <1>2, <1>3 DEF GrokStep, OnlyLogins, Gives, Unlinks, Ages, Restarts, Links, Calls, Loads, Lands, Saves,
     CallerStep, GrantsKeep

\* The effects keep rows, callers and logins in their sets.
LEMMA GrokTypesStep == ASSUME GrokInv, GrokStep PROVE GrokTypes'
<1> USE PartyAssumption, GrokAssumption DEF GrokInv, Moved, CallerStep, LoginsKeep, CallersKeep, GrantsKeep, LossesKeep, GrokTypes
<1>1. CASE OnlyLogins
  BY <1>1 DEF OnlyLogins
<1>2. CASE Gives
  <2>1. PICK d \in DeviceLogin, g \in Grok!Grant :
          /\ gkCurrent' = [gkCurrent EXCEPT ![g] = 1] /\ gkFlow' = [gkFlow EXCEPT ![d] = [pc |-> "save", grant |-> g]]
          /\ CallersKeep /\ UNCHANGED <<gkRow, gkPending, gkSlot, gkOpen, gkAged>>
    BY <1>2 DEF Gives
  <2>2. gkCurrent' \in [Grok!Grant -> 0 .. MaxRenewal]
    BY <2>1
  <2>3. [pc |-> "save", grant |-> g] \in GrokFlow
    BY PairFacts DEF GrokFlow
  <2>4. gkFlow' \in [DeviceLogin -> GrokFlow] /\ \A e \in DeviceLogin : gkFlow'[e].pc = "save" => gkFlow'[e].grant \in Grok!Grant
    BY <2>1, <2>3
  <2>5. QED
    BY <2>1, <2>2, <2>4
<1>3. CASE Unlinks
  BY <1>3 DEF Unlinks
<1>4. CASE Ages
  BY <1>4 DEF Ages
<1>5. CASE Restarts
  BY <1>5, PartyAssumption, GrokAssumption DEF Restarts, Locking
<1>6. ASSUME NEW d \in DeviceLogin, Links(d) PROVE GrokTypes'
  <2>1. gkRow' \in Grok!Pair
    BY <1>6, LinkedPair DEF Links
  <2>2. QED
    BY <1>6, <2>1 DEF Links
<1>7. ASSUME NEW c \in Party, Calls(c) PROVE GrokTypes'
  BY <1>7 DEF Calls, Locking
<1>8. ASSUME NEW c \in Party, Loads(c) PROVE GrokTypes'
  BY <1>8 DEF Loads, Locking
<1>9. ASSUME NEW c \in Party, Lands(c) PROVE GrokTypes'
  <2>1. Grok!Newest(gkCaller[c].pair) # Grok!NoPair
    BY <1>9, NewestFacts, PairFacts DEF Lands
  <2>2. UNCHANGED <<gkSlot, gkFlow, gkOpen, gkCurrent, gkAged>>
    BY <1>9 DEF Lands
  <2>3. gkRow' \in Grok!Pair \union {Grok!NoPair} /\ gkPending' \in Grok!Pair \union {Grok!NoPair}
    BY <1>9 DEF Lands
  <2>4. gkLock = c /\ \A b \in Party \ {c} : gkCaller[b].pc \notin Locking /\ gkCaller'[b] = gkCaller[b]
    BY <1>9 DEF Lands, Locking
  <2>5. gkCaller' \in [Party -> GrokCaller]
    BY <1>9 DEF Lands
  <2>6. CASE gkCaller'[c].pc = "send" /\ gkCaller'[c].pair # Grok!NoPair /\ UNCHANGED gkLock
    BY <2>2, <2>3, <2>4, <2>5, <2>6 DEF Locking
  <2>7. CASE gkCaller'[c].pc = "idle" /\ gkCaller'[c].pair = Grok!NoPair /\ gkLock' = NoParty
    BY <2>2, <2>3, <2>4, <2>5, <2>7 DEF Locking
  <2>8. QED
    BY <1>9, <2>1, <2>6, <2>7 DEF Lands
<1>10. ASSUME NEW c \in Party, Sends(c) PROVE GrokTypes'
  <2>1. UNCHANGED <<gkRow, gkPending, gkSlot, gkFlow, gkOpen, gkAged>>
    BY <1>10 DEF Sends
  <2>2. gkLock = c /\ \A b \in Party \ {c} : gkCaller[b].pc \notin Locking /\ gkCaller'[b] = gkCaller[b]
    BY <1>10 DEF Sends, Locking
  <2>3. gkCaller' \in [Party -> GrokCaller]
    BY <1>10 DEF Sends
  <2>4. gkCurrent' \in [Grok!Grant -> 0 .. MaxRenewal]
    <3>1. CASE UNCHANGED gkCurrent
      BY <3>1
    <3>2. CASE /\ [grant |-> gkCaller[c].pair.grant, no |-> gkCaller[c].pair.no + 1] \in Grok!Pair
               /\ gkCurrent' = [gkCurrent EXCEPT ![gkCaller[c].pair.grant] = gkCaller[c].pair.no + 1]
      <4>1. gkCaller[c].pair.no + 1 \in 1 .. MaxRenewal
        BY <3>2, PairFacts
      <4>2. gkCaller[c].pair.no + 1 \in 0 .. MaxRenewal
        BY <4>1
      <4>3. gkCurrent \in [Grok!Grant -> 0 .. MaxRenewal]
        OBVIOUS
      <4>4. QED
        BY <3>2, <4>2, <4>3
    <3>3. QED
      BY <1>10, <3>1, <3>2 DEF Sends
  <2>5. CASE gkCaller'[c].pc = "save" /\ gkCaller'[c].pair \in Grok!Pair /\ UNCHANGED gkLock
    <3>1. gkCaller'[c].pair # Grok!NoPair
      BY <2>5, PairFacts
    <3>2. QED
      BY <2>1, <2>2, <2>3, <2>4, <2>5, <3>1 DEF Locking
  <2>6. CASE gkCaller'[c].pc = "idle" /\ gkCaller'[c].pair = Grok!NoPair /\ gkLock' = NoParty
    BY <2>1, <2>2, <2>3, <2>4, <2>6 DEF Locking
  <2>7. QED
    BY <1>10, <2>5, <2>6 DEF Sends
<1>11. ASSUME NEW c \in Party, Saves(c) PROVE GrokTypes'
  <2>1. UNCHANGED <<gkSlot, gkFlow, gkOpen, gkCurrent, gkAged>>
    BY <1>11 DEF Saves
  <2>2. gkLock = c /\ \A b \in Party \ {c} : gkCaller[b].pc \notin Locking /\ gkCaller'[b] = gkCaller[b]
    BY <1>11 DEF Saves, Locking
  <2>3. gkCaller[c].pair \in Grok!Pair \union {Grok!NoPair}
    BY DEF GrokCaller
  <2>4. gkRow' \in Grok!Pair \union {Grok!NoPair} /\ gkPending' \in Grok!Pair \union {Grok!NoPair}
    BY <1>11, <2>3 DEF Saves
  <2>5. gkCaller' \in [Party -> GrokCaller] /\ gkCaller'[c].pc = "idle" /\ gkCaller'[c].pair = Grok!NoPair /\ gkLock' = NoParty
    BY <1>11 DEF Saves
  <2>6. QED
    BY <2>1, <2>2, <2>4, <2>5, PartyAssumption, GrokAssumption DEF Locking
<1>12. QED
  BY <1>1, <1>2, <1>3, <1>4, <1>5, <1>6, <1>7, <1>8, <1>9, <1>10, <1>11 DEF GrokStep

\* The effects keep the newest pair stored, pending or in the hand of one caller.
LEMMA GrokKeptStep == ASSUME GrokInv, GrokStep PROVE GrokKept'
<1> USE PartyAssumption, GrokAssumption DEF GrokInv, Moved, CallerStep, LoginsKeep, CallersKeep, GrantsKeep, LossesKeep, GrokKept, GrokNewest, Dead, Saving
<1>1. CASE OnlyLogins
  BY <1>1 DEF OnlyLogins
<1>2. CASE Gives
  <2>1. PICK g \in Grok!Grant : gkCurrent[g] = 0 /\ gkCurrent' = [gkCurrent EXCEPT ![g] = 1]
    BY <1>2 DEF Gives
  <2>2. UNCHANGED <<gkRow, gkPending, gkCaller, gkLost, gkGone>>
    BY <1>2 DEF Gives
  <2>3. \A p \in InHand : p.grant # g
    <3>1. ASSUME NEW p \in InHand, p.grant = g PROVE FALSE
      <4>1. p \in Grok!Pair
        BY <3>1, InHandPairs, PairFacts
      <4>2. p.no \in Nat /\ p.no # 0 /\ p # Grok!NoPair
        BY <4>1, PairFacts, PartyAssumption, GrokAssumption
      <4>3. p.no <= 0
        BY <2>1, <3>1, <4>2 DEF GrokGiven
      <4>4. QED
        BY <4>2, <4>3
    <3>2. QED
      BY <3>1
  <2>4. \A p \in InHand : gkCurrent'[p.grant] = gkCurrent[p.grant]
    BY <2>1, <2>3
  <2>5. QED
    BY <2>2, <2>4 DEF InHand
<1>3. CASE Unlinks
  <2>1. gkRow' = Grok!NoPair /\ gkPending' = Grok!NoPair /\ UNCHANGED <<gkCaller, gkCurrent, gkLost>>
        /\ gkGone \subseteq gkGone' /\ (gkPending.grant # 0 => gkPending.grant \in gkGone')
    BY <1>3 DEF Unlinks
  <2>2. \A b \in Party : gkCaller[b].pc = "land" => gkCaller[b].pair.grant # 0
    <3>1. ASSUME NEW b \in Party, gkCaller[b].pc = "land" PROVE gkCaller[b].pair \in Grok!Pair
      BY <3>1 DEF GrokTypes, GrokCaller, Locking
    <3>2. QED
      BY <3>1, PairFacts
  <2>3. QED
    BY <2>1, <2>2
<1>4. CASE Ages
  BY <1>4 DEF Ages
<1>5. CASE Restarts
  BY <1>5 DEF Restarts
<1>6. ASSUME NEW d \in DeviceLogin, Links(d) PROVE GrokKept'
  <2>1. gkRow' = [grant |-> gkFlow[d].grant, no |-> 1] /\ UNCHANGED <<gkCaller, gkCurrent, gkPending, gkLost, gkGone>>
        /\ gkFlow[d].pc = "save"
    BY <1>6 DEF Links
  <2>2. gkCurrent[gkRow'.grant] = 1 /\ gkRow'.no = 1
    BY <2>1 DEF GrokFresh
  <2>3. QED
    BY <2>1, <2>2
<1>7. ASSUME NEW c \in Party, Calls(c) PROVE GrokKept'
  BY <1>7 DEF Calls
<1>8. ASSUME NEW c \in Party, Loads(c) PROVE GrokKept'
  <2>1. \A b \in Party : gkCaller[b].pc \notin Locking
    BY <1>8, PartyAssumption, GrokAssumption DEF Loads, GrokTypes
  <2>2. /\ \A b \in Party \ {c} : gkCaller'[b] = gkCaller[b]
        /\ UNCHANGED <<gkRow, gkCurrent, gkLost, gkGone>>
    BY <1>8 DEF Loads
  <2>3. CASE gkRow = Grok!NoPair /\ gkPending' = Grok!NoPair /\ gkCaller'[c].pc = "idle"
    BY <2>1, <2>2, <2>3 DEF Locking
  <2>4. CASE gkRow # Grok!NoPair /\ UNCHANGED gkPending /\ gkCaller'[c].pc = "land" /\ gkCaller'[c].pair = gkRow
    <3>1. ~\E g : Saving(g)
      BY <2>1 DEF Locking
    <3>2. GrokNewest(gkRow) \/ gkPending.grant = gkRow.grant
      BY <2>4, <3>1
    <3>3. gkPending # Grok!NoPair => GrokNewest(gkPending)
      BY <3>1
    <3>4. QED
      BY <2>1, <2>2, <2>4, <3>2, <3>3 DEF Locking
  <2>5. QED
    BY <1>8, <2>3, <2>4 DEF Loads
<1>9. ASSUME NEW c \in Party, Lands(c) PROVE GrokKept'
  <2>1. /\ gkCaller[c].pc = "land" /\ \A b \in Party \ {c} : gkCaller[b].pc \notin Locking
        /\ \A b \in Party \ {c} : gkCaller'[b] = gkCaller[b]
        /\ UNCHANGED <<gkCurrent, gkLost, gkGone>>
    BY <1>9 DEF Lands, GrokTypes, Locking
  <2>2. ~\E g : Saving(g)
    BY <2>1 DEF Locking
  <2>3. /\ gkPending # Grok!NoPair => GrokNewest(gkPending)
        /\ gkRow # Grok!NoPair => GrokNewest(gkRow) \/ gkPending.grant = gkRow.grant
        /\ GrokNewest(gkCaller[c].pair) \/ gkPending.grant = gkCaller[c].pair.grant
    BY <2>1, <2>2
  <2> DEFINE p == Grok!Newest(gkCaller[c].pair)
  <2>4. GrokNewest(p) /\ (gkPending # Grok!NoPair => p = gkPending) /\ (gkPending' # Grok!NoPair => gkPending' = p)
    <3>1. CASE gkPending = Grok!NoPair
      <4>1. p = gkCaller[c].pair /\ p \in Grok!Pair
        BY <2>1, <3>1, NewestFacts
      <4>2. gkPending.grant # p.grant
        BY <3>1, <4>1, PairFacts
      <4>3. gkPending' = Grok!NoPair
        BY <1>9, <3>1 DEF Lands
      <4>4. QED
        BY <2>3, <3>1, <4>1, <4>2, <4>3
    <3>2. CASE gkPending # Grok!NoPair
      <4>1. p = gkPending /\ (gkPending' = gkPending \/ gkPending' = Grok!NoPair)
        BY <1>9, <2>1, <3>2, NewestFacts DEF Lands
      <4>2. QED
        BY <2>3, <3>2, <4>1
    <3>3. QED
      BY <3>1, <3>2
  <2>5. \/ gkRow' = gkPending /\ gkPending' = Grok!NoPair /\ gkPending # Grok!NoPair
        \/ UNCHANGED <<gkRow, gkPending>>
    BY <1>9 DEF Lands
  <2>6. \/ gkCaller'[c].pc = "send" /\ gkCaller'[c].pair = p
        \/ gkCaller'[c].pc = "idle"
    BY <1>9 DEF Lands
  <2>7. \A q : GrokNewest(q)' <=> GrokNewest(q)
    BY <2>1
  <2> HIDE DEF p
  <2>8. gkPending' # Grok!NoPair => GrokNewest(gkPending')
    BY <2>3, <2>5
  <2>9. gkRow' # Grok!NoPair => GrokNewest(gkRow') \/ gkPending'.grant = gkRow'.grant
    BY <2>3, <2>5
  <2>10. QED
    BY <2>1, <2>4, <2>6, <2>8, <2>9 DEF Locking
<1>10. ASSUME NEW c \in Party, Sends(c) PROVE GrokKept'
  <2> DEFINE p == gkCaller[c].pair
             n == [grant |-> p.grant, no |-> p.no + 1]
  <2>1. /\ gkCaller[c].pc = "send" /\ \A b \in Party \ {c} : gkCaller[b].pc \notin Locking
        /\ \A b \in Party \ {c} : gkCaller'[b] = gkCaller[b]
        /\ UNCHANGED <<gkRow, gkPending, gkGone>>
    BY <1>10 DEF Sends, GrokTypes, Locking
  <2>2. ~\E g : Saving(g)
    BY <2>1 DEF Locking
  <2>3. /\ gkPending # Grok!NoPair => GrokNewest(gkPending) /\ gkPending.grant = p.grant
        /\ gkRow # Grok!NoPair => GrokNewest(gkRow) \/ gkPending.grant = gkRow.grant
    BY <2>1, <2>2
  <2>4. p \in Grok!Pair
    BY <2>1 DEF GrokTypes, GrokCaller, Locking
  <2>5. p.grant \in Grok!Grant /\ p.no \in Nat /\ gkCurrent \in [Grok!Grant -> 0 .. MaxRenewal]
    BY <2>4, PairFacts, PartyAssumption, GrokAssumption DEF GrokTypes
  <2>6. \A g \in Grok!Grant : g # p.grant => gkCurrent'[g] = gkCurrent[g]
    BY <1>10, <2>5 DEF Sends
  <2>7. gkLost \subseteq gkLost'
    BY <1>10 DEF Sends
  <2>8. gkPending # Grok!NoPair => gkPending.grant \in Grok!Grant
    BY PairFacts DEF GrokTypes
  <2>9. gkRow # Grok!NoPair => gkRow.grant \in Grok!Grant
    BY PairFacts DEF GrokTypes
  <2>10. CASE /\ gkCurrent' = [gkCurrent EXCEPT ![p.grant] = p.no + 1]
              /\ gkCaller'[c].pc = "save" /\ gkCaller'[c].pair = n
    <3>1. n.no = gkCurrent'[n.grant] /\ n.grant = p.grant
      BY <2>5, <2>10
    <3>2. Saving(p.grant)'
      BY <2>10, <3>1
    <3> HIDE DEF n
    <3>3. gkRow # Grok!NoPair => GrokNewest(gkRow)' \/ gkRow.grant = p.grant \/ gkPending.grant = gkRow.grant
      BY <2>1, <2>3, <2>6, <2>7, <2>9
    <3>4. \A b \in Party \ {c} : gkCaller'[b].pc \notin Locking
      BY <2>1
    <3>5. QED
      BY <2>1, <2>3, <2>10, <3>1, <3>2, <3>3, <3>4 DEF Locking
  <2>11. CASE gkCaller'[c].pc = "idle" /\ (UNCHANGED gkCurrent \/ p.grant \in gkLost')
    <3>1. gkRow # Grok!NoPair => GrokNewest(gkRow)' \/ gkPending.grant = gkRow.grant
      BY <2>1, <2>3, <2>6, <2>7, <2>9, <2>11
    <3>2. gkPending # Grok!NoPair => GrokNewest(gkPending)'
      BY <2>1, <2>3, <2>6, <2>7, <2>8, <2>11
    <3>3. \A b \in Party : gkCaller'[b].pc \notin {"land", "send", "save"}
      BY <2>1, <2>11 DEF Locking
    <3>4. QED
      BY <2>1, <3>1, <3>2, <3>3
  <2>12. QED
    BY <1>10, <2>10, <2>11 DEF Sends
<1>11. ASSUME NEW c \in Party, Saves(c) PROVE GrokKept'
  <2> DEFINE p == gkCaller[c].pair
  <2>1. /\ gkCaller[c].pc = "save" /\ \A b \in Party \ {c} : gkCaller[b].pc \notin Locking
        /\ \A b \in Party \ {c} : gkCaller'[b] = gkCaller[b]
        /\ UNCHANGED <<gkCurrent, gkLost, gkGone>> /\ gkCaller'[c].pc = "idle"
    BY <1>11 DEF Saves, GrokTypes, Locking
  <2>2. \A b \in Party : gkCaller'[b].pc \notin {"land", "send", "save"}
    BY <2>1 DEF Locking
  <2>3. GrokNewest(p)
    BY <2>1
  <2>4. \A g : Saving(g) => g = p.grant
    BY <2>1 DEF Locking
  <2>5. gkPending # Grok!NoPair => gkPending.grant = p.grant
    BY <2>1
  <2>6. gkRow # Grok!NoPair => GrokNewest(gkRow) \/ gkRow.grant = p.grant
    <3>1. CASE gkPending = Grok!NoPair /\ gkPending.grant = gkRow.grant
      BY <3>1, PairFacts DEF GrokTypes
    <3>2. QED
      BY <2>4, <2>5, <3>1
  <2>7. CASE gkRow' = p /\ gkPending' = Grok!NoPair
    BY <2>1, <2>2, <2>3, <2>7
  <2>8. CASE gkPending' = p /\ UNCHANGED gkRow
    BY <2>1, <2>2, <2>3, <2>6, <2>8
  <2>9. QED
    BY <1>11, <2>7, <2>8 DEF Saves
<1>12. QED
  BY <1>1, <1>2, <1>3, <1>4, <1>5, <1>6, <1>7, <1>8, <1>9, <1>10, <1>11 DEF GrokStep


\* The token store starts within its invariant.
LEMMA GrokInit == ASSUME Grok!Init PROVE GrokInv
<1>1. /\ gkRow = Grok!NoPair /\ gkPending = Grok!NoPair /\ gkLock = NoParty /\ gkSlot = NoParty /\ gkOpen = {}
      /\ gkCaller \in [Party -> GrokCaller]
      /\ \A c \in Party : gkCaller[c].pc = "idle" /\ gkCaller[c].pair = Grok!NoPair
  BY DEF Grok!Init, Grok!Idle, GrokCaller
<1>2. gkFlow \in [DeviceLogin -> GrokFlow] /\ \A d \in DeviceLogin : gkFlow[d].pc = "none"
  BY GrokUnused DEF Grok!Init
<1>3. gkCurrent \in [Grok!Grant -> 0 .. MaxRenewal] /\ gkAged \in [Grok!Grant -> 0 .. MaxRenewal]
  BY PartyAssumption, GrokAssumption DEF Grok!Init
<1>4. GrokTypes
  BY <1>1, <1>2, <1>3, PartyAssumption, GrokAssumption DEF GrokTypes, Locking
<1>5. GrokGiven /\ GrokFresh /\ GrokKept
  BY <1>1, <1>2 DEF GrokGiven, GrokFresh, GrokKept, InHand
<1>6. QED
  BY <1>4, <1>5 DEF GrokInv, Grok!Init, Grok!ConsumedOnce

\* Every behaviour of the services is one of the token store.
LEMMA GrokSpec == Spec => Grok!Spec
<1>1. Init => Grok!Init
  BY DEF Init
<1>2. [Next]_vars => [Grok!Next]_(Grok!vars)
  BY DEF Next, Only, vars, tagVars, tvVars, followVars, grokVars, discordVars, profileVars, mediaVars,
         signVars, Grok!vars
<1>3. QED
  BY <1>1, <1>2, PTL DEF Spec, Grok!Spec

\* The inductive invariant of the token store, by one case per effect.
LEMMA GrokInvHolds == Spec => []GrokInv
<1>1. GrokInv /\ [Grok!Next]_(Grok!vars) => GrokInv'
  <2>1. ASSUME GrokInv, Grok!Next PROVE GrokInv'
    BY <2>1, GrokSteps, GrokTypesStep, GrokGivenStep, GrokFreshStep, GrokKeptStep, GrokAgainStep DEF GrokInv
  <2>2. ASSUME GrokInv, UNCHANGED Grok!vars PROVE GrokInv'
    BY <2>2 DEF GrokInv, Grok!vars, GrokTypes, GrokGiven, GrokFresh, GrokKept, GrokNewest, Dead, Saving, InHand,
       Grok!ConsumedOnce
  <2>3. QED
    BY <2>1, <2>2
<1>2. QED
  BY <1>1, GrokInit, GrokSpec, PTL DEF Grok!Spec

\* The newest refresh token of the linked grant is stored, waits to be
\* saved or is in the hand of a caller about to save it, until its account is
\* unlinked or an answer is lost; and no consumed token is sent.
THEOREM TokensAreKeptHolds == Spec => []TokensAreKept
<1>1. ASSUME GrokInv PROVE Grok!TokenIsKept
  <2> DEFINE g == gkRow.grant
             held == {gkRow, gkPending} \union {gkCaller[c].pair : c \in {c \in Party : gkCaller[c].pc = "save"}}
  <2>1. SUFFICES ASSUME g # 0, ~Dead(g) PROVE [grant |-> g, no |-> gkCurrent[g]] \in held
    BY DEF Grok!TokenIsKept, Dead
  <2>2. \A p \in Grok!Pair : p = [grant |-> p.grant, no |-> p.no]
    BY DEF Grok!Pair
  <2>3. gkRow \in Grok!Pair /\ gkRow # Grok!NoPair
    BY <1>1, <2>1, PairFacts DEF GrokInv, GrokTypes
  <2>4. CASE GrokNewest(gkRow)
    BY <2>1, <2>2, <2>3, <2>4 DEF GrokNewest
  <2>5. CASE Saving(g)
    <3>1. PICK c \in Party : gkCaller[c].pc = "save" /\ gkCaller[c].pair.grant = g
      BY <2>5 DEF Saving
    <3>2. gkCaller[c].pair \in Grok!Pair /\ gkCaller[c].pair.no = gkCurrent[g]
      BY <1>1, <3>1 DEF GrokInv, GrokTypes, GrokCaller, Locking, GrokKept
    <3>3. gkCaller[c].pair \in held
      BY <3>1
    <3> HIDE DEF held, g
    <3>4. QED
      BY <2>2, <3>1, <3>2, <3>3
  <2>6. CASE gkPending.grant = g /\ ~Saving(g)
    <3>1. gkPending \in Grok!Pair /\ gkPending # Grok!NoPair
      BY <1>1, <2>1, <2>6, PairFacts DEF GrokInv, GrokTypes
    <3>2. gkPending.no = gkCurrent[g]
      BY <1>1, <2>1, <2>6, <3>1 DEF GrokInv, GrokKept, GrokNewest
    <3>3. QED
      BY <2>2, <2>6, <3>1, <3>2
  <2>7. QED
    BY <1>1, <2>3, <2>4, <2>5, <2>6 DEF GrokInv, GrokKept
<1>2. GrokInv => TokensAreKept
  BY <1>1 DEF TokensAreKept, GrokInv
<1>3. QED
  BY <1>2, GrokInvHolds, PTL

\* The invariant holds the module's type invariant.
LEMMA GrokTypeOK == ASSUME GrokInv PROVE Grok!TypeOK
<1>1. \A c \in Party : /\ gkCaller[c].pc \in {"idle", "wait", "land", "send", "save"}
                       /\ gkCaller[c].pair \in Grok!Pair \union {Grok!NoPair}
  BY DEF GrokInv, GrokTypes, GrokCaller
<1>2. QED
  BY <1>1 DEF GrokInv, GrokTypes, Grok!TypeOK, Locking

---------------------------------------------------------------------------
(* Discord alerts.                                                         *)

AlertRow == [st : {"none", "pending", "sending", "sent", "failed", "cancelled", "unconfirmed"},
             rev : 0 .. MaxSave + 1, tries : 0 .. MaxTries, due : BOOLEAN, aged : BOOLEAN]
Look == [epoch : 0 .. MaxSave + 1, units : SUBSET Unit]
Sender == [pc : {"idle", "prepare", "record"}, row : Discord!Alert \union {Discord!NoAlert},
           said : {"none", "unread", "cancelled", "sent", "failed", "wait", "unconfirmed"}]
Unsent == {"none", "pending"}

AlertTypes ==
  /\ dcConf \in [on : BOOLEAN, news : BOOLEAN, rev : Discord!Epoch, epoch : Discord!Epoch, floor : SUBSET Request]
  /\ dcSaved \subseteq Request /\ dcConf.floor \subseteq dcSaved /\ dcCooling \in BOOLEAN
  /\ dcRow \in [Discord!Alert -> AlertRow]
  /\ \A a \in Discord!Alert : /\ dcRow[a].rev <= dcConf.rev
                              /\ dcRow[a].st = "sending" => dcRow[a].tries >= 1
  /\ dcSeen \in [Request -> Look] /\ dcScan \in [Request -> Look]
  /\ \A r \in Request : dcSeen[r].epoch <= dcConf.epoch /\ dcScan[r].epoch <= dcConf.epoch
  /\ dcSender \in Sender /\ (dcSender.pc # "idle" => dcSender.row \in Discord!Alert)
  /\ dcPosts \in [Discord!Alert -> Nat]
  /\ dcContent \in [Request -> SUBSET Unit] /\ dcOld \in [Request -> SUBSET Unit]
  /\ dcTold \in [Request -> [Unit -> Nat]]

\* A row that may still be claimed was not posted, and one that is claimed is
\* posted by the sender that claimed it.
AlertPosts ==
  /\ \A a \in Discord!Alert : dcPosts[a] <= 1 /\ (dcRow[a].st \in Unsent => dcPosts[a] = 0)
  /\ dcSender.pc # "idle" => dcRow[dcSender.row].st = "sending"
  /\ dcSender.pc = "prepare" => dcPosts[dcSender.row] = 0
  /\ dcSender.pc = "record" => dcSender.said # "none"
  /\ dcSender.pc = "record" /\ dcPosts[dcSender.row] # 0 => dcSender.said \in {"sent", "unconfirmed"}

\* What was there at the activation is in every look taken since, and what
\* was announced since is remembered as seen.
AlertNews ==
  \A r \in Request :
    /\ dcOld[r] \subseteq dcContent[r]
    /\ dcScan[r].epoch = dcConf.epoch => dcOld[r] \subseteq dcScan[r].units
    /\ r \in dcConf.floor /\ dcSeen[r].epoch = dcConf.epoch => dcOld[r] \subseteq dcSeen[r].units
    /\ \A u \in Unit : dcTold[r][u] > 0 => dcSeen[r].epoch = dcConf.epoch /\ u \in dcSeen[r].units

DiscordInv == AlertTypes /\ AlertPosts /\ AlertNews

\* The rows a notification can be given.
LEMMA AlertRows ==
  /\ Discord!NoRow \in AlertRow /\ Discord!NoRow.st = "none" /\ Discord!NoRow.rev = 0
  /\ \A st \in {"sent", "failed", "cancelled", "unconfirmed"} :
       Discord!Settled(st) \in AlertRow /\ Discord!Settled(st).st = st /\ Discord!Settled(st).rev = 0
<1>1. Discord!NoRow \in AlertRow /\ Discord!NoRow.st = "none" /\ Discord!NoRow.rev = 0
  BY DiscordAssumption DEF Discord!NoRow, AlertRow
<1>2. ASSUME NEW st \in {"sent", "failed", "cancelled", "unconfirmed"}
      PROVE  Discord!Settled(st) \in AlertRow /\ Discord!Settled(st).st = st /\ Discord!Settled(st).rev = 0
  <2>1. Discord!Settled(st) = [Discord!NoRow EXCEPT !.st = st]
    BY DEF Discord!Settled
  <2>2. QED
    BY <1>1, <2>1 DEF AlertRow
<1>3. QED
  BY <1>1, <1>2

\* A notification's row, and the bounds of its revision.
LEMMA AlertRowNow ==
  ASSUME AlertTypes, NEW a \in Discord!Alert
  PROVE  /\ dcRow[a] \in AlertRow /\ dcRow[a].rev \in Nat /\ dcRow[a].rev <= dcConf.rev
         /\ (dcRow[a].st = "sending" => dcRow[a].tries >= 1)
         /\ dcRow[a].tries \in Nat /\ dcConf.rev \in 0 .. MaxSave + 1 /\ dcConf.rev \in Nat
<1>1. dcRow[a] \in AlertRow /\ dcRow[a].rev <= dcConf.rev /\ (dcRow[a].st = "sending" => dcRow[a].tries >= 1)
  BY DEF AlertTypes
<1>2. dcConf.rev \in Discord!Epoch
  BY DEF AlertTypes
<1>3. dcConf.rev \in 0 .. MaxSave + 1 /\ dcConf.rev \in Nat
  BY <1>2, DiscordAssumption DEF Discord!Epoch
<1>4. dcRow[a].rev \in Nat /\ dcRow[a].tries \in Nat
  BY <1>1, DiscordAssumption DEF AlertRow
<1>5. QED
  BY <1>1, <1>3, <1>4

\* A row that is new, and one that falls due or gets old.
LEMMA FreshRow ==
  ASSUME AlertTypes, NEW due \in BOOLEAN
  PROVE  LET new == [Discord!NoRow EXCEPT !.st = "pending", !.rev = dcConf.rev, !.due = due]
         IN new \in AlertRow /\ new.st = "pending" /\ new.rev = dcConf.rev
<1>1. Discord!NoRow \in AlertRow /\ dcConf.rev \in 0 .. MaxSave + 1
  <2>1. dcConf.rev \in Discord!Epoch
    BY DEF AlertTypes
  <2>2. QED
    BY <2>1, AlertRows, DiscordAssumption DEF Discord!Epoch
<1>2. QED
  BY <1>1 DEF AlertRow

\* Rows are queued, settled or marked; who posts what stays as it is.
RowMoves(a) ==
  /\ dcRow'[a] \in AlertRow /\ dcRow'[a].rev <= dcConf'.rev
  /\ (dcRow'[a].st = "sending" <=> dcRow[a].st = "sending")
  /\ (dcRow'[a].st = "sending" => dcRow'[a].tries >= 1)
  /\ dcRow'[a].st \in Unsent => dcRow[a].st \in Unsent
RowsMove == dcRow' = [a \in Discord!Alert |-> dcRow'[a]] /\ \A a \in Discord!Alert : RowMoves(a)

\* Rows that nobody writes move as rows may.
LEMMA RowsStay == ASSUME AlertTypes, UNCHANGED <<dcRow, dcConf>> PROVE RowsMove
<1>1. dcRow' = [a \in Discord!Alert |-> dcRow'[a]]
  BY DEF AlertTypes
<1>2. QED
  BY <1>1, AlertRowNow DEF RowsMove, RowMoves

\* Queueing news writes only rows that were not sent.
LEMMA QueuedRows ==
  ASSUME AlertTypes, UNCHANGED dcConf, NEW A, dcRow' = Discord!Queued(A)
  PROVE  RowsMove
<1>1. dcRow' = [a \in Discord!Alert |->
        IF a \in A /\ dcRow[a].st = "none"
        THEN [Discord!NoRow EXCEPT !.st = "pending", !.rev = dcConf.rev, !.due = a.unit = "request" /\ ~dcCooling]
        ELSE dcRow[a]]
  BY DEF Discord!Queued
<1>2. ASSUME NEW a \in Discord!Alert PROVE RowMoves(a)
  <2>1. CASE a \in A /\ dcRow[a].st = "none"
    <3> DEFINE due == (a.unit = "request" /\ ~dcCooling)
               new == [Discord!NoRow EXCEPT !.st = "pending", !.rev = dcConf.rev, !.due = due]
    <3>1. due \in BOOLEAN
      OBVIOUS
    <3>2. dcRow'[a] = new
      BY <1>1, <2>1
    <3> HIDE DEF due
    <3>3. new \in AlertRow /\ new.st = "pending" /\ new.rev = dcConf.rev
      BY <3>1, FreshRow
    <3> HIDE DEF new
    <3>4. dcConf.rev <= dcConf'.rev
      BY AlertRowNow
    <3>5. QED
      BY <2>1, <3>2, <3>3, <3>4 DEF RowMoves, Unsent
  <2>2. CASE ~(a \in A /\ dcRow[a].st = "none")
    <3>1. dcRow'[a] = dcRow[a]
      BY <1>1, <2>2
    <3>2. QED
      BY <3>1, AlertRowNow DEF RowMoves
  <2>3. QED
    BY <2>1, <2>2
<1>3. dcRow' = [a \in Discord!Alert |-> dcRow'[a]]
  BY <1>1
<1>4. QED
  BY <1>2, <1>3 DEF RowsMove

\* Cancelling takes back what waits, and nothing that was sent.
LEMMA CancelledRows ==
  ASSUME AlertTypes, dcConf'.rev \in Nat, dcConf.rev <= dcConf'.rev, NEW A, dcRow' = Discord!Cancelled(A)
  PROVE  RowsMove
<1>1. dcRow' = [a \in Discord!Alert |-> IF a \in A /\ dcRow[a].st = "pending"
                                         THEN Discord!Settled("cancelled") ELSE dcRow[a]]
  BY DEF Discord!Cancelled
<1>2. ASSUME NEW a \in Discord!Alert PROVE RowMoves(a)
  BY <1>1, AlertRowNow, AlertRows DEF RowMoves, Unsent
<1>3. dcRow' = [a \in Discord!Alert |-> dcRow'[a]]
  BY <1>1
<1>4. QED
  BY <1>2, <1>3 DEF RowsMove

\* Time makes a row due or old and changes nothing else.
LEMMA MarkedRows ==
  ASSUME AlertTypes, UNCHANGED dcConf, NEW a \in Discord!Alert,
         dcRow' = [dcRow EXCEPT ![a].due = TRUE] \/ dcRow' = [dcRow EXCEPT ![a].aged = TRUE]
  PROVE  RowsMove
<1>1. dcRow \in [Discord!Alert -> AlertRow] /\ dcRow[a] \in AlertRow
  BY DEF AlertTypes
<1>2. CASE dcRow' = [dcRow EXCEPT ![a].due = TRUE]
  <2> DEFINE n == [dcRow[a] EXCEPT !.due = TRUE]
  <2>1. n \in AlertRow /\ n.st = dcRow[a].st /\ n.rev = dcRow[a].rev /\ n.tries = dcRow[a].tries
    BY <1>1 DEF AlertRow
  <2>2. dcRow' = [dcRow EXCEPT ![a] = n]
    BY <1>2
  <2> HIDE DEF n
  <2>3. QED
    BY <1>1, <2>1, <2>2, AlertRowNow DEF RowsMove, RowMoves
<1>3. CASE dcRow' = [dcRow EXCEPT ![a].aged = TRUE]
  <2> DEFINE n == [dcRow[a] EXCEPT !.aged = TRUE]
  <2>1. n \in AlertRow /\ n.st = dcRow[a].st /\ n.rev = dcRow[a].rev /\ n.tries = dcRow[a].tries
    BY <1>1 DEF AlertRow
  <2>2. dcRow' = [dcRow EXCEPT ![a] = n]
    BY <1>3
  <2> HIDE DEF n
  <2>3. QED
    BY <1>1, <2>1, <2>2, AlertRowNow DEF RowsMove, RowMoves
<1>4. QED
  BY <1>2, <1>3

\* deliverOne.
RowSettles(a) ==
  /\ dcRow'[a] \in AlertRow /\ dcRow'[a].rev <= dcConf.rev /\ dcRow'[a].st # "sending"
  /\ dcRow'[a].st \in Unsent => dcRow[a].st \in Unsent
Ticks ==
  /\ dcRow' \in [Discord!Alert -> AlertRow]
  /\ \/ dcSender.pc = "idle" /\ UNCHANGED dcSender /\ \A a \in Discord!Alert : RowSettles(a)
     \/ \E a \in Discord!Alert :
          /\ dcSender.pc = "idle" /\ dcSender' = [pc |-> "prepare", row |-> a, said |-> "none"]
          /\ dcRow[a].st = "pending" /\ dcRow'[a].st = "sending" /\ dcRow'[a].tries >= 1 /\ dcRow'[a].rev <= dcConf.rev
          /\ \A b \in Discord!Alert : b # a => RowSettles(b)

\* What the sender's sweep and its limit leave of a row.
LEMMA ReapedRow ==
  ASSUME AlertTypes, NEW a \in Discord!Alert
  PROVE  LET R == IF dcConf.on THEN Discord!Limited(Discord!Reaped(dcRow)) ELSE Discord!Reaped(dcRow)
         IN /\ R = [b \in Discord!Alert |-> R[b]]
            /\ R[a] \in AlertRow /\ R[a].rev <= dcConf.rev /\ R[a].st # "sending"
            /\ (R[a].st \in Unsent => R[a] = dcRow[a])
            /\ (R[a].st = "pending" /\ dcConf.on => R[a].tries < MaxTries)
<1> DEFINE S == Discord!Reaped(dcRow)
           L == Discord!Limited(S)
           R == IF dcConf.on THEN L ELSE S
<1>1. /\ S = [b \in Discord!Alert |-> S[b]] /\ S[a] \in AlertRow /\ S[a].rev <= dcConf.rev /\ S[a].st # "sending"
      /\ (S[a].st \in Unsent => S[a] = dcRow[a])
  BY AlertRowNow, AlertRows DEF Discord!Reaped, Unsent
<1>2. /\ L = [b \in Discord!Alert |-> L[b]]
      /\ L[a] = IF S[a].st = "pending" /\ (S[a].tries >= MaxTries \/ S[a].aged) THEN Discord!Settled("failed") ELSE S[a]
  BY DEF Discord!Limited
<1> HIDE DEF S, L
<1>3. S[a].tries \in Nat /\ dcConf.rev \in Nat
  BY <1>1, AlertRowNow, DiscordAssumption DEF AlertRow
<1>4. /\ L[a] \in AlertRow /\ L[a].rev <= dcConf.rev /\ L[a].st # "sending"
      /\ (L[a].st \in Unsent => L[a] = dcRow[a])
      /\ (L[a].st = "pending" => L[a].tries < MaxTries)
  BY <1>1, <1>2, <1>3, AlertRows, DiscordAssumption DEF Unsent
<1>5. QED
  BY <1>1, <1>2, <1>4 DEF S, L

\* A round of the sender claims one row at most.
LEMMA TickEffect == ASSUME AlertTypes, Discord!Tick PROVE Ticks
<1> DEFINE R == IF dcConf.on THEN Discord!Limited(Discord!Reaped(dcRow)) ELSE Discord!Reaped(dcRow)
<1>1. /\ dcSender.pc = "idle"
      /\ \/ dcRow' = R /\ UNCHANGED dcSender
         \/ \E a \in Discord!Alert :
              /\ dcConf.on /\ R[a].st = "pending"
              /\ dcRow' = [R EXCEPT ![a].st = "sending", ![a].tries = @ + 1]
              /\ dcSender' = [pc |-> "prepare", row |-> a, said |-> "none"]
  BY DEF Discord!Tick
<1>3. \A a \in Discord!Alert :
        /\ R[a] \in AlertRow /\ R[a].rev <= dcConf.rev /\ R[a].st # "sending"
        /\ (R[a].st \in Unsent => R[a] = dcRow[a])
        /\ (R[a].st = "pending" /\ dcConf.on => R[a].tries < MaxTries)
  BY ReapedRow
<1>4. R = [b \in Discord!Alert |-> R[b]]
  BY DEF Discord!Limited, Discord!Reaped
<1> HIDE DEF R
<1>5. R \in [Discord!Alert -> AlertRow]
  BY <1>3, <1>4
<1>6. CASE dcRow' = R /\ UNCHANGED dcSender
  BY <1>1, <1>3, <1>5, <1>6 DEF Ticks, RowSettles
<1>7. ASSUME NEW a \in Discord!Alert, dcConf.on, R[a].st = "pending",
             dcRow' = [R EXCEPT ![a].st = "sending", ![a].tries = @ + 1],
             dcSender' = [pc |-> "prepare", row |-> a, said |-> "none"]
      PROVE  Ticks
  <2> DEFINE n == [R[a] EXCEPT !.st = "sending", !.tries = @ + 1]
  <2>1. R[a] \in AlertRow /\ R[a].tries < MaxTries /\ R[a].rev <= dcConf.rev /\ dcRow[a].st = "pending"
    BY <1>3, <1>7 DEF Unsent
  <2>2. R[a].tries + 1 \in 0 .. MaxTries /\ R[a].tries + 1 >= 1
    BY <2>1, DiscordAssumption DEF AlertRow
  <2>3. n \in AlertRow /\ n.st = "sending" /\ n.tries >= 1 /\ n.rev = R[a].rev
    BY <2>1, <2>2 DEF AlertRow
  <2>4. dcRow' = [R EXCEPT ![a] = n]
    BY <1>7
  <2> HIDE DEF n
  <2>5. /\ dcRow' \in [Discord!Alert -> AlertRow] /\ dcRow'[a] = n
        /\ \A b \in Discord!Alert : b # a => dcRow'[b] = R[b]
    BY <1>5, <2>3, <2>4
  <2>6. \A b \in Discord!Alert : b # a => RowSettles(b)
    BY <1>3, <2>5 DEF RowSettles
  <2>7. /\ dcSender.pc = "idle" /\ dcSender' = [pc |-> "prepare", row |-> a, said |-> "none"]
        /\ dcRow[a].st = "pending" /\ dcRow'[a].st = "sending" /\ dcRow'[a].tries >= 1 /\ dcRow'[a].rev <= dcConf.rev
    BY <1>1, <1>7, <2>1, <2>3, <2>5
  <2>8. QED
    BY <2>5, <2>6, <2>7 DEF Ticks
<1>8. QED
  BY <1>1, <1>6, <1>7


\* The POST, and the record of what became of it.
Posts ==
  /\ dcSender.pc = "prepare" /\ UNCHANGED <<dcRow, dcConf>>
  /\ \E said \in {"unread", "cancelled", "sent", "failed", "wait", "unconfirmed"}, posted \in {0, 1} :
       /\ (posted = 1 => said \in {"sent", "unconfirmed"})
       /\ dcSender' = [pc |-> "record", row |-> dcSender.row, said |-> said]
       /\ dcPosts' = [dcPosts EXCEPT ![dcSender.row] = @ + posted]
Ends(a) ==
  /\ dcRow'[a] \in AlertRow /\ dcRow'[a].rev <= dcConf.rev
  /\ (dcRow'[a].st \in Unsent => dcRow[a].st \in Unsent \/ dcSender.said \in {"unread", "wait"})
  /\ (dcRow'[a].st = "sending" => dcRow'[a] = dcRow[a])
Finishes ==
  /\ dcSender.pc = "record" /\ dcSender'.pc = "idle" /\ dcSender' \in Sender
  /\ dcRow' \in [Discord!Alert -> AlertRow] /\ Ends(dcSender.row)
  /\ \A b \in Discord!Alert : b # dcSender.row => dcRow'[b] = dcRow[b]

\* A post is made for the claimed row, once.
LEMMA AlertSendEffect == ASSUME AlertTypes, Discord!Send PROVE Posts
<1>1. dcSender \in Sender
  BY DEF AlertTypes
<1>2. PICK said \in {"unread", "cancelled", "sent", "failed", "wait", "unconfirmed"}, posted \in {0, 1} :
        /\ (said = "sent" => posted = 1)
        /\ (posted = 1 => said \in {"sent", "unconfirmed"})
        /\ dcSender' = [dcSender EXCEPT !.pc = "record", !.said = said]
        /\ dcPosts' = [dcPosts EXCEPT ![dcSender.row] = @ + posted]
  BY DEF Discord!Send
<1>3. dcSender' = [pc |-> "record", row |-> dcSender.row, said |-> said]
  BY <1>1, <1>2 DEF Sender
<1>4. dcSender.pc = "prepare" /\ UNCHANGED <<dcRow, dcConf>>
  BY DEF Discord!Send
<1>5. QED
  BY <1>2, <1>3, <1>4 DEF Posts

\* The row an answer of Discord leaves.
LEMMA OutcomeRow ==
  ASSUME AlertTypes, NEW a \in Discord!Alert, dcRow[a].st = "sending",
         NEW said \in {"unread", "cancelled", "sent", "failed", "wait", "unconfirmed"}
  PROVE  LET b == Discord!Outcome(dcRow[a], said)
         IN /\ b \in AlertRow /\ b.rev <= dcConf.rev /\ b.st # "sending"
            /\ (b.st \in Unsent => said \in {"unread", "wait"})
<1> DEFINE tries == IF said = "unread" THEN dcRow[a].tries - 1 ELSE dcRow[a].tries
           again == [dcRow[a] EXCEPT !.st = "pending", !.tries = tries, !.due = FALSE]
<1>1. tries \in 0 .. MaxTries
  BY AlertRowNow, DiscordAssumption DEF AlertRow
<1>2. again \in AlertRow /\ again.rev = dcRow[a].rev /\ again.st = "pending"
  BY <1>1, AlertRowNow DEF AlertRow
<1>3. Discord!Outcome(dcRow[a], said) =
        IF said \notin {"unread", "wait"} THEN Discord!Settled(said)
        ELSE IF tries >= MaxTries \/ dcRow[a].aged THEN Discord!Settled("failed") ELSE again
  BY DEF Discord!Outcome
<1>4. dcRow[a].rev <= dcConf.rev /\ dcConf.rev \in Nat
  BY AlertRowNow
<1> HIDE DEF again, tries
<1>5. QED
  BY <1>2, <1>3, <1>4, AlertRows DEF Unsent

\* The sender ends with an outcome.
LEMMA FinishEffect == ASSUME AlertTypes, Discord!Finish, dcSender.said # "none" PROVE Finishes
<1>1. /\ dcSender.pc = "record" /\ dcSender \in Sender /\ dcSender.row \in Discord!Alert /\ dcRow \in [Discord!Alert -> AlertRow]
      /\ dcSender.said \in {"unread", "cancelled", "sent", "failed", "wait", "unconfirmed"}
  BY DEF AlertTypes, Discord!Finish, Sender
<1>2. dcSender' \in Sender /\ dcSender'.pc = "idle"
  BY DEF Discord!Finish, Discord!Idle, Sender
<1> DEFINE s == dcSender.row
<1>3. \/ dcRow' = [dcRow EXCEPT ![s] = IF dcRow[s].st = "sending" THEN Discord!Outcome(dcRow[s], dcSender.said) ELSE dcRow[s]]
      \/ dcRow' = dcRow
  BY DEF Discord!Finish
<1> DEFINE n == IF dcRow[s].st = "sending" THEN Discord!Outcome(dcRow[s], dcSender.said) ELSE dcRow[s]
<1>4. /\ n \in AlertRow /\ n.rev <= dcConf.rev
      /\ (n.st \in Unsent => dcRow[s].st \in Unsent \/ dcSender.said \in {"unread", "wait"})
      /\ (n.st = "sending" => n = dcRow[s])
  <2>1. CASE dcRow[s].st = "sending"
    BY <1>1, <2>1, OutcomeRow
  <2>2. CASE dcRow[s].st # "sending"
    BY <1>1, <2>2, AlertRowNow
  <2>3. QED
    BY <2>1, <2>2
<1>5. dcRow' = [dcRow EXCEPT ![s] = n] \/ dcRow' = dcRow
  BY <1>3
<1> HIDE DEF n
<1>6. /\ dcRow' \in [Discord!Alert -> AlertRow]
      /\ \A b \in Discord!Alert : b # s => dcRow'[b] = dcRow[b]
  BY <1>1, <1>4, <1>5
<1>7. Ends(s)
  BY <1>1, <1>4, <1>5, AlertRowNow DEF Ends
<1>8. QED
  BY <1>1, <1>2, <1>6, <1>7 DEF Finishes

\* recordAvailability: a look is taken, and what is new in it announced.
OnlyRows ==
  /\ UNCHANGED <<dcConf, dcSeen, dcContent, dcScan, dcSender, dcPosts, dcOld, dcTold>>
  /\ dcSaved \subseteq dcSaved' /\ dcSaved' \subseteq Request /\ dcCooling' \in BOOLEAN
News(r) ==
  IF dcSeen[r].epoch # dcConf.epoch /\ r \in dcConf.floor THEN {}
  ELSE dcScan[r].units \ (IF dcSeen[r].epoch = dcConf.epoch THEN dcSeen[r].units ELSE {})
Announces(r) ==
  /\ dcScan[r].epoch = dcConf.epoch
  /\ dcSeen' = [dcSeen EXCEPT ![r] = [epoch |-> dcConf.epoch,
       units |-> dcScan[r].units \union (IF dcSeen[r].epoch = dcConf.epoch THEN dcSeen[r].units ELSE {})]]
  /\ dcTold' = [dcTold EXCEPT ![r] = [u \in Unit |-> IF u \in News(r) THEN dcTold[r][u] + 1 ELSE dcTold[r][u]]]
Looks(r) ==
  /\ dcScan' = [dcScan EXCEPT ![r] = [epoch |-> 0, units |-> {}]]
  /\ UNCHANGED <<dcConf, dcSaved, dcCooling, dcContent, dcSender, dcPosts, dcOld>>
  /\ Announces(r) \/ UNCHANGED <<dcSeen, dcTold>>

\* A request's change is recorded as news or not.
LEMMA AlertRecordEffect ==
  ASSUME AlertTypes, NEW r \in Request, Discord!Record(r) PROVE Looks(r) /\ RowsMove
<1>1. UNCHANGED <<dcConf, dcSaved, dcCooling, dcContent, dcSender, dcPosts, dcOld>>
  BY DEF Discord!Record, Discord!library
<1>2. dcScan' = [dcScan EXCEPT ![r] = [epoch |-> 0, units |-> {}]]
  BY DEF Discord!Record, Discord!NoScan
<1>3. CASE dcConf.on /\ dcConf.news /\ Discord!SameEpoch(r)
  <2>1. dcRow' = Discord!Queued({Discord!News(r, u, dcConf.epoch) : u \in Discord!Novel(r)})
    BY <1>3 DEF Discord!Record
  <2>2. RowsMove
    BY <1>1, <2>1, QueuedRows
  <2>3. Discord!Novel(r) = News(r)
    BY DEF Discord!Novel, Discord!Baseline, News
  <2>4. dcScan[r].epoch = dcConf.epoch
    BY <1>3 DEF Discord!SameEpoch
  <2>5. dcSeen' = [dcSeen EXCEPT ![r] = [epoch |-> dcConf.epoch,
          units |-> dcScan[r].units \union (IF dcSeen[r].epoch = dcConf.epoch THEN dcSeen[r].units ELSE {})]]
    BY <1>3 DEF Discord!Record
  <2>6. dcTold' = [dcTold EXCEPT ![r] = [u \in Unit |-> IF u \in News(r) THEN dcTold[r][u] + 1 ELSE dcTold[r][u]]]
    BY <1>3, <2>3 DEF Discord!Record
  <2>7. QED
    BY <1>1, <1>2, <2>2, <2>4, <2>5, <2>6 DEF Looks, Announces
<1>4. CASE ~(dcConf.on /\ dcConf.news /\ Discord!SameEpoch(r))
  <2>1. UNCHANGED <<dcSeen, dcRow, dcTold>>
    BY <1>4 DEF Discord!Record
  <2>2. QED
    BY <1>1, <1>2, <2>1, RowsStay DEF Looks
<1>5. QED
  BY <1>3, <1>4

\* SaveUpdate.
Configures ==
  /\ dcSender.pc = "idle" /\ UNCHANGED <<dcSeen, dcSaved, dcContent, dcScan, dcSender, dcPosts>>
  /\ dcConf' \in [on : BOOLEAN, news : BOOLEAN, rev : Discord!Epoch, epoch : Discord!Epoch, floor : SUBSET Request]
  /\ dcConf'.rev >= dcConf.rev /\ dcCooling' \in BOOLEAN
  /\ \/ dcConf'.epoch = dcConf.epoch /\ dcConf'.floor = dcConf.floor /\ UNCHANGED <<dcOld, dcTold>>
     \/ /\ dcConf'.epoch = dcConf.epoch + 1 /\ dcConf'.floor = dcSaved
        /\ dcOld' = dcContent /\ dcTold' = [r \in Request |-> [u \in Unit |-> 0]]

\* Saving the settings moves epoch, revision and rows together.
LEMMA AlertSaveEffect ==
  ASSUME AlertTypes, NEW on \in BOOLEAN, NEW news \in BOOLEAN, NEW moved \in BOOLEAN, Discord!Save(on, news, moved)
  PROVE  Configures /\ RowsMove
<1> DEFINE changed == on # dcConf.on \/ moved
           activated == on /\ news /\ (~dcConf.on \/ ~dcConf.news \/ moved)
           rev == IF changed THEN dcConf.rev + 1 ELSE dcConf.rev
           epoch == IF activated THEN dcConf.epoch + 1 ELSE dcConf.epoch
           floor == IF activated THEN dcSaved ELSE dcConf.floor
<1>1. /\ dcSender.pc = "idle" /\ dcConf.rev + dcConf.epoch < MaxSave + 2
      /\ dcConf' = [on |-> on, news |-> news, rev |-> rev, epoch |-> epoch, floor |-> floor]
      /\ dcCooling' = (dcCooling /\ ~moved)
      /\ UNCHANGED <<dcSeen, dcSaved, dcContent, dcScan, dcSender, dcPosts>>
  BY DEF Discord!Save, Discord!library
<1>2. IF activated THEN dcOld' = dcContent /\ dcTold' = [r \in Request |-> [u \in Unit |-> 0]] ELSE UNCHANGED <<dcOld, dcTold>>
  BY DEF Discord!Save
<1>3. \E A : dcRow' = Discord!Cancelled(A)
  BY DEF Discord!Save
<1>4. dcConf.rev \in Discord!Epoch /\ dcConf.epoch \in Discord!Epoch /\ dcConf.floor \subseteq Request /\ dcSaved \subseteq Request
  BY DEF AlertTypes
<1>5. dcConf.rev \in 1 .. MaxSave + 1 /\ dcConf.epoch \in 1 .. MaxSave + 1
  BY <1>4 DEF Discord!Epoch
<1>6. rev \in 1 .. MaxSave + 1 /\ epoch \in 1 .. MaxSave + 1 /\ rev >= dcConf.rev /\ rev \in Nat /\ floor \subseteq Request
  BY <1>1, <1>4, <1>5, DiscordAssumption
<1>7. rev \in Discord!Epoch /\ epoch \in Discord!Epoch
  BY <1>6 DEF Discord!Epoch
<1>8. \/ epoch = dcConf.epoch /\ floor = dcConf.floor /\ UNCHANGED <<dcOld, dcTold>>
      \/ /\ epoch = dcConf.epoch + 1 /\ floor = dcSaved
         /\ dcOld' = dcContent /\ dcTold' = [r \in Request |-> [u \in Unit |-> 0]]
  BY <1>2
<1> HIDE DEF rev, epoch, floor
<1>9. /\ dcConf' \in [on : BOOLEAN, news : BOOLEAN, rev : Discord!Epoch, epoch : Discord!Epoch, floor : SUBSET Request]
      /\ dcConf'.rev = rev /\ dcConf'.epoch = epoch /\ dcConf'.floor = floor
  BY <1>1, <1>6, <1>7
<1>10. dcCooling' \in BOOLEAN
  BY <1>1 DEF AlertTypes
<1>11. Configures
  BY <1>1, <1>6, <1>8, <1>9, <1>10 DEF Configures
<1>12. QED
  BY <1>3, <1>5, <1>6, <1>9, <1>11, CancelledRows

\* What a library gains or loses, what a look reads, and what a restart ends.
Alters(r) ==
  /\ UNCHANGED <<dcConf, dcSeen, dcSaved, dcScan, dcCooling, dcSender, dcPosts, dcTold>>
  /\ \E u \in Unit : \/ dcContent' = [dcContent EXCEPT ![r] = dcContent[r] \union {u}] /\ UNCHANGED dcOld
                     \/ /\ dcContent' = [dcContent EXCEPT ![r] = dcContent[r] \ {u}]
                        /\ dcOld' = [dcOld EXCEPT ![r] = dcOld[r] \ {u}]
Scans(r) ==
  /\ UNCHANGED <<dcConf, dcSeen, dcSaved, dcContent, dcCooling, dcSender, dcPosts, dcOld, dcTold>>
  /\ dcScan' = [dcScan EXCEPT ![r] = [epoch |-> dcConf.epoch, units |-> dcContent[r]]]
OnlySender == UNCHANGED <<dcConf, dcSeen, dcSaved, dcContent, dcScan, dcOld, dcTold>> /\ dcCooling' \in BOOLEAN
Halts ==
  /\ UNCHANGED <<dcConf, dcSeen, dcSaved, dcContent, dcCooling, dcPosts, dcOld, dcTold>>
  /\ dcSender' \in Sender /\ dcSender'.pc = "idle"
  /\ dcScan' = [r \in Request |-> [epoch |-> 0, units |-> {}]]

DiscordStep ==
  \/ OnlyRows /\ RowsMove
  \/ RowsMove /\ \E r \in Request : Alters(r) \/ Scans(r) \/ Looks(r)
  \/ RowsMove /\ Configures
  \/ RowsMove /\ Halts
  \/ OnlySender /\ UNCHANGED dcPosts /\ (Ticks \/ Finishes)
  \/ OnlySender /\ Posts

\* Every action of the outbox has one of these effects.
LEMMA DiscordSteps == ASSUME AlertTypes, AlertPosts, Discord!Next PROVE DiscordStep
<1>0. dcCooling \in BOOLEAN /\ dcSaved \subseteq Request
  BY DEF AlertTypes
<1>1. ASSUME NEW r \in Request, Discord!Create(r) PROVE DiscordStep
  <2>1. UNCHANGED <<dcConf, dcSeen, dcContent, dcScan, dcSender, dcPosts, dcOld, dcTold, dcCooling>> /\ dcSaved' = dcSaved \union {r}
    BY <1>1 DEF Discord!Create, Discord!history
  <2>2. OnlyRows
    BY <1>0, <2>1 DEF OnlyRows
  <2>3. dcRow' = Discord!Queued({Discord!New(r)}) \/ UNCHANGED dcRow
    BY <1>1 DEF Discord!Create
  <2>4. RowsMove
    BY <2>1, <2>3, QueuedRows, RowsStay
  <2>5. QED
    BY <2>2, <2>4 DEF DiscordStep
<1>2. ASSUME NEW r \in Request, Discord!Scan(r) PROVE DiscordStep
  <2>1. Scans(r) /\ UNCHANGED dcRow
    BY <1>2 DEF Discord!Scan, Discord!library, Discord!history, Scans
  <2>2. UNCHANGED dcConf
    BY <2>1 DEF Scans
  <2>3. QED
    BY <2>1, <2>2, RowsStay DEF DiscordStep
<1>3. ASSUME NEW r \in Request, Discord!Record(r) PROVE DiscordStep
  BY <1>3, AlertRecordEffect DEF DiscordStep
<1>4. ASSUME NEW r \in Request, NEW u \in Unit, Discord!Arrive(r, u) \/ Discord!Leave(r, u) PROVE DiscordStep
  <2>1. Alters(r) /\ UNCHANGED <<dcRow, dcConf>>
    BY <1>4 DEF Discord!Arrive, Discord!Leave, Alters
  <2>2. QED
    BY <2>1, RowsStay DEF DiscordStep
<1>5. ASSUME NEW on \in BOOLEAN, NEW news \in BOOLEAN, NEW moved \in BOOLEAN, Discord!Save(on, news, moved) PROVE DiscordStep
  BY <1>5, AlertSaveEffect DEF DiscordStep
<1>6. ASSUME Discord!Tick PROVE DiscordStep
  <2>1. OnlySender /\ UNCHANGED dcPosts
    BY <1>0, <1>6 DEF Discord!Tick, Discord!library, Discord!history, OnlySender
  <2>2. QED
    BY <1>6, <2>1, TickEffect DEF DiscordStep
<1>7. ASSUME Discord!Send PROVE DiscordStep
  <2>1. OnlySender
    BY <1>0, <1>7 DEF Discord!Send, Discord!library, OnlySender
  <2>2. QED
    BY <1>7, <2>1, AlertSendEffect DEF DiscordStep
<1>8. ASSUME Discord!Finish PROVE DiscordStep
  <2>1. OnlySender /\ UNCHANGED dcPosts
    BY <1>0, <1>8 DEF Discord!Finish, Discord!library, Discord!history, OnlySender
  <2>2. dcSender.said # "none"
    BY <1>8 DEF Discord!Finish, AlertPosts
  <2>3. QED
    BY <1>8, <2>1, <2>2, FinishEffect DEF DiscordStep
<1>9. ASSUME NEW a \in Discord!Alert, Discord!Due(a) \/ Discord!Age(a) PROVE DiscordStep
  <2>1. OnlyRows /\ UNCHANGED dcConf
    BY <1>0, <1>9 DEF Discord!Due, Discord!Age, Discord!library, Discord!history, OnlyRows
  <2>2. dcRow' = [dcRow EXCEPT ![a].due = TRUE] \/ dcRow' = [dcRow EXCEPT ![a].aged = TRUE]
    BY <1>9 DEF Discord!Due, Discord!Age
  <2>3. QED
    BY <2>1, <2>2, MarkedRows DEF DiscordStep
<1>10. ASSUME Discord!Warm PROVE DiscordStep
  <2>1. OnlyRows /\ UNCHANGED <<dcRow, dcConf>>
    BY <1>0, <1>10 DEF Discord!Warm, Discord!library, Discord!history, OnlyRows
  <2>2. QED
    BY <2>1, RowsStay DEF DiscordStep
<1>11. ASSUME Discord!Crash PROVE DiscordStep
  <2>1. Discord!Idle \in Sender /\ Discord!Idle.pc = "idle"
    BY DEF Discord!Idle, Sender
  <2>2. Halts /\ UNCHANGED <<dcRow, dcConf>>
    BY <1>11, <2>1 DEF Discord!Crash, Discord!library, Discord!history, Discord!NoScan, Halts
  <2>3. QED
    BY <2>2, RowsStay DEF DiscordStep
<1>12. QED
  BY <1>1, <1>2, <1>3, <1>4, <1>5, <1>6, <1>7, <1>8, <1>9, <1>10, <1>11 DEF Discord!Next

\* The bounds of epochs and revisions.
LEMMA AlertTypeEpochs ==
  ASSUME AlertTypes
  PROVE  dcConf.epoch \in 0 .. MaxSave + 1 /\ dcConf.epoch \in Nat /\ dcConf.rev \in Nat /\ Discord!Epoch \subseteq 0 .. MaxSave + 1
<1>1. dcConf.epoch \in Discord!Epoch /\ dcConf.rev \in Discord!Epoch
  BY DEF AlertTypes
<1>2. QED
  BY <1>1, DiscordAssumption DEF Discord!Epoch

\* The types hold again once the rows have moved and the rest stayed typed.
LEMMA RowsTyped ==
  ASSUME AlertTypes, RowsMove
  PROVE  /\ dcRow' \in [Discord!Alert -> AlertRow]
         /\ \A a \in Discord!Alert : /\ dcRow'[a].rev <= dcConf'.rev
                                     /\ dcRow'[a].st = "sending" => dcRow'[a].tries >= 1
BY DEF RowsMove, RowMoves

\* The effects keep the rows, the sender and the settings in their sets.
LEMMA AlertTypesKept == ASSUME AlertTypes, AlertPosts, DiscordStep PROVE AlertTypes'
<1>1. CASE RowsMove /\ OnlyRows
  BY <1>1, RowsTyped DEF OnlyRows, AlertTypes
<1>2. ASSUME NEW r \in Request, RowsMove, Alters(r) PROVE AlertTypes'
  <2>1. dcContent \in [Request -> SUBSET Unit] /\ dcOld \in [Request -> SUBSET Unit]
    BY DEF AlertTypes
  <2>2. PICK u \in Unit : \/ dcContent' = [dcContent EXCEPT ![r] = dcContent[r] \union {u}] /\ UNCHANGED dcOld
                          \/ /\ dcContent' = [dcContent EXCEPT ![r] = dcContent[r] \ {u}]
                             /\ dcOld' = [dcOld EXCEPT ![r] = dcOld[r] \ {u}]
    BY <1>2 DEF Alters
  <2>3. dcContent' \in [Request -> SUBSET Unit]
    BY <2>1, <2>2
  <2>4. dcOld' \in [Request -> SUBSET Unit]
    BY <2>1, <2>2
  <2>5. QED
    BY <1>2, <2>3, <2>4, RowsTyped DEF Alters, AlertTypes
<1>3. ASSUME NEW r \in Request, RowsMove, Scans(r) PROVE AlertTypes'
  <2>1. [epoch |-> dcConf.epoch, units |-> dcContent[r]] \in Look
    BY AlertTypeEpochs DEF AlertTypes, Look
  <2>2. dcScan' \in [Request -> Look] /\ \A q \in Request : dcScan'[q].epoch <= dcConf.epoch
    BY <1>3, <2>1, AlertTypeEpochs DEF Scans, AlertTypes
  <2>3. QED
    BY <1>3, <2>2, RowsTyped DEF Scans, AlertTypes
<1>4. ASSUME NEW r \in Request, RowsMove, Looks(r) PROVE AlertTypes'
  <2>1. [epoch |-> 0, units |-> {}] \in Look
    BY DiscordAssumption DEF Look
  <2>2. dcScan' \in [Request -> Look] /\ \A q \in Request : dcScan'[q].epoch <= dcConf.epoch
    BY <1>4, <2>1, AlertTypeEpochs DEF Looks, AlertTypes
  <2>3. dcScan[r] \in Look /\ dcSeen[r] \in Look /\ dcSeen \in [Request -> Look] /\ dcTold \in [Request -> [Unit -> Nat]]
    BY DEF AlertTypes
  <2> DEFINE look == [epoch |-> dcConf.epoch,
               units |-> dcScan[r].units \union (IF dcSeen[r].epoch = dcConf.epoch THEN dcSeen[r].units ELSE {})]
             count == [u \in Unit |-> IF u \in News(r) THEN dcTold[r][u] + 1 ELSE dcTold[r][u]]
  <2>4. look \in Look /\ look.epoch = dcConf.epoch
    BY <2>3, AlertTypeEpochs DEF Look
  <2>5. count \in [Unit -> Nat]
    BY <2>3
  <2>6. (dcSeen' = [dcSeen EXCEPT ![r] = look] /\ dcTold' = [dcTold EXCEPT ![r] = count]) \/ UNCHANGED <<dcSeen, dcTold>>
    BY <1>4 DEF Looks, Announces
  <2> HIDE DEF look, count
  <2>7. dcSeen' \in [Request -> Look] /\ dcTold' \in [Request -> [Unit -> Nat]]
    BY <2>3, <2>4, <2>5, <2>6
  <2>8. \A q \in Request : dcSeen[q].epoch <= dcConf.epoch
    BY DEF AlertTypes
  <2>9. \A q \in Request : dcSeen'[q].epoch <= dcConf.epoch
    BY <2>3, <2>4, <2>6, <2>8, AlertTypeEpochs
  <2>10. QED
    BY <1>4, <2>2, <2>7, <2>9, RowsTyped DEF Looks, AlertTypes
<1>5. CASE RowsMove /\ Configures
  <2>1. dcConf'.floor \subseteq dcSaved /\ dcConf'.epoch >= dcConf.epoch /\ dcConf'.epoch \in Nat
    BY <1>5, AlertTypeEpochs DEF Configures, AlertTypes
  <2>2. dcOld' \in [Request -> SUBSET Unit] /\ dcTold' \in [Request -> [Unit -> Nat]]
    BY <1>5 DEF Configures, AlertTypes
  <2>3. \A r \in Request : dcSeen[r].epoch <= dcConf'.epoch /\ dcScan[r].epoch <= dcConf'.epoch
    <3>1. \A r \in Request : dcSeen[r].epoch \in Nat /\ dcScan[r].epoch \in Nat
      BY DiscordAssumption DEF AlertTypes, Look
    <3>2. QED
      BY <2>1, <3>1, AlertTypeEpochs DEF AlertTypes
  <2>4. QED
    BY <1>5, <2>1, <2>2, <2>3, RowsTyped DEF Configures, AlertTypes
<1>6. CASE RowsMove /\ Halts
  <2>1. [epoch |-> 0, units |-> {}] \in Look
    BY DiscordAssumption DEF Look
  <2>2. dcScan' \in [Request -> Look] /\ \A q \in Request : dcScan'[q].epoch <= dcConf.epoch
    BY <1>6, <2>1, AlertTypeEpochs DEF Halts
  <2>3. QED
    BY <1>6, <2>2, RowsTyped DEF Halts, AlertTypes
<1>7. CASE OnlySender /\ UNCHANGED dcPosts /\ Ticks
  <2>1. /\ dcRow' \in [Discord!Alert -> AlertRow]
        /\ \A a \in Discord!Alert : /\ dcRow'[a].rev <= dcConf.rev
                                    /\ dcRow'[a].st = "sending" => dcRow'[a].tries >= 1
    BY <1>7 DEF Ticks, RowSettles
  <2>2. dcSender' \in Sender /\ (dcSender'.pc # "idle" => dcSender'.row \in Discord!Alert)
    BY <1>7 DEF Ticks, AlertTypes, Sender
  <2>3. QED
    BY <1>7, <2>1, <2>2 DEF OnlySender, AlertTypes
<1>8. CASE OnlySender /\ UNCHANGED dcPosts /\ Finishes
  <2>1. dcSender.row \in Discord!Alert
    BY <1>8 DEF Finishes, AlertTypes
  <2>2. /\ dcRow' \in [Discord!Alert -> AlertRow]
        /\ \A a \in Discord!Alert : /\ dcRow'[a].rev <= dcConf.rev
                                    /\ dcRow'[a].st = "sending" => dcRow'[a].tries >= 1
    BY <1>8, <2>1 DEF Finishes, Ends, AlertTypes
  <2>3. QED
    BY <1>8, <2>2 DEF Finishes, OnlySender, AlertTypes
<1>9. CASE OnlySender /\ Posts
  <2>1. PICK said \in {"unread", "cancelled", "sent", "failed", "wait", "unconfirmed"}, posted \in {0, 1} :
          /\ dcSender' = [pc |-> "record", row |-> dcSender.row, said |-> said]
          /\ dcPosts' = [dcPosts EXCEPT ![dcSender.row] = @ + posted]
    BY <1>9 DEF Posts
  <2>2. dcSender.row \in Discord!Alert
    BY <1>9 DEF Posts, AlertTypes
  <2>3. dcSender' \in Sender /\ dcSender'.row \in Discord!Alert
    BY <2>1, <2>2 DEF Sender
  <2>4. dcPosts' \in [Discord!Alert -> Nat]
    BY <2>1, <2>2 DEF AlertTypes
  <2>5. QED
    BY <1>9, <2>3, <2>4 DEF Posts, OnlySender, AlertTypes
<1>10. QED
  BY <1>1, <1>2, <1>3, <1>4, <1>5, <1>6, <1>7, <1>8, <1>9 DEF DiscordStep

\* The effects keep what was posted apart from what may be sent.
LEMMA AlertPostsKept == ASSUME AlertTypes, AlertPosts, DiscordStep PROVE AlertPosts'
<1>1. CASE RowsMove /\ UNCHANGED <<dcSender, dcPosts>>
  BY <1>1 DEF RowsMove, RowMoves, AlertTypes, AlertPosts
<1>2. CASE RowsMove /\ Halts
  BY <1>2 DEF RowsMove, RowMoves, Halts, AlertPosts
<1>3. CASE UNCHANGED dcPosts /\ Ticks
  <2>1. \A a \in Discord!Alert : dcRow'[a].st \in Unsent => dcRow[a].st \in Unsent
    BY <1>3 DEF Ticks, RowSettles, Unsent
  <2>2. dcSender'.pc # "idle" => /\ dcSender'.pc = "prepare" /\ dcRow'[dcSender'.row].st = "sending"
                                 /\ dcPosts[dcSender'.row] = 0
    BY <1>3 DEF Ticks, AlertPosts, Unsent
  <2>3. QED
    BY <1>3, <2>1, <2>2 DEF AlertPosts
<1>4. CASE UNCHANGED dcPosts /\ Finishes
  <2>1. dcSender.row \in Discord!Alert /\ dcRow[dcSender.row].st = "sending"
    BY <1>4 DEF Finishes, AlertTypes, AlertPosts
  <2>2. \A a \in Discord!Alert : dcRow'[a].st \in Unsent => dcPosts[a] = 0
    <3>1. dcSender.said \in {"unread", "wait"} => dcPosts[dcSender.row] = 0
      BY <1>4 DEF Finishes, AlertPosts
    <3>2. dcRow'[dcSender.row].st \in Unsent => dcPosts[dcSender.row] = 0
      BY <1>4, <2>1, <3>1 DEF Finishes, Ends, AlertPosts
    <3>3. QED
      BY <1>4, <3>2 DEF Finishes, AlertPosts
  <2>3. QED
    BY <1>4, <2>2 DEF Finishes, AlertPosts
<1>5. CASE Posts
  <2>1. PICK said \in {"unread", "cancelled", "sent", "failed", "wait", "unconfirmed"}, posted \in {0, 1} :
          /\ (posted = 1 => said \in {"sent", "unconfirmed"})
          /\ dcSender' = [pc |-> "record", row |-> dcSender.row, said |-> said]
          /\ dcPosts' = [dcPosts EXCEPT ![dcSender.row] = @ + posted]
    BY <1>5 DEF Posts
  <2>2. /\ dcSender.row \in Discord!Alert /\ dcRow[dcSender.row].st = "sending" /\ dcPosts[dcSender.row] = 0
        /\ dcRow' = dcRow /\ dcPosts \in [Discord!Alert -> Nat]
    BY <1>5 DEF Posts, AlertTypes, AlertPosts
  <2>3. dcPosts'[dcSender.row] = posted /\ \A a \in Discord!Alert : a # dcSender.row => dcPosts'[a] = dcPosts[a]
    BY <2>1, <2>2
  <2>4. QED
    BY <2>1, <2>2, <2>3 DEF AlertPosts, Unsent
<1>6. DiscordStep => \/ RowsMove /\ UNCHANGED <<dcSender, dcPosts>>
                     \/ RowsMove /\ Halts
                     \/ UNCHANGED dcPosts /\ (Ticks \/ Finishes)
                     \/ Posts
  BY DEF DiscordStep, OnlyRows, Alters, Scans, Looks, Configures, OnlySender
<1>7. QED
  BY <1>1, <1>2, <1>3, <1>4, <1>5, <1>6

\* The effects keep the old from becoming news.
LEMMA AlertNewsKept == ASSUME AlertTypes, AlertNews, DiscordStep PROVE AlertNews'
<1>1. CASE UNCHANGED <<dcConf, dcSeen, dcContent, dcScan, dcOld, dcTold>>
  BY <1>1 DEF AlertNews
<1>2. ASSUME NEW r \in Request, Alters(r) PROVE AlertNews'
  <2>1. PICK u \in Unit : \/ dcContent' = [dcContent EXCEPT ![r] = dcContent[r] \union {u}] /\ UNCHANGED dcOld
                          \/ /\ dcContent' = [dcContent EXCEPT ![r] = dcContent[r] \ {u}]
                             /\ dcOld' = [dcOld EXCEPT ![r] = dcOld[r] \ {u}]
    BY <1>2 DEF Alters
  <2>2. dcContent \in [Request -> SUBSET Unit] /\ dcOld \in [Request -> SUBSET Unit]
        /\ \A q \in Request : dcOld[q] \subseteq dcContent[q]
    BY DEF AlertTypes, AlertNews
  <2>3. ASSUME NEW q \in Request PROVE dcOld'[q] \subseteq dcOld[q] /\ dcOld'[q] \subseteq dcContent'[q]
    <3>1. CASE q = r
      BY <2>1, <2>2, <3>1
    <3>2. CASE q # r
      BY <2>1, <2>2, <3>2
    <3>3. QED
      BY <3>1, <3>2
  <2>4. QED
    BY <1>2, <2>3 DEF Alters, AlertNews
<1>3. ASSUME NEW r \in Request, Scans(r) PROVE AlertNews'
  <2>1. dcScan'[r].units = dcContent[r] /\ \A q \in Request : q # r => dcScan'[q] = dcScan[q]
    BY <1>3 DEF Scans, AlertTypes
  <2>2. QED
    BY <1>3, <2>1 DEF Scans, AlertNews
<1>4. ASSUME NEW r \in Request, Looks(r) PROVE AlertNews'
  <2>1. dcScan'[r].epoch = 0 /\ \A q \in Request : q # r => dcScan'[q] = dcScan[q]
    BY <1>4 DEF Looks, AlertTypes
  <2>2. dcConf.epoch # 0
    BY DiscordAssumption DEF AlertTypes, Discord!Epoch
  <2>3. CASE UNCHANGED <<dcSeen, dcTold>>
    BY <1>4, <2>1, <2>2, <2>3 DEF Looks, AlertNews
  <2>4. CASE Announces(r)
    <3>1. /\ dcSeen'[r].epoch = dcConf.epoch
          /\ dcSeen'[r].units = dcScan[r].units \union (IF dcSeen[r].epoch = dcConf.epoch THEN dcSeen[r].units ELSE {})
          /\ dcTold'[r] = [u \in Unit |-> IF u \in News(r) THEN dcTold[r][u] + 1 ELSE dcTold[r][u]]
          /\ \A q \in Request : q # r => dcSeen'[q] = dcSeen[q] /\ dcTold'[q] = dcTold[q]
      BY <2>4 DEF Announces, AlertTypes
    <3>2. dcOld[r] \subseteq dcScan[r].units
      BY <2>4 DEF Announces, AlertNews
    <3>3. \A u \in Unit : dcTold'[r][u] > 0 => u \in dcSeen'[r].units
      BY <3>1 DEF News, AlertNews
    <3>4. QED
      BY <1>4, <2>1, <2>2, <3>1, <3>2, <3>3 DEF Looks, AlertNews
  <2>5. QED
    BY <1>4, <2>3, <2>4 DEF Looks
<1>5. CASE Configures
  <2>1. CASE dcConf'.epoch = dcConf.epoch /\ dcConf'.floor = dcConf.floor /\ UNCHANGED <<dcOld, dcTold>>
    BY <1>5, <2>1 DEF Configures, AlertNews
  <2>2. CASE dcConf'.epoch = dcConf.epoch + 1 /\ dcOld' = dcContent /\ dcTold' = [r \in Request |-> [u \in Unit |-> 0]]
    <3>1. \A r \in Request : dcSeen[r].epoch # dcConf'.epoch /\ dcScan[r].epoch # dcConf'.epoch
      <4>1. \A r \in Request : dcSeen[r].epoch \in Nat /\ dcScan[r].epoch \in Nat
        BY DiscordAssumption DEF AlertTypes, Look
      <4>2. QED
        BY <2>2, <4>1, AlertTypeEpochs DEF AlertTypes
    <3>2. QED
      BY <1>5, <2>2, <3>1 DEF Configures, AlertNews
  <2>3. QED
    BY <1>5, <2>1, <2>2 DEF Configures
<1>6. CASE Halts
  <2>1. \A r \in Request : dcScan'[r].epoch = 0
    BY <1>6 DEF Halts
  <2>2. dcConf.epoch # 0
    BY DiscordAssumption DEF AlertTypes, Discord!Epoch
  <2>3. QED
    BY <1>6, <2>1, <2>2 DEF Halts, AlertNews
<1>7. QED
  BY <1>1, <1>2, <1>3, <1>4, <1>5, <1>6 DEF DiscordStep, OnlyRows, OnlySender

\* The outbox starts within its invariant.
LEMMA DiscordInit == ASSUME Discord!Init PROVE DiscordInv
<1>1. Discord!NoRow \in AlertRow /\ Discord!NoRow.st = "none" /\ Discord!NoRow.rev = 0
  BY AlertRows
<1>2. [epoch |-> 0, units |-> {}] \in Look /\ 1 \in Discord!Epoch
  BY DiscordAssumption DEF Look, Discord!Epoch
<1>3. Discord!Idle \in Sender /\ Discord!Idle.pc = "idle"
  BY DEF Discord!Idle, Sender
<1>4. /\ dcConf = [on |-> TRUE, news |-> TRUE, rev |-> 1, epoch |-> 1, floor |-> {}] /\ dcCooling = FALSE /\ dcSaved = {}
      /\ dcRow = [a \in Discord!Alert |-> Discord!NoRow] /\ dcSender = Discord!Idle
      /\ dcSeen = [r \in Request |-> [epoch |-> 0, units |-> {}]] /\ dcScan = [r \in Request |-> [epoch |-> 0, units |-> {}]]
      /\ dcContent = [r \in Request |-> {}] /\ dcOld = [r \in Request |-> {}]
      /\ dcPosts = [a \in Discord!Alert |-> 0] /\ dcTold = [r \in Request |-> [u \in Unit |-> 0]]
  BY DEF Discord!Init, Discord!NoScan
<1>5. /\ dcConf \in [on : BOOLEAN, news : BOOLEAN, rev : Discord!Epoch, epoch : Discord!Epoch, floor : SUBSET Request]
      /\ dcConf.rev = 1 /\ dcConf.epoch = 1 /\ dcConf.floor = {}
  BY <1>2, <1>4
<1>6. AlertTypes
  <2>1. dcRow \in [Discord!Alert -> AlertRow] /\ \A a \in Discord!Alert : dcRow[a].st = "none" /\ dcRow[a].rev = 0
    BY <1>1, <1>4
  <2>2. /\ dcSeen \in [Request -> Look] /\ dcScan \in [Request -> Look]
        /\ \A r \in Request : dcSeen[r].epoch = 0 /\ dcScan[r].epoch = 0
    BY <1>2, <1>4
  <2>3. /\ dcPosts \in [Discord!Alert -> Nat] /\ dcTold \in [Request -> [Unit -> Nat]]
        /\ dcContent \in [Request -> SUBSET Unit] /\ dcOld \in [Request -> SUBSET Unit]
    BY <1>4
  <2>4. dcSaved \subseteq Request /\ dcConf.floor \subseteq dcSaved /\ dcCooling \in BOOLEAN
    BY <1>4, <1>5
  <2>5. QED
    BY <1>3, <1>4, <1>5, <2>1, <2>2, <2>3, <2>4 DEF AlertTypes
<1>7. AlertPosts
  BY <1>3, <1>4 DEF AlertPosts
<1>8. AlertNews
  BY <1>4, <1>5 DEF AlertNews
<1>9. QED
  BY <1>6, <1>7, <1>8 DEF DiscordInv

\* Every behaviour of the services is one of the outbox.
LEMMA DiscordSpec == Spec => Discord!Spec
<1>1. Init => Discord!Init
  BY DEF Init
<1>2. [Next]_vars => [Discord!Next]_(Discord!vars)
  BY DEF Next, Only, vars, tagVars, tvVars, followVars, grokVars, discordVars, profileVars, mediaVars,
         signVars, Discord!vars
<1>3. QED
  BY <1>1, <1>2, PTL DEF Spec, Discord!Spec

\* The inductive invariant of the outbox, by one case per effect.
LEMMA DiscordInvHolds == Spec => []DiscordInv
<1>1. DiscordInv /\ [Discord!Next]_(Discord!vars) => DiscordInv'
  <2>1. ASSUME DiscordInv, Discord!Next PROVE DiscordInv'
    BY <2>1, DiscordSteps, AlertTypesKept, AlertPostsKept, AlertNewsKept DEF DiscordInv
  <2>2. ASSUME DiscordInv, UNCHANGED Discord!vars PROVE DiscordInv'
    BY <2>2 DEF DiscordInv, Discord!vars, AlertTypes, AlertPosts, AlertNews
  <2>3. QED
    BY <2>1, <2>2
<1>2. QED
  BY <1>1, DiscordInit, DiscordSpec, PTL DEF Discord!Spec

\* An announcement is of what is not known yet.
LEMMA NewsAreNew ==
  ASSUME DiscordInv, DiscordStep, NEW r \in Request, NEW u \in Unit, dcTold'[r][u] > dcTold[r][u]
  PROVE  dcTold[r][u] = 0 /\ (r \in dcConf.floor => u \notin dcOld[r])
<1>1. dcTold \in [Request -> [Unit -> Nat]] /\ dcTold[r][u] \in Nat
  BY DEF DiscordInv, AlertTypes
<1>2. CASE UNCHANGED dcTold
  BY <1>1, <1>2
<1>3. CASE Configures
  <2>1. dcTold' = dcTold \/ dcTold' = [q \in Request |-> [v \in Unit |-> 0]]
    BY <1>3 DEF Configures
  <2>2. QED
    BY <1>1, <2>1
<1>4. ASSUME NEW q \in Request, Announces(q) PROVE dcTold[r][u] = 0 /\ (r \in dcConf.floor => u \notin dcOld[r])
  <2>1. dcTold' = [dcTold EXCEPT ![q] = [v \in Unit |-> IF v \in News(q) THEN dcTold[q][v] + 1 ELSE dcTold[q][v]]]
    BY <1>4 DEF Announces
  <2>2. q = r /\ u \in News(r)
    BY <1>1, <2>1
  <2>3. QED
    BY <1>1, <2>2 DEF DiscordInv, AlertNews, News
<1>5. QED
  BY <1>2, <1>3, <1>4 DEF DiscordStep, OnlyRows, Alters, Scans, Looks, OnlySender, Halts

\* No alert is posted twice, crashes and lost answers included; what was there
\* when announcements were activated is not announced, and nothing is twice.
THEOREM AlertsAreNewsHolds == Spec => AlertsAreNews
<1>1. DiscordInv => Discord!PostedOnce
  BY DEF DiscordInv, AlertPosts, Discord!PostedOnce
<1>2. DiscordInv /\ [Discord!Next]_(Discord!vars) =>
        [\A r \in Request, u \in Unit :
           dcTold'[r][u] > dcTold[r][u] => dcTold[r][u] = 0 /\ (r \in dcConf.floor => u \notin dcOld[r])]_(Discord!vars)
  <2>1. ASSUME DiscordInv, Discord!Next PROVE DiscordStep
    BY <2>1, DiscordSteps DEF DiscordInv
  <2>2. QED
    BY <2>1, NewsAreNew
<1>3. QED
  BY <1>1, <1>2, DiscordInvHolds, DiscordSpec, PTL DEF AlertsAreNews, Discord!Spec, Discord!NewsIsNew

\* The invariant holds the module's type invariant.
LEMMA DiscordTypeOK == ASSUME DiscordInv PROVE Discord!TypeOK
<1>1. ASSUME NEW a \in Discord!Alert
      PROVE  /\ dcRow[a].st \in Discord!Waiting \union {"none", "sent", "failed", "cancelled", "unconfirmed"}
             /\ dcRow[a].rev \in 0 .. dcConf.rev /\ dcRow[a].tries \in 0 .. MaxTries
  BY AlertRowNow DEF DiscordInv, AlertRow, Discord!Waiting
<1>2. QED
  BY <1>1 DEF DiscordInv, AlertTypes, Discord!TypeOK, Sender, Look

---------------------------------------------------------------------------
(* Profile changes.                                                        *)

Inside == {"check", "guard", "write", "verify", "record", "decide"}
Sent == {"verify", "record"}

ProposalRow ==
  [st : {"none", "pending", "executing", "applied", "failed", "superseded", "rejected", "expired"},
   old : BOOLEAN, before : Value \union {0}, after : Value \union {0}]
ChangeRow == [st : {"executing", "applied", "unknown", "none", "failed"},
              before : Value \union {0}, after : Value \union {0}, parent : Nat]
Decision == [pc : {"idle", "claim", "check", "guard", "write", "verify", "record", "decide"},
             kind : {"none", "approve", "restore"}, of : Nat, rec : Nat,
             end : {"none", "applied", "failed", "unknown"}]

\* Rows and decisions, as far as the other parts of the invariant need it.
ProfileTypes ==
  /\ pfProfile \in Value /\ pfLanded \subseteq Profiles!Change
  /\ pfProposal \in [Profiles!Proposal -> ProposalRow]
  /\ \A p \in Profiles!Proposal : pfProposal[p].st # "none" => pfProposal[p].after \in Value
  /\ pfChange \in [Profiles!Change -> ChangeRow]
  /\ \A c \in Profiles!Change :
       /\ pfChange[c].st # "none" => pfChange[c].before \in Value
       /\ pfChange[c].parent \in 0 .. c - 1
       /\ pfChange[c].st # "none" => \A k \in Profiles!Change : k < c => pfChange[k].st # "none"
  /\ pfActor \in [Party -> Decision]
  /\ pfWritten \in [Profiles!Proposal -> Nat] /\ pfRestored \in [Profiles!Change -> Nat]

\* Who holds the lock of the instance, and what each decision is about.
ProfileLocks ==
  /\ pfLock \in Party \union {NoParty}
  /\ \A a \in Party :
       /\ pfActor[a].pc \in Inside <=> pfLock = a
       /\ pfActor[a].pc # "idle" =>
            \/ pfActor[a].kind = "approve" /\ pfActor[a].of \in Profiles!Proposal
                 /\ pfProposal[pfActor[a].of].st # "none"
            \/ pfActor[a].kind = "restore" /\ pfActor[a].of \in Profiles!Change
                 /\ pfChange[pfActor[a].of].st # "none"
       /\ pfActor[a].pc = "idle" => pfActor[a].kind = "none"
       /\ pfActor[a].pc \in Inside /\ pfActor[a].kind = "approve" => pfProposal[pfActor[a].of].st = "executing"

\* A write that is on its way is on record, and its record tells the truth.
ProfileRecords ==
  /\ \A a \in Party :
       /\ pfActor[a].pc \in {"write"} \union Sent =>
            pfActor[a].rec \in Profiles!Change /\ pfChange[pfActor[a].rec].st = "executing"
       /\ pfActor[a].pc = "write" => pfActor[a].rec \notin pfLanded
       /\ pfActor[a].pc \in Sent =>
            /\ pfActor[a].end \in {"applied", "failed", "unknown"}
            /\ pfActor[a].rec \in pfLanded => pfActor[a].end # "failed"
  /\ Profiles!LandedIsKnown

\* A proposal is written by the one approval that takes it, once.
ProfileWrites ==
  \A p \in Profiles!Proposal :
    /\ pfWritten[p] <= 1
    /\ pfWritten[p] = 1 =>
         /\ pfProposal[p].st \notin {"none", "pending"}
         /\ \A a \in Party : pfActor[a].kind = "approve" /\ pfActor[a].of = p
                               => pfActor[a].pc \notin {"check", "guard", "write"}

\* A change that was restored has a record of it that cannot be overlooked.
ProfileRestores ==
  /\ \A c \in Profiles!Change :
       /\ pfRestored[c] <= 1
       /\ pfRestored[c] = 1 => \E d \in pfLanded : pfChange[d].parent = c
  /\ \A a \in Party : pfActor[a].pc = "write" /\ pfActor[a].kind = "restore" =>
       \A d \in Profiles!Change : pfChange[d].parent = pfActor[a].of /\ d # pfActor[a].rec
                                    => pfChange[d].st \notin Profiles!Blocking
  /\ \A a \in Party : pfActor[a].pc = "write" /\ pfActor[a].kind = "restore" =>
       pfChange[pfActor[a].rec].parent = pfActor[a].of

\* While an approval may still give its proposal back, none is pending.
ProfilePending ==
  /\ Profiles!OnePending
  /\ \A a \in Party : pfActor[a].pc \in {"check", "guard"} /\ pfActor[a].kind = "approve" =>
       \A q \in Profiles!Proposal : pfProposal[q].st # "pending"

ProfileInv ==
  ProfileTypes /\ ProfileLocks /\ ProfileRecords /\ ProfileWrites /\ ProfileRestores /\ ProfilePending

\* The sweep changes the status of proposals it finds old, and nothing else.
LEMMA SweptFacts ==
  ASSUME ProfileTypes, NEW p \in Profiles!Proposal
  PROVE  /\ DOMAIN Profiles!Swept = Profiles!Proposal
         /\ Profiles!Swept[p].old = pfProposal[p].old /\ Profiles!Swept[p].before = pfProposal[p].before
         /\ Profiles!Swept[p].after = pfProposal[p].after
         /\ \/ Profiles!Swept[p].st = pfProposal[p].st
            \/ Profiles!Swept[p].st = "expired" /\ pfProposal[p].st = "pending"
            \/ /\ Profiles!Swept[p].st = "failed" /\ pfProposal[p].st = "executing"
               /\ \A a \in Party : ~(pfActor[a].kind = "approve" /\ pfActor[a].of = p)
         /\ Profiles!Swept[p] \in ProposalRow
<1>1. Profiles!Swept[p] = IF pfProposal[p].st = "pending" /\ pfProposal[p].old THEN [pfProposal[p] EXCEPT !.st = "expired"]
     ELSE IF pfProposal[p].st = "executing" /\ \A a \in Party : ~(Profiles!Approves(a) /\ pfActor[a].of = p)
          THEN [pfProposal[p] EXCEPT !.st = "failed"] ELSE pfProposal[p]
  BY DEF Profiles!Swept
<1>2. pfProposal[p] \in ProposalRow
  BY DEF ProfileTypes
<1>3. DOMAIN Profiles!Swept = Profiles!Proposal
  BY DEF Profiles!Swept
<1>4. QED
  BY <1>1, <1>2, <1>3 DEF Profiles!Approves, ProposalRow

\* Nobody's decision but this one's changes.
OnlyActor(a) == pfActor' \in [Party -> Decision] /\ \A b \in Party : b # a => pfActor'[b] = pfActor[b]
\* Proposals change in their status alone.
SameTerms == /\ pfProposal' \in [Profiles!Proposal -> ProposalRow]
             /\ \A p \in Profiles!Proposal : pfProposal'[p].after = pfProposal[p].after
\* Records change in their status alone.
SameRecords == /\ pfChange' \in [Profiles!Change -> ChangeRow]
               /\ \A c \in Profiles!Change : pfChange'[c].before = pfChange[c].before
                                             /\ pfChange'[c].parent = pfChange[c].parent
Recorded == UNCHANGED <<pfWritten, pfRestored, pfLanded>>

\* An actor that moves, alone.
LEMMA ActorChange ==
  ASSUME ProfileTypes, NEW a \in Party, NEW r \in Decision, pfActor' = [pfActor EXCEPT ![a] = r]
  PROVE  OnlyActor(a) /\ pfActor'[a] = r
  BY DEF ProfileTypes, OnlyActor

\* The decisions an actor can come to.
LEMMA IdleDecision ==
  /\ Profiles!Idle \in Decision /\ Profiles!Idle.pc = "idle" /\ Profiles!Idle.kind = "none"
  /\ \A k \in {"approve", "restore"}, n \in Nat :
       LET r == [Profiles!Idle EXCEPT !.pc = "claim", !.kind = k, !.of = n]
       IN r \in Decision /\ r.pc = "claim" /\ r.kind = k /\ r.of = n
<1>1. Profiles!Idle \in Decision /\ Profiles!Idle.pc = "idle" /\ Profiles!Idle.kind = "none"
  BY DEF Profiles!Idle, Decision
<1>2. QED
  BY <1>1 DEF Decision

\* A proposal whose status changes, alone.
LEMMA ProposalChange ==
  ASSUME ProfileTypes, NEW p \in Profiles!Proposal, NEW s \in {"pending", "executing", "applied", "failed", "rejected"},
         pfProposal' = [pfProposal EXCEPT ![p].st = s]
  PROVE  /\ SameTerms /\ pfProposal'[p].st = s
         /\ \A q \in Profiles!Proposal : q # p => pfProposal'[q] = pfProposal[q]
<1>1. pfProposal[p] \in ProposalRow
  BY DEF ProfileTypes
<1>2. /\ [pfProposal[p] EXCEPT !.st = s] \in ProposalRow
      /\ [pfProposal[p] EXCEPT !.st = s].st = s /\ [pfProposal[p] EXCEPT !.st = s].after = pfProposal[p].after
  BY <1>1 DEF ProposalRow
<1>3. pfProposal' = [pfProposal EXCEPT ![p] = [pfProposal[p] EXCEPT !.st = s]]
  OBVIOUS
<1>4. QED
  BY <1>2, <1>3 DEF ProfileTypes, SameTerms

\* A change whose status changes, alone.
LEMMA ChangeChange ==
  ASSUME ProfileTypes, NEW c \in Profiles!Change, NEW s \in {"failed", "applied", "unknown"},
         pfChange' = [pfChange EXCEPT ![c].st = s]
  PROVE  /\ SameRecords /\ pfChange'[c].st = s
         /\ \A d \in Profiles!Change : d # c => pfChange'[d] = pfChange[d]
<1>1. pfChange[c] \in ChangeRow
  BY DEF ProfileTypes
<1>2. /\ [pfChange[c] EXCEPT !.st = s] \in ChangeRow
      /\ [pfChange[c] EXCEPT !.st = s].st = s /\ [pfChange[c] EXCEPT !.st = s].before = pfChange[c].before
      /\ [pfChange[c] EXCEPT !.st = s].parent = pfChange[c].parent
  BY <1>1 DEF ChangeRow
<1>3. pfChange' = [pfChange EXCEPT ![c] = [pfChange[c] EXCEPT !.st = s]]
  OBVIOUS
<1>4. QED
  BY <1>2, <1>3 DEF ProfileTypes, SameRecords

Sweeps ==
  /\ SameTerms /\ Recorded /\ UNCHANGED <<pfProfile, pfChange, pfLock, pfActor>>
  /\ \A p \in Profiles!Proposal :
       \/ pfProposal'[p].st = pfProposal[p].st
       \/ pfProposal'[p].st = "expired" /\ pfProposal[p].st = "pending"
       \/ /\ pfProposal'[p].st = "failed" /\ pfProposal[p].st = "executing"
          /\ \A a \in Party : ~(pfActor[a].kind = "approve" /\ pfActor[a].of = p)

\* The sweep's effect on proposals.
LEMMA SweepEffect ==
  ASSUME ProfileTypes, Profiles!Sweep
  PROVE  Sweeps
<1> USE DEF Sweeps
<1>1. pfProposal' = Profiles!Swept /\ Recorded /\ UNCHANGED <<pfProfile, pfChange, pfLock, pfActor>>
  BY DEF Profiles!Sweep, Profiles!history, Recorded
<1>2. Profiles!Swept = [p \in Profiles!Proposal |-> Profiles!Swept[p]]
  BY DEF Profiles!Swept
<1>3. pfProposal' \in [Profiles!Proposal -> ProposalRow]
  BY <1>1, <1>2, SweptFacts
<1>4. QED
  BY <1>1, <1>3, SweptFacts DEF SameTerms

Parks ==
  \E p \in Profiles!Proposal :
    /\ pfLock = NoParty /\ Recorded /\ UNCHANGED <<pfProfile, pfChange, pfLock, pfActor>>
    /\ pfProposal' \in [Profiles!Proposal -> ProposalRow]
    /\ pfProposal[p].st = "none" /\ pfProposal'[p].st = "pending" /\ pfProposal'[p].after \in Value
    /\ \A q \in Profiles!Proposal \ {p} :
         /\ pfProposal'[q].after = pfProposal[q].after
         /\ \/ pfProposal'[q].st = pfProposal[q].st /\ pfProposal[q].st # "pending"
            \/ pfProposal'[q].st \in {"expired", "superseded"} /\ pfProposal[q].st = "pending"
            \/ /\ pfProposal'[q].st = "failed" /\ pfProposal[q].st = "executing"
               /\ \A a \in Party : ~(pfActor[a].kind = "approve" /\ pfActor[a].of = q)

\* A parked proposal is new and pending.
LEMMA ParkEffect ==
  ASSUME ProfileTypes, Profiles!Park
  PROVE  Parks
<1> USE DEF Parks
<1>1. PICK p \in Profiles!Free(pfProposal), v \in Value \ {pfProfile} :
       pfProposal' = [q \in Profiles!Proposal |->
         IF q = p THEN [st |-> "pending", old |-> FALSE, before |-> pfProfile, after |-> v]
         ELSE IF Profiles!Swept[q].st = "pending" THEN [Profiles!Swept[q] EXCEPT !.st = "superseded"] ELSE Profiles!Swept[q]]
  BY DEF Profiles!Park
<1>2. p \in Profiles!Proposal /\ pfProposal[p].st = "none"
  BY DEF Profiles!Free, ProfileTypes
<1>3. pfProposal'[p] = [st |-> "pending", old |-> FALSE, before |-> pfProfile, after |-> v]
  BY <1>1, <1>2
<1>4. pfProposal'[p] \in ProposalRow /\ pfProposal'[p].st = "pending" /\ pfProposal'[p].after \in Value
  BY <1>3 DEF ProposalRow, ProfileTypes
<1>5. ASSUME NEW q \in Profiles!Proposal \ {p}
      PROVE  /\ pfProposal'[q] \in ProposalRow /\ pfProposal'[q].after = pfProposal[q].after
             /\ \/ pfProposal'[q].st = pfProposal[q].st /\ pfProposal[q].st # "pending"
                \/ pfProposal'[q].st \in {"expired", "superseded"} /\ pfProposal[q].st = "pending"
                \/ /\ pfProposal'[q].st = "failed" /\ pfProposal[q].st = "executing"
                   /\ \A a \in Party : ~(pfActor[a].kind = "approve" /\ pfActor[a].of = q)
  <2>1. pfProposal'[q] = IF Profiles!Swept[q].st = "pending" THEN [Profiles!Swept[q] EXCEPT !.st = "superseded"]
                         ELSE Profiles!Swept[q]
    BY <1>1
  <2>2. Profiles!Swept[q] \in ProposalRow
    BY SweptFacts
  <2>3. CASE Profiles!Swept[q].st = "pending"
    BY <2>1, <2>2, <2>3, SweptFacts DEF ProposalRow
  <2>4. CASE Profiles!Swept[q].st # "pending"
    BY <2>1, <2>2, <2>4, SweptFacts
  <2>5. QED
    BY <2>3, <2>4
<1>6. pfProposal' = [q \in Profiles!Proposal |-> pfProposal'[q]]
  BY <1>1
<1>7. pfProposal' \in [Profiles!Proposal -> ProposalRow]
  BY <1>4, <1>5, <1>6
<1>8. pfLock = NoParty /\ Recorded /\ UNCHANGED <<pfProfile, pfChange, pfLock, pfActor>>
  BY DEF Profiles!Park, Profiles!ParkLocked, Profiles!history, Recorded
<1>9. QED
  BY <1>2, <1>4, <1>5, <1>7, <1>8

Marks(p) ==
  /\ SameTerms /\ Recorded /\ UNCHANGED <<pfProfile, pfChange, pfLock, pfActor>>
  /\ \A q \in Profiles!Proposal : pfProposal'[q].st \in {pfProposal[q].st, "rejected"}
  /\ pfProposal[p].st = "pending" /\ \A q \in Profiles!Proposal : q # p => pfProposal'[q] = pfProposal[q]

\* A rejected or old proposal keeps its values.
LEMMA MarkEffect ==
  ASSUME ProfileTypes, NEW p \in Profiles!Proposal, Profiles!Reject(p) \/ Profiles!Age(p)
  PROVE  Marks(p)
<1> USE DEF Marks
<1>1. Recorded /\ UNCHANGED <<pfProfile, pfChange, pfLock, pfActor>> /\ pfProposal[p].st = "pending"
  BY DEF Profiles!Reject, Profiles!Age, Profiles!history, Recorded
<1>2. CASE Profiles!Reject(p)
  BY <1>1, <1>2, ProposalChange DEF Profiles!Reject
<1>3. CASE Profiles!Age(p)
  <2>1. pfProposal[p] \in ProposalRow
    BY DEF ProfileTypes
  <2>2. [pfProposal[p] EXCEPT !.old = TRUE] \in ProposalRow
        /\ [pfProposal[p] EXCEPT !.old = TRUE].st = pfProposal[p].st
        /\ [pfProposal[p] EXCEPT !.old = TRUE].after = pfProposal[p].after
    BY <2>1 DEF ProposalRow
  <2>3. pfProposal' = [pfProposal EXCEPT ![p] = [pfProposal[p] EXCEPT !.old = TRUE]]
    BY <1>3 DEF Profiles!Age
  <2>4. QED
    BY <1>1, <2>2, <2>3 DEF ProfileTypes, SameTerms
<1>4. QED
  BY <1>2, <1>3

Edits ==
  Recorded /\ UNCHANGED <<pfProposal, pfChange, pfLock, pfActor>> /\ pfProfile' \in Value

\* An edit in the application changes the profile alone.
LEMMA EditEffect ==
  ASSUME ProfileTypes, Profiles!Edit
  PROVE  Edits
  BY DEF Profiles!Edit, Profiles!history, Recorded, Edits

Crashes ==
  /\ Recorded /\ SameRecords /\ UNCHANGED <<pfProfile, pfProposal>> /\ pfLock' = NoParty
  /\ pfActor' \in [Party -> Decision] /\ \A a \in Party : pfActor'[a].pc = "idle" /\ pfActor'[a].kind = "none"
  /\ \A c \in Profiles!Change : \/ pfChange'[c].st = pfChange[c].st
                                \/ pfChange'[c].st = "unknown" /\ pfChange[c].st = "executing"

\* A crash forgets the actors and their lock.
LEMMA CrashEffect ==
  ASSUME ProfileTypes, Profiles!Crash
  PROVE  Crashes
<1> USE DEF Crashes
<1>1. Recorded /\ UNCHANGED <<pfProfile, pfProposal>> /\ pfLock' = NoParty /\ pfActor' = [a \in Party |-> Profiles!Idle]
  BY DEF Profiles!Crash, Profiles!history, Recorded
<1>2. ASSUME NEW c \in Profiles!Change
      PROVE  /\ pfChange'[c] \in ChangeRow /\ pfChange'[c].before = pfChange[c].before
             /\ pfChange'[c].parent = pfChange[c].parent
             /\ \/ pfChange'[c].st = pfChange[c].st
                \/ pfChange'[c].st = "unknown" /\ pfChange[c].st = "executing"
  <2>1. pfChange'[c] = IF pfChange[c].st = "executing" THEN [pfChange[c] EXCEPT !.st = "unknown"] ELSE pfChange[c]
    BY DEF Profiles!Crash
  <2>2. pfChange[c] \in ChangeRow
    BY DEF ProfileTypes
  <2>3. QED
    BY <2>1, <2>2 DEF ChangeRow
<1>3. pfChange' = [c \in Profiles!Change |-> pfChange'[c]]
  BY DEF Profiles!Crash
<1>4. pfChange' \in [Profiles!Change -> ChangeRow]
  BY <1>2, <1>3
<1>5. QED
  BY <1>1, <1>2, <1>4, IdleDecision DEF SameRecords

Decides(a) ==
  /\ pfActor[a].pc = "idle" /\ OnlyActor(a) /\ pfActor'[a].pc = "claim"
  /\ Recorded /\ UNCHANGED <<pfProfile, pfProposal, pfChange, pfLock>>
  /\ \/ /\ pfActor'[a].kind = "approve" /\ pfActor'[a].of \in Profiles!Proposal
        /\ pfProposal[pfActor'[a].of].st = "pending"
     \/ /\ pfActor'[a].kind = "restore" /\ pfActor'[a].of \in Profiles!Change
        /\ pfChange[pfActor'[a].of].st = "applied"

\* An administrator decides.
LEMMA DecideEffect ==
  ASSUME ProfileTypes, NEW a \in Party, Profiles!Decide(a)
  PROVE  Decides(a)
<1> USE DEF Decides
<1>1. pfActor[a].pc = "idle" /\ Recorded /\ UNCHANGED <<pfProfile, pfProposal, pfChange, pfLock>>
  BY DEF Profiles!Decide, Profiles!At, Profiles!history, Recorded
<1>2. CASE \E p \in Profiles!Proposal : /\ pfProposal[p].st = "pending"
             /\ pfActor' = [pfActor EXCEPT ![a] = [Profiles!Idle EXCEPT !.pc = "claim", !.kind = "approve", !.of = p]]
  <2>1. PICK p \in Profiles!Proposal : /\ pfProposal[p].st = "pending"
             /\ pfActor' = [pfActor EXCEPT ![a] = [Profiles!Idle EXCEPT !.pc = "claim", !.kind = "approve", !.of = p]]
    BY <1>2
  <2> DEFINE r == [Profiles!Idle EXCEPT !.pc = "claim", !.kind = "approve", !.of = p]
  <2>2. p \in Nat
    BY PartyAssumption, ProfilesAssumption DEF Profiles!Proposal
  <2>3. r \in Decision /\ r.pc = "claim" /\ r.kind = "approve" /\ r.of = p
    BY <2>2, IdleDecision
  <2>4. OnlyActor(a) /\ pfActor'[a] = r
    <3> HIDE DEF r
    <3> QED BY <2>1, <2>3, ActorChange DEF r
  <2>5. QED
    BY <1>1, <2>1, <2>3, <2>4
<1>3. CASE \E c \in Profiles!Change : /\ pfChange[c].st = "applied" /\ pfChange[c].parent = 0
             /\ pfActor' = [pfActor EXCEPT ![a] = [Profiles!Idle EXCEPT !.pc = "claim", !.kind = "restore", !.of = c]]
  <2>1. PICK p \in Profiles!Change : /\ pfChange[p].st = "applied"
             /\ pfActor' = [pfActor EXCEPT ![a] = [Profiles!Idle EXCEPT !.pc = "claim", !.kind = "restore", !.of = p]]
    BY <1>3
  <2> DEFINE r == [Profiles!Idle EXCEPT !.pc = "claim", !.kind = "restore", !.of = p]
  <2>2. p \in Nat
    BY PartyAssumption, ProfilesAssumption DEF Profiles!Change
  <2>3. r \in Decision /\ r.pc = "claim" /\ r.kind = "restore" /\ r.of = p
    BY <2>2, IdleDecision
  <2>4. OnlyActor(a) /\ pfActor'[a] = r
    <3> HIDE DEF r
    <3> QED BY <2>1, <2>3, ActorChange DEF r
  <2>5. QED
    BY <1>1, <2>1, <2>3, <2>4
<1>4. QED
  BY <1>2, <1>3 DEF Profiles!Decide


\* An actor's decision.
LEMMA DecisionNow ==
  ASSUME ProfileTypes, NEW a \in Party
  PROVE  pfActor[a] \in Decision /\ \A c \in Profiles!Change : c \in Nat
  BY PartyAssumption, ProfilesAssumption DEF ProfileTypes, Profiles!Change

Claims(a) ==
  /\ pfActor[a].pc = "claim" /\ pfLock = NoParty /\ OnlyActor(a)
  /\ Recorded /\ UNCHANGED <<pfProfile, pfChange>>
  /\ \/ pfActor'[a].pc = "idle" /\ pfActor'[a].kind = "none" /\ UNCHANGED <<pfLock, pfProposal>>
     \/ /\ pfLock' = a /\ pfActor'[a].pc = "check"
        /\ pfActor'[a].kind = pfActor[a].kind /\ pfActor'[a].of = pfActor[a].of
        /\ \/ pfActor[a].kind = "restore" /\ UNCHANGED pfProposal
           \/ /\ pfActor[a].kind = "approve" /\ SameTerms
              /\ pfProposal[pfActor[a].of].st = "pending" /\ pfProposal'[pfActor[a].of].st = "executing"
              /\ \A q \in Profiles!Proposal : q # pfActor[a].of => pfProposal'[q] = pfProposal[q]

\* A decision is claimed: the proposal executes under the lock.
LEMMA ClaimEffect ==
  ASSUME ProfileTypes, ProfileLocks, NEW a \in Party, Profiles!Claim(a)
  PROVE  Claims(a)
<1> USE DEF Claims
<1>1. pfActor[a].pc = "claim" /\ pfLock = NoParty /\ Recorded /\ UNCHANGED <<pfProfile, pfChange>>
  BY DEF Profiles!Claim, Profiles!At, Profiles!history, Recorded
<1>2. CASE pfActor' = [pfActor EXCEPT ![a] = Profiles!Idle] /\ UNCHANGED <<pfLock, pfProposal>>
  <2>1. OnlyActor(a) /\ pfActor'[a] = Profiles!Idle
    BY <1>2, IdleDecision, ActorChange
  <2>. QED
    BY <1>1, <1>2, <2>1, IdleDecision
<1>3. CASE /\ IF Profiles!Approves(a) THEN Profiles!Claimable(pfActor[a].of) ELSE Profiles!Restorable(pfActor[a].of)
           /\ pfLock' = a /\ pfActor' = [pfActor EXCEPT ![a].pc = "check"]
           /\ pfProposal' = IF Profiles!Approves(a) THEN [pfProposal EXCEPT ![pfActor[a].of].st = "executing"]
                            ELSE pfProposal
  <2> DEFINE r == [pfActor[a] EXCEPT !.pc = "check"]
  <2>1. r \in Decision /\ r.pc = "check" /\ r.kind = pfActor[a].kind /\ r.of = pfActor[a].of
    BY DecisionNow DEF Decision
  <2>2. pfActor' = [pfActor EXCEPT ![a] = r]
    BY <1>3
  <2>3. OnlyActor(a) /\ pfActor'[a] = r
    <3> HIDE DEF r
    <3> QED BY <2>1, <2>2, ActorChange
  <2>4. CASE pfActor[a].kind = "approve"
    <3>1. pfActor[a].of \in Profiles!Proposal /\ pfProposal[pfActor[a].of].st = "pending"
      BY <1>1, <1>3, <2>4 DEF ProfileLocks, Profiles!Approves, Profiles!Claimable
    <3>2. pfProposal' = [pfProposal EXCEPT ![pfActor[a].of].st = "executing"]
      BY <1>3, <2>4 DEF Profiles!Approves
    <3>3. /\ SameTerms /\ pfProposal'[pfActor[a].of].st = "executing"
          /\ \A q \in Profiles!Proposal : q # pfActor[a].of => pfProposal'[q] = pfProposal[q]
      BY <3>1, <3>2, ProposalChange
    <3>4. QED
      BY <1>1, <1>3, <2>1, <2>3, <2>4, <3>1, <3>3
  <2>5. CASE pfActor[a].kind # "approve"
    <3>1. pfActor[a].kind = "restore" /\ UNCHANGED pfProposal
      BY <1>1, <1>3, <2>5 DEF ProfileLocks, Profiles!Approves
    <3>2. QED
      BY <1>1, <1>3, <2>1, <2>3, <3>1
  <2>6. QED
    BY <2>4, <2>5
<1>4. QED
  BY <1>2, <1>3 DEF Profiles!Claim

\* Release, Drifted and Finish end a decision.
Closing(a) == Profiles!Release(a) \/ Profiles!Drifted(a) \/ Profiles!Finish(a)

Closes(a) ==
  /\ pfActor[a].pc \in {"check", "guard", "decide"} /\ OnlyActor(a)
  /\ pfActor'[a].pc = "idle" /\ pfActor'[a].kind = "none"
  /\ pfLock' = NoParty /\ Recorded /\ UNCHANGED <<pfProfile, pfChange>>
  /\ \/ UNCHANGED pfProposal
     \/ \E st \in {"pending", "applied", "failed"} :
          /\ st = "pending" => pfActor[a].pc \in {"check", "guard"}
          /\ pfActor[a].kind = "approve" /\ SameTerms /\ pfActor[a].of \in Profiles!Proposal
          /\ pfProposal[pfActor[a].of].st = "executing" /\ pfProposal'[pfActor[a].of].st = st
          /\ \A q \in Profiles!Proposal : q # pfActor[a].of => pfProposal'[q] = pfProposal[q]

\* A decision that comes to nothing is closed.
LEMMA CloseEffect ==
  ASSUME ProfileTypes, ProfileLocks, NEW a \in Party, Closing(a)
  PROVE  Closes(a)
<1> USE DEF Closes
<1>1. PICK st \in {"pending", "applied", "failed"} :
        /\ pfActor[a].pc \in {"check", "guard", "decide"} /\ (st = "pending" => pfActor[a].pc \in {"check", "guard"})
        /\ Profiles!End(a, st) /\ Recorded /\ UNCHANGED <<pfProfile, pfChange>>
  <2>1. CASE Profiles!Release(a)
    BY <2>1 DEF Profiles!Release, Profiles!history, Recorded
  <2>2. CASE Profiles!Drifted(a)
    BY <2>2 DEF Profiles!Drifted, Profiles!history, Recorded
  <2>3. CASE Profiles!Finish(a)
    BY <2>3 DEF Profiles!Finish, Profiles!At, Profiles!history, Recorded
  <2>4. QED
    BY <2>1, <2>2, <2>3 DEF Closing
<1>2. pfActor' = [pfActor EXCEPT ![a] = Profiles!Idle] /\ pfLock' = NoParty
  BY <1>1 DEF Profiles!End
<1>3. OnlyActor(a) /\ pfActor'[a].pc = "idle" /\ pfActor'[a].kind = "none"
  <2>1. Profiles!Idle \in Decision
    BY IdleDecision
  <2>2. OnlyActor(a) /\ pfActor'[a] = Profiles!Idle
    BY <1>2, <2>1, ActorChange
  <2>3. QED
    BY <2>2, IdleDecision
<1>4. CASE UNCHANGED pfProposal
  BY <1>1, <1>2, <1>3, <1>4
<1>5. CASE /\ pfActor[a].kind = "approve" /\ pfProposal[pfActor[a].of].st = "executing"
           /\ pfProposal' = [pfProposal EXCEPT ![pfActor[a].of].st = st]
  <2>1. pfActor[a].of \in Profiles!Proposal
    BY <1>1, <1>5 DEF ProfileLocks
  <2>2. /\ SameTerms /\ pfProposal'[pfActor[a].of].st = st
        /\ \A q \in Profiles!Proposal : q # pfActor[a].of => pfProposal'[q] = pfProposal[q]
    BY <1>5, <2>1, ProposalChange
  <2>3. QED
    BY <1>1, <1>2, <1>3, <1>5, <2>1, <2>2
<1>6. QED
  BY <1>1, <1>4, <1>5 DEF Profiles!End, Profiles!Approves

\* Check, Verify and the failures of Record change the decision alone.
Checks(a) ==
  /\ pfActor[a].pc = "check" /\ OnlyActor(a) /\ pfActor'[a].pc = "guard"
  /\ pfActor'[a].kind = pfActor[a].kind /\ pfActor'[a].of = pfActor[a].of
  /\ Recorded /\ UNCHANGED <<pfProfile, pfProposal, pfChange, pfLock>>

\* What is to be written is compared with what is there.
LEMMA CheckEffect ==
  ASSUME ProfileTypes, NEW a \in Party, Profiles!Check(a)
  PROVE  Checks(a)
<1> USE DEF Checks
<1> DEFINE r == [pfActor[a] EXCEPT !.pc = "guard"]
<1>1. r \in Decision /\ r.pc = "guard" /\ r.kind = pfActor[a].kind /\ r.of = pfActor[a].of
  BY DecisionNow DEF Decision
<1>2. pfActor' = [pfActor EXCEPT ![a] = r] /\ pfActor[a].pc = "check"
      /\ Recorded /\ UNCHANGED <<pfProfile, pfProposal, pfChange, pfLock>>
  BY DEF Profiles!Check, Profiles!At, Profiles!history, Recorded
<1>3. OnlyActor(a) /\ pfActor'[a] = r
  <2> HIDE DEF r
  <2> QED BY <1>1, <1>2, ActorChange
<1>4. QED
  BY <1>1, <1>2, <1>3

GuardsAt(a, c) ==
  /\ pfActor[a].pc = "guard" /\ OnlyActor(a) /\ pfActor'[a].pc = "write" /\ pfActor'[a].rec = c
  /\ pfActor'[a].kind = pfActor[a].kind /\ pfActor'[a].of = pfActor[a].of
  /\ Recorded /\ UNCHANGED <<pfProfile, pfProposal, pfLock>>
  /\ pfActor[a].kind = "restore" => Profiles!Restorable(pfActor[a].of)
  /\ pfChange[c].st = "none" /\ \A k \in Profiles!Change : k < c => pfChange[k].st # "none"
  /\ pfChange' \in [Profiles!Change -> ChangeRow]
  /\ pfChange'[c].st = "executing" /\ pfChange'[c].before \in Value
  /\ pfActor[a].kind = "restore" => pfChange'[c].parent = pfActor[a].of
  /\ pfActor[a].kind = "approve" => pfChange'[c].parent = 0
  /\ \A d \in Profiles!Change : d # c => pfChange'[d] = pfChange[d]
Guards(a) == \E c \in Profiles!Change : GuardsAt(a, c)

\* The guard records the change before its write.
LEMMA GuardEffect ==
  ASSUME ProfileTypes, ProfileLocks, NEW a \in Party, Profiles!Guard(a)
  PROVE  Guards(a)
<1> USE DEF Guards, GuardsAt
<1>1. PICK c \in Profiles!Free(pfChange) :
       /\ pfChange' = [pfChange EXCEPT ![c] = [st |-> "executing", before |-> pfProfile, after |-> Profiles!After(a),
                            parent |-> IF Profiles!Approves(a) THEN 0 ELSE pfActor[a].of]]
       /\ pfActor' = [pfActor EXCEPT ![a].pc = "write", ![a].rec = c]
  BY DEF Profiles!Guard
<1>2. /\ c \in Profiles!Change /\ pfChange[c].st = "none"
      /\ \A k \in Profiles!Change : k < c => pfChange[k].st # "none"
  BY <1>1 DEF Profiles!Free, ProfileTypes
<1>3. pfActor[a].pc = "guard" /\ Recorded /\ UNCHANGED <<pfProfile, pfProposal, pfLock>>
      /\ (~Profiles!Approves(a) => Profiles!Restorable(pfActor[a].of))
  BY DEF Profiles!Guard, Profiles!At, Profiles!history, Recorded
<1>4. /\ pfActor[a].kind = "approve" => pfActor[a].of \in Profiles!Proposal /\ pfProposal[pfActor[a].of].st # "none"
      /\ pfActor[a].kind # "approve" => pfActor[a].kind = "restore" /\ pfActor[a].of \in Profiles!Change
                                        /\ pfChange[pfActor[a].of].st # "none"
  BY <1>3 DEF ProfileLocks
<1>5. Profiles!After(a) \in Value
  BY <1>4 DEF Profiles!After, Profiles!Approves, ProfileTypes
<1>6. pfActor[a].of \in Nat /\ pfProfile \in Value
  BY DEF ProfileTypes, Decision
<1> DEFINE n == [st |-> "executing", before |-> pfProfile, after |-> Profiles!After(a),
                 parent |-> IF Profiles!Approves(a) THEN 0 ELSE pfActor[a].of]
           r == [pfActor[a] EXCEPT !.pc = "write", !.rec = c]
<1>7. n \in ChangeRow /\ n.st = "executing" /\ n.before \in Value /\ n.parent = IF Profiles!Approves(a) THEN 0 ELSE pfActor[a].of
  BY <1>5, <1>6 DEF ChangeRow
<1>8. r \in Decision /\ r.pc = "write" /\ r.kind = pfActor[a].kind /\ r.of = pfActor[a].of /\ r.rec = c
  BY <1>2, DecisionNow DEF Decision
<1>9. pfActor' = [pfActor EXCEPT ![a] = r]
  BY <1>1
<1>10. OnlyActor(a) /\ pfActor'[a] = r
  <2> HIDE DEF r
  <2> QED BY <1>8, <1>9, ActorChange
<1>11. /\ pfChange' \in [Profiles!Change -> ChangeRow] /\ pfChange'[c] = n
       /\ \A d \in Profiles!Change : d # c => pfChange'[d] = pfChange[d]
  <2>1. pfChange' = [pfChange EXCEPT ![c] = n]
    BY <1>1
  <2> HIDE DEF n
  <2>2. QED
    BY <1>2, <1>7, <2>1 DEF ProfileTypes
<1>12. /\ pfActor[a].kind = "restore" => n.parent = pfActor[a].of /\ Profiles!Restorable(pfActor[a].of)
       /\ pfActor[a].kind = "approve" => n.parent = 0
  BY <1>3, <1>7 DEF Profiles!Approves
<1> HIDE DEF n, r
<1>13. QED
  BY <1>2, <1>3, <1>7, <1>8, <1>10, <1>11, <1>12

Writes(a) ==
  /\ pfActor[a].pc = "write" /\ OnlyActor(a) /\ pfActor'[a].pc \in Sent
  /\ pfActor'[a].kind = pfActor[a].kind /\ pfActor'[a].of = pfActor[a].of /\ pfActor'[a].rec = pfActor[a].rec
  /\ pfActor'[a].end \in {"failed", "unknown"}
  /\ pfProfile' \in Value /\ UNCHANGED <<pfProposal, pfChange, pfLock>>
  /\ \/ pfLanded' = pfLanded /\ UNCHANGED pfRestored
     \/ /\ pfLanded' = pfLanded \union {pfActor[a].rec} /\ pfActor'[a].end = "unknown"
        /\ \/ pfActor[a].kind = "approve" /\ UNCHANGED pfRestored
           \/ pfActor[a].kind = "restore" /\ pfRestored' = [pfRestored EXCEPT ![pfActor[a].of] = @ + 1]
  /\ \/ pfActor[a].kind = "approve" /\ pfWritten' = [pfWritten EXCEPT ![pfActor[a].of] = @ + 1]
     \/ pfActor[a].kind = "restore" /\ UNCHANGED pfWritten

\* The write reaches the profile or not.
LEMMA WriteEffect ==
  ASSUME ProfileTypes, ProfileLocks, NEW a \in Party, Profiles!Write(a)
  PROVE  Writes(a)
<1> USE DEF Writes
<1>1. pfActor[a].pc = "write" /\ UNCHANGED <<pfProposal, pfChange, pfLock>>
      /\ pfWritten' = IF Profiles!Approves(a) THEN [pfWritten EXCEPT ![pfActor[a].of] = @ + 1] ELSE pfWritten
  BY DEF Profiles!Write, Profiles!At
<1>2. PICK land \in BOOLEAN, reply \in {"accepted", "refused", "none"} :
       /\ reply = "refused" => ~land
       /\ pfProfile' = IF land THEN Profiles!After(a) ELSE pfProfile
       /\ pfLanded' = IF land THEN pfLanded \union {pfActor[a].rec} ELSE pfLanded
       /\ pfRestored' = IF land /\ ~Profiles!Approves(a) THEN [pfRestored EXCEPT ![pfActor[a].of] = @ + 1] ELSE pfRestored
       /\ pfActor' = [pfActor EXCEPT ![a].pc = IF reply = "accepted" THEN "verify" ELSE "record",
                                  ![a].end = IF reply = "refused" THEN "failed" ELSE "unknown"]
  BY DEF Profiles!Write
<1>3. /\ pfActor[a].kind = "approve" => pfActor[a].of \in Profiles!Proposal /\ pfProposal[pfActor[a].of].st # "none"
      /\ pfActor[a].kind # "approve" => pfActor[a].kind = "restore" /\ pfActor[a].of \in Profiles!Change
                                        /\ pfChange[pfActor[a].of].st # "none"
  BY <1>1 DEF ProfileLocks
<1>4. Profiles!After(a) \in Value /\ pfProfile \in Value
  BY <1>3 DEF Profiles!After, Profiles!Approves, ProfileTypes
<1> DEFINE pc == IF reply = "accepted" THEN "verify" ELSE "record"
           end == IF reply = "refused" THEN "failed" ELSE "unknown"
           r == [pfActor[a] EXCEPT !.pc = pc, !.end = end]
<1>5. pc \in {"verify", "record"} /\ end \in {"failed", "unknown"} /\ (land => end = "unknown")
  BY <1>2
<1>6. pfActor' = [pfActor EXCEPT ![a] = r]
  BY <1>2
<1>7. /\ r \in Decision /\ r.pc = pc /\ r.kind = pfActor[a].kind /\ r.of = pfActor[a].of
      /\ r.rec = pfActor[a].rec /\ r.end = end
  <2> HIDE DEF pc, end
  <2> QED BY <1>5, DecisionNow DEF Decision
<1>8. OnlyActor(a) /\ pfActor'[a] = r
  <2> HIDE DEF r
  <2> QED BY <1>6, <1>7, ActorChange
<1> HIDE DEF r, pc, end
<1>9. /\ \/ pfLanded' = pfLanded /\ UNCHANGED pfRestored
         \/ /\ pfLanded' = pfLanded \union {pfActor[a].rec} /\ end = "unknown"
            /\ \/ pfActor[a].kind = "approve" /\ UNCHANGED pfRestored
               \/ pfActor[a].kind = "restore" /\ pfRestored' = [pfRestored EXCEPT ![pfActor[a].of] = @ + 1]
      /\ \/ pfActor[a].kind = "approve" /\ pfWritten' = [pfWritten EXCEPT ![pfActor[a].of] = @ + 1]
         \/ pfActor[a].kind = "restore" /\ UNCHANGED pfWritten
  BY <1>1, <1>2, <1>3, <1>5 DEF Profiles!Approves
<1>10. pfProfile' \in Value
  BY <1>2, <1>4
<1>11. QED
  BY <1>1, <1>5, <1>7, <1>8, <1>9, <1>10 DEF Sent

Verifies(a) ==
  /\ pfActor[a].pc = "verify" /\ OnlyActor(a) /\ pfActor'[a].pc = "record"
  /\ pfActor'[a].kind = pfActor[a].kind /\ pfActor'[a].of = pfActor[a].of /\ pfActor'[a].rec = pfActor[a].rec
  /\ pfActor'[a].end \in {pfActor[a].end, "applied", "unknown"}
  /\ Recorded /\ UNCHANGED <<pfProfile, pfProposal, pfChange, pfLock>>

\* The profile is read back.
LEMMA VerifyEffect ==
  ASSUME ProfileTypes, NEW a \in Party, Profiles!Verify(a)
  PROVE  Verifies(a)
<1> USE DEF Verifies
<1>1. pfActor[a].pc = "verify" /\ Recorded /\ UNCHANGED <<pfProfile, pfProposal, pfChange, pfLock>>
  BY DEF Profiles!Verify, Profiles!At, Profiles!history, Recorded
<1>2. CASE pfActor' = [pfActor EXCEPT ![a].pc = "record"]
  <2> DEFINE r == [pfActor[a] EXCEPT !.pc = "record"]
  <2>1. /\ r \in Decision /\ r.pc = "record" /\ r.kind = pfActor[a].kind /\ r.of = pfActor[a].of
        /\ r.rec = pfActor[a].rec /\ r.end = pfActor[a].end
    BY DecisionNow DEF Decision
  <2>2. pfActor' = [pfActor EXCEPT ![a] = r]
    BY <1>2
  <2> HIDE DEF r
  <2>3. QED
    BY <1>1, <2>1, <2>2, ActorChange
<1>3. CASE pfActor' = [pfActor EXCEPT ![a].pc = "record",
                               ![a].end = IF pfProfile = Profiles!After(a) THEN "applied" ELSE "unknown"]
  <2> DEFINE e == IF pfProfile = Profiles!After(a) THEN "applied" ELSE "unknown"
             r == [pfActor[a] EXCEPT !.pc = "record", !.end = e]
  <2>1. e \in {"applied", "unknown"}
    OBVIOUS
  <2>2. pfActor' = [pfActor EXCEPT ![a] = r]
    BY <1>3
  <2> HIDE DEF e
  <2>3. /\ r \in Decision /\ r.pc = "record" /\ r.kind = pfActor[a].kind /\ r.of = pfActor[a].of
        /\ r.rec = pfActor[a].rec /\ r.end = e
    BY <2>1, DecisionNow DEF Decision
  <2> HIDE DEF r
  <2>4. QED
    BY <1>1, <2>1, <2>2, <2>3, ActorChange
<1>4. QED
  BY <1>2, <1>3 DEF Profiles!Verify

Records(a) ==
  /\ pfActor[a].pc = "record" /\ OnlyActor(a) /\ pfActor'[a].pc = "decide"
  /\ pfActor'[a].kind = pfActor[a].kind /\ pfActor'[a].of = pfActor[a].of /\ pfActor'[a].rec = pfActor[a].rec
  /\ Recorded /\ UNCHANGED <<pfProfile, pfProposal, pfLock>>
  /\ \/ UNCHANGED pfChange
     \/ /\ SameRecords /\ pfActor[a].rec \in Profiles!Change
        /\ pfChange'[pfActor[a].rec].st = pfActor[a].end
        /\ pfActor[a].end \in {"applied", "failed", "unknown"}
        /\ \A d \in Profiles!Change : d # pfActor[a].rec => pfChange'[d] = pfChange[d]

\* What became of the write is recorded.
LEMMA RecordEffect ==
  ASSUME ProfileTypes, ProfileRecords, NEW a \in Party, Profiles!Record(a)
  PROVE  Records(a)
<1> USE DEF Records
<1>1. pfActor[a].pc = "record" /\ Recorded /\ UNCHANGED <<pfProfile, pfProposal, pfLock>>
  BY DEF Profiles!Record, Profiles!At, Profiles!history, Recorded
<1>2. CASE pfChange' = [pfChange EXCEPT ![pfActor[a].rec].st = pfActor[a].end]
           /\ pfActor' = [pfActor EXCEPT ![a].pc = "decide"]
  <2> DEFINE r == [pfActor[a] EXCEPT !.pc = "decide"]
  <2>1. r \in Decision /\ r.pc = "decide" /\ r.kind = pfActor[a].kind /\ r.of = pfActor[a].of /\ r.rec = pfActor[a].rec
    BY DecisionNow DEF Decision
  <2>2. pfActor' = [pfActor EXCEPT ![a] = r]
    BY <1>2
  <2> HIDE DEF r
  <2>3. OnlyActor(a) /\ pfActor'[a] = r
    BY <2>1, <2>2, ActorChange
  <2>4. pfActor[a].rec \in Profiles!Change /\ pfActor[a].end \in {"applied", "failed", "unknown"}
    BY <1>1 DEF ProfileRecords, Sent
  <2>5. /\ SameRecords /\ pfChange'[pfActor[a].rec].st = pfActor[a].end
        /\ \A d \in Profiles!Change : d # pfActor[a].rec => pfChange'[d] = pfChange[d]
    BY <1>2, <2>4, ChangeChange
  <2>6. QED
    BY <1>1, <2>1, <2>3, <2>4, <2>5
<1>3. CASE pfActor' = [pfActor EXCEPT ![a].pc = "decide", ![a].end = "failed"] /\ UNCHANGED pfChange
  <2> DEFINE r == [pfActor[a] EXCEPT !.pc = "decide", !.end = "failed"]
  <2>1. r \in Decision /\ r.pc = "decide" /\ r.kind = pfActor[a].kind /\ r.of = pfActor[a].of /\ r.rec = pfActor[a].rec
    BY DecisionNow DEF Decision
  <2>2. pfActor' = [pfActor EXCEPT ![a] = r]
    BY <1>3
  <2> HIDE DEF r
  <2>3. QED
    BY <1>1, <1>3, <2>1, <2>2, ActorChange
<1>4. QED
  BY <1>2, <1>3 DEF Profiles!Record, Profiles!Outcome

\* What a step may do, without the way it is written.
ProfileStep ==
  \/ Sweeps \/ Parks \/ Edits \/ Crashes
  \/ \E p \in Profiles!Proposal : Marks(p)
  \/ \E a \in Party : \/ Decides(a) \/ Claims(a) \/ Closes(a) \/ Checks(a)
                     \/ Guards(a) \/ Writes(a) \/ Verifies(a) \/ Records(a)

\* Every action on profiles has one of these effects.
LEMMA ProfileSteps == ASSUME ProfileInv, Profiles!Next PROVE ProfileStep
  BY SweepEffect, ParkEffect, EditEffect, CrashEffect, MarkEffect, DecideEffect, ClaimEffect, CloseEffect,
     CheckEffect, GuardEffect, WriteEffect, VerifyEffect, RecordEffect
     DEF Profiles!Next, ProfileStep, Closing, ProfileInv

\* The effects keep proposals, changes and actors in their sets.
LEMMA ProfileTypesStep == ASSUME ProfileInv, ProfileStep PROVE ProfileTypes'
<1> USE PartyAssumption, ProfilesAssumption DEF ProfileInv, OnlyActor, SameTerms, SameRecords, Recorded, ProfileTypes
<1>1. CASE Sweeps
  BY <1>1 DEF Sweeps
<1>2. CASE Parks
  BY <1>2 DEF Parks
<1>3. CASE Edits
  BY <1>3 DEF Edits
<1>4. CASE Crashes
  BY <1>4 DEF Crashes
<1>5. ASSUME NEW p \in Profiles!Proposal, Marks(p) PROVE ProfileTypes'
  BY <1>5 DEF Marks
<1>6. ASSUME NEW a \in Party, Decides(a) PROVE ProfileTypes'
  BY <1>6 DEF Decides
<1>7. ASSUME NEW a \in Party, Claims(a) PROVE ProfileTypes'
  BY <1>7 DEF Claims
<1>8. ASSUME NEW a \in Party, Closes(a) PROVE ProfileTypes'
  BY <1>8 DEF Closes
<1>9. ASSUME NEW a \in Party, Checks(a) PROVE ProfileTypes'
  BY <1>9 DEF Checks
<1>10. ASSUME NEW a \in Party, Guards(a) PROVE ProfileTypes'
  <2>1. PICK c \in Profiles!Change : GuardsAt(a, c)
    BY <1>10 DEF Guards
  <2>2. pfActor[a].kind = "restore" => pfActor[a].of \in Profiles!Change /\ pfChange[pfActor[a].of].st # "none"
    BY <2>1 DEF GuardsAt, ProfileLocks
  <2>3. pfActor[a].kind \in {"approve", "restore"} /\ c \in 1 .. MaxChange
    BY <2>1 DEF GuardsAt, ProfileLocks, Profiles!Change
  <2>4. pfChange'[c].parent \in 0 .. c - 1
    <3>1. CASE pfActor[a].kind = "approve"
      BY <2>1, <2>3, <3>1 DEF GuardsAt
    <3>2. CASE pfActor[a].kind = "restore"
      <4>1. pfActor[a].of \in Profiles!Change /\ ~(c < pfActor[a].of) /\ c # pfActor[a].of
        BY <2>1, <2>2, <3>2 DEF GuardsAt
      <4>2. QED
        BY <2>1, <2>3, <3>2, <4>1 DEF GuardsAt, Profiles!Change
    <3>3. QED
      BY <2>3, <3>1, <3>2
  <2>5. \A d \in Profiles!Change : pfChange'[d].st # "none" =>
          /\ pfChange'[d].before \in Value
          /\ \A k \in Profiles!Change : k < d => pfChange'[k].st # "none"
    BY <2>1 DEF GuardsAt
  <2>6. pfProposal' = pfProposal /\ pfProfile' = pfProfile /\ UNCHANGED <<pfWritten, pfRestored, pfLanded>>
    BY <2>1 DEF GuardsAt
  <2>7. pfActor' \in [Party -> Decision] /\ pfChange' \in [Profiles!Change -> ChangeRow]
        /\ \A d \in Profiles!Change : d # c => pfChange'[d] = pfChange[d]
    BY <2>1 DEF GuardsAt
  <2>8. QED
    BY <2>4, <2>5, <2>6, <2>7
<1>11. ASSUME NEW a \in Party, Writes(a) PROVE ProfileTypes'
  <2>1. pfActor[a].pc = "write" /\ pfActor[a].rec \in Profiles!Change
    BY <1>11 DEF Writes, ProfileRecords
  <2>2. /\ pfActor[a].kind = "approve" => pfActor[a].of \in Profiles!Proposal
        /\ pfActor[a].kind = "restore" => pfActor[a].of \in Profiles!Change
    BY <2>1 DEF ProfileLocks
  <2>3. pfWritten' \in [Profiles!Proposal -> Nat]
    BY <1>11, <2>2 DEF Writes
  <2>4. pfRestored' \in [Profiles!Change -> Nat] /\ pfLanded' \subseteq Profiles!Change
    BY <1>11, <2>1, <2>2 DEF Writes
  <2>5. pfActor' \in [Party -> Decision] /\ UNCHANGED <<pfProposal, pfChange>> /\ pfProfile' \in Value
    BY <1>11 DEF Writes
  <2>6. QED
    BY <2>3, <2>4, <2>5
<1>12. ASSUME NEW a \in Party, Verifies(a) PROVE ProfileTypes'
  BY <1>12 DEF Verifies
<1>13. ASSUME NEW a \in Party, Records(a) PROVE ProfileTypes'
  <2>1. pfChange[pfActor[a].rec].st = "executing"
    BY <1>13 DEF Records, ProfileRecords, Sent
  <2>2. \A c \in Profiles!Change : pfChange'[c].st # "none" <=> pfChange[c].st # "none"
    BY <1>13, <2>1 DEF Records
  <2>3. pfChange' \in [Profiles!Change -> ChangeRow]
        /\ \A c \in Profiles!Change : pfChange'[c].before = pfChange[c].before /\ pfChange'[c].parent = pfChange[c].parent
    BY <1>13 DEF Records
  <2>4. pfActor' \in [Party -> Decision] /\ UNCHANGED <<pfProposal, pfProfile, pfWritten, pfRestored, pfLanded>>
    BY <1>13 DEF Records
  <2>5. QED
    BY <2>2, <2>3, <2>4
<1>14. QED
  BY <1>1, <1>2, <1>3, <1>4, <1>5, <1>6, <1>7, <1>8, <1>9, <1>10, <1>11, <1>12, <1>13 DEF ProfileStep

\* The effects keep the lock with the one actor inside.
LEMMA ProfileLocksStep == ASSUME ProfileInv, ProfileStep PROVE ProfileLocks'
<1> USE PartyAssumption, ProfilesAssumption DEF ProfileInv, OnlyActor, SameTerms, SameRecords, Recorded, ProfileLocks, Inside
<1>1. CASE Sweeps
  BY <1>1 DEF Sweeps
<1>2. CASE Parks
  BY <1>2 DEF Parks
<1>3. CASE Edits
  BY <1>3 DEF Edits
<1>4. CASE Crashes
  BY <1>4 DEF Crashes
<1>5. ASSUME NEW p \in Profiles!Proposal, Marks(p) PROVE ProfileLocks'
  BY <1>5 DEF Marks
<1>6. ASSUME NEW a \in Party, Decides(a) PROVE ProfileLocks'
  BY <1>6 DEF Decides
<1>7. ASSUME NEW a \in Party, Claims(a) PROVE ProfileLocks'
  BY <1>7 DEF Claims
<1>8. ASSUME NEW a \in Party, Closes(a) PROVE ProfileLocks'
  BY <1>8 DEF Closes
<1>9. ASSUME NEW a \in Party, Checks(a) PROVE ProfileLocks'
  BY <1>9 DEF Checks
<1>10. ASSUME NEW a \in Party, Guards(a) PROVE ProfileLocks'
  BY <1>10 DEF Guards, GuardsAt
<1>11. ASSUME NEW a \in Party, Writes(a) PROVE ProfileLocks'
  <2>1. UNCHANGED <<pfProposal, pfChange, pfLock>> /\ pfActor[a].pc = "write" /\ pfActor'[a].pc \in {"verify", "record"}
        /\ pfActor'[a].kind = pfActor[a].kind /\ pfActor'[a].of = pfActor[a].of
        /\ \A b \in Party : b # a => pfActor'[b] = pfActor[b]
    BY <1>11 DEF Writes, Sent
  <2>2. QED
    BY <2>1
<1>12. ASSUME NEW a \in Party, Verifies(a) PROVE ProfileLocks'
  BY <1>12 DEF Verifies
<1>13. ASSUME NEW a \in Party, Records(a) PROVE ProfileLocks'
  BY <1>13 DEF Records
<1>14. QED
  BY <1>1, <1>2, <1>3, <1>4, <1>5, <1>6, <1>7, <1>8, <1>9, <1>10, <1>11, <1>12, <1>13 DEF ProfileStep

\* The effects keep one record for each write.
LEMMA ProfileRecordsStep == ASSUME ProfileInv, ProfileStep PROVE ProfileRecords'
<1> USE PartyAssumption, ProfilesAssumption DEF ProfileInv, OnlyActor, SameTerms, SameRecords, Recorded, ProfileRecords, Inside, Sent, Profiles!LandedIsKnown, Profiles!Blocking
<1>1. CASE Sweeps
  BY <1>1 DEF Sweeps
<1>2. CASE Parks
  BY <1>2 DEF Parks
<1>3. CASE Edits
  BY <1>3 DEF Edits
<1>4. CASE Crashes
  <2>1. pfLanded' = pfLanded /\ \A a \in Party : pfActor'[a].pc = "idle"
    BY <1>4 DEF Crashes
  <2>2. \A c \in Profiles!Change : pfChange'[c].st = pfChange[c].st \/ pfChange'[c].st = "unknown"
    BY <1>4 DEF Crashes
  <2>3. pfLanded \subseteq Profiles!Change
    BY DEF ProfileTypes
  <2>4. QED
    BY <2>1, <2>2, <2>3
<1>5. ASSUME NEW p \in Profiles!Proposal, Marks(p) PROVE ProfileRecords'
  BY <1>5 DEF Marks
<1>6. ASSUME NEW a \in Party, Decides(a) PROVE ProfileRecords'
  BY <1>6 DEF Decides
<1>7. ASSUME NEW a \in Party, Claims(a) PROVE ProfileRecords'
  BY <1>7 DEF Claims
<1>8. ASSUME NEW a \in Party, Closes(a) PROVE ProfileRecords'
  BY <1>8 DEF Closes
<1>9. ASSUME NEW a \in Party, Checks(a) PROVE ProfileRecords'
  BY <1>9 DEF Checks
<1>10. ASSUME NEW a \in Party, Guards(a) PROVE ProfileRecords'
  <2>1. PICK c \in Profiles!Change : GuardsAt(a, c)
    BY <1>10 DEF Guards
  <2>2. c \notin pfLanded /\ pfLanded' = pfLanded /\ pfLanded \subseteq Profiles!Change
    BY <2>1 DEF GuardsAt, ProfileTypes
  <2>3. pfActor'[a].pc = "write" /\ pfActor'[a].rec = c /\ pfChange'[c].st = "executing"
        /\ pfActor[a].pc = "guard"
        /\ (\A b \in Party : b # a => pfActor'[b] = pfActor[b])
        /\ (\A d \in Profiles!Change : d # c => pfChange'[d] = pfChange[d])
    BY <2>1 DEF GuardsAt
  <2>4. \A b \in Party : pfActor[b].pc \in {"write"} \union Sent => b = a
    BY <2>3 DEF ProfileLocks
  <2>5. QED
    BY <2>2, <2>3, <2>4
<1>11. ASSUME NEW a \in Party, Writes(a) PROVE ProfileRecords'
  <2>1. /\ pfActor[a].pc = "write" /\ pfActor'[a].pc \in Sent /\ pfActor'[a].rec = pfActor[a].rec
        /\ UNCHANGED pfChange /\ \A b \in Party : b # a => pfActor'[b] = pfActor[b]
        /\ pfActor'[a].end \in {"failed", "unknown"}
        /\ \/ pfLanded' = pfLanded
           \/ pfLanded' = pfLanded \union {pfActor[a].rec} /\ pfActor'[a].end = "unknown"
    BY <1>11 DEF Writes
  <2>2. \A b \in Party : pfActor[b].pc \in {"write"} \union Sent => b = a
    BY <2>1 DEF ProfileLocks
  <2>3. pfActor[a].rec \notin pfLanded /\ pfChange[pfActor[a].rec].st = "executing" /\ pfActor[a].rec \in Profiles!Change
    BY <2>1
  <2>4. QED
    BY <2>1, <2>2, <2>3
<1>12. ASSUME NEW a \in Party, Verifies(a) PROVE ProfileRecords'
  BY <1>12 DEF Verifies
<1>13. ASSUME NEW a \in Party, Records(a) PROVE ProfileRecords'
  <2>1. /\ pfActor[a].pc = "record" /\ pfActor'[a].pc = "decide" /\ pfLanded' = pfLanded
        /\ \A b \in Party : b # a => pfActor'[b] = pfActor[b]
    BY <1>13 DEF Records
  <2>2. \A b \in Party : pfActor[b].pc \in {"write"} \union Sent => b = a
    BY <2>1 DEF ProfileLocks
  <2>3. pfLanded \subseteq Profiles!Change
    BY DEF ProfileTypes
  <2>4. \A c \in pfLanded : pfChange'[c].st \in Profiles!Blocking
    <3>1. pfActor[a].rec \in pfLanded => pfActor[a].end \in {"applied", "unknown"}
      BY <2>1
    <3>2. QED
      BY <1>13, <2>3, <3>1 DEF Records
  <2>5. QED
    BY <2>1, <2>2, <2>4
<1>14. QED
  BY <1>1, <1>2, <1>3, <1>4, <1>5, <1>6, <1>7, <1>8, <1>9, <1>10, <1>11, <1>12, <1>13 DEF ProfileStep

\* The effects keep a proposal from being written twice.
LEMMA ProfileWritesStep == ASSUME ProfileInv, ProfileStep PROVE ProfileWrites'
<1> USE PartyAssumption, ProfilesAssumption DEF ProfileInv, OnlyActor, SameTerms, SameRecords, Recorded, ProfileWrites, Inside, Sent
<1>1. CASE Sweeps
  BY <1>1 DEF Sweeps
<1>2. CASE Parks
  BY <1>2 DEF Parks
<1>3. CASE Edits
  BY <1>3 DEF Edits
<1>4. CASE Crashes
  BY <1>4 DEF Crashes
<1>5. ASSUME NEW p \in Profiles!Proposal, Marks(p) PROVE ProfileWrites'
  BY <1>5 DEF Marks
<1>6. ASSUME NEW a \in Party, Decides(a) PROVE ProfileWrites'
  BY <1>6 DEF Decides
<1>7. ASSUME NEW a \in Party, Claims(a) PROVE ProfileWrites'
  BY <1>7 DEF Claims
<1>8. ASSUME NEW a \in Party, Closes(a) PROVE ProfileWrites'
  BY <1>8 DEF Closes
<1>9. ASSUME NEW a \in Party, Checks(a) PROVE ProfileWrites'
  BY <1>9 DEF Checks
<1>10. ASSUME NEW a \in Party, Guards(a) PROVE ProfileWrites'
  BY <1>10 DEF Guards, GuardsAt
<1>11. ASSUME NEW a \in Party, Writes(a) PROVE ProfileWrites'
  <2>1. /\ pfActor[a].pc = "write" /\ pfActor'[a].pc \in {"verify", "record"}
        /\ pfActor'[a].kind = pfActor[a].kind /\ pfActor'[a].of = pfActor[a].of
        /\ UNCHANGED pfProposal /\ \A b \in Party : b # a => pfActor'[b] = pfActor[b]
    BY <1>11 DEF Writes
  <2>2. \A b \in Party : pfActor[b].pc \in Inside => b = a
    BY <2>1 DEF ProfileLocks
  <2>3. CASE pfActor[a].kind = "approve"
    <3> DEFINE p == pfActor[a].of
    <3>1. p \in Profiles!Proposal /\ pfProposal[p].st = "executing"
      BY <2>1, <2>3 DEF ProfileLocks
    <3>2. pfWritten[p] = 0
      <4>1. pfWritten[p] # 1 /\ pfWritten[p] <= 1
        BY <2>1, <2>3, <3>1
      <4>2. pfWritten[p] \in Nat
        BY <3>1 DEF ProfileTypes
      <4>3. QED
        BY <4>1, <4>2
    <3>3. pfWritten' = [pfWritten EXCEPT ![p] = @ + 1] /\ pfWritten \in [Profiles!Proposal -> Nat]
      BY <1>11, <2>3 DEF Writes, ProfileTypes
    <3>4. pfWritten'[p] = 1 /\ \A q \in Profiles!Proposal : q # p => pfWritten'[q] = pfWritten[q]
      BY <3>1, <3>2, <3>3
    <3>5. QED
      BY <2>1, <2>2, <3>1, <3>4
  <2>4. CASE pfActor[a].kind # "approve"
    <3>1. UNCHANGED pfWritten
      BY <1>11, <2>4 DEF Writes
    <3>2. QED
      BY <2>1, <3>1
  <2>5. QED
    BY <2>3, <2>4
<1>12. ASSUME NEW a \in Party, Verifies(a) PROVE ProfileWrites'
  BY <1>12 DEF Verifies
<1>13. ASSUME NEW a \in Party, Records(a) PROVE ProfileWrites'
  BY <1>13 DEF Records
<1>14. QED
  BY <1>1, <1>2, <1>3, <1>4, <1>5, <1>6, <1>7, <1>8, <1>9, <1>10, <1>11, <1>12, <1>13 DEF ProfileStep

\* The effects keep a change from being restored twice.
LEMMA ProfileRestoresStep == ASSUME ProfileInv, ProfileStep PROVE ProfileRestores'
<1> USE PartyAssumption, ProfilesAssumption DEF ProfileInv, OnlyActor, SameTerms, SameRecords, Recorded, ProfileRestores, Sent, Profiles!Blocking, Profiles!LandedIsKnown, Profiles!Restorable
<1>1. CASE Sweeps
  BY <1>1 DEF Sweeps
<1>2. CASE Parks
  BY <1>2 DEF Parks
<1>3. CASE Edits
  BY <1>3 DEF Edits
<1>4. CASE Crashes
  <2>1. UNCHANGED <<pfLanded, pfRestored>> /\ \A a \in Party : pfActor'[a].pc = "idle"
    BY <1>4 DEF Crashes
  <2>2. \A c \in Profiles!Change : pfChange'[c].parent = pfChange[c].parent
    BY <1>4 DEF Crashes
  <2>3. pfLanded \subseteq Profiles!Change
    BY DEF ProfileTypes
  <2>4. QED
    BY <2>1, <2>2, <2>3
<1>5. ASSUME NEW p \in Profiles!Proposal, Marks(p) PROVE ProfileRestores'
  BY <1>5 DEF Marks
<1>6. ASSUME NEW a \in Party, Decides(a) PROVE ProfileRestores'
  BY <1>6 DEF Decides
<1>7. ASSUME NEW a \in Party, Claims(a) PROVE ProfileRestores'
  BY <1>7 DEF Claims
<1>8. ASSUME NEW a \in Party, Closes(a) PROVE ProfileRestores'
  BY <1>8 DEF Closes
<1>9. ASSUME NEW a \in Party, Checks(a) PROVE ProfileRestores'
  BY <1>9 DEF Checks
<1>10. ASSUME NEW a \in Party, Guards(a) PROVE ProfileRestores'
  <2>1. PICK c \in Profiles!Change : GuardsAt(a, c)
    BY <1>10 DEF Guards
  <2>2. c \notin pfLanded /\ UNCHANGED <<pfLanded, pfRestored>> /\ pfLanded \subseteq Profiles!Change
    BY <2>1 DEF GuardsAt, ProfileTypes, ProfileRecords
  <2>3. pfActor'[a].pc = "write" /\ pfActor'[a].rec = c /\ pfActor[a].pc = "guard"
        /\ pfActor'[a].kind = pfActor[a].kind /\ pfActor'[a].of = pfActor[a].of
        /\ (\A b \in Party : b # a => pfActor'[b] = pfActor[b])
        /\ (\A d \in Profiles!Change : d # c => pfChange'[d] = pfChange[d])
    BY <2>1 DEF GuardsAt
  <2>4. \A b \in Party : pfActor[b].pc = "write" => b = a
    BY <2>3 DEF ProfileLocks, Inside
  <2>5. pfActor[a].kind = "restore" =>
          /\ pfChange'[c].parent = pfActor[a].of
          /\ \A d \in Profiles!Change : pfChange[d].parent = pfActor[a].of => pfChange[d].st \notin Profiles!Blocking
    BY <2>1 DEF GuardsAt
  <2>6. \A n \in Profiles!Change : pfRestored'[n] <= 1 /\
          (pfRestored'[n] = 1 => \E d \in pfLanded' : pfChange'[d].parent = n)
    BY <2>2, <2>3
  <2>7. QED
    BY <2>3, <2>4, <2>5, <2>6
<1>11. ASSUME NEW a \in Party, Writes(a) PROVE ProfileRestores'
  <2>1. /\ pfActor[a].pc = "write" /\ pfActor'[a].pc \in Sent
        /\ UNCHANGED pfChange /\ \A b \in Party : b # a => pfActor'[b] = pfActor[b]
    BY <1>11 DEF Writes
  <2>2. \A b \in Party : pfActor'[b].pc # "write"
    BY <2>1 DEF ProfileLocks, Inside
  <2>3. pfLanded \subseteq pfLanded'
    BY <1>11 DEF Writes
  <2>4. CASE UNCHANGED pfRestored
    BY <2>1, <2>2, <2>3, <2>4
  <2>5. CASE /\ pfActor[a].kind = "restore" /\ pfRestored' = [pfRestored EXCEPT ![pfActor[a].of] = @ + 1]
             /\ pfLanded' = pfLanded \union {pfActor[a].rec}
    <3> DEFINE c == pfActor[a].of
    <3>1. c \in Profiles!Change /\ pfChange[pfActor[a].rec].parent = c
      BY <2>1, <2>5 DEF ProfileLocks
    <3>2. pfActor[a].rec \notin pfLanded /\ pfLanded \subseteq Profiles!Change
          /\ \A d \in pfLanded : pfChange[d].st \in Profiles!Blocking
      BY <2>1 DEF ProfileRecords, ProfileTypes
    <3>3. \A d \in pfLanded : pfChange[d].parent # c
      BY <2>1, <2>5, <3>2
    <3>4. pfRestored \in [Profiles!Change -> Nat] /\ pfRestored[c] # 1
      BY <3>1, <3>3 DEF ProfileTypes
    <3>5. pfRestored[c] = 0
      BY <3>1, <3>4
    <3>6. pfRestored'[c] = 1 /\ \A d \in Profiles!Change : d # c => pfRestored'[d] = pfRestored[d]
      BY <2>5, <3>1, <3>4, <3>5
    <3>7. QED
      BY <2>1, <2>2, <2>3, <2>5, <3>1, <3>6
  <2>6. QED
    BY <1>11, <2>4, <2>5 DEF Writes
<1>12. ASSUME NEW a \in Party, Verifies(a) PROVE ProfileRestores'
  BY <1>12 DEF Verifies
<1>13. ASSUME NEW a \in Party, Records(a) PROVE ProfileRestores'
  <2>1. /\ pfActor[a].pc = "record" /\ pfActor'[a].pc = "decide" /\ UNCHANGED <<pfLanded, pfRestored>>
        /\ \A b \in Party : b # a => pfActor'[b] = pfActor[b]
    BY <1>13 DEF Records
  <2>2. \A b \in Party : pfActor'[b].pc # "write"
    BY <2>1 DEF ProfileLocks, Inside
  <2>3. pfLanded \subseteq Profiles!Change
    BY DEF ProfileTypes
  <2>4. \A c \in Profiles!Change : pfChange'[c].parent = pfChange[c].parent
    BY <1>13 DEF Records
  <2>5. QED
    BY <2>1, <2>2, <2>3, <2>4
<1>14. QED
  BY <1>1, <1>2, <1>3, <1>4, <1>5, <1>6, <1>7, <1>8, <1>9, <1>10, <1>11, <1>12, <1>13 DEF ProfileStep

\* The effects keep an undecided proposal unwritten.
LEMMA ProfilePendingStep == ASSUME ProfileInv, ProfileStep PROVE ProfilePending'
<1> USE PartyAssumption, ProfilesAssumption DEF ProfileInv, OnlyActor, SameTerms, SameRecords, Recorded, ProfilePending, Profiles!OnePending
<1>1. CASE Sweeps
  BY <1>1 DEF Sweeps
<1>2. CASE Parks
  <2>1. \A a \in Party : pfActor'[a].pc \notin {"check", "guard"}
    BY <1>2, PartyAssumption, ProfilesAssumption DEF Parks, ProfileLocks, Inside
  <2>2. PICK p \in Profiles!Proposal : \A q \in Profiles!Proposal \ {p} : pfProposal'[q].st # "pending"
    BY <1>2 DEF Parks
  <2>3. QED
    BY <2>1, <2>2
<1>3. CASE Edits
  BY <1>3 DEF Edits
<1>4. CASE Crashes
  BY <1>4 DEF Crashes
<1>5. ASSUME NEW p \in Profiles!Proposal, Marks(p) PROVE ProfilePending'
  BY <1>5 DEF Marks
<1>6. ASSUME NEW a \in Party, Decides(a) PROVE ProfilePending'
  BY <1>6 DEF Decides
<1>7. ASSUME NEW a \in Party, Claims(a) PROVE ProfilePending'
  <2>1. \A b \in Party : b # a => pfActor'[b] = pfActor[b] /\ pfActor[b].pc \notin {"check", "guard"}
    BY <1>7, PartyAssumption, ProfilesAssumption DEF Claims, ProfileLocks, Inside
  <2>2. CASE UNCHANGED pfProposal /\ ~(pfActor'[a].pc = "check" /\ pfActor'[a].kind = "approve")
        /\ pfActor'[a].pc # "guard"
    BY <2>1, <2>2
  <2>3. CASE /\ pfProposal[pfActor[a].of].st = "pending" /\ pfProposal'[pfActor[a].of].st = "executing"
             /\ pfActor[a].kind = "approve"
             /\ \A q \in Profiles!Proposal : q # pfActor[a].of => pfProposal'[q] = pfProposal[q]
    <3>1. pfActor[a].of \in Profiles!Proposal
      BY <1>7, <2>3 DEF Claims, ProfileLocks
    <3>2. \A q \in Profiles!Proposal : pfProposal'[q].st # "pending"
      BY <2>3, <3>1
    <3>3. QED
      BY <3>2
  <2>4. QED
    BY <1>7, <2>2, <2>3 DEF Claims
<1>8. ASSUME NEW a \in Party, Closes(a) PROVE ProfilePending'
  <2>1. \A b \in Party : b # a => pfActor'[b] = pfActor[b] /\ pfActor[b].pc \notin {"check", "guard"}
    BY <1>8 DEF Closes, ProfileLocks, Inside
  <2>2. \A b \in Party : pfActor'[b].pc \notin {"check", "guard"}
    BY <1>8, <2>1 DEF Closes
  <2>3. CASE \A q \in Profiles!Proposal : pfProposal'[q].st = "pending" => pfProposal[q].st = "pending"
    BY <2>2, <2>3
  <2>4. CASE /\ pfActor[a].pc \in {"check", "guard"} /\ pfActor[a].kind = "approve"
             /\ \A q \in Profiles!Proposal : q # pfActor[a].of => pfProposal'[q] = pfProposal[q]
    BY <2>2, <2>4
  <2>5. QED
    BY <1>8, <2>3, <2>4 DEF Closes
<1>9. ASSUME NEW a \in Party, Checks(a) PROVE ProfilePending'
  BY <1>9 DEF Checks
<1>10. ASSUME NEW a \in Party, Guards(a) PROVE ProfilePending'
  BY <1>10 DEF Guards, GuardsAt
<1>11. ASSUME NEW a \in Party, Writes(a) PROVE ProfilePending'
  <2>1. UNCHANGED pfProposal /\ pfActor'[a].pc \in Sent /\ \A b \in Party : b # a => pfActor'[b] = pfActor[b]
    BY <1>11 DEF Writes
  <2>2. QED
    BY <2>1 DEF Sent
<1>12. ASSUME NEW a \in Party, Verifies(a) PROVE ProfilePending'
  BY <1>12 DEF Verifies
<1>13. ASSUME NEW a \in Party, Records(a) PROVE ProfilePending'
  BY <1>13 DEF Records
<1>14. QED
  BY <1>1, <1>2, <1>3, <1>4, <1>5, <1>6, <1>7, <1>8, <1>9, <1>10, <1>11, <1>12, <1>13 DEF ProfileStep

\* Profiles start within their invariant.
LEMMA ProfileInit == ASSUME Profiles!Init PROVE ProfileInv
<1>1. Profiles!NoProposal \in ProposalRow /\ Profiles!NoProposal.st = "none"
  BY DEF Profiles!NoProposal, ProposalRow
<1>2. Profiles!NoChange \in ChangeRow /\ Profiles!NoChange.st = "none" /\ Profiles!NoChange.parent = 0
  BY DEF Profiles!NoChange, ChangeRow
<1>3. /\ pfProposal \in [Profiles!Proposal -> ProposalRow]
      /\ \A p \in Profiles!Proposal : pfProposal[p].st = "none"
  BY <1>1 DEF Profiles!Init
<1>4. /\ pfChange \in [Profiles!Change -> ChangeRow]
      /\ \A c \in Profiles!Change : pfChange[c].st = "none" /\ pfChange[c].parent = 0
  BY <1>2 DEF Profiles!Init
<1>5. /\ pfActor \in [Party -> Decision]
      /\ \A a \in Party : pfActor[a].pc = "idle" /\ pfActor[a].kind = "none"
  BY IdleDecision DEF Profiles!Init
<1>6. pfProfile = 1 /\ pfLock = NoParty /\ pfLanded = {} /\ pfWritten = [p \in Profiles!Proposal |-> 0]
      /\ pfRestored = [c \in Profiles!Change |-> 0]
  BY DEF Profiles!Init
<1>7. \A c \in Profiles!Change : 0 \in 0 .. c - 1
  BY PartyAssumption, ProfilesAssumption DEF Profiles!Change
<1>8. ProfileTypes
  BY <1>3, <1>4, <1>5, <1>6, <1>7, PartyAssumption, ProfilesAssumption DEF ProfileTypes
<1>9. ProfileLocks /\ ProfileRecords /\ ProfileWrites
  BY <1>3, <1>5, <1>6, PartyAssumption, ProfilesAssumption DEF ProfileLocks, ProfileRecords, ProfileWrites, Inside, Sent, Profiles!LandedIsKnown
<1>10. ProfileRestores /\ ProfilePending
  BY <1>3, <1>5, <1>6 DEF ProfileRestores, ProfilePending, Profiles!OnePending
<1>11. QED
  BY <1>8, <1>9, <1>10 DEF ProfileInv

\* Every behaviour of the services is one of the profiles.
LEMMA ProfileSpec == Spec => Profiles!Spec
<1>1. Init => Profiles!Init
  BY DEF Init
<1>2. [Next]_vars => [Profiles!Next]_(Profiles!vars)
  BY DEF Next, Only, vars, tagVars, tvVars, followVars, grokVars, discordVars, profileVars, mediaVars,
         signVars, Profiles!vars
<1>3. QED
  BY <1>1, <1>2, PTL DEF Spec, Profiles!Spec

\* The inductive invariant of profiles, by one case per effect.
LEMMA ProfileInvHolds == Spec => []ProfileInv
<1>1. ProfileInv /\ [Profiles!Next]_(Profiles!vars) => ProfileInv'
  <2>1. ASSUME ProfileInv, Profiles!Next PROVE ProfileInv'
    BY <2>1, ProfileSteps, ProfileTypesStep, ProfileLocksStep, ProfileRecordsStep, ProfileWritesStep,
       ProfileRestoresStep, ProfilePendingStep DEF ProfileInv
  <2>2. ASSUME ProfileInv, UNCHANGED Profiles!vars PROVE ProfileInv'
    BY <2>2 DEF ProfileInv, Profiles!vars, ProfileTypes, ProfileLocks, ProfileRecords, ProfileWrites,
       ProfileRestores, ProfilePending, Profiles!OnePending, Profiles!LandedIsKnown
  <2>3. QED
    BY <2>1, <2>2
<1>2. QED
  BY <1>1, ProfileInit, ProfileSpec, PTL DEF Profiles!Spec

\* A proposal's write is sent once, a change is restored once, and the history
\* says of every write what became of it, whoever decides at the same time and
\* wherever the process dies.
THEOREM ChangesAreKnownHolds == Spec => []ChangesAreKnown
<1>1. ProfileInv => ChangesAreKnown
  BY DEF ProfileInv, ProfileRecords, ProfileWrites, ProfileRestores, ProfilePending, ChangesAreKnown,
         Profiles!WrittenOnce, Profiles!RestoredOnce
<1>2. QED
  BY <1>1, ProfileInvHolds, PTL

\* The invariant holds the module's type invariant.
LEMMA ProfileTypeOK == ASSUME ProfileInv PROVE Profiles!TypeOK
<1>1. \A c \in Profiles!Change : pfChange[c].st \in {"executing", "applied", "unknown", "none", "failed"}
  BY DEF ProfileInv, ProfileTypes, ChangeRow
<1>2. \A p \in Profiles!Proposal : pfProposal[p].st \in {"none", "pending", "executing", "applied", "failed",
                                                        "superseded", "rejected", "expired"}
  BY DEF ProfileInv, ProfileTypes, ProposalRow
<1>3. \A a \in Party : pfActor[a].pc \in {"idle", "claim"} \union Inside
  BY DEF ProfileInv, ProfileTypes, Decision, Inside
<1>4. QED
  BY <1>1, <1>2, <1>3 DEF ProfileInv, ProfileTypes, ProfileLocks, Profiles!TypeOK, Profiles!Blocking, Inside

---------------------------------------------------------------------------
(* Signing in.                                                             *)

Who == Party \union {NoParty}
How == {"none", "local", "oidc"}
SignConf == [on : BOOLEAN, sso : BOOLEAN, print : {1, 2}]
SignInvite == [no : Nat, user : Who, by : Who, st : {"none", "open", "redeemed"}]
SignAgent == [user : Who, method : How, on : BOOLEAN, live : SUBSET Nat, next : Nat]
SignCode == [user : Who, method : How]
SignFlow == [pc : {"none", "attempt", "verify", "handoff", "consent"}, purpose : {"none", "login", "mcp", "link", "test"},
             user : Who, method : How, inv : Nat, conf : SignConf \union {<<>>},
             fresh : BOOLEAN, session : BOOLEAN, old : BOOLEAN]
SignOp == [pc : {"idle", "form", "issue", "device", "claim", "rotate", "mint"}, user : Who, no : Nat]

SignTypes ==
  /\ siRole \in [Party -> {"admin", "user", "new", "gone"}] /\ siPw \subseteq Party /\ siConf \in SignConf
  /\ siIdentity \in Who /\ siInvite \in SignInvite /\ siDevice \subseteq Party \X {"local", "oidc"}
  /\ siAgent \in SignAgent /\ siCode \in SignCode /\ siFlow \in SignFlow /\ siOp \in [SignCall -> SignOp]
  /\ siKept \subseteq Party /\ siSpent \subseteq Nat /\ siTwice \subseteq Nat /\ siRelinked \in BOOLEAN

Holds(u) == u \in Party /\ siRole[u] \in {"admin", "user"}
Locally(u) == \/ <<u, "local">> \in siDevice
              \/ siAgent.on /\ siAgent.user = u /\ siAgent.method = "local"
              \/ siCode.user = u /\ siCode.method = "local"

\* What refers to a user refers to one who has an account.
SignAccounts ==
  /\ siConf.sso => siConf.on
  /\ \A u \in Party, m \in {"local", "oidc"} : <<u, m>> \in siDevice => Holds(u)
  /\ siIdentity # NoParty => Holds(siIdentity)
  /\ siInvite.st = "open" => Holds(siInvite.user) /\ siInvite.no # 0
  /\ siAgent.on => Holds(siAgent.user)
  /\ siCode.method = "local" => Holds(siCode.user)
  /\ siCode.method = "oidc" => siCode.user \in Party
  /\ siFlow.pc = "consent" => siFlow.user \in Party

\* One request at a time is past its checks, and they still hold.
SignInside(c) == siOp[c].pc \notin {"idle", "form"}
SignLocked ==
  /\ \A c, d \in SignCall : SignInside(c) /\ SignInside(d) => c = d
  /\ \A c \in SignCall : /\ siOp[c].pc \in {"form", "issue", "device", "claim"} => siOp[c].user \in Party
                         /\ siOp[c].pc \in {"issue", "device", "claim"} => ~siConf.sso \/ siRole[siOp[c].user] = "admin"
                         /\ siOp[c].pc = "issue" => Holds(siOp[c].user)

\* Whoever may have signed in locally while that is not allowed was demoted since.
SignEscapes == siConf.sso => \A u \in Party : Locally(u) => siRole[u] = "admin" \/ u \in siKept

\* An invitation that is open, or just claimed, was not used.
SignSpent ==
  /\ siTwice = {} /\ 0 \notin siSpent /\ \A n \in siSpent : n <= siInvite.no
  /\ siInvite.st = "open" => siInvite.no \notin siSpent
  /\ \A c \in SignCall : siOp[c].pc = "device" /\ siOp[c].no # 0 =>
       siOp[c].no \notin siSpent /\ siOp[c].no <= siInvite.no /\ (siOp[c].no = siInvite.no => siInvite.st # "open")
SignTokens ==
  /\ \A s, t \in siAgent.live : s = t
  /\ \A c \in SignCall : siOp[c].pc = "mint" => siAgent.live = {}
SignOld == ~siRelinked /\ (siFlow.old => ~siFlow.fresh)

SignInv == /\ SignTypes /\ SignAccounts /\ SignLocked /\ SignEscapes /\ SignSpent /\ SignTokens /\ SignOld
           /\ Sign!NeverLockedOut /\ Sign!SessionsFollowIdentity

\* Every kind of step, by what it does.
OpIs(c, pc, u, n) ==
  /\ siOp' \in [SignCall -> SignOp] /\ \A d \in SignCall : d # c => siOp'[d] = siOp[d]
  /\ siOp'[c].pc = pc /\ siOp'[c].user = u /\ siOp'[c].no = n
OpEnds(c) ==
  /\ siOp' \in [SignCall -> SignOp] /\ \A d \in SignCall : d # c => siOp'[d] = siOp[d]
  /\ siOp'[c].pc = "idle"
People == <<siRole, siPw, siConf, siIdentity, siKept, siRelinked>>
Invited == <<siInvite, siSpent, siTwice>>
Given == <<siDevice, siAgent, siCode>>
Uses(n) ==
  /\ siTwice' = (IF n \in siSpent THEN siTwice \union {n} ELSE siTwice)
  /\ siSpent' = siSpent \union ({n} \ {0})

SignEnters(c) ==
  /\ UNCHANGED People /\ UNCHANGED Invited /\ UNCHANGED Given /\ UNCHANGED siFlow /\ siOp[c].pc = "idle"
  /\ \/ \E u \in Party : OpIs(c, "form", u, 0)
     \/ /\ Sign!Unlocked
        /\ \/ \E u \in Party : OpIs(c, "device", u, 0) /\ (~siConf.sso \/ siRole[u] = "admin")
           \/ OpIs(c, "claim", siInvite.user, siInvite.no) /\ siInvite.st = "open" /\ ~siConf.sso
           \/ \E u \in Who, n \in Nat : OpIs(c, "rotate", u, n)
SignAuthorizes(c) ==
  /\ UNCHANGED People /\ UNCHANGED Invited /\ UNCHANGED Given /\ UNCHANGED siFlow /\ siOp[c].pc = "form" /\ Sign!Unlocked
  /\ OpIs(c, "issue", siOp[c].user, siOp[c].no)
  /\ Holds(siOp[c].user) /\ (~siConf.sso \/ siRole[siOp[c].user] = "admin")
SignLeaves(c) ==
  UNCHANGED People /\ UNCHANGED Invited /\ UNCHANGED Given /\ UNCHANGED siFlow /\ OpEnds(c)
SignClaims(c) ==
  /\ UNCHANGED People /\ UNCHANGED Given /\ UNCHANGED <<siFlow, siSpent, siTwice>>
  /\ siOp[c].pc = "claim" /\ siInvite.st = "open" /\ siInvite.no = siOp[c].no
  /\ siInvite' \in SignInvite /\ siInvite'.st = "redeemed" /\ siInvite'.no = siInvite.no
  /\ OpIs(c, "device", siOp[c].user, siOp[c].no)
SignDevice(c) ==
  /\ UNCHANGED People /\ UNCHANGED <<siFlow, siInvite, siAgent, siCode>> /\ siOp[c].pc = "device"
  /\ Holds(siOp[c].user) /\ siDevice' = siDevice \union {<<siOp[c].user, "local">>}
  /\ Uses(siOp[c].no) /\ OpEnds(c)
SignIssues(c) ==
  /\ UNCHANGED People /\ UNCHANGED Invited /\ UNCHANGED <<siFlow, siDevice, siAgent>> /\ siOp[c].pc = "issue"
  /\ siCode' = [user |-> siOp[c].user, method |-> "local"] /\ OpEnds(c)
SignRotates(c) ==
  /\ UNCHANGED People /\ UNCHANGED Invited /\ UNCHANGED <<siFlow, siDevice, siCode>> /\ siOp[c].pc = "rotate"
  /\ siAgent' \in SignAgent /\ siOp[c].no \in siAgent.live /\ siAgent'.live = siAgent.live \ {siOp[c].no}
  /\ siAgent'.on = siAgent.on /\ siAgent'.user = siAgent.user /\ siAgent'.method = siAgent.method
  /\ OpIs(c, "mint", siOp[c].user, siOp[c].no)
SignMints(c) ==
  /\ UNCHANGED People /\ UNCHANGED Invited /\ UNCHANGED <<siFlow, siDevice, siCode>> /\ siOp[c].pc = "mint"
  /\ siAgent' \in SignAgent /\ siAgent'.live = siAgent.live \union {siAgent.next}
  /\ siAgent'.on = siAgent.on /\ siAgent'.user = siAgent.user /\ siAgent'.method = siAgent.method
  /\ OpEnds(c)
SignExchanges ==
  /\ UNCHANGED People /\ UNCHANGED Invited /\ UNCHANGED <<siFlow, siDevice, siOp>> /\ Sign!Unlocked
  /\ siCode.method # "none" \/ siCode.user # NoParty
  /\ siCode' = [user |-> NoParty, method |-> "none"] /\ siAgent' \in SignAgent
  /\ \/ UNCHANGED siAgent
     \/ /\ siAgent'.live = {1} /\ siAgent'.user = siCode.user /\ siAgent'.method = siCode.method
        /\ IF siCode.method = "local" THEN Holds(siCode.user) /\ (~siConf.sso \/ siRole[siCode.user] = "admin")
           ELSE siIdentity = siCode.user
SignFlows ==
  /\ UNCHANGED People /\ UNCHANGED Invited /\ UNCHANGED Given /\ UNCHANGED siOp
  /\ siFlow' \in SignFlow /\ siFlow'.pc # "consent" /\ (siFlow'.old => ~siFlow'.fresh)
SignCommits(u) ==
  /\ UNCHANGED <<siPw, siConf, siKept, siAgent, siCode, siOp>> /\ Sign!Unlocked
  /\ ~siFlow.old /\ siRelinked' = siRelinked
  /\ siIdentity \in {NoParty, u} /\ siIdentity' = u
  /\ Holds(u) \/ siRole[u] = "new"
  /\ siRole' = [siRole EXCEPT ![u] = IF @ = "new" THEN "user" ELSE @]
  /\ \/ UNCHANGED siInvite /\ Uses(0)
     \/ /\ siInvite.st = "open" /\ siInvite' \in SignInvite /\ siInvite'.st = "redeemed" /\ siInvite'.no = siInvite.no
        /\ Uses(siInvite.no)
  /\ siDevice \subseteq siDevice' /\ siDevice' \subseteq siDevice \union {<<u, "oidc">>}
  /\ siFlow' \in SignFlow /\ (siFlow'.pc = "consent" => siFlow'.user = u) /\ ~siFlow'.old
SignConsents ==
  /\ UNCHANGED People /\ UNCHANGED Invited /\ UNCHANGED <<siDevice, siAgent, siOp>> /\ siFlow.pc = "consent"
  /\ siFlow' \in SignFlow /\ siFlow'.pc # "consent" /\ ~siFlow'.old
  /\ \/ UNCHANGED siCode
     \/ siCode' = [user |-> siFlow.user, method |-> "oidc"]

\* What is switched off stays with its user.
Offs(revoked) ==
  /\ siAgent' \in SignAgent /\ siAgent'.user = siAgent.user /\ siAgent'.method = siAgent.method /\ siAgent'.live = siAgent.live
  /\ siAgent'.on = (siAgent.on /\ ~revoked)
CodeGone == siCode' = [user |-> NoParty, method |-> "none"]
SignSaves ==
  \E sso \in BOOLEAN :
    LET out == IF sso THEN {u \in Party : siRole[u] # "admin"} ELSE {}
    IN /\ UNCHANGED <<siRole, siPw, siIdentity, siRelinked, siOp>> /\ UNCHANGED Invited /\ Sign!Unlocked
       /\ siConf' \in SignConf /\ siConf'.sso = sso /\ (sso => siConf'.on)
       /\ sso => \E u \in siPw : siRole[u] = "admin"
       /\ siDevice' = siDevice \ (out \X {"local"})
       /\ Offs(siAgent.method = "local" /\ siAgent.user \in out)
       /\ IF siCode.method = "local" /\ siCode.user \in out THEN CodeGone ELSE UNCHANGED siCode
       /\ siFlow' \in SignFlow /\ siFlow'.pc # "consent" /\ (siFlow'.old => ~siFlow'.fresh)
       /\ siKept' \subseteq Party /\ (~sso => siKept' = siKept)
SignUnlinks(u) ==
  /\ UNCHANGED <<siRole, siPw, siConf, siKept, siRelinked, siOp>> /\ UNCHANGED Invited /\ Sign!Unlocked
  /\ siIdentity = u /\ siIdentity' = NoParty /\ siDevice' = siDevice \ {<<u, "oidc">>}
  /\ Offs(siAgent.method = "oidc" /\ siAgent.user = u)
  /\ IF siCode.method = "oidc" /\ siCode.user = u THEN CodeGone ELSE UNCHANGED siCode
  /\ siFlow' \in SignFlow /\ siFlow'.pc # "consent" /\ (siFlow'.old => ~siFlow'.fresh)
SignRole(u) ==
  /\ UNCHANGED <<siPw, siConf, siIdentity, siRelinked, siOp, siFlow>> /\ UNCHANGED Invited /\ UNCHANGED Given /\ Sign!Unlocked
  /\ Holds(u) /\ siRole' = [siRole EXCEPT ![u] = IF @ = "admin" THEN "user" ELSE "admin"]
  /\ siRole[u] = "admin" /\ siConf.sso => \E a \in siPw \ {u} : siRole[a] = "admin"
  /\ siKept' = IF siRole[u] = "admin" /\ siConf.sso THEN siKept \union {u} ELSE siKept
SignDeletes(u) ==
  /\ UNCHANGED <<siConf, siKept, siRelinked, siOp, siSpent, siTwice>> /\ Sign!Unlocked
  /\ Holds(u) /\ siRole' = [siRole EXCEPT ![u] = "gone"] /\ siPw' = siPw \ {u}
  /\ siRole[u] = "admin" /\ siConf.sso => \E a \in siPw \ {u} : siRole[a] = "admin"
  /\ siIdentity' = (IF siIdentity = u THEN NoParty ELSE siIdentity)
  /\ siInvite' \in SignInvite /\ siInvite'.no = siInvite.no
  /\ (siInvite'.st = "open" => siInvite.st = "open" /\ siInvite'.user = siInvite.user /\ siInvite.user # u)
  /\ siDevice' = siDevice \ ({u} \X {"local", "oidc"})
  /\ IF siAgent.user = u THEN siAgent' \in SignAgent /\ ~siAgent'.on /\ siAgent'.live = {} ELSE UNCHANGED siAgent
  /\ IF siCode.user = u THEN CodeGone ELSE UNCHANGED siCode
  /\ siFlow' \in SignFlow /\ siFlow'.pc = siFlow.pc /\ siFlow'.user = siFlow.user
  /\ siFlow'.old = siFlow.old /\ siFlow'.fresh = siFlow.fresh
SignRevokes(u, m) ==
  /\ UNCHANGED People /\ UNCHANGED Invited /\ UNCHANGED <<siCode, siOp>>
  /\ \/ siDevice' = siDevice \ {<<u, m>>} /\ UNCHANGED siAgent
     \/ siAgent' \in SignAgent /\ ~siAgent'.on /\ siAgent'.live = {} /\ UNCHANGED siDevice
  /\ siFlow' \in SignFlow /\ siFlow'.pc = siFlow.pc /\ siFlow'.user = siFlow.user
  /\ siFlow'.old = siFlow.old /\ siFlow'.fresh = siFlow.fresh
SignPasswords(u) ==
  /\ UNCHANGED <<siRole, siConf, siIdentity, siKept, siRelinked, siFlow, siOp>> /\ UNCHANGED Invited /\ UNCHANGED Given
  /\ siPw' = siPw \union {u} \/ (siRole[u] = "user" /\ siPw' = siPw \ {u})
SignInvites(u) ==
  /\ UNCHANGED <<siPw, siConf, siIdentity, siKept, siRelinked, siFlow, siOp, siSpent, siTwice>> /\ UNCHANGED Given
  /\ siRole[u] # "gone" /\ siRole' = [siRole EXCEPT ![u] = IF @ = "new" THEN "user" ELSE @]
  /\ siInvite' \in SignInvite /\ siInvite'.no = siInvite.no + 1 /\ siInvite'.user = u
SignHalts ==
  /\ UNCHANGED People /\ UNCHANGED Invited /\ UNCHANGED Given
  /\ siOp' \in [SignCall -> SignOp] /\ \A c \in SignCall : siOp'[c].pc = "idle"
  /\ siFlow' \in SignFlow /\ siFlow'.pc # "consent" /\ ~siFlow'.old

SignStep ==
  \/ \E c \in SignCall : \/ SignEnters(c) \/ SignAuthorizes(c) \/ SignLeaves(c) \/ SignClaims(c) \/ SignDevice(c)
                         \/ SignIssues(c) \/ SignRotates(c) \/ SignMints(c)
  \/ SignExchanges \/ SignFlows \/ SignConsents \/ SignSaves \/ SignHalts
  \/ \E u \in Party : \/ SignCommits(u) \/ SignUnlinks(u) \/ SignRole(u) \/ SignDeletes(u) \/ SignPasswords(u) \/ SignInvites(u)
                      \/ \E m \in {"local", "oidc"} : SignRevokes(u, m)

\* No operation and no code.
LEMMA SignNothing ==
  /\ Sign!Idle = [pc |-> "idle", user |-> NoParty, no |-> 0] /\ Sign!Idle \in SignOp
  /\ Sign!NoCode = [user |-> NoParty, method |-> "none"]
  /\ Sign!NoFlow \in SignFlow /\ Sign!NoFlow.pc = "none" /\ Sign!NoFlow.old = FALSE /\ Sign!NoFlow.fresh = TRUE
  /\ Sign!NoAgent = [user |-> NoParty, method |-> "none", on |-> FALSE, live |-> {}, next |-> 1] /\ Sign!NoAgent \in SignAgent
BY DEF Sign!Idle, SignOp, Who, Sign!NoCode, Sign!NoFlow, SignFlow, How, SignConf, Sign!NoAgent, SignAgent

\* An operation that moves, alone.
LEMMA OpSets ==
  ASSUME SignTypes, NEW c \in SignCall, NEW pc \in {"idle", "form", "issue", "device", "claim", "rotate", "mint"}
  PROVE  /\ siOp[c] \in SignOp
         /\ (Sign!Goto(c, pc) => OpIs(c, pc, siOp[c].user, siOp[c].no))
         /\ (Sign!Stop(c) => OpEnds(c))
         /\ \A u \in Who, n \in Nat : siOp' = [siOp EXCEPT ![c] = [pc |-> pc, user |-> u, no |-> n]] => OpIs(c, pc, u, n)
<1>1. siOp \in [SignCall -> SignOp] /\ siOp[c] \in SignOp
  BY DEF SignTypes
<1>2. ASSUME Sign!Goto(c, pc) PROVE OpIs(c, pc, siOp[c].user, siOp[c].no)
  <2> DEFINE n == [siOp[c] EXCEPT !.pc = pc]
  <2>1. n \in SignOp /\ n.pc = pc /\ n.user = siOp[c].user /\ n.no = siOp[c].no
    BY <1>1 DEF SignOp
  <2>2. siOp' = [siOp EXCEPT ![c] = n]
    BY <1>2 DEF Sign!Goto
  <2> HIDE DEF n
  <2>3. QED
    BY <1>1, <2>1, <2>2 DEF OpIs
<1>3. ASSUME Sign!Stop(c) PROVE OpEnds(c)
  BY <1>1, <1>3, SignNothing DEF Sign!Stop, OpEnds
<1>4. ASSUME NEW u \in Who, NEW n \in Nat, siOp' = [siOp EXCEPT ![c] = [pc |-> pc, user |-> u, no |-> n]]
      PROVE  OpIs(c, pc, u, n)
  <2>1. [pc |-> pc, user |-> u, no |-> n] \in SignOp
    BY DEF SignOp
  <2>2. QED
    BY <1>1, <1>4, <2>1 DEF OpIs
<1>5. QED
  BY <1>1, <1>2, <1>3, <1>4

\* A sign-in or token counts against its bound.
LEMMA UsedEffect == ASSUME NEW n, Sign!Used(n) PROVE Uses(n)
BY DEF Sign!Used, Uses

\* Who may sign in with a password has one, and the policy allows it.
LEMMA AllowedLocally ==
  ASSUME SignTypes, NEW u \in Party, Sign!LocalAllowed(u)
  PROVE  Holds(u) /\ (~siConf.sso \/ siRole[u] = "admin")
BY DEF Sign!LocalAllowed, Holds

\* A request to sign in is checked against the account.
LEMMA CallEffect ==
  ASSUME SignTypes, NEW c \in SignCall,
         \/ Sign!Redeem(c) \/ \E u \in Party : Sign!Login(c, u) \/ Sign!Form(c, u)
         \/ \E t \in 1 .. MaxToken : Sign!Refresh(c, t)
  PROVE  SignEnters(c)
<1>1. UNCHANGED People /\ UNCHANGED Invited /\ UNCHANGED Given /\ UNCHANGED siFlow /\ siOp[c].pc = "idle"
  BY DEF Sign!Redeem, Sign!Login, Sign!Form, Sign!Refresh, Sign!settings, Sign!links, Sign!history, Sign!At, People, Invited, Given
<1>2. ASSUME NEW u \in Party, Sign!Login(c, u) PROVE SignEnters(c)
  <2>1. siOp' = [siOp EXCEPT ![c] = [pc |-> "device", user |-> u, no |-> 0]] /\ Sign!Unlocked /\ Sign!LocalAllowed(u)
    BY <1>2 DEF Sign!Login
  <2>2. OpIs(c, "device", u, 0)
    BY <2>1, OpSets DEF Who
  <2>3. QED
    BY <1>1, <2>1, <2>2, AllowedLocally DEF SignEnters
<1>3. ASSUME NEW u \in Party, Sign!Form(c, u) PROVE SignEnters(c)
  <2>1. siOp' = [siOp EXCEPT ![c] = [pc |-> "form", user |-> u, no |-> 0]]
    BY <1>3 DEF Sign!Form
  <2>2. OpIs(c, "form", u, 0)
    BY <2>1, OpSets DEF Who
  <2>3. QED
    BY <1>1, <2>2 DEF SignEnters
<1>4. CASE Sign!Redeem(c)
  <2>1. /\ siOp' = [siOp EXCEPT ![c] = [pc |-> "claim", user |-> siInvite.user, no |-> siInvite.no]]
        /\ Sign!Unlocked /\ siInvite.st = "open" /\ ~siConf.sso
    BY <1>4 DEF Sign!Redeem
  <2>2. siInvite.user \in Who /\ siInvite.no \in Nat
    BY DEF SignTypes, SignInvite
  <2>3. OpIs(c, "claim", siInvite.user, siInvite.no)
    BY <2>1, <2>2, OpSets
  <2>4. QED
    BY <1>1, <2>1, <2>3 DEF SignEnters
<1>5. ASSUME NEW t \in 1 .. MaxToken, Sign!Refresh(c, t) PROVE SignEnters(c)
  <2>1. siOp' = [siOp EXCEPT ![c] = [pc |-> "rotate", user |-> siAgent.user, no |-> t]] /\ Sign!Unlocked
    BY <1>5 DEF Sign!Refresh
  <2>2. siAgent.user \in Who /\ t \in Nat
    BY DEF SignTypes, SignAgent
  <2>3. OpIs(c, "rotate", siAgent.user, t)
    BY <2>1, <2>2, OpSets
  <2>4. QED
    BY <1>1, <2>1, <2>2, <2>3 DEF SignEnters
<1>6. QED
  BY <1>2, <1>3, <1>4, <1>5

\* A request that goes on issues for the account it was checked for.
LEMMA ServeEffect ==
  ASSUME SignTypes, SignLocked, NEW c \in SignCall,
         Sign!Claim(c) \/ Sign!NewDevice(c) \/ Sign!Authorize(c) \/ Sign!Issue(c) \/ Sign!Rotate(c) \/ Sign!Mint(c)
  PROVE  SignClaims(c) \/ SignDevice(c) \/ SignAuthorizes(c) \/ SignIssues(c) \/ SignRotates(c) \/ SignMints(c) \/ SignLeaves(c)
<1>1. UNCHANGED People /\ UNCHANGED siFlow
  BY DEF Sign!Claim, Sign!NewDevice, Sign!Authorize, Sign!Issue, Sign!Rotate, Sign!Mint, Sign!settings, Sign!links, Sign!history, People
<1>2. CASE Sign!Claim(c)
  <2>1. UNCHANGED Given /\ UNCHANGED <<siSpent, siTwice>> /\ siOp[c].pc = "claim"
    BY <1>2 DEF Sign!Claim, Sign!settings, Sign!links, Sign!history, Sign!At, Given
  <2>2. CASE Sign!Stop(c) /\ UNCHANGED siInvite
    BY <1>1, <2>1, <2>2, OpSets DEF SignLeaves, Invited
  <2>3. CASE siInvite.no = siOp[c].no /\ siInvite.st = "open" /\ siInvite' = [siInvite EXCEPT !.st = "redeemed"] /\ Sign!Goto(c, "device")
    <3>1. siInvite' \in SignInvite /\ siInvite'.st = "redeemed" /\ siInvite'.no = siInvite.no
      BY <2>3 DEF SignTypes, SignInvite
    <3>2. OpIs(c, "device", siOp[c].user, siOp[c].no)
      BY <2>3, OpSets
    <3>3. QED
      BY <1>1, <2>1, <2>3, <3>1, <3>2 DEF SignClaims
  <2>4. QED
    BY <1>2, <2>2, <2>3 DEF Sign!Claim
<1>3. CASE Sign!NewDevice(c)
  <2>1. UNCHANGED <<siInvite, siAgent, siCode>> /\ siOp[c].pc = "device" /\ OpEnds(c)
    BY <1>3, OpSets DEF Sign!NewDevice, Sign!settings, Sign!links, Sign!At
  <2>2. CASE UNCHANGED <<siDevice, siSpent, siTwice>>
    BY <1>1, <2>1, <2>2 DEF SignLeaves, Invited, Given
  <2>3. CASE Sign!Account(siOp[c].user) /\ siDevice' = siDevice \union {<<siOp[c].user, "local">>} /\ Sign!Used(siOp[c].no)
    <3>1. siOp[c].user \in Party
      BY <2>1 DEF SignLocked
    <3>2. Holds(siOp[c].user)
      BY <2>3, <3>1 DEF Sign!Account, Holds
    <3>3. QED
      BY <1>1, <2>1, <2>3, <3>2, UsedEffect DEF SignDevice
  <2>4. QED
    BY <1>3, <2>2, <2>3 DEF Sign!NewDevice
<1>4. CASE Sign!Authorize(c)
  <2>1. UNCHANGED Given /\ UNCHANGED Invited /\ siOp[c].pc = "form" /\ Sign!Unlocked
    BY <1>4 DEF Sign!Authorize, Sign!settings, Sign!links, Sign!history, Sign!At, Given, Invited
  <2>2. CASE Sign!Stop(c)
    BY <1>1, <2>1, <2>2, OpSets DEF SignLeaves
  <2>3. CASE Sign!LocalAllowed(siOp[c].user) /\ Sign!Goto(c, "issue")
    <3>1. siOp[c].user \in Party
      BY <2>1 DEF SignLocked
    <3>2. OpIs(c, "issue", siOp[c].user, siOp[c].no)
      BY <2>3, OpSets
    <3>3. QED
      BY <1>1, <2>1, <2>3, <3>1, <3>2, AllowedLocally DEF SignAuthorizes
  <2>4. QED
    BY <1>4, <2>2, <2>3 DEF Sign!Authorize
<1>5. CASE Sign!Issue(c)
  <2>1. UNCHANGED Invited /\ UNCHANGED <<siDevice, siAgent>> /\ siOp[c].pc = "issue" /\ OpEnds(c)
    BY <1>5, OpSets DEF Sign!Issue, Sign!settings, Sign!links, Sign!history, Sign!At, Invited
  <2>2. siCode' = [user |-> siOp[c].user, method |-> "local"]
    BY <1>5 DEF Sign!Issue
  <2>3. QED
    BY <1>1, <2>1, <2>2 DEF SignIssues
<1>6. CASE Sign!Rotate(c)
  <2>1. UNCHANGED Invited /\ UNCHANGED <<siDevice, siCode>> /\ siOp[c].pc = "rotate"
    BY <1>6 DEF Sign!Rotate, Sign!settings, Sign!links, Sign!history, Sign!At, Invited
  <2>2. CASE Sign!Stop(c) /\ UNCHANGED siAgent
    BY <1>1, <2>1, <2>2, OpSets DEF SignLeaves, Given
  <2>3. CASE siOp[c].no \in siAgent.live /\ siAgent' = [siAgent EXCEPT !.live = siAgent.live \ {siOp[c].no}] /\ Sign!Goto(c, "mint")
    <3>1. /\ siAgent' \in SignAgent /\ siAgent'.live = siAgent.live \ {siOp[c].no}
          /\ siAgent'.on = siAgent.on /\ siAgent'.user = siAgent.user /\ siAgent'.method = siAgent.method
      BY <2>3 DEF SignTypes, SignAgent
    <3>2. OpIs(c, "mint", siOp[c].user, siOp[c].no)
      BY <2>3, OpSets
    <3>3. QED
      BY <1>1, <2>1, <2>3, <3>1, <3>2 DEF SignRotates
  <2>4. QED
    BY <1>6, <2>2, <2>3 DEF Sign!Rotate, Sign!Without
<1>7. CASE Sign!Mint(c)
  <2>1. UNCHANGED Invited /\ UNCHANGED <<siDevice, siCode>> /\ siOp[c].pc = "mint" /\ OpEnds(c)
    BY <1>7, OpSets DEF Sign!Mint, Sign!settings, Sign!links, Sign!history, Sign!At, Invited
  <2>2. CASE UNCHANGED siAgent
    BY <1>1, <2>1, <2>2 DEF SignLeaves, Given
  <2>3. CASE siAgent' = [siAgent EXCEPT !.live = @ \union {siAgent.next}, !.next = @ + 1]
    <3>1. siAgent \in SignAgent /\ siAgent.next \in Nat /\ siAgent.live \subseteq Nat
      BY DEF SignTypes, SignAgent
    <3>2. siAgent.next + 1 \in Nat
      BY <3>1
    <3>3. /\ siAgent' \in SignAgent /\ siAgent'.live = siAgent.live \union {siAgent.next}
          /\ siAgent'.on = siAgent.on /\ siAgent'.user = siAgent.user /\ siAgent'.method = siAgent.method
      BY <2>3, <3>1, <3>2 DEF SignAgent
    <3>4. QED
      BY <1>1, <2>1, <3>3 DEF SignMints
  <2>4. QED
    BY <1>7, <2>2, <2>3 DEF Sign!Mint
<1>8. QED
  BY <1>2, <1>3, <1>4, <1>5, <1>6, <1>7

\* The browser goes to the provider and comes back.
LEMMA FlowEffect ==
  ASSUME SignTypes, SignOld, Sign!Begin \/ Sign!Callback \/ Sign!Handoff \/ Sign!Expire \/ Sign!Tested
  PROVE  SignFlows
<1>1. UNCHANGED People /\ UNCHANGED Invited /\ UNCHANGED Given /\ UNCHANGED siOp
  BY DEF Sign!Begin, Sign!BeginWith, Sign!Callback, Sign!Handoff, Sign!Expire, Sign!Tested, Sign!settings, Sign!links,
     Sign!history, People, Invited, Given
<1>2. siFlow \in SignFlow /\ siConf \in SignConf /\ siInvite.no \in Nat
  BY DEF SignTypes, SignInvite
<1>3. CASE siFlow' = Sign!NoFlow
  BY <1>1, <1>3, SignNothing DEF SignFlows
<1>4. CASE \E pc \in {"verify", "handoff"} : siFlow' = [siFlow EXCEPT !.pc = pc]
  <2>1. siFlow' \in SignFlow /\ siFlow'.pc # "consent" /\ siFlow'.old = siFlow.old /\ siFlow'.fresh = siFlow.fresh
    BY <1>2, <1>4 DEF SignFlow
  <2>2. QED
    BY <1>1, <2>1 DEF SignFlows, SignOld
<1>5. ASSUME NEW purpose \in {"login", "mcp", "link", "test"}, NEW u \in Who, NEW m \in How, NEW inv \in Nat,
             Sign!BeginWith(purpose, u, m, inv)
      PROVE  SignFlows
  <2>1. siFlow' = [Sign!NoFlow EXCEPT !.pc = "attempt", !.purpose = purpose, !.user = u, !.method = m, !.inv = inv, !.conf = siConf]
    BY <1>5 DEF Sign!BeginWith
  <2>2. siFlow' \in SignFlow /\ siFlow'.pc = "attempt" /\ siFlow'.old = FALSE
    BY <1>2, <2>1, SignNothing DEF SignFlow
  <2>3. QED
    BY <1>1, <2>2 DEF SignFlows
<1>6. Sign!Begin => \E purpose \in {"login", "mcp", "link", "test"}, u \in Who, m \in How, inv \in Nat : Sign!BeginWith(purpose, u, m, inv)
  BY <1>2 DEF Sign!Begin, Sign!Methods, Who, How
<1>7. QED
  BY <1>3, <1>4, <1>5, <1>6 DEF Sign!Callback, Sign!Handoff, Sign!Expire, Sign!Tested

\* The identity the provider named is linked, or is signed in.
LEMMA CommitEffect ==
  ASSUME SignTypes, SignAccounts, SignOld, NEW u \in Party, Sign!Commit(u)
  PROVE  SignCommits(u)
<1>1. /\ UNCHANGED <<siPw, siConf, siKept, siAgent, siCode, siOp>> /\ Sign!Unlocked
      /\ siIdentity' = u /\ siRelinked' = (siRelinked \/ (siIdentity = NoParty /\ siFlow.old))
      /\ siRole' = [siRole EXCEPT ![u] = IF @ = "new" THEN "user" ELSE @]
      /\ siInvite' = (IF siFlow.inv # 0 THEN [siInvite EXCEPT !.st = "redeemed"] ELSE siInvite)
      /\ siDevice' = (IF siFlow.purpose = "login" THEN siDevice \union {<<u, "oidc">>} ELSE siDevice)
      /\ siFlow' = (IF siFlow.purpose = "mcp" THEN [siFlow EXCEPT !.pc = "consent", !.user = u] ELSE Sign!NoFlow)
      /\ Sign!Used(siFlow.inv)
  BY DEF Sign!Commit
<1>2. siFlow.fresh /\ Sign!InviteStands(siFlow) /\ u \in Sign!Linked(siFlow)
      /\ (siFlow.purpose = "link" => Sign!ActorStands(siFlow)) /\ Sign!Intended(siFlow) \in {u, NoParty}
  BY DEF Sign!Commit, Sign!Current
<1>3. ~siFlow.old /\ siRelinked' = siRelinked
  BY <1>1, <1>2 DEF SignOld, SignTypes
<1>4. u # NoParty
  BY PartyAssumption
<1>5. siIdentity \in {NoParty, u}
  BY <1>2 DEF Sign!Linked
<1>6. Holds(u) \/ siRole[u] = "new"
  <2>1. CASE siIdentity # NoParty
    BY <1>5, <2>1 DEF SignAccounts
  <2>2. CASE siIdentity = NoParty /\ Sign!Intended(siFlow) = NoParty
    BY <1>2, <2>2 DEF Sign!Linked
  <2>3. CASE siIdentity = NoParty /\ Sign!Intended(siFlow) # NoParty /\ siFlow.purpose = "link"
    <3>1. siFlow.user = u /\ <<siFlow.user, siFlow.method>> \in siDevice
      BY <1>2, <1>4, <2>3 DEF Sign!Intended, Sign!ActorStands, Sign!Session, Sign!Linked
    <3>2. <<u, siFlow.method>> \in siDevice /\ siFlow.method \in {"local", "oidc"}
      BY <3>1 DEF SignTypes
    <3>3. QED
      BY <3>2 DEF SignAccounts
  <2>4. CASE siIdentity = NoParty /\ Sign!Intended(siFlow) # NoParty /\ siFlow.purpose # "link"
    <3>1. siFlow.inv # 0 /\ siInvite.user = u
      BY <1>2, <1>4, <2>4 DEF Sign!Intended, Sign!Linked
    <3>2. siInvite.st = "open"
      BY <1>2, <3>1 DEF Sign!InviteStands
    <3>3. QED
      BY <3>1, <3>2 DEF SignAccounts
  <2>5. QED
    BY <2>1, <2>2, <2>3, <2>4
<1>7. \/ UNCHANGED siInvite /\ Uses(0)
      \/ /\ siInvite.st = "open" /\ siInvite' \in SignInvite /\ siInvite'.st = "redeemed" /\ siInvite'.no = siInvite.no
         /\ Uses(siInvite.no)
  <2>1. CASE siFlow.inv = 0
    BY <1>1, <2>1, UsedEffect
  <2>2. CASE siFlow.inv # 0
    <3>1. siInvite.st = "open" /\ siFlow.inv = siInvite.no
      BY <1>2, <2>2 DEF Sign!InviteStands
    <3>2. siInvite' \in SignInvite /\ siInvite'.st = "redeemed" /\ siInvite'.no = siInvite.no
      BY <1>1, <2>2 DEF SignTypes, SignInvite
    <3>3. QED
      BY <1>1, <3>1, <3>2, UsedEffect
  <2>3. QED
    BY <2>1, <2>2
<1>8. siFlow' \in SignFlow /\ (siFlow'.pc = "consent" => siFlow'.user = u) /\ ~siFlow'.old
  <2>1. CASE siFlow.purpose = "mcp"
    BY <1>1, <1>3, <2>1 DEF SignTypes, SignFlow, Who
  <2>2. CASE siFlow.purpose # "mcp"
    BY <1>1, <2>2, SignNothing
  <2>3. QED
    BY <2>1, <2>2
<1>9. QED
  BY <1>1, <1>3, <1>5, <1>6, <1>7, <1>8 DEF SignCommits

\* A code is exchanged, or consent makes one.
LEMMA TokenEffect ==
  ASSUME SignTypes, SignAccounts, Sign!Exchange \/ Sign!Consent
  PROVE  SignExchanges \/ SignConsents
<1>1. CASE Sign!Exchange
  <2>1. /\ UNCHANGED People /\ UNCHANGED Invited /\ UNCHANGED <<siFlow, siDevice, siOp>> /\ Sign!Unlocked
        /\ siCode' = [user |-> NoParty, method |-> "none"] /\ siCode # [user |-> NoParty, method |-> "none"]
    BY <1>1, SignNothing DEF Sign!Exchange, Sign!settings, Sign!links, Sign!history, People, Invited
  <2>2. siCode \in SignCode /\ siAgent \in SignAgent
    BY DEF SignTypes
  <2>3. siCode.method # "none" \/ siCode.user # NoParty
    BY <2>1, <2>2 DEF SignCode
  <2>4. CASE UNCHANGED siAgent
    BY <2>1, <2>2, <2>3, <2>4 DEF SignExchanges
  <2>5. CASE Sign!Stands(siCode) /\ siAgent' = [user |-> siCode.user, method |-> siCode.method, on |-> TRUE, live |-> {1}, next |-> 2]
    <3>1. siAgent' \in SignAgent /\ siAgent'.live = {1} /\ siAgent'.user = siCode.user /\ siAgent'.method = siCode.method
      BY <2>2, <2>5 DEF SignCode, SignAgent
    <3>2. IF siCode.method = "local" THEN Holds(siCode.user) /\ (~siConf.sso \/ siRole[siCode.user] = "admin")
          ELSE siIdentity = siCode.user
      BY <2>5, AllowedLocally DEF Sign!Stands, SignAccounts, Holds
    <3>3. QED
      BY <2>1, <2>3, <3>1, <3>2 DEF SignExchanges
  <2>6. QED
    BY <1>1, <2>4, <2>5 DEF Sign!Exchange
<1>2. CASE Sign!Consent
  <2>1. /\ UNCHANGED People /\ UNCHANGED Invited /\ UNCHANGED <<siDevice, siAgent, siOp>> /\ siFlow.pc = "consent"
        /\ siFlow' = Sign!NoFlow
    BY <1>2 DEF Sign!Consent, Sign!settings, Sign!links, Sign!history, People, Invited
  <2>2. UNCHANGED siCode \/ siCode' = [user |-> siFlow.user, method |-> "oidc"]
    BY <1>2 DEF Sign!Consent
  <2>3. QED
    BY <2>1, <2>2, SignNothing DEF SignConsents
<1>3. QED
  BY <1>1, <1>2

\* What a change of settings leaves of the flow.
LEMMA ClearedFlow ==
  ASSUME SignTypes, SignOld
  PROVE  LET f == Sign!Cleared(siFlow)
             g == [f EXCEPT !.old = TRUE]
         IN /\ f \in SignFlow /\ f.pc # "consent" /\ (f.old => ~f.fresh)
            /\ (siFlow.pc = "verify" => g \in SignFlow /\ g.pc # "consent" /\ ~g.fresh)
<1>1. siFlow \in SignFlow
  BY DEF SignTypes
<1>2. CASE siFlow.pc = "verify"
  <2> DEFINE f == [siFlow EXCEPT !.fresh = FALSE]
  <2>1. f \in SignFlow /\ f.pc = "verify" /\ f.fresh = FALSE
    BY <1>1, <1>2 DEF SignFlow
  <2>2. Sign!Cleared(siFlow) = f
    BY <1>2 DEF Sign!Cleared
  <2> HIDE DEF f
  <2>3. [f EXCEPT !.old = TRUE] \in SignFlow /\ [f EXCEPT !.old = TRUE].pc = "verify" /\ [f EXCEPT !.old = TRUE].fresh = FALSE
    BY <2>1 DEF SignFlow
  <2>4. QED
    BY <2>1, <2>2, <2>3
<1>3. CASE siFlow.pc # "verify"
  BY <1>3, SignNothing DEF Sign!Cleared
<1>4. QED
  BY <1>2, <1>3

\* What a change takes from the agents' tokens.
LEMMA AgentOff ==
  ASSUME SignTypes, NEW revoked \in BOOLEAN, siAgent' = Sign!Off(siAgent, revoked)
  PROVE  Offs(revoked)
BY DEF SignTypes, SignAgent, Sign!Off, Offs

\* Saving the settings ends what they no longer allow.
LEMMA SettleEffect ==
  ASSUME SignTypes, SignOld, NEW on \in BOOLEAN, NEW sso \in BOOLEAN, NEW print \in {1, 2}, Sign!Save(on, sso, print)
  PROVE  SignSaves
<1> DEFINE out == IF sso THEN {u \in Party : siRole[u] # "admin"} ELSE {}
<1>1. /\ UNCHANGED <<siRole, siPw, siIdentity, siRelinked, siOp>> /\ UNCHANGED Invited /\ Sign!Unlocked
      /\ siConf' = [on |-> on, sso |-> sso, print |-> print] /\ (sso => on)
      /\ siDevice' = siDevice \ (out \X {"local"})
      /\ siFlow' = Sign!Cleared(siFlow) /\ siKept' = (IF sso THEN {} ELSE siKept)
  BY DEF Sign!Save, Sign!links, Invited
<1>2. siAgent' = Sign!Off(siAgent, siAgent.method = "local" /\ siAgent.user \in out)
  BY DEF Sign!Save
<1>3. IF siCode.method = "local" /\ siCode.user \in out THEN CodeGone ELSE UNCHANGED siCode
  BY SignNothing DEF Sign!Save, CodeGone
<1>4. sso => \E u \in siPw : siRole[u] = "admin"
  BY DEF Sign!Save, Sign!Recovery, Sign!Admins
<1> HIDE DEF out
<1>5. Offs(siAgent.method = "local" /\ siAgent.user \in out)
  BY <1>2, AgentOff
<1>6. siConf' \in SignConf /\ siConf'.sso = sso /\ siConf'.on = on
  BY <1>1 DEF SignConf
<1>7. siFlow' \in SignFlow /\ siFlow'.pc # "consent" /\ (siFlow'.old => ~siFlow'.fresh)
  BY <1>1, ClearedFlow
<1>8. siKept' \subseteq Party
  BY <1>1 DEF SignTypes
<1>9. QED
  BY <1>1, <1>3, <1>4, <1>5, <1>6, <1>7, <1>8 DEF SignSaves, out

\* Unlinking ends the sessions of the identity.
LEMMA UnlinkEffect == ASSUME SignTypes, SignOld, NEW u \in Party, Sign!Unlink(u) PROVE SignUnlinks(u)
<1>1. /\ UNCHANGED <<siRole, siPw, siConf, siKept, siRelinked, siOp>> /\ UNCHANGED Invited /\ Sign!Unlocked
      /\ siIdentity = u /\ siIdentity' = NoParty /\ siDevice' = siDevice \ {<<u, "oidc">>}
      /\ siAgent' = Sign!Off(siAgent, siAgent.method = "oidc" /\ siAgent.user = u)
      /\ siFlow' = (IF siFlow.pc = "verify" THEN [Sign!Cleared(siFlow) EXCEPT !.old = TRUE] ELSE Sign!Cleared(siFlow))
  BY DEF Sign!Unlink, Sign!settings, Sign!history, Invited
<1>2. IF siCode.method = "oidc" /\ siCode.user = u THEN CodeGone ELSE UNCHANGED siCode
  BY SignNothing DEF Sign!Unlink, CodeGone
<1>3. siFlow' \in SignFlow /\ siFlow'.pc # "consent" /\ (siFlow'.old => ~siFlow'.fresh)
  BY <1>1, ClearedFlow
<1>4. QED
  BY <1>1, <1>2, <1>3, AgentOff DEF SignUnlinks

\* A change of role, or a deletion, spares the last administrator.
LEMMA RoleEffect == ASSUME SignTypes, NEW u \in Party, Sign!SetRole(u) \/ Sign!Delete(u) PROVE SignRole(u) \/ SignDeletes(u)
<1>1. siRole[u] = "admin" /\ siConf.sso => \E a \in siPw \ {u} : siRole[a] = "admin"
  BY DEF Sign!SetRole, Sign!Delete, Sign!CanSpare, Sign!Recovery, Sign!Admins
<1>2. Holds(u) /\ Sign!Unlocked
  BY DEF Sign!SetRole, Sign!Delete, Sign!Account, Holds
<1>3. CASE Sign!SetRole(u)
  BY <1>1, <1>2, <1>3 DEF Sign!SetRole, Sign!links, Invited, Given, SignRole
<1>4. CASE Sign!Delete(u)
  <2>1. /\ UNCHANGED <<siConf, siKept, siRelinked, siOp, siSpent, siTwice>>
        /\ siRole' = [siRole EXCEPT ![u] = "gone"] /\ siPw' = siPw \ {u}
        /\ siIdentity' = (IF siIdentity = u THEN NoParty ELSE siIdentity)
        /\ siDevice' = siDevice \ ({u} \X {"local", "oidc"})
    BY <1>4 DEF Sign!Delete, Sign!history, Sign!Methods
  <2>2. /\ siInvite' \in SignInvite /\ siInvite'.no = siInvite.no
        /\ (siInvite'.st = "open" => siInvite.st = "open" /\ siInvite'.user = siInvite.user /\ siInvite.user # u)
    <3>1. siInvite' = (IF u \in {siInvite.user, siInvite.by} THEN [Sign!NoInvite EXCEPT !.no = siInvite.no] ELSE siInvite)
      BY <1>4 DEF Sign!Delete
    <3>2. [Sign!NoInvite EXCEPT !.no = siInvite.no] = [no |-> siInvite.no, user |-> NoParty, by |-> NoParty, st |-> "none"]
      BY DEF Sign!NoInvite
    <3>3. siInvite \in SignInvite
      BY DEF SignTypes
    <3>4. [no |-> siInvite.no, user |-> NoParty, by |-> NoParty, st |-> "none"] \in SignInvite
      BY <3>3 DEF SignInvite, Who
    <3>5. QED
      BY <3>1, <3>2, <3>3, <3>4
  <2>3. IF siAgent.user = u THEN siAgent' \in SignAgent /\ ~siAgent'.on /\ siAgent'.live = {} ELSE UNCHANGED siAgent
    BY <1>4, SignNothing DEF Sign!Delete
  <2>4. IF siCode.user = u THEN CodeGone ELSE UNCHANGED siCode
    BY <1>4, SignNothing DEF Sign!Delete, CodeGone
  <2>5. /\ siFlow' \in SignFlow /\ siFlow'.pc = siFlow.pc /\ siFlow'.user = siFlow.user
        /\ siFlow'.old = siFlow.old /\ siFlow'.fresh = siFlow.fresh
    <3>1. PICK s \in BOOLEAN : siFlow' = [siFlow EXCEPT !.session = s]
      BY <1>4 DEF Sign!Delete
    <3>2. QED
      BY <3>1 DEF SignTypes, SignFlow
  <2>6. QED
    BY <1>1, <1>2, <2>1, <2>2, <2>3, <2>4, <2>5 DEF SignDeletes
<1>5. QED
  BY <1>3, <1>4

\* Revoking ends the sessions of one method.
LEMMA RevokeEffect == ASSUME SignTypes, NEW u \in Party, NEW m \in {"local", "oidc"}, Sign!Revoke(u, m) PROVE SignRevokes(u, m)
<1>1. UNCHANGED People /\ UNCHANGED Invited /\ UNCHANGED <<siCode, siOp>>
  BY DEF Sign!Revoke, Sign!settings, Sign!links, Sign!history, People, Invited
<1>2. \/ siDevice' = siDevice \ {<<u, m>>} /\ UNCHANGED siAgent
      \/ siAgent' = [siAgent EXCEPT !.on = FALSE, !.live = {}] /\ UNCHANGED siDevice
  BY DEF Sign!Revoke
<1>3. siAgent' = [siAgent EXCEPT !.on = FALSE, !.live = {}] => siAgent' \in SignAgent /\ ~siAgent'.on /\ siAgent'.live = {}
  BY DEF SignTypes, SignAgent
<1>4. PICK s \in BOOLEAN : siFlow' = [siFlow EXCEPT !.session = s] \/ UNCHANGED siFlow
  BY DEF Sign!Revoke
<1>5. /\ siFlow' \in SignFlow /\ siFlow'.pc = siFlow.pc /\ siFlow'.user = siFlow.user
      /\ siFlow'.old = siFlow.old /\ siFlow'.fresh = siFlow.fresh
  BY <1>4 DEF SignTypes, SignFlow
<1>6. QED
  BY <1>1, <1>2, <1>3, <1>5 DEF SignRevokes

\* An invitation makes an account or gives a password.
LEMMA InviteEffect == ASSUME SignTypes, NEW u \in Party, NEW by \in Party, Sign!Invite(u, by) PROVE SignInvites(u)
<1>1. /\ UNCHANGED <<siPw, siConf, siIdentity, siKept, siRelinked, siFlow, siOp, siSpent, siTwice>> /\ UNCHANGED Given
      /\ siRole[u] # "gone" /\ siRole' = [siRole EXCEPT ![u] = IF @ = "new" THEN "user" ELSE @]
      /\ siInvite' = [no |-> siInvite.no + 1, user |-> u, by |-> by, st |-> "open"]
  BY DEF Sign!Invite, Sign!history, Given
<1>2. siInvite.no + 1 \in Nat
  BY DEF SignTypes, SignInvite
<1>3. siInvite' \in SignInvite
  BY <1>1, <1>2 DEF SignInvite, Who
<1>4. QED
  BY <1>1, <1>3 DEF SignInvites

\* Every action of signing in has one of these effects.
LEMMA SignSteps == ASSUME SignTypes, SignAccounts, SignLocked, SignOld, Sign!Next PROVE SignStep
<1>1. ASSUME NEW c \in SignCall,
             \/ Sign!Redeem(c) \/ \E u \in Party : Sign!Login(c, u) \/ Sign!Form(c, u)
             \/ \E t \in 1 .. MaxToken : Sign!Refresh(c, t)
      PROVE  SignStep
  BY <1>1, CallEffect DEF SignStep
<1>2. ASSUME NEW c \in SignCall, Sign!Claim(c) \/ Sign!NewDevice(c) \/ Sign!Authorize(c) \/ Sign!Issue(c) \/ Sign!Rotate(c) \/ Sign!Mint(c)
      PROVE  SignStep
  BY <1>2, ServeEffect DEF SignStep
<1>3. CASE Sign!Begin \/ Sign!Callback \/ Sign!Handoff \/ Sign!Expire \/ Sign!Tested
  BY <1>3, FlowEffect DEF SignStep
<1>4. CASE Sign!Exchange \/ Sign!Consent
  BY <1>4, TokenEffect DEF SignStep
<1>5. ASSUME NEW u \in Party, Sign!Commit(u) \/ Sign!Unlink(u) \/ Sign!SetRole(u) \/ Sign!Delete(u)
      PROVE  SignStep
  BY <1>5, CommitEffect, UnlinkEffect, RoleEffect DEF SignStep
<1>6. ASSUME NEW u \in Party, Sign!SetPassword(u) PROVE SignStep
  <2>1. SignPasswords(u)
    BY <1>6 DEF Sign!SetPassword, Sign!links, Sign!history, Invited, Given, SignPasswords
  <2>2. QED
    BY <2>1 DEF SignStep
<1>7. ASSUME NEW u \in Party, NEW m \in {"local", "oidc"}, Sign!Revoke(u, m) PROVE SignStep
  BY <1>7, RevokeEffect DEF SignStep
<1>8. ASSUME NEW u \in Party, NEW by \in Party, Sign!Invite(u, by) PROVE SignStep
  BY <1>8, InviteEffect DEF SignStep
<1>9. ASSUME NEW on \in BOOLEAN, NEW sso \in BOOLEAN, NEW print \in {1, 2}, Sign!Save(on, sso, print) PROVE SignStep
  BY <1>9, SettleEffect DEF SignStep
<1>10. CASE Sign!Crash
  <2>1. UNCHANGED People /\ UNCHANGED Invited /\ UNCHANGED Given /\ siFlow' = Sign!NoFlow /\ siOp' = [c \in SignCall |-> Sign!Idle]
    BY <1>10 DEF Sign!Crash, Sign!settings, Sign!links, Sign!history, People, Invited, Given
  <2>2. SignHalts
    BY <2>1, SignNothing DEF SignHalts
  <2>3. QED
    BY <2>2 DEF SignStep
<1>11. QED
  BY <1>1, <1>2, <1>3, <1>4, <1>5, <1>6, <1>7, <1>8, <1>9, <1>10 DEF Sign!Next, Sign!Methods

\* The parts of the invariant, over every kind of step.
LEMMA SignTypesKept == ASSUME SignTypes, SignLocked, SignStep PROVE SignTypes'
<1> USE DEF People, Invited, Given
<1>1. siOp \in [SignCall -> SignOp] /\ siInvite.no \in Nat /\ \A c \in SignCall : siOp[c].no \in Nat /\ siOp[c].user \in Who
  BY DEF SignTypes, SignInvite, SignOp
<1>2. \A n \in Nat : Uses(n) => siTwice' \subseteq Nat /\ siSpent' \subseteq Nat
  BY DEF Uses, SignTypes
<1>3. ASSUME NEW c \in SignCall, SignEnters(c) \/ SignAuthorizes(c) \/ SignLeaves(c) PROVE SignTypes'
  BY <1>3 DEF SignEnters, SignAuthorizes, SignLeaves, OpIs, OpEnds, SignTypes
<1>4. ASSUME NEW c \in SignCall, SignClaims(c) PROVE SignTypes'
  BY <1>4 DEF SignClaims, OpIs, SignTypes
<1>5. ASSUME NEW c \in SignCall, SignDevice(c) PROVE SignTypes'
  BY <1>1, <1>2, <1>5 DEF SignDevice, OpEnds, Holds, SignTypes
<1>6. ASSUME NEW c \in SignCall, SignIssues(c) PROVE SignTypes'
  <2>1. siCode' \in SignCode
    BY <1>1, <1>6 DEF SignIssues, SignCode, How
  <2>2. QED
    BY <1>6, <2>1 DEF SignIssues, OpEnds, SignTypes
<1>7. ASSUME NEW c \in SignCall, SignRotates(c) \/ SignMints(c) PROVE SignTypes'
  BY <1>7 DEF SignRotates, SignMints, OpIs, OpEnds, SignTypes
<1>8. [user |-> NoParty, method |-> "none"] \in SignCode
  BY DEF SignCode, Who, How
<1>9. CASE SignExchanges
  BY <1>8, <1>9 DEF SignExchanges, SignTypes
<1>10. CASE SignFlows \/ SignHalts
  BY <1>10 DEF SignFlows, SignHalts, SignTypes
<1>11. CASE SignConsents
  <2>1. siCode' \in SignCode
    BY <1>11 DEF SignConsents, SignCode, SignFlow, How, SignTypes
  <2>2. QED
    BY <1>11, <2>1 DEF SignConsents, SignTypes
<1>12. CASE SignSaves
  <2>1. siCode' \in SignCode /\ siDevice' \subseteq siDevice /\ siAgent' \in SignAgent
    BY <1>8, <1>12 DEF SignSaves, CodeGone, Offs, SignTypes
  <2>2. QED
    BY <1>12, <2>1 DEF SignSaves, SignTypes
<1>13. ASSUME NEW u \in Party, SignCommits(u) PROVE SignTypes'
  <2>1. siRole' \in [Party -> {"admin", "user", "new", "gone"}]
    BY <1>13 DEF SignCommits, SignTypes
  <2>2. siTwice' \subseteq Nat /\ siSpent' \subseteq Nat
    BY <1>1, <1>2, <1>13 DEF SignCommits
  <2>3. siDevice' \subseteq Party \X {"local", "oidc"}
    BY <1>13 DEF SignCommits, SignTypes
  <2>4. QED
    BY <1>13, <2>1, <2>2, <2>3 DEF SignCommits, SignTypes, Who
<1>14. ASSUME NEW u \in Party, SignUnlinks(u) PROVE SignTypes'
  <2>1. siCode' \in SignCode /\ siDevice' \subseteq siDevice /\ siAgent' \in SignAgent
    BY <1>8, <1>14 DEF SignUnlinks, CodeGone, Offs, SignTypes
  <2>2. QED
    BY <1>14, <2>1 DEF SignUnlinks, SignTypes, Who
<1>15. ASSUME NEW u \in Party, SignRole(u) PROVE SignTypes'
  <2>1. siRole' \in [Party -> {"admin", "user", "new", "gone"}] /\ siKept' \subseteq Party
    BY <1>15 DEF SignRole, SignTypes
  <2>2. QED
    BY <1>15, <2>1 DEF SignRole, SignTypes
<1>16. ASSUME NEW u \in Party, SignDeletes(u) PROVE SignTypes'
  <2>1. siRole' \in [Party -> {"admin", "user", "new", "gone"}] /\ siPw' \subseteq Party /\ siIdentity' \in Who
    BY <1>16 DEF SignDeletes, SignTypes, Who
  <2>2. siCode' \in SignCode /\ siDevice' \subseteq siDevice /\ siAgent' \in SignAgent
    BY <1>8, <1>16 DEF SignDeletes, CodeGone, SignTypes
  <2>3. QED
    BY <1>16, <2>1, <2>2 DEF SignDeletes, SignTypes
<1>17. ASSUME NEW u \in Party, SignPasswords(u) PROVE SignTypes'
  BY <1>17 DEF SignPasswords, SignTypes
<1>18. ASSUME NEW u \in Party, SignInvites(u) PROVE SignTypes'
  BY <1>18 DEF SignInvites, SignTypes
<1>19. ASSUME NEW u \in Party, NEW m \in {"local", "oidc"}, SignRevokes(u, m) PROVE SignTypes'
  BY <1>19 DEF SignRevokes, SignTypes
<1>20. QED
  BY <1>3, <1>4, <1>5, <1>6, <1>7, <1>9, <1>10, <1>11, <1>12, <1>13, <1>14, <1>15, <1>16, <1>17, <1>18, <1>19 DEF SignStep

\* The effects keep identities, codes and tokens to accounts that exist.
LEMMA SignAccountsKept == ASSUME SignTypes, SignAccounts, SignLocked, SignStep PROVE SignAccounts'
<1> USE DEF People, Invited, Given
<1>1. ASSUME NEW c \in SignCall,
             SignEnters(c) \/ SignAuthorizes(c) \/ SignLeaves(c) \/ SignClaims(c) \/ SignRotates(c) \/ SignMints(c)
      PROVE  SignAccounts'
  BY <1>1 DEF SignEnters, SignAuthorizes, SignLeaves, SignClaims, SignRotates, SignMints, SignAccounts, Holds
<1>2. ASSUME NEW c \in SignCall, SignDevice(c) PROVE SignAccounts'
  BY <1>2 DEF SignDevice, SignAccounts, Holds
<1>3. ASSUME NEW c \in SignCall, SignIssues(c) PROVE SignAccounts'
  BY <1>3 DEF SignIssues, SignAccounts, Holds, SignLocked
<1>4. CASE SignExchanges
  <2>1. siAgent'.on => Holds(siAgent'.user)
    <3>1. CASE UNCHANGED siAgent
      BY <3>1 DEF SignAccounts
    <3>2. CASE siCode.method = "local" /\ Holds(siCode.user) /\ siAgent'.user = siCode.user
      BY <3>2
    <3>3. CASE siCode.method # "local" /\ siIdentity = siCode.user /\ siAgent'.user = siCode.user
      <4>1. siCode.method = "oidc" => siCode.user # NoParty
        BY PartyAssumption DEF SignAccounts
      <4>2. siCode.method = "none" => siCode.user # NoParty
        BY <1>4 DEF SignExchanges
      <4>3. siCode.method \in How
        BY DEF SignTypes, SignCode
      <4>4. QED
        BY <3>3, <4>1, <4>2, <4>3 DEF SignAccounts, How
    <3>4. QED
      BY <1>4, <3>1, <3>2, <3>3 DEF SignExchanges
  <2>2. QED
    BY <1>4, <2>1 DEF SignExchanges, SignAccounts, Holds
<1>5. CASE SignFlows \/ SignHalts
  BY <1>5 DEF SignFlows, SignHalts, SignAccounts, Holds
<1>6. CASE SignConsents
  BY <1>6 DEF SignConsents, SignAccounts, Holds
<1>7. CASE SignSaves
  <2>1. /\ siDevice' \subseteq siDevice /\ (siAgent'.on => siAgent.on /\ siAgent'.user = siAgent.user)
        /\ (siConf'.sso => siConf'.on) /\ UNCHANGED <<siRole, siIdentity, siInvite>> /\ siFlow'.pc # "consent"
    BY <1>7 DEF SignSaves, Offs
  <2>2. siCode' = siCode \/ siCode' = [user |-> NoParty, method |-> "none"]
    BY <1>7 DEF SignSaves, CodeGone
  <2>3. QED
    BY <2>1, <2>2 DEF SignAccounts, Holds
<1>8. ASSUME NEW u \in Party, SignCommits(u) PROVE SignAccounts'
  <2>1. siRole \in [Party -> {"admin", "user", "new", "gone"}]
    BY DEF SignTypes
  <2>2. (\A v : Holds(v) => Holds(v)') /\ Holds(u)'
    BY <1>8, <2>1 DEF SignCommits, Holds
  <2>3. \A v \in Party, m \in {"local", "oidc"} : <<v, m>> \in siDevice' => Holds(v)'
    BY <1>8, <2>2 DEF SignCommits, SignAccounts
  <2>4. (siInvite.st = "open" => Holds(siInvite.user) /\ siInvite.no # 0)'
    BY <1>8, <2>2 DEF SignCommits, SignAccounts
  <2>5. QED
    BY <1>8, <2>2, <2>3, <2>4 DEF SignCommits, SignAccounts, Holds
<1>9. ASSUME NEW u \in Party, SignUnlinks(u) PROVE SignAccounts'
  <2>1. /\ siDevice' \subseteq siDevice /\ (siAgent'.on => siAgent.on /\ siAgent'.user = siAgent.user)
        /\ UNCHANGED <<siConf, siRole, siInvite>> /\ siIdentity' = NoParty /\ siFlow'.pc # "consent"
    BY <1>9 DEF SignUnlinks, Offs
  <2>2. siCode' = siCode \/ siCode' = [user |-> NoParty, method |-> "none"]
    BY <1>9 DEF SignUnlinks, CodeGone
  <2>3. QED
    BY <2>1, <2>2 DEF SignAccounts, Holds
<1>10. ASSUME NEW u \in Party, SignRole(u) PROVE SignAccounts'
  <2>1. siRole \in [Party -> {"admin", "user", "new", "gone"}]
    BY DEF SignTypes
  <2>2. \A v : Holds(v) => Holds(v)'
    BY <1>10, <2>1 DEF SignRole, Holds
  <2>3. QED
    BY <1>10, <2>2 DEF SignRole, SignAccounts
<1>11. ASSUME NEW u \in Party, SignDeletes(u) PROVE SignAccounts'
  <2>1. siRole \in [Party -> {"admin", "user", "new", "gone"}]
    BY DEF SignTypes
  <2>2. \A v : v # u /\ Holds(v) => Holds(v)'
    BY <1>11, <2>1 DEF SignDeletes, Holds
  <2>3. QED
    BY <1>11, <2>2 DEF SignDeletes, CodeGone, SignAccounts
<1>12. ASSUME NEW u \in Party, SignPasswords(u) PROVE SignAccounts'
  BY <1>12 DEF SignPasswords, SignAccounts, Holds
<1>13. ASSUME NEW u \in Party, SignInvites(u) PROVE SignAccounts'
  <2>1. siRole \in [Party -> {"admin", "user", "new", "gone"}] /\ siInvite.no \in Nat
    BY DEF SignTypes, SignInvite
  <2>2. (\A v : Holds(v) => Holds(v)') /\ Holds(u)' /\ siInvite'.no # 0
    BY <1>13, <2>1 DEF SignInvites, Holds
  <2>3. QED
    BY <1>13, <2>2 DEF SignInvites, SignAccounts
<1>14. ASSUME NEW u \in Party, NEW m \in {"local", "oidc"}, SignRevokes(u, m) PROVE SignAccounts'
  BY <1>14 DEF SignRevokes, SignAccounts, Holds
<1>15. QED
  BY <1>1, <1>2, <1>3, <1>4, <1>5, <1>6, <1>7, <1>8, <1>9, <1>10, <1>11, <1>12, <1>13, <1>14 DEF SignStep

\* The effects keep a request under way to the account it was checked for.
LEMMA SignLockedKept == ASSUME SignTypes, SignAccounts, SignLocked, SignStep PROVE SignLocked'
<1> USE DEF People, Invited, Given, SignInside
<1>1. ASSUME NEW c \in SignCall, SignEnters(c) PROVE SignLocked'
  <2>1. CASE \E u \in Party : OpIs(c, "form", u, 0)
    BY <1>1, <2>1 DEF SignEnters, OpIs, SignLocked, Holds
  <2>2. CASE Sign!Unlocked /\ \E u \in Party : OpIs(c, "device", u, 0) /\ (~siConf.sso \/ siRole[u] = "admin")
    BY <1>1, <2>2 DEF SignEnters, OpIs, SignLocked, Holds, Sign!Unlocked
  <2>3. CASE Sign!Unlocked /\ OpIs(c, "claim", siInvite.user, siInvite.no) /\ siInvite.st = "open" /\ ~siConf.sso
    BY <1>1, <2>3 DEF SignEnters, OpIs, SignLocked, Holds, Sign!Unlocked, SignAccounts
  <2>4. CASE Sign!Unlocked /\ \E u \in Who, n \in Nat : OpIs(c, "rotate", u, n)
    BY <1>1, <2>4 DEF SignEnters, OpIs, SignLocked, Holds, Sign!Unlocked
  <2>5. QED
    BY <1>1, <2>1, <2>2, <2>3, <2>4 DEF SignEnters
<1>2. ASSUME NEW c \in SignCall, SignAuthorizes(c) PROVE SignLocked'
  BY <1>2 DEF SignAuthorizes, OpIs, SignLocked, Holds, Sign!Unlocked
<1>3. ASSUME NEW c \in SignCall, SignLeaves(c) \/ SignDevice(c) \/ SignIssues(c) \/ SignMints(c) PROVE SignLocked'
  BY <1>3 DEF SignLeaves, SignDevice, SignIssues, SignMints, OpEnds, SignLocked, Holds
<1>4. ASSUME NEW c \in SignCall, SignClaims(c) \/ SignRotates(c) PROVE SignLocked'
  BY <1>4 DEF SignClaims, SignRotates, OpIs, SignLocked, Holds
<1>5. CASE SignExchanges \/ SignFlows \/ SignConsents
  BY <1>5 DEF SignExchanges, SignFlows, SignConsents, SignLocked, Holds
<1>6. ASSUME Sign!Unlocked, UNCHANGED siOp PROVE SignLocked'
  BY <1>6 DEF SignLocked, Sign!Unlocked
<1>7. CASE SignSaves
  BY <1>6, <1>7 DEF SignSaves
<1>8. ASSUME NEW u \in Party, SignCommits(u) \/ SignUnlinks(u) \/ SignRole(u) \/ SignDeletes(u) PROVE SignLocked'
  BY <1>6, <1>8 DEF SignCommits, SignUnlinks, SignRole, SignDeletes
<1>9. ASSUME NEW u \in Party, SignPasswords(u) PROVE SignLocked'
  BY <1>9 DEF SignPasswords, SignLocked, Holds
<1>10. ASSUME NEW u \in Party, NEW m \in {"local", "oidc"}, SignRevokes(u, m) PROVE SignLocked'
  BY <1>10 DEF SignRevokes, SignLocked, Holds
<1>11. ASSUME NEW u \in Party, SignInvites(u) PROVE SignLocked'
  <2>1. siRole \in [Party -> {"admin", "user", "new", "gone"}]
    BY DEF SignTypes
  <2>2. \A v \in Party : (siRole[v] = "admin" => siRole'[v] = "admin") /\ (Holds(v) => Holds(v)')
    BY <1>11, <2>1 DEF SignInvites, Holds
  <2>3. UNCHANGED siOp /\ UNCHANGED siConf
    BY <1>11 DEF SignInvites
  <2>4. QED
    BY <2>2, <2>3 DEF SignLocked
<1>12. CASE SignHalts
  BY <1>12 DEF SignHalts, SignLocked
<1>13. QED
  BY <1>1, <1>2, <1>3, <1>4, <1>5, <1>7, <1>8, <1>9, <1>10, <1>11, <1>12 DEF SignStep

\* The effects keep local sign-ins to those who may have them, or were demoted since.
LEMMA SignEscapesKept == ASSUME SignTypes, SignAccounts, SignLocked, SignEscapes, SignStep PROVE SignEscapes'
<1> USE DEF People, Invited, Given
<1>1. ASSUME UNCHANGED <<siConf, siRole, siKept>>, \A u \in Party : Locally(u)' => Locally(u) PROVE SignEscapes'
  BY <1>1 DEF SignEscapes
<1>2. ASSUME NEW c \in SignCall, SignEnters(c) \/ SignAuthorizes(c) \/ SignLeaves(c) \/ SignClaims(c) \/ SignRotates(c) \/ SignMints(c)
      PROVE  SignEscapes'
  BY <1>1, <1>2 DEF SignEnters, SignAuthorizes, SignLeaves, SignClaims, SignRotates, SignMints, Locally
<1>3. CASE SignFlows \/ SignHalts
  BY <1>1, <1>3 DEF SignFlows, SignHalts, Locally
<1>4. ASSUME NEW c \in SignCall, SignDevice(c) PROVE SignEscapes'
  <2>1. ~siConf.sso \/ siRole[siOp[c].user] = "admin"
    BY <1>4 DEF SignDevice, SignLocked
  <2>2. \A u \in Party : Locally(u)' => Locally(u) \/ u = siOp[c].user
    BY <1>4 DEF SignDevice, Locally
  <2>3. UNCHANGED <<siConf, siRole, siKept>>
    BY <1>4 DEF SignDevice
  <2>4. QED
    BY <2>1, <2>2, <2>3 DEF SignEscapes
<1>5. ASSUME NEW c \in SignCall, SignIssues(c) PROVE SignEscapes'
  <2>1. ~siConf.sso \/ siRole[siOp[c].user] = "admin"
    BY <1>5 DEF SignIssues, SignLocked
  <2>2. \A u \in Party : Locally(u)' => Locally(u) \/ u = siOp[c].user
    BY <1>5 DEF SignIssues, Locally
  <2>3. UNCHANGED <<siConf, siRole, siKept>>
    BY <1>5 DEF SignIssues
  <2>4. QED
    BY <2>1, <2>2, <2>3 DEF SignEscapes
<1>6. CASE SignExchanges
  <2>1. \A u \in Party : Locally(u)' => Locally(u) \/ (u = siCode.user /\ siCode.method = "local")
    BY <1>6 DEF SignExchanges, Locally
  <2>2. UNCHANGED <<siConf, siRole, siKept>>
    BY <1>6 DEF SignExchanges
  <2>3. QED
    BY <2>1, <2>2, <1>1 DEF Locally
<1>7. CASE SignConsents
  BY <1>1, <1>7 DEF SignConsents, Locally
<1>8. CASE SignSaves
  <2>1. PICK sso \in BOOLEAN :
          LET out == IF sso THEN {u \in Party : siRole[u] # "admin"} ELSE {}
          IN /\ UNCHANGED siRole /\ siConf'.sso = sso /\ (~sso => siKept' = siKept)
             /\ siDevice' = siDevice \ (out \X {"local"})
             /\ Offs(siAgent.method = "local" /\ siAgent.user \in out)
             /\ IF siCode.method = "local" /\ siCode.user \in out THEN CodeGone ELSE UNCHANGED siCode
    BY <1>8 DEF SignSaves
  <2>2. SUFFICES ASSUME sso, NEW u \in Party, siRole[u] # "admin" PROVE ~Locally(u)'
    BY <2>1 DEF SignEscapes
  <2>3. u # NoParty
    BY PartyAssumption
  <2>4. <<u, "local">> \notin siDevice'
    BY <2>1, <2>2
  <2>5. ~(siAgent'.on /\ siAgent'.user = u /\ siAgent'.method = "local")
    BY <2>1, <2>2 DEF Offs
  <2>6. ~(siCode'.user = u /\ siCode'.method = "local")
    BY <2>1, <2>2, <2>3 DEF CodeGone
  <2>7. QED
    BY <2>4, <2>5, <2>6 DEF Locally
<1>9. \A v \in Party : siRole[v] = "new" => ~Locally(v)
  BY DEF SignAccounts, Locally, Holds
<1>10. ASSUME NEW u \in Party, SignCommits(u) PROVE SignEscapes'
  <2>1. siRole \in [Party -> {"admin", "user", "new", "gone"}]
    BY DEF SignTypes
  <2>2. \A v \in Party : siRole'[v] = siRole[v] \/ siRole[v] = "new"
    BY <1>10, <2>1 DEF SignCommits
  <2>3. \A v \in Party : Locally(v)' => Locally(v)
    BY <1>10 DEF SignCommits, Locally
  <2>4. UNCHANGED <<siConf, siKept>>
    BY <1>10 DEF SignCommits
  <2>5. QED
    BY <1>9, <2>2, <2>3, <2>4 DEF SignEscapes
<1>11. ASSUME NEW u \in Party, SignUnlinks(u) PROVE SignEscapes'
  <2>1. /\ siDevice' \subseteq siDevice /\ siAgent'.method = siAgent.method /\ siAgent'.user = siAgent.user
        /\ (siAgent'.on => siAgent.on) /\ UNCHANGED <<siConf, siRole, siKept>>
    BY <1>11 DEF SignUnlinks, Offs
  <2>2. siCode' = siCode \/ siCode'.method = "none"
    BY <1>11 DEF SignUnlinks, CodeGone
  <2>3. QED
    BY <1>1, <2>1, <2>2 DEF Locally
<1>12. ASSUME NEW u \in Party, SignRole(u) PROVE SignEscapes'
  <2>1. siRole \in [Party -> {"admin", "user", "new", "gone"}]
    BY DEF SignTypes
  <2>2. \A v \in Party : IF v = u THEN siRole'[v] = "admin" \/ siRole[v] = "admin" ELSE siRole'[v] = siRole[v]
    BY <1>12, <2>1 DEF SignRole, Holds
  <2>3. siConf.sso /\ siRole[u] = "admin" => u \in siKept'
    BY <1>12 DEF SignRole
  <2>4. siKept \subseteq siKept' /\ UNCHANGED siConf /\ UNCHANGED Given
    BY <1>12 DEF SignRole
  <2>5. \A v \in Party : Locally(v)' => Locally(v)
    BY <2>4 DEF Locally
  <2>6. QED
    BY <2>2, <2>3, <2>4, <2>5 DEF SignEscapes
<1>13. ASSUME NEW u \in Party, SignDeletes(u) PROVE SignEscapes'
  <2>1. siRole \in [Party -> {"admin", "user", "new", "gone"}]
    BY DEF SignTypes
  <2>2. \A v \in Party : v # u => siRole'[v] = siRole[v]
    BY <1>13, <2>1 DEF SignDeletes
  <2>3. u # NoParty
    BY PartyAssumption
  <2>4. \A v \in Party : Locally(v)' => Locally(v) /\ v # u
    <3>1. siDevice' = siDevice \ ({u} \X {"local", "oidc"})
      BY <1>13 DEF SignDeletes
    <3>2. siAgent'.on => siAgent' = siAgent /\ siAgent.user # u
      BY <1>13 DEF SignDeletes
    <3>3. siCode'.user = NoParty \/ (siCode' = siCode /\ siCode.user # u)
      BY <1>13 DEF SignDeletes, CodeGone
    <3>4. \A v \in Party : v # NoParty
      BY PartyAssumption
    <3>5. QED
      BY <3>1, <3>2, <3>3, <3>4 DEF Locally
  <2>5. UNCHANGED <<siConf, siKept>>
    BY <1>13 DEF SignDeletes
  <2>6. QED
    BY <2>2, <2>4, <2>5 DEF SignEscapes
<1>14. ASSUME NEW u \in Party, SignPasswords(u) PROVE SignEscapes'
  BY <1>1, <1>14 DEF SignPasswords, Locally
<1>15. ASSUME NEW u \in Party, SignInvites(u) PROVE SignEscapes'
  <2>1. siRole \in [Party -> {"admin", "user", "new", "gone"}]
    BY DEF SignTypes
  <2>2. \A v \in Party : siRole'[v] = siRole[v] \/ siRole[v] = "new"
    BY <1>15, <2>1 DEF SignInvites
  <2>3. (\A v \in Party : Locally(v)' => Locally(v)) /\ UNCHANGED <<siConf, siKept>>
    BY <1>15 DEF SignInvites, Locally
  <2>4. QED
    BY <1>9, <2>2, <2>3 DEF SignEscapes
<1>16. ASSUME NEW u \in Party, NEW m \in {"local", "oidc"}, SignRevokes(u, m) PROVE SignEscapes'
  BY <1>1, <1>16 DEF SignRevokes, Locally
<1>17. QED
  BY <1>2, <1>3, <1>4, <1>5, <1>6, <1>7, <1>8, <1>10, <1>11, <1>12, <1>13, <1>14, <1>15, <1>16 DEF SignStep

\* The effects use an invitation and a code once.
LEMMA SignSpentKept == ASSUME SignTypes, SignLocked, SignSpent, SignStep PROVE SignSpent'
<1> USE DEF People, Invited, Given, SignInside
<1>1. siSpent \subseteq Nat /\ siInvite.no \in Nat /\ \A c \in SignCall : siOp[c].no \in Nat
  BY DEF SignTypes, SignInvite, SignOp
<1>2. ASSUME UNCHANGED <<siSpent, siTwice>>, UNCHANGED siInvite,
             \A d \in SignCall : siOp'[d].pc = "device" /\ siOp'[d].no # 0 => siOp[d].pc = "device" /\ siOp'[d].no = siOp[d].no
      PROVE  SignSpent'
  BY <1>2 DEF SignSpent
<1>3. ASSUME NEW c \in SignCall, SignEnters(c) PROVE SignSpent'
  BY <1>2, <1>3 DEF SignEnters, OpIs
<1>4. ASSUME NEW c \in SignCall, SignAuthorizes(c) \/ SignRotates(c) PROVE SignSpent'
  BY <1>2, <1>4 DEF SignAuthorizes, SignRotates, OpIs
<1>5. ASSUME NEW c \in SignCall, SignLeaves(c) \/ SignIssues(c) \/ SignMints(c) PROVE SignSpent'
  BY <1>2, <1>5 DEF SignLeaves, SignIssues, SignMints, OpEnds
<1>6. ASSUME NEW c \in SignCall, SignClaims(c) PROVE SignSpent'
  <2>1. \A d \in SignCall : d # c => siOp'[d] = siOp[d] /\ siOp[d].pc # "device"
    BY <1>6 DEF SignClaims, OpIs, SignLocked
  <2>2. siOp'[c].no = siInvite.no /\ siInvite.no \notin siSpent /\ siInvite'.no = siInvite.no /\ siInvite'.st # "open"
    BY <1>6 DEF SignClaims, OpIs, SignSpent
  <2>3. UNCHANGED <<siSpent, siTwice>>
    BY <1>6 DEF SignClaims
  <2>4. \A d \in SignCall : siOp'[d].pc = "device" /\ siOp'[d].no # 0 => siOp'[d].no \notin siSpent /\ siOp'[d].no = siInvite.no
    BY <2>1, <2>2
  <2>5. siInvite.no <= siInvite.no
    BY <1>1
  <2>6. \A n \in siSpent : n <= siInvite'.no
    BY <2>2 DEF SignSpent
  <2>7. QED
    BY <2>2, <2>3, <2>4, <2>5, <2>6 DEF SignSpent
<1>7. ASSUME NEW c \in SignCall, SignDevice(c) PROVE SignSpent'
  <2>1. \A d \in SignCall : siOp'[d].pc # "device"
    BY <1>7 DEF SignDevice, OpEnds, SignLocked
  <2>2. siOp[c].no \notin siSpent /\ (siOp[c].no # 0 => siOp[c].no <= siInvite.no /\ (siOp[c].no = siInvite.no => siInvite.st # "open"))
    BY <1>7 DEF SignDevice, SignSpent
  <2>3. siTwice' = {} /\ siSpent' = siSpent \union ({siOp[c].no} \ {0}) /\ UNCHANGED siInvite
    BY <1>7, <2>2 DEF SignDevice, Uses, SignSpent
  <2>4. CASE siOp[c].no = 0
    <3>1. UNCHANGED siSpent
      BY <2>3, <2>4
    <3>2. QED
      BY <2>1, <2>3, <3>1 DEF SignSpent
  <2>5. CASE siOp[c].no # 0
    <3>1. siSpent' = siSpent \union {siOp[c].no}
      BY <2>3, <2>5
    <3>2. QED
      BY <2>1, <2>2, <2>3, <2>5, <3>1 DEF SignSpent
  <2>6. QED
    BY <2>4, <2>5
<1>8. CASE SignExchanges \/ SignFlows \/ SignConsents \/ SignSaves
  BY <1>2, <1>8 DEF SignExchanges, SignFlows, SignConsents, SignSaves
<1>9. CASE SignHalts
  BY <1>2, <1>9 DEF SignHalts
<1>10. ASSUME NEW u \in Party, SignUnlinks(u) \/ SignRole(u) \/ SignPasswords(u) PROVE SignSpent'
  BY <1>2, <1>10 DEF SignUnlinks, SignRole, SignPasswords
<1>11. ASSUME NEW u \in Party, NEW m \in {"local", "oidc"}, SignRevokes(u, m) PROVE SignSpent'
  BY <1>2, <1>11 DEF SignRevokes
<1>12. ASSUME NEW u \in Party, SignCommits(u) PROVE SignSpent'
  <2>1. \A d \in SignCall : siOp'[d].pc # "device"
    BY <1>12 DEF SignCommits, Sign!Unlocked
  <2>2. CASE UNCHANGED siInvite /\ Uses(0)
    <3>1. UNCHANGED <<siSpent, siTwice>>
      BY <2>2 DEF Uses, SignSpent
    <3>2. QED
      BY <2>1, <2>2, <3>1 DEF SignSpent
  <2>3. CASE siInvite.st = "open" /\ siInvite'.st = "redeemed" /\ siInvite'.no = siInvite.no /\ Uses(siInvite.no)
    <3>1. siTwice' = {} /\ siSpent' = siSpent \union ({siInvite.no} \ {0})
      BY <2>3 DEF Uses, SignSpent
    <3>2. QED
      BY <1>1, <2>1, <2>3, <3>1 DEF SignSpent
  <2>4. QED
    BY <1>12, <2>2, <2>3 DEF SignCommits
<1>13. ASSUME NEW u \in Party, SignDeletes(u) PROVE SignSpent'
  <2>1. \A d \in SignCall : siOp'[d].pc # "device"
    BY <1>13 DEF SignDeletes, Sign!Unlocked
  <2>2. UNCHANGED <<siSpent, siTwice>> /\ siInvite'.no = siInvite.no /\ (siInvite'.st = "open" => siInvite.st = "open")
    BY <1>13 DEF SignDeletes
  <2>3. QED
    BY <2>1, <2>2 DEF SignSpent
<1>14. ASSUME NEW u \in Party, SignInvites(u) PROVE SignSpent'
  <2>1. UNCHANGED <<siSpent, siTwice, siOp>> /\ siInvite'.no = siInvite.no + 1
    BY <1>14 DEF SignInvites
  <2>2. \A n \in siSpent : n <= siInvite'.no /\ n # siInvite'.no
    BY <1>1, <2>1 DEF SignSpent
  <2>3. \A c \in SignCall : siOp[c].pc = "device" /\ siOp[c].no # 0 => siOp[c].no <= siInvite'.no /\ siOp[c].no # siInvite'.no
    BY <1>1, <2>1 DEF SignSpent
  <2>4. QED
    BY <2>1, <2>2, <2>3 DEF SignSpent
<1>15. QED
  BY <1>3, <1>4, <1>5, <1>6, <1>7, <1>8, <1>9, <1>10, <1>11, <1>12, <1>13, <1>14 DEF SignStep

\* The effects keep one refresh token that works.
LEMMA SignTokensKept == ASSUME SignLocked, SignTokens, SignStep PROVE SignTokens'
<1> USE DEF People, Invited, Given, SignInside
<1>1. ASSUME siAgent'.live = siAgent.live, \A d \in SignCall : siOp'[d].pc = "mint" => siOp[d].pc = "mint" PROVE SignTokens'
  BY <1>1 DEF SignTokens
<1>2. ASSUME NEW c \in SignCall, SignEnters(c) \/ SignAuthorizes(c) \/ SignClaims(c) PROVE SignTokens'
  BY <1>1, <1>2 DEF SignEnters, SignAuthorizes, SignClaims, OpIs
<1>3. ASSUME NEW c \in SignCall, SignLeaves(c) \/ SignDevice(c) \/ SignIssues(c) PROVE SignTokens'
  BY <1>1, <1>3 DEF SignLeaves, SignDevice, SignIssues, OpEnds
<1>4. ASSUME NEW c \in SignCall, SignRotates(c) PROVE SignTokens'
  BY <1>4 DEF SignRotates, OpIs, SignTokens
<1>5. ASSUME NEW c \in SignCall, SignMints(c) PROVE SignTokens'
  <2>1. siAgent.live = {} /\ \A d \in SignCall : siOp'[d].pc # "mint"
    BY <1>5 DEF SignMints, OpEnds, SignLocked, SignTokens
  <2>2. QED
    BY <1>5, <2>1 DEF SignMints, SignTokens
<1>6. CASE SignExchanges
  BY <1>6 DEF SignExchanges, SignTokens, Sign!Unlocked
<1>7. CASE SignFlows \/ SignConsents \/ SignSaves
  BY <1>1, <1>7 DEF SignFlows, SignConsents, SignSaves, Offs
<1>8. CASE SignHalts
  BY <1>1, <1>8 DEF SignHalts
<1>9. ASSUME NEW u \in Party, SignCommits(u) \/ SignUnlinks(u) \/ SignRole(u) \/ SignPasswords(u) \/ SignInvites(u) PROVE SignTokens'
  BY <1>1, <1>9 DEF SignCommits, SignUnlinks, SignRole, SignPasswords, SignInvites, Offs
<1>10. ASSUME NEW u \in Party, SignDeletes(u) PROVE SignTokens'
  BY <1>10 DEF SignDeletes, SignTokens
<1>11. ASSUME NEW u \in Party, NEW m \in {"local", "oidc"}, SignRevokes(u, m) PROVE SignTokens'
  BY <1>11 DEF SignRevokes, SignTokens
<1>12. QED
  BY <1>2, <1>3, <1>4, <1>5, <1>6, <1>7, <1>8, <1>9, <1>10, <1>11 DEF SignStep

\* The effects keep an identity that was unlinked from being linked by an old sign-in.
LEMMA SignOldKept == ASSUME SignOld, SignStep PROVE SignOld'
<1> USE DEF People
<1>1. ASSUME NEW c \in SignCall, \/ SignEnters(c) \/ SignAuthorizes(c) \/ SignLeaves(c) \/ SignClaims(c)
                                 \/ SignDevice(c) \/ SignIssues(c) \/ SignRotates(c) \/ SignMints(c)
      PROVE  SignOld'
  BY <1>1 DEF SignEnters, SignAuthorizes, SignLeaves, SignClaims, SignDevice, SignIssues, SignRotates, SignMints, SignOld
<1>2. CASE SignExchanges \/ SignFlows \/ SignConsents \/ SignSaves \/ SignHalts
  <2>1. siRelinked' = siRelinked /\ (UNCHANGED siFlow \/ (siFlow'.old => ~siFlow'.fresh))
    BY <1>2 DEF SignExchanges, SignFlows, SignConsents, SignSaves, SignHalts
  <2>2. QED
    BY <2>1 DEF SignOld
<1>3. ASSUME NEW u \in Party, \/ SignCommits(u) \/ SignUnlinks(u) \/ SignRole(u) \/ SignDeletes(u)
                              \/ SignPasswords(u) \/ SignInvites(u)
      PROVE  SignOld'
  BY <1>3 DEF SignCommits, SignUnlinks, SignRole, SignDeletes, SignPasswords, SignInvites, SignOld
<1>4. ASSUME NEW u \in Party, NEW m \in {"local", "oidc"}, SignRevokes(u, m) PROVE SignOld'
  BY <1>4 DEF SignRevokes, SignOld
<1>5. QED
  BY <1>1, <1>2, <1>3, <1>4 DEF SignStep

\* The effects keep an administrator who can sign in.
LEMMA NeverLockedOutKept == ASSUME SignTypes, Sign!NeverLockedOut, SignStep PROVE Sign!NeverLockedOut'
<1> USE DEF People, Sign!NeverLockedOut, Sign!Admins
<1>0. siRole \in [Party -> {"admin", "user", "new", "gone"}]
  BY DEF SignTypes
<1>1. ASSUME NEW c \in SignCall, \/ SignEnters(c) \/ SignAuthorizes(c) \/ SignLeaves(c) \/ SignClaims(c)
                                 \/ SignDevice(c) \/ SignIssues(c) \/ SignRotates(c) \/ SignMints(c)
      PROVE  Sign!NeverLockedOut'
  BY <1>1 DEF SignEnters, SignAuthorizes, SignLeaves, SignClaims, SignDevice, SignIssues, SignRotates, SignMints
<1>2. CASE SignExchanges \/ SignFlows \/ SignConsents \/ SignHalts
  BY <1>2 DEF SignExchanges, SignFlows, SignConsents, SignHalts
<1>3. CASE SignSaves
  <2>1. /\ siConf'.sso => \E u \in siPw : siRole[u] = "admin"
        /\ UNCHANGED <<siPw, siRole>>
    BY <1>3 DEF SignSaves
  <2>2. siPw \subseteq Party
    BY DEF SignTypes
  <2>3. QED
    BY <2>1, <2>2
<1>4. ASSUME NEW u \in Party, SignCommits(u) \/ SignInvites(u) PROVE Sign!NeverLockedOut'
  <2>1. \A v \in Party : siRole[v] = "admin" => siRole'[v] = "admin"
    BY <1>0, <1>4 DEF SignCommits, SignInvites
  <2>2. UNCHANGED <<siConf, siPw>>
    BY <1>4 DEF SignCommits, SignInvites
  <2>3. QED
    BY <2>1, <2>2
<1>5. ASSUME NEW u \in Party, SignRole(u) \/ SignDeletes(u) PROVE Sign!NeverLockedOut'
  <2>1. \A v \in Party : v # u => siRole'[v] = siRole[v]
    BY <1>0, <1>5 DEF SignRole, SignDeletes
  <2>2. siRole[u] = "admin" /\ siConf.sso => \E a \in siPw \ {u} : siRole[a] = "admin"
    BY <1>5 DEF SignRole, SignDeletes
  <2>3. siConf.sso => \E a \in siPw \ {u} : a \in Party /\ siRole[a] = "admin"
    BY <2>2 DEF SignTypes
  <2>4. siPw \ {u} \subseteq siPw' /\ UNCHANGED siConf
    BY <1>5 DEF SignRole, SignDeletes
  <2>5. QED
    BY <2>1, <2>3, <2>4
<1>6. ASSUME NEW u \in Party, SignUnlinks(u) PROVE Sign!NeverLockedOut'
  BY <1>6 DEF SignUnlinks
<1>7. ASSUME NEW u \in Party, SignPasswords(u) PROVE Sign!NeverLockedOut'
  BY <1>7 DEF SignPasswords
<1>8. ASSUME NEW u \in Party, NEW m \in {"local", "oidc"}, SignRevokes(u, m) PROVE Sign!NeverLockedOut'
  BY <1>8 DEF SignRevokes
<1>9. QED
  BY <1>1, <1>2, <1>3, <1>4, <1>5, <1>6, <1>7, <1>8 DEF SignStep

\* The effects keep sessions of an identity to the account it is linked to.
LEMMA SessionsFollowKept == ASSUME SignTypes, Sign!SessionsFollowIdentity, SignStep PROVE Sign!SessionsFollowIdentity'
<1> USE DEF People, Given, Sign!SessionsFollowIdentity
<1>1. ASSUME NEW c \in SignCall, \/ SignEnters(c) \/ SignAuthorizes(c) \/ SignLeaves(c) \/ SignClaims(c)
                                 \/ SignDevice(c) \/ SignIssues(c) \/ SignRotates(c) \/ SignMints(c)
      PROVE  Sign!SessionsFollowIdentity'
  BY <1>1 DEF SignEnters, SignAuthorizes, SignLeaves, SignClaims, SignDevice, SignIssues, SignRotates, SignMints
<1>2. CASE SignFlows \/ SignConsents \/ SignHalts
  BY <1>2 DEF SignFlows, SignConsents, SignHalts
<1>3. CASE SignExchanges
  BY <1>3 DEF SignExchanges
<1>4. CASE SignSaves
  <2>1. /\ siDevice' \subseteq siDevice /\ siAgent'.method = siAgent.method /\ siAgent'.user = siAgent.user
        /\ (siAgent'.on => siAgent.on) /\ UNCHANGED siIdentity
    BY <1>4 DEF SignSaves, Offs
  <2>2. QED
    BY <2>1
<1>5. ASSUME NEW u \in Party, SignUnlinks(u) PROVE Sign!SessionsFollowIdentity'
  <2>1. siIdentity = u /\ siDevice' = siDevice \ {<<u, "oidc">>}
    BY <1>5 DEF SignUnlinks
  <2>2. \A v \in Party : siAgent'.on /\ siAgent'.user = v /\ siAgent'.method = "oidc" =>
          v # u /\ siAgent.on /\ siAgent.user = v /\ siAgent.method = "oidc"
    BY <1>5 DEF SignUnlinks, Offs
  <2>3. QED
    BY <2>1, <2>2
<1>6. ASSUME NEW u \in Party, SignCommits(u) PROVE Sign!SessionsFollowIdentity'
  <2>1. siDevice' \subseteq siDevice \union {<<u, "oidc">>} /\ siIdentity \in {NoParty, u} /\ siIdentity' = u /\ UNCHANGED siAgent
    BY <1>6 DEF SignCommits
  <2>2. \A v \in Party : v # NoParty
    BY PartyAssumption
  <2>3. QED
    BY <2>1, <2>2
<1>7. ASSUME NEW u \in Party, SignDeletes(u) PROVE Sign!SessionsFollowIdentity'
  <2>1. siDevice' = siDevice \ ({u} \X {"local", "oidc"})
    BY <1>7 DEF SignDeletes
  <2>2. siAgent'.on => siAgent' = siAgent /\ siAgent.user # u
    BY <1>7 DEF SignDeletes
  <2>3. \A v \in Party : siIdentity' # v => siIdentity # v \/ v = u
    BY <1>7 DEF SignDeletes
  <2>4. QED
    BY <2>1, <2>2, <2>3
<1>8. ASSUME NEW u \in Party, SignRole(u) \/ SignPasswords(u) \/ SignInvites(u) PROVE Sign!SessionsFollowIdentity'
  BY <1>8 DEF SignRole, SignPasswords, SignInvites
<1>9. ASSUME NEW u \in Party, NEW m \in {"local", "oidc"}, SignRevokes(u, m) PROVE Sign!SessionsFollowIdentity'
  BY <1>9 DEF SignRevokes
<1>10. QED
  BY <1>1, <1>2, <1>3, <1>4, <1>5, <1>6, <1>7, <1>8, <1>9 DEF SignStep

\* Signing in starts within its invariant.
LEMMA SignInit == ASSUME Sign!Init PROVE SignInv
<1> USE SignNothing
<1>1. /\ siRole \in [Party -> {"admin", "user", "new"}] /\ siPw \in SUBSET {u \in Party : siRole[u] # "new"}
      /\ siDevice = {u \in siPw : siRole[u] = "admin"} \X {"local"}
      /\ siConf = [on |-> TRUE, sso |-> FALSE, print |-> 1] /\ siIdentity = NoParty
      /\ siInvite = [no |-> 0, user |-> NoParty, by |-> NoParty, st |-> "none"]
      /\ siAgent = [user |-> NoParty, method |-> "none", on |-> FALSE, live |-> {}, next |-> 1]
      /\ siCode = [user |-> NoParty, method |-> "none"] /\ siFlow = Sign!NoFlow /\ siOp = [c \in SignCall |-> Sign!Idle]
      /\ siKept = {} /\ siSpent = {} /\ siTwice = {} /\ siRelinked = FALSE
  BY DEF Sign!Init, Sign!NoInvite, Sign!NoAgent, Sign!NoCode
<1>2. /\ siFlow \in SignFlow /\ siFlow.pc = "none" /\ siFlow.old = FALSE
      /\ siOp \in [SignCall -> SignOp] /\ \A c \in SignCall : siOp[c].pc = "idle"
  BY <1>1
<1>3. SignTypes
  <2>1. siConf \in SignConf /\ siInvite \in SignInvite /\ siCode \in SignCode
    BY <1>1 DEF SignConf, SignInvite, SignCode, Who, How
  <2>2. siAgent \in SignAgent
    BY <1>1 DEF SignAgent, Who, How
  <2>3. siRole \in [Party -> {"admin", "user", "new", "gone"}] /\ siPw \subseteq Party /\ siIdentity \in Who
    BY <1>1 DEF Who
  <2>4. siDevice \subseteq Party \X {"local", "oidc"}
    BY <1>1
  <2>5. QED
    BY <1>1, <1>2, <2>1, <2>2, <2>3, <2>4 DEF SignTypes
<1>4. SignAccounts
  <2>1. \A u \in Party, m \in {"local", "oidc"} : <<u, m>> \in siDevice => Holds(u)
    BY <1>1 DEF Holds
  <2>2. QED
    BY <1>1, <1>2, <2>1 DEF SignAccounts
<1>5. SignLocked /\ SignEscapes /\ SignOld
  BY <1>1, <1>2 DEF SignLocked, SignInside, SignEscapes, SignOld
<1>6. SignSpent /\ SignTokens
  BY <1>1, <1>2 DEF SignSpent, SignTokens
<1>7. Sign!NeverLockedOut /\ Sign!SessionsFollowIdentity
  BY <1>1 DEF Sign!NeverLockedOut, Sign!SessionsFollowIdentity
<1>8. QED
  BY <1>3, <1>4, <1>5, <1>6, <1>7 DEF SignInv

\* Every behaviour of the services is one of signing in.
LEMMA SignSpec == Spec => Sign!Spec
<1>1. Init => Sign!Init
  BY DEF Init
<1>2. [Next]_vars => [Sign!Next]_(Sign!vars)
  BY DEF Next, Only, vars, tagVars, tvVars, followVars, grokVars, discordVars, profileVars, mediaVars,
         signVars, Sign!vars
<1>3. QED
  BY <1>1, <1>2, PTL DEF Spec, Sign!Spec

\* The inductive invariant of signing in, by one case per effect.
LEMMA SignInvHolds == Spec => []SignInv
<1>1. SignInv /\ [Sign!Next]_(Sign!vars) => SignInv'
  <2>1. ASSUME SignInv, Sign!Next PROVE SignInv'
    <3>1. SignStep
      BY <2>1, SignSteps DEF SignInv
    <3>2. SignTypes' /\ SignAccounts' /\ SignLocked' /\ SignEscapes'
      BY <2>1, <3>1, SignTypesKept, SignAccountsKept, SignLockedKept, SignEscapesKept DEF SignInv
    <3>3. SignSpent' /\ SignTokens' /\ SignOld' /\ Sign!NeverLockedOut' /\ Sign!SessionsFollowIdentity'
      BY <2>1, <3>1, SignSpentKept, SignTokensKept, SignOldKept, NeverLockedOutKept, SessionsFollowKept DEF SignInv
    <3>4. QED
      BY <3>2, <3>3 DEF SignInv
  <2>2. ASSUME SignInv, UNCHANGED Sign!vars PROVE SignInv'
    BY <2>2 DEF SignInv, Sign!vars, SignTypes, SignAccounts, SignLocked, SignInside, SignEscapes, Locally, Holds,
                SignSpent, SignTokens, SignOld, Sign!NeverLockedOut, Sign!Admins, Sign!SessionsFollowIdentity
  <2>3. QED
    BY <2>1, <2>2
<1>2. QED
  BY <1>1, SignInit, SignSpec, PTL DEF Sign!Spec

\* An administrator can always get back in, requiring single sign-on leaves no
\* local way in to a regular user, a sign-in from before an unlink does not link
\* again, sessions end with the identity they came by, and an invitation or a
\* refresh token works once.
THEOREM SignInsAreSoundHolds == Spec => []SignInsAreSound
<1>1. ASSUME SignInv PROVE Sign!NoEscape
  BY <1>1 DEF SignInv, SignEscapes, Locally, Sign!NoEscape
<1>2. SignInv => Sign!UnlinkIsFinal /\ Sign!SpentOnce
  BY DEF SignInv, SignOld, SignSpent, SignTokens, Sign!UnlinkIsFinal, Sign!SpentOnce
<1>3. SignInv => SignInsAreSound
  BY <1>1, <1>2 DEF SignInv, SignInsAreSound
<1>4. QED
  BY <1>3, SignInvHolds, PTL

\* The invariant holds the module's type invariant.
LEMMA SignTypeOK == ASSUME SignInv PROVE Sign!TypeOK
<1>1. ASSUME NEW d \in siDevice PROVE Sign!Account(d[1])
  <2>1. PICK u \in Party, m \in {"local", "oidc"} : d = <<u, m>>
    BY DEF SignInv, SignTypes
  <2>2. QED
    BY <2>1 DEF SignInv, SignAccounts, Holds, Sign!Account
<1>2. \A c \in SignCall : siOp[c].pc \in {"idle", "form", "issue", "device", "claim", "rotate", "mint"}
  BY DEF SignInv, SignTypes, SignOp
<1>3. \A v : Holds(v) => v # NoParty /\ Sign!Account(v)
  BY PartyAssumption DEF Holds, Sign!Account
<1>4. QED
  BY <1>1, <1>2, <1>3 DEF SignInv, SignTypes, SignAccounts, Sign!TypeOK, Sign!Methods
===============================================================================
