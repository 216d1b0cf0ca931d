--------------------------- MODULE ProfileChanges ---------------------------
(***************************************************************************)
(* Changes of one quality profile that an external agent proposes and an   *)
(* administrator approves, and their restoring (server/internal/mcp).      *)
(*                                                                         *)
(* A value stands for a complete profile: equal values have equal hashes.  *)
(***************************************************************************)
EXTENDS Naturals

CONSTANTS
  Actor, NoActor,  \* administrators' requests in progress
  Value,           \* values of the profile
  MaxProposal,     \* bound on proposals
  MaxChange,       \* bound on records of writes
  MaxFault         \* bound on lost replies, failed statements and restarts

VARIABLES
  profile,   \* the arr: its quality profile
  proposal,  \* profile_change_proposals
  change,    \* external_setting_changes
  lock,      \* lockArrSettingsMutation of the instance
  actor,     \* each request: next step, what it decides, its record, the outcome
  written,   \* history: writes sent for each proposal
  restored,  \* history: writes sent to restore each change that may have landed
  landed,    \* history: records whose write landed
  fault

vars == <<profile, proposal, change, lock, actor, written, restored, landed, fault>>

Proposal == 1 .. MaxProposal
Change == 1 .. MaxChange
NoProposal == [st |-> "none", old |-> FALSE, before |-> 0, after |-> 0]
NoChange == [st |-> "none", before |-> 0, after |-> 0, parent |-> 0]
Idle == [pc |-> "idle", kind |-> "none", of |-> 0, rec |-> 0, end |-> "none"]
Blocking == {"executing", "applied", "unknown"}

Init ==
  /\ profile = 1 /\ proposal = [p \in Proposal |-> NoProposal]
  /\ change = [c \in Change |-> NoChange] /\ lock = NoActor /\ actor = [a \in Actor |-> Idle]
  /\ written = [p \in Proposal |-> 0] /\ restored = [c \in Change |-> 0] /\ landed = {} /\ fault = 0

TypeOK ==
  /\ profile \in Value /\ lock \in Actor \union {NoActor}
  /\ \A p \in Proposal : proposal[p].st \in {"none", "pending", "executing", "applied", "failed",
                                            "superseded", "rejected", "expired"}
  /\ \A c \in Change : change[c].st \in Blocking \union {"none", "failed"} /\ change[c].parent \in 0 .. c - 1
  /\ \A a \in Actor : /\ actor[a].pc \in {"idle", "claim", "check", "guard", "write", "verify", "record", "decide"}
                      /\ actor[a].pc \in {"idle", "claim"} <=> lock # a

At(a, pc) == actor[a].pc = pc
Approves(a) == actor[a].kind = "approve"
Fails == fault < MaxFault /\ fault' = fault + 1
history == <<written, restored, landed>>

(* What a decision expects to find, and what it writes.                    *)
Before(a) == IF Approves(a) THEN proposal[actor[a].of].before ELSE change[actor[a].of].after
After(a) == IF Approves(a) THEN proposal[actor[a].of].after ELSE change[actor[a].of].before

Free(S) == {n \in DOMAIN S : S[n].st = "none" /\ \A k \in DOMAIN S : k < n => S[k].st # "none"}

---------------------------------------------------------------------------
(* Proposals.                                                              *)

(* sweep: an approval that was interrupted ages out; 15 minutes are more   *)
(* than one that is alive takes.                                           *)
SweptAgain == [p \in Proposal |-> IF proposal[p].st = "executing" THEN [proposal[p] EXCEPT !.st = "pending"] ELSE proposal[p]]
Swept ==
  [p \in Proposal |->
     IF proposal[p].st = "pending" /\ proposal[p].old THEN [proposal[p] EXCEPT !.st = "expired"]
     ELSE IF proposal[p].st = "executing" /\ \A a \in Actor : ~(Approves(a) /\ actor[a].of = p)
          THEN [proposal[p] EXCEPT !.st = "failed"] ELSE proposal[p]]
Sweep ==
  /\ Swept # proposal /\ proposal' = Swept
  /\ UNCHANGED <<profile, change, lock, actor, fault>> /\ UNCHANGED history

(* park, under the instance's lock, for the profile just read.             *)
ParkUnlocked == TRUE
ParkLocked == lock = NoActor
Park ==
  /\ ParkLocked
  /\ \E p \in Free(proposal), v \in Value \ {profile} :
       proposal' = [q \in Proposal |->
         IF q = p THEN [st |-> "pending", old |-> FALSE, before |-> profile, after |-> v]
         ELSE IF Swept[q].st = "pending" THEN [Swept[q] EXCEPT !.st = "superseded"] ELSE Swept[q]]
  /\ UNCHANGED <<profile, change, lock, actor, fault>> /\ UNCHANGED history

Reject(p) ==
  /\ proposal[p].st = "pending" /\ proposal' = [proposal EXCEPT ![p].st = "rejected"]
  /\ UNCHANGED <<profile, change, lock, actor, fault>> /\ UNCHANGED history

Age(p) ==
  /\ proposal[p].st = "pending" /\ ~proposal[p].old /\ proposal' = [proposal EXCEPT ![p].old = TRUE]
  /\ UNCHANGED <<profile, change, lock, actor, fault>> /\ UNCHANGED history

---------------------------------------------------------------------------
(* approveProfileProposal and revertSettingChange.                         *)

(* Both read their row before they wait for the lock.                      *)
Decide(a) ==
  /\ At(a, "idle")
  /\ \/ \E p \in Proposal : /\ proposal[p].st = "pending"
                            /\ actor' = [actor EXCEPT ![a] = [Idle EXCEPT !.pc = "claim", !.kind = "approve", !.of = p]]
     \/ \E c \in Change : /\ change[c].st = "applied" /\ change[c].parent = 0
                          /\ actor' = [actor EXCEPT ![a] = [Idle EXCEPT !.pc = "claim", !.kind = "restore", !.of = c]]
  /\ UNCHANGED <<profile, proposal, change, lock, fault>> /\ UNCHANGED history

RestorableAlone(c) == \A d \in Change : change[d].parent = c => change[d].st # "applied"
Restorable(c) == \A d \in Change : change[d].parent = c => change[d].st \notin Blocking
Claimable(p) == proposal[p].st = "pending" /\ ~proposal[p].old

Claim(a) ==
  /\ At(a, "claim") /\ lock = NoActor
  /\ LET n == actor[a].of IN
     IF (IF Approves(a) THEN Claimable(n) ELSE Restorable(n))
     THEN /\ lock' = a /\ actor' = [actor EXCEPT ![a].pc = "check"]
          /\ proposal' = IF Approves(a) THEN [proposal EXCEPT ![n].st = "executing"] ELSE proposal
     ELSE actor' = [actor EXCEPT ![a] = Idle] /\ UNCHANGED <<lock, proposal>>
  /\ UNCHANGED <<profile, change, fault>> /\ UNCHANGED history

(* An approval ends as st, or its row cannot be updated; a restoring has   *)
(* no row of its own.                                                      *)
End(a, st) ==
  /\ actor' = [actor EXCEPT ![a] = Idle] /\ lock' = NoActor
  /\ \/ /\ proposal' = IF Approves(a) /\ proposal[actor[a].of].st = "executing"
                       THEN [proposal EXCEPT ![actor[a].of].st = st] ELSE proposal
        /\ UNCHANGED fault
     \/ Approves(a) /\ Fails /\ UNCHANGED proposal

(* What cannot be read or is not allowed now leaves the proposal pending.  *)
Release(a) ==
  /\ actor[a].pc \in {"check", "guard"} /\ End(a, "pending")
  /\ UNCHANGED <<profile, change>> /\ UNCHANGED history

(* A profile that drifted is refused, at the first look or the second.     *)
Drifted(a) ==
  /\ actor[a].pc \in {"check", "guard"} /\ profile # Before(a) /\ End(a, "failed")
  /\ UNCHANGED <<profile, change>> /\ UNCHANGED history

Check(a) ==
  /\ At(a, "check") /\ profile = Before(a) /\ actor' = [actor EXCEPT ![a].pc = "guard"]
  /\ UNCHANGED <<profile, proposal, change, lock, fault>> /\ UNCHANGED history

(* beforeWrite: the write is on record before it is sent.                  *)
Guard(a) ==
  /\ At(a, "guard") /\ profile = Before(a)
  /\ ~Approves(a) => Restorable(actor[a].of)
  /\ \E c \in Free(change) :
       /\ change' = [change EXCEPT ![c] = [st |-> "executing", before |-> profile, after |-> After(a),
                                          parent |-> IF Approves(a) THEN 0 ELSE actor[a].of]]
       /\ actor' = [actor EXCEPT ![a].pc = "write", ![a].rec = c]
  /\ UNCHANGED <<profile, proposal, lock, fault>> /\ UNCHANGED history

(* The PUT: accepted, refused, or unanswered.                              *)
Write(a) ==
  /\ At(a, "write")
  /\ written' = IF Approves(a) THEN [written EXCEPT ![actor[a].of] = @ + 1] ELSE written
  /\ \E land \in BOOLEAN, reply \in {"accepted", "refused", "none"} :
       /\ reply = "accepted" => land
       /\ reply = "refused" => ~land
       /\ IF reply = "none" THEN Fails ELSE UNCHANGED fault
       /\ profile' = IF land THEN After(a) ELSE profile
       /\ landed' = IF land THEN landed \union {actor[a].rec} ELSE landed
       /\ restored' = IF land /\ ~Approves(a) THEN [restored EXCEPT ![actor[a].of] = @ + 1] ELSE restored
       /\ actor' = [actor EXCEPT ![a].pc = IF reply = "accepted" THEN "verify" ELSE "record",
                                  ![a].end = IF reply = "refused" THEN "failed" ELSE "unknown"]
  /\ UNCHANGED <<proposal, change, lock>>

Verify(a) ==
  /\ At(a, "verify")
  /\ \/ actor' = [actor EXCEPT ![a].pc = "record", ![a].end = IF profile = After(a) THEN "applied" ELSE "unknown"]
        /\ UNCHANGED fault
     \/ Fails /\ actor' = [actor EXCEPT ![a].pc = "record"]
  /\ UNCHANGED <<profile, proposal, change, lock>> /\ UNCHANGED history

(* The record is finished, if it can be, and then the proposal.            *)
UnansweredFailed(end) == IF end = "applied" THEN end ELSE "failed"
Outcome(end) == end
Record(a) ==
  /\ At(a, "record")
  /\ \/ /\ change' = [change EXCEPT ![actor[a].rec].st = Outcome(actor[a].end)]
        /\ actor' = [actor EXCEPT ![a].pc = "decide"] /\ UNCHANGED fault
     \/ Fails /\ actor' = [actor EXCEPT ![a].pc = "decide", ![a].end = "failed"] /\ UNCHANGED change
  /\ UNCHANGED <<profile, proposal, lock>> /\ UNCHANGED history

Finish(a) ==
  /\ At(a, "decide") /\ End(a, IF actor[a].end = "applied" THEN "applied" ELSE "failed")
  /\ UNCHANGED <<profile, change>> /\ UNCHANGED history

---------------------------------------------------------------------------
(* The profile is edited by hand.                                          *)
Edit ==
  /\ Fails /\ profile' \in Value \ {profile}
  /\ UNCHANGED <<proposal, change, lock, actor>> /\ UNCHANGED history

(* A restart, with its repair of interrupted records.                      *)
Crash ==
  /\ Fails /\ lock' = NoActor /\ actor' = [a \in Actor |-> Idle]
  /\ change' = [c \in Change |-> IF change[c].st = "executing" THEN [change[c] EXCEPT !.st = "unknown"] ELSE change[c]]
  /\ UNCHANGED <<profile, proposal>> /\ UNCHANGED history

Next ==
  \/ Sweep \/ Park \/ Edit \/ Crash
  \/ \E p \in Proposal : Reject(p) \/ Age(p)
  \/ \E a \in Actor : \/ Decide(a) \/ Claim(a) \/ Release(a) \/ Drifted(a) \/ Check(a)
                      \/ Guard(a) \/ Write(a) \/ Verify(a) \/ Record(a) \/ Finish(a)

Spec == Init /\ [][Next]_vars

(* A proposal's write is sent once, and a restored change stays restored,  *)
(* also when nobody knows whether the write arrived                        *)
(* (approveProfileProposal, "would risk repeating a write").               *)
WrittenOnce == \A p \in Proposal : written[p] <= 1
RestoredOnce == \A c \in Change : restored[c] <= 1

(* History never calls a write failed that reached the profile.            *)
LandedIsKnown == \A c \in landed : change[c].st \in Blocking

(* A profile has one proposal to decide, whatever is released while        *)
(* another one is parked (the index one_pending).                          *)
OnePending ==
  \A p, q \in Proposal : proposal[p].st = "pending" /\ proposal[q].st = "pending" => p = q
=============================================================================
