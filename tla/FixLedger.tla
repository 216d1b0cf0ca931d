----------------------------- MODULE FixLedger -----------------------------
(***************************************************************************)
(* What approving a fix promises, whatever runs, workers, sweeps and       *)
(* restarts do around it: a proposal is decided at most once, the arr is   *)
(* changed at most once and only under a decision to execute, and an       *)
(* outcome once recorded is never turned into another.                     *)
(***************************************************************************)
EXTENDS Naturals

CONSTANT Action

VARIABLES
  fix,   \* where each fix stands
  sent   \* how often the arr was changed for it

vars == <<fix, sent>>

Init == fix = [a \in Action |-> "none"] /\ sent = [a \in Action |-> 0]

(* A run proposes.                                                         *)
Propose(a) ==
  /\ fix[a] = "none" /\ fix' = [fix EXCEPT ![a] = "proposed"]
  /\ sent' = sent

(* A decision to execute or to deny.                                       *)
Decide(a) ==
  /\ fix[a] = "proposed"
  /\ \E to \in {"executing", "denied"} : fix' = [fix EXCEPT ![a] = to]
  /\ sent' = sent

(* The arr is changed, once.                                               *)
Send(a) ==
  /\ fix[a] = "executing" /\ sent[a] = 0
  /\ sent' = [sent EXCEPT ![a] = 1]
  /\ fix' = fix

(* The outcome: executed only if it was sent, failed only if it was not.   *)
Record(a) ==
  /\ fix[a] = "executing"
  /\ \/ sent[a] = 1 /\ fix' = [fix EXCEPT ![a] = "executed"]
     \/ sent[a] = 0 /\ fix' = [fix EXCEPT ![a] = "failed"]
     \/ sent[a] = 0 /\ fix' = [fix EXCEPT ![a] = "superseded"]
     \/ fix' = [fix EXCEPT ![a] = "unknown"]
  /\ sent' = sent

(* Undecided proposals are withdrawn, interrupted executions become        *)
(* unverified, several at a time.                                          *)
Withdraw ==
  /\ fix' \in [Action -> {"none", "proposed", "executing", "executed", "failed", "denied",
                          "superseded", "unknown", "interrupted"}]
  /\ \A a \in Action : \/ fix'[a] = fix[a]
                       \/ fix[a] = "proposed" /\ fix'[a] = "superseded"
                       \/ fix[a] = "executing" /\ fix'[a] = "interrupted"
                       \/ fix[a] = "interrupted" /\ fix'[a] = "unknown"
  /\ sent' = sent

Next == Withdraw \/ \E a \in Action : Propose(a) \/ Decide(a) \/ Send(a) \/ Record(a)

Spec == Init /\ [][Next]_vars
=============================================================================
