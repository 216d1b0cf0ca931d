---------------------------- MODULE Remediation ----------------------------
(***************************************************************************)
(* Agent remediation: an issue is observed, promoted, investigated by an   *)
(* agent run, parked on a human gate, decided, executed against the arr    *)
(* and resumed (server/internal/remediation).                              *)
(*                                                                         *)
(* Durable state is the SQLite rows of issues, agent_runs, agent_actions   *)
(* and agent_approval_rules: every action below is one transaction, or one *)
(* read whose answer a later transaction uses.  Volatile state (the job    *)
(* queue, the workers, the requests deciding an action, the recovery pass) *)
(* is lost in a crash.                                                     *)
(***************************************************************************)
EXTENDS Naturals, Sequences, FiniteSets, SequencesExt

CONSTANTS
  Issue, NoIssue,   \* issue rows, and a value that is none of them
  Reported,         \* issues a user reported; the others are automatic
  Worker,           \* goroutines draining the job queue
  Decider,          \* requests or sweeps deciding a proposal
  MaxRun,           \* runs the daily cap admits
  MaxAction,        \* bound on proposals ever recorded
  MaxMsg,           \* bound on human replies per issue
  MaxSteps,         \* Settings.MaxSteps, the tool calls of one run
  QueueCap,         \* jobQueueSize
  MaxCrash,         \* bound on process losses
  MaxFault          \* bound on failed reads, writes and provider calls

ASSUME RemediationAssumption ==
  /\ NoIssue \notin Issue /\ Reported \subseteq Issue /\ IsFiniteSet(Issue)
  /\ \A n \in {MaxRun, MaxAction, MaxMsg, MaxSteps, QueueCap, MaxCrash, MaxFault} : n \in Nat
  /\ MaxRun > 0 /\ MaxAction > 0 /\ QueueCap > 0

NoRun == 0
NoAct == 0
Run == 1 .. MaxRun        \* agent_runs.id, handed out in order
Action == 1 .. MaxAction  \* agent_actions.id, handed out in order

VARIABLES
  issue,    \* issues: status, active_run_id, reopened_at, human messages
  run,      \* agent_runs: issue, status, proc_generation, thread cursor, steps
  act,      \* agent_actions: run, status, whether a rule approved it
  rule,     \* the standing approval rule matching every proposal
  effect,   \* history: mutations each action made the arr perform
  jobs,     \* the job channel
  worker,   \* what each worker goroutine is doing
  decider,  \* what each decision in progress is doing
  todo,     \* decisions the recovery pass in progress has still to hand over
  gen,      \* procToken of this process
  fault     \* failures so far

db == <<issue, run, act, rule>>
vars == <<issue, run, act, rule, effect, jobs, worker, decider, todo, gen, fault>>

IssueStatus == {"tracking", "open", "investigating", "awaiting_approval",
                "awaiting_user", "needs_admin", "closed"}
Workable == {"open", "investigating"}
Parked == {"waiting_user", "waiting_approval"}
Live == Parked \union {"running", "resume_pending"}
RunStatus == Live \union {"none", "ended", "restarted"}
ActionStatus == {"none", "proposed", "executing", "executed", "failed", "denied",
                 "superseded", "unknown", "interrupted"}

IdleWorker == [pc |-> "idle", issue |-> NoIssue, run |-> NoRun, gate |-> "none"]
IdleDecider == [pc |-> "idle", act |-> NoAct, auto |-> FALSE, out |-> "none"]

(* A user report starts open or, matched to a live download, tracked; an   *)
(* automatic incident starts tracked.                                      *)
Init ==
  /\ issue \in [Issue -> [st : {"tracking", "open"}, claim : {NoRun}, reopened : {FALSE}, msgs : {0}]]
  /\ \A i \in Issue \ Reported : issue[i].st = "tracking"
  /\ run = [r \in Run |-> [issue |-> NoIssue, st |-> "none", gen |-> 0, seen |-> 0, steps |-> 0]]
  /\ act = [a \in Action |-> [run |-> NoRun, st |-> "none", auto |-> FALSE]]
  /\ rule \in {"active", "paused"}
  /\ effect = [a \in Action |-> 0]
  /\ jobs = <<>>
  /\ worker = [w \in Worker |-> IdleWorker]
  /\ decider = [d \in Decider |-> IdleDecider]
  /\ todo = {}
  /\ gen = 0
  /\ fault = 0

-----------------------------------------------------------------------------
(* What the queries of several transactions ask.                           *)

IssueOf(a) == run[act[a].run].issue
ActsOf(i) == {a \in Action : act[a].st # "none" /\ IssueOf(a) = i}
HasAct(i, S) == \E a \in ActsOf(i) : act[a].st \in S
Unverified == {"unknown", "interrupted"}  \* outcome_unknown, with and without executed_at
Hazard(i) == HasAct(i, {"executing"} \union Unverified)
Applied(i) == HasAct(i, {"executed", "unknown"})
AutoExecuted(i) == \E a \in ActsOf(i) : act[a].auto /\ act[a].st = "executed"
Unseen(i, r) == run[r].seen < issue[i].msgs
ClaimableByStatus(i) == issue[i].st \in Workable
Claimable(i) == issue[i].st \in Workable /\ issue[i].claim = NoRun
Staged(i) == {r \in Run : run[r].issue = i /\ run[r].st = "resume_pending"}
Owns(i, r) == issue[i].st = "investigating" /\ issue[i].claim = r /\ run[r].st = "running"
GateActive(a) == issue[IssueOf(a)].st = "awaiting_approval"
                 /\ run[act[a].run].st = "waiting_approval"
FreeRun == {r \in Run : run[r].st = "none"}
FreeAction == {a \in Action : act[a].st = "none"}
Newest(S) == CHOOSE r \in S : \A q \in S : q <= r
Oldest(S) == CHOOSE r \in S : \A q \in S : r <= q

(* The UPDATE statements they share.  What a run had read is forgotten     *)
(* when it ends.                                                           *)

Superseded(S) == [a \in Action |-> IF a \in S /\ act[a].st = "proposed"
                                   THEN [act[a] EXCEPT !.st = "superseded"] ELSE act[a]]
Final(r, st) == [issue |-> run[r].issue, st |-> st, gen |-> 0, seen |-> 0, steps |-> 0]
EndedButHandoffs(i, from) ==
  [r \in Run |-> IF run[r].issue = i /\ run[r].st \in from \ {"resume_pending"}
                 THEN Final(r, "ended") ELSE run[r]]
Ended(i, from) == [r \in Run |-> IF run[r].issue = i /\ run[r].st \in from
                                 THEN Final(r, "ended") ELSE run[r]]
Released(i, st) == [issue EXCEPT ![i].st = st, ![i].claim = NoRun]
Escalated(i) == IF issue[i].st = "closed" THEN issue ELSE Released(i, "needs_admin")
Disarmed(cond) == IF cond THEN "paused" ELSE rule
EnqueuedUnbounded(more) == jobs \o more
Enqueued(more) == SubSeq(jobs \o more, 1, IF Len(jobs \o more) < QueueCap
                                          THEN Len(jobs \o more) ELSE QueueCap)
Fresh(i) == [issue |-> i, resume |-> FALSE]
Resume(i) == [issue |-> i, resume |-> TRUE]
Fault == fault < MaxFault /\ fault' = fault + 1

-----------------------------------------------------------------------------
(* Transactions that move a whole issue.  Each refuses by its guard.       *)

(* suspendIssueForRecovery: the arr took the download back.  A staged      *)
(* handoff survives.                                                       *)
CanSuspend(i) == ~Hazard(i) /\ issue[i].st \notin {"needs_admin", "closed"}
Suspend(i) ==
  /\ CanSuspend(i)
  /\ act' = Superseded(ActsOf(i))
  /\ run' = Ended(i, Parked \union {"running"})
  /\ issue' = Released(i, "tracking")
  /\ rule' = rule

(* moveIssueToObservationNeedsAdmin                                        *)
ObservationNeedsAdmin(i) ==
  /\ ~Hazard(i) /\ issue[i].st \notin {"needs_admin", "closed"}
  /\ act' = Superseded(ActsOf(i))
  /\ run' = Ended(i, Live)
  /\ issue' = Released(i, "needs_admin")
  /\ rule' = rule

(* concludeIssueAggregate, by what decided the close.  by is the run that  *)
(* concluded, which finalizes itself afterwards.                           *)
CanClose(i, kind, by) ==
  /\ issue[i].st # "closed"
  /\ kind # "timeout" => ~HasAct(i, {"executing"})
  /\ kind = "cleared" => ~HasAct(i, Unverified)
  /\ issue[i].reopened => kind = "admin"
  /\ kind = "timeout" => issue[i].st = "awaiting_user"
  /\ by # NoRun => Owns(i, by)
Close(i, kind, by) ==
  /\ CanClose(i, kind, by)
  /\ issue' = Released(i, "closed")
  /\ act' = Superseded(ActsOf(i))
  /\ run' = Ended(i, Live)
  /\ rule' = Disarmed(kind = "timeout" /\ AutoExecuted(i))

(* GiveUpIssue and ParkAppliedFixForReview for a claimed run: nothing      *)
(* unless the run still holds the issue.  Giving up is a verdict on the    *)
(* rule, a review is not.                                                  *)
HandOver(i, r, verdict) ==
  IF run[r].st \in {"running", "resume_pending"} /\ issue[i].claim = r
  THEN /\ run' = [run EXCEPT ![r] = Final(r, "ended")]
       /\ issue' = Released(i, "needs_admin")
       /\ act' = Superseded(ActsOf(i))
       /\ rule' = Disarmed(verdict)
  ELSE UNCHANGED db
GiveUp(i, r) == HandOver(i, r, AutoExecuted(i))
ParkForReview(i, r) == HandOver(i, r, FALSE)

(* GiveUpIssue before any claim                                            *)
GiveUpUnclaimed(i) ==
  IF Claimable(i)
  THEN /\ issue' = Released(i, "needs_admin")
       /\ act' = Superseded(ActsOf(i))
       /\ rule' = Disarmed(AutoExecuted(i))
       /\ run' = run
  ELSE UNCHANGED db

(* abortClaimForRecoveryPreflight                                          *)
AbortClaim(i, r) ==
  IF run[r].st = "running"
  THEN /\ run' = [run EXCEPT ![r] = Final(r, "ended")]
       /\ issue' = IF issue[i].st = "investigating" /\ issue[i].claim = r
                   THEN Released(i, "needs_admin") ELSE issue
       /\ UNCHANGED <<act, rule>>
  ELSE UNCHANGED db

(* closeObservedRecovery, also when the close is refused                   *)
CloseRecovered(i) ==
  IF CanClose(i, "cleared", NoRun) THEN Close(i, "cleared", NoRun) ELSE UNCHANGED db

(* What preflightArrRecovery does when it takes the issue over: the arr is *)
(* retrying, the condition cleared, or it needs a closer look.             *)
TakenOver(i) == Suspend(i) \/ CloseRecovered(i) \/ ObservationNeedsAdmin(i)

-----------------------------------------------------------------------------
(* A worker runs one job to its end: Runner.Run and Runner.Resume.  A read  *)
(* whose positive answer the next transaction checks again is one step with *)
(* that transaction.                                                        *)

At(w, pc) == worker[w].pc = pc
Goto(w, pc) == worker' = [worker EXCEPT ![w].pc = pc]
Leave(w) == worker' = [worker EXCEPT ![w] = IdleWorker]
KeepWorker == UNCHANGED <<effect, jobs, decider, todo, gen>>

(* The head of the queue.  A fresh job goes on only for a workable issue   *)
(* under the daily cap, and resumes when a handoff is already staged.      *)
Take(w) ==
  /\ At(w, "idle") /\ jobs # <<>>
  /\ jobs' = Tail(jobs)
  /\ LET j == Head(jobs)
         go == FreeRun # {} /\ issue[j.issue].st \in Workable
         pc == IF j.resume \/ (go /\ Staged(j.issue) # {}) THEN "resume"
               ELSE IF go THEN "fresh" ELSE "idle"
     IN worker' = [worker EXCEPT ![w] = IF pc = "idle" THEN IdleWorker
                                        ELSE [IdleWorker EXCEPT !.pc = pc, !.issue = j.issue]]
  /\ UNCHANGED <<db, effect, decider, todo, gen, fault>>

(* Resume of an issue that closed finalizes the handoff nothing can claim. *)
ResumeClosed(w) ==
  LET i == worker[w].issue
  IN /\ At(w, "resume") /\ issue[i].st \in {"closed", "tracking"}
     /\ run' = IF issue[i].st = "closed" THEN Ended(i, {"resume_pending"}) ELSE run
     /\ Leave(w)
     /\ UNCHANGED <<issue, act, rule, fault>> /\ KeepWorker

(* The arr is asked before the claim.  A stale answer changes nothing; a   *)
(* failed one parks the issue for an administrator.                        *)
Preflight(w) ==
  LET i == worker[w].issue
  IN /\ At(w, "fresh") \/ (At(w, "resume") /\ issue[i].st \notin {"closed", "tracking"})
     /\ Leave(w)
     /\ \/ TakenOver(i) /\ UNCHANGED fault
        \/ Fault /\ (ObservationNeedsAdmin(i) \/ UNCHANGED db)
     /\ KeepWorker

(* Runner.claim: the compare-and-set that gives a new run the issue.  With *)
(* no provider the issue stays; with a broken one it is handed over.       *)
Claim(w) ==
  LET i == worker[w].issue
      r == Oldest(FreeRun)
  IN /\ At(w, "fresh")
     /\ \/ /\ Claimable(i) /\ FreeRun # {}
           /\ run' = [run EXCEPT ![r] = [issue |-> i, st |-> "running", gen |-> gen,
                                         seen |-> 0, steps |-> 0]]
           /\ issue' = [issue EXCEPT ![i].st = "investigating", ![i].claim = r]
           /\ worker' = [worker EXCEPT ![w].pc = "claimed", ![w].run = r]
           /\ UNCHANGED <<act, rule, fault>>
        \/ /\ ~(Claimable(i) /\ FreeRun # {})
           /\ Leave(w) /\ UNCHANGED <<db, fault>>
        \/ /\ Leave(w)
           /\ Fault /\ GiveUpUnclaimed(i)
     /\ KeepWorker

(* Runner.claimResume consumes the newest staged handoff.  The run keeps   *)
(* the process generation it was created with.                             *)
Reclaim(w) ==
  LET i == worker[w].issue
      r == Newest(Staged(i))
  IN /\ At(w, "resume")
     /\ \/ /\ Claimable(i) /\ Staged(i) # {}
           /\ run' = [run EXCEPT ![r].st = "running"]
           /\ issue' = [issue EXCEPT ![i].st = "investigating", ![i].claim = r]
           /\ worker' = [worker EXCEPT ![w].pc = "claimed", ![w].run = r]
           /\ UNCHANGED <<act, rule>>
        \/ /\ ~(Claimable(i) /\ Staged(i) # {})
           /\ issue[i].st \notin {"closed", "tracking"}
           /\ Leave(w) /\ UNCHANGED db
     /\ UNCHANGED fault /\ KeepWorker

(* The arr is asked again after the claim, and before anything a human     *)
(* will be asked to act on.  A stale answer leaves the claim as it is.     *)
Recheck(w) ==
  LET i == worker[w].issue
      r == worker[w].run
  IN /\ At(w, "claimed") \/ (At(w, "think") /\ Owns(i, r))
     /\ Leave(w)
     /\ \/ TakenOver(i) /\ UNCHANGED fault
        \/ Fault /\ (UNCHANGED db \/ AbortClaim(i, r))
        \/ HasAct(i, {"executing"}) /\ AbortClaim(i, r) /\ UNCHANGED fault
     /\ KeepWorker

(* The head of the turn loop, after some more tool calls: unseen replies   *)
(* enter the transcript, then the step budget is checked.                  *)
Turn(w, more) ==
  LET i == worker[w].issue
      r == worker[w].run
      lost == Unseen(i, r) /\ run[r].st # "running"
  IN IF lost \/ run[r].steps + more >= MaxSteps
     THEN Leave(w) /\ GiveUp(i, r)
     ELSE /\ worker' = [worker EXCEPT ![w].pc = "think", ![w].gate = "none"]
          /\ run' = [run EXCEPT ![r].seen = issue[i].msgs, ![r].steps = @ + more]
          /\ UNCHANGED <<issue, act, rule>>

FirstTurn(w) ==
  /\ At(w, "claimed") /\ Turn(w, 0)
  /\ UNCHANGED fault /\ KeepWorker

(* One model turn.  It may end the run (an error, a deadline, no tool), be *)
(* discarded because the run lost the issue or a reply arrived meanwhile,  *)
(* read more or be refused.  Otherwise it reaches one of the gates below.  *)
Think(w) ==
  LET i == worker[w].issue
      r == worker[w].run
  IN /\ At(w, "think")
     /\ \/ Leave(w) /\ GiveUp(i, r)
        \/ ~Owns(i, r) /\ Leave(w) /\ UNCHANGED db
        \/ Owns(i, r) /\ Turn(w, 1)
        \/ Owns(i, r) /\ Unseen(i, r) /\ Turn(w, 0)
     /\ UNCHANGED fault /\ KeepWorker

(* ProposeAction inserts at most one open proposal per issue, bound to the *)
(* run that owns it.                                                       *)
Propose(w) ==
  LET i == worker[w].issue
      r == worker[w].run
  IN /\ At(w, "think") /\ Owns(i, r)
     /\ ~HasAct(i, {"proposed"}) /\ FreeAction # {}
     /\ act' = [act EXCEPT ![Oldest(FreeAction)] = [run |-> r, st |-> "proposed", auto |-> FALSE]]
     /\ run' = [run EXCEPT ![r].steps = @ + 1]
     /\ worker' = [worker EXCEPT ![w].pc = "park", ![w].gate = "propose"]
     /\ UNCHANGED <<issue, rule, fault>> /\ KeepWorker

(* ask_reporter parks only an issue someone reported.                      *)
Ask(w) ==
  /\ At(w, "think") /\ worker[w].issue \in Reported /\ Owns(worker[w].issue, worker[w].run)
  /\ run' = [run EXCEPT ![worker[w].run].steps = @ + 1]
  /\ worker' = [worker EXCEPT ![w].pc = "park", ![w].gate = "ask"]
  /\ UNCHANGED <<issue, act, rule, fault>> /\ KeepWorker

(* conclude_issue once something was verified: handed to a human unless an *)
(* automatic incident is proven to have cleared; finalizeRun follows.      *)
Conclude(w) ==
  LET i == worker[w].issue
      r == worker[w].run
  IN /\ At(w, "think") /\ Owns(i, r)
     /\ \/ /\ Leave(w)
           /\ IF i \in Reported /\ Applied(i) THEN ParkForReview(i, r) ELSE GiveUp(i, r)
        \/ i \notin Reported /\ Close(i, "cleared", r) /\ Leave(w)
     /\ UNCHANGED fault /\ KeepWorker

(* parkWith: the issue waits for a human and the claim is released, unless *)
(* a reply was committed first.  Then invalidateStalePark supersedes the   *)
(* proposal and the loop goes on.                                          *)
ParksUnread(i, r) == Owns(i, r)
Parks(i, r) == Owns(i, r) /\ ~Unseen(i, r)
Park(w) ==
  LET i == worker[w].issue
      r == worker[w].run
      propose == worker[w].gate = "propose"
      stale == /\ issue[i].st = "investigating" /\ run[r].st = "running"
               /\ Unseen(i, r) /\ (propose \/ issue[i].claim = r)
  IN /\ At(w, "park")
     /\ \/ /\ Parks(i, r) /\ Leave(w)
           /\ issue' = Released(i, IF propose THEN "awaiting_approval" ELSE "awaiting_user")
           /\ run' = [run EXCEPT ![r].st = IF propose THEN "waiting_approval" ELSE "waiting_user"]
           /\ UNCHANGED <<act, rule, fault>>
        \/ /\ stale /\ Goto(w, "claimed")
           /\ act' = IF propose THEN Superseded({a \in Action : act[a].run = r}) ELSE act
           /\ UNCHANGED <<issue, run, rule, fault>>
        \/ ~stale /\ ~Parks(i, r) /\ Leave(w) /\ UNCHANGED <<db, fault>>
        \/ Fault /\ Leave(w) /\ GiveUp(i, r)
     /\ KeepWorker

WorkerStep(w) ==
  \/ Take(w) \/ ResumeClosed(w) \/ Preflight(w) \/ Claim(w) \/ Reclaim(w) \/ Recheck(w)
  \/ FirstTurn(w) \/ Think(w) \/ Propose(w) \/ Ask(w) \/ Conclude(w)
  \/ Park(w)

-----------------------------------------------------------------------------
(* A decision: ApproveAction by an administrator, the standing rule's sweep *)
(* (autoApproveAction) or DenyAction.                                       *)

On(d, pc) == decider[d].pc = pc
Proceed(d, pc) == decider' = [decider EXCEPT ![d].pc = pc]
Done(d) == decider' = [decider EXCEPT ![d] = IdleDecider]
KeepDecider == UNCHANGED <<jobs, worker, todo, gen>>
SetAct(a, st) == act' = [act EXCEPT ![a].st = st]
RunEnded(a) == [run EXCEPT ![act[a].run] = IF @.st \in Live THEN Final(act[a].run, "ended") ELSE @]
Decidable(a) == act[a].st = "proposed" /\ GateActive(a)

(* markActionOutcomeUnknown                                                *)
MarkUnknownOnly(a, pause) ==
  /\ SetAct(a, "unknown")
  /\ rule' = Disarmed(pause /\ act[a].auto)
  /\ UNCHANGED <<issue, run>>
MarkUnknownKeepsRule(a, pause) ==
  /\ SetAct(a, "unknown")
  /\ issue' = Escalated(IssueOf(a))
  /\ run' = RunEnded(a)
  /\ rule' = rule
MarkUnknown(a, pause) ==
  /\ SetAct(a, "unknown")
  /\ issue' = Escalated(IssueOf(a))
  /\ run' = RunEnded(a)
  /\ rule' = Disarmed(pause /\ act[a].auto)

(* An approval begins: an administrator's, or the sweep's for a rule that  *)
(* is armed when the sweep looks.                                          *)
Approve(d) ==
  /\ On(d, "idle")
  /\ \E a \in Action, byRule \in BOOLEAN :
       /\ Decidable(a) /\ (byRule => rule = "active")
       /\ decider' = [decider EXCEPT ![d] = [pc |-> "claim", act |-> a, auto |-> byRule, out |-> "none"]]
  /\ UNCHANGED <<db, effect, fault>> /\ KeepDecider

(* DenyAction's compare-and-set                                            *)
Deny(d) ==
  /\ On(d, "idle")
  /\ \E a \in Action :
       /\ Decidable(a) /\ SetAct(a, "denied")
       /\ decider' = [decider EXCEPT ![d] = [IdleDecider EXCEPT !.pc = "stage", !.act = a]]
  /\ UNCHANGED <<issue, run, rule, effect, fault>> /\ KeepDecider

(* A proposal whose gate is not active is superseded by whoever tries to   *)
(* decide it; an unverified outcome is only recorded again.                *)
DecideTooLate(a) ==
  /\ \/ /\ act[a].st = "proposed" /\ ~GateActive(a)
        /\ SetAct(a, "superseded")
        /\ UNCHANGED <<issue, run, rule>>
     \/ act[a].st \in Unverified /\ MarkUnknown(a, FALSE)
  /\ UNCHANGED <<effect, jobs, worker, decider, todo, gen, fault>>

(* The arr is asked before the claim; a stale or failed answer decides     *)
(* nothing.                                                                *)
PreflightDecision(d) ==
  LET i == IssueOf(decider[d].act)
  IN /\ On(d, "claim") /\ Done(d)
     /\ \/ TakenOver(i) /\ UNCHANGED fault
        \/ Fault /\ (UNCHANGED db \/ ObservationNeedsAdmin(i))
     /\ UNCHANGED effect /\ KeepDecider

(* The compare-and-set that takes the execution.  It re-reads the gate, not *)
(* the rule.                                                               *)
ClaimActionUnguarded(d) ==
  /\ On(d, "claim")
  /\ act' = [act EXCEPT ![decider[d].act].st = "executing",
                        ![decider[d].act].auto = decider[d].auto]
  /\ Proceed(d, "execute")
  /\ UNCHANGED <<issue, run, rule, effect, fault>> /\ KeepDecider
ClaimAction(d) ==
  LET a == decider[d].act
  IN /\ On(d, "claim")
     /\ IF Decidable(a)
        THEN act' = [act EXCEPT ![a].st = "executing", ![a].auto = decider[d].auto]
             /\ Proceed(d, "execute")
        ELSE act' = Superseded({a}) /\ Done(d)
     /\ UNCHANGED <<issue, run, rule, effect, fault>> /\ KeepDecider

(* The arr is asked a second time, with the action claimed and nothing     *)
(* sent: cancelExecutingForObservationReview, cancelExecutingForRecovery,  *)
(* failExecutingRecoveryPreflight.                                         *)
CancelClaim(d) ==
  LET a == decider[d].act
      i == IssueOf(a)
      stop(st, to) == /\ SetAct(a, st)
                      /\ run' = Ended(i, Live)
                      /\ issue' = IF issue[i].st = "closed" THEN issue ELSE Released(i, to)
  IN /\ On(d, "execute")
     /\ \/ /\ \/ Done(d) /\ stop("superseded", "needs_admin")
              \/ Done(d) /\ stop("superseded", "tracking")
              \/ Proceed(d, "close") /\ stop("superseded", "tracking")
           /\ UNCHANGED <<rule, fault>>
        \/ /\ Done(d) /\ Fault
           /\ \/ stop("failed", "needs_admin") /\ rule' = Disarmed(act[a].auto)
              \/ UNCHANGED db
     /\ UNCHANGED effect /\ KeepDecider

CloseAfterCancel(d) ==
  /\ On(d, "close") /\ Done(d)
  /\ CloseRecovered(IssueOf(decider[d].act))
  /\ UNCHANGED <<effect, fault>> /\ KeepDecider

(* Executor.Execute, the only mutation of the arr.                         *)
Dispatch(d) ==
  LET a == decider[d].act
  IN /\ On(d, "execute")
     /\ \E out \in {"executed", "failed", "unknown"}, n \in {0, 1} :
          /\ out = "executed" => n = 1
          /\ out = "failed" => n = 0
          /\ effect' = [effect EXCEPT ![a] = @ + n]
          /\ decider' = [decider EXCEPT ![d].pc = "settle", ![d].out = out]
     /\ UNCHANGED <<db, fault>> /\ KeepDecider

(* The outcome becomes durable (finalizeActionOutcome).  When it cannot be *)
(* saved, or is not certain, the issue stops at an administrator.          *)
Settle(d) ==
  LET a == decider[d].act
      out == decider[d].out
  IN /\ On(d, "settle")
     /\ \/ /\ out # "unknown"
           /\ SetAct(a, out)
           /\ rule' = Disarmed(act[a].auto /\ out = "failed")
           /\ Proceed(d, "stage") /\ UNCHANGED <<issue, run, fault>>
        \/ /\ Done(d)
           /\ (out = "unknown" /\ UNCHANGED fault) \/ Fault
           /\ MarkUnknown(a, TRUE)
        \/ Done(d) /\ Fault /\ UNCHANGED db
     /\ UNCHANGED effect /\ KeepDecider

(* appendResumeResult: the parked run becomes a durable handoff.           *)
Handed(a) ==
  LET i == IssueOf(a)
      r == act[a].run
  IN IF GateActive(a) /\ issue[i].claim = NoRun
     THEN /\ run' = [run EXCEPT ![r].st = "resume_pending"]
          /\ issue' = [issue EXCEPT ![i].st = "investigating"]
     ELSE UNCHANGED <<issue, run>>

(* stopUnresumableDecision                                                 *)
StopUnresumable(a) == issue' = Escalated(IssueOf(a)) /\ run' = RunEnded(a)

Stage(d) ==
  LET a == decider[d].act
  IN /\ On(d, "stage") /\ Done(d)
     /\ \/ /\ Handed(a) /\ UNCHANGED fault
           /\ jobs' = IF run'[act[a].run].st = "resume_pending"
                      THEN Enqueued(<<Resume(IssueOf(a))>>) ELSE jobs
        \/ /\ Fault /\ jobs' = jobs
           /\ (StopUnresumable(a) \/ UNCHANGED <<issue, run>>)
     /\ UNCHANGED <<act, rule, effect, worker, todo, gen>>

DeciderStep(d) ==
  \/ PreflightDecision(d) \/ ClaimAction(d) \/ CancelClaim(d) \/ CloseAfterCancel(d)
  \/ Dispatch(d) \/ Settle(d) \/ Stage(d)

-----------------------------------------------------------------------------
(* recoverWork: a pass over the durable rows at start-up and on a ticker.  *)
(* The statements before the first handoff are one step, each handoff is   *)
(* one, and the enqueueing goes with the last.                             *)

KeepRec == UNCHANGED <<rule, effect, worker, decider, gen>>

(* A running row of another process generation lost its goroutine and its  *)
(* issue is released; an issue still claimed by a run that ended or parked *)
(* goes to a human.                                                        *)
Lost == {r \in Run : run[r].st = "running" /\ run[r].gen # gen}
Repaired ==
  [i \in Issue |->
     LET r == issue[i].claim
     IN CASE r # NoRun /\ (r \in Lost \/ run[r].st = "restarted") -> [issue[i] EXCEPT !.st = "open", !.claim = NoRun]
          [] r # NoRun /\ run[r].st \notin {"running", "restarted"} -> [issue[i] EXCEPT !.st = "needs_admin", !.claim = NoRun]
          [] OTHER -> issue[i]]

(* A handoff nothing can consume any more                                  *)
Stranded(r) ==
  LET i == run[r].issue
  IN run[r].st = "resume_pending"
     /\ \/ issue[i].st = "closed"
        \/ Repaired[i].st = "needs_admin" /\ \E q \in Run : q > r /\ run[q].issue = i

(* recoverDecisionHandoffs: decisions whose outcome is durable and whose   *)
(* run still waits at the gate.                                            *)
Decided(a) ==
  /\ act[a].st \in {"executed", "failed", "denied"} /\ GateActive(a)
  /\ \A b \in Action : act[b].run = act[a].run => b <= a

OverdueFixes == {a \in Action : Decided(a) /\ act[a].st # "denied"}
Overdue == {a \in Action : Decided(a)}

(* Every claimable issue is enqueued again, as a resume if a handoff is    *)
(* staged.                                                                 *)
ClaimsOfHandoffs == SetToSeq({Resume(i) : i \in {j \in Issue : Claimable(j) /\ Staged(j) # {}}})
ClaimsOfFresh == SetToSeq({Fresh(i) : i \in {j \in Issue : Claimable(j) /\ Staged(j) = {}}})
Claims == SetToSeq({Resume(i) : i \in {j \in Issue : Claimable(j) /\ Staged(j) # {}}}
                   \union {Fresh(i) : i \in {j \in Issue : Claimable(j) /\ Staged(j) = {}}})
Requeue == jobs' = IF todo' = {} THEN Enqueued(Claims') ELSE jobs

RecPass ==
  /\ todo = {}
  /\ issue' = Repaired
  /\ run' = [r \in Run |-> CASE r \in Lost -> Final(r, "restarted")
                             [] Stranded(r) -> Final(r, "ended")
                             [] OTHER -> run[r]]
  /\ todo' = Overdue
  /\ Requeue
  /\ UNCHANGED <<act, fault>> /\ KeepRec

RecStage ==
  LET a == Oldest(todo)
  IN /\ todo # {} /\ todo' = todo \ {a}
     /\ \/ Handed(a) /\ UNCHANGED fault
        \/ Fault /\ (StopUnresumable(a) \/ UNCHANGED <<issue, run>>)
     /\ Requeue
     /\ UNCHANGED act /\ KeepRec

RecStep == RecPass \/ RecStage

-----------------------------------------------------------------------------
(* Humans, the observation sweep and the process itself.                   *)

KeepEnv == UNCHANGED <<effect, worker, decider, todo, gen>>
Heard(i) == [issue EXCEPT ![i].msgs = @ + 1]
Waiting(i, st) == {r \in Run : run[r].issue = i /\ run[r].st = st}

(* PostReply.  A reply to a parked issue stages the resume in the same     *)
(* transaction; when that is not possible the issue goes to a human        *)
(* (saveUnresumableReply, saveUnresumableApprovalReply).                   *)
Reply(i) ==
  LET asked == Waiting(i, "waiting_user")
      open == {a \in ActsOf(i) : act[a].st = "proposed" /\ GateActive(a)}
      gate == IF issue[i].st = "awaiting_user" THEN asked ELSE {act[Newest(open)].run}
      staged == /\ issue[i].st = "awaiting_user" => asked # {}
                /\ issue[i].st = "awaiting_approval" => open # {}
                /\ issue[i].claim = NoRun
  IN /\ issue[i].st # "closed" /\ issue[i].msgs < MaxMsg
     /\ \/ /\ issue[i].st \notin {"awaiting_user", "awaiting_approval"}
           /\ issue' = Heard(i)
           /\ UNCHANGED <<run, act, jobs, fault>>
        \/ /\ issue[i].st \in {"awaiting_user", "awaiting_approval"} /\ staged
           /\ issue' = [Heard(i) EXCEPT ![i].st = "investigating"]
           /\ run' = [run EXCEPT ![Newest(gate)].st = "resume_pending"]
           /\ act' = IF issue[i].st = "awaiting_approval" THEN Superseded({Newest(open)}) ELSE act
           /\ jobs' = Enqueued(<<Resume(i)>>) /\ UNCHANGED fault
        \/ /\ issue[i].st \in {"awaiting_user", "awaiting_approval"}
           /\ (~staged /\ UNCHANGED fault) \/ Fault
           /\ issue' = [Heard(i) EXCEPT ![i].st = "needs_admin", ![i].claim = NoRun]
           /\ run' = Ended(i, {"resume_pending", IF issue[i].st = "awaiting_user"
                                                 THEN "waiting_user" ELSE "waiting_approval"})
           /\ act' = IF issue[i].st = "awaiting_approval" THEN Superseded(ActsOf(i)) ELSE act
           /\ jobs' = jobs
     /\ rule' = rule /\ KeepEnv

(* An administrator closes, the reporter confirms the fix, or the question *)
(* stays unanswered too long.                                              *)
HumanClose(i) ==
  /\ \/ Close(i, "admin", NoRun)
     \/ Close(i, "timeout", NoRun)
     \/ i \in Reported /\ Applied(i) /\ Close(i, "reporter", NoRun)
  /\ UNCHANGED <<jobs, fault>> /\ KeepEnv

(* ReopenIssueByAdmin                                                      *)
Reopen(i) ==
  /\ issue[i].st = "closed" /\ ~HasAct(i, {"executing"})
  /\ issue' = [Released(i, "needs_admin") EXCEPT ![i].reopened = TRUE]
  /\ act' = Superseded(ActsOf(i))
  /\ run' = Ended(i, Live)
  /\ UNCHANGED <<rule, jobs, fault>> /\ KeepEnv

(* PauseApprovalRule and ResumeApprovalRule, and a sweep that stands the    *)
(* rule down because its fix already ran (pauseRuleForRepeatedRemedy).     *)
SetRule ==
  /\ rule' = IF rule = "active" THEN "paused" ELSE "active"
  /\ UNCHANGED <<issue, run, act, jobs, fault>> /\ KeepEnv

(* The observation sweep over an issue nobody reopened: tracked ones are   *)
(* promoted, to the agent or to a human.                                   *)
Observe(i) ==
  /\ ~issue[i].reopened
  /\ \/ Suspend(i) /\ jobs' = jobs
     \/ Close(i, "cleared", NoRun) /\ jobs' = jobs
     \/ ObservationNeedsAdmin(i) /\ jobs' = jobs
     \/ /\ issue[i].st = "tracking"
        /\ issue' = [issue EXCEPT ![i].st = "open"]
        /\ jobs' = Enqueued(<<Fresh(i)>>)
        /\ UNCHANGED <<run, act, rule>>
     \/ /\ issue[i].st = "tracking"
        /\ issue' = [issue EXCEPT ![i].st = "needs_admin"]
        /\ UNCHANGED <<run, act, rule, jobs>>
  /\ UNCHANGED fault /\ KeepEnv

(* The process dies.  Before the new one serves, the schema layer repairs  *)
(* what an interrupted execution left (db.go).                             *)
Crash ==
  LET hurt(i) == HasAct(i, {"executing"} \union Unverified)
      over(i) == issue[i].st = "closed"
  IN /\ gen < MaxCrash /\ gen' = gen + 1
     /\ rule' = Disarmed(\E a \in Action : act[a].st = "executing" /\ act[a].auto)
     /\ issue' = [i \in Issue |-> IF hurt(i) /\ ~over(i)
                                  THEN [issue[i] EXCEPT !.st = "needs_admin", !.claim = NoRun] ELSE issue[i]]
     /\ run' = [r \in Run |-> IF run[r].st \in Live /\ (hurt(run[r].issue) \/ over(run[r].issue))
                              THEN Final(r, "ended") ELSE run[r]]
     /\ act' = [a \in Action |->
                  CASE act[a].st = "executing" -> [act[a] EXCEPT !.st = "interrupted"]
                    [] act[a].st = "proposed" /\ (hurt(IssueOf(a)) \/ ~GateActive(a))
                         -> [act[a] EXCEPT !.st = "superseded"]
                    [] OTHER -> act[a]]
     /\ jobs' = <<>>
     /\ worker' = [w \in Worker |-> IdleWorker]
     /\ decider' = [d \in Decider |-> IdleDecider]
     /\ todo' = {}
     /\ UNCHANGED <<effect, fault>>

Next ==
  \/ \E w \in Worker : WorkerStep(w)
  \/ \E d \in Decider : Approve(d) \/ Deny(d) \/ DeciderStep(d)
  \/ \E a \in Action : DecideTooLate(a)
  \/ RecStep
  \/ \E i \in Issue : Reply(i) \/ HumanClose(i) \/ Reopen(i) \/ Observe(i)
  \/ SetRule \/ Crash

Spec == Init /\ [][Next]_vars

(* Goroutines run, requests in progress are served, the ticker ticks.      *)
FairSpec ==
  /\ Spec
  /\ \A w \in Worker : WF_vars(WorkerStep(w))
  /\ \A d \in Decider : WF_vars(DeciderStep(d))
  /\ WF_vars(RecStep)

-----------------------------------------------------------------------------
(* Properties                                                              *)

InHand == {"claimed", "think", "park"}
Deciding == {"execute", "settle"}

(* Every variable has its type, runs and actions are handed out in order,  *)
(* only actions an active gate let through are being executed.             *)
TypeOK ==
  /\ issue \in [Issue -> [st : IssueStatus, claim : Run \union {NoRun},
                          reopened : BOOLEAN, msgs : 0 .. MaxMsg]]
  /\ run \in [Run -> [issue : Issue \union {NoIssue}, st : RunStatus, gen : 0 .. MaxCrash,
                      seen : 0 .. MaxMsg, steps : 0 .. MaxSteps + 1]]
  /\ act \in [Action -> [run : Run \union {NoRun}, st : ActionStatus, auto : BOOLEAN]]
  /\ rule \in {"active", "paused"}
  /\ effect \in [Action -> Nat]
  /\ jobs \in Seq([issue : Issue, resume : BOOLEAN]) /\ Len(jobs) <= QueueCap
  /\ worker \in [Worker -> [pc : InHand \union {"idle", "fresh", "resume"},
                            issue : Issue \union {NoIssue}, run : Run \union {NoRun},
                            gate : {"none", "propose", "ask"}]]
  /\ decider \in [Decider -> [pc : Deciding \union {"idle", "claim", "close", "stage"},
                              act : Action \union {NoAct}, auto : BOOLEAN,
                              out : {"none", "executed", "failed", "unknown"}]]
  /\ todo \subseteq Action
  /\ gen \in 0 .. MaxCrash /\ fault \in 0 .. MaxFault

Rests(i) == issue[i].st \in {"needs_admin", "closed"} /\ issue[i].claim = NoRun

(* The step that leaves the outcome of a fix unverified puts the issue to  *)
(* rest, with an administrator or closed and claimed by no run, and no     *)
(* later step of a run, a decider, recovery, observation or a restart gets *)
(* it out (markActionOutcomeUnknown, the boot repairs).  The code has one  *)
(* exception: cancelling a second fix that was executing beside the first  *)
(* (cancelExecutingForRecovery) tracks or releases the issue again.        *)
UnknownStays ==
  [][\A i \in Issue :
       HasAct(i, Unverified)' /\ ~Rests(i)' =>
         /\ HasAct(i, Unverified)
         /\ Rests(i) => \E a \in ActsOf(i) :
                           act[a].st = "executing" /\ act'[a].st = "superseded"]_vars

(* Refuted: an issue with an unverified outcome rests in every state       *)
(* (approvals.go:591 "Unknown/partial outcomes are never model-resumable"). *)
(* A decision handed over late meets the next gate of its run and resumes  *)
(* it while the fix of that gate executes.                                 *)
UnknownIsFinal == \A i \in Issue : HasAct(i, Unverified) => Rests(i)

(* active_run_id is the mutual exclusion: it names a run that is running,  *)
(* on an issue under investigation, and no second run of the issue runs    *)
(* (claim, claimResume).                                                   *)
ClaimExcludes ==
  \A i \in Issue :
    LET running == {r \in Run : run[r].issue = i /\ run[r].st = "running"}
    IN /\ issue[i].claim # NoRun => issue[i].claim \in running /\ issue[i].st = "investigating"
       /\ \A r, q \in running : r = q

(* A closed issue leaves nothing to go on with: no live run, no proposal   *)
(* to approve (concludeIssueAggregate, the boot repairs).                  *)
ClosedIsQuiet ==
  \A i \in Issue : issue[i].st = "closed" =>
    /\ \A r \in Run : run[r].issue = i => run[r].st \notin Live
    /\ ~HasAct(i, {"proposed"})

(* A proposal is approved only if the run that made it had read every      *)
(* human message on the issue (parkWith, PostReply).                       *)
ApprovedAfterReading ==
  [][\A a \in Action : act[a].st = "proposed" /\ act'[a].st = "executing"
       => ~Unseen(IssueOf(a), act[a].run)]_vars

(* The step that makes a bad outcome of an automatic approval durable      *)
(* leaves the rule disarmed, a restart included (pauseRuleForFailureTx).   *)
BadOutcomeDisarms ==
  [][\A a \in Action : act[a].st = "executing" /\ act[a].auto
                       /\ act'[a].st \in {"failed"} \union Unverified
       => rule' = "paused"]_vars

(* An issue nobody works on does not stay that way while the daily cap has *)
(* room: queue overflow and restarts lose hints, not work (recoverWork).   *)
WorkIsTaken ==
  \A i \in Issue : Claimable(i) /\ FreeRun # {} ~> ~(Claimable(i) /\ FreeRun # {})

(* A staged handoff of a workable issue is resumed.                        *)
HandoffsResume ==
  \A i \in Issue, r \in Run :
    Claimable(i) /\ r \in Staged(i) ~> ~(Claimable(i) /\ r \in Staged(i))

(* A decision that is durable reaches the run that waits for it            *)
(* (recoverDecisionHandoffs).                                              *)
DecisionsAreHandedOver == \A a \in Action : Decided(a) ~> ~Decided(a)

(* Refuted: a run whose worker is alive is not aborted as left over from   *)
(* another process (recoverWork, worker.go).                               *)
LiveRunsAreKept ==
  [][\A w \in Worker : worker[w].pc \in InHand /\ run[worker[w].run].st = "running"
       => run'[worker[w].run].st # "restarted"]_vars

Intent == INSTANCE FixLedger WITH fix <- [a \in Action |-> act[a].st], sent <- effect

(* Every fix obeys its ledger: decided once, sent at most once and only     *)
(* under that decision (approveAction).                                    *)
ImplementsLedger == Intent!Spec

=============================================================================
