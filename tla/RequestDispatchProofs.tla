----------------------- MODULE RequestDispatchProofs -----------------------
(***************************************************************************)
(* Theorems about RequestDispatch, for every number of requests, formats,  *)
(* instances, workers and tokens and every bound: its types, and the lease *)
(* protocol of dispatchFormat.  A job in flight is never decided by anyone *)
(* else, only its owner records its outcome, and workers that do not stall *)
(* write to an instance one at a time, under a lease, for a request that   *)
(* is still in delivery.                                                   *)
(***************************************************************************)
EXTENDS RequestDispatch, TLAPS

\* The values rows and local states are given are of their types.
LEMMA Rows ==
    /\ \A s \in JobState : NewJob(s) \in JobRow
    /\ NoLock \in LockRow
    /\ Idle \in WorkerState
    /\ NoSweep \in SweepState
    /\ NoDecision \in DecisionState
    /\ NoOutcome \in Outcome
<1>1. \A s \in JobState : NewJob(s) \in JobRow
  BY ConstantsAssumption DEF NewJob, JobRow, JobState, JobCode
<1>2. NoLock \in LockRow
  BY DEF NoLock, LockRow
<1>3. NoOutcome \in Outcome
  BY DEF NoOutcome, Out, Outcome, JobCode
<1>4. Idle \in WorkerState
  BY <1>3 DEF Idle, WorkerState
<1>5. NoSweep \in SweepState
  BY DEF NoSweep, SweepState, Out, JobCode
<1>6. NoDecision \in DecisionState
  BY DEF NoDecision, DecisionState
<1>7. QED
  BY <1>1, <1>2, <1>3, <1>4, <1>5, <1>6

\* The updates the transactions make to a row keep it a row.
LEMMA RowUpdates ==
    ASSUME NEW row \in JobRow, NEW s \in JobState
    PROVE  /\ [row EXCEPT !.state = s, !.due = TRUE] \in JobRow
           /\ \A c \in JobCode :
                /\ [row EXCEPT !.state = s, !.code = c] \in JobRow
                /\ [row EXCEPT !.state = s, !.code = c, !.due = TRUE] \in JobRow
                /\ [row EXCEPT !.state = s, !.attempts = 0, !.due = TRUE, !.code = c] \in JobRow
           /\ \A c \in JobCode, d \in BOOLEAN :
                [row EXCEPT !.state = s, !.code = c, !.due = d, !.token = NoToken, !.live = FALSE]
                   \in JobRow
<1>1. 0 \in 0 .. MaxAttempts
  BY ConstantsAssumption
<1>2. [row EXCEPT !.state = s, !.due = TRUE] \in JobRow
  BY DEF JobRow
<1>3. ASSUME NEW c \in JobCode
      PROVE  /\ [row EXCEPT !.state = s, !.code = c] \in JobRow
             /\ [row EXCEPT !.state = s, !.code = c, !.due = TRUE] \in JobRow
             /\ [row EXCEPT !.state = s, !.attempts = 0, !.due = TRUE, !.code = c] \in JobRow
  BY <1>1 DEF JobRow
<1>4. ASSUME NEW c \in JobCode, NEW d \in BOOLEAN
      PROVE  [row EXCEPT !.state = s, !.code = c, !.due = d, !.token = NoToken, !.live = FALSE]
                \in JobRow
  BY DEF JobRow
<1>5. QED
  BY <1>2, <1>3, <1>4

\* A lease taken, renewed or expired leaves a row of its type.
LEMMA LeaseUpdates ==
    ASSUME NEW row \in JobRow, NEW d \in BOOLEAN
    PROVE  /\ \A t \in Token, n \in 0 .. MaxAttempts :
                 [row EXCEPT !.state = "processing", !.token = t, !.live = TRUE, !.attempts = n] \in JobRow
           /\ [row EXCEPT !.live = d] \in JobRow
           /\ [row EXCEPT !.started = TRUE] \in JobRow
           /\ [row EXCEPT !.due = TRUE] \in JobRow
           /\ row.code \in JobCode /\ row.attempts \in 0 .. MaxAttempts
<1>1. ASSUME NEW t \in Token, NEW n \in 0 .. MaxAttempts
      PROVE  [row EXCEPT !.state = "processing", !.token = t, !.live = TRUE, !.attempts = n] \in JobRow
  BY DEF JobRow, JobState
<1>2. /\ [row EXCEPT !.live = d] \in JobRow
      /\ [row EXCEPT !.started = TRUE] \in JobRow
      /\ [row EXCEPT !.due = TRUE] \in JobRow
      /\ row.code \in JobCode /\ row.attempts \in 0 .. MaxAttempts
  BY DEF JobRow
<1>3. QED
  BY <1>1, <1>2

\* TypeOK alone is not preserved: finishDelivery stores the worker's outcome as
\* the job's state, so the outcome has to be a real one.
TypeInv == TypeOK /\ OutcomesAreReal

RealOutcome == {out \in Outcome : out.state # "none"}
WorkersTyped == worker \in [Worker -> WorkerState] /\ OutcomesAreReal

\* The steps of a goroutine keep its local state in its type.
LEMMA WorkerUpdates ==
    ASSUME TypeInv, NEW w \in Worker
    PROVE  /\ \A out \in RealOutcome : FinishWith(w, out) => WorkersTyped'
           /\ Return(w) => WorkersTyped'
           /\ \A op \in {"add", "monitor", "reopen"} : AskToWrite(w, op) => WorkersTyped'
           /\ \A pc \in {"probe", "held", "add", "write"} : Goto(w, pc) => WorkersTyped'
<1>1. /\ worker \in [Worker -> WorkerState] /\ worker[w] \in WorkerState
      /\ OutcomesAreReal
  BY DEF TypeInv, TypeOK
<1>2. ASSUME NEW new \in WorkerState, worker' = [worker EXCEPT ![w] = new],
             new.pc = "finish" => new.out.state # "none"
      PROVE  WorkersTyped'
  BY <1>1, <1>2 DEF WorkersTyped, OutcomesAreReal, At
<1>3. ASSUME NEW out \in RealOutcome, FinishWith(w, out) PROVE WorkersTyped'
  <2> DEFINE new == [worker[w] EXCEPT !.pc = "finish", !.op = "none", !.out = out]
  <2>1. new \in WorkerState /\ new.out.state # "none"
    BY <1>1 DEF WorkerState, RealOutcome
  <2>2. worker' = [worker EXCEPT ![w] = new]
    BY <1>3 DEF FinishWith
  <2> HIDE DEF new
  <2>3. QED
    BY <1>2, <2>1, <2>2
<1>4. ASSUME Return(w) PROVE WorkersTyped'
  <2> DEFINE new == [worker[w] EXCEPT !.pc = "release", !.op = "none", !.out = NoOutcome]
  <2>1. new \in WorkerState /\ new.pc # "finish"
    BY <1>1, Rows DEF WorkerState
  <2>2. worker' = [worker EXCEPT ![w] = new]
    BY <1>4 DEF Return
  <2> HIDE DEF new
  <2>3. QED
    BY <1>2, <2>1, <2>2
<1>5. ASSUME NEW op \in {"add", "monitor", "reopen"}, AskToWrite(w, op)
      PROVE  WorkersTyped'
  <2> DEFINE new == [worker[w] EXCEPT !.pc = "guard", !.op = op]
  <2>1. new \in WorkerState /\ new.pc # "finish"
    BY <1>1 DEF WorkerState
  <2>2. worker' = [worker EXCEPT ![w] = new]
    BY <1>5 DEF AskToWrite
  <2> HIDE DEF new
  <2>3. QED
    BY <1>2, <2>1, <2>2
<1>6. ASSUME NEW pc \in {"probe", "held", "add", "write"}, Goto(w, pc)
      PROVE  WorkersTyped'
  <2> DEFINE new == [worker[w] EXCEPT !.pc = pc]
  <2>1. new \in WorkerState /\ new.pc # "finish"
    BY <1>1 DEF WorkerState
  <2>2. worker' = [worker EXCEPT ![w] = new]
    BY <1>6 DEF Goto
  <2> HIDE DEF new
  <2>3. QED
    BY <1>2, <2>1, <2>2
<1>7. QED
  BY <1>3, <1>4, <1>5, <1>6

\* Cancelled rows are rows.
LEMMA CancelledRows == ASSUME TypeOK, NEW S PROVE Cancelled(job, S) \in [Job -> JobRow]
<1> DEFINE New(j) == [job[j] EXCEPT !.state = "cancelled", !.due = TRUE]
<1>1. \A j \in Job : job[j] \in JobRow
  BY DEF TypeOK
<1>2. \A j \in Job : New(j) \in JobRow
  <2> SUFFICES ASSUME NEW j \in Job PROVE New(j) \in JobRow
    OBVIOUS
  <2>1. job[j] \in JobRow /\ "cancelled" \in JobState
    BY <1>1 DEF JobState
  <2>2. QED
    BY <2>1, RowUpdates
<1>3. Cancelled(job, S) = [j \in Job |-> IF j \in S /\ job[j].state # "complete" THEN New(j) ELSE job[j]]
  BY DEF Cancelled
<1> HIDE DEF New
<1>4. QED
  BY <1>1, <1>2, <1>3

\* The initial state is well typed.
LEMMA TypeInit == Init => TypeInv
<1>1. "absent" \in JobState
  BY DEF JobState
<1>2. Init => TypeOK
  BY <1>1, Rows, ConstantsAssumption DEF Init, TypeOK
<1>3. Init => OutcomesAreReal
  BY DEF Init, OutcomesAreReal, At, Idle
<1>4. QED
  BY <1>2, <1>3 DEF TypeInv

\* A step of a worker keeps the workers' type.
LEMMA WorkerLocal ==
    ASSUME TypeInv, NEW w \in Worker,
           WorkerStep(w) \/ Abandon(w) \/ RenewJob(w) \/ RenewLock(w)
    PROVE  WorkersTyped'
<1>1. /\ Failed \subseteq RealOutcome
      /\ Out("complete", "") \in RealOutcome /\ Out("waiting_library", "") \in RealOutcome
      /\ Out("attention", "import_failed") \in RealOutcome
      /\ Refusal(w) \subseteq RealOutcome
  <2>1. \A s \in {"complete", "waiting_library", "retry", "attention"}, c \in JobCode :
           Out(s, c) \in RealOutcome
    BY DEF Out, Outcome, RealOutcome
  <2>2. {"", "import_failed", "manual_import_retry"} \subseteq JobCode
    BY DEF JobCode
  <2>3. QED
    BY <2>1, <2>2 DEF Failed, Refusal
<1>2. WorkersTyped
  BY DEF TypeInv, TypeOK, WorkersTyped
<1>3. CASE Load(w)
  BY <1>1, <1>3, WorkerUpdates DEF Load
<1>4. CASE Probe(w)
  BY <1>1, <1>4, WorkerUpdates DEF Probe
<1>5. CASE CheckHeld(w)
  BY <1>5, WorkerUpdates DEF CheckHeld
<1>6. CASE ReadLibrary(w)
  BY <1>1, <1>6, WorkerUpdates DEF ReadLibrary
<1>7. CASE Guard(w)
  BY <1>1, <1>7, WorkerUpdates DEF Guard
<1>8. CASE Write(w)
  BY <1>1, <1>8, WorkerUpdates DEF Write
<1>9. CASE Finish(w) \/ Abandon(w)
  BY <1>9, WorkerUpdates DEF Finish, Abandon
<1>10. CASE Release(w)
  BY <1>2, <1>10, Rows DEF Release, WorkersTyped, OutcomesAreReal, At, Idle
<1>11. CASE RenewJob(w) \/ RenewLock(w)
  BY <1>2, <1>11 DEF RenewJob, RenewLock, WorkersTyped, OutcomesAreReal, At
<1>12. QED
  BY <1>3, <1>4, <1>5, <1>6, <1>7, <1>8, <1>9, <1>10, <1>11 DEF WorkerStep

\* Every action keeps every variable in its type.
LEMMA TypeStep == TypeInv /\ [Next]_vars => TypeOK'
<1> SUFFICES ASSUME TypeInv, [Next]_vars PROVE TypeOK'
  OBVIOUS
<1> TypeOK
  BY DEF TypeInv
<1>0. job \in [Job -> JobRow] /\ \A j \in Job : job[j] \in JobRow
  BY DEF TypeOK
<1>1. ASSUME NEW r \in Request, UserStep(r) PROVE TypeOK'
  <2>1. ASSUME NEW formats \in SUBSET Format, NEW free \in SUBSET Format,
               NEW approval \in BOOLEAN, Create(r, formats, free, approval)
        PROVE  TypeOK'
    <3>1. \A s \in {"complete", "approval", "queued"} : NewJob(s) \in JobRow
      BY Rows DEF JobState
    <3>2. job' \in [Job -> JobRow]
      BY <2>1, <3>1 DEF TypeOK, Create
    <3>3. QED
      BY <2>1, <3>2 DEF TypeOK, Create
  <2>2. CASE Approve(r)
    <3> DEFINE New(j) == [job[j] EXCEPT !.state = "queued", !.due = TRUE]
    <3>1. \A j \in Job : New(j) \in JobRow
      <4> SUFFICES ASSUME NEW j \in Job PROVE New(j) \in JobRow
        OBVIOUS
      <4>1. job[j] \in JobRow /\ "queued" \in JobState
        BY <1>0 DEF JobState
      <4>2. QED
        BY <4>1, RowUpdates
    <3>2. job' = [j \in Job |-> IF j[1] = r /\ job[j].state = "approval" THEN New(j) ELSE job[j]]
      BY <2>2 DEF Approve
    <3> HIDE DEF New
    <3>3. job' \in [Job -> JobRow]
      BY <1>0, <3>1, <3>2
    <3>4. park' \in [Request -> {"null", "delivery", "author_import"}]
      BY <2>2 DEF TypeOK, Approve
    <3>5. QED
      BY <2>2, <3>3, <3>4 DEF TypeOK, Approve
  <2>3. ASSUME NEW formats \in SUBSET Format, RetryDelivery(r, formats) PROVE TypeOK'
    <3> DEFINE Retried(j) == [job[j] EXCEPT
                  !.state = IF park[r] = "null" THEN "approval" ELSE "queued",
                  !.attempts = 0, !.due = TRUE,
                  !.code = IF @ = "" THEN "" ELSE "manual_import_retry"]
    <3>1. ASSUME NEW j \in Job PROVE Retried(j) \in JobRow
      <4> DEFINE s == IF park[r] = "null" THEN "approval" ELSE "queued"
                 c == IF job[j].code = "" THEN "" ELSE "manual_import_retry"
      <4>1. s \in JobState /\ c \in JobCode
        BY DEF JobState, JobCode
      <4>2. Retried(j) = [job[j] EXCEPT !.state = s, !.attempts = 0, !.due = TRUE, !.code = c]
        OBVIOUS
      <4> HIDE DEF s, c, Retried
      <4>3. QED
        <5>1. job[j] \in JobRow
          BY <1>0
        <5>2. QED
          <6>1. [job[j] EXCEPT !.state = s, !.attempts = 0, !.due = TRUE, !.code = c] \in JobRow
            BY <4>1, <5>1, RowUpdates
          <6>2. QED
            BY <4>2, <6>1, Zenon
    <3>2. job' = [j \in Job |-> IF j[1] = r /\ j[2] \in formats /\ job[j].state \in {"attention", "retry"}
                               THEN Retried(j) ELSE job[j]]
      BY <2>3 DEF RetryDelivery
    <3> HIDE DEF Retried
    <3>3. job' \in [Job -> JobRow]
      BY <1>0, <3>1, <3>2
    <3>4. QED
      BY <2>3, <3>3 DEF TypeOK, RetryDelivery
  <2>4. CASE LoadDecision(r)
    BY <2>4 DEF TypeOK, LoadDecision, DecisionState
  <2>5. ASSUME NEW newPark \in {"null", "delivery", "author_import"}, Close(r, newPark) PROVE TypeOK'
    <3>1. job' \in [Job -> JobRow]
      BY <2>5, CancelledRows DEF Close
    <3>2. decision' \in [Request -> DecisionState]
      BY <2>5 DEF TypeOK, Close, DecisionState
    <3>3. QED
      BY <2>5, <3>1, <3>2 DEF TypeOK, Close
  <2>6. CASE Deny(r) \/ CancelDelivery(r)
    <3>1. park[r] \in {"null", "delivery", "author_import"}
      BY DEF TypeOK
    <3>2. QED
      BY <2>5, <2>6, <3>1 DEF Deny, CancelDelivery
  <2>7. ASSUME NEW keep \in SUBSET Format, Unsubscribe(r, keep) PROVE TypeOK'
    <3>1. job' \in [Job -> JobRow]
      BY <2>7, CancelledRows DEF Unsubscribe
    <3>2. /\ status' \in [Request -> {"none", "pending", "requested", "denied"}]
          /\ park' \in [Request -> {"null", "delivery", "author_import"}]
      BY <2>7 DEF TypeOK, Unsubscribe, Settle
    <3>3. QED
      BY <2>7, <3>1, <3>2 DEF TypeOK, Unsubscribe
  <2>8. QED
    BY <1>1, <2>1, <2>2, <2>3, <2>4, <2>6, <2>7 DEF UserStep
<1>2. ASSUME NEW r \in Request, HandlerStep(r) PROVE TypeOK'
  <2>1. CASE RefuseDecision(r)
    BY <2>1, Rows DEF TypeOK, RefuseDecision
  <2>2. CASE CheckCleanUp(r)
    BY <2>2, Rows DEF TypeOK, CheckCleanUp, DecisionState
  <2>3. CASE CancelImport(r)
    BY <2>3, Rows DEF TypeOK, CancelImport, DropImport
  <2>4. QED
    BY <1>2, <2>1, <2>2, <2>3 DEF HandlerStep
<1>3. ASSUME NEW r \in Request, SweepStep(r) PROVE TypeOK'
  <2>1. CASE ReconcileApproval(r)
    <3> DEFINE New(j) == [job[j] EXCEPT !.state = "complete", !.code = ""]
               live == {j \in JobsOf(r) : job[j].state = "approval" /\ library[j] = "monitored"}
    <3>1. \A j \in Job : New(j) \in JobRow
      BY <1>0, RowUpdates DEF JobState, JobCode
    <3>0. job' = [j \in Job |-> IF j \in live THEN New(j) ELSE job[j]]
      BY <2>1 DEF ReconcileApproval
    <3> HIDE DEF New, live
    <3>2. job' \in [Job -> JobRow]
      BY <1>0, <3>1, <3>0
    <3>3. /\ status' \in [Request -> {"none", "pending", "requested", "denied"}]
          /\ park' \in [Request -> {"null", "delivery", "author_import"}]
      BY <2>1 DEF TypeOK, ReconcileApproval, Settle
    <3>4. QED
      BY <2>1, <3>2, <3>3 DEF TypeOK, ReconcileApproval
  <2>2. CASE ReadImport(r)
    <3> DEFINE Verdicts == {Out("attention", ""), Out("queued", ""), Out("attention", "import_failed")}
    <3>1. PICK out \in ImportVerdict(r) \union {AccessProblem} : sweep' = [req |-> r, out |-> out]
      BY <2>2 DEF ReadImport
    <3>2. out \in Verdicts
      <4>1. author[AuthorOf[r]] \in {"absent", "importing", "failed", "present"}
        BY ConstantsAssumption DEF TypeOK
      <4>2. CASE out = AccessProblem
        BY <4>2 DEF AccessProblem
      <4>3. CASE out \in ImportVerdict(r)
        BY <4>1, <4>3 DEF ImportVerdict
      <4>4. QED
        BY <3>1, <4>2, <4>3
    <3>3. out \in [state : {"queued", "attention"}, code : JobCode]
      <4>1. \A s \in {"queued", "attention"}, c \in JobCode :
               Out(s, c) \in [state : {"queued", "attention"}, code : JobCode]
        BY DEF Out
      <4>2. {"", "import_failed"} \subseteq JobCode
        BY DEF JobCode
      <4>3. QED
        BY <3>2, <4>1, <4>2
    <3>4. sweep' \in SweepState
      BY <3>1, <3>3 DEF SweepState
    <3>5. QED
      BY <2>2, <3>4 DEF TypeOK, ReadImport
  <2>3. QED
    BY <1>3, <2>1, <2>2 DEF SweepStep
<1>4. CASE ApplyImport
  <2>1. job' \in [Job -> JobRow]
    <3> DEFINE New(j) == [job[j] EXCEPT !.state = sweep.out.state, !.code = sweep.out.code, !.due = TRUE]
    <3>1. sweep.out.state \in JobState /\ sweep.out.code \in JobCode
      BY DEF TypeOK, SweepState, JobState
    <3>2. \A j \in Job : New(j) \in JobRow
      BY <1>0, <3>1, RowUpdates
    <3>3. \/ job' = [j \in Job |-> IF j \in Waiting(sweep.req) THEN New(j) ELSE job[j]]
          \/ job' = job
      BY <1>4 DEF ApplyImport
    <3> HIDE DEF New
    <3>4. QED
      BY <1>0, <3>2, <3>3
  <2>2. park' \in [Request -> {"null", "delivery", "author_import"}]
    <3>1. \/ park' = [park EXCEPT ![sweep.req] = IF @ = "author_import" THEN "delivery" ELSE @]
          \/ park' = park
      BY <1>4 DEF ApplyImport
    <3>2. park \in [Request -> {"null", "delivery", "author_import"}]
      BY DEF TypeOK
    <3>3. QED
      BY <3>1, <3>2
  <2>3. QED
    BY <1>4, <2>1, <2>2, Rows DEF TypeOK, ApplyImport
<1>5. ASSUME NEW w \in Worker, NEW j \in Job, Claim(w, j) PROVE TypeOK'
  <2> DEFINE t == Fresh
  <2>1. t \in Token
    BY <1>5 DEF Claim, Fresh
  <2>2. /\ lock' = [lock EXCEPT ![LockOf(j)] = [token |-> t, live |-> TRUE]]
        /\ job' = [job EXCEPT ![j] = [job[j] EXCEPT
              !.state = "processing", !.token = t, !.live = TRUE,
              !.attempts = IF @ < MaxAttempts THEN @ + 1 ELSE @]]
        /\ worker' = [worker EXCEPT ![w] = [Idle EXCEPT !.pc = "load", !.job = j, !.token = t]]
    BY <1>5 DEF Claim
  <2> HIDE DEF t
  <2>3. job' \in [Job -> JobRow]
    <3> DEFINE n == IF job[j].attempts < MaxAttempts THEN job[j].attempts + 1 ELSE job[j].attempts
               new == [job[j] EXCEPT !.state = "processing", !.token = t, !.live = TRUE, !.attempts = n]
    <3>1. n \in 0 .. MaxAttempts
      <4>1. job[j].attempts \in 0 .. MaxAttempts
        BY <1>0, LeaseUpdates
      <4>2. QED
        BY <4>1, ConstantsAssumption
    <3>2. job' = [job EXCEPT ![j] = new]
      BY <2>2, Zenon
    <3> HIDE DEF n
    <3>3. new \in JobRow
      BY <1>0, <2>1, <3>1, LeaseUpdates
    <3> HIDE DEF new
    <3>4. QED
      BY <1>0, <3>2, <3>3
  <2>4. lock' \in [Instance -> LockRow]
    BY <2>1, <2>2 DEF TypeOK, LockRow
  <2>5. [Idle EXCEPT !.pc = "load", !.job = j, !.token = t] \in WorkerState
    BY <2>1, Rows DEF Idle, WorkerState
  <2>6. worker' \in [Worker -> WorkerState]
    BY <2>2, <2>5 DEF TypeOK
  <2>7. QED
    BY <1>5, <2>3, <2>4, <2>6 DEF Claim, TypeOK
<1>6. ASSUME NEW w \in Worker, WorkerStep(w) \/ Abandon(w) \/ RenewJob(w) \/ RenewLock(w)
      PROVE  TypeOK'
  <2>1. worker' \in [Worker -> WorkerState]
    BY <1>6, WorkerLocal DEF WorkersTyped
  <2>2. CASE Load(w) \/ Probe(w) \/ CheckHeld(w) \/ ReadLibrary(w)
    BY <2>1, <2>2 DEF Load, Probe, CheckHeld, ReadLibrary, Local, TypeOK
  <2>3. CASE Guard(w)
    <3>1. job' \in [Job -> JobRow]
      <4>1. \/ job' = [job EXCEPT ![worker[w].job].started = TRUE]
            \/ job' = job
        BY <2>3 DEF Guard
      <4>2. QED
        BY <1>0, <4>1, LeaseUpdates
    <3>2. QED
      BY <2>1, <2>3, <3>1 DEF Guard, TypeOK
  <2>4. CASE Write(w)
    <3>1. /\ library' \in [Job -> {"absent", "armed", "added", "monitored"}]
          /\ author' \in [Author -> {"absent", "importing", "failed", "present"}]
      <4>1. /\ library \in [Job -> {"absent", "armed", "added", "monitored"}]
            /\ author \in [Author -> {"absent", "importing", "failed", "present"}]
        BY DEF TypeOK
      <4>2. ASSUME NEW reply, AddBook(w, reply) PROVE
                /\ library' \in [Job -> {"absent", "armed", "added", "monitored"}]
                /\ author' \in [Author -> {"absent", "importing", "failed", "present"}]
        BY <4>1, <4>2 DEF AddBook
      <4>3. ASSUME NEW reply, SetBookMonitored(w, reply) \/ ReopenImport(w, reply) PROVE
                /\ library' \in [Job -> {"absent", "armed", "added", "monitored"}]
                /\ author' \in [Author -> {"absent", "importing", "failed", "present"}]
        BY <4>1, <4>3 DEF SetBookMonitored, ReopenImport
      <4>4. QED
        BY <2>4, <4>1, <4>2, <4>3 DEF Write
    <3>2. QED
      BY <2>1, <2>4, <3>1 DEF Write, TypeOK
  <2>5. CASE Finish(w)
    <3>1. job' \in [Job -> JobRow]
      <4> DEFINE out == IF worker[w].out.state = "retry" /\ job[worker[w].job].attempts >= MaxAttempts
                        THEN Out("attention", "") ELSE worker[w].out
      <4>1. out \in RealOutcome
        <5>1. worker[w].out \in RealOutcome
          BY <2>5 DEF TypeInv, TypeOK, WorkerState, OutcomesAreReal, Finish, RealOutcome
        <5>2. Out("attention", "") \in RealOutcome
          BY DEF Out, Outcome, RealOutcome, JobCode
        <5>3. QED
          BY <5>1, <5>2
      <4> HIDE DEF out
      <4>2. \/ job' = job
            \/ job' = [job EXCEPT ![worker[w].job] = [@ EXCEPT
                       !.state = out.state, !.code = out.code, !.due = (out.state # "retry"),
                       !.token = NoToken, !.live = FALSE]]
        BY <2>5 DEF Finish, out
      <4>3. out.state \in {"complete", "waiting_library", "retry", "attention"} /\ out.code \in JobCode
        BY <4>1 DEF Outcome, RealOutcome
      <4>4. CASE job' = job
        BY <1>0, <4>4
      <4>5. CASE job' # job
        <5> DEFINE j == worker[w].job
                   new == [job[j] EXCEPT !.state = out.state, !.code = out.code,
                             !.due = (out.state # "retry"), !.token = NoToken, !.live = FALSE]
        <5>1. j \in Job => new \in JobRow
          <6> SUFFICES ASSUME j \in Job PROVE new \in JobRow
            OBVIOUS
          <6> DEFINE d == out.state # "retry"
          <6>1. /\ job[j] \in JobRow /\ out.state \in JobState
                /\ out.code \in JobCode /\ d \in BOOLEAN
            BY <1>0, <4>3 DEF JobState
          <6> HIDE DEF d
          <6>2. QED
            <7>1. [job[j] EXCEPT !.state = out.state, !.code = out.code, !.due = d,
                     !.token = NoToken, !.live = FALSE] \in JobRow
              BY <6>1, RowUpdates
            <7>2. QED
              BY <7>1, Zenon DEF d
        <5>2. job' = [job EXCEPT ![j] = new]
          BY <4>2, <4>5
        <5> HIDE DEF new, j
        <5>3. QED
          BY <1>0, <5>1, <5>2
      <4>6. QED
        BY <4>4, <4>5
    <3>2. /\ status' \in [Request -> {"none", "pending", "requested", "denied"}]
          /\ park' \in [Request -> {"null", "delivery", "author_import"}]
      <4>1. /\ status \in [Request -> {"none", "pending", "requested", "denied"}]
            /\ park \in [Request -> {"null", "delivery", "author_import"}]
        BY DEF TypeOK
      <4> DEFINE r == worker[w].job[1]
      <4>2. /\ \/ status' = status
               \/ status' = [status EXCEPT ![r] = "requested"]
               \/ status' = [status EXCEPT ![r] = @]
            /\ \/ park' = park
               \/ park' = [park EXCEPT ![r] = "null"]
               \/ park' = [park EXCEPT ![r] = "author_import"]
               \/ park' = [park EXCEPT ![r] = @]
        BY <2>5 DEF Finish
      <4>3. QED
        BY <4>1, <4>2
    <3>3. QED
      BY <2>1, <2>5, <3>1, <3>2 DEF Finish, TypeOK
  <2>6. CASE Release(w)
    BY <2>1, <2>6, Rows DEF Release, TypeOK
  <2>7. CASE Abandon(w)
    BY <2>1, <2>7, ConstantsAssumption DEF Abandon, TypeOK
  <2>8. CASE RenewJob(w)
    <3>1. job' \in [Job -> JobRow]
      BY <1>0, <2>8, LeaseUpdates DEF RenewJob
    <3>2. QED
      BY <2>8, <3>1 DEF RenewJob, TypeOK
  <2>9. CASE RenewLock(w)
    BY <2>9 DEF RenewLock, TypeOK, LockRow
  <2>10. QED
    BY <1>6, <2>2, <2>3, <2>4, <2>5, <2>6, <2>7, <2>8, <2>9 DEF WorkerStep
<1>7. ASSUME NEW j \in Job, ExpireJob(j) \/ BackoffEnds(j) \/ AddedByHand(j) PROVE TypeOK'
  <2>1. job' \in [Job -> JobRow]
    BY <1>0, <1>7, LeaseUpdates DEF ExpireJob, BackoffEnds, AddedByHand, Outside
  <2>2. /\ library' \in [Job -> {"absent", "armed", "added", "monitored"}]
        /\ author' \in [Author -> {"absent", "importing", "failed", "present"}]
    BY <1>7 DEF ExpireJob, BackoffEnds, AddedByHand, TypeOK
  <2>3. QED
    BY <1>7, <2>1, <2>2 DEF ExpireJob, BackoffEnds, AddedByHand, Outside, TypeOK
<1>8. ASSUME NEW i \in Instance, ExpireLock(i) PROVE TypeOK'
  BY <1>8 DEF ExpireLock, TypeOK, LockRow
<1>9. ASSUME NEW a \in Author, LibraryStep(a) PROVE TypeOK'
  BY <1>9 DEF LibraryStep, ImportLands, ImportFails, ImportCancelled, DropImport, Outside, TypeOK
<1>10. CASE Crash
  BY <1>10, Rows, ConstantsAssumption DEF Crash, TypeOK
<1>11. CASE UNCHANGED vars
  BY <1>11 DEF vars, TypeOK
<1>12. QED
  BY <1>1, <1>2, <1>3, <1>4, <1>5, <1>6, <1>7, <1>8, <1>9, <1>10, <1>11 DEF Next

\* A worker that finishes has a real outcome, whatever step is taken.
LEMMA OutcomeStep == TypeInv /\ [Next]_vars => OutcomesAreReal'
<1> SUFFICES ASSUME TypeInv, [Next]_vars PROVE OutcomesAreReal'
  OBVIOUS
<1>1. worker \in [Worker -> WorkerState] /\ OutcomesAreReal
  BY DEF TypeInv, TypeOK
<1>2. ASSUME UNCHANGED worker PROVE OutcomesAreReal'
  BY <1>1, <1>2 DEF OutcomesAreReal, At
<1>3. ASSUME NEW w \in Worker, WorkerStep(w) \/ Abandon(w) \/ RenewJob(w) \/ RenewLock(w)
      PROVE  OutcomesAreReal'
  BY <1>3, WorkerLocal DEF WorkersTyped
<1>4. ASSUME NEW w \in Worker, NEW j \in Job, Claim(w, j) PROVE OutcomesAreReal'
  <2> DEFINE new == [Idle EXCEPT !.pc = "load", !.job = j, !.token = Fresh]
  <2>1. worker' = [worker EXCEPT ![w] = new]
    BY <1>4 DEF Claim
  <2>2. new.pc = "load"
    BY DEF Idle
  <2> HIDE DEF new
  <2>3. QED
    BY <1>1, <2>1, <2>2 DEF OutcomesAreReal, At
<1>5. CASE Crash
  BY <1>5 DEF Crash, OutcomesAreReal, At, Idle
<1>6. ASSUME NEW r \in Request, UserStep(r) PROVE UNCHANGED worker
  BY <1>6 DEF UserStep, Create, Approve, RetryDelivery, LoadDecision, Deny, CancelDelivery,
              Close, Unsubscribe
<1>7. ASSUME NEW r \in Request, HandlerStep(r) \/ SweepStep(r) PROVE UNCHANGED worker
  BY <1>7 DEF HandlerStep, RefuseDecision, CheckCleanUp, CancelImport, SweepStep,
              ReconcileApproval, ReadImport
<1>8. ASSUME NEW j \in Job, ExpireJob(j) \/ BackoffEnds(j) \/ AddedByHand(j) PROVE UNCHANGED worker
  BY <1>8 DEF ExpireJob, BackoffEnds, AddedByHand, Outside
<1>9. ASSUME NEW a \in Author, LibraryStep(a) PROVE UNCHANGED worker
  BY <1>9 DEF LibraryStep, ImportLands, ImportFails, ImportCancelled, Outside
<1>10. ASSUME ApplyImport \/ (\E i \in Instance : ExpireLock(i)) \/ UNCHANGED vars
       PROVE  UNCHANGED worker
  BY <1>10 DEF ApplyImport, ExpireLock, vars
<1>11. QED
  BY <1>2, <1>3, <1>4, <1>5, <1>6, <1>7, <1>8, <1>9, <1>10 DEF Next

\* Type correctness: rows and local states stay in their types.
THEOREM TypeCorrect == Spec => []TypeOK
<1>1. Init => TypeInv
  BY TypeInit
<1>2. TypeInv /\ [Next]_vars => TypeInv'
  BY TypeStep, OutcomeStep DEF TypeInv
<1>3. TypeInv => TypeOK
  BY DEF TypeInv
<1>4. QED
  BY <1>1, <1>2, <1>3, PTL DEF Spec

----------------------------------------------------------------------------
(* The lease protocol.                                                     *)

\* Users, handlers and sweeps leave every row in flight alone: they refuse
\* while the request has one, or touch rows in other states only.
LEMMA RowsInFlight ==
    ASSUME TypeInv, InFlightNotDecided,
           \/ \E r \in Request : UserStep(r) \/ HandlerStep(r) \/ SweepStep(r)
           \/ ApplyImport
    PROVE  /\ UNCHANGED <<worker, lock>>
           /\ \A j \in Job : job[j].state = "processing" => job'[j] = job[j]
           /\ \A j \in Job : job'[j].state = "processing" => job'[j] = job[j]
           /\ \A s \in Request : status[s] # "none" => status'[s] # "none"
           /\ \A j \in Job : status[j[1]] # "none" /\ job[j].started => job'[j].started
<1> DEFINE Untouched ==
       /\ UNCHANGED <<worker, lock>>
       /\ \A j \in Job : job[j].state = "processing" => job'[j] = job[j]
       /\ \A j \in Job : job'[j].state = "processing" => job'[j] = job[j]
       /\ \A s \in Request : status[s] # "none" => status'[s] # "none"
       /\ \A j \in Job : status[j[1]] # "none" /\ job[j].started => job'[j].started
<1>1. /\ job \in [Job -> JobRow] /\ \A j \in Job : job[j] \in JobRow
      /\ status \in [Request -> {"none", "pending", "requested", "denied"}]
      /\ park \in [Request -> {"null", "delivery", "author_import"}]
      /\ sweep \in SweepState
  BY DEF TypeInv, TypeOK
<1>2. ASSUME NEW r \in Request, NEW formats, NEW free, NEW approval, Create(r, formats, free, approval)
      PROVE  Untouched
  <2>1. \A j \in Job : j[1] = r => job[j].state # "processing"
    BY <1>2 DEF Create, InFlightNotDecided, InDelivery
  <2>2. \A j \in Job : \/ job'[j] = job[j]
                       \/ j[1] = r /\ job'[j].state \in {"complete", "approval", "queued"}
    BY <1>2 DEF Create, NewJob
  <2>3. \A s \in Request : status'[s] = status[s] \/ status'[s] \in {"requested", "pending"}
    BY <1>1, <1>2 DEF Create
  <2>4. status[r] = "none" /\ UNCHANGED <<worker, lock>>
    BY <1>2 DEF Create
  <2>5. QED
    BY <2>1, <2>2, <2>3, <2>4
<1>3. ASSUME NEW r \in Request, Approve(r) PROVE Untouched
  <2>1. \A j \in Job : \/ job'[j] = job[j]
                       \/ /\ job[j].state = "approval" /\ job'[j].state = "queued"
                          /\ job'[j].started = job[j].started
    BY <1>1, <1>3 DEF Approve, JobRow
  <2>2. QED
    BY <1>3, <2>1 DEF Approve
<1>4. ASSUME NEW r \in Request, NEW formats, RetryDelivery(r, formats) PROVE Untouched
  <2>1. \A j \in Job : \/ job'[j] = job[j]
                       \/ /\ job[j].state \in {"attention", "retry"}
                          /\ job'[j].state \in {"approval", "queued"}
                          /\ job'[j].started = job[j].started
    BY <1>1, <1>4 DEF RetryDelivery, JobRow
  <2>2. QED
    BY <1>4, <2>1 DEF RetryDelivery
<1>5. ASSUME NEW r \in Request, ~Processing(r), NEW S \in SUBSET JobsOf(r), job' = Cancelled(job, S)
      PROVE  \A j \in Job : \/ job'[j] = job[j]
                            \/ /\ job[j].state # "processing" /\ job'[j].state = "cancelled"
                               /\ job'[j].started = job[j].started
  <2>1. \A j \in S : job[j].state # "processing"
    BY <1>5 DEF Processing
  <2>2. QED
    BY <1>1, <1>5, <2>1 DEF Cancelled, JobRow
<1>6. ASSUME NEW r \in Request, NEW newPark, Close(r, newPark) PROVE Untouched
  <2>1. \A j \in Job : \/ job'[j] = job[j]
                       \/ /\ job[j].state # "processing" /\ job'[j].state = "cancelled"
                          /\ job'[j].started = job[j].started
    BY <1>5, <1>6 DEF Close
  <2>2. \A s \in Request : status'[s] = status[s] \/ status'[s] = "denied"
    BY <1>1, <1>6 DEF Close
  <2>3. UNCHANGED <<worker, lock>>
    BY <1>6 DEF Close
  <2>4. QED
    BY <2>1, <2>2, <2>3
<1>7. ASSUME NEW r \in Request, NEW keep, Unsubscribe(r, keep) PROVE Untouched
  <2>1. \A j \in Job : \/ job'[j] = job[j]
                       \/ /\ job[j].state # "processing" /\ job'[j].state = "cancelled"
                          /\ job'[j].started = job[j].started
    BY <1>5, <1>7 DEF Unsubscribe
  <2>2. \A s \in Request : status'[s] = status[s] \/ status'[s] = "requested"
    BY <1>1, <1>7 DEF Unsubscribe, Settle
  <2>3. UNCHANGED <<worker, lock>>
    BY <1>7 DEF Unsubscribe
  <2>4. QED
    BY <2>1, <2>2, <2>3
<1>8. ASSUME NEW r \in Request, LoadDecision(r) \/ HandlerStep(r) \/ ReadImport(r) PROVE Untouched
  BY <1>8 DEF LoadDecision, HandlerStep, RefuseDecision, CheckCleanUp, CancelImport, ReadImport
<1>9. ASSUME NEW r \in Request, ReconcileApproval(r) PROVE Untouched
  <2>1. \A j \in Job : \/ job'[j] = job[j]
                       \/ /\ job[j].state = "approval" /\ job'[j].state = "complete"
                          /\ job'[j].started = job[j].started
    BY <1>1, <1>9 DEF ReconcileApproval, JobRow
  <2>2. \A s \in Request : status'[s] = status[s] \/ status'[s] = "requested"
    BY <1>1, <1>9 DEF ReconcileApproval, Settle
  <2>3. UNCHANGED <<worker, lock>>
    BY <1>9 DEF ReconcileApproval
  <2>4. QED
    BY <2>1, <2>2, <2>3
<1>10. CASE ApplyImport
  <2>1. sweep.out.state \in {"queued", "attention"}
    BY <1>1 DEF SweepState
  <2>2. \A j \in Job : \/ job'[j] = job[j]
                       \/ /\ job[j].state = "waiting_library"
                          /\ job'[j].state \in {"queued", "attention"}
                          /\ job'[j].started = job[j].started
    <3> DEFINE New(j) == [job[j] EXCEPT !.state = sweep.out.state, !.code = sweep.out.code, !.due = TRUE]
    <3>1. \/ job' = [j \in Job |-> IF j \in Waiting(sweep.req) THEN New(j) ELSE job[j]]
          \/ job' = job
      BY <1>10 DEF ApplyImport
    <3>2. \A j \in Job : New(j).state = sweep.out.state /\ New(j).started = job[j].started
      BY <1>1 DEF JobRow
    <3>3. \A j \in Waiting(sweep.req) : job[j].state = "waiting_library"
      BY DEF Waiting
    <3> HIDE DEF New
    <3>4. QED
      BY <2>1, <3>1, <3>2, <3>3
  <2>3. QED
    BY <1>10, <2>2 DEF ApplyImport
<1>11. QED
  BY <1>2, <1>3, <1>4, <1>6, <1>7, <1>8, <1>9, <1>10 DEF UserStep, SweepStep, Deny, CancelDelivery

\* ... and no worker records anything but the outcome of its own attempt.
LEMMA InFlightStep == TypeInv /\ InFlightNotDecided /\ [Next]_vars => InFlightNotDecided'
<1> SUFFICES ASSUME TypeInv, InFlightNotDecided, [Next]_vars,
                    NEW j \in Job, job'[j].state = "processing"
             PROVE  InDelivery(j[1])'
  BY DEF InFlightNotDecided
<1>1. /\ job \in [Job -> JobRow] /\ job[j] \in JobRow /\ j[1] \in Request
      /\ status \in [Request -> {"none", "pending", "requested", "denied"}]
      /\ park \in [Request -> {"null", "delivery", "author_import"}]
      /\ sweep \in SweepState
  BY DEF TypeInv, TypeOK, Job
<1>2. ASSUME job[j].state = "processing", UNCHANGED <<status, park>> PROVE InDelivery(j[1])'
  BY <1>2 DEF InFlightNotDecided, InDelivery
<1>3. ASSUME job[j].state = "processing" PROVE Processing(j[1]) /\ InDelivery(j[1])
  BY <1>3 DEF Processing, JobsOf, InFlightNotDecided
<1>4. ASSUME NEW r \in Request, UserStep(r) \/ HandlerStep(r) \/ SweepStep(r) PROVE InDelivery(j[1])'
  <2>1. job[j].state = "processing"
    BY <1>4, RowsInFlight
  <2>2. /\ status[j[1]] = "pending" /\ park[j[1]] = "delivery" /\ Processing(j[1])
    BY <1>3, <2>1 DEF InDelivery
  <2>3. ASSUME NEW formats, NEW free, NEW approval, Create(r, formats, free, approval)
        PROVE  InDelivery(j[1])'
    BY <1>1, <2>2, <2>3 DEF Create, InDelivery
  <2>4. CASE Approve(r)
    BY <1>1, <2>2, <2>4 DEF Approve, InDelivery
  <2>5. ASSUME NEW newPark, Close(r, newPark) PROVE InDelivery(j[1])'
    BY <1>1, <2>2, <2>5 DEF Close, InDelivery
  <2>6. ASSUME NEW keep, Unsubscribe(r, keep) PROVE InDelivery(j[1])'
    BY <1>1, <2>2, <2>6 DEF Unsubscribe, Settle, InDelivery
  <2>7. CASE ReconcileApproval(r)
    BY <1>1, <2>2, <2>7 DEF ReconcileApproval, Settle, InDelivery
  <2>8. CASE LoadDecision(r) \/ HandlerStep(r) \/ ReadImport(r)
               \/ \E formats \in {Format} \union {{f} : f \in Format} : RetryDelivery(r, formats)
    <3>1. UNCHANGED <<status, park>>
      BY <2>8 DEF LoadDecision, HandlerStep, RefuseDecision, CheckCleanUp, CancelImport,
                  ReadImport, RetryDelivery
    <3>2. QED
      BY <1>2, <2>1, <3>1
  <2>9. QED
    BY <1>4, <2>3, <2>4, <2>5, <2>6, <2>7, <2>8 DEF UserStep, SweepStep, Deny, CancelDelivery
<1>5. CASE ApplyImport
  <2>1. job[j].state = "processing"
    BY <1>5, RowsInFlight
  <2>2. status[j[1]] = "pending" /\ park[j[1]] = "delivery"
    BY <1>3, <2>1 DEF InDelivery
  <2>3. status' = status /\ park'[j[1]] = "delivery"
    BY <1>1, <1>5, <2>2 DEF ApplyImport
  <2>4. QED
    BY <2>2, <2>3 DEF InDelivery
<1>6. ASSUME NEW w \in Worker, NEW k \in Job, Claim(w, k) PROVE InDelivery(j[1])'
  <2>1. UNCHANGED <<status, park>>
    BY <1>6 DEF Claim
  <2>2. CASE j = k
    BY <1>6, <2>1, <2>2 DEF Claim, InDelivery
  <2>3. CASE j # k
    BY <1>1, <1>2, <1>6, <2>1, <2>3 DEF Claim
  <2>4. QED
    BY <2>2, <2>3
<1>7. ASSUME NEW w \in Worker, Finish(w) PROVE InDelivery(j[1])'
  <2> DEFINE k == worker[w].job
  <2>1. CASE UNCHANGED <<job, status, park>>
    BY <1>2, <2>1
  <2>2. CASE OwnsJob(w)
    <3> DEFINE out == IF worker[w].out.state = "retry" /\ job[k].attempts >= MaxAttempts
                      THEN Out("attention", "") ELSE worker[w].out
               row == [job[k] EXCEPT !.state = out.state, !.code = out.code,
                         !.due = (out.state # "retry"), !.token = NoToken, !.live = FALSE]
               left == Unfinished(job', k[1])
    <3>1. out.state # "processing"
      <4>1. worker[w].out \in Outcome
        BY DEF TypeInv, TypeOK, WorkerState
      <4>2. QED
        BY <4>1 DEF Outcome, Out
    <3>2. /\ job' = [job EXCEPT ![k] = row]
          /\ status' = [status EXCEPT ![k[1]] =
                IF InDelivery(k[1]) /\ left = {} THEN "requested" ELSE @]
          /\ park' = [park EXCEPT ![k[1]] =
                IF ~InDelivery(k[1]) THEN @
                ELSE IF left = {} THEN "null"
                ELSE IF \A i \in left : job'[i].state = "waiting_library"
                THEN "author_import" ELSE @]
      BY <1>7, <2>2 DEF Finish
    <3>3. k = j => row.state = out.state
      BY <1>1 DEF JobRow
    <3> HIDE DEF row, out
    <3>4. j # k /\ job'[j] = job[j]
      BY <1>1, <3>1, <3>2, <3>3
    <3>5. j[1] = k[1] => j \in left
      BY <3>4 DEF Unfinished, Settled
    <3>6. status[j[1]] = "pending" /\ park[j[1]] = "delivery"
      BY <1>3, <3>4 DEF InDelivery
    <3> HIDE DEF left
    <3>7. status'[j[1]] = "pending" /\ park'[j[1]] = "delivery"
      BY <1>1, <3>2, <3>4, <3>5, <3>6
    <3>8. QED
      BY <3>7 DEF InDelivery
  <2>3. QED
    BY <1>7, <2>1, <2>2 DEF Finish
<1>8. ASSUME NEW w \in Worker, WorkerStep(w) \/ Abandon(w) \/ RenewJob(w) \/ RenewLock(w), ~Finish(w)
      PROVE  InDelivery(j[1])'
  <2>1. UNCHANGED <<status, park>>
    BY <1>8 DEF WorkerStep, Load, Probe, CheckHeld, ReadLibrary, Local, Guard, Write, Release,
                Abandon, RenewJob, RenewLock
  <2>2. \/ job' = job
        \/ job' = [job EXCEPT ![worker[w].job].started = TRUE]
        \/ job' = [job EXCEPT ![worker[w].job].live = TRUE]
    BY <1>8 DEF WorkerStep, Load, Probe, CheckHeld, ReadLibrary, Local, Guard, Write, Release,
                Abandon, RenewJob, RenewLock
  <2>3. job[j].state = "processing"
    BY <1>1, <2>2 DEF JobRow
  <2>4. QED
    BY <1>2, <2>1, <2>3
<1>9. ASSUME NEW k \in Job, ExpireJob(k) \/ BackoffEnds(k) \/ AddedByHand(k) PROVE InDelivery(j[1])'
  <2>1. UNCHANGED <<status, park>> /\ job[j].state = "processing"
    BY <1>1, <1>9 DEF ExpireJob, BackoffEnds, AddedByHand, Outside, JobRow
  <2>2. QED
    BY <1>2, <2>1
<1>10. CASE \/ \E i \in Instance : ExpireLock(i)
            \/ \E a \in Author : LibraryStep(a)
            \/ Crash
            \/ UNCHANGED vars
  <2>1. UNCHANGED <<status, park, job>>
    BY <1>10 DEF ExpireLock, LibraryStep, ImportLands, ImportFails, ImportCancelled, Outside,
                 Crash, vars
  <2>2. QED
    BY <1>2, <2>1
<1>11. QED
  BY <1>4, <1>5, <1>6, <1>7, <1>8, <1>9, <1>10 DEF Next

\* A request with a job in flight is in delivery: no interleaving of deny,
\* cancel, retry, unsubscribe, sweeps and workers takes it away from them.
THEOREM NotDecidedInFlight == Spec => []InFlightNotDecided
<1>1. Init => TypeInv /\ InFlightNotDecided
  <2>1. NewJob("absent").state = "absent"
    BY DEF NewJob
  <2>2. Init => \A j \in Job : job[j] = NewJob("absent")
    BY DEF Init
  <2>3. QED
    BY <2>1, <2>2, TypeInit DEF InFlightNotDecided
<1>2. TypeInv /\ InFlightNotDecided /\ [Next]_vars => (TypeInv /\ InFlightNotDecided)'
  BY TypeStep, OutcomeStep, InFlightStep DEF TypeInv
<1>3. QED
  BY <1>1, <1>2, PTL DEF Spec

-----------------------------------------------------------------------------
(* Who records an outcome. *)

\* One step of one worker: nobody else's local state changes, and its own
\* token and job only when it claims or returns.
LEMMA WorkerMoves ==
    ASSUME TypeInv, NEW w \in Worker,
           WorkerStep(w) \/ Abandon(w) \/ RenewJob(w) \/ RenewLock(w)
    PROVE  /\ \A v \in Worker \ {w} : worker'[v] = worker[v]
           /\ \/ Release(w) /\ worker'[w] = Idle
              \/ /\ worker'[w].token = worker[w].token /\ worker'[w].job = worker[w].job
                 /\ worker'[w].pc # "idle" /\ worker[w].pc # "idle"
                 /\ worker[w].pc = "release" => worker'[w] = worker[w]
           /\ UNCHANGED status \/ Finish(w)
<1>1. worker \in [Worker -> WorkerState] /\ worker[w] \in WorkerState
  BY DEF TypeInv, TypeOK
<1> DEFINE Moved == /\ \A v \in Worker \ {w} : worker'[v] = worker[v]
                    /\ worker'[w].token = worker[w].token /\ worker'[w].job = worker[w].job
                    /\ worker'[w].pc # "idle"
<1>2. ASSUME NEW out, FinishWith(w, out) PROVE Moved
  BY <1>1, <1>2 DEF FinishWith, WorkerState
<1>3. ASSUME Return(w) PROVE Moved
  BY <1>1, <1>3 DEF Return, WorkerState
<1>4. ASSUME NEW op, AskToWrite(w, op) PROVE Moved
  BY <1>1, <1>4 DEF AskToWrite, WorkerState
<1>5. ASSUME NEW pc \in {"probe", "held", "add", "write"}, Goto(w, pc) PROVE Moved
  BY <1>1, <1>5 DEF Goto, WorkerState
<1> HIDE DEF Moved
<1>6. CASE Load(w)
  BY <1>2, <1>5, <1>6 DEF Load, Local, At, Moved
<1>7. CASE Probe(w)
  BY <1>2, <1>4, <1>5, <1>7 DEF Probe, Local, At, Moved
<1>8. CASE CheckHeld(w)
  BY <1>3, <1>5, <1>8 DEF CheckHeld, Local, At, Moved
<1>9. CASE ReadLibrary(w)
  BY <1>2, <1>4, <1>9 DEF ReadLibrary, Local, At, Moved
<1>10. CASE Guard(w)
  BY <1>2, <1>5, <1>10 DEF Guard, At, Moved
<1>11. CASE Write(w)
  BY <1>2, <1>4, <1>11 DEF Write, At, Moved
<1>12. CASE Finish(w)
  BY <1>3, <1>12 DEF Finish, At, Moved
<1>13. CASE Abandon(w)
  BY <1>3, <1>13 DEF Abandon, Running, At, Moved
<1>14. CASE Release(w)
  BY <1>1, <1>14 DEF Release
<1>15. CASE RenewJob(w) \/ RenewLock(w)
  BY <1>1, <1>15 DEF RenewJob, RenewLock, Beating, Running
<1>16. QED
  BY <1>6, <1>7, <1>8, <1>9, <1>10, <1>11, <1>12, <1>13, <1>14, <1>15 DEF WorkerStep

\* Steps that are neither a user's, a sweep's nor finishDelivery's keep a row
\* in its state, or put it in flight.
LEMMA StatesInFlight ==
    ASSUME TypeInv, NEW j \in Job, job[j].state = "processing",
           \/ \E w \in Worker : \/ WorkerStep(w) /\ ~Finish(w)
                               \/ Abandon(w) \/ RenewJob(w) \/ RenewLock(w)
           \/ \E w \in Worker, k \in Job : Claim(w, k)
           \/ \E k \in Job : ExpireJob(k) \/ BackoffEnds(k) \/ AddedByHand(k)
           \/ \E i \in Instance : ExpireLock(i)
           \/ \E a \in Author : LibraryStep(a)
           \/ Crash
           \/ UNCHANGED vars
    PROVE  job'[j].state = "processing"
<1>1. job \in [Job -> JobRow] /\ job[j] \in JobRow
  BY DEF TypeInv, TypeOK
<1>2. ASSUME NEW w \in Worker, \/ WorkerStep(w) /\ ~Finish(w)
                               \/ Abandon(w) \/ RenewJob(w) \/ RenewLock(w)
      PROVE  job'[j].state = "processing"
  <2>1. \/ job' = job
        \/ job' = [job EXCEPT ![worker[w].job].started = TRUE]
        \/ job' = [job EXCEPT ![worker[w].job].live = TRUE]
    BY <1>2 DEF WorkerStep, Load, Probe, CheckHeld, ReadLibrary, Local, Guard, Write, Release,
                Abandon, RenewJob, RenewLock
  <2>2. QED
    BY <1>1, <2>1 DEF JobRow
<1>3. ASSUME NEW w \in Worker, NEW k \in Job, Claim(w, k) PROVE job'[j].state = "processing"
  BY <1>1, <1>3 DEF Claim, JobRow
<1>4. ASSUME NEW k \in Job, ExpireJob(k) \/ BackoffEnds(k) \/ AddedByHand(k)
      PROVE  job'[j].state = "processing"
  BY <1>1, <1>4 DEF ExpireJob, BackoffEnds, AddedByHand, Outside, JobRow
<1>5. CASE \/ \E i \in Instance : ExpireLock(i)
           \/ \E a \in Author : LibraryStep(a)
           \/ Crash
           \/ UNCHANGED vars
  BY <1>5 DEF ExpireLock, LibraryStep, ImportLands, ImportFails, ImportCancelled, Outside,
              Crash, vars
<1>6. QED
  BY <1>2, <1>3, <1>4, <1>5

\* Only finishDelivery under the row's own token ends an attempt.
LEMMA FencedStep ==
    ASSUME TypeInv, InFlightNotDecided, [Next]_vars, NEW j \in Job,
           job[j].state = "processing", job'[j].state # "processing"
    PROVE  \E w \in Worker : /\ At(w, "finish") /\ worker[w].job = j
                             /\ worker[w].token = job[j].token
                             /\ worker'[w].pc = "release"
<1>1. ~((\E r \in Request : UserStep(r) \/ HandlerStep(r) \/ SweepStep(r)) \/ ApplyImport)
  BY RowsInFlight
<1>2. PICK w \in Worker : Finish(w)
  BY <1>1, StatesInFlight DEF Next
<1>3. OwnsJob(w) /\ worker[w].job = j
  <2>1. job \in [Job -> JobRow]
    BY DEF TypeInv, TypeOK
  <2>2. job' # job
    OBVIOUS
  <2>3. OwnsJob(w)
    BY <1>2, <2>2 DEF Finish
  <2>4. PICK row : job' = [job EXCEPT ![worker[w].job] = row]
    BY <1>2, <2>3 DEF Finish
  <2>5. QED
    BY <2>1, <2>3, <2>4
<1>4. worker'[w].pc = "release"
  <2>1. Return(w)
    BY <1>2 DEF Finish
  <2>2. worker \in [Worker -> WorkerState] /\ worker[w] \in WorkerState
    BY DEF TypeInv, TypeOK
  <2>3. QED
    BY <2>1, <2>2 DEF Return, WorkerState
<1>5. QED
  BY <1>2, <1>3, <1>4 DEF Finish, OwnsJob

\* A worker whose job was claimed again can no longer move it.
THEOREM OutcomesAreFenced == Spec => FencedOutcome
<1>1. Init => TypeInv
  BY TypeInit
<1> DEFINE Fenced == \A j \in Job : job[j].state = "processing" /\ job'[j].state # "processing" =>
                        \E w \in Worker : /\ At(w, "finish") /\ worker[w].job = j
                                          /\ worker[w].token = job[j].token
                                          /\ worker'[w].pc = "release"
<1>2. TypeInv /\ InFlightNotDecided /\ [Next]_vars => [Fenced]_vars
  BY FencedStep
<1>3. TypeInv /\ [Next]_vars => TypeInv'
  BY TypeStep, OutcomeStep DEF TypeInv
<1>4. QED
  BY <1>1, <1>2, <1>3, NotDecidedInFlight, PTL DEF Spec, FencedOutcome

-----------------------------------------------------------------------------
(* Leases. *)

\* A fresh token is held by nobody.
LEMMA FreshToken ==
    ASSUME Token \ TokensInUse # {}
    PROVE  /\ Fresh \in Token
           /\ \A v \in Worker : worker[v].token # Fresh
BY DEF Fresh, TokensInUse

\* A claim moves its worker alone.
LEMMA ClaimMoves ==
    ASSUME TypeInv, NEW w \in Worker, NEW j \in Job, Claim(w, j)
    PROVE  /\ \A v \in Worker \ {w} : worker'[v] = worker[v]
           /\ worker'[w].pc = "load" /\ worker'[w].job = j /\ worker'[w].token = Fresh
           /\ UNCHANGED status
<1> DEFINE new == [Idle EXCEPT !.pc = "load", !.job = j, !.token = Fresh]
<1>1. worker \in [Worker -> WorkerState]
  BY DEF TypeInv, TypeOK
<1>2. worker' = [worker EXCEPT ![w] = new] /\ UNCHANGED status
  BY DEF Claim
<1>3. new.pc = "load" /\ new.job = j /\ new.token = Fresh
  BY DEF Idle
<1> HIDE DEF new
<1>4. QED
  BY <1>1, <1>2, <1>3

\* Steps of nobody: leases and back-off end, the library moves on.
EnvironmentStep ==
    \/ \E j \in Job : ExpireJob(j) \/ BackoffEnds(j) \/ AddedByHand(j)
    \/ \E i \in Instance : ExpireLock(i)
    \/ \E a \in Author : LibraryStep(a)
    \/ UNCHANGED vars

\* The surroundings of the workers move no worker and decide no request.
LEMMA EnvironmentMoves == EnvironmentStep => UNCHANGED <<worker, status>>
BY DEF EnvironmentStep, ExpireJob, BackoffEnds, AddedByHand, ExpireLock, LibraryStep, ImportLands,
       ImportFails, ImportCancelled, Outside, vars

\* A running worker's token is its own.
LEMMA ExclusiveStep ==
    TypeInv /\ InFlightNotDecided /\ TokensAreExclusive /\ [Next]_vars => TokensAreExclusive'
<1> SUFFICES ASSUME TypeInv, InFlightNotDecided, TokensAreExclusive, [Next]_vars
             PROVE  TokensAreExclusive'
  OBVIOUS
<1>1. /\ \A w \in Worker : IF Running(w)
                           THEN /\ worker[w].token \in Token /\ worker[w].job \in Job
                                /\ worker[w].job[1] \in Request
                                /\ status[worker[w].job[1]] # "none"
                           ELSE worker[w].token = NoToken
      /\ \A w, v \in Worker : Running(w) /\ worker[w].token = worker[v].token => w = v
  BY DEF TokensAreExclusive, Job
<1>2. ASSUME UNCHANGED worker, \A s \in Request : status[s] # "none" => status'[s] # "none"
      PROVE  TokensAreExclusive'
  BY <1>1, <1>2 DEF TokensAreExclusive, Running
<1>3. CASE (\E r \in Request : UserStep(r) \/ HandlerStep(r) \/ SweepStep(r)) \/ ApplyImport
  BY <1>2, <1>3, RowsInFlight
<1>4. CASE EnvironmentStep
  BY <1>2, <1>4, EnvironmentMoves
<1>5. ASSUME NEW w \in Worker, NEW j \in Job, Claim(w, j) PROVE TokensAreExclusive'
  <2>1. Fresh \in Token /\ \A v \in Worker : worker[v].token # Fresh
    BY <1>5, FreshToken DEF Claim
  <2>2. status[j[1]] # "none"
    BY <1>5 DEF Claim, InDelivery
  <2>3. QED
    BY <1>1, <1>5, <2>1, <2>2, ClaimMoves DEF TokensAreExclusive, Running
<1>6. ASSUME NEW w \in Worker, WorkerStep(w) \/ Abandon(w) \/ RenewJob(w) \/ RenewLock(w)
      PROVE  TokensAreExclusive'
  <2>1. \A s \in Request : status[s] # "none" => status'[s] # "none"
    <3>1. CASE UNCHANGED status
      BY <3>1
    <3>2. CASE Finish(w)
      <4>1. status \in [Request -> {"none", "pending", "requested", "denied"}]
        BY DEF TypeInv, TypeOK
      <4>2. \/ status' = status
            \/ status' = [status EXCEPT ![worker[w].job[1]] = "requested"]
            \/ status' = [status EXCEPT ![worker[w].job[1]] = @]
        BY <3>2 DEF Finish
      <4>3. QED
        BY <4>1, <4>2
    <3>3. QED
      BY <1>6, <3>1, <3>2, WorkerMoves
  <2>2. CASE Release(w) /\ worker'[w] = Idle
    <3>1. Idle.pc = "idle" /\ Idle.token = NoToken /\ NoToken \notin Token
      BY ConstantsAssumption DEF Idle
    <3>2. \A v \in Worker \ {w} : worker'[v] = worker[v]
      BY <1>6, WorkerMoves
    <3>3. QED
      BY <1>1, <2>1, <2>2, <3>1, <3>2 DEF TokensAreExclusive, Running
  <2>3. CASE ~(Release(w) /\ worker'[w] = Idle)
    <3>1. /\ \A v \in Worker \ {w} : worker'[v] = worker[v]
          /\ worker'[w].token = worker[w].token /\ worker'[w].job = worker[w].job
          /\ worker'[w].pc # "idle" /\ worker[w].pc # "idle"
      BY <1>6, <2>3, WorkerMoves
    <3>2. QED
      BY <1>1, <2>1, <3>1 DEF TokensAreExclusive, Running
  <2>4. QED
    BY <2>2, <2>3
<1>7. CASE Crash
  <2>1. Idle.pc = "idle" /\ Idle.token = NoToken
    BY DEF Idle
  <2>2. \A w \in Worker : worker'[w] = Idle
    BY <1>7 DEF Crash
  <2>3. QED
    BY <2>1, <2>2 DEF TokensAreExclusive, Running
<1>8. QED
  BY <1>3, <1>4, <1>5, <1>6, <1>7 DEF Next, EnvironmentStep

\* Nothing erases the permanent delivery marker of a saved request.
LEMMA MarkerKept ==
    ASSUME TypeInv, InFlightNotDecided, [Next]_vars,
           NEW j \in Job, status[j[1]] # "none", job[j].started
    PROVE  job'[j].started
<1>1. job \in [Job -> JobRow] /\ job[j] \in JobRow
  BY DEF TypeInv, TypeOK
<1>2. CASE (\E r \in Request : UserStep(r) \/ HandlerStep(r) \/ SweepStep(r)) \/ ApplyImport
  BY <1>2, RowsInFlight
<1>3. ASSUME NEW w \in Worker, NEW k \in Job, Claim(w, k) PROVE job'[j].started
  BY <1>1, <1>3 DEF Claim, JobRow
<1>4. ASSUME NEW w \in Worker, WorkerStep(w) \/ Abandon(w) \/ RenewJob(w) \/ RenewLock(w), ~Finish(w)
      PROVE  job'[j].started
  <2>1. \/ job' = job
        \/ job' = [job EXCEPT ![worker[w].job].started = TRUE]
        \/ job' = [job EXCEPT ![worker[w].job].live = TRUE]
    BY <1>4 DEF WorkerStep, Load, Probe, CheckHeld, ReadLibrary, Local, Guard, Write, Release,
                Abandon, RenewJob, RenewLock
  <2>2. QED
    BY <1>1, <2>1 DEF JobRow
<1>5. ASSUME NEW w \in Worker, Finish(w) PROVE job'[j].started
  <2> DEFINE k == worker[w].job
             out == IF worker[w].out.state = "retry" /\ job[k].attempts >= MaxAttempts
                    THEN Out("attention", "") ELSE worker[w].out
             row == [job[k] EXCEPT !.state = out.state, !.code = out.code,
                       !.due = (out.state # "retry"), !.token = NoToken, !.live = FALSE]
  <2>1. job' = job \/ job' = [job EXCEPT ![k] = row]
    BY <1>5 DEF Finish
  <2>2. k = j => row.started
    BY <1>1 DEF JobRow
  <2> HIDE DEF row, k
  <2>3. QED
    BY <1>1, <2>1, <2>2
<1>6. CASE EnvironmentStep
  <2>1. ASSUME NEW k \in Job, ExpireJob(k) \/ BackoffEnds(k) \/ AddedByHand(k) PROVE job'[j].started
    BY <1>1, <2>1 DEF ExpireJob, BackoffEnds, AddedByHand, Outside, JobRow
  <2>2. CASE \/ \E i \in Instance : ExpireLock(i)
             \/ \E a \in Author : LibraryStep(a)
             \/ UNCHANGED vars
    BY <2>2 DEF ExpireLock, LibraryStep, ImportLands, ImportFails, ImportCancelled, Outside, vars
  <2>3. QED
    BY <1>6, <2>1, <2>2 DEF EnvironmentStep
<1>7. CASE Crash
  BY <1>7 DEF Crash
<1>8. QED
  BY <1>2, <1>3, <1>4, <1>5, <1>6, <1>7 DEF Next, EnvironmentStep

\* startDelivery is the only way to a write, and it leaves the marker.
LEMMA MarkedStep ==
    TypeInv /\ InFlightNotDecided /\ TokensAreExclusive /\ WritesAreMarked /\ [Next]_vars
        => WritesAreMarked'
<1> SUFFICES ASSUME TypeInv, InFlightNotDecided, TokensAreExclusive, WritesAreMarked, [Next]_vars,
                    NEW w \in Worker, worker'[w].pc = "write"
             PROVE  job'[worker'[w].job].started
  BY DEF WritesAreMarked, At
<1>1. ASSUME worker'[w] = worker[w] PROVE job'[worker'[w].job].started
  <2>1. /\ worker[w].job \in Job /\ status[worker[w].job[1]] # "none"
        /\ job[worker[w].job].started
    BY <1>1 DEF TokensAreExclusive, Running, WritesAreMarked, At
  <2>2. QED
    BY <1>1, <2>1, MarkerKept
<1>2. ASSUME UNCHANGED worker PROVE job'[worker'[w].job].started
  BY <1>1, <1>2
<1>3. CASE (\E r \in Request : UserStep(r) \/ HandlerStep(r) \/ SweepStep(r)) \/ ApplyImport
  BY <1>2, <1>3, RowsInFlight
<1>4. CASE EnvironmentStep
  BY <1>2, <1>4, EnvironmentMoves
<1>5. ASSUME NEW v \in Worker, NEW j \in Job, Claim(v, j) PROVE job'[worker'[w].job].started
  BY <1>1, <1>5, ClaimMoves
<1>6. ASSUME NEW v \in Worker, WorkerStep(v) \/ Abandon(v) \/ RenewJob(v) \/ RenewLock(v)
      PROVE  job'[worker'[w].job].started
  <2>1. CASE v # w
    BY <1>1, <1>6, <2>1, WorkerMoves
  <2>2. CASE v = w /\ (RenewJob(w) \/ RenewLock(w))
    BY <1>2, <2>2 DEF RenewJob, RenewLock
  <2>3. CASE v = w /\ ~(RenewJob(w) \/ RenewLock(w))
    <3>1. worker \in [Worker -> WorkerState] /\ worker[w] \in WorkerState
          /\ job \in [Job -> JobRow]
      BY DEF TypeInv, TypeOK
    <3>2. /\ \A out : ~FinishWith(w, out)
          /\ ~Return(w)
          /\ \A op : ~AskToWrite(w, op)
          /\ \A pc \in {"probe", "held", "add"} : ~Goto(w, pc)
          /\ ~Release(w)
      <4>1. ASSUME NEW out, FinishWith(w, out) PROVE FALSE
        BY <3>1, <4>1 DEF FinishWith, WorkerState
      <4>2. ASSUME Return(w) PROVE FALSE
        BY <3>1, <4>2 DEF Return, WorkerState
      <4>3. ASSUME NEW op, AskToWrite(w, op) PROVE FALSE
        BY <3>1, <4>3 DEF AskToWrite, WorkerState
      <4>4. ASSUME NEW pc \in {"probe", "held", "add"}, Goto(w, pc) PROVE FALSE
        BY <3>1, <4>4 DEF Goto, WorkerState
      <4>5. ASSUME Release(w) PROVE FALSE
        BY <3>1, <4>5 DEF Release, Idle
      <4>6. QED
        BY <4>1, <4>2, <4>3, <4>4, <4>5
    <3>3. ~(Load(w) \/ Probe(w) \/ CheckHeld(w) \/ ReadLibrary(w) \/ Write(w) \/ Finish(w) \/ Abandon(w))
      BY <3>2 DEF Load, Probe, CheckHeld, ReadLibrary, Write, Finish, Abandon
    <3>4. Guard(w)
      BY <1>6, <2>3, <3>2, <3>3 DEF WorkerStep
    <3>5. job' = [job EXCEPT ![worker[w].job].started = TRUE] /\ Goto(w, "write")
      BY <3>2, <3>4 DEF Guard
    <3>6. worker[w].job \in Job /\ worker'[w].job = worker[w].job
      BY <3>1, <3>4, <3>5 DEF Goto, WorkerState, Guard, At, TokensAreExclusive, Running
    <3>7. QED
      BY <3>1, <3>5, <3>6 DEF JobRow
  <2>4. QED
    BY <2>1, <2>2, <2>3
<1>7. CASE Crash
  BY <1>7 DEF Crash, Idle
<1>8. QED
  BY <1>3, <1>4, <1>5, <1>6, <1>7 DEF Next, EnvironmentStep

\* Even if leases expire under it, no worker is about to write for a job that
\* lacks its permanent marker.
THEOREM NoUnmarkedWrite == Spec => []WritesAreMarked
<1> DEFINE Inv == TypeInv /\ InFlightNotDecided /\ TokensAreExclusive /\ WritesAreMarked
<1>1. Init => TokensAreExclusive /\ WritesAreMarked
  BY DEF Init, TokensAreExclusive, WritesAreMarked, Running, At, Idle
<1>2. TypeInv /\ [Next]_vars => TypeInv'
  BY TypeStep, OutcomeStep DEF TypeInv
<1>3. QED
  BY <1>1, <1>2, TypeInit, NotDecidedInFlight, ExclusiveStep, MarkedStep, PTL DEF Spec

\* What LeasesAreKept says of one worker.
Kept(w) ==
    /\ Beating(w) => OwnsJob(w) /\ job[worker[w].job].live
    /\ Running(w) => OwnsLock(w) /\ lock[LockOf(worker[w].job)].live

\* A step that takes neither row from a worker, nor moves it, keeps its leases.
LEMMA KeptBesides ==
    ASSUME TypeInv, NEW w \in Worker, Kept(w), Running(w)' => worker[w].job \in Job,
           worker'[w].token = worker[w].token, worker'[w].job = worker[w].job,
           Running(w)' => Running(w), Beating(w)' => Beating(w),
           Beating(w) /\ Beating(w)' /\ OwnsJob(w) /\ job[worker[w].job].live =>
              /\ job'[worker[w].job].state = "processing" /\ job'[worker[w].job].live
              /\ job'[worker[w].job].token = job[worker[w].job].token,
           Running(w) /\ Running(w)' /\ OwnsLock(w) /\ lock[LockOf(worker[w].job)].live =>
              /\ lock'[LockOf(worker[w].job)].token = lock[LockOf(worker[w].job)].token
              /\ lock'[LockOf(worker[w].job)].live
    PROVE  Kept(w)'
<1>1. LockOf(worker[w].job)' = LockOf(worker[w].job)
  BY DEF LockOf
<1>2. Beating(w)' => OwnsJob(w)' /\ job'[worker'[w].job].live
  BY DEF Kept, OwnsJob
<1>3. Running(w)' => OwnsLock(w)' /\ lock'[LockOf(worker'[w].job)].live
  BY <1>1 DEF Kept, OwnsLock, LockOf
<1>4. QED
  BY <1>1, <1>2, <1>3 DEF Kept, LockOf

\* Claims need the lock row free, records and releases go by token, and time
\* takes leases from nobody who holds them.
LEMMA KeptStep ==
    ASSUME TypeInv, InFlightNotDecided, TokensAreExclusive, ~AllowStall,
           \A w \in Worker : Kept(w), [Next]_vars
    PROVE  \A w \in Worker : Kept(w)'
<1> SUFFICES ASSUME NEW w \in Worker PROVE Kept(w)'
  OBVIOUS
<1> DEFINE k == worker[w].job
           i == LockOf(worker[w].job)
<1>1. /\ job \in [Job -> JobRow] /\ \A j \in Job : job[j] \in JobRow
      /\ lock \in [Instance -> LockRow] /\ \A j \in Instance : lock[j] \in LockRow
      /\ worker \in [Worker -> WorkerState] /\ worker[w] \in WorkerState
      /\ \A j \in Job : LockOf(j) \in Instance
  BY ConstantsAssumption DEF TypeInv, TypeOK, LockOf, Job
<1>2. Kept(w) /\ (Running(w) => k \in Job)
  BY DEF TokensAreExclusive
<1>3. ASSUME worker'[w] = worker[w] PROVE (Running(w)' <=> Running(w)) /\ (Beating(w)' <=> Beating(w))
  BY <1>3 DEF Running, Beating, At
<1>4. CASE (\E r \in Request : UserStep(r) \/ HandlerStep(r) \/ SweepStep(r)) \/ ApplyImport
  <2>1. UNCHANGED <<worker, lock>> /\ \A j \in Job : job[j].state = "processing" => job'[j] = job[j]
    BY <1>4, RowsInFlight
  <2>2. QED
    BY <1>2, <1>3, <2>1, KeptBesides DEF OwnsJob, Beating
<1>5. ASSUME NEW v \in Worker, NEW j \in Job, Claim(v, j) PROVE Kept(w)'
  <2>1. /\ Due(j) /\ ~lock[LockOf(j)].live
        /\ lock' = [lock EXCEPT ![LockOf(j)] = [token |-> Fresh, live |-> TRUE]]
    BY <1>5 DEF Claim
  <2>2. /\ job'[j].state = "processing" /\ job'[j].token = Fresh /\ job'[j].live
        /\ \A n \in Job \ {j} : job'[n] = job[n]
    BY <1>1, <1>5 DEF Claim, JobRow
  <2>3. CASE v = w
    <3>1. worker'[w].job = j /\ worker'[w].token = Fresh
      BY <1>5, <2>3, ClaimMoves
    <3>2. lock'[LockOf(j)].token = Fresh /\ lock'[LockOf(j)].live
      BY <1>1, <2>1
    <3>3. OwnsJob(w)' /\ job'[worker'[w].job].live
      BY <2>2, <3>1 DEF OwnsJob
    <3>4. OwnsLock(w)' /\ lock'[LockOf(worker'[w].job)].live
      BY <3>1, <3>2 DEF OwnsLock, LockOf
    <3>5. QED
      BY <3>3, <3>4 DEF Kept, LockOf
  <2>4. CASE v # w
    <3>1. worker'[w] = worker[w]
      BY <1>5, <2>4, ClaimMoves
    <3>2. job[k].state = "processing" /\ job[k].live => k # j
      BY <2>1 DEF Due
    <3>3. lock[i].live => i # LockOf(j)
      BY <2>1
    <3>4. Running(w) => i \in Instance
      BY <1>1, <1>2
    <3>5. QED
      BY <1>1, <1>2, <1>3, <2>1, <2>2, <3>1, <3>2, <3>3, <3>4, KeptBesides DEF OwnsJob, Beating
  <2>5. QED
    BY <2>3, <2>4
<1>6. ASSUME NEW v \in Worker, v # w, WorkerStep(v) \/ Abandon(v) \/ RenewJob(v) \/ RenewLock(v)
      PROVE  Kept(w)'
  <2>1. worker'[w] = worker[w]
    BY <1>6, WorkerMoves
  <2>2. CASE Finish(v)
    <3>1. UNCHANGED lock
      BY <2>2 DEF Finish
    <3>2. OwnsJob(v) /\ OwnsJob(w) /\ Running(w) => worker[v].job # k
      BY <1>6 DEF OwnsJob, TokensAreExclusive
    <3>3. \/ job' = job
          \/ OwnsJob(v) /\ \E row : job' = [job EXCEPT ![worker[v].job] = row]
      BY <2>2 DEF Finish
    <3>4. QED
      BY <1>1, <1>2, <1>3, <2>1, <3>1, <3>2, <3>3, KeptBesides DEF OwnsJob, Beating
  <2>3. CASE Release(v)
    <3>1. UNCHANGED job
      BY <2>3 DEF Release
    <3>2. OwnsLock(v) /\ OwnsLock(w) /\ Running(w) => LockOf(worker[v].job) # i
      BY <1>6 DEF OwnsLock, TokensAreExclusive
    <3>3. \/ lock' = lock
          \/ OwnsLock(v) /\ lock' = [lock EXCEPT ![LockOf(worker[v].job)] = NoLock]
      BY <2>3 DEF Release
    <3>4. QED
      BY <1>1, <1>2, <1>3, <2>1, <3>1, <3>2, <3>3, KeptBesides DEF OwnsJob, Beating
  <2>4. CASE RenewLock(v)
    <3>1. /\ UNCHANGED job
          /\ lock' = [lock EXCEPT ![LockOf(worker[v].job)].live = TRUE]
      BY <2>4 DEF RenewLock
    <3>2. Running(w) => i \in Instance
      BY <1>1, <1>2
    <3>3. Running(w) => lock'[i].token = lock[i].token /\ (lock[i].live => lock'[i].live)
      BY <1>1, <3>1, <3>2 DEF LockRow
    <3>4. QED
      BY <1>2, <1>3, <2>1, <3>1, <3>3, KeptBesides DEF OwnsJob, Beating
  <2>5. CASE ~Finish(v) /\ ~Release(v) /\ ~RenewLock(v)
    <3>1. UNCHANGED lock
      BY <1>6, <2>5 DEF WorkerStep, Load, Probe, CheckHeld, ReadLibrary, Local, Guard, Write,
                        Abandon, RenewJob
    <3>2. \/ job' = job
          \/ job' = [job EXCEPT ![worker[v].job].started = TRUE]
          \/ job' = [job EXCEPT ![worker[v].job].live = TRUE]
      BY <1>6, <2>5 DEF WorkerStep, Load, Probe, CheckHeld, ReadLibrary, Local, Guard, Write,
                        Abandon, RenewJob
    <3>3. Beating(w) => /\ job'[k].state = job[k].state /\ job'[k].token = job[k].token
                        /\ job[k].live => job'[k].live
      BY <1>1, <1>2, <3>2 DEF JobRow, Beating
    <3>4. QED
      BY <1>1, <1>2, <1>3, <2>1, <3>1, <3>3, KeptBesides DEF OwnsJob, Beating
  <2>6. QED
    BY <2>2, <2>3, <2>4, <2>5
<1>7. CASE WorkerStep(w) \/ Abandon(w) \/ RenewJob(w) \/ RenewLock(w)
  <2>1. CASE Release(w)
    <3>1. worker'[w] = Idle
      BY <1>1, <2>1 DEF Release
    <3>2. QED
      BY <3>1 DEF Kept, Beating, Running, Idle
  <2>2. CASE ~Release(w)
    <3>1. /\ worker'[w].token = worker[w].token /\ worker'[w].job = worker[w].job
          /\ Running(w) /\ (Beating(w)' => Beating(w)) /\ k \in Job /\ i \in Instance
      BY <1>1, <1>2, <1>7, <2>2, WorkerMoves DEF Running, Beating, At
    <3>2. CASE Finish(w)
      <4>1. UNCHANGED lock /\ ~Beating(w)'
        <5>1. UNCHANGED lock /\ Return(w)
          BY <3>2 DEF Finish
        <5>2. worker'[w].pc = "release"
          BY <1>1, <5>1 DEF Return, WorkerState
        <5>3. QED
          BY <5>1, <5>2 DEF Beating, At
      <4>2. QED
        BY <1>2, <3>1, <4>1, KeptBesides
    <3>3. CASE RenewLock(w)
      <4>1. UNCHANGED job /\ lock' = [lock EXCEPT ![i].live = TRUE]
        BY <3>3 DEF RenewLock
      <4>2. QED
        BY <1>1, <1>2, <3>1, <4>1, KeptBesides DEF OwnsJob, LockRow
    <3>4. CASE ~Finish(w) /\ ~RenewLock(w)
      <4>1. UNCHANGED lock
        BY <1>7, <2>2, <3>4 DEF WorkerStep, Load, Probe, CheckHeld, ReadLibrary, Local, Guard, Write,
                                Abandon, RenewJob
      <4>2. \/ job' = job
            \/ job' = [job EXCEPT ![k].started = TRUE]
            \/ job' = [job EXCEPT ![k].live = TRUE]
        BY <1>7, <2>2, <3>4 DEF WorkerStep, Load, Probe, CheckHeld, ReadLibrary, Local, Guard, Write,
                                Abandon, RenewJob
      <4>3. /\ job'[k].state = job[k].state /\ job'[k].token = job[k].token
            /\ job[k].live => job'[k].live
        BY <1>1, <3>1, <4>2 DEF JobRow
      <4>4. QED
        BY <1>2, <3>1, <4>1, <4>3, KeptBesides DEF OwnsJob
    <3>5. QED
      BY <3>2, <3>3, <3>4
  <2>3. QED
    BY <2>1, <2>2
<1>8. CASE EnvironmentStep
  <2>1. worker'[w] = worker[w]
    BY <1>8, EnvironmentMoves
  <2>2. ASSUME NEW j \in Job, ExpireJob(j) PROVE Kept(w)'
    <3>1. /\ UNCHANGED lock /\ job' = [job EXCEPT ![j].live = FALSE]
          /\ \A v \in Worker : worker[v].token # job[j].token
      BY <2>2 DEF ExpireJob, Holder
    <3>2. OwnsJob(w) => k # j
      BY <3>1 DEF OwnsJob
    <3>3. QED
      BY <1>1, <1>2, <1>3, <2>1, <3>1, <3>2, KeptBesides DEF OwnsJob, Beating
  <2>3. ASSUME NEW j \in Job, BackoffEnds(j) \/ AddedByHand(j) PROVE Kept(w)'
    <3>1. UNCHANGED lock /\ (job' = job \/ (job[j].state = "retry" /\ job' = [job EXCEPT ![j].due = TRUE]))
      BY <2>3 DEF BackoffEnds, AddedByHand, Outside
    <3>2. k \in Job /\ job[k].state = "processing" => job'[k] = job[k]
      BY <1>1, <3>1
    <3>3. QED
      BY <1>2, <1>3, <2>1, <3>1, <3>2, KeptBesides DEF OwnsJob, Beating
  <2>4. ASSUME NEW n \in Instance, ExpireLock(n) PROVE Kept(w)'
    <3>1. /\ UNCHANGED job /\ lock' = [lock EXCEPT ![n].live = FALSE]
          /\ \A v \in Worker : worker[v].token # lock[n].token
      BY <2>4 DEF ExpireLock, Holder
    <3>2. OwnsLock(w) => i # n
      BY <3>1 DEF OwnsLock
    <3>3. QED
      BY <1>1, <1>2, <1>3, <2>1, <3>1, <3>2, KeptBesides DEF OwnsJob, Beating
  <2>5. CASE (\E a \in Author : LibraryStep(a)) \/ UNCHANGED vars
    <3>1. UNCHANGED <<job, lock>>
      BY <2>5 DEF LibraryStep, ImportLands, ImportFails, ImportCancelled, Outside, vars
    <3>2. QED
      BY <1>2, <1>3, <2>1, <3>1, KeptBesides DEF OwnsJob, Beating
  <2>6. QED
    BY <1>8, <2>2, <2>3, <2>4, <2>5 DEF EnvironmentStep
<1>9. CASE Crash
  <2>1. worker'[w] = Idle
    BY <1>9 DEF Crash
  <2>2. QED
    BY <2>1 DEF Kept, Beating, Running, Idle
<1>10. QED
  BY <1>4, <1>5, <1>6, <1>7, <1>8, <1>9 DEF Next, EnvironmentStep

\* LeaseInv is inductive.
LEMMA LeaseStep == TypeInv /\ LeaseInv /\ [Next]_vars => TypeInv' /\ LeaseInv'
<1> SUFFICES ASSUME TypeInv, LeaseInv, [Next]_vars PROVE TypeInv' /\ LeaseInv'
  OBVIOUS
<1>1. TypeInv'
  BY TypeStep, OutcomeStep DEF TypeInv
<1>2. InFlightNotDecided' /\ TokensAreExclusive' /\ WritesAreMarked'
  BY InFlightStep, ExclusiveStep, MarkedStep DEF LeaseInv
<1>3. ASSUME ~AllowStall PROVE \A w \in Worker : Kept(w)'
  BY <1>3, KeptStep DEF LeaseInv, LeasesAreKept, Kept
<1>4. QED
  BY <1>1, <1>2, <1>3 DEF TypeInv, LeaseInv, LeasesAreKept, Kept

\* The lease invariant holds at first.
LEMMA LeaseInit == Init => LeaseInv
<1> SUFFICES ASSUME Init PROVE LeaseInv
  OBVIOUS
<1>1. OutcomesAreReal
  BY TypeInit DEF TypeInv
<1>2. \A w \in Worker : worker[w].pc = "idle" /\ worker[w].token = NoToken
  BY DEF Init, Idle
<1>3. TokensAreExclusive /\ LeasesAreKept /\ WritesAreMarked
  BY <1>2 DEF TokensAreExclusive, LeasesAreKept, WritesAreMarked, Running, Beating, At
<1>4. InFlightNotDecided
  <2>1. NewJob("absent").state = "absent"
    BY DEF NewJob
  <2>2. \A j \in Job : job[j] = NewJob("absent")
    BY DEF Init
  <2>3. QED
    BY <2>1, <2>2 DEF InFlightNotDecided
<1>5. QED
  BY <1>1, <1>3, <1>4 DEF LeaseInv

\* Workers that do not stall write to the library only under both leases, for
\* a request in delivery, with the marker durable ...
THEOREM WritesHoldLeases == ~AllowStall => (Spec => []WritesUnderLease)
<1> SUFFICES ASSUME ~AllowStall PROVE Spec => []WritesUnderLease
  OBVIOUS
<1>1. TypeInv /\ LeaseInv => WritesUnderLease
  <2> SUFFICES ASSUME TypeInv, LeaseInv, NEW w \in Worker, At(w, "write")
               PROVE  /\ HoldsLease(w)
                      /\ InDelivery(worker[w].job[1])
                      /\ job[worker[w].job].started
    BY DEF WritesUnderLease
  <2>1. Running(w) /\ Beating(w) /\ worker[w].job \in Job
    BY DEF Running, Beating, At, LeaseInv, TokensAreExclusive
  <2>2. HoldsLease(w)
    BY <2>1 DEF LeaseInv, LeasesAreKept, HoldsLease
  <2>3. InDelivery(worker[w].job[1])
    BY <2>1, <2>2 DEF HoldsLease, OwnsJob, LeaseInv, InFlightNotDecided
  <2>4. QED
    BY <2>2, <2>3 DEF LeaseInv, WritesAreMarked
<1>2. QED
  BY <1>1, TypeInit, LeaseInit, LeaseStep, PTL DEF Spec

\* ... and so one at a time per instance.
THEOREM OneWriter == ~AllowStall => (Spec => []OneWriterPerInstance)
<1> SUFFICES ASSUME ~AllowStall PROVE Spec => []OneWriterPerInstance
  OBVIOUS
<1>1. LeaseInv => OneWriterPerInstance
  <2> SUFFICES ASSUME LeaseInv, NEW w \in Worker, NEW v \in Worker, At(w, "write"), At(v, "write"),
                      LockOf(worker[w].job) = LockOf(worker[v].job)
               PROVE  w = v
    BY DEF OneWriterPerInstance
  <2>1. Running(w) /\ Running(v) /\ OwnsLock(w) /\ OwnsLock(v)
    BY DEF LeaseInv, LeasesAreKept, Running, At
  <2>2. worker[w].token = worker[v].token
    BY <2>1 DEF OwnsLock
  <2>3. QED
    BY <2>1, <2>2 DEF LeaseInv, TokensAreExclusive
<1>2. QED
  BY <1>1, TypeInit, LeaseInit, LeaseStep, PTL DEF Spec
=============================================================================
