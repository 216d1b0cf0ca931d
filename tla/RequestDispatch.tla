-------------------------- MODULE RequestDispatch --------------------------
(***************************************************************************)
(* Durable delivery of book and music requests (server/internal/request).  *)
(*                                                                         *)
(* A request owns one job per format.  A job row is claimed by a worker    *)
(* under a random lease token, together with a lock row of the library     *)
(* instance; the worker talks to the library (Chaptarr, Lidarr), passes a  *)
(* guard transaction before every write, and records the outcome in one    *)
(* transaction guarded by its token.  Sweeps, users and admins act on the  *)
(* same rows meanwhile, and the process may crash.                         *)
(*                                                                         *)
(* SQLite runs one transaction at a time (db.go, SetMaxOpenConns(1)), so   *)
(* a transaction is one action; everything the Go code keeps in local      *)
(* variables between two transactions or two HTTP calls is a variable of   *)
(* the model (worker, sweep, decision) and is lost by Crash.               *)
(*                                                                         *)
(* A definition that stands just before another with the same parameters,  *)
(* and differs from it by one mistake, is a mutant of it: it is used by no *)
(* action, and PROJECT.json says which property notices the mistake.       *)
(***************************************************************************)
EXTENDS Naturals

CONSTANTS
    Request,        \* rows of request_log
    Format,         \* the formats of a request, one request_dispatch row each
    Author,         \* authors, the unit of Chaptarr's native import queue
    Instance,       \* library instances, the unit of the instance-wide lock
    AuthorOf,       \* [Request -> Author]
    InstanceOf,     \* [Request -> Instance]
    Worker,         \* goroutines that may run dispatchFormat
    Token,          \* values leaseToken() draws from
    NoToken,        \* the empty lease_token
    NoJob,          \* an idle worker's job
    NoRequest,      \* an idle import sweeper's request
    MaxAttempts,    \* the retry limit (50); attempts saturate there
    MaxFaults,      \* bound on crashes and on failed database statements
    NativeImport,   \* does this library queue unknown authors (Chaptarr)?
    AllowStall      \* may a running worker's lease expire before it renews it?

ASSUME ConstantsAssumption ==
    /\ AuthorOf \in [Request -> Author]
    /\ InstanceOf \in [Request -> Instance]
    /\ \A r, s \in Request : AuthorOf[r] = AuthorOf[s] => InstanceOf[r] = InstanceOf[s]
    /\ NoToken \notin Token
    /\ NoJob \notin Request \X Format
    /\ NoRequest \notin Request
    /\ MaxAttempts \in Nat /\ MaxAttempts > 1
    /\ MaxFaults \in Nat
    /\ NativeImport \in BOOLEAN /\ AllowStall \in BOOLEAN

VARIABLES
    status,         \* request_log.status; "none" before the row exists
    park,           \* request_log.park_reason
    wanted,         \* request_log.book_format, the formats subscribers want
    job,            \* request_dispatch
    lock,           \* request_dispatch_locks; NoToken is "no row"
    worker,         \* local state of the goroutines in dispatchFormat
    library,        \* the records of the library instance (external)
    author,         \* the authors of the library instance (external)
    sweep,          \* what sweepDeliveryImports read, until its transaction
    decision,       \* what a deny or cancel handler read, and its clean-up
    faults          \* crashes and failed statements so far

vars == <<status, park, wanted, job, lock, worker, library, author, sweep,
          decision, faults>>

Job == Request \X Format

JobState == {"absent", "approval", "queued", "processing", "retry",
             "waiting_library", "attention", "complete", "cancelled"}

\* "import_failed" also stands for import_cancelled: both are retried manually.
JobCode == {"", "import_failed", "manual_import_retry"}

Outcome == [state : {"none", "complete", "waiting_library", "retry", "attention"},
            code : JobCode]
Out(s, c) == [state |-> s, code |-> c]
NoOutcome == Out("none", "")
Failed == {Out("retry", ""), Out("attention", "")}

Idle == [pc |-> "idle", job |-> NoJob, token |-> NoToken, op |-> "none",
         out |-> NoOutcome]
NoSweep == [req |-> NoRequest, out |-> Out("queued", "")]
NoDecision == [pc |-> "idle", waited |-> FALSE]
NoLock == [token |-> NoToken, live |-> FALSE]
NewJob(s) == [state |-> s, token |-> NoToken, live |-> FALSE, attempts |-> 0,
              started |-> FALSE, due |-> TRUE, code |-> ""]

JobRow == [state : JobState, token : Token \union {NoToken}, live : BOOLEAN,
           attempts : 0 .. MaxAttempts, started : BOOLEAN, due : BOOLEAN, code : JobCode]
LockRow == [token : Token \union {NoToken}, live : BOOLEAN]
WorkerState ==
    [pc : {"idle", "load", "probe", "held", "add", "guard", "write", "finish", "release"},
     job : Job \union {NoJob}, token : Token \union {NoToken},
     op : {"none", "add", "monitor", "reopen"}, out : Outcome]
SweepState == [req : Request \union {NoRequest}, out : [state : {"queued", "attention"}, code : JobCode]]
DecisionState == [pc : {"idle", "loaded", "check", "cancel"}, waited : BOOLEAN]

TypeOK ==
    /\ status \in [Request -> {"none", "pending", "requested", "denied"}]
    /\ park \in [Request -> {"null", "delivery", "author_import"}]
    /\ wanted \in [Request -> SUBSET Format]
    /\ job \in [Job -> JobRow]
    /\ lock \in [Instance -> LockRow]
    /\ worker \in [Worker -> WorkerState]
    /\ library \in [Job -> {"absent", "armed", "added", "monitored"}]
    /\ author \in [Author -> {"absent", "importing", "failed", "present"}]
    /\ sweep \in SweepState
    /\ decision \in [Request -> DecisionState]
    /\ faults \in 0 .. MaxFaults

Init ==
    /\ status = [r \in Request |-> "none"]
    /\ park = [r \in Request |-> "null"]
    /\ wanted = [r \in Request |-> {}]
    /\ job = [j \in Job |-> NewJob("absent")]
    /\ lock = [i \in Instance |-> NoLock]
    /\ worker = [w \in Worker |-> Idle]
    /\ library \in [Job -> {"absent", "monitored"}]
    /\ author \in [Author -> IF NativeImport THEN {"absent", "present"} ELSE {"present"}]
    /\ \A j \in Job : library[j] = "monitored" => author[AuthorOf[j[1]]] = "present"
    /\ sweep = NoSweep
    /\ decision = [r \in Request |-> NoDecision]
    /\ faults = 0

-----------------------------------------------------------------------------
(* Helpers over the rows of one request. *)

Settled == {"complete", "cancelled"}
JobsOf(r) == {j \in Job : j[1] = r /\ job[j].state # "absent"}
UnclaimedOnly(jobs, r) ==
    {j \in Job : j[1] = r /\ jobs[j].state \notin Settled \union {"absent", "processing"}}
Unfinished(jobs, r) == {j \in Job : j[1] = r /\ jobs[j].state \notin Settled \union {"absent"}}
Processing(r) == \E j \in JobsOf(r) : job[j].state = "processing"
LockOf(j) == InstanceOf[j[1]]
InDelivery(r) == status[r] = "pending" /\ park[r] = "delivery"

SettleNever(jobs, r) == UNCHANGED <<status, park>>
\* The delivery transactions end by settling the request when no job is left.
Settle(jobs, r) ==
    /\ status' = [status EXCEPT ![r] = IF Unfinished(jobs, r) = {} THEN "requested" ELSE @]
    /\ park' = [park EXCEPT ![r] = IF Unfinished(jobs, r) = {} THEN "null" ELSE @]

TokensInUse == {job[j].token : j \in Job} \union {lock[i].token : i \in Instance}
                   \union {worker[w].token : w \in Worker}
Fresh == CHOOSE t \in Token \ TokensInUse : TRUE

\* The lease a worker was given: job row and lock row still carry its token.
OwnsJobByState(w) == job[worker[w].job].state = "processing"
OwnsJob(w) == LET j == worker[w].job IN
    job[j].state = "processing" /\ job[j].token = worker[w].token
OwnsLock(w) == lock[LockOf(worker[w].job)].token = worker[w].token
HoldsLease(w) == LET j == worker[w].job IN
    OwnsJob(w) /\ job[j].live /\ OwnsLock(w) /\ lock[LockOf(j)].live

Goto(w, pc) == worker' = [worker EXCEPT ![w].pc = pc]
FinishWith(w, out) == worker' = [worker EXCEPT ![w].pc = "finish", ![w].op = "none", ![w].out = out]
Return(w) == worker' = [worker EXCEPT ![w].pc = "release", ![w].op = "none", ![w].out = NoOutcome]
AskToWrite(w, op) == worker' = [worker EXCEPT ![w].pc = "guard", ![w].op = op]
At(w, pc) == worker[w].pc = pc

-----------------------------------------------------------------------------
(* Users and admins. *)

\* saveDelivery: one row per requested format.  Formats the intake preflight
\* found already in the library are saved complete.
Create(r, formats, free, approval) ==
    /\ status[r] = "none"
    /\ formats # {} /\ free \subseteq formats
    /\ \A f \in free : library[<<r, f>>] = "monitored"
    /\ status' = [status EXCEPT ![r] = IF free = formats THEN "requested" ELSE "pending"]
    /\ park' = [park EXCEPT ![r] = IF approval \/ free = formats THEN "null" ELSE "delivery"]
    /\ wanted' = [wanted EXCEPT ![r] = formats]
    /\ job' = [j \in Job |-> IF j[1] # r \/ j[2] \notin formats THEN job[j]
                             ELSE NewJob(IF j[2] \in free THEN "complete"
                                         ELSE IF approval THEN "approval" ELSE "queued")]
    /\ UNCHANGED <<lock, worker, library, author, sweep, decision, faults>>

\* approveDelivery: only a request nobody decided (park_reason NULL) is queued.
Approve(r) ==
    /\ status[r] = "pending" /\ park[r] = "null"
    /\ park' = [park EXCEPT ![r] = "delivery"]
    /\ job' = [j \in Job |-> IF j[1] = r /\ job[j].state = "approval"
                             THEN [job[j] EXCEPT !.state = "queued", !.due = TRUE]
                             ELSE job[j]]
    /\ UNCHANGED <<status, wanted, lock, worker, library, author, sweep, decision, faults>>

\* DeliveryAction("retry") for one format or for all of them.
RetryDelivery(r, formats) ==
    /\ status[r] = "pending" /\ ~Processing(r)
    /\ \E f \in formats : job[<<r, f>>].state \in {"attention", "retry"}
    /\ job' = [j \in Job |->
          IF j[1] = r /\ j[2] \in formats /\ job[j].state \in {"attention", "retry"}
          THEN [job[j] EXCEPT
                  !.state = IF park[r] = "null" THEN "approval" ELSE "queued",
                  !.attempts = 0, !.due = TRUE,
                  !.code = IF @ = "" THEN "" ELSE "manual_import_retry"]
          ELSE job[j]]
    /\ UNCHANGED <<status, park, wanted, lock, worker, library, author, sweep,
                   decision, faults>>

\* DenyRequest and cancelDelivery read park_reason before their transaction.
LoadDecision(r) ==
    /\ status[r] = "pending" /\ decision[r].pc = "idle"
    /\ decision' = [decision EXCEPT ![r] = [pc |-> "loaded", waited |-> park[r] = "author_import"]]
    /\ UNCHANGED <<status, park, wanted, job, lock, worker, library, author, sweep, faults>>

Cancelled(jobs, S) == [j \in Job |->
    IF j \in S /\ jobs[j].state # "complete"
    THEN [jobs[j] EXCEPT !.state = "cancelled", !.due = TRUE] ELSE jobs[j]]

CloseInFlight(r, newPark) ==
    /\ decision[r].pc = "loaded" /\ status[r] = "pending"
    /\ job' = Cancelled(job, JobsOf(r))
    /\ status' = [status EXCEPT ![r] = "denied"]
    /\ park' = [park EXCEPT ![r] = newPark]
    /\ decision' = [decision EXCEPT ![r] = NoDecision]
    /\ UNCHANGED <<wanted, lock, worker, library, author, sweep, faults>>

CloseRowOnly(r, newPark) ==
    /\ decision[r].pc = "loaded" /\ status[r] = "pending" /\ ~Processing(r)
    /\ status' = [status EXCEPT ![r] = "denied"]
    /\ park' = [park EXCEPT ![r] = newPark]
    /\ decision' = [decision EXCEPT ![r] = NoDecision]
    /\ UNCHANGED <<wanted, job, lock, worker, library, author, sweep, faults>>

\* The transaction both share: every job that is not complete is cancelled.
Close(r, newPark) ==
    /\ decision[r].pc = "loaded"
    /\ status[r] = "pending" /\ ~Processing(r)
    /\ job' = Cancelled(job, JobsOf(r))
    /\ status' = [status EXCEPT ![r] = "denied"]
    /\ park' = [park EXCEPT ![r] = newPark]
    /\ decision' = [decision EXCEPT ![r].pc = IF decision[r].waited THEN "check" ELSE "idle"]
    /\ UNCHANGED <<wanted, lock, worker, library, author, sweep, faults>>

Deny(r) == Close(r, park[r])
CancelDelivery(r) == Close(r, "null")

RefuseDecision(r) ==
    /\ decision[r].pc = "loaded"
    /\ status[r] # "pending" \/ Processing(r)
    /\ decision' = [decision EXCEPT ![r] = NoDecision]
    /\ UNCHANGED <<status, park, wanted, job, lock, worker, library, author, sweep, faults>>

UnsubscribeKeepsWanted(r, keep) ==
    /\ status[r] = "pending" /\ ~Processing(r)
    /\ keep # {} /\ keep \subseteq wanted[r]
    /\ job' = Cancelled(job, {j \in JobsOf(r) : j[2] \notin keep})
    /\ Settle(job', r)
    /\ UNCHANGED <<wanted, lock, worker, library, author, sweep, decision, faults>>

\* cancelDelivery by one of several subscribers: the others still want "keep".
Unsubscribe(r, keep) ==
    /\ status[r] = "pending" /\ ~Processing(r)
    /\ keep # {} /\ keep \subseteq wanted[r]
    /\ wanted' = [wanted EXCEPT ![r] = keep]
    /\ job' = Cancelled(job, {j \in JobsOf(r) : j[2] \notin keep})
    /\ Settle(job', r)
    /\ UNCHANGED <<lock, worker, library, author, sweep, decision, faults>>

-----------------------------------------------------------------------------
(* After the commit: cancelAuthorImportForDeniedRequest, best effort. *)

ImportPending(a) == author[a] \in {"importing", "failed"}

OtherRequestWaitsOnAuthor(r) ==
    \E s \in Request \ {r} :
        /\ status[s] = "pending" /\ park[s] \in {"delivery", "author_import"}
        /\ InstanceOf[s] = InstanceOf[r] /\ AuthorOf[s] = AuthorOf[r]

CheckCleanUp(r) ==
    /\ decision[r].pc = "check"
    /\ decision' = [decision EXCEPT ![r] =
          IF ImportPending(AuthorOf[r]) /\ ~OtherRequestWaitsOnAuthor(r)
          THEN [@ EXCEPT !.pc = "cancel"] ELSE NoDecision]
    /\ UNCHANGED <<status, park, wanted, job, lock, worker, library, author, sweep, faults>>

\* A cancelled import row takes every add intent it carried with it.
DropImport(a) ==
    /\ ImportPending(a)
    /\ author' = [author EXCEPT ![a] = "absent"]
    /\ library' = [j \in Job |-> IF AuthorOf[j[1]] = a /\ library[j] = "armed"
                                 THEN "absent" ELSE library[j]]

CancelImport(r) ==
    /\ decision[r].pc = "cancel"
    /\ decision' = [decision EXCEPT ![r] = NoDecision]
    /\ DropImport(AuthorOf[r]) \/ UNCHANGED <<library, author>>
    /\ UNCHANGED <<status, park, wanted, job, lock, worker, sweep, faults>>

-----------------------------------------------------------------------------
(* dispatchFormat, the delivery worker.  Each step ends where the Go code     *)
(* waits for the library, the database or the clock.                          *)

Running(w) == worker[w].pc # "idle"

\* A lease ends by time only: heartbeats renew it while its worker runs, and a
\* worker that is not stalled renews it in time (30 s against 5 minutes).
Holder(token) == \E w \in Worker : worker[w].token = token

DueUnclaimed(j) == job[j].state \in {"queued", "retry"} /\ job[j].due
Due(j) ==
    \/ job[j].state \in {"queued", "retry"} /\ job[j].due
    \/ job[j].state = "processing" /\ ~job[j].live

ClaimIgnoresLock(w, j) ==
    /\ worker[w].pc = "idle"
    /\ InDelivery(j[1]) /\ Due(j)
    /\ Token \ TokensInUse # {}
    /\ lock' = [lock EXCEPT ![LockOf(j)] = [token |-> Fresh, live |-> TRUE]]
    /\ job' = [job EXCEPT ![j] = [job[j] EXCEPT
          !.state = "processing", !.token = Fresh, !.live = TRUE,
          !.attempts = IF @ < MaxAttempts THEN @ + 1 ELSE @]]
    /\ worker' = [worker EXCEPT ![w] = [Idle EXCEPT !.pc = "load", !.job = j, !.token = Fresh]]
    /\ UNCHANGED <<status, park, wanted, library, author, sweep, decision, faults>>

\* claimDelivery: the job row and the instance lock are leased under one token.
Claim(w, j) ==
    /\ worker[w].pc = "idle"
    /\ InDelivery(j[1]) /\ Due(j) /\ ~lock[LockOf(j)].live
    /\ Token \ TokensInUse # {}
    /\ lock' = [lock EXCEPT ![LockOf(j)] = [token |-> Fresh, live |-> TRUE]]
    /\ job' = [job EXCEPT ![j] = [job[j] EXCEPT
          !.state = "processing", !.token = Fresh, !.live = TRUE,
          !.attempts = IF @ < MaxAttempts THEN @ + 1 ELSE @]]
    /\ worker' = [worker EXCEPT ![w] = [Idle EXCEPT !.pc = "load", !.job = j, !.token = Fresh]]
    /\ UNCHANGED <<status, park, wanted, library, author, sweep, decision, faults>>

Local == <<status, park, wanted, job, lock, library, author, sweep, decision, faults>>

\* Access, catalogue and configuration checks, then: does this attempt probe?
Load(w) ==
    /\ At(w, "load")
    /\ \/ \E out \in Failed : FinishWith(w, out)
       \/ LET j == job[worker[w].job] IN
          Goto(w, IF j.attempts > 1 \/ j.code = "manual_import_retry" THEN "probe" ELSE "held")
    /\ UNCHANGED Local

\* A retried book is looked up, and a native import found, before another add.
Probe(w) ==
    /\ At(w, "probe")
    /\ LET j == worker[w].job
           recorded == \E k \in Job : k[1] = j[1] /\ library[k] \in {"added", "monitored"}
           import == IF recorded THEN "present" ELSE author[AuthorOf[j[1]]]
           manual == job[j].code = "manual_import_retry"
       IN \/ \E out \in Failed : FinishWith(w, out)
          \/ import = "importing" /\ FinishWith(w, Out("waiting_library", ""))
          \/ import = "failed" /\ ~manual /\ FinishWith(w, Out("attention", "import_failed"))
          \/ import = "failed" /\ manual /\ AskToWrite(w, "reopen")
          \/ import \in {"absent", "present"} /\ Goto(w, "held")
    /\ UNCHANGED Local

\* Both leases must still be this worker's; otherwise it returns and records
\* nothing.
CheckHeld(w) ==
    /\ At(w, "held")
    /\ IF HoldsLease(w) THEN Goto(w, "add") ELSE Return(w)
    /\ UNCHANGED Local

\* addToArr reads the library first: what is monitored needs no write.
ReadLibrary(w) ==
    /\ At(w, "add")
    /\ \/ \E out \in Failed : FinishWith(w, out)
       \/ IF library[worker[w].job] = "monitored"
          THEN FinishWith(w, Out("complete", ""))
          ELSE AskToWrite(w, IF library[worker[w].job] = "added" THEN "monitor" ELSE "add")
    /\ UNCHANGED Local

\* What a worker records when its write was refused or its reply was lost.
Refusal(w) == IF worker[w].op = "reopen" THEN {Out("retry", "manual_import_retry")} ELSE Failed

GuardWithoutMarker(w) ==
    /\ At(w, "guard")
    /\ \/ HoldsLease(w) /\ InDelivery(worker[w].job[1]) /\ Goto(w, "write")
       \/ \E out \in Refusal(w) : FinishWith(w, out)
    /\ UNCHANGED <<status, park, wanted, job, lock, library, author, sweep, decision, faults>>

\* startDelivery, run by the HTTP client before every write: the lease check
\* and the permanent delivery marker are one transaction.
Guard(w) ==
    /\ At(w, "guard")
    /\ \/ /\ HoldsLease(w) /\ InDelivery(worker[w].job[1])
          /\ job' = [job EXCEPT ![worker[w].job].started = TRUE]
          /\ Goto(w, "write")
       \/ /\ \E out \in Refusal(w) : FinishWith(w, out)
          /\ UNCHANGED job
    /\ UNCHANGED <<status, park, wanted, lock, library, author, sweep, decision, faults>>

\* The library's side of a write: what it stores and what it answers.
AddBook(w, reply) ==
    LET j == worker[w].job
        a == AuthorOf[j[1]]
    IN /\ worker[w].op = "add"
       /\ \/ /\ author[a] \in {"absent", "present"}
             /\ \E rec \in {"added", "monitored"} :
                  LET now == IF library[j] = "monitored" THEN "monitored" ELSE rec IN
                  /\ library' = [library EXCEPT ![j] = now]
                  /\ author' = [author EXCEPT ![a] = "present"]
                  /\ reply = IF now = "monitored" THEN Out("complete", "") ELSE NoOutcome
          \/ /\ author[a] # "present"
             /\ library' = [library EXCEPT ![j] = "armed"]
             /\ author' = [author EXCEPT ![a] = IF @ = "absent" THEN "importing" ELSE @]
             /\ reply = Out("waiting_library", "")

SetBookMonitored(w, reply) ==
    /\ worker[w].op = "monitor"
    /\ library[worker[w].job] \in {"added", "monitored"}
    /\ library' = [library EXCEPT ![worker[w].job] = "monitored"]
    /\ reply = Out("complete", "")
    /\ UNCHANGED author

ReopenImport(w, reply) ==
    /\ worker[w].op = "reopen"
    /\ author[AuthorOf[worker[w].job[1]]] = "failed"
    /\ author' = [author EXCEPT ![AuthorOf[worker[w].job[1]]] = "importing"]
    /\ reply = Out("waiting_library", "")
    /\ UNCHANGED library

Write(w) ==
    /\ At(w, "write")
    /\ \/ \E reply \in {NoOutcome, Out("complete", ""), Out("waiting_library", "")} :
            /\ AddBook(w, reply) \/ SetBookMonitored(w, reply) \/ ReopenImport(w, reply)
            /\ \/ IF reply = NoOutcome  \* added but unmonitored: a second write follows
                  THEN AskToWrite(w, "monitor")
                  ELSE FinishWith(w, reply)
               \/ \E out \in Refusal(w) : FinishWith(w, out)  \* the reply was lost
       \/ /\ \E out \in Refusal(w) : FinishWith(w, out)
          /\ UNCHANGED <<library, author>>
    /\ UNCHANGED <<status, park, wanted, job, lock, sweep, decision, faults>>

\* finishDelivery: a stale token records nothing.
Finish(w) ==
    /\ At(w, "finish")
    /\ Return(w)
    /\ LET j == worker[w].job
           r == j[1]
           out == IF worker[w].out.state = "retry" /\ job[j].attempts >= MaxAttempts
                  THEN Out("attention", "") ELSE worker[w].out
           after == [job EXCEPT ![j] = [@ EXCEPT
                       !.state = out.state, !.code = out.code, !.due = (out.state # "retry"),
                       !.token = NoToken, !.live = FALSE]]
           left == Unfinished(after, r)
       IN IF OwnsJob(w)
          THEN /\ job' = after
               /\ status' = [status EXCEPT ![r] =
                     IF InDelivery(r) /\ left = {} THEN "requested" ELSE @]
               /\ park' = [park EXCEPT ![r] =
                     IF ~InDelivery(r) THEN @
                     ELSE IF left = {} THEN "null"
                     ELSE IF \A k \in left : after[k].state = "waiting_library"
                     THEN "author_import" ELSE @]
          ELSE UNCHANGED <<job, status, park>>
    /\ UNCHANGED <<wanted, lock, library, author, sweep, decision, faults>>

\* The deferred DELETE of the lock row, by token.
Release(w) ==
    /\ At(w, "release")
    /\ lock' = IF OwnsLock(w) THEN [lock EXCEPT ![LockOf(worker[w].job)] = NoLock] ELSE lock
    /\ worker' = [worker EXCEPT ![w] = Idle]
    /\ UNCHANGED <<status, park, wanted, job, library, author, sweep, decision, faults>>

\* A failed statement makes dispatchFormat return without a recorded outcome.
Abandon(w) ==
    /\ Running(w) /\ ~At(w, "release") /\ faults < MaxFaults
    /\ Return(w)
    /\ faults' = faults + 1
    /\ UNCHANGED <<status, park, wanted, job, lock, library, author, sweep, decision>>

\* The heartbeat's two statements; each renews by token.
Beating(w) == Running(w) /\ ~At(w, "release")
RenewJob(w) ==
    /\ Beating(w) /\ OwnsJob(w) /\ ~job[worker[w].job].live
    /\ job' = [job EXCEPT ![worker[w].job].live = TRUE]
    /\ UNCHANGED <<status, park, wanted, lock, worker, library, author, sweep, decision, faults>>
RenewLock(w) ==
    /\ Beating(w) /\ OwnsLock(w) /\ ~lock[LockOf(worker[w].job)].live
    /\ lock' = [lock EXCEPT ![LockOf(worker[w].job)].live = TRUE]
    /\ UNCHANGED <<status, park, wanted, job, worker, library, author, sweep, decision, faults>>

ExpireJob(j) ==
    /\ job[j].live /\ (AllowStall \/ ~Holder(job[j].token))
    /\ job' = [job EXCEPT ![j].live = FALSE]
    /\ UNCHANGED <<status, park, wanted, lock, worker, library, author, sweep, decision, faults>>
ExpireLock(i) ==
    /\ lock[i].live /\ (AllowStall \/ ~Holder(lock[i].token))
    /\ lock' = [lock EXCEPT ![i].live = FALSE]
    /\ UNCHANGED <<status, park, wanted, job, worker, library, author, sweep, decision, faults>>

\* next_attempt_at passes.
BackoffEnds(j) ==
    /\ job[j].state = "retry" /\ ~job[j].due
    /\ job' = [job EXCEPT ![j].due = TRUE]
    /\ UNCHANGED <<status, park, wanted, lock, worker, library, author, sweep, decision, faults>>

-----------------------------------------------------------------------------
(* Sweeps. *)

\* reconcileBookApprovals, reconcileMusicApprovals: owned formats need no
\* approval.
ReconcileApproval(r) ==
    /\ status[r] = "pending" /\ park[r] = "null"
    /\ LET live == {j \in JobsOf(r) : job[j].state = "approval" /\ library[j] = "monitored"} IN
        /\ live # {}
        /\ job' = [j \in Job |-> IF j \in live THEN [job[j] EXCEPT !.state = "complete", !.code = ""]
                                 ELSE job[j]]
        /\ Settle(job', r)
    /\ UNCHANGED <<wanted, lock, worker, library, author, sweep, decision, faults>>

Waiting(r) == {j \in JobsOf(r) : job[j].state = "waiting_library"}

LandedIsDelivered(r) ==
    CASE author[AuthorOf[r]] = "present" -> {Out("complete", "")}
      [] author[AuthorOf[r]] \in {"failed", "absent"} -> {Out("attention", "import_failed")}
      [] OTHER -> {}
FailureUnnoticed(r) == IF author[AuthorOf[r]] = "present" THEN {Out("queued", "")} ELSE {}

\* What GetAuthorImportStatus says about a waiting request's author;
\* "importing" leaves the request waiting.
ImportVerdict(r) ==
    CASE author[AuthorOf[r]] = "present" -> {Out("queued", "")}
      [] author[AuthorOf[r]] \in {"failed", "absent"} -> {Out("attention", "import_failed")}
      [] OTHER -> {}
AccessProblem == Out("attention", "")

\* sweepDeliveryImports reads the library, then writes in a later transaction.
ReadImport(r) ==
    /\ sweep = NoSweep /\ status[r] = "pending" /\ Waiting(r) # {}
    /\ \E out \in ImportVerdict(r) \union {AccessProblem} : sweep' = [req |-> r, out |-> out]
    /\ UNCHANGED <<status, park, wanted, job, lock, worker, library, author, decision, faults>>

ApplyImportKeepsPark ==
    /\ sweep # NoSweep
    /\ job' = [j \in Job |-> IF status[sweep.req] = "pending" /\ j \in Waiting(sweep.req)
          THEN [job[j] EXCEPT !.state = sweep.out.state, !.code = sweep.out.code, !.due = TRUE]
          ELSE job[j]]
    /\ sweep' = NoSweep
    /\ UNCHANGED <<status, park, wanted, lock, worker, library, author, decision, faults>>

ApplyImport ==
    /\ sweep # NoSweep
    /\ LET r == sweep.req IN
        IF status[r] = "pending"
        THEN /\ job' = [j \in Job |-> IF j \in Waiting(r)
                    THEN [job[j] EXCEPT !.state = sweep.out.state, !.code = sweep.out.code, !.due = TRUE]
                    ELSE job[j]]
             /\ park' = [park EXCEPT ![r] = IF @ = "author_import" THEN "delivery" ELSE @]
        ELSE UNCHANGED <<job, park>>
    /\ sweep' = NoSweep
    /\ UNCHANGED <<status, wanted, lock, worker, library, author, decision, faults>>

-----------------------------------------------------------------------------
(* The library on its own, and crashes. *)

Outside == <<status, park, wanted, job, lock, worker, sweep, decision, faults>>

ImportLands(a) ==
    /\ author[a] = "importing"
    /\ author' = [author EXCEPT ![a] = "present"]
    /\ \E rec \in {"absent", "added", "monitored"} :
        library' = [j \in Job |-> IF AuthorOf[j[1]] = a /\ library[j] = "armed" THEN rec
                                  ELSE library[j]]
    /\ UNCHANGED Outside

ImportFails(a) ==
    /\ author[a] = "importing"
    /\ author' = [author EXCEPT ![a] = "failed"]
    /\ UNCHANGED <<Outside, library>>

ImportCancelled(a) == DropImport(a) /\ UNCHANGED Outside

\* Someone adds the book in the library itself.
AddedByHand(j) ==
    /\ library[j] \in {"absent", "added"} /\ author[AuthorOf[j[1]]] \in {"absent", "present"}
    /\ library' = [library EXCEPT ![j] = "monitored"]
    /\ author' = [author EXCEPT ![AuthorOf[j[1]]] = "present"]
    /\ UNCHANGED Outside

Crash ==
    /\ faults < MaxFaults
    /\ faults' = faults + 1
    /\ worker' = [w \in Worker |-> Idle]
    /\ sweep' = NoSweep
    /\ decision' = [r \in Request |-> NoDecision]
    /\ UNCHANGED <<status, park, wanted, job, lock, library, author>>

-----------------------------------------------------------------------------
UserStep(r) ==
    \/ \E formats, free \in SUBSET Format, approval \in BOOLEAN :
            Create(r, formats, free, approval)
    \/ Approve(r)
    \/ \E formats \in {Format} \union {{f} : f \in Format} : RetryDelivery(r, formats)
    \/ LoadDecision(r) \/ Deny(r) \/ CancelDelivery(r)
    \/ \E keep \in SUBSET Format : Unsubscribe(r, keep)

HandlerStep(r) == RefuseDecision(r) \/ CheckCleanUp(r) \/ CancelImport(r)

WorkerStep(w) == \/ Load(w) \/ Probe(w) \/ CheckHeld(w) \/ ReadLibrary(w)
                 \/ Guard(w) \/ Write(w) \/ Finish(w) \/ Release(w)

SweepStep(r) == ReconcileApproval(r) \/ ReadImport(r)

LibraryStep(a) == ImportLands(a) \/ ImportFails(a) \/ ImportCancelled(a)

Next ==
    \/ \E r \in Request : UserStep(r) \/ HandlerStep(r) \/ SweepStep(r)
    \/ ApplyImport
    \/ \E w \in Worker, j \in Job : Claim(w, j)
    \/ \E w \in Worker : WorkerStep(w) \/ Abandon(w) \/ RenewJob(w) \/ RenewLock(w)
    \/ \E j \in Job : ExpireJob(j) \/ BackoffEnds(j) \/ AddedByHand(j)
    \/ \E i \in Instance : ExpireLock(i)
    \/ \E a \in Author : LibraryStep(a)
    \/ Crash

Spec == Init /\ [][Next]_vars

(***************************************************************************)
(* Fairness.  A running goroutine takes its next step; leases and back-off *)
(* end with time; the sweeps visit every due job and every waiting request *)
(* again and again (a 10 s ticker, a maintenance ticker), so neither can   *)
(* be passed over for ever by the jobs it shares an instance with, and the *)
(* library answers the import sweep in the end.  Users, admins, imports    *)
(* and crashes are under no obligation.                                    *)
(***************************************************************************)
Fairness ==
    /\ \A w \in Worker : WF_vars(WorkerStep(w))
    /\ \A j \in Job : /\ SF_vars(\E w \in Worker : Claim(w, j))
                      /\ WF_vars(ExpireJob(j)) /\ WF_vars(BackoffEnds(j))
    /\ \A i \in Instance : WF_vars(ExpireLock(i))
    /\ \A r \in Request : SF_vars(ReadImport(r) /\ sweep'.out \in ImportVerdict(r))
    /\ WF_vars(ApplyImport)

FairSpec == Spec /\ Fairness

-----------------------------------------------------------------------------
(* Safety. *)

\* A request row and its job rows are written by many transactions; together
\* they always agree on whether anything is left to do (finishDelivery,
\* cancelDelivery, DenyRequest, the approval reconciliation, saveDelivery).
RequestMirrorsJobs ==
    \A r \in Request :
        /\ status[r] = "none" <=> JobsOf(r) = {}
        /\ status[r] = "pending" <=> Unfinished(job, r) # {}

\* A request counts as delivered only when every format its subscribers still
\* want is complete: departures, refusals and partial deliveries never add up
\* to a delivered request by themselves.
DeliversWhatIsWanted ==
    \A r \in Request :
        /\ status[r] = "requested" => wanted[r] # {}
        /\ status[r] = "requested" => \A f \in wanted[r] : job[<<r, f>>].state = "complete"

\* park_reason says who has to act: nothing of an undecided request (NULL) is
\* ever queued, nothing of an approved one still waits for approval, and an
\* author wait is one for every format that is left.
ParkMatchesJobs ==
    \A r \in Request : status[r] = "pending" =>
        \A j \in Unfinished(job, r) :
            /\ park[r] = "null" <=> job[j].state = "approval"
            /\ park[r] = "author_import" => job[j].state = "waiting_library"

\* While a job is in flight its request can be neither denied, cancelled,
\* settled nor parked, whoever's lease has expired meanwhile.
InFlightNotDecided ==
    \A j \in Job : job[j].state = "processing" => InDelivery(j[1])

\* A worker that is about to write to the library still holds the job and the
\* instance, for a request that is still in delivery, and the delivery marker
\* is already durable.
WritesUnderLease ==
    \A w \in Worker : At(w, "write") =>
        /\ HoldsLease(w)
        /\ InDelivery(worker[w].job[1])
        /\ job[worker[w].job].started

\* "Alias and source/native requests cannot concurrently mutate the same
\* library through different IDs" (claimDelivery).
OneWriterPerInstance ==
    \A w, v \in Worker :
        At(w, "write") /\ At(v, "write") /\ LockOf(worker[w].job) = LockOf(worker[v].job)
            => w = v

\* No job the library may have been asked for is ever without its permanent
\* marker, even when leases expire under a stalled worker.
WritesAreMarked ==
    \A w \in Worker : At(w, "write") => job[worker[w].job].started

\* A worker that reaches finishDelivery has an outcome to record.
OutcomesAreReal == \A w \in Worker : At(w, "finish") => worker[w].out.state # "none"

\* Why the properties above hold.  A token belongs to one worker for as
\* long as that worker runs, and names only that worker's job and instance.
TokensAreExclusive ==
    /\ \A w \in Worker : IF Running(w)
                         THEN /\ worker[w].token \in Token /\ worker[w].job \in Job
                              /\ status[worker[w].job[1]] # "none"
                         ELSE worker[w].token = NoToken
    /\ \A w, v \in Worker : Running(w) /\ worker[w].token = worker[v].token => w = v

\* Without stalls a worker keeps both leases from its claim until it returns.
LeasesAreKept ==
    ~AllowStall => \A w \in Worker :
        /\ Beating(w) => OwnsJob(w) /\ job[worker[w].job].live
        /\ Running(w) => OwnsLock(w) /\ lock[LockOf(worker[w].job)].live

LeaseInv == OutcomesAreReal /\ TokensAreExclusive /\ LeasesAreKept /\ InFlightNotDecided /\ WritesAreMarked

\* The outcome of an attempt is recorded by the worker that owns the attempt:
\* a worker whose job was claimed again can no longer move it.
FencedOutcome ==
    [][\A j \in Job : job[j].state = "processing" /\ job'[j].state # "processing" =>
          \E w \in Worker : /\ At(w, "finish") /\ worker[w].job = j
                            /\ worker[w].token = job[j].token
                            /\ worker'[w].pc = "release"]_vars

\* dispatch_worker.go:232 "A lost POST response can hide an accepted native
\* author import. Check it before replaying an add".
ReplaysAreProbed ==
    [][\A w \in Worker : At(w, "load") /\ worker'[w].pc = "held"
            => ~job[worker[w].job].started]_vars

\* client.go:1209 "a request an admin closes must cancel" the queued author
\* import, "or the content still arrives whenever the import finally lands":
\* every close of a request that is parked on the import schedules the cancel.
DeniedWaitCancelsImport ==
    [][\A r \in Request :
          /\ status[r] = "pending" /\ status'[r] = "denied"
          /\ park[r] = "author_import"
          => decision'[r].pc = "check"]_vars

\* The same for a request of which one format waits for the import while
\* another is stuck, whose park_reason was read after it settled.
DeniedPartialWaitCancelsImport ==
    [][\A r \in Request :
          /\ status[r] = "pending" /\ status'[r] = "denied"
          /\ Waiting(r) # {} /\ decision[r].waited = (park[r] = "author_import")
          => decision'[r].pc = "check"]_vars

\* service.go:4170 "another request still waiting on the same author keeps the
\* import alive, because cancelling it would strand that wait".
DenialsSpareSiblings ==
    [][\A r, s \in Request :
          /\ r # s /\ AuthorOf[r] = AuthorOf[s]
          /\ decision[r].pc = "cancel" /\ decision'[r].pc = "idle"
          /\ status[s] = "pending" /\ Waiting(s) # {}
          => author'[AuthorOf[s]] = author[AuthorOf[s]]]_vars

-----------------------------------------------------------------------------
(* The promise this module implements. *)

IntentOf(state) ==
    CASE state = "absent" -> "none"
      [] state = "complete" -> "delivered"
      [] state = "cancelled" -> "dropped"
      [] OTHER -> "open"

Intent == INSTANCE DeliveryIntent WITH
    intent <- [j \in Job |-> IntentOf(job[j].state)],
    touched <- {j \in Job : job[j].started}

\* Every step of the delivery machinery is a step of DeliveryIntent or is
\* invisible there, crashes and expired leases included.
ImplementsIntent == Intent!Spec

-----------------------------------------------------------------------------
(* Liveness. *)

\* Once users stop pressing Retry, saved work does not stay in the queue for
\* ever: whatever crashed or was refused, every job ends up delivered, handed
\* to the native import, withdrawn, or shown to a person.
DeliveryProgress ==
    <>[][\A r \in Request, formats \in SUBSET Format : ~RetryDelivery(r, formats)]_vars =>
        \A j \in Job :
            job[j].state \in {"queued", "retry", "processing"}
                ~> job[j].state \in {"attention", "waiting_library", "complete", "cancelled"}

\* A native import that ended, however it ended, is noticed: no request waits
\* for an import that is no longer running.
WaitsEnd ==
    \A r \in Request :
        (Waiting(r) # {} /\ author[AuthorOf[r]] # "importing")
            ~> (Waiting(r) = {} \/ author[AuthorOf[r]] = "importing")
=============================================================================
