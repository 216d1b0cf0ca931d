--------------------------- MODULE RequesterTags ---------------------------
(***************************************************************************)
(* Requester tagging: once a request is delivered, the title (or, in       *)
(* Lidarr, its artist) gets a tag that names who asked for it              *)
(* (server/internal/request/requester_tags.go, server/internal/arr).       *)
(*                                                                         *)
(* One library instance.  A sweep works through the jobs one at a time and *)
(* shares the instance's lock row with media delivery (RequestDispatch),   *)
(* of which only its holding of that row is modelled here.                 *)
(***************************************************************************)
EXTENDS Naturals

CONSTANTS
  Job,          \* request_tag_jobs: one per requester, title and format
  Token, NoTok, \* lease tokens, and the empty one
  Lidarr,       \* TRUE: artists, which Lidarr refreshes; FALSE: books, left and rejoined
  MaxAttempts,  \* the retry limit, 50 in the code
  MaxRefresh,   \* bound on artist refreshes
  MaxFault      \* bound on crashes and stalls

VARIABLES
  job,       \* [Job -> state, attempts, next_attempt_at <= now, lease_token, lease_until > now]
  lock,      \* request_dispatch_locks of the instance: lease_token, lease_until > now
  enabled,   \* service_instances.tag_requests
  asks,      \* whether each requester stands behind the request: never, yes, left
  done,      \* jobs whose delivery is complete
  native,    \* what the library has for each tag: none, label, title
  refresh,   \* Lidarr's refresh of the artist: running, its snapshot, how many ended
  worker,    \* the sweep's attempt
  delivery,  \* token under which media delivery writes to the instance
  retried,   \* manual retries so far, bounded by the attempts
  fault      \* crashes and stalls so far

vars == <<job, lock, enabled, asks, done, native, refresh, worker, delivery, retried, fault>>

Waiting == {"waiting", "pending", "retrying"}
Final == {"applied", "cancelled"}
State == Waiting \union Final \union {"none", "processing", "failed"}
Idle == [pc |-> "idle", job |-> CHOOSE j \in Job : TRUE, tok |-> NoTok, late |-> FALSE, seen |-> 0]
NoJob == [st |-> "none", att |-> 0, due |-> TRUE, tok |-> NoTok, live |-> FALSE]
Free == [tok |-> NoTok, live |-> FALSE]

Init ==
  /\ job = [j \in Job |-> NoJob] /\ lock = Free /\ enabled \in BOOLEAN
  /\ asks = [j \in Job |-> "never"] /\ done = {} /\ native = [j \in Job |-> "none"]
  /\ refresh = [on |-> FALSE, snap |-> {}, ended |-> 0]
  /\ worker = Idle /\ delivery = NoTok /\ retried = 0 /\ fault = 0

TypeOK ==
  /\ job \in [Job -> [st : State, att : 0 .. MaxAttempts, due : BOOLEAN,
                      tok : Token \union {NoTok}, live : BOOLEAN]]
  /\ \A j \in Job : job[j].st # "processing" => job[j].tok = NoTok /\ ~job[j].live
  /\ lock \in [tok : Token \union {NoTok}, live : BOOLEAN]
  /\ asks \in [Job -> {"never", "yes", "left"}] /\ done \subseteq Job
  /\ native \in [Job -> {"none", "label", "title"}]
  /\ worker.pc \in {"idle", "read", "guard", "write", "confirm", "applied", "retry", "final"}
  /\ retried \in 0 .. MaxAttempts /\ fault \in 0 .. MaxFault

Eligible(j) == enabled /\ asks[j] = "yes"
InUse == {lock.tok, worker.tok, delivery} \union {job[j].tok : j \in Job}
FreshTok == CHOOSE t \in Token : t \notin InUse

(* Admission.  Only an absent job, or for a book a cancelled one when its  *)
(* subscriber rejoins, is (re)opened, and only while tagging is on.        *)
Ask(j) ==
  /\ asks[j] = "never" \/ (~Lidarr /\ asks[j] = "left")
  /\ asks' = [asks EXCEPT ![j] = "yes"]
  /\ job' = IF enabled /\ job[j].st \in {"none", "cancelled"}
            THEN [job EXCEPT ![j] = [NoJob EXCEPT !.st = "waiting"]] ELSE job
  /\ UNCHANGED <<lock, enabled, done, native, refresh, worker, delivery, retried, fault>>

(* A denial, an unsubscription or the removal of the user.                 *)
Withdraw(j) ==
  /\ asks[j] = "yes"
  /\ asks' = [asks EXCEPT ![j] = "left"]
  /\ UNCHANGED <<job, lock, enabled, done, native, refresh, worker, delivery, retried, fault>>

CancelledKeepsLease(S) ==
  [j \in Job |-> IF j \in S /\ job[j].st \notin Final \union {"none"}
                 THEN [job[j] EXCEPT !.st = "cancelled"] ELSE job[j]]
Cancelled(S) ==
  [j \in Job |-> IF j \in S /\ job[j].st \notin Final \union {"none"}
                 THEN [job[j] EXCEPT !.st = "cancelled", !.tok = NoTok, !.live = FALSE]
                 ELSE job[j]]

(* Saving the instance with tagging switched on or off.                    *)
Toggle ==
  /\ enabled' = ~enabled
  /\ job' = IF enabled THEN Cancelled(Job) ELSE job
  /\ UNCHANGED <<lock, asks, done, native, refresh, worker, delivery, retried, fault>>

CancelIneligible ==
  /\ worker.pc = "idle"
  /\ job' = Cancelled({j \in Job : ~Eligible(j)})
  /\ UNCHANGED <<lock, enabled, asks, done, native, refresh, worker, delivery, retried, fault>>

(* An administrator's retry of a tag that failed.                          *)
Retry(j) ==
  /\ job[j].st \in {"failed", "retrying"} /\ Eligible(j) /\ j \in done
  /\ retried < MaxAttempts /\ retried' = retried + 1
  /\ job' = [job EXCEPT ![j] = [NoJob EXCEPT !.st = "pending"]]
  /\ UNCHANGED <<lock, enabled, asks, done, native, refresh, worker, delivery, fault>>

(* Media delivery takes the instance and gives it back, with or without a  *)
(* delivered title; its heartbeat keeps the lock meanwhile.                *)
DeliveryTakes ==
  /\ delivery = NoTok /\ ~lock.live
  /\ delivery' = FreshTok /\ lock' = [tok |-> FreshTok, live |-> TRUE]
  /\ UNCHANGED <<job, enabled, asks, done, native, refresh, worker, retried, fault>>

DeliveryEnds ==
  /\ delivery # NoTok
  /\ \E S \in SUBSET {j \in Job : asks[j] # "never"} : done' = done \union S
  /\ delivery' = NoTok /\ lock' = IF lock.tok = delivery THEN Free ELSE lock
  /\ UNCHANGED <<job, enabled, asks, native, refresh, worker, retried, fault>>

RunnableWaiting(j) == job[j].st \in Waiting /\ job[j].due
Runnable(j) == (job[j].st \in Waiting /\ job[j].due) \/ (job[j].st = "processing" /\ ~job[j].live)
LockableAlways == TRUE
Lockable == ~lock.live

Claim(j) ==
  /\ worker.pc = "idle" /\ Runnable(j) /\ Eligible(j) /\ j \in done /\ Lockable
  /\ LET t == FreshTok IN
     /\ lock' = [tok |-> t, live |-> TRUE]
     /\ job' = [job EXCEPT ![j].st = "processing", ![j].tok = t, ![j].live = TRUE,
                           ![j].att = IF @ < MaxAttempts THEN @ + 1 ELSE @]
     /\ worker' = [Idle EXCEPT !.pc = "read", !.job = j, !.tok = t]
  /\ UNCHANGED <<enabled, asks, done, native, refresh, delivery, retried, fault>>

(* Any read, check or call that fails, for a while or for good.            *)
Fail ==
  /\ worker.pc \in {"read", "guard", "write", "confirm"}
  /\ \E pc \in {"retry", "final"} : worker' = [worker EXCEPT !.pc = pc]
  /\ UNCHANGED <<job, lock, enabled, asks, done, native, refresh, delivery, retried, fault>>

(* What the library has; for an artist, no refresh may be under way.       *)
Read ==
  /\ worker.pc = "read" /\ (Lidarr => ~refresh.on)
  /\ worker' = [worker EXCEPT !.pc = IF native[worker.job] = "title" THEN "confirm" ELSE "guard",
                              !.seen = refresh.ended]
  /\ UNCHANGED <<job, lock, enabled, asks, done, native, refresh, delivery, retried, fault>>

QuietNow == Lidarr => ~refresh.on
Quiet == Lidarr => ~refresh.on /\ refresh.ended = worker.seen
Holds ==
  LET j == worker.job IN
  /\ ~worker.late /\ Eligible(j) /\ j \in done
  /\ job[j].st = "processing" /\ job[j].tok = worker.tok /\ job[j].live
  /\ lock.tok = worker.tok /\ lock.live

(* The guard before each write, and once more before success is reported.  *)
Guard ==
  /\ worker.pc \in {"guard", "confirm"}
  /\ worker' = [worker EXCEPT !.pc = IF ~Quiet THEN "retry"
                                     ELSE IF ~Holds THEN "final"
                                     ELSE IF worker.pc = "guard" THEN "write" ELSE "applied"]
  /\ UNCHANGED <<job, lock, enabled, asks, done, native, refresh, delivery, retried, fault>>

(* The label is created, then put on the title.  A lost reply to the first *)
(* is made up for by a read; one to the second fails the attempt.          *)
Write ==
  /\ worker.pc = "write" /\ ~worker.late
  /\ LET j == worker.job IN
     IF native[j] = "none"
     THEN /\ native' = [native EXCEPT ![j] = "label"]
          /\ worker' = [worker EXCEPT !.pc = "guard"]
     ELSE /\ native' = [native EXCEPT ![j] = "title"]
          /\ \E pc \in {"confirm", "retry"} : worker' = [worker EXCEPT !.pc = pc]
  /\ UNCHANGED <<job, lock, enabled, asks, done, refresh, delivery, retried, fault>>

OwnsResultByName == job[worker.job].st # "none"
OwnsResult == LET o == job[worker.job] IN o.st = "processing" /\ o.tok = worker.tok /\ o.live

(* finishRequesterTag, then the deferred release of the lock.              *)
Finish ==
  /\ worker.pc \in {"applied", "retry", "final"}
  /\ LET j == worker.job
         again == worker.pc = "retry" /\ job[j].att < MaxAttempts
     IN job' = IF OwnsResult
               THEN [job EXCEPT ![j] = [@ EXCEPT !.st = IF worker.pc = "applied" THEN "applied"
                                                        ELSE IF again THEN "retrying" ELSE "failed",
                                                 !.due = ~again, !.tok = NoTok, !.live = FALSE]]
               ELSE job
  /\ lock' = IF lock.tok = worker.tok THEN Free ELSE lock
  /\ worker' = Idle
  /\ UNCHANGED <<enabled, asks, done, native, refresh, delivery, retried, fault>>

BackoffEnds(j) ==
  /\ ~job[j].due
  /\ job' = [job EXCEPT ![j].due = TRUE]
  /\ UNCHANGED <<lock, enabled, asks, done, native, refresh, worker, delivery, retried, fault>>

(* The attempt outlives its two minutes: its context is over, and leases   *)
(* may end under it.                                                       *)
Stall ==
  /\ worker.pc # "idle" /\ ~worker.late /\ fault < MaxFault
  /\ fault' = fault + 1 /\ worker' = [worker EXCEPT !.late = TRUE]
  /\ UNCHANGED <<job, lock, enabled, asks, done, native, refresh, delivery, retried>>

(* A restart forgets both attempts and leaves their rows behind.           *)
Crash ==
  /\ fault < MaxFault /\ (worker.pc # "idle" \/ delivery # NoTok)
  /\ fault' = fault + 1 /\ worker' = Idle /\ delivery' = NoTok
  /\ UNCHANGED <<job, lock, enabled, asks, done, native, refresh, retried>>

Kept(t) == t # NoTok /\ (t = delivery \/ (t = worker.tok /\ ~worker.late))
ExpireJob(j) ==
  /\ job[j].live /\ ~Kept(job[j].tok)
  /\ job' = [job EXCEPT ![j].live = FALSE]
  /\ UNCHANGED <<lock, enabled, asks, done, native, refresh, worker, delivery, retried, fault>>

ExpireLock ==
  /\ lock.live /\ ~Kept(lock.tok)
  /\ lock' = [lock EXCEPT !.live = FALSE]
  /\ UNCHANGED <<job, enabled, asks, done, native, refresh, worker, delivery, retried, fault>>

(* Lidarr saves an artist as it was when the refresh began.                *)
RefreshBegins ==
  /\ Lidarr /\ ~refresh.on /\ refresh.ended < MaxRefresh
  /\ refresh' = [refresh EXCEPT !.on = TRUE, !.snap = {j \in Job : native[j] = "title"}]
  /\ UNCHANGED <<job, lock, enabled, asks, done, native, worker, delivery, retried, fault>>

RefreshEnds ==
  /\ refresh.on
  /\ native' = [j \in Job |-> IF native[j] = "title" /\ j \notin refresh.snap THEN "label" ELSE native[j]]
  /\ refresh' = [on |-> FALSE, snap |-> {}, ended |-> refresh.ended + 1]
  /\ UNCHANGED <<job, lock, enabled, asks, done, worker, delivery, retried, fault>>

Attempt == Fail \/ Read \/ Guard \/ Write \/ Finish
Next ==
  \/ \E j \in Job : Ask(j) \/ Withdraw(j) \/ Retry(j) \/ Claim(j) \/ BackoffEnds(j) \/ ExpireJob(j)
  \/ Toggle \/ CancelIneligible \/ DeliveryTakes \/ DeliveryEnds \/ Attempt
  \/ Stall \/ Crash \/ ExpireLock \/ RefreshBegins \/ RefreshEnds

Spec == Init /\ [][Next]_vars

(* An attempt ends, leases and back-offs run out, delivery gives the       *)
(* instance back, refreshes end, and the ten second sweep returns to every *)
(* job, also when the instance was busy the last time.                     *)
Fairness ==
  /\ WF_vars(Attempt) /\ WF_vars(ExpireLock) /\ WF_vars(DeliveryEnds) /\ WF_vars(RefreshEnds)
  /\ \A j \in Job : WF_vars(BackoffEnds(j)) /\ WF_vars(ExpireJob(j)) /\ SF_vars(Claim(j))

(* Tagging and delivery exclude each other: while an attempt is about to   *)
(* write to the library, no delivery is at work on the instance            *)
(* (claimRequesterTag, "Share the native mutation lease").                 *)
AloneInLibrary == worker.pc = "write" /\ ~worker.late => delivery = NoTok

(* A tag that was cancelled stays so, whoever switches tagging on again    *)
(* and whatever attempt is still under way; only a requester who comes     *)
(* back opens it (Store.Update, "cannot revive an old job").               *)
NoRevival ==
  [][\A j \in Job : job[j].st = "cancelled" /\ job'[j].st # "cancelled"
                      => asks[j] = "left" /\ asks'[j] = "yes"]_vars

(* "Applied" is a receipt: the tag is on the title, also when Lidarr saved *)
(* an older artist while the attempt ran (ApplyParent, artistTagRefreshes).*)
AppliedIsTagged == \A j \in Job : job[j].st = "applied" => native[j] = "title"

(* A tag that is due ends applied, refused in front of an administrator,   *)
(* or withdrawn, though attempts fail, stall and are lost in a crash.      *)
TagsEnd ==
  \A j \in Job : (Eligible(j) /\ j \in done /\ job[j].st \in Waiting \union {"processing"})
                   ~> (job[j].st \in Final \union {"failed"} \/ ~Eligible(j))
=============================================================================
