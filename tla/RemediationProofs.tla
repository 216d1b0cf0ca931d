------------------------- MODULE RemediationProofs -------------------------
(***************************************************************************)
(* Who works on an issue and what becomes of its fixes in Remediation,     *)
(* proved for every number of issues, runs, actions, workers and deciders. *)
(***************************************************************************)
EXTENDS Remediation, FiniteSetTheorems, SequenceTheorems, TLAPS

IssueRow == [st : IssueStatus, claim : Run \union {NoRun}, reopened : BOOLEAN, msgs : 0 .. MaxMsg]
RunRow == [issue : Issue \union {NoIssue}, st : RunStatus, gen : 0 .. MaxCrash,
           seen : 0 .. MaxMsg, steps : 0 .. MaxSteps + 1]
ActRow == [run : Run \union {NoRun}, st : ActionStatus, auto : BOOLEAN]
WorkerRow == [pc : InHand \union {"idle", "fresh", "resume"}, issue : Issue \union {NoIssue},
              run : Run \union {NoRun}, gate : {"none", "propose", "ask"}]
DeciderRow == [pc : Deciding \union {"idle", "claim", "close", "stage"}, act : Action \union {NoAct},
               auto : BOOLEAN, out : {"none", "executed", "failed", "unknown"}]
JobRow == [issue : Issue, resume : BOOLEAN]

RowsOK == /\ issue \in [Issue -> IssueRow]
          /\ run \in [Run -> RunRow]
          /\ act \in [Action -> ActRow]
          /\ rule \in {"active", "paused"}
HandsOK == /\ jobs \in Seq(JobRow) /\ Len(jobs) <= QueueCap
           /\ worker \in [Worker -> WorkerRow]
DecidersOK == /\ effect \in [Action -> Nat]
              /\ decider \in [Decider -> DeciderRow]
PassOK == todo \subseteq Action /\ gen \in 0 .. MaxCrash /\ fault \in 0 .. MaxFault

\* The type invariant, split by who changes what.
LEMMA TypeParts == TypeOK <=> RowsOK /\ HandsOK /\ DecidersOK /\ PassOK
BY DEF TypeOK, RowsOK, HandsOK, DecidersOK, PassOK, IssueRow, RunRow, ActRow, WorkerRow,
       DeciderRow, JobRow

-----------------------------------------------------------------------------
(* The inductive invariant.  A run is seated while it works on its issue   *)
(* or waits at a gate for it: an issue has one seat, and its status and    *)
(* claim say what the seated run does.                                     *)

Seats == Parked \union {"running"}
Seated(i) == {r \in Run : run[r].issue = i /\ run[r].st \in Seats}

SeatFits(i, r) ==
    \/ issue[i].st = "needs_admin"
    \/ run[r].st = "running" /\ issue[i].claim = r
    \/ run[r].st = "waiting_user" /\ issue[i].st = "awaiting_user"
    \/ run[r].st = "waiting_approval" /\ issue[i].st = "awaiting_approval" /\ ~Unseen(i, r)

SeatedRight(i) ==
    /\ \A r, q \in Seated(i) : r = q
    /\ \A r \in Seated(i) : SeatFits(i, r)
    /\ issue[i].claim # NoRun =>
         /\ issue[i].claim \in Seated(i)
         /\ run[issue[i].claim].st = "running" /\ issue[i].st = "investigating"
    /\ issue[i].st = "closed" =>
         /\ \A r \in Run : run[r].issue = i => run[r].st \notin Live
         /\ ~HasAct(i, {"proposed"})

ClaimInv == \A i \in Issue : SeatedRight(i)

\* Rows refer to rows that exist, and a run keeps its step budget.
Links ==
    /\ \A r \in Run : run[r].st = "none" <=> run[r].issue = NoIssue
    /\ \A a \in Action : act[a].st # "none" => act[a].run \in Run /\ run[act[a].run].st # "none"
    /\ \A r \in Run : run[r].steps <= MaxSteps

\* A worker with a run in hand is the only one to have it in hand.
InWork == {"running", "ended", "restarted"}
Hands ==
    /\ \A w \in Worker : worker[w].pc # "idle" => worker[w].issue \in Issue
    /\ \A w \in Worker : worker[w].pc \in InHand =>
         /\ worker[w].run \in Run
         /\ run[worker[w].run].issue = worker[w].issue
         /\ run[worker[w].run].st \in InWork
         /\ worker[w].pc = "think" => run[worker[w].run].steps < MaxSteps
    /\ \A w, v \in Worker : worker[w].pc \in InHand /\ worker[v].pc \in InHand
                            /\ worker[w].run = worker[v].run => w = v

\* An action in execution has one decider, which knows what was sent.
Ledger ==
    /\ \A d \in Decider : decider[d].pc # "idle" =>
         decider[d].act \in Action /\ act[decider[d].act].st # "none"
    /\ \A d \in Decider : decider[d].pc \in Deciding => act[decider[d].act].st = "executing"
    /\ \A d, e \in Decider : decider[d].pc \in Deciding /\ decider[e].pc \in Deciding
                             /\ decider[d].act = decider[e].act => d = e
    /\ \A a \in Action : effect[a] \in {0, 1}
    /\ \A a \in Action : act[a].st \in {"none", "proposed"} => effect[a] = 0
    /\ \A d \in Decider : decider[d].pc = "execute" => effect[decider[d].act] = 0
    /\ \A d \in Decider : decider[d].pc = "settle" =>
         /\ decider[d].out # "none"
         /\ decider[d].out = "executed" => effect[decider[d].act] = 1
         /\ decider[d].out = "failed" => effect[decider[d].act] = 0

Handing == \A a \in todo : act[a].st # "none"

Inv == RowsOK /\ HandsOK /\ DecidersOK /\ PassOK /\ Links /\ ClaimInv /\ Hands /\ Ledger /\ Handing

-----------------------------------------------------------------------------
(* Operators of the model                                                  *)

\* The values of the numeric bounds.
LEMMA Bounds ==
    /\ MaxRun \in Nat /\ MaxAction \in Nat /\ MaxMsg \in Nat /\ MaxSteps \in Nat
    /\ QueueCap \in Nat /\ MaxCrash \in Nat /\ MaxFault \in Nat
    /\ NoIssue \notin Issue /\ NoRun \notin Run /\ NoAct \notin Action
    /\ \A r \in Run : r \in Nat /\ r <= MaxRun
    /\ \A a \in Action : a \in Nat /\ a <= MaxAction
BY RemediationAssumption DEF Run, Action, NoRun, NoAct

\* A bounded set of numbers that is not empty has a least one.
LEMMA LeastIn ==
    ASSUME NEW S \in SUBSET Nat, S # {}
    PROVE  Oldest(S) \in S
<1>1. PICK x \in S : \A y \in S : ~ (<<y, x>> \in OpToRel(<, Nat))
  BY NatLessThanWellFounded, WFMin
<1>2. ASSUME NEW y \in S PROVE x <= y
  <2>1. x \in Nat /\ y \in Nat /\ ~ (y < x)
    BY <1>1 DEF OpToRel
  <2>2. QED
    BY <2>1
<1>3. QED
  BY <1>2 DEF Oldest

\* A bounded set of numbers that is not empty has a greatest one.
LEMMA GreatestIn ==
    ASSUME NEW n \in Nat, NEW S \in SUBSET (1 .. n), S # {}
    PROVE  Newest(S) \in S
<1> DEFINE Below == {m \in Nat : \E s \in S : m = n - s}
<1>1. Below \subseteq Nat /\ Below # {}
  <2>1. PICK s \in S : TRUE
    OBVIOUS
  <2>2. n - s \in Nat
    OBVIOUS
  <2>3. QED
    BY <2>2
<1>2. PICK x \in Below : \A y \in Below : ~ (<<y, x>> \in OpToRel(<, Nat))
  <2> HIDE DEF Below
  <2>1. QED
    BY <1>1, NatLessThanWellFounded, WFMin
<1>3. PICK s \in S : x = n - s
  BY <1>2
<1>4. ASSUME NEW d \in S PROVE d <= s
  <2>1. n - d \in Below
    OBVIOUS
  <2>2. ~ (n - d < x)
    BY <1>2, <2>1 DEF OpToRel
  <2>3. QED
    BY <1>3, <2>2
<1>5. QED
  BY <1>4 DEF Newest

\* The newest run of a set of runs, the oldest of a set of runs or actions.
LEMMA PickedRows ==
    /\ \A S \in SUBSET Run : S # {} => Newest(S) \in S /\ Oldest(S) \in S
    /\ \A S \in SUBSET Action : S # {} => Newest(S) \in S /\ Oldest(S) \in S
<1>1. ASSUME NEW S \in SUBSET Run, S # {} PROVE Newest(S) \in S /\ Oldest(S) \in S
  <2>1. S \in SUBSET Nat /\ S \in SUBSET (1 .. MaxRun) /\ MaxRun \in Nat
    BY Bounds DEF Run
  <2>2. QED
    BY <1>1, <2>1, LeastIn, GreatestIn
<1>2. ASSUME NEW S \in SUBSET Action, S # {} PROVE Newest(S) \in S /\ Oldest(S) \in S
  <2>1. S \in SUBSET Nat /\ S \in SUBSET (1 .. MaxAction) /\ MaxAction \in Nat
    BY Bounds DEF Action
  <2>2. QED
    BY <1>2, <2>1, LeastIn, GreatestIn
<1>3. QED
  BY <1>1, <1>2

\* A set of one number has that number as its newest.
LEMMA NewestOfOne ==
    ASSUME NEW x \in Nat
    PROVE  Newest({x}) = x
BY DEF Newest

\* A withdrawn proposal keeps everything but its status.
LEMMA SupersededIs ==
    ASSUME act \in [Action -> ActRow], NEW S
    PROVE  /\ Superseded(S) \in [Action -> ActRow]
           /\ \A a \in Action :
                /\ Superseded(S)[a].run = act[a].run /\ Superseded(S)[a].auto = act[a].auto
                /\ IF a \in S /\ act[a].st = "proposed"
                   THEN Superseded(S)[a].st = "superseded" ELSE Superseded(S)[a] = act[a]
BY DEF Superseded, ActRow, ActionStatus

\* The rows of a run that ends.
LEMMA FinalIs ==
    ASSUME run \in [Run -> RunRow], NEW r \in Run, NEW st \in RunStatus
    PROVE  /\ Final(r, st) \in RunRow
           /\ Final(r, st).issue = run[r].issue /\ Final(r, st).st = st /\ Final(r, st).steps = 0
<1>1. 0 \in 0 .. MaxCrash /\ 0 \in 0 .. MaxMsg /\ 0 \in 0 .. MaxSteps + 1
  BY Bounds
<1>2. run[r].issue \in Issue \union {NoIssue}
  BY DEF RunRow
<1>3. QED
  BY <1>1, <1>2 DEF Final, RunRow

\* Ending runs of an issue ends those of the given statuses and no others.
LEMMA EndedIs ==
    ASSUME run \in [Run -> RunRow], NEW i, NEW from
    PROVE  /\ Ended(i, from) \in [Run -> RunRow]
           /\ \A r \in Run :
                IF run[r].issue = i /\ run[r].st \in from
                THEN Ended(i, from)[r].issue = i /\ Ended(i, from)[r].st = "ended"
                     /\ Ended(i, from)[r].steps = 0
                ELSE Ended(i, from)[r] = run[r]
<1>1. "ended" \in RunStatus
  BY DEF RunStatus
<1>2. \A r \in Run : /\ Final(r, "ended") \in RunRow /\ Final(r, "ended").issue = run[r].issue
                     /\ Final(r, "ended").st = "ended" /\ Final(r, "ended").steps = 0
  BY <1>1, FinalIs
<1>3. Ended(i, from) = [r \in Run |-> IF run[r].issue = i /\ run[r].st \in from
                                     THEN Final(r, "ended") ELSE run[r]]
  BY DEF Ended
<1>4. QED
  BY <1>2, <1>3

\* Releasing an issue gives it a status and takes its claim away.
LEMMA ReleasedIs ==
    ASSUME issue \in [Issue -> IssueRow], NEW i \in Issue, NEW st \in IssueStatus
    PROVE  /\ Released(i, st) \in [Issue -> IssueRow]
           /\ Released(i, st)[i].st = st /\ Released(i, st)[i].claim = NoRun
           /\ Released(i, st)[i].msgs = issue[i].msgs
           /\ \A j \in Issue : j # i => Released(i, st)[j] = issue[j]
<1>1. Released(i, st) = [issue EXCEPT ![i] = [issue[i] EXCEPT !.st = st, !.claim = NoRun]]
  BY DEF Released, IssueRow
<1>2. [issue[i] EXCEPT !.st = st, !.claim = NoRun] \in IssueRow
  BY DEF IssueRow
<1>3. QED
  BY <1>1, <1>2 DEF IssueRow

\* Pausing the rule or not gives a rule.
LEMMA DisarmedIs ==
    ASSUME rule \in {"active", "paused"}, NEW cond
    PROVE  Disarmed(cond) \in {"active", "paused"}
BY DEF Disarmed

\* What is enqueued beyond the capacity is dropped.
LEMMA EnqueuedIs ==
    ASSUME jobs \in Seq(JobRow), Len(jobs) <= QueueCap, NEW more \in Seq(JobRow)
    PROVE  Enqueued(more) \in Seq(JobRow) /\ Len(Enqueued(more)) <= QueueCap
<1> DEFINE all == jobs \o more
           n == IF Len(all) < QueueCap THEN Len(all) ELSE QueueCap
<1>1. all \in Seq(JobRow) /\ Len(all) \in Nat
  BY ConcatProperties, LenProperties
<1>2. n \in Nat /\ n <= QueueCap /\ n <= Len(all)
  BY <1>1, Bounds
<1>3. \A k \in 1 .. n : all[k] \in JobRow
  BY <1>1, <1>2, ElementOfSeq
<1> HIDE DEF all, n
<1>4. /\ SubSeq(all, 1, n) \in Seq(JobRow)
      /\ Len(SubSeq(all, 1, n)) = IF 1 <= n THEN n - 1 + 1 ELSE 0
  BY <1>2, <1>3, SubSeqProperties
<1>5. Enqueued(more) = SubSeq(all, 1, n)
  BY DEF Enqueued, all, n
<1>6. QED
  BY <1>2, <1>4, <1>5

\* A finite set of jobs can be lined up.
LEMMA LinedUp ==
    ASSUME NEW S, S \subseteq JobRow, IsFiniteSet(S)
    PROVE  SetToSeq(S) \in Seq(JobRow)
<1>1. Cardinality(S) \in Nat
  BY FS_CardinalityType
<1>2. PICK f \in Bijection(1 .. Cardinality(S), S) : TRUE
  BY FS_CardinalityType DEF ExistsBijection
<1>3. f \in [1 .. Cardinality(S) -> S] /\ IsInjective(f)
  BY <1>2 DEF Bijection, Injection, IsInjective
<1>4. SetToSeq(S) \in [1 .. Cardinality(S) -> S]
  BY <1>3 DEF SetToSeq
<1>5. SetToSeq(S) \in Seq(S)
  BY <1>1, <1>4
<1>6. QED
  BY <1>5, SeqMonotonic

\* Jobs of one kind are as many as there are issues at most.
LEMMA JobsOfAKind ==
    ASSUME NEW S, S \subseteq JobRow, NEW b, \A x \in S : x.resume = b
    PROVE  IsFiniteSet(S)
<1> DEFINE f == [x \in S |-> x.issue]
<1>1. f \in [S -> Issue]
  BY DEF JobRow
<1>2. \A x, y \in S : x.issue = y.issue => x = y
  BY DEF JobRow
<1>3. f \in Injection(S, Issue)
  BY <1>1, <1>2 DEF Injection, IsInjective
<1>4. QED
  BY <1>3, RemediationAssumption, FS_Injection

\* Recovery enqueues a sequence of jobs.
LEMMA ClaimsAreJobs == Claims \in Seq(JobRow)
<1> DEFINE RA == {Resume(i) : i \in {j \in Issue : Claimable(j) /\ Staged(j) # {}}}
           FB == {Fresh(i) : i \in {j \in Issue : Claimable(j) /\ Staged(j) = {}}}
<1>1. ASSUME NEW i \in Issue
      PROVE  /\ Resume(i) \in JobRow /\ Resume(i).resume = TRUE
             /\ Fresh(i) \in JobRow /\ Fresh(i).resume = FALSE
  BY DEF Resume, Fresh, JobRow
<1>2. \A x \in RA : x \in JobRow /\ x.resume = TRUE
  BY <1>1
<1>3. \A x \in FB : x \in JobRow /\ x.resume = FALSE
  BY <1>1
<1>4. Claims = SetToSeq(RA \union FB)
  BY DEF Claims
<1> HIDE DEF RA, FB
<1>5. IsFiniteSet(RA) /\ IsFiniteSet(FB)
  <2>1. RA \subseteq JobRow /\ FB \subseteq JobRow
    BY <1>2, <1>3
  <2>2. QED
    BY <1>2, <1>3, <2>1, JobsOfAKind
<1>6. RA \union FB \subseteq JobRow /\ IsFiniteSet(RA \union FB)
  BY <1>2, <1>3, <1>5, FS_Union
<1>7. QED
  BY <1>4, <1>6, LinedUp

-----------------------------------------------------------------------------
(* What keeps each part of the invariant.                                  *)

\* A step that touches the rows of one issue only.
Within(i) ==
    /\ \A j \in Issue : j # i => issue'[j] = issue[j]
    /\ \A r \in Run : \/ run'[r] = run[r]
                      \/ /\ run[r].issue \in {i, NoIssue}
                         /\ run'[r].issue = i /\ run'[r].st # "none" /\ run'[r].steps <= MaxSteps
    /\ \A a \in Action : \/ act'[a] = act[a]
                         \/ /\ act'[a].run \in Run /\ run'[act'[a].run].issue = i
                            /\ act'[a].st # "none"
                            /\ act[a].st # "none" => IssueOf(a) = i

\* If that issue is in order afterwards, every issue is.
LEMMA WithinKeeps ==
    ASSUME RowsOK, Links, ClaimInv, NEW i \in Issue, Within(i), SeatedRight(i)'
    PROVE  Links' /\ ClaimInv'
<1>1. i # NoIssue
  BY Bounds
<1>2. \A r \in Run : run'[r].st = "none" <=> run'[r].issue = NoIssue
  BY <1>1 DEF Within, Links
<1>3. \A a \in Action : act'[a].st # "none" => act'[a].run \in Run /\ run'[act'[a].run].st # "none"
  BY <1>1, <1>2 DEF Within, Links
<1>4. \A r \in Run : run'[r].steps <= MaxSteps
  BY DEF Within, Links
<1>5. ASSUME NEW j \in Issue, j # i PROVE SeatedRight(j)'
  <2>1. issue'[j] = issue[j] /\ SeatedRight(j)
    BY <1>5 DEF Within, ClaimInv
  <2>2. \A r \in Run : run'[r].issue = j => run'[r] = run[r]
    BY <1>5 DEF Within
  <2>3. \A r \in Run : run[r].issue = j => run'[r] = run[r]
    BY <1>5, Bounds DEF Within
  <2>4. Seated(j)' = Seated(j)
    BY <2>2, <2>3 DEF Seated
  <2>5. \A r \in Seated(j) : run'[r] = run[r]
    BY <2>3 DEF Seated
  <2>6. \A r \in Seated(j) : SeatFits(j, r)'
    BY <2>1, <2>5 DEF SeatedRight, SeatFits, Unseen
  <2>7. HasAct(j, {"proposed"})' => HasAct(j, {"proposed"})
    <3>1. SUFFICES ASSUME NEW a \in Action, act'[a].st = "proposed", IssueOf(a)' = j
                   PROVE  act[a].st = "proposed" /\ IssueOf(a) = j
      BY DEF HasAct, ActsOf
    <3>2. run'[act'[a].run].issue = j
      BY <3>1 DEF IssueOf
    <3>3. act'[a] = act[a]
      BY <1>5, <3>2 DEF Within
    <3>4. act[a].run \in Run
      BY <3>1, <3>3 DEF Links
    <3>5. QED
      BY <3>1, <3>2, <3>3, <3>4, <2>2 DEF IssueOf
  <2>8. \A r, q \in Seated(j)' : r = q
    BY <2>1, <2>4 DEF SeatedRight
  <2>9. issue'[j].claim # NoRun =>
          /\ issue'[j].claim \in Seated(j)'
          /\ run'[issue'[j].claim].st = "running" /\ issue'[j].st = "investigating"
    BY <2>1, <2>4, <2>5 DEF SeatedRight
  <2>10. issue'[j].st = "closed" =>
          /\ \A r \in Run : run'[r].issue = j => run'[r].st \notin Live
          /\ ~HasAct(j, {"proposed"})'
    BY <2>1, <2>2, <2>7 DEF SeatedRight
  <2>11. QED
    BY <2>4, <2>6, <2>8, <2>9, <2>10 DEF SeatedRight
<1>6. QED
  BY <1>2, <1>3, <1>4, <1>5 DEF Links, ClaimInv

\* Workers keep the runs they have in hand.
LEMMA HandsMoved ==
    ASSUME Hands,
           \A w \in Worker : worker'[w].pc # "idle" => worker'[w].issue \in Issue,
           \A w \in Worker : worker'[w].pc \in InHand =>
              /\ worker[w].pc \in InHand
              /\ worker'[w].run = worker[w].run /\ worker'[w].issue = worker[w].issue
              /\ run'[worker[w].run].issue = run[worker[w].run].issue
              /\ run'[worker[w].run].st \in InWork
              /\ worker'[w].pc = "think" => run'[worker[w].run].steps < MaxSteps
    PROVE  Hands'
<1>1. ASSUME NEW w \in Worker, worker'[w].pc \in InHand
      PROVE  /\ worker'[w].run \in Run
             /\ run'[worker'[w].run].issue = worker'[w].issue
             /\ run'[worker'[w].run].st \in InWork
             /\ worker'[w].pc = "think" => run'[worker'[w].run].steps < MaxSteps
  BY <1>1 DEF Hands
<1>2. QED
  BY <1>1 DEF Hands

\* Runs in work stay in work, without more steps.
RunsHeld == \A r \in Run : run[r].st \in InWork =>
                /\ run'[r].issue = run[r].issue /\ run'[r].st \in InWork
                /\ run'[r].steps <= run[r].steps

\* Workers that stay or let go keep their runs, if no run in work is taken
\* away.
LEMMA HandsKept ==
    ASSUME RowsOK, RowsOK', Hands, RunsHeld,
           \A w \in Worker : \/ worker'[w] = worker[w]
                             \/ /\ worker'[w].pc \notin InHand
                                /\ worker'[w].pc # "idle" => worker'[w].issue \in Issue
    PROVE  Hands'
<1>1. \A r \in Run : run[r].steps \in Int /\ run'[r].steps \in Int /\ MaxSteps \in Int
  BY Bounds DEF RowsOK, RunRow
<1>2. \A w \in Worker : worker'[w].pc # "idle" => worker'[w].issue \in Issue
  BY DEF Hands
<1>3. ASSUME NEW w \in Worker, worker'[w].pc \in InHand
      PROVE  /\ worker[w].pc \in InHand
             /\ worker'[w].run = worker[w].run /\ worker'[w].issue = worker[w].issue
             /\ run'[worker[w].run].issue = run[worker[w].run].issue
             /\ run'[worker[w].run].st \in InWork
             /\ worker'[w].pc = "think" => run'[worker[w].run].steps < MaxSteps
  <2>1. worker'[w] = worker[w]
    BY <1>3
  <2>2. worker[w].run \in Run /\ run[worker[w].run].st \in InWork
    BY <1>3, <2>1 DEF Hands
  <2>3. worker[w].pc = "think" => run[worker[w].run].steps < MaxSteps
    BY <1>3, <2>1 DEF Hands
  <2>4. QED
    BY <1>1, <1>3, <2>1, <2>2, <2>3 DEF RunsHeld
<1>4. QED
  BY <1>2, <1>3, HandsMoved

\* Deciders that stay or leave keep the ledger, if no action in execution
\* changes and none becomes one.
LEMMA LedgerKept ==
    ASSUME DecidersOK, Ledger, effect' = effect,
           \A d \in Decider : decider'[d] = decider[d] \/ decider'[d].pc = "idle",
           \A a \in Action :
              \/ act'[a].st = act[a].st
              \/ act[a].st = "none" /\ act'[a].st = "proposed"
              \/ act[a].st \notin {"none", "executing"}
                 /\ act'[a].st \notin {"none", "proposed", "executing"}
    PROVE  Ledger'
<1>1. "idle" \notin Deciding /\ "execute" # "idle" /\ "settle" # "idle"
  BY DEF Deciding
<1>2. \A d \in Decider : decider'[d].pc # "idle" => decider'[d] = decider[d]
  OBVIOUS
<1>3. \A d \in Decider : decider'[d].pc # "idle" =>
         decider'[d].act \in Action /\ act'[decider'[d].act].st # "none"
  BY <1>2 DEF Ledger
<1>4. \A d \in Decider : decider'[d].pc \in Deciding => act'[decider'[d].act].st = "executing"
  <2>1. SUFFICES ASSUME NEW d \in Decider, decider'[d].pc \in Deciding
                 PROVE  act'[decider'[d].act].st = "executing"
    OBVIOUS
  <2>2. decider'[d] = decider[d]
    BY <1>1, <1>2, <2>1
  <2>3. decider[d].act \in Action /\ act[decider[d].act].st = "executing"
    BY <1>1, <2>1, <2>2 DEF Ledger
  <2>4. QED
    BY <2>2, <2>3
<1>5. \A a \in Action : act'[a].st \in {"none", "proposed"} => effect[a] = 0
  BY DEF Ledger
<1>6. QED
  BY <1>1, <1>2, <1>3, <1>4, <1>5 DEF Ledger

-----------------------------------------------------------------------------
(* Moves that take work away from an issue.                                *)

EndedHere(i, r) == /\ run[r].issue = i /\ run[r].st \in Live
                   /\ run'[r].issue = i /\ run'[r].st = "ended" /\ run'[r].steps = 0

\* Runs of the issue end, its proposals are decided, and the issue either is
\* released with its seat empty or at an administrator's, or stays.
Eased(i) ==
    /\ \A j \in Issue : j # i => issue'[j] = issue[j]
    /\ \A r \in Run : run'[r] = run[r] \/ EndedHere(i, r)
    /\ \A a \in Action : \/ act'[a] = act[a]
                         \/ /\ act[a].st # "none" /\ IssueOf(a) = i
                            /\ act'[a].run = act[a].run /\ act'[a].st \notin {"none", "proposed"}
    /\ \/ issue'[i] = issue[i] /\ run' = run
       \/ /\ issue'[i].claim = NoRun
          /\ \/ issue'[i].st = "needs_admin"
             \/ \A r \in Seated(i) : EndedHere(i, r)
          /\ issue'[i].st = "closed" =>
               /\ \A r \in Run : run[r].issue = i /\ run[r].st \in Live => EndedHere(i, r)
               /\ \A a \in Action : act[a].st = "proposed" /\ IssueOf(a) = i => act'[a] # act[a]

\* Such a move leaves every issue in order and every worker its run.
LEMMA EasedKeeps ==
    ASSUME RowsOK, RowsOK', Links, ClaimInv, NEW i \in Issue, Eased(i)
    PROVE  Links' /\ ClaimInv' /\ RunsHeld
<1>1. \A r \in Run : run[r].steps \in Nat /\ run'[r].steps \in Nat /\ 0 <= MaxSteps
  BY Bounds DEF RowsOK, RunRow
<1>2. \A r \in Run : run'[r].issue = run[r].issue
  BY DEF Eased, EndedHere
<1>3. Within(i)
  <2>1. ASSUME NEW a \in Action, act'[a] # act[a]
        PROVE  /\ act'[a].run \in Run /\ run'[act'[a].run].issue = i
               /\ act'[a].st # "none" /\ IssueOf(a) = i
    <3>1. act[a].st # "none" /\ IssueOf(a) = i /\ act'[a].run = act[a].run /\ act'[a].st # "none"
      BY <2>1 DEF Eased
    <3>2. act[a].run \in Run
      BY <3>1 DEF Links
    <3>3. QED
      BY <3>1, <3>2, <1>2 DEF IssueOf
  <2>2. \A r \in Run : run'[r] = run[r] \/ (/\ run[r].issue = i /\ run'[r].issue = i
                                           /\ run'[r].st # "none" /\ run'[r].steps <= MaxSteps)
    BY <1>1 DEF Eased, EndedHere
  <2>3. QED
    BY <2>1, <2>2 DEF Within, Eased
<1>4. SeatedRight(i)
  BY DEF ClaimInv
<1>5. \A a \in Action : act'[a].st = "proposed" =>
         act'[a] = act[a] /\ (IssueOf(a)' = i => IssueOf(a) = i)
  <2>1. SUFFICES ASSUME NEW a \in Action, act'[a].st = "proposed"
                 PROVE  act'[a] = act[a] /\ (IssueOf(a)' = i => IssueOf(a) = i)
    OBVIOUS
  <2>2. act'[a] = act[a]
    BY <2>1 DEF Eased
  <2>3. act[a].run \in Run
    BY <2>1, <2>2 DEF Links
  <2>4. QED
    BY <2>2, <2>3, <1>2 DEF IssueOf
<1>6. HasAct(i, {"proposed"})' => HasAct(i, {"proposed"})
  BY <1>5 DEF HasAct, ActsOf
<1>7. \A r \in Seated(i)' : r \in Seated(i) /\ run'[r] = run[r]
  BY DEF Seated, Eased, EndedHere, Seats, Parked
<1>8. SeatedRight(i)'
  <2>1. CASE issue'[i] = issue[i] /\ run' = run
    <3>1. Seated(i)' = Seated(i)
      BY <2>1 DEF Seated
    <3>2. \A r \in Seated(i) : SeatFits(i, r)'
      BY <2>1, <1>4 DEF SeatedRight, SeatFits, Unseen
    <3>3. QED
      BY <2>1, <3>1, <3>2, <1>4, <1>6 DEF SeatedRight
  <2>2. CASE /\ issue'[i].claim = NoRun
             /\ \/ issue'[i].st = "needs_admin"
                \/ \A r \in Seated(i) : EndedHere(i, r)
             /\ issue'[i].st = "closed" =>
                  /\ \A r \in Run : run[r].issue = i /\ run[r].st \in Live => EndedHere(i, r)
                  /\ \A a \in Action : act[a].st = "proposed" /\ IssueOf(a) = i => act'[a] # act[a]
    <3>1. \A r, q \in Seated(i)' : r = q
      BY <1>4, <1>7 DEF SeatedRight
    <3>2. \A r \in Seated(i)' : SeatFits(i, r)'
      <4>1. CASE issue'[i].st = "needs_admin"
        BY <4>1 DEF SeatFits
      <4>2. CASE \A r \in Seated(i) : EndedHere(i, r)
        <5>1. \A r \in Seated(i)' : FALSE
          BY <4>2, <1>7 DEF EndedHere, Seated, Seats, Parked
        <5>2. QED
          BY <5>1
      <4>3. QED
        BY <2>2, <4>1, <4>2
    <3>3. issue'[i].st = "closed" =>
            /\ \A r \in Run : run'[r].issue = i => run'[r].st \notin Live
            /\ ~HasAct(i, {"proposed"})'
      <4>1. SUFFICES ASSUME issue'[i].st = "closed"
                     PROVE  /\ \A r \in Run : run'[r].issue = i => run'[r].st \notin Live
                            /\ ~HasAct(i, {"proposed"})'
        OBVIOUS
      <4>2. \A r \in Run : run'[r].issue = i => run'[r].st \notin Live
        BY <4>1, <2>2 DEF Eased, EndedHere, Live, Parked
      <4>3. ~HasAct(i, {"proposed"})'
        BY <4>1, <2>2, <1>5 DEF HasAct, ActsOf
      <4>4. QED
        BY <4>2, <4>3
    <3>4. QED
      BY <2>2, <3>1, <3>2, <3>3 DEF SeatedRight
  <2>3. QED
    BY <2>1, <2>2 DEF Eased
<1>9. Links' /\ ClaimInv'
  BY <1>3, <1>8, WithinKeeps
<1>10. ASSUME NEW r \in Run, run[r].st \in InWork
       PROVE  /\ run'[r].issue = run[r].issue /\ run'[r].st \in InWork
              /\ run'[r].steps <= run[r].steps
  BY <1>1, <1>10 DEF Eased, EndedHere, InWork
<1>11. QED
  BY <1>9, <1>10 DEF RunsHeld

\* Proposals are withdrawn and no other action changes.
OnlyWithdraws == \A a \in Action : \/ act'[a] = act[a]
                                   \/ /\ act[a].st = "proposed" /\ act'[a].st = "superseded"
                                      /\ act'[a].run = act[a].run /\ act'[a].auto = act[a].auto

\* A step that leaves the rows alone eases any issue.
LEMMA RowsUnchanged ==
    ASSUME RowsOK, NEW i \in Issue, UNCHANGED db
    PROVE  RowsOK' /\ Eased(i) /\ OnlyWithdraws
BY DEF db, RowsOK, Eased, OnlyWithdraws

\* Withdrawing some proposals of an issue.
LEMMA WithdrawnHere ==
    ASSUME act \in [Action -> ActRow], NEW i \in Issue, NEW S \in SUBSET ActsOf(i),
           act' = Superseded(S)
    PROVE  /\ act' \in [Action -> ActRow] /\ OnlyWithdraws
           /\ \A a \in Action : \/ act'[a] = act[a]
                                \/ /\ act[a].st # "none" /\ IssueOf(a) = i
                                   /\ act'[a].run = act[a].run /\ act'[a].st \notin {"none", "proposed"}
           /\ \A a \in S : act[a].st = "proposed" => act'[a] # act[a]
<1>1. act' \in [Action -> ActRow]
  BY SupersededIs
<1>2. ASSUME NEW a \in Action
      PROVE  /\ act'[a].run = act[a].run /\ act'[a].auto = act[a].auto
             /\ IF a \in S /\ act[a].st = "proposed"
                THEN act'[a].st = "superseded" ELSE act'[a] = act[a]
  BY SupersededIs
<1>3. \A a \in S : a \in Action /\ IssueOf(a) = i
  BY DEF ActsOf
<1>4. QED
  BY <1>1, <1>2, <1>3 DEF OnlyWithdraws

\* Ending live runs of an issue.
LEMMA EndingHere ==
    ASSUME run \in [Run -> RunRow], NEW i \in Issue, NEW from \in SUBSET Live,
           run' = Ended(i, from)
    PROVE  /\ run' \in [Run -> RunRow]
           /\ \A r \in Run : run'[r] = run[r] \/ EndedHere(i, r)
           /\ \A r \in Run : run[r].issue = i /\ run[r].st \in from => EndedHere(i, r)
BY EndedIs DEF EndedHere

\* Ending one live run.
LEMMA EndingOne ==
    ASSUME run \in [Run -> RunRow], NEW i \in Issue, NEW q \in Run,
           run[q].issue = i, run[q].st \in Live,
           run' = [run EXCEPT ![q] = Final(q, "ended")]
    PROVE  /\ run' \in [Run -> RunRow]
           /\ \A r \in Run : run'[r] = run[r] \/ EndedHere(i, r)
           /\ EndedHere(i, q)
<1>1. "ended" \in RunStatus
  BY DEF RunStatus
<1>2. /\ Final(q, "ended") \in RunRow /\ Final(q, "ended").issue = i
      /\ Final(q, "ended").st = "ended" /\ Final(q, "ended").steps = 0
  BY <1>1, FinalIs
<1>3. QED
  BY <1>2 DEF EndedHere

\* Releasing an issue.
LEMMA ReleasingHere ==
    ASSUME issue \in [Issue -> IssueRow], NEW i \in Issue, NEW st \in IssueStatus,
           issue' = Released(i, st)
    PROVE  /\ issue' \in [Issue -> IssueRow]
           /\ issue'[i].st = st /\ issue'[i].claim = NoRun
           /\ \A j \in Issue : j # i => issue'[j] = issue[j]
BY ReleasedIs

\* A closed issue has no claim, no seat taken and no proposal.
LEMMA ClosedNow ==
    ASSUME ClaimInv, NEW i \in Issue, issue[i].st = "closed"
    PROVE  /\ issue[i].claim = NoRun
           /\ \A r \in Run : run[r].issue = i => run[r].st \notin Live
           /\ \A a \in Action : IssueOf(a) = i => act[a].st # "proposed"
<1>1. SeatedRight(i)
  BY DEF ClaimInv
<1>2. QED
  BY <1>1 DEF SeatedRight, HasAct, ActsOf

\* suspendIssueForRecovery
LEMMA SuspendMoves ==
    ASSUME RowsOK, NEW i \in Issue, Suspend(i)
    PROVE  RowsOK' /\ Eased(i) /\ OnlyWithdraws
<1>1. "tracking" \in IssueStatus /\ "tracking" # "closed"
  BY DEF IssueStatus
<1>2. Parked \union {"running"} \in SUBSET Live /\ Seats = Parked \union {"running"}
  BY DEF Live, Parked, Seats
<1>3. ActsOf(i) \in SUBSET ActsOf(i)
  OBVIOUS
<1>4. /\ act' = Superseded(ActsOf(i)) /\ run' = Ended(i, Parked \union {"running"})
      /\ issue' = Released(i, "tracking") /\ rule' = rule
  BY DEF Suspend
<1>5. /\ issue' \in [Issue -> IssueRow] /\ issue'[i].st = "tracking" /\ issue'[i].claim = NoRun
      /\ \A j \in Issue : j # i => issue'[j] = issue[j]
  BY <1>1, <1>4, ReleasingHere DEF RowsOK
<1>6. /\ run' \in [Run -> RunRow]
      /\ \A r \in Run : run'[r] = run[r] \/ EndedHere(i, r)
      /\ \A r \in Seated(i) : EndedHere(i, r)
  BY <1>2, <1>4, EndingHere DEF RowsOK, Seated
<1>7. QED
  BY <1>1, <1>3, <1>4, <1>5, <1>6, WithdrawnHere DEF RowsOK, Eased

\* moveIssueToObservationNeedsAdmin
LEMMA ObservationMoves ==
    ASSUME RowsOK, NEW i \in Issue, ObservationNeedsAdmin(i)
    PROVE  RowsOK' /\ Eased(i) /\ OnlyWithdraws
<1>1. "needs_admin" \in IssueStatus /\ "needs_admin" # "closed"
  BY DEF IssueStatus
<1>2. Live \in SUBSET Live /\ ActsOf(i) \in SUBSET ActsOf(i)
  OBVIOUS
<1>3. /\ act' = Superseded(ActsOf(i)) /\ run' = Ended(i, Live)
      /\ issue' = Released(i, "needs_admin") /\ rule' = rule
  BY DEF ObservationNeedsAdmin
<1>4. /\ issue' \in [Issue -> IssueRow] /\ issue'[i].st = "needs_admin" /\ issue'[i].claim = NoRun
      /\ \A j \in Issue : j # i => issue'[j] = issue[j]
  BY <1>1, <1>3, ReleasingHere DEF RowsOK
<1>5. run' \in [Run -> RunRow] /\ \A r \in Run : run'[r] = run[r] \/ EndedHere(i, r)
  BY <1>2, <1>3, EndingHere DEF RowsOK
<1>6. QED
  BY <1>1, <1>2, <1>3, <1>4, <1>5, WithdrawnHere DEF RowsOK, Eased

\* concludeIssueAggregate
LEMMA CloseMoves ==
    ASSUME RowsOK, NEW i \in Issue, NEW kind, NEW by, Close(i, kind, by)
    PROVE  RowsOK' /\ Eased(i) /\ OnlyWithdraws
<1>1. "closed" \in IssueStatus
  BY DEF IssueStatus
<1>2. Live \in SUBSET Live /\ ActsOf(i) \in SUBSET ActsOf(i) /\ Seats \subseteq Live
  BY DEF Seats, Live
<1>3. /\ act' = Superseded(ActsOf(i)) /\ run' = Ended(i, Live)
      /\ issue' = Released(i, "closed") /\ rule' = Disarmed(kind = "timeout" /\ AutoExecuted(i))
  BY DEF Close
<1>4. /\ issue' \in [Issue -> IssueRow] /\ issue'[i].st = "closed" /\ issue'[i].claim = NoRun
      /\ \A j \in Issue : j # i => issue'[j] = issue[j]
  BY <1>1, <1>3, ReleasingHere DEF RowsOK
<1>5. /\ run' \in [Run -> RunRow] /\ \A r \in Run : run'[r] = run[r] \/ EndedHere(i, r)
      /\ \A r \in Run : run[r].issue = i /\ run[r].st \in Live => EndedHere(i, r)
  BY <1>2, <1>3, EndingHere DEF RowsOK
<1>6. \A r \in Seated(i) : EndedHere(i, r)
  BY <1>2, <1>5 DEF Seated
<1>7. /\ act' \in [Action -> ActRow] /\ OnlyWithdraws
      /\ \A a \in Action : \/ act'[a] = act[a]
                           \/ /\ act[a].st # "none" /\ IssueOf(a) = i
                              /\ act'[a].run = act[a].run /\ act'[a].st \notin {"none", "proposed"}
      /\ \A a \in ActsOf(i) : act[a].st = "proposed" => act'[a] # act[a]
  BY <1>2, <1>3, WithdrawnHere DEF RowsOK
<1>8. \A a \in Action : act[a].st = "proposed" /\ IssueOf(a) = i => act'[a] # act[a]
  BY <1>7 DEF ActsOf
<1>9. rule' \in {"active", "paused"}
  BY <1>3, DisarmedIs DEF RowsOK
<1>10. QED
  BY <1>4, <1>5, <1>6, <1>7, <1>8, <1>9 DEF RowsOK, Eased

\* GiveUpIssue and ParkAppliedFixForReview: the run that holds the issue ends.
LEMMA HandOverMoves ==
    ASSUME RowsOK, Links, ClaimInv, NEW i \in Issue, NEW r \in Run, NEW verdict,
           HandOver(i, r, verdict)
    PROVE  RowsOK' /\ Eased(i) /\ OnlyWithdraws
<1>1. CASE UNCHANGED db
  BY <1>1, RowsUnchanged
<1>2. CASE /\ run[r].st \in {"running", "resume_pending"} /\ issue[i].claim = r
           /\ run' = [run EXCEPT ![r] = Final(r, "ended")] /\ issue' = Released(i, "needs_admin")
           /\ act' = Superseded(ActsOf(i)) /\ rule' = Disarmed(verdict)
  <2>1. "needs_admin" \in IssueStatus /\ "needs_admin" # "closed"
    BY DEF IssueStatus
  <2>2. ActsOf(i) \in SUBSET ActsOf(i) /\ SeatedRight(i) /\ r # NoRun
    BY Bounds DEF ClaimInv
  <2>3. run[r].issue = i /\ run[r].st \in Live
    BY <1>2, <2>2 DEF SeatedRight, Seated, Live
  <2>4. /\ issue' \in [Issue -> IssueRow] /\ issue'[i].st = "needs_admin" /\ issue'[i].claim = NoRun
        /\ \A j \in Issue : j # i => issue'[j] = issue[j]
    BY <1>2, <2>1, ReleasingHere DEF RowsOK
  <2>5. run' \in [Run -> RunRow] /\ \A q \in Run : run'[q] = run[q] \/ EndedHere(i, q)
    BY <1>2, <2>3, EndingOne DEF RowsOK
  <2>6. rule' \in {"active", "paused"}
    BY <1>2, DisarmedIs DEF RowsOK
  <2>7. QED
    BY <1>2, <2>1, <2>2, <2>4, <2>5, <2>6, WithdrawnHere DEF RowsOK, Eased
<1>3. QED
  BY <1>1, <1>2 DEF HandOver

\* GiveUpIssue before any claim: no run of a claimable issue is seated.
LEMMA GiveUpUnclaimedMoves ==
    ASSUME RowsOK, NEW i \in Issue, GiveUpUnclaimed(i)
    PROVE  RowsOK' /\ Eased(i) /\ OnlyWithdraws
<1>1. CASE UNCHANGED db
  BY <1>1, RowsUnchanged
<1>2. CASE /\ issue' = Released(i, "needs_admin") /\ act' = Superseded(ActsOf(i))
           /\ rule' = Disarmed(AutoExecuted(i)) /\ run' = run
  <2>1. "needs_admin" \in IssueStatus /\ "needs_admin" # "closed" /\ ActsOf(i) \in SUBSET ActsOf(i)
    BY DEF IssueStatus
  <2>2. /\ issue' \in [Issue -> IssueRow] /\ issue'[i].st = "needs_admin" /\ issue'[i].claim = NoRun
        /\ \A j \in Issue : j # i => issue'[j] = issue[j]
    BY <1>2, <2>1, ReleasingHere DEF RowsOK
  <2>3. rule' \in {"active", "paused"}
    BY <1>2, DisarmedIs DEF RowsOK
  <2>4. QED
    BY <1>2, <2>1, <2>2, <2>3, WithdrawnHere DEF RowsOK, Eased
<1>3. QED
  BY <1>1, <1>2 DEF GiveUpUnclaimed

\* abortClaimForRecoveryPreflight
LEMMA AbortMoves ==
    ASSUME RowsOK, Links, ClaimInv, NEW i \in Issue, NEW r \in Run, run[r].issue = i,
           AbortClaim(i, r)
    PROVE  RowsOK' /\ Eased(i) /\ OnlyWithdraws
<1>1. CASE UNCHANGED db
  BY <1>1, RowsUnchanged
<1>2. CASE /\ run[r].st = "running"
           /\ run' = [run EXCEPT ![r] = Final(r, "ended")]
           /\ issue' = IF issue[i].st = "investigating" /\ issue[i].claim = r
                       THEN Released(i, "needs_admin") ELSE issue
           /\ UNCHANGED <<act, rule>>
  <2>1. "needs_admin" \in IssueStatus /\ "needs_admin" # "closed"
    BY DEF IssueStatus
  <2>2. SeatedRight(i) /\ r # NoRun /\ r \in Seated(i)
    BY <1>2, Bounds DEF ClaimInv, Seated, Seats
  <2>3. run' \in [Run -> RunRow] /\ \A q \in Run : run'[q] = run[q] \/ EndedHere(i, q)
    BY <1>2, EndingOne DEF RowsOK, Live
  <2>4. /\ issue' \in [Issue -> IssueRow] /\ issue'[i].st = "needs_admin" /\ issue'[i].claim = NoRun
        /\ \A j \in Issue : j # i => issue'[j] = issue[j]
    <3>1. CASE issue[i].st = "investigating" /\ issue[i].claim = r
      BY <1>2, <2>1, <3>1, ReleasingHere DEF RowsOK
    <3>2. CASE ~(issue[i].st = "investigating" /\ issue[i].claim = r)
      <4>1. issue[i].claim # r /\ SeatFits(i, r)
        BY <2>2, <3>2 DEF SeatedRight
      <4>2. issue[i].st = "needs_admin"
        BY <1>2, <4>1 DEF SeatFits
      <4>3. issue[i].claim = NoRun
        BY <2>2, <4>1 DEF SeatedRight
      <4>4. QED
        BY <1>2, <3>2, <4>2, <4>3 DEF RowsOK
    <3>3. QED
      BY <3>1, <3>2
  <2>5. QED
    BY <1>2, <2>1, <2>3, <2>4 DEF RowsOK, Eased, OnlyWithdraws
<1>3. QED
  BY <1>1, <1>2 DEF AbortClaim

\* closeObservedRecovery
LEMMA CloseRecoveredMoves ==
    ASSUME RowsOK, NEW i \in Issue, CloseRecovered(i)
    PROVE  RowsOK' /\ Eased(i) /\ OnlyWithdraws
BY CloseMoves, RowsUnchanged DEF CloseRecovered

\* preflightArrRecovery takes the issue over.
LEMMA TakenOverMoves ==
    ASSUME RowsOK, NEW i \in Issue, TakenOver(i)
    PROVE  RowsOK' /\ Eased(i) /\ OnlyWithdraws
BY SuspendMoves, CloseRecoveredMoves, ObservationMoves DEF TakenOver

-----------------------------------------------------------------------------
(* The steps of a worker                                                   *)

\* A failure that is admitted is counted.
LEMMA FaultIs ==
    ASSUME PassOK, fault' = fault \/ Fault, todo' = todo, gen' = gen
    PROVE  PassOK'
<1>1. MaxFault \in Nat
  BY Bounds
<1>2. QED
  BY <1>1 DEF PassOK, Fault

\* No action is decided: proposals are made or withdrawn.
NoDecision == \A a \in Action : \/ act'[a].st = act[a].st
                                \/ act[a].st = "none" /\ act'[a].st = "proposed"
                                \/ act[a].st = "proposed" /\ act'[a].st = "superseded"

\* What is left to show when only rows, workers and jobs change.
LEMMA WorkersStep ==
    ASSUME Inv, RowsOK', HandsOK', Links', ClaimInv', Hands', OnlyWithdraws \/ NoDecision,
           effect' = effect, decider' = decider, todo' = todo, gen' = gen, fault' = fault \/ Fault
    PROVE  Inv'
<1>1. DecidersOK' /\ PassOK'
  BY FaultIs DEF Inv, DecidersOK
<1>2. NoDecision
  BY DEF NoDecision, OnlyWithdraws
<1>3. Ledger'
  BY <1>2, LedgerKept DEF Inv, NoDecision
<1>4. Handing'
  BY <1>2 DEF Inv, Handing, NoDecision, PassOK
<1>5. QED
  BY <1>1, <1>3, <1>4 DEF Inv

\* A worker that leaves is idle, the others stay.
LEMMA LeaveIs ==
    ASSUME HandsOK, NEW w \in Worker, Leave(w), jobs' = jobs
    PROVE  /\ HandsOK'
           /\ \A v \in Worker : worker'[v] = worker[v] \/ worker'[v].pc = "idle"
<1>1. IdleWorker \in WorkerRow /\ IdleWorker.pc = "idle"
  BY DEF IdleWorker, WorkerRow
<1>2. QED
  BY <1>1 DEF Leave, HandsOK

\* A worker that eases an issue and leaves keeps the invariant.
LEMMA LeavingKeeps ==
    ASSUME Inv, NEW w \in Worker, NEW i \in Issue, RowsOK', Eased(i), OnlyWithdraws,
           Leave(w), fault' = fault \/ Fault, KeepWorker
    PROVE  Inv'
<1>1. /\ HandsOK'
      /\ \A v \in Worker : worker'[v] = worker[v] \/ worker'[v].pc = "idle"
  BY LeaveIs DEF Inv, KeepWorker
<1>2. Links' /\ ClaimInv' /\ RunsHeld
  BY EasedKeeps DEF Inv
<1>3. "idle" \notin InHand
  BY DEF InHand
<1>4. Hands'
  BY <1>1, <1>2, <1>3, HandsKept DEF Inv
<1>5. QED
  BY <1>1, <1>2, <1>4, WorkersStep DEF KeepWorker

\* A busy worker works on an issue; in hand it has a run of that issue.
LEMMA WorkerHas ==
    ASSUME Inv, NEW w \in Worker, worker[w].pc # "idle"
    PROVE  /\ worker[w].issue \in Issue
           /\ worker[w].pc \in InHand =>
                /\ worker[w].run \in Run /\ run[worker[w].run].issue = worker[w].issue
                /\ run[worker[w].run].st \in InWork
BY DEF Inv, Hands

\* The head of the job queue is taken.
LEMMA TakeKeeps ==
    ASSUME Inv, NEW w \in Worker, Take(w)
    PROVE  Inv'
<1> DEFINE j == Head(jobs)
           go == FreeRun # {} /\ issue[j.issue].st \in Workable
           pc == IF j.resume \/ (go /\ Staged(j.issue) # {}) THEN "resume"
                 ELSE IF go THEN "fresh" ELSE "idle"
           now == IF pc = "idle" THEN IdleWorker
                  ELSE [IdleWorker EXCEPT !.pc = pc, !.issue = j.issue]
<1>1. /\ jobs # <<>> /\ jobs' = Tail(jobs) /\ worker' = [worker EXCEPT ![w] = now]
      /\ UNCHANGED <<db, effect, decider, todo, gen, fault>>
  BY DEF Take
<1>2. jobs \in Seq(JobRow) /\ Len(jobs) <= QueueCap /\ Len(jobs) \in Nat /\ QueueCap \in Nat
  BY Bounds, LenProperties DEF Inv, HandsOK
<1>3. Head(jobs) \in JobRow /\ Tail(jobs) \in Seq(JobRow) /\ Len(Tail(jobs)) = Len(jobs) - 1
  BY <1>1, <1>2, HeadTailProperties
<1>4. j.issue \in Issue /\ pc \in {"idle", "fresh", "resume"}
  BY <1>3 DEF JobRow
<1> HIDE DEF j, pc
<1>5. /\ now \in WorkerRow /\ now.pc \notin InHand
      /\ now.pc # "idle" => now.issue \in Issue
  BY <1>4 DEF IdleWorker, WorkerRow, InHand
<1> HIDE DEF now
<1>6. HandsOK'
  BY <1>1, <1>2, <1>3, <1>5 DEF Inv, HandsOK
<1>7. RowsOK' /\ Links' /\ ClaimInv' /\ OnlyWithdraws /\ RunsHeld
  <2>1. issue' = issue /\ run' = run /\ act' = act /\ rule' = rule
    BY <1>1 DEF db
  <2>2. \A r \in Run : run[r].steps \in Int
    BY Bounds DEF Inv, RowsOK, RunRow
  <2>3. RowsOK' /\ Links' /\ OnlyWithdraws /\ RunsHeld
    BY <2>1, <2>2 DEF Inv, RowsOK, Links, OnlyWithdraws, RunsHeld
  <2>4. \A i \in Issue : SeatedRight(i)'
    BY <2>1 DEF Inv, ClaimInv, SeatedRight, Seated, SeatFits, Unseen, HasAct, ActsOf, IssueOf
  <2>5. QED
    BY <2>3, <2>4 DEF ClaimInv
<1>8. Hands'
  BY <1>1, <1>5, <1>7, HandsKept DEF Inv, HandsOK
<1>9. QED
  BY <1>1, <1>6, <1>7, <1>8, WorkersStep

\* Resume of a closed or tracked issue.
LEMMA ResumeClosedKeeps ==
    ASSUME Inv, NEW w \in Worker, ResumeClosed(w)
    PROVE  Inv'
<1> DEFINE i == worker[w].issue
<1>1. /\ issue[i].st \in {"closed", "tracking"} /\ worker[w].pc = "resume"
      /\ run' = IF issue[i].st = "closed" THEN Ended(i, {"resume_pending"}) ELSE run
      /\ Leave(w) /\ UNCHANGED <<issue, act, rule, fault>> /\ KeepWorker
  BY DEF ResumeClosed, At
<1>2. i \in Issue
  BY <1>1, WorkerHas
<1> HIDE DEF i
<1>3. RowsOK' /\ Eased(i) /\ OnlyWithdraws
  <2>1. CASE issue[i].st = "closed"
    <3>1. {"resume_pending"} \in SUBSET Live /\ Seats \subseteq Live
      BY DEF Live, Seats
    <3>2. /\ issue[i].claim = NoRun
          /\ \A r \in Run : run[r].issue = i => run[r].st \notin Live
          /\ \A a \in Action : IssueOf(a) = i => act[a].st # "proposed"
      BY <1>2, <2>1, ClosedNow DEF Inv
    <3>3. run' \in [Run -> RunRow] /\ \A r \in Run : run'[r] = run[r] \/ EndedHere(i, r)
      BY <1>1, <1>2, <2>1, <3>1, EndingHere DEF Inv, RowsOK
    <3>4. \A r \in Seated(i) : FALSE
      BY <3>1, <3>2 DEF Seated
    <3>5. QED
      BY <1>1, <3>2, <3>3, <3>4 DEF Inv, RowsOK, Eased, OnlyWithdraws
  <2>2. CASE issue[i].st # "closed"
    BY <1>1, <1>2, <2>2, RowsUnchanged DEF Inv, db
  <2>3. QED
    BY <2>1, <2>2
<1>4. QED
  BY <1>1, <1>2, <1>3, LeavingKeeps

\* The arr is asked before the claim.
LEMMA PreflightKeeps ==
    ASSUME Inv, NEW w \in Worker, Preflight(w)
    PROVE  Inv'
<1> DEFINE i == worker[w].issue
<1>1. /\ worker[w].pc \in {"fresh", "resume"} /\ Leave(w) /\ KeepWorker
      /\ \/ TakenOver(i) /\ UNCHANGED fault
         \/ Fault /\ (ObservationNeedsAdmin(i) \/ UNCHANGED db)
  BY DEF Preflight, At
<1>2. i \in Issue
  BY <1>1, WorkerHas
<1> HIDE DEF i
<1>3. RowsOK' /\ Eased(i) /\ OnlyWithdraws
  BY <1>1, <1>2, TakenOverMoves, ObservationMoves, RowsUnchanged DEF Inv
<1>4. QED
  BY <1>1, <1>2, <1>3, LeavingKeeps

\* The arr is asked after the claim.
LEMMA RecheckKeeps ==
    ASSUME Inv, NEW w \in Worker, Recheck(w)
    PROVE  Inv'
<1> DEFINE i == worker[w].issue
           r == worker[w].run
<1>1. /\ worker[w].pc \in InHand /\ Leave(w) /\ KeepWorker
      /\ \/ TakenOver(i) /\ UNCHANGED fault
         \/ Fault /\ (UNCHANGED db \/ AbortClaim(i, r))
         \/ HasAct(i, {"executing"}) /\ AbortClaim(i, r) /\ UNCHANGED fault
  BY DEF Recheck, At, InHand
<1>2. i \in Issue /\ r \in Run /\ run[r].issue = i
  BY <1>1, WorkerHas DEF InHand
<1> HIDE DEF i, r
<1>3. RowsOK' /\ Eased(i) /\ OnlyWithdraws
  BY <1>1, <1>2, TakenOverMoves, AbortMoves, RowsUnchanged DEF Inv
<1>4. QED
  BY <1>1, <1>2, <1>3, LeavingKeeps

\* Nobody sits on an issue that can be claimed.
LEMMA ClaimableIsFree ==
    ASSUME ClaimInv, NEW i \in Issue, Claimable(i)
    PROVE  Seated(i) = {}
<1>1. SeatedRight(i) /\ NoRun \notin Run
  BY Bounds DEF ClaimInv
<1>2. ASSUME NEW r \in Seated(i) PROVE FALSE
  <2>1. SeatFits(i, r) /\ r \in Run
    BY <1>1 DEF SeatedRight, Seated
  <2>2. QED
    BY <1>1, <2>1 DEF SeatFits, Claimable, Workable
<1>3. QED
  BY <1>2

\* A worker takes a run nobody has in hand and the issue with it.
LEMMA TakingKeeps ==
    ASSUME Inv, NEW w \in Worker, NEW i \in Issue, NEW r \in Run, NEW row \in RunRow,
           i = worker[w].issue, Claimable(i),
           run[r].issue \in {i, NoIssue}, run[r].st \notin InWork,
           row.issue = i, row.st = "running", row.steps <= MaxSteps,
           run' = [run EXCEPT ![r] = row],
           issue' = [issue EXCEPT ![i].st = "investigating", ![i].claim = r],
           worker' = [worker EXCEPT ![w].pc = "claimed", ![w].run = r],
           UNCHANGED <<act, rule, fault>>, KeepWorker
    PROVE  Inv'
<1>1. run' \in [Run -> RunRow] /\ run'[r] = row /\ \A q \in Run : q # r => run'[q] = run[q]
  BY DEF Inv, RowsOK
<1>2. /\ issue' \in [Issue -> IssueRow]
      /\ issue'[i].st = "investigating" /\ issue'[i].claim = r
      /\ \A j \in Issue : j # i => issue'[j] = issue[j]
  <2>1. "investigating" \in IssueStatus /\ [issue[i] EXCEPT !.st = "investigating", !.claim = r] \in IssueRow
    BY DEF Inv, RowsOK, IssueRow, IssueStatus
  <2>2. issue' = [issue EXCEPT ![i] = [issue[i] EXCEPT !.st = "investigating", !.claim = r]]
    BY DEF Inv, RowsOK
  <2>3. QED
    BY <2>1, <2>2 DEF Inv, RowsOK, IssueRow
<1>3. /\ worker' \in [Worker -> WorkerRow]
      /\ worker'[w].pc = "claimed" /\ worker'[w].run = r /\ worker'[w].issue = i
      /\ \A v \in Worker : v # w => worker'[v] = worker[v]
  <2>1. [worker[w] EXCEPT !.pc = "claimed", !.run = r] \in WorkerRow
    BY DEF Inv, HandsOK, WorkerRow, InHand
  <2>2. worker' = [worker EXCEPT ![w] = [worker[w] EXCEPT !.pc = "claimed", !.run = r]]
    BY DEF Inv, HandsOK
  <2>3. QED
    BY <2>1, <2>2 DEF Inv, HandsOK, WorkerRow
<1>4. RowsOK' /\ HandsOK' /\ OnlyWithdraws
  BY <1>1, <1>2, <1>3 DEF Inv, RowsOK, HandsOK, KeepWorker, OnlyWithdraws
<1>5. Within(i)
  BY <1>1, <1>2 DEF Within
<1>6. Seated(i)' = {r}
  <2>1. Seated(i) = {}
    BY ClaimableIsFree DEF Inv
  <2>2. \A q \in Run : q # r => ~(run'[q].issue = i /\ run'[q].st \in Seats)
    BY <1>1, <2>1 DEF Seated
  <2>3. r \in Seated(i)'
    BY <1>1 DEF Seated, Seats
  <2>4. QED
    BY <2>2, <2>3 DEF Seated
<1>7. SeatedRight(i)'
  BY <1>1, <1>2, <1>6 DEF SeatedRight, SeatFits
<1>8. Links' /\ ClaimInv'
  BY <1>5, <1>7, WithinKeeps DEF Inv
<1>9. Hands'
  <2>1. \A v \in Worker : worker[v].pc \in InHand => worker[v].run \in Run /\ worker[v].run # r
    BY DEF Inv, Hands
  <2>2. \A v \in Worker : v # w /\ worker'[v].pc \in InHand =>
           worker'[v] = worker[v] /\ worker[v].run # r /\ run'[worker[v].run] = run[worker[v].run]
    BY <1>1, <1>3, <2>1
  <2>3. /\ run'[r].st \in InWork /\ worker'[w].pc # "think"
    BY <1>1, <1>3 DEF InWork
  <2>4. \A v \in Worker : worker'[v].pc # "idle" => worker'[v].issue \in Issue
    BY <1>3 DEF Inv, Hands
  <2>5. ASSUME NEW v \in Worker, worker'[v].pc \in InHand
        PROVE  /\ worker'[v].run \in Run
               /\ run'[worker'[v].run].issue = worker'[v].issue
               /\ run'[worker'[v].run].st \in InWork
               /\ worker'[v].pc = "think" => run'[worker'[v].run].steps < MaxSteps
    <3>1. CASE v = w
      BY <1>1, <1>3, <2>3, <3>1
    <3>2. CASE v # w
      <4>1. worker'[v] = worker[v] /\ run'[worker[v].run] = run[worker[v].run]
        BY <2>2, <2>5, <3>2
      <4>2. /\ worker[v].run \in Run /\ run[worker[v].run].issue = worker[v].issue
            /\ run[worker[v].run].st \in InWork
            /\ worker[v].pc = "think" => run[worker[v].run].steps < MaxSteps
        BY <2>5, <4>1 DEF Inv, Hands
      <4>3. QED
        BY <4>1, <4>2
    <3>3. QED
      BY <3>1, <3>2
  <2>6. ASSUME NEW u \in Worker, NEW v \in Worker, worker'[u].pc \in InHand, worker'[v].pc \in InHand,
               worker'[u].run = worker'[v].run
        PROVE  u = v
    <3>1. CASE u # w /\ v # w
      BY <2>2, <2>6, <3>1 DEF Inv, Hands
    <3>2. CASE u = w \/ v = w
      BY <1>3, <2>2, <2>6, <3>2
    <3>3. QED
      BY <3>1, <3>2
  <2>7. QED
    BY <2>4, <2>5, <2>6 DEF Hands
<1>10. QED
  BY <1>4, <1>8, <1>9, WorkersStep DEF KeepWorker

\* Runner.claim
LEMMA ClaimKeeps ==
    ASSUME Inv, NEW w \in Worker, Claim(w)
    PROVE  Inv'
<1> DEFINE i == worker[w].issue
           r == Oldest(FreeRun)
           row == [issue |-> i, st |-> "running", gen |-> gen, seen |-> 0, steps |-> 0]
<1>1. worker[w].pc = "fresh" /\ KeepWorker
  BY DEF Claim, At
<1>2. i \in Issue
  BY <1>1, WorkerHas
<1>3. CASE /\ Claimable(i) /\ FreeRun # {} /\ run' = [run EXCEPT ![r] = row]
           /\ issue' = [issue EXCEPT ![i].st = "investigating", ![i].claim = r]
           /\ worker' = [worker EXCEPT ![w].pc = "claimed", ![w].run = r]
           /\ UNCHANGED <<act, rule, fault>>
  <2>1. r \in FreeRun /\ FreeRun \in SUBSET Run
    BY <1>3, PickedRows DEF FreeRun
  <2>2. r \in Run /\ run[r].st = "none" /\ run[r].issue = NoIssue
    BY <2>1 DEF FreeRun, Inv, Links
  <2>3. row \in RunRow /\ row.issue = i /\ row.st = "running" /\ row.steps <= MaxSteps
    BY <1>2, Bounds DEF RunRow, RunStatus, Live, Inv, PassOK
  <2>4. run[r].st \notin InWork
    BY <2>2 DEF InWork
  <2> HIDE DEF r, row
  <2>6. QED
    BY <1>1, <1>2, <1>3, <2>2, <2>3, <2>4, TakingKeeps
<1>4. CASE ~(Claimable(i) /\ FreeRun # {}) /\ Leave(w) /\ UNCHANGED <<db, fault>>
  <2>1. RowsOK' /\ Eased(i) /\ OnlyWithdraws
    BY <1>2, <1>4, RowsUnchanged DEF Inv
  <2>2. QED
    BY <1>1, <1>2, <1>4, <2>1, LeavingKeeps
<1>5. CASE Leave(w) /\ Fault /\ GiveUpUnclaimed(i)
  <2>1. RowsOK' /\ Eased(i) /\ OnlyWithdraws
    BY <1>2, <1>5, GiveUpUnclaimedMoves DEF Inv
  <2>2. QED
    BY <1>1, <1>2, <1>5, <2>1, LeavingKeeps
<1>6. QED
  BY <1>3, <1>4, <1>5 DEF Claim

\* Runner.claimResume
LEMMA ReclaimKeeps ==
    ASSUME Inv, NEW w \in Worker, Reclaim(w)
    PROVE  Inv'
<1> DEFINE i == worker[w].issue
           r == Newest(Staged(i))
           row == [run[r] EXCEPT !.st = "running"]
<1>1. worker[w].pc = "resume" /\ KeepWorker /\ UNCHANGED fault
  BY DEF Reclaim, At
<1>2. i \in Issue
  BY <1>1, WorkerHas
<1>3. CASE /\ Claimable(i) /\ Staged(i) # {} /\ run' = [run EXCEPT ![r].st = "running"]
           /\ issue' = [issue EXCEPT ![i].st = "investigating", ![i].claim = r]
           /\ worker' = [worker EXCEPT ![w].pc = "claimed", ![w].run = r]
           /\ UNCHANGED <<act, rule>>
  <2>1. r \in Staged(i) /\ Staged(i) \in SUBSET Run
    BY <1>3, PickedRows DEF Staged
  <2>2. r \in Run /\ run[r].st = "resume_pending" /\ run[r].issue = i
    BY <2>1 DEF Staged
  <2>3. /\ row \in RunRow /\ row.issue = i /\ row.st = "running" /\ row.steps = run[r].steps
        /\ run' = [run EXCEPT ![r] = row]
    BY <1>3, <2>2 DEF RunRow, RunStatus, Live, Inv, RowsOK
  <2>4. run[r].st \notin InWork /\ row.steps <= MaxSteps
    BY <2>2, <2>3 DEF InWork, Inv, Links
  <2> HIDE DEF r, row
  <2>5. UNCHANGED <<act, rule, fault>>
    BY <1>1, <1>3
  <2>6. QED
    BY <1>1, <1>2, <1>3, <2>2, <2>3, <2>4, <2>5, TakingKeeps
<1>4. CASE Leave(w) /\ UNCHANGED db
  <2>1. RowsOK' /\ Eased(i) /\ OnlyWithdraws
    BY <1>2, <1>4, RowsUnchanged DEF Inv
  <2>2. QED
    BY <1>1, <1>2, <1>4, <2>1, LeavingKeeps
<1>5. QED
  BY <1>3, <1>4 DEF Reclaim

\* A worker goes on with its run: the run reads or uses tools, and may
\* propose a fix while the issue is not closed.
LEMMA GoingOnKeeps ==
    ASSUME Inv, NEW w \in Worker, NEW i \in Issue, NEW r \in Run, NEW row \in RunRow,
           NEW now \in WorkerRow,
           worker[w].pc \in InHand, i = worker[w].issue, r = worker[w].run,
           row.issue = i, row.st = run[r].st, row.steps <= MaxSteps,
           run' = [run EXCEPT ![r] = row], issue' = issue, rule' = rule,
           now.pc \in InHand, now.run = r, now.issue = i,
           now.pc = "think" => row.steps < MaxSteps,
           worker' = [worker EXCEPT ![w] = now],
           act' \in [Action -> ActRow],
           \A a \in Action : \/ act'[a] = act[a]
                             \/ /\ act[a].st = "none" /\ issue[i].st # "closed"
                                /\ act'[a].run = r /\ act'[a].st = "proposed",
           fault' = fault \/ Fault, KeepWorker
    PROVE  Inv'
<1>1. run' \in [Run -> RunRow] /\ run'[r] = row /\ \A q \in Run : q # r => run'[q] = run[q]
  BY DEF Inv, RowsOK
<1>2. /\ worker' \in [Worker -> WorkerRow] /\ worker'[w] = now
      /\ \A v \in Worker : v # w => worker'[v] = worker[v]
  BY DEF Inv, HandsOK
<1>3. RowsOK' /\ HandsOK' /\ NoDecision
  BY <1>1, <1>2 DEF Inv, RowsOK, HandsOK, KeepWorker, NoDecision
<1>4. run[r].issue = i /\ run[r].st \in InWork
  BY WorkerHas, InHand = {"claimed", "think", "park"} DEF InHand
<1>5. run[r].st # "none" /\ row.st # "none" /\ row.st # "waiting_user" /\ row.st # "waiting_approval"
  BY <1>4 DEF InWork
<1>6. \A q \in Run : run'[q].issue = run[q].issue /\ run'[q].st = run[q].st
  BY <1>1, <1>4
<1>7. Within(i)
  BY <1>1, <1>4, <1>5 DEF Within
<1>8. SeatedRight(i)'
  <2>1. SeatedRight(i)
    BY DEF Inv, ClaimInv
  <2>2. Seated(i)' = Seated(i)
    BY <1>6 DEF Seated
  <2>3. ASSUME NEW q \in Seated(i) PROVE SeatFits(i, q)'
    <3>1. SeatFits(i, q) /\ q \in Run
      BY <2>1 DEF SeatedRight, Seated
    <3>2. CASE q = r
      BY <1>1, <1>5, <3>1, <3>2 DEF SeatFits
    <3>3. CASE q # r
      BY <1>1, <3>1, <3>3 DEF SeatFits, Unseen
    <3>4. QED
      BY <3>2, <3>3
  <2>4. \A q, p \in Seated(i)' : q = p
    BY <2>1, <2>2 DEF SeatedRight
  <2>5. issue'[i].claim # NoRun =>
          /\ issue'[i].claim \in Seated(i)'
          /\ run'[issue'[i].claim].st = "running" /\ issue'[i].st = "investigating"
    BY <2>1, <2>2, <1>6 DEF SeatedRight, Seated
  <2>6. issue'[i].st = "closed" =>
          /\ \A q \in Run : run'[q].issue = i => run'[q].st \notin Live
          /\ ~HasAct(i, {"proposed"})'
    <3>1. SUFFICES ASSUME issue[i].st = "closed"
                   PROVE  /\ \A q \in Run : run'[q].issue = i => run'[q].st \notin Live
                          /\ ~HasAct(i, {"proposed"})'
      OBVIOUS
    <3>2. act' = act
      <4>1. \A a \in Action : act'[a] = act[a]
        BY <3>1
      <4>2. QED
        BY <4>1 DEF Inv, RowsOK
    <3>3. \A a \in Action : act[a].st = "proposed" => IssueOf(a)' = IssueOf(a)
      BY <3>2, <1>6 DEF IssueOf, Inv, Links
    <3>4. QED
      BY <3>1, <3>2, <3>3, <1>6, <2>1 DEF SeatedRight, HasAct, ActsOf
  <2>7. QED
    BY <2>2, <2>3, <2>4, <2>5, <2>6 DEF SeatedRight
<1>9. Links' /\ ClaimInv'
  BY <1>7, <1>8, WithinKeeps DEF Inv
<1>10. Hands'
  <2>1. \A v \in Worker : worker'[v].pc # "idle" => worker'[v].issue \in Issue
    BY <1>2 DEF Inv, Hands
  <2>2. ASSUME NEW v \in Worker, worker'[v].pc \in InHand
        PROVE  /\ worker[v].pc \in InHand
               /\ worker'[v].run = worker[v].run /\ worker'[v].issue = worker[v].issue
               /\ run'[worker[v].run].issue = run[worker[v].run].issue
               /\ run'[worker[v].run].st \in InWork
               /\ worker'[v].pc = "think" => run'[worker[v].run].steps < MaxSteps
    <3>1. CASE v = w
      BY <1>1, <1>2, <1>4, <3>1
    <3>2. CASE v # w
      <4>1. worker'[v] = worker[v] /\ worker[v].run \in Run
        BY <1>2, <2>2, <3>2 DEF Inv, Hands
      <4>2. worker[v].run # r
        BY <2>2, <3>2, <4>1 DEF Inv, Hands
      <4>3. run'[worker[v].run] = run[worker[v].run]
        BY <1>1, <4>1, <4>2
      <4>4. /\ run[worker[v].run].st \in InWork
            /\ worker[v].pc = "think" => run[worker[v].run].steps < MaxSteps
        BY <2>2, <4>1 DEF Inv, Hands
      <4>5. QED
        BY <2>2, <4>1, <4>3, <4>4
    <3>3. QED
      BY <3>1, <3>2
  <2>3. QED
    BY <2>1, <2>2, HandsMoved DEF Inv
<1>11. QED
  BY <1>3, <1>9, <1>10, WorkersStep DEF KeepWorker

\* Giving up eases the issue of the run in hand.
LEMMA GivingUpKeeps ==
    ASSUME Inv, NEW w \in Worker, worker[w].pc \in InHand, Leave(w),
           GiveUp(worker[w].issue, worker[w].run) \/ ParkForReview(worker[w].issue, worker[w].run),
           fault' = fault \/ Fault, KeepWorker
    PROVE  Inv'
<1> DEFINE i == worker[w].issue
           r == worker[w].run
<1>1. i \in Issue /\ r \in Run
  BY WorkerHas DEF InHand
<1>2. HandOver(i, r, AutoExecuted(i)) \/ HandOver(i, r, FALSE)
  BY DEF GiveUp, ParkForReview
<1> HIDE DEF i, r
<1>3. RowsOK' /\ Eased(i) /\ OnlyWithdraws
  BY <1>1, <1>2, HandOverMoves DEF Inv
<1>4. QED
  BY <1>1, <1>3, LeavingKeeps

\* The head of the turn loop.
LEMMA TurnKeeps ==
    ASSUME Inv, NEW w \in Worker, worker[w].pc \in InHand, NEW more \in {0, 1}, Turn(w, more),
           fault' = fault, KeepWorker
    PROVE  Inv'
<1> DEFINE i == worker[w].issue
           r == worker[w].run
           row == [run[r] EXCEPT !.seen = issue[i].msgs, !.steps = @ + more]
           now == [worker[w] EXCEPT !.pc = "think", !.gate = "none"]
<1>1. i \in Issue /\ r \in Run /\ run[r].issue = i
  BY WorkerHas DEF InHand
<1>2. CASE Leave(w) /\ GiveUp(i, r)
  BY <1>2, GivingUpKeeps
<1>3. CASE /\ ~(run[r].steps + more >= MaxSteps)
           /\ worker' = [worker EXCEPT ![w].pc = "think", ![w].gate = "none"]
           /\ run' = [run EXCEPT ![r].seen = issue[i].msgs, ![r].steps = @ + more]
           /\ UNCHANGED <<issue, act, rule>>
  <2>1. /\ run[r] \in RunRow /\ worker[w] \in WorkerRow /\ issue[i].msgs \in 0 .. MaxMsg
        /\ run[r].steps \in Nat /\ MaxSteps \in Nat
    BY <1>1, Bounds DEF Inv, RowsOK, HandsOK, RunRow, IssueRow
  <2>2. row \in RunRow /\ row.issue = i /\ row.st = run[r].st /\ row.steps < MaxSteps
    <3>1. run[r].steps + more < MaxSteps /\ run[r].steps + more \in 0 .. MaxSteps + 1
      BY <1>3, <2>1
    <3>2. row.seen = issue[i].msgs /\ row.steps = run[r].steps + more
          /\ row.issue = i /\ row.st = run[r].st
      BY <1>1, <2>1 DEF RunRow
    <3>3. row \in RunRow
      BY <2>1, <3>1 DEF RunRow
    <3>4. QED
      BY <3>1, <3>2, <3>3
  <2>3. now \in WorkerRow /\ now.pc = "think" /\ now.run = r /\ now.issue = i
    BY <2>1 DEF WorkerRow, InHand
  <2>4. run' = [run EXCEPT ![r] = row] /\ worker' = [worker EXCEPT ![w] = now]
    BY <1>1, <1>3 DEF Inv, RowsOK, HandsOK
  <2>5. row.steps <= MaxSteps /\ now.pc \in InHand
    BY <2>1, <2>2, <2>3 DEF RunRow, InHand
  <2>6. act' \in [Action -> ActRow] /\ \A a \in Action : act'[a] = act[a]
    BY <1>3 DEF Inv, RowsOK
  <2>7. i = worker[w].issue /\ r = worker[w].run /\ issue' = issue /\ rule' = rule
    BY <1>3
  <2> HIDE DEF row, now, i, r
  <2>8. QED
    BY <1>1, <2>2, <2>3, <2>4, <2>5, <2>6, <2>7, GoingOnKeeps
<1>4. QED
  BY <1>2, <1>3 DEF Turn

\* The first turn after a claim.
LEMMA FirstTurnKeeps ==
    ASSUME Inv, NEW w \in Worker, FirstTurn(w)
    PROVE  Inv'
<1>1. worker[w].pc \in InHand /\ Turn(w, 0) /\ fault' = fault /\ KeepWorker
  BY DEF FirstTurn, At, InHand
<1>2. QED
  BY <1>1, TurnKeeps

\* A worker that finds nothing to do leaves.
LEMMA LeavingAloneKeeps ==
    ASSUME Inv, NEW w \in Worker, worker[w].pc \in InHand, Leave(w), UNCHANGED db,
           fault' = fault \/ Fault, KeepWorker
    PROVE  Inv'
<1> DEFINE i == worker[w].issue
<1>1. i \in Issue
  BY WorkerHas DEF InHand
<1> HIDE DEF i
<1>2. RowsOK' /\ Eased(i) /\ OnlyWithdraws
  BY <1>1, RowsUnchanged DEF Inv
<1>3. QED
  BY <1>1, <1>2, LeavingKeeps

\* One model turn.
LEMMA ThinkKeeps ==
    ASSUME Inv, NEW w \in Worker, Think(w)
    PROVE  Inv'
<1>1. worker[w].pc \in InHand /\ fault' = fault /\ KeepWorker
  BY DEF Think, At, InHand
<1>2. \/ Leave(w) /\ GiveUp(worker[w].issue, worker[w].run)
      \/ Leave(w) /\ UNCHANGED db
      \/ Turn(w, 1) \/ Turn(w, 0)
  BY DEF Think
<1>3. QED
  BY <1>1, <1>2, GivingUpKeeps, LeavingAloneKeeps, TurnKeeps

\* One more tool call fits the budget of a run in thought.
LEMMA OneMoreStep ==
    ASSUME Inv, NEW w \in Worker, worker[w].pc = "think"
    PROVE  LET r == worker[w].run
               row == [run[r] EXCEPT !.steps = @ + 1]
           IN  /\ row \in RunRow /\ row.issue = worker[w].issue /\ row.st = run[r].st
               /\ row.steps <= MaxSteps
<1> DEFINE r == worker[w].run
           row == [run[r] EXCEPT !.steps = @ + 1]
<1>1. r \in Run /\ run[r].issue = worker[w].issue /\ run[r].steps < MaxSteps
  BY DEF Inv, Hands, InHand
<1>2. run[r] \in RunRow /\ run[r].steps \in Nat /\ MaxSteps \in Nat
  BY <1>1, Bounds DEF Inv, RowsOK, RunRow
<1>3. /\ run[r].steps + 1 <= MaxSteps /\ run[r].steps + 1 \in 0 .. MaxSteps + 1
  BY <1>1, <1>2
<1>4. row.steps = run[r].steps + 1 /\ row.issue = worker[w].issue /\ row.st = run[r].st
  BY <1>1, <1>2 DEF RunRow
<1>5. row \in RunRow
  BY <1>2, <1>3 DEF RunRow
<1>6. QED
  BY <1>3, <1>4, <1>5

\* ProposeAction
LEMMA ProposeKeeps ==
    ASSUME Inv, NEW w \in Worker, Propose(w)
    PROVE  Inv'
<1> DEFINE i == worker[w].issue
           r == worker[w].run
           a == Oldest(FreeAction)
           row == [run[r] EXCEPT !.steps = @ + 1]
           now == [worker[w] EXCEPT !.pc = "park", !.gate = "propose"]
           fix == [run |-> r, st |-> "proposed", auto |-> FALSE]
<1>1. /\ worker[w].pc = "think" /\ worker[w].pc \in InHand /\ Owns(i, r) /\ FreeAction # {}
      /\ act' = [act EXCEPT ![a] = fix]
      /\ run' = [run EXCEPT ![r].steps = @ + 1]
      /\ worker' = [worker EXCEPT ![w].pc = "park", ![w].gate = "propose"]
      /\ issue' = issue /\ rule' = rule /\ fault' = fault /\ KeepWorker
  BY DEF Propose, At, InHand
<1>2. i \in Issue /\ r \in Run /\ run[r].issue = i
  BY <1>1, WorkerHas
<1>3. row \in RunRow /\ row.issue = i /\ row.st = run[r].st /\ row.steps <= MaxSteps
  BY <1>1, OneMoreStep
<1>4. now \in WorkerRow /\ now.pc \in InHand /\ now.pc # "think" /\ now.run = r /\ now.issue = i
  BY DEF WorkerRow, InHand, Inv, HandsOK
<1>5. run' = [run EXCEPT ![r] = row] /\ worker' = [worker EXCEPT ![w] = now]
  BY <1>1, <1>2 DEF Inv, RowsOK, HandsOK
<1>6. a \in Action /\ act[a].st = "none"
  <2>1. FreeAction \in SUBSET Action
    BY DEF FreeAction
  <2>2. a \in FreeAction
    BY <1>1, <2>1, PickedRows
  <2>3. QED
    BY <2>2 DEF FreeAction
<1>7. fix \in ActRow
  BY <1>2 DEF ActRow, ActionStatus
<1>8. /\ act' \in [Action -> ActRow]
      /\ \A b \in Action : \/ act'[b] = act[b]
                           \/ /\ act[b].st = "none" /\ issue[i].st # "closed"
                              /\ act'[b].run = r /\ act'[b].st = "proposed"
  BY <1>1, <1>6, <1>7 DEF Inv, RowsOK, Owns
<1>9. /\ i = worker[w].issue /\ r = worker[w].run /\ worker[w].pc \in InHand
      /\ issue' = issue /\ rule' = rule /\ (fault' = fault \/ Fault) /\ KeepWorker
  BY <1>1
<1> HIDE DEF row, now, fix, a, i, r
<1>10. now.pc = "think" => row.steps < MaxSteps
  BY <1>4
<1>11. QED
  BY <1>2, <1>3, <1>4, <1>5, <1>8, <1>9, <1>10, GoingOnKeeps

\* ask_reporter
LEMMA AskKeeps ==
    ASSUME Inv, NEW w \in Worker, Ask(w)
    PROVE  Inv'
<1> DEFINE i == worker[w].issue
           r == worker[w].run
           row == [run[r] EXCEPT !.steps = @ + 1]
           now == [worker[w] EXCEPT !.pc = "park", !.gate = "ask"]
<1>1. /\ worker[w].pc = "think" /\ worker[w].pc \in InHand
      /\ run' = [run EXCEPT ![r].steps = @ + 1]
      /\ worker' = [worker EXCEPT ![w].pc = "park", ![w].gate = "ask"]
      /\ issue' = issue /\ act' = act /\ rule' = rule /\ fault' = fault /\ KeepWorker
  BY DEF Ask, At, InHand
<1>2. i \in Issue /\ r \in Run /\ run[r].issue = i
  BY <1>1, WorkerHas
<1>3. row \in RunRow /\ row.issue = i /\ row.st = run[r].st /\ row.steps <= MaxSteps
  BY <1>1, OneMoreStep
<1>4. now \in WorkerRow /\ now.pc \in InHand /\ now.pc # "think" /\ now.run = r /\ now.issue = i
  BY DEF WorkerRow, InHand, Inv, HandsOK
<1>5. run' = [run EXCEPT ![r] = row] /\ worker' = [worker EXCEPT ![w] = now]
  BY <1>1, <1>2 DEF Inv, RowsOK, HandsOK
<1>6. act' \in [Action -> ActRow] /\ \A b \in Action : act'[b] = act[b]
  BY <1>1 DEF Inv, RowsOK
<1>7. /\ i = worker[w].issue /\ r = worker[w].run /\ worker[w].pc \in InHand
      /\ issue' = issue /\ rule' = rule /\ (fault' = fault \/ Fault) /\ KeepWorker
  BY <1>1
<1> HIDE DEF row, now, i, r
<1>8. now.pc = "think" => row.steps < MaxSteps
  BY <1>4
<1>9. QED
  BY <1>2, <1>3, <1>4, <1>5, <1>6, <1>7, <1>8, GoingOnKeeps

\* conclude_issue
LEMMA ConcludeKeeps ==
    ASSUME Inv, NEW w \in Worker, Conclude(w)
    PROVE  Inv'
<1> DEFINE i == worker[w].issue
           r == worker[w].run
<1>1. worker[w].pc \in InHand /\ fault' = fault /\ KeepWorker /\ Leave(w)
  BY DEF Conclude, At, InHand
<1>2. CASE ParkForReview(i, r) \/ GiveUp(i, r)
  BY <1>1, <1>2, GivingUpKeeps
<1>3. CASE Close(i, "cleared", r)
  <2>1. i \in Issue
    BY <1>1, WorkerHas DEF InHand
  <2>2. RowsOK' /\ Eased(i) /\ OnlyWithdraws
    BY <1>3, <2>1, CloseMoves DEF Inv
  <2> HIDE DEF i
  <2>3. QED
    BY <1>1, <2>1, <2>2, LeavingKeeps
<1>4. QED
  BY <1>2, <1>3 DEF Conclude

\* parkWith releases the claim with the run at its gate.
LEMMA ParkedKeeps ==
    ASSUME Inv, NEW w \in Worker, worker[w].pc \in InHand,
           NEW i \in Issue, NEW r \in Run, NEW ist, NEW rst,
           i = worker[w].issue, r = worker[w].run, Parks(i, r), Leave(w),
           \/ ist = "awaiting_approval" /\ rst = "waiting_approval"
           \/ ist = "awaiting_user" /\ rst = "waiting_user",
           issue' = Released(i, ist), run' = [run EXCEPT ![r].st = rst], act' = act, rule' = rule, fault' = fault, KeepWorker
    PROVE  Inv'
<1> DEFINE row == [run[r] EXCEPT !.st = rst]
<1>1. run[r].issue = i
  BY WorkerHas DEF InHand
<1>2. issue[i].claim = r /\ run[r].st = "running" /\ ~Unseen(i, r)
  BY DEF Parks, Owns
<1>3. ist \in IssueStatus /\ ist # "closed" /\ ist # "needs_admin"
  BY DEF IssueStatus
<1>4. run[r] \in RunRow /\ rst \in RunStatus /\ run' = [run EXCEPT ![r] = row]
  BY <1>1 DEF Inv, RowsOK, RunStatus, Live, Parked
<1>5. row \in RunRow /\ row.issue = i /\ row.st = rst /\ row.seen = run[r].seen /\ row.steps = run[r].steps
  BY <1>1, <1>4 DEF RunRow
<1> HIDE DEF row
<1>7. /\ issue' \in [Issue -> IssueRow] /\ issue'[i].st = ist /\ issue'[i].claim = NoRun
      /\ issue'[i].msgs = issue[i].msgs /\ \A j \in Issue : j # i => issue'[j] = issue[j]
  BY <1>1, <1>3, ReleasedIs DEF Inv, RowsOK
<1>8. run' \in [Run -> RunRow] /\ run'[r] = row /\ \A q \in Run : q # r => run'[q] = run[q]
  BY <1>1, <1>4, <1>5 DEF Inv, RowsOK
<1>9. HandsOK' /\ \A v \in Worker : worker'[v] = worker[v] \/ worker'[v].pc = "idle"
  BY LeaveIs DEF Inv, KeepWorker
<1>10. RowsOK' /\ OnlyWithdraws
  BY <1>7, <1>8 DEF Inv, RowsOK, OnlyWithdraws
<1>11. rst # "none" /\ run[r].steps <= MaxSteps
  BY DEF Inv, Links
<1>12. Within(i)
  BY <1>1, <1>5, <1>7, <1>8, <1>11 DEF Within
<1>13. SeatedRight(i)'
  <2>1. SeatedRight(i) /\ r \in Seated(i)
    BY <1>1, <1>2 DEF Inv, ClaimInv, Seated, Seats
  <2>2. \A q \in Run : q # r => q \notin Seated(i)
    BY <2>1 DEF SeatedRight
  <2>3. \A q \in Seated(i)' : q = r
    BY <1>8, <2>2 DEF Seated
  <2>4. SeatFits(i, r)'
    BY <1>2, <1>5, <1>7, <1>8 DEF SeatFits, Unseen
  <2>5. QED
    BY <1>3, <1>7, <2>3, <2>4 DEF SeatedRight
<1>14. Links' /\ ClaimInv'
  BY <1>12, <1>13, WithinKeeps DEF Inv
<1>15. Hands'
  <2>1. \A v \in Worker : worker'[v].pc # "idle" => worker'[v].issue \in Issue
    BY <1>9 DEF Inv, Hands
  <2>2. ASSUME NEW v \in Worker, worker'[v].pc \in InHand
        PROVE  /\ worker[v].pc \in InHand
               /\ worker'[v].run = worker[v].run /\ worker'[v].issue = worker[v].issue
               /\ run'[worker[v].run].issue = run[worker[v].run].issue
               /\ run'[worker[v].run].st \in InWork
               /\ worker'[v].pc = "think" => run'[worker[v].run].steps < MaxSteps
    <3>1. worker'[v] = worker[v] /\ v # w
      <4>1. "idle" \notin InHand /\ worker'[w].pc = "idle"
        BY DEF InHand, Leave, IdleWorker, Inv, HandsOK
      <4>2. QED
        BY <1>9, <2>2, <4>1
    <3>2. worker[v].run \in Run /\ worker[v].run # r
      BY <2>2, <3>1 DEF Inv, Hands
    <3>3. run'[worker[v].run] = run[worker[v].run]
      BY <1>8, <3>2
    <3>4. /\ run[worker[v].run].st \in InWork
          /\ worker[v].pc = "think" => run[worker[v].run].steps < MaxSteps
      BY <2>2, <3>1 DEF Inv, Hands
    <3>5. QED
      BY <2>2, <3>1, <3>3, <3>4
  <2>3. QED
    BY <2>1, <2>2, HandsMoved DEF Inv
<1>16. QED
  BY <1>9, <1>10, <1>14, <1>15, WorkersStep DEF KeepWorker

\* invalidateStalePark: the proposal of a run that must read on is withdrawn.
LEMMA StaleParkKeeps ==
    ASSUME Inv, NEW w \in Worker, worker[w].pc = "park", Goto(w, "claimed"),
           act' = Superseded({a \in Action : act[a].run = worker[w].run}) \/ act' = act,
           UNCHANGED <<issue, run, rule, fault>>, KeepWorker
    PROVE  Inv'
<1> DEFINE i == worker[w].issue
           r == worker[w].run
           S == {a \in Action : act[a].run = r /\ act[a].st = "proposed"}
           now == [worker[w] EXCEPT !.pc = "claimed"]
<1>1. i \in Issue /\ r \in Run /\ run[r].issue = i
  BY WorkerHas DEF InHand
<1>2. RowsOK' /\ OnlyWithdraws /\ Eased(i)
  <2>1. CASE act' = act
    BY <1>1, <2>1, RowsUnchanged DEF Inv, db
  <2>2. CASE act' = Superseded({a \in Action : act[a].run = r})
    <3>1. S \in SUBSET ActsOf(i)
      BY <1>1 DEF ActsOf, IssueOf
    <3>2. act' = Superseded(S)
      BY <2>2 DEF Superseded
    <3> HIDE DEF i, S
    <3>3. QED
      BY <1>1, <3>1, <3>2, WithdrawnHere DEF Inv, RowsOK, Eased
  <2>3. QED
    BY <2>1, <2>2
<1>3. Links' /\ ClaimInv' /\ RunsHeld
  BY <1>1, <1>2, EasedKeeps DEF Inv
<1>4. now \in WorkerRow /\ now.pc = "claimed" /\ now.run = r /\ now.issue = i
  BY DEF WorkerRow, InHand, Inv, HandsOK
<1>5. /\ worker' \in [Worker -> WorkerRow] /\ worker'[w] = now
      /\ \A v \in Worker : v # w => worker'[v] = worker[v]
  BY <1>4 DEF Goto, Inv, HandsOK
<1>6. HandsOK'
  BY <1>5 DEF Inv, HandsOK, KeepWorker
<1>7. Hands'
  <2>1. \A v \in Worker : worker'[v].pc # "idle" => worker'[v].issue \in Issue
    BY <1>1, <1>4, <1>5 DEF Inv, Hands
  <2>2. ASSUME NEW v \in Worker, worker'[v].pc \in InHand
        PROVE  /\ worker[v].pc \in InHand
               /\ worker'[v].run = worker[v].run /\ worker'[v].issue = worker[v].issue
               /\ run'[worker[v].run].issue = run[worker[v].run].issue
               /\ run'[worker[v].run].st \in InWork
               /\ worker'[v].pc = "think" => run'[worker[v].run].steps < MaxSteps
    <3>1. CASE v = w
      <4>1. worker[w].pc \in InHand /\ run[r].st \in InWork
        BY WorkerHas DEF InHand
      <4>2. QED
        BY <1>4, <1>5, <3>1, <4>1
    <3>2. CASE v # w
      BY <1>5, <2>2, <3>2 DEF Inv, Hands
    <3>3. QED
      BY <3>1, <3>2
  <2>3. QED
    BY <2>1, <2>2, HandsMoved DEF Inv
<1>8. QED
  BY <1>2, <1>3, <1>6, <1>7, WorkersStep DEF KeepWorker

\* parkWith and what follows when it is refused.
LEMMA ParkKeeps ==
    ASSUME Inv, NEW w \in Worker, Park(w)
    PROVE  Inv'
<1>1. worker[w].pc = "park" /\ worker[w].pc \in InHand /\ KeepWorker
  BY DEF Park, At, InHand
<1>2. PICK i, r : i = worker[w].issue /\ r = worker[w].run
  OBVIOUS
<1>3. i \in Issue /\ r \in Run
  BY <1>1, <1>2, WorkerHas
<1>4. PICK ist, rst :
        /\ ist = IF worker[w].gate = "propose" THEN "awaiting_approval" ELSE "awaiting_user"
        /\ rst = IF worker[w].gate = "propose" THEN "waiting_approval" ELSE "waiting_user"
  OBVIOUS
<1>5. \/ ist = "awaiting_approval" /\ rst = "waiting_approval"
      \/ ist = "awaiting_user" /\ rst = "waiting_user"
  BY <1>4
<1>6. CASE /\ Parks(i, r) /\ Leave(w) /\ issue' = Released(i, ist)
           /\ run' = [run EXCEPT ![r].st = rst] /\ UNCHANGED <<act, rule, fault>>
  <2>1. act' = act /\ rule' = rule /\ fault' = fault
    BY <1>6
  <2>2. QED
    BY <1>1, <1>2, <1>3, <1>5, <1>6, <2>1, ParkedKeeps
<1>7. CASE /\ Goto(w, "claimed")
           /\ act' = Superseded({a \in Action : act[a].run = worker[w].run}) \/ act' = act
           /\ UNCHANGED <<issue, run, rule, fault>>
  BY <1>1, <1>7, StaleParkKeeps
<1>8. CASE Leave(w) /\ UNCHANGED <<db, fault>>
  BY <1>1, <1>8, LeavingAloneKeeps DEF db
<1>9. CASE Fault /\ Leave(w) /\ GiveUp(worker[w].issue, worker[w].run)
  BY <1>1, <1>9, GivingUpKeeps
<1>10. QED
  BY <1>1, <1>2, <1>4, <1>6, <1>7, <1>8, <1>9 DEF Park

\* A worker's step keeps the invariant.
LEMMA WorkerKeeps ==
    ASSUME Inv, NEW w \in Worker, WorkerStep(w)
    PROVE  Inv'
BY TakeKeeps, ResumeClosedKeeps, PreflightKeeps, ClaimKeeps, ReclaimKeeps, RecheckKeeps,
   FirstTurnKeeps, ThinkKeeps, ProposeKeeps, AskKeeps, ConcludeKeeps, ParkKeeps DEF WorkerStep

-----------------------------------------------------------------------------
(* The steps of a decision                                                 *)

\* An action that exists belongs to a run of an issue.
LEMMA FixHas ==
    ASSUME RowsOK, Links, NEW a \in Action, act[a].st # "none"
    PROVE  act[a].run \in Run /\ IssueOf(a) \in Issue
<1>1. act[a].run \in Run /\ run[act[a].run].st # "none"
  BY DEF Links
<1>2. run[act[a].run].issue # NoIssue /\ run[act[a].run].issue \in Issue \union {NoIssue}
  BY <1>1 DEF Links, RowsOK, RunRow
<1>3. QED
  BY <1>1, <1>2 DEF IssueOf

\* What a decider at work decides.
LEMMA DeciderHas ==
    ASSUME Inv, NEW d \in Decider, decider[d].pc # "idle"
    PROVE  /\ decider[d].act \in Action /\ act[decider[d].act].st # "none"
           /\ act[decider[d].act].run \in Run /\ IssueOf(decider[d].act) \in Issue
<1>1. decider[d].act \in Action /\ act[decider[d].act].st # "none"
  BY DEF Inv, Ledger
<1>2. QED
  BY <1>1, FixHas DEF Inv

\* What is left to show when rows, deciders and jobs change.
LEMMA DecidersStep ==
    ASSUME Inv, RowsOK', DecidersOK', Ledger', Links', ClaimInv', RunsHeld,
           jobs' \in Seq(JobRow) /\ Len(jobs') <= QueueCap,
           worker' = worker, todo' = todo, gen' = gen, fault' = fault \/ Fault,
           \A a \in Action : act[a].st # "none" => act'[a].st # "none"
    PROVE  Inv'
<1>1. PassOK' /\ HandsOK'
  BY FaultIs DEF Inv, HandsOK
<1>2. Hands'
  BY HandsKept DEF Inv
<1>3. Handing'
  BY DEF Inv, Handing, PassOK
<1>4. QED
  BY <1>1, <1>2, <1>3 DEF Inv

\* A decision that eases an issue keeps the invariant if it keeps the ledger.
LEMMA EasedDecision ==
    ASSUME Inv, NEW i \in Issue, RowsOK', Eased(i), DecidersOK', Ledger',
           KeepDecider, fault' = fault \/ Fault
    PROVE  Inv'
<1>1. Links' /\ ClaimInv' /\ RunsHeld
  BY EasedKeeps DEF Inv
<1>2. \A a \in Action : act[a].st # "none" => act'[a].st # "none"
  BY DEF Eased
<1>3. jobs' \in Seq(JobRow) /\ Len(jobs') <= QueueCap
  BY DEF Inv, HandsOK, KeepDecider
<1>4. QED
  BY <1>1, <1>2, <1>3, DecidersStep DEF KeepDecider

\* A decider's row fits the action it decides.
DecidesRight(now, a) ==
    /\ now.pc # "idle" => now.act = a
    /\ now.pc \in Deciding => act'[a].st = "executing"
    /\ now.pc = "execute" => effect'[a] = 0
    /\ now.pc = "settle" => /\ now.out # "none"
                            /\ now.out = "executed" => effect'[a] = 1
                            /\ now.out = "failed" => effect'[a] = 0

\* One decider moves, and with it at most one action that no other decides.
LEMMA LedgerMoved ==
    ASSUME DecidersOK, Ledger, NEW d \in Decider, NEW now \in DeciderRow, NEW a \in Action,
           decider' = [decider EXCEPT ![d] = now],
           effect' \in [Action -> Nat],
           \A b \in Action : b # a => act'[b].st = act[b].st /\ effect'[b] = effect[b],
           \A e \in Decider : e # d /\ decider[e].pc \in Deciding => decider[e].act # a,
           act[a].st # "none", act'[a].st \notin {"none"}, effect'[a] \in {0, 1},
           act'[a].st = "proposed" => effect'[a] = 0,
           DecidesRight(now, a)
    PROVE  DecidersOK' /\ Ledger'
<1> USE DEF DecidesRight
<1>1. decider' \in [Decider -> DeciderRow] /\ decider'[d] = now
      /\ \A e \in Decider : e # d => decider'[e] = decider[e]
  BY DEF DecidersOK
<1>2. DecidersOK'
  BY <1>1 DEF DecidersOK
<1>3. ASSUME NEW e \in Decider, decider'[e].pc # "idle"
      PROVE  decider'[e].act \in Action /\ act'[decider'[e].act].st # "none"
  BY <1>1, <1>3 DEF Ledger
<1>4. ASSUME NEW e \in Decider, decider'[e].pc \in Deciding
      PROVE  act'[decider'[e].act].st = "executing"
  <2>1. CASE e = d
    BY <1>1, <1>4, <2>1 DEF Deciding
  <2>2. CASE e # d
    <3>1. decider[e].act \in Action /\ act[decider[e].act].st = "executing" /\ decider[e].act # a
      BY <1>1, <1>4, <2>2 DEF Ledger, Deciding
    <3>2. QED
      BY <1>1, <2>2, <3>1
  <2>3. QED
    BY <2>1, <2>2
<1>5. ASSUME NEW e \in Decider, NEW f \in Decider, decider'[e].pc \in Deciding,
             decider'[f].pc \in Deciding, decider'[e].act = decider'[f].act
      PROVE  e = f
  <2>1. now.pc \in Deciding => now.act = a
    BY DEF Deciding
  <2>2. CASE e = d \/ f = d
    BY <1>1, <1>5, <2>1, <2>2
  <2>3. CASE e # d /\ f # d
    BY <1>1, <1>5, <2>3 DEF Ledger
  <2>4. QED
    BY <2>2, <2>3
<1>6. \A b \in Action : effect'[b] \in {0, 1} /\ (act'[b].st \in {"none", "proposed"} => effect'[b] = 0)
  BY DEF Ledger
<1>7. ASSUME NEW e \in Decider, decider'[e].pc \in Deciding
      PROVE  /\ decider'[e].pc = "execute" => effect'[decider'[e].act] = 0
             /\ decider'[e].pc = "settle" =>
                  /\ decider'[e].out # "none"
                  /\ decider'[e].out = "executed" => effect'[decider'[e].act] = 1
                  /\ decider'[e].out = "failed" => effect'[decider'[e].act] = 0
  <2>1. CASE e = d
    BY <1>1, <1>7, <2>1 DEF Deciding
  <2>2. CASE e # d
    <3>1. decider[e].act \in Action /\ decider[e].act # a
      BY <1>1, <1>7, <2>2 DEF Ledger, Deciding
    <3>2. QED
      BY <1>1, <2>2, <3>1 DEF Ledger
  <2>3. QED
    BY <2>1, <2>2
<1>8. Ledger'
  BY <1>3, <1>4, <1>5, <1>6, <1>7 DEF Ledger, Deciding
<1>9. QED
  BY <1>2, <1>8

\* A decider that leaves is idle, the others stay.
LEMMA DoneIs ==
    ASSUME DecidersOK, NEW d \in Decider, Done(d), effect' = effect
    PROVE  /\ DecidersOK'
           /\ \A e \in Decider : decider'[e] = decider[e] \/ decider'[e].pc = "idle"
<1>1. IdleDecider \in DeciderRow /\ IdleDecider.pc = "idle"
  BY DEF IdleDecider, DeciderRow
<1>2. QED
  BY <1>1 DEF Done, DecidersOK

\* A decider that eases an issue by withdrawing proposals and leaves.
LEMMA DoneKeeps ==
    ASSUME Inv, NEW d \in Decider, NEW i \in Issue, RowsOK', Eased(i), OnlyWithdraws,
           Done(d), effect' = effect, KeepDecider, fault' = fault \/ Fault
    PROVE  Inv'
<1>1. DecidersOK' /\ \A e \in Decider : decider'[e] = decider[e] \/ decider'[e].pc = "idle"
  BY DoneIs DEF Inv
<1>2. Ledger'
  BY <1>1, LedgerKept DEF Inv, OnlyWithdraws
<1>3. QED
  BY <1>1, <1>2, EasedDecision

\* Recording the status of one action.
LEMMA SetActIs ==
    ASSUME act \in [Action -> ActRow], NEW a \in Action, NEW st \in ActionStatus, SetAct(a, st)
    PROVE  /\ act' \in [Action -> ActRow] /\ act'[a].st = st
           /\ act'[a].run = act[a].run /\ act'[a].auto = act[a].auto
           /\ \A b \in Action : b # a => act'[b] = act[b]
BY DEF SetAct, ActRow

\* A decision changes an action alone: its issue is eased.
LEMMA SetActEases ==
    ASSUME RowsOK, NEW a \in Action, NEW st \in ActionStatus \ {"none", "proposed"},
           act[a].st # "none", SetAct(a, st), issue' = issue, run' = run, rule' \in {"active", "paused"}
    PROVE  RowsOK' /\ Eased(IssueOf(a))
<1>1. /\ act' \in [Action -> ActRow] /\ act'[a].st = st /\ act'[a].run = act[a].run
      /\ \A b \in Action : b # a => act'[b] = act[b]
  BY SetActIs DEF RowsOK
<1>2. RowsOK'
  BY <1>1 DEF RowsOK
<1>3. \A b \in Action : \/ act'[b] = act[b]
                        \/ /\ act[b].st # "none" /\ IssueOf(b) = IssueOf(a)
                           /\ act'[b].run = act[b].run /\ act'[b].st \notin {"none", "proposed"}
  BY <1>1
<1>4. QED
  BY <1>2, <1>3 DEF Eased

\* An approval begins.
LEMMA ApproveKeeps ==
    ASSUME Inv, NEW d \in Decider, Approve(d)
    PROVE  Inv'
<1>1. PICK a \in Action, byRule \in BOOLEAN :
        /\ Decidable(a)
        /\ decider' = [decider EXCEPT ![d] = [pc |-> "claim", act |-> a, auto |-> byRule, out |-> "none"]]
  BY DEF Approve
<1>2. UNCHANGED <<db, effect, fault>> /\ KeepDecider /\ act[a].st = "proposed"
  BY <1>1 DEF Approve, Decidable
<1> DEFINE now == [pc |-> "claim", act |-> a, auto |-> byRule, out |-> "none"]
           i == IssueOf(a)
<1>3. now \in DeciderRow /\ now.pc \notin Deciding /\ now.pc # "execute" /\ now.pc # "settle" /\ now.act = a
  BY DEF DeciderRow, Deciding
<1>4. i \in Issue
  BY <1>2, FixHas DEF Inv
<1> HIDE DEF now
<1>5. /\ decider' = [decider EXCEPT ![d] = now] /\ act' = act /\ effect' = effect
  BY <1>1, <1>2 DEF now, db
<1>6. effect \in [Action -> Nat] /\ effect[a] = 0
  BY <1>2 DEF Inv, DecidersOK, Ledger
<1>7. \A e \in Decider : decider[e].pc \in Deciding => decider[e].act # a
  BY <1>2 DEF Inv, Ledger
<1>8. DecidersOK' /\ Ledger'
  <2>1. /\ effect' \in [Action -> Nat] /\ effect'[a] \in {0, 1} /\ effect'[a] = 0
        /\ act[a].st # "none" /\ act'[a].st \notin {"none"} /\ DecidersOK /\ Ledger
        /\ \A b \in Action : b # a => act'[b].st = act[b].st /\ effect'[b] = effect[b]
    BY <1>2, <1>5, <1>6 DEF Inv
  <2>2. \A e \in Decider : e # d /\ decider[e].pc \in Deciding => decider[e].act # a
    BY <1>7
  <2>3. (act'[a].st = "proposed" => effect'[a] = 0) /\ DecidesRight(now, a)
    BY <1>3, <2>1 DEF DecidesRight
  <2>4. decider' = [decider EXCEPT ![d] = now] /\ now \in DeciderRow
    BY <1>3, <1>5
  <2>5. QED
    BY <2>1, <2>2, <2>3, <2>4, LedgerMoved
<1> HIDE DEF i
<1>9. RowsOK' /\ Eased(i)
  BY <1>2, <1>4, RowsUnchanged DEF Inv
<1>10. QED
  BY <1>2, <1>4, <1>8, <1>9, EasedDecision

\* DenyAction's compare-and-set.
LEMMA DenyKeeps ==
    ASSUME Inv, NEW d \in Decider, Deny(d)
    PROVE  Inv'
<1>1. PICK a \in Action :
        /\ Decidable(a) /\ SetAct(a, "denied")
        /\ decider' = [decider EXCEPT ![d] = [IdleDecider EXCEPT !.pc = "stage", !.act = a]]
  BY DEF Deny
<1> DEFINE now == [IdleDecider EXCEPT !.pc = "stage", !.act = a]
<1>2. issue' = issue /\ run' = run /\ rule' = rule /\ effect' = effect /\ fault' = fault
      /\ KeepDecider /\ act[a].st = "proposed"
  BY <1>1 DEF Deny, Decidable
<1>3. now \in DeciderRow /\ now.pc \notin Deciding /\ now.pc # "execute" /\ now.pc # "settle" /\ now.act = a
  BY DEF DeciderRow, Deciding, IdleDecider
<1>4. "denied" \in ActionStatus \ {"none", "proposed"}
  BY DEF ActionStatus
<1>5. /\ act' \in [Action -> ActRow] /\ act'[a].st = "denied"
      /\ \A b \in Action : b # a => act'[b] = act[b]
  BY <1>1, <1>4, SetActIs DEF Inv, RowsOK
<1>6. IssueOf(a) \in Issue
  BY <1>2, FixHas DEF Inv
<1>7. RowsOK' /\ Eased(IssueOf(a))
  BY <1>1, <1>2, <1>4, SetActEases DEF Inv, RowsOK
<1> HIDE DEF now
<1>8. DecidersOK' /\ Ledger'
  <2>1. /\ effect' \in [Action -> Nat] /\ effect'[a] \in {0, 1} /\ effect'[a] = 0
        /\ act[a].st # "none" /\ act'[a].st \notin {"none"} /\ DecidersOK /\ Ledger
        /\ \A b \in Action : b # a => act'[b].st = act[b].st /\ effect'[b] = effect[b]
    BY <1>2, <1>5 DEF Inv, DecidersOK, Ledger
  <2>2. \A e \in Decider : e # d /\ decider[e].pc \in Deciding => decider[e].act # a
    BY <1>2 DEF Inv, Ledger
  <2>3. (act'[a].st = "proposed" => effect'[a] = 0) /\ DecidesRight(now, a)
    BY <1>3, <2>1 DEF DecidesRight
  <2>4. decider' = [decider EXCEPT ![d] = now] /\ now \in DeciderRow
    BY <1>1, <1>3 DEF now
  <2>5. QED
    BY <2>1, <2>2, <2>3, <2>4, LedgerMoved
<1>9. QED
  BY <1>2, <1>6, <1>7, <1>8, EasedDecision

\* An escalated issue stays closed or goes to an administrator, and the run
\* of the action ends.
LEMMA EscalationMoves ==
    ASSUME Inv, NEW a \in Action, act[a].st # "none", NEW i \in Issue, i = IssueOf(a),
           issue' = Escalated(i), run' = RunEnded(a)
    PROVE  /\ run' \in [Run -> RunRow] /\ issue' \in [Issue -> IssueRow]
           /\ \A j \in Issue : j # i => issue'[j] = issue[j]
           /\ \A q \in Run : run'[q] = run[q] \/ EndedHere(i, q)
           /\ issue'[i].claim = NoRun
           /\ \/ issue'[i].st = "needs_admin"
              \/ \A q \in Seated(i) : EndedHere(i, q)
           /\ issue'[i].st = "closed" =>
                /\ \A q \in Run : run[q].issue = i /\ run[q].st \in Live => EndedHere(i, q)
                /\ \A b \in Action : act[b].st = "proposed" /\ IssueOf(b) = i => act'[b] # act[b]
<1>1. PICK r \in Run : r = act[a].run /\ run[r].issue = i
  BY FixHas DEF Inv, IssueOf
<1>2. run' \in [Run -> RunRow] /\ \A q \in Run : run'[q] = run[q] \/ EndedHere(i, q)
  <2>1. CASE run[r].st \in Live
    <3>1. run' = [run EXCEPT ![r] = Final(r, "ended")]
      BY <1>1, <2>1 DEF RunEnded
    <3>2. QED
      BY <1>1, <2>1, <3>1, EndingOne DEF Inv, RowsOK
  <2>2. CASE run[r].st \notin Live
    BY <1>1, <2>2 DEF RunEnded, Inv, RowsOK
  <2>3. QED
    BY <2>1, <2>2
<1>3. /\ issue' \in [Issue -> IssueRow] /\ issue'[i].claim = NoRun
      /\ \A j \in Issue : j # i => issue'[j] = issue[j]
      /\ \/ issue'[i].st = "needs_admin"
         \/ issue'[i].st = "closed" /\ issue[i].st = "closed"
  <2>1. CASE issue[i].st = "closed"
    BY <2>1, ClosedNow DEF Escalated, Inv, RowsOK
  <2>2. CASE issue[i].st # "closed"
    BY <2>2, ReleasedIs DEF Escalated, Inv, RowsOK, IssueStatus
  <2>3. QED
    BY <2>1, <2>2
<1>4. issue[i].st = "closed" =>
         /\ \A q \in Run : run[q].issue = i => run[q].st \notin Live
         /\ \A b \in Action : IssueOf(b) = i => act[b].st # "proposed"
  BY ClosedNow DEF Inv
<1>5. QED
  BY <1>2, <1>3, <1>4 DEF Seated, Seats, Live

\* markActionOutcomeUnknown eases the issue, whether it is closed or not.
LEMMA UnknownEases ==
    ASSUME Inv, NEW a \in Action, act[a].st # "none", NEW pause, MarkUnknown(a, pause)
    PROVE  RowsOK' /\ Eased(IssueOf(a))
<1>1. PICK i \in Issue : i = IssueOf(a)
  BY FixHas DEF Inv
<1>2. /\ SetAct(a, "unknown") /\ issue' = Escalated(i) /\ run' = RunEnded(a)
      /\ rule' = Disarmed(pause /\ act[a].auto)
  BY <1>1 DEF MarkUnknown
<1>3. "unknown" \in ActionStatus \ {"none", "proposed"}
  BY DEF ActionStatus
<1>4. /\ act' \in [Action -> ActRow] /\ act'[a].st = "unknown" /\ act'[a].run = act[a].run
      /\ \A b \in Action : b # a => act'[b] = act[b]
  BY <1>2, <1>3, SetActIs DEF Inv, RowsOK
<1>5. rule' \in {"active", "paused"}
  BY <1>2, DisarmedIs DEF Inv, RowsOK
<1>6. \A b \in Action : \/ act'[b] = act[b]
                        \/ /\ act[b].st # "none" /\ IssueOf(b) = i
                           /\ act'[b].run = act[b].run /\ act'[b].st \notin {"none", "proposed"}
  BY <1>1, <1>4
<1>7. RowsOK'
  BY <1>1, <1>2, <1>4, <1>5, EscalationMoves DEF RowsOK
<1>8. Eased(i)
  BY <1>1, <1>2, <1>6, EscalationMoves DEF Eased
<1>9. QED
  BY <1>1, <1>7, <1>8

\* A proposal whose gate is gone, or an unverified outcome, is recorded.
LEMMA TooLateKeeps ==
    ASSUME Inv, NEW a \in Action, DecideTooLate(a)
    PROVE  Inv'
<1>1. effect' = effect /\ decider' = decider /\ fault' = fault /\ KeepDecider
  BY DEF DecideTooLate, KeepDecider
<1>2. /\ act[a].st \in {"proposed"} \union Unverified
      /\ RowsOK' /\ Eased(IssueOf(a))
      /\ SetAct(a, "superseded") \/ SetAct(a, "unknown")
  <2>1. CASE act[a].st = "proposed" /\ SetAct(a, "superseded") /\ UNCHANGED <<issue, run, rule>>
    <3>1. "superseded" \in ActionStatus \ {"none", "proposed"}
      BY DEF ActionStatus
    <3>2. RowsOK' /\ Eased(IssueOf(a))
      BY <2>1, <3>1, SetActEases DEF Inv, RowsOK
    <3>3. QED
      BY <2>1, <3>2
  <2>2. CASE act[a].st \in Unverified /\ MarkUnknown(a, FALSE)
    <3>1. act[a].st # "none"
      BY <2>2 DEF Unverified
    <3>2. QED
      BY <2>2, <3>1, UnknownEases DEF MarkUnknown
  <2>3. QED
    BY <2>1, <2>2 DEF DecideTooLate
<1>3. act[a].st \notin {"none", "executing"}
  BY <1>2 DEF Unverified
<1>4. /\ act'[a].st \in {"superseded", "unknown"} /\ \A b \in Action : b # a => act'[b] = act[b]
  BY <1>2, SetActIs DEF Inv, RowsOK, ActionStatus
<1>5. \A b \in Action :
         \/ act'[b].st = act[b].st
         \/ act[b].st \notin {"none", "executing"} /\ act'[b].st \notin {"none", "proposed", "executing"}
  BY <1>3, <1>4
<1>6. DecidersOK' /\ Ledger'
  <2>1. DecidersOK /\ Ledger
    BY DEF Inv
  <2>2. Ledger'
    BY <1>1, <1>5, <2>1, LedgerKept
  <2>3. QED
    BY <1>1, <2>1, <2>2 DEF DecidersOK
<1>7. PICK i \in Issue : i = IssueOf(a)
  BY <1>3, FixHas DEF Inv
<1>8. QED
  BY <1>1, <1>2, <1>6, <1>7, EasedDecision

\* The arr is asked before the claim of an execution.
LEMMA PreflightDecisionKeeps ==
    ASSUME Inv, NEW d \in Decider, PreflightDecision(d)
    PROVE  Inv'
<1>1. PICK i : i = IssueOf(decider[d].act)
  OBVIOUS
<1>2. /\ decider[d].pc # "idle" /\ Done(d) /\ effect' = effect /\ KeepDecider
      /\ \/ TakenOver(i) /\ UNCHANGED fault
         \/ Fault /\ (UNCHANGED db \/ ObservationNeedsAdmin(i))
  BY <1>1 DEF PreflightDecision, On
<1>3. i \in Issue
  BY <1>1, <1>2, DeciderHas
<1>4. RowsOK' /\ Eased(i) /\ OnlyWithdraws
  BY <1>2, <1>3, TakenOverMoves, ObservationMoves, RowsUnchanged DEF Inv
<1>5. QED
  BY <1>2, <1>3, <1>4, DoneKeeps

\* The close that follows a cancelled execution.
LEMMA CloseAfterCancelKeeps ==
    ASSUME Inv, NEW d \in Decider, CloseAfterCancel(d)
    PROVE  Inv'
<1>1. PICK i : i = IssueOf(decider[d].act)
  OBVIOUS
<1>2. /\ decider[d].pc # "idle" /\ Done(d) /\ effect' = effect /\ fault' = fault /\ KeepDecider
      /\ CloseRecovered(i)
  BY <1>1 DEF CloseAfterCancel, On
<1>3. i \in Issue
  BY <1>1, <1>2, DeciderHas
<1>4. RowsOK' /\ Eased(i) /\ OnlyWithdraws
  BY <1>2, <1>3, CloseRecoveredMoves DEF Inv
<1>5. QED
  BY <1>2, <1>3, <1>4, DoneKeeps

\* The compare-and-set that takes the execution, or refuses it.
LEMMA ClaimActionKeeps ==
    ASSUME Inv, NEW d \in Decider, ClaimAction(d)
    PROVE  Inv'
<1>1. PICK a : a = decider[d].act
  OBVIOUS
<1>2. decider[d].pc = "claim" /\ issue' = issue /\ run' = run /\ rule' = rule
      /\ effect' = effect /\ fault' = fault /\ KeepDecider
  BY DEF ClaimAction, On
<1>3. a \in Action /\ act[a].st # "none" /\ IssueOf(a) \in Issue
  BY <1>1, <1>2, DeciderHas
<1>4. PICK i \in Issue : i = IssueOf(a)
  BY <1>3
<1>5. CASE /\ Decidable(a)
           /\ act' = [act EXCEPT ![a].st = "executing", ![a].auto = decider[d].auto]
           /\ Proceed(d, "execute")
  <2> DEFINE row == [act[a] EXCEPT !.st = "executing", !.auto = decider[d].auto]
             now == [decider[d] EXCEPT !.pc = "execute"]
  <2>1. decider[d] \in DeciderRow /\ act[a] \in ActRow
    BY <1>3 DEF Inv, RowsOK, DecidersOK
  <2>2. row \in ActRow /\ row.st = "executing" /\ row.run = act[a].run /\ act' = [act EXCEPT ![a] = row]
    BY <1>3, <1>5, <2>1 DEF ActRow, ActionStatus, DeciderRow, Inv, RowsOK
  <2>3. now \in DeciderRow /\ now.pc = "execute" /\ now.act = a
    BY <1>1, <2>1 DEF DeciderRow, Deciding
  <2>4. decider' = [decider EXCEPT ![d] = now]
    BY <1>5 DEF Proceed, Inv, DecidersOK
  <2> HIDE DEF row, now
  <2>5. /\ act' \in [Action -> ActRow] /\ act'[a].st = "executing" /\ act'[a].run = act[a].run
        /\ \A b \in Action : b # a => act'[b] = act[b]
    BY <1>3, <2>2 DEF Inv, RowsOK
  <2>6. RowsOK' /\ Eased(i)
    <3>1. RowsOK'
      BY <1>2, <2>5 DEF Inv, RowsOK
    <3>2. \A b \in Action : \/ act'[b] = act[b]
                            \/ /\ act[b].st # "none" /\ IssueOf(b) = i
                               /\ act'[b].run = act[b].run /\ act'[b].st \notin {"none", "proposed"}
      BY <1>3, <1>4, <2>5
    <3>3. QED
      BY <1>2, <3>1, <3>2 DEF Eased
  <2>7. act[a].st = "proposed"
    BY <1>5 DEF Decidable
  <2>8. DecidersOK' /\ Ledger'
    <3>1. /\ effect' \in [Action -> Nat] /\ effect'[a] \in {0, 1} /\ effect'[a] = 0
          /\ act[a].st # "none" /\ act'[a].st \notin {"none"} /\ DecidersOK /\ Ledger
          /\ \A b \in Action : b # a => act'[b].st = act[b].st /\ effect'[b] = effect[b]
      BY <1>2, <1>3, <2>5, <2>7 DEF Inv, DecidersOK, Ledger
    <3>2. \A e \in Decider : e # d /\ decider[e].pc \in Deciding => decider[e].act # a
      BY <2>7 DEF Inv, Ledger
    <3>3. (act'[a].st = "proposed" => effect'[a] = 0) /\ DecidesRight(now, a)
      BY <2>3, <2>5, <3>1 DEF DecidesRight
    <3>4. QED
      BY <1>3, <2>3, <2>4, <3>1, <3>2, <3>3, LedgerMoved
  <2>9. QED
    BY <1>2, <2>6, <2>8, EasedDecision
<1>6. CASE act' = Superseded({a}) /\ Done(d)
  <2>1. {a} \in SUBSET ActsOf(i)
    BY <1>3, <1>4 DEF ActsOf
  <2>2. RowsOK' /\ Eased(i) /\ OnlyWithdraws
    BY <1>2, <1>6, <2>1, WithdrawnHere DEF Inv, RowsOK, Eased
  <2>3. QED
    BY <1>2, <1>6, <2>2, DoneKeeps
<1>7. QED
  BY <1>1, <1>5, <1>6 DEF ClaimAction

\* The arr is asked again with the action claimed and nothing sent.
LEMMA CancelClaimKeeps ==
    ASSUME Inv, NEW d \in Decider, CancelClaim(d)
    PROVE  Inv'
<1>1. PICK a : a = decider[d].act
  OBVIOUS
<1>2. decider[d].pc = "execute" /\ effect' = effect /\ (fault' = fault \/ Fault) /\ KeepDecider
  BY DEF CancelClaim, On
<1>3. a \in Action /\ act[a].st = "executing" /\ effect[a] = 0 /\ IssueOf(a) \in Issue
  <2>1. a \in Action /\ IssueOf(a) \in Issue
    BY <1>1, <1>2, DeciderHas
  <2>2. act[a].st = "executing" /\ effect[a] = 0
    BY <1>1, <1>2 DEF Inv, Ledger, Deciding
  <2>3. QED
    BY <2>1, <2>2
<1>4. PICK i \in Issue : i = IssueOf(a)
  BY <1>3
<1>5. CASE UNCHANGED db /\ Done(d)
  <2>1. RowsOK' /\ Eased(i) /\ OnlyWithdraws
    BY <1>5, RowsUnchanged DEF Inv
  <2>2. QED
    BY <1>2, <1>5, <2>1, DoneKeeps
<1>6. ASSUME NEW st \in {"superseded", "failed"}, NEW to \in {"needs_admin", "tracking"},
             NEW pc \in {"idle", "close"},
             SetAct(a, st), run' = Ended(i, Live),
             issue' = IF issue[i].st = "closed" THEN issue ELSE Released(i, to),
             rule' \in {"active", "paused"},
             (pc = "idle" /\ Done(d)) \/ (pc = "close" /\ Proceed(d, "close"))
      PROVE  Inv'
  <2>1. st \in ActionStatus \ {"none", "proposed"} /\ to \in IssueStatus /\ to # "closed"
    BY DEF ActionStatus, IssueStatus
  <2>2. /\ act' \in [Action -> ActRow] /\ act'[a].st = st /\ act'[a].run = act[a].run
        /\ \A b \in Action : b # a => act'[b] = act[b]
    BY <1>3, <1>6, <2>1, SetActIs DEF Inv, RowsOK
  <2>3. /\ run' \in [Run -> RunRow]
        /\ \A r \in Run : run'[r] = run[r] \/ EndedHere(i, r)
        /\ \A r \in Run : run[r].issue = i /\ run[r].st \in Live => EndedHere(i, r)
    <3>1. Live \in SUBSET Live
      OBVIOUS
    <3>2. QED
      BY <1>6, <3>1, EndingHere DEF Inv, RowsOK
  <2>4. \A r \in Seated(i) : EndedHere(i, r)
    BY <2>3 DEF Seated, Seats, Live
  <2>5. /\ issue' \in [Issue -> IssueRow] /\ issue'[i].claim = NoRun
        /\ \A j \in Issue : j # i => issue'[j] = issue[j]
        /\ issue'[i].st = "closed" => issue[i].st = "closed"
    <3>1. CASE issue[i].st = "closed"
      BY <1>6, <3>1, ClosedNow DEF Inv, RowsOK
    <3>2. CASE issue[i].st # "closed"
      BY <1>6, <2>1, <3>2, ReleasedIs DEF Inv, RowsOK
    <3>3. QED
      BY <3>1, <3>2
  <2>6. RowsOK'
    BY <1>6, <2>2, <2>3, <2>5 DEF RowsOK
  <2>7. \A b \in Action : \/ act'[b] = act[b]
                          \/ /\ act[b].st # "none" /\ IssueOf(b) = i
                             /\ act'[b].run = act[b].run /\ act'[b].st \notin {"none", "proposed"}
    BY <1>3, <1>4, <2>1, <2>2
  <2>8. issue'[i].st = "closed" =>
          \A b \in Action : act[b].st = "proposed" /\ IssueOf(b) = i => act'[b] # act[b]
    BY <2>5, ClosedNow DEF Inv
  <2>9. Eased(i)
    BY <2>3, <2>4, <2>5, <2>7, <2>8 DEF Eased
  <2>10. PICK now : now = IF pc = "idle" THEN IdleDecider ELSE [decider[d] EXCEPT !.pc = "close"]
    OBVIOUS
  <2>11. /\ now \in DeciderRow /\ now.pc \in {"idle", "close"}
         /\ now.pc # "idle" => now.act = a
    BY <1>1, <2>10 DEF IdleDecider, DeciderRow, Inv, DecidersOK
  <2>12. decider' = [decider EXCEPT ![d] = now]
    BY <1>6, <2>10 DEF Done, Proceed, Inv, DecidersOK
  <2>13. DecidersOK' /\ Ledger'
    <3>1. /\ effect' \in [Action -> Nat] /\ effect'[a] \in {0, 1} /\ effect'[a] = 0
          /\ act[a].st # "none" /\ act'[a].st \notin {"none"} /\ DecidersOK /\ Ledger
          /\ \A b \in Action : b # a => act'[b].st = act[b].st /\ effect'[b] = effect[b]
      BY <1>2, <1>3, <2>1, <2>2 DEF Inv, DecidersOK, Ledger
    <3>2. \A e \in Decider : e # d /\ decider[e].pc \in Deciding => decider[e].act # a
      BY <1>1, <1>2 DEF Inv, Ledger, Deciding
    <3>3. (act'[a].st = "proposed" => effect'[a] = 0) /\ DecidesRight(now, a)
      BY <2>11, <3>1 DEF DecidesRight, Deciding
    <3>4. QED
      BY <1>3, <2>11, <2>12, <3>1, <3>2, <3>3, LedgerMoved
  <2>14. QED
    BY <1>2, <2>6, <2>9, <2>13, EasedDecision
<1>7. rule' = rule \/ rule' = Disarmed(act[a].auto) => rule' \in {"active", "paused"}
  BY DisarmedIs DEF Inv, RowsOK
<1>8. \/ UNCHANGED db /\ Done(d)
      \/ \E st \in {"superseded", "failed"}, to \in {"needs_admin", "tracking"}, pc \in {"idle", "close"} :
           /\ SetAct(a, st) /\ run' = Ended(i, Live)
           /\ issue' = IF issue[i].st = "closed" THEN issue ELSE Released(i, to)
           /\ rule' = rule \/ rule' = Disarmed(act[a].auto)
           /\ (pc = "idle" /\ Done(d)) \/ (pc = "close" /\ Proceed(d, "close"))
  BY <1>1, <1>4 DEF CancelClaim
<1>9. QED
  BY <1>5, <1>6, <1>7, <1>8

\* Executor.Execute
LEMMA DispatchKeeps ==
    ASSUME Inv, NEW d \in Decider, Dispatch(d)
    PROVE  Inv'
<1>1. PICK a : a = decider[d].act
  OBVIOUS
<1>2. decider[d].pc = "execute" /\ UNCHANGED db /\ fault' = fault /\ KeepDecider
  BY DEF Dispatch, On
<1>3. a \in Action /\ act[a].st = "executing" /\ effect[a] = 0 /\ IssueOf(a) \in Issue
  <2>1. a \in Action /\ IssueOf(a) \in Issue
    BY <1>1, <1>2, DeciderHas
  <2>2. act[a].st = "executing" /\ effect[a] = 0
    BY <1>1, <1>2 DEF Inv, Ledger, Deciding
  <2>3. QED
    BY <2>1, <2>2
<1>4. PICK out \in {"executed", "failed", "unknown"}, n \in {0, 1} :
        /\ out = "executed" => n = 1
        /\ out = "failed" => n = 0
        /\ effect' = [effect EXCEPT ![a] = @ + n]
        /\ decider' = [decider EXCEPT ![d].pc = "settle", ![d].out = out]
  BY <1>1 DEF Dispatch
<1>5. effect \in [Action -> Nat] /\ decider[d] \in DeciderRow /\ DecidersOK /\ Ledger
  BY DEF Inv, DecidersOK
<1>6. /\ effect' \in [Action -> Nat] /\ effect'[a] = n
      /\ \A b \in Action : b # a => effect'[b] = effect[b]
  BY <1>3, <1>4, <1>5
<1>7. PICK now : now = [decider[d] EXCEPT !.pc = "settle", !.out = out]
  OBVIOUS
<1>8. now \in DeciderRow /\ now.pc = "settle" /\ now.out = out /\ now.act = a
  BY <1>1, <1>5, <1>7 DEF DeciderRow, Deciding
<1>9. decider' = [decider EXCEPT ![d] = now]
  BY <1>4, <1>7 DEF Inv, DecidersOK
<1>10. act' = act
  BY <1>2 DEF db
<1>11. DecidersOK' /\ Ledger'
  <2>1. /\ act[a].st # "none" /\ act'[a].st \notin {"none"} /\ effect'[a] \in {0, 1}
        /\ \A b \in Action : b # a => act'[b].st = act[b].st /\ effect'[b] = effect[b]
    BY <1>3, <1>4, <1>6, <1>10
  <2>2. \A e \in Decider : e # d /\ decider[e].pc \in Deciding => decider[e].act # a
    BY <1>1, <1>2 DEF Inv, Ledger, Deciding
  <2>3. (act'[a].st = "proposed" => effect'[a] = 0) /\ DecidesRight(now, a)
    BY <1>3, <1>4, <1>6, <1>8, <1>10 DEF DecidesRight
  <2>4. QED
    BY <1>3, <1>5, <1>6, <1>8, <1>9, <2>1, <2>2, <2>3, LedgerMoved
<1>12. PICK i \in Issue : i = IssueOf(a)
  BY <1>3
<1>13. RowsOK' /\ Eased(i)
  BY <1>2, RowsUnchanged DEF Inv
<1>14. QED
  BY <1>2, <1>11, <1>13, EasedDecision

\* finalizeActionOutcome
LEMMA SettleKeeps ==
    ASSUME Inv, NEW d \in Decider, Settle(d)
    PROVE  Inv'
<1>1. PICK a : a = decider[d].act
  OBVIOUS
<1>2. PICK out : out = decider[d].out
  OBVIOUS
<1>3. decider[d].pc = "settle" /\ effect' = effect /\ (fault' = fault \/ Fault) /\ KeepDecider
  BY DEF Settle, On
<1>4. a \in Action /\ act[a].st = "executing" /\ IssueOf(a) \in Issue /\ effect[a] \in {0, 1}
  <2>1. a \in Action /\ IssueOf(a) \in Issue
    BY <1>1, <1>3, DeciderHas
  <2>2. act[a].st = "executing" /\ effect[a] \in {0, 1}
    BY <1>1, <1>3, <2>1 DEF Inv, Ledger, Deciding
  <2>3. QED
    BY <2>1, <2>2
<1>5. PICK i \in Issue : i = IssueOf(a)
  BY <1>4
<1>6. CASE UNCHANGED db /\ Done(d)
  <2>1. RowsOK' /\ Eased(i) /\ OnlyWithdraws
    BY <1>6, RowsUnchanged DEF Inv
  <2>2. QED
    BY <1>3, <1>6, <2>1, DoneKeeps
<1>7. ASSUME NEW st \in ActionStatus \ {"none", "proposed"}, NEW now \in DeciderRow,
             SetAct(a, st), RowsOK', Eased(IssueOf(a)),
             decider' = [decider EXCEPT ![d] = now],
             now.pc \in {"idle", "stage"}, now.pc # "idle" => now.act = a
      PROVE  Inv'
  <2>1. act'[a].st = st /\ \A b \in Action : b # a => act'[b] = act[b]
    BY <1>4, <1>7, SetActIs DEF Inv, RowsOK
  <2>2. DecidersOK' /\ Ledger'
    <3>1. /\ effect' \in [Action -> Nat] /\ effect'[a] \in {0, 1}
          /\ act[a].st # "none" /\ act'[a].st \notin {"none"} /\ DecidersOK /\ Ledger
          /\ \A b \in Action : b # a => act'[b].st = act[b].st /\ effect'[b] = effect[b]
      BY <1>3, <1>4, <1>7, <2>1 DEF Inv, DecidersOK
    <3>2. \A e \in Decider : e # d /\ decider[e].pc \in Deciding => decider[e].act # a
      BY <1>1, <1>3 DEF Inv, Ledger, Deciding
    <3>3. (act'[a].st = "proposed" => effect'[a] = 0) /\ DecidesRight(now, a)
      BY <1>7, <2>1 DEF DecidesRight, Deciding
    <3>4. QED
      BY <1>4, <1>7, <3>1, <3>2, <3>3, LedgerMoved
  <2>3. Eased(i)
    BY <1>5, <1>7
  <2>4. QED
    BY <1>3, <1>7, <2>2, <2>3, EasedDecision
<1>8. CASE /\ out # "unknown" /\ SetAct(a, out) /\ rule' = Disarmed(act[a].auto /\ out = "failed")
           /\ Proceed(d, "stage") /\ UNCHANGED <<issue, run, fault>>
  <2>1. out \in ActionStatus \ {"none", "proposed"} /\ decider[d] \in DeciderRow
    <3>1. decider[d] \in DeciderRow /\ out # "none"
      BY <1>2, <1>3 DEF Inv, DecidersOK, Ledger
    <3>2. QED
      BY <1>2, <3>1 DEF DeciderRow, ActionStatus
  <2>2. PICK now : now = [decider[d] EXCEPT !.pc = "stage"]
    OBVIOUS
  <2>3. now \in DeciderRow /\ now.pc = "stage" /\ now.act = a
    BY <1>1, <2>1, <2>2 DEF DeciderRow
  <2>4. decider' = [decider EXCEPT ![d] = now]
    BY <1>8, <2>2 DEF Proceed, Inv, DecidersOK
  <2>5. rule' \in {"active", "paused"} /\ act[a].st # "none" /\ issue' = issue /\ run' = run
    BY <1>4, <1>8, DisarmedIs DEF Inv, RowsOK
  <2>6. RowsOK' /\ Eased(IssueOf(a))
    BY <1>4, <1>8, <2>1, <2>5, SetActEases DEF Inv
  <2>7. QED
    BY <1>7, <1>8, <2>1, <2>3, <2>4, <2>6
<1>9. CASE Done(d) /\ MarkUnknown(a, TRUE)
  <2>1. "unknown" \in ActionStatus \ {"none", "proposed"} /\ act[a].st # "none"
    BY <1>4 DEF ActionStatus
  <2>2. RowsOK' /\ Eased(IssueOf(a)) /\ SetAct(a, "unknown")
    BY <1>4, <1>9, <2>1, UnknownEases DEF MarkUnknown
  <2>3. IdleDecider \in DeciderRow /\ IdleDecider.pc = "idle"
    BY DEF IdleDecider, DeciderRow
  <2>4. decider' = [decider EXCEPT ![d] = IdleDecider]
    BY <1>9 DEF Done
  <2>5. QED
    BY <1>7, <2>1, <2>2, <2>3, <2>4
<1>10. QED
  BY <1>1, <1>2, <1>6, <1>8, <1>9 DEF Settle

\* stopUnresumableDecision
LEMMA StopMoves ==
    ASSUME Inv, NEW a \in Action, act[a].st # "none", StopUnresumable(a), act' = act, rule' = rule
    PROVE  RowsOK' /\ Links' /\ ClaimInv' /\ RunsHeld
<1>1. PICK i \in Issue : i = IssueOf(a)
  BY FixHas DEF Inv
<1>2. issue' = Escalated(i) /\ run' = RunEnded(a)
  BY <1>1 DEF StopUnresumable
<1>3. RowsOK'
  BY <1>1, <1>2, EscalationMoves DEF Inv, RowsOK
<1>4. Eased(i)
  BY <1>1, <1>2, EscalationMoves DEF Eased
<1>5. QED
  BY <1>3, <1>4, EasedKeeps DEF Inv

\* A parked run becomes a handoff and leaves its seat.
LEMMA HandoffMoves ==
    ASSUME Inv, NEW i \in Issue, NEW r \in Run, NEW irow \in IssueRow,
           run[r].issue = i, run[r].st \in Parked,
           irow.st = "investigating", irow.claim = NoRun,
           run' = [run EXCEPT ![r].st = "resume_pending"], issue' = [issue EXCEPT ![i] = irow],
           act' \in [Action -> ActRow], rule' = rule,
           \A a \in Action : \/ act'[a] = act[a]
                             \/ /\ act[a].st # "none" /\ IssueOf(a) = i
                                /\ act'[a].run = act[a].run /\ act'[a].st \notin {"none", "proposed"}
    PROVE  RowsOK' /\ Links' /\ ClaimInv' /\ RunsHeld
<1>1. PICK row : row = [run[r] EXCEPT !.st = "resume_pending"]
  OBVIOUS
<1>2. row \in RunRow /\ row.issue = i /\ row.st = "resume_pending" /\ row.steps = run[r].steps
  <2>1. run[r] \in RunRow /\ "resume_pending" \in RunStatus
    BY DEF Inv, RowsOK, RunStatus, Live
  <2>2. QED
    BY <1>1, <2>1 DEF RunRow
<1>3. run' = [run EXCEPT ![r] = row]
  BY <1>1 DEF Inv, RowsOK
<1>4. /\ run' \in [Run -> RunRow] /\ run'[r] = row /\ \A q \in Run : q # r => run'[q] = run[q]
      /\ issue' \in [Issue -> IssueRow] /\ issue'[i] = irow
      /\ \A j \in Issue : j # i => issue'[j] = issue[j]
  BY <1>2, <1>3 DEF Inv, RowsOK
<1>5. RowsOK'
  BY <1>4 DEF Inv, RowsOK
<1>6. run[r].steps <= MaxSteps /\ run[r].st \notin InWork
  BY DEF Inv, Links, Parked, InWork
<1>7. Within(i)
  <2>1. \A q \in Run : run'[q].issue = run[q].issue
    BY <1>2, <1>4
  <2>2. ASSUME NEW a \in Action, act'[a] # act[a]
        PROVE  /\ act'[a].run \in Run /\ run'[act'[a].run].issue = i
               /\ act'[a].st # "none" /\ IssueOf(a) = i
    <3>1. act[a].st # "none" /\ IssueOf(a) = i /\ act'[a].run = act[a].run /\ act'[a].st # "none"
      BY <2>2
    <3>2. act[a].run \in Run
      BY <3>1 DEF Inv, Links
    <3>3. QED
      BY <2>1, <3>1, <3>2 DEF IssueOf
  <2>3. QED
    BY <1>2, <1>4, <1>6, <2>2 DEF Within
<1>8. \A q \in Run : q \notin Seated(i)'
  <2>1. SeatedRight(i) /\ r \in Seated(i)
    BY DEF Inv, ClaimInv, Seated, Seats
  <2>2. \A q \in Run : q # r => q \notin Seated(i)
    BY <2>1 DEF SeatedRight
  <2>3. \A q \in Run : q # r => q \notin Seated(i)'
    BY <1>4, <2>2 DEF Seated
  <2>4. r \notin Seated(i)'
    BY <1>2, <1>4 DEF Seated, Seats, Parked
  <2>5. QED
    BY <2>3, <2>4
<1>9. SeatedRight(i)'
  <2>1. \A q \in Seated(i)' : FALSE
    BY <1>8 DEF Seated
  <2>2. QED
    BY <1>4, <2>1 DEF SeatedRight
<1>10. RunsHeld
  <2>1. \A q \in Run : run[q].steps \in Int
    BY DEF Inv, RowsOK, RunRow
  <2>2. QED
    BY <1>4, <1>6, <2>1 DEF RunsHeld
<1>11. QED
  BY <1>5, <1>7, <1>9, <1>10, WithinKeeps DEF Inv

\* appendResumeResult: the run at the active gate leaves its seat.
LEMMA HandedMoves ==
    ASSUME Inv, NEW a \in Action, act[a].st # "none", Handed(a), act' = act, rule' = rule
    PROVE  RowsOK' /\ Links' /\ ClaimInv' /\ RunsHeld
<1>1. PICK i \in Issue : i = IssueOf(a)
  BY FixHas DEF Inv
<1>2. PICK r \in Run : r = act[a].run /\ run[r].issue = i
  BY <1>1, FixHas DEF Inv, IssueOf
<1>3. CASE UNCHANGED <<issue, run>>
  <2>1. RowsOK' /\ Eased(i)
    BY <1>3, RowsUnchanged DEF Inv, db
  <2>2. QED
    BY <2>1, EasedKeeps DEF Inv
<1>4. CASE /\ GateActive(a) /\ issue[i].claim = NoRun
           /\ run' = [run EXCEPT ![r].st = "resume_pending"]
           /\ issue' = [issue EXCEPT ![i].st = "investigating"]
  <2>1. PICK irow : irow = [issue[i] EXCEPT !.st = "investigating"]
    OBVIOUS
  <2>2. irow \in IssueRow /\ irow.st = "investigating" /\ irow.claim = NoRun
    <3>1. issue[i] \in IssueRow /\ "investigating" \in IssueStatus
      BY DEF Inv, RowsOK, IssueStatus
    <3>2. QED
      BY <1>4, <2>1, <3>1 DEF IssueRow
  <2>3. issue' = [issue EXCEPT ![i] = irow]
    BY <1>4, <2>1 DEF Inv, RowsOK
  <2>4. run[r].st \in Parked
    BY <1>2, <1>4 DEF GateActive, Parked
  <2>5. act' \in [Action -> ActRow] /\ \A b \in Action : act'[b] = act[b]
    BY DEF Inv, RowsOK
  <2>6. QED
    BY <1>2, <1>4, <2>2, <2>3, <2>4, <2>5, HandoffMoves
<1>5. QED
  BY <1>1, <1>2, <1>3, <1>4 DEF Handed

\* The decision is handed to the run that waits for it.
LEMMA StageKeeps ==
    ASSUME Inv, NEW d \in Decider, Stage(d)
    PROVE  Inv'
<1>1. PICK a : a = decider[d].act
  OBVIOUS
<1>2. /\ decider[d].pc # "idle" /\ Done(d) /\ act' = act /\ rule' = rule /\ effect' = effect
      /\ worker' = worker /\ todo' = todo /\ gen' = gen /\ (fault' = fault \/ Fault)
      /\ Handed(a) \/ StopUnresumable(a) \/ UNCHANGED <<issue, run>>
      /\ jobs' = Enqueued(<<Resume(IssueOf(a))>>) \/ jobs' = jobs
  BY <1>1 DEF Stage, On
<1>3. a \in Action /\ act[a].st # "none" /\ IssueOf(a) \in Issue
  BY <1>1, <1>2, DeciderHas
<1>4. PICK i \in Issue : i = IssueOf(a)
  BY <1>3
<1>5. RowsOK' /\ Links' /\ ClaimInv' /\ RunsHeld
  <2>1. CASE UNCHANGED <<issue, run>>
    <3>1. RowsOK' /\ Eased(i)
      BY <1>2, <2>1, RowsUnchanged DEF Inv, db
    <3>2. QED
      BY <3>1, EasedKeeps DEF Inv
  <2>2. QED
    BY <1>2, <1>3, <2>1, HandedMoves, StopMoves
<1>6. jobs' \in Seq(JobRow) /\ Len(jobs') <= QueueCap
  <2>1. Resume(i) \in JobRow
    BY DEF Resume, JobRow
  <2>2. <<Resume(i)>> \in Seq(JobRow)
    BY <2>1
  <2>3. QED
    BY <1>2, <1>4, <2>2, EnqueuedIs DEF Inv, HandsOK
<1>7. DecidersOK' /\ \A e \in Decider : decider'[e] = decider[e] \/ decider'[e].pc = "idle"
  BY <1>2, DoneIs DEF Inv
<1>8. Ledger'
  BY <1>2, <1>7, LedgerKept DEF Inv
<1>9. QED
  BY <1>2, <1>5, <1>6, <1>7, <1>8, DecidersStep

\* A decider's step keeps the invariant.
LEMMA DeciderKeeps ==
    ASSUME Inv, NEW d \in Decider, Approve(d) \/ Deny(d) \/ DeciderStep(d)
    PROVE  Inv'
BY ApproveKeeps, DenyKeeps, PreflightDecisionKeeps, ClaimActionKeeps, CancelClaimKeeps,
   CloseAfterCancelKeeps, DispatchKeeps, SettleKeeps, StageKeeps DEF DeciderStep

-----------------------------------------------------------------------------
(* Recovery, humans and the process                                        *)

\* What is left to show when rows, jobs and recovery's list change.
LEMMA OthersStep ==
    ASSUME Inv, RowsOK', Links', ClaimInv', RunsHeld, OnlyWithdraws,
           jobs' \in Seq(JobRow), Len(jobs') <= QueueCap,
           UNCHANGED <<effect, worker, decider, gen>>, fault' = fault \/ Fault,
           todo' \subseteq Action, \A a \in todo' : act'[a].st # "none"
    PROVE  Inv'
<1>1. MaxFault \in Nat
  BY Bounds
<1>2. PassOK' /\ HandsOK' /\ DecidersOK'
  BY <1>1 DEF Inv, HandsOK, DecidersOK, PassOK, Fault
<1>3. Hands'
  BY HandsKept DEF Inv
<1>4. Ledger'
  BY LedgerKept DEF Inv, OnlyWithdraws
<1>5. QED
  BY <1>2, <1>3, <1>4 DEF Inv, Handing

\* Recovery's repairs leave every issue in order.
LEMMA RepairsMove ==
    ASSUME Inv, RecPass
    PROVE  RowsOK' /\ Links' /\ ClaimInv' /\ RunsHeld
<1>1. /\ issue' = Repaired /\ act' = act /\ rule' = rule
      /\ run' = [r \in Run |-> CASE r \in Lost -> Final(r, "restarted")
                                 [] Stranded(r) -> Final(r, "ended")
                                 [] OTHER -> run[r]]
  BY DEF RecPass, KeepRec
<1>2. ASSUME NEW i \in Issue
      PROVE  /\ SeatedRight(i) /\ issue'[i] \in IssueRow
             /\ \/ issue'[i] = issue[i] /\ issue[i].claim \notin Lost
                \/ /\ issue[i].claim \in Lost /\ issue[i].claim \in Seated(i)
                   /\ issue'[i].st = "open" /\ issue'[i].claim = NoRun
  <2>1. SeatedRight(i) /\ issue[i] \in IssueRow /\ "open" \in IssueStatus
    BY DEF Inv, ClaimInv, RowsOK, IssueStatus
  <2>2. CASE issue[i].claim = NoRun
    <3>1. issue'[i] = issue[i] /\ issue[i].claim \notin Lost
      BY <1>1, <2>2, Bounds DEF Repaired, Lost
    <3>2. QED
      BY <2>1, <3>1
  <2>3. CASE issue[i].claim # NoRun
    <3>1. run[issue[i].claim].st = "running" /\ issue[i].claim \in Seated(i)
      BY <2>1, <2>3 DEF SeatedRight
    <3>2. CASE issue[i].claim \in Lost
      <4>1. issue'[i] = [issue[i] EXCEPT !.st = "open", !.claim = NoRun]
        BY <1>1, <2>3, <3>1, <3>2 DEF Repaired
      <4>2. issue'[i] \in IssueRow /\ issue'[i].st = "open" /\ issue'[i].claim = NoRun
        BY <2>1, <4>1 DEF IssueRow
      <4>3. QED
        BY <2>1, <3>1, <3>2, <4>2
    <3>3. CASE issue[i].claim \notin Lost
      <4>1. issue'[i] = issue[i]
        BY <1>1, <3>1, <3>3 DEF Repaired
      <4>2. QED
        BY <2>1, <3>3, <4>1
    <3>4. QED
      BY <3>2, <3>3
  <2>4. QED
    BY <2>2, <2>3
<1>3. ASSUME NEW r \in Run
      PROVE  /\ run'[r] \in RunRow /\ run'[r].issue = run[r].issue
             /\ \/ run'[r] = run[r] /\ r \notin Lost
                \/ /\ run'[r].st \in {"ended", "restarted"} /\ run'[r].steps = 0
                   /\ r \in Lost \/ run[r].st = "resume_pending"
  <2>1. "ended" \in RunStatus /\ "restarted" \in RunStatus /\ run[r] \in RunRow
    BY DEF RunStatus, Inv, RowsOK
  <2>2. CASE r \in Lost
    <3>1. ~Stranded(r)
      BY <2>2 DEF Lost, Stranded
    <3>2. run'[r] = Final(r, "restarted")
      BY <1>1, <2>2, <3>1
    <3>3. QED
      BY <2>1, <2>2, <3>2, FinalIs DEF Inv, RowsOK
  <2>3. CASE r \notin Lost /\ Stranded(r)
    <3>1. run'[r] = Final(r, "ended") /\ run[r].st = "resume_pending"
      BY <1>1, <2>3 DEF Stranded
    <3>2. QED
      BY <2>1, <3>1, FinalIs DEF Inv, RowsOK
  <2>4. CASE r \notin Lost /\ ~Stranded(r)
    BY <1>1, <2>1, <2>4
  <2>5. QED
    BY <2>2, <2>3, <2>4
<1>4. \A r \in Lost : r \in Run /\ run[r].st = "running"
  BY DEF Lost
<1>5. RowsOK'
  <2>1. issue' \in [Issue -> IssueRow]
    BY <1>1, <1>2 DEF Repaired
  <2>2. run' \in [Run -> RunRow]
    BY <1>1, <1>3
  <2>3. QED
    BY <1>1, <2>1, <2>2 DEF Inv, RowsOK
<1>6. Links'
  <2>1. \A r \in Run : (run'[r].st = "none" <=> run[r].st = "none") /\ run'[r].steps <= MaxSteps
    BY <1>3, <1>4, Bounds DEF Inv, Links
  <2>2. QED
    BY <1>1, <1>3, <2>1 DEF Inv, Links
<1>7. RunsHeld
  <2>1. \A r \in Run : run[r].steps \in Nat
    BY DEF Inv, RowsOK, RunRow
  <2>2. QED
    BY <1>3, <1>4, <2>1 DEF RunsHeld, InWork
<1>8. ASSUME NEW i \in Issue PROVE SeatedRight(i)'
  <2>1. \A r \in Seated(i)' : r \in Seated(i) /\ run'[r] = run[r] /\ r \notin Lost
    BY <1>3 DEF Seated, Seats, Parked
  <2>2. SeatedRight(i)
    BY <1>2
  <2>3. CASE issue'[i] = issue[i] /\ issue[i].claim \notin Lost
    <3>1. \A r \in Seated(i)' : SeatFits(i, r)'
      <4>1. SUFFICES ASSUME NEW r \in Run, r \in Seated(i)' PROVE SeatFits(i, r)'
        BY DEF Seated
      <4>2. SeatFits(i, r) /\ run'[r] = run[r]
        BY <2>1, <2>2, <4>1 DEF SeatedRight
      <4>3. QED
        BY <2>3, <4>2 DEF SeatFits, Unseen
    <3>2. issue[i].claim # NoRun =>
            /\ issue[i].claim \in Seated(i)' /\ run'[issue[i].claim].st = "running"
            /\ issue[i].st = "investigating"
      <4>1. SUFFICES ASSUME issue[i].claim # NoRun
                     PROVE  /\ issue[i].claim \in Seated(i)' /\ run'[issue[i].claim].st = "running"
                            /\ issue[i].st = "investigating"
        OBVIOUS
      <4>2. PICK c \in Run : c = issue[i].claim /\ c \in Seated(i) /\ run[c].st = "running"
                             /\ issue[i].st = "investigating"
        BY <2>2, <4>1 DEF SeatedRight, Seated
      <4>3. run'[c] = run[c]
        BY <1>3, <2>3, <4>2
      <4>4. QED
        BY <4>2, <4>3 DEF Seated
    <3>3. issue[i].st = "closed" =>
            /\ \A r \in Run : run'[r].issue = i => run'[r].st \notin Live
            /\ ~HasAct(i, {"proposed"})'
      <4>1. SUFFICES ASSUME issue[i].st = "closed"
                     PROVE  /\ \A r \in Run : run'[r].issue = i => run'[r].st \notin Live
                            /\ ~HasAct(i, {"proposed"})'
        OBVIOUS
      <4>2. /\ \A r \in Run : run[r].issue = i => run[r].st \notin Live
            /\ ~HasAct(i, {"proposed"})
        BY <2>2, <4>1 DEF SeatedRight
      <4>3. \A a \in Action : act[a].st # "none" => IssueOf(a)' = IssueOf(a)
        BY <1>1, <1>3 DEF IssueOf, Inv, Links
      <4>4. ~HasAct(i, {"proposed"})'
        BY <1>1, <4>2, <4>3 DEF HasAct, ActsOf
      <4>5. \A r \in Run : run'[r].issue = i => run'[r].st \notin Live
        BY <1>3, <4>2 DEF Live, Parked
      <4>6. QED
        BY <4>4, <4>5
    <3>4. QED
      BY <2>1, <2>2, <2>3, <3>1, <3>2, <3>3 DEF SeatedRight
  <2>4. CASE /\ issue[i].claim \in Lost /\ issue[i].claim \in Seated(i)
             /\ issue'[i].st = "open" /\ issue'[i].claim = NoRun
    <3>1. \A r \in Seated(i)' : FALSE
      BY <2>1, <2>2, <2>4 DEF SeatedRight
    <3>2. QED
      BY <2>4, <3>1 DEF SeatedRight
  <2>5. QED
    BY <1>2, <2>3, <2>4
<1>9. QED
  BY <1>5, <1>6, <1>7, <1>8 DEF ClaimInv

\* Decisions still to be handed over belong to actions that exist.
LEMMA DecidedExist ==
    \A a \in Overdue : a \in Action /\ act[a].st # "none"
BY DEF Overdue, Decided

\* So it does in the next state.
LEMMA ClaimsNext == (Claims \in Seq(JobRow))'
BY ClaimsAreJobs, PTL

\* The claims recovery enqueues are jobs, and the queue keeps its bound.
LEMMA RequeueIs ==
    ASSUME Inv, Requeue
    PROVE  jobs' \in Seq(JobRow) /\ Len(jobs') <= QueueCap
<1>1. Claims' \in Seq(JobRow)
  BY ClaimsNext
<1>2. jobs \in Seq(JobRow) /\ Len(jobs) <= QueueCap
  BY DEF Inv, HandsOK
<1>3. PICK more \in Seq(JobRow) : more = Claims'
  BY <1>1
<1>4. jobs' = Enqueued(more) \/ jobs' = jobs
  BY <1>3 DEF Requeue
<1>5. QED
  BY <1>2, <1>4, EnqueuedIs

\* The first steps of a recovery pass.
LEMMA RecPassKeeps ==
    ASSUME Inv, RecPass
    PROVE  Inv'
<1>1. RowsOK' /\ Links' /\ ClaimInv' /\ RunsHeld
  BY RepairsMove
<1>2. /\ todo' = Overdue /\ Requeue /\ act' = act /\ fault' = fault
      /\ UNCHANGED <<effect, worker, decider, gen>>
  BY DEF RecPass, KeepRec
<1>3. jobs' \in Seq(JobRow) /\ Len(jobs') <= QueueCap
  BY <1>2, RequeueIs
<1>4. todo' \subseteq Action /\ \A a \in todo' : act'[a].st # "none"
  BY <1>2, DecidedExist DEF Overdue
<1>5. OnlyWithdraws
  BY <1>2 DEF OnlyWithdraws
<1>6. QED
  BY <1>1, <1>2, <1>3, <1>4, <1>5, OthersStep

\* The pass hands over one decision.
LEMMA RecStageKeeps ==
    ASSUME Inv, RecStage
    PROVE  Inv'
<1>1. PICK a : a = Oldest(todo)
  OBVIOUS
<1>2. /\ todo # {} /\ todo' = todo \ {a} /\ Requeue /\ act' = act /\ rule' = rule
      /\ Handed(a) \/ StopUnresumable(a) \/ UNCHANGED <<issue, run>>
      /\ fault' = fault \/ Fault
      /\ UNCHANGED <<effect, worker, decider, gen>>
  BY <1>1 DEF RecStage, KeepRec
<1>3. a \in Action /\ act[a].st # "none"
  <2>1. todo \in SUBSET Action /\ \A b \in todo : act[b].st # "none"
    BY DEF Inv, PassOK, Handing
  <2>2. a \in todo
    BY <1>1, <1>2, <2>1, PickedRows
  <2>3. QED
    BY <2>1, <2>2
<1>4. PICK i \in Issue : i = IssueOf(a)
  BY <1>3, FixHas DEF Inv
<1>5. RowsOK' /\ Links' /\ ClaimInv' /\ RunsHeld
  <2>1. CASE UNCHANGED <<issue, run>>
    <3>1. RowsOK' /\ Eased(i)
      BY <1>2, <2>1, RowsUnchanged DEF Inv, db
    <3>2. QED
      BY <3>1, EasedKeeps DEF Inv
  <2>2. QED
    BY <1>2, <1>3, <2>1, HandedMoves, StopMoves
<1>6. jobs' \in Seq(JobRow) /\ Len(jobs') <= QueueCap
  BY <1>2, RequeueIs
<1>7. todo' \subseteq Action /\ \A b \in todo' : act'[b].st # "none"
  BY <1>2 DEF Inv, PassOK, Handing
<1>8. OnlyWithdraws
  BY <1>2 DEF OnlyWithdraws
<1>9. QED
  BY <1>2, <1>5, <1>6, <1>7, <1>8, OthersStep

\* What is left to show when one issue is eased outside a recovery pass.
LEMMA EasedStep ==
    ASSUME Inv, RowsOK', NEW i \in Issue, Eased(i), OnlyWithdraws,
           jobs' = jobs \/ \E more \in Seq(JobRow) : jobs' = Enqueued(more),
           KeepEnv, fault' = fault \/ Fault
    PROVE  Inv'
<1>1. Links' /\ ClaimInv' /\ RunsHeld
  BY EasedKeeps DEF Inv
<1>2. jobs' \in Seq(JobRow) /\ Len(jobs') <= QueueCap
  BY EnqueuedIs DEF Inv, HandsOK
<1>3. UNCHANGED <<effect, worker, decider, gen>> /\ todo' = todo
  BY DEF KeepEnv
<1>4. todo' \subseteq Action /\ \A a \in todo' : act'[a].st # "none"
  BY <1>3 DEF Inv, PassOK, Handing, OnlyWithdraws
<1>5. QED
  BY <1>1, <1>2, <1>3, <1>4, OthersStep

\* A human closes an issue.
LEMMA HumanCloseKeeps ==
    ASSUME Inv, NEW i \in Issue, HumanClose(i)
    PROVE  Inv'
<1>1. PICK kind : Close(i, kind, NoRun)
  BY DEF HumanClose
<1>2. RowsOK' /\ Eased(i) /\ OnlyWithdraws
  BY <1>1, CloseMoves DEF Inv
<1>3. jobs' = jobs /\ fault' = fault /\ KeepEnv
  BY DEF HumanClose
<1>4. QED
  BY <1>2, <1>3, EasedStep

\* An administrator reopens an issue.
LEMMA ReopenKeeps ==
    ASSUME Inv, NEW i \in Issue, Reopen(i)
    PROVE  Inv'
<1>1. /\ issue[i].st = "closed" /\ act' = Superseded(ActsOf(i)) /\ run' = Ended(i, Live)
      /\ issue' = [Released(i, "needs_admin") EXCEPT ![i].reopened = TRUE]
      /\ rule' = rule /\ jobs' = jobs /\ fault' = fault /\ KeepEnv
  BY DEF Reopen
<1>2. "needs_admin" \in IssueStatus /\ "needs_admin" # "closed"
  BY DEF IssueStatus
<1>3. PICK released \in [Issue -> IssueRow] :
         /\ released = Released(i, "needs_admin")
         /\ released[i].st = "needs_admin" /\ released[i].claim = NoRun
         /\ \A j \in Issue : j # i => released[j] = issue[j]
  BY <1>2, ReleasedIs DEF Inv, RowsOK
<1>4. PICK row : row = [released[i] EXCEPT !.reopened = TRUE]
  OBVIOUS
<1>5. row \in IssueRow /\ row.st = "needs_admin" /\ row.claim = NoRun
  BY <1>3, <1>4 DEF IssueRow
<1>6. /\ issue' \in [Issue -> IssueRow] /\ issue'[i].st = "needs_admin" /\ issue'[i].claim = NoRun
      /\ \A j \in Issue : j # i => issue'[j] = issue[j]
  BY <1>1, <1>3, <1>4, <1>5
<1>7. Live \in SUBSET Live /\ ActsOf(i) \in SUBSET ActsOf(i)
  OBVIOUS
<1>8. run' \in [Run -> RunRow] /\ \A r \in Run : run'[r] = run[r] \/ EndedHere(i, r)
  BY <1>1, <1>7, EndingHere DEF Inv, RowsOK
<1>9. /\ act' \in [Action -> ActRow] /\ OnlyWithdraws
      /\ \A a \in Action : \/ act'[a] = act[a]
                           \/ /\ act[a].st # "none" /\ IssueOf(a) = i
                              /\ act'[a].run = act[a].run /\ act'[a].st \notin {"none", "proposed"}
  BY <1>1, <1>7, WithdrawnHere DEF Inv, RowsOK
<1>10. RowsOK' /\ Eased(i)
  BY <1>1, <1>2, <1>6, <1>8, <1>9 DEF Inv, RowsOK, Eased
<1>11. QED
  BY <1>1, <1>9, <1>10, EasedStep

\* The standing rule is paused or resumed.
LEMMA SetRuleKeeps ==
    ASSUME Inv, SetRule
    PROVE  Inv'
<1>1. /\ rule' \in {"active", "paused"} /\ UNCHANGED <<issue, run, act, jobs, fault>> /\ KeepEnv
  BY DEF SetRule
<1>2. QED
  BY <1>1 DEF Inv, KeepEnv, RowsOK, HandsOK, DecidersOK, PassOK, Links, ClaimInv, SeatedRight,
              Seated, SeatFits, Unseen, HasAct, ActsOf, IssueOf, Hands, Ledger, Handing

\* The observation sweep moves an issue or promotes a tracked one.
LEMMA ObserveKeeps ==
    ASSUME Inv, NEW i \in Issue, Observe(i)
    PROVE  Inv'
<1>1. fault' = fault /\ KeepEnv
  BY DEF Observe
<1>2. CASE /\ Suspend(i) \/ Close(i, "cleared", NoRun) \/ ObservationNeedsAdmin(i)
           /\ jobs' = jobs
  <2>1. RowsOK' /\ Eased(i) /\ OnlyWithdraws
    BY <1>2, SuspendMoves, CloseMoves, ObservationMoves DEF Inv
  <2>2. QED
    BY <1>1, <1>2, <2>1, EasedStep
<1>3. CASE /\ issue[i].st = "tracking" /\ UNCHANGED <<run, act, rule>>
           /\ issue' = [issue EXCEPT ![i].st = "open"] \/ issue' = [issue EXCEPT ![i].st = "needs_admin"]
           /\ jobs' = Enqueued(<<Fresh(i)>>) \/ jobs' = jobs
  <2>1. PICK st \in {"open", "needs_admin"} : issue' = [issue EXCEPT ![i].st = st]
    BY <1>3
  <2>2. \A r \in Seated(i) : FALSE
    BY <1>3, Bounds DEF Inv, ClaimInv, SeatedRight, SeatFits, Seated
  <2>3. issue[i].claim = NoRun
    BY <1>3 DEF Inv, ClaimInv, SeatedRight
  <2>4. issue[i] \in IssueRow /\ st \in IssueStatus /\ st # "closed"
    BY DEF Inv, RowsOK, IssueStatus
  <2>5. PICK row \in IssueRow : row = [issue[i] EXCEPT !.st = st] /\ row.st = st /\ row.claim = NoRun
    <3>1. PICK x : x = [issue[i] EXCEPT !.st = st]
      OBVIOUS
    <3>2. x \in IssueRow /\ x.st = st /\ x.claim = NoRun
      BY <2>3, <2>4, <3>1 DEF IssueRow
    <3>3. QED
      BY <3>1, <3>2
  <2>6. /\ issue' \in [Issue -> IssueRow] /\ issue'[i] = row
        /\ \A j \in Issue : j # i => issue'[j] = issue[j]
    BY <2>1, <2>5 DEF Inv, RowsOK
  <2>7. RowsOK' /\ OnlyWithdraws
    BY <1>3, <2>6 DEF Inv, RowsOK, OnlyWithdraws
  <2>8. Eased(i)
    BY <1>3, <2>2, <2>4, <2>5, <2>6 DEF Eased
  <2>9. <<Fresh(i)>> \in Seq(JobRow)
    <3>1. Fresh(i) \in JobRow
      BY DEF Fresh, JobRow
    <3>2. QED
      BY <3>1
  <2>10. QED
    BY <1>1, <1>3, <2>7, <2>8, <2>9, EasedStep
<1>4. QED
  BY <1>2, <1>3 DEF Observe

\* A reply to an issue that waits for no answer is counted.
LEMMA HeardMoves ==
    ASSUME Inv, NEW i \in Issue, issue[i].st \notin {"awaiting_user", "awaiting_approval"},
           issue[i].msgs < MaxMsg, issue' = Heard(i), UNCHANGED <<run, act, rule>>
    PROVE  RowsOK' /\ Links' /\ ClaimInv' /\ RunsHeld
<1>1. issue[i] \in IssueRow /\ issue[i].msgs + 1 \in 0 .. MaxMsg
  <2>1. issue[i] \in IssueRow
    BY DEF Inv, RowsOK
  <2>2. issue[i].msgs \in 0 .. MaxMsg /\ MaxMsg \in Nat
    BY <2>1, Bounds DEF IssueRow
  <2>3. QED
    BY <2>1, <2>2
<1>2. PICK row : row = [issue[i] EXCEPT !.msgs = @ + 1]
  OBVIOUS
<1>3. /\ row \in IssueRow /\ row.st = issue[i].st /\ row.claim = issue[i].claim
      /\ row.reopened = issue[i].reopened
  BY <1>1, <1>2 DEF IssueRow
<1>4. issue' = [issue EXCEPT ![i] = row]
  BY <1>2 DEF Heard, Inv, RowsOK
<1>5. /\ issue' \in [Issue -> IssueRow] /\ issue'[i] = row
      /\ \A j \in Issue : j # i => issue'[j] = issue[j]
  BY <1>3, <1>4 DEF Inv, RowsOK
<1>6. RowsOK'
  BY <1>5 DEF Inv, RowsOK
<1>7. Within(i)
  BY <1>5 DEF Within
<1>8. SeatedRight(i)'
  <2>1. SeatedRight(i)
    BY DEF Inv, ClaimInv
  <2>2. \A r \in Seated(i)' : r \in Seated(i)
    BY DEF Seated
  <2>3. \A r \in Seated(i)' : SeatFits(i, r)'
    <3>1. \A r \in Seated(i) : SeatFits(i, r)
      BY <2>1 DEF SeatedRight
    <3>2. QED
      BY <1>3, <1>5, <2>2, <3>1 DEF SeatFits
  <2>4. HasAct(i, {"proposed"})' = HasAct(i, {"proposed"})
    BY DEF HasAct, ActsOf, IssueOf
  <2>5. QED
    BY <1>3, <1>5, <2>1, <2>2, <2>3, <2>4 DEF SeatedRight, Seated
<1>9. RunsHeld
  <2>1. \A r \in Run : run[r].steps \in Int
    BY DEF Inv, RowsOK, RunRow
  <2>2. QED
    BY <2>1 DEF RunsHeld
<1>10. QED
  BY <1>6, <1>7, <1>8, <1>9, WithinKeeps DEF Inv

\* What a reply to a parked issue finds at its gate.
LEMMA GateHas ==
    ASSUME Inv, NEW i \in Issue
    PROVE  /\ LET asked == Waiting(i, "waiting_user")
              IN asked # {} =>
                   /\ Newest(asked) \in Run /\ run[Newest(asked)].issue = i
                   /\ run[Newest(asked)].st = "waiting_user"
           /\ LET open == {a \in ActsOf(i) : act[a].st = "proposed" /\ GateActive(a)}
                  r == act[Newest(open)].run
              IN open # {} =>
                   /\ Newest(open) \in ActsOf(i) /\ Newest({r}) = r
                   /\ r \in Run /\ run[r].issue = i /\ run[r].st = "waiting_approval"
<1>1. PICK asked \in SUBSET Run : asked = Waiting(i, "waiting_user")
  BY DEF Waiting
<1>2. asked # {} => /\ Newest(asked) \in Run /\ run[Newest(asked)].issue = i
                    /\ run[Newest(asked)].st = "waiting_user"
  <2>1. \A q \in asked : q \in Run /\ run[q].issue = i /\ run[q].st = "waiting_user"
    BY <1>1 DEF Waiting
  <2>2. QED
    BY <2>1, PickedRows
<1>3. PICK open \in SUBSET Action :
         open = {a \in ActsOf(i) : act[a].st = "proposed" /\ GateActive(a)}
  BY DEF ActsOf
<1>4. ASSUME open # {}
      PROVE  /\ Newest(open) \in ActsOf(i) /\ Newest({act[Newest(open)].run}) = act[Newest(open)].run
             /\ act[Newest(open)].run \in Run /\ run[act[Newest(open)].run].issue = i
             /\ run[act[Newest(open)].run].st = "waiting_approval"
  <2>1. PICK a : a = Newest(open)
    OBVIOUS
  <2>2. a \in ActsOf(i) /\ GateActive(a)
    BY <1>3, <1>4, <2>1, PickedRows
  <2>3. act[a].run \in Run /\ run[act[a].run].issue = i /\ run[act[a].run].st = "waiting_approval"
    BY <2>2 DEF Inv, Links, ActsOf, IssueOf, GateActive
  <2>4. Newest({act[a].run}) = act[a].run
    BY <2>3, Bounds, NewestOfOne
  <2>5. QED
    BY <2>1, <2>2, <2>3, <2>4
<1>5. QED
  BY <1>1, <1>2, <1>3, <1>4

\* A human replies.
LEMMA ReplyKeeps ==
    ASSUME Inv, NEW i \in Issue, Reply(i)
    PROVE  Inv'
<1>1. rule' = rule /\ KeepEnv /\ (fault' = fault \/ Fault) /\ issue[i].msgs < MaxMsg
  BY DEF Reply
<1>2. UNCHANGED <<effect, worker, decider, gen>> /\ todo' = todo
  BY <1>1 DEF KeepEnv
<1>3. /\ issue[i] \in IssueRow /\ issue[i].msgs + 1 \in 0 .. MaxMsg
      /\ "investigating" \in IssueStatus /\ "needs_admin" \in IssueStatus
  <2>1. issue[i] \in IssueRow
    BY DEF Inv, RowsOK
  <2>2. issue[i].msgs \in 0 .. MaxMsg /\ MaxMsg \in Nat
    BY <2>1, Bounds DEF IssueRow
  <2>3. QED
    BY <1>1, <2>1, <2>2 DEF IssueStatus
<1>4. <<Resume(i)>> \in Seq(JobRow)
  <2>1. Resume(i) \in JobRow
    BY DEF Resume, JobRow
  <2>2. QED
    BY <2>1
<1>5. PICK asked : asked = Waiting(i, "waiting_user")
  OBVIOUS
<1>6. PICK open : open = {a \in ActsOf(i) : act[a].st = "proposed" /\ GateActive(a)}
  OBVIOUS
<1>7. PICK gate : gate = IF issue[i].st = "awaiting_user" THEN asked ELSE {act[Newest(open)].run}
  OBVIOUS
<1>8. CASE /\ issue[i].st \notin {"awaiting_user", "awaiting_approval"}
           /\ issue' = Heard(i) /\ UNCHANGED <<run, act, jobs, fault>>
  <2>1. RowsOK' /\ Links' /\ ClaimInv' /\ RunsHeld
    BY <1>1, <1>8, HeardMoves
  <2>2. jobs' \in Seq(JobRow) /\ Len(jobs') <= QueueCap
    BY <1>8 DEF Inv, HandsOK
  <2>3. OnlyWithdraws
    BY <1>8 DEF OnlyWithdraws
  <2>4. todo' \subseteq Action /\ \A a \in todo' : act'[a].st # "none"
    BY <1>2, <1>8 DEF Inv, PassOK, Handing
  <2>5. QED
    BY <1>1, <1>2, <2>1, <2>2, <2>3, <2>4, OthersStep
<1>9. CASE /\ issue[i].st \in {"awaiting_user", "awaiting_approval"}
           /\ issue[i].st = "awaiting_user" => asked # {}
           /\ issue[i].st = "awaiting_approval" => open # {}
           /\ issue[i].claim = NoRun
           /\ issue' = [Heard(i) EXCEPT ![i].st = "investigating"]
           /\ run' = [run EXCEPT ![Newest(gate)].st = "resume_pending"]
           /\ act' = IF issue[i].st = "awaiting_approval" THEN Superseded({Newest(open)}) ELSE act
           /\ jobs' = Enqueued(<<Resume(i)>>)
  <2>1. PICK r : r = Newest(gate)
    OBVIOUS
  <2>2. r \in Run /\ run[r].issue = i /\ run[r].st \in Parked
    <3>1. asked # {} => /\ Newest(asked) \in Run /\ run[Newest(asked)].issue = i
                        /\ run[Newest(asked)].st = "waiting_user"
      BY <1>5, GateHas
    <3>2. open # {} =>
            /\ Newest({act[Newest(open)].run}) = act[Newest(open)].run
            /\ act[Newest(open)].run \in Run /\ run[act[Newest(open)].run].issue = i
            /\ run[act[Newest(open)].run].st = "waiting_approval"
      BY <1>6, GateHas
    <3>3. CASE issue[i].st = "awaiting_user"
      BY <1>7, <1>9, <2>1, <3>1, <3>3 DEF Parked
    <3>4. CASE issue[i].st = "awaiting_approval"
      <4>1. gate = {act[Newest(open)].run}
        BY <1>7, <3>4
      <4>2. QED
        BY <1>9, <2>1, <3>2, <3>4, <4>1 DEF Parked
    <3>5. QED
      BY <1>9, <3>3, <3>4
  <2>3. PICK row : row = [issue[i] EXCEPT !.msgs = @ + 1, !.st = "investigating"]
    OBVIOUS
  <2>4. row \in IssueRow /\ row.st = "investigating" /\ row.claim = NoRun
    BY <1>3, <1>9, <2>3 DEF IssueRow
  <2>5. issue' = [issue EXCEPT ![i] = row]
    BY <1>3, <1>9, <2>3 DEF Heard, Inv, RowsOK, IssueRow
  <2>6. /\ act' \in [Action -> ActRow] /\ OnlyWithdraws
        /\ \A a \in Action : \/ act'[a] = act[a]
                             \/ /\ act[a].st # "none" /\ IssueOf(a) = i
                                /\ act'[a].run = act[a].run /\ act'[a].st \notin {"none", "proposed"}
    <3>1. CASE act' = act
      BY <3>1 DEF Inv, RowsOK, OnlyWithdraws
    <3>2. CASE issue[i].st = "awaiting_approval" /\ act' = Superseded({Newest(open)})
      <4>1. Newest(open) \in ActsOf(i)
        BY <1>6, <1>9, <3>2, GateHas
      <4>2. {Newest(open)} \in SUBSET ActsOf(i)
        BY <4>1
      <4>3. QED
        BY <3>2, <4>2, WithdrawnHere DEF Inv, RowsOK
    <3>3. QED
      BY <1>9, <3>1, <3>2
  <2>7. run' = [run EXCEPT ![r].st = "resume_pending"]
    BY <1>9, <2>1
  <2>8. RowsOK' /\ Links' /\ ClaimInv' /\ RunsHeld
    BY <1>1, <2>2, <2>4, <2>5, <2>6, <2>7, HandoffMoves
  <2>9. jobs' \in Seq(JobRow) /\ Len(jobs') <= QueueCap
    BY <1>4, <1>9, EnqueuedIs DEF Inv, HandsOK
  <2>10. todo' \subseteq Action /\ \A a \in todo' : act'[a].st # "none"
    BY <1>2, <2>6 DEF Inv, PassOK, Handing, OnlyWithdraws
  <2>11. QED
    BY <1>1, <1>2, <2>6, <2>8, <2>9, <2>10, OthersStep
<1>10. CASE /\ issue' = [Heard(i) EXCEPT ![i].st = "needs_admin", ![i].claim = NoRun]
            /\ run' = Ended(i, {"resume_pending", IF issue[i].st = "awaiting_user"
                                                  THEN "waiting_user" ELSE "waiting_approval"})
            /\ act' = IF issue[i].st = "awaiting_approval" THEN Superseded(ActsOf(i)) ELSE act
            /\ jobs' = jobs
  <2>1. PICK from \in SUBSET Live : run' = Ended(i, from)
    <3>1. {"resume_pending", IF issue[i].st = "awaiting_user"
                             THEN "waiting_user" ELSE "waiting_approval"} \in SUBSET Live
      BY DEF Live, Parked
    <3>2. QED
      BY <1>10, <3>1
  <2>2. run' \in [Run -> RunRow] /\ \A r \in Run : run'[r] = run[r] \/ EndedHere(i, r)
    BY <2>1, EndingHere DEF Inv, RowsOK
  <2>3. PICK row : row = [issue[i] EXCEPT !.msgs = @ + 1, !.st = "needs_admin", !.claim = NoRun]
    OBVIOUS
  <2>4. row \in IssueRow /\ row.st = "needs_admin" /\ row.claim = NoRun
    BY <1>3, <2>3 DEF IssueRow
  <2>5. issue' = [issue EXCEPT ![i] = row]
    BY <1>3, <1>10, <2>3 DEF Heard, Inv, RowsOK, IssueRow
  <2>6. /\ issue' \in [Issue -> IssueRow] /\ issue'[i].st = "needs_admin" /\ issue'[i].claim = NoRun
        /\ \A j \in Issue : j # i => issue'[j] = issue[j]
    BY <2>4, <2>5 DEF Inv, RowsOK
  <2>7. /\ act' \in [Action -> ActRow] /\ OnlyWithdraws
        /\ \A a \in Action : \/ act'[a] = act[a]
                             \/ /\ act[a].st # "none" /\ IssueOf(a) = i
                                /\ act'[a].run = act[a].run /\ act'[a].st \notin {"none", "proposed"}
    <3>1. CASE act' = act
      BY <3>1 DEF Inv, RowsOK, OnlyWithdraws
    <3>2. CASE act' = Superseded(ActsOf(i))
      <4>1. ActsOf(i) \in SUBSET ActsOf(i)
        OBVIOUS
      <4>2. QED
        BY <3>2, <4>1, WithdrawnHere DEF Inv, RowsOK
    <3>3. QED
      BY <1>10, <3>1, <3>2
  <2>8. RowsOK'
    BY <1>1, <2>2, <2>6, <2>7 DEF Inv, RowsOK
  <2>9. Eased(i)
    BY <2>2, <2>6, <2>7 DEF Eased
  <2>10. QED
    BY <1>1, <1>10, <2>7, <2>8, <2>9, EasedStep
<1>11. QED
  BY <1>5, <1>6, <1>7, <1>8, <1>9, <1>10 DEF Reply

\* The rows a crash leaves behind once the schema layer has repaired them.
LEMMA CrashMoves ==
    ASSUME Inv, Crash
    PROVE  /\ RowsOK'
           /\ \A i \in Issue : \/ issue'[i] = issue[i]
                               \/ issue'[i].st = "needs_admin" /\ issue'[i].claim = NoRun
           /\ \A i \in Issue : HasAct(i, {"executing"} \union Unverified) =>
                                 issue'[i] = issue[i] \/ issue'[i].claim = NoRun
           /\ \A r \in Run : \/ run'[r] = run[r]
                             \/ /\ run[r].st \in Live /\ run'[r].issue = run[r].issue
                                /\ run'[r].st = "ended" /\ run'[r].steps = 0
           /\ \A r \in Run : run'[r].st \in Live => issue'[run[r].issue] = issue[run[r].issue]
           /\ \A i \in Issue, r \in Run : issue'[i] = issue[i] /\ run[r].issue = i
                /\ issue[i].claim = r => run'[r] = run[r]
           /\ \A a \in Action : /\ act'[a].run = act[a].run /\ act'[a].auto = act[a].auto
                                /\ \/ act'[a] = act[a] /\ act[a].st # "executing"
                                   \/ act[a].st = "executing" /\ act'[a].st = "interrupted"
                                   \/ act[a].st = "proposed" /\ act'[a].st = "superseded"
           /\ rule' = Disarmed(\E a \in Action : act[a].st = "executing" /\ act[a].auto)
<1> DEFINE hurt(i) == HasAct(i, {"executing"} \union Unverified)
           over(i) == issue[i].st = "closed"
<1>1. /\ issue' = [i \in Issue |-> IF hurt(i) /\ ~over(i)
                                   THEN [issue[i] EXCEPT !.st = "needs_admin", !.claim = NoRun] ELSE issue[i]]
      /\ run' = [r \in Run |-> IF run[r].st \in Live /\ (hurt(run[r].issue) \/ over(run[r].issue))
                               THEN Final(r, "ended") ELSE run[r]]
      /\ act' = [a \in Action |->
                   CASE act[a].st = "executing" -> [act[a] EXCEPT !.st = "interrupted"]
                     [] act[a].st = "proposed" /\ (hurt(IssueOf(a)) \/ ~GateActive(a))
                          -> [act[a] EXCEPT !.st = "superseded"]
                     [] OTHER -> act[a]]
      /\ rule' = Disarmed(\E a \in Action : act[a].st = "executing" /\ act[a].auto)
  BY DEF Crash
<1> HIDE DEF hurt, over
<1>2. ASSUME NEW i \in Issue
      PROVE  /\ issue'[i] \in IssueRow
             /\ \/ issue'[i] = issue[i] /\ ~(hurt(i) /\ ~over(i))
                \/ issue'[i].st = "needs_admin" /\ issue'[i].claim = NoRun /\ hurt(i) /\ ~over(i)
  <2>1. issue[i] \in IssueRow /\ "needs_admin" \in IssueStatus
    BY DEF Inv, RowsOK, IssueStatus
  <2>2. CASE hurt(i) /\ ~over(i)
    <3>1. PICK x : x = [issue[i] EXCEPT !.st = "needs_admin", !.claim = NoRun]
      OBVIOUS
    <3>2. x \in IssueRow /\ x.st = "needs_admin" /\ x.claim = NoRun
      BY <2>1, <3>1 DEF IssueRow
    <3>3. issue'[i] = x
      BY <1>1, <2>2, <3>1
    <3>4. QED
      BY <2>2, <3>2, <3>3
  <2>3. CASE ~(hurt(i) /\ ~over(i))
    BY <1>1, <2>1, <2>3
  <2>4. QED
    BY <2>2, <2>3
<1>3. ASSUME NEW r \in Run
      PROVE  /\ run'[r] \in RunRow
             /\ \/ run'[r] = run[r] /\ ~(run[r].st \in Live /\ (hurt(run[r].issue) \/ over(run[r].issue)))
                \/ /\ run[r].st \in Live /\ run'[r].issue = run[r].issue
                   /\ run'[r].st = "ended" /\ run'[r].steps = 0
                   /\ hurt(run[r].issue) \/ over(run[r].issue)
  <2>1. "ended" \in RunStatus /\ run[r] \in RunRow /\ run \in [Run -> RunRow]
    BY DEF Inv, RowsOK, RunStatus
  <2>2. /\ Final(r, "ended") \in RunRow /\ Final(r, "ended").issue = run[r].issue
        /\ Final(r, "ended").st = "ended" /\ Final(r, "ended").steps = 0
    BY <2>1, FinalIs
  <2>3. QED
    BY <1>1, <2>1, <2>2
<1>4. ASSUME NEW a \in Action
      PROVE  /\ act'[a] \in ActRow /\ act'[a].run = act[a].run /\ act'[a].auto = act[a].auto
             /\ \/ act'[a] = act[a] /\ act[a].st # "executing"
                \/ act[a].st = "executing" /\ act'[a].st = "interrupted"
                \/ act[a].st = "proposed" /\ act'[a].st = "superseded"
  <2>1. act[a] \in ActRow /\ "interrupted" \in ActionStatus /\ "superseded" \in ActionStatus
    BY DEF Inv, RowsOK, ActionStatus
  <2>2. CASE act[a].st = "executing"
    <3>1. act'[a] = [act[a] EXCEPT !.st = "interrupted"]
      BY <1>1, <2>2
    <3>2. QED
      BY <2>1, <2>2, <3>1 DEF ActRow
  <2>3. CASE act[a].st = "proposed" /\ (hurt(IssueOf(a)) \/ ~GateActive(a))
    <3>1. act'[a] = [act[a] EXCEPT !.st = "superseded"]
      BY <1>1, <2>3
    <3>2. QED
      BY <2>1, <2>3, <3>1 DEF ActRow
  <2>4. CASE act[a].st # "executing" /\ ~(act[a].st = "proposed" /\ (hurt(IssueOf(a)) \/ ~GateActive(a)))
    BY <1>1, <2>1, <2>4
  <2>5. QED
    BY <2>2, <2>3, <2>4
<1>5. RowsOK'
  <2>1. rule' \in {"active", "paused"}
    BY <1>1, DisarmedIs DEF Inv, RowsOK
  <2>2. issue' \in [Issue -> IssueRow] /\ run' \in [Run -> RunRow] /\ act' \in [Action -> ActRow]
    BY <1>1, <1>2, <1>3, <1>4
  <2>3. QED
    BY <2>1, <2>2 DEF RowsOK
<1>6. \A r \in Run : run'[r].st \in Live => issue'[run[r].issue] = issue[run[r].issue]
  <2>1. SUFFICES ASSUME NEW r \in Run, run'[r].st \in Live
                 PROVE  issue'[run[r].issue] = issue[run[r].issue]
    OBVIOUS
  <2>2. run'[r] = run[r] /\ ~hurt(run[r].issue)
    BY <1>3, <2>1 DEF Live, Parked
  <2>3. run[r].issue \in Issue
    <3>1. run[r].st # "none" /\ run[r] \in RunRow
      BY <2>1, <2>2 DEF Live, Parked, Inv, RowsOK
    <3>2. run[r].issue # NoIssue
      BY <3>1 DEF Inv, Links
    <3>3. QED
      BY <3>1, <3>2 DEF RunRow
  <2>4. QED
    BY <1>2, <2>2, <2>3
<1>7. ASSUME NEW i \in Issue, NEW r \in Run, issue'[i] = issue[i], run[r].issue = i, issue[i].claim = r
      PROVE  run'[r] = run[r]
  <2>1. r # NoRun
    BY Bounds
  <2>2. issue[i].st = "investigating"
    BY <1>7, <2>1 DEF Inv, ClaimInv, SeatedRight
  <2>3. ~hurt(i) /\ ~over(i)
    BY <1>2, <1>7, <2>1, <2>2 DEF over
  <2>4. QED
    BY <1>3, <1>7, <2>3
<1>8. QED
  BY <1>1, <1>2, <1>3, <1>4, <1>5, <1>6, <1>7

\* A crash leaves every issue in order.
LEMMA CrashKeeps ==
    ASSUME Inv, Crash
    PROVE  Inv'
<1>1. /\ jobs' = <<>> /\ todo' = {} /\ effect' = effect /\ fault' = fault
      /\ gen < MaxCrash /\ gen' = gen + 1
      /\ worker' = [w \in Worker |-> IdleWorker]
      /\ decider' = [d \in Decider |-> IdleDecider]
  BY DEF Crash
<1>2. /\ RowsOK'
      /\ \A i \in Issue : \/ issue'[i] = issue[i]
                          \/ issue'[i].st = "needs_admin" /\ issue'[i].claim = NoRun
      /\ \A r \in Run : \/ run'[r] = run[r]
                        \/ /\ run[r].st \in Live /\ run'[r].issue = run[r].issue
                           /\ run'[r].st = "ended" /\ run'[r].steps = 0
      /\ \A r \in Run : run'[r].st \in Live => issue'[run[r].issue] = issue[run[r].issue]
      /\ \A i \in Issue, r \in Run : issue'[i] = issue[i] /\ run[r].issue = i
           /\ issue[i].claim = r => run'[r] = run[r]
      /\ \A a \in Action : /\ act'[a].run = act[a].run /\ act'[a].auto = act[a].auto
                           /\ \/ act'[a] = act[a] /\ act[a].st # "executing"
                              \/ act[a].st = "executing" /\ act'[a].st = "interrupted"
                              \/ act[a].st = "proposed" /\ act'[a].st = "superseded"
  BY CrashMoves
<1>3. \A r \in Run : run'[r].issue = run[r].issue /\ (run'[r].st = "none" <=> run[r].st = "none")
  BY <1>2 DEF Live, Parked
<1>4. HandsOK' /\ DecidersOK' /\ PassOK'
  <2>1. IdleWorker \in WorkerRow /\ IdleDecider \in DeciderRow
    BY DEF IdleWorker, IdleDecider, WorkerRow, DeciderRow
  <2>2. jobs' \in Seq(JobRow) /\ Len(jobs') <= QueueCap
    BY <1>1, Bounds
  <2>3. gen' \in 0 .. MaxCrash
    BY <1>1, Bounds DEF Inv, PassOK
  <2>4. QED
    BY <1>1, <2>1, <2>2, <2>3 DEF Inv, HandsOK, DecidersOK, PassOK
<1>5. Links'
  <2>1. \A r \in Run : run'[r].steps <= MaxSteps
    BY <1>2, Bounds DEF Inv, Links
  <2>2. QED
    BY <1>2, <1>3, <2>1 DEF Inv, Links
<1>6. ASSUME NEW i \in Issue PROVE SeatedRight(i)'
  <2>1. SeatedRight(i)
    BY DEF Inv, ClaimInv
  <2>2. ASSUME NEW r \in Seated(i)'
        PROVE  r \in Run /\ r \in Seated(i) /\ run'[r] = run[r] /\ issue'[i] = issue[i]
    <3>1. r \in Run /\ run'[r].issue = i /\ run'[r].st \in Seats
      BY DEF Seated
    <3>2. run'[r] = run[r] /\ run'[r].st \in Live
      BY <1>2, <3>1 DEF Seats, Parked, Live
    <3>3. QED
      BY <1>2, <3>1, <3>2 DEF Seated
  <2>3. ASSUME NEW r \in Run, r \in Seated(i)' PROVE SeatFits(i, r)'
    <3>1. SeatFits(i, r) /\ run'[r] = run[r] /\ issue'[i] = issue[i]
      BY <2>1, <2>2, <2>3 DEF SeatedRight
    <3>2. QED
      BY <3>1 DEF SeatFits, Unseen
  <2>4. ASSUME issue'[i].claim # NoRun
        PROVE  /\ issue'[i].claim \in Seated(i)'
               /\ run'[issue'[i].claim].st = "running" /\ issue'[i].st = "investigating"
    <3>1. issue'[i] = issue[i]
      BY <1>2, <2>4
    <3>2. PICK c \in Run : c = issue[i].claim /\ run[c].issue = i /\ run[c].st = "running"
                           /\ issue[i].st = "investigating"
      BY <2>1, <2>4, <3>1 DEF SeatedRight, Seated
    <3>3. run'[c] = run[c]
      BY <1>2, <3>1, <3>2
    <3>4. QED
      BY <3>1, <3>2, <3>3 DEF Seated, Seats
  <2>5. ASSUME issue'[i].st = "closed"
        PROVE  /\ \A r \in Run : run'[r].issue = i => run'[r].st \notin Live
               /\ ~HasAct(i, {"proposed"})'
    <3>1. issue[i].st = "closed"
      BY <1>2, <2>5
    <3>2. \A r \in Run : run[r].issue = i => run[r].st \notin Live
      BY <2>1, <3>1 DEF SeatedRight
    <3>3. \A r \in Run : run'[r].issue = i => run'[r].st \notin Live
      BY <1>2, <3>2
    <3>4. ~HasAct(i, {"proposed"})
      BY <2>1, <3>1 DEF SeatedRight
    <3>5. ASSUME NEW a \in Action, act'[a].st = "proposed", run'[act'[a].run].issue = i PROVE FALSE
      <4>1. act[a].st = "proposed" /\ act'[a].run = act[a].run
        BY <1>2, <3>5
      <4>2. act[a].run \in Run
        BY <4>1 DEF Inv, Links
      <4>3. IssueOf(a) = i
        BY <1>3, <3>5, <4>1, <4>2 DEF IssueOf
      <4>4. QED
        BY <3>4, <4>1, <4>3 DEF HasAct, ActsOf
    <3>6. ~HasAct(i, {"proposed"})'
      BY <3>5 DEF HasAct, ActsOf, IssueOf
    <3>7. QED
      BY <3>3, <3>6
  <2>6. \A r, q \in Seated(i)' : r = q
    BY <2>1, <2>2 DEF SeatedRight
  <2>7. \A r \in Seated(i)' : SeatFits(i, r)'
    BY <2>2, <2>3
  <2>8. QED
    BY <2>4, <2>5, <2>6, <2>7 DEF SeatedRight
<1>7. Hands'
  BY <1>1 DEF Hands, IdleWorker, InHand
<1>8. Ledger'
  <2>1. \A a \in Action : act'[a].st \in {"none", "proposed"} => act[a].st \in {"none", "proposed"}
    BY <1>2
  <2>2. QED
    BY <1>1, <2>1 DEF Inv, Ledger, IdleDecider, Deciding
<1>9. QED
  BY <1>1, <1>2, <1>4, <1>5, <1>6, <1>7, <1>8 DEF Inv, ClaimInv, Handing

\* A step of recovery keeps the invariant.
LEMMA RecoveryKeeps ==
    ASSUME Inv, RecStep
    PROVE  Inv'
BY RecPassKeeps, RecStageKeeps DEF RecStep

-----------------------------------------------------------------------------
(* The invariant                                                           *)

\* At the start nothing is claimed, proposed or in hand.
LEMMA InitOK == Init => Inv
<1> SUFFICES ASSUME Init PROVE Inv
  OBVIOUS
<1>1. /\ issue \in [Issue -> [st : {"tracking", "open"}, claim : {NoRun}, reopened : {FALSE}, msgs : {0}]]
      /\ run = [r \in Run |-> [issue |-> NoIssue, st |-> "none", gen |-> 0, seen |-> 0, steps |-> 0]]
      /\ act = [a \in Action |-> [run |-> NoRun, st |-> "none", auto |-> FALSE]]
      /\ rule \in {"active", "paused"}
      /\ effect = [a \in Action |-> 0] /\ jobs = <<>> /\ todo = {} /\ gen = 0 /\ fault = 0
      /\ worker = [w \in Worker |-> IdleWorker]
      /\ decider = [d \in Decider |-> IdleDecider]
  BY DEF Init
<1>2. RowsOK
  <2>1. [st : {"tracking", "open"}, claim : {NoRun}, reopened : {FALSE}, msgs : {0}] \subseteq IssueRow
    <3>1. 0 \in 0 .. MaxMsg /\ {"tracking", "open"} \subseteq IssueStatus
      BY Bounds DEF IssueStatus
    <3>2. QED
      BY <3>1 DEF IssueRow
  <2>2. [issue |-> NoIssue, st |-> "none", gen |-> 0, seen |-> 0, steps |-> 0] \in RunRow
    BY Bounds DEF RunRow, RunStatus
  <2>3. [run |-> NoRun, st |-> "none", auto |-> FALSE] \in ActRow
    BY DEF ActRow, ActionStatus
  <2>4. QED
    BY <1>1, <2>1, <2>2, <2>3 DEF RowsOK
<1>3. HandsOK /\ DecidersOK /\ PassOK
  <2>1. IdleWorker \in WorkerRow /\ IdleDecider \in DeciderRow
    BY DEF IdleWorker, IdleDecider, WorkerRow, DeciderRow
  <2>2. QED
    BY <1>1, <2>1, Bounds DEF HandsOK, DecidersOK, PassOK
<1>4. Links
  BY <1>1, Bounds DEF Links
<1>5. ClaimInv
  <2>1. ASSUME NEW i \in Issue PROVE SeatedRight(i)
    <3>1. issue[i].claim = NoRun /\ issue[i].st # "closed"
      BY <1>1
    <3>2. \A r \in Seated(i) : FALSE
      BY <1>1 DEF Seated, Seats, Parked
    <3>3. QED
      BY <3>1, <3>2 DEF SeatedRight
  <2>2. QED
    BY <2>1 DEF ClaimInv
<1>6. Hands /\ Ledger /\ Handing
  BY <1>1 DEF Hands, Ledger, Handing, IdleWorker, IdleDecider, InHand, Deciding
<1>7. QED
  BY <1>2, <1>3, <1>4, <1>5, <1>6 DEF Inv

\* Every step keeps the invariant.
LEMMA NextKeeps ==
    ASSUME Inv, Next
    PROVE  Inv'
BY WorkerKeeps, TooLateKeeps, RecoveryKeeps, ReplyKeeps, HumanCloseKeeps,
   ReopenKeeps, ObserveKeeps, SetRuleKeeps, CrashKeeps, DeciderKeeps DEF Next

\* A stuttering step keeps the invariant.
LEMMA StutterKeeps ==
    ASSUME Inv, UNCHANGED vars
    PROVE  Inv'
BY DEF Inv, vars, RowsOK, HandsOK, DecidersOK, PassOK, Links, ClaimInv, SeatedRight,
       Seated, SeatFits, Unseen, HasAct, ActsOf, IssueOf, Hands, Ledger, Handing

\* The invariant holds in every state the system reaches.
THEOREM InvHolds == Spec => []Inv
<1>1. Inv /\ [Next]_vars => Inv'
  BY NextKeeps, StutterKeeps
<1>2. QED
  BY InitOK, <1>1, PTL DEF Spec

-----------------------------------------------------------------------------
(* What the runs check                                                     *)

\* Every variable keeps its type, and the queue its capacity.
THEOREM TypeCorrect == Spec => []TypeOK
<1>1. Inv => TypeOK
  BY TypeParts DEF Inv
<1>2. QED
  BY InvHolds, <1>1, PTL

\* active_run_id is the mutual exclusion of the runs of an issue: a claim
\* names a running run, and an issue has one at most (claim, claimResume).
THEOREM ClaimHolds == Spec => []ClaimExcludes
<1>1. Inv => ClaimExcludes
  <2>1. SUFFICES ASSUME ClaimInv, NEW i \in Issue
                 PROVE  LET running == {r \in Run : run[r].issue = i /\ run[r].st = "running"}
                        IN /\ issue[i].claim # NoRun =>
                                issue[i].claim \in running /\ issue[i].st = "investigating"
                           /\ \A r, q \in running : r = q
    BY DEF Inv, ClaimExcludes
  <2>2. SeatedRight(i)
    BY <2>1 DEF ClaimInv
  <2>3. QED
    BY <2>2 DEF SeatedRight, Seated, Seats
<1>2. QED
  BY InvHolds, <1>1, PTL

\* A closed issue has no live run and no proposal left to approve
\* (concludeIssueAggregate, the boot repairs).
THEOREM ClosedHolds == Spec => []ClosedIsQuiet
<1>1. Inv => ClosedIsQuiet
  BY DEF Inv, ClaimInv, SeatedRight, ClosedIsQuiet
<1>2. QED
  BY InvHolds, <1>1, PTL

-----------------------------------------------------------------------------
(* What steps may do to a fix                                              *)

Bad == {"failed"} \union Unverified

FixStep ==
    /\ [Intent!Next]_(Intent!vars)
    /\ \A a \in Action : act[a].st = "executing" /\ act[a].auto /\ act'[a].st \in Bad
                         => rule' = "paused"
    /\ \A a \in Action : act[a].st = "proposed" /\ act'[a].st = "executing"
                         => ~Unseen(IssueOf(a), act[a].run)

\* Fixes that are withdrawn or left unverified, any number at a time.
LEMMA WithdrawnStep ==
    ASSUME RowsOK, RowsOK', effect' = effect,
           \A a \in Action : \/ act'[a].st = act[a].st
                             \/ act[a].st = "proposed" /\ act'[a].st = "superseded"
                             \/ /\ act[a].st = "executing" /\ act'[a].st = "interrupted"
                                /\ act[a].auto => rule' = "paused"
                             \/ act[a].st = "interrupted" /\ act'[a].st = "unknown"
    PROVE  FixStep
<1>1. \A a \in Action : act'[a].st \in ActionStatus
  BY DEF RowsOK, ActRow
<1>2. Intent!Withdraw
  BY <1>1 DEF Intent!Withdraw, ActionStatus
<1>3. QED
  BY <1>2 DEF FixStep, Intent!Next, Bad, Unverified

\* A step that does nothing to fixes but withdraw some.
Withdraws == act' = act \/ \E S : act' = Superseded(S)

\* Such a step obeys the ledger.
LEMMA WithdrawsStep ==
    ASSUME RowsOK, RowsOK', effect' = effect, Withdraws
    PROVE  FixStep
<1>1. \A a \in Action : \/ act'[a].st = act[a].st
                        \/ act[a].st = "proposed" /\ act'[a].st = "superseded"
  BY SupersededIs DEF Withdraws, RowsOK
<1>2. QED
  BY <1>1, WithdrawnStep

\* One fix moves.
LEMMA OneFixStep ==
    ASSUME RowsOK, RowsOK', effect' = effect, NEW a \in Action,
           \A b \in Action : b # a => act'[b].st = act[b].st,
           \/ act[a].st = "none" /\ act'[a].st = "proposed"
           \/ act[a].st = "proposed" /\ act'[a].st = "denied"
           \/ /\ act[a].st = "proposed" /\ act'[a].st = "executing"
              /\ ~Unseen(IssueOf(a), act[a].run)
           \/ /\ act[a].st = "executing"
              /\ \/ act'[a].st = "executed" /\ effect[a] = 1
                 \/ act'[a].st = "superseded" /\ effect[a] = 0
                 \/ /\ \/ act'[a].st = "failed" /\ effect[a] = 0
                       \/ act'[a].st = "unknown"
                    /\ act[a].auto => rule' = "paused"
    PROVE  FixStep
<1>1. PICK st : st = act'[a].st
  OBVIOUS
<1>2. [b \in Action |-> act[b].st]' = [[b \in Action |-> act[b].st] EXCEPT ![a] = st]
  BY <1>1
<1>3. Intent!Propose(a) \/ Intent!Decide(a) \/ Intent!Record(a)
  BY <1>1, <1>2 DEF Intent!Propose, Intent!Decide, Intent!Record
<1>4. QED
  BY <1>3 DEF FixStep, Intent!Next, Bad, Unverified

\* What takes an issue over, ends or hands over its run only withdraws.
LEMMA MovesWithdraw ==
    /\ \A i \in Issue : TakenOver(i) \/ ObservationNeedsAdmin(i) \/ CloseRecovered(i) => Withdraws
    /\ \A i \in Issue, r \in Run : GiveUp(i, r) \/ ParkForReview(i, r) \/ AbortClaim(i, r) => Withdraws
    /\ \A i \in Issue : GiveUpUnclaimed(i) => Withdraws
    /\ \A i \in Issue : \A kind, by : Close(i, kind, by) => Withdraws
<1>1. UNCHANGED db => Withdraws
  BY DEF db, Withdraws
<1>2. \A i \in Issue : \A kind, by : Close(i, kind, by) => Withdraws
  BY DEF Close, Withdraws
<1>3. \A i \in Issue : TakenOver(i) \/ ObservationNeedsAdmin(i) \/ CloseRecovered(i) => Withdraws
  BY <1>1, <1>2 DEF TakenOver, Suspend, ObservationNeedsAdmin, CloseRecovered, Withdraws
<1>4. \A i \in Issue, r \in Run : GiveUp(i, r) \/ ParkForReview(i, r) \/ AbortClaim(i, r) => Withdraws
  BY <1>1 DEF GiveUp, ParkForReview, AbortClaim, HandOver, Withdraws
<1>5. \A i \in Issue : GiveUpUnclaimed(i) => Withdraws
  BY <1>1 DEF GiveUpUnclaimed, Withdraws
<1>6. QED
  BY <1>2, <1>3, <1>4, <1>5

\* A worker proposes a fix or withdraws some.
LEMMA WorkerFixes ==
    ASSUME Inv, Inv', NEW w \in Worker, WorkerStep(w)
    PROVE  FixStep
<1>1. effect' = effect
  BY DEF WorkerStep, Take, ResumeClosed, Preflight, Claim, Reclaim, Recheck, FirstTurn, Think,
         Propose, Ask, Conclude, Park, KeepWorker
<1>2. PICK i, r : i = worker[w].issue /\ r = worker[w].run
  OBVIOUS
<1>3. UNCHANGED db => Withdraws
  BY DEF db, Withdraws
<1>4. worker[w].pc # "idle" => i \in Issue /\ (worker[w].pc \in InHand => r \in Run)
  BY <1>2, WorkerHas
<1>5. CASE Take(w) \/ ResumeClosed(w) \/ Preflight(w) \/ Claim(w) \/ Reclaim(w)
  <2>1. CASE Take(w) \/ ResumeClosed(w)
    BY <1>3, <2>1, <1>1, WithdrawsStep DEF Take, ResumeClosed, Withdraws, Inv
  <2>2. CASE Preflight(w)
    <3>1. i \in Issue
      BY <1>4, <2>2 DEF Preflight, At
    <3>2. TakenOver(i) \/ ObservationNeedsAdmin(i) \/ UNCHANGED db
      BY <1>2, <2>2 DEF Preflight
    <3>3. QED
      BY <1>1, <1>3, <3>1, <3>2, MovesWithdraw, WithdrawsStep DEF Inv
  <2>3. CASE Claim(w)
    <3>1. i \in Issue
      BY <1>4, <2>3 DEF Claim, At
    <3>2. GiveUpUnclaimed(i) \/ UNCHANGED db \/ act' = act
      BY <1>2, <2>3 DEF Claim
    <3>3. QED
      BY <1>1, <1>3, <3>1, <3>2, MovesWithdraw, WithdrawsStep DEF Inv, Withdraws
  <2>4. CASE Reclaim(w)
    <3>1. UNCHANGED db \/ act' = act
      BY <1>2, <2>4 DEF Reclaim
    <3>2. QED
      BY <1>1, <1>3, <3>1, WithdrawsStep DEF Inv, Withdraws
  <2>5. QED
    BY <1>5, <2>1, <2>2, <2>3, <2>4
<1>6. CASE Recheck(w) \/ FirstTurn(w) \/ Think(w) \/ Ask(w) \/ Conclude(w) \/ Park(w)
  <2>1. i \in Issue /\ r \in Run
    BY <1>4, <1>6 DEF Recheck, FirstTurn, Think, Ask, Conclude, Park, At, InHand
  <2>2. \A more \in {0, 1} : Turn(w, more) => GiveUp(i, r) \/ act' = act
    BY <1>2 DEF Turn
  <2>3. CASE Recheck(w)
    <3>1. TakenOver(i) \/ AbortClaim(i, r) \/ UNCHANGED db
      BY <1>2, <2>3 DEF Recheck
    <3>2. QED
      BY <1>1, <1>3, <2>1, <3>1, MovesWithdraw, WithdrawsStep DEF Inv
  <2>4. CASE FirstTurn(w) \/ Think(w) \/ Ask(w)
    <3>1. GiveUp(i, r) \/ act' = act
      BY <1>2, <2>2, <2>4 DEF FirstTurn, Think, Ask, db
    <3>2. QED
      BY <1>1, <2>1, <3>1, MovesWithdraw, WithdrawsStep DEF Inv, Withdraws
  <2>5. CASE Conclude(w)
    <3>1. GiveUp(i, r) \/ ParkForReview(i, r) \/ Close(i, "cleared", r)
      BY <1>2, <2>5 DEF Conclude
    <3>2. QED
      BY <1>1, <2>1, <3>1, MovesWithdraw, WithdrawsStep DEF Inv
  <2>6. CASE Park(w)
    <3>1. GiveUp(i, r) \/ act' = act \/ act' = Superseded({a \in Action : act[a].run = r})
      BY <1>2, <2>6 DEF Park, db
    <3>2. QED
      BY <1>1, <2>1, <3>1, MovesWithdraw, WithdrawsStep DEF Inv, Withdraws
  <2>7. QED
    BY <1>6, <2>3, <2>4, <2>5, <2>6
<1>7. CASE Propose(w)
  <2>1. PICK a : a = Oldest(FreeAction)
    OBVIOUS
  <2>2. /\ FreeAction # {}
        /\ act' = [act EXCEPT ![a] = [run |-> r, st |-> "proposed", auto |-> FALSE]]
    BY <1>2, <1>7, <2>1 DEF Propose
  <2>3. a \in Action /\ act[a].st = "none"
    <3>1. FreeAction \in SUBSET Action
      BY DEF FreeAction
    <3>2. a \in FreeAction
      BY <2>1, <2>2, <3>1, PickedRows
    <3>3. QED
      BY <3>2 DEF FreeAction
  <2>4. act'[a].st = "proposed" /\ \A b \in Action : b # a => act'[b].st = act[b].st
    BY <2>2, <2>3 DEF Inv, RowsOK
  <2>5. QED
    BY <1>1, <2>3, <2>4, OneFixStep DEF Inv
<1>8. QED
  BY <1>5, <1>6, <1>7 DEF WorkerStep

\* A decision moves its own fix and withdraws others.
LEMMA DeciderFixes ==
    ASSUME Inv, Inv', NEW d \in Decider, Approve(d) \/ Deny(d) \/ DeciderStep(d)
    PROVE  FixStep
<1>1. PICK a : a = decider[d].act
  OBVIOUS
<1>2. PICK i : i = IssueOf(a)
  OBVIOUS
<1>3. decider[d].pc # "idle" => a \in Action /\ i \in Issue
  BY <1>1, <1>2, DeciderHas
<1>4. UNCHANGED db => Withdraws
  BY DEF db, Withdraws
<1>5. CASE Approve(d) \/ Stage(d)
  BY <1>5, WithdrawsStep DEF Approve, Stage, db, Withdraws, Inv
<1>6. CASE Deny(d)
  <2>1. PICK b \in Action : Decidable(b) /\ SetAct(b, "denied")
    BY <1>6 DEF Deny
  <2>2. act[b].st = "proposed"
    BY <2>1 DEF Decidable
  <2>3. act'[b].st = "denied" /\ \A c \in Action : c # b => act'[c].st = act[c].st
    BY <2>1 DEF SetAct, Inv, RowsOK, ActRow
  <2>4. effect' = effect
    BY <1>6 DEF Deny
  <2>5. QED
    BY <2>2, <2>3, <2>4, OneFixStep DEF Inv
<1>7. CASE PreflightDecision(d) \/ CloseAfterCancel(d)
  <2>1. i \in Issue /\ effect' = effect
    BY <1>3, <1>7 DEF PreflightDecision, CloseAfterCancel, On
  <2>2. TakenOver(i) \/ UNCHANGED db \/ ObservationNeedsAdmin(i) \/ CloseRecovered(i)
    BY <1>1, <1>2, <1>7 DEF PreflightDecision, CloseAfterCancel
  <2>3. QED
    BY <1>4, <2>1, <2>2, MovesWithdraw, WithdrawsStep DEF Inv
<1>8. CASE ClaimAction(d)
  <2>1. a \in Action /\ i \in Issue /\ effect' = effect
    BY <1>3, <1>8 DEF ClaimAction, On
  <2>2. CASE ~Decidable(a)
    <3>1. act' = Superseded({a})
      BY <1>1, <1>8, <2>2 DEF ClaimAction
    <3>2. QED
      BY <2>1, <3>1, WithdrawsStep DEF Inv, Withdraws
  <2>3. CASE Decidable(a)
    <3>1. act' = [act EXCEPT ![a].st = "executing", ![a].auto = decider[d].auto]
      BY <1>1, <1>8, <2>3 DEF ClaimAction
    <3>2. act'[a].st = "executing" /\ \A c \in Action : c # a => act'[c].st = act[c].st
      BY <2>1, <3>1 DEF Inv, RowsOK, ActRow
    <3>3. /\ act[a].st = "proposed" /\ issue[i].st = "awaiting_approval"
          /\ run[act[a].run].st = "waiting_approval"
      BY <1>2, <2>3 DEF Decidable, GateActive
    <3>4. act[a].run \in Run /\ run[act[a].run].issue = i
      BY <1>2, <2>1, <3>3 DEF Inv, Links, IssueOf
    <3>5. SeatFits(i, act[a].run)
      <4>1. act[a].run \in Seated(i)
        BY <3>3, <3>4 DEF Seated, Seats, Parked
      <4>2. QED
        BY <2>1, <4>1 DEF Inv, ClaimInv, SeatedRight
    <3>6. ~Unseen(IssueOf(a), act[a].run)
      BY <1>2, <3>3, <3>5 DEF SeatFits
    <3>7. QED
      BY <2>1, <3>2, <3>3, <3>6, OneFixStep DEF Inv
  <2>4. QED
    BY <2>2, <2>3
<1>9. CASE CancelClaim(d)
  <2>1. a \in Action /\ effect' = effect /\ act[a].st = "executing" /\ effect[a] = 0
    BY <1>1, <1>3, <1>9 DEF CancelClaim, On, Inv, Ledger, Deciding
  <2>2. \/ SetAct(a, "superseded")
        \/ SetAct(a, "failed") /\ rule' = Disarmed(act[a].auto)
        \/ UNCHANGED db
    BY <1>1, <1>9 DEF CancelClaim
  <2>3. CASE UNCHANGED db
    BY <1>4, <2>1, <2>3, WithdrawsStep DEF Inv
  <2>4. CASE SetAct(a, "superseded")
    <3>1. act'[a].st = "superseded" /\ \A c \in Action : c # a => act'[c].st = act[c].st
      BY <2>1, <2>4 DEF SetAct, Inv, RowsOK, ActRow
    <3>2. QED
      BY <2>1, <3>1, OneFixStep DEF Inv
  <2>5. CASE SetAct(a, "failed") /\ rule' = Disarmed(act[a].auto)
    <3>1. act'[a].st = "failed" /\ \A c \in Action : c # a => act'[c].st = act[c].st
      BY <2>1, <2>5 DEF SetAct, Inv, RowsOK, ActRow
    <3>2. act[a].auto => rule' = "paused"
      BY <2>5 DEF Disarmed
    <3>3. QED
      BY <2>1, <3>1, <3>2, OneFixStep DEF Inv
  <2>6. QED
    BY <2>2, <2>3, <2>4, <2>5
<1>10. CASE Dispatch(d)
  <2>1. /\ a \in Action /\ act[a].st = "executing" /\ effect[a] = 0
        /\ act' = act
    BY <1>1, <1>3, <1>10 DEF Dispatch, On, Inv, Ledger, Deciding, db
  <2>2. PICK n \in {0, 1} : effect' = [effect EXCEPT ![a] = @ + n]
    BY <1>1, <1>10 DEF Dispatch
  <2>3. CASE n = 0
    <3>1. effect' = effect
      BY <2>1, <2>2, <2>3 DEF Inv, DecidersOK
    <3>2. QED
      BY <2>1, <3>1, WithdrawsStep DEF Inv, Withdraws
  <2>4. CASE n = 1
    <3>1. effect' = [effect EXCEPT ![a] = 1]
      BY <2>1, <2>2, <2>4 DEF Inv, DecidersOK
    <3>2. Intent!Send(a)
      BY <2>1, <3>1 DEF Intent!Send
    <3>3. QED
      BY <2>1, <3>2 DEF FixStep, Intent!Next, Bad, Unverified
  <2>5. QED
    BY <2>3, <2>4
<1>11. CASE Settle(d)
  <2>1. a \in Action /\ effect' = effect /\ act[a].st = "executing"
    BY <1>1, <1>3, <1>11 DEF Settle, On, Inv, Ledger, Deciding
  <2>2. PICK out : out = decider[d].out
    OBVIOUS
  <2>3. \/ /\ out # "unknown" /\ SetAct(a, out)
           /\ rule' = Disarmed(act[a].auto /\ out = "failed")
        \/ MarkUnknown(a, TRUE)
        \/ UNCHANGED db
    BY <1>1, <1>11, <2>2 DEF Settle
  <2>4. CASE UNCHANGED db
    BY <1>4, <2>1, <2>4, WithdrawsStep DEF Inv
  <2>5. CASE MarkUnknown(a, TRUE)
    <3>1. SetAct(a, "unknown") /\ rule' = Disarmed(TRUE /\ act[a].auto)
      BY <2>5 DEF MarkUnknown
    <3>2. act'[a].st = "unknown" /\ \A c \in Action : c # a => act'[c].st = act[c].st
      BY <2>1, <3>1 DEF SetAct, Inv, RowsOK, ActRow
    <3>3. act[a].auto => rule' = "paused"
      BY <3>1 DEF Disarmed
    <3>4. QED
      BY <2>1, <3>2, <3>3, OneFixStep DEF Inv
  <2>6. CASE /\ out # "unknown" /\ SetAct(a, out)
             /\ rule' = Disarmed(act[a].auto /\ out = "failed")
    <3>1. /\ out \in {"executed", "failed"}
          /\ out = "executed" => effect[a] = 1
          /\ out = "failed" => effect[a] = 0
      <4>1. out \in {"none", "executed", "failed", "unknown"}
        BY <2>2 DEF Inv, DecidersOK, DeciderRow
      <4>2. decider[d].pc = "settle"
        BY <1>11 DEF Settle, On
      <4>3. QED
        BY <1>1, <2>2, <2>6, <4>1, <4>2 DEF Inv, Ledger
    <3>2. act'[a].st = out /\ \A c \in Action : c # a => act'[c].st = act[c].st
      BY <2>1, <2>6 DEF SetAct, Inv, RowsOK, ActRow
    <3>3. act[a].auto /\ out = "failed" => rule' = "paused"
      BY <2>6 DEF Disarmed
    <3>4. QED
      BY <2>1, <3>1, <3>2, <3>3, OneFixStep DEF Inv
  <2>7. QED
    BY <2>3, <2>4, <2>5, <2>6
<1>12. QED
  BY <1>5, <1>6, <1>7, <1>8, <1>9, <1>10, <1>11 DEF DeciderStep

\* Recovery, humans and the observation sweep only withdraw.
LEMMA OtherFixes ==
    ASSUME Inv, Inv',
           RecStep \/ SetRule \/ \E i \in Issue : Reply(i) \/ HumanClose(i) \/ Reopen(i) \/ Observe(i)
    PROVE  FixStep
<1>1. CASE RecStep \/ SetRule
  BY <1>1, WithdrawsStep DEF RecStep, RecPass, RecStage, KeepRec, SetRule, KeepEnv, Withdraws, Inv
<1>2. CASE \E i \in Issue : Reply(i) \/ HumanClose(i) \/ Reopen(i) \/ Observe(i)
  <2>1. PICK i \in Issue : Reply(i) \/ HumanClose(i) \/ Reopen(i) \/ Observe(i)
    BY <1>2
  <2>2. effect' = effect
    BY <2>1 DEF Reply, HumanClose, Reopen, Observe, KeepEnv
  <2>3. Withdraws
    <3>1. CASE Reply(i)
      BY <3>1 DEF Reply, Withdraws
    <3>2. CASE HumanClose(i)
      BY <3>2, MovesWithdraw DEF HumanClose
    <3>3. CASE Reopen(i)
      BY <3>3 DEF Reopen, Withdraws
    <3>4. CASE Observe(i)
      <4>1. \/ TakenOver(i) \/ ObservationNeedsAdmin(i)
            \/ Close(i, "cleared", NoRun) \/ act' = act
        BY <3>4 DEF Observe, TakenOver
      <4>2. QED
        BY <4>1, MovesWithdraw DEF Withdraws
    <3>5. QED
      BY <2>1, <3>1, <3>2, <3>3, <3>4
  <2>4. QED
    BY <2>2, <2>3, WithdrawsStep DEF Inv
<1>3. QED
  BY <1>1, <1>2

\* A decision that comes too late, and a crash.
LEMMA LeftFixes ==
    ASSUME Inv, Inv', Crash \/ \E a \in Action : DecideTooLate(a)
    PROVE  FixStep
<1>1. CASE Crash
  <2>1. /\ effect' = effect
        /\ rule' = Disarmed(\E a \in Action : act[a].st = "executing" /\ act[a].auto)
        /\ \A a \in Action : \/ act'[a] = act[a] /\ act[a].st # "executing"
                             \/ act[a].st = "executing" /\ act'[a].st = "interrupted"
                             \/ act[a].st = "proposed" /\ act'[a].st = "superseded"
    BY <1>1, CrashMoves DEF Crash
  <2>2. \A a \in Action : act[a].st = "executing" /\ act[a].auto => rule' = "paused"
    BY <2>1 DEF Disarmed
  <2>3. QED
    BY <2>1, <2>2, WithdrawnStep DEF Inv
<1>2. CASE \E a \in Action : DecideTooLate(a)
  <2>1. PICK a \in Action : DecideTooLate(a)
    BY <1>2
  <2>2. /\ effect' = effect
        /\ \/ act[a].st = "proposed" /\ SetAct(a, "superseded")
           \/ act[a].st \in Unverified /\ SetAct(a, "unknown")
    BY <2>1 DEF DecideTooLate, MarkUnknown
  <2>3. \A b \in Action : \/ act'[b].st = act[b].st
                          \/ act[b].st = "proposed" /\ act'[b].st = "superseded"
                          \/ act[b].st = "interrupted" /\ act'[b].st = "unknown"
    BY <2>2 DEF SetAct, Unverified, Inv, RowsOK, ActRow
  <2>4. QED
    BY <2>2, <2>3, WithdrawnStep DEF Inv
<1>3. QED
  BY <1>1, <1>2

\* Every step moves fixes as the ledger allows, disarms the rule on a bad
\* outcome and approves only what was read.
LEMMA StepFixes ==
    ASSUME Inv, [Next]_vars
    PROVE  FixStep
<1>1. CASE Next
  <2>1. Inv'
    BY <1>1, NextKeeps
  <2>2. QED
    BY <1>1, <2>1, WorkerFixes, DeciderFixes, OtherFixes, LeftFixes DEF Next
<1>2. CASE UNCHANGED vars
  <2>1. Inv' /\ Withdraws /\ effect' = effect
    BY <1>2, StutterKeeps DEF vars, Withdraws
  <2>2. QED
    BY <2>1, WithdrawsStep DEF Inv
<1>3. QED
  BY <1>1, <1>2

\* A proposal is approved only if the run that made it had read every human
\* message on the issue (parkWith, PostReply).
THEOREM ReadHolds == Spec => ApprovedAfterReading
<1>1. Inv /\ [Next]_vars =>
        [\A a \in Action : act[a].st = "proposed" /\ act'[a].st = "executing"
            => ~Unseen(IssueOf(a), act[a].run)]_vars
  BY StepFixes DEF FixStep
<1>2. QED
  BY InvHolds, <1>1, PTL DEF Spec, ApprovedAfterReading

\* The step that makes a bad outcome of an automatic approval durable leaves
\* the rule disarmed, a restart included (pauseRuleForFailureTx, db.go).
THEOREM DisarmsHold == Spec => BadOutcomeDisarms
<1>1. Inv /\ [Next]_vars =>
        [\A a \in Action : act[a].st = "executing" /\ act[a].auto
                           /\ act'[a].st \in {"failed"} \union Unverified
            => rule' = "paused"]_vars
  BY StepFixes DEF FixStep, Bad
<1>2. QED
  BY InvHolds, <1>1, PTL DEF Spec, BadOutcomeDisarms

\* Every fix obeys its ledger: decided once, sent at most once and only under
\* that decision, its outcome never turned into another (approveAction).
THEOREM LedgerImplemented == Spec => ImplementsLedger
<1>1. Init => Intent!Init
  BY DEF Init, Intent!Init
<1>2. Inv /\ [Next]_vars => [Intent!Next]_(Intent!vars)
  BY StepFixes DEF FixStep
<1>3. QED
  BY InvHolds, <1>1, <1>2, PTL DEF Spec, ImplementsLedger, Intent!Spec

=============================================================================
