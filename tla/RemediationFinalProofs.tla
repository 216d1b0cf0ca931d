---------------------- MODULE RemediationFinalProofs ----------------------
(***************************************************************************)
(* What may become of an issue once the outcome of one of its fixes is     *)
(* unverified, proved for every number of issues, runs, actions, workers   *)
(* and deciders.                                                           *)
(***************************************************************************)
EXTENDS RemediationProofs

\* A second fix of the issue is cancelled while it executes.
Excused(i) == \E a \in ActsOf(i) : act[a].st = "executing" /\ act'[a].st = "superseded"

\* What UnknownStays says of one step.
UnknownStep ==
  \A i \in Issue : HasAct(i, Unverified)' /\ ~Rests(i)' =>
                     HasAct(i, Unverified) /\ (Rests(i) => Excused(i))

\* An outcome that is unverified after the step was before, or the step puts
\* its issue to rest.
Traced == \A a \in Action : act'[a].st \in Unverified =>
    /\ act[a].st # "none" /\ act'[a].run = act[a].run
    /\ act[a].st \in Unverified \/ Rests(IssueOf(a))'

\* No outcome becomes unverified.
Calm == \A a \in Action : act'[a].st \in Unverified =>
    act[a].st \in Unverified /\ act'[a].run = act[a].run

\* Runs keep their issue.
RunsStay == \A r \in Run : run[r].st # "none" => run'[r].issue = run[r].issue

RestsStay == \A i \in Issue : Rests(i) => Rests(i)' \/ Excused(i)

-----------------------------------------------------------------------------
(* What is left to show of a step                                          *)

\* A step is as UnknownStays says if it traces every unverified outcome and
\* wakes no issue.
LEMMA TracedStays ==
    ASSUME Links, RunsStay, Traced, RestsStay
    PROVE  UnknownStep
<1>1. SUFFICES ASSUME NEW i \in Issue, HasAct(i, Unverified)', ~Rests(i)'
               PROVE  HasAct(i, Unverified) /\ (Rests(i) => Excused(i))
  BY DEF UnknownStep
<1>2. PICK a \in Action : /\ act'[a].st \in Unverified
                          /\ run'[act'[a].run].issue = i
  BY <1>1 DEF HasAct, ActsOf, IssueOf
<1>3. act[a].st # "none" /\ act'[a].run = act[a].run
  BY <1>2 DEF Traced
<1>4. run[act[a].run].issue = i
  BY <1>2, <1>3 DEF Links, RunsStay
<1>5. IssueOf(a)' = i /\ a \in ActsOf(i)
  BY <1>2, <1>3, <1>4 DEF IssueOf, ActsOf
<1>6. act[a].st \in Unverified
  BY <1>1, <1>2, <1>5 DEF Traced
<1>7. HasAct(i, Unverified)
  BY <1>5, <1>6 DEF HasAct
<1>8. QED
  BY <1>1, <1>7 DEF RestsStay

\* A step that makes no outcome unverified and changes one issue at most.
LEMMA CalmStays ==
    ASSUME Links, RunsStay, Calm, NEW i \in Issue,
           \A j \in Issue : j # i => issue'[j] = issue[j],
           Rests(i) => Rests(i)' \/ Excused(i)
    PROVE  UnknownStep
<1>1. Traced
  BY DEF Calm, Traced, Unverified
<1>2. RestsStay
  BY DEF RestsStay, Rests
<1>3. QED
  BY <1>1, <1>2, TracedStays

\* A step that leaves every issue alone and makes no outcome unverified.
LEMMA IssuesKept ==
    ASSUME Links, RunsStay, Calm, issue' = issue
    PROVE  UnknownStep
<1>1. RestsStay
  BY DEF RestsStay, Rests
<1>2. Traced
  BY DEF Calm, Traced, Unverified
<1>3. QED
  BY <1>1, <1>2, TracedStays

\* Rows that stay.
LEMMA RowsKept ==
    ASSUME Links, UNCHANGED <<issue, run, act>>
    PROVE  UnknownStep
BY IssuesKept DEF RunsStay, Calm

\* Withdrawing proposals makes no outcome unverified.
LEMMA WithdrawsIsCalm ==
    ASSUME RowsOK, Withdraws
    PROVE  Calm
<1>1. CASE act' = act
  BY <1>1 DEF Calm
<1>2. CASE \E S : act' = Superseded(S)
  <2>1. PICK S : act' = Superseded(S)
    BY <1>2
  <2>2. \A a \in Action : /\ Superseded(S)[a].run = act[a].run
                          /\ IF a \in S /\ act[a].st = "proposed"
                             THEN Superseded(S)[a].st = "superseded" ELSE Superseded(S)[a] = act[a]
    BY SupersededIs DEF RowsOK
  <2>3. QED
    BY <2>1, <2>2 DEF Calm, Unverified
<1>3. QED
  BY <1>1, <1>2 DEF Withdraws

\* An issue that is eased keeps resting if it did.
LEMMA EasedStays ==
    ASSUME RowsOK, Links, NEW i \in Issue, Eased(i), Withdraws,
           issue[i].st \in {"needs_admin", "closed"} => issue'[i].st \in {"needs_admin", "closed"}
    PROVE  UnknownStep
<1>1. Calm
  BY WithdrawsIsCalm
<1>2. RunsStay
  BY DEF Eased, EndedHere, RunsStay
<1>3. Rests(i) => Rests(i)'
  BY DEF Rests, Eased
<1>4. \A j \in Issue : j # i => issue'[j] = issue[j]
  BY DEF Eased
<1>5. QED
  BY <1>1, <1>2, <1>3, <1>4, CalmStays

\* One fix is decided or settled, and its outcome is not unverified.
LEMMA SettledIsCalm ==
    ASSUME RowsOK, NEW a \in Action, NEW st \in ActionStatus \ Unverified, SetAct(a, st)
    PROVE  Calm
<1>1. act'[a].st = st /\ \A b \in Action : b # a => act'[b] = act[b]
  BY SetActIs DEF RowsOK
<1>2. QED
  BY <1>1 DEF Calm

\* Escalating puts an issue to rest, or leaves it closed.
LEMMA EscalatedRests ==
    ASSUME Inv, NEW i \in Issue, issue' = Escalated(i)
    PROVE  Rests(i)' /\ \A j \in Issue : j # i => issue'[j] = issue[j]
<1>1. CASE issue[i].st = "closed"
  BY <1>1, ClosedNow DEF Escalated, Rests, Inv
<1>2. CASE issue[i].st # "closed"
  <2>1. "needs_admin" \in IssueStatus
    BY DEF IssueStatus
  <2>2. issue' = Released(i, "needs_admin")
    BY <1>2 DEF Escalated
  <2>3. QED
    BY <2>1, <2>2, ReleasedIs DEF Rests, Inv, RowsOK
<1>3. QED
  BY <1>1, <1>2

-----------------------------------------------------------------------------
(* Moves of a whole issue                                                  *)

\* A closed issue rests.
LEMMA CloseStays ==
    ASSUME Inv, NEW i \in Issue, NEW kind, NEW by, Close(i, kind, by)
    PROVE  UnknownStep
<1>1. Eased(i) /\ Withdraws
  BY CloseMoves, MovesWithdraw DEF Inv
<1>2. issue' = Released(i, "closed") /\ "closed" \in IssueStatus
  BY DEF Close, IssueStatus
<1>3. issue'[i].st = "closed"
  BY <1>2, ReleasedIs DEF Inv, RowsOK
<1>4. QED
  BY <1>1, <1>3, EasedStays DEF Inv

\* What takes an issue over finds it at work or leaves it.
LEMMA TakenOverStays ==
    ASSUME Inv, NEW i \in Issue,
           TakenOver(i) \/ ObservationNeedsAdmin(i) \/ CloseRecovered(i) \/ UNCHANGED db
    PROVE  UnknownStep
<1>1. CASE UNCHANGED db
  BY <1>1, RowsKept DEF db, Inv
<1>2. CASE CloseRecovered(i)
  BY <1>1, <1>2, CloseStays DEF CloseRecovered
<1>3. CASE Suspend(i)
  <2>1. Eased(i) /\ Withdraws
    BY <1>3, SuspendMoves DEF Inv, Suspend, Withdraws
  <2>2. issue[i].st \notin {"needs_admin", "closed"}
    BY <1>3 DEF Suspend, CanSuspend
  <2>3. QED
    BY <2>1, <2>2, EasedStays DEF Inv
<1>4. CASE ObservationNeedsAdmin(i)
  <2>1. Eased(i) /\ Withdraws
    BY <1>4, ObservationMoves, MovesWithdraw DEF Inv
  <2>2. issue[i].st \notin {"needs_admin", "closed"}
    BY <1>4 DEF ObservationNeedsAdmin
  <2>3. QED
    BY <2>1, <2>2, EasedStays DEF Inv
<1>5. QED
  BY <1>1, <1>2, <1>3, <1>4 DEF TakenOver

\* What ends the work on an issue hands it to an administrator.
LEMMA GivenUpStays ==
    ASSUME Inv, NEW i \in Issue,
           \/ GiveUpUnclaimed(i)
           \/ \E r \in Run : /\ run[r].issue = i
                             /\ GiveUp(i, r) \/ ParkForReview(i, r) \/ AbortClaim(i, r)
    PROVE  UnknownStep
<1>1. "needs_admin" \in IssueStatus
  BY DEF IssueStatus
<1>2. Released(i, "needs_admin")[i].st = "needs_admin"
  BY <1>1, ReleasedIs DEF Inv, RowsOK
<1>3. issue' = issue \/ issue' = Released(i, "needs_admin")
  BY DEF GiveUp, ParkForReview, HandOver, AbortClaim, GiveUpUnclaimed, db
<1>4. Eased(i) /\ Withdraws
  <2>1. CASE GiveUpUnclaimed(i)
    BY <2>1, GiveUpUnclaimedMoves, MovesWithdraw DEF Inv
  <2>2. ASSUME NEW r \in Run, run[r].issue = i, GiveUp(i, r) \/ ParkForReview(i, r) \/ AbortClaim(i, r)
        PROVE  Eased(i) /\ Withdraws
    BY <2>2, HandOverMoves, AbortMoves, MovesWithdraw DEF Inv, GiveUp, ParkForReview
  <2>3. QED
    BY <2>1, <2>2
<1>5. QED
  BY <1>2, <1>3, <1>4, EasedStays DEF Inv

-----------------------------------------------------------------------------
(* Workers                                                                 *)

\* A row of a run of the issue changes, no other does, and the issue stays or
\* was at work.
LEMMA RunChangesStays ==
    ASSUME Inv, NEW i \in Issue, NEW r \in Run,
           run[r].issue \in {i, NoIssue}, run'[r].issue = i,
           \A q \in Run : q # r => run'[q] = run[q],
           \A j \in Issue : j # i => issue'[j] = issue[j],
           Withdraws, issue'[i] = issue[i] \/ issue[i].st \notin {"needs_admin", "closed"}
    PROVE  UnknownStep
<1>1. Calm
  BY WithdrawsIsCalm DEF Inv
<1>2. RunsStay
  BY DEF RunsStay, Inv, Links
<1>3. Rests(i) => Rests(i)'
  BY DEF Rests
<1>4. QED
  BY <1>1, <1>2, <1>3, CalmStays DEF Inv

\* A worker's step.
LEMMA WorkerStays ==
    ASSUME Inv, NEW w \in Worker, WorkerStep(w)
    PROVE  UnknownStep
<1>1. PICK i, r : i = worker[w].issue /\ r = worker[w].run
  OBVIOUS
<1>2. worker[w].pc # "idle" => i \in Issue
  BY <1>1, WorkerHas
<1>3. worker[w].pc \in InHand => i \in Issue /\ r \in Run /\ run[r].issue = i
  BY <1>1, WorkerHas DEF InHand
<1>4. CASE Take(w)
  <2>1. UNCHANGED <<issue, run, act>>
    BY <1>4 DEF Take, db
  <2>2. QED
    BY <2>1, RowsKept DEF Inv
<1>5. CASE ResumeClosed(w)
  <2>1. issue' = issue /\ act' = act /\ (run' = Ended(i, {"resume_pending"}) \/ run' = run)
    BY <1>1, <1>5 DEF ResumeClosed
  <2>2. RunsStay
    BY <2>1, EndedIs DEF RunsStay, Inv, RowsOK
  <2>3. Calm
    BY <2>1 DEF Calm
  <2>4. QED
    BY <2>1, <2>2, <2>3, IssuesKept DEF Inv
<1>6. CASE Preflight(w)
  <2>1. i \in Issue
    BY <1>2, <1>6 DEF Preflight, At
  <2>2. TakenOver(i) \/ ObservationNeedsAdmin(i) \/ UNCHANGED db
    BY <1>1, <1>6 DEF Preflight
  <2>3. QED
    BY <2>1, <2>2, TakenOverStays
<1>7. CASE Claim(w)
  <2>1. i \in Issue
    BY <1>2, <1>7 DEF Claim, At
  <2>2. CASE UNCHANGED db
    BY <2>1, <2>2, TakenOverStays
  <2>3. CASE GiveUpUnclaimed(i)
    BY <2>1, <2>3, GivenUpStays
  <2>4. CASE /\ Claimable(i) /\ FreeRun # {} /\ act' = act
             /\ run' = [run EXCEPT ![Oldest(FreeRun)] =
                          [issue |-> i, st |-> "running", gen |-> gen, seen |-> 0, steps |-> 0]]
             /\ issue' = [issue EXCEPT ![i].st = "investigating", ![i].claim = Oldest(FreeRun)]
    <3>1. PICK q : q = Oldest(FreeRun)
      OBVIOUS
    <3>2. q \in Run /\ run[q].st = "none"
      <4>1. FreeRun \in SUBSET Run
        BY DEF FreeRun
      <4>2. q \in FreeRun
        BY <2>4, <3>1, <4>1, PickedRows
      <4>3. QED
        BY <4>2 DEF FreeRun
    <3>3. run[q].issue = NoIssue
      BY <3>2 DEF Inv, Links
    <3>4. issue[i].st \notin {"needs_admin", "closed"} /\ Withdraws
      BY <2>4 DEF Claimable, Workable, Withdraws
    <3>5. /\ run'[q].issue = i /\ \A p \in Run : p # q => run'[p] = run[p]
          /\ \A j \in Issue : j # i => issue'[j] = issue[j]
      BY <2>4, <3>1, <3>2 DEF Inv, RowsOK
    <3>6. QED
      BY <2>1, <3>2, <3>3, <3>4, <3>5, RunChangesStays
  <2>5. QED
    BY <1>1, <1>7, <2>2, <2>3, <2>4 DEF Claim
<1>8. CASE Reclaim(w)
  <2>1. i \in Issue
    BY <1>2, <1>8 DEF Reclaim, At
  <2>2. CASE UNCHANGED db
    BY <2>1, <2>2, TakenOverStays
  <2>3. CASE /\ Claimable(i) /\ Staged(i) # {} /\ act' = act
             /\ run' = [run EXCEPT ![Newest(Staged(i))].st = "running"]
             /\ issue' = [issue EXCEPT ![i].st = "investigating", ![i].claim = Newest(Staged(i))]
    <3>1. PICK q : q = Newest(Staged(i))
      OBVIOUS
    <3>2. q \in Run /\ run[q].issue = i
      <4>1. Staged(i) \in SUBSET Run
        BY DEF Staged
      <4>2. q \in Staged(i)
        BY <2>3, <3>1, <4>1, PickedRows
      <4>3. QED
        BY <4>2 DEF Staged
    <3>3. issue[i].st \notin {"needs_admin", "closed"} /\ Withdraws
      BY <2>3 DEF Claimable, Workable, Withdraws
    <3>4. /\ \A p \in Run : p # q => run'[p] = run[p]
          /\ \A j \in Issue : j # i => issue'[j] = issue[j]
      BY <2>3, <3>1, <3>2 DEF Inv, RowsOK
    <3>5. run'[q].issue = i
      BY <2>3, <3>1, <3>2 DEF Inv, RowsOK, RunRow
    <3>6. QED
      BY <2>1, <3>2, <3>3, <3>4, <3>5, RunChangesStays
  <2>4. QED
    BY <1>1, <1>8, <2>2, <2>3 DEF Reclaim
<1>9. ASSUME i \in Issue, r \in Run, run[r].issue = i, issue' = issue, act' = act,
             \E row : run' = [run EXCEPT ![r] = row] /\ row.issue = i
      PROVE  UnknownStep
  <2>1. run'[r].issue = i /\ \A p \in Run : p # r => run'[p] = run[p]
    BY <1>9 DEF Inv, RowsOK
  <2>2. Withdraws
    BY <1>9 DEF Withdraws
  <2>3. QED
    BY <1>9, <2>1, <2>2, RunChangesStays
<1>10. ASSUME worker[w].pc \in InHand, NEW more \in {0, 1}, Turn(w, more)
       PROVE  UnknownStep
  <2>1. i \in Issue /\ r \in Run /\ run[r].issue = i
    BY <1>3, <1>10
  <2>2. CASE GiveUp(i, r)
    BY <2>1, <2>2, GivenUpStays
  <2>3. CASE /\ run' = [run EXCEPT ![r].seen = issue[i].msgs, ![r].steps = @ + more]
             /\ issue' = issue /\ act' = act
    <3>1. PICK row : row = [run[r] EXCEPT !.seen = issue[i].msgs, !.steps = @ + more]
      OBVIOUS
    <3>2. run' = [run EXCEPT ![r] = row] /\ row.issue = i
      BY <2>1, <2>3, <3>1 DEF Inv, RowsOK, RunRow
    <3>3. QED
      BY <1>9, <2>1, <2>3, <3>2
  <2>4. QED
    BY <1>1, <1>10, <2>2, <2>3 DEF Turn
<1>11. CASE FirstTurn(w) \/ Think(w)
  <2>1. worker[w].pc \in InHand
    BY <1>11 DEF FirstTurn, Think, At, InHand
  <2>2. i \in Issue /\ r \in Run /\ run[r].issue = i
    BY <1>3, <2>1
  <2>3. Turn(w, 0) \/ Turn(w, 1) \/ GiveUp(i, r) \/ UNCHANGED db
    BY <1>1, <1>11 DEF FirstTurn, Think
  <2>4. QED
    BY <1>10, <2>1, <2>2, <2>3, GivenUpStays, TakenOverStays
<1>12. CASE Recheck(w)
  <2>1. i \in Issue /\ r \in Run /\ run[r].issue = i
    BY <1>3, <1>12 DEF Recheck, At, InHand
  <2>2. TakenOver(i) \/ UNCHANGED db \/ AbortClaim(i, r)
    BY <1>1, <1>12 DEF Recheck
  <2>3. QED
    BY <2>1, <2>2, GivenUpStays, TakenOverStays
<1>13. CASE Propose(w)
  <2>1. i \in Issue /\ r \in Run /\ run[r].issue = i
    BY <1>3, <1>13 DEF Propose, At, InHand
  <2>2. PICK a : a = Oldest(FreeAction)
    OBVIOUS
  <2>3. /\ issue' = issue /\ run' = [run EXCEPT ![r].steps = @ + 1] /\ FreeAction # {}
        /\ act' = [act EXCEPT ![a] = [run |-> r, st |-> "proposed", auto |-> FALSE]]
    BY <1>1, <1>13, <2>2 DEF Propose
  <2>4. \A b \in Action : act'[b] = act[b] \/ act'[b].st = "proposed"
    BY <2>3 DEF Inv, RowsOK
  <2>5. Calm
    BY <2>4 DEF Calm, Unverified
  <2>6. RunsStay
    BY <2>1, <2>3 DEF RunsStay, Inv, RowsOK, RunRow
  <2>7. QED
    BY <2>3, <2>5, <2>6, IssuesKept DEF Inv
<1>14. CASE Ask(w)
  <2>1. i \in Issue /\ r \in Run /\ run[r].issue = i
    BY <1>3, <1>14 DEF Ask, At, InHand
  <2>2. run' = [run EXCEPT ![r].steps = @ + 1] /\ issue' = issue /\ act' = act
    BY <1>1, <1>14 DEF Ask
  <2>3. PICK row : row = [run[r] EXCEPT !.steps = @ + 1]
    OBVIOUS
  <2>4. run' = [run EXCEPT ![r] = row] /\ row.issue = i
    BY <2>1, <2>2, <2>3 DEF Inv, RowsOK, RunRow
  <2>5. QED
    BY <1>9, <2>1, <2>2, <2>4
<1>15. CASE Conclude(w)
  <2>1. i \in Issue /\ r \in Run /\ run[r].issue = i
    BY <1>3, <1>15 DEF Conclude, At, InHand
  <2>2. GiveUp(i, r) \/ ParkForReview(i, r) \/ Close(i, "cleared", r)
    BY <1>1, <1>15 DEF Conclude
  <2>3. QED
    BY <2>1, <2>2, GivenUpStays, CloseStays
<1>16. CASE Park(w)
  <2>1. i \in Issue /\ r \in Run /\ run[r].issue = i
    BY <1>3, <1>16 DEF Park, At, InHand
  <2>2. CASE GiveUp(i, r) \/ UNCHANGED db
    BY <2>1, <2>2, GivenUpStays, TakenOverStays
  <2>3. CASE /\ Parks(i, r) /\ act' = act
             /\ \E st \in IssueStatus : issue' = Released(i, st)
             /\ \E st : run' = [run EXCEPT ![r].st = st]
    <3>1. issue[i].st \notin {"needs_admin", "closed"} /\ Withdraws
      BY <2>3 DEF Parks, Owns, Withdraws
    <3>2. \A j \in Issue : j # i => issue'[j] = issue[j]
      BY <2>1, <2>3, ReleasedIs DEF Inv, RowsOK
    <3>3. run'[r].issue = i /\ \A p \in Run : p # r => run'[p] = run[p]
      BY <2>1, <2>3 DEF Inv, RowsOK, RunRow
    <3>4. QED
      BY <2>1, <3>1, <3>2, <3>3, RunChangesStays
  <2>4. CASE Withdraws /\ issue' = issue /\ run' = run
    BY <2>1, <2>4, RunChangesStays
  <2>5. PICK S : S = {a \in Action : act[a].run = r}
    OBVIOUS
  <2>6. {"awaiting_approval", "awaiting_user"} \subseteq IssueStatus
    BY DEF IssueStatus
  <2>7. \/ /\ Parks(i, r) /\ act' = act
           /\ \/ issue' = Released(i, "awaiting_approval")
                 /\ run' = [run EXCEPT ![r].st = "waiting_approval"]
              \/ issue' = Released(i, "awaiting_user")
                 /\ run' = [run EXCEPT ![r].st = "waiting_user"]
        \/ (act' = Superseded(S) \/ act' = act) /\ issue' = issue /\ run' = run
        \/ GiveUp(i, r) \/ UNCHANGED db
    BY <1>1, <1>16, <2>5 DEF Park
  <2>8. act' = Superseded(S) \/ act' = act => Withdraws
    BY DEF Withdraws
  <2>9. QED
    BY <2>2, <2>3, <2>4, <2>6, <2>7, <2>8
<1>17. QED
  BY <1>4, <1>5, <1>6, <1>7, <1>8, <1>11, <1>12, <1>13, <1>14, <1>15, <1>16 DEF WorkerStep

-----------------------------------------------------------------------------
(* Decisions                                                               *)

\* An outcome that becomes unverified puts its issue to rest.
LEMMA UnknownRests ==
    ASSUME Inv, NEW a \in Action, act[a].st # "none", NEW pause, MarkUnknown(a, pause)
    PROVE  UnknownStep
<1>1. PICK i \in Issue : i = IssueOf(a)
  BY FixHas DEF Inv
<1>2. SetAct(a, "unknown") /\ issue' = Escalated(i) /\ run' = RunEnded(a)
  BY <1>1 DEF MarkUnknown
<1>3. /\ act'[a].run = act[a].run
      /\ \A b \in Action : b # a => act'[b] = act[b]
  BY <1>2, SetActIs DEF Inv, RowsOK, ActionStatus
<1>4. Rests(i)' /\ \A j \in Issue : j # i => issue'[j] = issue[j]
  BY <1>2, EscalatedRests
<1>5. RunsStay
  BY <1>1, <1>2, EscalationMoves DEF RunsStay, EndedHere
<1>6. RestsStay
  BY <1>4 DEF RestsStay, Rests
<1>7. IssueOf(a)' = i
  BY <1>1, <1>3, <1>5 DEF IssueOf, RunsStay, Inv, Links
<1>8. Traced
  <2>1. "none" \notin Unverified
    BY DEF Unverified
  <2>2. Rests(IssueOf(a))'
    BY <1>4, <1>7
  <2>3. QED
    BY <1>3, <2>1, <2>2 DEF Traced
<1>9. QED
  BY <1>5, <1>6, <1>8, TracedStays DEF Inv

\* A decision is handed over at an active gate, whose issue does not rest, or
\* its issue is escalated.
LEMMA HandedStays ==
    ASSUME Inv, NEW a \in Action, act[a].st # "none", act' = act,
           Handed(a) \/ StopUnresumable(a) \/ UNCHANGED <<issue, run>>
    PROVE  UnknownStep
<1>1. PICK i \in Issue : i = IssueOf(a)
  BY FixHas DEF Inv
<1>2. PICK r \in Run : r = act[a].run /\ run[r].issue = i
  BY <1>1, FixHas DEF Inv, IssueOf
<1>3. Withdraws /\ Calm
  BY DEF Withdraws, Calm
<1>4. CASE UNCHANGED <<issue, run>>
  BY <1>4, RowsKept DEF Inv
<1>5. CASE StopUnresumable(a)
  <2>1. issue' = Escalated(i) /\ run' = RunEnded(a)
    BY <1>1, <1>5 DEF StopUnresumable
  <2>2. RunsStay
    BY <1>1, <2>1, EscalationMoves DEF RunsStay, EndedHere
  <2>3. Rests(i)' /\ \A j \in Issue : j # i => issue'[j] = issue[j]
    BY <2>1, EscalatedRests
  <2>4. QED
    BY <1>3, <2>2, <2>3, CalmStays DEF Inv
<1>6. CASE /\ GateActive(a) /\ run' = [run EXCEPT ![r].st = "resume_pending"]
           /\ issue' = [issue EXCEPT ![i].st = "investigating"]
  <2>1. issue[i].st \notin {"needs_admin", "closed"}
    BY <1>1, <1>6 DEF GateActive
  <2>2. /\ run'[r].issue = i /\ \A q \in Run : q # r => run'[q] = run[q]
        /\ \A j \in Issue : j # i => issue'[j] = issue[j]
    BY <1>2, <1>6 DEF Inv, RowsOK, RunRow
  <2>3. QED
    BY <1>2, <1>3, <2>1, <2>2, RunChangesStays
<1>7. QED
  BY <1>1, <1>2, <1>4, <1>5, <1>6 DEF Handed

\* A claimed fix that is cancelled excuses what becomes of its issue; one that
\* failed hands it to an administrator.
LEMMA CancelStays ==
    ASSUME Inv, NEW a \in Action, act[a].st = "executing", NEW i \in Issue, i = IssueOf(a),
           run' = Ended(i, Live),
           \/ SetAct(a, "superseded") /\ \E st \in IssueStatus : issue' = Released(i, st)
           \/ SetAct(a, "superseded") /\ issue' = issue
           \/ SetAct(a, "failed") /\ (issue' = issue \/ issue' = Released(i, "needs_admin"))
    PROVE  UnknownStep
<1>1. PICK st \in {"superseded", "failed"} : SetAct(a, st)
  OBVIOUS
<1>2. {"superseded", "failed"} \subseteq ActionStatus \ Unverified /\ "needs_admin" \in IssueStatus
  BY DEF ActionStatus, Unverified, IssueStatus
<1>3. Calm
  BY <1>1, <1>2, SettledIsCalm DEF Inv
<1>4. RunsStay
  BY EndedIs DEF RunsStay, Inv, RowsOK
<1>5. \A j \in Issue : j # i => issue'[j] = issue[j]
  BY <1>2, ReleasedIs DEF Inv, RowsOK
<1>6. Rests(i) => Rests(i)' \/ Excused(i)
  <2>1. CASE SetAct(a, "superseded")
    <3>1. a \in ActsOf(i) /\ act'[a].st = "superseded"
      BY <1>2, <2>1, SetActIs DEF ActsOf, Inv, RowsOK
    <3>2. QED
      BY <3>1 DEF Excused
  <2>2. CASE issue' = issue \/ issue' = Released(i, "needs_admin")
    BY <1>2, <2>2, ReleasedIs DEF Rests, Inv, RowsOK
  <2>3. QED
    BY <2>1, <2>2
<1>7. QED
  BY <1>3, <1>4, <1>5, <1>6, CalmStays DEF Inv

\* A decider's step.
LEMMA DeciderStays ==
    ASSUME Inv, NEW d \in Decider, Approve(d) \/ Deny(d) \/ DeciderStep(d)
    PROVE  UnknownStep
<1>1. PICK a, i : a = decider[d].act /\ i = IssueOf(a)
  OBVIOUS
<1>2. decider[d].pc # "idle" => a \in Action /\ act[a].st # "none" /\ i \in Issue
  BY <1>1, DeciderHas
<1>3. CASE Approve(d) \/ Dispatch(d)
  <2>1. UNCHANGED <<issue, run, act>>
    BY <1>3 DEF Approve, Dispatch, db
  <2>2. QED
    BY <2>1, RowsKept DEF Inv
<1>4. CASE Deny(d)
  <2>1. PICK b \in Action : SetAct(b, "denied") /\ issue' = issue /\ run' = run
    BY <1>4 DEF Deny
  <2>2. Calm
    BY <2>1, SettledIsCalm DEF Inv, ActionStatus, Unverified
  <2>3. QED
    BY <2>1, <2>2, IssuesKept DEF Inv, RunsStay
<1>5. CASE PreflightDecision(d) \/ CloseAfterCancel(d)
  <2>1. i \in Issue
    BY <1>2, <1>5 DEF PreflightDecision, CloseAfterCancel, On
  <2>2. TakenOver(i) \/ UNCHANGED db \/ ObservationNeedsAdmin(i) \/ CloseRecovered(i)
    BY <1>1, <1>5 DEF PreflightDecision, CloseAfterCancel
  <2>3. QED
    BY <2>1, <2>2, TakenOverStays
<1>6. CASE ClaimAction(d)
  <2>1. a \in Action /\ issue' = issue /\ run' = run
    BY <1>2, <1>6 DEF ClaimAction, On
  <2>2. Calm
    <3>1. CASE Decidable(a)
      <4>1. PICK auto : act' = [act EXCEPT ![a].st = "executing", ![a].auto = auto]
        BY <1>1, <1>6, <3>1 DEF ClaimAction
      <4>2. \A b \in Action : act'[b] = act[b] \/ act'[b].st = "executing"
        BY <2>1, <4>1 DEF Inv, RowsOK, ActRow
      <4>3. QED
        BY <4>2 DEF Calm, Unverified
    <3>2. CASE ~Decidable(a)
      <4>1. Withdraws
        BY <1>1, <1>6, <3>2 DEF ClaimAction, Withdraws
      <4>2. QED
        BY <4>1, WithdrawsIsCalm DEF Inv
    <3>3. QED
      BY <3>1, <3>2
  <2>3. QED
    BY <2>1, <2>2, IssuesKept DEF Inv, RunsStay
<1>7. CASE CancelClaim(d)
  <2>1. a \in Action /\ i \in Issue /\ act[a].st = "executing"
    BY <1>1, <1>2, <1>7 DEF CancelClaim, On, Inv, Ledger, Deciding
  <2>2. CASE UNCHANGED db
    BY <2>1, <2>2, TakenOverStays
  <2>3. CASE /\ run' = Ended(i, Live)
             /\ \/ SetAct(a, "superseded")
                   /\ \/ issue' = issue \/ issue' = Released(i, "needs_admin")
                      \/ issue' = Released(i, "tracking")
                \/ SetAct(a, "failed") /\ (issue' = issue \/ issue' = Released(i, "needs_admin"))
    <3>1. {"needs_admin", "tracking"} \subseteq IssueStatus
      BY DEF IssueStatus
    <3>2. QED
      BY <1>1, <2>1, <2>3, <3>1, CancelStays
  <2>4. QED
    BY <1>1, <1>7, <2>2, <2>3 DEF CancelClaim
<1>8. CASE Settle(d)
  <2>1. a \in Action /\ i \in Issue /\ act[a].st = "executing"
    BY <1>1, <1>2, <1>8 DEF Settle, On, Inv, Ledger, Deciding
  <2>2. PICK out : out = decider[d].out
    OBVIOUS
  <2>3. CASE out # "unknown" /\ SetAct(a, out) /\ UNCHANGED <<issue, run>>
    <3>1. out \in {"executed", "failed"}
      BY <1>8, <2>2, <2>3 DEF Settle, On, Inv, Ledger, DecidersOK, DeciderRow
    <3>2. Calm
      BY <2>1, <2>3, <3>1, SettledIsCalm DEF Inv, ActionStatus, Unverified
    <3>3. QED
      BY <2>3, <3>2, IssuesKept DEF Inv, RunsStay
  <2>4. \/ /\ out # "unknown" /\ SetAct(a, out) /\ UNCHANGED <<issue, run>>
        \/ MarkUnknown(a, TRUE)
        \/ UNCHANGED db
    BY <1>1, <1>8, <2>2 DEF Settle
  <2>5. QED
    BY <2>1, <2>3, <2>4, UnknownRests, TakenOverStays
<1>9. CASE Stage(d)
  <2>1. a \in Action /\ act[a].st # "none"
    BY <1>2, <1>9 DEF Stage, On
  <2>2. act' = act /\ (Handed(a) \/ StopUnresumable(a) \/ UNCHANGED <<issue, run>>)
    BY <1>1, <1>9 DEF Stage
  <2>3. QED
    BY <2>1, <2>2, HandedStays
<1>10. QED
  BY <1>3, <1>4, <1>5, <1>6, <1>7, <1>8, <1>9 DEF DeciderStep

\* A decision that comes too late.
LEMMA TooLateStays ==
    ASSUME Inv, NEW a \in Action, DecideTooLate(a)
    PROVE  UnknownStep
<1>1. CASE act[a].st \in Unverified /\ MarkUnknown(a, FALSE)
  BY <1>1, UnknownRests DEF Unverified
<1>2. CASE SetAct(a, "superseded") /\ UNCHANGED <<issue, run>>
  <2>1. Calm
    BY <1>2, SettledIsCalm DEF Inv, ActionStatus, Unverified
  <2>2. QED
    BY <1>2, <2>1, IssuesKept DEF Inv, RunsStay
<1>3. QED
  BY <1>1, <1>2 DEF DecideTooLate

-----------------------------------------------------------------------------
(* Recovery, humans and the process                                        *)

\* Recovery changes only issues that are claimed.
LEMMA RecStays ==
    ASSUME Inv, RecStep
    PROVE  UnknownStep
<1>1. CASE RecPass
  <2>1. /\ issue' = Repaired /\ act' = act
        /\ run' = [r \in Run |-> CASE r \in Lost -> Final(r, "restarted")
                                   [] Stranded(r) -> Final(r, "ended")
                                   [] OTHER -> run[r]]
    BY <1>1 DEF RecPass
  <2>2. ASSUME NEW r \in Run PROVE run'[r].issue = run[r].issue
    <3>1. CASE r \in Lost
      <4>1. ~Stranded(r)
        BY <3>1 DEF Lost, Stranded
      <4>2. run'[r] = Final(r, "restarted")
        BY <2>1, <3>1, <4>1
      <4>3. QED
        BY <4>2 DEF Final
    <3>2. CASE r \notin Lost /\ Stranded(r)
      BY <2>1, <3>2 DEF Final
    <3>3. CASE r \notin Lost /\ ~Stranded(r)
      BY <2>1, <3>3
    <3>4. QED
      BY <3>1, <3>2, <3>3
  <2>3. ASSUME NEW i \in Issue, Rests(i) PROVE Rests(i)'
    <3>1. issue'[i] = issue[i]
      BY <2>1, <2>3 DEF Repaired, Rests
    <3>2. QED
      BY <2>3, <3>1 DEF Rests
  <2>4. RunsStay /\ Traced /\ RestsStay
    BY <2>1, <2>2, <2>3 DEF RunsStay, Traced, RestsStay, Unverified
  <2>5. QED
    BY <2>4, TracedStays DEF Inv
<1>2. CASE RecStage
  <2>1. PICK a : a = Oldest(todo)
    OBVIOUS
  <2>2. /\ todo # {} /\ act' = act
        /\ Handed(a) \/ StopUnresumable(a) \/ UNCHANGED <<issue, run>>
    BY <1>2, <2>1 DEF RecStage
  <2>3. a \in Action /\ act[a].st # "none"
    <3>1. todo \in SUBSET Action /\ \A b \in todo : act[b].st # "none"
      BY DEF Inv, PassOK, Handing
    <3>2. a \in todo
      BY <2>1, <2>2, <3>1, PickedRows
    <3>3. QED
      BY <3>1, <3>2
  <2>4. QED
    BY <2>2, <2>3, HandedStays
<1>3. QED
  BY <1>1, <1>2 DEF RecStep

\* A reply to an issue at rest is only heard.
LEMMA ReplyStays ==
    ASSUME Inv, NEW i \in Issue, Reply(i)
    PROVE  UnknownStep
<1>1. PICK asked, open, gate :
        /\ asked = Waiting(i, "waiting_user")
        /\ open = {a \in ActsOf(i) : act[a].st = "proposed" /\ GateActive(a)}
        /\ gate = IF issue[i].st = "awaiting_user" THEN asked ELSE {act[Newest(open)].run}
  OBVIOUS
<1>2. Withdraws
  BY DEF Reply, Withdraws
<1>3. Calm
  BY <1>2, WithdrawsIsCalm DEF Inv
<1>4. CASE issue' = Heard(i) /\ UNCHANGED <<run, act>>
  <2>1. /\ issue'[i].st = issue[i].st /\ issue'[i].claim = issue[i].claim
        /\ \A j \in Issue : j # i => issue'[j] = issue[j]
    BY <1>4 DEF Heard, Inv, RowsOK, IssueRow
  <2>2. RunsStay /\ (Rests(i) => Rests(i)')
    BY <1>4, <2>1 DEF RunsStay, Rests
  <2>3. QED
    BY <1>3, <2>1, <2>2, CalmStays DEF Inv
<1>5. CASE /\ issue[i].st \in {"awaiting_user", "awaiting_approval"}
           /\ issue[i].st = "awaiting_user" => asked # {}
           /\ issue[i].st = "awaiting_approval" => open # {}
           /\ issue' = [Heard(i) EXCEPT ![i].st = "investigating"]
           /\ run' = [run EXCEPT ![Newest(gate)].st = "resume_pending"]
  <2>1. PICK r : r = Newest(gate)
    OBVIOUS
  <2>2. r \in Run /\ run[r].issue = i
    <3>1. asked # {} => Newest(asked) \in Run /\ run[Newest(asked)].issue = i
      BY <1>1, GateHas
    <3>2. open # {} =>
            /\ Newest({act[Newest(open)].run}) = act[Newest(open)].run
            /\ act[Newest(open)].run \in Run /\ run[act[Newest(open)].run].issue = i
      BY <1>1, GateHas
    <3>3. CASE issue[i].st = "awaiting_user"
      BY <1>1, <1>5, <2>1, <3>1, <3>3
    <3>4. CASE issue[i].st = "awaiting_approval"
      <4>1. gate = {act[Newest(open)].run}
        BY <1>1, <3>4
      <4>2. QED
        BY <1>5, <2>1, <3>2, <3>4, <4>1
    <3>5. QED
      BY <1>5, <3>3, <3>4
  <2>3. run'[r].issue = i /\ \A q \in Run : q # r => run'[q] = run[q]
    BY <1>5, <2>1, <2>2 DEF Inv, RowsOK, RunRow
  <2>4. \A j \in Issue : j # i => issue'[j] = issue[j]
    BY <1>5 DEF Heard, Inv, RowsOK
  <2>5. QED
    BY <1>2, <1>5, <2>2, <2>3, <2>4, RunChangesStays
<1>6. CASE /\ issue' = [Heard(i) EXCEPT ![i].st = "needs_admin", ![i].claim = NoRun]
           /\ \E from : run' = Ended(i, from)
  <2>1. Rests(i)' /\ \A j \in Issue : j # i => issue'[j] = issue[j]
    BY <1>6 DEF Heard, Rests, Inv, RowsOK, IssueRow
  <2>2. RunsStay
    BY <1>6, EndedIs DEF RunsStay, Inv, RowsOK
  <2>3. QED
    BY <1>3, <2>1, <2>2, CalmStays DEF Inv
<1>7. QED
  BY <1>1, <1>4, <1>5, <1>6 DEF Reply

\* Reopening hands the issue to an administrator.
LEMMA ReopenStays ==
    ASSUME Inv, NEW i \in Issue, Reopen(i)
    PROVE  UnknownStep
<1>1. /\ act' = Superseded(ActsOf(i)) /\ run' = Ended(i, Live)
      /\ issue' = [Released(i, "needs_admin") EXCEPT ![i].reopened = TRUE]
  BY DEF Reopen
<1>2. Calm
  BY <1>1, WithdrawsIsCalm DEF Withdraws, Inv
<1>3. RunsStay
  BY <1>1, EndedIs DEF RunsStay, Inv, RowsOK
<1>4. PICK released \in [Issue -> IssueRow] :
        /\ released = Released(i, "needs_admin")
        /\ released[i].st = "needs_admin" /\ released[i].claim = NoRun
        /\ \A j \in Issue : j # i => released[j] = issue[j]
  <2>1. "needs_admin" \in IssueStatus
    BY DEF IssueStatus
  <2>2. QED
    BY <2>1, ReleasedIs DEF Inv, RowsOK
<1>5. /\ issue'[i].st = "needs_admin" /\ issue'[i].claim = NoRun
      /\ \A j \in Issue : j # i => issue'[j] = issue[j]
  BY <1>1, <1>4 DEF IssueRow
<1>6. QED
  BY <1>2, <1>3, <1>5, CalmStays DEF Rests, Inv

\* The sweep takes up tracked issues only, which do not rest.
LEMMA ObserveStays ==
    ASSUME Inv, NEW i \in Issue, Observe(i)
    PROVE  UnknownStep
<1>1. CASE Suspend(i) \/ ObservationNeedsAdmin(i) \/ Close(i, "cleared", NoRun)
  BY <1>1, TakenOverStays, CloseStays DEF TakenOver
<1>2. CASE /\ issue[i].st = "tracking" /\ UNCHANGED <<run, act>>
           /\ \E st : issue' = [issue EXCEPT ![i].st = st]
  <2>1. \A j \in Issue : j # i => issue'[j] = issue[j]
    BY <1>2 DEF Inv, RowsOK
  <2>2. RunsStay /\ Calm /\ ~Rests(i)
    BY <1>2 DEF RunsStay, Calm, Rests
  <2>3. QED
    BY <2>1, <2>2, CalmStays DEF Inv
<1>3. QED
  BY <1>1, <1>2 DEF Observe

\* The boot repairs put every issue with an unverified fix to rest.
LEMMA CrashStays ==
    ASSUME Inv, Crash
    PROVE  UnknownStep
<1>1. /\ \A r \in Run : run'[r] = run[r] \/ run'[r].issue = run[r].issue
      /\ \A a \in Action : /\ act'[a].run = act[a].run
                           /\ \/ act'[a] = act[a] /\ act[a].st # "executing"
                              \/ act[a].st = "executing" /\ act'[a].st = "interrupted"
                              \/ act[a].st = "proposed" /\ act'[a].st = "superseded"
      /\ \A i \in Issue : \/ issue'[i] = issue[i]
                          \/ issue'[i].st = "needs_admin" /\ issue'[i].claim = NoRun
  BY CrashMoves
<1>2. RunsStay
  BY <1>1 DEF RunsStay
<1>3. RestsStay
  BY <1>1 DEF RestsStay, Rests
<1>4. ASSUME NEW i \in Issue, HasAct(i, {"executing"} \union Unverified)
      PROVE  Rests(i)'
  <2>1. issue'[i] = IF issue[i].st # "closed"
                    THEN [issue[i] EXCEPT !.st = "needs_admin", !.claim = NoRun] ELSE issue[i]
    BY <1>4 DEF Crash
  <2>2. issue[i].st = "closed" => issue[i].claim = NoRun
    BY ClosedNow DEF Inv
  <2>3. QED
    BY <2>1, <2>2 DEF Rests, Inv, RowsOK, IssueRow
<1>5. ASSUME NEW a \in Action, act'[a].st \in Unverified
      PROVE  act[a].st # "none" /\ act'[a].run = act[a].run /\ Rests(IssueOf(a))'
  <2>1. act[a].st \in {"executing"} \union Unverified /\ act'[a].run = act[a].run
    BY <1>1, <1>5 DEF Unverified
  <2>2. act[a].st # "none"
    BY <2>1 DEF Unverified
  <2>3. act[a].run \in Run /\ IssueOf(a) \in Issue
    BY <2>2, FixHas DEF Inv
  <2>4. HasAct(IssueOf(a), {"executing"} \union Unverified)
    BY <2>1, <2>2 DEF HasAct, ActsOf
  <2>5. IssueOf(a)' = IssueOf(a)
    BY <1>1, <2>1, <2>3 DEF IssueOf
  <2>6. QED
    BY <1>4, <2>1, <2>2, <2>3, <2>4, <2>5 DEF Rests
<1>6. Traced
  BY <1>5 DEF Traced
<1>7. QED
  BY <1>2, <1>3, <1>6, TracedStays DEF Inv

-----------------------------------------------------------------------------
(* The theorem                                                             *)

\* Every step does to an unverified outcome only what UnknownStays allows.
LEMMA NextStays ==
    ASSUME Inv, Next
    PROVE  UnknownStep
<1>1. ASSUME NEW i \in Issue, HumanClose(i) PROVE UnknownStep
  <2>1. PICK kind : Close(i, kind, NoRun)
    BY <1>1 DEF HumanClose
  <2>2. QED
    BY <2>1, CloseStays
<1>2. SetRule => UnknownStep
  BY RowsKept DEF SetRule, Inv
<1>3. QED
  BY <1>1, <1>2, WorkerStays, DeciderStays, TooLateStays, RecStays, ReplyStays, ReopenStays,
     ObserveStays, CrashStays DEF Next

\* The step that leaves the outcome of a fix unverified puts its issue to
\* rest, with an administrator or closed and claimed by no run, and no step of
\* a run, a decider, recovery, the sweep, a human or a restart gets it out,
\* unless it cancels a second fix of the issue while that executes
\* (markActionOutcomeUnknown, the boot repairs, cancelExecutingForRecovery).
THEOREM UnknownStaysHolds == Spec => UnknownStays
<1>1. Inv /\ [Next]_vars =>
        [\A i \in Issue :
           HasAct(i, Unverified)' /\ ~Rests(i)' =>
             /\ HasAct(i, Unverified)
             /\ Rests(i) => \E a \in ActsOf(i) :
                               act[a].st = "executing" /\ act'[a].st = "superseded"]_vars
  BY NextStays DEF UnknownStep, Excused
<1>2. QED
  BY InvHolds, <1>1, PTL DEF Spec, UnknownStays

=============================================================================
