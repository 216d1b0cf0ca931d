----------------------- MODULE RequestSettlementProofs -----------------------
(***************************************************************************)
(* What becomes of a request in RequestDispatch, for every number of       *)
(* requests, formats, instances, workers and tokens: its row and its jobs  *)
(* agree, and all the machinery implements DeliveryIntent.                 *)
(***************************************************************************)
EXTENDS RequestDispatchProofs

-----------------------------------------------------------------------------
(* The inductive invariant: request by request, what its row says of its   *)
(* jobs.                                                                   *)

Ended == Settled \union {"absent"}
RowsOf(r) == {j \in Job : j[1] = r}

Mirrors(r) ==
    /\ status[r] = "none" <=> \A j \in RowsOf(r) : job[j].state = "absent"
    /\ status[r] = "pending" <=> \E j \in RowsOf(r) : job[j].state \notin Ended

\* What is wanted has a job that is not withdrawn, and only what is wanted is
\* worked on.
Serves(r) ==
    /\ status[r] \in {"pending", "requested"} =>
         /\ wanted[r] # {}
         /\ \A j \in RowsOf(r) : j[2] \in wanted[r] => job[j].state \notin {"absent", "cancelled"}
    /\ \A j \in RowsOf(r) : job[j].state \notin Ended => j[2] \in wanted[r]

Parks(r) ==
    status[r] = "pending" => \A j \in RowsOf(r) : job[j].state \notin Ended =>
        /\ park[r] = "null" <=> job[j].state = "approval"
        /\ park[r] = "author_import" => job[j].state = "waiting_library"

Unmarked(r) == \A j \in RowsOf(r) : job[j].state = "absent" => ~job[j].started

RowRight(r) == Mirrors(r) /\ Serves(r) /\ Parks(r) /\ Unmarked(r)
RowInv == \A r \in Request : RowRight(r)

\* A sweep that has read something read it about a request.
SweepNamed == sweep # NoSweep => sweep.req \in Request

\* What every step is shown to do.
RowStep == RowInv' /\ [Intent!Next]_(Intent!vars)

\* The four intents tell the nine states apart as far as the promise does.
LEMMA Intents ==
    ASSUME NEW s
    PROVE  /\ IntentOf(s) = "none" <=> s = "absent"
           /\ IntentOf(s) = "delivered" <=> s = "complete"
           /\ IntentOf(s) = "dropped" <=> s = "cancelled"
           /\ IntentOf(s) = "open" <=> s \notin Ended
<1>1. CASE s \in Ended
  BY <1>1 DEF IntentOf, Ended, Settled
<1>2. CASE s \notin Ended
  <2>1. s # "absent" /\ s # "complete" /\ s # "cancelled"
    BY <1>2 DEF Ended, Settled
  <2>2. IntentOf(s) = "open"
    BY <2>1 DEF IntentOf
  <2>3. QED
    BY <1>2, <2>1, <2>2
<1>3. QED
  BY <1>1, <1>2

\* The types the steps of this module rely on.
LEMMA RowTypes ==
    ASSUME TypeInv
    PROVE  /\ job \in [Job -> JobRow] /\ \A j \in Job : job[j] \in JobRow
           /\ status \in [Request -> {"none", "pending", "requested", "denied"}]
           /\ park \in [Request -> {"null", "delivery", "author_import"}]
           /\ wanted \in [Request -> SUBSET Format]
           /\ sweep \in SweepState
           /\ \A j \in Job : j[1] \in Request /\ j[2] \in Format /\ j = <<j[1], j[2]>>
BY DEF TypeInv, TypeOK, Job

\* A request whose row and jobs stay as they are stays right.
LEMMA SameRow ==
    ASSUME NEW r \in Request, RowRight(r),
           status'[r] = status[r], park'[r] = park[r], wanted'[r] = wanted[r],
           \A j \in RowsOf(r) : job'[j].state = job[j].state /\ job'[j].started = job[j].started
    PROVE  RowRight(r)'
BY DEF RowRight, Mirrors, Serves, Parks, Unmarked, RowsOf

\* A pending request whose unfinished jobs move among the unfinished states
\* stays right if its park_reason follows.
LEMMA ShiftedRow ==
    ASSUME NEW r \in Request, RowRight(r), Parks(r)',
           status'[r] = status[r], wanted'[r] = wanted[r],
           \A j \in RowsOf(r) :
              /\ job'[j].state = job[j].state \/ {job[j].state, job'[j].state} \cap Ended = {}
              /\ job'[j].state = "absent" => ~job'[j].started
    PROVE  RowRight(r)'
<1>1. \A j \in RowsOf(r) : /\ job'[j].state \in Ended <=> job[j].state \in Ended
                           /\ job[j].state \in Ended => job'[j].state = job[j].state
  OBVIOUS
<1>2. Mirrors(r)'
  BY <1>1 DEF RowRight, Mirrors, RowsOf, Ended
<1>3. Serves(r)'
  BY <1>1 DEF RowRight, Serves, RowsOf, Ended, Settled
<1>4. Unmarked(r)'
  BY DEF Unmarked, RowsOf
<1>5. QED
  BY <1>2, <1>3, <1>4 DEF RowRight

\* Nothing of a step that moves no format between intents shows in
\* DeliveryIntent.
LEMMA Stutter ==
    ASSUME UNCHANGED <<status, wanted>>,
           \A j \in Job : /\ IntentOf(job'[j].state) = IntentOf(job[j].state)
                          /\ job'[j].started = job[j].started
    PROVE  [Intent!Next]_(Intent!vars)
BY DEF Intent!vars

\* A transaction that ends by settling: the request is delivered exactly when
\* all that is still wanted is.
LEMMA Settles ==
    ASSUME NEW r \in Request, wanted'[r] # {}, wanted'[r] \subseteq Format,
           \A j \in RowsOf(r) : j[2] \in wanted'[r] => job'[j].state \notin {"absent", "cancelled"},
           \A j \in RowsOf(r) : job'[j].state \notin Ended => j[2] \in wanted'[r],
           status'[r] = IF Unfinished(job', r) = {} THEN "requested" ELSE "pending"
    PROVE  /\ Mirrors(r)' /\ Serves(r)'
           /\ status'[r] = IF \A f \in wanted'[r] : job'[<<r, f>>].state = "complete"
                           THEN "requested" ELSE "pending"
<1>1. \A f \in wanted'[r] : <<r, f>> \in RowsOf(r) /\ <<r, f>>[2] = f
  BY DEF RowsOf, Job
<1>2. PICK f \in wanted'[r] : job'[<<r, f>>].state # "absent"
  BY <1>1
<1>3. Unfinished(job', r) # {} <=> \E j \in RowsOf(r) : job'[j].state \notin Ended
  BY DEF Unfinished, RowsOf, Ended
<1>4. Mirrors(r)'
  BY <1>1, <1>2, <1>3 DEF Mirrors, RowsOf
<1>5. Serves(r)'
  BY DEF Serves, RowsOf
<1>6. (\E j \in RowsOf(r) : job'[j].state \notin Ended)
         <=> ~\A g \in wanted'[r] : job'[<<r, g>>].state = "complete"
  <2>1. ASSUME NEW j \in RowsOf(r), job'[j].state \notin Ended
        PROVE  j[2] \in wanted'[r] /\ j = <<r, j[2]>> /\ job'[j].state # "complete"
    BY <2>1 DEF RowsOf, Job, Ended, Settled
  <2>2. ASSUME NEW g \in wanted'[r], job'[<<r, g>>].state # "complete"
        PROVE  job'[<<r, g>>].state \notin Ended
    BY <1>1, <2>2 DEF Ended, Settled
  <2>3. QED
    BY <1>1, <2>1, <2>2
<1>7. QED
  BY <1>3, <1>4, <1>5, <1>6
\* The others' rows stay right when a step writes only r's row and jobs.
LEMMA OtherRows ==
    ASSUME RowInv, NEW r \in Request, RowRight(r)',
           \A s \in Request \ {r} :
              status'[s] = status[s] /\ park'[s] = park[s] /\ wanted'[s] = wanted[s],
           \A j \in Job : j[1] # r => job'[j].state = job[j].state /\ job'[j].started = job[j].started
    PROVE  RowInv'
<1>1. ASSUME NEW s \in Request, s # r PROVE RowRight(s)'
  BY <1>1, SameRow DEF RowInv, RowsOf
<1>2. QED
  BY <1>1 DEF RowInv

\* saveDelivery submits the request.
LEMMA CreateStep ==
    ASSUME TypeInv, RowInv, NEW r \in Request, NEW formats \in SUBSET Format,
           NEW free \in SUBSET Format, NEW approval \in BOOLEAN, Create(r, formats, free, approval)
    PROVE  RowStep
<1> DEFINE s(j) == IF j[2] \in free THEN "complete" ELSE IF approval THEN "approval" ELSE "queued"
<1>1. /\ status[r] = "none" /\ formats # {} /\ free \subseteq formats
      /\ status' = [status EXCEPT ![r] = IF free = formats THEN "requested" ELSE "pending"]
      /\ park' = [park EXCEPT ![r] = IF approval \/ free = formats THEN "null" ELSE "delivery"]
      /\ wanted' = [wanted EXCEPT ![r] = formats]
      /\ job' = [j \in Job |-> IF j[1] # r \/ j[2] \notin formats THEN job[j] ELSE NewJob(s(j))]
  BY DEF Create
<1>2. \A j \in RowsOf(r) : job[j].state = "absent" /\ ~job[j].started
  BY <1>1 DEF RowInv, RowRight, Mirrors, Unmarked
<1>3. \A j \in RowsOf(r) : j[2] \in formats => job'[j].state = s(j) /\ ~job'[j].started
  BY <1>1 DEF RowsOf, NewJob
<1>4. \A j \in RowsOf(r) : j[2] \notin formats => job'[j] = job[j]
  BY <1>1 DEF RowsOf
<1>5. \A j \in Job : j[1] # r => job'[j] = job[j]
  BY <1>1
<1>6. Unfinished(job', r) = {} <=> free = formats
  <2>1. ASSUME NEW j \in RowsOf(r) PROVE job'[j].state \notin Ended <=> j[2] \in formats \ free
    BY <1>2, <1>3, <1>4 DEF Ended, Settled
  <2>2. \A f \in formats : <<r, f>> \in RowsOf(r) /\ <<r, f>>[2] = f
    BY DEF RowsOf, Job
  <2>3. Unfinished(job', r) = {j \in RowsOf(r) : job'[j].state \notin Ended}
    BY DEF Unfinished, RowsOf, Ended
  <2>4. ASSUME free # formats PROVE Unfinished(job', r) # {}
    <3>1. PICK f \in formats \ free : TRUE
      BY <1>1, <2>4
    <3>2. <<r, f>> \in RowsOf(r) /\ <<r, f>>[2] \in formats \ free
      BY <2>2, <3>1
    <3>3. QED
      BY <2>1, <2>3, <3>2
  <2>5. ASSUME free = formats PROVE Unfinished(job', r) = {}
    BY <2>1, <2>3, <2>5
  <2>6. QED
    BY <2>4, <2>5
<1>7. /\ status'[r] = IF Unfinished(job', r) = {} THEN "requested" ELSE "pending"
      /\ park'[r] = IF approval \/ free = formats THEN "null" ELSE "delivery"
      /\ wanted'[r] = formats
  BY <1>1, <1>6, RowTypes
<1>8. /\ \A j \in RowsOf(r) : j[2] \in formats => job'[j].state \notin {"absent", "cancelled"}
      /\ \A j \in RowsOf(r) : job'[j].state \notin Ended => j[2] \in formats
  BY <1>2, <1>3, <1>4 DEF Ended
<1>9. /\ Mirrors(r)' /\ Serves(r)'
      /\ status'[r] = IF \A f \in formats : job'[<<r, f>>].state = "complete"
                      THEN "requested" ELSE "pending"
  BY <1>1, <1>7, <1>8, Settles
<1>10. Parks(r)'
  <2> SUFFICES ASSUME status'[r] = "pending", NEW j \in RowsOf(r), job'[j].state \notin Ended
               PROVE  /\ park'[r] = "null" <=> job'[j].state = "approval"
                      /\ park'[r] = "author_import" => job'[j].state = "waiting_library"
    BY DEF Parks
  <2>1. free # formats
    BY <1>6, <1>7
  <2>2. job'[j].state = IF approval THEN "approval" ELSE "queued"
    BY <1>3, <1>8 DEF Ended, Settled
  <2>3. QED
    BY <1>7, <2>1, <2>2
<1>11. Unmarked(r)'
  BY <1>2, <1>3, <1>4 DEF Unmarked
<1>12. RowInv'
  <2>1. RowRight(r)'
    BY <1>9, <1>10, <1>11 DEF RowRight
  <2>2. \A i \in Request \ {r} :
           status'[i] = status[i] /\ park'[i] = park[i] /\ wanted'[i] = wanted[i]
    BY <1>1, RowTypes
  <2>3. QED
    BY <1>5, <2>1, <2>2, OtherRows
<1>13. Intent!Submit(r, formats, free)
  <2>1. [j \in Job |-> IntentOf(job'[j].state)]
           = [j \in Job |-> IF j[1] # r \/ j[2] \notin formats THEN IntentOf(job[j].state)
                            ELSE IF j[2] \in free THEN "delivered" ELSE "open"]
    <3> SUFFICES ASSUME NEW j \in Job, j[1] = r, j[2] \in formats
                 PROVE  IntentOf(job'[j].state) = IF j[2] \in free THEN "delivered" ELSE "open"
      BY <1>1
    <3>1. job'[j].state = s(j)
      BY <1>3 DEF RowsOf
    <3>2. QED
      BY <3>1, Intents DEF Ended, Settled
  <2>2. {j \in Job : job'[j].started} = {j \in Job : job[j].started}
    BY <1>2, <1>3, <1>4, <1>5 DEF RowsOf
  <2>3. \A f \in formats : <<r, f>> \in Job /\
            (IntentOf(job'[<<r, f>>].state) = "delivered" <=> job'[<<r, f>>].state = "complete")
    BY Intents DEF Job
  <2>4. status' = [status EXCEPT ![r] =
            IF \A f \in formats : [j \in Job |-> IntentOf(job'[j].state)][<<r, f>>] = "delivered"
            THEN "requested" ELSE "pending"]
    BY <1>1, <1>7, <1>9, <2>3, RowTypes
  <2>5. QED
    BY <1>1, <1>7, <2>1, <2>2, <2>4 DEF Intent!Submit, Intent!Follow, Intent!Job, Job
<1>14. QED
  BY <1>12, <1>13 DEF RowStep, Intent!Next
\* Cancelling keeps what is complete and every marker.
LEMMA CancelledJobs ==
    ASSUME TypeInv, NEW S \in SUBSET Job, job' = Cancelled(job, S)
    PROVE  \A j \in Job :
              /\ job'[j].state = IF j \in S /\ job[j].state # "complete" THEN "cancelled" ELSE job[j].state
              /\ job'[j].started = job[j].started
<1> SUFFICES ASSUME NEW j \in Job
             PROVE  /\ job'[j].state = IF j \in S /\ job[j].state # "complete" THEN "cancelled"
                                       ELSE job[j].state
                    /\ job'[j].started = job[j].started
  OBVIOUS
<1>1. job[j] \in JobRow
  BY RowTypes
<1>2. job'[j] = IF j \in S /\ job[j].state # "complete"
                THEN [job[j] EXCEPT !.state = "cancelled", !.due = TRUE] ELSE job[j]
  BY DEF Cancelled
<1>3. QED
  BY <1>1, <1>2 DEF JobRow

\* Deny and cancel refuse the request as a whole.
LEMMA CloseStep ==
    ASSUME TypeInv, RowInv, NEW r \in Request, NEW newPark, Close(r, newPark)
    PROVE  RowStep
<1>1. /\ status[r] = "pending"
      /\ job' = Cancelled(job, JobsOf(r))
      /\ status' = [status EXCEPT ![r] = "denied"]
      /\ park' = [park EXCEPT ![r] = newPark]
      /\ wanted' = wanted
  BY DEF Close
<1>2. JobsOf(r) \in SUBSET Job /\ \A j \in Job : j \in JobsOf(r) <=> j[1] = r /\ job[j].state # "absent"
  BY DEF JobsOf
<1>3. \A j \in Job :
         /\ job'[j].state = IF j[1] = r /\ job[j].state \notin {"absent", "complete"}
                            THEN "cancelled" ELSE job[j].state
         /\ job'[j].started = job[j].started
  BY <1>1, <1>2, CancelledJobs
<1>4. RowRight(r)'
  <2>1. status'[r] = "denied" /\ RowRight(r)
    BY <1>1, RowTypes DEF RowInv
  <2>2. \A j \in RowsOf(r) :
           /\ job'[j].state \in Ended
           /\ job'[j].state = "absent" <=> job[j].state = "absent"
           /\ job'[j].started = job[j].started
    BY <1>3 DEF RowsOf, Ended, Settled
  <2>3. Mirrors(r)'
    BY <1>1, <2>1, <2>2 DEF RowRight, Mirrors
  <2>4. Serves(r)' /\ Parks(r)' /\ Unmarked(r)'
    BY <2>1, <2>2 DEF RowRight, Serves, Parks, Unmarked
  <2>5. QED
    BY <2>3, <2>4 DEF RowRight
<1>5. RowInv'
  BY <1>1, <1>3, <1>4, OtherRows, RowTypes
<1>6. Intent!Refuse(r)
  <2>1. \A j \in Job : IntentOf(job'[j].state) =
           IF j[1] = r /\ IntentOf(job[j].state) = "open" THEN "dropped" ELSE IntentOf(job[j].state)
    <3> SUFFICES ASSUME NEW j \in Job
                 PROVE  IntentOf(job'[j].state) =
                           IF j[1] = r /\ IntentOf(job[j].state) = "open" THEN "dropped"
                           ELSE IntentOf(job[j].state)
      OBVIOUS
    <3>1. job'[j].state = IF j[1] = r /\ job[j].state \notin {"absent", "complete"}
                          THEN "cancelled" ELSE job[j].state
      BY <1>3
    <3>2. QED
      BY <3>1, Intents DEF Ended, Settled
  <2>2. {j \in Job : job'[j].started} = {j \in Job : job[j].started}
    BY <1>3
  <2>3. [j \in Job |-> IntentOf(job'[j].state)] =
          [j \in Job |-> IF j \in Intent!Open(r) THEN "dropped" ELSE IntentOf(job[j].state)]
    BY <2>1 DEF Intent!Open, Intent!Job, Job
  <2>4. QED
    BY <1>1, <2>2, <2>3 DEF Intent!Refuse, Intent!Job, Job
<1>7. QED
  BY <1>5, <1>6 DEF RowStep, Intent!Next

\* A subscriber who leaves withdraws the formats nobody else wants.
LEMMA UnsubscribeStep ==
    ASSUME TypeInv, RowInv, NEW r \in Request, NEW keep \in SUBSET Format, Unsubscribe(r, keep)
    PROVE  RowStep
<1>1. /\ status[r] = "pending" /\ keep # {} /\ keep \subseteq wanted[r]
      /\ wanted' = [wanted EXCEPT ![r] = keep]
      /\ job' = Cancelled(job, {j \in JobsOf(r) : j[2] \notin keep})
      /\ status' = [status EXCEPT ![r] = IF Unfinished(job', r) = {} THEN "requested" ELSE @]
      /\ park' = [park EXCEPT ![r] = IF Unfinished(job', r) = {} THEN "null" ELSE @]
  BY DEF Unsubscribe, Settle
<1>2. RowRight(r)
  BY RowTypes DEF RowInv
<1>3. \A j \in Job :
         /\ job'[j].state = IF j[1] = r /\ j[2] \notin keep /\ job[j].state \notin {"absent", "complete"}
                            THEN "cancelled" ELSE job[j].state
         /\ job'[j].started = job[j].started
  <2> DEFINE S == {j \in JobsOf(r) : j[2] \notin keep}
  <2>1. S \in SUBSET Job
        /\ \A j \in Job : j \in S <=> j[1] = r /\ j[2] \notin keep /\ job[j].state # "absent"
    BY DEF JobsOf
  <2>2. job' = Cancelled(job, S)
    BY <1>1
  <2> HIDE DEF S
  <2>3. QED
    BY <2>1, <2>2, CancelledJobs
<1>4. /\ wanted'[r] = keep /\ keep \subseteq Format
      /\ status'[r] = IF Unfinished(job', r) = {} THEN "requested" ELSE "pending"
      /\ park'[r] = IF Unfinished(job', r) = {} THEN "null" ELSE park[r]
  BY <1>1, RowTypes
<1>5. /\ \A j \in RowsOf(r) : j[2] \in keep => job'[j].state \notin {"absent", "cancelled"}
      /\ \A j \in RowsOf(r) : job'[j].state \notin Ended => j[2] \in keep
  <2>1. \A j \in RowsOf(r) : j[2] \in keep => job[j].state \notin {"absent", "cancelled"}
    BY <1>1, <1>2 DEF RowRight, Serves
  <2>2. QED
    BY <1>3, <2>1 DEF RowsOf, Ended, Settled
<1>6. /\ Mirrors(r)' /\ Serves(r)'
      /\ status'[r] = IF \A f \in keep : job'[<<r, f>>].state = "complete"
                      THEN "requested" ELSE "pending"
  BY <1>1, <1>4, <1>5, Settles
<1>7. Parks(r)'
  <2> SUFFICES ASSUME status'[r] = "pending", NEW j \in RowsOf(r), job'[j].state \notin Ended
               PROVE  /\ park'[r] = "null" <=> job'[j].state = "approval"
                      /\ park'[r] = "author_import" => job'[j].state = "waiting_library"
    BY DEF Parks
  <2>1. park'[r] = park[r]
    BY <1>4
  <2>2. job'[j].state = job[j].state
    BY <1>3 DEF RowsOf, Ended, Settled
  <2>3. QED
    BY <1>1, <1>2, <2>1, <2>2 DEF RowRight, Parks
<1>8. RowInv'
  <2>1. Unmarked(r)'
    BY <1>2, <1>3 DEF RowRight, Unmarked, RowsOf
  <2>2. RowRight(r)'
    BY <1>6, <1>7, <2>1 DEF RowRight
  <2>3. \A i \in Request \ {r} :
           status'[i] = status[i] /\ park'[i] = park[i] /\ wanted'[i] = wanted[i]
    BY <1>1, RowTypes
  <2>4. QED
    BY <1>3, <2>2, <2>3, OtherRows
<1>9. Intent!Withdraw(r, keep)
  <2>1. [j \in Job |-> IntentOf(job'[j].state)] =
          [j \in Job |-> IF j \in Intent!Open(r) /\ j[2] \notin keep THEN "dropped"
                         ELSE IntentOf(job[j].state)]
    <3> SUFFICES ASSUME NEW j \in Job
                 PROVE  IntentOf(job'[j].state) =
                           IF j[1] = r /\ IntentOf(job[j].state) = "open" /\ j[2] \notin keep
                           THEN "dropped" ELSE IntentOf(job[j].state)
      BY DEF Intent!Open, Intent!Job, Job
    <3>1. job'[j].state = IF j[1] = r /\ j[2] \notin keep /\ job[j].state \notin {"absent", "complete"}
                          THEN "cancelled" ELSE job[j].state
      BY <1>3
    <3>2. QED
      BY <3>1, Intents DEF Ended, Settled
  <2>2. {j \in Job : job'[j].started} = {j \in Job : job[j].started}
    BY <1>3
  <2>3. \A f \in keep : <<r, f>> \in Job /\
            (IntentOf(job'[<<r, f>>].state) = "delivered" <=> job'[<<r, f>>].state = "complete")
    BY <1>4, Intents DEF Job
  <2>4. status' = [status EXCEPT ![r] =
            IF \A f \in keep : [j \in Job |-> IntentOf(job'[j].state)][<<r, f>>] = "delivered"
            THEN "requested" ELSE "pending"]
    BY <1>1, <1>4, <1>6, <2>3, RowTypes
  <2>5. QED
    BY <1>1, <1>4, <2>1, <2>2, <2>4 DEF Intent!Withdraw, Intent!Follow, Intent!Job, Job
<1>10. QED
  BY <1>8, <1>9 DEF RowStep, Intent!Next
\* What the two transactions that complete jobs have in common.
LEMMA Delivered ==
    ASSUME TypeInv, RowInv, NEW r \in Request, NEW jobs \in SUBSET RowsOf(r), jobs # {},
           status[r] = "pending", UNCHANGED wanted, Parks(r)',
           status' = [status EXCEPT ![r] = IF Unfinished(job', r) = {} THEN "requested" ELSE @],
           \A s \in Request \ {r} : park'[s] = park[s],
           \A j \in jobs : job[j].state \notin Ended /\ job'[j].state = "complete",
           \A j \in Job \ jobs : job'[j].state = job[j].state,
           \A j \in Job : job'[j].started = job[j].started
    PROVE  RowStep
<1>1. RowRight(r)
  BY DEF RowInv
<1>2. /\ wanted'[r] = wanted[r] /\ wanted[r] # {} /\ wanted[r] \subseteq Format
      /\ status'[r] = IF Unfinished(job', r) = {} THEN "requested" ELSE "pending"
  BY <1>1, RowTypes DEF RowRight, Serves
<1>3. /\ \A j \in RowsOf(r) : j[2] \in wanted[r] => job'[j].state \notin {"absent", "cancelled"}
      /\ \A j \in RowsOf(r) : job'[j].state \notin Ended => j[2] \in wanted[r]
  <2>1. \A j \in RowsOf(r) : /\ j[2] \in wanted[r] => job[j].state \notin {"absent", "cancelled"}
                             /\ job[j].state \notin Ended => j[2] \in wanted[r]
    BY <1>1 DEF RowRight, Serves
  <2>2. \A j \in RowsOf(r) : job'[j].state = job[j].state \/ job'[j].state = "complete"
    BY DEF RowsOf
  <2>3. QED
    BY <2>1, <2>2 DEF Ended, Settled
<1>4. /\ Mirrors(r)' /\ Serves(r)'
      /\ status'[r] = IF \A f \in wanted[r] : job'[<<r, f>>].state = "complete"
                      THEN "requested" ELSE "pending"
  BY <1>2, <1>3, Settles
<1>5. Unmarked(r)'
  BY <1>1 DEF RowRight, Unmarked, RowsOf
<1>6. RowInv'
  <2>1. RowRight(r)'
    BY <1>4, <1>5 DEF RowRight
  <2>2. \A s \in Request \ {r} : status'[s] = status[s]
    BY RowTypes
  <2>3. \A j \in Job : j[1] # r => job'[j].state = job[j].state
    BY DEF RowsOf
  <2>4. QED
    BY <2>1, <2>2, <2>3, OtherRows
<1>7. Intent!Deliver(r, jobs)
  <2>1. jobs \subseteq Intent!Open(r)
    BY Intents DEF Intent!Open, Intent!Job, RowsOf, Job
  <2>2. [j \in Job |-> IntentOf(job'[j].state)] =
          [j \in Job |-> IF j \in jobs THEN "delivered" ELSE IntentOf(job[j].state)]
    BY Intents
  <2>3. {j \in Job : job'[j].started} = {j \in Job : job[j].started}
    OBVIOUS
  <2>4. \A f \in wanted[r] : <<r, f>> \in Job /\
            (IntentOf(job'[<<r, f>>].state) = "delivered" <=> job'[<<r, f>>].state = "complete")
    BY <1>2, Intents DEF Job
  <2>5. status' = [status EXCEPT ![r] =
            IF \A f \in wanted'[r] : [j \in Job |-> IntentOf(job'[j].state)][<<r, f>>] = "delivered"
            THEN "requested" ELSE "pending"]
    BY <1>2, <1>4, <2>4, RowTypes
  <2>6. QED
    BY <2>1, <2>2, <2>3, <2>5 DEF Intent!Deliver, Intent!Follow, Intent!Job, Job
<1>8. QED
  <2>1. jobs \in SUBSET Intent!Open(r)
    BY <1>7 DEF Intent!Deliver
  <2>2. QED
    BY <1>6, <1>7, <2>1 DEF RowStep, Intent!Next

\* The approval reconciliation delivers what the library already has.
LEMMA ReconcileStep ==
    ASSUME TypeInv, RowInv, NEW r \in Request, ReconcileApproval(r)
    PROVE  RowStep
<1> DEFINE live == {j \in JobsOf(r) : job[j].state = "approval" /\ library[j] = "monitored"}
<1>1. /\ status[r] = "pending" /\ park[r] = "null" /\ live # {}
      /\ job' = [j \in Job |-> IF j \in live THEN [job[j] EXCEPT !.state = "complete", !.code = ""]
                               ELSE job[j]]
      /\ status' = [status EXCEPT ![r] = IF Unfinished(job', r) = {} THEN "requested" ELSE @]
      /\ park' = [park EXCEPT ![r] = IF Unfinished(job', r) = {} THEN "null" ELSE @]
      /\ UNCHANGED wanted
  BY DEF ReconcileApproval, Settle
<1>2. live \in SUBSET RowsOf(r) /\ \A j \in live : job[j].state \notin Ended
  BY DEF JobsOf, RowsOf, Ended, Settled
<1> HIDE DEF live
<1>3. ASSUME NEW j \in Job
      PROVE  /\ job'[j].state = IF j \in live THEN "complete" ELSE job[j].state
             /\ job'[j].started = job[j].started
  <2>1. job[j] \in JobRow
    BY RowTypes
  <2>2. job'[j] = IF j \in live THEN [job[j] EXCEPT !.state = "complete", !.code = ""] ELSE job[j]
    BY <1>1
  <2>3. QED
    BY <2>1, <2>2 DEF JobRow
<1>4. Parks(r)'
  <2> SUFFICES ASSUME NEW j \in RowsOf(r), job'[j].state \notin Ended
               PROVE  /\ park'[r] = "null" <=> job'[j].state = "approval"
                      /\ park'[r] = "author_import" => job'[j].state = "waiting_library"
    BY DEF Parks
  <2>1. park'[r] = "null"
    BY <1>1, RowTypes
  <2>2. job'[j].state = job[j].state
    BY <1>3 DEF RowsOf, Ended, Settled
  <2>3. QED
    BY <1>1, <2>1, <2>2 DEF RowInv, RowRight, Parks
<1>5. \A s \in Request \ {r} : park'[s] = park[s]
  BY <1>1, RowTypes
<1>6. /\ \A j \in live : job[j].state \notin Ended /\ job'[j].state = "complete"
      /\ \A j \in Job \ live : job'[j].state = job[j].state
      /\ \A j \in Job : job'[j].started = job[j].started
  BY <1>2, <1>3 DEF RowsOf
<1>7. QED
  BY <1>1, <1>2, <1>4, <1>5, <1>6, Delivered

\* finishDelivery delivers the format, or leaves it to be tried again, awaited
\* or looked at.
LEMMA FinishStep ==
    ASSUME TypeInv, RowInv, LeaseInv, NEW w \in Worker, Finish(w)
    PROVE  RowStep
<1>0. PICK k \in Job : k = worker[w].job
  BY DEF LeaseInv, TokensAreExclusive, Finish, Running, At
<1> DEFINE r == k[1]
           out == IF worker[w].out.state = "retry" /\ job[k].attempts >= MaxAttempts
                  THEN Out("attention", "") ELSE worker[w].out
           row == [job[k] EXCEPT !.state = out.state, !.code = out.code,
                     !.due = (out.state # "retry"), !.token = NoToken, !.live = FALSE]
           left == Unfinished(job', r)
<1>1. CASE ~OwnsJob(w)
  <2>1. UNCHANGED <<job, status, park, wanted>>
    BY <1>1 DEF Finish
  <2>2. RowInv'
    BY <2>1, SameRow DEF RowInv
  <2>3. QED
    BY <2>1, <2>2, Stutter DEF RowStep
<1>2. CASE OwnsJob(w)
  <2>1. job[k].state = "processing"
    BY <1>0, <1>2 DEF OwnsJob
  <2>2. InDelivery(r) /\ r \in Request
    BY <2>1, RowTypes DEF LeaseInv, InFlightNotDecided
  <2>3. out.state \in {"complete", "waiting_library", "retry", "attention"}
    <3>1. worker[w].out \in Outcome /\ worker[w].out.state # "none"
      BY DEF TypeInv, TypeOK, WorkerState, OutcomesAreReal, Finish
    <3>2. QED
      BY <3>1 DEF Outcome, Out
  <2>4. /\ job' = [job EXCEPT ![k] = row]
        /\ status' = [status EXCEPT ![r] = IF InDelivery(r) /\ left = {} THEN "requested" ELSE @]
        /\ park' = [park EXCEPT ![r] =
              IF ~InDelivery(r) THEN @
              ELSE IF left = {} THEN "null"
              ELSE IF \A i \in left : job'[i].state = "waiting_library"
              THEN "author_import" ELSE @]
        /\ UNCHANGED wanted
    BY <1>0, <1>2 DEF Finish
  <2>5. row.state = out.state /\ row.started = job[k].started
    BY <1>2, RowTypes DEF JobRow
  <2> HIDE DEF out, row, left
  <2>6. /\ job'[k].state = out.state /\ job'[k].started = job[k].started
        /\ \A j \in Job \ {k} : job'[j] = job[j]
    BY <1>2, <2>4, <2>5, RowTypes
  <2>7. /\ status' = [status EXCEPT ![r] = IF left = {} THEN "requested" ELSE @]
        /\ status[r] = "pending" /\ park[r] = "delivery"
        /\ park'[r] = IF left = {} THEN "null"
                      ELSE IF \A i \in left : job'[i].state = "waiting_library"
                      THEN "author_import" ELSE "delivery"
        /\ \A s \in Request \ {r} : park'[s] = park[s]
    BY <2>2, <2>4, RowTypes DEF InDelivery
  <2>8. RowRight(r) /\ k \in RowsOf(r)
    BY <1>2, <2>2 DEF RowInv, RowsOf
  <2>9. \A j \in RowsOf(r) : job'[j].state \notin Ended <=> j \in left
    BY DEF left, Unfinished, RowsOf, Ended
  <2>10. Parks(r)'
    <3> SUFFICES ASSUME NEW j \in RowsOf(r), job'[j].state \notin Ended
                 PROVE  /\ park'[r] = "null" <=> job'[j].state = "approval"
                        /\ park'[r] = "author_import" => job'[j].state = "waiting_library"
      BY DEF Parks
    <3>1. j \in left
      BY <2>9
    <3>2. job'[j].state # "approval"
      <4>1. CASE j = k
        BY <2>3, <2>6, <4>1
      <4>2. CASE j # k
        BY <2>6, <2>7, <2>8, <4>2 DEF RowRight, Parks, RowsOf
      <4>3. QED
        BY <4>1, <4>2
    <3>3. QED
      BY <2>7, <3>1, <3>2
  <2>11. CASE out.state = "complete"
    <3>1. job[k].state \notin Ended /\ {k} \in SUBSET RowsOf(r)
      BY <2>1, <2>8 DEF Ended, Settled
    <3> HIDE DEF r
    <3>2. QED
      BY <2>2, <2>4, <2>6, <2>7, <2>10, <2>11, <3>1, Delivered DEF left
  <2>12. CASE out.state # "complete"
    <3>1. {job[k].state, job'[k].state} \cap Ended = {}
      BY <2>1, <2>3, <2>6, <2>12 DEF Ended, Settled
    <3>2. UNCHANGED status
      BY <2>7, <2>8, <2>9, <3>1, RowTypes
    <3>3. RowRight(r)'
      <4>1. \A j \in RowsOf(r) :
              /\ job'[j].state = job[j].state \/ {job[j].state, job'[j].state} \cap Ended = {}
              /\ job'[j].state = "absent" => ~job'[j].started
        <5>1. job'[k].state # "absent"
          BY <3>1 DEF Ended
        <5>2. QED
          BY <2>6, <2>8, <3>1, <5>1 DEF RowRight, Unmarked, RowsOf
      <4>2. QED
        BY <2>2, <2>4, <2>8, <2>10, <3>2, <4>1, ShiftedRow
    <3>4. \A j \in Job : j[1] # r => job'[j].state = job[j].state /\ job'[j].started = job[j].started
      BY <2>6
    <3>5. RowInv'
      <4> HIDE DEF r
      <4>1. QED
        BY <2>2, <2>4, <2>7, <3>2, <3>3, <3>4, OtherRows
    <3>6. \A j \in Job : /\ IntentOf(job'[j].state) = IntentOf(job[j].state)
                         /\ job'[j].started = job[j].started
      <4>1. IntentOf(job'[k].state) = "open" /\ IntentOf(job[k].state) = "open"
        BY <3>1, Intents
      <4>2. QED
        BY <2>6, <4>1
    <3>7. QED
      BY <2>4, <3>2, <3>5, <3>6, Stutter DEF RowStep
  <2>13. QED
    BY <2>11, <2>12
<1>3. QED
  BY <1>1, <1>2
\* A step that moves r's unfinished jobs among the unfinished states is
\* invisible in DeliveryIntent.
LEMMA Shifted ==
    ASSUME RowInv, NEW r \in Request, Parks(r)', UNCHANGED <<status, wanted>>,
           \A s \in Request \ {r} : park'[s] = park[s],
           \A j \in Job : j[1] # r => job'[j].state = job[j].state,
           \A j \in Job : job'[j].state = job[j].state \/ {job[j].state, job'[j].state} \cap Ended = {},
           \A j \in Job : job'[j].started = job[j].started
    PROVE  RowStep
<1>1. \A j \in Job : job'[j].state = "absent" => job[j].state = "absent"
  BY DEF Ended
<1>2. RowRight(r)'
  BY <1>1, ShiftedRow DEF RowInv, RowRight, Unmarked, RowsOf
<1>3. RowInv'
  BY <1>2, OtherRows
<1>4. \A j \in Job : IntentOf(job'[j].state) = IntentOf(job[j].state)
  <2> SUFFICES ASSUME NEW j \in Job, {job[j].state, job'[j].state} \cap Ended = {}
               PROVE  IntentOf(job'[j].state) = IntentOf(job[j].state)
    OBVIOUS
  <2>1. IntentOf(job'[j].state) = "open" /\ IntentOf(job[j].state) = "open"
    BY Intents
  <2>2. QED
    BY <2>1
<1>5. QED
  BY <1>3, <1>4, Stutter DEF RowStep

\* Approval queues every format that waits for it.
LEMMA ApproveStep ==
    ASSUME TypeInv, RowInv, NEW r \in Request, Approve(r)
    PROVE  RowStep
<1>1. /\ status[r] = "pending" /\ park[r] = "null" /\ UNCHANGED <<status, wanted>>
      /\ park' = [park EXCEPT ![r] = "delivery"]
      /\ job' = [j \in Job |-> IF j[1] = r /\ job[j].state = "approval"
                               THEN [job[j] EXCEPT !.state = "queued", !.due = TRUE] ELSE job[j]]
  BY DEF Approve
<1>2. ASSUME NEW j \in Job
      PROVE  /\ job'[j].state = IF j[1] = r /\ job[j].state = "approval" THEN "queued" ELSE job[j].state
             /\ job'[j].started = job[j].started
  <2>1. job[j] \in JobRow
    BY RowTypes
  <2>2. QED
    BY <1>1, <2>1 DEF JobRow
<1>3. Parks(r)'
  <2>1. park'[r] = "delivery" /\ RowRight(r)
    BY <1>1, RowTypes DEF RowInv
  <2>2. \A j \in RowsOf(r) : job'[j].state \notin Ended => job'[j].state = "queued"
    BY <1>1, <1>2, <2>1 DEF RowRight, Parks, RowsOf
  <2>3. QED
    BY <2>1, <2>2 DEF Parks
<1>4. \A s \in Request \ {r} : park'[s] = park[s]
  BY <1>1, RowTypes
<1>5. \A j \in Job : /\ job'[j].state = job[j].state \/ {job[j].state, job'[j].state} \cap Ended = {}
                     /\ j[1] # r => job'[j].state = job[j].state
                     /\ job'[j].started = job[j].started
  BY <1>2 DEF Ended, Settled
<1>6. QED
  BY <1>1, <1>3, <1>4, <1>5, Shifted

\* Only a request in delivery has jobs to retry, and they are queued again.
LEMMA RetryStep ==
    ASSUME TypeInv, RowInv, NEW r \in Request, NEW formats \in SUBSET Format,
           RetryDelivery(r, formats)
    PROVE  RowStep
<1> DEFINE Again(j) == j[1] = r /\ j[2] \in formats /\ job[j].state \in {"attention", "retry"}
           s == IF park[r] = "null" THEN "approval" ELSE "queued"
           New(j) == [job[j] EXCEPT !.state = s, !.attempts = 0, !.due = TRUE,
                                    !.code = IF @ = "" THEN "" ELSE "manual_import_retry"]
<1>1. /\ status[r] = "pending" /\ UNCHANGED <<status, park, wanted>>
      /\ \E f \in formats : job[<<r, f>>].state \in {"attention", "retry"}
      /\ job' = [j \in Job |-> IF Again(j) THEN New(j) ELSE job[j]]
  BY DEF RetryDelivery
<1>2. ASSUME NEW j \in Job PROVE New(j).state = s /\ New(j).started = job[j].started
  <2>1. job[j] \in JobRow
    BY RowTypes
  <2>2. QED
    BY <2>1 DEF JobRow
<1> HIDE DEF New
<1>3. ASSUME NEW j \in Job
      PROVE  /\ job'[j].state = IF Again(j) THEN s ELSE job[j].state
             /\ job'[j].started = job[j].started
  BY <1>1, <1>2
<1>4. park[r] = "delivery" /\ RowRight(r)
  <2>1. PICK f \in formats : job[<<r, f>>].state \in {"attention", "retry"}
    BY <1>1
  <2>2. <<r, f>> \in RowsOf(r) /\ job[<<r, f>>].state \notin Ended
    BY <2>1 DEF RowsOf, Job, Ended, Settled
  <2>3. RowRight(r) /\ park[r] # "null" /\ park[r] # "author_import"
    BY <1>1, <2>1, <2>2 DEF RowInv, RowRight, Parks
  <2>4. QED
    BY <2>3, RowTypes
<1>5. Parks(r)'
  <2>1. \A j \in RowsOf(r) : job[j].state \notin Ended => job[j].state # "approval"
    BY <1>1, <1>4 DEF RowRight, Parks
  <2>2. \A j \in RowsOf(r) : job'[j].state \notin Ended => job'[j].state # "approval"
    BY <1>3, <1>4, <2>1 DEF RowsOf
  <2>3. park'[r] = "delivery"
    BY <1>1, <1>4
  <2>4. QED
    BY <2>2, <2>3 DEF Parks
<1>6. \A j \in Job : /\ job'[j].state = job[j].state \/ {job[j].state, job'[j].state} \cap Ended = {}
                     /\ j[1] # r => job'[j].state = job[j].state
                     /\ job'[j].started = job[j].started
  BY <1>3, <1>4 DEF Ended, Settled
<1>7. QED
  BY <1>1, <1>5, <1>6, Shifted

\* The import sweep wakes every job that waits, and takes the request off the
\* import.
LEMMA ApplyImportStep ==
    ASSUME TypeInv, RowInv, SweepNamed, ApplyImport
    PROVE  RowStep
<1>1. PICK r : r = sweep.req
  OBVIOUS
<1>2. sweep \in SweepState /\ sweep # NoSweep
  BY RowTypes DEF ApplyImport
<1>3. CASE r \in Request /\ status[r] = "pending"
  <2> DEFINE New(j) == [job[j] EXCEPT !.state = sweep.out.state, !.code = sweep.out.code, !.due = TRUE]
  <2>1. PICK s \in {"queued", "attention"} : s = sweep.out.state
    BY <1>2 DEF SweepState
  <2>2. /\ job' = [j \in Job |-> IF j \in Waiting(r) THEN New(j) ELSE job[j]]
        /\ park' = [park EXCEPT ![r] = IF @ = "author_import" THEN "delivery" ELSE @]
        /\ UNCHANGED <<status, wanted>>
    BY <1>1, <1>3 DEF ApplyImport
  <2>3. ASSUME NEW j \in Job PROVE New(j).state = s /\ New(j).started = job[j].started
    <3>1. job[j] \in JobRow
      BY RowTypes
    <3>2. QED
      BY <2>1, <3>1 DEF JobRow
  <2> HIDE DEF New
  <2>4. ASSUME NEW j \in Job
        PROVE  /\ job'[j].state = IF j[1] = r /\ job[j].state = "waiting_library" THEN s ELSE job[j].state
               /\ job'[j].started = job[j].started
    BY <2>2, <2>3 DEF Waiting, JobsOf
  <2>5. park'[r] = IF park[r] = "author_import" THEN "delivery" ELSE park[r]
    BY <1>3, <2>2, RowTypes
  <2>6. Parks(r)'
    <3> SUFFICES ASSUME NEW j \in RowsOf(r), job'[j].state \notin Ended
                 PROVE  /\ park'[r] = "null" <=> job'[j].state = "approval"
                        /\ park'[r] = "author_import" => job'[j].state = "waiting_library"
      BY DEF Parks
    <3>1. job[j].state \notin Ended
      BY <2>4 DEF RowsOf, Ended, Settled
    <3>2. park[r] = "null" <=> job[j].state = "approval"
      BY <1>3, <3>1 DEF RowInv, RowRight, Parks
    <3>3. job'[j].state = IF job[j].state = "waiting_library" THEN s ELSE job[j].state
      BY <2>4 DEF RowsOf
    <3>4. QED
      BY <2>5, <3>2, <3>3
  <2>7. \A i \in Request \ {r} : park'[i] = park[i]
    BY <2>2, RowTypes
  <2>8. \A j \in Job : /\ job'[j].state = job[j].state \/ {job[j].state, job'[j].state} \cap Ended = {}
                       /\ j[1] # r => job'[j].state = job[j].state
                       /\ job'[j].started = job[j].started
    BY <2>4 DEF Ended, Settled
  <2>9. QED
    BY <1>3, <2>2, <2>6, <2>7, <2>8, Shifted
<1>4. CASE r \in Request /\ status[r] # "pending"
  <2>1. UNCHANGED <<job, park, status, wanted>>
    BY <1>1, <1>4 DEF ApplyImport
  <2>2. RowInv'
    BY <2>1, SameRow DEF RowInv
  <2>3. QED
    BY <2>1, <2>2, Stutter DEF RowStep
<1>5. QED
  BY <1>1, <1>2, <1>3, <1>4 DEF SweepNamed
\* A claim takes a job that is queued, to be tried again or left behind, of a
\* request in delivery.
LEMMA ClaimStep ==
    ASSUME TypeInv, RowInv, NEW w \in Worker, NEW k \in Job, Claim(w, k)
    PROVE  RowStep
<1> DEFINE r == k[1]
<1>1. /\ status[r] = "pending" /\ park[r] = "delivery" /\ r \in Request
      /\ job[k].state \in {"queued", "retry", "processing"}
      /\ UNCHANGED <<status, park, wanted>>
  BY RowTypes DEF Claim, InDelivery, Due
<1>2. /\ job'[k].state = "processing" /\ job'[k].started = job[k].started
      /\ \A j \in Job \ {k} : job'[j] = job[j]
  BY RowTypes DEF Claim, JobRow
<1>3. Parks(r)'
  <2>1. RowRight(r) /\ k \in RowsOf(r)
    BY <1>1 DEF RowInv, RowsOf
  <2>2. \A j \in RowsOf(r) : job'[j].state \notin Ended => job'[j].state # "approval"
    BY <1>1, <1>2, <2>1 DEF RowRight, Parks, RowsOf
  <2>3. park'[r] = "delivery"
    BY <1>1
  <2>4. QED
    BY <2>2, <2>3 DEF Parks
<1>4. \A j \in Job : /\ job'[j].state = job[j].state \/ {job[j].state, job'[j].state} \cap Ended = {}
                     /\ j[1] # r => job'[j].state = job[j].state
                     /\ job'[j].started = job[j].started
  BY <1>1, <1>2 DEF Ended, Settled
<1>5. QED
  BY <1>1, <1>3, <1>4, Shifted

\* A step that changes no request row and no job's state or marker does
\* nothing here.
LEMMA QuietStep ==
    ASSUME RowInv, UNCHANGED <<status, park, wanted>>,
           \A j \in Job : job'[j].state = job[j].state /\ job'[j].started = job[j].started
    PROVE  RowStep
<1>1. RowInv'
  BY SameRow DEF RowInv, RowsOf
<1>2. QED
  BY <1>1, Stutter DEF RowStep

\* The guard marks a job whose request is in delivery before the library is
\* asked for it.
LEMMA GuardStep ==
    ASSUME TypeInv, RowInv, LeaseInv, NEW w \in Worker, Guard(w)
    PROVE  RowStep
<1>1. UNCHANGED <<status, park, wanted>>
  BY DEF Guard
<1>2. CASE UNCHANGED job
  BY <1>1, <1>2, QuietStep
<1>3. CASE /\ HoldsLease(w) /\ InDelivery(worker[w].job[1])
           /\ job' = [job EXCEPT ![worker[w].job].started = TRUE]
  <2>1. PICK k \in Job : k = worker[w].job
    BY DEF LeaseInv, TokensAreExclusive, Guard, Running, At
  <2>2. job[k].state = "processing" /\ status[k[1]] = "pending" /\ k[1] \in Request
    BY <1>3, <2>1, RowTypes DEF HoldsLease, OwnsJob, InDelivery
  <2>3. /\ job'[k].state = job[k].state /\ job'[k].started
        /\ \A j \in Job \ {k} : job'[j] = job[j]
    BY <1>3, <2>1, RowTypes DEF JobRow
  <2>4. RowInv'
    <3>1. RowRight(k[1])'
      <4>1. RowRight(k[1])
        BY <2>2 DEF RowInv
      <4>2. \A j \in Job : job'[j].state = job[j].state
        BY <2>3
      <4>3. Mirrors(k[1])' /\ Serves(k[1])' /\ Parks(k[1])'
        BY <1>1, <4>1, <4>2 DEF RowRight, Mirrors, Serves, Parks, RowsOf
      <4>4. Unmarked(k[1])'
        BY <2>2, <2>3, <4>1 DEF RowRight, Unmarked, RowsOf
      <4>5. QED
        BY <4>3, <4>4 DEF RowRight
    <3>2. QED
      BY <1>1, <2>2, <2>3, <3>1, OtherRows
  <2>5. Intent!Touch(k)
    <3>1. IntentOf(job[k].state) = "open"
      BY <2>2, Intents DEF Ended, Settled
    <3>2. [j \in Job |-> IntentOf(job'[j].state)] = [j \in Job |-> IntentOf(job[j].state)]
      BY <2>3
    <3>3. {j \in Job : job'[j].started} = {j \in Job : job[j].started} \union {k}
      BY <2>3
    <3>4. QED
      BY <1>1, <2>2, <3>1, <3>2, <3>3 DEF Intent!Touch
  <2>6. QED
    BY <2>4, <2>5 DEF RowStep, Intent!Next, Intent!Job, Job
<1>4. QED
  BY <1>2, <1>3 DEF Guard

\* Only the sweep that reads a request's import remembers one.
LEMMA SweepStays == ASSUME SweepNamed, [Next]_vars PROVE SweepNamed'
<1>1. CASE (\E r \in Request : ReadImport(r)) \/ ApplyImport \/ Crash
  <2>1. ASSUME NEW r \in Request, ReadImport(r) PROVE sweep'.req = r
    BY <2>1 DEF ReadImport
  <2>2. ASSUME ApplyImport \/ Crash PROVE sweep' = NoSweep
    BY <2>2 DEF ApplyImport, Crash
  <2>3. QED
    BY <1>1, <2>1, <2>2 DEF SweepNamed
<1>2. CASE UNCHANGED sweep
  BY <1>2 DEF SweepNamed
<1>3. ASSUME NEW r \in Request, UserStep(r) \/ HandlerStep(r) \/ ReconcileApproval(r)
      PROVE  UNCHANGED sweep
  BY <1>3 DEF UserStep, HandlerStep, Create, Approve, RetryDelivery, LoadDecision, Deny,
              CancelDelivery, Close, Unsubscribe, RefuseDecision, CheckCleanUp, CancelImport,
              ReconcileApproval
<1>4. ASSUME NEW w \in Worker, \/ WorkerStep(w) \/ Abandon(w) \/ RenewJob(w) \/ RenewLock(w)
                               \/ \E j \in Job : Claim(w, j)
      PROVE  UNCHANGED sweep
  BY <1>4 DEF WorkerStep, Load, Probe, CheckHeld, ReadLibrary, Local, Guard, Write, Finish, Release,
              Abandon, RenewJob, RenewLock, Claim
<1>5. ASSUME EnvironmentStep PROVE UNCHANGED sweep
  BY <1>5 DEF EnvironmentStep, ExpireJob, ExpireLock, BackoffEnds, AddedByHand, LibraryStep,
              ImportLands, ImportFails, ImportCancelled, Outside, vars
<1>6. QED
  BY <1>1, <1>2, <1>3, <1>4, <1>5 DEF Next, SweepStep, EnvironmentStep

\* Every step keeps the rows right and is a step of DeliveryIntent.
LEMMA SettlementStep ==
    ASSUME TypeInv, LeaseInv, RowInv, SweepNamed, [Next]_vars
    PROVE  RowStep
<1>1. ASSUME NEW r \in Request, UserStep(r) PROVE RowStep
  <2>1. CASE LoadDecision(r)
    BY <2>1, QuietStep DEF LoadDecision
  <2>2. CASE Deny(r) \/ CancelDelivery(r)
    BY <2>2, CloseStep DEF Deny, CancelDelivery
  <2>3. ASSUME NEW formats \in {Format} \union {{f} : f \in Format}, RetryDelivery(r, formats)
        PROVE  RowStep
    <3>1. formats \in SUBSET Format
      OBVIOUS
    <3>2. QED
      BY <2>3, <3>1, RetryStep
  <2>4. QED
    BY <1>1, <2>1, <2>2, <2>3, CreateStep, ApproveStep, UnsubscribeStep DEF UserStep
<1>2. ASSUME NEW r \in Request, HandlerStep(r) \/ ReadImport(r) PROVE RowStep
  <2>1. UNCHANGED <<status, park, wanted, job>>
    BY <1>2 DEF HandlerStep, RefuseDecision, CheckCleanUp, CancelImport, ReadImport
  <2>2. QED
    BY <2>1, QuietStep
<1>3. ASSUME NEW w \in Worker, WorkerStep(w) \/ Abandon(w) \/ RenewJob(w) \/ RenewLock(w)
      PROVE  RowStep
  <2>1. CASE Finish(w) \/ Guard(w)
    BY <2>1, FinishStep, GuardStep
  <2>2. CASE ~Finish(w) /\ ~Guard(w)
    <3>1. UNCHANGED <<status, park, wanted>>
      BY <1>3, <2>2 DEF WorkerStep, Load, Probe, CheckHeld, ReadLibrary, Local, Write, Release,
                        Abandon, RenewJob, RenewLock
    <3>2. job' = job \/ job' = [job EXCEPT ![worker[w].job].live = TRUE]
      BY <1>3, <2>2 DEF WorkerStep, Load, Probe, CheckHeld, ReadLibrary, Local, Write, Release,
                        Abandon, RenewJob, RenewLock
    <3>3. \A j \in Job : job'[j].state = job[j].state /\ job'[j].started = job[j].started
      BY <3>2, RowTypes DEF JobRow
    <3>4. QED
      BY <3>1, <3>3, QuietStep
  <2>3. QED
    BY <2>1, <2>2
<1>4. ASSUME EnvironmentStep PROVE RowStep
  <2>1. ASSUME NEW k \in Job, ExpireJob(k) \/ BackoffEnds(k) PROVE RowStep
    <3>1. /\ UNCHANGED <<status, park, wanted>>
          /\ job' = [job EXCEPT ![k].live = FALSE] \/ job' = [job EXCEPT ![k].due = TRUE]
      BY <2>1 DEF ExpireJob, BackoffEnds
    <3>2. \A j \in Job : job'[j].state = job[j].state /\ job'[j].started = job[j].started
      BY <3>1, RowTypes DEF JobRow
    <3>3. QED
      BY <3>1, <3>2, QuietStep
  <2>2. ASSUME UNCHANGED <<status, park, wanted, job>> PROVE RowStep
    BY <2>2, QuietStep
  <2>3. QED
    BY <1>4, <2>1, <2>2 DEF EnvironmentStep, AddedByHand, ExpireLock, LibraryStep, ImportLands,
                            ImportFails, ImportCancelled, Outside, vars
<1>5. CASE Crash
  BY <1>5, QuietStep DEF Crash
<1>6. QED
  BY <1>1, <1>2, <1>3, <1>4, <1>5, ReconcileStep, ApplyImportStep, ClaimStep
     DEF Next, SweepStep, EnvironmentStep

\* A request that was never submitted has no jobs and wants nothing.
LEMMA SettlementInit == Init => RowInv /\ SweepNamed
<1>1. NewJob("absent").state = "absent" /\ ~NewJob("absent").started
  BY DEF NewJob
<1>2. Init => \A j \in Job : job[j].state = "absent" /\ ~job[j].started
  BY <1>1 DEF Init
<1>3. Init => \A r \in Request : status[r] = "none"
  BY DEF Init
<1>4. Init => RowInv
  BY <1>2, <1>3 DEF RowInv, RowRight, Mirrors, Serves, Parks, Unmarked, RowsOf, Ended
<1>5. QED
  BY <1>4 DEF Init, SweepNamed

SettlementInv == TypeInv /\ LeaseInv /\ RowInv /\ SweepNamed

\* All of it holds in every reachable state.
LEMMA SettlementHolds == Spec => []SettlementInv
<1>1. Init => SettlementInv
  BY TypeInit, LeaseInit, SettlementInit DEF SettlementInv
<1>2. SettlementInv /\ [Next]_vars => SettlementInv'
  BY LeaseStep, SettlementStep, SweepStays DEF SettlementInv, RowStep
<1>3. QED
  BY <1>1, <1>2, PTL DEF Spec

\* A request row and its jobs never disagree on whether anything is left to
\* do, whichever of the transactions runs between whichever steps.
THEOREM RowsMirrorJobs == Spec => []RequestMirrorsJobs
<1>1. SettlementInv => RequestMirrorsJobs
  <2> SUFFICES ASSUME SettlementInv, NEW r \in Request
               PROVE  /\ status[r] = "none" <=> JobsOf(r) = {}
                      /\ status[r] = "pending" <=> Unfinished(job, r) # {}
    BY DEF RequestMirrorsJobs
  <2>1. Mirrors(r)
    BY DEF SettlementInv, RowInv, RowRight
  <2>2. QED
    BY <2>1 DEF Mirrors, RowsOf, JobsOf, Unfinished, Ended
<1>2. QED
  BY SettlementHolds, <1>1, PTL

\* A request is delivered only when every format still wanted is complete.
THEOREM DeliveredIsWanted == Spec => []DeliversWhatIsWanted
<1>1. SettlementInv => DeliversWhatIsWanted
  <2> SUFFICES ASSUME SettlementInv, NEW r \in Request, status[r] = "requested"
               PROVE  wanted[r] # {} /\ \A f \in wanted[r] : job[<<r, f>>].state = "complete"
    BY DEF DeliversWhatIsWanted
  <2>1. Mirrors(r) /\ Serves(r) /\ wanted[r] \subseteq Format
    BY RowTypes DEF SettlementInv, RowInv, RowRight
  <2>2. \A f \in wanted[r] : <<r, f>> \in RowsOf(r) /\ <<r, f>>[2] = f
    BY <2>1 DEF RowsOf, Job
  <2>3. QED
    BY <2>1, <2>2 DEF Mirrors, Serves, Ended, Settled
<1>2. QED
  BY SettlementHolds, <1>1, PTL

\* park_reason always says who has to act on what is left.
THEOREM ParkHolds == Spec => []ParkMatchesJobs
<1>1. SettlementInv => ParkMatchesJobs
  BY DEF SettlementInv, RowInv, RowRight, Parks, ParkMatchesJobs, Unfinished, RowsOf, Ended
<1>2. QED
  BY SettlementHolds, <1>1, PTL

\* Jobs, leases, guards, retries, sweeps, stalls and crashes together do what
\* DeliveryIntent promises.
THEOREM IntentImplemented == Spec => ImplementsIntent
<1>1. Init => Intent!Init
  <2>1. NewJob("absent").state = "absent" /\ ~NewJob("absent").started
    BY DEF NewJob
  <2>2. Init => \A j \in Job : IntentOf(job[j].state) = "none" /\ ~job[j].started
    BY <2>1, Intents DEF Init
  <2>3. QED
    BY <2>2 DEF Init, Intent!Init, Intent!Job, Job
<1>2. SettlementInv /\ [Next]_vars => [Intent!Next]_(Intent!vars)
  BY SettlementStep DEF SettlementInv, RowStep
<1>3. QED
  BY SettlementHolds, <1>1, <1>2, PTL DEF Spec, ImplementsIntent, Intent!Spec

=============================================================================
