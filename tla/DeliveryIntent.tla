--------------------------- MODULE DeliveryIntent ---------------------------
(***************************************************************************)
(* What durable request delivery promises, without jobs, leases, workers,  *)
(* sweeps or crashes: a saved request is open until every format somebody  *)
(* still wants is delivered, or until it is refused as a whole; a format   *)
(* is decided once; and the library is only ever asked for a format that   *)
(* is still open.  RequestDispatch implements this module.                 *)
(***************************************************************************)
CONSTANTS Request, Format

VARIABLES
    status,     \* request_log.status
    wanted,     \* the formats the request's subscribers want
    intent,     \* per format: none, open, delivered or dropped
    touched     \* formats the library may have been asked for

vars == <<status, wanted, intent, touched>>

Job == Request \X Format

Init ==
    /\ status = [r \in Request |-> "none"]
    /\ wanted = [r \in Request |-> {}]
    /\ intent = [j \in Job |-> "none"]
    /\ touched = {}

Open(r) == {j \in Job : j[1] = r /\ intent[j] = "open"}

\* The request follows its formats in the same step.
Follow(r) ==
    status' = [status EXCEPT ![r] =
        IF \A f \in wanted'[r] : intent'[<<r, f>>] = "delivered" THEN "requested" ELSE "pending"]

Submit(r, formats, owned) ==
    /\ status[r] = "none" /\ formats # {} /\ owned \subseteq formats
    /\ wanted' = [wanted EXCEPT ![r] = formats]
    /\ intent' = [j \in Job |-> IF j[1] # r \/ j[2] \notin formats THEN intent[j]
                                ELSE IF j[2] \in owned THEN "delivered" ELSE "open"]
    /\ Follow(r)
    /\ UNCHANGED touched

Touch(j) ==
    /\ status[j[1]] = "pending" /\ intent[j] = "open"
    /\ touched' = touched \union {j}
    /\ UNCHANGED <<status, wanted, intent>>

Deliver(r, jobs) ==
    /\ status[r] = "pending" /\ jobs # {} /\ jobs \subseteq Open(r)
    /\ intent' = [j \in Job |-> IF j \in jobs THEN "delivered" ELSE intent[j]]
    /\ Follow(r)
    /\ UNCHANGED <<wanted, touched>>

Withdraw(r, keep) ==
    /\ status[r] = "pending" /\ keep # {} /\ keep \subseteq wanted[r]
    /\ wanted' = [wanted EXCEPT ![r] = keep]
    /\ intent' = [j \in Job |-> IF j \in Open(r) /\ j[2] \notin keep THEN "dropped" ELSE intent[j]]
    /\ Follow(r)
    /\ UNCHANGED touched

Refuse(r) ==
    /\ status[r] = "pending"
    /\ intent' = [j \in Job |-> IF j \in Open(r) THEN "dropped" ELSE intent[j]]
    /\ status' = [status EXCEPT ![r] = "denied"]
    /\ UNCHANGED <<wanted, touched>>

Next ==
    \/ \E r \in Request, formats, owned \in SUBSET Format : Submit(r, formats, owned)
    \/ \E j \in Job : Touch(j)
    \/ \E r \in Request : \E jobs \in SUBSET Open(r) : Deliver(r, jobs)
    \/ \E r \in Request, keep \in SUBSET Format : Withdraw(r, keep)
    \/ \E r \in Request : Refuse(r)

Spec == Init /\ [][Next]_vars
=============================================================================
