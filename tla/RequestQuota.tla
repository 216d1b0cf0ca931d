---------------------------- MODULE RequestQuota ----------------------------
(***************************************************************************)
(* Allowance accounting of shared book requests (requestquota/service.go,  *)
(* and the transactions of internal/request that call it).                 *)
(*                                                                         *)
(* Several users subscribe to one pending request; each pays for their own *)
(* subscription with a charge, recorded by an item per request, user and   *)
(* format.  A charge may carry several items and is refunded only if none  *)
(* of them is in use and no delivery could have begun.  All requests here  *)
(* are for one title of one instance, so a unit is its format.  Delivery   *)
(* itself (RequestDispatch) is reduced to the transactions that touch the  *)
(* accounting.  A charge's age is the number of allowance windows it has    *)
(* left (1, 7 and 30 days, numbered from the shortest), so it depends on   *)
(* the rule in force whether it counts, and a wider window brings it back. *)
(*                                                                         *)
(* As in RequestDispatch, a definition just before another with the same   *)
(* parameters that differs from it by one mistake is a mutant of it.       *)
(***************************************************************************)
EXTENDS Naturals, FiniteSets

CONSTANTS
    User, Admin,    \* accounts; admins are exempt from allowances
    Request,        \* rows of request_log
    Format,         \* ebook, audiobook: units and allowance keys
    MaxCharges,     \* bound on rows of request_quota_charges
    MaxWindow,      \* the longest window
    Settings,       \* bound on what defaults and overrides come to: the rule,
                    \* a count and a window, of every user for every format
    NoUser,         \* the user of an unused charge row
    NoFormat        \* the format of an unused charge row

Charge == 1 .. MaxCharges
NoCharge == 0

ASSUME ConstantsAssumption ==
    /\ Admin \subseteq User
    /\ MaxCharges \in Nat /\ MaxWindow \in Nat
    /\ Settings \subseteq [User \X Format -> [count : Nat, window : 1 .. MaxWindow]]
    /\ NoUser \notin User /\ NoFormat \notin Format
    /\ IsFiniteSet(Format)

VARIABLES
    status,     \* request_log.status
    wanted,     \* request_log.book_format
    subs,       \* book_request_waiters
    job,        \* request_dispatch: state and delivery_started_at > 0
    item,       \* request_quota_items
    charge,     \* request_quota_charges
    rule        \* user_request_quotas, falling back to the defaults

vars == <<status, wanted, subs, job, item, charge, rule>>

Item == Request \X User \X Format
Job == Request \X Format

NoItem == [exists |-> FALSE, released |-> FALSE, started |-> FALSE, charge |-> NoCharge]
NewCharge(u, f) == [user |-> u, format |-> f, age |-> 0, reset |-> FALSE,
                    refunded |-> FALSE]

TypeOK ==
    /\ status \in [Request -> {"none", "pending", "requested", "denied"}]
    /\ wanted \in [Request -> SUBSET Format]
    /\ subs \in [Request -> [User -> SUBSET Format]]
    /\ job \in [Job -> [state : {"absent", "open", "processing", "complete", "cancelled"},
                        started : BOOLEAN]]
    /\ item \in [Item -> [exists : BOOLEAN, released : BOOLEAN, started : BOOLEAN,
                          charge : Charge \union {NoCharge}]]
    /\ charge \in [Charge -> [user : User \union {NoUser}, format : Format \union {NoFormat},
                              age : 0 .. MaxWindow, reset : BOOLEAN, refunded : BOOLEAN]]
    /\ rule \in Settings

Init ==
    /\ status = [r \in Request |-> "none"]
    /\ wanted = [r \in Request |-> {}]
    /\ subs = [r \in Request |-> [u \in User |-> {}]]
    /\ job = [j \in Job |-> [state |-> "absent", started |-> FALSE]]
    /\ item = [i \in Item |-> NoItem]
    /\ charge = [c \in Charge |-> NewCharge(NoUser, NoFormat)]
    /\ rule \in Settings

-----------------------------------------------------------------------------
InUse(i) == item[i].exists /\ ~item[i].released
Uses(its, i, c) == its[i].exists /\ its[i].charge = c

Settled == {"absent", "complete", "cancelled"}
Processing(r) == \E f \in Format : job[<<r, f>>].state = "processing"
NothingLeft(jobs, r) == \A f \in Format : jobs[<<r, f>>].state \in Settled

\* Read: what counts against a user's allowance for a format, by the window
\* in force.
Recent(c, u, f) == charge[c].age < rule[<<u, f>>].window
Counted(c, u, f) ==
    /\ charge[c].user = u /\ charge[c].format = f
    /\ Recent(c, u, f) /\ ~charge[c].refunded /\ ~charge[c].reset
Used(u, f) == Cardinality({c \in Charge : Counted(c, u, f)})

\* Price: an unrefunded charge is reused inside its window, and for as long as
\* identical work is pending; a reset returns allowance, not the charge.
ReusableRefunded(u, f) ==
    {c \in Charge : charge[c].user = u /\ charge[c].format = f /\ Recent(c, u, f)}
Reusable(u, f) ==
    {c \in Charge :
        /\ charge[c].user = u /\ charge[c].format = f /\ ~charge[c].refunded
        /\ \/ Recent(c, u, f)
           \/ \E r \in Request : /\ status[r] = "pending"
                                 /\ InUse(<<r, u, f>>) /\ item[<<r, u, f>>].charge = c}
LimitReached(u, costs) == u \in Admin \/ \A f \in costs : Used(u, f) <= rule[<<u, f>>].count
\* Failure: does every new charge fit its allowance?
Fits(u, costs) == u \in Admin \/ \A f \in costs : Used(u, f) < rule[<<u, f>>].count
Newest(C) == CHOOSE c \in C : \A d \in C : d <= c

\* Release: items of some users and formats of a request, then the refunds.
ReleasedForAll(r, users, formats) ==
    [i \in Item |-> IF i[1] = r /\ i[3] \in formats /\ InUse(i)
                    THEN [item[i] EXCEPT !.released = TRUE] ELSE item[i]]
Released(r, users, formats) ==
    [i \in Item |-> IF i[1] = r /\ i[2] \in users /\ i[3] \in formats /\ InUse(i)
                    THEN [item[i] EXCEPT !.released = TRUE] ELSE item[i]]
RefundedLocally(its, r) ==
    [c \in Charge |->
        IF /\ \E i \in Item : i[1] = r /\ Uses(its, i, c)
           /\ \A i \in Item : i[1] = r /\ Uses(its, i, c) => its[i].released /\ ~its[i].started
        THEN [charge[c] EXCEPT !.refunded = TRUE] ELSE charge[c]]
Refunded(its, r) ==
    [c \in Charge |->
        IF /\ \E i \in Item : i[1] = r /\ Uses(its, i, c)
           /\ \A i \in Item : Uses(its, i, c) => its[i].released /\ ~its[i].started
        THEN [charge[c] EXCEPT !.refunded = TRUE] ELSE charge[c]]
Release(r, users, formats) ==
    /\ item' = Released(r, users, formats)
    /\ charge' = Refunded(item', r)

-----------------------------------------------------------------------------
(* Intake: saveDelivery with Price and Accept, one transaction. *)

CoveringIdle(f) == {r \in Request : status[r] = "pending" /\ f \in wanted[r] /\ ~Processing(r)}
Covering(f) == {r \in Request : status[r] = "pending" /\ f \in wanted[r]}

\* "new" is the row the formats nobody is waiting for would get; "free" are
\* those of them the library preflight found, which runs only when the
\* selection would not fit.
Submit(u, formats, free, new) ==
    LET missing == {f \in formats : Covering(f) = {}}
        RowOf(f) == IF f \in missing THEN new ELSE CHOOSE r \in Covering(f) : TRUE
        accepted == {f \in formats : ~InUse(<<RowOf(f), u, f>>)}
        ToPay(without) == {f \in accepted \ without : Reusable(u, f) = {}}
        unused == {c \in Charge : charge[c].user = NoUser}
        id == CHOOSE g \in [ToPay(free) -> unused] :
                 \A f, h \in ToPay(free) : g[f] = g[h] => f = h
        ChargeOf(f) == IF f \in free THEN NoCharge
                       ELSE IF Reusable(u, f) # {} THEN Newest(Reusable(u, f)) ELSE id[f]
    IN /\ formats # {} /\ free \subseteq missing
       /\ missing # {} => status[new] = "none"
       /\ free # {} => ~Fits(u, ToPay({}))
       /\ Fits(u, ToPay(free))
       /\ Cardinality(ToPay(free)) <= Cardinality(unused)
       /\ job' = [j \in Job |-> IF j[1] = new /\ j[2] \in missing
                    THEN [state |-> IF j[2] \in free THEN "complete" ELSE "open", started |-> FALSE]
                    ELSE job[j]]
       /\ status' = IF missing = {} THEN status
                    ELSE [status EXCEPT ![new] = IF free = missing THEN "requested" ELSE "pending"]
       /\ wanted' = IF missing = {} THEN wanted ELSE [wanted EXCEPT ![new] = missing]
       /\ subs' = [r \in Request |-> [subs[r] EXCEPT ![u] = @ \union {f \in formats : RowOf(f) = r}]]
       /\ charge' = [c \in Charge |-> IF \E f \in ToPay(free) : id[f] = c
                        THEN NewCharge(u, CHOOSE f \in ToPay(free) : id[f] = c) ELSE charge[c]]
       /\ item' = [i \in Item |->
            IF i[2] = u /\ i[3] \in accepted /\ i[1] = RowOf(i[3])
            THEN [exists |-> TRUE, released |-> FALSE, charge |-> ChargeOf(i[3]),
                  started |-> item[i].started \/ job'[<<i[1], i[3]>>].started]
            ELSE item[i]]
       /\ UNCHANGED rule

-----------------------------------------------------------------------------
(* Delivery. *)

\* claimDelivery; the attempt ends by Retry or Complete.
Claim(r, f) ==
    /\ status[r] = "pending" /\ job[<<r, f>>].state = "open"
    /\ job' = [job EXCEPT ![<<r, f>>].state = "processing"]
    /\ UNCHANGED <<status, wanted, subs, item, charge, rule>>

Retry(r, f) ==
    /\ job[<<r, f>>].state = "processing"
    /\ job' = [job EXCEPT ![<<r, f>>].state = "open"]
    /\ UNCHANGED <<status, wanted, subs, item, charge, rule>>

\* startDelivery marks the job and every item that is in use.
StartDelivery(r, f) ==
    /\ job[<<r, f>>].state = "processing" /\ status[r] = "pending"
    /\ job' = [job EXCEPT ![<<r, f>>].started = TRUE]
    /\ item' = [i \in Item |-> IF i[1] = r /\ i[3] = f /\ InUse(i)
                               THEN [item[i] EXCEPT !.started = TRUE] ELSE item[i]]
    /\ UNCHANGED <<status, wanted, subs, charge, rule>>

\* finishDelivery and the approval reconciliation: complete, refundNoOp, settle.
Complete(r, f) ==
    /\ status[r] = "pending" /\ job[<<r, f>>].state \in {"open", "processing"}
    /\ job' = [job EXCEPT ![<<r, f>>].state = "complete"]
    /\ IF job[<<r, f>>].started THEN UNCHANGED <<item, charge>> ELSE Release(r, User, {f})
    /\ status' = [status EXCEPT ![r] = IF NothingLeft(job', r) THEN "requested" ELSE @]
    /\ UNCHANGED <<wanted, subs, rule>>

DeniedJobs(r, keep) ==
    [j \in Job |-> IF j[1] = r /\ j[2] \notin keep /\ job[j].state \notin {"absent", "complete"}
                   THEN [job[j] EXCEPT !.state = "denied"] ELSE job[j]]
CancelledJobs(r, keep) ==
    [j \in Job |-> IF j[1] = r /\ j[2] \notin keep /\ job[j].state \notin {"absent", "complete"}
                   THEN [job[j] EXCEPT !.state = "cancelled"] ELSE job[j]]

\* cancelDelivery by a subscriber while others remain.
Unsubscribe(u, r) ==
    LET others == {v \in User \ {u} : subs[r][v] # {}}
        needed == UNION {subs[r][v] : v \in others}
    IN /\ status[r] = "pending" /\ ~Processing(r)
       /\ u \notin Admin /\ subs[r][u] # {} /\ others # {}
       /\ subs' = [subs EXCEPT ![r][u] = {}]
       /\ wanted' = [wanted EXCEPT ![r] = needed]
       /\ job' = CancelledJobs(r, needed)
       /\ status' = [status EXCEPT ![r] = IF NothingLeft(job', r) THEN "requested" ELSE @]
       /\ Release(r, {u}, Format)
       /\ UNCHANGED rule

\* cancelDelivery by the last subscriber or by an admin, and DenyRequest.
Close(r, users) ==
    /\ status[r] = "pending" /\ ~Processing(r)
    /\ job' = CancelledJobs(r, {})
    /\ status' = [status EXCEPT ![r] = "denied"]
    /\ Release(r, users, Format)
    /\ UNCHANGED <<wanted, subs, rule>>

CancelAlone(u, r) ==
    /\ u \notin Admin /\ subs[r][u] # {}
    /\ \A v \in User \ {u} : subs[r][v] = {}
    /\ Close(r, {u})

Deny(r) == Close(r, User)

-----------------------------------------------------------------------------
(* Time and administration. *)

\* The age of a refunded charge matters to nothing.
LeaveWindow(c) ==
    /\ charge[c].user # NoUser /\ ~charge[c].refunded
    /\ charge[c].age < MaxWindow
    /\ charge' = [charge EXCEPT ![c].age = @ + 1]
    /\ UNCHANGED <<status, wanted, subs, job, item, rule>>

\* One transaction sets or drops overrides of one user, or sets defaults, which
\* reach the users who inherit them; charges keep their time.
Save(new) ==
    /\ rule' = new
    /\ UNCHANGED <<status, wanted, subs, job, item, charge>>

Reset(u, f) ==
    /\ charge' = [c \in Charge |->
            IF charge[c].user = u /\ charge[c].format = f /\ ~charge[c].refunded
            THEN [charge[c] EXCEPT !.reset = TRUE] ELSE charge[c]]
    /\ UNCHANGED <<status, wanted, subs, job, item, rule>>

Next ==
    \/ \E u \in User, formats, free \in SUBSET Format, new \in Request :
            Submit(u, formats, free, new)
    \/ \E r \in Request, f \in Format :
            Claim(r, f) \/ Retry(r, f) \/ StartDelivery(r, f) \/ Complete(r, f)
    \/ \E u \in User, r \in Request : Unsubscribe(u, r) \/ CancelAlone(u, r)
    \/ \E r \in Request : Deny(r)
    \/ \E c \in Charge : LeaveWindow(c)
    \/ \E new \in Settings : Save(new)
    \/ \E u \in User, f \in Format : Reset(u, f)

Spec == Init /\ [][Next]_vars

-----------------------------------------------------------------------------
(* Safety. *)

\* Accepted work is paid for by its own user's charge, and that charge has not
\* been given back: neither a sibling's cancellation nor a no-op elsewhere can
\* turn work in use into a free ride (Release).
NoFreeRide ==
    \A i \in Item : InUse(i) /\ item[i].charge # NoCharge =>
        LET c == charge[item[i].charge] IN
        c.user = i[2] /\ c.format = i[3] /\ ~c.refunded

\* "A charge is refunded only when no accepted work still uses it and no linked
\* delivery could have begun" (Release), at any later time too.
RefundsAreFinal ==
    \A c \in Charge : charge[c].refunded =>
        \A i \in Item : Uses(item, i, c) => item[i].released /\ ~item[i].started

\* Nobody waits for a pending format without an accepted item of their own.
SubscribersAreAccounted ==
    \A r \in Request, u \in User : status[r] = "pending" =>
        \A f \in subs[r][u] \intersect wanted[r] :
            \/ InUse(<<r, u, f>>)
            \/ job[<<r, f>>].state = "complete" /\ ~job[<<r, f>>].started

\* Two rows never deliver the same format at once for different people.
OneRowPerFormat ==
    \A f \in Format : \A r, s \in Covering(f) : r = s

\* Whatever is shared, refunded, reset or re-priced, no step takes a user who
\* is not exempt beyond the allowance in force (Price, Accept); only a new rule
\* may, when its wider window brings back charges that had left the old one.
NeverOverAdmitted ==
    [][\A u \in User \ Admin, f \in Format :
            Used(u, f)' > Used(u, f) /\ rule'[<<u, f>>] = rule[<<u, f>>] => Used(u, f)' <= rule[<<u, f>>].count]_vars

\* request-policy.md:52 "already available or fully monitored work do not
\* charge again": a format completed as a proven no-op holds no paid item.
NoOpIsNotCharged ==
    \A i \in Item :
        /\ InUse(i) /\ item[i].charge # NoCharge
        => ~(job[<<i[1], i[3]>>].state = "complete" /\ ~job[<<i[1], i[3]>>].started)
=============================================================================
