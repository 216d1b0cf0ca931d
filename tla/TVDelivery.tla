----------------------------- MODULE TVDelivery -----------------------------
(***************************************************************************)
(* Delivery of season and pilot requests for one series of one Sonarr      *)
(* (server/internal/request/tv_dispatch.go): what an attempt writes to the *)
(* library, step by step, and what the attempt after it makes of that.     *)
(*                                                                         *)
(* Leases and the instance lock are those of RequestDispatch; here they    *)
(* are what they guarantee, one attempt at a time on the instance.  A      *)
(* season stands for itself and its episodes; of a pilot request the       *)
(* season stands for its first episode.                                    *)
(***************************************************************************)
EXTENDS Naturals, FiniteSets

CONSTANTS
  Request,      \* request_log rows for the series, each with its own requester
  NoRequest,
  Season,       \* seasons of the series, numbered
  MaxFault      \* bound on failed calls and crashes

VARIABLES
  want,     \* request_tv_targets.snapshot: the seasons asked for, or a season's pilot
  job,      \* request_dispatch: state, delivery_started_at > 0
  paid,     \* seasons of each request whose charge is not refunded
  match,    \* requests whose saved TV match is still the current one
  phase,    \* request_tv_targets.phase
  series,   \* Sonarr: absent, adding (its add options pending), present
  watched,  \* Sonarr: series monitored
  flag,     \* Sonarr: monitored seasons
  eps,      \* Sonarr: seasons whose episodes are all monitored
  files,    \* Sonarr: seasons with all their files
  picked,   \* Sonarr: seasons the pending add options monitor and search for
  asked,    \* history: seasons Sonarr was asked to search
  wrote,    \* history: seasons whose monitoring each request changed
  attempt,  \* the attempt under way: request, next step, seasons still to do
  fault     \* failures so far

library == <<series, watched, flag, eps, picked, asked, wrote>>
rows == <<want, job, paid, phase>>
vars == <<want, job, paid, match, phase, series, watched, flag, eps, files, picked, asked, wrote, attempt, fault>>

None == [req |-> NoRequest, pc |-> "idle", left |-> {}, cur |-> 0]

Chosen(r) == want[r].seasons
Pilot == {r \in Request : want[r].pilot}

Init ==
  /\ want = [r \in Request |-> [seasons |-> {}, pilot |-> FALSE]]
  /\ job = [r \in Request |-> [st |-> "none", started |-> FALSE]]
  /\ paid = [r \in Request |-> {}] /\ match = Request
  /\ phase = [r \in Request |-> "pending"]
  /\ \/ series = "absent" /\ watched = FALSE /\ flag = {} /\ eps = {}
     \/ series = "present" /\ watched \in BOOLEAN /\ flag \in SUBSET Season /\ eps = flag
  /\ files = {} /\ picked = {} /\ asked = {} /\ wrote = [r \in Request |-> {}]
  /\ attempt = None /\ fault = 0

TypeOK ==
  /\ want \in [Request -> [seasons : SUBSET Season, pilot : BOOLEAN]]
  /\ job \in [Request -> [st : {"none", "queued", "processing", "retry", "attention", "complete"},
                          started : BOOLEAN]]
  /\ paid \in [Request -> SUBSET Season] /\ match \subseteq Request
  /\ phase \in [Request -> {"pending", "adding", "awaiting_metadata", "complete"}]
  /\ series \in {"absent", "adding", "present"} /\ watched \in BOOLEAN
  /\ flag \subseteq Season /\ eps \subseteq Season /\ files \subseteq Season
  /\ picked \subseteq Season /\ asked \subseteq Season /\ wrote \in [Request -> SUBSET Season]
  /\ attempt.pc \in {"idle", "read", "add", "monitor", "episodes", "search", "done"}
  /\ fault \in 0 .. MaxFault

(* tvNoOpSeasons: seasons that need no new work.                           *)
Free(S, pilot) == {n \in S : n \in files \/ (watched /\ n \in eps /\ (pilot \/ n \in flag))}

(* saveTVDelivery.  Requests for what is already monitored settle at once  *)
(* and free of charge.                                                     *)
Save(r) ==
  /\ job[r].st = "none"
  /\ \E S \in SUBSET Season \ {{}}, p \in BOOLEAN :
       /\ p => Cardinality(S) = 1
       /\ want' = [want EXCEPT ![r] = [seasons |-> S, pilot |-> p]]
       /\ LET free == Free(S, p) IN
          /\ job' = [job EXCEPT ![r].st = IF free = S THEN "complete" ELSE "queued"]
          /\ paid' = [paid EXCEPT ![r] = S \ free]
  /\ UNCHANGED <<match, phase, files, attempt, fault>> /\ UNCHANGED library

(* An administrator corrects the TV match; dispatchTV holds the same mutex.*)
Correct(r) ==
  /\ r \in match /\ attempt = None
  /\ match' = match \ {r}
  /\ UNCHANGED <<files, attempt, fault>> /\ UNCHANGED rows /\ UNCHANGED library

At(pc) == attempt.pc = pc
GoOn(pc, left) == attempt' = [attempt EXCEPT !.pc = pc, !.left = left]

(* claimDelivery: a due job, or one whose lease its lost owner let run out.*)
ClaimableUnclaimed(r) == job[r].st \in {"queued", "retry"}
Claimable(r) == job[r].st \in {"queued", "retry", "processing"}
Claim(r) ==
  /\ attempt = None /\ Claimable(r)
  /\ job' = [job EXCEPT ![r].st = "processing"]
  /\ attempt' = [None EXCEPT !.req = r, !.pc = "read"]
  /\ UNCHANGED <<want, paid, match, phase, files, fault>> /\ UNCHANGED library

Finish(st) ==
  /\ job' = [job EXCEPT ![attempt.req].st = st]
  /\ attempt' = None

(* The request's match changed: an administrator has to look.              *)
Stale ==
  /\ At("read") /\ attempt.req \notin match
  /\ Finish("attention")
  /\ UNCHANGED <<want, paid, match, phase, files, fault>> /\ UNCHANGED library

(* Release refunds a season only if its delivery cannot have begun.        *)
Refunded(r, free) == IF job[r].started THEN paid ELSE [paid EXCEPT ![r] = @ \ free]

AddForgotten == FALSE
AddPending == series = "adding"

(* What Sonarr has decides how the attempt goes on: add the series, wait   *)
(* for the pass that follows an add, settle, or monitor what is missing.   *)
Read ==
  /\ At("read") /\ attempt.req \in match
  /\ LET r == attempt.req
         free == Free(Chosen(r), r \in Pilot)
     IN \/ /\ series = "absent"
           /\ GoOn("add", Chosen(r)) /\ phase' = [phase EXCEPT ![r] = "adding"]
           /\ UNCHANGED <<job, paid>>
        \/ /\ series # "absent" /\ AddPending
           /\ Finish("retry") /\ UNCHANGED <<paid, phase>>
        \/ /\ series # "absent" /\ ~AddPending
           /\ paid' = Refunded(r, free)
           /\ IF free = Chosen(r)
              THEN Finish("complete")
              ELSE GoOn(IF r \in Pilot /\ watched THEN "episodes" ELSE "monitor", Chosen(r) \ free)
                   /\ UNCHANGED job
           /\ UNCHANGED phase
  /\ UNCHANGED <<want, match, files, fault>> /\ UNCHANGED library

(* startDelivery, run as the client's mutation guard before every write.   *)
Unmarked(r) == job
Marked(r) == [job EXCEPT ![r].started = TRUE]

(* A write that fails ends the attempt: it may have been refused, or have  *)
(* been done with its reply lost.                                          *)
Lost == fault < MaxFault /\ fault' = fault + 1
Retry(j) == job' = [j EXCEPT ![attempt.req].st = "retry"] /\ attempt' = None

(* AddSeries.  Sonarr applies the choice, and searches for it, when its    *)
(* first refresh of the series is over; a pilot is added with nothing.     *)
Add ==
  /\ At("add")
  /\ LET r == attempt.req
         sel == IF r \in Pilot THEN {} ELSE Chosen(r)
     IN /\ series' = "adding" /\ picked' = sel /\ watched' = (r \notin Pilot)
        /\ flag' = sel /\ eps' = {} /\ wrote' = [wrote EXCEPT ![r] = @ \union sel]
        /\ \/ /\ UNCHANGED fault
              /\ phase' = [phase EXCEPT ![r] = IF r \in Pilot THEN "awaiting_metadata" ELSE "complete"]
              /\ job' = [Marked(r) EXCEPT ![r].st = IF r \in Pilot THEN "retry" ELSE "complete"]
              /\ attempt' = None
           \/ Lost /\ Retry(Marked(r)) /\ UNCHANGED phase
  /\ UNCHANGED <<want, paid, match, files, asked>>

(* UpdateSeriesMonitoring; a pilot leaves a monitored series alone, and    *)
(* season flags in any case.  Sonarr may follow with the episodes.         *)
Monitor ==
  /\ At("monitor")
  /\ LET r == attempt.req
         new == IF r \in Pilot THEN {} ELSE attempt.left
     IN /\ watched' = TRUE /\ flag' = flag \union new
        /\ \E more \in {{}, new \ flag} : eps' = eps \union more
        /\ wrote' = [wrote EXCEPT ![r] = @ \union new]
        /\ \/ GoOn("episodes", attempt.left) /\ job' = Marked(r) /\ UNCHANGED fault
           \/ Lost /\ Retry(Marked(r))
  /\ UNCHANGED <<want, paid, match, phase, files, series, picked, asked>>

(* Season by season: SetEpisodesMonitored, then the search.                *)
Episodes(n) ==
  /\ At("episodes") /\ n \in attempt.left
  /\ eps' = eps \union {n} /\ wrote' = [wrote EXCEPT ![attempt.req] = @ \union {n}]
  /\ \/ /\ attempt' = [attempt EXCEPT !.pc = "search", !.left = @ \ {n}, !.cur = n]
        /\ job' = Marked(attempt.req) /\ UNCHANGED fault
     \/ Lost /\ Retry(Marked(attempt.req))
  /\ UNCHANGED <<want, paid, match, phase, files, series, watched, flag, picked, asked>>

Search ==
  /\ At("search")
  /\ asked' = asked \union {attempt.cur}
  /\ \/ GoOn(IF attempt.left = {} THEN "done" ELSE "episodes", attempt.left)
        /\ job' = Marked(attempt.req) /\ UNCHANGED fault
     \/ Lost /\ Retry(Marked(attempt.req))
  /\ UNCHANGED <<want, paid, match, phase, files, series, watched, flag, eps, picked, wrote>>

Done ==
  /\ At("done")
  /\ phase' = [phase EXCEPT ![attempt.req] = "complete"] /\ Finish("complete")
  /\ UNCHANGED <<want, paid, match, files, fault>> /\ UNCHANGED library

(* A read, a check or a write that has no effect, before or after the mark.*)
Refuse ==
  /\ attempt # None /\ Lost
  /\ \E j \in {job, Marked(attempt.req)}, st \in {"retry", "attention"} :
       job' = [j EXCEPT ![attempt.req].st = st]
  /\ attempt' = None
  /\ UNCHANGED <<want, paid, match, phase, files>> /\ UNCHANGED library

Crash ==
  /\ attempt # None /\ Lost /\ attempt' = None
  /\ UNCHANGED <<match, files>> /\ UNCHANGED rows /\ UNCHANGED library

(* Sonarr ends its first refresh: add options replace what is monitored.   *)
Refreshed ==
  /\ series = "adding"
  /\ series' = "present" /\ flag' = picked /\ eps' = picked
  /\ asked' = asked \union picked /\ picked' = {}
  /\ UNCHANGED <<match, files, watched, wrote, attempt, fault>> /\ UNCHANGED rows

Download(n) ==
  /\ series = "present" /\ watched /\ n \in eps \ files
  /\ files' = files \union {n}
  /\ UNCHANGED <<match, attempt, fault>> /\ UNCHANGED rows /\ UNCHANGED library

Attempt == Stale \/ Read \/ Add \/ Monitor \/ (\E n \in Season : Episodes(n)) \/ Search \/ Done
Next ==
  \/ \E r \in Request : Save(r) \/ Correct(r) \/ Claim(r)
  \/ Attempt \/ Refuse \/ Crash \/ Refreshed
  \/ \E n \in Season : Download(n)

Spec == Init /\ [][Next]_vars

(* The worker goes on, sweeps return to each job, Sonarr ends its refresh. *)
Fairness ==
  /\ WF_vars(Attempt) /\ WF_vars(Refreshed)
  /\ \A r \in Request : SF_vars(Claim(r))

(* A delivered season is one Sonarr looks after: another request, or the   *)
(* pass that follows an add, does not undo it (dispatchTV, "A second       *)
(* request cannot race Sonarr's first post-add monitoring pass").          *)
DeliveredIsMonitored ==
  \A r \in Request : job[r].st = "complete" =>
    \A n \in paid[r] \ files :
      \/ watched /\ n \in eps /\ (r \in Pilot \/ n \in flag)
      \/ series = "adding" /\ n \in picked

(* What a request had done to the library stays paid for, also when the    *)
(* attempt after a lost reply finds it done already (startDelivery before  *)
(* each write, Release as no_op after).                                    *)
WorkIsPaid == \A r \in Request : wrote[r] \subseteq paid[r]

(* A delivered season with files missing was searched for (the test of     *)
(* explicit seasons: "fires a SeasonSearch").                              *)
DeliveredIsSearched ==
  \A r \in Request : job[r].st = "complete" => paid[r] \subseteq asked \union files \union picked

(* Every accepted request is delivered or put before an administrator.     *)
SeriesDelivered == \A r \in Request : job[r].st = "queued" ~> job[r].st \in {"complete", "attention"}
=============================================================================
