------------------------------ MODULE TVFollow ------------------------------
(***************************************************************************)
(* Following the missing episodes of a series                              *)
(* (server/internal/request/tv_follow.go).                                 *)
(*                                                                         *)
(* Each follow is one recipient's request for the same series in the same  *)
(* Sonarr.  The first delivery of its request, and a sweep after that,     *)
(* work through its episodes one by one: monitor, look for work under way, *)
(* search.  A search cannot be repeated safely, so its intent is durable   *)
(* and a lost reply leaves it uncertain until Sonarr shows evidence.       *)
(*                                                                         *)
(* What the recipient's media server covers may differ at every look; a    *)
(* guard and the write after it are one step; all other ways a check can   *)
(* fail are the action Refuse; a delivery that needs attention, and its    *)
(* retry by an administrator, is one that stays pending.                   *)
(***************************************************************************)
EXTENDS Naturals, FiniteSets

CONSTANTS
  Follow, NoFollow,  \* request_tv_follows rows, one request each
  Episode,           \* episodes of the followed seasons, numbered
  MaxSearch,         \* bound on searches begun
  MaxFault           \* bound on failures, stalls, crashes and changes by hand

VARIABLES
  follow,   \* state (a pause for an uncertain search apart), series_owned, series_id > 0
  request,  \* of each follow: none, pending, complete; whether its phase is adding
  row,      \* request_tv_follow_episodes: state, monitor_owned, episode_id > 0, command, searched_at
  air,      \* 0 unknown to the catalog, 1 announced, 2 aired
  sonarr,   \* series, whether it is monitored, monitored episodes, queue, files
  command,  \* searches in Sonarr's command list: episode, when, still running
  lock,     \* the instance's lease, by the follow whose attempt holds it
  att,      \* the attempt of each follow: kind, next step, episodes to do, what it read
  clock,    \* searches begun
  posts,    \* history: searches sent for each follow and episode
  real,     \* history: episodes Sonarr took a search for, queued or has
  touched,  \* history: episodes whose monitoring was changed by hand
  fault

vars == <<follow, request, row, air, sonarr, command, lock, att, clock, posts, real, touched, fault>>

NoRow == [st |-> "none", owned |-> FALSE, cmd |-> 0, since |-> 0]
Idle == [kind |-> "none", pc |-> "idle", todo |-> {}, snap |-> [e \in Episode |-> NoRow], mon |-> {}, file |-> {}]

Init ==
  /\ follow = [f \in Follow |-> [st |-> "active", owned |-> 0, id |-> FALSE]]
  /\ request = [f \in Follow |-> [st |-> "none", adding |-> FALSE]]
  /\ row = [f \in Follow |-> [e \in Episode |-> NoRow]]
  /\ air = [e \in Episode |-> 0]
  /\ sonarr = [series |-> "absent", watched |-> FALSE, mon |-> {}, queue |-> {}, file |-> {}]
  /\ command = {} /\ lock = NoFollow /\ att = [f \in Follow |-> Idle]
  /\ clock = 0 /\ posts = [f \in Follow |-> [e \in Episode |-> 0]]
  /\ real = {} /\ touched = {} /\ fault = 0

RowState == {"none", "queued", "excluded", "monitored", "searching", "submitted", "available"}
TypeOK ==
  /\ follow \in [Follow -> [st : {"active", "paused", "uncertain", "stopped"}, owned : 0 .. 2, id : BOOLEAN]]
  /\ request \in [Follow -> [st : {"none", "pending", "complete"}, adding : BOOLEAN]]
  /\ row \in [Follow -> [Episode -> [st : RowState, owned : BOOLEAN,
                                     cmd : 0 .. MaxSearch, since : 0 .. MaxSearch]]]
  /\ lock \in Follow \union {NoFollow}
  /\ \A f \in Follow : att[f].kind \in {"none", "first", "sweep"} /\ att[f].todo \subseteq Episode
  /\ clock \in 0 .. MaxSearch /\ fault \in 0 .. MaxFault

---------------------------------------------------------------------------
(* The request.                                                            *)

(* Rows of f for the episodes known by now, C of them covered.             *)
Inserted(f, C) ==
  [row EXCEPT ![f] = [e \in Episode |->
     IF air[e] = 0 \/ @[e].st # "none" THEN @[e]
     ELSE [NoRow EXCEPT !.st = IF e \in C THEN "excluded" ELSE "queued"]]]

(* prepareMissingTV and saveTVFollow: the episodes known so far.           *)
Save(f) ==
  /\ request[f].st = "none" /\ \E e \in Episode : air[e] > 0
  /\ request' = [request EXCEPT ![f].st = "pending"]
  /\ \E C \in SUBSET Episode : row' = Inserted(f, C)
  /\ UNCHANGED <<follow, air, sonarr, command, lock, att, clock, posts, real, touched, fault>>

Stop(f) ==
  /\ request[f].st # "none" /\ follow[f].st # "stopped"
  /\ follow' = [follow EXCEPT ![f].st = "stopped"]
  /\ UNCHANGED <<request, row, air, sonarr, command, lock, att, clock, posts, real, touched, fault>>

---------------------------------------------------------------------------
(* Reconciliation: only what Sonarr shows settles an uncertain search.     *)

EvidenceOrAbsence(e, since) == IF e \in sonarr.file THEN "available" ELSE "submitted"
EvidenceOrRetry(e, since) == IF e \in sonarr.queue THEN "submitted" ELSE "queued"
Evidence(e, since) ==
  IF e \in sonarr.queue THEN "submitted"
  ELSE IF e \in sonarr.file THEN "available"
  ELSE IF \E c \in command : c.ep = e /\ c.at >= since THEN "submitted"
  ELSE "searching"

Found(e, since) ==
  LET s == {c.at : c \in {c \in command : c.ep = e /\ c.at >= since}}
  IN IF e \in sonarr.queue \/ e \in sonarr.file \/ s = {} THEN 0 ELSE CHOOSE t \in s : TRUE

(* reconcileTVSearches on the rows of one follow, given as R.              *)
Reconciled(f, R) ==
  IF follow[f].st \notin {"active", "uncertain"} \/ sonarr.series = "absent" \/ ~follow[f].id THEN R
  ELSE [e \in Episode |->
          IF R[e].st # "searching" THEN R[e]
          ELSE [R[e] EXCEPT !.st = Evidence(e, R[e].since), !.cmd = Found(e, R[e].since)]]

Revived(f, R) ==
  /\ follow[f].st = "uncertain" /\ sonarr.series # "absent" /\ follow[f].id
  /\ (\E e \in Episode : row[f][e].st = "searching") /\ \A e \in Episode : R[e].st # "searching"

Reconcile(f) ==
  LET R == Reconciled(f, row[f])
  IN /\ row' = [row EXCEPT ![f] = R]
     /\ follow' = IF Revived(f, R) THEN [follow EXCEPT ![f].st = "active"] ELSE follow

---------------------------------------------------------------------------
(* Attempts.                                                               *)

Sweeping == \E f \in Follow : att[f].kind = "sweep"
Begin(f, kind) == att' = [att EXCEPT ![f] = [Idle EXCEPT !.kind = kind, !.pc = "series"]] /\ lock' = f
Claimable(f) == lock = NoFollow /\ att[f].pc = "idle"

(* A delivery worker claims the request and calls dispatchMissingTV.       *)
Deliver(f) ==
  /\ request[f].st = "pending" /\ Claimable(f)
  /\ Reconcile(f) /\ Begin(f, "first")
  /\ UNCHANGED <<request, air, sonarr, command, clock, posts, real, touched, fault>>

(* sweepTVFollow, one at a time: first it looks after an uncertain search. *)
SweepUncertain(f) ==
  /\ request[f].st = "complete" /\ follow[f].st = "uncertain" /\ ~Sweeping
  /\ Reconcile(f)
  /\ UNCHANGED <<request, air, sonarr, command, lock, att, clock, posts, real, touched, fault>>

Sweep(f) ==
  /\ request[f].st = "complete" /\ follow[f].st = "active" /\ ~Sweeping /\ Claimable(f)
  /\ Begin(f, "sweep")
  /\ UNCHANGED <<follow, request, row, air, sonarr, command, clock, posts, real, touched, fault>>

At(f, pc) == att[f].pc = pc
Go(f, pc) == att' = [att EXCEPT ![f].pc = pc] /\ UNCHANGED lock
Skip(f, e) == att' = [att EXCEPT ![f].pc = "next", ![f].todo = @ \ {e}] /\ UNCHANGED lock
First(f) == att[f].kind = "first"

Holds(f) ==
  IF First(f) THEN follow[f].st \in {"active", "stopped"} ELSE lock = f /\ follow[f].st = "active"

(* The end of an attempt, with what becomes of a first delivery.           *)
End(f, st) ==
  /\ att' = [att EXCEPT ![f] = Idle] /\ lock' = IF lock = f THEN NoFollow ELSE lock
  /\ request' = IF First(f) THEN [request EXCEPT ![f].st = st] ELSE request
PausedAnyway(f, as) == [follow EXCEPT ![f].st = as]
Paused(f, as) == [follow EXCEPT ![f].st = IF @ = "active" THEN as ELSE @]

(* A check that fails, with or without a pause.                            *)
Refuse(f) ==
  /\ ~At(f, "idle") /\ fault < MaxFault /\ fault' = fault + 1
  /\ follow' \in {Paused(f, "paused"), follow} /\ End(f, "pending")
  /\ UNCHANGED <<row, air, sonarr, command, clock, posts, real, touched>>

(* The guard before a step of the attempt finds it no longer in charge.    *)
Superseded(f) ==
  /\ att[f].pc \in {"series", "add", "watch", "monitor", "intent"} /\ ~Holds(f) /\ End(f, "pending")
  /\ UNCHANGED <<follow, row, air, sonarr, command, clock, posts, real, touched, fault>>

(* The series: a first delivery may add it and monitor it, if it was added *)
(* here; otherwise one that is missing or unmonitored pauses the follow.   *)
Series(f) ==
  /\ At(f, "series") /\ Holds(f)
  /\ LET add == First(f) /\ sonarr.series = "absent" /\ ~follow[f].id /\ ~request[f].adding
         here == sonarr.series = "present" /\ (First(f) \/ follow[f].id)
         watch == First(f) /\ here /\ ~sonarr.watched /\ follow[f].owned = 1
     IN \/ add /\ Go(f, "add") /\ UNCHANGED <<follow, request, row>>
        \/ sonarr.series = "adding" /\ End(f, "pending") /\ UNCHANGED <<follow, row>>
        \/ watch /\ Go(f, "watch") /\ follow' = [follow EXCEPT ![f].id = TRUE] /\ UNCHANGED <<request, row>>
        \/ /\ here /\ sonarr.watched /\ Go(f, "rows")
           /\ follow' = IF First(f) THEN [follow EXCEPT ![f].id = TRUE, ![f].owned = IF @ = 1 THEN 2 ELSE @]
                        ELSE follow
           /\ \E C \in SUBSET Episode : row' = IF First(f) THEN row ELSE Inserted(f, C)
           /\ UNCHANGED request
        \/ /\ sonarr.series # "adding" /\ ~add /\ ~watch /\ ~(here /\ sonarr.watched)
           /\ follow' = [Paused(f, "paused") EXCEPT ![f].id = here \/ @]
           /\ End(f, "pending") /\ UNCHANGED row
  /\ UNCHANGED <<air, sonarr, command, clock, posts, real, touched, fault>>

(* A write may be done with its reply lost; one to a series that was       *)
(* removed is refused.                                                     *)
Lost == fault < MaxFault /\ fault' = fault + 1
Written == sonarr.series = "present"

(* AddSeries, unmonitored; the next attempt waits for its metadata.        *)
Add(f) ==
  /\ At(f, "add") /\ Holds(f)
  /\ follow' = [follow EXCEPT ![f].owned = 1]
  /\ sonarr' = [sonarr EXCEPT !.series = "adding", !.watched = FALSE, !.mon = {}]
  /\ att' = [att EXCEPT ![f] = Idle] /\ lock' = NoFollow
  /\ \/ UNCHANGED fault /\ UNCHANGED request
     \/ Lost /\ request' = [request EXCEPT ![f].adding = TRUE]
  /\ UNCHANGED <<row, air, command, clock, posts, real, touched>>

(* UpdateSeriesMonitoring, and its durable mark in a second step.          *)
Watch(f) ==
  /\ At(f, "watch") /\ Holds(f)
  /\ \/ /\ Written /\ sonarr' = [sonarr EXCEPT !.watched = TRUE]
        /\ \/ Go(f, "activate") /\ UNCHANGED <<request, fault>>
           \/ Lost /\ End(f, "pending")
     \/ ~Written /\ End(f, "pending") /\ UNCHANGED <<sonarr, fault>>
  /\ UNCHANGED <<follow, row, air, command, clock, posts, real, touched>>

Activate(f) ==
  /\ At(f, "activate") /\ Go(f, "rows")
  /\ follow' = [follow EXCEPT ![f].owned = IF @ = 1 THEN 2 ELSE @]
  /\ UNCHANGED <<request, row, air, sonarr, command, clock, posts, real, touched, fault>>

(* deliverFollowEpisodes reads its rows and Sonarr's episodes once.        *)
Rows(f) ==
  /\ At(f, "rows")
  /\ att' = [att EXCEPT ![f] = [@ EXCEPT !.pc = "next", !.snap = row[f], !.mon = sonarr.mon, !.file = sonarr.file,
                                         !.todo = {e \in Episode : row[f][e].st # "none"}]]
  /\ UNCHANGED <<follow, request, row, air, sonarr, command, lock, clock, posts, real, touched, fault>>

Unmet(r) == r.st \in {"none", "queued"}
Next1(f) == CHOOSE e \in att[f].todo : \A d \in att[f].todo : e <= d
Set(f, e, st) == [row EXCEPT ![f][e].st = st]

(* What is to be done for the next episode: nothing, monitor, or go on.    *)
Look(f) ==
  /\ At(f, "next") /\ att[f].todo # {}
  /\ LET e == Next1(f)
         s == att[f].snap[e]
         unmonitored == s.owned /\ e \notin att[f].mon
         nothing == \/ s.st = "excluded" \/ (air[e] < 2 /\ Unmet(s) /\ ~s.owned)
                    \/ (~unmonitored /\ s.st \in {"available", "submitted"})
     IN \E has \in {TRUE, (e \in att[f].file)} :
        \/ nothing /\ Skip(f, e) /\ UNCHANGED <<follow, request, row>>
        \/ ~nothing /\ unmonitored /\ follow' = Paused(f, "paused") /\ End(f, "pending") /\ UNCHANGED row
        \/ /\ ~nothing /\ ~unmonitored /\ has
           /\ row' = Set(f, e, "available") /\ Skip(f, e) /\ UNCHANGED <<follow, request>>
        \/ /\ ~nothing /\ ~unmonitored /\ ~has
           /\ IF ~Holds(f) THEN End(f, "pending")
              ELSE Go(f, IF e \in att[f].mon THEN "queue" ELSE "monitor") /\ UNCHANGED request
           /\ UNCHANGED <<follow, row>>
  /\ UNCHANGED <<air, sonarr, command, clock, posts, real, touched, fault>>

(* SetEpisodesMonitored, and the row in a second step.                     *)
Monitor(f) ==
  /\ At(f, "monitor") /\ Holds(f)
  /\ \/ /\ Written /\ sonarr' = [sonarr EXCEPT !.mon = @ \union {Next1(f)}]
        /\ \/ Go(f, "mark") /\ UNCHANGED <<request, fault>>
           \/ Lost /\ End(f, "pending")
     \/ ~Written /\ End(f, "pending") /\ UNCHANGED <<sonarr, fault>>
  /\ UNCHANGED <<follow, row, air, command, clock, posts, real, touched>>

Mark(f) ==
  /\ At(f, "mark") /\ Go(f, "queue")
  /\ row' = [Set(f, Next1(f), "monitored") EXCEPT ![f][Next1(f)].owned = TRUE]
  /\ UNCHANGED <<follow, request, air, sonarr, command, clock, posts, real, touched, fault>>

(* Another follow's search for the episode: one whose command is known, or *)
(* one whose outcome is uncertain (reuseTVEpisodeWork).                    *)
OthersActive(f, e, st) == {g \in Follow \ {f} : follow[g].st = "active" /\ row[g][e].st = st}
Others(f, e, st) ==
  {g \in Follow \ {f} : follow[g].id /\ row[g][e].st = st /\ (st = "submitted" => row[g][e].cmd > 0)}

Uncertain(f, R) ==
  /\ row' = [row EXCEPT ![f] = R]
  /\ follow' = IF Revived(f, R) THEN [follow EXCEPT ![f].st = "active"] ELSE Paused(f, "uncertain")
  /\ End(f, "pending")

Queue(f) ==
  /\ At(f, "queue")
  /\ LET e == Next1(f)
         s == att[f].snap[e].st
         unsure == Others(f, e, "searching")
     IN \E known \in {Others(f, e, "submitted"), {}} :
        \/ e \in sonarr.queue /\ row' = Set(f, e, "submitted") /\ Skip(f, e) /\ UNCHANGED <<follow, request>>
        \/ /\ e \notin sonarr.queue /\ s # "searching" /\ known # {}
           /\ \E g \in known :
                IF [ep |-> e, at |-> row[g][e].cmd] \in command
                THEN /\ row' = [row EXCEPT ![f][e] = [@ EXCEPT !.st = "submitted", !.cmd = row[g][e].cmd, !.since = row[g][e].since]]
                     /\ Skip(f, e)
                ELSE Go(f, "intent") /\ UNCHANGED row
           /\ UNCHANGED <<follow, request>>
        \/ /\ e \notin sonarr.queue /\ s # "searching" /\ known = {} /\ unsure # {}
           /\ \E g \in unsure :
                LET copy == [row[f] EXCEPT ![e] = [@ EXCEPT !.st = "searching", !.since = row[g][e].since]]
                    R == Reconciled(f, copy)
                IN IF R[e].st = "searching" THEN Uncertain(f, R)
                   ELSE row' = [row EXCEPT ![f] = R] /\ Skip(f, e) /\ UNCHANGED <<follow, request>>
        \/ /\ e \notin sonarr.queue /\ s # "searching" /\ known = {} /\ unsure = {}
           /\ Go(f, "intent") /\ UNCHANGED <<follow, request, row>>
        \/ /\ e \notin sonarr.queue /\ s = "searching"
           /\ LET R == Reconciled(f, row[f])
              IN IF R[e].st = "searching" THEN Uncertain(f, R)
                 ELSE row' = [row EXCEPT ![f] = R] /\ Skip(f, e) /\ UNCHANGED <<follow, request>>
  /\ UNCHANGED <<air, sonarr, command, clock, posts, real, touched, fault>>

(* The intent is saved before the search that cannot be repeated.          *)
Intent(f) ==
  /\ At(f, "intent") /\ Holds(f) /\ clock < MaxSearch
  /\ LET e == Next1(f) IN
     \/ row' = Set(f, e, "available") /\ Skip(f, e) /\ UNCHANGED clock
     \/ /\ clock' = clock + 1 /\ Go(f, "post")
        /\ row' = [Set(f, e, "searching") EXCEPT ![f][e].since = clock + 1]
  /\ UNCHANGED <<follow, request, air, sonarr, command, posts, real, touched, fault>>

(* SubmitEpisodeSearch: accepted and known, accepted or not and unknown,   *)
(* or refused by the guard, which pauses the follow just the same.         *)
Post(f) ==
  /\ At(f, "post")
  /\ LET e == Next1(f)
         sent == command \union {[ep |-> e, at |-> row[f][e].since]}
     IN \/ /\ Holds(f) /\ Go(f, "receipt") /\ command' = sent
           /\ real' = real \union {e} /\ posts' = [posts EXCEPT ![f][e] = @ + 1] /\ UNCHANGED <<follow, request, fault>>
        \/ /\ Holds(f) /\ Lost /\ command' \in {command, sent}
           /\ real' = IF command' = sent THEN real \union {e} ELSE real
           /\ posts' = [posts EXCEPT ![f][e] = @ + 1]
           /\ follow' = Paused(f, "uncertain") /\ End(f, "pending")
        \/ /\ ~Holds(f) /\ follow' = Paused(f, "uncertain") /\ End(f, "pending")
           /\ UNCHANGED <<command, posts, real, fault>>
  /\ UNCHANGED <<row, air, sonarr, clock, touched>>

Receipt(f) ==
  /\ At(f, "receipt")
  /\ LET e == Next1(f) IN
     row' = [Set(f, e, "submitted") EXCEPT ![f][e].cmd = row[f][e].since] /\ Skip(f, e)
  /\ UNCHANGED <<follow, request, air, sonarr, command, clock, posts, real, touched, fault>>

Done(f) ==
  /\ At(f, "next") /\ att[f].todo = {}
  /\ End(f, IF Holds(f) THEN "complete" ELSE "pending")
  /\ UNCHANGED <<follow, row, air, sonarr, command, clock, posts, real, touched, fault>>

(* A restart: the leases of all attempts run out before they are retaken.  *)
ExpiredNever == lock
Expired == NoFollow
Crash ==
  /\ fault < MaxFault /\ fault' = fault + 1 /\ \E f \in Follow : ~At(f, "idle")
  /\ att' = [f \in Follow |-> Idle] /\ lock' = Expired
  /\ UNCHANGED <<follow, request, row, air, sonarr, command, clock, posts, real, touched>>

(* A sweep has no heartbeat: its leases may run out under it.              *)
Lapse(f) ==
  /\ att[f].kind = "sweep" /\ lock = f /\ fault < MaxFault
  /\ fault' = fault + 1 /\ lock' = NoFollow
  /\ UNCHANGED <<follow, request, row, air, sonarr, command, att, clock, posts, real, touched>>

---------------------------------------------------------------------------
(* Sonarr, the calendar, the recipients' media servers, and administrators.*)

Air(e) ==
  /\ air[e] < 2 /\ air' = [air EXCEPT ![e] = @ + 1]
  /\ UNCHANGED <<follow, request, row, sonarr, command, lock, att, clock, posts, real, touched, fault>>

Refreshed ==
  /\ sonarr.series = "adding" /\ sonarr' = [sonarr EXCEPT !.series = "present"]
  /\ UNCHANGED <<follow, request, row, air, command, lock, att, clock, posts, real, touched, fault>>

(* A release is found for an episode that is searched for or monitored;    *)
(* its download ends well or not; searches end and leave the list.         *)
Download(e) ==
  /\ sonarr.series = "present"
  /\ \/ /\ air[e] = 2 /\ e \notin sonarr.file
        /\ (sonarr.watched /\ e \in sonarr.mon) \/ \E c \in command : c.ep = e
        /\ sonarr' = [sonarr EXCEPT !.queue = @ \union {e}] /\ real' = real \union {e}
     \/ /\ e \in sonarr.queue /\ UNCHANGED real
        /\ sonarr' \in {[sonarr EXCEPT !.queue = @ \ {e}, !.file = F] : F \in {sonarr.file, sonarr.file \union {e}}}
  /\ UNCHANGED <<follow, request, row, air, command, lock, att, clock, posts, touched, fault>>

SearchEnds ==
  /\ \E c \in command : command' = command \ {c}
  /\ UNCHANGED <<follow, request, row, air, sonarr, lock, att, clock, posts, real, touched, fault>>

ByHand ==
  /\ sonarr.series = "present" /\ fault < MaxFault /\ fault' = fault + 1
  /\ \/ sonarr' = [sonarr EXCEPT !.watched = ~@] /\ UNCHANGED touched
     \/ /\ sonarr' = [sonarr EXCEPT !.series = "absent", !.mon = {}, !.queue = {}, !.file = {}]
        /\ touched' = touched \union sonarr.mon
     \/ \E e \in Episode :
          /\ sonarr' = [sonarr EXCEPT !.mon = (@ \union {e}) \ (@ \intersect {e})]
          /\ touched' = touched \union {e}
  /\ UNCHANGED <<follow, request, row, air, command, lock, att, clock, posts, real>>

Step(f) ==
  \/ Superseded(f) \/ Series(f) \/ Add(f) \/ Watch(f) \/ Activate(f) \/ Rows(f) \/ Look(f)
  \/ Monitor(f) \/ Mark(f) \/ Queue(f) \/ Intent(f) \/ Post(f) \/ Receipt(f) \/ Done(f)

Next ==
  \/ \E f \in Follow : \/ Save(f) \/ Stop(f) \/ Deliver(f) \/ SweepUncertain(f)
                      \/ Sweep(f) \/ Step(f) \/ Refuse(f) \/ Lapse(f)
  \/ \E e \in Episode : Air(e) \/ Download(e)
  \/ Crash \/ Refreshed \/ SearchEnds \/ ByHand

Spec == Init /\ [][Next]_vars

(* Attempts run to their end, and sweeps come back to each follow every    *)
(* five minutes, whoever holds the instance when they do.                  *)
Fairness == \A f \in Follow : WF_vars(Step(f)) /\ SF_vars(Sweep(f))

(* A search is not sent while another follow's search for the episode has  *)
(* an unknown outcome, also when a sweep outlived its leases               *)
(* (reuseTVEpisodeWork, "Copy uncertainty"); unless a follow's search for  *)
(* it was known, which is all that is looked at then, or it was changed by *)
(* hand.                                                                   *)
Known(e, f) == \E h \in Follow \ {f} : row[h][e].cmd > 0
SearchesDoNotOverlap ==
  [][\A f \in Follow, e \in Episode : posts'[f][e] > posts[f][e] =>
       \A g \in Follow \ {f} :
         follow[g].id /\ row[g][e].st = "searching" =>
           row[g][e].since = row[f][e].since \/ Known(e, f) \/ e \in touched]_vars

(* A search is sent once for a follow, whatever is lost or restarted, as   *)
(* long as nobody changes the episode by hand ("never automatically        *)
(* replayed after restart").                                               *)
SearchedOnce == \A f \in Follow, e \in Episode : posts[f][e] > 1 => e \in touched

(* Uncertainty ends on evidence only: what is called submitted was taken   *)
(* by Sonarr (reconcileTVSearches, "positive execution evidence").         *)
SubmittedIsReal == \A f \in Follow, e \in Episode : row[f][e].st = "submitted" => e \in real

(* A stopped follow stays stopped, whatever attempt or sweep is under way, *)
(* and only the first delivery still searches for it.                      *)
StopIsFinal ==
  [][\A f \in Follow : follow[f].st = "stopped" =>
       follow'[f].st = "stopped" /\ (posts'[f] # posts[f] => First(f))]_vars

(* An aired episode of an active follow is worked on, or found available,  *)
(* unless the follow pauses for an administrator.                          *)
EpisodesAreWorked ==
  \A f \in Follow, e \in Episode :
    (request[f].st = "complete" /\ follow[f].st = "active" /\ air[e] = 2
       /\ row[f][e].st \in {"none", "queued", "monitored", "searching"})
      ~> (row[f][e].st \in {"excluded", "submitted", "available"} \/ follow[f].st # "active")
=============================================================================
