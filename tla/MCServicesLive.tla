--------------------------- MODULE MCServicesLive ---------------------------
(***************************************************************************)
(* What request delivery and the services around it must get done in the   *)
(* end, on small instances: as in MCServices, "part" says which service a  *)
(* behaviour is about.                                                     *)
(***************************************************************************)
EXTENDS Naturals

CONSTANTS j1, r1, q1, f1, w1, a1, i1, m1, u1, x1, none

VARIABLES part,
  status, park, wanted, job, lock, worker, library, author, sweep, decision, faults,
  tgJob, tgLock, tgOn, tgAsks, tgDone, tgNative, tgRefresh, tgWorker, tgDelivery, tgRetried, tgFault,
  tvWant, tvJob, tvPaid, tvMatch, tvPhase, tvSeries, tvWatched, tvFlag, tvEps,
  tvFiles, tvPicked, tvAsked, tvWrote, tvAttempt, tvFault,
  fwFollow, fwRequest, fwRow, fwAir, fwSonarr, fwCommand, fwLock, fwAtt, fwClock,
  fwPosts, fwReal, fwTouched, fwFault,
  dcConf, dcCooling, dcRow, dcSeen, dcSaved, dcContent, dcScan, dcSender, dcPosts, dcOld,
  dcTold, dcFault,
  maInvite, maUsers, maGranted, maUnlinked, maRow, maRemote, maAdmin, maTodo, maOp, maMade,
  maAstray, maTouched, maFault

deliveryVars == <<status, park, wanted, job, lock, worker, library, author, sweep,
                  decision, faults>>
tagVars == <<tgJob, tgLock, tgOn, tgAsks, tgDone, tgNative, tgRefresh, tgWorker,
             tgDelivery, tgRetried, tgFault>>
tvVars == <<tvWant, tvJob, tvPaid, tvMatch, tvPhase, tvSeries, tvWatched, tvFlag, tvEps,
            tvFiles, tvPicked, tvAsked, tvWrote, tvAttempt, tvFault>>
followVars == <<fwFollow, fwRequest, fwRow, fwAir, fwSonarr, fwCommand, fwLock, fwAtt,
                fwClock, fwPosts, fwReal, fwTouched, fwFault>>
discordVars == <<dcConf, dcCooling, dcRow, dcSeen, dcSaved, dcContent, dcScan, dcSender,
                 dcPosts, dcOld, dcTold, dcFault>>
mediaVars == <<maInvite, maUsers, maGranted, maUnlinked, maRow, maRemote, maAdmin, maTodo,
               maOp, maMade, maAstray, maTouched, maFault>>

Delivery == INSTANCE RequestDispatch WITH Request <- {r1}, Format <- {f1}, Worker <- {w1},
  Author <- {a1}, Instance <- {i1}, AuthorOf <- [r \in {r1} |-> a1],
  InstanceOf <- [r \in {r1} |-> i1], Token <- {1, 2, 3}, NoToken <- 0, NoJob <- none,
  NoRequest <- none, MaxAttempts <- 2, MaxFaults <- 1, NativeImport <- TRUE,
  AllowStall <- FALSE

\* Books, whose subscribers may leave and come back; MCServices has the artists.
Tags == INSTANCE RequesterTags WITH Job <- {j1}, Token <- 1 .. 5, NoTok <- 0,
  Lidarr <- FALSE, MaxAttempts <- 2, MaxRefresh <- 0, MaxFault <- 1,
  job <- tgJob, lock <- tgLock, enabled <- tgOn, asks <- tgAsks, done <- tgDone,
  native <- tgNative, refresh <- tgRefresh, worker <- tgWorker, delivery <- tgDelivery,
  retried <- tgRetried, fault <- tgFault

TV == INSTANCE TVDelivery WITH Request <- {q1}, NoRequest <- none, Season <- {1, 2},
  MaxFault <- 1, want <- tvWant, job <- tvJob, paid <- tvPaid, match <- tvMatch,
  phase <- tvPhase, series <- tvSeries, watched <- tvWatched, flag <- tvFlag,
  eps <- tvEps, files <- tvFiles, picked <- tvPicked, asked <- tvAsked,
  wrote <- tvWrote, attempt <- tvAttempt, fault <- tvFault

Following == INSTANCE TVFollow WITH Follow <- {f1}, NoFollow <- none, Episode <- {1},
  MaxSearch <- 2, MaxFault <- 1, follow <- fwFollow, request <- fwRequest, row <- fwRow,
  air <- fwAir, sonarr <- fwSonarr, command <- fwCommand, lock <- fwLock, att <- fwAtt,
  clock <- fwClock, posts <- fwPosts, real <- fwReal, touched <- fwTouched, fault <- fwFault

Discord == INSTANCE DiscordOutbox WITH Request <- {r1}, Unit <- {m1}, MaxTries <- 2,
  MaxSave <- 0, MaxFault <- 1, conf <- dcConf, cooling <- dcCooling, row <- dcRow,
  seen <- dcSeen, saved <- dcSaved, content <- dcContent, scan <- dcScan,
  sender <- dcSender, posts <- dcPosts, old <- dcOld, told <- dcTold, fault <- dcFault

Media == INSTANCE MediaAccess WITH User <- {u1}, Id <- {x1}, NoId <- none,
  MaxFault <- 1, invite <- maInvite, users <- maUsers, granted <- maGranted,
  unlinked <- maUnlinked, row <- maRow, remote <- maRemote, admin <- maAdmin,
  todo <- maTodo, op <- maOp, made <- maMade, astray <- maAstray, touched <- maTouched,
  fault <- maFault

(* A part that is not running has one state to start in.                   *)
Init ==
  /\ part \in {"delivery", "tags", "tv", "follow", "discord", "media"}
  /\ Delivery!Init /\ (part # "delivery" => author[a1] = "absent")
  /\ Tags!Init /\ (part # "tags" => tgOn)
  /\ TV!Init /\ (part # "tv" => tvSeries = "absent")
  /\ Following!Init /\ Discord!Init
  /\ Media!Init /\ (part # "media" => ~maInvite /\ maRemote[x1] = "none")

Only(p) ==
  /\ part = p /\ UNCHANGED part
  /\ IF p = "delivery" THEN TRUE ELSE UNCHANGED deliveryVars
  /\ IF p = "tags" THEN TRUE ELSE UNCHANGED tagVars
  /\ IF p = "tv" THEN TRUE ELSE UNCHANGED tvVars
  /\ IF p = "follow" THEN TRUE ELSE UNCHANGED followVars
  /\ IF p = "discord" THEN TRUE ELSE UNCHANGED discordVars
  /\ IF p = "media" THEN TRUE ELSE UNCHANGED mediaVars

Next ==
  \/ Only("delivery") /\ Delivery!Next
  \/ Only("tags") /\ Tags!Next
  \/ Only("tv") /\ TV!Next
  \/ Only("follow") /\ Following!Next
  \/ Only("discord") /\ Discord!Next
  \/ Only("media") /\ Media!Next

\* Nothing that is fair is enabled where an idle part starts.
Fairness ==
  /\ Delivery!Fairness /\ Tags!Fairness /\ TV!Fairness /\ Following!Fairness
  /\ Discord!Fairness /\ Media!Fairness

Spec == Init /\ [][Next]_<<part, deliveryVars, tagVars, tvVars, followVars, discordVars, mediaVars>> /\ Fairness

(* Saved work leaves the queue, unless administrators retry it for ever,   *)
(* and a native import that ended is noticed.                              *)
DeliveryEnds == part = "delivery" => Delivery!DeliveryProgress /\ Delivery!WaitsEnd

(* A tag that is due ends applied, withdrawn or refused; an accepted       *)
(* season or pilot request is delivered or put before someone; an aired    *)
(* episode of an active follow is worked on, found or paused for.          *)
ServicesEnd ==
  /\ part = "tags" => Tags!TagsEnd
  /\ part = "tv" => TV!SeriesDelivered
  /\ part = "follow" => Following!EpisodesAreWorked

(* A queued Discord alert is decided, and a media account's access comes   *)
(* to be what its user is granted.                                         *)
OutboxesDrain ==
  /\ part = "discord" => Discord!QueueDrains
  /\ part = "media" => Media!AccessConverges
=============================================================================
