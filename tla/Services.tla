------------------------------ MODULE Services ------------------------------
(***************************************************************************)
(* The services around request delivery.  They share no state here, so one *)
(* behaviour is about one of them: "part" says which, and the others stay  *)
(* where they start.                                                       *)
(***************************************************************************)
EXTENDS Naturals

CONSTANTS
  Party,        \* the requests, follows, callers, administrators or users of a part
  NoParty,      \* none of them
  Tag, Token, NoToken, Lidarr, MaxAttempts, MaxRefresh,   \* "tags"
  Season,                                                 \* "tv"
  Episode, MaxSearch,                                     \* "follow"
  DeviceLogin, MaxGrant, MaxRenewal,                      \* "grok"
  Request, Unit, MaxTries, MaxSave,                       \* "discord"
  Value, MaxProposal, MaxChange, ProfileFaults,           \* "profiles"
  MediaAccount, MediaFaults,                              \* "media"
  Mover, Address,                                         \* "moves"
  SignCall, MaxStart, MaxPolicy, MaxToken,                \* "signin"
  MaxFault      \* bound on failures, stalls and crashes of the other parts

\* NoParty is nobody.
ASSUME PartyAssumption == NoParty \notin Party /\ MaxFault \in Nat

\* A key is random: one that nobody holds can always be drawn.
ASSUME TagsAssumption ==
  /\ Tag # {} /\ NoToken \notin Token /\ Lidarr \in BOOLEAN
  /\ MaxAttempts \in Nat /\ MaxRefresh \in Nat
  /\ \A a, b, c \in Token \union {NoToken}, held \in [Tag -> Token \union {NoToken}] :
       \E t \in Token : t \notin {a, b, c} /\ \A j \in Tag : held[j] # t

\* The profile starts with the value 1.
ASSUME ProfilesAssumption ==
  /\ 1 \in Value
  /\ MaxProposal \in Nat /\ MaxChange \in Nat /\ ProfileFaults \in Nat

\* A grant comes with a first refresh token.
ASSUME GrokAssumption == MaxGrant \in Nat /\ MaxRenewal \in Nat \ {0}

\* A row may be tried once at least.
ASSUME DiscordAssumption == MaxTries \in Nat \ {0} /\ MaxSave \in Nat

\* An account has a name.
ASSUME MediaAssumption == NoParty \notin MediaAccount \union Address

\* Episodes are numbered.
ASSUME FollowAssumption == MaxSearch \in Nat /\ Episode \subseteq Nat

VARIABLES part,
  tgJob, tgLock, tgOn, tgAsks, tgDone, tgNative, tgRefresh, tgWorker, tgDelivery, tgRetried, tgFault,
  tvWant, tvJob, tvPaid, tvMatch, tvPhase, tvSeries, tvWatched, tvFlag, tvEps,
  tvFiles, tvPicked, tvAsked, tvWrote, tvAttempt, tvFault,
  fwFollow, fwRequest, fwRow, fwAir, fwSonarr, fwCommand, fwLock, fwAtt, fwClock,
  fwPosts, fwReal, fwTouched, fwFault,
  gkRow, gkPending, gkLock, gkCaller, gkSlot, gkFlow, gkOpen, gkCurrent, gkAged, gkAgain,
  gkLost, gkGone, gkFault,
  dcConf, dcCooling, dcRow, dcSeen, dcSaved, dcContent, dcScan, dcSender, dcPosts, dcOld,
  dcTold, dcFault,
  pfProfile, pfProposal, pfChange, pfLock, pfActor, pfWritten, pfRestored, pfLanded, pfFault,
  maInvite, maUsers, maGranted, maUnlinked, maRow, maRemote, maAdmin, maTodo, maOp, maMade,
  maAstray, maTouched, maFault,
  siRole, siPw, siConf, siTested, siIdentity, siInvite, siDevice, siAgent, siCode, siFlow, siOp,
  siKept, siSpent, siTwice, siRelinked, siStarts, siChanges, siFault

tagVars == <<tgJob, tgLock, tgOn, tgAsks, tgDone, tgNative, tgRefresh, tgWorker,
             tgDelivery, tgRetried, tgFault>>
tvVars == <<tvWant, tvJob, tvPaid, tvMatch, tvPhase, tvSeries, tvWatched, tvFlag, tvEps,
            tvFiles, tvPicked, tvAsked, tvWrote, tvAttempt, tvFault>>
followVars == <<fwFollow, fwRequest, fwRow, fwAir, fwSonarr, fwCommand, fwLock, fwAtt,
                fwClock, fwPosts, fwReal, fwTouched, fwFault>>
grokVars == <<gkRow, gkPending, gkLock, gkCaller, gkSlot, gkFlow, gkOpen, gkCurrent, gkAged,
              gkAgain, gkLost, gkGone, gkFault>>
discordVars == <<dcConf, dcCooling, dcRow, dcSeen, dcSaved, dcContent, dcScan, dcSender,
                 dcPosts, dcOld, dcTold, dcFault>>
profileVars == <<pfProfile, pfProposal, pfChange, pfLock, pfActor, pfWritten, pfRestored,
                 pfLanded, pfFault>>
mediaVars == <<maInvite, maUsers, maGranted, maUnlinked, maRow, maRemote, maAdmin, maTodo,
               maOp, maMade, maAstray, maTouched, maFault>>
signVars == <<siRole, siPw, siConf, siTested, siIdentity, siInvite, siDevice, siAgent, siCode,
              siFlow, siOp, siKept, siSpent, siTwice, siRelinked, siStarts, siChanges, siFault>>
vars == <<part, tagVars, tvVars, followVars, grokVars, discordVars, profileVars, mediaVars, signVars>>

Tags == INSTANCE RequesterTags WITH Job <- Tag, Token <- Token, NoTok <- NoToken,
  Lidarr <- Lidarr, MaxAttempts <- MaxAttempts, MaxRefresh <- MaxRefresh, MaxFault <- MaxFault,
  job <- tgJob, lock <- tgLock, enabled <- tgOn, asks <- tgAsks, done <- tgDone,
  native <- tgNative, refresh <- tgRefresh, worker <- tgWorker, delivery <- tgDelivery,
  retried <- tgRetried, fault <- tgFault

TV == INSTANCE TVDelivery WITH Request <- Party, NoRequest <- NoParty, Season <- Season,
  MaxFault <- MaxFault, want <- tvWant, job <- tvJob, paid <- tvPaid, match <- tvMatch,
  phase <- tvPhase, series <- tvSeries, watched <- tvWatched, flag <- tvFlag,
  eps <- tvEps, files <- tvFiles, picked <- tvPicked, asked <- tvAsked,
  wrote <- tvWrote, attempt <- tvAttempt, fault <- tvFault

Following == INSTANCE TVFollow WITH Follow <- Party, NoFollow <- NoParty, Episode <- Episode,
  MaxSearch <- MaxSearch, MaxFault <- MaxFault, follow <- fwFollow, request <- fwRequest, row <- fwRow,
  air <- fwAir, sonarr <- fwSonarr, command <- fwCommand, lock <- fwLock, att <- fwAtt,
  clock <- fwClock, posts <- fwPosts, real <- fwReal, touched <- fwTouched, fault <- fwFault

Grok == INSTANCE GrokTokens WITH Caller <- Party, NoCaller <- NoParty, Flow <- DeviceLogin,
  NoFlow <- NoParty, MaxGrant <- MaxGrant, MaxRefresh <- MaxRenewal, MaxFault <- MaxFault, row <- gkRow,
  pending <- gkPending, lock <- gkLock, caller <- gkCaller, slot <- gkSlot, flow <- gkFlow,
  open <- gkOpen, current <- gkCurrent, aged <- gkAged, again <- gkAgain, lost <- gkLost,
  gone <- gkGone, fault <- gkFault

Discord == INSTANCE DiscordOutbox WITH Request <- Request, Unit <- Unit, MaxTries <- MaxTries,
  MaxSave <- MaxSave, MaxFault <- MaxFault, conf <- dcConf, cooling <- dcCooling, row <- dcRow,
  seen <- dcSeen, saved <- dcSaved, content <- dcContent, scan <- dcScan,
  sender <- dcSender, posts <- dcPosts, old <- dcOld, told <- dcTold, fault <- dcFault

Profiles == INSTANCE ProfileChanges WITH Actor <- Party, NoActor <- NoParty,
  Value <- Value, MaxProposal <- MaxProposal, MaxChange <- MaxChange, MaxFault <- ProfileFaults, profile <- pfProfile,
  proposal <- pfProposal, change <- pfChange, lock <- pfLock, actor <- pfActor,
  written <- pfWritten, restored <- pfRestored, landed <- pfLanded, fault <- pfFault

\* Users who share accounts.
Media == INSTANCE MediaAccess WITH User <- Party, Id <- MediaAccount, NoId <- NoParty,
  MaxFault <- MediaFaults, invite <- maInvite, users <- maUsers, granted <- maGranted,
  unlinked <- maUnlinked, row <- maRow, remote <- maRemote, admin <- maAdmin,
  todo <- maTodo, op <- maOp, made <- maMade, astray <- maAstray, touched <- maTouched,
  fault <- maFault

\* Over the same variables: users who move between accounts.
Moves == INSTANCE MediaAccess WITH User <- Mover, Id <- Address, NoId <- NoParty,
  MaxFault <- MaxFault, invite <- maInvite, users <- maUsers, granted <- maGranted,
  unlinked <- maUnlinked, row <- maRow, remote <- maRemote, admin <- maAdmin,
  todo <- maTodo, op <- maOp, made <- maMade, astray <- maAstray, touched <- maTouched,
  fault <- maFault

Sign == INSTANCE SignIn WITH User <- Party, NoUser <- NoParty, Call <- SignCall,
  MaxStart <- MaxStart, MaxChange <- MaxPolicy, MaxToken <- MaxToken, MaxFault <- MaxFault, role <- siRole, pw <- siPw,
  conf <- siConf, tested <- siTested, identity <- siIdentity, invite <- siInvite,
  device <- siDevice, agent <- siAgent, code <- siCode, flow <- siFlow, op <- siOp,
  kept <- siKept, spent <- siSpent, twice <- siTwice, relinked <- siRelinked,
  starts <- siStarts, changes <- siChanges, fault <- siFault

(* A part that is not running has one state to start in.                   *)
Init ==
  /\ part \in {"tags", "tv", "follow", "grok", "discord", "profiles", "media", "moves",
             "signin"}
  /\ Tags!Init /\ (part # "tags" => tgOn)
  /\ TV!Init /\ (part # "tv" => tvSeries = "absent")
  /\ Following!Init /\ Grok!Init /\ Discord!Init /\ Profiles!Init
  /\ IF part = "moves" THEN Moves!Init
     ELSE Media!Init /\ (part # "media" => ~maInvite /\ maRemote = [i \in MediaAccount |-> "none"])
  /\ Sign!Init /\ (part # "signin" => siRole = [u \in Party |-> "admin"] /\ siPw = Party)

Only(p) ==
  /\ part = p /\ UNCHANGED part
  /\ IF p = "tags" THEN TRUE ELSE UNCHANGED tagVars
  /\ IF p = "tv" THEN TRUE ELSE UNCHANGED tvVars
  /\ IF p = "follow" THEN TRUE ELSE UNCHANGED followVars
  /\ IF p = "grok" THEN TRUE ELSE UNCHANGED grokVars
  /\ IF p = "discord" THEN TRUE ELSE UNCHANGED discordVars
  /\ IF p = "profiles" THEN TRUE ELSE UNCHANGED profileVars
  /\ IF p \in {"media", "moves"} THEN TRUE ELSE UNCHANGED mediaVars
  /\ IF p = "signin" THEN TRUE ELSE UNCHANGED signVars

Next ==
  \/ Only("tags") /\ Tags!Next
  \/ Only("tv") /\ TV!Next
  \/ Only("follow") /\ Following!Next
  \/ Only("grok") /\ Grok!Next
  \/ Only("discord") /\ Discord!Next
  \/ Only("profiles") /\ Profiles!Next
  \/ Only("media") /\ Media!Next
  \/ Only("moves") /\ Moves!Next
  \/ Only("signin") /\ Sign!Next

Spec == Init /\ [][Next]_vars

(* The state of every service is well typed.                               *)
TypeOK ==
  CASE part = "tags" -> Tags!TypeOK
    [] part = "tv" -> TV!TypeOK
    [] part = "follow" -> Following!TypeOK
    [] part = "grok" -> Grok!TypeOK
    [] part = "discord" -> Discord!TypeOK
    [] part = "profiles" -> Profiles!TypeOK
    [] part = "media" -> Media!TypeOK
    [] part = "moves" -> Moves!TypeOK
    [] part = "signin" -> Sign!TypeOK

(* Tagging writes to the library only while no delivery does, and a tag    *)
(* reported as applied is on the title, refreshes included.                *)
TagsAreRight == part = "tags" => Tags!AloneInLibrary /\ Tags!AppliedIsTagged

(* A delivered season is monitored, whichever request came after it, and   *)
(* what a request changed in Sonarr stays paid for.                        *)
SeasonsAreRight == part = "tv" => TV!DeliveredIsMonitored /\ TV!WorkIsPaid

(* A search is sent once for a follow, losses and restarts included, and   *)
(* one that is called submitted was taken by Sonarr.                       *)
SearchesAreKnown ==
  part = "follow" => Following!SearchedOnce /\ Following!SubmittedIsReal

(* A cancelled tag is reopened by its requester's return alone, and no     *)
(* search is sent beside an uncertain one of another follow, nor for a     *)
(* follow that was stopped, once its first delivery is over.               *)
WorkIsWanted == Tags!NoRevival /\ Following!SearchesDoNotOverlap /\ Following!StopIsFinal

(* The newest refresh token is never dropped, and no consumed one is sent. *)
TokensAreKept == part = "grok" => Grok!TokenIsKept /\ Grok!ConsumedOnce

(* A Discord alert is posted at most once, and only about what is new.     *)
AlertsAreNews == []Discord!PostedOnce /\ Discord!NewsIsNew

(* A proposal's write is sent once, a change is restored once, history     *)
(* knows of every write that landed, and one proposal waits at a time.     *)
ChangesAreKnown ==
  part = "profiles" =>
    /\ Profiles!WrittenOnce /\ Profiles!RestoredOnce
    /\ Profiles!LandedIsKnown /\ Profiles!OnePending

(* A settled media account is as its row says, and one that was made is    *)
(* recorded.                                                               *)
AccountsAreKnown ==
  /\ part = "media" => Media!SettledIsTrue /\ Media!MadeIsRecorded
  /\ part = "moves" => Moves!SettledIsTrue /\ Moves!MadeIsRecorded

(* Requiring single sign-on locks no administrator out and leaves no local *)
(* session behind, what an identity gave ends with its unlinking, for      *)
(* good, and an invitation or a refresh token works once.                  *)
SignInsAreSound ==
  part = "signin" =>
    /\ Sign!NeverLockedOut /\ Sign!NoEscape /\ Sign!UnlinkIsFinal
    /\ Sign!SessionsFollowIdentity /\ Sign!SpentOnce
=============================================================================
