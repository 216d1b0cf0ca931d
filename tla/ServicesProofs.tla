---------------------------- MODULE ServicesProofs ----------------------------
(*****************************************************************************)
(* Theorems about media accounts, and the types of all services, for every  *)
(* value of the constants of Services.                                      *)
(*****************************************************************************)
EXTENDS LibraryServicesProofs, AccountServicesProofs

---------------------------------------------------------------------------
(* Media accounts.  What is kept is stated for any set U of users and any  *)
(* set I of accounts, as two instances of MediaAccess share the variables. *)

MediaRow(I) == [id : I \union {NoParty}, created : BOOLEAN, manage : BOOLEAN, pending : BOOLEAN, off : BOOLEAN]
MediaOp(I) == [pc : {"idle", "replace", "look", "create", "insert", "undo", "grant", "mark", "ask", "set", "stamp", "leave"},
               id : I \union {NoParty}, created : BOOLEAN, want : BOOLEAN]

MediaTypes(U, I) ==
  /\ maInvite \in BOOLEAN /\ maGranted \subseteq maUsers /\ maUnlinked \subseteq maUsers
  /\ maRow \in [U -> MediaRow(I)] /\ maOp \in [U -> MediaOp(I)]
  /\ maRemote \in [I -> {"none", "on", "off"}] /\ \A i \in I : maInvite => maRemote[i] # "off"
  /\ maTodo \subseteq U /\ maAdmin \subseteq maTouched /\ maMade \subseteq I

\* An account is claimed by one user at most.
MediaClaims(U) == \A u, v \in U : u # v /\ maRow[u].id = maRow[v].id => maRow[u].id = NoParty

\* What holds while a step of u is under way: a new account has no row yet, and what is about to be changed on the
\* server is in doubt.
MediaPlace(u) ==
  /\ maRow[u].id = NoParty => ~maRow[u].created /\ ~maRow[u].manage /\ ~maRow[u].pending /\ ~maRow[u].off
  /\ maOp[u].pc \in {"idle", "grant", "mark", "ask", "set", "stamp"} <=> maOp[u].id = NoParty
  /\ maOp[u].pc \in {"look", "create", "insert", "undo", "leave"} => maRow[u].id = NoParty
  /\ maOp[u].created => maOp[u].pc \in {"insert", "undo"}
  /\ maOp[u].pc = "undo" => maOp[u].created
  /\ maOp[u].pc \in {"replace", "look"} => maInvite
  /\ maOp[u].pc = "grant" => u \in maUsers
  /\ maOp[u].pc \in {"ask", "set", "stamp"} => maRow[u].id # NoParty /\ maRow[u].pending

\* A settled row is true, and so is one about to be settled.
MediaMeans(i, off) == maRemote[i] \in IF off THEN {"none", IF maInvite THEN "none" ELSE "off"} ELSE {"none", "on"}
MediaSettled(u) ==
  /\ maRow[u].manage /\ ~maRow[u].pending /\ maRow[u].id \notin maTouched => MediaMeans(maRow[u].id, maRow[u].off)
  /\ maOp[u].pc = "stamp" /\ maRow[u].id \notin maTouched => MediaMeans(maRow[u].id, maOp[u].want)

\* On an account server, whoever just made an account is alone with it.
MediaHolds(u, i) == maOp[u].id = i /\ maOp[u].pc \in {"insert", "undo", "leave"}
MediaExists(u) ==
  ~maInvite =>
    /\ maRow[u].id \notin maTouched \union {NoParty} => maRemote[maRow[u].id] # "none"
    /\ MediaHolds(u, maOp[u].id) /\ maOp[u].id \notin maTouched => maRemote[maOp[u].id] # "none"
    /\ maOp[u].created /\ maOp[u].id \notin maTouched => maRemote[maOp[u].id] = "on"
MediaAlone(u, v) ==
  ~maInvite /\ maOp[u].created /\ maOp[u].id \notin maTouched =>
    maRow[v].id # maOp[u].id /\ ~MediaHolds(v, maOp[u].id)

\* An account that was made is claimed, or is being claimed, undone or switched off.
MediaRecords(u, i) == maRow[u].id = i \/ (maOp[u].id = i /\ (maOp[u].created \/ maOp[u].pc = "leave"))
MediaRecorded(U, I) ==
  \A i \in I : i \in maMade /\ i \notin maAstray \union maTouched /\ maRemote[i] = "on" => \E u \in U : MediaRecords(u, i)

MediaKept(U, I) ==
  /\ MediaTypes(U, I) /\ MediaClaims(U) /\ MediaRecorded(U, I)
  /\ \A u \in U : MediaPlace(u) /\ MediaSettled(u) /\ MediaExists(u)
  /\ \A u, v \in U : u # v => MediaAlone(u, v)

MediaInv ==
  /\ part = "media" => MediaKept(Party, MediaAccount)
  /\ part = "moves" => MediaKept(Mover, Address)

\* A step of u: what it does to u, and what it may do to an account on the server.
MediaOthers(U, u) ==
  /\ maInvite' = maInvite /\ maTouched \subseteq maTouched' /\ maAstray \subseteq maAstray'
  /\ maUsers \ {u} \subseteq maUsers'
  /\ \A v \in U : v # u => maRow'[v] = maRow[v] /\ maOp'[v] = maOp[v]
MediaServes(U, I, u) ==
  \A i \in I : maRemote'[i] # maRemote[i] /\ i \notin maTouched' =>
    \A v \in U : v # u =>
      /\ maRow[v].id = i => maInvite /\ maRemote'[i] = "none"
      /\ ~maInvite /\ MediaHolds(v, i) => maRemote'[i] # "none" /\ ~maOp[v].created
MediaClaimed(U, u) ==
  \/ maRow'[u].id \in {NoParty, maRow[u].id}
  \/ \A v \in U : v # u => maRow[v].id # maRow'[u].id
MediaApart(U, u) == \A v \in U : v # u => MediaAlone(u, v)' /\ MediaAlone(v, u)'
MediaRecording(U, I, u) ==
  \A i \in I : i \in maMade' /\ i \notin maAstray' \union maTouched' /\ maRemote'[i] = "on" =>
    \/ MediaRecords(u, i)'
    \/ \E v \in U : v # u /\ MediaRecords(v, i)
    \/ i \in maMade /\ maRemote[i] = "on" /\ ~MediaRecords(u, i)

MediaStep(U, I, u) ==
  /\ MediaOthers(U, u) /\ MediaServes(U, I, u) /\ MediaClaimed(U, u) /\ MediaApart(U, u)
  /\ MediaRecording(U, I, u)
  /\ MediaPlace(u)' /\ MediaSettled(u)' /\ MediaExists(u)'

\* A step of one user that leaves the others alone, and does to the server what it
\* may, keeps the invariant.
LEMMA MediaStepKeeps ==
  ASSUME NEW U, NEW I, NEW u \in U, NoParty \notin I, MediaKept(U, I), MediaTypes(U, I)', MediaStep(U, I, u)
  PROVE  MediaKept(U, I)'
<1>1. MediaClaims(U)'
  BY DEF MediaKept, MediaClaims, MediaStep, MediaOthers, MediaClaimed
<1>2. MediaRecorded(U, I)'
  <2>1. SUFFICES ASSUME NEW i \in I, i \in maMade', i \notin maAstray' \union maTouched', maRemote'[i] = "on"
                 PROVE  \E v \in U : MediaRecords(v, i)'
    BY DEF MediaRecorded
  <2>2. CASE MediaRecords(u, i)'
    BY <2>2
  <2>3. ASSUME NEW v \in U, v # u, MediaRecords(v, i) PROVE MediaRecords(v, i)'
    BY <2>3 DEF MediaRecords, MediaStep, MediaOthers
  <2>4. CASE i \in maMade /\ maRemote[i] = "on" /\ ~MediaRecords(u, i)
    <3>1. PICK v \in U : MediaRecords(v, i)
      BY <2>1, <2>4 DEF MediaKept, MediaRecorded, MediaStep, MediaOthers
    <3>2. QED
      BY <2>3, <2>4, <3>1
  <2>5. QED
    BY <2>1, <2>2, <2>3, <2>4 DEF MediaStep, MediaRecording
<1>3. ASSUME NEW v \in U, v # u PROVE MediaPlace(v)' /\ MediaSettled(v)' /\ MediaExists(v)'
  <2>1. /\ maRow'[v] = maRow[v] /\ maOp'[v] = maOp[v] /\ maInvite' = maInvite
        /\ maTouched \subseteq maTouched' /\ (v \in maUsers => v \in maUsers')
    BY <1>3 DEF MediaStep, MediaOthers
  <2>2. /\ maRow[v].id \in I \union {NoParty} /\ maOp[v].id \in I \union {NoParty}
        /\ \A i \in I : maRemote[i] \in {"none", "on", "off"} /\ maRemote'[i] \in {"none", "on", "off"}
    BY DEF MediaKept, MediaTypes, MediaRow, MediaOp
  <2>a. MediaPlace(v) /\ MediaSettled(v) /\ MediaExists(v)
    BY DEF MediaKept
  <2>3. MediaPlace(v)'
    BY <2>1, <2>a DEF MediaPlace
  <2>4. \A i \in I : maRow[v].id = i /\ i \notin maTouched' => maRemote'[i] = maRemote[i] \/ (maInvite /\ maRemote'[i] = "none")
    BY <1>3 DEF MediaStep, MediaServes
  <2>5. MediaSettled(v)'
    <3>1. ASSUME NEW i \in I, NEW off \in BOOLEAN, i = maRow[v].id, i \notin maTouched', MediaMeans(i, off)
          PROVE  MediaMeans(i, off)'
      BY <2>1, <2>2, <2>4, <3>1 DEF MediaMeans
    <3>2. maRow[v].off \in BOOLEAN /\ maOp[v].want \in BOOLEAN
      BY DEF MediaKept, MediaTypes, MediaRow, MediaOp
    <3>3. maRow[v].manage \/ maOp[v].pc = "stamp" => maRow[v].id # NoParty
      BY <2>a DEF MediaPlace
    <3>4. QED
      BY <2>1, <2>2, <2>a, <3>1, <3>2, <3>3 DEF MediaSettled
  <2>6. \A i \in I : ~maInvite /\ MediaHolds(v, i) /\ i \notin maTouched' =>
          maRemote'[i] = maRemote[i] \/ (maRemote'[i] # "none" /\ ~maOp[v].created)
    BY <1>3 DEF MediaStep, MediaServes
  <2>7. MediaExists(v)'
    <3>1. maOp[v].created => MediaHolds(v, maOp[v].id)
      BY <2>a DEF MediaPlace, MediaHolds
    <3>2. ASSUME ~maInvite, maRow[v].id \notin maTouched' \union {NoParty} PROVE maRemote'[maRow[v].id] # "none"
      BY <2>1, <2>2, <2>4, <2>a, <3>2 DEF MediaExists
    <3>3. ASSUME ~maInvite, MediaHolds(v, maOp[v].id), maOp[v].id \in I \ maTouched'
          PROVE  /\ maRemote'[maOp[v].id] # "none"
                 /\ maOp[v].created => maRemote'[maOp[v].id] = "on"
      BY <2>1, <2>6, <2>a, <3>3 DEF MediaExists
    <3>4. QED
      BY <2>1, <2>2, <2>3, <3>1, <3>2, <3>3 DEF MediaPlace, MediaExists, MediaHolds
  <2>8. QED
    BY <2>3, <2>5, <2>7
<1>4. ASSUME NEW v \in U, NEW w \in U, v # w PROVE MediaAlone(v, w)'
  <2>1. CASE v = u \/ w = u
    BY <1>4, <2>1 DEF MediaStep, MediaApart
  <2>2. CASE v # u /\ w # u
    BY <1>4, <2>2 DEF MediaKept, MediaStep, MediaOthers, MediaAlone, MediaHolds
  <2>3. QED
    BY <2>1, <2>2
<1>5. QED
  BY <1>1, <1>2, <1>3, <1>4 DEF MediaKept, MediaStep

\* The kinds of step.  RowIs and OpIs say what a step makes of the row and of the operation of u.
MediaRowIs(U, I, u, i, created, manage, pending, off) ==
  /\ maRow' \in [U -> MediaRow(I)] /\ \A v \in U : v # u => maRow'[v] = maRow[v]
  /\ maRow'[u].id = i /\ maRow'[u].created = created /\ maRow'[u].manage = manage
  /\ maRow'[u].pending = pending /\ maRow'[u].off = off
MediaOpIs(U, I, u, pc, i, created, want) ==
  /\ maOp' \in [U -> MediaOp(I)] /\ \A v \in U : v # u => maOp'[v] = maOp[v]
  /\ maOp'[u].pc = pc /\ maOp'[u].id = i /\ maOp'[u].created = created /\ maOp'[u].want = want
MediaDrops(U, I, u) == MediaRowIs(U, I, u, NoParty, FALSE, FALSE, FALSE, FALSE)
MediaStops(U, I, u) == MediaOpIs(U, I, u, "idle", NoParty, FALSE, FALSE)
MediaGoes(U, I, u, pc) == MediaOpIs(U, I, u, pc, maOp[u].id, maOp[u].created, maOp[u].want)
MediaStarts(U, I, u, pc, i) == MediaOpIs(U, I, u, pc, i, FALSE, FALSE)
MediaFree(U, u, i) == \A v \in U : v # u => maRow[v].id # i
MediaUnmade(U, i) == \A v \in U : ~(maOp[v].id = i /\ maOp[v].created)
MediaPuts(i, s) == maRemote' = [maRemote EXCEPT ![i] = s]

MediaCalm(U) ==
  /\ maInvite' = maInvite /\ maTodo' \subseteq U /\ maGranted' \subseteq maUsers' /\ maUnlinked' \subseteq maUsers'
  /\ maTouched \subseteq maTouched' /\ maAstray \subseteq maAstray' /\ maAdmin' = maAdmin

\* The server stays as it is.
MediaQuiet(U) == MediaCalm(U) /\ UNCHANGED <<maRemote, maMade>>
MediaIdles(U, I, u) == MediaQuiet(U) /\ UNCHANGED <<maUsers, maRow, maOp>>
MediaEnds(U, I, u) ==
  /\ MediaQuiet(U) /\ UNCHANGED <<maUsers, maRow>> /\ MediaStops(U, I, u) /\ maOp[u].pc # "leave"
  /\ maOp[u].created => \E v \in U : v # u /\ maRow[v].id = maOp[u].id
MediaWalks(U, I, u) ==
  /\ MediaQuiet(U) /\ UNCHANGED <<maUsers, maRow>>
  /\ \E pc \in {"mark", "create", "insert", "undo"} :
       /\ MediaGoes(U, I, u, pc)
       /\ pc = "mark" => maOp[u].pc \in {"idle", "grant"}
       /\ pc \in {"create", "insert"} => maOp[u].pc = "look"
       /\ pc = "undo" => maOp[u].pc = "insert" /\ maOp[u].created
MediaAsks(U, I, u) ==
  /\ MediaQuiet(U) /\ UNCHANGED <<maUsers, maRow>> /\ maOp[u].pc = "ask"
  /\ \E want \in BOOLEAN :
       \/ MediaOpIs(U, I, u, "set", maOp[u].id, maOp[u].created, want)
       \/ /\ MediaOpIs(U, I, u, "stamp", maOp[u].id, maOp[u].created, want)
          /\ maRemote[maRow[u].id] # "none" /\ want = (maRemote[maRow[u].id] = "off")
MediaReplaces(U, I, u) ==
  /\ MediaQuiet(U) /\ UNCHANGED <<maUsers, maRow>> /\ maOp[u].pc = "idle" /\ maInvite
  /\ \E i \in I : MediaStarts(U, I, u, "replace", i)
MediaBegins(U, I, u) ==
  /\ MediaQuiet(U) /\ maUsers' = maUsers /\ MediaDrops(U, I, u)
  /\ maOp[u].pc = "idle" /\ (maRow[u].id # NoParty => maRemote[maRow[u].id] = "none")
  /\ \E i \in I, pc \in {"look", "create", "insert"} :
       /\ MediaStarts(U, I, u, pc, i) /\ (pc = "look") = maInvite
       /\ pc = "insert" => maRemote[i] = "on" /\ MediaUnmade(U, i)
MediaForgets(U, I, u) ==
  /\ MediaQuiet(U) /\ maUsers' = maUsers /\ MediaDrops(U, I, u)
  /\ maOp[u].pc = "idle" /\ maOp' = maOp /\ (maRow[u].id # NoParty => maRow[u].id \in maAstray')
MediaDeletes(U, I, u) ==
  /\ MediaQuiet(U) /\ maUsers' = maUsers \ {u} /\ MediaDrops(U, I, u) /\ maOp[u].pc = "idle"
  /\ IF maRow[u].manage THEN MediaStarts(U, I, u, "leave", maRow[u].id)
     ELSE maOp' = maOp /\ (maRow[u].id # NoParty => maRow[u].id \in maAstray')
MediaLinks(U, I, u) ==
  /\ MediaQuiet(U) /\ maUsers' = maUsers /\ u \in maUsers /\ maOp[u].pc = "idle"
  /\ MediaGoes(U, I, u, "grant")
  /\ \/ maRow' = maRow
     \/ \E i \in I, m \in BOOLEAN :
          /\ maRow[u].id = NoParty /\ MediaRowIs(U, I, u, i, FALSE, m, m, FALSE)
          /\ maRemote[i] # "none" /\ MediaUnmade(U, i) /\ MediaFree(U, u, i)
MediaManages(U, I, u) ==
  /\ MediaQuiet(U) /\ maUsers' = maUsers /\ maOp[u].pc = "idle" /\ maRow[u].id # NoParty
  /\ \E m \in BOOLEAN :
       /\ MediaRowIs(U, I, u, maRow[u].id, maRow[u].created, m, m, maRow[u].off)
       /\ IF m THEN MediaGoes(U, I, u, "mark") ELSE maOp' = maOp
MediaMarks(U, I, u) ==
  /\ MediaQuiet(U) /\ maUsers' = maUsers /\ maOp[u].pc = "mark" /\ maRow[u].manage
  /\ MediaRowIs(U, I, u, maRow[u].id, maRow[u].created, maRow[u].manage, TRUE, maRow[u].off)
  /\ MediaGoes(U, I, u, "ask")
MediaSettles(U, I, u) ==
  /\ MediaQuiet(U) /\ maUsers' = maUsers /\ MediaStops(U, I, u)
  /\ \E m, off \in BOOLEAN :
       /\ MediaRowIs(U, I, u, maRow[u].id, maRow[u].created, m, FALSE, off)
       /\ \/ maOp[u].pc = "ask" /\ ~m
          \/ maOp[u].pc = "ask" /\ maInvite /\ maRemote[maRow[u].id] = "none"
          \/ maOp[u].pc = "stamp" /\ off = maOp[u].want
MediaInserts(U, I, u) ==
  /\ MediaQuiet(U) /\ maUsers' = maUsers /\ maOp[u].pc = "insert" /\ MediaStops(U, I, u)
  /\ MediaFree(U, u, maOp[u].id)
  /\ \E m \in BOOLEAN :
       (m => maOp[u].created) /\ MediaRowIs(U, I, u, maOp[u].id, maOp[u].created, m, FALSE, FALSE)

\* The server is changed.
MediaOff == IF maInvite THEN "none" ELSE "off"
MediaReplaced(U, I, u) ==
  /\ MediaCalm(U) /\ UNCHANGED <<maUsers, maMade>> /\ maOp[u].pc = "replace" /\ MediaPuts(maRow[u].id, MediaOff)
  /\ \/ MediaDrops(U, I, u) /\ MediaGoes(U, I, u, "look")
     \/ maRow' = maRow /\ MediaStops(U, I, u)
MediaMade(U, I, u) ==
  /\ MediaCalm(U) /\ UNCHANGED <<maUsers, maRow>> /\ maOp[u].pc = "create"
  /\ maMade' \subseteq maMade \union {maOp[u].id} /\ (MediaFree(U, u, maOp[u].id) \/ maOp[u].id \in maTouched')
  /\ \/ /\ maInvite \/ maRemote[maOp[u].id] = "none"
        /\ MediaPuts(maOp[u].id, "on") /\ MediaOpIs(U, I, u, "insert", maOp[u].id, TRUE, maOp[u].want)
     \/ /\ MediaPuts(maOp[u].id, "on") \/ maRemote' = maRemote
        /\ MediaStops(U, I, u) /\ maOp[u].id \in maAstray'
MediaUndoes(U, I, u) ==
  /\ MediaCalm(U) /\ UNCHANGED <<maUsers, maRow, maMade>> /\ maOp[u].pc = "undo" /\ MediaStops(U, I, u)
  /\ \/ MediaPuts(maOp[u].id, "none")
     \/ maRemote' = maRemote /\ maOp[u].id \in maAstray'
MediaLeaves(U, I, u) ==
  /\ MediaCalm(U) /\ UNCHANGED <<maUsers, maRow, maMade>> /\ maOp[u].pc = "leave" /\ MediaStops(U, I, u)
  /\ MediaFree(U, u, maOp[u].id) \/ maOp[u].id \in maTouched'
  /\ \/ maRemote[maOp[u].id] = "on" /\ MediaPuts(maOp[u].id, MediaOff)
     \/ maRemote' = maRemote /\ (maRemote[maOp[u].id] # "on" \/ maOp[u].id \in maAstray')
MediaSets(U, I, u) ==
  /\ MediaCalm(U) /\ UNCHANGED <<maUsers, maRow, maMade>> /\ maOp[u].pc = "set"
  /\ maInvite \/ maRemote[maRow[u].id] # "none"
  /\ MediaPuts(maRow[u].id, IF maOp[u].want THEN MediaOff ELSE "on")
  /\ MediaGoes(U, I, u, "stamp") \/ MediaStops(U, I, u)

\* Nothing of an account changes.
LEMMA MediaIdlesKept ==
  ASSUME NEW U, NEW I, NEW u \in U, NoParty \notin I, MediaKept(U, I), MediaIdles(U, I, u)
  PROVE  MediaKept(U, I)'
<1>1. MediaTypes(U, I) /\ MediaPlace(u) /\ MediaSettled(u) /\ MediaExists(u)
  BY DEF MediaKept
<1>2. \A v \in U : v # u => /\ MediaAlone(u, v) /\ MediaAlone(v, u) /\ MediaPlace(v) /\ MediaExists(v)
                          /\ (maRow[u].id = maRow[v].id => maRow[u].id = NoParty)
  BY DEF MediaKept, MediaClaims
<1>3. MediaTypes(U, I)'
  BY <1>1 DEF MediaIdles, MediaQuiet, MediaCalm, MediaTypes, MediaPlace
<1>4. MediaOthers(U, u) /\ MediaClaimed(U, u)
  BY <1>1, <1>2 DEF MediaIdles, MediaQuiet, MediaCalm, MediaOthers, MediaClaimed, MediaPlace
<1>5. MediaServes(U, I, u)
  BY <1>1, <1>2 DEF MediaIdles, MediaQuiet, MediaCalm, MediaServes, MediaTypes, MediaRow, MediaOp, MediaPlace, MediaExists,
            MediaAlone, MediaHolds
<1>6. MediaPlace(u)'
  BY <1>1 DEF MediaIdles, MediaQuiet, MediaCalm, MediaTypes, MediaRow, MediaOp, MediaPlace
<1>7. MediaSettled(u)'
  BY <1>1, <1>6 DEF MediaIdles, MediaQuiet, MediaCalm, MediaTypes, MediaRow, MediaOp, MediaPlace, MediaSettled, MediaMeans,
            MediaExists
<1>8. MediaExists(u)'
  BY <1>1, <1>6 DEF MediaIdles, MediaQuiet, MediaCalm, MediaTypes, MediaRow, MediaOp, MediaPlace, MediaExists, MediaHolds
<1>9. ASSUME NEW v \in U, v # u PROVE MediaAlone(u, v)' /\ MediaAlone(v, u)'
  BY <1>1, <1>2, <1>9 DEF MediaIdles, MediaQuiet, MediaCalm, MediaTypes, MediaRow, MediaOp, MediaPlace, MediaExists, MediaAlone,
            MediaHolds
<1>10. MediaRecording(U, I, u)
  BY <1>1, <1>2 DEF MediaIdles, MediaQuiet, MediaCalm, MediaTypes, MediaRow, MediaOp, MediaPlace, MediaRecording,
            MediaRecords
<1>11. QED
  BY <1>1, <1>3, <1>4, <1>5, <1>6, <1>7, <1>8, <1>9, <1>10, MediaStepKeeps DEF MediaStep, MediaApart

\* An operation ends: it held no new account, or another user claims that one.
LEMMA MediaEndsKept ==
  ASSUME NEW U, NEW I, NEW u \in U, NoParty \notin I, MediaKept(U, I), MediaEnds(U, I, u)
  PROVE  MediaKept(U, I)'
<1>1. MediaTypes(U, I) /\ MediaPlace(u) /\ MediaSettled(u) /\ MediaExists(u)
  BY DEF MediaKept
<1>2. \A v \in U : v # u => /\ MediaAlone(u, v) /\ MediaAlone(v, u) /\ MediaPlace(v) /\ MediaExists(v)
                          /\ (maRow[u].id = maRow[v].id => maRow[u].id = NoParty)
  BY DEF MediaKept, MediaClaims
<1>3. MediaTypes(U, I)'
  BY <1>1 DEF MediaEnds, MediaStops, MediaOpIs, MediaQuiet, MediaCalm, MediaTypes, MediaPlace
<1>4. MediaOthers(U, u) /\ MediaClaimed(U, u)
  BY <1>1, <1>2 DEF MediaEnds, MediaStops, MediaOpIs, MediaQuiet, MediaCalm, MediaOthers, MediaClaimed, MediaPlace
<1>5. MediaServes(U, I, u)
  BY <1>1, <1>2 DEF MediaEnds, MediaStops, MediaOpIs, MediaQuiet, MediaCalm, MediaServes, MediaTypes, MediaRow, MediaOp,
            MediaPlace, MediaExists, MediaAlone, MediaHolds
<1>6. MediaPlace(u)'
  BY <1>1 DEF MediaEnds, MediaStops, MediaOpIs, MediaQuiet, MediaCalm, MediaTypes, MediaRow, MediaOp, MediaPlace
<1>7. MediaSettled(u)'
  BY <1>1, <1>6 DEF MediaEnds, MediaStops, MediaOpIs, MediaQuiet, MediaCalm, MediaTypes, MediaRow, MediaOp, MediaPlace,
            MediaSettled, MediaMeans, MediaExists
<1>8. MediaExists(u)'
  BY <1>1, <1>6 DEF MediaEnds, MediaStops, MediaOpIs, MediaQuiet, MediaCalm, MediaTypes, MediaRow, MediaOp, MediaPlace,
            MediaExists, MediaHolds
<1>9. ASSUME NEW v \in U, v # u PROVE MediaAlone(u, v)' /\ MediaAlone(v, u)'
  BY <1>1, <1>2, <1>9 DEF MediaEnds, MediaStops, MediaOpIs, MediaQuiet, MediaCalm, MediaTypes, MediaRow, MediaOp, MediaPlace,
            MediaExists, MediaAlone, MediaHolds
<1>10. MediaRecording(U, I, u)
  BY <1>1, <1>2 DEF MediaEnds, MediaStops, MediaOpIs, MediaQuiet, MediaCalm, MediaTypes, MediaRow, MediaOp, MediaPlace,
            MediaRecording, MediaRecords
<1>11. QED
  BY <1>1, <1>3, <1>4, <1>5, <1>6, <1>7, <1>8, <1>9, <1>10, MediaStepKeeps DEF MediaStep, MediaApart

\* An operation goes on.
LEMMA MediaWalksKept ==
  ASSUME NEW U, NEW I, NEW u \in U, NoParty \notin I, MediaKept(U, I), MediaWalks(U, I, u)
  PROVE  MediaKept(U, I)'
<1>1. MediaTypes(U, I) /\ MediaPlace(u) /\ MediaSettled(u) /\ MediaExists(u)
  BY DEF MediaKept
<1>2. \A v \in U : v # u => /\ MediaAlone(u, v) /\ MediaAlone(v, u) /\ MediaPlace(v) /\ MediaExists(v)
                          /\ (maRow[u].id = maRow[v].id => maRow[u].id = NoParty)
  BY DEF MediaKept, MediaClaims
<1>3. MediaTypes(U, I)'
  BY <1>1 DEF MediaWalks, MediaGoes, MediaOpIs, MediaQuiet, MediaCalm, MediaTypes, MediaPlace
<1>4. MediaOthers(U, u) /\ MediaClaimed(U, u)
  BY <1>1, <1>2 DEF MediaWalks, MediaGoes, MediaOpIs, MediaQuiet, MediaCalm, MediaOthers, MediaClaimed, MediaPlace
<1>5. MediaServes(U, I, u)
  BY <1>1, <1>2 DEF MediaWalks, MediaGoes, MediaOpIs, MediaQuiet, MediaCalm, MediaServes, MediaTypes, MediaRow, MediaOp,
            MediaPlace, MediaExists, MediaAlone, MediaHolds
<1>6. MediaPlace(u)'
  BY <1>1 DEF MediaWalks, MediaGoes, MediaOpIs, MediaQuiet, MediaCalm, MediaTypes, MediaRow, MediaOp, MediaPlace
<1>7. MediaSettled(u)'
  BY <1>1, <1>6 DEF MediaWalks, MediaGoes, MediaOpIs, MediaQuiet, MediaCalm, MediaTypes, MediaRow, MediaOp, MediaPlace,
            MediaSettled, MediaMeans, MediaExists
<1>8. MediaExists(u)'
  BY <1>1, <1>6 DEF MediaWalks, MediaGoes, MediaOpIs, MediaQuiet, MediaCalm, MediaTypes, MediaRow, MediaOp, MediaPlace,
            MediaExists, MediaHolds
<1>9. ASSUME NEW v \in U, v # u PROVE MediaAlone(u, v)' /\ MediaAlone(v, u)'
  BY <1>1, <1>2, <1>9 DEF MediaWalks, MediaGoes, MediaOpIs, MediaQuiet, MediaCalm, MediaTypes, MediaRow, MediaOp, MediaPlace,
            MediaExists, MediaAlone, MediaHolds
<1>10. MediaRecording(U, I, u)
  BY <1>1, <1>2 DEF MediaWalks, MediaGoes, MediaOpIs, MediaQuiet, MediaCalm, MediaTypes, MediaRow, MediaOp, MediaPlace,
            MediaRecording, MediaRecords
<1>11. QED
  BY <1>1, <1>3, <1>4, <1>5, <1>6, <1>7, <1>8, <1>9, <1>10, MediaStepKeeps DEF MediaStep, MediaApart

\* The server was asked, and answered.
LEMMA MediaAsksKept ==
  ASSUME NEW U, NEW I, NEW u \in U, NoParty \notin I, MediaKept(U, I), MediaAsks(U, I, u)
  PROVE  MediaKept(U, I)'
<1>1. MediaTypes(U, I) /\ MediaPlace(u) /\ MediaSettled(u) /\ MediaExists(u)
  BY DEF MediaKept
<1>2. \A v \in U : v # u => /\ MediaAlone(u, v) /\ MediaAlone(v, u) /\ MediaPlace(v) /\ MediaExists(v)
                          /\ (maRow[u].id = maRow[v].id => maRow[u].id = NoParty)
  BY DEF MediaKept, MediaClaims
<1>3. MediaTypes(U, I)'
  BY <1>1 DEF MediaAsks, MediaOpIs, MediaQuiet, MediaCalm, MediaTypes, MediaPlace
<1>4. MediaOthers(U, u) /\ MediaClaimed(U, u)
  BY <1>1, <1>2 DEF MediaAsks, MediaOpIs, MediaQuiet, MediaCalm, MediaOthers, MediaClaimed, MediaPlace
<1>5. MediaServes(U, I, u)
  BY <1>1, <1>2 DEF MediaAsks, MediaOpIs, MediaQuiet, MediaCalm, MediaServes, MediaTypes, MediaRow, MediaOp, MediaPlace,
            MediaExists, MediaAlone, MediaHolds
<1>6. MediaPlace(u)'
  BY <1>1 DEF MediaAsks, MediaOpIs, MediaQuiet, MediaCalm, MediaTypes, MediaRow, MediaOp, MediaPlace
<1>7. MediaSettled(u)'
  BY <1>1, <1>6 DEF MediaAsks, MediaOpIs, MediaQuiet, MediaCalm, MediaTypes, MediaRow, MediaOp, MediaPlace, MediaSettled,
            MediaMeans, MediaExists
<1>8. MediaExists(u)'
  BY <1>1, <1>6 DEF MediaAsks, MediaOpIs, MediaQuiet, MediaCalm, MediaTypes, MediaRow, MediaOp, MediaPlace, MediaExists,
            MediaHolds
<1>9. ASSUME NEW v \in U, v # u PROVE MediaAlone(u, v)' /\ MediaAlone(v, u)'
  BY <1>1, <1>2, <1>9 DEF MediaAsks, MediaOpIs, MediaQuiet, MediaCalm, MediaTypes, MediaRow, MediaOp, MediaPlace, MediaExists,
            MediaAlone, MediaHolds
<1>10. MediaRecording(U, I, u)
  BY <1>1, <1>2 DEF MediaAsks, MediaOpIs, MediaQuiet, MediaCalm, MediaTypes, MediaRow, MediaOp, MediaPlace, MediaRecording,
            MediaRecords
<1>11. QED
  BY <1>1, <1>3, <1>4, <1>5, <1>6, <1>7, <1>8, <1>9, <1>10, MediaStepKeeps DEF MediaStep, MediaApart

\* An invitation to another address begins.
LEMMA MediaReplacesKept ==
  ASSUME NEW U, NEW I, NEW u \in U, NoParty \notin I, MediaKept(U, I), MediaReplaces(U, I, u)
  PROVE  MediaKept(U, I)'
<1>1. MediaTypes(U, I) /\ MediaPlace(u) /\ MediaSettled(u) /\ MediaExists(u)
  BY DEF MediaKept
<1>2. \A v \in U : v # u => /\ MediaAlone(u, v) /\ MediaAlone(v, u) /\ MediaPlace(v) /\ MediaExists(v)
                          /\ (maRow[u].id = maRow[v].id => maRow[u].id = NoParty)
  BY DEF MediaKept, MediaClaims
<1>3. MediaTypes(U, I)'
  BY <1>1 DEF MediaReplaces, MediaStarts, MediaOpIs, MediaQuiet, MediaCalm, MediaTypes, MediaPlace
<1>4. MediaOthers(U, u) /\ MediaClaimed(U, u)
  BY <1>1, <1>2 DEF MediaReplaces, MediaStarts, MediaOpIs, MediaQuiet, MediaCalm, MediaOthers, MediaClaimed, MediaPlace
<1>5. MediaServes(U, I, u)
  BY <1>1, <1>2 DEF MediaReplaces, MediaStarts, MediaOpIs, MediaQuiet, MediaCalm, MediaServes, MediaTypes, MediaRow, MediaOp,
            MediaPlace, MediaExists, MediaAlone, MediaHolds
<1>6. MediaPlace(u)'
  BY <1>1 DEF MediaReplaces, MediaStarts, MediaOpIs, MediaQuiet, MediaCalm, MediaTypes, MediaRow, MediaOp, MediaPlace
<1>7. MediaSettled(u)'
  BY <1>1, <1>6 DEF MediaReplaces, MediaStarts, MediaOpIs, MediaQuiet, MediaCalm, MediaTypes, MediaRow, MediaOp, MediaPlace,
            MediaSettled, MediaMeans, MediaExists
<1>8. MediaExists(u)'
  BY <1>1, <1>6 DEF MediaReplaces, MediaStarts, MediaOpIs, MediaQuiet, MediaCalm, MediaTypes, MediaRow, MediaOp, MediaPlace,
            MediaExists, MediaHolds
<1>9. ASSUME NEW v \in U, v # u PROVE MediaAlone(u, v)' /\ MediaAlone(v, u)'
  BY <1>1, <1>2, <1>9 DEF MediaReplaces, MediaStarts, MediaOpIs, MediaQuiet, MediaCalm, MediaTypes, MediaRow, MediaOp, MediaPlace,
            MediaExists, MediaAlone, MediaHolds
<1>10. MediaRecording(U, I, u)
  BY <1>1, <1>2 DEF MediaReplaces, MediaStarts, MediaOpIs, MediaQuiet, MediaCalm, MediaTypes, MediaRow, MediaOp, MediaPlace,
            MediaRecording, MediaRecords
<1>11. QED
  BY <1>1, <1>3, <1>4, <1>5, <1>6, <1>7, <1>8, <1>9, <1>10, MediaStepKeeps DEF MediaStep, MediaApart

\* A new account, invitation or link begins where none is.
LEMMA MediaBeginsKept ==
  ASSUME NEW U, NEW I, NEW u \in U, NoParty \notin I, MediaKept(U, I), MediaBegins(U, I, u)
  PROVE  MediaKept(U, I)'
<1>1. MediaTypes(U, I) /\ MediaPlace(u) /\ MediaSettled(u) /\ MediaExists(u)
  BY DEF MediaKept
<1>2. \A v \in U : v # u => /\ MediaAlone(u, v) /\ MediaAlone(v, u) /\ MediaPlace(v) /\ MediaExists(v)
                          /\ (maRow[u].id = maRow[v].id => maRow[u].id = NoParty)
  BY DEF MediaKept, MediaClaims
<1>3. MediaTypes(U, I)'
  BY <1>1 DEF MediaBegins, MediaDrops, MediaRowIs, MediaStarts, MediaOpIs, MediaUnmade, MediaQuiet, MediaCalm,
            MediaTypes, MediaPlace
<1>4. MediaOthers(U, u) /\ MediaClaimed(U, u)
  BY <1>1, <1>2 DEF MediaBegins, MediaDrops, MediaRowIs, MediaStarts, MediaOpIs, MediaUnmade, MediaQuiet, MediaCalm,
            MediaOthers, MediaClaimed, MediaPlace
<1>5. MediaServes(U, I, u)
  BY <1>1, <1>2 DEF MediaBegins, MediaDrops, MediaRowIs, MediaStarts, MediaOpIs, MediaUnmade, MediaQuiet, MediaCalm,
            MediaServes, MediaTypes, MediaRow, MediaOp, MediaPlace, MediaExists, MediaAlone, MediaHolds
<1>6. MediaPlace(u)'
  BY <1>1 DEF MediaBegins, MediaDrops, MediaRowIs, MediaStarts, MediaOpIs, MediaUnmade, MediaQuiet, MediaCalm,
            MediaTypes, MediaRow, MediaOp, MediaPlace
<1>7. MediaSettled(u)'
  BY <1>1, <1>6 DEF MediaBegins, MediaDrops, MediaRowIs, MediaStarts, MediaOpIs, MediaUnmade, MediaQuiet, MediaCalm,
            MediaTypes, MediaRow, MediaOp, MediaPlace, MediaSettled, MediaMeans, MediaExists
<1>8. MediaExists(u)'
  BY <1>1, <1>6 DEF MediaBegins, MediaDrops, MediaRowIs, MediaStarts, MediaOpIs, MediaUnmade, MediaQuiet, MediaCalm,
            MediaTypes, MediaRow, MediaOp, MediaPlace, MediaExists, MediaHolds
<1>9. ASSUME NEW v \in U, v # u PROVE MediaAlone(u, v)' /\ MediaAlone(v, u)'
  BY <1>1, <1>2, <1>9 DEF MediaBegins, MediaDrops, MediaRowIs, MediaStarts, MediaOpIs, MediaUnmade, MediaQuiet, MediaCalm,
            MediaTypes, MediaRow, MediaOp, MediaPlace, MediaExists, MediaAlone, MediaHolds
<1>10. MediaRecording(U, I, u)
  BY <1>1, <1>2 DEF MediaBegins, MediaDrops, MediaRowIs, MediaStarts, MediaOpIs, MediaUnmade, MediaQuiet, MediaCalm,
            MediaTypes, MediaRow, MediaOp, MediaPlace, MediaRecording, MediaRecords
<1>11. QED
  BY <1>1, <1>3, <1>4, <1>5, <1>6, <1>7, <1>8, <1>9, <1>10, MediaStepKeeps DEF MediaStep, MediaApart

\* The row is forgotten.
LEMMA MediaForgetsKept ==
  ASSUME NEW U, NEW I, NEW u \in U, NoParty \notin I, MediaKept(U, I), MediaForgets(U, I, u)
  PROVE  MediaKept(U, I)'
<1>1. MediaTypes(U, I) /\ MediaPlace(u) /\ MediaSettled(u) /\ MediaExists(u)
  BY DEF MediaKept
<1>2. \A v \in U : v # u => /\ MediaAlone(u, v) /\ MediaAlone(v, u) /\ MediaPlace(v) /\ MediaExists(v)
                          /\ (maRow[u].id = maRow[v].id => maRow[u].id = NoParty)
  BY DEF MediaKept, MediaClaims
<1>3. MediaTypes(U, I)'
  BY <1>1 DEF MediaForgets, MediaDrops, MediaRowIs, MediaQuiet, MediaCalm, MediaTypes, MediaPlace
<1>4. MediaOthers(U, u) /\ MediaClaimed(U, u)
  BY <1>1, <1>2 DEF MediaForgets, MediaDrops, MediaRowIs, MediaQuiet, MediaCalm, MediaOthers, MediaClaimed, MediaPlace
<1>5. MediaServes(U, I, u)
  BY <1>1, <1>2 DEF MediaForgets, MediaDrops, MediaRowIs, MediaQuiet, MediaCalm, MediaServes, MediaTypes, MediaRow, MediaOp,
            MediaPlace, MediaExists, MediaAlone, MediaHolds
<1>6. MediaPlace(u)'
  BY <1>1 DEF MediaForgets, MediaDrops, MediaRowIs, MediaQuiet, MediaCalm, MediaTypes, MediaRow, MediaOp, MediaPlace
<1>7. MediaSettled(u)'
  BY <1>1, <1>6 DEF MediaForgets, MediaDrops, MediaRowIs, MediaQuiet, MediaCalm, MediaTypes, MediaRow, MediaOp, MediaPlace,
            MediaSettled, MediaMeans, MediaExists
<1>8. MediaExists(u)'
  BY <1>1, <1>6 DEF MediaForgets, MediaDrops, MediaRowIs, MediaQuiet, MediaCalm, MediaTypes, MediaRow, MediaOp, MediaPlace,
            MediaExists, MediaHolds
<1>9. ASSUME NEW v \in U, v # u PROVE MediaAlone(u, v)' /\ MediaAlone(v, u)'
  BY <1>1, <1>2, <1>9 DEF MediaForgets, MediaDrops, MediaRowIs, MediaQuiet, MediaCalm, MediaTypes, MediaRow, MediaOp, MediaPlace,
            MediaExists, MediaAlone, MediaHolds
<1>10. MediaRecording(U, I, u)
  BY <1>1, <1>2 DEF MediaForgets, MediaDrops, MediaRowIs, MediaQuiet, MediaCalm, MediaTypes, MediaRow, MediaOp, MediaPlace,
            MediaRecording, MediaRecords
<1>11. QED
  BY <1>1, <1>3, <1>4, <1>5, <1>6, <1>7, <1>8, <1>9, <1>10, MediaStepKeeps DEF MediaStep, MediaApart

\* The user is deleted.
LEMMA MediaDeletesKept ==
  ASSUME NEW U, NEW I, NEW u \in U, NoParty \notin I, MediaKept(U, I), MediaDeletes(U, I, u)
  PROVE  MediaKept(U, I)'
<1>1. MediaTypes(U, I) /\ MediaPlace(u) /\ MediaSettled(u) /\ MediaExists(u)
  BY DEF MediaKept
<1>2. \A v \in U : v # u => /\ MediaAlone(u, v) /\ MediaAlone(v, u) /\ MediaPlace(v) /\ MediaExists(v)
                          /\ (maRow[u].id = maRow[v].id => maRow[u].id = NoParty)
  BY DEF MediaKept, MediaClaims
<1>3. MediaTypes(U, I)'
  BY <1>1 DEF MediaDeletes, MediaDrops, MediaRowIs, MediaStarts, MediaOpIs, MediaQuiet, MediaCalm, MediaTypes,
            MediaPlace
<1>4. MediaOthers(U, u) /\ MediaClaimed(U, u)
  BY <1>1, <1>2 DEF MediaDeletes, MediaDrops, MediaRowIs, MediaStarts, MediaOpIs, MediaQuiet, MediaCalm, MediaOthers,
            MediaClaimed, MediaPlace
<1>5. MediaServes(U, I, u)
  BY <1>1, <1>2 DEF MediaDeletes, MediaDrops, MediaRowIs, MediaStarts, MediaOpIs, MediaQuiet, MediaCalm, MediaServes,
            MediaTypes, MediaRow, MediaOp, MediaPlace, MediaExists, MediaAlone, MediaHolds
<1>6. MediaPlace(u)'
  BY <1>1 DEF MediaDeletes, MediaDrops, MediaRowIs, MediaStarts, MediaOpIs, MediaQuiet, MediaCalm, MediaTypes,
            MediaRow, MediaOp, MediaPlace
<1>7. MediaSettled(u)'
  BY <1>1, <1>6 DEF MediaDeletes, MediaDrops, MediaRowIs, MediaStarts, MediaOpIs, MediaQuiet, MediaCalm, MediaTypes,
            MediaRow, MediaOp, MediaPlace, MediaSettled, MediaMeans, MediaExists
<1>8. MediaExists(u)'
  BY <1>1, <1>6 DEF MediaDeletes, MediaDrops, MediaRowIs, MediaStarts, MediaOpIs, MediaQuiet, MediaCalm, MediaTypes,
            MediaRow, MediaOp, MediaPlace, MediaExists, MediaHolds
<1>9. ASSUME NEW v \in U, v # u PROVE MediaAlone(u, v)' /\ MediaAlone(v, u)'
  <2>1. MediaAlone(u, v)'
    BY <1>1, <1>2, <1>9 DEF MediaDeletes, MediaDrops, MediaRowIs, MediaStarts, MediaOpIs, MediaQuiet, MediaCalm, MediaTypes,
            MediaRow, MediaOp, MediaPlace, MediaExists, MediaAlone, MediaHolds
  <2>2. MediaAlone(v, u)'
    BY <1>1, <1>2, <1>9 DEF MediaDeletes, MediaDrops, MediaRowIs, MediaStarts, MediaOpIs, MediaQuiet, MediaCalm, MediaTypes,
            MediaRow, MediaOp, MediaPlace, MediaExists, MediaAlone, MediaHolds
  <2>3. QED
    BY <2>1, <2>2
<1>10. MediaRecording(U, I, u)
  BY <1>1, <1>2 DEF MediaDeletes, MediaDrops, MediaRowIs, MediaStarts, MediaOpIs, MediaQuiet, MediaCalm, MediaTypes,
            MediaRow, MediaOp, MediaPlace, MediaRecording, MediaRecords
<1>11. QED
  BY <1>1, <1>3, <1>4, <1>5, <1>6, <1>7, <1>8, <1>9, <1>10, MediaStepKeeps DEF MediaStep, MediaApart

\* An administrator links an account.
LEMMA MediaLinksKept ==
  ASSUME NEW U, NEW I, NEW u \in U, NoParty \notin I, MediaKept(U, I), MediaLinks(U, I, u)
  PROVE  MediaKept(U, I)'
<1>1. MediaTypes(U, I) /\ MediaPlace(u) /\ MediaSettled(u) /\ MediaExists(u)
  BY DEF MediaKept
<1>2. \A v \in U : v # u => /\ MediaAlone(u, v) /\ MediaAlone(v, u) /\ MediaPlace(v) /\ MediaExists(v)
                          /\ (maRow[u].id = maRow[v].id => maRow[u].id = NoParty)
  BY DEF MediaKept, MediaClaims
<1>3. MediaTypes(U, I)'
  BY <1>1 DEF MediaLinks, MediaRowIs, MediaGoes, MediaOpIs, MediaFree, MediaUnmade, MediaQuiet, MediaCalm, MediaTypes,
            MediaPlace
<1>4. MediaOthers(U, u) /\ MediaClaimed(U, u)
  BY <1>1, <1>2 DEF MediaLinks, MediaRowIs, MediaGoes, MediaOpIs, MediaFree, MediaUnmade, MediaQuiet, MediaCalm, MediaOthers,
            MediaClaimed, MediaPlace
<1>5. MediaServes(U, I, u)
  BY <1>1, <1>2 DEF MediaLinks, MediaRowIs, MediaGoes, MediaOpIs, MediaFree, MediaUnmade, MediaQuiet, MediaCalm, MediaServes,
            MediaTypes, MediaRow, MediaOp, MediaPlace, MediaExists, MediaAlone, MediaHolds
<1>6. MediaPlace(u)'
  BY <1>1 DEF MediaLinks, MediaRowIs, MediaGoes, MediaOpIs, MediaFree, MediaUnmade, MediaQuiet, MediaCalm, MediaTypes,
            MediaRow, MediaOp, MediaPlace
<1>7. MediaSettled(u)'
  BY <1>1, <1>6 DEF MediaLinks, MediaRowIs, MediaGoes, MediaOpIs, MediaFree, MediaUnmade, MediaQuiet, MediaCalm, MediaTypes,
            MediaRow, MediaOp, MediaPlace, MediaSettled, MediaMeans, MediaExists
<1>8. MediaExists(u)'
  BY <1>1, <1>6 DEF MediaLinks, MediaRowIs, MediaGoes, MediaOpIs, MediaFree, MediaUnmade, MediaQuiet, MediaCalm, MediaTypes,
            MediaRow, MediaOp, MediaPlace, MediaExists, MediaHolds
<1>9. ASSUME NEW v \in U, v # u PROVE MediaAlone(u, v)' /\ MediaAlone(v, u)'
  BY <1>1, <1>2, <1>9 DEF MediaLinks, MediaRowIs, MediaGoes, MediaOpIs, MediaFree, MediaUnmade, MediaQuiet, MediaCalm, MediaTypes,
            MediaRow, MediaOp, MediaPlace, MediaExists, MediaAlone, MediaHolds
<1>10. MediaRecording(U, I, u)
  BY <1>1, <1>2 DEF MediaLinks, MediaRowIs, MediaGoes, MediaOpIs, MediaFree, MediaUnmade, MediaQuiet, MediaCalm, MediaTypes,
            MediaRow, MediaOp, MediaPlace, MediaRecording, MediaRecords
<1>11. QED
  BY <1>1, <1>3, <1>4, <1>5, <1>6, <1>7, <1>8, <1>9, <1>10, MediaStepKeeps DEF MediaStep, MediaApart

\* Management is switched on or off.
LEMMA MediaManagesKept ==
  ASSUME NEW U, NEW I, NEW u \in U, NoParty \notin I, MediaKept(U, I), MediaManages(U, I, u)
  PROVE  MediaKept(U, I)'
<1>1. MediaTypes(U, I) /\ MediaPlace(u) /\ MediaSettled(u) /\ MediaExists(u)
  BY DEF MediaKept
<1>2. \A v \in U : v # u => /\ MediaAlone(u, v) /\ MediaAlone(v, u) /\ MediaPlace(v) /\ MediaExists(v)
                          /\ (maRow[u].id = maRow[v].id => maRow[u].id = NoParty)
  BY DEF MediaKept, MediaClaims
<1>3. MediaTypes(U, I)'
  BY <1>1 DEF MediaManages, MediaRowIs, MediaGoes, MediaOpIs, MediaQuiet, MediaCalm, MediaTypes, MediaPlace
<1>4. MediaOthers(U, u) /\ MediaClaimed(U, u)
  BY <1>1, <1>2 DEF MediaManages, MediaRowIs, MediaGoes, MediaOpIs, MediaQuiet, MediaCalm, MediaOthers, MediaClaimed,
            MediaPlace
<1>5. MediaServes(U, I, u)
  BY <1>1, <1>2 DEF MediaManages, MediaRowIs, MediaGoes, MediaOpIs, MediaQuiet, MediaCalm, MediaServes, MediaTypes, MediaRow,
            MediaOp, MediaPlace, MediaExists, MediaAlone, MediaHolds
<1>6. MediaPlace(u)'
  BY <1>1 DEF MediaManages, MediaRowIs, MediaGoes, MediaOpIs, MediaQuiet, MediaCalm, MediaTypes, MediaRow, MediaOp,
            MediaPlace
<1>7. MediaSettled(u)'
  BY <1>1, <1>6 DEF MediaManages, MediaRowIs, MediaGoes, MediaOpIs, MediaQuiet, MediaCalm, MediaTypes, MediaRow, MediaOp,
            MediaPlace, MediaSettled, MediaMeans, MediaExists
<1>8. MediaExists(u)'
  BY <1>1, <1>6 DEF MediaManages, MediaRowIs, MediaGoes, MediaOpIs, MediaQuiet, MediaCalm, MediaTypes, MediaRow, MediaOp,
            MediaPlace, MediaExists, MediaHolds
<1>9. ASSUME NEW v \in U, v # u PROVE MediaAlone(u, v)' /\ MediaAlone(v, u)'
  BY <1>1, <1>2, <1>9 DEF MediaManages, MediaRowIs, MediaGoes, MediaOpIs, MediaQuiet, MediaCalm, MediaTypes, MediaRow, MediaOp,
            MediaPlace, MediaExists, MediaAlone, MediaHolds
<1>10. MediaRecording(U, I, u)
  BY <1>1, <1>2 DEF MediaManages, MediaRowIs, MediaGoes, MediaOpIs, MediaQuiet, MediaCalm, MediaTypes, MediaRow, MediaOp,
            MediaPlace, MediaRecording, MediaRecords
<1>11. QED
  BY <1>1, <1>3, <1>4, <1>5, <1>6, <1>7, <1>8, <1>9, <1>10, MediaStepKeeps DEF MediaStep, MediaApart

\* The intent is remembered.
LEMMA MediaMarksKept ==
  ASSUME NEW U, NEW I, NEW u \in U, NoParty \notin I, MediaKept(U, I), MediaMarks(U, I, u)
  PROVE  MediaKept(U, I)'
<1>1. MediaTypes(U, I) /\ MediaPlace(u) /\ MediaSettled(u) /\ MediaExists(u)
  BY DEF MediaKept
<1>2. \A v \in U : v # u => /\ MediaAlone(u, v) /\ MediaAlone(v, u) /\ MediaPlace(v) /\ MediaExists(v)
                          /\ (maRow[u].id = maRow[v].id => maRow[u].id = NoParty)
  BY DEF MediaKept, MediaClaims
<1>3. MediaTypes(U, I)'
  BY <1>1 DEF MediaMarks, MediaRowIs, MediaGoes, MediaOpIs, MediaQuiet, MediaCalm, MediaTypes, MediaPlace
<1>4. MediaOthers(U, u) /\ MediaClaimed(U, u)
  BY <1>1, <1>2 DEF MediaMarks, MediaRowIs, MediaGoes, MediaOpIs, MediaQuiet, MediaCalm, MediaOthers, MediaClaimed,
            MediaPlace
<1>5. MediaServes(U, I, u)
  BY <1>1, <1>2 DEF MediaMarks, MediaRowIs, MediaGoes, MediaOpIs, MediaQuiet, MediaCalm, MediaServes, MediaTypes, MediaRow,
            MediaOp, MediaPlace, MediaExists, MediaAlone, MediaHolds
<1>6. MediaPlace(u)'
  BY <1>1 DEF MediaMarks, MediaRowIs, MediaGoes, MediaOpIs, MediaQuiet, MediaCalm, MediaTypes, MediaRow, MediaOp,
            MediaPlace
<1>7. MediaSettled(u)'
  BY <1>1, <1>6 DEF MediaMarks, MediaRowIs, MediaGoes, MediaOpIs, MediaQuiet, MediaCalm, MediaTypes, MediaRow, MediaOp,
            MediaPlace, MediaSettled, MediaMeans, MediaExists
<1>8. MediaExists(u)'
  BY <1>1, <1>6 DEF MediaMarks, MediaRowIs, MediaGoes, MediaOpIs, MediaQuiet, MediaCalm, MediaTypes, MediaRow, MediaOp,
            MediaPlace, MediaExists, MediaHolds
<1>9. ASSUME NEW v \in U, v # u PROVE MediaAlone(u, v)' /\ MediaAlone(v, u)'
  BY <1>1, <1>2, <1>9 DEF MediaMarks, MediaRowIs, MediaGoes, MediaOpIs, MediaQuiet, MediaCalm, MediaTypes, MediaRow, MediaOp,
            MediaPlace, MediaExists, MediaAlone, MediaHolds
<1>10. MediaRecording(U, I, u)
  BY <1>1, <1>2 DEF MediaMarks, MediaRowIs, MediaGoes, MediaOpIs, MediaQuiet, MediaCalm, MediaTypes, MediaRow, MediaOp,
            MediaPlace, MediaRecording, MediaRecords
<1>11. QED
  BY <1>1, <1>3, <1>4, <1>5, <1>6, <1>7, <1>8, <1>9, <1>10, MediaStepKeeps DEF MediaStep, MediaApart

\* What was done, or found, is recorded.
LEMMA MediaSettlesKept ==
  ASSUME NEW U, NEW I, NEW u \in U, NoParty \notin I, MediaKept(U, I), MediaSettles(U, I, u)
  PROVE  MediaKept(U, I)'
<1>1. MediaTypes(U, I) /\ MediaPlace(u) /\ MediaSettled(u) /\ MediaExists(u)
  BY DEF MediaKept
<1>2. \A v \in U : v # u => /\ MediaAlone(u, v) /\ MediaAlone(v, u) /\ MediaPlace(v) /\ MediaExists(v)
                          /\ (maRow[u].id = maRow[v].id => maRow[u].id = NoParty)
  BY DEF MediaKept, MediaClaims
<1>3. MediaTypes(U, I)'
  BY <1>1 DEF MediaSettles, MediaRowIs, MediaStops, MediaOpIs, MediaQuiet, MediaCalm, MediaTypes, MediaPlace
<1>4. MediaOthers(U, u) /\ MediaClaimed(U, u)
  BY <1>1, <1>2 DEF MediaSettles, MediaRowIs, MediaStops, MediaOpIs, MediaQuiet, MediaCalm, MediaOthers, MediaClaimed,
            MediaPlace
<1>5. MediaServes(U, I, u)
  BY <1>1, <1>2 DEF MediaSettles, MediaRowIs, MediaStops, MediaOpIs, MediaQuiet, MediaCalm, MediaServes, MediaTypes,
            MediaRow, MediaOp, MediaPlace, MediaExists, MediaAlone, MediaHolds
<1>6. MediaPlace(u)'
  BY <1>1 DEF MediaSettles, MediaRowIs, MediaStops, MediaOpIs, MediaQuiet, MediaCalm, MediaTypes, MediaRow, MediaOp,
            MediaPlace
<1>7. MediaSettled(u)'
  BY <1>1, <1>6 DEF MediaSettles, MediaRowIs, MediaStops, MediaOpIs, MediaQuiet, MediaCalm, MediaTypes, MediaRow, MediaOp,
            MediaPlace, MediaSettled, MediaMeans, MediaExists
<1>8. MediaExists(u)'
  BY <1>1, <1>6 DEF MediaSettles, MediaRowIs, MediaStops, MediaOpIs, MediaQuiet, MediaCalm, MediaTypes, MediaRow, MediaOp,
            MediaPlace, MediaExists, MediaHolds
<1>9. ASSUME NEW v \in U, v # u PROVE MediaAlone(u, v)' /\ MediaAlone(v, u)'
  BY <1>1, <1>2, <1>9 DEF MediaSettles, MediaRowIs, MediaStops, MediaOpIs, MediaQuiet, MediaCalm, MediaTypes, MediaRow, MediaOp,
            MediaPlace, MediaExists, MediaAlone, MediaHolds
<1>10. MediaRecording(U, I, u)
  BY <1>1, <1>2 DEF MediaSettles, MediaRowIs, MediaStops, MediaOpIs, MediaQuiet, MediaCalm, MediaTypes, MediaRow, MediaOp,
            MediaPlace, MediaRecording, MediaRecords
<1>11. QED
  BY <1>1, <1>3, <1>4, <1>5, <1>6, <1>7, <1>8, <1>9, <1>10, MediaStepKeeps DEF MediaStep, MediaApart

\* The account is claimed.
LEMMA MediaInsertsKept ==
  ASSUME NEW U, NEW I, NEW u \in U, NoParty \notin I, MediaKept(U, I), MediaInserts(U, I, u)
  PROVE  MediaKept(U, I)'
<1>1. MediaTypes(U, I) /\ MediaPlace(u) /\ MediaSettled(u) /\ MediaExists(u)
  BY DEF MediaKept
<1>2. \A v \in U : v # u => /\ MediaAlone(u, v) /\ MediaAlone(v, u) /\ MediaPlace(v) /\ MediaExists(v)
                          /\ (maRow[u].id = maRow[v].id => maRow[u].id = NoParty)
  BY DEF MediaKept, MediaClaims
<1>3. MediaTypes(U, I)'
  BY <1>1 DEF MediaInserts, MediaRowIs, MediaStops, MediaOpIs, MediaFree, MediaQuiet, MediaCalm, MediaTypes,
            MediaPlace
<1>4. MediaOthers(U, u) /\ MediaClaimed(U, u)
  BY <1>1, <1>2 DEF MediaInserts, MediaRowIs, MediaStops, MediaOpIs, MediaFree, MediaQuiet, MediaCalm, MediaOthers,
            MediaClaimed, MediaPlace
<1>5. MediaServes(U, I, u)
  BY <1>1, <1>2 DEF MediaInserts, MediaRowIs, MediaStops, MediaOpIs, MediaFree, MediaQuiet, MediaCalm, MediaServes,
            MediaTypes, MediaRow, MediaOp, MediaPlace, MediaExists, MediaAlone, MediaHolds
<1>6. MediaPlace(u)'
  BY <1>1 DEF MediaInserts, MediaRowIs, MediaStops, MediaOpIs, MediaFree, MediaQuiet, MediaCalm, MediaTypes, MediaRow,
            MediaOp, MediaPlace
<1>7. MediaSettled(u)'
  BY <1>1, <1>6 DEF MediaInserts, MediaRowIs, MediaStops, MediaOpIs, MediaFree, MediaQuiet, MediaCalm, MediaTypes, MediaRow,
            MediaOp, MediaPlace, MediaSettled, MediaMeans, MediaExists
<1>8. MediaExists(u)'
  BY <1>1, <1>6 DEF MediaInserts, MediaRowIs, MediaStops, MediaOpIs, MediaFree, MediaQuiet, MediaCalm, MediaTypes, MediaRow,
            MediaOp, MediaPlace, MediaExists, MediaHolds
<1>9. ASSUME NEW v \in U, v # u PROVE MediaAlone(u, v)' /\ MediaAlone(v, u)'
  BY <1>1, <1>2, <1>9 DEF MediaInserts, MediaRowIs, MediaStops, MediaOpIs, MediaFree, MediaQuiet, MediaCalm, MediaTypes, MediaRow,
            MediaOp, MediaPlace, MediaExists, MediaAlone, MediaHolds
<1>10. MediaRecording(U, I, u)
  BY <1>1, <1>2 DEF MediaInserts, MediaRowIs, MediaStops, MediaOpIs, MediaFree, MediaQuiet, MediaCalm, MediaTypes, MediaRow,
            MediaOp, MediaPlace, MediaRecording, MediaRecords
<1>11. QED
  BY <1>1, <1>3, <1>4, <1>5, <1>6, <1>7, <1>8, <1>9, <1>10, MediaStepKeeps DEF MediaStep, MediaApart

\* The share sent before is removed.
LEMMA MediaReplacedKept ==
  ASSUME NEW U, NEW I, NEW u \in U, NoParty \notin I, MediaKept(U, I), MediaReplaced(U, I, u)
  PROVE  MediaKept(U, I)'
<1>1. MediaTypes(U, I) /\ MediaPlace(u) /\ MediaSettled(u) /\ MediaExists(u)
  BY DEF MediaKept
<1>2. \A v \in U : v # u => /\ MediaAlone(u, v) /\ MediaAlone(v, u) /\ MediaPlace(v) /\ MediaExists(v)
                          /\ (maRow[u].id = maRow[v].id => maRow[u].id = NoParty)
  BY DEF MediaKept, MediaClaims
<1>3. MediaTypes(U, I)'
  BY <1>1 DEF MediaReplaced, MediaDrops, MediaRowIs, MediaStops, MediaOpIs, MediaGoes, MediaPuts, MediaCalm, MediaOff,
            MediaTypes, MediaPlace
<1>4. MediaOthers(U, u) /\ MediaClaimed(U, u)
  BY <1>1, <1>2 DEF MediaReplaced, MediaDrops, MediaRowIs, MediaStops, MediaOpIs, MediaGoes, MediaPuts, MediaCalm, MediaOff,
            MediaOthers, MediaClaimed, MediaPlace
<1>5. MediaServes(U, I, u)
  BY <1>1, <1>2 DEF MediaReplaced, MediaDrops, MediaRowIs, MediaStops, MediaOpIs, MediaGoes, MediaPuts, MediaCalm, MediaOff,
            MediaServes, MediaTypes, MediaRow, MediaOp, MediaPlace, MediaExists, MediaAlone, MediaHolds
<1>6. MediaPlace(u)'
  BY <1>1 DEF MediaReplaced, MediaDrops, MediaRowIs, MediaStops, MediaOpIs, MediaGoes, MediaPuts, MediaCalm, MediaOff,
            MediaTypes, MediaRow, MediaOp, MediaPlace
<1>7. MediaSettled(u)'
  BY <1>1, <1>6 DEF MediaReplaced, MediaDrops, MediaRowIs, MediaStops, MediaOpIs, MediaGoes, MediaPuts, MediaCalm, MediaOff,
            MediaTypes, MediaRow, MediaOp, MediaPlace, MediaSettled, MediaMeans, MediaExists
<1>8. MediaExists(u)'
  BY <1>1, <1>6 DEF MediaReplaced, MediaDrops, MediaRowIs, MediaStops, MediaOpIs, MediaGoes, MediaPuts, MediaCalm, MediaOff,
            MediaTypes, MediaRow, MediaOp, MediaPlace, MediaExists, MediaHolds
<1>9. ASSUME NEW v \in U, v # u PROVE MediaAlone(u, v)' /\ MediaAlone(v, u)'
  BY <1>1, <1>2, <1>9 DEF MediaReplaced, MediaDrops, MediaRowIs, MediaStops, MediaOpIs, MediaGoes, MediaPuts, MediaCalm, MediaOff,
            MediaTypes, MediaRow, MediaOp, MediaPlace, MediaExists, MediaAlone, MediaHolds
<1>10. MediaRecording(U, I, u)
  BY <1>1, <1>2 DEF MediaReplaced, MediaDrops, MediaRowIs, MediaStops, MediaOpIs, MediaGoes, MediaPuts, MediaCalm, MediaOff,
            MediaTypes, MediaRow, MediaOp, MediaPlace, MediaRecording, MediaRecords
<1>11. QED
  BY <1>1, <1>3, <1>4, <1>5, <1>6, <1>7, <1>8, <1>9, <1>10, MediaStepKeeps DEF MediaStep, MediaApart

\* The account is made, or that is in doubt.
LEMMA MediaMadeKept ==
  ASSUME NEW U, NEW I, NEW u \in U, NoParty \notin I, MediaKept(U, I), MediaMade(U, I, u)
  PROVE  MediaKept(U, I)'
<1>1. MediaTypes(U, I) /\ MediaPlace(u) /\ MediaSettled(u) /\ MediaExists(u)
  BY DEF MediaKept
<1>2. \A v \in U : v # u => /\ MediaAlone(u, v) /\ MediaAlone(v, u) /\ MediaPlace(v) /\ MediaExists(v)
                          /\ (maRow[u].id = maRow[v].id => maRow[u].id = NoParty)
  BY DEF MediaKept, MediaClaims
<1>3. MediaTypes(U, I)'
  BY <1>1 DEF MediaMade, MediaOpIs, MediaStops, MediaFree, MediaPuts, MediaCalm, MediaTypes, MediaPlace, MediaOp
<1>4. MediaOthers(U, u) /\ MediaClaimed(U, u)
  BY <1>1, <1>2 DEF MediaMade, MediaOpIs, MediaStops, MediaFree, MediaPuts, MediaCalm, MediaOthers, MediaClaimed, MediaPlace
<1>5. MediaServes(U, I, u)
  BY <1>1, <1>2 DEF MediaMade, MediaOpIs, MediaStops, MediaFree, MediaPuts, MediaCalm, MediaServes, MediaTypes, MediaRow,
            MediaOp, MediaPlace, MediaExists, MediaAlone, MediaHolds
<1>6. MediaPlace(u)'
  BY <1>1 DEF MediaMade, MediaOpIs, MediaStops, MediaFree, MediaPuts, MediaCalm, MediaTypes, MediaRow, MediaOp,
            MediaPlace
<1>7. MediaSettled(u)'
  BY <1>1, <1>6 DEF MediaMade, MediaOpIs, MediaStops, MediaFree, MediaPuts, MediaCalm, MediaTypes, MediaRow, MediaOp,
            MediaPlace, MediaSettled, MediaMeans, MediaExists
<1>8. MediaExists(u)'
  BY <1>1, <1>6 DEF MediaMade, MediaOpIs, MediaStops, MediaFree, MediaPuts, MediaCalm, MediaTypes, MediaRow, MediaOp,
            MediaPlace, MediaExists, MediaHolds
<1>9. ASSUME NEW v \in U, v # u PROVE MediaAlone(u, v)' /\ MediaAlone(v, u)'
  BY <1>1, <1>2, <1>9 DEF MediaMade, MediaOpIs, MediaStops, MediaFree, MediaPuts, MediaCalm, MediaTypes, MediaRow, MediaOp,
            MediaPlace, MediaExists, MediaAlone, MediaHolds
<1>10. MediaRecording(U, I, u)
  BY <1>1, <1>2 DEF MediaMade, MediaOpIs, MediaStops, MediaFree, MediaPuts, MediaCalm, MediaTypes, MediaRow, MediaOp,
            MediaPlace, MediaRecording, MediaRecords
<1>11. QED
  BY <1>1, <1>3, <1>4, <1>5, <1>6, <1>7, <1>8, <1>9, <1>10, MediaStepKeeps DEF MediaStep, MediaApart

\* The new account is removed again.
LEMMA MediaUndoesKept ==
  ASSUME NEW U, NEW I, NEW u \in U, NoParty \notin I, MediaKept(U, I), MediaUndoes(U, I, u)
  PROVE  MediaKept(U, I)'
<1>1. MediaTypes(U, I) /\ MediaPlace(u) /\ MediaSettled(u) /\ MediaExists(u)
  BY DEF MediaKept
<1>2. \A v \in U : v # u => /\ MediaAlone(u, v) /\ MediaAlone(v, u) /\ MediaPlace(v) /\ MediaExists(v)
                          /\ (maRow[u].id = maRow[v].id => maRow[u].id = NoParty)
  BY DEF MediaKept, MediaClaims
<1>3. MediaTypes(U, I)'
  BY <1>1 DEF MediaUndoes, MediaStops, MediaOpIs, MediaPuts, MediaCalm, MediaTypes, MediaPlace
<1>4. MediaOthers(U, u) /\ MediaClaimed(U, u)
  BY <1>1, <1>2 DEF MediaUndoes, MediaStops, MediaOpIs, MediaPuts, MediaCalm, MediaOthers, MediaClaimed, MediaPlace
<1>5. MediaServes(U, I, u)
  BY <1>1, <1>2 DEF MediaUndoes, MediaStops, MediaOpIs, MediaPuts, MediaCalm, MediaServes, MediaTypes, MediaRow, MediaOp,
            MediaPlace, MediaExists, MediaAlone, MediaHolds
<1>6. MediaPlace(u)'
  BY <1>1 DEF MediaUndoes, MediaStops, MediaOpIs, MediaPuts, MediaCalm, MediaTypes, MediaRow, MediaOp, MediaPlace
<1>7. MediaSettled(u)'
  BY <1>1, <1>6 DEF MediaUndoes, MediaStops, MediaOpIs, MediaPuts, MediaCalm, MediaTypes, MediaRow, MediaOp, MediaPlace,
            MediaSettled, MediaMeans, MediaExists
<1>8. MediaExists(u)'
  BY <1>1, <1>6 DEF MediaUndoes, MediaStops, MediaOpIs, MediaPuts, MediaCalm, MediaTypes, MediaRow, MediaOp, MediaPlace,
            MediaExists, MediaHolds
<1>9. ASSUME NEW v \in U, v # u PROVE MediaAlone(u, v)' /\ MediaAlone(v, u)'
  BY <1>1, <1>2, <1>9 DEF MediaUndoes, MediaStops, MediaOpIs, MediaPuts, MediaCalm, MediaTypes, MediaRow, MediaOp, MediaPlace,
            MediaExists, MediaAlone, MediaHolds
<1>10. MediaRecording(U, I, u)
  BY <1>1, <1>2 DEF MediaUndoes, MediaStops, MediaOpIs, MediaPuts, MediaCalm, MediaTypes, MediaRow, MediaOp, MediaPlace,
            MediaRecording, MediaRecords
<1>11. QED
  BY <1>1, <1>3, <1>4, <1>5, <1>6, <1>7, <1>8, <1>9, <1>10, MediaStepKeeps DEF MediaStep, MediaApart

\* The account of a deleted user is switched off.
LEMMA MediaLeavesKept ==
  ASSUME NEW U, NEW I, NEW u \in U, NoParty \notin I, MediaKept(U, I), MediaLeaves(U, I, u)
  PROVE  MediaKept(U, I)'
<1>1. MediaTypes(U, I) /\ MediaPlace(u) /\ MediaSettled(u) /\ MediaExists(u)
  BY DEF MediaKept
<1>2. \A v \in U : v # u => /\ MediaAlone(u, v) /\ MediaAlone(v, u) /\ MediaPlace(v) /\ MediaExists(v)
                          /\ (maRow[u].id = maRow[v].id => maRow[u].id = NoParty)
  BY DEF MediaKept, MediaClaims
<1>3. MediaTypes(U, I)'
  BY <1>1 DEF MediaLeaves, MediaStops, MediaOpIs, MediaFree, MediaPuts, MediaCalm, MediaOff, MediaTypes, MediaPlace
<1>4. MediaOthers(U, u) /\ MediaClaimed(U, u)
  BY <1>1, <1>2 DEF MediaLeaves, MediaStops, MediaOpIs, MediaFree, MediaPuts, MediaCalm, MediaOff, MediaOthers, MediaClaimed,
            MediaPlace
<1>5. MediaServes(U, I, u)
  BY <1>1, <1>2 DEF MediaLeaves, MediaStops, MediaOpIs, MediaFree, MediaPuts, MediaCalm, MediaOff, MediaServes, MediaTypes,
            MediaRow, MediaOp, MediaPlace, MediaExists, MediaAlone, MediaHolds
<1>6. MediaPlace(u)'
  BY <1>1 DEF MediaLeaves, MediaStops, MediaOpIs, MediaFree, MediaPuts, MediaCalm, MediaOff, MediaTypes, MediaRow,
            MediaOp, MediaPlace
<1>7. MediaSettled(u)'
  BY <1>1, <1>6 DEF MediaLeaves, MediaStops, MediaOpIs, MediaFree, MediaPuts, MediaCalm, MediaOff, MediaTypes, MediaRow,
            MediaOp, MediaPlace, MediaSettled, MediaMeans, MediaExists
<1>8. MediaExists(u)'
  BY <1>1, <1>6 DEF MediaLeaves, MediaStops, MediaOpIs, MediaFree, MediaPuts, MediaCalm, MediaOff, MediaTypes, MediaRow,
            MediaOp, MediaPlace, MediaExists, MediaHolds
<1>9. ASSUME NEW v \in U, v # u PROVE MediaAlone(u, v)' /\ MediaAlone(v, u)'
  BY <1>1, <1>2, <1>9 DEF MediaLeaves, MediaStops, MediaOpIs, MediaFree, MediaPuts, MediaCalm, MediaOff, MediaTypes, MediaRow,
            MediaOp, MediaPlace, MediaExists, MediaAlone, MediaHolds
<1>10. MediaRecording(U, I, u)
  BY <1>1, <1>2 DEF MediaLeaves, MediaStops, MediaOpIs, MediaFree, MediaPuts, MediaCalm, MediaOff, MediaTypes, MediaRow,
            MediaOp, MediaPlace, MediaRecording, MediaRecords
<1>11. QED
  BY <1>1, <1>3, <1>4, <1>5, <1>6, <1>7, <1>8, <1>9, <1>10, MediaStepKeeps DEF MediaStep, MediaApart

\* The account is switched off or on.
LEMMA MediaSetsKept ==
  ASSUME NEW U, NEW I, NEW u \in U, NoParty \notin I, MediaKept(U, I), MediaSets(U, I, u)
  PROVE  MediaKept(U, I)'
<1>1. MediaTypes(U, I) /\ MediaPlace(u) /\ MediaSettled(u) /\ MediaExists(u)
  BY DEF MediaKept
<1>2. \A v \in U : v # u => /\ MediaAlone(u, v) /\ MediaAlone(v, u) /\ MediaPlace(v) /\ MediaExists(v)
                          /\ (maRow[u].id = maRow[v].id => maRow[u].id = NoParty)
  BY DEF MediaKept, MediaClaims
<1>3. MediaTypes(U, I)'
  BY <1>1 DEF MediaSets, MediaStops, MediaOpIs, MediaGoes, MediaPuts, MediaCalm, MediaOff, MediaTypes, MediaPlace
<1>4. MediaOthers(U, u) /\ MediaClaimed(U, u)
  BY <1>1, <1>2 DEF MediaSets, MediaStops, MediaOpIs, MediaGoes, MediaPuts, MediaCalm, MediaOff, MediaOthers, MediaClaimed,
            MediaPlace
<1>5. MediaServes(U, I, u)
  BY <1>1, <1>2 DEF MediaSets, MediaStops, MediaOpIs, MediaGoes, MediaPuts, MediaCalm, MediaOff, MediaServes, MediaTypes,
            MediaRow, MediaOp, MediaPlace, MediaExists, MediaAlone, MediaHolds
<1>6. MediaPlace(u)'
  BY <1>1 DEF MediaSets, MediaStops, MediaOpIs, MediaGoes, MediaPuts, MediaCalm, MediaOff, MediaTypes, MediaRow,
            MediaOp, MediaPlace
<1>7. MediaSettled(u)'
  BY <1>1, <1>6 DEF MediaSets, MediaStops, MediaOpIs, MediaGoes, MediaPuts, MediaCalm, MediaOff, MediaTypes, MediaRow,
            MediaOp, MediaPlace, MediaSettled, MediaMeans, MediaExists
<1>8. MediaExists(u)'
  BY <1>1, <1>6 DEF MediaSets, MediaStops, MediaOpIs, MediaGoes, MediaPuts, MediaCalm, MediaOff, MediaTypes, MediaRow,
            MediaOp, MediaPlace, MediaExists, MediaHolds
<1>9. ASSUME NEW v \in U, v # u PROVE MediaAlone(u, v)' /\ MediaAlone(v, u)'
  BY <1>1, <1>2, <1>9 DEF MediaSets, MediaStops, MediaOpIs, MediaGoes, MediaPuts, MediaCalm, MediaOff, MediaTypes, MediaRow,
            MediaOp, MediaPlace, MediaExists, MediaAlone, MediaHolds
<1>10. MediaRecording(U, I, u)
  BY <1>1, <1>2 DEF MediaSets, MediaStops, MediaOpIs, MediaGoes, MediaPuts, MediaCalm, MediaOff, MediaTypes, MediaRow,
            MediaOp, MediaPlace, MediaRecording, MediaRecords
<1>11. QED
  BY <1>1, <1>3, <1>4, <1>5, <1>6, <1>7, <1>8, <1>9, <1>10, MediaStepKeeps DEF MediaStep, MediaApart

\* A step of one user is of one of these kinds.
MediaUserStep(U, I, u) ==
  \/ MediaIdles(U, I, u) \/ MediaEnds(U, I, u) \/ MediaWalks(U, I, u) \/ MediaAsks(U, I, u)
  \/ MediaReplaces(U, I, u) \/ MediaBegins(U, I, u) \/ MediaForgets(U, I, u) \/ MediaDeletes(U, I, u)
  \/ MediaLinks(U, I, u) \/ MediaManages(U, I, u) \/ MediaMarks(U, I, u) \/ MediaSettles(U, I, u)
  \/ MediaInserts(U, I, u) \/ MediaReplaced(U, I, u) \/ MediaMade(U, I, u) \/ MediaUndoes(U, I, u)
  \/ MediaLeaves(U, I, u) \/ MediaSets(U, I, u)

\* Every kind of step of a user keeps the invariant.
LEMMA MediaUserStepKeeps ==
  ASSUME NEW U, NEW I, NEW u \in U, NoParty \notin I, MediaKept(U, I), MediaUserStep(U, I, u)
  PROVE  MediaKept(U, I)'
  BY MediaIdlesKept, MediaEndsKept, MediaWalksKept, MediaAsksKept, MediaReplacesKept,
     MediaBeginsKept, MediaForgetsKept, MediaDeletesKept, MediaLinksKept, MediaManagesKept,
     MediaMarksKept, MediaSettlesKept, MediaInsertsKept, MediaReplacedKept, MediaMadeKept,
     MediaUndoesKept, MediaLeavesKept, MediaSetsKept DEF MediaUserStep

MediaSame(U) ==
  /\ maTodo' \subseteq U
  /\ UNCHANGED <<maInvite, maUsers, maGranted, maUnlinked, maRow, maRemote, maAdmin, maOp, maMade, maAstray, maTouched>>

\* So does a step that concerns no account.
LEMMA MediaSameKept ==
  ASSUME NEW U, NEW I, MediaKept(U, I), MediaSame(U) PROVE MediaKept(U, I)'
  BY DEF MediaKept, MediaSame, MediaTypes, MediaClaims, MediaRecorded, MediaRecords, MediaPlace, MediaSettled, MediaMeans,
         MediaExists, MediaAlone, MediaHolds

\* A change by hand.
MediaTouches(I) ==
  /\ UNCHANGED <<maInvite, maUsers, maGranted, maUnlinked, maTodo, maRow, maOp, maMade, maAstray>>
  /\ \E i \in I : /\ maTouched' = maTouched \union {i} /\ maAdmin' \subseteq maTouched'
                 /\ \E s \in {"none", "on", "off"} : (maInvite => s # "off") /\ maRemote' = [maRemote EXCEPT ![i] = s]

\* So does a change by hand: what was touched is not vouched for.
LEMMA MediaTouchesKept ==
  ASSUME NEW U, NEW I, MediaKept(U, I), MediaTouches(I) PROVE MediaKept(U, I)'
<1>1. PICK i \in I : /\ maTouched' = maTouched \union {i} /\ maAdmin' \subseteq maTouched'
                     /\ \E s \in {"none", "on", "off"} : (maInvite => s # "off") /\ maRemote' = [maRemote EXCEPT ![i] = s]
  BY DEF MediaTouches
<1>2. /\ maInvite' = maInvite /\ maRow' = maRow /\ maOp' = maOp /\ maMade' = maMade /\ maAstray' = maAstray
      /\ maUsers' = maUsers /\ maGranted' = maGranted /\ maUnlinked' = maUnlinked /\ maTodo' = maTodo
  BY DEF MediaTouches
<1>3. MediaTypes(U, I) /\ MediaTypes(U, I)'
  BY <1>1, <1>2 DEF MediaKept, MediaTypes
<1>4. \A j \in I : j # i => maRemote'[j] = maRemote[j]
  BY <1>1, <1>3 DEF MediaTypes
<1>5. MediaClaims(U)' /\ \A u \in U : MediaPlace(u)'
  BY <1>2 DEF MediaKept, MediaClaims, MediaPlace
<1>6. MediaRecorded(U, I)'
  BY <1>1, <1>2, <1>4 DEF MediaKept, MediaRecorded, MediaRecords
<1>7. ASSUME NEW u \in U PROVE MediaSettled(u)' /\ MediaExists(u)'
  <2>1. /\ maRow[u].id \in I \union {NoParty} /\ maOp[u].id \in I \union {NoParty}
        /\ MediaPlace(u) /\ MediaSettled(u) /\ MediaExists(u)
    BY <1>3 DEF MediaKept, MediaTypes, MediaRow, MediaOp
  <2>2. MediaSettled(u)'
    BY <1>1, <1>2, <1>4, <2>1 DEF MediaPlace, MediaSettled, MediaMeans
  <2>3. MediaExists(u)'
    BY <1>1, <1>2, <1>4, <2>1 DEF MediaPlace, MediaExists, MediaHolds
  <2>4. QED
    BY <2>2, <2>3
<1>8. ASSUME NEW u \in U, NEW v \in U, u # v PROVE MediaAlone(u, v)'
  BY <1>1, <1>2, <1>8 DEF MediaKept, MediaAlone, MediaHolds
<1>9. QED
  BY <1>3, <1>5, <1>6, <1>7, <1>8 DEF MediaKept

\* A restart.
MediaRestarts(U, I) ==
  /\ UNCHANGED <<maInvite, maUsers, maGranted, maUnlinked, maRow, maRemote, maAdmin, maMade, maTouched>>
  /\ maTodo' = {} /\ maAstray' = maAstray \union ({maOp[u].id : u \in U} \ {NoParty})
  /\ maOp' \in [U -> MediaOp(I)]
  /\ \A u \in U : maOp'[u].pc = "idle" /\ maOp'[u].id = NoParty /\ ~maOp'[u].created

\* So does a restart: what was under way is let go of.
LEMMA MediaRestartsKept ==
  ASSUME NEW U, NEW I, NoParty \notin I, MediaKept(U, I), MediaRestarts(U, I) PROVE MediaKept(U, I)'
<1>1. MediaTypes(U, I)' /\ MediaClaims(U)'
  BY DEF MediaKept, MediaTypes, MediaClaims, MediaRestarts
<1>2. \A u \in U : MediaPlace(u)' /\ MediaSettled(u)' /\ MediaExists(u)'
  BY DEF MediaKept, MediaRestarts, MediaPlace, MediaSettled, MediaMeans, MediaExists, MediaHolds
<1>3. \A u, v \in U : u # v => MediaAlone(u, v)'
  BY DEF MediaKept, MediaRestarts, MediaAlone
<1>4. MediaRecorded(U, I)'
  BY DEF MediaKept, MediaRestarts, MediaRecorded, MediaRecords
<1>5. QED
  BY <1>1, <1>2, <1>3, <1>4 DEF MediaKept

\* What Media does is one of those kinds of step.
MediaUserNext(u) ==
  \/ Media!Grant(u) \/ Media!Revoke(u) \/ Media!Unlink(u) \/ Media!Delete(u) \/ Media!Take(u)
  \/ Media!Reconcile(u) \/ Media!Working(u)
  \/ \E i \in MediaAccount : Media!Create(u, i) \/ Media!LinkOwn(u, i)
  \/ \E i \in MediaAccount, b \in BOOLEAN : Media!Invite(u, i, b) \/ Media!Link(u, i, b)
  \/ \E b \in BOOLEAN : Media!SetManagement(u, b)

\* An operation of shared accounts moves on.
LEMMA MediaGotoIs ==
  ASSUME MediaTypes(Party, MediaAccount), NEW u \in Party,
         NEW pc \in {"mark", "ask", "stamp", "create", "insert", "undo", "look", "grant"}, Media!Goto(u, pc)
  PROVE  MediaGoes(Party, MediaAccount, u, pc)
<1>1. maOp[u] \in MediaOp(MediaAccount) /\ maOp \in [Party -> MediaOp(MediaAccount)]
  BY DEF MediaTypes
<1>2. QED
  BY <1>1 DEF MediaOp, Media!Goto, MediaGoes, MediaOpIs

\* An operation of shared accounts stops.
LEMMA MediaStopIs ==
  ASSUME MediaTypes(Party, MediaAccount), NEW u \in Party, Media!Stop(u) PROVE MediaStops(Party, MediaAccount, u)
  BY DEF MediaTypes, MediaOp, Media!Stop, Media!Idle, MediaStops, MediaOpIs

\* A row of shared accounts is dropped.
LEMMA MediaDroppedIs ==
  ASSUME MediaTypes(Party, MediaAccount), NEW u \in Party, maRow' = Media!Dropped(u) PROVE MediaDrops(Party, MediaAccount, u)
  BY DEF MediaTypes, MediaRow, Media!Dropped, Media!NoRow, MediaDrops, MediaRowIs

\* Every action of a user is of one of the kinds above.
LEMMA MediaUserSteps ==
  ASSUME MediaKept(Party, MediaAccount), NEW u \in Party
  PROVE  MediaUserNext(u) => MediaUserStep(Party, MediaAccount, u)
<1>1. MediaTypes(Party, MediaAccount) /\ MediaPlace(u) /\ maRow[u] \in MediaRow(MediaAccount) /\ maOp[u] \in MediaOp(MediaAccount)
  BY DEF MediaKept, MediaTypes
<1>2. ASSUME Media!Grant(u) PROVE MediaIdles(Party, MediaAccount, u)
  BY <1>1, <1>2 DEF Media!Grant, Media!server, Media!history, MediaIdles, MediaCalm, MediaQuiet, MediaTypes, MediaPlace,
            MediaRow, MediaOp
<1>3. ASSUME Media!Revoke(u) PROVE MediaIdles(Party, MediaAccount, u)
  BY <1>1, <1>3 DEF Media!Revoke, Media!server, Media!history, MediaIdles, MediaCalm, MediaQuiet, MediaTypes, MediaPlace,
            MediaRow, MediaOp
<1>4. ASSUME Media!Unlink(u) PROVE MediaForgets(Party, MediaAccount, u)
  BY <1>1, <1>4, MediaDroppedIs DEF Media!Unlink, Media!Free, Media!HasRow, Media!server, MediaForgets, MediaCalm, MediaQuiet, MediaTypes,
            MediaPlace, MediaRow, MediaOp
<1>5. ASSUME Media!Delete(u) PROVE MediaDeletes(Party, MediaAccount, u)
  <2>1. /\ MediaQuiet(Party) /\ maUsers' = maUsers \ {u} /\ MediaDrops(Party, MediaAccount, u) /\ maOp[u].pc = "idle"
    BY <1>1, <1>5, MediaDroppedIs DEF Media!Delete, Media!Free, Media!server, MediaQuiet, MediaCalm, MediaTypes
  <2>2. CASE maRow[u].manage
    <3>1. maOp' = [maOp EXCEPT ![u] = [Media!Idle EXCEPT !.pc = "leave", !.id = maRow[u].id]]
      BY <1>5, <2>2 DEF Media!Delete
    <3>2. MediaStarts(Party, MediaAccount, u, "leave", maRow[u].id)
      BY <1>1, <3>1 DEF Media!Idle, MediaStarts, MediaOpIs, MediaTypes, MediaRow, MediaOp
    <3>3. QED
      BY <2>1, <2>2, <3>2 DEF MediaDeletes
  <2>3. CASE ~maRow[u].manage
    BY <1>5, <2>1, <2>3 DEF Media!Delete, MediaDeletes
  <2>4. QED
    BY <2>2, <2>3
<1>6. ASSUME Media!Take(u) PROVE MediaWalks(Party, MediaAccount, u)
  BY <1>1, <1>6, MediaGotoIs DEF Media!Take, Media!server, Media!history, MediaWalks, MediaCalm, MediaQuiet, MediaTypes, MediaPlace,
            MediaRow, MediaOp
<1>7. ASSUME Media!Mark(u) PROVE MediaEnds(Party, MediaAccount, u) \/ MediaMarks(Party, MediaAccount, u)
  <2>1. ASSUME maRow' = Media!Marked(u)
        PROVE  MediaRowIs(Party, MediaAccount, u, maRow[u].id, maRow[u].created, maRow[u].manage, TRUE, maRow[u].off)
    BY <1>1, <2>1 DEF Media!Marked, MediaRowIs, MediaTypes, MediaRow
  <2>2. QED
    BY <1>1, <1>7, <2>1, MediaGotoIs, MediaStopIs DEF Media!Mark, Media!At, Media!world, Media!server, Media!history,
            MediaEnds, MediaMarks, MediaQuiet, MediaCalm, MediaTypes, MediaPlace
<1>8. ASSUME Media!Ask(u) PROVE MediaEnds(Party, MediaAccount, u) \/ MediaAsks(Party, MediaAccount, u) \/ MediaSettles(Party, MediaAccount, u)
  <2>1. /\ MediaQuiet(Party) /\ maUsers' = maUsers /\ maOp[u].pc = "ask" /\ ~maOp[u].created
        /\ maRow[u].id \in MediaAccount /\ maRemote[maRow[u].id] \in {"none", "on", "off"}
    BY <1>1, <1>8 DEF Media!Ask, Media!At, Media!world, Media!server, Media!history, MediaQuiet, MediaCalm, MediaTypes, MediaPlace, MediaRow
  <2>2. PICK want \in BOOLEAN : want = (u \notin maGranted)
    OBVIOUS
  <2>3. CASE Media!Stop(u) /\ maRow' = maRow
    BY <1>1, <2>1, <2>3, MediaStopIs DEF MediaEnds
  <2>4. CASE Media!Stop(u) /\ maRow' = [maRow EXCEPT ![u].manage = FALSE, ![u].pending = FALSE]
    <3>1. MediaRowIs(Party, MediaAccount, u, maRow[u].id, maRow[u].created, FALSE, FALSE, maRow[u].off) /\ maRow[u].off \in BOOLEAN
      BY <1>1, <2>4 DEF MediaRowIs, MediaTypes, MediaRow
    <3>2. QED
      BY <1>1, <2>1, <2>4, <3>1, MediaStopIs DEF MediaSettles
  <2>5. CASE maOp' = [maOp EXCEPT ![u].pc = "set", ![u].want = want] /\ maRow' = maRow
    <3>1. MediaOpIs(Party, MediaAccount, u, "set", maOp[u].id, maOp[u].created, want)
      BY <1>1, <2>2, <2>5 DEF MediaOpIs, MediaTypes, MediaOp
    <3>2. QED
      BY <2>1, <2>5, <3>1 DEF MediaAsks
  <2>6. CASE /\ maInvite /\ maRemote[maRow[u].id] = "none"
             /\ Media!Stop(u) /\ maRow' = Media!Stamped(u, want)
    <3>1. MediaRowIs(Party, MediaAccount, u, maRow[u].id, maRow[u].created, maRow[u].manage, FALSE, want)
      BY <1>1, <2>2, <2>6 DEF Media!Stamped, MediaRowIs, MediaTypes, MediaRow
    <3>2. maRow[u].manage \in BOOLEAN
      BY <1>1 DEF MediaRow
    <3>3. QED
      BY <1>1, <2>1, <2>6, <3>1, <3>2, MediaStopIs DEF MediaSettles
  <2>7. CASE /\ maRemote[maRow[u].id] # "none" /\ want = (maRemote[maRow[u].id] = "off")
             /\ maOp' = [maOp EXCEPT ![u].pc = "stamp", ![u].want = want] /\ maRow' = maRow
    <3>1. MediaOpIs(Party, MediaAccount, u, "stamp", maOp[u].id, maOp[u].created, want)
      BY <1>1, <2>2, <2>7 DEF MediaOpIs, MediaTypes, MediaOp
    <3>2. QED
      BY <2>1, <2>7, <3>1 DEF MediaAsks
  <2>8. QED
    BY <1>8, <2>1, <2>2, <2>3, <2>4, <2>5, <2>6, <2>7 DEF Media!Ask
<1>9. ASSUME Media!Set(u) PROVE MediaEnds(Party, MediaAccount, u) \/ MediaSets(Party, MediaAccount, u)
  BY <1>1, <1>9, MediaGotoIs, MediaStopIs DEF Media!Set, Media!At, Media!Off, Media!world, Media!history, MediaEnds, MediaSets, MediaCalm, MediaQuiet,
            MediaPuts, MediaOff, MediaTypes, MediaPlace, MediaRow, MediaOp
<1>10. ASSUME Media!Stamp(u) PROVE MediaEnds(Party, MediaAccount, u) \/ MediaSettles(Party, MediaAccount, u)
  BY <1>1, <1>10, MediaStopIs DEF Media!Stamp, Media!At, Media!Stamped, Media!world, Media!server, Media!history, MediaEnds, MediaSettles,
            MediaCalm, MediaQuiet, MediaRowIs, MediaTypes, MediaPlace, MediaRow, MediaOp
<1>11. ASSUME Media!Replace(u) PROVE MediaEnds(Party, MediaAccount, u) \/ MediaReplaced(Party, MediaAccount, u)
  BY <1>1, <1>11, MediaGotoIs, MediaStopIs, MediaDroppedIs DEF Media!Replace, Media!At, Media!Off, Media!world, MediaEnds, MediaReplaced, MediaCalm, MediaQuiet,
            MediaPuts, MediaOff, MediaTypes, MediaPlace, MediaRow, MediaOp
<1>12. ASSUME Media!Look(u) PROVE MediaEnds(Party, MediaAccount, u) \/ MediaWalks(Party, MediaAccount, u)
  BY <1>1, <1>12, MediaGotoIs, MediaStopIs DEF Media!Look, Media!At, Media!world, Media!server, Media!history, MediaEnds, MediaWalks, MediaCalm,
            MediaQuiet, MediaTypes, MediaPlace, MediaRow, MediaOp
<1>13. ASSUME Media!CreateRemote(u) PROVE MediaEnds(Party, MediaAccount, u) \/ MediaMade(Party, MediaAccount, u)
  BY <1>1, <1>13, MediaStopIs DEF Media!CreateRemote, Media!At, Media!Taken, Media!world, MediaEnds, MediaMade, MediaCalm, MediaQuiet,
            MediaOpIs, MediaFree, MediaPuts, MediaTypes, MediaPlace, MediaRow, MediaOp
<1>14. ASSUME Media!Insert(u) PROVE MediaEnds(Party, MediaAccount, u) \/ MediaWalks(Party, MediaAccount, u) \/ MediaInserts(Party, MediaAccount, u)
  <2>1. /\ MediaQuiet(Party) /\ maUsers' = maUsers /\ maOp[u].pc = "insert" /\ maOp[u].id \in MediaAccount /\ maOp[u].created \in BOOLEAN
    BY <1>1, <1>14 DEF Media!Insert, Media!At, Media!server, Media!history, MediaQuiet, MediaCalm, MediaTypes, MediaPlace, MediaOp
  <2>2. PICK m \in BOOLEAN : m = (maOp[u].created /\ ~(maInvite /\ maOp[u].id \in maAdmin))
    OBVIOUS
  <2>3. CASE /\ ~Media!Taken(maOp[u].id, u) /\ Media!Stop(u)
             /\ maRow' = [maRow EXCEPT ![u] = [Media!NoRow EXCEPT !.id = maOp[u].id, !.created = maOp[u].created, !.manage = m]]
    <3>1. MediaRowIs(Party, MediaAccount, u, maOp[u].id, maOp[u].created, m, FALSE, FALSE)
      BY <1>1, <2>1, <2>2, <2>3 DEF Media!NoRow, MediaRowIs, MediaTypes, MediaRow
    <3>2. QED
      BY <1>1, <2>1, <2>2, <2>3, <3>1, MediaStopIs DEF Media!Taken, MediaFree, MediaInserts
  <2>4. CASE maRow' = maRow /\ Media!Undoes(u) /\ Media!Goto(u, "undo")
    BY <1>1, <2>1, <2>4, MediaGotoIs DEF Media!Undoes, MediaWalks
  <2>5. CASE maRow' = maRow /\ ~Media!Undoes(u) /\ Media!Stop(u)
    BY <1>1, <2>1, <2>5, MediaStopIs DEF Media!Undoes, Media!Taken, MediaEnds
  <2>6. QED
    BY <1>14, <2>1, <2>2, <2>3, <2>4, <2>5 DEF Media!Insert
<1>15. ASSUME Media!Undo(u) PROVE MediaUndoes(Party, MediaAccount, u)
  BY <1>1, <1>15, MediaStopIs DEF Media!Undo, Media!At, Media!world, MediaUndoes, MediaCalm, MediaPuts, MediaTypes, MediaPlace, MediaRow,
            MediaOp
<1>16. ASSUME Media!LinkGrant(u) PROVE MediaEnds(Party, MediaAccount, u) \/ MediaWalks(Party, MediaAccount, u)
  BY <1>1, <1>16, MediaGotoIs, MediaStopIs DEF Media!LinkGrant, Media!At, Media!server, Media!history, MediaEnds, MediaWalks, MediaCalm, MediaQuiet,
            MediaTypes, MediaPlace, MediaRow, MediaOp
<1>17. ASSUME Media!SwitchOff(u) PROVE MediaLeaves(Party, MediaAccount, u)
  BY <1>1, <1>17, MediaStopIs DEF Media!SwitchOff, Media!At, Media!Off, Media!Taken, Media!world, MediaLeaves, MediaCalm, MediaFree,
            MediaPuts, MediaOff, MediaTypes, MediaPlace, MediaRow, MediaOp
<1>18. ASSUME NEW i \in MediaAccount, Media!Create(u, i) PROVE MediaBegins(Party, MediaAccount, u)
  BY <1>1, <1>18, MediaDroppedIs DEF Media!Create, Media!Free, Media!Vacant, Media!HasRow, Media!Idle, Media!world, Media!server,
            Media!history, MediaBegins, MediaCalm, MediaQuiet, MediaStarts, MediaUnmade, MediaOpIs, MediaTypes,
            MediaPlace, MediaRow, MediaOp
<1>19. ASSUME NEW i \in MediaAccount, Media!LinkOwn(u, i) PROVE MediaBegins(Party, MediaAccount, u)
  <2>1. /\ MediaQuiet(Party) /\ maUsers' = maUsers /\ MediaDrops(Party, MediaAccount, u) /\ maOp[u].pc = "idle" /\ ~maInvite
        /\ (maRow[u].id # NoParty => maRemote[maRow[u].id] = "none")
    BY <1>1, <1>19, MediaDroppedIs DEF Media!LinkOwn, Media!Free, Media!Vacant, Media!HasRow, Media!world, Media!server, Media!history,
            MediaQuiet, MediaCalm, MediaTypes
  <2>2. maRemote[i] = "on" /\ MediaUnmade(Party, i)
    BY <1>19 DEF Media!LinkOwn, Media!BeingMade, MediaUnmade
  <2>3. maOp' = [maOp EXCEPT ![u] = [Media!Idle EXCEPT !.pc = "insert", !.id = i]]
    BY <1>19 DEF Media!LinkOwn
  <2>4. MediaStarts(Party, MediaAccount, u, "insert", i)
    BY <1>1, <2>3 DEF Media!Idle, MediaStarts, MediaOpIs, MediaTypes, MediaOp
  <2>5. QED
    BY <1>1, <2>1, <2>2, <2>4 DEF MediaBegins, MediaTypes
<1>20. ASSUME NEW i \in MediaAccount, NEW b \in BOOLEAN, Media!Invite(u, i, b)
      PROVE  MediaBegins(Party, MediaAccount, u) \/ MediaReplaces(Party, MediaAccount, u)
  <2>1. MediaQuiet(Party) /\ maUsers' = maUsers /\ maOp[u].pc = "idle" /\ maInvite
    BY <1>1, <1>20 DEF Media!Invite, Media!Free, Media!world, Media!server, Media!history, MediaQuiet, MediaCalm, MediaTypes
  <2>2. ASSUME NEW pc \in {"look", "replace"}, maOp' = [maOp EXCEPT ![u] = [Media!Idle EXCEPT !.pc = pc, !.id = i]]
        PROVE  MediaStarts(Party, MediaAccount, u, pc, i)
    BY <1>1, <2>2 DEF Media!Idle, MediaStarts, MediaOpIs, MediaTypes, MediaOp
  <2>3. CASE /\ Media!Vacant(u) /\ maRow' = Media!Dropped(u)
             /\ maOp' = [maOp EXCEPT ![u] = [Media!Idle EXCEPT !.pc = "look", !.id = i]]
    BY <1>1, <2>1, <2>2, <2>3, MediaDroppedIs DEF Media!Vacant, Media!HasRow, MediaBegins
  <2>4. CASE maRow' = maRow /\ maOp' = [maOp EXCEPT ![u] = [Media!Idle EXCEPT !.pc = "replace", !.id = i]]
    BY <2>1, <2>2, <2>4 DEF MediaReplaces
  <2>5. QED
    BY <1>20, <2>3, <2>4 DEF Media!Invite
<1>21. ASSUME NEW i \in MediaAccount, NEW b \in BOOLEAN, Media!Link(u, i, b) PROVE MediaLinks(Party, MediaAccount, u)
  <2>1. /\ MediaQuiet(Party) /\ maUsers' = maUsers /\ u \in maUsers /\ maOp[u].pc = "idle" /\ maRemote[i] # "none"
        /\ MediaUnmade(Party, i)
    BY <1>1, <1>21 DEF Media!Link, Media!Free, Media!BeingMade, Media!server, Media!history, MediaQuiet, MediaCalm, MediaUnmade, MediaTypes
  <2>2. MediaGoes(Party, MediaAccount, u, "grant")
    BY <1>1, <1>21, MediaGotoIs DEF Media!Link, Media!Goto
  <2>3. PICK m \in BOOLEAN : m = (b /\ i \notin maAdmin)
    OBVIOUS
  <2>4. CASE /\ ~Media!HasRow(u) /\ ~Media!Taken(i, u)
             /\ maRow' = [maRow EXCEPT ![u] = [Media!NoRow EXCEPT !.id = i, !.manage = m, !.pending = m]]
    <3>1. MediaRowIs(Party, MediaAccount, u, i, FALSE, m, m, FALSE)
      BY <1>1, <2>4 DEF Media!NoRow, MediaRowIs, MediaTypes, MediaRow
    <3>2. QED
      BY <2>1, <2>2, <2>4, <3>1 DEF Media!HasRow, Media!Taken, MediaFree, MediaLinks
  <2>5. CASE maRow' = maRow
    BY <2>1, <2>2, <2>5 DEF MediaLinks
  <2>6. QED
    BY <1>21, <2>3, <2>4, <2>5 DEF Media!Link
<1>22. ASSUME NEW b \in BOOLEAN, Media!SetManagement(u, b) PROVE MediaManages(Party, MediaAccount, u)
  BY <1>1, <1>22, MediaGotoIs DEF Media!SetManagement, Media!Free, Media!HasRow, Media!world, Media!server, Media!history, MediaManages,
            MediaCalm, MediaQuiet, MediaRowIs, MediaTypes, MediaPlace, MediaRow, MediaOp
<1>23. QED
  BY <1>2, <1>3, <1>4, <1>5, <1>6, <1>7, <1>8, <1>9, <1>10, <1>11, <1>12, <1>13, <1>14, <1>15, <1>16, <1>17, <1>18, <1>19, <1>20, <1>21, <1>22 DEF MediaUserNext, Media!Reconcile, Media!Working, MediaUserStep

\* Every step keeps the invariant.
LEMMA MediaNextKept == ASSUME MediaKept(Party, MediaAccount), Media!Next PROVE MediaKept(Party, MediaAccount)'
<1>1. NoParty \notin MediaAccount
  BY MediaAssumption
<1>2. ASSUME NEW u \in Party, MediaUserNext(u) PROVE MediaKept(Party, MediaAccount)'
  BY <1>1, <1>2, MediaUserSteps, MediaUserStepKeeps
<1>3. CASE Media!Sweep
  BY <1>3, MediaSameKept DEF MediaSame, MediaKept, MediaTypes, Media!Sweep, Media!Drifted, Media!server, Media!history
<1>4. CASE Media!Crash
  BY <1>1, <1>4, MediaRestartsKept DEF MediaRestarts, MediaOp, Media!Crash, Media!Idle, Media!server
<1>5. ASSUME NEW i \in MediaAccount, Media!ByHand(i) PROVE MediaKept(Party, MediaAccount)'
  <2>1. MediaTouches(MediaAccount)
    BY <1>5 DEF MediaKept, MediaTypes, MediaTouches, Media!ByHand, Media!Off, Media!world
  <2>2. QED
    BY <2>1, MediaTouchesKept
<1>6. QED
  BY <1>2, <1>3, <1>4, <1>5 DEF Media!Next, MediaUserNext

\* It holds at the start.
LEMMA MediaInitKept == Media!Init => MediaKept(Party, MediaAccount)
  BY MediaAssumption DEF Media!Init, Media!NoRow, Media!Idle, MediaKept, MediaTypes, MediaClaims, MediaRecorded, MediaRow, MediaOp,
         MediaPlace, MediaSettled, MediaExists, MediaAlone, MediaHolds

\* It holds what a run checks.
LEMMA MediaKnown == ASSUME MediaKept(Party, MediaAccount) PROVE Media!SettledIsTrue /\ Media!MadeIsRecorded
<1>1. \A i \in MediaAccount : MediaMeans(i, TRUE) <=> maRemote[i] \in {"none", Media!Off}
  BY DEF MediaMeans, Media!Off
<1>2. \A u \in Party : /\ MediaSettled(u) /\ MediaPlace(u) /\ maRow[u].id \in MediaAccount \union {NoParty}
                    /\ maRow[u].off \in BOOLEAN
  BY DEF MediaKept, MediaTypes, MediaRow
<1>3. Media!SettledIsTrue
  BY <1>1, <1>2 DEF MediaSettled, MediaPlace, MediaMeans, Media!SettledIsTrue, Media!Off
<1>4. Media!MadeIsRecorded
  <2>1. SUFFICES ASSUME NEW i \in MediaAccount, i \in maMade \ (maAstray \union maTouched), maRemote[i] = "on"
                 PROVE  \E u \in Party : maRow[u].id = i \/ (maOp[u].id = i /\ maOp[u].pc # "idle")
    BY DEF MediaKept, MediaTypes, Media!MadeIsRecorded
  <2>2. PICK u \in Party : MediaRecords(u, i)
    BY <2>1 DEF MediaKept, MediaRecorded
  <2>3. MediaPlace(u) /\ i # NoParty
    BY MediaAssumption DEF MediaKept
  <2>4. QED
    BY <2>2, <2>3 DEF MediaRecords, MediaPlace
<1>5. QED
  BY <1>3, <1>4


\* What Moves does is one of those kinds of step.
MovesUserNext(u) ==
  \/ Moves!Grant(u) \/ Moves!Revoke(u) \/ Moves!Unlink(u) \/ Moves!Delete(u) \/ Moves!Take(u)
  \/ Moves!Reconcile(u) \/ Moves!Working(u)
  \/ \E i \in Address : Moves!Create(u, i) \/ Moves!LinkOwn(u, i)
  \/ \E i \in Address, b \in BOOLEAN : Moves!Invite(u, i, b) \/ Moves!Link(u, i, b)
  \/ \E b \in BOOLEAN : Moves!SetManagement(u, b)

\* An operation of users who move moves on.
LEMMA MovesGotoIs ==
  ASSUME MediaTypes(Mover, Address), NEW u \in Mover,
         NEW pc \in {"mark", "ask", "stamp", "create", "insert", "undo", "look", "grant"}, Moves!Goto(u, pc)
  PROVE  MediaGoes(Mover, Address, u, pc)
<1>1. maOp[u] \in MediaOp(Address) /\ maOp \in [Mover -> MediaOp(Address)]
  BY DEF MediaTypes
<1>2. QED
  BY <1>1 DEF MediaOp, Moves!Goto, MediaGoes, MediaOpIs

\* An operation of users who move stops.
LEMMA MovesStopIs ==
  ASSUME MediaTypes(Mover, Address), NEW u \in Mover, Moves!Stop(u) PROVE MediaStops(Mover, Address, u)
  BY DEF MediaTypes, MediaOp, Moves!Stop, Moves!Idle, MediaStops, MediaOpIs

\* A row of users who move is dropped.
LEMMA MovesDroppedIs ==
  ASSUME MediaTypes(Mover, Address), NEW u \in Mover, maRow' = Moves!Dropped(u) PROVE MediaDrops(Mover, Address, u)
  BY DEF MediaTypes, MediaRow, Moves!Dropped, Moves!NoRow, MediaDrops, MediaRowIs

\* Every action of a user is of one of the kinds above.
LEMMA MovesUserSteps ==
  ASSUME MediaKept(Mover, Address), NEW u \in Mover
  PROVE  MovesUserNext(u) => MediaUserStep(Mover, Address, u)
<1>1. MediaTypes(Mover, Address) /\ MediaPlace(u) /\ maRow[u] \in MediaRow(Address) /\ maOp[u] \in MediaOp(Address)
  BY DEF MediaKept, MediaTypes
<1>2. ASSUME Moves!Grant(u) PROVE MediaIdles(Mover, Address, u)
  BY <1>1, <1>2 DEF Moves!Grant, Moves!server, Moves!history, MediaIdles, MediaCalm, MediaQuiet, MediaTypes, MediaPlace,
            MediaRow, MediaOp
<1>3. ASSUME Moves!Revoke(u) PROVE MediaIdles(Mover, Address, u)
  BY <1>1, <1>3 DEF Moves!Revoke, Moves!server, Moves!history, MediaIdles, MediaCalm, MediaQuiet, MediaTypes, MediaPlace,
            MediaRow, MediaOp
<1>4. ASSUME Moves!Unlink(u) PROVE MediaForgets(Mover, Address, u)
  BY <1>1, <1>4, MovesDroppedIs DEF Moves!Unlink, Moves!Free, Moves!HasRow, Moves!server, MediaForgets, MediaCalm, MediaQuiet, MediaTypes,
            MediaPlace, MediaRow, MediaOp
<1>5. ASSUME Moves!Delete(u) PROVE MediaDeletes(Mover, Address, u)
  <2>1. /\ MediaQuiet(Mover) /\ maUsers' = maUsers \ {u} /\ MediaDrops(Mover, Address, u) /\ maOp[u].pc = "idle"
    BY <1>1, <1>5, MovesDroppedIs DEF Moves!Delete, Moves!Free, Moves!server, MediaQuiet, MediaCalm, MediaTypes
  <2>2. CASE maRow[u].manage
    <3>1. maOp' = [maOp EXCEPT ![u] = [Moves!Idle EXCEPT !.pc = "leave", !.id = maRow[u].id]]
      BY <1>5, <2>2 DEF Moves!Delete
    <3>2. MediaStarts(Mover, Address, u, "leave", maRow[u].id)
      BY <1>1, <3>1 DEF Moves!Idle, MediaStarts, MediaOpIs, MediaTypes, MediaRow, MediaOp
    <3>3. QED
      BY <2>1, <2>2, <3>2 DEF MediaDeletes
  <2>3. CASE ~maRow[u].manage
    BY <1>5, <2>1, <2>3 DEF Moves!Delete, MediaDeletes
  <2>4. QED
    BY <2>2, <2>3
<1>6. ASSUME Moves!Take(u) PROVE MediaWalks(Mover, Address, u)
  BY <1>1, <1>6, MovesGotoIs DEF Moves!Take, Moves!server, Moves!history, MediaWalks, MediaCalm, MediaQuiet, MediaTypes, MediaPlace,
            MediaRow, MediaOp
<1>7. ASSUME Moves!Mark(u) PROVE MediaEnds(Mover, Address, u) \/ MediaMarks(Mover, Address, u)
  <2>1. ASSUME maRow' = Moves!Marked(u)
        PROVE  MediaRowIs(Mover, Address, u, maRow[u].id, maRow[u].created, maRow[u].manage, TRUE, maRow[u].off)
    BY <1>1, <2>1 DEF Moves!Marked, MediaRowIs, MediaTypes, MediaRow
  <2>2. QED
    BY <1>1, <1>7, <2>1, MovesGotoIs, MovesStopIs DEF Moves!Mark, Moves!At, Moves!world, Moves!server, Moves!history,
            MediaEnds, MediaMarks, MediaQuiet, MediaCalm, MediaTypes, MediaPlace
<1>8. ASSUME Moves!Ask(u) PROVE MediaEnds(Mover, Address, u) \/ MediaAsks(Mover, Address, u) \/ MediaSettles(Mover, Address, u)
  <2>1. /\ MediaQuiet(Mover) /\ maUsers' = maUsers /\ maOp[u].pc = "ask" /\ ~maOp[u].created
        /\ maRow[u].id \in Address /\ maRemote[maRow[u].id] \in {"none", "on", "off"}
    BY <1>1, <1>8 DEF Moves!Ask, Moves!At, Moves!world, Moves!server, Moves!history, MediaQuiet, MediaCalm, MediaTypes, MediaPlace, MediaRow
  <2>2. PICK want \in BOOLEAN : want = (u \notin maGranted)
    OBVIOUS
  <2>3. CASE Moves!Stop(u) /\ maRow' = maRow
    BY <1>1, <2>1, <2>3, MovesStopIs DEF MediaEnds
  <2>4. CASE Moves!Stop(u) /\ maRow' = [maRow EXCEPT ![u].manage = FALSE, ![u].pending = FALSE]
    <3>1. MediaRowIs(Mover, Address, u, maRow[u].id, maRow[u].created, FALSE, FALSE, maRow[u].off) /\ maRow[u].off \in BOOLEAN
      BY <1>1, <2>4 DEF MediaRowIs, MediaTypes, MediaRow
    <3>2. QED
      BY <1>1, <2>1, <2>4, <3>1, MovesStopIs DEF MediaSettles
  <2>5. CASE maOp' = [maOp EXCEPT ![u].pc = "set", ![u].want = want] /\ maRow' = maRow
    <3>1. MediaOpIs(Mover, Address, u, "set", maOp[u].id, maOp[u].created, want)
      BY <1>1, <2>2, <2>5 DEF MediaOpIs, MediaTypes, MediaOp
    <3>2. QED
      BY <2>1, <2>5, <3>1 DEF MediaAsks
  <2>6. CASE /\ maInvite /\ maRemote[maRow[u].id] = "none"
             /\ Moves!Stop(u) /\ maRow' = Moves!Stamped(u, want)
    <3>1. MediaRowIs(Mover, Address, u, maRow[u].id, maRow[u].created, maRow[u].manage, FALSE, want)
      BY <1>1, <2>2, <2>6 DEF Moves!Stamped, MediaRowIs, MediaTypes, MediaRow
    <3>2. maRow[u].manage \in BOOLEAN
      BY <1>1 DEF MediaRow
    <3>3. QED
      BY <1>1, <2>1, <2>6, <3>1, <3>2, MovesStopIs DEF MediaSettles
  <2>7. CASE /\ maRemote[maRow[u].id] # "none" /\ want = (maRemote[maRow[u].id] = "off")
             /\ maOp' = [maOp EXCEPT ![u].pc = "stamp", ![u].want = want] /\ maRow' = maRow
    <3>1. MediaOpIs(Mover, Address, u, "stamp", maOp[u].id, maOp[u].created, want)
      BY <1>1, <2>2, <2>7 DEF MediaOpIs, MediaTypes, MediaOp
    <3>2. QED
      BY <2>1, <2>7, <3>1 DEF MediaAsks
  <2>8. QED
    BY <1>8, <2>1, <2>2, <2>3, <2>4, <2>5, <2>6, <2>7 DEF Moves!Ask
<1>9. ASSUME Moves!Set(u) PROVE MediaEnds(Mover, Address, u) \/ MediaSets(Mover, Address, u)
  BY <1>1, <1>9, MovesGotoIs, MovesStopIs DEF Moves!Set, Moves!At, Moves!Off, Moves!world, Moves!history, MediaEnds, MediaSets, MediaCalm, MediaQuiet,
            MediaPuts, MediaOff, MediaTypes, MediaPlace, MediaRow, MediaOp
<1>10. ASSUME Moves!Stamp(u) PROVE MediaEnds(Mover, Address, u) \/ MediaSettles(Mover, Address, u)
  BY <1>1, <1>10, MovesStopIs DEF Moves!Stamp, Moves!At, Moves!Stamped, Moves!world, Moves!server, Moves!history, MediaEnds, MediaSettles,
            MediaCalm, MediaQuiet, MediaRowIs, MediaTypes, MediaPlace, MediaRow, MediaOp
<1>11. ASSUME Moves!Replace(u) PROVE MediaEnds(Mover, Address, u) \/ MediaReplaced(Mover, Address, u)
  BY <1>1, <1>11, MovesGotoIs, MovesStopIs, MovesDroppedIs DEF Moves!Replace, Moves!At, Moves!Off, Moves!world, MediaEnds, MediaReplaced, MediaCalm, MediaQuiet,
            MediaPuts, MediaOff, MediaTypes, MediaPlace, MediaRow, MediaOp
<1>12. ASSUME Moves!Look(u) PROVE MediaEnds(Mover, Address, u) \/ MediaWalks(Mover, Address, u)
  BY <1>1, <1>12, MovesGotoIs, MovesStopIs DEF Moves!Look, Moves!At, Moves!world, Moves!server, Moves!history, MediaEnds, MediaWalks, MediaCalm,
            MediaQuiet, MediaTypes, MediaPlace, MediaRow, MediaOp
<1>13. ASSUME Moves!CreateRemote(u) PROVE MediaEnds(Mover, Address, u) \/ MediaMade(Mover, Address, u)
  BY <1>1, <1>13, MovesStopIs DEF Moves!CreateRemote, Moves!At, Moves!Taken, Moves!world, MediaEnds, MediaMade, MediaCalm, MediaQuiet,
            MediaOpIs, MediaFree, MediaPuts, MediaTypes, MediaPlace, MediaRow, MediaOp
<1>14. ASSUME Moves!Insert(u) PROVE MediaEnds(Mover, Address, u) \/ MediaWalks(Mover, Address, u) \/ MediaInserts(Mover, Address, u)
  <2>1. /\ MediaQuiet(Mover) /\ maUsers' = maUsers /\ maOp[u].pc = "insert" /\ maOp[u].id \in Address /\ maOp[u].created \in BOOLEAN
    BY <1>1, <1>14 DEF Moves!Insert, Moves!At, Moves!server, Moves!history, MediaQuiet, MediaCalm, MediaTypes, MediaPlace, MediaOp
  <2>2. PICK m \in BOOLEAN : m = (maOp[u].created /\ ~(maInvite /\ maOp[u].id \in maAdmin))
    OBVIOUS
  <2>3. CASE /\ ~Moves!Taken(maOp[u].id, u) /\ Moves!Stop(u)
             /\ maRow' = [maRow EXCEPT ![u] = [Moves!NoRow EXCEPT !.id = maOp[u].id, !.created = maOp[u].created, !.manage = m]]
    <3>1. MediaRowIs(Mover, Address, u, maOp[u].id, maOp[u].created, m, FALSE, FALSE)
      BY <1>1, <2>1, <2>2, <2>3 DEF Moves!NoRow, MediaRowIs, MediaTypes, MediaRow
    <3>2. QED
      BY <1>1, <2>1, <2>2, <2>3, <3>1, MovesStopIs DEF Moves!Taken, MediaFree, MediaInserts
  <2>4. CASE maRow' = maRow /\ Moves!Undoes(u) /\ Moves!Goto(u, "undo")
    BY <1>1, <2>1, <2>4, MovesGotoIs DEF Moves!Undoes, MediaWalks
  <2>5. CASE maRow' = maRow /\ ~Moves!Undoes(u) /\ Moves!Stop(u)
    BY <1>1, <2>1, <2>5, MovesStopIs DEF Moves!Undoes, Moves!Taken, MediaEnds
  <2>6. QED
    BY <1>14, <2>1, <2>2, <2>3, <2>4, <2>5 DEF Moves!Insert
<1>15. ASSUME Moves!Undo(u) PROVE MediaUndoes(Mover, Address, u)
  BY <1>1, <1>15, MovesStopIs DEF Moves!Undo, Moves!At, Moves!world, MediaUndoes, MediaCalm, MediaPuts, MediaTypes, MediaPlace, MediaRow,
            MediaOp
<1>16. ASSUME Moves!LinkGrant(u) PROVE MediaEnds(Mover, Address, u) \/ MediaWalks(Mover, Address, u)
  BY <1>1, <1>16, MovesGotoIs, MovesStopIs DEF Moves!LinkGrant, Moves!At, Moves!server, Moves!history, MediaEnds, MediaWalks, MediaCalm, MediaQuiet,
            MediaTypes, MediaPlace, MediaRow, MediaOp
<1>17. ASSUME Moves!SwitchOff(u) PROVE MediaLeaves(Mover, Address, u)
  BY <1>1, <1>17, MovesStopIs DEF Moves!SwitchOff, Moves!At, Moves!Off, Moves!Taken, Moves!world, MediaLeaves, MediaCalm, MediaFree,
            MediaPuts, MediaOff, MediaTypes, MediaPlace, MediaRow, MediaOp
<1>18. ASSUME NEW i \in Address, Moves!Create(u, i) PROVE MediaBegins(Mover, Address, u)
  BY <1>1, <1>18, MovesDroppedIs DEF Moves!Create, Moves!Free, Moves!Vacant, Moves!HasRow, Moves!Idle, Moves!world, Moves!server,
            Moves!history, MediaBegins, MediaCalm, MediaQuiet, MediaStarts, MediaUnmade, MediaOpIs, MediaTypes,
            MediaPlace, MediaRow, MediaOp
<1>19. ASSUME NEW i \in Address, Moves!LinkOwn(u, i) PROVE MediaBegins(Mover, Address, u)
  <2>1. /\ MediaQuiet(Mover) /\ maUsers' = maUsers /\ MediaDrops(Mover, Address, u) /\ maOp[u].pc = "idle" /\ ~maInvite
        /\ (maRow[u].id # NoParty => maRemote[maRow[u].id] = "none")
    BY <1>1, <1>19, MovesDroppedIs DEF Moves!LinkOwn, Moves!Free, Moves!Vacant, Moves!HasRow, Moves!world, Moves!server, Moves!history,
            MediaQuiet, MediaCalm, MediaTypes
  <2>2. maRemote[i] = "on" /\ MediaUnmade(Mover, i)
    BY <1>19 DEF Moves!LinkOwn, Moves!BeingMade, MediaUnmade
  <2>3. maOp' = [maOp EXCEPT ![u] = [Moves!Idle EXCEPT !.pc = "insert", !.id = i]]
    BY <1>19 DEF Moves!LinkOwn
  <2>4. MediaStarts(Mover, Address, u, "insert", i)
    BY <1>1, <2>3 DEF Moves!Idle, MediaStarts, MediaOpIs, MediaTypes, MediaOp
  <2>5. QED
    BY <1>1, <2>1, <2>2, <2>4 DEF MediaBegins, MediaTypes
<1>20. ASSUME NEW i \in Address, NEW b \in BOOLEAN, Moves!Invite(u, i, b)
      PROVE  MediaBegins(Mover, Address, u) \/ MediaReplaces(Mover, Address, u)
  <2>1. MediaQuiet(Mover) /\ maUsers' = maUsers /\ maOp[u].pc = "idle" /\ maInvite
    BY <1>1, <1>20 DEF Moves!Invite, Moves!Free, Moves!world, Moves!server, Moves!history, MediaQuiet, MediaCalm, MediaTypes
  <2>2. ASSUME NEW pc \in {"look", "replace"}, maOp' = [maOp EXCEPT ![u] = [Moves!Idle EXCEPT !.pc = pc, !.id = i]]
        PROVE  MediaStarts(Mover, Address, u, pc, i)
    BY <1>1, <2>2 DEF Moves!Idle, MediaStarts, MediaOpIs, MediaTypes, MediaOp
  <2>3. CASE /\ Moves!Vacant(u) /\ maRow' = Moves!Dropped(u)
             /\ maOp' = [maOp EXCEPT ![u] = [Moves!Idle EXCEPT !.pc = "look", !.id = i]]
    BY <1>1, <2>1, <2>2, <2>3, MovesDroppedIs DEF Moves!Vacant, Moves!HasRow, MediaBegins
  <2>4. CASE maRow' = maRow /\ maOp' = [maOp EXCEPT ![u] = [Moves!Idle EXCEPT !.pc = "replace", !.id = i]]
    BY <2>1, <2>2, <2>4 DEF MediaReplaces
  <2>5. QED
    BY <1>20, <2>3, <2>4 DEF Moves!Invite
<1>21. ASSUME NEW i \in Address, NEW b \in BOOLEAN, Moves!Link(u, i, b) PROVE MediaLinks(Mover, Address, u)
  <2>1. /\ MediaQuiet(Mover) /\ maUsers' = maUsers /\ u \in maUsers /\ maOp[u].pc = "idle" /\ maRemote[i] # "none"
        /\ MediaUnmade(Mover, i)
    BY <1>1, <1>21 DEF Moves!Link, Moves!Free, Moves!BeingMade, Moves!server, Moves!history, MediaQuiet, MediaCalm, MediaUnmade, MediaTypes
  <2>2. MediaGoes(Mover, Address, u, "grant")
    BY <1>1, <1>21, MovesGotoIs DEF Moves!Link, Moves!Goto
  <2>3. PICK m \in BOOLEAN : m = (b /\ i \notin maAdmin)
    OBVIOUS
  <2>4. CASE /\ ~Moves!HasRow(u) /\ ~Moves!Taken(i, u)
             /\ maRow' = [maRow EXCEPT ![u] = [Moves!NoRow EXCEPT !.id = i, !.manage = m, !.pending = m]]
    <3>1. MediaRowIs(Mover, Address, u, i, FALSE, m, m, FALSE)
      BY <1>1, <2>4 DEF Moves!NoRow, MediaRowIs, MediaTypes, MediaRow
    <3>2. QED
      BY <2>1, <2>2, <2>4, <3>1 DEF Moves!HasRow, Moves!Taken, MediaFree, MediaLinks
  <2>5. CASE maRow' = maRow
    BY <2>1, <2>2, <2>5 DEF MediaLinks
  <2>6. QED
    BY <1>21, <2>3, <2>4, <2>5 DEF Moves!Link
<1>22. ASSUME NEW b \in BOOLEAN, Moves!SetManagement(u, b) PROVE MediaManages(Mover, Address, u)
  BY <1>1, <1>22, MovesGotoIs DEF Moves!SetManagement, Moves!Free, Moves!HasRow, Moves!world, Moves!server, Moves!history, MediaManages,
            MediaCalm, MediaQuiet, MediaRowIs, MediaTypes, MediaPlace, MediaRow, MediaOp
<1>23. QED
  BY <1>2, <1>3, <1>4, <1>5, <1>6, <1>7, <1>8, <1>9, <1>10, <1>11, <1>12, <1>13, <1>14, <1>15, <1>16, <1>17, <1>18, <1>19, <1>20, <1>21, <1>22 DEF MovesUserNext, Moves!Reconcile, Moves!Working, MediaUserStep

\* Every step keeps the invariant.
LEMMA MovesNextKept == ASSUME MediaKept(Mover, Address), Moves!Next PROVE MediaKept(Mover, Address)'
<1>1. NoParty \notin Address
  BY MediaAssumption
<1>2. ASSUME NEW u \in Mover, MovesUserNext(u) PROVE MediaKept(Mover, Address)'
  BY <1>1, <1>2, MovesUserSteps, MediaUserStepKeeps
<1>3. CASE Moves!Sweep
  BY <1>3, MediaSameKept DEF MediaSame, MediaKept, MediaTypes, Moves!Sweep, Moves!Drifted, Moves!server, Moves!history
<1>4. CASE Moves!Crash
  BY <1>1, <1>4, MediaRestartsKept DEF MediaRestarts, MediaOp, Moves!Crash, Moves!Idle, Moves!server
<1>5. ASSUME NEW i \in Address, Moves!ByHand(i) PROVE MediaKept(Mover, Address)'
  <2>1. MediaTouches(Address)
    BY <1>5 DEF MediaKept, MediaTypes, MediaTouches, Moves!ByHand, Moves!Off, Moves!world
  <2>2. QED
    BY <2>1, MediaTouchesKept
<1>6. QED
  BY <1>2, <1>3, <1>4, <1>5 DEF Moves!Next, MovesUserNext

\* It holds at the start.
LEMMA MovesInitKept == Moves!Init => MediaKept(Mover, Address)
  BY MediaAssumption DEF Moves!Init, Moves!NoRow, Moves!Idle, MediaKept, MediaTypes, MediaClaims, MediaRecorded, MediaRow, MediaOp,
         MediaPlace, MediaSettled, MediaExists, MediaAlone, MediaHolds

\* It holds what a run checks.
LEMMA MovesKnown == ASSUME MediaKept(Mover, Address) PROVE Moves!SettledIsTrue /\ Moves!MadeIsRecorded
<1>1. \A i \in Address : MediaMeans(i, TRUE) <=> maRemote[i] \in {"none", Moves!Off}
  BY DEF MediaMeans, Moves!Off
<1>2. \A u \in Mover : /\ MediaSettled(u) /\ MediaPlace(u) /\ maRow[u].id \in Address \union {NoParty}
                    /\ maRow[u].off \in BOOLEAN
  BY DEF MediaKept, MediaTypes, MediaRow
<1>3. Moves!SettledIsTrue
  BY <1>1, <1>2 DEF MediaSettled, MediaPlace, MediaMeans, Moves!SettledIsTrue, Moves!Off
<1>4. Moves!MadeIsRecorded
  <2>1. SUFFICES ASSUME NEW i \in Address, i \in maMade \ (maAstray \union maTouched), maRemote[i] = "on"
                 PROVE  \E u \in Mover : maRow[u].id = i \/ (maOp[u].id = i /\ maOp[u].pc # "idle")
    BY DEF MediaKept, MediaTypes, Moves!MadeIsRecorded
  <2>2. PICK u \in Mover : MediaRecords(u, i)
    BY <2>1 DEF MediaKept, MediaRecorded
  <2>3. MediaPlace(u) /\ i # NoParty
    BY MediaAssumption DEF MediaKept
  <2>4. QED
    BY <2>2, <2>3 DEF MediaRecords, MediaPlace
<1>5. QED
  BY <1>3, <1>4


\* The accounts start within their invariant.
LEMMA MediaInit == Init => MediaInv
  BY MediaInitKept, MovesInitKept DEF Init, MediaInv

\* The inductive invariant of media accounts.
LEMMA MediaInvHolds == Spec => []MediaInv
<1>1. MediaInv /\ [Next]_vars => MediaInv'
  <2>1. ASSUME MediaInv, Only("media"), Media!Next PROVE MediaInv'
    BY <2>1, MediaNextKept DEF Only, MediaInv
  <2>2. ASSUME MediaInv, Only("moves"), Moves!Next PROVE MediaInv'
    BY <2>2, MovesNextKept DEF Only, MediaInv
  <2>3. ASSUME MediaInv, part' = part, UNCHANGED mediaVars PROVE MediaInv'
    BY <2>3, MediaSameKept DEF mediaVars, MediaSame, MediaInv, MediaKept, MediaTypes
  <2>4. Next => \/ Only("media") /\ Media!Next
                \/ Only("moves") /\ Moves!Next
                \/ part' = part /\ UNCHANGED mediaVars
    BY DEF Next, Only
  <2>5. QED
    BY <2>1, <2>2, <2>3, <2>4 DEF vars
<1>2. QED
  BY <1>1, MediaInit, PTL DEF Spec

\* A managed account whose row is settled is as the row says unless it was changed
\* by hand, and an account that was made, and not let go of, is recorded or being
\* recorded.
THEOREM AccountsAreKnownHolds == Spec => []AccountsAreKnown
<1>1. MediaInv => AccountsAreKnown
  BY MediaKnown, MovesKnown DEF MediaInv, AccountsAreKnown
<1>2. QED
  BY <1>1, MediaInvHolds, PTL

\* It holds the module's type invariant.
LEMMA MediaTypeOK == ASSUME MediaKept(Party, MediaAccount) PROVE Media!TypeOK
<1>1. \A u \in Party : /\ MediaPlace(u) /\ maRow[u] \in MediaRow(MediaAccount) /\ maOp[u] \in MediaOp(MediaAccount)
  BY DEF MediaKept, MediaTypes
<1>2. ASSUME NEW u \in Party, maRow[u].id = NoParty PROVE maRow[u] = Media!NoRow
  <2>1. /\ maRow[u] \in MediaRow(MediaAccount) /\ maRow[u].id = NoParty /\ maRow[u].created = FALSE
        /\ maRow[u].manage = FALSE /\ maRow[u].pending = FALSE /\ maRow[u].off = FALSE
    BY <1>1, <1>2 DEF MediaPlace, MediaRow
  <2>2. QED
    BY <2>1 DEF MediaRow, Media!NoRow
<1>3. \A u \in Party : /\ maRow[u].id \in MediaAccount \union {NoParty}
                    /\ maOp[u].pc \in {"idle", "replace", "look", "create", "insert", "undo", "grant",
                                       "mark", "ask", "set", "stamp", "leave"}
  BY <1>1 DEF MediaRow, MediaOp
<1>4. /\ maTodo \subseteq Party /\ maGranted \subseteq maUsers /\ maUnlinked \subseteq maUsers
      /\ \A i \in MediaAccount : maRemote[i] \in {"none", "on", "off"} /\ (maInvite => maRemote[i] # "off")
  BY DEF MediaKept, MediaTypes
<1>5. \A u, v \in Party : maRow[u].id = maRow[v].id /\ u # v => maRow[u].id = NoParty
  BY DEF MediaKept, MediaClaims
<1>6. QED
  BY <1>2, <1>3, <1>4, <1>5 DEF Media!TypeOK

\* It holds the module's type invariant.
LEMMA MovesTypeOK == ASSUME MediaKept(Mover, Address) PROVE Moves!TypeOK
<1>1. \A u \in Mover : /\ MediaPlace(u) /\ maRow[u] \in MediaRow(Address) /\ maOp[u] \in MediaOp(Address)
  BY DEF MediaKept, MediaTypes
<1>2. ASSUME NEW u \in Mover, maRow[u].id = NoParty PROVE maRow[u] = Moves!NoRow
  <2>1. /\ maRow[u] \in MediaRow(Address) /\ maRow[u].id = NoParty /\ maRow[u].created = FALSE
        /\ maRow[u].manage = FALSE /\ maRow[u].pending = FALSE /\ maRow[u].off = FALSE
    BY <1>1, <1>2 DEF MediaPlace, MediaRow
  <2>2. QED
    BY <2>1 DEF MediaRow, Moves!NoRow
<1>3. \A u \in Mover : /\ maRow[u].id \in Address \union {NoParty}
                    /\ maOp[u].pc \in {"idle", "replace", "look", "create", "insert", "undo", "grant",
                                       "mark", "ask", "set", "stamp", "leave"}
  BY <1>1 DEF MediaRow, MediaOp
<1>4. /\ maTodo \subseteq Mover /\ maGranted \subseteq maUsers /\ maUnlinked \subseteq maUsers
      /\ \A i \in Address : maRemote[i] \in {"none", "on", "off"} /\ (maInvite => maRemote[i] # "off")
  BY DEF MediaKept, MediaTypes
<1>5. \A u, v \in Mover : maRow[u].id = maRow[v].id /\ u # v => maRow[u].id = NoParty
  BY DEF MediaKept, MediaClaims
<1>6. QED
  BY <1>2, <1>3, <1>4, <1>5 DEF Moves!TypeOK

---------------------------------------------------------------------------
(* The types of all services.                                              *)

Parts == {"tags", "tv", "follow", "grok", "discord", "profiles", "media", "moves", "signin"}

\* One service runs at a time.
LEMMA PartsHold == Spec => [](part \in Parts)
<1>1. Init => part \in Parts
  BY DEF Init, Parts
<1>2. part \in Parts /\ [Next]_vars => (part \in Parts)'
  BY DEF Next, Only, vars
<1>3. QED
  BY <1>1, <1>2, PTL DEF Spec

\* The state of every service is well typed, for every value of the constants.
THEOREM ServicesTypeCorrect == Spec => []TypeOK
<1>1. ASSUME TagInv, TVInv, FollowInv, GrokInv, DiscordInv, ProfileInv, MediaInv, SignInv, part \in Parts
      PROVE  TypeOK
  <2>1. Tags!TypeOK /\ TV!TypeOK /\ Following!TypeOK
    BY <1>1, TVTypeOK, FollowTypeOK DEF TagInv, TagTypes
  <2>2. Grok!TypeOK /\ Discord!TypeOK /\ Profiles!TypeOK /\ Sign!TypeOK
    BY <1>1, GrokTypeOK, DiscordTypeOK, ProfileTypeOK, SignTypeOK
  <2>3. (part = "media" => Media!TypeOK) /\ (part = "moves" => Moves!TypeOK)
    BY <1>1, MediaTypeOK, MovesTypeOK DEF MediaInv
  <2>4. QED
    BY <1>1, <2>1, <2>2, <2>3 DEF Parts, TypeOK
<1>2. QED
  BY <1>1, TagInvHolds, TVInvHolds, FollowInvHolds, GrokInvHolds, DiscordInvHolds, ProfileInvHolds,
     MediaInvHolds, SignInvHolds, PartsHold, PTL
===============================================================================
