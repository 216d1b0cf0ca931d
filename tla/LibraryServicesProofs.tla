------------------------ MODULE LibraryServicesProofs -------------------------
(*****************************************************************************)
(* Theorems about the services that work on the library beside request      *)
(* delivery: requester tags, seasons and follows, for every value of the    *)
(* constants of Services.                                                   *)
(*****************************************************************************)
EXTENDS Services, TLAPS, WellFoundedInduction

---------------------------------------------------------------------------
(* Requester tags.                                                         *)

TagRow == [st : Tags!State, att : 0 .. MaxAttempts, due : BOOLEAN, tok : Token \union {NoToken}, live : BOOLEAN]
TagRest(row) == row.st # "processing" => row.tok = NoToken /\ ~row.live
TagWorker == [pc : {"idle", "read", "guard", "write", "confirm", "applied", "retry", "final"},
              job : Tag, tok : Token \union {NoToken}, late : BOOLEAN, seen : Nat]

\* What is in the attempt under way, in delivery and in the refresh.
TagTypes ==
  /\ Tags!TypeOK
  /\ tgWorker \in TagWorker
  /\ tgRefresh \in [on : BOOLEAN, snap : SUBSET Tag, ended : Nat]
  /\ tgDelivery \in Token \union {NoToken} /\ tgOn \in BOOLEAN

\* Who is at work on the instance holds its lock under a token of its own.
TagLeases ==
  /\ tgWorker.pc # "idle" => tgWorker.tok # NoToken
  /\ tgWorker.pc # "idle" /\ ~tgWorker.late => tgLock.tok = tgWorker.tok /\ tgLock.live
  /\ tgDelivery # NoToken => tgLock.tok = tgDelivery /\ tgLock.live /\ tgWorker.tok # tgDelivery

\* The title has its tag, and no refresh under way takes it off again.
Tagged(j) == tgNative[j] = "title" /\ (tgRefresh.on => j \in tgRefresh.snap)

\* What is about to be called applied is tagged, or a refresh ended since.
TagReceipts ==
  /\ tgWorker.seen <= tgRefresh.ended
  /\ ~Lidarr => ~tgRefresh.on /\ tgRefresh.ended = 0
  /\ tgWorker.pc = "confirm" => tgNative[tgWorker.job] = "title" \/ tgWorker.seen < tgRefresh.ended
  /\ tgWorker.pc = "applied" => Tagged(tgWorker.job)
  /\ \A j \in Tag : tgJob[j].st = "applied" => Tagged(j)

\* A job that exists was asked for.
TagAsked == \A j \in Tag : tgAsks[j] = "never" => tgJob[j].st = "none"

TagInv == TagTypes /\ TagLeases /\ TagReceipts /\ TagAsked

\* A key that nobody holds is drawn.
LEMMA TagFresh == ASSUME TagTypes PROVE Tags!FreshTok \in Token /\ Tags!FreshTok \notin Tags!InUse
<1> DEFINE T == Token \union {NoToken}
           F == [Tag -> Token \union {NoToken}]
           Unheld(x, y, z, h, t) == t \notin {x, y, z} /\ \A j \in Tag : h[j] # t
           held == [j \in Tag |-> tgJob[j].tok]
           lockTok == tgLock.tok
           workerTok == tgWorker.tok
<1>1. \A x, y, z \in T, h \in F : \E t \in Token : Unheld(x, y, z, h, t)
  BY PartyAssumption, TagsAssumption, Zenon
<1>2. held \in F
  BY DEF TagTypes, Tags!TypeOK
<1>3. lockTok \in T /\ workerTok \in T /\ tgDelivery \in T
  BY DEF TagTypes, Tags!TypeOK, TagWorker
<1>4. PICK t \in Token : Unheld(lockTok, workerTok, tgDelivery, held, t)
  <2> HIDE DEF T, F, Unheld, held, lockTok, workerTok
  <2> QED BY <1>1, <1>2, <1>3, Zenon
<1>5. t \notin Tags!InUse
  BY <1>4 DEF Tags!InUse
<1>6. QED
  BY <1>5 DEF Tags!FreshTok

\* The rows a job can be given.
LEMMA TagNoJob ==
  /\ Tags!NoJob \in TagRow /\ TagRest(Tags!NoJob) /\ Tags!NoJob.st = "none"
  /\ \A s \in Tags!State : s # "processing" =>
       /\ [Tags!NoJob EXCEPT !.st = s] \in TagRow /\ TagRest([Tags!NoJob EXCEPT !.st = s])
       /\ [Tags!NoJob EXCEPT !.st = s].st = s
<1>1. Tags!NoJob \in TagRow /\ TagRest(Tags!NoJob) /\ Tags!NoJob.st = "none"
  BY PartyAssumption, TagsAssumption DEF Tags!NoJob, TagRow, TagRest, Tags!State
<1>2. ASSUME NEW s \in Tags!State, s # "processing"
      PROVE  /\ [Tags!NoJob EXCEPT !.st = s] \in TagRow /\ TagRest([Tags!NoJob EXCEPT !.st = s])
             /\ [Tags!NoJob EXCEPT !.st = s].st = s
  BY <1>1 DEF TagRow, TagRest
<1>3. QED
  BY <1>1, <1>2

\* A job whose row changes, alone.
LEMMA TagRowChange ==
  ASSUME TagTypes, NEW j \in Tag, NEW row \in TagRow, TagRest(row)
  PROVE  /\ [tgJob EXCEPT ![j] = row] \in [Tag -> TagRow]
         /\ \A k \in Tag : TagRest([tgJob EXCEPT ![j] = row][k])
<1>1. tgJob \in [Tag -> TagRow] /\ \A k \in Tag : TagRest(tgJob[k])
  BY DEF TagTypes, Tags!TypeOK, TagRow, TagRest
<1>2. ASSUME NEW k \in Tag PROVE TagRest([tgJob EXCEPT ![j] = row][k])
  BY <1>1
<1>3. QED
  BY <1>1, <1>2

\* Cancelling jobs takes back what waits.
LEMMA TagCancelled ==
  ASSUME TagTypes, NEW S
  PROVE  /\ Tags!Cancelled(S) \in [Tag -> TagRow]
         /\ \A k \in Tag : /\ TagRest(Tags!Cancelled(S)[k])
                           /\ Tags!Cancelled(S)[k].st \in {tgJob[k].st, "cancelled"}
                           /\ tgJob[k].st \in Tags!Final \union {"none"} => Tags!Cancelled(S)[k] = tgJob[k]
<1>1. tgJob \in [Tag -> TagRow] /\ \A k \in Tag : TagRest(tgJob[k])
  BY DEF TagTypes, Tags!TypeOK, TagRow, TagRest
<1>2. ASSUME NEW k \in Tag
      PROVE  [tgJob[k] EXCEPT !.st = "cancelled", !.tok = NoToken, !.live = FALSE] \in TagRow
             /\ TagRest([tgJob[k] EXCEPT !.st = "cancelled", !.tok = NoToken, !.live = FALSE])
             /\ [tgJob[k] EXCEPT !.st = "cancelled", !.tok = NoToken, !.live = FALSE].st = "cancelled"
  <2>1. tgJob[k] \in TagRow
    BY <1>1
  <2>2. QED
    BY <2>1 DEF TagRow, TagRest, Tags!State, Tags!Final
<1>3. ASSUME NEW k \in Tag
      PROVE  /\ Tags!Cancelled(S)[k] \in TagRow /\ TagRest(Tags!Cancelled(S)[k])
             /\ Tags!Cancelled(S)[k].st \in {tgJob[k].st, "cancelled"}
             /\ tgJob[k].st \in Tags!Final \union {"none"} => Tags!Cancelled(S)[k] = tgJob[k]
  <2>1. CASE k \in S /\ tgJob[k].st \notin Tags!Final \union {"none"}
    <3>1. Tags!Cancelled(S)[k] = [tgJob[k] EXCEPT !.st = "cancelled", !.tok = NoToken, !.live = FALSE]
      BY <2>1 DEF Tags!Cancelled
    <3>2. QED
      BY <3>1, <1>2, <2>1
  <2>2. CASE ~(k \in S /\ tgJob[k].st \notin Tags!Final \union {"none"})
    <3>1. Tags!Cancelled(S)[k] = tgJob[k]
      BY <2>2 DEF Tags!Cancelled
    <3>2. tgJob[k] \in TagRow /\ TagRest(tgJob[k])
      BY <1>1
    <3>3. QED
      BY <3>1, <3>2
  <2>3. QED
    BY <2>1, <2>2
<1>4. Tags!Cancelled(S) = [k \in Tag |-> Tags!Cancelled(S)[k]]
  BY DEF Tags!Cancelled
<1>5. QED
  BY <1>3, <1>4


\* What is left to show of a step, once the jobs it writes are jobs.
LEMMA TagTypesFrom ==
  ASSUME TagTypes, tgJob' \in [Tag -> TagRow], \A k \in Tag : TagRest(tgJob'[k]),
         tgLock' \in [tok : Token \union {NoToken}, live : BOOLEAN],
         tgAsks' \in [Tag -> {"never", "yes", "left"}], tgDone' \subseteq Tag,
         tgNative' \in [Tag -> {"none", "label", "title"}],
         tgRetried' \in 0 .. MaxAttempts, tgFault' \in 0 .. MaxFault,
         tgWorker' \in TagWorker,
         tgRefresh' \in [on : BOOLEAN, snap : SUBSET Tag, ended : Nat],
         tgDelivery' \in Token \union {NoToken}, tgOn' \in BOOLEAN
  PROVE  TagTypes'
  BY DEF TagRow, TagRest, TagTypes, Tags!TypeOK, TagWorker

\* The rows of the jobs.
LEMMA TagTypesNow ==
  ASSUME TagTypes
  PROVE  /\ tgJob \in [Tag -> TagRow] /\ \A k \in Tag : TagRest(tgJob[k])
         /\ tgLock \in [tok : Token \union {NoToken}, live : BOOLEAN]
         /\ tgAsks \in [Tag -> {"never", "yes", "left"}] /\ tgDone \subseteq Tag
         /\ tgNative \in [Tag -> {"none", "label", "title"}]
         /\ tgRetried \in 0 .. MaxAttempts /\ tgFault \in 0 .. MaxFault
         /\ tgWorker \in TagWorker
         /\ tgRefresh \in [on : BOOLEAN, snap : SUBSET Tag, ended : Nat]
         /\ tgDelivery \in Token \union {NoToken} /\ tgOn \in BOOLEAN
  BY DEF TagRow, TagRest, TagTypes, Tags!TypeOK, TagWorker

\* No attempt.
LEMMA TagIdle == Tags!Idle \in TagWorker /\ Tags!Idle.pc = "idle" /\ Tags!Idle.tok = NoToken /\ Tags!Idle.seen = 0
  BY PartyAssumption, TagsAssumption DEF Tags!Idle, TagWorker

\* Every action keeps jobs, attempt and locks in their sets.
LEMMA TagTypesStep == ASSUME TagTypes, Tags!Next PROVE TagTypes'
<1> USE PartyAssumption, TagsAssumption
<1>1. ASSUME NEW j \in Tag, Tags!Ask(j) PROVE TagTypes'
  <2>1. [Tags!NoJob EXCEPT !.st = "waiting"] \in TagRow /\ TagRest([Tags!NoJob EXCEPT !.st = "waiting"])
    BY TagNoJob DEF Tags!State, Tags!Waiting
  <2>2. tgJob' \in [Tag -> TagRow] /\ \A k \in Tag : TagRest(tgJob'[k])
    BY <1>1, <2>1, TagRowChange, TagTypesNow DEF Tags!Ask
  <2>3. QED
    BY <1>1, <2>2, TagTypesFrom, TagTypesNow DEF Tags!Ask
<1>2. ASSUME NEW j \in Tag, Tags!Withdraw(j) PROVE TagTypes'
  BY <1>2, TagTypesFrom, TagTypesNow DEF Tags!Withdraw
<1>3. ASSUME NEW j \in Tag, Tags!Retry(j) PROVE TagTypes'
  <2>1. [Tags!NoJob EXCEPT !.st = "pending"] \in TagRow /\ TagRest([Tags!NoJob EXCEPT !.st = "pending"])
    BY TagNoJob DEF Tags!State, Tags!Waiting
  <2>2. tgJob' \in [Tag -> TagRow] /\ \A k \in Tag : TagRest(tgJob'[k])
    BY <1>3, <2>1, TagRowChange, TagTypesNow DEF Tags!Retry
  <2>3. tgRetried' \in 0 .. MaxAttempts
    BY <1>3, TagTypesNow DEF Tags!Retry
  <2>4. QED
    BY <1>3, <2>2, <2>3, TagTypesFrom, TagTypesNow DEF Tags!Retry
<1>4. ASSUME NEW j \in Tag, Tags!Claim(j) PROVE TagTypes'
  <2> DEFINE row == [tgJob[j] EXCEPT !.st = "processing", !.tok = Tags!FreshTok, !.live = TRUE,
                                     !.att = IF @ < MaxAttempts THEN @ + 1 ELSE @]
  <2>1. tgJob[j] \in TagRow
    BY TagTypesNow
  <2>2. row \in TagRow /\ TagRest(row)
    <3> DEFINE att == IF tgJob[j].att < MaxAttempts THEN tgJob[j].att + 1 ELSE tgJob[j].att
    <3>1. att \in 0 .. MaxAttempts
      BY <2>1 DEF TagRow
    <3>2. row = [tgJob[j] EXCEPT !.st = "processing", !.tok = Tags!FreshTok, !.live = TRUE, !.att = att]
      BY <2>1 DEF TagRow
    <3>3. "processing" \in Tags!State
      BY DEF Tags!State
    <3> HIDE DEF row, att
    <3>4. QED
      BY <2>1, <3>1, <3>2, <3>3, TagFresh DEF TagRow, TagRest
  <2>3. tgJob' = [tgJob EXCEPT ![j] = row]
    BY <1>4 DEF Tags!Claim
  <2>4. tgJob' \in [Tag -> TagRow] /\ \A k \in Tag : TagRest(tgJob'[k])
    <3> HIDE DEF row
    <3> QED BY <2>2, <2>3, TagRowChange
  <2>5. tgWorker' \in TagWorker
    BY <1>4, TagIdle, TagFresh DEF Tags!Claim, TagWorker
  <2>6. QED
    BY <1>4, <2>4, <2>5, TagFresh, TagTypesFrom, TagTypesNow DEF Tags!Claim
<1>5. ASSUME NEW j \in Tag, Tags!BackoffEnds(j) PROVE TagTypes'
  <2>1. tgJob[j] \in TagRow /\ TagRest(tgJob[j])
    BY TagTypesNow
  <2>2. [tgJob[j] EXCEPT !.due = TRUE] \in TagRow /\ TagRest([tgJob[j] EXCEPT !.due = TRUE])
    BY <2>1 DEF TagRow, TagRest
  <2>3. tgJob' = [tgJob EXCEPT ![j] = [tgJob[j] EXCEPT !.due = TRUE]]
    BY <1>5 DEF Tags!BackoffEnds
  <2>4. tgJob' \in [Tag -> TagRow] /\ \A k \in Tag : TagRest(tgJob'[k])
    BY <2>2, <2>3, TagRowChange
  <2>5. QED
    BY <1>5, <2>4, TagTypesFrom, TagTypesNow DEF Tags!BackoffEnds
<1>6. ASSUME NEW j \in Tag, Tags!ExpireJob(j) PROVE TagTypes'
  <2>1. tgJob[j] \in TagRow /\ TagRest(tgJob[j])
    BY TagTypesNow
  <2>2. [tgJob[j] EXCEPT !.live = FALSE] \in TagRow /\ TagRest([tgJob[j] EXCEPT !.live = FALSE])
    BY <2>1 DEF TagRow, TagRest
  <2>3. tgJob' = [tgJob EXCEPT ![j] = [tgJob[j] EXCEPT !.live = FALSE]]
    BY <1>6 DEF Tags!ExpireJob
  <2>4. tgJob' \in [Tag -> TagRow] /\ \A k \in Tag : TagRest(tgJob'[k])
    BY <2>2, <2>3, TagRowChange
  <2>5. QED
    BY <1>6, <2>4, TagTypesFrom, TagTypesNow DEF Tags!ExpireJob
<1>7. CASE Tags!Toggle
  <2>1. tgJob' \in [Tag -> TagRow] /\ \A k \in Tag : TagRest(tgJob'[k])
    BY <1>7, TagCancelled, TagTypesNow DEF Tags!Toggle
  <2>2. QED
    BY <1>7, <2>1, TagTypesFrom, TagTypesNow DEF Tags!Toggle
<1>8. CASE Tags!CancelIneligible
  <2>1. tgJob' \in [Tag -> TagRow] /\ \A k \in Tag : TagRest(tgJob'[k])
    BY <1>8, TagCancelled DEF Tags!CancelIneligible
  <2>2. QED
    BY <1>8, <2>1, TagTypesFrom, TagTypesNow DEF Tags!CancelIneligible
<1>9. CASE Tags!DeliveryTakes
  BY <1>9, TagFresh, TagTypesFrom, TagTypesNow DEF Tags!DeliveryTakes
<1>10. CASE Tags!DeliveryEnds
  BY <1>10, TagTypesFrom, TagTypesNow DEF Tags!DeliveryEnds, Tags!Free
<1>11. CASE Tags!Fail
  <2>1. tgWorker' \in TagWorker
    BY <1>11, TagTypesNow DEF Tags!Fail, TagWorker
  <2>2. QED
    BY <1>11, <2>1, TagTypesFrom, TagTypesNow DEF Tags!Fail
<1>12. CASE Tags!Read
  <2>1. tgWorker' \in TagWorker
    BY <1>12, TagTypesNow DEF Tags!Read, TagWorker
  <2>2. QED
    BY <1>12, <2>1, TagTypesFrom, TagTypesNow DEF Tags!Read
<1>13. CASE Tags!Guard
  <2>1. tgWorker' \in TagWorker
    BY <1>13, TagTypesNow DEF Tags!Guard, TagWorker
  <2>2. QED
    BY <1>13, <2>1, TagTypesFrom, TagTypesNow DEF Tags!Guard
<1>14. CASE Tags!Write
  <2>1. tgWorker' \in TagWorker
    BY <1>14, TagTypesNow DEF Tags!Write, TagWorker
  <2>2. tgNative' \in [Tag -> {"none", "label", "title"}]
    <3>1. tgNative' \in {[tgNative EXCEPT ![tgWorker.job] = s] : s \in {"label", "title"}}
      BY <1>14 DEF Tags!Write
    <3>2. QED
      BY <3>1, TagTypesNow
  <2>3. QED
    BY <1>14, <2>1, <2>2, TagTypesFrom, TagTypesNow DEF Tags!Write
<1>15. CASE Tags!Finish
  <2> DEFINE j == tgWorker.job
             again == tgWorker.pc = "retry" /\ tgJob[j].att < MaxAttempts
             end == IF tgWorker.pc = "applied" THEN "applied" ELSE IF again THEN "retrying" ELSE "failed"
             row == [tgJob[j] EXCEPT !.st = end, !.due = ~again, !.tok = NoToken, !.live = FALSE]
  <2>1. j \in Tag /\ tgJob[j] \in TagRow
    BY TagTypesNow DEF TagWorker
  <2>2. row \in TagRow /\ TagRest(row)
    <3>1. end \in Tags!State /\ end # "processing"
      BY DEF Tags!State, Tags!Waiting, Tags!Final
    <3>2. (~again) \in BOOLEAN
      OBVIOUS
    <3> HIDE DEF end, again
    <3>3. QED
      BY <2>1, <3>1, <3>2 DEF TagRow, TagRest
  <2>3. tgJob' \in {tgJob, [tgJob EXCEPT ![j] = row]}
    BY <1>15 DEF Tags!Finish
  <2>4. tgJob' \in [Tag -> TagRow] /\ \A k \in Tag : TagRest(tgJob'[k])
    <3> HIDE DEF row, j
    <3>1. /\ [tgJob EXCEPT ![j] = row] \in [Tag -> TagRow]
          /\ \A k \in Tag : TagRest([tgJob EXCEPT ![j] = row][k])
      BY <2>1, <2>2, TagRowChange
    <3>2. tgJob \in [Tag -> TagRow] /\ \A k \in Tag : TagRest(tgJob[k])
      BY TagTypesNow
    <3>3. QED
      BY <2>3, <3>1, <3>2
  <2>5. tgWorker' \in TagWorker /\ tgLock' \in [tok : Token \union {NoToken}, live : BOOLEAN]
    BY <1>15, TagIdle, TagTypesNow DEF Tags!Finish, Tags!Free
  <2>6. QED
    BY <1>15, <2>4, <2>5, TagTypesFrom, TagTypesNow DEF Tags!Finish
<1>16. CASE Tags!Stall
  <2>1. tgWorker' \in TagWorker
    BY <1>16, TagTypesNow DEF Tags!Stall, TagWorker
  <2>2. QED
    BY <1>16, <2>1, TagTypesFrom, TagTypesNow DEF Tags!Stall
<1>17. CASE Tags!Crash
  BY <1>17, TagIdle, TagTypesFrom, TagTypesNow DEF Tags!Crash
<1>18. CASE Tags!ExpireLock
  BY <1>18, TagTypesFrom, TagTypesNow DEF Tags!ExpireLock
<1>19. CASE Tags!RefreshBegins
  BY <1>19, TagTypesFrom, TagTypesNow DEF Tags!RefreshBegins
<1>20. CASE Tags!RefreshEnds
  BY <1>20, TagTypesFrom, TagTypesNow DEF Tags!RefreshEnds
<1>21. QED
  BY <1>1, <1>2, <1>3, <1>4, <1>5, <1>6, <1>7, <1>8, <1>9, <1>10, <1>11, <1>12, <1>13, <1>14, <1>15,
     <1>16, <1>17, <1>18, <1>19, <1>20 DEF Tags!Next, Tags!Attempt

\* Every action keeps the lock with the one at work.
LEMMA TagLeasesStep == ASSUME TagInv, Tags!Next PROVE TagLeases'
<1> USE DEF TagInv
<1> USE PartyAssumption, TagsAssumption
<1>1. ASSUME NEW j \in Tag, Tags!Ask(j) PROVE TagLeases'
  BY <1>1, TagFresh DEF Tags!Ask, TagTypes, Tags!TypeOK, TagWorker, TagLeases
<1>2. ASSUME NEW j \in Tag, Tags!Withdraw(j) PROVE TagLeases'
  BY <1>2, TagFresh DEF Tags!Withdraw, TagTypes, Tags!TypeOK, TagWorker, TagLeases
<1>3. ASSUME NEW j \in Tag, Tags!Retry(j) PROVE TagLeases'
  BY <1>3, TagFresh DEF Tags!Retry, TagTypes, Tags!TypeOK, TagWorker, TagLeases
<1>4. ASSUME NEW j \in Tag, Tags!Claim(j) PROVE TagLeases'
  <2>1. Tags!FreshTok # NoToken /\ Tags!FreshTok # tgDelivery
    BY TagFresh DEF Tags!InUse
  <2>2. tgWorker'.pc = "read" /\ tgWorker'.tok = Tags!FreshTok
    BY <1>4, TagIdle DEF Tags!Claim, TagWorker
  <2>3. tgLock' = [tok |-> Tags!FreshTok, live |-> TRUE] /\ ~tgLock.live /\ tgDelivery' = tgDelivery
    BY <1>4 DEF Tags!Claim, Tags!Lockable
  <2>4. QED
    BY <2>1, <2>2, <2>3 DEF TagLeases
<1>5. ASSUME NEW j \in Tag, Tags!BackoffEnds(j) PROVE TagLeases'
  BY <1>5, TagFresh DEF Tags!BackoffEnds, TagTypes, Tags!TypeOK, TagWorker, TagLeases
<1>6. ASSUME NEW j \in Tag, Tags!ExpireJob(j) PROVE TagLeases'
  BY <1>6, TagFresh DEF Tags!ExpireJob, TagTypes, Tags!TypeOK, TagWorker, TagLeases
<1>7. CASE Tags!Toggle
  BY <1>7, TagFresh DEF Tags!Toggle, Tags!Cancelled, TagTypes, Tags!TypeOK, TagWorker, TagLeases
<1>8. CASE Tags!CancelIneligible
  BY <1>8, TagFresh DEF Tags!CancelIneligible, Tags!Cancelled, TagTypes, Tags!TypeOK, TagWorker, TagLeases
<1>9. CASE Tags!DeliveryTakes
  <2>1. Tags!FreshTok # NoToken /\ Tags!FreshTok # tgWorker.tok
    BY TagFresh DEF Tags!InUse
  <2>2. tgDelivery' = Tags!FreshTok /\ tgLock' = [tok |-> Tags!FreshTok, live |-> TRUE]
    BY <1>9 DEF Tags!DeliveryTakes
  <2>3. tgWorker' = tgWorker /\ ~tgLock.live
    BY <1>9 DEF Tags!DeliveryTakes
  <2>4. QED
    BY <2>1, <2>2, <2>3 DEF TagLeases
<1>10. CASE Tags!DeliveryEnds
  BY <1>10, TagFresh DEF Tags!DeliveryEnds, Tags!Free, TagTypes, Tags!TypeOK, TagWorker, TagLeases
<1>11. CASE Tags!Fail
  BY <1>11, TagFresh DEF Tags!Fail, TagTypes, Tags!TypeOK, TagWorker, TagLeases
<1>12. CASE Tags!Read
  BY <1>12, TagFresh DEF Tags!Read, TagTypes, Tags!TypeOK, TagWorker, TagLeases
<1>13. CASE Tags!Guard
  BY <1>13, TagFresh DEF Tags!Guard, Tags!Quiet, Tags!Holds, TagTypes, Tags!TypeOK, TagWorker, TagLeases
<1>14. CASE Tags!Write
  BY <1>14, TagFresh DEF Tags!Write, TagTypes, Tags!TypeOK, TagWorker, TagLeases
<1>15. CASE Tags!Finish
  BY <1>15, TagFresh DEF Tags!Finish, Tags!OwnsResult, Tags!Free, Tags!Idle, TagTypes, Tags!TypeOK, TagWorker, TagLeases
<1>16. CASE Tags!Stall
  BY <1>16, TagFresh DEF Tags!Stall, TagTypes, Tags!TypeOK, TagWorker, TagLeases
<1>17. CASE Tags!Crash
  BY <1>17, TagFresh DEF Tags!Crash, Tags!Idle, TagTypes, Tags!TypeOK, TagWorker, TagLeases
<1>18. CASE Tags!ExpireLock
  BY <1>18, TagFresh DEF Tags!ExpireLock, Tags!Kept, TagTypes, Tags!TypeOK, TagWorker, TagLeases
<1>19. CASE Tags!RefreshBegins
  BY <1>19, TagFresh DEF Tags!RefreshBegins, TagTypes, Tags!TypeOK, TagWorker, TagLeases
<1>20. CASE Tags!RefreshEnds
  BY <1>20, TagFresh DEF Tags!RefreshEnds, TagTypes, Tags!TypeOK, TagWorker, TagLeases
<1>21. QED
  BY <1>1, <1>2, <1>3, <1>4, <1>5, <1>6, <1>7, <1>8, <1>9, <1>10, <1>11, <1>12, <1>13, <1>14, <1>15, <1>16, <1>17, <1>18, <1>19, <1>20 DEF Tags!Next, Tags!Attempt

\* Every action keeps what is called applied tagged.
LEMMA TagReceiptsStep == ASSUME TagInv, Tags!Next PROVE TagReceipts'
<1> USE DEF TagInv
<1> USE PartyAssumption, TagsAssumption
<1>1. ASSUME NEW j \in Tag, Tags!Ask(j) PROVE TagReceipts'
  BY <1>1 DEF Tags!Ask, TagTypes, Tags!TypeOK, TagWorker, TagReceipts, Tagged
<1>2. ASSUME NEW j \in Tag, Tags!Withdraw(j) PROVE TagReceipts'
  BY <1>2 DEF Tags!Withdraw, TagTypes, Tags!TypeOK, TagWorker, TagReceipts, Tagged
<1>3. ASSUME NEW j \in Tag, Tags!Retry(j) PROVE TagReceipts'
  BY <1>3 DEF Tags!Retry, TagTypes, Tags!TypeOK, TagWorker, TagReceipts, Tagged
<1>4. ASSUME NEW j \in Tag, Tags!Claim(j) PROVE TagReceipts'
  <2>1. tgWorker'.pc = "read" /\ tgWorker'.seen = 0 /\ UNCHANGED <<tgNative, tgRefresh>>
    BY <1>4, TagIdle DEF Tags!Claim, TagWorker
  <2>2. \A k \in Tag : tgJob'[k].st \in {tgJob[k].st, "processing"}
    BY <1>4, TagTypesNow DEF Tags!Claim, TagRow
  <2>3. tgRefresh.ended \in Nat
    BY TagTypesNow
  <2>4. QED
    BY <2>1, <2>2, <2>3 DEF TagReceipts, Tagged
<1>5. ASSUME NEW j \in Tag, Tags!BackoffEnds(j) PROVE TagReceipts'
  BY <1>5 DEF Tags!BackoffEnds, TagTypes, Tags!TypeOK, TagWorker, TagReceipts, Tagged
<1>6. ASSUME NEW j \in Tag, Tags!ExpireJob(j) PROVE TagReceipts'
  BY <1>6 DEF Tags!ExpireJob, TagTypes, Tags!TypeOK, TagWorker, TagReceipts, Tagged
<1>7. CASE Tags!Toggle
  <2>1. UNCHANGED <<tgNative, tgRefresh, tgWorker>>
    BY <1>7 DEF Tags!Toggle
  <2>2. \A k \in Tag : tgJob'[k].st \in {tgJob[k].st, "cancelled"}
    BY <1>7, TagCancelled DEF Tags!Toggle
  <2>3. QED
    BY <2>1, <2>2 DEF TagReceipts, Tagged
<1>8. CASE Tags!CancelIneligible
  <2>1. UNCHANGED <<tgNative, tgRefresh, tgWorker>>
    BY <1>8 DEF Tags!CancelIneligible
  <2>2. \A k \in Tag : tgJob'[k].st \in {tgJob[k].st, "cancelled"}
    BY <1>8, TagCancelled DEF Tags!CancelIneligible
  <2>3. QED
    BY <2>1, <2>2 DEF TagReceipts, Tagged
<1>9. CASE Tags!DeliveryTakes
  BY <1>9 DEF Tags!DeliveryTakes, TagTypes, Tags!TypeOK, TagWorker, TagReceipts, Tagged
<1>10. CASE Tags!DeliveryEnds
  BY <1>10 DEF Tags!DeliveryEnds, Tags!Free, TagTypes, Tags!TypeOK, TagWorker, TagReceipts, Tagged
<1>11. CASE Tags!Fail
  BY <1>11 DEF Tags!Fail, TagTypes, Tags!TypeOK, TagWorker, TagReceipts, Tagged
<1>12. CASE Tags!Read
  BY <1>12 DEF Tags!Read, TagTypes, Tags!TypeOK, TagWorker, TagReceipts, Tagged
<1>13. CASE Tags!Guard
  BY <1>13 DEF Tags!Guard, Tags!Quiet, Tags!Holds, TagTypes, Tags!TypeOK, TagWorker, TagReceipts, Tagged
<1>14. CASE Tags!Write
  <2> DEFINE j == tgWorker.job
  <2>1. UNCHANGED <<tgJob, tgRefresh>> /\ tgWorker' \in {[tgWorker EXCEPT !.pc = pc] : pc \in {"guard", "confirm", "retry"}}
    BY <1>14 DEF Tags!Write
  <2>2. tgNative' \in {[tgNative EXCEPT ![j] = s] : s \in {"label", "title"}}
    BY <1>14 DEF Tags!Write
  <2>3. j \in Tag /\ tgNative \in [Tag -> {"none", "label", "title"}] /\ tgWorker \in TagWorker
    BY TagTypesNow DEF TagWorker
  <2>4. tgWorker'.job = j /\ tgWorker'.seen = tgWorker.seen /\ tgWorker'.pc \in {"guard", "confirm", "retry"}
    BY <2>1, <2>3 DEF TagWorker
  <2>5. tgNative[j] # "none" => tgNative'[j] = "title"
    BY <1>14, <2>3 DEF Tags!Write
  <2>6. tgWorker'.pc = "confirm" => tgNative'[j] = "title"
    BY <1>14, <2>3, <2>5 DEF Tags!Write, TagWorker
  <2>7. \A k \in Tag : tgNative[k] = "title" => tgNative'[k] = "title"
    BY <2>2, <2>3, <2>5
  <2>8. QED
    BY <2>1, <2>3, <2>4, <2>6, <2>7 DEF TagReceipts, Tagged
<1>15. CASE Tags!Finish
  BY <1>15 DEF Tags!Finish, Tags!OwnsResult, Tags!Free, Tags!Idle, TagTypes, Tags!TypeOK, TagWorker, TagReceipts, Tagged
<1>16. CASE Tags!Stall
  BY <1>16 DEF Tags!Stall, TagTypes, Tags!TypeOK, TagWorker, TagReceipts, Tagged
<1>17. CASE Tags!Crash
  BY <1>17 DEF Tags!Crash, Tags!Idle, TagTypes, Tags!TypeOK, TagWorker, TagReceipts, Tagged
<1>18. CASE Tags!ExpireLock
  BY <1>18 DEF Tags!ExpireLock, Tags!Kept, TagTypes, Tags!TypeOK, TagWorker, TagReceipts, Tagged
<1>19. CASE Tags!RefreshBegins
  BY <1>19 DEF Tags!RefreshBegins, TagTypes, Tags!TypeOK, TagWorker, TagReceipts, Tagged
<1>20. CASE Tags!RefreshEnds
  BY <1>20 DEF Tags!RefreshEnds, TagTypes, Tags!TypeOK, TagWorker, TagReceipts, Tagged
<1>21. QED
  BY <1>1, <1>2, <1>3, <1>4, <1>5, <1>6, <1>7, <1>8, <1>9, <1>10, <1>11, <1>12, <1>13, <1>14, <1>15, <1>16, <1>17, <1>18, <1>19, <1>20 DEF Tags!Next, Tags!Attempt

\* Every action keeps jobs to those who asked.
LEMMA TagAskedStep == ASSUME TagInv, Tags!Next PROVE TagAsked'
<1> USE DEF TagInv
<1> USE PartyAssumption, TagsAssumption
<1>1. ASSUME NEW j \in Tag, Tags!Ask(j) PROVE TagAsked'
  BY <1>1, TagFresh DEF Tags!Ask, TagTypes, Tags!TypeOK, TagWorker, TagAsked
<1>2. ASSUME NEW j \in Tag, Tags!Withdraw(j) PROVE TagAsked'
  BY <1>2, TagFresh DEF Tags!Withdraw, TagTypes, Tags!TypeOK, TagWorker, TagAsked
<1>3. ASSUME NEW j \in Tag, Tags!Retry(j) PROVE TagAsked'
  BY <1>3, TagFresh DEF Tags!Retry, TagTypes, Tags!TypeOK, TagWorker, TagAsked
<1>4. ASSUME NEW j \in Tag, Tags!Claim(j) PROVE TagAsked'
  <2>1. tgAsks' = tgAsks /\ tgAsks[j] = "yes"
    BY <1>4 DEF Tags!Claim, Tags!Eligible
  <2>2. \A k \in Tag : k # j => tgJob'[k] = tgJob[k]
    BY <1>4, TagTypesNow DEF Tags!Claim
  <2>3. QED
    BY <2>1, <2>2 DEF TagAsked
<1>5. ASSUME NEW j \in Tag, Tags!BackoffEnds(j) PROVE TagAsked'
  BY <1>5, TagFresh DEF Tags!BackoffEnds, TagTypes, Tags!TypeOK, TagWorker, TagAsked
<1>6. ASSUME NEW j \in Tag, Tags!ExpireJob(j) PROVE TagAsked'
  BY <1>6, TagFresh DEF Tags!ExpireJob, TagTypes, Tags!TypeOK, TagWorker, TagAsked
<1>7. CASE Tags!Toggle
  BY <1>7, TagFresh DEF Tags!Toggle, Tags!Cancelled, TagTypes, Tags!TypeOK, TagWorker, TagAsked
<1>8. CASE Tags!CancelIneligible
  BY <1>8, TagFresh DEF Tags!CancelIneligible, Tags!Cancelled, TagTypes, Tags!TypeOK, TagWorker, TagAsked
<1>9. CASE Tags!DeliveryTakes
  BY <1>9, TagFresh DEF Tags!DeliveryTakes, TagTypes, Tags!TypeOK, TagWorker, TagAsked
<1>10. CASE Tags!DeliveryEnds
  BY <1>10, TagFresh DEF Tags!DeliveryEnds, Tags!Free, TagTypes, Tags!TypeOK, TagWorker, TagAsked
<1>11. CASE Tags!Fail
  BY <1>11, TagFresh DEF Tags!Fail, TagTypes, Tags!TypeOK, TagWorker, TagAsked
<1>12. CASE Tags!Read
  BY <1>12, TagFresh DEF Tags!Read, TagTypes, Tags!TypeOK, TagWorker, TagAsked
<1>13. CASE Tags!Guard
  BY <1>13, TagFresh DEF Tags!Guard, Tags!Quiet, Tags!Holds, TagTypes, Tags!TypeOK, TagWorker, TagAsked
<1>14. CASE Tags!Write
  BY <1>14, TagFresh DEF Tags!Write, TagTypes, Tags!TypeOK, TagWorker, TagAsked
<1>15. CASE Tags!Finish
  BY <1>15, TagFresh DEF Tags!Finish, Tags!OwnsResult, Tags!Free, Tags!Idle, TagTypes, Tags!TypeOK, TagWorker, TagAsked
<1>16. CASE Tags!Stall
  BY <1>16, TagFresh DEF Tags!Stall, TagTypes, Tags!TypeOK, TagWorker, TagAsked
<1>17. CASE Tags!Crash
  BY <1>17, TagFresh DEF Tags!Crash, Tags!Idle, TagTypes, Tags!TypeOK, TagWorker, TagAsked
<1>18. CASE Tags!ExpireLock
  BY <1>18, TagFresh DEF Tags!ExpireLock, Tags!Kept, TagTypes, Tags!TypeOK, TagWorker, TagAsked
<1>19. CASE Tags!RefreshBegins
  BY <1>19, TagFresh DEF Tags!RefreshBegins, TagTypes, Tags!TypeOK, TagWorker, TagAsked
<1>20. CASE Tags!RefreshEnds
  BY <1>20, TagFresh DEF Tags!RefreshEnds, TagTypes, Tags!TypeOK, TagWorker, TagAsked
<1>21. QED
  BY <1>1, <1>2, <1>3, <1>4, <1>5, <1>6, <1>7, <1>8, <1>9, <1>10, <1>11, <1>12, <1>13, <1>14, <1>15, <1>16, <1>17, <1>18, <1>19, <1>20 DEF Tags!Next, Tags!Attempt

\* The services do not share state.
LEMMA TagSpec == Spec => Tags!Spec
<1>1. Init => Tags!Init
  BY DEF Init
<1>2. [Next]_vars => [Tags!Next]_(Tags!vars)
  BY DEF Next, Only, vars, tagVars, tvVars, followVars, grokVars, discordVars, profileVars, mediaVars,
         signVars, Tags!vars
<1>3. QED
  BY <1>1, <1>2, PTL DEF Spec, Tags!Spec

\* Tagging starts within its invariant.
LEMMA TagInit == ASSUME Tags!Init PROVE TagInv
<1>1. tgJob \in [Tag -> TagRow] /\ \A k \in Tag : tgJob[k] = Tags!NoJob
  BY TagNoJob DEF Tags!Init
<1>2. tgWorker = Tags!Idle /\ Tags!Idle \in TagWorker
  BY TagIdle DEF Tags!Init
<1>3. TagTypes
  BY <1>1, <1>2, TagNoJob, PartyAssumption, TagsAssumption DEF Tags!Init, TagTypes, Tags!TypeOK, TagRow, TagRest, Tags!Free, TagWorker
<1>4. TagLeases /\ TagReceipts /\ TagAsked
  BY <1>1, <1>2, TagNoJob, TagIdle DEF Tags!Init, TagLeases, TagReceipts, TagAsked
<1>5. QED
  BY <1>3, <1>4 DEF TagInv

\* The inductive invariant of tagging, by one case per action.
LEMMA TagInvHolds == Spec => []TagInv
<1>1. TagInv /\ [Tags!Next]_(Tags!vars) => TagInv'
  <2>1. ASSUME TagInv, Tags!Next PROVE TagInv'
    BY <2>1, TagTypesStep, TagLeasesStep, TagReceiptsStep, TagAskedStep DEF TagInv
  <2>2. ASSUME TagInv, UNCHANGED Tags!vars PROVE TagInv'
    BY <2>2 DEF TagInv, Tags!vars, TagTypes, Tags!TypeOK, TagLeases, TagReceipts, Tagged, TagAsked
  <2>3. QED
    BY <2>1, <2>2
<1>2. QED
  BY <1>1, TagInit, TagSpec, PTL DEF Tags!Spec

\* Tagging writes to the library only while no delivery does, and a tag that is
\* reported as applied is on the title, refreshes included.
THEOREM TagsAreRightHolds == Spec => []TagsAreRight
<1>1. TagInv => TagsAreRight
  BY DEF TagInv, TagLeases, TagReceipts, Tagged, TagsAreRight, Tags!AloneInLibrary, Tags!AppliedIsTagged
<1>2. QED
  BY <1>1, TagInvHolds, PTL

\* A cancelled tag job becomes active again only when its requester comes back.
THEOREM NoRevivalHolds == Spec => Tags!NoRevival
<1> DEFINE Revived(j) == tgJob[j].st = "cancelled" /\ tgJob'[j].st # "cancelled"
           Back(j) == tgAsks[j] = "left" /\ tgAsks'[j] = "yes"
<1>1. ASSUME TagInv, Tags!Next, NEW k \in Tag, Revived(k)
      PROVE  Back(k)
  <2>0. tgJob \in [Tag -> TagRow] /\ tgWorker \in TagWorker /\ tgAsks \in [Tag -> {"never", "yes", "left"}]
    BY <1>1, TagTypesNow DEF TagInv
  <2>1. ASSUME NEW j \in Tag, Tags!Ask(j) PROVE Back(k)
    BY <1>1, <2>0, <2>1 DEF Tags!Ask, TagInv, TagAsked
  <2>2. ASSUME NEW j \in Tag, Tags!Retry(j) PROVE FALSE
    BY <1>1, <2>0, <2>2 DEF Tags!Retry
  <2>3. ASSUME NEW j \in Tag, Tags!Claim(j) PROVE FALSE
    BY <1>1, <2>0, <2>3 DEF Tags!Claim, Tags!Runnable, Tags!Waiting
  <2>4. ASSUME NEW j \in Tag, Tags!BackoffEnds(j) \/ Tags!ExpireJob(j) PROVE FALSE
    BY <1>1, <2>0, <2>4 DEF Tags!BackoffEnds, Tags!ExpireJob, TagRow
  <2>5. CASE Tags!Toggle \/ Tags!CancelIneligible
    BY <1>1, <2>0, <2>5, TagCancelled DEF Tags!Toggle, Tags!CancelIneligible, TagInv
  <2>6. CASE Tags!Finish
    BY <1>1, <2>0, <2>6 DEF Tags!Finish, Tags!OwnsResult, TagWorker
  <2>7. CASE tgJob' = tgJob
    BY <1>1, <2>7
  <2>8. QED
    BY <1>1, <2>1, <2>2, <2>3, <2>4, <2>5, <2>6, <2>7
       DEF Tags!Next, Tags!Attempt, Tags!Withdraw, Tags!DeliveryTakes, Tags!DeliveryEnds, Tags!Fail, Tags!Read,
           Tags!Guard, Tags!Write, Tags!Stall, Tags!Crash, Tags!ExpireLock, Tags!RefreshBegins, Tags!RefreshEnds
<1>2. TagInv /\ [Tags!Next]_(Tags!vars) => [\A j \in Tag : Revived(j) => Back(j)]_(Tags!vars)
  BY <1>1
<1>3. QED
  BY <1>2, TagInvHolds, TagSpec, PTL DEF Tags!Spec, Tags!NoRevival

---------------------------------------------------------------------------
(* Seasons.                                                                *)

TVJob == [st : {"none", "queued", "processing", "retry", "attention", "complete"}, started : BOOLEAN]
TVAttempt == [req : Party \union {NoParty}, pc : {"idle", "read", "add", "monitor", "episodes", "search", "done"},
              left : SUBSET Season, cur : Season \union {0}]
Writing == {"monitor", "episodes", "search", "done"}

TVTypes ==
  /\ tvWant \in [Party -> [seasons : SUBSET Season, pilot : BOOLEAN]]
  /\ tvJob \in [Party -> TVJob] /\ tvPaid \in [Party -> SUBSET Season] /\ tvMatch \subseteq Party
  /\ tvPhase \in [Party -> {"pending", "adding", "awaiting_metadata", "complete"}]
  /\ tvSeries \in {"absent", "adding", "present"} /\ tvWatched \in BOOLEAN
  /\ tvFlag \subseteq Season /\ tvEps \subseteq Season /\ tvFiles \subseteq Season
  /\ tvPicked \subseteq Season /\ tvAsked \subseteq Season /\ tvWrote \in [Party -> SUBSET Season]
  /\ tvAttempt \in TVAttempt /\ tvFault \in 0 .. MaxFault
  /\ tvAttempt = TV!None \/ /\ tvAttempt.pc # "idle" /\ tvAttempt.req \in Party
                            /\ tvJob[tvAttempt.req].st = "processing"
                            /\ tvAttempt.pc = "search" => tvAttempt.cur \in Season

\* What the library has of a request.
Looked(r, n) == n \in tvFiles \/ (tvWatched /\ n \in tvEps /\ (tvWant[r].pilot \/ n \in tvFlag))

\* A series that is not there yet has nothing, and attempts know whether it is.
TVShelf ==
  /\ tvSeries # "present" => tvEps = {} /\ tvFiles = {}
  /\ tvSeries = "adding" /\ tvPicked # {} => tvWatched
  /\ tvAttempt.pc = "add" => tvSeries = "absent"
  /\ tvAttempt.pc \in Writing => tvSeries = "present"

\* What was written is paid, as is whatever may still be written.
TVPaid ==
  \A r \in Party :
    /\ tvWrote[r] \subseteq tvPaid[r] /\ tvPaid[r] \subseteq tvWant[r].seasons
    /\ tvWrote[r] # {} => tvJob[r].started
    /\ tvJob[r].st = "none" => tvWrote[r] = {}
    /\ tvJob[r].st # "none" => \A n \in tvWant[r].seasons : Looked(r, n) \/ n \in tvPaid[r]

\* What an attempt has left to do, and what it has done.
TVPlan ==
  LET r == tvAttempt.req
  IN /\ tvAttempt.pc \in Writing =>
          tvAttempt.left \subseteq tvPaid[r] /\ \A n \in tvPaid[r] \ tvAttempt.left : Looked(r, n)
     /\ tvAttempt.pc \in {"episodes", "search", "done"} =>
          tvWatched /\ (tvWant[r].pilot \/ tvAttempt.left \subseteq tvFlag)
     /\ tvAttempt.pc = "done" => tvAttempt.left = {}

TVDelivered ==
  \A r \in Party : tvJob[r].st = "complete" =>
    \A n \in tvPaid[r] : Looked(r, n) \/ (tvSeries = "adding" /\ n \in tvPicked)

TVInv == TVTypes /\ TVShelf /\ TVPaid /\ TVPlan /\ TVDelivered

\* No attempt.
LEMMA TVNothing == TV!None = [req |-> NoParty, pc |-> "idle", left |-> {}, cur |-> 0] /\ TV!None \in TVAttempt
BY DEF TV!None, TVAttempt

\* A job changes its state, and is never marked less.
JobTo(r, S) ==
  /\ tvJob' \in [Party -> TVJob] /\ \A q \in Party : q # r => tvJob'[q] = tvJob[q]
  /\ tvJob'[r].st \in S /\ (tvJob[r].started => tvJob'[r].started)
Marked(r) == tvJob'[r].started

\* A job whose status changes, alone.
LEMMA JobSet ==
  ASSUME TVTypes, NEW r \in Party, NEW st \in {"none", "queued", "processing", "retry", "attention", "complete"},
         tvJob' = [tvJob EXCEPT ![r].st = st]
  PROVE  JobTo(r, {st}) /\ tvJob'[r].started = tvJob[r].started
<1> DEFINE n == [tvJob[r] EXCEPT !.st = st]
<1>1. tvJob \in [Party -> TVJob] /\ tvJob[r] \in TVJob
  BY DEF TVTypes
<1>2. n \in TVJob /\ n.st = st /\ n.started = tvJob[r].started
  BY <1>1 DEF TVJob
<1>3. tvJob' = [tvJob EXCEPT ![r] = n]
  OBVIOUS
<1> HIDE DEF n
<1>4. QED
  BY <1>1, <1>2, <1>3 DEF JobTo

\* Marking the start of a request changes nothing else.
LEMMA JobMark ==
  ASSUME TVTypes, NEW r \in Party, tvJob' = TV!Marked(r)
  PROVE  JobTo(r, {tvJob[r].st}) /\ Marked(r)
<1> DEFINE n == [tvJob[r] EXCEPT !.started = TRUE]
<1>1. tvJob \in [Party -> TVJob] /\ tvJob[r] \in TVJob
  BY DEF TVTypes
<1>2. n \in TVJob /\ n.st = tvJob[r].st /\ n.started = TRUE
  BY <1>1 DEF TVJob
<1>3. tvJob' = [tvJob EXCEPT ![r] = n]
  BY DEF TV!Marked
<1> HIDE DEF n
<1>4. QED
  BY <1>1, <1>2, <1>3 DEF JobTo, Marked

\* A job that is marked and ends, alone.
LEMMA JobMarkSet ==
  ASSUME TVTypes, NEW r \in Party, NEW st \in {"none", "queued", "processing", "retry", "attention", "complete"},
         tvJob' = [TV!Marked(r) EXCEPT ![r].st = st]
  PROVE  JobTo(r, {st}) /\ Marked(r)
<1> DEFINE n == [tvJob[r] EXCEPT !.started = TRUE]
           m == [n EXCEPT !.st = st]
           J == TV!Marked(r)
<1>1. tvJob \in [Party -> TVJob] /\ tvJob[r] \in TVJob
  BY DEF TVTypes
<1>2. n \in TVJob
  BY <1>1 DEF TVJob
<1>3. n.started = TRUE
  BY <1>1 DEF TVJob
<1>4. J = [tvJob EXCEPT ![r] = n]
  BY DEF TV!Marked
<1> HIDE DEF n
<1>5. m \in TVJob /\ m.st = st /\ m.started = TRUE
  BY <1>2, <1>3 DEF TVJob
<1>6. J \in [Party -> TVJob] /\ J[r] = n /\ \A q \in Party : q # r => J[q] = tvJob[q]
  BY <1>1, <1>2, <1>4
<1>7. tvJob' = [J EXCEPT ![r] = [J[r] EXCEPT !.st = st]]
  OBVIOUS
<1> HIDE DEF J, m
<1>8. tvJob' = [J EXCEPT ![r] = m]
  BY <1>6, <1>7 DEF m
<1>9. QED
  BY <1>1, <1>5, <1>6, <1>8 DEF JobTo, Marked

\* Every kind of step, by what it does.
TVShelved == UNCHANGED <<tvSeries, tvWatched, tvFlag, tvEps, tvFiles, tvPicked, tvWrote>>
TVRest ==
  /\ tvMatch' \subseteq Party /\ tvAsked' \subseteq Season /\ tvFault' \in 0 .. MaxFault
  /\ tvPhase' \in [Party -> {"pending", "adding", "awaiting_metadata", "complete"}]
\* The attempt under way is there.
TVAt(pc, left) ==
  /\ tvAttempt' \in TVAttempt /\ tvAttempt'.req = tvAttempt.req
  /\ tvAttempt'.pc = pc /\ tvAttempt'.left = left /\ (pc = "search" => tvAttempt'.cur \in Season)
TVAccepts(r) ==
  /\ TVShelved /\ UNCHANGED tvAttempt
  /\ tvJob[r].st = "none" /\ JobTo(r, {"complete", "queued"})
  /\ tvWant' \in [Party -> [seasons : SUBSET Season, pilot : BOOLEAN]] /\ tvPaid' \in [Party -> SUBSET Season]
  /\ \A q \in Party : q # r => tvWant'[q] = tvWant[q] /\ tvPaid'[q] = tvPaid[q]
  /\ tvPaid'[r] \subseteq tvWant'[r].seasons
  /\ \A n \in tvWant'[r].seasons : n \in tvPaid'[r] \/ Looked(r, n)'
  /\ tvJob'[r].st = "complete" => tvPaid'[r] = {}
TVClaims(r) ==
  /\ TVShelved /\ UNCHANGED <<tvWant, tvPaid>> /\ tvAttempt = TV!None
  /\ tvJob[r].st # "none" /\ JobTo(r, {"processing"})
  /\ tvAttempt' = [req |-> r, pc |-> "read", left |-> {}, cur |-> 0]
TVEnds ==
  /\ TVShelved /\ UNCHANGED <<tvWant, tvPaid>> /\ tvAttempt' = TV!None
  /\ \/ UNCHANGED tvJob
     \/ tvAttempt.pc # "idle" /\ JobTo(tvAttempt.req, {"retry", "attention"})
TVBegins ==
  /\ TVShelved /\ UNCHANGED <<tvWant, tvPaid, tvJob>> /\ tvAttempt.pc = "read" /\ tvSeries = "absent"
  /\ TVAt("add", tvWant[tvAttempt.req].seasons)
TVRefunds ==
  LET r == tvAttempt.req
  IN /\ TVShelved /\ UNCHANGED tvWant /\ tvAttempt.pc = "read" /\ tvSeries = "present"
     /\ tvPaid' \in [Party -> SUBSET Season] /\ \A q \in Party : q # r => tvPaid'[q] = tvPaid[q]
     /\ tvPaid'[r] \subseteq tvPaid[r] /\ (tvJob[r].started => tvPaid'[r] = tvPaid[r])
     /\ \A n \in tvPaid[r] : n \in tvPaid'[r] \/ Looked(r, n)
     /\ \/ /\ \A n \in tvPaid[r] : Looked(r, n)
           /\ JobTo(r, {"complete"}) /\ tvAttempt' = TV!None
        \/ \E left \in SUBSET tvPaid'[r], pc \in {"episodes", "monitor"} :
             /\ UNCHANGED tvJob /\ TVAt(pc, left)
             /\ \A n \in tvPaid[r] \ left : Looked(r, n)
             /\ pc = "episodes" => tvWatched /\ tvWant[r].pilot
TVAdds ==
  LET r == tvAttempt.req
      sel == IF tvWant[r].pilot THEN {} ELSE tvWant[r].seasons
  IN /\ UNCHANGED <<tvWant, tvPaid, tvFiles>> /\ tvAttempt.pc = "add" /\ tvAttempt' = TV!None
     /\ tvSeries' = "adding" /\ tvPicked' = sel /\ tvWatched' = ~tvWant[r].pilot
     /\ tvFlag' = sel /\ tvEps' = {} /\ tvWrote' = [tvWrote EXCEPT ![r] = @ \union sel]
     /\ JobTo(r, {"retry", "complete"}) /\ Marked(r)
     /\ tvJob'[r].st = "complete" => ~tvWant[r].pilot
\* A write goes on with its attempt, or is lost.
TVGoesOn(pc, left) ==
  /\ Marked(tvAttempt.req)
  /\ \/ JobTo(tvAttempt.req, {"processing"}) /\ TVAt(pc, left)
     \/ JobTo(tvAttempt.req, {"retry"}) /\ tvAttempt' = TV!None
TVMonitors ==
  LET r == tvAttempt.req
      new == IF tvWant[r].pilot THEN {} ELSE tvAttempt.left
  IN /\ UNCHANGED <<tvWant, tvPaid, tvFiles, tvSeries, tvPicked>> /\ tvAttempt.pc = "monitor"
     /\ tvWatched' = TRUE /\ tvFlag' = tvFlag \union new /\ tvEps \subseteq tvEps' /\ tvEps' \subseteq tvEps \union new
     /\ tvWrote' = [tvWrote EXCEPT ![r] = @ \union new]
     /\ TVGoesOn("episodes", tvAttempt.left)
TVEpisode(n) ==
  /\ UNCHANGED <<tvWant, tvPaid, tvFiles, tvSeries, tvWatched, tvFlag, tvPicked>> /\ tvAttempt.pc = "episodes"
  /\ n \in tvAttempt.left /\ tvEps' = tvEps \union {n}
  /\ tvWrote' = [tvWrote EXCEPT ![tvAttempt.req] = @ \union {n}]
  /\ TVGoesOn("search", tvAttempt.left \ {n})
TVAsks ==
  /\ TVShelved /\ UNCHANGED <<tvWant, tvPaid>> /\ tvAttempt.pc = "search"
  /\ TVGoesOn(IF tvAttempt.left = {} THEN "done" ELSE "episodes", tvAttempt.left)
TVCompletes ==
  /\ TVShelved /\ UNCHANGED <<tvWant, tvPaid>> /\ tvAttempt.pc = "done" /\ tvAttempt' = TV!None
  /\ JobTo(tvAttempt.req, {"complete"})
TVRefreshes ==
  /\ UNCHANGED <<tvWant, tvPaid, tvJob, tvFiles, tvWatched, tvWrote, tvAttempt>>
  /\ tvSeries = "adding" /\ tvSeries' = "present" /\ tvFlag' = tvPicked /\ tvEps' = tvPicked /\ tvPicked' = {}
TVLoads(n) ==
  /\ UNCHANGED <<tvWant, tvPaid, tvJob, tvSeries, tvWatched, tvFlag, tvEps, tvPicked, tvWrote, tvAttempt>>
  /\ tvSeries = "present" /\ tvFiles' = tvFiles \union {n}
TVStays == TVShelved /\ UNCHANGED <<tvWant, tvPaid, tvJob, tvAttempt>>

TVStep ==
  /\ TVRest
  /\ \/ TVEnds \/ TVBegins \/ TVRefunds \/ TVAdds \/ TVMonitors \/ TVAsks \/ TVCompletes \/ TVRefreshes \/ TVStays
     \/ \E r \in Party : TVAccepts(r) \/ TVClaims(r)
     \/ \E n \in Season : TVEpisode(n) \/ TVLoads(n)

\* An attempt under way is of one request.
LEMMA TVUnderWay ==
  ASSUME TVTypes, tvAttempt.pc # "idle"
  PROVE  /\ tvAttempt.req \in Party /\ tvAttempt.left \subseteq Season /\ tvAttempt \in TVAttempt
         /\ tvJob[tvAttempt.req].st = "processing" /\ tvWant[tvAttempt.req].seasons \subseteq Season
         /\ tvAttempt.cur \in Season \union {0} /\ (tvAttempt.pc = "search" => tvAttempt.cur \in Season)
<1>1. tvAttempt # TV!None
  BY TVNothing
<1>2. QED
  BY <1>1 DEF TVTypes, TVAttempt

\* An attempt that goes on is of the same request.
LEMMA AttemptAt ==
  ASSUME TVTypes, NEW pc \in {"add", "monitor", "episodes", "done"}, NEW left \in SUBSET Season,
         tvAttempt' = [tvAttempt EXCEPT !.pc = pc, !.left = left]
  PROVE  TVAt(pc, left)
BY DEF TVTypes, TVAttempt, TVAt

\* Failures stay within their bound.
LEMMA TVFaults ==
  ASSUME TVTypes, UNCHANGED tvFault \/ TV!Lost PROVE tvFault' \in 0 .. MaxFault
BY PartyAssumption DEF TVTypes, TV!Lost

\* What a request would have for nothing, season by season.
LEMMA FreeIsLooked ==
  ASSUME NEW r \in Party PROVE TV!Free(tvWant[r].seasons, r \in TV!Pilot) = {n \in tvWant[r].seasons : Looked(r, n)}
BY DEF TV!Free, TV!Pilot, Looked

\* A request is saved with what it pays for.
LEMMA AcceptEffect == ASSUME TVTypes, NEW r \in Party, TV!Save(r) PROVE TVAccepts(r) /\ TVRest
<1>1. PICK S \in SUBSET Season, p \in BOOLEAN :
        /\ tvWant' = [tvWant EXCEPT ![r] = [seasons |-> S, pilot |-> p]]
        /\ tvJob' = [tvJob EXCEPT ![r].st = IF TV!Free(S, p) = S THEN "complete" ELSE "queued"]
        /\ tvPaid' = [tvPaid EXCEPT ![r] = S \ TV!Free(S, p)]
  BY DEF TV!Save
<1> DEFINE st == IF TV!Free(S, p) = S THEN "complete" ELSE "queued"
<1>2. JobTo(r, {st})
  BY <1>1, JobSet
<1>3. /\ tvWant' \in [Party -> [seasons : SUBSET Season, pilot : BOOLEAN]] /\ tvPaid' \in [Party -> SUBSET Season]
      /\ \A q \in Party : q # r => tvWant'[q] = tvWant[q] /\ tvPaid'[q] = tvPaid[q]
      /\ tvPaid'[r] = S \ TV!Free(S, p) /\ tvWant'[r] = [seasons |-> S, pilot |-> p]
  BY <1>1 DEF TVTypes
<1>4. TVShelved /\ UNCHANGED tvAttempt /\ tvJob[r].st = "none" /\ UNCHANGED <<tvMatch, tvPhase, tvAsked, tvFault>>
  BY DEF TV!Save, TV!library, TVShelved
<1>5. tvJob'[r].st = st /\ JobTo(r, {"complete", "queued"})
  BY <1>2 DEF JobTo
<1>6. \A n \in S : n \in tvPaid'[r] \/ Looked(r, n)'
  BY <1>3, <1>4 DEF TV!Free, Looked, TVShelved
<1>7. QED
  BY <1>3, <1>4, <1>5, <1>6 DEF TVAccepts, TVRest, TVTypes

\* A request's attempt begins.
LEMMA TVClaimEffect == ASSUME TVTypes, NEW r \in Party, TV!Claim(r) PROVE TVClaims(r) /\ TVRest
<1>1. /\ TVShelved /\ UNCHANGED <<tvWant, tvPaid, tvMatch, tvPhase, tvAsked, tvFault>> /\ tvAttempt = TV!None
      /\ tvJob[r].st # "none" /\ tvJob' = [tvJob EXCEPT ![r].st = "processing"]
      /\ tvAttempt' = [TV!None EXCEPT !.req = r, !.pc = "read"]
  BY DEF TV!Claim, TV!Claimable, TV!library, TVShelved
<1>2. JobTo(r, {"processing"})
  BY <1>1, JobSet
<1>3. tvAttempt' = [req |-> r, pc |-> "read", left |-> {}, cur |-> 0]
  BY <1>1, TVNothing
<1>4. QED
  BY <1>1, <1>2, <1>3 DEF TVClaims, TVRest, TVTypes

\* An attempt ends and leaves the shelf alone.
LEMMA EndEffect == ASSUME TVTypes, TV!Stale \/ TV!Refuse \/ TV!Crash PROVE TVEnds /\ TVRest
<1>1. TVShelved /\ UNCHANGED <<tvWant, tvPaid, tvMatch, tvPhase, tvAsked>> /\ tvAttempt' = TV!None
  BY DEF TV!Stale, TV!Refuse, TV!Crash, TV!Finish, TV!library, TV!rows, TVShelved
<1>2. TVRest
  <2>1. UNCHANGED tvFault \/ TV!Lost
    BY DEF TV!Stale, TV!Refuse, TV!Crash
  <2>2. QED
    BY <1>1, <2>1, TVFaults DEF TVRest, TVTypes
<1>3. CASE TV!Crash
  BY <1>1, <1>2, <1>3 DEF TV!Crash, TV!rows, TVEnds
<1>4. CASE TV!Stale
  <2>1. tvAttempt.pc # "idle" /\ tvJob' = [tvJob EXCEPT ![tvAttempt.req].st = "attention"]
    BY <1>4 DEF TV!Stale, TV!At, TV!Finish
  <2>2. JobTo(tvAttempt.req, {"attention"})
    BY <2>1, TVUnderWay, JobSet
  <2>3. QED
    BY <1>1, <1>2, <2>1, <2>2 DEF TVEnds, JobTo
<1>5. CASE TV!Refuse
  <2>1. tvAttempt.pc # "idle"
    BY <1>5 DEF TV!Refuse, TVTypes
  <2>2. PICK j \in {tvJob, TV!Marked(tvAttempt.req)}, st \in {"retry", "attention"} :
          tvJob' = [j EXCEPT ![tvAttempt.req].st = st]
    BY <1>5 DEF TV!Refuse
  <2>3. JobTo(tvAttempt.req, {st})
    BY <2>1, <2>2, TVUnderWay, JobSet, JobMarkSet
  <2>4. QED
    BY <1>1, <1>2, <2>1, <2>3 DEF TVEnds, JobTo
<1>6. QED
  BY <1>3, <1>4, <1>5

\* The series is read: the request goes on, ends or is refunded.
LEMMA ReadEffect == ASSUME TVTypes, TVPaid, TV!Read PROVE (TVBegins \/ TVEnds \/ TVRefunds) /\ TVRest
<1> DEFINE r == tvAttempt.req
           free == TV!Free(tvWant[r].seasons, r \in TV!Pilot)
<1>1. /\ TVShelved /\ UNCHANGED <<tvWant, tvMatch, tvAsked, tvFault>> /\ tvAttempt.pc = "read"
  BY DEF TV!Read, TV!At, TV!library, TVShelved
<1>2. r \in Party /\ tvAttempt \in TVAttempt
  BY <1>1, TVUnderWay
<1>3. free = {n \in tvWant[r].seasons : Looked(r, n)}
  BY <1>2, FreeIsLooked
<1>4. \/ /\ tvSeries = "absent" /\ tvAttempt' = [tvAttempt EXCEPT !.pc = "add", !.left = tvWant[r].seasons]
         /\ tvPhase' = [tvPhase EXCEPT ![r] = "adding"] /\ UNCHANGED <<tvJob, tvPaid>>
      \/ /\ tvJob' = [tvJob EXCEPT ![r].st = "retry"] /\ tvAttempt' = TV!None /\ UNCHANGED <<tvPaid, tvPhase>>
      \/ /\ tvSeries # "absent" /\ tvSeries # "adding" /\ UNCHANGED tvPhase
         /\ tvPaid' = (IF tvJob[r].started THEN tvPaid ELSE [tvPaid EXCEPT ![r] = @ \ free])
         /\ IF free = tvWant[r].seasons
            THEN tvJob' = [tvJob EXCEPT ![r].st = "complete"] /\ tvAttempt' = TV!None
            ELSE /\ tvAttempt' = [tvAttempt EXCEPT !.pc = IF r \in TV!Pilot /\ tvWatched THEN "episodes" ELSE "monitor",
                                                   !.left = tvWant[r].seasons \ free]
                 /\ UNCHANGED tvJob
  BY DEF TV!Read, TV!Chosen, TV!GoOn, TV!Finish, TV!AddPending, TV!Refunded
<1> HIDE DEF free
<1>5. TVRest
  BY <1>1, <1>2, <1>4 DEF TVRest, TVTypes
<1>6. CASE tvSeries = "absent" /\ tvAttempt' = [tvAttempt EXCEPT !.pc = "add", !.left = tvWant[r].seasons] /\ UNCHANGED <<tvJob, tvPaid>>
  <2>1. TVAt("add", tvWant[r].seasons)
    BY <1>1, <1>6, TVUnderWay, AttemptAt
  <2>2. QED
    BY <1>1, <1>5, <1>6, <2>1 DEF TVBegins
<1>7. CASE tvJob' = [tvJob EXCEPT ![r].st = "retry"] /\ tvAttempt' = TV!None /\ UNCHANGED tvPaid
  <2>1. JobTo(r, {"retry"})
    BY <1>2, <1>7, JobSet
  <2>2. QED
    BY <1>1, <1>5, <1>7, <2>1 DEF TVEnds, JobTo
<1>8. CASE /\ tvSeries # "absent" /\ tvSeries # "adding"
           /\ tvPaid' = (IF tvJob[r].started THEN tvPaid ELSE [tvPaid EXCEPT ![r] = @ \ free])
           /\ IF free = tvWant[r].seasons
              THEN tvJob' = [tvJob EXCEPT ![r].st = "complete"] /\ tvAttempt' = TV!None
              ELSE /\ tvAttempt' = [tvAttempt EXCEPT !.pc = IF r \in TV!Pilot /\ tvWatched THEN "episodes" ELSE "monitor",
                                                     !.left = tvWant[r].seasons \ free]
                   /\ UNCHANGED tvJob
  <2>1. tvSeries = "present"
    BY <1>8 DEF TVTypes
  <2>2. /\ tvPaid \in [Party -> SUBSET Season] /\ tvPaid[r] \subseteq tvWant[r].seasons
        /\ \A n \in tvWant[r].seasons : Looked(r, n) \/ n \in tvPaid[r]
    BY <1>1, <1>2, TVUnderWay DEF TVTypes, TVPaid
  <2>3. /\ tvPaid' \in [Party -> SUBSET Season] /\ \A q \in Party : q # r => tvPaid'[q] = tvPaid[q]
        /\ tvPaid'[r] = (IF tvJob[r].started THEN tvPaid[r] ELSE tvPaid[r] \ free)
    BY <1>2, <1>8, <2>2
  <2>4. /\ tvPaid'[r] \subseteq tvPaid[r] /\ (tvJob[r].started => tvPaid'[r] = tvPaid[r])
        /\ \A n \in tvPaid[r] : n \in tvPaid'[r] \/ Looked(r, n)
    BY <1>3, <2>3
  <2>5. CASE free = tvWant[r].seasons
    <3>1. JobTo(r, {"complete"})
      BY <1>2, <1>8, <2>5, JobSet
    <3>2. \A n \in tvPaid[r] : Looked(r, n)
      BY <1>3, <2>2, <2>5
    <3>3. QED
      BY <1>1, <1>5, <1>8, <2>1, <2>3, <2>4, <2>5, <3>1, <3>2 DEF TVRefunds
  <2>6. CASE free # tvWant[r].seasons
    <3> DEFINE left == tvWant[r].seasons \ free
               pc == IF r \in TV!Pilot /\ tvWatched THEN "episodes" ELSE "monitor"
    <3>1. left \in SUBSET tvPaid'[r] /\ \A n \in tvPaid[r] \ left : Looked(r, n)
      BY <1>3, <2>2, <2>3
    <3>2. pc \in {"episodes", "monitor"} /\ (pc = "episodes" => tvWatched /\ tvWant[r].pilot)
      BY DEF TV!Pilot
    <3>3. UNCHANGED tvJob /\ tvAttempt' = [tvAttempt EXCEPT !.pc = pc, !.left = left]
      BY <1>8, <2>6
    <3> HIDE DEF left, pc
    <3>4. left \in SUBSET Season
      BY <1>2, <2>3, <3>1
    <3>5. TVAt(pc, left)
      BY <3>2, <3>3, <3>4, AttemptAt
    <3>6. QED
      BY <1>1, <1>5, <2>1, <2>3, <2>4, <3>1, <3>2, <3>3, <3>5 DEF TVRefunds
  <2>7. QED
    BY <2>5, <2>6
<1>9. QED
  BY <1>4, <1>5, <1>6, <1>7, <1>8

\* The series is added with what the request wants.
LEMMA AddEffect == ASSUME TVTypes, TV!Add PROVE TVAdds /\ TVRest
<1> DEFINE r == tvAttempt.req
<1>1. tvAttempt.pc = "add" /\ r \in Party /\ tvWant[r].seasons \subseteq Season
  BY TVUnderWay DEF TV!Add, TV!At
<1>2. r \in TV!Pilot <=> tvWant[r].pilot
  BY <1>1 DEF TV!Pilot
<1> DEFINE sel == IF tvWant[r].pilot THEN {} ELSE tvWant[r].seasons
<1>3. /\ UNCHANGED <<tvWant, tvPaid, tvFiles, tvMatch, tvAsked>>
      /\ tvSeries' = "adding" /\ tvPicked' = sel /\ tvWatched' = (r \notin TV!Pilot)
      /\ tvFlag' = sel /\ tvEps' = {} /\ tvWrote' = [tvWrote EXCEPT ![r] = @ \union sel]
  BY <1>2 DEF TV!Add, TV!Chosen
<1>4. tvAttempt' = TV!None
  BY DEF TV!Add, TV!Retry
<1>5. JobTo(r, {"retry", "complete"}) /\ Marked(r) /\ (tvJob'[r].st = "complete" => ~tvWant[r].pilot)
  <2>1. \/ tvJob' = [TV!Marked(r) EXCEPT ![r].st = IF r \in TV!Pilot THEN "retry" ELSE "complete"]
        \/ tvJob' = [TV!Marked(r) EXCEPT ![r].st = "retry"]
    BY DEF TV!Add, TV!Retry
  <2>2. CASE tvJob' = [TV!Marked(r) EXCEPT ![r].st = "retry"]
    BY <1>1, <2>2, JobMarkSet DEF JobTo
  <2>3. CASE tvJob' = [TV!Marked(r) EXCEPT ![r].st = IF r \in TV!Pilot THEN "retry" ELSE "complete"]
    <3>1. CASE r \in TV!Pilot
      BY <1>1, <2>2, <2>3, <3>1
    <3>2. CASE r \notin TV!Pilot
      <4>1. tvJob' = [TV!Marked(r) EXCEPT ![r].st = "complete"]
        BY <2>3, <3>2
      <4>2. QED
        BY <1>1, <1>2, <3>2, <4>1, JobMarkSet DEF JobTo
    <3>3. QED
      BY <3>1, <3>2
  <2>4. QED
    BY <2>1, <2>2, <2>3
<1>6. TVRest
  <2>1. \/ UNCHANGED tvFault /\ tvPhase' = [tvPhase EXCEPT ![r] = IF r \in TV!Pilot THEN "awaiting_metadata" ELSE "complete"]
        \/ TV!Lost /\ UNCHANGED tvPhase
    BY DEF TV!Add
  <2>2. tvPhase' \in [Party -> {"pending", "adding", "awaiting_metadata", "complete"}]
    BY <1>1, <2>1 DEF TVTypes
  <2>3. QED
    BY <1>3, <2>1, <2>2, TVFaults DEF TVRest, TVTypes
<1>7. tvWatched' = ~tvWant[r].pilot
  BY <1>2, <1>3
<1>8. QED
  BY <1>1, <1>3, <1>4, <1>5, <1>6, <1>7 DEF TVAdds

\* After a write the attempt goes on, or is retried.
LEMMA GoOnEffect ==
  ASSUME TVTypes, tvAttempt.pc # "idle", NEW pc, NEW left,
         (tvJob' = TV!Marked(tvAttempt.req) /\ TVAt(pc, left)) \/ TV!Retry(TV!Marked(tvAttempt.req))
  PROVE  TVGoesOn(pc, left)
<1>1. tvAttempt.req \in Party /\ tvJob[tvAttempt.req].st = "processing"
  BY TVUnderWay
<1>2. CASE tvJob' = TV!Marked(tvAttempt.req) /\ TVAt(pc, left)
  BY <1>1, <1>2, JobMark DEF TVGoesOn
<1>3. CASE TV!Retry(TV!Marked(tvAttempt.req))
  BY <1>1, <1>3, JobMarkSet DEF TV!Retry, TVGoesOn
<1>4. QED
  BY <1>2, <1>3

\* The seasons of the request are monitored.
LEMMA MonitorEffect == ASSUME TVTypes, TV!Monitor PROVE TVMonitors /\ TVRest
<1> DEFINE r == tvAttempt.req
           new == IF tvWant[r].pilot THEN {} ELSE tvAttempt.left
<1>1. tvAttempt.pc = "monitor" /\ r \in Party /\ tvAttempt \in TVAttempt
  BY TVUnderWay DEF TV!Monitor, TV!At
<1>2. r \in TV!Pilot <=> tvWant[r].pilot
  BY <1>1 DEF TV!Pilot
<1>3. /\ UNCHANGED <<tvWant, tvPaid, tvFiles, tvSeries, tvPicked, tvMatch, tvPhase, tvAsked>>
      /\ tvWatched' = TRUE /\ tvFlag' = tvFlag \union new
      /\ tvWrote' = [tvWrote EXCEPT ![r] = @ \union new]
  BY <1>2 DEF TV!Monitor
<1>4. tvEps \subseteq tvEps' /\ tvEps' \subseteq tvEps \union new
  BY <1>2 DEF TV!Monitor
<1>5. TVGoesOn("episodes", tvAttempt.left)
  <2>1. \/ tvAttempt' = [tvAttempt EXCEPT !.pc = "episodes", !.left = tvAttempt.left] /\ tvJob' = TV!Marked(r)
        \/ TV!Retry(TV!Marked(r))
    BY DEF TV!Monitor, TV!GoOn
  <2>2. (tvJob' = TV!Marked(r) /\ TVAt("episodes", tvAttempt.left)) \/ TV!Retry(TV!Marked(r))
    BY <1>1, <2>1, TVUnderWay, AttemptAt
  <2>3. QED
    BY <1>1, <2>2, GoOnEffect
<1>6. TVRest
  <2>1. UNCHANGED tvFault \/ TV!Lost
    BY DEF TV!Monitor
  <2>2. QED
    BY <1>3, <2>1, TVFaults DEF TVRest, TVTypes
<1>7. QED
  BY <1>1, <1>3, <1>4, <1>5, <1>6 DEF TVMonitors

\* The episodes of one season are monitored.
LEMMA EpisodeEffect == ASSUME TVTypes, NEW n \in Season, TV!Episodes(n) PROVE TVEpisode(n) /\ TVRest
<1> DEFINE r == tvAttempt.req
<1>1. tvAttempt.pc = "episodes" /\ r \in Party /\ tvAttempt \in TVAttempt
  BY TVUnderWay DEF TV!Episodes, TV!At
<1>2. /\ UNCHANGED <<tvWant, tvPaid, tvFiles, tvSeries, tvWatched, tvFlag, tvPicked, tvMatch, tvPhase, tvAsked>>
      /\ n \in tvAttempt.left /\ tvEps' = tvEps \union {n} /\ tvWrote' = [tvWrote EXCEPT ![r] = @ \union {n}]
  BY DEF TV!Episodes
<1>3. TVGoesOn("search", tvAttempt.left \ {n})
  <2>1. \/ tvAttempt' = [tvAttempt EXCEPT !.pc = "search", !.left = @ \ {n}, !.cur = n] /\ tvJob' = TV!Marked(r)
        \/ TV!Retry(TV!Marked(r))
    BY DEF TV!Episodes
  <2>2. (tvJob' = TV!Marked(r) /\ TVAt("search", tvAttempt.left \ {n})) \/ TV!Retry(TV!Marked(r))
    BY <1>1, <2>1 DEF TVAttempt, TVAt
  <2>3. QED
    BY <1>1, <2>2, GoOnEffect
<1>4. TVRest
  <2>1. UNCHANGED tvFault \/ TV!Lost
    BY DEF TV!Episodes
  <2>2. QED
    BY <1>2, <2>1, TVFaults DEF TVRest, TVTypes
<1>5. QED
  BY <1>1, <1>2, <1>3, <1>4 DEF TVEpisode

\* A search is asked for.
LEMMA SearchEffect == ASSUME TVTypes, TV!Search PROVE TVAsks /\ TVRest
<1> DEFINE r == tvAttempt.req
           pc == IF tvAttempt.left = {} THEN "done" ELSE "episodes"
<1>1. tvAttempt.pc = "search" /\ r \in Party /\ tvAttempt \in TVAttempt
  BY TVUnderWay DEF TV!Search, TV!At
<1>2. TVShelved /\ UNCHANGED <<tvWant, tvPaid, tvMatch, tvPhase>> /\ tvAsked' = tvAsked \union {tvAttempt.cur}
  BY DEF TV!Search, TVShelved
<1>3. TVGoesOn(pc, tvAttempt.left)
  <2>1. \/ tvAttempt' = [tvAttempt EXCEPT !.pc = pc, !.left = tvAttempt.left] /\ tvJob' = TV!Marked(r)
        \/ TV!Retry(TV!Marked(r))
    BY DEF TV!Search, TV!GoOn
  <2>2. pc \in {"done", "episodes"} /\ tvAttempt.left \in SUBSET Season
    BY <1>1, TVUnderWay
  <2> HIDE DEF pc
  <2>3. (tvJob' = TV!Marked(r) /\ TVAt(pc, tvAttempt.left)) \/ TV!Retry(TV!Marked(r))
    BY <2>1, <2>2, AttemptAt
  <2>4. QED
    BY <1>1, <2>3, GoOnEffect
<1>4. TVRest
  <2>1. UNCHANGED tvFault \/ TV!Lost
    BY DEF TV!Search
  <2>2. QED
    BY <1>1, <1>2, <2>1, TVUnderWay, TVFaults DEF TVRest, TVTypes
<1>5. QED
  BY <1>1, <1>2, <1>3, <1>4 DEF TVAsks

\* Every action of the delivery has one of these effects.
LEMMA TVSteps == ASSUME TVTypes, TVPaid, TV!Next PROVE TVStep
<1>1. ASSUME NEW r \in Party, TV!Save(r) \/ TV!Correct(r) \/ TV!Claim(r) PROVE TVStep
  <2>1. CASE TV!Save(r)
    BY <2>1, AcceptEffect DEF TVStep
  <2>2. CASE TV!Claim(r)
    BY <2>2, TVClaimEffect DEF TVStep
  <2>3. CASE TV!Correct(r)
    <3>1. TVStays /\ UNCHANGED <<tvPhase, tvAsked, tvFault>> /\ tvMatch' = tvMatch \ {r}
      BY <2>3 DEF TV!Correct, TV!rows, TV!library, TVStays, TVShelved
    <3>2. TVRest
      BY <3>1 DEF TVRest, TVTypes
    <3>3. QED
      BY <3>1, <3>2 DEF TVStep
  <2>4. QED
    BY <1>1, <2>1, <2>2, <2>3
<1>2. CASE TV!Done
  <2>1. /\ TVShelved /\ UNCHANGED <<tvWant, tvPaid, tvMatch, tvAsked, tvFault>> /\ tvAttempt.pc = "done" /\ tvAttempt' = TV!None
        /\ tvJob' = [tvJob EXCEPT ![tvAttempt.req].st = "complete"] /\ tvPhase' = [tvPhase EXCEPT ![tvAttempt.req] = "complete"]
    BY <1>2 DEF TV!Done, TV!At, TV!Finish, TV!library, TVShelved
  <2>2. JobTo(tvAttempt.req, {"complete"})
    BY <2>1, TVUnderWay, JobSet
  <2>3. TVRest
    BY <2>1 DEF TVRest, TVTypes
  <2>4. QED
    BY <2>1, <2>2, <2>3 DEF TVCompletes, TVStep
<1>3. CASE TV!Refreshed
  <2>1. TVRefreshes /\ UNCHANGED <<tvMatch, tvPhase, tvFault>> /\ tvAsked' = tvAsked \union tvPicked
    BY <1>3 DEF TV!Refreshed, TV!rows, TVRefreshes
  <2>2. TVRest
    BY <2>1 DEF TVRest, TVTypes
  <2>3. QED
    BY <2>1, <2>2 DEF TVStep
<1>4. ASSUME NEW n \in Season, TV!Download(n) PROVE TVStep
  <2>1. TVLoads(n) /\ UNCHANGED <<tvMatch, tvPhase, tvAsked, tvFault>>
    BY <1>4 DEF TV!Download, TV!rows, TV!library, TVLoads
  <2>2. TVRest
    BY <2>1 DEF TVRest, TVTypes
  <2>3. QED
    BY <2>1, <2>2 DEF TVStep
<1>5. CASE TV!Stale \/ TV!Refuse \/ TV!Crash
  BY <1>5, EndEffect DEF TVStep
<1>6. CASE TV!Read
  BY <1>6, ReadEffect DEF TVStep
<1>7. CASE TV!Add
  BY <1>7, AddEffect DEF TVStep
<1>8. CASE TV!Monitor
  BY <1>8, MonitorEffect DEF TVStep
<1>9. ASSUME NEW n \in Season, TV!Episodes(n) PROVE TVStep
  BY <1>9, EpisodeEffect DEF TVStep
<1>10. CASE TV!Search
  BY <1>10, SearchEffect DEF TVStep
<1>11. QED
  BY <1>1, <1>2, <1>3, <1>4, <1>5, <1>6, <1>7, <1>8, <1>9, <1>10 DEF TV!Next, TV!Attempt

\* The parts of the invariant, over every kind of step.
LEMMA TVTypesKept == ASSUME TVTypes, TVStep PROVE TVTypes'
<1> USE TVNothing
<1>1. TVRest
  BY DEF TVStep
<1>3. ASSUME NEW r \in Party, TVAccepts(r) PROVE TVTypes'
  <2>1. tvAttempt = TV!None \/ tvAttempt.req # r
    BY <1>3 DEF TVAccepts, TVTypes
  <2>2. QED
    BY <1>1, <1>3, <2>1 DEF TVAccepts, TVRest, TVShelved, JobTo, TVTypes
<1>4. ASSUME NEW r \in Party, TVClaims(r) PROVE TVTypes'
  <2>1. tvAttempt' \in TVAttempt
    BY <1>4 DEF TVClaims, TVAttempt
  <2>2. QED
    BY <1>1, <1>4, <2>1 DEF TVClaims, TVRest, TVShelved, JobTo, TVTypes
<1>5. CASE TVEnds
  BY <1>1, <1>5 DEF TVEnds, TVRest, TVShelved, JobTo, TVTypes
<1>6. CASE TVBegins
  BY <1>1, <1>6, TVUnderWay DEF TVBegins, TVAt, TVRest, TVShelved, TVTypes
<1>7. CASE TVRefunds
  <2>1. tvAttempt' = TV!None \/ (tvJob' = tvJob /\ \E pc \in {"episodes", "monitor"} : \E left : TVAt(pc, left))
    BY <1>7 DEF TVRefunds
  <2>2. tvJob' \in [Party -> TVJob]
    BY <1>7 DEF TVRefunds, JobTo, TVTypes
  <2>3. tvPaid' \in [Party -> SUBSET Season] /\ UNCHANGED tvWant /\ TVShelved /\ tvAttempt.pc = "read"
    BY <1>7 DEF TVRefunds
  <2>4. QED
    BY <1>1, <2>1, <2>2, <2>3, TVUnderWay DEF TVAt, TVRest, TVShelved, TVTypes
<1>8. CASE TVAdds
  <2>1. tvAttempt.req \in Party /\ tvWant[tvAttempt.req].seasons \subseteq Season
    BY <1>8, TVUnderWay DEF TVAdds
  <2>2. tvWrote' \in [Party -> SUBSET Season]
    BY <1>8, <2>1 DEF TVAdds, TVTypes
  <2>3. tvWant[tvAttempt.req].pilot \in BOOLEAN
    BY <2>1 DEF TVTypes
  <2>4. QED
    BY <1>1, <1>8, <2>1, <2>2, <2>3 DEF TVAdds, JobTo, TVRest, TVTypes
<1>9. CASE TVMonitors
  <2>1. tvAttempt.req \in Party /\ tvAttempt.left \subseteq Season
    BY <1>9, TVUnderWay DEF TVMonitors
  <2>2. tvWrote' \in [Party -> SUBSET Season]
    BY <1>9, <2>1 DEF TVMonitors, TVTypes
  <2>3. QED
    BY <1>1, <1>9, <2>1, <2>2 DEF TVMonitors, TVGoesOn, TVAt, JobTo, TVRest, TVTypes
<1>10. ASSUME NEW n \in Season, TVEpisode(n) PROVE TVTypes'
  <2>1. tvAttempt.req \in Party
    BY <1>10, TVUnderWay DEF TVEpisode
  <2>2. tvWrote' \in [Party -> SUBSET Season]
    BY <1>10, <2>1 DEF TVEpisode, TVTypes
  <2>3. QED
    BY <1>1, <1>10, <2>1, <2>2 DEF TVEpisode, TVGoesOn, TVAt, JobTo, TVRest, TVTypes
<1>11. CASE TVAsks
  BY <1>1, <1>11, TVUnderWay DEF TVAsks, TVGoesOn, TVAt, TVShelved, JobTo, TVRest, TVTypes
<1>12. CASE TVCompletes
  BY <1>1, <1>12 DEF TVCompletes, TVShelved, JobTo, TVRest, TVTypes
<1>13. CASE TVRefreshes
  BY <1>1, <1>13 DEF TVRefreshes, TVRest, TVTypes
<1>14. ASSUME NEW n \in Season, TVLoads(n) PROVE TVTypes'
  BY <1>1, <1>14 DEF TVLoads, TVRest, TVTypes
<1>15. CASE TVStays
  BY <1>1, <1>15 DEF TVStays, TVShelved, TVRest, TVTypes
<1>16. QED
  BY <1>3, <1>4, <1>5, <1>6, <1>7, <1>8, <1>9, <1>10, <1>11, <1>12, <1>13, <1>14, <1>15 DEF TVStep

\* The effects keep what Sonarr has in order.
LEMMA TVShelfKept == ASSUME TVTypes, TVShelf, TVStep PROVE TVShelf'
<1> USE TVNothing
<1>1. ASSUME NEW r \in Party, TVAccepts(r) PROVE TVShelf'
  BY <1>1 DEF TVAccepts, TVShelved, TVShelf
<1>2. ASSUME NEW r \in Party, TVClaims(r) PROVE TVShelf'
  BY <1>2 DEF TVClaims, TVShelved, TVShelf, Writing
<1>3. CASE TVEnds
  BY <1>3 DEF TVEnds, TVShelved, TVShelf, Writing
<1>4. CASE TVBegins
  BY <1>4 DEF TVBegins, TVAt, TVShelved, TVShelf, Writing
<1>5. CASE TVRefunds
  BY <1>5 DEF TVRefunds, TVAt, TVShelved, TVShelf, Writing
<1>6. CASE TVAdds
  BY <1>6 DEF TVAdds, TVShelf, Writing
<1>7. CASE TVMonitors
  BY <1>7 DEF TVMonitors, TVGoesOn, TVAt, TVShelf, Writing
<1>8. ASSUME NEW n \in Season, TVEpisode(n) PROVE TVShelf'
  BY <1>8 DEF TVEpisode, TVGoesOn, TVAt, TVShelf, Writing
<1>9. CASE TVAsks
  BY <1>9 DEF TVAsks, TVGoesOn, TVAt, TVShelved, TVShelf, Writing
<1>10. CASE TVCompletes
  BY <1>10 DEF TVCompletes, TVShelved, TVShelf, Writing
<1>11. CASE TVRefreshes
  BY <1>11 DEF TVRefreshes, TVShelf, Writing
<1>12. ASSUME NEW n \in Season, TVLoads(n) PROVE TVShelf'
  BY <1>12 DEF TVLoads, TVShelf, Writing
<1>13. CASE TVStays
  BY <1>13 DEF TVStays, TVShelved, TVShelf
<1>14. QED
  BY <1>1, <1>2, <1>3, <1>4, <1>5, <1>6, <1>7, <1>8, <1>9, <1>10, <1>11, <1>12, <1>13 DEF TVStep

\* What the library has of a request, it keeps.
LEMMA LookedStays ==
  ASSUME TVTypes, TVShelf, TVStep, NEW r \in Party, tvJob[r].st # "none", NEW n, Looked(r, n)
  PROVE  Looked(r, n)'
<1> USE TVNothing
<1>1. ASSUME NEW q \in Party, TVAccepts(q) PROVE Looked(r, n)'
  BY <1>1 DEF TVAccepts, TVShelved, Looked
<1>2. CASE TVShelved /\ UNCHANGED tvWant
  BY <1>2 DEF TVShelved, Looked
<1>3. CASE TVAdds
  BY <1>3 DEF TVAdds, TVShelf, Looked
<1>4. CASE TVMonitors
  BY <1>4 DEF TVMonitors, Looked
<1>5. CASE \E m \in Season : TVEpisode(m)
  BY <1>5 DEF TVEpisode, Looked
<1>6. CASE TVRefreshes
  BY <1>6 DEF TVRefreshes, TVShelf, Looked
<1>7. CASE \E m \in Season : TVLoads(m)
  BY <1>7 DEF TVLoads, Looked
<1>8. QED
  BY <1>1, <1>2, <1>3, <1>4, <1>5, <1>6, <1>7 DEF TVStep, TVClaims, TVEnds, TVBegins, TVRefunds, TVAsks, TVCompletes, TVStays

\* The effects keep what was written paid for.
LEMMA TVPaidKept == ASSUME TVTypes, TVShelf, TVPaid, TVPlan, TVStep PROVE TVPaid'
<1> USE TVNothing
<1>r. PICK r : r = tvAttempt.req
  OBVIOUS
<1> USE <1>r
<1>0. \A q \in Party : tvJob[q].st # "none" => \A n : Looked(q, n) => Looked(q, n)'
  BY LookedStays
<1>1. ASSUME NEW q \in Party, TVAccepts(q) PROVE TVPaid'
  <2>1. ASSUME NEW p \in Party, p # q
        PROVE  /\ UNCHANGED <<tvWant[p], tvPaid[p], tvJob[p], tvWrote[p]>> /\ \A n : Looked(p, n)' <=> Looked(p, n)
    BY <1>1, <2>1 DEF TVAccepts, TVShelved, JobTo, Looked
  <2>2. /\ tvWrote'[q] = {} /\ tvJob'[q].st # "none" /\ tvPaid'[q] \subseteq tvWant'[q].seasons
        /\ \A n \in tvWant'[q].seasons : n \in tvPaid'[q] \/ Looked(q, n)'
    BY <1>1 DEF TVAccepts, TVShelved, JobTo, TVPaid
  <2>3. QED
    BY <2>1, <2>2 DEF TVPaid
<1>2. CASE \* The jobs may change, what is paid and written does not.
      /\ UNCHANGED <<tvWant, tvPaid, tvWrote>>
      /\ \A q \in Party : /\ (tvJob[q].started => tvJob'[q].started)
                          /\ (tvJob'[q].st = "none" <=> tvJob[q].st = "none")
  BY <1>0, <1>2 DEF TVPaid
<1>3. CASE TVRefunds
  <2>1. r \in Party
    BY <1>3, TVUnderWay DEF TVRefunds
  <2>2. /\ UNCHANGED <<tvWant, tvWrote>>
        /\ \A q \in Party : /\ (tvJob[q].started => tvJob'[q].started)
                            /\ (tvJob'[q].st = "none" <=> tvJob[q].st = "none")
    BY <1>3, TVUnderWay DEF TVRefunds, TVShelved, JobTo
  <2>3. /\ \A q \in Party : q # r => tvPaid'[q] = tvPaid[q]
        /\ tvPaid'[r] \subseteq tvPaid[r] /\ (tvJob[r].started => tvPaid'[r] = tvPaid[r])
        /\ \A n \in tvPaid[r] : n \in tvPaid'[r] \/ Looked(r, n)
    BY <1>3 DEF TVRefunds
  <2>4. tvWrote[r] \subseteq tvPaid'[r]
    BY <2>1, <2>3 DEF TVPaid
  <2>5. tvJob[r].st # "none"
    BY <1>3, TVUnderWay DEF TVRefunds
  <2>6. ASSUME NEW n \in tvWant[r].seasons PROVE Looked(r, n)' \/ n \in tvPaid'[r]
    BY <1>0, <2>1, <2>3, <2>5 DEF TVPaid
  <2>7. ASSUME NEW q \in Party, q # r
        PROVE  /\ tvWrote'[q] \subseteq tvPaid'[q] /\ tvPaid'[q] \subseteq tvWant'[q].seasons
               /\ tvWrote'[q] # {} => tvJob'[q].started
               /\ tvJob'[q].st = "none" => tvWrote'[q] = {}
               /\ tvJob'[q].st # "none" => \A n \in tvWant'[q].seasons : Looked(q, n)' \/ n \in tvPaid'[q]
    BY <1>0, <2>2, <2>3, <2>7 DEF TVPaid
  <2>8. /\ tvWrote'[r] \subseteq tvPaid'[r] /\ tvPaid'[r] \subseteq tvWant'[r].seasons
        /\ tvWrote'[r] # {} => tvJob'[r].started
        /\ tvJob'[r].st = "none" => tvWrote'[r] = {}
        /\ tvJob'[r].st # "none" => \A n \in tvWant'[r].seasons : Looked(r, n)' \/ n \in tvPaid'[r]
    BY <2>1, <2>2, <2>3, <2>4, <2>6 DEF TVPaid
  <2>9. QED
    BY <2>7, <2>8 DEF TVPaid
<1>4. ASSUME NEW new \in SUBSET tvPaid[r], r \in Party, tvJob[r].st # "none",
             UNCHANGED <<tvWant, tvPaid>>, tvWrote' = [tvWrote EXCEPT ![r] = @ \union new], Marked(r),
             \A q \in Party : q # r => tvJob'[q] = tvJob[q], tvJob'[r].st # "none"
      PROVE  TVPaid'
  <2>1. tvWrote'[r] \subseteq tvPaid[r] /\ \A q \in Party : q # r => tvWrote'[q] = tvWrote[q]
    BY <1>4 DEF TVPaid, TVTypes
  <2>2. tvJob'[r].started
    BY <1>4 DEF Marked
  <2>3. ASSUME NEW q \in Party, q # r
        PROVE  /\ tvWrote'[q] \subseteq tvPaid'[q] /\ tvPaid'[q] \subseteq tvWant'[q].seasons
               /\ tvWrote'[q] # {} => tvJob'[q].started
               /\ tvJob'[q].st = "none" => tvWrote'[q] = {}
               /\ tvJob'[q].st # "none" => \A n \in tvWant'[q].seasons : Looked(q, n)' \/ n \in tvPaid'[q]
    BY <1>0, <1>4, <2>1, <2>3 DEF TVPaid
  <2>4. /\ tvWrote'[r] \subseteq tvPaid'[r] /\ tvPaid'[r] \subseteq tvWant'[r].seasons
        /\ tvJob'[r].st # "none" => \A n \in tvWant'[r].seasons : Looked(r, n)' \/ n \in tvPaid'[r]
    BY <1>0, <1>4, <2>1 DEF TVPaid
  <2>5. tvJob'[r].st # "none"
    BY <1>4
  <2>6. QED
    BY <2>2, <2>3, <2>4, <2>5 DEF TVPaid
<1>5. CASE TVAdds
  <2>1. r \in Party /\ tvJob[r].st = "processing" /\ tvWant[r].seasons \subseteq Season /\ tvSeries = "absent"
    BY <1>5, TVUnderWay DEF TVAdds, TVShelf
  <2>2. tvWant[r].seasons \subseteq tvPaid[r]
    BY <2>1 DEF TVPaid, TVShelf, Looked
  <2> DEFINE sel == IF tvWant[r].pilot THEN {} ELSE tvWant[r].seasons
  <2>3. sel \in SUBSET tvPaid[r]
    BY <2>2
  <2>4. tvWrote' = [tvWrote EXCEPT ![r] = @ \union sel] /\ UNCHANGED <<tvWant, tvPaid>> /\ Marked(r) /\ JobTo(r, {"retry", "complete"})
    BY <1>5 DEF TVAdds
  <2> HIDE DEF sel
  <2>5. QED
    BY <1>4, <2>1, <2>3, <2>4 DEF JobTo
<1>6. CASE TVMonitors
  <2>1. r \in Party /\ tvJob[r].st = "processing" /\ tvAttempt.left \subseteq tvPaid[r]
    BY <1>6, TVUnderWay DEF TVMonitors, TVPlan, Writing
  <2> DEFINE new == IF tvWant[r].pilot THEN {} ELSE tvAttempt.left
  <2>2. new \in SUBSET tvPaid[r]
    BY <2>1
  <2>3. tvWrote' = [tvWrote EXCEPT ![r] = @ \union new] /\ UNCHANGED <<tvWant, tvPaid>> /\ TVGoesOn("episodes", tvAttempt.left)
    BY <1>6 DEF TVMonitors
  <2> HIDE DEF new
  <2>4. QED
    BY <1>4, <2>1, <2>2, <2>3 DEF TVGoesOn, JobTo
<1>7. ASSUME NEW n \in Season, TVEpisode(n) PROVE TVPaid'
  <2>1. r \in Party /\ tvJob[r].st = "processing" /\ {n} \in SUBSET tvPaid[r]
    BY <1>7, TVUnderWay DEF TVEpisode, TVPlan, Writing
  <2>2. tvWrote' = [tvWrote EXCEPT ![r] = @ \union {n}] /\ UNCHANGED <<tvWant, tvPaid>> /\ TVGoesOn("search", tvAttempt.left \ {n})
    BY <1>7 DEF TVEpisode
  <2>3. QED
    BY <1>4, <2>1, <2>2 DEF TVGoesOn, JobTo
<1>8. CASE TVEnds \/ TVAsks \/ TVCompletes \/ TVBegins \/ TVStays \/ TVRefreshes \/ \E n \in Season : TVLoads(n)
  <2>1. UNCHANGED <<tvWant, tvPaid, tvWrote>>
    BY <1>8 DEF TVEnds, TVAsks, TVCompletes, TVBegins, TVStays, TVRefreshes, TVLoads, TVShelved
  <2>2. \/ UNCHANGED tvJob
        \/ tvAttempt.pc # "idle" /\ \E S \in {{"processing"}, {"retry"}, {"complete"}, {"retry", "attention"}} : JobTo(r, S)
    BY <1>8 DEF TVEnds, TVAsks, TVCompletes, TVBegins, TVStays, TVRefreshes, TVLoads, TVGoesOn
  <2>3. \A q \in Party : /\ (tvJob[q].started => tvJob'[q].started)
                         /\ (tvJob'[q].st = "none" <=> tvJob[q].st = "none")
    BY <2>2, TVUnderWay DEF JobTo
  <2>4. QED
    BY <1>2, <2>1, <2>3
<1>9. ASSUME NEW q \in Party, TVClaims(q) PROVE TVPaid'
  BY <1>2, <1>9 DEF TVClaims, TVShelved, JobTo
<1>10. QED
  BY <1>1, <1>3, <1>5, <1>6, <1>7, <1>8, <1>9 DEF TVStep

\* The effects keep what an attempt still has to do.
LEMMA TVPlanKept == ASSUME TVTypes, TVShelf, TVPaid, TVPlan, TVStep PROVE TVPlan'
<1> USE TVNothing
<1>r. PICK r : r = tvAttempt.req
  OBVIOUS
<1> USE <1>r
<1>0. tvAttempt.pc # "idle" => r \in Party /\ \A n : Looked(r, n) => Looked(r, n)'
  BY TVUnderWay, LookedStays
<1>1. CASE tvAttempt'.pc \in {"idle", "read", "add"}
  BY <1>1 DEF TVPlan, Writing
<1>2. CASE UNCHANGED tvAttempt /\ tvAttempt.pc \in Writing
  <2>1. r \in Party /\ tvJob[r].st = "processing" /\ tvAttempt.pc # "idle" /\ tvSeries = "present"
    BY <1>2, TVUnderWay DEF Writing, TVShelf
  <2>2. tvPaid'[r] = tvPaid[r] /\ tvWant'[r] = tvWant[r] /\ tvWatched' = tvWatched /\ tvFlag' = tvFlag
    <3>1. ASSUME NEW q \in Party, TVAccepts(q) PROVE tvPaid'[r] = tvPaid[r] /\ tvWant'[r] = tvWant[r] /\ tvWatched' = tvWatched /\ tvFlag' = tvFlag
      BY <2>1, <3>1 DEF TVAccepts, TVShelved
    <3>2. QED
      BY <1>2, <2>1, <3>1 DEF TVStep, TVClaims, TVEnds, TVBegins, TVAt, TVRefunds, TVAdds, TVMonitors, TVEpisode, TVAsks,
         TVCompletes, TVGoesOn, TVRefreshes, TVLoads, TVStays, TVShelved, Writing
  <2>3. QED
    BY <1>0, <1>2, <2>1, <2>2 DEF TVPlan
<1>3. ASSUME TVRefunds, tvAttempt'.pc \in {"episodes", "monitor"} PROVE TVPlan'
  <2>1. PICK left \in SUBSET tvPaid'[r], pc \in {"episodes", "monitor"} :
          /\ TVAt(pc, left) /\ \A n \in tvPaid[r] \ left : Looked(r, n)
          /\ (pc = "episodes" => tvWatched /\ tvWant[r].pilot)
    BY <1>3 DEF TVRefunds
  <2>2. UNCHANGED <<tvWant, tvWatched, tvFlag>> /\ tvPaid'[r] \subseteq tvPaid[r] /\ tvAttempt.pc = "read"
    BY <1>3 DEF TVRefunds, TVShelved
  <2>3. QED
    BY <1>0, <2>1, <2>2 DEF TVAt, TVPlan
<1>4. CASE TVMonitors /\ tvAttempt' # TV!None
  <2>1. TVAt("episodes", tvAttempt.left) /\ UNCHANGED <<tvWant, tvPaid>> /\ tvWatched' /\ tvAttempt.pc = "monitor"
    BY <1>4 DEF TVMonitors, TVGoesOn
  <2>2. tvWant[r].pilot \/ tvAttempt.left \subseteq tvFlag'
    BY <1>4 DEF TVMonitors
  <2>3. QED
    BY <1>0, <2>1, <2>2 DEF TVAt, TVPlan, Writing
<1>5. ASSUME NEW n \in Season, TVEpisode(n), tvAttempt' # TV!None PROVE TVPlan'
  <2>1. /\ TVAt("search", tvAttempt.left \ {n}) /\ UNCHANGED <<tvWant, tvPaid, tvWatched, tvFlag>> /\ tvAttempt.pc = "episodes"
        /\ n \in tvAttempt.left /\ tvEps' = tvEps \union {n}
    BY <1>5 DEF TVEpisode, TVGoesOn
  <2>2. Looked(r, n)'
    BY <1>0, <2>1 DEF TVPlan, Looked, TVAt
  <2>3. QED
    BY <1>0, <2>1, <2>2 DEF TVAt, TVPlan, Writing
<1>6. CASE TVAsks /\ tvAttempt' # TV!None
  <2>1. /\ TVAt(IF tvAttempt.left = {} THEN "done" ELSE "episodes", tvAttempt.left)
        /\ UNCHANGED <<tvWant, tvPaid, tvWatched, tvFlag>> /\ tvAttempt.pc = "search"
    BY <1>6 DEF TVAsks, TVGoesOn, TVShelved
  <2>2. QED
    BY <1>0, <2>1 DEF TVAt, TVPlan, Writing
<1>7. tvAttempt'.pc \in {"idle", "read", "add"} \/ (UNCHANGED tvAttempt /\ tvAttempt.pc \in Writing)
      \/ (TVRefunds /\ tvAttempt'.pc \in {"episodes", "monitor"}) \/ (TVMonitors /\ tvAttempt' # TV!None)
      \/ (TVAsks /\ tvAttempt' # TV!None) \/ \E n \in Season : TVEpisode(n) /\ tvAttempt' # TV!None
  <2>1. tvAttempt.pc \in {"idle", "read", "add"} \union Writing
    BY DEF TVTypes, TVAttempt, Writing
  <2>2. CASE UNCHANGED tvAttempt
    BY <2>1, <2>2
  <2>3. CASE TVRefunds
    BY <2>3 DEF TVRefunds, TVAt
  <2>4. CASE tvAttempt' = TV!None
    BY <2>4
  <2>5. CASE TVBegins \/ \E q \in Party : TVClaims(q)
    BY <2>5 DEF TVBegins, TVAt, TVClaims
  <2>6. QED
    BY <2>2, <2>3, <2>4, <2>5 DEF TVStep, TVAccepts, TVEnds, TVAdds, TVCompletes, TVRefreshes, TVLoads, TVStays
<1>8. QED
  BY <1>1, <1>2, <1>3, <1>4, <1>5, <1>6, <1>7

\* The effects keep delivered seasons monitored.
LEMMA TVDeliveredKept == ASSUME TVTypes, TVShelf, TVPaid, TVPlan, TVDelivered, TVStep PROVE TVDelivered'
<1> USE TVNothing
<1>r. PICK r : r = tvAttempt.req
  OBVIOUS
<1> USE <1>r
<1>0. \A q \in Party : tvJob[q].st # "none" => \A n : Looked(q, n) => Looked(q, n)'
  BY LookedStays
<1>1. ASSUME NEW q \in Party, TVAccepts(q) PROVE TVDelivered'
  <2>1. ASSUME NEW p \in Party, p # q
        PROVE  /\ UNCHANGED <<tvWant[p], tvPaid[p], tvJob[p]>> /\ \A n : Looked(p, n)' <=> Looked(p, n)
    BY <1>1, <2>1 DEF TVAccepts, TVShelved, JobTo, Looked
  <2>2. /\ tvJob'[q].st = "complete" => tvPaid'[q] = {}
        /\ UNCHANGED <<tvSeries, tvPicked>>
    BY <1>1 DEF TVAccepts, TVShelved
  <2>3. QED
    BY <2>1, <2>2 DEF TVDelivered
<1>2. ASSUME \* What is complete was, or is looked after now; what others have stays.
      \A q \in Party : tvJob'[q].st = "complete" =>
        \/ tvJob[q].st = "complete" /\ tvPaid'[q] \subseteq tvPaid[q] /\ UNCHANGED <<tvSeries, tvPicked>>
        \/ \A n \in tvPaid'[q] : Looked(q, n)'
      PROVE TVDelivered'
  BY <1>0, <1>2 DEF TVDelivered
<1>3. CASE TVRefunds
  <2>1. r \in Party /\ tvJob[r].st = "processing" /\ tvAttempt.pc # "idle"
    BY <1>3, TVUnderWay DEF TVRefunds
  <2>2. /\ UNCHANGED <<tvSeries, tvPicked>> /\ tvPaid'[r] \subseteq tvPaid[r]
        /\ \A q \in Party : q # r => tvJob'[q] = tvJob[q] /\ tvPaid'[q] = tvPaid[q]
    BY <1>3 DEF TVRefunds, TVShelved, JobTo
  <2>3. tvJob'[r].st = "complete" => \A n \in tvPaid[r] : Looked(r, n)
    BY <1>3, <2>1 DEF TVRefunds
  <2>4. QED
    BY <1>0, <1>2, <2>1, <2>2, <2>3
<1>4. CASE TVCompletes
  <2>1. r \in Party /\ tvJob[r].st = "processing"
    BY <1>4, TVUnderWay DEF TVCompletes
  <2>2. \A n \in tvPaid[r] : Looked(r, n)
    BY <1>4 DEF TVCompletes, TVPlan, Writing
  <2>3. /\ UNCHANGED <<tvSeries, tvPicked, tvPaid>> /\ \A q \in Party : q # r => tvJob'[q] = tvJob[q]
    BY <1>4 DEF TVCompletes, TVShelved, JobTo
  <2>4. QED
    BY <1>0, <1>2, <2>1, <2>2, <2>3
<1>5. CASE TVAdds
  <2>1. r \in Party /\ tvJob[r].st = "processing" /\ tvSeries = "absent"
    BY <1>5, TVUnderWay DEF TVAdds, TVShelf
  <2>2. /\ UNCHANGED <<tvPaid, tvWant>> /\ tvSeries' = "adding" /\ \A q \in Party : q # r => tvJob'[q] = tvJob[q]
        /\ (tvJob'[r].st = "complete" => ~tvWant[r].pilot)
        /\ tvPicked' = IF tvWant[r].pilot THEN {} ELSE tvWant[r].seasons
    BY <1>5 DEF TVAdds, JobTo
  <2>3. \A q \in Party : \A n : ~Looked(q, n)
    BY <2>1 DEF TVShelf, Looked
  <2>4. \A q \in Party : tvJob[q].st = "complete" => tvPaid[q] = {}
    BY <2>1, <2>3 DEF TVDelivered
  <2>5. tvPaid[r] \subseteq tvWant[r].seasons
    BY <2>1 DEF TVPaid
  <2>6. QED
    BY <2>1, <2>2, <2>4, <2>5 DEF TVDelivered
<1>6. CASE TVRefreshes
  <2>1. UNCHANGED <<tvPaid, tvJob, tvWatched, tvWant>> /\ tvEps' = tvPicked /\ tvFlag' = tvPicked /\ tvSeries = "adding"
    BY <1>6 DEF TVRefreshes
  <2>2. \A q \in Party, n \in tvPicked : Looked(q, n)'
    BY <2>1 DEF TVShelf, Looked
  <2>3. QED
    BY <1>0, <1>2, <2>1, <2>2 DEF TVDelivered
<1>7. CASE /\ UNCHANGED <<tvPaid, tvSeries, tvPicked>>
           /\ \A q \in Party : tvJob'[q].st = "complete" => tvJob[q].st = "complete"
  BY <1>2, <1>7
<1>8. CASE TVEnds \/ TVBegins \/ TVMonitors \/ TVAsks \/ TVStays \/ (\E n \in Season : TVEpisode(n) \/ TVLoads(n)) \/ (\E q \in Party : TVClaims(q))
  <2>1. UNCHANGED <<tvPaid, tvSeries, tvPicked>>
    BY <1>8 DEF TVEnds, TVBegins, TVMonitors, TVAsks, TVStays, TVEpisode, TVLoads, TVClaims, TVShelved
  <2>2. \A q \in Party : tvJob'[q].st = "complete" => tvJob[q].st = "complete"
    <3>1. CASE UNCHANGED tvJob
      BY <3>1
    <3>2. CASE tvAttempt.pc # "idle" /\ \E S \in {{"processing"}, {"retry"}, {"retry", "attention"}} : JobTo(r, S)
      BY <3>2, TVUnderWay DEF JobTo
    <3>3. CASE \E q \in Party : JobTo(q, {"processing"})
      BY <3>3 DEF JobTo
    <3>4. QED
      BY <1>8, <3>1, <3>2, <3>3 DEF TVEnds, TVBegins, TVMonitors, TVAsks, TVStays, TVEpisode, TVLoads, TVClaims, TVGoesOn
  <2>3. QED
    BY <1>7, <2>1, <2>2
<1>9. QED
  BY <1>1, <1>3, <1>4, <1>5, <1>6, <1>8 DEF TVStep

\* The delivery starts within its invariant.
LEMMA TVInit == ASSUME TV!Init PROVE TVInv
<1> USE TVNothing
<1>1. /\ tvWant = [r \in Party |-> [seasons |-> {}, pilot |-> FALSE]] /\ tvJob = [r \in Party |-> [st |-> "none", started |-> FALSE]]
      /\ tvPaid = [r \in Party |-> {}] /\ tvMatch = Party /\ tvPhase = [r \in Party |-> "pending"]
      /\ tvFiles = {} /\ tvPicked = {} /\ tvAsked = {} /\ tvWrote = [r \in Party |-> {}] /\ tvAttempt = TV!None /\ tvFault = 0
      /\ \/ tvSeries = "absent" /\ tvWatched = FALSE /\ tvFlag = {} /\ tvEps = {}
         \/ tvSeries = "present" /\ tvWatched \in BOOLEAN /\ tvFlag \in SUBSET Season /\ tvEps = tvFlag
  BY DEF TV!Init
<1>2. /\ tvWant \in [Party -> [seasons : SUBSET Season, pilot : BOOLEAN]] /\ tvJob \in [Party -> TVJob]
      /\ \A r \in Party : tvJob[r].st = "none"
  BY <1>1 DEF TVJob
<1>3. TVTypes
  <2>1. tvFault \in 0 .. MaxFault
    BY <1>1, PartyAssumption
  <2>2. /\ tvPaid \in [Party -> SUBSET Season] /\ tvWrote \in [Party -> SUBSET Season]
        /\ tvPhase \in [Party -> {"pending", "adding", "awaiting_metadata", "complete"}]
    BY <1>1
  <2>3. tvSeries \in {"absent", "adding", "present"} /\ tvWatched \in BOOLEAN /\ tvFlag \subseteq Season /\ tvEps \subseteq Season
    BY <1>1
  <2>4. QED
    BY <1>1, <1>2, <2>1, <2>2, <2>3 DEF TVTypes
<1>4. TVShelf /\ TVPlan
  BY <1>1 DEF TVShelf, TVPlan, Writing
<1>5. TVPaid /\ TVDelivered
  BY <1>1, <1>2 DEF TVPaid, TVDelivered
<1>6. QED
  BY <1>3, <1>4, <1>5 DEF TVInv

\* Every behaviour of the services is one of the delivery.
LEMMA TVSpec == Spec => TV!Spec
<1>1. Init => TV!Init
  BY DEF Init
<1>2. [Next]_vars => [TV!Next]_(TV!vars)
  BY DEF Next, Only, vars, tagVars, tvVars, followVars, grokVars, discordVars, profileVars, mediaVars,
         signVars, TV!vars
<1>3. QED
  BY <1>1, <1>2, PTL DEF Spec, TV!Spec

\* The inductive invariant of the delivery, by one case per effect.
LEMMA TVInvHolds == Spec => []TVInv
<1>1. TVInv /\ [TV!Next]_(TV!vars) => TVInv'
  <2>1. ASSUME TVInv, TV!Next PROVE TVInv'
    BY <2>1, TVSteps, TVTypesKept, TVShelfKept, TVPaidKept, TVPlanKept, TVDeliveredKept DEF TVInv
  <2>2. ASSUME TVInv, UNCHANGED TV!vars PROVE TVInv'
    BY <2>2 DEF TVInv, TV!vars, TVTypes, TVShelf, TVPaid, TVPlan, TVDelivered, Looked
  <2>3. QED
    BY <2>1, <2>2
<1>2. QED
  BY <1>1, TVInit, TVSpec, PTL DEF TV!Spec

\* A season that a request delivered is monitored in Sonarr, whichever request
\* came before or after it, and what a request changed in Sonarr stays paid for.
THEOREM SeasonsAreRightHolds == Spec => []SeasonsAreRight
<1>1. TVInv => SeasonsAreRight
  BY DEF TVInv, TVPaid, TVDelivered, Looked, SeasonsAreRight, TV!DeliveredIsMonitored, TV!WorkIsPaid, TV!Pilot
<1>2. QED
  BY <1>1, TVInvHolds, PTL

\* The invariant holds the module's type invariant.
LEMMA TVTypeOK == ASSUME TVInv PROVE TV!TypeOK
BY DEF TVInv, TVTypes, TV!TypeOK, TVJob, TVAttempt

---------------------------------------------------------------------------
(* Following a series.                                                     *)

FwRow == [st : Following!RowState, owned : BOOLEAN, cmd : 0 .. MaxSearch, since : 0 .. MaxSearch]
FwFollow == [st : {"active", "paused", "uncertain", "stopped"}, owned : 0 .. 2, id : BOOLEAN]
FwRequest == [st : {"none", "pending", "complete"}, adding : BOOLEAN]
FwAtt == [kind : {"none", "first", "sweep"},
          pc : {"idle", "series", "add", "watch", "activate", "rows", "next", "monitor", "mark", "queue",
                "intent", "post", "receipt"},
          todo : SUBSET Episode, snap : [Episode -> FwRow], mon : SUBSET Episode, file : SUBSET Episode]
FwSonarr == [series : {"absent", "adding", "present"}, watched : BOOLEAN,
             mon : SUBSET Episode, queue : SUBSET Episode, file : SUBSET Episode]
FollowTypes ==
  /\ fwFollow \in [Party -> FwFollow] /\ fwRequest \in [Party -> FwRequest]
  /\ fwRow \in [Party -> [Episode -> FwRow]] /\ fwSonarr \in FwSonarr
  /\ fwCommand \subseteq [ep : Episode, at : 0 .. MaxSearch] /\ fwLock \in Party \union {NoParty}
  /\ fwAtt \in [Party -> FwAtt] /\ fwClock \in 0 .. MaxSearch /\ fwPosts \in [Party -> [Episode -> Nat]]
  /\ fwReal \subseteq Episode /\ fwTouched \subseteq Episode /\ fwFault \in 0 .. MaxFault

\* The episode an attempt is at, and what is under way or done for one.
Turn(f) == Following!Next1(f)
Busy == {"searching", "submitted", "available"}
Sought == {"searching", "submitted"}
AtTurn(f) == fwAtt[f].pc \in {"monitor", "mark", "queue", "intent", "post", "receipt"}
Planned(f) == fwAtt[f].pc = "next" \/ AtTurn(f)
Onto(f, e) == e = Turn(f) /\ fwAtt[f].pc \in {"post", "receipt"}

\* A first delivery keeps the instance's lease; who is at an episode knows the series.
TurnOf(f) ==
  /\ (fwAtt[f].kind = "none" <=> fwAtt[f].pc = "idle")
  /\ fwAtt[f].kind = "first" => fwLock = f
  /\ AtTurn(f) => Turn(f) \in fwAtt[f].todo
  /\ fwAtt[f].pc = "add" => fwAtt[f].kind = "first" /\ fwSonarr.series = "absent"
  /\ Planned(f) \/ fwAtt[f].pc \in {"watch", "activate", "rows"} => fwFollow[f].id
FollowTurns ==
  /\ \A f \in Party : TurnOf(f)
  /\ \A f \in Party, e \in Episode : fwRow[f][e].st \in Sought => fwFollow[f].id
  /\ fwSonarr.series = "absent" => fwSonarr.mon = {}

\* What is queued, listed or called submitted was taken by Sonarr.
FollowReal ==
  /\ fwSonarr.queue \subseteq fwReal /\ \A c \in fwCommand : c.ep \in fwReal
  /\ \A f \in Party : /\ \A e \in Episode : fwRow[f][e].st = "submitted" => e \in fwReal
                      /\ fwAtt[f].pc = "receipt" => Turn(f) \in fwReal

\* What was searched for is monitored, unless somebody changed that.
FollowWatched ==
  \A f \in Party :
    /\ \A e \in Episode : fwRow[f][e].st \in Sought \/ fwPosts[f][e] > 0 => e \in fwSonarr.mon \union fwTouched
    /\ Planned(f) => fwAtt[f].mon \subseteq fwSonarr.mon \union fwTouched
    /\ AtTurn(f) /\ fwAtt[f].pc # "monitor" => Turn(f) \in fwSonarr.mon \union fwTouched

\* A search sent, or confirmed, is not forgotten.
KeptRow(f, e) ==
  /\ fwPosts[f][e] <= 1
  /\ fwPosts[f][e] > 0 => fwRow[f][e].st \in Busy
  /\ fwRow[f][e].cmd > 0 => fwRow[f][e].st \in {"submitted", "available"}
BegunRow(f) == fwAtt[f].pc \in {"post", "receipt"} => fwRow[f][Turn(f)].since > 0 /\ fwRow[f][Turn(f)].st \in Busy
FollowRows == \A f \in Party : BegunRow(f) /\ \A e \in Episode \ fwTouched : KeptRow(f, e)

\* What an attempt read of the episodes ahead still tells whether one was searched for.
PlanOf(f, e) ==
  Planned(f) /\ e \in fwAtt[f].todo =>
    LET a == fwAtt[f]
    IN /\ fwRow[f][e].st \in Busy /\ ~Onto(f, e) => a.snap[e].st \in Busy
       /\ a.snap[e].st \in Sought => e \in a.mon
       /\ fwPosts[f][e] > 0 /\ ~Onto(f, e) => e \in a.mon
       /\ e = Turn(f) /\ a.pc \in {"monitor", "mark"} => e \notin a.mon /\ a.snap[e].st \notin Busy
       /\ e = Turn(f) /\ a.pc = "queue" => a.snap[e].st \notin {"submitted", "available"}
       /\ e = Turn(f) /\ a.pc = "intent" => a.snap[e].st \notin Busy
       /\ e = Turn(f) /\ a.pc = "post" => fwPosts[f][e] = 0
FollowPlan == \A f \in Party, e \in Episode \ fwTouched : PlanOf(f, e)

\* Between the look at the others and the search, none of them begins one.
ApartOf(f) ==
  fwAtt[f].pc \in {"intent", "post"} /\ fwLock = f =>
    \A g \in Party \ {f} : fwRow[g][Turn(f)].st = "searching" =>
      \/ Turn(f) \in fwTouched \/ Following!Known(Turn(f), f)
      \/ fwAtt[f].pc = "post" /\ fwRow[g][Turn(f)].since = fwRow[f][Turn(f)].since
FollowApart == \A f \in Party : ApartOf(f)

FollowInv ==
  /\ FollowTypes /\ FollowTurns /\ FollowReal /\ FollowWatched /\ FollowRows /\ FollowPlan /\ FollowApart

\* What happens to an attempt, to a follow and to its rows.
FwOnly(f) == fwAtt' \in [Party -> FwAtt] /\ \A g \in Party : g # f => fwAtt'[g] = fwAtt[g]
FwKeeps(f) ==
  /\ fwAtt'[f].kind = fwAtt[f].kind /\ fwAtt'[f].snap = fwAtt[f].snap
  /\ fwAtt'[f].mon = fwAtt[f].mon /\ fwLock' = fwLock
FwGoes(f, pc) == FwOnly(f) /\ FwKeeps(f) /\ fwAtt'[f].pc = pc /\ fwAtt'[f].todo = fwAtt[f].todo
FwSkips(f) == FwOnly(f) /\ FwKeeps(f) /\ fwAtt'[f].pc = "next" /\ fwAtt'[f].todo = fwAtt[f].todo \ {Turn(f)}
FwEnds(f) ==
  /\ FwOnly(f) /\ fwAtt'[f].pc = "idle" /\ fwAtt'[f].kind = "none"
  /\ fwLock' = IF fwLock = f THEN NoParty ELSE fwLock
FwBegins(f, kind) ==
  /\ FwOnly(f) /\ fwAtt[f].pc = "idle" /\ fwAtt'[f].pc = "series" /\ fwAtt'[f].kind = kind
  /\ fwLock = NoParty /\ fwLock' = f
FwFollows ==
  /\ fwFollow' \in [Party -> FwFollow]
  /\ \A g \in Party : (fwFollow[g].id => fwFollow'[g].id) /\ (fwFollow[g].st = "stopped" => fwFollow'[g].st = "stopped")
RowsOf(f) == fwRow' \in [Party -> [Episode -> FwRow]] /\ \A g \in Party : g # f => fwRow'[g] = fwRow[g]
RowOnly(f, e) == RowsOf(f) /\ \A d \in Episode : d # e => fwRow'[f][d] = fwRow[f][d]
FwInserts(f) ==
  /\ RowsOf(f)
  /\ \A e \in Episode : \/ fwRow'[f][e] = fwRow[f][e]
                        \/ fwRow[f][e].st = "none" /\ fwRow'[f][e].st \in {"excluded", "queued"} /\ fwRow'[f][e].cmd = 0
Shows(e) == e \in fwSonarr.queue \/ \E c \in fwCommand : c.ep = e
RecRow(e, a, b) ==
  \/ b = a
  \/ /\ a.st = "searching" /\ b.since = a.since
     /\ \/ b.st = "searching" /\ b.cmd = 0
        \/ b.st = "available"
        \/ b.st = "submitted" /\ Shows(e)
FwReconciles(f, S) == RowsOf(f) /\ \A e \in Episode \ S : RecRow(e, fwRow[f][e], fwRow'[f][e])

\* Every kind of step, by what it does.
History == <<fwPosts, fwReal, fwTouched>>
World == <<fwSonarr, fwCommand>>
FollowSaves(f) ==
  UNCHANGED History /\ UNCHANGED World /\ UNCHANGED <<fwFollow, fwAtt, fwLock>> /\ FwInserts(f)
FollowRests ==
  /\ UNCHANGED <<fwRow, fwAtt, fwLock, fwPosts, fwTouched>> /\ FwFollows /\ fwCommand' \subseteq fwCommand
  /\ fwSonarr' \in FwSonarr /\ fwSonarr'.mon = fwSonarr.mon /\ (fwSonarr'.series = "absent" <=> fwSonarr.series = "absent")
  /\ fwReal \subseteq fwReal' /\ fwReal' \subseteq Episode /\ fwSonarr'.queue \subseteq fwSonarr.queue \union fwReal'
FollowTouched ==
  /\ UNCHANGED <<fwRow, fwAtt, fwLock, fwPosts, fwReal, fwCommand, fwFollow>> /\ fwSonarr.series = "present"
  /\ fwSonarr' \in FwSonarr /\ fwSonarr'.queue \subseteq fwSonarr.queue /\ (fwSonarr'.series = "absent" => fwSonarr'.mon = {})
  /\ fwTouched \subseteq fwTouched' /\ fwTouched' \subseteq Episode /\ fwSonarr.mon \subseteq fwSonarr'.mon \union fwTouched'
FollowDelivers(f) ==
  UNCHANGED History /\ UNCHANGED World /\ FwReconciles(f, {}) /\ FwFollows /\ FwBegins(f, "first")
FollowChecks(f) ==
  UNCHANGED History /\ UNCHANGED World /\ UNCHANGED <<fwAtt, fwLock>> /\ FwReconciles(f, {}) /\ FwFollows
FollowSweeps(f) ==
  UNCHANGED History /\ UNCHANGED World /\ UNCHANGED <<fwRow, fwFollow>> /\ FwBegins(f, "sweep")
FollowEnds(f) ==
  /\ UNCHANGED History /\ UNCHANGED <<fwRow, fwCommand>> /\ FwFollows /\ FwEnds(f)
  /\ fwSonarr' \in FwSonarr /\ fwSonarr'.queue = fwSonarr.queue
  /\ (fwSonarr'.series = "absent" => fwSonarr.series = "absent" /\ fwSonarr'.mon = fwSonarr.mon)
  /\ fwSonarr.mon \subseteq fwSonarr'.mon
  /\ fwAtt[f].pc = "add" \/ fwSonarr'.series = fwSonarr.series
FollowGoes(f) ==
  /\ UNCHANGED History /\ FwInserts(f) /\ FwFollows /\ UNCHANGED fwCommand
  /\ fwSonarr' \in FwSonarr /\ fwSonarr'.queue = fwSonarr.queue /\ fwSonarr'.mon = fwSonarr.mon /\ fwSonarr'.series = fwSonarr.series
  /\ fwAtt[f].pc \in {"series", "watch", "activate"}
  /\ \/ FwGoes(f, "add") /\ fwAtt[f].kind = "first" /\ fwSonarr.series = "absent"
     \/ \E pc \in {"watch", "activate", "rows"} : FwGoes(f, pc) /\ fwFollow'[f].id
FollowReads(f) ==
  /\ UNCHANGED History /\ UNCHANGED World /\ UNCHANGED <<fwRow, fwFollow, fwLock>> /\ FwOnly(f)
  /\ fwAtt[f].pc = "rows" /\ fwAtt'[f].pc = "next" /\ fwAtt'[f].kind = fwAtt[f].kind
  /\ fwAtt'[f].snap = fwRow[f] /\ fwAtt'[f].mon = fwSonarr.mon
FollowPlans(f) ==
  /\ UNCHANGED History /\ UNCHANGED World /\ UNCHANGED <<fwRow, fwFollow>>
  /\ fwAtt[f].pc = "next" /\ fwAtt[f].todo # {} /\ fwAtt[f].snap[Turn(f)].st \notin {"submitted", "available"}
  /\ \/ Turn(f) \in fwAtt[f].mon /\ FwGoes(f, "queue")
     \/ Turn(f) \notin fwAtt[f].mon /\ FwGoes(f, "monitor")
FollowFinds(f) ==
  /\ UNCHANGED History /\ UNCHANGED World /\ UNCHANGED fwFollow /\ fwAtt[f].pc \in {"next", "intent"} /\ FwSkips(f)
  /\ \/ UNCHANGED fwRow
     \/ RowOnly(f, Turn(f)) /\ fwRow'[f][Turn(f)].st = "available" /\ fwRow'[f][Turn(f)].cmd = fwRow[f][Turn(f)].cmd
FollowMonitors(f) ==
  /\ UNCHANGED History /\ UNCHANGED <<fwRow, fwFollow, fwCommand>> /\ fwAtt[f].pc = "monitor" /\ fwSonarr.series = "present"
  /\ fwSonarr' \in FwSonarr /\ fwSonarr'.series = "present" /\ fwSonarr'.queue = fwSonarr.queue
  /\ fwSonarr'.mon = fwSonarr.mon \union {Turn(f)}
  /\ FwGoes(f, "mark")
FollowMarks(f) ==
  /\ UNCHANGED History /\ UNCHANGED World /\ UNCHANGED fwFollow /\ fwAtt[f].pc = "mark" /\ FwGoes(f, "queue")
  /\ RowOnly(f, Turn(f)) /\ fwRow'[f][Turn(f)].st = "monitored" /\ fwRow'[f][Turn(f)].cmd = fwRow[f][Turn(f)].cmd
\* What an attempt finds of work under way for its episode: Sonarr shows it, nothing, another
\* follow's uncertain search, or its own.
FwShown(f) ==
  /\ RowOnly(f, Turn(f)) /\ FwSkips(f) /\ fwRow'[f][Turn(f)].st = "submitted" /\ Shows(Turn(f))
  /\ fwRow'[f][Turn(f)].cmd = fwRow[f][Turn(f)].cmd \/ fwRow'[f][Turn(f)].cmd > 0
FwClear(f) ==
  /\ UNCHANGED fwRow /\ FwGoes(f, "intent") /\ fwAtt[f].snap[Turn(f)].st # "searching"
  /\ \/ Following!Known(Turn(f), f)
     \/ \A g \in Party \ {f} : fwFollow[g].id => fwRow[g][Turn(f)].st # "searching"
FwCopies(f) ==
  /\ FwReconciles(f, {Turn(f)}) /\ (FwSkips(f) \/ FwEnds(f))
  /\ fwAtt[f].snap[Turn(f)].st # "searching" /\ fwFollow[f].id
  /\ \E g \in Party \ {f} : fwRow[g][Turn(f)].st = "searching" /\ fwRow'[f][Turn(f)].since = fwRow[g][Turn(f)].since
  /\ \/ fwRow'[f][Turn(f)].st = "searching" /\ fwRow'[f][Turn(f)].cmd \in {0, fwRow[f][Turn(f)].cmd}
     \/ fwRow'[f][Turn(f)].st = "available"
     \/ fwRow'[f][Turn(f)].st = "submitted" /\ Shows(Turn(f))
FwSettles(f) == FwReconciles(f, {}) /\ (FwSkips(f) \/ FwEnds(f))
FollowQueues(f) ==
  /\ UNCHANGED History /\ UNCHANGED World /\ FwFollows /\ fwAtt[f].pc = "queue"
  /\ FwShown(f) \/ FwClear(f) \/ FwCopies(f) \/ FwSettles(f)
FollowIntends(f) ==
  /\ UNCHANGED History /\ UNCHANGED World /\ UNCHANGED fwFollow /\ fwAtt[f].pc = "intent" /\ fwLock = f
  /\ FwGoes(f, "post") /\ RowOnly(f, Turn(f)) /\ fwRow'[f][Turn(f)].st = "searching"
  /\ fwRow'[f][Turn(f)].cmd = fwRow[f][Turn(f)].cmd /\ fwRow'[f][Turn(f)].since > 0
FollowSends(f) ==
  /\ fwAtt[f].pc = "post" /\ UNCHANGED <<fwSonarr, fwTouched>> /\ FwFollows /\ UNCHANGED fwRow /\ Following!Holds(f) /\ fwLock = f
  /\ fwPosts' = [fwPosts EXCEPT ![f][Turn(f)] = @ + 1] /\ fwReal \subseteq fwReal'
  /\ fwCommand \subseteq fwCommand' /\ fwCommand' \subseteq fwCommand \union {[ep |-> Turn(f), at |-> fwRow[f][Turn(f)].since]}
  /\ \/ /\ FwEnds(f)
        /\ \/ fwReal' = fwReal /\ fwCommand' = fwCommand
           \/ fwReal' = fwReal \union {Turn(f)}
     \/ FwGoes(f, "receipt") /\ fwReal' = fwReal \union {Turn(f)}
FollowReceives(f) ==
  /\ UNCHANGED History /\ UNCHANGED World /\ UNCHANGED fwFollow /\ fwAtt[f].pc = "receipt" /\ FwSkips(f)
  /\ RowOnly(f, Turn(f)) /\ fwRow'[f][Turn(f)].st = "submitted" /\ fwRow'[f][Turn(f)].cmd = fwRow[f][Turn(f)].since
FollowHalts ==
  /\ UNCHANGED History /\ UNCHANGED World /\ UNCHANGED <<fwRow, fwFollow>> /\ fwLock' = NoParty
  /\ fwAtt' \in [Party -> FwAtt] /\ \A f \in Party : fwAtt'[f].pc = "idle" /\ fwAtt'[f].kind = "none"
FollowLapses(f) ==
  /\ UNCHANGED History /\ UNCHANGED World /\ UNCHANGED <<fwRow, fwFollow, fwAtt>>
  /\ fwAtt[f].kind = "sweep" /\ fwLock = f /\ fwLock' = NoParty

\* Beside all that: what has a type of its own.
FollowRest ==
  /\ fwRequest' \in [Party -> FwRequest]
  /\ fwClock' \in 0 .. MaxSearch /\ fwFault' \in 0 .. MaxFault
FollowStep ==
  /\ FollowRest
  /\ \/ FollowRests \/ FollowTouched \/ FollowHalts
     \/ \E f \in Party :
          \/ FollowSaves(f) \/ FollowDelivers(f) \/ FollowChecks(f) \/ FollowSweeps(f) \/ FollowEnds(f)
          \/ FollowGoes(f) \/ FollowReads(f) \/ FollowPlans(f) \/ FollowFinds(f) \/ FollowMonitors(f)
          \/ FollowMarks(f) \/ FollowQueues(f) \/ FollowIntends(f) \/ FollowSends(f) \/ FollowReceives(f)
          \/ FollowLapses(f)

\* A set of numbers that is not empty has a least element.
LEMMA LeastExists == ASSUME NEW S \in SUBSET Nat, S # {} PROVE \E e \in S : \A d \in S : e <= d
<1>1. PICK e \in S : \A d \in S : ~(<<d, e>> \in OpToRel(<, Nat))
  BY WFMin, NatLessThanWellFounded
<1>2. \A d \in S : ~(d < e)
  BY <1>1 DEF OpToRel
<1>3. \A d \in S : e <= d
  BY <1>2
<1>4. QED
  BY <1>3

\* An attempt's episode is one it has to do.
LEMMA TurnIsTodo == ASSUME FollowTypes, NEW f \in Party, fwAtt[f].todo # {} PROVE Turn(f) \in fwAtt[f].todo /\ Turn(f) \in Episode
<1>1. fwAtt[f].todo \in SUBSET Nat /\ fwAtt[f].todo \subseteq Episode
  BY FollowAssumption DEF FollowTypes, FwAtt
<1>2. \E e \in fwAtt[f].todo : \A d \in fwAtt[f].todo : e <= d
  BY <1>1, LeastExists
<1>3. QED
  BY <1>1, <1>2 DEF Turn, Following!Next1

\* The episode an attempt is at depends on what it has to do alone.
LEMMA TurnStays == \A f \in Party : fwAtt'[f].todo = fwAtt[f].todo => Turn(f)' = Turn(f)
BY DEF Turn, Following!Next1

\* The row of an episode nobody asked for, and the attempt that is none.
LEMMA FollowNothing ==
  /\ Following!NoRow = [st |-> "none", owned |-> FALSE, cmd |-> 0, since |-> 0] /\ Following!NoRow \in FwRow
  /\ Following!Idle \in FwAtt /\ Following!Idle.kind = "none" /\ Following!Idle.pc = "idle"
<1>1. Following!NoRow = [st |-> "none", owned |-> FALSE, cmd |-> 0, since |-> 0] /\ Following!NoRow \in FwRow
  BY FollowAssumption DEF Following!NoRow, FwRow, Following!RowState
<1>2. [e \in Episode |-> Following!NoRow] \in [Episode -> FwRow]
  BY <1>1
<1>3. QED
  BY <1>1, <1>2 DEF Following!Idle, FwAtt

\* The ways an attempt moves, begins and ends.
LEMMA AttSets ==
  ASSUME FollowTypes, NEW f \in Party
  PROVE  /\ fwAtt[f] \in FwAtt
         /\ \A pc \in {"add", "watch", "activate", "rows", "next", "monitor", "mark", "queue", "intent", "post", "receipt"} :
              Following!Go(f, pc) => FwGoes(f, pc)
         /\ Following!Skip(f, Turn(f)) => FwSkips(f)
         /\ \A st : Following!End(f, st) => FwEnds(f)
         /\ \A kind \in {"first", "sweep"} : Following!Begin(f, kind) /\ Following!Claimable(f) => FwBegins(f, kind)
<1>1. fwAtt \in [Party -> FwAtt] /\ fwAtt[f] \in FwAtt
  BY DEF FollowTypes
<1>2. ASSUME NEW pc \in {"add", "watch", "activate", "rows", "next", "monitor", "mark", "queue", "intent", "post", "receipt"},
             Following!Go(f, pc)
      PROVE  FwGoes(f, pc)
  <2> DEFINE n == [fwAtt[f] EXCEPT !.pc = pc]
  <2>1. n \in FwAtt /\ n.pc = pc /\ n.kind = fwAtt[f].kind /\ n.snap = fwAtt[f].snap /\ n.mon = fwAtt[f].mon /\ n.todo = fwAtt[f].todo
    BY <1>1 DEF FwAtt
  <2>2. fwAtt' = [fwAtt EXCEPT ![f] = n] /\ fwLock' = fwLock
    BY <1>2 DEF Following!Go
  <2> HIDE DEF n
  <2>3. fwAtt' \in [Party -> FwAtt] /\ fwAtt'[f] = n /\ \A g \in Party : g # f => fwAtt'[g] = fwAtt[g]
    BY <1>1, <2>1, <2>2
  <2>4. QED
    BY <2>1, <2>2, <2>3 DEF FwGoes, FwOnly, FwKeeps
<1>3. ASSUME Following!Skip(f, Turn(f)) PROVE FwSkips(f)
  <2> DEFINE n == [fwAtt[f] EXCEPT !.pc = "next", !.todo = fwAtt[f].todo \ {Turn(f)}]
  <2>1. n \in FwAtt /\ n.pc = "next" /\ n.kind = fwAtt[f].kind /\ n.snap = fwAtt[f].snap /\ n.mon = fwAtt[f].mon
        /\ n.todo = fwAtt[f].todo \ {Turn(f)}
    BY <1>1 DEF FwAtt
  <2>2. fwAtt' = [fwAtt EXCEPT ![f] = n] /\ fwLock' = fwLock
    BY <1>1, <1>3 DEF Following!Skip
  <2> HIDE DEF n
  <2>3. fwAtt' \in [Party -> FwAtt] /\ fwAtt'[f] = n /\ \A g \in Party : g # f => fwAtt'[g] = fwAtt[g]
    BY <1>1, <2>1, <2>2
  <2>4. QED
    BY <2>1, <2>2, <2>3 DEF FwSkips, FwOnly, FwKeeps
<1>4. ASSUME NEW st, Following!End(f, st) PROVE FwEnds(f)
  BY <1>1, <1>4, FollowNothing DEF Following!End, FwEnds, FwOnly
<1>5. ASSUME NEW kind \in {"first", "sweep"}, Following!Begin(f, kind), Following!Claimable(f) PROVE FwBegins(f, kind)
  <2> DEFINE n == [Following!Idle EXCEPT !.kind = kind, !.pc = "series"]
  <2>1. n \in FwAtt /\ n.pc = "series" /\ n.kind = kind
    <3>1. [e \in Episode |-> Following!NoRow] \in [Episode -> FwRow]
      BY FollowNothing
    <3>2. QED
      BY <3>1 DEF Following!Idle, FwAtt
  <2>2. fwAtt' = [fwAtt EXCEPT ![f] = n] /\ fwLock' = f
    BY <1>5 DEF Following!Begin
  <2> HIDE DEF n
  <2>3. QED
    BY <1>1, <1>5, <2>1, <2>2 DEF Following!Claimable, FwBegins, FwOnly
<1>6. QED
  BY <1>1, <1>2, <1>3, <1>4, <1>5

\* One row, or the rows of one follow, are written.
LEMMA RowPut ==
  ASSUME FollowTypes, NEW f \in Party, NEW e \in Episode, NEW n \in FwRow, fwRow' = [fwRow EXCEPT ![f] = [fwRow[f] EXCEPT ![e] = n]]
  PROVE  RowOnly(f, e) /\ fwRow'[f][e] = n
<1>1. fwRow \in [Party -> [Episode -> FwRow]] /\ fwRow[f] \in [Episode -> FwRow]
  BY DEF FollowTypes
<1>2. [fwRow[f] EXCEPT ![e] = n] \in [Episode -> FwRow]
  BY <1>1
<1>3. fwRow'[f] = [fwRow[f] EXCEPT ![e] = n] /\ \A g \in Party : g # f => fwRow'[g] = fwRow[g]
  BY <1>1
<1>4. fwRow' \in [Party -> [Episode -> FwRow]]
  BY <1>1, <1>2
<1>5. QED
  BY <1>1, <1>3, <1>4 DEF RowOnly, RowsOf

\* The state of one row is written.
LEMMA RowSet ==
  ASSUME FollowTypes, NEW f \in Party, NEW e \in Episode, NEW st \in Following!RowState, fwRow' = Following!Set(f, e, st)
  PROVE  RowOnly(f, e) /\ fwRow'[f][e].st = st /\ fwRow'[f][e].cmd = fwRow[f][e].cmd /\ fwRow'[f][e].since = fwRow[f][e].since
<1> DEFINE n == [fwRow[f][e] EXCEPT !.st = st]
<1>1. fwRow \in [Party -> [Episode -> FwRow]] /\ fwRow[f] \in [Episode -> FwRow] /\ fwRow[f][e] \in FwRow
  BY DEF FollowTypes
<1>2. n \in FwRow /\ n.st = st /\ n.cmd = fwRow[f][e].cmd /\ n.since = fwRow[f][e].since
  BY <1>1 DEF FwRow
<1>3. fwRow' = [fwRow EXCEPT ![f] = [fwRow[f] EXCEPT ![e] = n]]
  BY <1>1 DEF Following!Set
<1> HIDE DEF n
<1>4. [fwRow[f] EXCEPT ![e] = n] \in [Episode -> FwRow]
  BY <1>1, <1>2
<1>5. fwRow'[f] = [fwRow[f] EXCEPT ![e] = n] /\ \A g \in Party : g # f => fwRow'[g] = fwRow[g]
  BY <1>1, <1>3
<1>6. fwRow' \in [Party -> [Episode -> FwRow]]
  BY <1>1, <1>3, <1>4
<1>7. QED
  BY <1>1, <1>2, <1>5, <1>6 DEF RowOnly, RowsOf

\* Episodes learned of late get their rows; no other row changes.
LEMMA RowsInserted ==
  ASSUME FollowTypes, NEW f \in Party, NEW C \in SUBSET Episode, fwRow' = Following!Inserted(f, C)
  PROVE  FwInserts(f)
<1>1. fwRow \in [Party -> [Episode -> FwRow]] /\ \A e \in Episode : fwRow[f][e] \in FwRow
  BY DEF FollowTypes
<1> DEFINE q == [Following!NoRow EXCEPT !.st = "queued"]
           x == [Following!NoRow EXCEPT !.st = "excluded"]
<1>2. q \in FwRow /\ q.st = "queued" /\ q.cmd = 0
  BY FollowNothing, FollowAssumption DEF FwRow, Following!RowState
<1>7. x \in FwRow /\ x.st = "excluded" /\ x.cmd = 0
  BY FollowNothing, FollowAssumption DEF FwRow, Following!RowState
<1> DEFINE R == [e \in Episode |-> IF fwAir[e] = 0 \/ fwRow[f][e].st # "none" THEN fwRow[f][e] ELSE IF e \in C THEN x ELSE q]
<1>3. fwRow' = [fwRow EXCEPT ![f] = R]
  BY DEF Following!Inserted
<1> HIDE DEF q, x
<1>4. R \in [Episode -> FwRow]
  BY <1>1, <1>2, <1>7
<1>5. \A e \in Episode : \/ R[e] = fwRow[f][e]
                         \/ fwRow[f][e].st = "none" /\ R[e].st \in {"excluded", "queued"} /\ R[e].cmd = 0
  BY <1>2, <1>7
<1> HIDE DEF R
<1>6. QED
  BY <1>1, <1>3, <1>4, <1>5 DEF FwInserts, RowsOf

\* The request of a follow, or its fault count, after a step.
LEMMA RequestSets ==
  ASSUME FollowTypes, NEW f \in Party
  PROVE  /\ \A st \in {"pending", "complete"} : Following!End(f, st) => fwRequest' \in [Party -> FwRequest]
         /\ fwRequest' = [fwRequest EXCEPT ![f].st = "pending"] => fwRequest' \in [Party -> FwRequest]
         /\ fwRequest' = [fwRequest EXCEPT ![f].adding = TRUE] => fwRequest' \in [Party -> FwRequest]
<1>1. fwRequest \in [Party -> FwRequest] /\ fwRequest[f] \in FwRequest
  BY DEF FollowTypes
<1>2. \A st \in {"pending", "complete"} : [fwRequest[f] EXCEPT !.st = st] \in FwRequest
  BY <1>1 DEF FwRequest
<1>3. [fwRequest[f] EXCEPT !.adding = TRUE] \in FwRequest
  BY <1>1 DEF FwRequest
<1>4. \A st \in {"pending", "complete"} : [fwRequest EXCEPT ![f].st = st] = [fwRequest EXCEPT ![f] = [fwRequest[f] EXCEPT !.st = st]]
  BY <1>1
<1>5. [fwRequest EXCEPT ![f].adding = TRUE] = [fwRequest EXCEPT ![f] = [fwRequest[f] EXCEPT !.adding = TRUE]]
  BY <1>1
<1>6. \A n \in FwRequest : [fwRequest EXCEPT ![f] = n] \in [Party -> FwRequest]
  BY <1>1
<1>7. QED
  BY <1>1, <1>2, <1>3, <1>4, <1>5, <1>6 DEF Following!End

\* Failures and searches stay within their bounds.
LEMMA FollowCounts ==
  ASSUME FollowTypes
  PROVE  /\ fwFault' = fwFault + 1 /\ fwFault < MaxFault => fwFault' \in 0 .. MaxFault
         /\ fwClock' = fwClock + 1 /\ fwClock < MaxSearch => fwClock' \in 0 .. MaxSearch
         /\ UNCHANGED fwFault => fwFault' \in 0 .. MaxFault
         /\ UNCHANGED fwClock => fwClock' \in 0 .. MaxSearch
         /\ UNCHANGED fwRequest => fwRequest' \in [Party -> FwRequest]
BY PartyAssumption, FollowAssumption DEF FollowTypes

\* A follow that changes never forgets its series, nor that it was stopped.
LEMMA FollowPut ==
  ASSUME FollowTypes, NEW f \in Party, NEW n \in FwFollow, fwFollow' = [fwFollow EXCEPT ![f] = n],
         fwFollow[f].id => n.id, fwFollow[f].st = "stopped" => n.st = "stopped"
  PROVE  FwFollows /\ fwFollow'[f] = n
<1>1. fwFollow \in [Party -> FwFollow]
  BY DEF FollowTypes
<1>2. QED
  BY <1>1 DEF FwFollows

\* Every write of a follow keeps its series, and keeps it stopped.
LEMMA FollowSets ==
  ASSUME FollowTypes, NEW f \in Party
  PROVE  /\ UNCHANGED fwFollow => FwFollows
         /\ \A as \in {"paused", "uncertain"} : fwFollow' = Following!Paused(f, as) => FwFollows
         /\ fwFollow' = [fwFollow EXCEPT ![f].st = "stopped"] => FwFollows
         /\ fwFollow' = [fwFollow EXCEPT ![f].st = "active"] /\ fwFollow[f].st = "uncertain" => FwFollows
         /\ fwFollow' = [fwFollow EXCEPT ![f].id = TRUE] => FwFollows /\ fwFollow'[f].id
         /\ fwFollow' = [fwFollow EXCEPT ![f].owned = 1] => FwFollows
         /\ fwFollow' = [fwFollow EXCEPT ![f].owned = IF @ = 1 THEN 2 ELSE @] => FwFollows /\ fwFollow'[f].id = fwFollow[f].id
         /\ fwFollow' = [fwFollow EXCEPT ![f].id = TRUE, ![f].owned = IF @ = 1 THEN 2 ELSE @] => FwFollows /\ fwFollow'[f].id
         /\ \A here \in BOOLEAN : fwFollow' = [Following!Paused(f, "paused") EXCEPT ![f].id = here \/ @] => FwFollows
<1>1. fwFollow \in [Party -> FwFollow] /\ fwFollow[f] \in FwFollow
  BY DEF FollowTypes
<1>2. \A st \in {"active", "paused", "uncertain", "stopped"} :
        LET n == [fwFollow[f] EXCEPT !.st = st] IN n \in FwFollow /\ n.st = st /\ n.id = fwFollow[f].id /\ n.owned = fwFollow[f].owned
  BY <1>1 DEF FwFollow
<1>3. \A o \in 0 .. 2 :
        LET n == [fwFollow[f] EXCEPT !.owned = o] IN n \in FwFollow /\ n.st = fwFollow[f].st /\ n.id = fwFollow[f].id
  BY <1>1 DEF FwFollow
<1>4. \A d \in BOOLEAN :
        LET n == [fwFollow[f] EXCEPT !.id = d] IN n \in FwFollow /\ n.st = fwFollow[f].st /\ n.id = d /\ n.owned = fwFollow[f].owned
  BY <1>1 DEF FwFollow
<1>5. fwFollow[f].owned \in 0 .. 2 /\ fwFollow[f].id \in BOOLEAN /\ fwFollow[f].st \in {"active", "paused", "uncertain", "stopped"}
  BY <1>1 DEF FwFollow
<1>6. ASSUME UNCHANGED fwFollow PROVE FwFollows
  BY <1>1, <1>6 DEF FwFollows
<1>7. ASSUME NEW as \in {"paused", "uncertain"}, fwFollow' = Following!Paused(f, as) PROVE FwFollows
  <2> DEFINE st == IF fwFollow[f].st = "active" THEN as ELSE fwFollow[f].st
             n == [fwFollow[f] EXCEPT !.st = st]
  <2>1. fwFollow' = [fwFollow EXCEPT ![f] = n]
    BY <1>1, <1>7 DEF Following!Paused
  <2>2. st \in {"active", "paused", "uncertain", "stopped"} /\ (fwFollow[f].st = "stopped" => st = "stopped")
    BY <1>5
  <2> HIDE DEF st
  <2>3. n \in FwFollow /\ n.st = st /\ n.id = fwFollow[f].id
    BY <1>2, <2>2
  <2> HIDE DEF n
  <2>4. QED
    BY <2>1, <2>2, <2>3, FollowPut
<1>8. ASSUME NEW st \in {"stopped", "active"}, fwFollow' = [fwFollow EXCEPT ![f].st = st],
             st = "active" => fwFollow[f].st = "uncertain"
      PROVE  FwFollows
  <2> DEFINE n == [fwFollow[f] EXCEPT !.st = st]
  <2>1. fwFollow' = [fwFollow EXCEPT ![f] = n]
    BY <1>1, <1>8
  <2>2. n \in FwFollow /\ n.st = st /\ n.id = fwFollow[f].id
    BY <1>2
  <2> HIDE DEF n
  <2>3. QED
    BY <1>8, <2>1, <2>2, FollowPut
<1>9. ASSUME fwFollow' = [fwFollow EXCEPT ![f].id = TRUE] PROVE FwFollows /\ fwFollow'[f].id
  <2> DEFINE n == [fwFollow[f] EXCEPT !.id = TRUE]
  <2>1. fwFollow' = [fwFollow EXCEPT ![f] = n]
    BY <1>1, <1>9
  <2>2. n \in FwFollow /\ n.st = fwFollow[f].st /\ n.id = TRUE
    BY <1>4
  <2> HIDE DEF n
  <2>3. QED
    BY <2>1, <2>2, FollowPut
<1>10. ASSUME NEW o \in 0 .. 2, fwFollow' = [fwFollow EXCEPT ![f].owned = o] PROVE FwFollows /\ fwFollow'[f].id = fwFollow[f].id
  <2> DEFINE n == [fwFollow[f] EXCEPT !.owned = o]
  <2>1. fwFollow' = [fwFollow EXCEPT ![f] = n]
    BY <1>1, <1>10
  <2>2. n \in FwFollow /\ n.st = fwFollow[f].st /\ n.id = fwFollow[f].id
    BY <1>3
  <2> HIDE DEF n
  <2>3. QED
    BY <2>1, <2>2, FollowPut
<1>11. ASSUME fwFollow' = [fwFollow EXCEPT ![f].owned = IF @ = 1 THEN 2 ELSE @] PROVE FwFollows /\ fwFollow'[f].id = fwFollow[f].id
  <2>1. PICK o \in 0 .. 2 : o = IF fwFollow[f].owned = 1 THEN 2 ELSE fwFollow[f].owned
    BY <1>5
  <2>2. fwFollow' = [fwFollow EXCEPT ![f].owned = o]
    BY <1>1, <1>11, <2>1
  <2>3. QED
    BY <1>10, <2>2
<1>12. ASSUME fwFollow' = [fwFollow EXCEPT ![f].id = TRUE, ![f].owned = IF @ = 1 THEN 2 ELSE @] PROVE FwFollows /\ fwFollow'[f].id
  <2>1. PICK o \in 0 .. 2 : o = IF fwFollow[f].owned = 1 THEN 2 ELSE fwFollow[f].owned
    BY <1>5
  <2> DEFINE n == [fwFollow[f] EXCEPT !.id = TRUE, !.owned = o]
  <2>2. fwFollow' = [fwFollow EXCEPT ![f] = n]
    BY <1>1, <1>12, <2>1 DEF FwFollow
  <2>3. n \in FwFollow /\ n.st = fwFollow[f].st /\ n.id = TRUE
    BY <1>1 DEF FwFollow
  <2> HIDE DEF n
  <2>4. QED
    BY <2>2, <2>3, FollowPut
<1>13. ASSUME NEW here \in BOOLEAN, fwFollow' = [Following!Paused(f, "paused") EXCEPT ![f].id = here \/ @] PROVE FwFollows
  <2>1. PICK d \in BOOLEAN : d = (here \/ fwFollow[f].id)
    BY <1>5
  <2>2. PICK st \in {"active", "paused", "uncertain", "stopped"} :
          st = IF fwFollow[f].st = "active" THEN "paused" ELSE fwFollow[f].st
    BY <1>5
  <2> DEFINE n == [fwFollow[f] EXCEPT !.st = st, !.id = d]
  <2>3. Following!Paused(f, "paused") = [fwFollow EXCEPT ![f] = [fwFollow[f] EXCEPT !.st = st]]
    BY <1>1, <2>2 DEF Following!Paused
  <2>4. [fwFollow[f] EXCEPT !.st = st].id = fwFollow[f].id
    BY <1>1, <1>2
  <2>5. fwFollow' = [fwFollow EXCEPT ![f] = n]
    BY <1>1, <1>13, <2>1, <2>3, <2>4
  <2>6. n \in FwFollow /\ n.st = st /\ n.id = d
    BY <1>1 DEF FwFollow
  <2> HIDE DEF n
  <2>7. QED
    BY <2>1, <2>2, <2>5, <2>6, FollowPut
<1>14. QED
  BY <1>6, <1>7, <1>8, <1>9, <1>10, <1>11, <1>12, <1>13

\* What reconciliation makes of a row.
LEMMA ReconciledRow ==
  ASSUME FollowTypes, NEW e \in Episode, NEW a \in FwRow
  PROVE  LET b == [a EXCEPT !.st = Following!Evidence(e, a.since), !.cmd = Following!Found(e, a.since)]
         IN b \in FwRow /\ (a.st = "searching" => RecRow(e, a, b))
<1> DEFINE s == {c.at : c \in {c \in fwCommand : c.ep = e /\ c.at >= a.since}}
           v == Following!Evidence(e, a.since)
           w == Following!Found(e, a.since)
           b == [a EXCEPT !.st = v, !.cmd = w]
<1>1. fwCommand \subseteq [ep : Episode, at : 0 .. MaxSearch]
  BY DEF FollowTypes
<1>2. s \subseteq 0 .. MaxSearch
  BY <1>1
<1>3. w \in 0 .. MaxSearch
  BY <1>2, FollowAssumption DEF Following!Found
<1>4. v \in {"submitted", "available", "searching"}
  BY DEF Following!Evidence
<1>5. v = "submitted" => Shows(e)
  BY DEF Following!Evidence, Shows
<1>6. v = "searching" => w = 0
  BY DEF Following!Evidence, Following!Found
<1> HIDE DEF v, w
<1>7. b \in FwRow /\ b.st = v /\ b.cmd = w /\ b.since = a.since
  BY <1>3, <1>4 DEF FwRow, Following!RowState
<1> HIDE DEF b
<1>8. b \in FwRow /\ (a.st = "searching" => RecRow(e, a, b))
  BY <1>4, <1>5, <1>6, <1>7 DEF RecRow
<1>9. QED
  BY <1>8 DEF b, v, w

\* Reconciling the rows R of a follow.
LEMMA RowsReconciled ==
  ASSUME FollowTypes, NEW f \in Party, NEW R \in [Episode -> FwRow]
  PROVE  /\ Following!Reconciled(f, R) \in [Episode -> FwRow]
         /\ \A e \in Episode : RecRow(e, R[e], Following!Reconciled(f, R)[e])
<1>1. CASE fwFollow[f].st \notin {"active", "uncertain"} \/ fwSonarr.series = "absent" \/ ~fwFollow[f].id
  BY <1>1 DEF Following!Reconciled, RecRow
<1>2. CASE ~(fwFollow[f].st \notin {"active", "uncertain"} \/ fwSonarr.series = "absent" \/ ~fwFollow[f].id)
  <2> DEFINE New(e) == [R[e] EXCEPT !.st = Following!Evidence(e, R[e].since), !.cmd = Following!Found(e, R[e].since)]
  <2>1. Following!Reconciled(f, R) = [e \in Episode |-> IF R[e].st # "searching" THEN R[e] ELSE New(e)]
    BY <1>2 DEF Following!Reconciled
  <2>2. \A e \in Episode : New(e) \in FwRow /\ (R[e].st = "searching" => RecRow(e, R[e], New(e)))
    BY ReconciledRow
  <2>3. \A e \in Episode : RecRow(e, R[e], R[e])
    BY DEF RecRow
  <2> HIDE DEF New
  <2>4. QED
    BY <2>1, <2>2, <2>3
<1>3. QED
  BY <1>1, <1>2

\* Writing reconciled rows back.
LEMMA RowsPut ==
  ASSUME FollowTypes, NEW f \in Party, NEW R \in [Episode -> FwRow], fwRow' = [fwRow EXCEPT ![f] = R]
  PROVE  RowsOf(f) /\ fwRow'[f] = R
<1>1. fwRow \in [Party -> [Episode -> FwRow]]
  BY DEF FollowTypes
<1>2. QED
  BY <1>1 DEF RowsOf

\* Reconciling a follow changes its uncertain rows alone.
LEMMA ReconcileEffect ==
  ASSUME FollowTypes, NEW f \in Party, Following!Reconcile(f) PROVE FwReconciles(f, {}) /\ FwFollows
<1>1. fwRow[f] \in [Episode -> FwRow]
  BY DEF FollowTypes
<1>2. PICK R : R = Following!Reconciled(f, fwRow[f])
  OBVIOUS
<1>3. R \in [Episode -> FwRow] /\ \A e \in Episode : RecRow(e, fwRow[f][e], R[e])
  BY <1>1, <1>2, RowsReconciled
<1>4. fwRow' = [fwRow EXCEPT ![f] = R]
  BY <1>2 DEF Following!Reconcile
<1>5. FwReconciles(f, {})
  BY <1>3, <1>4, RowsPut DEF FwReconciles
<1>6. FwFollows
  BY FollowSets DEF Following!Reconcile, Following!Revived
<1>7. QED
  BY <1>5, <1>6

\* What the actions around attempts do.
LEMMA AroundEffect ==
  ASSUME FollowTypes, FollowTurns,
         \/ \E f \in Party : Following!Stop(f)
         \/ \E e \in Episode : Following!Air(e) \/ Following!Download(e)
         \/ Following!Refreshed \/ Following!SearchEnds
  PROVE  FollowRests /\ FollowRest
<1> USE DEF FollowRests, FollowRest
<1>1. /\ fwSonarr \in FwSonarr /\ fwFollow \in [Party -> FwFollow] /\ fwReal \subseteq Episode
      /\ fwCommand \subseteq [ep : Episode, at : 0 .. MaxSearch]
  BY DEF FollowTypes
<1>2. ASSUME NEW f \in Party, Following!Stop(f) PROVE FollowRests /\ FollowRest
  <2>1. fwRequest' \in [Party -> FwRequest] /\ fwClock' \in 0 .. MaxSearch /\ fwFault' \in 0 .. MaxFault
    BY <1>2, FollowCounts DEF Following!Stop
  <2>2. FwFollows
    BY <1>2, FollowSets DEF Following!Stop
  <2>3. QED
    BY <1>1, <1>2, <2>1, <2>2 DEF Following!Stop
<1>3. ASSUME UNCHANGED <<fwFollow, fwRequest, fwRow, fwLock, fwAtt, fwClock, fwPosts, fwTouched, fwFault>>,
             fwCommand' \subseteq fwCommand, fwSonarr' \in FwSonarr, fwSonarr'.mon = fwSonarr.mon,
             fwSonarr'.series = "absent" <=> fwSonarr.series = "absent", fwReal \subseteq fwReal', fwReal' \subseteq Episode,
             fwSonarr'.queue \subseteq fwSonarr.queue \union fwReal'
      PROVE  FollowRests /\ FollowRest
  <2>1. FwFollows
    BY <1>1, <1>3 DEF FwFollows
  <2>2. QED
    BY <1>3, <2>1, FollowCounts
<1>4. ASSUME NEW e \in Episode, Following!Air(e) PROVE FollowRests /\ FollowRest
  BY <1>1, <1>3, <1>4 DEF Following!Air
<1>5. ASSUME NEW e \in Episode, Following!Download(e) PROVE FollowRests /\ FollowRest
  <2>1. CASE fwSonarr' = [fwSonarr EXCEPT !.queue = @ \union {e}] /\ fwReal' = fwReal \union {e}
    <3>1. /\ fwSonarr' \in FwSonarr /\ fwSonarr'.mon = fwSonarr.mon /\ fwSonarr'.series = fwSonarr.series
          /\ fwSonarr'.queue = fwSonarr.queue \union {e}
      BY <1>1, <2>1 DEF FwSonarr
    <3>2. QED
      BY <1>1, <1>3, <1>5, <2>1, <3>1 DEF Following!Download
  <2>2. ASSUME NEW F \in {fwSonarr.file, fwSonarr.file \union {e}}, UNCHANGED fwReal,
               fwSonarr' = [fwSonarr EXCEPT !.queue = @ \ {e}, !.file = F]
        PROVE  FollowRests /\ FollowRest
    <3>1. F \subseteq Episode
      BY <1>1, <2>2 DEF FwSonarr
    <3>2. /\ fwSonarr' \in FwSonarr /\ fwSonarr'.mon = fwSonarr.mon /\ fwSonarr'.series = fwSonarr.series
          /\ fwSonarr'.queue = fwSonarr.queue \ {e}
      BY <1>1, <2>2, <3>1 DEF FwSonarr
    <3>3. QED
      BY <1>1, <1>3, <1>5, <2>2, <3>2 DEF Following!Download
  <2>3. QED
    BY <1>5, <2>1, <2>2 DEF Following!Download
<1>6. ASSUME Following!Refreshed PROVE FollowRests /\ FollowRest
  <2>1. /\ fwSonarr' \in FwSonarr /\ fwSonarr'.mon = fwSonarr.mon /\ fwSonarr'.series = "present"
        /\ fwSonarr'.queue = fwSonarr.queue /\ fwSonarr.series = "adding"
    BY <1>1, <1>6 DEF FwSonarr, Following!Refreshed
  <2>2. QED
    BY <1>1, <1>3, <1>6, <2>1 DEF Following!Refreshed
<1>7. ASSUME Following!SearchEnds PROVE FollowRests /\ FollowRest
  BY <1>1, <1>3, <1>7 DEF Following!SearchEnds
<1>8. QED
  BY <1>2, <1>4, <1>5, <1>6, <1>7

\* What somebody changes by hand is marked.
LEMMA ByHandEffect == ASSUME FollowTypes, Following!ByHand PROVE FollowTouched /\ FollowRest
<1>1. fwSonarr \in FwSonarr /\ fwTouched \subseteq Episode
  BY DEF FollowTypes
<1>2. FollowRest
  BY FollowCounts DEF Following!ByHand, FollowRest
<1>3. CASE fwSonarr' = [fwSonarr EXCEPT !.watched = ~@] /\ UNCHANGED fwTouched
  <2>1. fwSonarr' \in FwSonarr /\ fwSonarr'.queue = fwSonarr.queue /\ fwSonarr'.mon = fwSonarr.mon /\ fwSonarr'.series = fwSonarr.series
    BY <1>1, <1>3 DEF FwSonarr
  <2>2. QED
    BY <1>1, <1>2, <1>3, <2>1 DEF Following!ByHand, FollowTouched
<1>4. CASE /\ fwSonarr' = [fwSonarr EXCEPT !.series = "absent", !.mon = {}, !.queue = {}, !.file = {}]
           /\ fwTouched' = fwTouched \union fwSonarr.mon
  <2>1. fwSonarr' \in FwSonarr /\ fwSonarr'.queue = {} /\ fwSonarr'.mon = {} /\ fwSonarr.mon \subseteq Episode
    BY <1>1, <1>4 DEF FwSonarr
  <2>2. QED
    BY <1>1, <1>2, <1>4, <2>1 DEF Following!ByHand, FollowTouched
<1>5. ASSUME NEW e \in Episode, fwSonarr' = [fwSonarr EXCEPT !.mon = (@ \union {e}) \ (@ \intersect {e})],
             fwTouched' = fwTouched \union {e}
      PROVE  FollowTouched /\ FollowRest
  <2>1. /\ fwSonarr' \in FwSonarr /\ fwSonarr'.queue = fwSonarr.queue /\ fwSonarr'.series = fwSonarr.series
        /\ fwSonarr'.mon = (fwSonarr.mon \union {e}) \ (fwSonarr.mon \intersect {e})
    BY <1>1, <1>5 DEF FwSonarr
  <2>2. QED
    BY <1>1, <1>2, <1>5, <2>1 DEF Following!ByHand, FollowTouched
<1>6. QED
  BY <1>3, <1>4, <1>5 DEF Following!ByHand

\* How rows and attempts come into being, and how attempts are lost.
LEMMA StartEffect ==
  ASSUME FollowTypes, NEW f \in Party
  PROVE  /\ Following!Save(f) => FollowSaves(f) /\ FollowRest
         /\ Following!Deliver(f) => FollowDelivers(f) /\ FollowRest
         /\ Following!SweepUncertain(f) => FollowChecks(f) /\ FollowRest
         /\ Following!Sweep(f) => FollowSweeps(f) /\ FollowRest
         /\ Following!Lapse(f) => FollowLapses(f) /\ FollowRest
         /\ Following!Crash => FollowHalts /\ FollowRest
<1> USE DEF FollowRest, History, World
<1>1. ASSUME Following!Save(f) PROVE FollowSaves(f) /\ FollowRest
  <2>1. PICK C \in SUBSET Episode : fwRow' = Following!Inserted(f, C)
    BY <1>1 DEF Following!Save
  <2>2. FwInserts(f)
    BY <2>1, RowsInserted
  <2>3. fwRequest' \in [Party -> FwRequest] /\ fwClock' \in 0 .. MaxSearch /\ fwFault' \in 0 .. MaxFault
    BY <1>1, RequestSets, FollowCounts DEF Following!Save
  <2>4. QED
    BY <1>1, <2>2, <2>3 DEF Following!Save, FollowSaves
<1>2. ASSUME Following!Deliver(f) PROVE FollowDelivers(f) /\ FollowRest
  <2>1. FwReconciles(f, {}) /\ FwFollows
    BY <1>2, ReconcileEffect DEF Following!Deliver
  <2>2. FwBegins(f, "first")
    BY <1>2, AttSets DEF Following!Deliver
  <2>3. QED
    BY <1>2, <2>1, <2>2, FollowCounts DEF Following!Deliver, FollowDelivers
<1>3. ASSUME Following!SweepUncertain(f) PROVE FollowChecks(f) /\ FollowRest
  <2>1. FwReconciles(f, {}) /\ FwFollows
    BY <1>3, ReconcileEffect DEF Following!SweepUncertain
  <2>2. QED
    BY <1>3, <2>1, FollowCounts DEF Following!SweepUncertain, FollowChecks
<1>4. ASSUME Following!Sweep(f) PROVE FollowSweeps(f) /\ FollowRest
  <2>1. FwBegins(f, "sweep")
    BY <1>4, AttSets DEF Following!Sweep
  <2>2. QED
    BY <1>4, <2>1, FollowCounts DEF Following!Sweep, FollowSweeps
<1>5. ASSUME Following!Lapse(f) PROVE FollowLapses(f) /\ FollowRest
  BY <1>5, FollowCounts DEF Following!Lapse, FollowLapses
<1>6. ASSUME Following!Crash PROVE FollowHalts /\ FollowRest
  <2>1. fwAtt' = [g \in Party |-> Following!Idle] /\ fwLock' = NoParty
    BY <1>6 DEF Following!Crash, Following!Expired
  <2>2. fwAtt' \in [Party -> FwAtt] /\ \A g \in Party : fwAtt'[g].pc = "idle" /\ fwAtt'[g].kind = "none"
    BY <2>1, FollowNothing
  <2>3. QED
    BY <1>6, <2>1, <2>2, FollowCounts DEF Following!Crash, FollowHalts
<1>7. QED
  BY <1>1, <1>2, <1>3, <1>4, <1>5, <1>6

\* An attempt that ends without a write to Sonarr.
LEMMA EndsQuietly ==
  ASSUME FollowTypes, NEW f \in Party, NEW st \in {"pending", "complete"}, Following!End(f, st), FwFollows,
         UNCHANGED <<fwRow, fwSonarr, fwCommand, fwClock, fwPosts, fwReal, fwTouched>>, fwFault' \in 0 .. MaxFault
  PROVE  FollowEnds(f) /\ FollowRest
<1>1. FwEnds(f) /\ fwRequest' \in [Party -> FwRequest]
  BY AttSets, RequestSets
<1>2. fwSonarr \in FwSonarr
  BY DEF FollowTypes
<1>3. QED
  BY <1>1, <1>2, FollowCounts DEF FollowEnds, FollowRest, History

\* An attempt that goes on to the series' next step.
LEMMA GoesOn ==
  ASSUME FollowTypes, NEW f \in Party, NEW pc \in {"add", "watch", "activate", "rows"}, Following!Go(f, pc), FwFollows,
         FwInserts(f), UNCHANGED <<fwRequest, fwCommand, fwClock, fwPosts, fwReal, fwTouched, fwFault>>,
         fwAtt[f].pc \in {"series", "watch", "activate"},
         fwSonarr' \in FwSonarr, fwSonarr'.queue = fwSonarr.queue, fwSonarr'.mon = fwSonarr.mon, fwSonarr'.series = fwSonarr.series,
         IF pc = "add" THEN fwAtt[f].kind = "first" /\ fwSonarr.series = "absent" ELSE fwFollow'[f].id
  PROVE  FollowGoes(f) /\ FollowRest
<1>1. FwGoes(f, pc)
  BY AttSets
<1>2. FollowRest
  BY FollowCounts DEF FollowRest
<1>3. QED
  BY <1>1, <1>2 DEF FollowGoes, History

\* Rows nobody writes are no new rows.
LEMMA RowsStayed == ASSUME FollowTypes, NEW f \in Party, UNCHANGED fwRow PROVE FwInserts(f)
BY DEF FollowTypes, FwInserts, RowsOf

\* The look at the series.
LEMMA SeriesEffect == ASSUME FollowTypes, NEW f \in Party, Following!Series(f) PROVE (FollowGoes(f) \/ FollowEnds(f)) /\ FollowRest
<1> DEFINE add == Following!First(f) /\ fwSonarr.series = "absent" /\ ~fwFollow[f].id /\ ~fwRequest[f].adding
           here == fwSonarr.series = "present" /\ (Following!First(f) \/ fwFollow[f].id)
           watch == Following!First(f) /\ here /\ ~fwSonarr.watched /\ fwFollow[f].owned = 1
<1>1. /\ fwAtt[f].pc = "series" /\ fwSonarr \in FwSonarr
      /\ UNCHANGED <<fwSonarr, fwCommand, fwClock, fwPosts, fwReal, fwTouched, fwFault>>
  BY DEF Following!Series, Following!At, FollowTypes
<1>2. fwFault' \in 0 .. MaxFault
  BY <1>1, FollowCounts
<1>3. CASE add /\ Following!Go(f, "add") /\ UNCHANGED <<fwFollow, fwRequest, fwRow>>
  <2>1. FwFollows /\ FwInserts(f)
    BY <1>3, FollowSets, RowsStayed
  <2>2. QED
    BY <1>1, <1>3, <2>1, GoesOn DEF Following!First
<1>4. CASE Following!End(f, "pending") /\ UNCHANGED <<fwFollow, fwRow>>
  <2>1. FwFollows
    BY <1>4, FollowSets
  <2>2. QED
    BY <1>1, <1>2, <1>4, <2>1, EndsQuietly
<1>5. CASE Following!Go(f, "watch") /\ fwFollow' = [fwFollow EXCEPT ![f].id = TRUE] /\ UNCHANGED <<fwRequest, fwRow>>
  <2>1. FwFollows /\ fwFollow'[f].id /\ FwInserts(f)
    BY <1>5, FollowSets, RowsStayed
  <2>2. QED
    BY <1>1, <1>5, <2>1, GoesOn
<1>6. CASE /\ here /\ Following!Go(f, "rows") /\ UNCHANGED fwRequest
           /\ fwFollow' = IF Following!First(f) THEN [fwFollow EXCEPT ![f].id = TRUE, ![f].owned = IF @ = 1 THEN 2 ELSE @]
                          ELSE fwFollow
           /\ \E C \in SUBSET Episode : fwRow' = IF Following!First(f) THEN fwRow ELSE Following!Inserted(f, C)
  <2>1. FwFollows /\ fwFollow'[f].id
    <3>1. CASE Following!First(f)
      BY <1>6, <3>1, FollowSets
    <3>2. CASE ~Following!First(f)
      BY <1>6, <3>2, FollowSets
    <3>3. QED
      BY <3>1, <3>2
  <2>2. FwInserts(f)
    BY <1>6, RowsStayed, RowsInserted
  <2>3. QED
    BY <1>1, <1>6, <2>1, <2>2, GoesOn
<1>7. CASE fwFollow' = [Following!Paused(f, "paused") EXCEPT ![f].id = here \/ @] /\ Following!End(f, "pending") /\ UNCHANGED fwRow
  <2>1. PICK h \in BOOLEAN : h = here
    OBVIOUS
  <2>2. fwFollow' = [Following!Paused(f, "paused") EXCEPT ![f].id = h \/ @]
    BY <1>7, <2>1
  <2>3. FwFollows
    BY <2>2, FollowSets
  <2>4. QED
    BY <1>1, <1>2, <1>7, <2>3, EndsQuietly
<1>8. QED
  BY <1>3, <1>4, <1>5, <1>6, <1>7 DEF Following!Series

\* Adding the series, monitoring it, and the mark of that.
LEMMA AddsEffect == ASSUME FollowTypes, FollowTurns, NEW f \in Party, Following!Add(f) PROVE FollowEnds(f) /\ FollowRest
<1>1. /\ fwAtt[f].pc = "add" /\ fwSonarr \in FwSonarr /\ fwAtt[f].kind = "first" /\ fwLock = f
      /\ fwSonarr.series = "absent" /\ fwSonarr.mon = {} /\ fwAtt \in [Party -> FwAtt]
  BY DEF Following!Add, Following!At, FollowTypes, FollowTurns, TurnOf
<1>2. fwAtt' = [fwAtt EXCEPT ![f] = Following!Idle] /\ fwLock' = NoParty
  BY DEF Following!Add
<1>3. FwEnds(f)
  BY <1>1, <1>2, FollowNothing DEF FwEnds, FwOnly
<1>4. FwFollows
  BY FollowSets DEF Following!Add
<1>5. fwSonarr' = [fwSonarr EXCEPT !.series = "adding", !.watched = FALSE, !.mon = {}]
  BY DEF Following!Add
<1>6. fwSonarr' \in FwSonarr /\ fwSonarr'.queue = fwSonarr.queue /\ fwSonarr'.series = "adding"
  BY <1>1, <1>5 DEF FwSonarr
<1>7. fwRequest' \in [Party -> FwRequest] /\ fwClock' \in 0 .. MaxSearch /\ fwFault' \in 0 .. MaxFault
  BY RequestSets, FollowCounts DEF Following!Add, Following!Lost
<1>8. QED
  BY <1>1, <1>3, <1>4, <1>6, <1>7 DEF Following!Add, FollowEnds, FollowRest, History

\* Monitoring the series, and the mark of that.
LEMMA WatchEffect ==
  ASSUME FollowTypes, FollowTurns, NEW f \in Party, Following!Watch(f) \/ Following!Activate(f)
  PROVE  (FollowGoes(f) \/ FollowEnds(f)) /\ FollowRest
<1>1. /\ fwAtt[f].pc \in {"watch", "activate"} /\ fwSonarr \in FwSonarr /\ fwFollow[f].id
      /\ UNCHANGED <<fwRow, fwCommand, fwClock, fwPosts, fwReal, fwTouched>>
  BY DEF Following!Watch, Following!Activate, Following!At, FollowTypes, FollowTurns, TurnOf
<1>2. FwInserts(f)
  BY <1>1, RowsStayed
<1>3. CASE Following!Activate(f)
  <2>1. FwFollows /\ fwFollow'[f].id
    BY <1>1, <1>3, FollowSets DEF Following!Activate
  <2>2. QED
    BY <1>1, <1>2, <1>3, <2>1, GoesOn DEF Following!Activate
<1>4. CASE Following!Watch(f) /\ Following!Written /\ fwSonarr' = [fwSonarr EXCEPT !.watched = TRUE]
  <2>1. /\ fwSonarr' \in FwSonarr /\ fwSonarr'.queue = fwSonarr.queue /\ fwSonarr'.mon = fwSonarr.mon
        /\ fwSonarr'.series = fwSonarr.series
    BY <1>1, <1>4 DEF FwSonarr
  <2>2. FwFollows /\ fwFollow'[f].id
    BY <1>1, <1>4, FollowSets DEF Following!Watch
  <2>3. CASE Following!Go(f, "activate") /\ UNCHANGED <<fwRequest, fwFault>>
    BY <1>1, <1>2, <2>1, <2>2, <2>3, GoesOn
  <2>4. CASE Following!Lost /\ Following!End(f, "pending")
    <3>1. FwEnds(f) /\ fwRequest' \in [Party -> FwRequest] /\ fwFault' \in 0 .. MaxFault
      BY <2>4, AttSets, RequestSets, FollowCounts DEF Following!Lost
    <3>2. QED
      BY <1>1, <2>1, <2>2, <3>1, FollowCounts DEF FollowEnds, FollowRest, History
  <2>5. QED
    BY <1>4, <2>3, <2>4 DEF Following!Watch
<1>5. CASE Following!Watch(f) /\ Following!End(f, "pending") /\ UNCHANGED <<fwSonarr, fwFault>>
  <2>1. FwFollows /\ fwFault' \in 0 .. MaxFault
    BY <1>5, FollowSets, FollowCounts DEF Following!Watch
  <2>2. QED
    BY <1>1, <1>5, <2>1, EndsQuietly
<1>6. QED
  BY <1>3, <1>4, <1>5 DEF Following!Watch

\* An attempt that stops, and one that is done.
LEMMA StopEffect ==
  ASSUME FollowTypes, NEW f \in Party, Following!Refuse(f) \/ Following!Superseded(f) \/ Following!Done(f)
  PROVE  FollowEnds(f) /\ FollowRest
<1>1. CASE Following!Refuse(f)
  <2>1. FwFollows /\ fwFault' \in 0 .. MaxFault
    BY <1>1, FollowSets, FollowCounts DEF Following!Refuse
  <2>2. QED
    BY <1>1, <2>1, EndsQuietly DEF Following!Refuse
<1>2. CASE Following!Superseded(f)
  <2>1. FwFollows /\ fwFault' \in 0 .. MaxFault
    BY <1>2, FollowSets, FollowCounts DEF Following!Superseded
  <2>2. QED
    BY <1>2, <2>1, EndsQuietly DEF Following!Superseded
<1>3. CASE Following!Done(f)
  <2>1. FwFollows /\ fwFault' \in 0 .. MaxFault
    BY <1>3, FollowSets, FollowCounts DEF Following!Done
  <2>2. PICK st \in {"pending", "complete"} : Following!End(f, st)
    BY <1>3 DEF Following!Done
  <2>3. QED
    BY <1>3, <2>1, <2>2, EndsQuietly DEF Following!Done
<1>4. QED
  BY <1>1, <1>2, <1>3

\* Reading the rows, and looking at the next episode.
LEMMA ReadsEffect == ASSUME FollowTypes, NEW f \in Party, Following!Rows(f) PROVE FollowReads(f) /\ FollowRest
<1>1. fwAtt \in [Party -> FwAtt] /\ fwAtt[f] \in FwAtt /\ fwRow[f] \in [Episode -> FwRow] /\ fwSonarr \in FwSonarr
  BY DEF FollowTypes
<1> DEFINE todo == {e \in Episode : fwRow[f][e].st # "none"}
           n == [fwAtt[f] EXCEPT !.pc = "next", !.snap = fwRow[f], !.mon = fwSonarr.mon, !.file = fwSonarr.file, !.todo = todo]
<1>2. fwAtt' = [fwAtt EXCEPT ![f] = n]
  BY <1>1 DEF Following!Rows
<1>3. fwSonarr.mon \subseteq Episode /\ fwSonarr.file \subseteq Episode
  BY <1>1 DEF FwSonarr
<1>4. n \in FwAtt /\ n.pc = "next" /\ n.kind = fwAtt[f].kind /\ n.snap = fwRow[f] /\ n.mon = fwSonarr.mon
  BY <1>1, <1>3 DEF FwAtt
<1> HIDE DEF n
<1>5. FwOnly(f) /\ fwAtt'[f] = n
  BY <1>1, <1>2, <1>4 DEF FwOnly
<1>6. QED
  BY <1>4, <1>5, FollowCounts DEF Following!Rows, Following!At, FollowReads, FollowRest, History, World

\* What an attempt does about its next episode.
LEMMA LookEffect ==
  ASSUME FollowTypes, NEW f \in Party, Following!Look(f)
  PROVE  (FollowFinds(f) \/ FollowEnds(f) \/ FollowPlans(f)) /\ FollowRest
<1> DEFINE e == Turn(f)
           s == fwAtt[f].snap[e]
           unmonitored == s.owned /\ e \notin fwAtt[f].mon
           nothing == \/ s.st = "excluded" \/ (fwAir[e] < 2 /\ Following!Unmet(s) /\ ~s.owned)
                      \/ (~unmonitored /\ s.st \in {"available", "submitted"})
<1>1. /\ fwAtt[f].pc = "next" /\ fwAtt[f].todo # {}
      /\ UNCHANGED <<fwSonarr, fwCommand, fwClock, fwPosts, fwReal, fwTouched, fwFault>>
  BY DEF Following!Look, Following!At
<1>2. e \in fwAtt[f].todo /\ e \in Episode
  BY <1>1, TurnIsTodo
<1>3. fwFault' \in 0 .. MaxFault
  BY <1>1, FollowCounts
<1>4. CASE Following!Skip(f, e) /\ UNCHANGED <<fwFollow, fwRequest>> /\ (UNCHANGED fwRow \/ fwRow' = Following!Set(f, e, "available"))
  <2>1. FwSkips(f)
    BY <1>4, AttSets
  <2>2. UNCHANGED fwRow \/ (RowOnly(f, e) /\ fwRow'[f][e].st = "available" /\ fwRow'[f][e].cmd = fwRow[f][e].cmd)
    BY <1>2, <1>4, RowSet DEF Following!RowState
  <2>3. QED
    BY <1>1, <1>4, <2>1, <2>2, FollowCounts DEF FollowFinds, FollowRest, History, World
<1>5. CASE fwFollow' = Following!Paused(f, "paused") /\ Following!End(f, "pending") /\ UNCHANGED fwRow
  <2>1. FwFollows
    BY <1>5, FollowSets
  <2>2. QED
    BY <1>1, <1>3, <1>5, <2>1, EndsQuietly
<1>6. CASE Following!End(f, "pending") /\ UNCHANGED <<fwFollow, fwRow>>
  <2>1. FwFollows
    BY <1>6, FollowSets
  <2>2. QED
    BY <1>1, <1>3, <1>6, <2>1, EndsQuietly
<1>7. CASE /\ ~nothing /\ ~unmonitored /\ UNCHANGED <<fwFollow, fwRow, fwRequest>>
           /\ Following!Go(f, IF e \in fwAtt[f].mon THEN "queue" ELSE "monitor")
  <2>1. s.st \notin {"submitted", "available"}
    BY <1>7
  <2>2. \/ e \in fwAtt[f].mon /\ FwGoes(f, "queue")
        \/ e \notin fwAtt[f].mon /\ FwGoes(f, "monitor")
    BY <1>7, AttSets
  <2>3. QED
    BY <1>1, <1>7, <2>1, <2>2, FollowCounts DEF FollowPlans, FollowRest, History, World
<1>8. QED
  BY <1>4, <1>5, <1>6, <1>7 DEF Following!Look, Turn

\* Monitoring the episode, and the mark of that.
LEMMA MonitorsEffect ==
  ASSUME FollowTypes, FollowTurns, NEW f \in Party, Following!Monitor(f) \/ Following!Mark(f)
  PROVE  (FollowMonitors(f) \/ FollowMarks(f) \/ FollowEnds(f)) /\ FollowRest
<1>1. /\ fwAtt[f].pc \in {"monitor", "mark"} /\ fwSonarr \in FwSonarr /\ Turn(f) \in fwAtt[f].todo /\ Turn(f) \in Episode
      /\ fwRow[f][Turn(f)] \in FwRow
  BY TurnIsTodo DEF Following!Monitor, Following!Mark, Following!At, FollowTypes, FollowTurns, TurnOf, AtTurn
<1>2. CASE Following!Mark(f)
  <2> DEFINE n == [fwRow[f][Turn(f)] EXCEPT !.st = "monitored", !.owned = TRUE]
  <2>1. n \in FwRow /\ n.st = "monitored" /\ n.owned = TRUE /\ n.cmd = fwRow[f][Turn(f)].cmd
    BY <1>1 DEF FwRow, Following!RowState
  <2>2. fwRow' = [Following!Set(f, Turn(f), "monitored") EXCEPT ![f][Turn(f)].owned = TRUE]
    BY <1>2 DEF Following!Mark, Turn
  <2>3. fwRow' = [fwRow EXCEPT ![f] = [fwRow[f] EXCEPT ![Turn(f)] = n]]
    BY <1>1, <2>2 DEF Following!Set
  <2> HIDE DEF n
  <2>4. RowOnly(f, Turn(f)) /\ fwRow'[f][Turn(f)] = n
    BY <1>1, <2>1, <2>3, RowPut
  <2>5. FwGoes(f, "queue") /\ fwAtt[f].pc = "mark"
    BY <1>2, AttSets DEF Following!Mark, Following!At
  <2>6. QED
    BY <1>2, <2>1, <2>4, <2>5, FollowCounts DEF Following!Mark, FollowMarks, FollowRest, History, World
<1>3. CASE Following!Monitor(f) /\ Following!Written /\ fwSonarr' = [fwSonarr EXCEPT !.mon = @ \union {Turn(f)}]
  <2>1. /\ fwSonarr' \in FwSonarr /\ fwSonarr'.queue = fwSonarr.queue /\ fwSonarr'.mon = fwSonarr.mon \union {Turn(f)}
        /\ fwSonarr'.series = fwSonarr.series /\ fwSonarr.series = "present"
    BY <1>1, <1>3 DEF FwSonarr, Following!Written
  <2>2. FwFollows
    BY <1>3, FollowSets DEF Following!Monitor
  <2>3. CASE Following!Go(f, "mark") /\ UNCHANGED <<fwRequest, fwFault>>
    <3>1. FwGoes(f, "mark")
      BY <2>3, AttSets
    <3>2. QED
      BY <1>3, <2>1, <2>3, <3>1, FollowCounts DEF Following!Monitor, Following!At, FollowMonitors, FollowRest, History
  <2>4. CASE Following!Lost /\ Following!End(f, "pending")
    <3>1. FwEnds(f) /\ fwRequest' \in [Party -> FwRequest] /\ fwFault' \in 0 .. MaxFault
      BY <2>4, AttSets, RequestSets, FollowCounts DEF Following!Lost
    <3>2. QED
      BY <1>3, <2>1, <2>2, <3>1, FollowCounts DEF Following!Monitor, FollowEnds, FollowRest, History
  <2>5. QED
    BY <1>3, <2>3, <2>4 DEF Following!Monitor, Following!Written
<1>4. CASE Following!Monitor(f) /\ Following!End(f, "pending") /\ UNCHANGED <<fwSonarr, fwFault>>
  <2>1. FwFollows /\ fwFault' \in 0 .. MaxFault
    BY <1>4, FollowSets, FollowCounts DEF Following!Monitor
  <2>2. QED
    BY <1>4, <2>1, EndsQuietly DEF Following!Monitor
<1>5. QED
  BY <1>2, <1>3, <1>4 DEF Following!Monitor, Turn

\* The intent is saved, or a file was found; the search is sent; its receipt.
LEMMA IntendsEffect ==
  ASSUME FollowTypes, FollowTurns, NEW f \in Party, Following!Intent(f)
  PROVE  (FollowFinds(f) \/ FollowIntends(f)) /\ FollowRest
<1>1. /\ fwAtt[f].pc = "intent" /\ Turn(f) \in Episode /\ fwRow[f][Turn(f)] \in FwRow /\ Following!Holds(f)
      /\ UNCHANGED <<fwSonarr, fwCommand, fwPosts, fwReal, fwTouched, fwFault, fwFollow, fwRequest>>
      /\ fwClock \in 0 .. MaxSearch /\ fwClock < MaxSearch
  BY TurnIsTodo DEF Following!Intent, Following!At, FollowTypes, FollowTurns, TurnOf, AtTurn
<1>2. fwLock = f
  BY <1>1 DEF Following!Holds, Following!First, FollowTurns, TurnOf
<1>3. CASE fwRow' = Following!Set(f, Turn(f), "available") /\ Following!Skip(f, Turn(f)) /\ UNCHANGED fwClock
  <2>1. FwSkips(f)
    BY <1>3, AttSets
  <2>2. RowOnly(f, Turn(f)) /\ fwRow'[f][Turn(f)].st = "available" /\ fwRow'[f][Turn(f)].cmd = fwRow[f][Turn(f)].cmd
    BY <1>1, <1>3, RowSet DEF Following!RowState
  <2>3. QED
    BY <1>1, <1>3, <2>1, <2>2, FollowCounts DEF FollowFinds, FollowRest, History, World
<1>4. CASE /\ fwClock' = fwClock + 1 /\ Following!Go(f, "post")
           /\ fwRow' = [Following!Set(f, Turn(f), "searching") EXCEPT ![f][Turn(f)].since = fwClock + 1]
  <2>1. fwClock + 1 \in 0 .. MaxSearch /\ fwClock + 1 > 0
    BY <1>1, FollowAssumption
  <2> DEFINE n == [fwRow[f][Turn(f)] EXCEPT !.st = "searching", !.since = fwClock + 1]
  <2>2. n \in FwRow /\ n.st = "searching" /\ n.since = fwClock + 1 /\ n.cmd = fwRow[f][Turn(f)].cmd
    BY <1>1, <2>1 DEF FwRow, Following!RowState
  <2>3. fwRow' = [fwRow EXCEPT ![f] = [fwRow[f] EXCEPT ![Turn(f)] = n]]
    BY <1>1, <1>4 DEF Following!Set
  <2> HIDE DEF n
  <2>4. RowOnly(f, Turn(f)) /\ fwRow'[f][Turn(f)] = n
    BY <1>1, <2>2, <2>3, RowPut
  <2>5. FwGoes(f, "post")
    BY <1>4, AttSets
  <2>6. FollowRest
    BY <1>1, <1>4, <2>1, FollowCounts DEF FollowRest
  <2>7. QED
    BY <1>1, <1>2, <2>1, <2>2, <2>4, <2>5, <2>6 DEF FollowIntends, History, World
<1>5. QED
  BY <1>3, <1>4 DEF Following!Intent, Turn

\* The search is sent, with its reply received, lost or refused.
LEMMA SendsEffect ==
  ASSUME FollowTypes, FollowTurns, NEW f \in Party, Following!Post(f)
  PROVE  (FollowSends(f) \/ FollowEnds(f)) /\ FollowRest
<1> DEFINE sent == fwCommand \union {[ep |-> Turn(f), at |-> fwRow[f][Turn(f)].since]}
<1>1. /\ fwAtt[f].pc = "post" /\ Turn(f) \in Episode /\ UNCHANGED <<fwRow, fwSonarr, fwClock, fwTouched>>
      /\ fwClock' \in 0 .. MaxSearch
  BY TurnIsTodo, FollowCounts DEF Following!Post, Following!At, FollowTurns, TurnOf, AtTurn
<1>2. Following!Holds(f) => fwLock = f
  BY <1>1 DEF Following!Holds, Following!First, FollowTurns, TurnOf
<1>3. CASE /\ Following!Holds(f) /\ Following!Go(f, "receipt") /\ fwCommand' = sent
           /\ fwReal' = fwReal \union {Turn(f)} /\ fwPosts' = [fwPosts EXCEPT ![f][Turn(f)] = @ + 1]
           /\ UNCHANGED <<fwFollow, fwRequest, fwFault>>
  <2>1. FwGoes(f, "receipt") /\ FwFollows
    BY <1>3, AttSets, FollowSets
  <2>2. QED
    BY <1>1, <1>2, <1>3, <2>1, FollowCounts DEF FollowSends, FollowRest
<1>4. CASE /\ Following!Holds(f) /\ Following!Lost /\ fwCommand' \in {fwCommand, sent}
           /\ fwReal' = IF fwCommand' = sent THEN fwReal \union {Turn(f)} ELSE fwReal
           /\ fwPosts' = [fwPosts EXCEPT ![f][Turn(f)] = @ + 1]
           /\ fwFollow' = Following!Paused(f, "uncertain") /\ Following!End(f, "pending")
  <2>1. FwEnds(f) /\ FwFollows /\ fwRequest' \in [Party -> FwRequest] /\ fwFault' \in 0 .. MaxFault
    BY <1>4, AttSets, FollowSets, RequestSets, FollowCounts DEF Following!Lost
  <2>2. QED
    BY <1>1, <1>2, <1>4, <2>1 DEF FollowSends, FollowRest
<1>5. CASE /\ fwFollow' = Following!Paused(f, "uncertain") /\ Following!End(f, "pending")
           /\ UNCHANGED <<fwCommand, fwPosts, fwReal, fwFault>>
  <2>1. FwFollows /\ fwFault' \in 0 .. MaxFault
    BY <1>5, FollowSets, FollowCounts
  <2>2. QED
    BY <1>1, <1>5, <2>1, EndsQuietly
<1>6. QED
  BY <1>3, <1>4, <1>5 DEF Following!Post, Turn

\* The receipt of a search.
LEMMA ReceivesEffect ==
  ASSUME FollowTypes, FollowTurns, NEW f \in Party, Following!Receipt(f)
  PROVE  FollowReceives(f) /\ FollowRest
<1>1. fwAtt[f].pc = "receipt" /\ Turn(f) \in Episode /\ fwRow[f][Turn(f)] \in FwRow
  BY TurnIsTodo DEF Following!Receipt, Following!At, FollowTypes, FollowTurns, TurnOf, AtTurn
<1> DEFINE n == [fwRow[f][Turn(f)] EXCEPT !.st = "submitted", !.cmd = fwRow[f][Turn(f)].since]
<1>2. n \in FwRow /\ n.st = "submitted" /\ n.cmd = fwRow[f][Turn(f)].since
  BY <1>1 DEF FwRow, Following!RowState
<1>3. fwRow' = [Following!Set(f, Turn(f), "submitted") EXCEPT ![f][Turn(f)].cmd = fwRow[f][Turn(f)].since]
  BY DEF Following!Receipt, Turn
<1>4. fwRow' = [fwRow EXCEPT ![f] = [fwRow[f] EXCEPT ![Turn(f)] = n]]
  BY <1>1, <1>3 DEF Following!Set
<1> HIDE DEF n
<1>5. RowOnly(f, Turn(f)) /\ fwRow'[f][Turn(f)] = n
  BY <1>1, <1>2, <1>4, RowPut
<1>6. FwSkips(f)
  BY AttSets DEF Following!Receipt, Turn
<1>7. QED
  BY <1>1, <1>2, <1>5, <1>6, FollowCounts DEF Following!Receipt, FollowReceives, FollowRest, History, World

\* What an attempt finds of work under way for its episode.
LEMMA QueuesEffect ==
  ASSUME FollowTypes, FollowTurns, NEW f \in Party, Following!Queue(f)
  PROVE  FollowQueues(f) /\ FollowRest
<1> DEFINE e == Turn(f)
           unsure == Following!Others(f, e, "searching")
<1>1. /\ fwAtt[f].pc = "queue" /\ e \in Episode /\ fwRow[f] \in [Episode -> FwRow] /\ fwRow[f][e] \in FwRow /\ fwFollow[f].id
      /\ UNCHANGED <<fwSonarr, fwCommand, fwClock, fwPosts, fwReal, fwTouched, fwFault>>
  <2>1. fwAtt[f].pc = "queue" /\ UNCHANGED <<fwSonarr, fwCommand, fwClock, fwPosts, fwReal, fwTouched, fwFault>>
    BY DEF Following!Queue, Following!At
  <2>2. fwFollow[f].id /\ Turn(f) \in fwAtt[f].todo
    BY <2>1 DEF FollowTurns, TurnOf, AtTurn, Planned
  <2>3. Turn(f) \in Episode
    BY <2>2, TurnIsTodo
  <2>4. fwRow[f] \in [Episode -> FwRow] /\ fwRow[f][Turn(f)] \in FwRow
    BY <2>3 DEF FollowTypes
  <2>5. QED
    BY <2>1, <2>2, <2>3, <2>4
<1>2. fwClock' \in 0 .. MaxSearch /\ fwFault' \in 0 .. MaxFault
  BY <1>1, FollowCounts
<1> DEFINE Ended == Following!Skip(f, e) /\ UNCHANGED <<fwFollow, fwRequest>>
           Unsure(R) == /\ fwFollow' = IF Following!Revived(f, R) THEN [fwFollow EXCEPT ![f].st = "active"]
                                       ELSE Following!Paused(f, "uncertain")
                        /\ Following!End(f, "pending")
<1>3. ASSUME NEW R, Ended \/ Unsure(R) PROVE (FwSkips(f) \/ FwEnds(f)) /\ FwFollows /\ FollowRest
  <2>1. CASE Ended
    BY <1>2, <2>1, AttSets, FollowSets, FollowCounts DEF FollowRest
  <2>2. CASE Unsure(R)
    <3>1. FwFollows
      BY <2>2, FollowSets DEF Following!Revived
    <3>2. QED
      BY <1>2, <2>2, <3>1, AttSets, RequestSets DEF FollowRest
  <2>3. QED
    BY <1>3, <2>1, <2>2
<1>4. CASE e \in fwSonarr.queue /\ fwRow' = Following!Set(f, e, "submitted") /\ Ended
  <2>1. RowOnly(f, e) /\ fwRow'[f][e].st = "submitted" /\ fwRow'[f][e].cmd = fwRow[f][e].cmd
    BY <1>1, <1>4, RowSet DEF Following!RowState
  <2>3. FwSkips(f)
    BY <1>4, AttSets
  <2>2. QED
    BY <1>1, <1>3, <1>4, <2>1, <2>3 DEF FollowQueues, FwShown, Shows, History, World
<1>5. ASSUME NEW g \in Following!Others(f, e, "submitted"), fwAtt[f].snap[e].st # "searching", UNCHANGED <<fwFollow, fwRequest>>,
             IF [ep |-> e, at |-> fwRow[g][e].cmd] \in fwCommand
             THEN /\ fwRow' = [fwRow EXCEPT ![f][e] = [@ EXCEPT !.st = "submitted", !.cmd = fwRow[g][e].cmd, !.since = fwRow[g][e].since]]
                  /\ Following!Skip(f, e)
             ELSE Following!Go(f, "intent") /\ UNCHANGED fwRow
      PROVE  FollowQueues(f) /\ FollowRest
  <2>1. g \in Party /\ g # f /\ fwRow[g][e].cmd > 0 /\ fwRow[g][e] \in FwRow
    BY <1>1, <1>5 DEF Following!Others, FollowTypes
  <2>2. CASE [ep |-> e, at |-> fwRow[g][e].cmd] \in fwCommand
    <3> DEFINE n == [fwRow[f][e] EXCEPT !.st = "submitted", !.cmd = fwRow[g][e].cmd, !.since = fwRow[g][e].since]
    <3>1. n \in FwRow /\ n.st = "submitted" /\ n.cmd = fwRow[g][e].cmd
      BY <1>1, <2>1 DEF FwRow, Following!RowState
    <3>2. fwRow' = [fwRow EXCEPT ![f] = [fwRow[f] EXCEPT ![e] = n]]
      <4>1. fwRow \in [Party -> [Episode -> FwRow]]
        BY DEF FollowTypes
      <4>2. QED
        BY <1>1, <1>5, <2>2, <4>1
    <3> HIDE DEF n
    <3>3. RowOnly(f, e) /\ fwRow'[f][e] = n
      BY <1>1, <3>1, <3>2, RowPut
    <3>4. Shows(e)
      BY <2>2 DEF Shows
    <3>6. FwSkips(f)
      BY <1>5, <2>2, AttSets
    <3>7. FwFollows /\ FollowRest
      BY <1>2, <1>5, FollowSets, FollowCounts DEF FollowRest
    <3>5. QED
      BY <1>1, <1>5, <2>1, <2>2, <3>1, <3>3, <3>4, <3>6, <3>7 DEF FollowQueues, FwShown, History, World
  <2>3. CASE [ep |-> e, at |-> fwRow[g][e].cmd] \notin fwCommand
    <3>1. FwGoes(f, "intent") /\ FwFollows /\ FollowRest
      BY <1>2, <1>5, <2>3, AttSets, FollowSets, FollowCounts DEF FollowRest
    <3>2. Following!Known(e, f)
      BY <2>1 DEF Following!Known
    <3>3. QED
      BY <1>1, <1>5, <2>3, <3>1, <3>2 DEF FollowQueues, FwClear, History, World
  <2>4. QED
    BY <2>2, <2>3
<1>6. ASSUME NEW g \in unsure, NEW R, fwAtt[f].snap[e].st # "searching", fwRow' = [fwRow EXCEPT ![f] = R],
             R = Following!Reconciled(f, [fwRow[f] EXCEPT ![e] = [@ EXCEPT !.st = "searching", !.since = fwRow[g][e].since]]),
             Ended \/ Unsure(R)
      PROVE  FollowQueues(f) /\ FollowRest
  <2>1. g \in Party /\ g # f /\ fwRow[g][e].st = "searching"
    BY <1>6 DEF Following!Others
  <2> HIDE DEF e
  <2>5. fwRow[g][e] \in FwRow /\ fwRow[f] \in [Episode -> FwRow] /\ fwRow[f][e] \in FwRow /\ e \in Episode
    BY <1>1, <2>1 DEF FollowTypes
  <2> DEFINE n == [fwRow[f][e] EXCEPT !.st = "searching", !.since = fwRow[g][e].since]
  <2>6. n \in FwRow /\ n.st = "searching" /\ n.since = fwRow[g][e].since /\ n.cmd = fwRow[f][e].cmd
    BY <2>5 DEF FwRow, Following!RowState
  <2> DEFINE C == [fwRow[f] EXCEPT ![e] = n]
  <2>7. R = Following!Reconciled(f, C)
    BY <1>6
  <2> HIDE DEF n
  <2>8. C \in [Episode -> FwRow] /\ C[e] = n /\ \A d \in Episode : d # e => C[d] = fwRow[f][d]
    BY <2>5, <2>6
  <2> HIDE DEF C
  <2>9. R \in [Episode -> FwRow] /\ \A d \in Episode : RecRow(d, C[d], R[d])
    BY <2>7, <2>8, RowsReconciled
  <2>10. RowsOf(f) /\ fwRow'[f] = R
    BY <1>6, <2>9, RowsPut
  <2>11. FwReconciles(f, {e})
    BY <2>8, <2>9, <2>10 DEF FwReconciles
  <2>12. RecRow(e, n, R[e])
    BY <2>5, <2>8, <2>9
  <2>2. /\ fwRow'[f][e].since = fwRow[g][e].since
        /\ \/ fwRow'[f][e].st = "searching" /\ fwRow'[f][e].cmd \in {0, fwRow[f][e].cmd}
           \/ fwRow'[f][e].st = "available"
           \/ fwRow'[f][e].st = "submitted" /\ Shows(e)
    BY <2>6, <2>10, <2>12 DEF RecRow
  <2>3. (FwSkips(f) \/ FwEnds(f)) /\ FwFollows /\ FollowRest
    BY <1>3, <1>6
  <2>4. QED
    BY <1>1, <1>6, <2>1, <2>2, <2>3, <2>11 DEF FollowQueues, FwCopies, History, World, e
<1>7. CASE unsure = {} /\ fwAtt[f].snap[e].st # "searching" /\ Following!Go(f, "intent") /\ UNCHANGED <<fwFollow, fwRequest, fwRow>>
  <2>1. FwGoes(f, "intent") /\ FwFollows /\ FollowRest
    BY <1>2, <1>7, AttSets, FollowSets, FollowCounts DEF FollowRest
  <2>2. \A g \in Party \ {f} : fwFollow[g].id => fwRow[g][e].st # "searching"
    BY <1>7 DEF Following!Others
  <2>3. QED
    BY <1>1, <1>7, <2>1, <2>2 DEF FollowQueues, FwClear, History, World
<1>8. ASSUME NEW R, fwRow' = [fwRow EXCEPT ![f] = R], R = Following!Reconciled(f, fwRow[f]), Ended \/ Unsure(R)
      PROVE  FollowQueues(f) /\ FollowRest
  <2>1. R \in [Episode -> FwRow] /\ \A d \in Episode : RecRow(d, fwRow[f][d], R[d])
    BY <1>1, <1>8, RowsReconciled
  <2>2. FwReconciles(f, {})
    BY <1>8, <2>1, RowsPut DEF FwReconciles
  <2>3. (FwSkips(f) \/ FwEnds(f)) /\ FwFollows /\ FollowRest
    BY <1>3, <1>8
  <2>4. QED
    BY <1>1, <2>2, <2>3 DEF FollowQueues, FwSettles, History, World
<1>9. PICK known \in {Following!Others(f, e, "submitted"), {}} :
        \/ e \in fwSonarr.queue /\ fwRow' = Following!Set(f, e, "submitted") /\ Ended
        \/ /\ e \notin fwSonarr.queue /\ fwAtt[f].snap[e].st # "searching" /\ known # {}
           /\ \E g \in known :
                IF [ep |-> e, at |-> fwRow[g][e].cmd] \in fwCommand
                THEN /\ fwRow' = [fwRow EXCEPT ![f][e] = [@ EXCEPT !.st = "submitted", !.cmd = fwRow[g][e].cmd, !.since = fwRow[g][e].since]]
                     /\ Following!Skip(f, e)
                ELSE Following!Go(f, "intent") /\ UNCHANGED fwRow
           /\ UNCHANGED <<fwFollow, fwRequest>>
        \/ /\ fwAtt[f].snap[e].st # "searching"
           /\ \E g \in unsure : \E R :
                /\ R = Following!Reconciled(f, [fwRow[f] EXCEPT ![e] = [@ EXCEPT !.st = "searching", !.since = fwRow[g][e].since]])
                /\ fwRow' = [fwRow EXCEPT ![f] = R] /\ (Ended \/ Unsure(R))
        \/ unsure = {} /\ fwAtt[f].snap[e].st # "searching" /\ Following!Go(f, "intent") /\ UNCHANGED <<fwFollow, fwRequest, fwRow>>
        \/ \E R : R = Following!Reconciled(f, fwRow[f]) /\ fwRow' = [fwRow EXCEPT ![f] = R] /\ (Ended \/ Unsure(R))
  BY DEF Following!Queue, Following!Uncertain, Turn
<1>10. QED
  BY <1>4, <1>5, <1>6, <1>7, <1>8, <1>9

\* Every action on follows has one of these effects.
LEMMA FollowSteps == ASSUME FollowTypes, FollowTurns, Following!Next PROVE FollowStep
<1>1. ASSUME NEW f \in Party,
             \/ Following!Save(f) \/ Following!Deliver(f) \/ Following!SweepUncertain(f) \/ Following!Sweep(f)
             \/ Following!Refuse(f) \/ Following!Lapse(f)
      PROVE  FollowStep
  BY <1>1, StartEffect, StopEffect DEF FollowStep
<1>2. ASSUME NEW f \in Party,
             \/ Following!Superseded(f) \/ Following!Series(f) \/ Following!Add(f) \/ Following!Watch(f)
             \/ Following!Activate(f) \/ Following!Done(f)
      PROVE  FollowStep
  BY <1>2, StopEffect, SeriesEffect, AddsEffect, WatchEffect DEF FollowStep
<1>3. ASSUME NEW f \in Party,
             \/ Following!Rows(f) \/ Following!Look(f) \/ Following!Monitor(f) \/ Following!Mark(f)
             \/ Following!Intent(f) \/ Following!Post(f) \/ Following!Receipt(f)
      PROVE  FollowStep
  BY <1>3, ReadsEffect, LookEffect, MonitorsEffect, IntendsEffect, SendsEffect, ReceivesEffect DEF FollowStep
<1>4. ASSUME NEW f \in Party, Following!Queue(f) PROVE FollowStep
  BY <1>4, QueuesEffect DEF FollowStep
<1>5. CASE \/ \E f \in Party : Following!Stop(f)
           \/ \E e \in Episode : Following!Air(e) \/ Following!Download(e)
           \/ Following!Refreshed \/ Following!SearchEnds
  BY <1>5, AroundEffect DEF FollowStep
<1>6. CASE Following!ByHand
  BY <1>6, ByHandEffect DEF FollowStep
<1>7. CASE Following!Crash
  <2>1. PICK f \in Party : TRUE
    BY <1>7 DEF Following!Crash
  <2>2. QED
    BY <1>7, <2>1, StartEffect DEF FollowStep
<1>8. QED
  BY <1>1, <1>2, <1>3, <1>4, <1>5, <1>6, <1>7 DEF Following!Next, Following!Step

\* The episode of an attempt that is at one.
LEMMA TurnAt == ASSUME FollowTypes, FollowTurns, NEW f \in Party, AtTurn(f) PROVE Turn(f) \in fwAtt[f].todo /\ Turn(f) \in Episode
<1>1. Turn(f) \in fwAtt[f].todo
  BY DEF FollowTurns, TurnOf
<1>2. QED
  BY <1>1, TurnIsTodo

\* A search that is sent is counted for its follow and episode only.
LEMMA SendCounts ==
  ASSUME FollowTypes, FollowTurns, NEW f \in Party, FollowSends(f)
  PROVE  /\ Turn(f) \in Episode /\ fwPosts' \in [Party -> [Episode -> Nat]]
         /\ fwPosts'[f][Turn(f)] = fwPosts[f][Turn(f)] + 1
         /\ \A g \in Party, e \in Episode : g # f \/ e # Turn(f) => fwPosts'[g][e] = fwPosts[g][e]
<1>1. Turn(f) \in Episode
  BY TurnAt DEF FollowSends, AtTurn
<1>2. fwPosts \in [Party -> [Episode -> Nat]] /\ fwPosts[f] \in [Episode -> Nat] /\ fwPosts[f][Turn(f)] + 1 \in Nat
  BY <1>1 DEF FollowTypes
<1>3. fwPosts' = [fwPosts EXCEPT ![f] = [fwPosts[f] EXCEPT ![Turn(f)] = fwPosts[f][Turn(f)] + 1]]
  BY <1>1, <1>2 DEF FollowSends
<1>4. [fwPosts[f] EXCEPT ![Turn(f)] = fwPosts[f][Turn(f)] + 1] \in [Episode -> Nat]
  BY <1>1, <1>2
<1>5. fwPosts'[f] = [fwPosts[f] EXCEPT ![Turn(f)] = fwPosts[f][Turn(f)] + 1] /\ \A g \in Party : g # f => fwPosts'[g] = fwPosts[g]
  BY <1>2, <1>3
<1>6. fwPosts' \in [Party -> [Episode -> Nat]]
  BY <1>2, <1>3, <1>4
<1>7. QED
  BY <1>1, <1>2, <1>5, <1>6

\* Who stays where it is between its intent and its search is still alone, if
\* the step begins no search and forgets no known one.
LEMMA ApartSame ==
  ASSUME FollowTypes, FollowTurns, FollowApart, NEW f \in Party, RowsOf(f), UNCHANGED fwTouched,
         \A e \in Episode \ fwTouched : fwRow[f][e].cmd > 0 => fwRow'[f][e].cmd > 0,
         \A e \in Episode : fwRow'[f][e].st = "searching" => fwRow[f][e].st = "searching" /\ fwRow'[f][e].since = fwRow[f][e].since,
         fwAtt[f].pc = "post" /\ fwAtt'[f] = fwAtt[f] => fwRow'[f][Turn(f)].since = fwRow[f][Turn(f)].since,
         \A g \in Party : fwLock' = g => fwLock = g
  PROVE  \A g \in Party : fwAtt'[g] = fwAtt[g] => ApartOf(g)'
<1>1. ASSUME NEW g \in Party, fwAtt'[g] = fwAtt[g], fwAtt'[g].pc \in {"intent", "post"}, fwLock' = g,
             NEW h \in Party \ {g}, fwRow'[h][Turn(g)].st = "searching", Turn(g) \notin fwTouched
      PROVE  Following!Known(Turn(g), g)' \/ (fwAtt'[g].pc = "post" /\ fwRow'[h][Turn(g)].since = fwRow'[g][Turn(g)].since)
  <2>1. fwAtt[g].pc \in {"intent", "post"} /\ fwLock = g /\ Turn(g)' = Turn(g)
    BY <1>1, TurnStays
  <2>2. Turn(g) \in Episode
    BY <2>1, TurnAt DEF AtTurn
  <2>3. fwRow[h][Turn(g)].st = "searching" /\ fwRow'[h][Turn(g)].since = fwRow[h][Turn(g)].since
    BY <1>1, <2>2 DEF RowsOf
  <2>4. Following!Known(Turn(g), g) \/ (fwAtt[g].pc = "post" /\ fwRow[h][Turn(g)].since = fwRow[g][Turn(g)].since)
    BY <1>1, <2>1, <2>3 DEF FollowApart, ApartOf
  <2>5. Following!Known(Turn(g), g) => Following!Known(Turn(g), g)'
    BY <1>1, <2>1, <2>2 DEF Following!Known, RowsOf
  <2>6. fwAtt[g].pc = "post" => fwRow'[g][Turn(g)].since = fwRow[g][Turn(g)].since
    BY <1>1 DEF RowsOf
  <2>7. QED
    BY <1>1, <2>3, <2>4, <2>5, <2>6
<1>2. ASSUME NEW g \in Party, fwAtt'[g] = fwAtt[g] PROVE Turn(g)' = Turn(g)
  BY <1>2, TurnStays
<1>3. QED
  BY <1>1, <1>2 DEF ApartOf

\* An episode that an attempt may still search for was not searched for.
LEMMA NotBegun ==
  ASSUME FollowTypes, FollowTurns, FollowRows, FollowPlan, NEW f \in Party, fwAtt[f].pc \in {"mark", "queue", "intent"},
         fwAtt[f].pc = "queue" => fwAtt[f].snap[Turn(f)].st # "searching", Turn(f) \notin fwTouched
  PROVE  fwRow[f][Turn(f)].st \notin Busy /\ fwPosts[f][Turn(f)] = 0 /\ fwRow[f][Turn(f)].cmd = 0
<1>1. Turn(f) \in fwAtt[f].todo /\ Turn(f) \in Episode
  BY TurnAt DEF AtTurn
<1>2. PlanOf(f, Turn(f)) /\ Planned(f)
  BY <1>1 DEF FollowPlan, Planned, AtTurn
<1>3. fwRow[f][Turn(f)].st \notin Busy
  BY <1>1, <1>2 DEF PlanOf, Onto, Busy
<1>4. fwPosts[f][Turn(f)] \in Nat /\ fwRow[f][Turn(f)].cmd \in Nat
  <2>1. fwRow[f][Turn(f)] \in FwRow /\ fwPosts[f][Turn(f)] \in Nat
    BY <1>1 DEF FollowTypes
  <2>2. fwRow[f][Turn(f)].cmd \in 0 .. MaxSearch
    BY <2>1 DEF FwRow
  <2>3. QED
    BY <2>1, <2>2
<1>5. KeptRow(f, Turn(f))
  BY <1>1 DEF FollowRows
<1>6. QED
  BY <1>3, <1>4, <1>5 DEF KeptRow, Busy


\* The effects keep follows, rows, attempts and Sonarr in their sets.
LEMMA FollowTypesKept == ASSUME FollowTypes, FollowTurns, FollowStep PROVE FollowTypes'
<1>0. FollowRest
  BY DEF FollowStep
<1>1. CASE FollowRests
  BY <1>1, <1>0 DEF FollowRests, FwFollows, FollowTypes, FollowRest
<1>2. CASE FollowTouched
  BY <1>2, <1>0 DEF FollowTouched, FollowTypes, FollowRest
<1>3. CASE FollowHalts
  BY <1>3, <1>0 DEF FollowHalts, History, World, FollowTypes, FollowRest
<1>4. ASSUME NEW f \in Party, FollowSaves(f) PROVE FollowTypes'
  BY <1>4, <1>0 DEF FollowSaves, History, World, FwInserts, RowsOf, FollowTypes, FollowRest
<1>5. ASSUME NEW f \in Party, FollowDelivers(f) PROVE FollowTypes'
  BY <1>5, <1>0 DEF FollowDelivers, History, World, FwReconciles, RowsOf, FwFollows, FwBegins, FwOnly, FollowTypes, FollowRest
<1>6. ASSUME NEW f \in Party, FollowChecks(f) PROVE FollowTypes'
  BY <1>6, <1>0 DEF FollowChecks, History, World, FwReconciles, RowsOf, FwFollows, FollowTypes, FollowRest
<1>7. ASSUME NEW f \in Party, FollowSweeps(f) PROVE FollowTypes'
  BY <1>7, <1>0 DEF FollowSweeps, History, World, FwBegins, FwOnly, FollowTypes, FollowRest
<1>8. ASSUME NEW f \in Party, FollowEnds(f) PROVE FollowTypes'
  BY <1>8, <1>0 DEF FollowEnds, History, FwFollows, FwEnds, FwOnly, FollowTypes, FollowRest
<1>9. ASSUME NEW f \in Party, FollowGoes(f) PROVE FollowTypes'
  BY <1>9, <1>0 DEF FollowGoes, History, FwInserts, RowsOf, FwFollows, FwGoes, FwOnly, FwKeeps, FollowTypes, FollowRest
<1>10. ASSUME NEW f \in Party, FollowReads(f) PROVE FollowTypes'
  BY <1>10, <1>0 DEF FollowReads, History, World, FwOnly, FollowTypes, FollowRest
<1>11. ASSUME NEW f \in Party, FollowPlans(f) PROVE FollowTypes'
  BY <1>11, <1>0 DEF FollowPlans, History, World, FwGoes, FwOnly, FwKeeps, FollowTypes, FollowRest
<1>12. ASSUME NEW f \in Party, FollowFinds(f) PROVE FollowTypes'
  BY <1>12, <1>0 DEF FollowFinds, History, World, FwSkips, FwOnly, FwKeeps, RowOnly, RowsOf, FollowTypes, FollowRest
<1>13. ASSUME NEW f \in Party, FollowMonitors(f) PROVE FollowTypes'
  BY <1>13, <1>0 DEF FollowMonitors, History, FwGoes, FwOnly, FwKeeps, FollowTypes, FollowRest
<1>14. ASSUME NEW f \in Party, FollowMarks(f) PROVE FollowTypes'
  BY <1>14, <1>0 DEF FollowMarks, History, World, FwGoes, FwOnly, FwKeeps, RowOnly, RowsOf, FollowTypes, FollowRest
<1>15. ASSUME NEW f \in Party, FollowQueues(f) PROVE FollowTypes'
  <2>1. CASE FwShown(f)
    BY <1>15, <2>1, <1>0 DEF FollowQueues, History, World, FwFollows, FwShown, RowOnly, RowsOf, FwSkips, FwOnly, FwKeeps, FollowTypes, FollowRest
  <2>2. CASE FwClear(f)
    BY <1>15, <2>2, <1>0 DEF FollowQueues, History, World, FwFollows, FwClear, FwGoes, FwOnly, FwKeeps, FollowTypes, FollowRest
  <2>3. CASE FwCopies(f)
    BY <1>15, <2>3, <1>0 DEF FollowQueues, History, World, FwFollows, FwCopies, FwReconciles, RowsOf, FwSkips, FwEnds, FwOnly, FwKeeps, FollowTypes, FollowRest
  <2>4. CASE FwSettles(f)
    BY <1>15, <2>4, <1>0 DEF FollowQueues, History, World, FwFollows, FwSettles, FwReconciles, RowsOf, FwSkips, FwEnds, FwOnly, FwKeeps, FollowTypes, FollowRest
  <2>5. QED
    BY <1>15, <2>1, <2>2, <2>3, <2>4 DEF FollowQueues
<1>16. ASSUME NEW f \in Party, FollowIntends(f) PROVE FollowTypes'
  BY <1>16, <1>0 DEF FollowIntends, History, World, FwGoes, FwOnly, FwKeeps, RowOnly, RowsOf, FollowTypes, FollowRest
<1>17. ASSUME NEW f \in Party, FollowSends(f) PROVE FollowTypes'
  <2>1. Turn(f) \in Episode /\ fwPosts' \in [Party -> [Episode -> Nat]]
    BY <1>17, SendCounts
  <2>2. [ep |-> Turn(f), at |-> fwRow[f][Turn(f)].since] \in [ep : Episode, at : 0 .. MaxSearch]
    BY <2>1 DEF FollowTypes, FwRow
  <2>3. fwCommand' \subseteq [ep : Episode, at : 0 .. MaxSearch] /\ fwReal' \subseteq Episode
    BY <1>17, <2>1, <2>2 DEF FollowSends, FollowTypes
  <2>4. fwAtt' \in [Party -> FwAtt] /\ fwLock' \in Party \union {NoParty}
    BY <1>17 DEF FollowSends, FwEnds, FwGoes, FwOnly, FwKeeps, FollowTypes
  <2>5. QED
    BY <1>17, <1>0, <2>1, <2>3, <2>4 DEF FollowSends, FwFollows, FollowTypes, FollowRest
<1>18. ASSUME NEW f \in Party, FollowReceives(f) PROVE FollowTypes'
  BY <1>18, <1>0 DEF FollowReceives, History, World, FwSkips, FwOnly, FwKeeps, RowOnly, RowsOf, FollowTypes, FollowRest
<1>19. ASSUME NEW f \in Party, FollowLapses(f) PROVE FollowTypes'
  BY <1>19, <1>0 DEF FollowLapses, History, World, FollowTypes, FollowRest
<1>20. QED
  BY <1>1, <1>2, <1>3, <1>4, <1>5, <1>6, <1>7, <1>8, <1>9, <1>10, <1>11, <1>12, <1>13, <1>14, <1>15, <1>16, <1>17, <1>18, <1>19 DEF FollowStep

\* The effects keep the lease with the first delivery, and every attempt at an episode it has to do.
LEMMA FollowTurnsKept == ASSUME FollowTypes, FollowTurns, FollowStep PROVE FollowTurns'
<1>1. CASE FollowRests
  BY <1>1, TurnStays, PartyAssumption DEF FollowRests, FwFollows, FollowTurns, TurnOf, AtTurn, Planned, Sought
<1>2. CASE FollowTouched
  BY <1>2, TurnStays, PartyAssumption DEF FollowTouched, FollowTurns, TurnOf, AtTurn, Planned, Sought
<1>3. CASE FollowHalts
  BY <1>3, TurnStays, PartyAssumption DEF FollowHalts, History, World, FollowTurns, TurnOf, AtTurn, Planned, Sought
<1>4. ASSUME NEW f \in Party, FollowSaves(f) PROVE FollowTurns'
  BY <1>4, TurnStays, PartyAssumption DEF FollowSaves, History, World, FwInserts, RowsOf, FollowTurns, TurnOf, AtTurn, Planned, Sought
<1>5. ASSUME NEW f \in Party, FollowDelivers(f) PROVE FollowTurns'
  <2>1. ASSUME NEW g \in Party, g # f PROVE TurnOf(g)'
    BY <1>5, <2>1, TurnStays, PartyAssumption DEF FollowDelivers, World, FwFollows, FwBegins, FwOnly, FollowTurns, TurnOf, AtTurn, Planned
  <2>2. TurnOf(f)'
    BY <1>5, TurnStays DEF FollowDelivers, World, FwFollows, FwBegins, FwOnly, FollowTurns, TurnOf, AtTurn, Planned
  <2>3. \A g \in Party, e \in Episode : fwRow'[g][e].st \in Sought => fwFollow'[g].id
    BY <1>5 DEF FollowDelivers, FwFollows, FwReconciles, RowsOf, RecRow, FollowTurns, TurnOf, Planned, AtTurn, Sought
  <2>4. fwSonarr'.series = "absent" => fwSonarr'.mon = {}
    BY <1>5 DEF FollowDelivers, World, FollowTurns
  <2>5. QED
    BY <2>1, <2>2, <2>3, <2>4 DEF FollowTurns
<1>6. ASSUME NEW f \in Party, FollowChecks(f) PROVE FollowTurns'
  BY <1>6, TurnStays, PartyAssumption DEF FollowChecks, History, World, FwReconciles, RowsOf, FwFollows, RecRow, FollowTurns, TurnOf, AtTurn, Planned, Sought
<1>7. ASSUME NEW f \in Party, FollowSweeps(f) PROVE FollowTurns'
  BY <1>7, TurnStays, PartyAssumption DEF FollowSweeps, History, World, FwBegins, FwOnly, FollowTurns, TurnOf, AtTurn, Planned, Sought
<1>8. ASSUME NEW f \in Party, FollowEnds(f) PROVE FollowTurns'
  BY <1>8, TurnStays, PartyAssumption DEF FollowEnds, History, FwFollows, FwEnds, FwOnly, FollowTurns, TurnOf, AtTurn, Planned, Sought
<1>9. ASSUME NEW f \in Party, FollowGoes(f) PROVE FollowTurns'
  <2>1. ASSUME NEW g \in Party, g # f PROVE TurnOf(g)'
    BY <1>9, <2>1, TurnStays, PartyAssumption DEF FollowGoes, FwFollows, FwGoes, FwOnly, FwKeeps, FollowTurns, TurnOf, AtTurn, Planned
  <2>2. TurnOf(f)'
    BY <1>9, TurnStays DEF FollowGoes, FwFollows, FwGoes, FwOnly, FwKeeps, FollowTurns, TurnOf, AtTurn, Planned
  <2>3. \A g \in Party, e \in Episode : fwRow'[g][e].st \in Sought => fwFollow'[g].id
    BY <1>9 DEF FollowGoes, FwFollows, FwInserts, RowsOf, FollowTurns, TurnOf, Planned, AtTurn, Sought
  <2>4. fwSonarr'.series = "absent" => fwSonarr'.mon = {}
    BY <1>9 DEF FollowGoes, FollowTurns
  <2>5. QED
    BY <2>1, <2>2, <2>3, <2>4 DEF FollowTurns
<1>10. ASSUME NEW f \in Party, FollowReads(f) PROVE FollowTurns'
  BY <1>10, TurnStays, PartyAssumption DEF FollowReads, History, World, FwOnly, FollowTurns, TurnOf, AtTurn, Planned, Sought
<1>11. ASSUME NEW f \in Party, FollowPlans(f) PROVE FollowTurns'
  <2>1. Turn(f) \in fwAtt[f].todo
    BY <1>11, TurnIsTodo DEF FollowPlans
  <2>2. \A g \in Party : Turn(g)' = Turn(g)
    BY <1>11, TurnStays DEF FollowPlans, FwGoes, FwOnly
  <2>3. \A g \in Party : TurnOf(g)'
    BY <1>11, <2>1, <2>2 DEF FollowPlans, History, World, FwGoes, FwOnly, FwKeeps, FollowTurns, TurnOf, AtTurn, Planned
  <2>4. QED
    BY <1>11, <2>3 DEF FollowPlans, History, World, FollowTurns
<1>12. ASSUME NEW f \in Party, FollowFinds(f) PROVE FollowTurns'
  BY <1>12, TurnStays, PartyAssumption DEF FollowFinds, History, World, FwSkips, FwOnly, FwKeeps, RowOnly, RowsOf, FollowTurns, TurnOf, AtTurn, Planned, Sought
<1>13. ASSUME NEW f \in Party, FollowMonitors(f) PROVE FollowTurns'
  BY <1>13, TurnStays, PartyAssumption DEF FollowMonitors, History, FwGoes, FwOnly, FwKeeps, FollowTurns, TurnOf, AtTurn, Planned, Sought
<1>14. ASSUME NEW f \in Party, FollowMarks(f) PROVE FollowTurns'
  <2>1. ASSUME NEW g \in Party, g # f PROVE TurnOf(g)'
    BY <1>14, <2>1, TurnStays, PartyAssumption DEF FollowMarks, World, FwGoes, FwOnly, FwKeeps, FollowTurns, TurnOf, AtTurn, Planned
  <2>2. TurnOf(f)'
    BY <1>14, TurnStays DEF FollowMarks, World, FwGoes, FwOnly, FwKeeps, FollowTurns, TurnOf, AtTurn, Planned
  <2>3. \A g \in Party, e \in Episode : fwRow'[g][e].st \in Sought => fwFollow'[g].id
    BY <1>14 DEF FollowMarks, RowOnly, RowsOf, FollowTurns, TurnOf, Planned, AtTurn, Sought
  <2>4. fwSonarr'.series = "absent" => fwSonarr'.mon = {}
    BY <1>14 DEF FollowMarks, World, FollowTurns
  <2>5. QED
    BY <2>1, <2>2, <2>3, <2>4 DEF FollowTurns
<1>15. ASSUME NEW f \in Party, FollowQueues(f) PROVE FollowTurns'
  <2>1. CASE FwShown(f)
    <3>1. fwFollow[f].id
      BY <1>15 DEF FollowQueues, FollowTurns, TurnOf, Planned, AtTurn
    <3>2. \A g \in Party : TurnOf(g)'
      <4>1. ASSUME NEW g \in Party, g # f PROVE TurnOf(g)'
        BY <1>15, <2>1, <4>1, TurnStays DEF FollowQueues, History, World, FwFollows, FwShown, FwSkips, FwEnds, FwOnly, FwKeeps, FollowTurns, TurnOf, AtTurn, Planned
      <4>2. TurnOf(f)'
        BY <1>15, <2>1, <3>1 DEF FollowQueues, History, World, FwFollows, FwShown, FwSkips, FwEnds, FwOnly, FwKeeps, FollowTurns, TurnOf, AtTurn, Planned
      <4>3. QED
        BY <4>1, <4>2
    <3>3. \A g \in Party, e \in Episode : fwRow'[g][e].st \in Sought => fwFollow'[g].id
      BY <1>15, <2>1, <3>1 DEF FollowQueues, FwFollows, FwShown, RowOnly, FwReconciles, RowsOf, RecRow, FollowTurns, Sought
    <3>4. QED
      BY <1>15, <3>2, <3>3 DEF FollowQueues, World, FollowTurns
  <2>2. CASE FwClear(f)
    BY <1>15, <2>2, TurnStays, PartyAssumption DEF FollowQueues, History, World, FwFollows, FwClear, FwGoes, FwOnly, FwKeeps, FollowTurns, TurnOf, AtTurn, Planned, Sought
  <2>3. CASE FwCopies(f)
    <3>1. fwFollow[f].id
      BY <1>15 DEF FollowQueues, FollowTurns, TurnOf, Planned, AtTurn
    <3>2. \A g \in Party : TurnOf(g)'
      <4>1. ASSUME NEW g \in Party, g # f PROVE TurnOf(g)'
        BY <1>15, <2>3, <4>1, TurnStays DEF FollowQueues, History, World, FwFollows, FwCopies, FwSkips, FwEnds, FwOnly, FwKeeps, FollowTurns, TurnOf, AtTurn, Planned
      <4>2. TurnOf(f)'
        BY <1>15, <2>3, <3>1 DEF FollowQueues, History, World, FwFollows, FwCopies, FwSkips, FwEnds, FwOnly, FwKeeps, FollowTurns, TurnOf, AtTurn, Planned
      <4>3. QED
        BY <4>1, <4>2
    <3>3. \A g \in Party, e \in Episode : fwRow'[g][e].st \in Sought => fwFollow'[g].id
      BY <1>15, <2>3, <3>1 DEF FollowQueues, FwFollows, FwCopies, RowOnly, FwReconciles, RowsOf, RecRow, FollowTurns, Sought
    <3>4. QED
      BY <1>15, <3>2, <3>3 DEF FollowQueues, World, FollowTurns
  <2>4. CASE FwSettles(f)
    <3>1. fwFollow[f].id
      BY <1>15 DEF FollowQueues, FollowTurns, TurnOf, Planned, AtTurn
    <3>2. \A g \in Party : TurnOf(g)'
      <4>1. ASSUME NEW g \in Party, g # f PROVE TurnOf(g)'
        BY <1>15, <2>4, <4>1, TurnStays DEF FollowQueues, History, World, FwFollows, FwSettles, FwSkips, FwEnds, FwOnly, FwKeeps, FollowTurns, TurnOf, AtTurn, Planned
      <4>2. TurnOf(f)'
        BY <1>15, <2>4, <3>1 DEF FollowQueues, History, World, FwFollows, FwSettles, FwSkips, FwEnds, FwOnly, FwKeeps, FollowTurns, TurnOf, AtTurn, Planned
      <4>3. QED
        BY <4>1, <4>2
    <3>3. \A g \in Party, e \in Episode : fwRow'[g][e].st \in Sought => fwFollow'[g].id
      BY <1>15, <2>4, <3>1 DEF FollowQueues, FwFollows, FwSettles, RowOnly, FwReconciles, RowsOf, RecRow, FollowTurns, Sought
    <3>4. QED
      BY <1>15, <3>2, <3>3 DEF FollowQueues, World, FollowTurns
  <2>5. QED
    BY <1>15, <2>1, <2>2, <2>3, <2>4 DEF FollowQueues
<1>16. ASSUME NEW f \in Party, FollowIntends(f) PROVE FollowTurns'
  <2>1. ASSUME NEW g \in Party, g # f PROVE TurnOf(g)'
    BY <1>16, <2>1, TurnStays, PartyAssumption DEF FollowIntends, World, FwGoes, FwOnly, FwKeeps, FollowTurns, TurnOf, AtTurn, Planned
  <2>2. TurnOf(f)'
    BY <1>16, TurnStays DEF FollowIntends, World, FwGoes, FwOnly, FwKeeps, FollowTurns, TurnOf, AtTurn, Planned
  <2>3. \A g \in Party, e \in Episode : fwRow'[g][e].st \in Sought => fwFollow'[g].id
    BY <1>16 DEF FollowIntends, RowOnly, RowsOf, FollowTurns, TurnOf, Planned, AtTurn, Sought
  <2>4. fwSonarr'.series = "absent" => fwSonarr'.mon = {}
    BY <1>16 DEF FollowIntends, World, FollowTurns
  <2>5. QED
    BY <2>1, <2>2, <2>3, <2>4 DEF FollowTurns
<1>17. ASSUME NEW f \in Party, FollowSends(f) PROVE FollowTurns'
  BY <1>17, TurnStays, PartyAssumption DEF FollowSends, FwFollows, FwEnds, FwGoes, FwOnly, FwKeeps, FollowTurns, TurnOf, AtTurn, Planned, Sought
<1>18. ASSUME NEW f \in Party, FollowReceives(f) PROVE FollowTurns'
  BY <1>18, TurnStays, PartyAssumption DEF FollowReceives, History, World, FwSkips, FwOnly, FwKeeps, RowOnly, RowsOf, FollowTurns, TurnOf, AtTurn, Planned, Sought
<1>19. ASSUME NEW f \in Party, FollowLapses(f) PROVE FollowTurns'
  BY <1>19, TurnStays, PartyAssumption DEF FollowLapses, History, World, FollowTurns, TurnOf, AtTurn, Planned, Sought
<1>20. QED
  BY <1>1, <1>2, <1>3, <1>4, <1>5, <1>6, <1>7, <1>8, <1>9, <1>10, <1>11, <1>12, <1>13, <1>14, <1>15, <1>16, <1>17, <1>18, <1>19 DEF FollowStep

\* The effects call submitted only what Sonarr took.
LEMMA FollowRealKept == ASSUME FollowTypes, FollowTurns, FollowReal, FollowStep PROVE FollowReal'
<1>1. CASE FollowRests
  BY <1>1, TurnStays DEF FollowRests, FwFollows, FollowReal, Shows
<1>2. CASE FollowTouched
  BY <1>2, TurnStays DEF FollowTouched, FollowReal, Shows
<1>3. CASE FollowHalts
  BY <1>3, TurnStays DEF FollowHalts, History, World, FollowReal, Shows
<1>4. ASSUME NEW f \in Party, FollowSaves(f) PROVE FollowReal'
  BY <1>4, TurnStays DEF FollowSaves, History, World, FwInserts, RowsOf, FollowReal, Shows
<1>5. ASSUME NEW f \in Party, FollowDelivers(f) PROVE FollowReal'
  <2>1. \A g \in Party, e \in Episode : fwRow'[g][e].st = "submitted" => e \in fwReal
    BY <1>5 DEF FollowDelivers, FwReconciles, RowsOf, RecRow, FollowReal, Shows
  <2>2. \A g \in Party : fwAtt'[g].pc = "receipt" => fwAtt[g].pc = "receipt" /\ Turn(g)' = Turn(g)
    BY <1>5, TurnStays DEF FollowDelivers, FwBegins, FwOnly
  <2>3. QED
    BY <1>5, <2>1, <2>2 DEF FollowDelivers, History, World, FollowReal
<1>6. ASSUME NEW f \in Party, FollowChecks(f) PROVE FollowReal'
  <2>1. \A g \in Party, e \in Episode : fwRow'[g][e].st = "submitted" => e \in fwReal
    BY <1>6 DEF FollowChecks, FwReconciles, RowsOf, RecRow, FollowReal, Shows
  <2>2. \A g \in Party : fwAtt'[g].pc = "receipt" => fwAtt[g].pc = "receipt" /\ Turn(g)' = Turn(g)
    BY <1>6, TurnStays DEF FollowChecks
  <2>3. QED
    BY <1>6, <2>1, <2>2 DEF FollowChecks, History, World, FollowReal
<1>7. ASSUME NEW f \in Party, FollowSweeps(f) PROVE FollowReal'
  BY <1>7, TurnStays DEF FollowSweeps, History, World, FwBegins, FwOnly, FollowReal, Shows
<1>8. ASSUME NEW f \in Party, FollowEnds(f) PROVE FollowReal'
  BY <1>8, TurnStays DEF FollowEnds, History, FwFollows, FwEnds, FwOnly, FollowReal, Shows
<1>9. ASSUME NEW f \in Party, FollowGoes(f) PROVE FollowReal'
  BY <1>9, TurnStays DEF FollowGoes, History, FwInserts, RowsOf, FwFollows, FwGoes, FwOnly, FwKeeps, FollowReal, Shows
<1>10. ASSUME NEW f \in Party, FollowReads(f) PROVE FollowReal'
  BY <1>10, TurnStays DEF FollowReads, History, World, FwOnly, FollowReal, Shows
<1>11. ASSUME NEW f \in Party, FollowPlans(f) PROVE FollowReal'
  BY <1>11, TurnStays DEF FollowPlans, History, World, FwGoes, FwOnly, FwKeeps, FollowReal, Shows
<1>12. ASSUME NEW f \in Party, FollowFinds(f) PROVE FollowReal'
  BY <1>12, TurnStays DEF FollowFinds, History, World, FwSkips, FwOnly, FwKeeps, RowOnly, RowsOf, FollowReal, Shows
<1>13. ASSUME NEW f \in Party, FollowMonitors(f) PROVE FollowReal'
  BY <1>13, TurnStays DEF FollowMonitors, History, FwGoes, FwOnly, FwKeeps, FollowReal, Shows
<1>14. ASSUME NEW f \in Party, FollowMarks(f) PROVE FollowReal'
  <2>1. \A g \in Party, e \in Episode : fwRow'[g][e].st = "submitted" => e \in fwReal
    BY <1>14 DEF FollowMarks, RowOnly, RowsOf, FollowReal, Shows
  <2>2. \A g \in Party : fwAtt'[g].pc = "receipt" => fwAtt[g].pc = "receipt" /\ Turn(g)' = Turn(g)
    BY <1>14, TurnStays DEF FollowMarks, FwGoes, FwOnly
  <2>3. QED
    BY <1>14, <2>1, <2>2 DEF FollowMarks, History, World, FollowReal
<1>15. ASSUME NEW f \in Party, FollowQueues(f) PROVE FollowReal'
  <2>1. CASE FwShown(f)
    <3>1. Turn(f) \in fwReal
      BY <2>1 DEF FwShown, FollowReal, Shows
    <3>2. \A g \in Party, e \in Episode : fwRow'[g][e].st = "submitted" => e \in fwReal
      BY <2>1, <3>1 DEF FwShown, RowOnly, RowsOf, FollowReal
    <3>3. \A g \in Party : fwAtt'[g].pc = "receipt" => fwAtt[g].pc = "receipt" /\ Turn(g)' = Turn(g)
      BY <1>15, <2>1, TurnStays DEF FollowQueues, FwShown, FwSkips, FwOnly
    <3>4. QED
      BY <1>15, <3>2, <3>3 DEF FollowQueues, History, World, FollowReal
  <2>2. CASE FwClear(f)
    BY <1>15, <2>2, TurnStays DEF FollowQueues, History, World, FwFollows, FwClear, FwGoes, FwOnly, FwKeeps, FollowReal, Shows
  <2>3. CASE FwCopies(f)
    <3>1. \A g \in Party, e \in Episode : fwRow'[g][e].st = "submitted" => e \in fwReal
      BY <1>15, <2>3 DEF FollowQueues, FwCopies, FwReconciles, RowsOf, RecRow, FollowReal, Shows
    <3>2. \A g \in Party : fwAtt'[g].pc = "receipt" => fwAtt[g].pc = "receipt" /\ Turn(g)' = Turn(g)
      BY <1>15, <2>3, TurnStays DEF FollowQueues, FwCopies, FwSkips, FwEnds, FwOnly
    <3>3. QED
      BY <1>15, <2>3, <3>1, <3>2 DEF FollowQueues, History, World, FollowReal
  <2>4. CASE FwSettles(f)
    <3>1. \A g \in Party, e \in Episode : fwRow'[g][e].st = "submitted" => e \in fwReal
      BY <1>15, <2>4 DEF FollowQueues, FwSettles, FwReconciles, RowsOf, RecRow, FollowReal, Shows
    <3>2. \A g \in Party : fwAtt'[g].pc = "receipt" => fwAtt[g].pc = "receipt" /\ Turn(g)' = Turn(g)
      BY <1>15, <2>4, TurnStays DEF FollowQueues, FwSettles, FwSkips, FwEnds, FwOnly
    <3>3. QED
      BY <1>15, <2>4, <3>1, <3>2 DEF FollowQueues, History, World, FollowReal
  <2>5. QED
    BY <1>15, <2>1, <2>2, <2>3, <2>4 DEF FollowQueues
<1>16. ASSUME NEW f \in Party, FollowIntends(f) PROVE FollowReal'
  <2>1. \A g \in Party, e \in Episode : fwRow'[g][e].st = "submitted" => e \in fwReal
    BY <1>16 DEF FollowIntends, RowOnly, RowsOf, FollowReal, Shows
  <2>2. \A g \in Party : fwAtt'[g].pc = "receipt" => fwAtt[g].pc = "receipt" /\ Turn(g)' = Turn(g)
    BY <1>16, TurnStays DEF FollowIntends, FwGoes, FwOnly
  <2>3. QED
    BY <1>16, <2>1, <2>2 DEF FollowIntends, History, World, FollowReal
<1>17. ASSUME NEW f \in Party, FollowSends(f) PROVE FollowReal'
  BY <1>17, TurnStays DEF FollowSends, FwFollows, FwEnds, FwGoes, FwOnly, FwKeeps, FollowReal, Shows
<1>18. ASSUME NEW f \in Party, FollowReceives(f) PROVE FollowReal'
  BY <1>18, TurnStays DEF FollowReceives, History, World, FwSkips, FwOnly, FwKeeps, RowOnly, RowsOf, FollowReal, Shows
<1>19. ASSUME NEW f \in Party, FollowLapses(f) PROVE FollowReal'
  BY <1>19, TurnStays DEF FollowLapses, History, World, FollowReal, Shows
<1>20. QED
  BY <1>1, <1>2, <1>3, <1>4, <1>5, <1>6, <1>7, <1>8, <1>9, <1>10, <1>11, <1>12, <1>13, <1>14, <1>15, <1>16, <1>17, <1>18, <1>19 DEF FollowStep

\* The effects keep what was searched for monitored.
LEMMA FollowWatchedKept == ASSUME FollowTypes, FollowTurns, FollowWatched, FollowStep PROVE FollowWatched'
<1>1. CASE FollowRests
  BY <1>1, TurnStays DEF FollowRests, FwFollows, FollowWatched, AtTurn, Planned, Sought
<1>2. CASE FollowTouched
  BY <1>2, TurnStays DEF FollowTouched, FollowWatched, AtTurn, Planned, Sought
<1>3. CASE FollowHalts
  BY <1>3, TurnStays DEF FollowHalts, History, World, FollowWatched, AtTurn, Planned, Sought
<1>4. ASSUME NEW f \in Party, FollowSaves(f) PROVE FollowWatched'
  BY <1>4, TurnStays DEF FollowSaves, History, World, FwInserts, RowsOf, FollowWatched, AtTurn, Planned, Sought
<1>5. ASSUME NEW f \in Party, FollowDelivers(f) PROVE FollowWatched'
  BY <1>5, TurnStays DEF FollowDelivers, History, World, FwReconciles, RowsOf, FwFollows, FwBegins, FwOnly, RecRow, FollowWatched, AtTurn, Planned, Sought
<1>6. ASSUME NEW f \in Party, FollowChecks(f) PROVE FollowWatched'
  BY <1>6, TurnStays DEF FollowChecks, History, World, FwReconciles, RowsOf, FwFollows, RecRow, FollowWatched, AtTurn, Planned, Sought
<1>7. ASSUME NEW f \in Party, FollowSweeps(f) PROVE FollowWatched'
  BY <1>7, TurnStays DEF FollowSweeps, History, World, FwBegins, FwOnly, FollowWatched, AtTurn, Planned, Sought
<1>8. ASSUME NEW f \in Party, FollowEnds(f) PROVE FollowWatched'
  BY <1>8, TurnStays DEF FollowEnds, History, FwFollows, FwEnds, FwOnly, FollowWatched, AtTurn, Planned, Sought
<1>9. ASSUME NEW f \in Party, FollowGoes(f) PROVE FollowWatched'
  BY <1>9, TurnStays DEF FollowGoes, History, FwInserts, RowsOf, FwFollows, FwGoes, FwOnly, FwKeeps, FollowWatched, AtTurn, Planned, Sought
<1>10. ASSUME NEW f \in Party, FollowReads(f) PROVE FollowWatched'
  BY <1>10, TurnStays DEF FollowReads, History, World, FwOnly, FollowWatched, AtTurn, Planned, Sought
<1>11. ASSUME NEW f \in Party, FollowPlans(f) PROVE FollowWatched'
  BY <1>11, TurnStays DEF FollowPlans, History, World, FwGoes, FwOnly, FwKeeps, FollowWatched, AtTurn, Planned, Sought
<1>12. ASSUME NEW f \in Party, FollowFinds(f) PROVE FollowWatched'
  BY <1>12, TurnStays DEF FollowFinds, History, World, FwSkips, FwOnly, FwKeeps, RowOnly, RowsOf, FollowWatched, AtTurn, Planned, Sought
<1>13. ASSUME NEW f \in Party, FollowMonitors(f) PROVE FollowWatched'
  BY <1>13, TurnStays DEF FollowMonitors, History, FwGoes, FwOnly, FwKeeps, FollowWatched, AtTurn, Planned, Sought
<1>14. ASSUME NEW f \in Party, FollowMarks(f) PROVE FollowWatched'
  <2>1. \A g \in Party, e \in Episode : fwRow'[g][e].st \in Sought => e \in fwSonarr.mon \union fwTouched
    BY <1>14 DEF FollowMarks, RowOnly, RowsOf, FollowWatched, Sought, AtTurn
  <2>2. \A g \in Party : Planned(g)' => Planned(g) /\ fwAtt'[g].mon = fwAtt[g].mon
    BY <1>14 DEF FollowMarks, FwGoes, FwOnly, FwKeeps, Planned, AtTurn
  <2>3. \A g \in Party : AtTurn(g)' /\ fwAtt'[g].pc # "monitor" => AtTurn(g) /\ fwAtt[g].pc # "monitor" /\ Turn(g)' = Turn(g)
    BY <1>14, TurnStays DEF FollowMarks, FwGoes, FwOnly, AtTurn
  <2>4. QED
    BY <1>14, <2>1, <2>2, <2>3 DEF FollowMarks, History, World, FollowWatched
<1>15. ASSUME NEW f \in Party, FollowQueues(f) PROVE FollowWatched'
  <2>1. CASE FwShown(f)
    <3>1. \A g \in Party, e \in Episode : fwRow'[g][e].st \in Sought => e \in fwSonarr.mon \union fwTouched
      BY <1>15, <2>1 DEF FollowQueues, FwShown, RowOnly, RowsOf, FollowWatched, Sought, AtTurn
    <3>2. \A g \in Party : Planned(g)' => Planned(g) /\ fwAtt'[g].mon = fwAtt[g].mon
      BY <1>15, <2>1 DEF FollowQueues, FwShown, FwSkips, FwOnly, FwKeeps, Planned, AtTurn
    <3>3. \A g \in Party : AtTurn(g)' /\ fwAtt'[g].pc # "monitor" => AtTurn(g) /\ fwAtt[g].pc # "monitor" /\ Turn(g)' = Turn(g)
      BY <1>15, <2>1, TurnStays DEF FollowQueues, FwShown, FwSkips, FwOnly, AtTurn
    <3>4. QED
      BY <1>15, <2>1, <3>1, <3>2, <3>3 DEF FollowQueues, History, World, FollowWatched
  <2>2. CASE FwClear(f)
    BY <1>15, <2>2, TurnStays DEF FollowQueues, History, World, FwFollows, FwClear, FwGoes, FwOnly, FwKeeps, FollowWatched, AtTurn, Planned, Sought
  <2>3. CASE FwCopies(f)
    <3>1. \A g \in Party, e \in Episode : fwRow'[g][e].st \in Sought => e \in fwSonarr.mon \union fwTouched
      <4>1. Turn(f) \in fwSonarr.mon \union fwTouched
        BY <1>15 DEF FollowQueues, FollowWatched, AtTurn
      <4>2. QED
        BY <2>3, <4>1 DEF FwCopies, FwReconciles, RowsOf, RecRow, FollowWatched, Sought
    <3>2. \A g \in Party : Planned(g)' => Planned(g) /\ fwAtt'[g].mon = fwAtt[g].mon
      BY <1>15, <2>3 DEF FollowQueues, FwCopies, FwSkips, FwEnds, FwOnly, FwKeeps, Planned, AtTurn
    <3>3. \A g \in Party : AtTurn(g)' => AtTurn(g) /\ fwAtt'[g] = fwAtt[g] /\ Turn(g)' = Turn(g)
      BY <1>15, <2>3, TurnStays DEF FollowQueues, FwCopies, FwSkips, FwEnds, FwOnly, AtTurn
    <3>4. QED
      BY <1>15, <3>1, <3>2, <3>3 DEF FollowQueues, History, World, FollowWatched
  <2>4. CASE FwSettles(f)
    BY <1>15, <2>4, TurnStays DEF FollowQueues, History, World, FwFollows, FwSettles, FwReconciles, RowsOf, RecRow, FwSkips, FwEnds, FwOnly, FwKeeps, FollowWatched, AtTurn, Planned, Sought
  <2>5. QED
    BY <1>15, <2>1, <2>2, <2>3, <2>4 DEF FollowQueues
<1>16. ASSUME NEW f \in Party, FollowIntends(f) PROVE FollowWatched'
  BY <1>16, TurnStays DEF FollowIntends, History, World, FwGoes, FwOnly, FwKeeps, RowOnly, RowsOf, FollowWatched, AtTurn, Planned, Sought
<1>17. ASSUME NEW f \in Party, FollowSends(f) PROVE FollowWatched'
  BY <1>17, TurnStays DEF FollowSends, FwFollows, FwEnds, FwGoes, FwOnly, FwKeeps, FollowWatched, AtTurn, Planned, Sought
<1>18. ASSUME NEW f \in Party, FollowReceives(f) PROVE FollowWatched'
  BY <1>18, TurnStays DEF FollowReceives, History, World, FwSkips, FwOnly, FwKeeps, RowOnly, RowsOf, FollowWatched, AtTurn, Planned, Sought
<1>19. ASSUME NEW f \in Party, FollowLapses(f) PROVE FollowWatched'
  BY <1>19, TurnStays DEF FollowLapses, History, World, FollowWatched, AtTurn, Planned, Sought
<1>20. QED
  BY <1>1, <1>2, <1>3, <1>4, <1>5, <1>6, <1>7, <1>8, <1>9, <1>10, <1>11, <1>12, <1>13, <1>14, <1>15, <1>16, <1>17, <1>18, <1>19 DEF FollowStep

\* The effects forget no search that was sent.
LEMMA FollowRowsKept == ASSUME FollowTypes, FollowTurns, FollowWatched, FollowRows, FollowPlan, FollowStep PROVE FollowRows'
<1>1. CASE FollowRests
  BY <1>1, TurnStays DEF FollowRests, FwFollows, FollowRows, KeptRow, BegunRow, FollowPlan, PlanOf, AtTurn, Planned, Sought, Busy, Onto
<1>2. CASE FollowTouched
  BY <1>2, TurnStays DEF FollowTouched, FollowRows, KeptRow, BegunRow, FollowPlan, PlanOf, AtTurn, Planned, Sought, Busy, Onto
<1>3. CASE FollowHalts
  BY <1>3, TurnStays DEF FollowHalts, History, World, FollowRows, KeptRow, BegunRow, FollowPlan, PlanOf, AtTurn, Planned, Sought, Busy, Onto
<1>4. ASSUME NEW f \in Party, FollowSaves(f) PROVE FollowRows'
  <2>1. ASSUME NEW g \in Party, NEW e \in Episode \ fwTouched PROVE KeptRow(g, e)'
    BY <1>4, <2>1 DEF FollowSaves, History, FwInserts, RowsOf, FollowRows, KeptRow, Busy
  <2>2. ASSUME NEW g \in Party PROVE BegunRow(g)'
    <3>1. fwAtt'[g].pc \in {"post", "receipt"} => fwAtt[g].pc \in {"post", "receipt"} /\ fwAtt'[g].todo = fwAtt[g].todo
      BY <1>4, <2>2 DEF FollowSaves, History, FwInserts, RowsOf
    <3>2. fwAtt'[g].pc \in {"post", "receipt"} => Turn(g)' = Turn(g) /\ Turn(g) \in Episode
      BY <3>1, <2>2, TurnStays, TurnAt DEF AtTurn
    <3>3. QED
      BY <1>4, <2>2, <3>1, <3>2 DEF FollowSaves, History, FwInserts, RowsOf, FollowRows, BegunRow, Busy
  <2>3. fwTouched' = fwTouched
    BY <1>4 DEF FollowSaves, History, FwInserts, RowsOf
  <2>4. QED
    BY <2>1, <2>2, <2>3 DEF FollowRows
<1>5. ASSUME NEW f \in Party, FollowDelivers(f) PROVE FollowRows'
  <2>1. ASSUME NEW g \in Party, NEW e \in Episode \ fwTouched PROVE KeptRow(g, e)'
    BY <1>5, <2>1 DEF FollowDelivers, History, FwReconciles, RowsOf, RecRow, FwBegins, FwOnly, FollowRows, KeptRow, Busy
  <2>2. ASSUME NEW g \in Party PROVE BegunRow(g)'
    <3>1. fwAtt'[g].pc \in {"post", "receipt"} => fwAtt[g].pc \in {"post", "receipt"} /\ fwAtt'[g].todo = fwAtt[g].todo
      BY <1>5, <2>2 DEF FollowDelivers, History, FwReconciles, RowsOf, RecRow, FwBegins, FwOnly
    <3>2. fwAtt'[g].pc \in {"post", "receipt"} => Turn(g)' = Turn(g) /\ Turn(g) \in Episode
      BY <3>1, <2>2, TurnStays, TurnAt DEF AtTurn
    <3>3. QED
      BY <1>5, <2>2, <3>1, <3>2 DEF FollowDelivers, History, FwReconciles, RowsOf, RecRow, FwBegins, FwOnly, FollowRows, BegunRow, Busy
  <2>3. fwTouched' = fwTouched
    BY <1>5 DEF FollowDelivers, History, FwReconciles, RowsOf, RecRow, FwBegins, FwOnly
  <2>4. QED
    BY <2>1, <2>2, <2>3 DEF FollowRows
<1>6. ASSUME NEW f \in Party, FollowChecks(f) PROVE FollowRows'
  <2>1. ASSUME NEW g \in Party, NEW e \in Episode \ fwTouched PROVE KeptRow(g, e)'
    BY <1>6, <2>1 DEF FollowChecks, History, FwReconciles, RowsOf, RecRow, FollowRows, KeptRow, Busy
  <2>2. ASSUME NEW g \in Party PROVE BegunRow(g)'
    <3>1. fwAtt'[g].pc \in {"post", "receipt"} => fwAtt[g].pc \in {"post", "receipt"} /\ fwAtt'[g].todo = fwAtt[g].todo
      BY <1>6, <2>2 DEF FollowChecks, History, FwReconciles, RowsOf, RecRow
    <3>2. fwAtt'[g].pc \in {"post", "receipt"} => Turn(g)' = Turn(g) /\ Turn(g) \in Episode
      BY <3>1, <2>2, TurnStays, TurnAt DEF AtTurn
    <3>3. QED
      BY <1>6, <2>2, <3>1, <3>2 DEF FollowChecks, History, FwReconciles, RowsOf, RecRow, FollowRows, BegunRow, Busy
  <2>3. fwTouched' = fwTouched
    BY <1>6 DEF FollowChecks, History, FwReconciles, RowsOf, RecRow
  <2>4. QED
    BY <2>1, <2>2, <2>3 DEF FollowRows
<1>7. ASSUME NEW f \in Party, FollowSweeps(f) PROVE FollowRows'
  BY <1>7, TurnStays DEF FollowSweeps, History, World, FwBegins, FwOnly, FollowRows, KeptRow, BegunRow, FollowPlan, PlanOf, AtTurn, Planned, Sought, Busy, Onto
<1>8. ASSUME NEW f \in Party, FollowEnds(f) PROVE FollowRows'
  BY <1>8, TurnStays DEF FollowEnds, History, FwFollows, FwEnds, FwOnly, FollowRows, KeptRow, BegunRow, FollowPlan, PlanOf, AtTurn, Planned, Sought, Busy, Onto
<1>9. ASSUME NEW f \in Party, FollowGoes(f) PROVE FollowRows'
  <2>1. ASSUME NEW g \in Party, NEW e \in Episode \ fwTouched PROVE KeptRow(g, e)'
    BY <1>9, <2>1 DEF FollowGoes, History, FwInserts, RowsOf, FwGoes, FwOnly, FollowRows, KeptRow, Busy
  <2>2. ASSUME NEW g \in Party PROVE BegunRow(g)'
    <3>1. fwAtt'[g].pc \in {"post", "receipt"} => fwAtt[g].pc \in {"post", "receipt"} /\ fwAtt'[g].todo = fwAtt[g].todo
      BY <1>9, <2>2 DEF FollowGoes, History, FwInserts, RowsOf, FwGoes, FwOnly
    <3>2. fwAtt'[g].pc \in {"post", "receipt"} => Turn(g)' = Turn(g) /\ Turn(g) \in Episode
      BY <3>1, <2>2, TurnStays, TurnAt DEF AtTurn
    <3>3. QED
      BY <1>9, <2>2, <3>1, <3>2 DEF FollowGoes, History, FwInserts, RowsOf, FwGoes, FwOnly, FollowRows, BegunRow, Busy
  <2>3. fwTouched' = fwTouched
    BY <1>9 DEF FollowGoes, History, FwInserts, RowsOf, FwGoes, FwOnly
  <2>4. QED
    BY <2>1, <2>2, <2>3 DEF FollowRows
<1>10. ASSUME NEW f \in Party, FollowReads(f) PROVE FollowRows'
  BY <1>10, TurnStays DEF FollowReads, History, World, FwOnly, FollowRows, KeptRow, BegunRow, FollowPlan, PlanOf, AtTurn, Planned, Sought, Busy, Onto
<1>11. ASSUME NEW f \in Party, FollowPlans(f) PROVE FollowRows'
  BY <1>11, TurnStays DEF FollowPlans, History, World, FwGoes, FwOnly, FwKeeps, FollowRows, KeptRow, BegunRow, FollowPlan, PlanOf, AtTurn, Planned, Sought, Busy, Onto
<1>12. ASSUME NEW f \in Party, FollowFinds(f) PROVE FollowRows'
  BY <1>12, TurnStays DEF FollowFinds, History, World, FwSkips, FwOnly, FwKeeps, RowOnly, RowsOf, FollowRows, KeptRow, BegunRow, FollowPlan, PlanOf, AtTurn, Planned, Sought, Busy, Onto
<1>13. ASSUME NEW f \in Party, FollowMonitors(f) PROVE FollowRows'
  BY <1>13, TurnStays DEF FollowMonitors, History, FwGoes, FwOnly, FwKeeps, FollowRows, KeptRow, BegunRow, FollowPlan, PlanOf, AtTurn, Planned, Sought, Busy, Onto
<1>14. ASSUME NEW f \in Party, FollowMarks(f) PROVE FollowRows'
  <2>1. ASSUME NEW g \in Party, NEW e \in Episode \ fwTouched PROVE KeptRow(g, e)'
    <3>1. CASE g = f /\ e = Turn(f)
      BY <1>14, <2>1, <3>1, NotBegun DEF FollowMarks, History, RowOnly, KeptRow
    <3>2. CASE ~(g = f /\ e = Turn(f))
      BY <1>14, <2>1, <3>2 DEF FollowMarks, History, RowOnly, RowsOf, FollowRows, KeptRow
    <3>3. QED
      BY <3>1, <3>2
  <2>2. ASSUME NEW g \in Party PROVE BegunRow(g)'
    <3>1. fwAtt'[g].pc \in {"post", "receipt"} => fwAtt[g].pc \in {"post", "receipt"} /\ fwAtt'[g].todo = fwAtt[g].todo
      BY <1>14, <2>2 DEF FollowMarks, History, FwGoes, FwOnly, RowOnly, RowsOf
    <3>2. fwAtt'[g].pc \in {"post", "receipt"} => Turn(g)' = Turn(g) /\ Turn(g) \in Episode
      BY <3>1, <2>2, TurnStays, TurnAt DEF AtTurn
    <3>3. QED
      BY <1>14, <2>2, <3>1, <3>2 DEF FollowMarks, History, FwGoes, FwOnly, RowOnly, RowsOf, FollowRows, BegunRow, Busy
  <2>3. fwTouched' = fwTouched
    BY <1>14 DEF FollowMarks, History, FwGoes, FwOnly, RowOnly, RowsOf
  <2>4. QED
    BY <2>1, <2>2, <2>3 DEF FollowRows
<1>15. ASSUME NEW f \in Party, FollowQueues(f) PROVE FollowRows'
  <2>1. CASE FwShown(f)
    <3>1. ASSUME NEW g \in Party, NEW e \in Episode \ fwTouched PROVE KeptRow(g, e)'
      BY <1>15, <2>1, <3>1 DEF FollowQueues, History, FwShown, RowOnly, RowsOf, FollowRows, KeptRow, Busy
    <3>2. ASSUME NEW g \in Party PROVE BegunRow(g)'
      <4>1. fwAtt'[g].pc \in {"post", "receipt"} => fwAtt[g].pc \in {"post", "receipt"} /\ fwAtt'[g].todo = fwAtt[g].todo
        BY <1>15, <2>1, <3>2 DEF FollowQueues, History, FwShown, RowOnly, RowsOf, FwSkips, FwOnly
      <4>2. fwAtt'[g].pc \in {"post", "receipt"} => Turn(g)' = Turn(g) /\ Turn(g) \in Episode
        BY <4>1, <3>2, TurnStays, TurnAt DEF AtTurn
      <4>3. QED
        BY <1>15, <2>1, <3>2, <4>1, <4>2 DEF FollowQueues, History, FwShown, RowOnly, RowsOf, FwSkips, FwOnly, FollowRows, BegunRow, Busy
    <3>3. fwTouched' = fwTouched
      BY <1>15, <2>1 DEF FollowQueues, History, FwShown, RowOnly, RowsOf, FwSkips, FwOnly
    <3>4. QED
      BY <3>1, <3>2, <3>3 DEF FollowRows
  <2>2. CASE FwClear(f)
    BY <1>15, <2>2, TurnStays DEF FollowQueues, History, World, FwFollows, FwClear, FwGoes, FwOnly, FwKeeps, FollowRows, KeptRow, BegunRow, FollowPlan, PlanOf, AtTurn, Planned, Sought, Busy, Onto
  <2>3. CASE FwCopies(f)
    <3>1. ASSUME NEW g \in Party, NEW e \in Episode \ fwTouched PROVE KeptRow(g, e)'
      <4>1. CASE g = f /\ e = Turn(f)
        BY <1>15, <2>3, <3>1, <4>1, NotBegun DEF FollowQueues, History, FwCopies, KeptRow, Busy
      <4>2. CASE ~(g = f /\ e = Turn(f))
        BY <1>15, <2>3, <3>1, <4>2 DEF FollowQueues, History, FwCopies, FwReconciles, RowsOf, RecRow, FollowRows, KeptRow, Busy
      <4>3. QED
        BY <4>1, <4>2
    <3>2. ASSUME NEW g \in Party PROVE BegunRow(g)'
      <4>1. fwAtt'[g].pc \in {"post", "receipt"} => fwAtt[g].pc \in {"post", "receipt"} /\ fwAtt'[g].todo = fwAtt[g].todo
        BY <1>15, <2>3, <3>2 DEF FollowQueues, History, FwCopies, FwReconciles, RowsOf, RecRow, FwSkips, FwEnds, FwOnly
      <4>2. fwAtt'[g].pc \in {"post", "receipt"} => Turn(g)' = Turn(g) /\ Turn(g) \in Episode
        BY <4>1, <3>2, TurnStays, TurnAt DEF AtTurn
      <4>3. QED
        BY <1>15, <2>3, <3>2, <4>1, <4>2 DEF FollowQueues, History, FwCopies, FwReconciles, RowsOf, RecRow, FwSkips, FwEnds, FwOnly, FollowRows, BegunRow, Busy
    <3>3. fwTouched' = fwTouched
      BY <1>15, <2>3 DEF FollowQueues, History, FwCopies, FwReconciles, RowsOf, RecRow, FwSkips, FwEnds, FwOnly
    <3>4. QED
      BY <3>1, <3>2, <3>3 DEF FollowRows
  <2>4. CASE FwSettles(f)
    <3>1. ASSUME NEW g \in Party, NEW e \in Episode \ fwTouched PROVE KeptRow(g, e)'
      BY <1>15, <2>4, <3>1 DEF FollowQueues, History, FwSettles, FwReconciles, RowsOf, RecRow, FollowRows, KeptRow, Busy
    <3>2. ASSUME NEW g \in Party PROVE BegunRow(g)'
      <4>1. fwAtt'[g].pc \in {"post", "receipt"} => fwAtt[g].pc \in {"post", "receipt"} /\ fwAtt'[g].todo = fwAtt[g].todo
        BY <1>15, <2>4, <3>2 DEF FollowQueues, History, FwSettles, FwReconciles, RowsOf, RecRow, FwSkips, FwEnds, FwOnly
      <4>2. fwAtt'[g].pc \in {"post", "receipt"} => Turn(g)' = Turn(g) /\ Turn(g) \in Episode
        BY <4>1, <3>2, TurnStays, TurnAt DEF AtTurn
      <4>3. QED
        BY <1>15, <2>4, <3>2, <4>1, <4>2 DEF FollowQueues, History, FwSettles, FwReconciles, RowsOf, RecRow, FwSkips, FwEnds, FwOnly, FollowRows, BegunRow, Busy
    <3>3. fwTouched' = fwTouched
      BY <1>15, <2>4 DEF FollowQueues, History, FwSettles, FwReconciles, RowsOf, RecRow, FwSkips, FwEnds, FwOnly
    <3>4. QED
      BY <3>1, <3>2, <3>3 DEF FollowRows
  <2>5. QED
    BY <1>15, <2>1, <2>2, <2>3, <2>4 DEF FollowQueues
<1>16. ASSUME NEW f \in Party, FollowIntends(f) PROVE FollowRows'
  <2>1. ASSUME NEW g \in Party, NEW e \in Episode \ fwTouched PROVE KeptRow(g, e)'
    <3>1. CASE g = f /\ e = Turn(f)
      BY <1>16, <2>1, <3>1, NotBegun DEF FollowIntends, History, KeptRow, Busy
    <3>2. CASE ~(g = f /\ e = Turn(f))
      BY <1>16, <2>1, <3>2 DEF FollowIntends, History, RowOnly, RowsOf, FollowRows, KeptRow
    <3>3. QED
      BY <3>1, <3>2
  <2>2. ASSUME NEW g \in Party PROVE BegunRow(g)'
    <3>1. Turn(g)' = Turn(g)
      BY <1>16, <2>2, TurnStays DEF FollowIntends, FwGoes, FwOnly
    <3>2. CASE g = f
      BY <1>16, <3>1, <3>2 DEF FollowIntends, BegunRow, Busy
    <3>3. CASE g # f
      BY <1>16, <2>2, <3>1, <3>3 DEF FollowIntends, FwGoes, FwOnly, RowOnly, RowsOf, FollowRows, BegunRow
    <3>4. QED
      BY <3>2, <3>3
  <2>3. fwTouched' = fwTouched
    BY <1>16 DEF FollowIntends, History
  <2>4. QED
    BY <2>1, <2>2, <2>3 DEF FollowRows
<1>17. ASSUME NEW f \in Party, FollowSends(f) PROVE FollowRows'
  <2>1. ASSUME NEW g \in Party, NEW e \in Episode \ fwTouched PROVE KeptRow(g, e)'
    <3>1. CASE g = f /\ e = Turn(f)
      <4>1. Planned(f) /\ e \in fwAtt[f].todo /\ fwAtt[f].pc = "post"
        BY <1>17, <3>1, TurnAt DEF FollowSends, Planned, AtTurn
      <4>2. fwPosts[f][e] = 0
        BY <2>1, <3>1, <4>1 DEF FollowPlan, PlanOf
      <4>3. fwRow[f][e].st \in Busy /\ KeptRow(f, e)
        BY <2>1, <3>1, <4>1 DEF FollowRows, BegunRow
      <4>4. fwPosts'[f][e] = 1 /\ fwRow' = fwRow
        <5>1. fwPosts'[f][e] = fwPosts[f][e] + 1
          BY <1>17, <3>1, SendCounts
        <5>2. fwRow' = fwRow
          BY <1>17 DEF FollowSends
        <5>3. QED
          BY <4>2, <5>1, <5>2
      <4>5. QED
        BY <3>1, <4>3, <4>4 DEF KeptRow
    <3>2. CASE ~(g = f /\ e = Turn(f))
      <4>1. fwPosts'[g][e] = fwPosts[g][e] /\ fwRow' = fwRow
        BY <1>17, <2>1, <3>2, SendCounts DEF FollowSends
      <4>2. QED
        BY <2>1, <4>1 DEF FollowRows, KeptRow
    <3>3. QED
      BY <3>1, <3>2
  <2>2. ASSUME NEW g \in Party PROVE BegunRow(g)'
    <3>1. fwAtt'[g].pc \in {"post", "receipt"} => fwAtt[g].pc \in {"post", "receipt"} /\ fwAtt'[g].todo = fwAtt[g].todo
      BY <1>17, <2>2 DEF FollowSends, FwEnds, FwGoes, FwOnly
    <3>2. fwAtt'[g].pc \in {"post", "receipt"} => Turn(g)' = Turn(g)
      BY <2>2, <3>1, TurnStays
    <3>3. QED
      BY <1>17, <2>2, <3>1, <3>2 DEF FollowSends, FollowRows, BegunRow
  <2>3. fwTouched' = fwTouched
    BY <1>17 DEF FollowSends
  <2>4. QED
    BY <2>1, <2>2, <2>3 DEF FollowRows
<1>18. ASSUME NEW f \in Party, FollowReceives(f) PROVE FollowRows'
  <2>1. ASSUME NEW g \in Party, NEW e \in Episode \ fwTouched PROVE KeptRow(g, e)'
    <3>1. CASE g = f /\ e = Turn(f)
      BY <1>18, <2>1, <3>1 DEF FollowReceives, History, RowOnly, FollowRows, KeptRow, Busy
    <3>2. CASE ~(g = f /\ e = Turn(f))
      BY <1>18, <2>1, <3>2 DEF FollowReceives, History, RowOnly, RowsOf, FollowRows, KeptRow
    <3>3. QED
      BY <3>1, <3>2
  <2>2. ASSUME NEW g \in Party PROVE BegunRow(g)'
    <3>1. fwAtt'[g].pc \in {"post", "receipt"} => fwAtt[g].pc \in {"post", "receipt"} /\ fwAtt'[g].todo = fwAtt[g].todo
      BY <1>18, <2>2 DEF FollowReceives, History, FwSkips, FwOnly, RowOnly, RowsOf
    <3>2. fwAtt'[g].pc \in {"post", "receipt"} => Turn(g)' = Turn(g) /\ Turn(g) \in Episode
      BY <3>1, <2>2, TurnStays, TurnAt DEF AtTurn
    <3>3. QED
      BY <1>18, <2>2, <3>1, <3>2 DEF FollowReceives, History, FwSkips, FwOnly, RowOnly, RowsOf, FollowRows, BegunRow, Busy
  <2>3. fwTouched' = fwTouched
    BY <1>18 DEF FollowReceives, History, FwSkips, FwOnly, RowOnly, RowsOf
  <2>4. QED
    BY <2>1, <2>2, <2>3 DEF FollowRows
<1>19. ASSUME NEW f \in Party, FollowLapses(f) PROVE FollowRows'
  BY <1>19, TurnStays DEF FollowLapses, History, World, FollowRows, KeptRow, BegunRow, FollowPlan, PlanOf, AtTurn, Planned, Sought, Busy, Onto
<1>20. QED
  BY <1>1, <1>2, <1>3, <1>4, <1>5, <1>6, <1>7, <1>8, <1>9, <1>10, <1>11, <1>12, <1>13, <1>14, <1>15, <1>16, <1>17, <1>18, <1>19 DEF FollowStep

\* The effects keep what an attempt read in line with what was searched for.
LEMMA FollowPlanKept == ASSUME FollowTypes, FollowTurns, FollowWatched, FollowRows, FollowPlan, FollowStep PROVE FollowPlan'
<1>1. CASE FollowRests
  BY <1>1, TurnStays DEF FollowRests, FwFollows, FollowPlan, PlanOf, AtTurn, Planned, Sought, Busy, Onto
<1>2. CASE FollowTouched
  BY <1>2, TurnStays DEF FollowTouched, FollowPlan, PlanOf, AtTurn, Planned, Sought, Busy, Onto
<1>3. CASE FollowHalts
  BY <1>3, TurnStays DEF FollowHalts, History, World, FollowPlan, PlanOf, AtTurn, Planned, Sought, Busy, Onto
<1>4. ASSUME NEW f \in Party, FollowSaves(f) PROVE FollowPlan'
  BY <1>4, TurnStays DEF FollowSaves, History, World, FwInserts, RowsOf, FollowPlan, PlanOf, AtTurn, Planned, Sought, Busy, Onto
<1>5. ASSUME NEW f \in Party, FollowDelivers(f) PROVE FollowPlan'
  BY <1>5, TurnStays DEF FollowDelivers, History, World, FwReconciles, RowsOf, FwFollows, FwBegins, FwOnly, RecRow, FollowPlan, PlanOf, AtTurn, Planned, Sought, Busy, Onto
<1>6. ASSUME NEW f \in Party, FollowChecks(f) PROVE FollowPlan'
  BY <1>6, TurnStays DEF FollowChecks, History, World, FwReconciles, RowsOf, FwFollows, RecRow, FollowPlan, PlanOf, AtTurn, Planned, Sought, Busy, Onto
<1>7. ASSUME NEW f \in Party, FollowSweeps(f) PROVE FollowPlan'
  BY <1>7, TurnStays DEF FollowSweeps, History, World, FwBegins, FwOnly, FollowPlan, PlanOf, AtTurn, Planned, Sought, Busy, Onto
<1>8. ASSUME NEW f \in Party, FollowEnds(f) PROVE FollowPlan'
  BY <1>8, TurnStays DEF FollowEnds, History, FwFollows, FwEnds, FwOnly, FollowPlan, PlanOf, AtTurn, Planned, Sought, Busy, Onto
<1>9. ASSUME NEW f \in Party, FollowGoes(f) PROVE FollowPlan'
  BY <1>9, TurnStays DEF FollowGoes, History, FwInserts, RowsOf, FwFollows, FwGoes, FwOnly, FwKeeps, FollowPlan, PlanOf, AtTurn, Planned, Sought, Busy, Onto
<1>10. ASSUME NEW f \in Party, FollowReads(f) PROVE FollowPlan'
  <2>1. ASSUME NEW g \in Party, NEW e \in Episode \ fwTouched PROVE PlanOf(g, e)'
    <3>1. CASE g = f
      BY <1>10, <2>1, <3>1 DEF FollowReads, History, World, FollowWatched, PlanOf, Planned, AtTurn, Onto, Sought
    <3>2. CASE g # f
      <4>1. fwAtt'[g] = fwAtt[g] /\ Turn(g)' = Turn(g)
        BY <1>10, <2>1, <3>2, TurnStays DEF FollowReads, FwOnly
      <4>2. QED
        BY <1>10, <2>1, <4>1 DEF FollowReads, History, FollowPlan, PlanOf, Planned, AtTurn, Onto
    <3>3. QED
      BY <3>1, <3>2
  <2>2. QED
    BY <1>10, <2>1 DEF FollowReads, History, FollowPlan
<1>11. ASSUME NEW f \in Party, FollowPlans(f) PROVE FollowPlan'
  BY <1>11, TurnStays DEF FollowPlans, History, World, FwGoes, FwOnly, FwKeeps, FollowPlan, PlanOf, AtTurn, Planned, Sought, Busy, Onto
<1>12. ASSUME NEW f \in Party, FollowFinds(f) PROVE FollowPlan'
  BY <1>12, TurnStays DEF FollowFinds, History, World, FwSkips, FwOnly, FwKeeps, RowOnly, RowsOf, FollowPlan, PlanOf, AtTurn, Planned, Sought, Busy, Onto
<1>13. ASSUME NEW f \in Party, FollowMonitors(f) PROVE FollowPlan'
  BY <1>13, TurnStays DEF FollowMonitors, History, FwGoes, FwOnly, FwKeeps, FollowPlan, PlanOf, AtTurn, Planned, Sought, Busy, Onto
<1>14. ASSUME NEW f \in Party, FollowMarks(f) PROVE FollowPlan'
  BY <1>14, TurnStays DEF FollowMarks, History, World, FwGoes, FwOnly, FwKeeps, RowOnly, RowsOf, FollowPlan, PlanOf, AtTurn, Planned, Sought, Busy, Onto
<1>15. ASSUME NEW f \in Party, FollowQueues(f) PROVE FollowPlan'
  <2>1. CASE FwShown(f)
    <3>1. ASSUME NEW g \in Party, NEW e \in Episode \ fwTouched PROVE PlanOf(g, e)'
      <4>1. fwPosts' = fwPosts /\ PlanOf(g, e)
        BY <1>15, <3>1 DEF FollowQueues, History, FollowPlan
      <4>2. CASE g = f
        <5>1. \/ fwAtt'[f].pc = "idle"
              \/ /\ fwAtt'[f].pc = "next" /\ fwAtt'[f].todo = fwAtt[f].todo \ {Turn(f)} /\ fwAtt[f].pc = "queue"
                 /\ fwAtt'[f].snap = fwAtt[f].snap /\ fwAtt'[f].mon = fwAtt[f].mon
          BY <1>15, <2>1 DEF FollowQueues, FwShown, FwSkips, FwKeeps
        <5>2. e # Turn(f) => (fwRow'[f][e].st \in Busy => fwRow[f][e].st \in Busy)
          BY <2>1, <3>1 DEF FwShown, RowOnly, Busy
        <5>3. QED
          BY <4>1, <4>2, <5>1, <5>2 DEF PlanOf, Planned, AtTurn, Onto
      <4>3. CASE g # f
        <5>1. fwAtt'[g] = fwAtt[g] /\ fwRow'[g] = fwRow[g] /\ Turn(g)' = Turn(g)
          BY <2>1, <3>1, <4>3, TurnStays DEF FwShown, RowOnly, RowsOf, FwSkips, FwOnly
        <5>2. QED
          BY <4>1, <5>1 DEF PlanOf, Planned, AtTurn, Onto
      <4>4. QED
        BY <4>2, <4>3
    <3>2. QED
      BY <1>15, <3>1 DEF FollowQueues, History, FollowPlan
  <2>2. CASE FwClear(f)
    BY <1>15, <2>2, TurnStays DEF FollowQueues, History, World, FwFollows, FwClear, FwGoes, FwOnly, FwKeeps, FollowPlan, PlanOf, AtTurn, Planned, Sought, Busy, Onto
  <2>3. CASE FwCopies(f)
    <3>1. ASSUME NEW g \in Party, NEW e \in Episode \ fwTouched PROVE PlanOf(g, e)'
      <4>1. fwPosts' = fwPosts /\ PlanOf(g, e)
        BY <1>15, <3>1 DEF FollowQueues, History, FollowPlan
      <4>2. CASE g = f
        <5>1. \/ fwAtt'[f].pc = "idle"
              \/ /\ fwAtt'[f].pc = "next" /\ fwAtt'[f].todo = fwAtt[f].todo \ {Turn(f)} /\ fwAtt[f].pc = "queue"
                 /\ fwAtt'[f].snap = fwAtt[f].snap /\ fwAtt'[f].mon = fwAtt[f].mon
          BY <1>15, <2>3 DEF FollowQueues, FwCopies, FwSkips, FwEnds, FwKeeps
        <5>2. e # Turn(f) => (fwRow'[f][e].st \in Busy => fwRow[f][e].st \in Busy)
          BY <2>3, <3>1 DEF FwCopies, FwReconciles, RecRow, Busy
        <5>3. QED
          BY <4>1, <4>2, <5>1, <5>2 DEF PlanOf, Planned, AtTurn, Onto
      <4>3. CASE g # f
        <5>1. fwAtt'[g] = fwAtt[g] /\ fwRow'[g] = fwRow[g] /\ Turn(g)' = Turn(g)
          BY <2>3, <3>1, <4>3, TurnStays DEF FwCopies, FwReconciles, RowsOf, FwSkips, FwEnds, FwOnly
        <5>2. QED
          BY <4>1, <5>1 DEF PlanOf, Planned, AtTurn, Onto
      <4>4. QED
        BY <4>2, <4>3
    <3>2. QED
      BY <1>15, <3>1 DEF FollowQueues, History, FollowPlan
  <2>4. CASE FwSettles(f)
    <3>1. ASSUME NEW g \in Party, NEW e \in Episode \ fwTouched PROVE PlanOf(g, e)'
      <4>1. fwPosts' = fwPosts /\ PlanOf(g, e)
        BY <1>15, <3>1 DEF FollowQueues, History, FollowPlan
      <4>2. CASE g = f
        <5>1. \/ fwAtt'[f].pc = "idle"
              \/ /\ fwAtt'[f].pc = "next" /\ fwAtt'[f].todo = fwAtt[f].todo \ {Turn(f)} /\ fwAtt[f].pc = "queue"
                 /\ fwAtt'[f].snap = fwAtt[f].snap /\ fwAtt'[f].mon = fwAtt[f].mon
          BY <1>15, <2>4 DEF FollowQueues, FwSettles, FwSkips, FwEnds, FwKeeps
        <5>2. e # Turn(f) => (fwRow'[f][e].st \in Busy => fwRow[f][e].st \in Busy)
          BY <2>4, <3>1 DEF FwSettles, FwReconciles, RecRow, Busy
        <5>3. QED
          BY <4>1, <4>2, <5>1, <5>2 DEF PlanOf, Planned, AtTurn, Onto
      <4>3. CASE g # f
        <5>1. fwAtt'[g] = fwAtt[g] /\ fwRow'[g] = fwRow[g] /\ Turn(g)' = Turn(g)
          BY <2>4, <3>1, <4>3, TurnStays DEF FwSettles, FwReconciles, RowsOf, FwSkips, FwEnds, FwOnly
        <5>2. QED
          BY <4>1, <5>1 DEF PlanOf, Planned, AtTurn, Onto
      <4>4. QED
        BY <4>2, <4>3
    <3>2. QED
      BY <1>15, <3>1 DEF FollowQueues, History, FollowPlan
  <2>5. QED
    BY <1>15, <2>1, <2>2, <2>3, <2>4 DEF FollowQueues
<1>16. ASSUME NEW f \in Party, FollowIntends(f) PROVE FollowPlan'
  <2>1. ASSUME NEW g \in Party, NEW e \in Episode \ fwTouched PROVE PlanOf(g, e)'
    <3>0. Turn(g)' = Turn(g) /\ fwPosts' = fwPosts
      BY <1>16, <2>1, TurnStays DEF FollowIntends, History, FwGoes, FwOnly
    <3>1. CASE g = f /\ e = Turn(f)
      <4>1. fwPosts[f][e] = 0
        BY <1>16, <2>1, <3>1, NotBegun DEF FollowIntends
      <4>2. PlanOf(f, e) /\ fwAtt[f].pc = "intent" /\ fwAtt'[f].pc = "post" /\ fwAtt'[f].todo = fwAtt[f].todo
            /\ fwAtt'[f].snap = fwAtt[f].snap /\ fwAtt'[f].mon = fwAtt[f].mon
        BY <1>16, <2>1 DEF FollowIntends, FwGoes, FwKeeps, FollowPlan
      <4>3. QED
        BY <3>0, <3>1, <4>1, <4>2 DEF PlanOf, Planned, AtTurn, Onto
    <3>2. CASE g = f /\ e # Turn(f)
      <4>2. /\ PlanOf(f, e) /\ fwAtt[f].pc = "intent" /\ fwAtt'[f].pc = "post" /\ fwAtt'[f].todo = fwAtt[f].todo
            /\ fwAtt'[f].snap = fwAtt[f].snap /\ fwAtt'[f].mon = fwAtt[f].mon /\ fwRow'[f][e] = fwRow[f][e]
        BY <1>16, <2>1, <3>2 DEF FollowIntends, FwGoes, FwKeeps, FollowPlan, RowOnly
      <4>3. QED
        BY <3>0, <3>2, <4>2 DEF PlanOf, Planned, AtTurn, Onto
    <3>3. CASE g # f
      <4>1. fwAtt'[g] = fwAtt[g] /\ fwRow'[g] = fwRow[g] /\ PlanOf(g, e)
        BY <1>16, <2>1, <3>3 DEF FollowIntends, FwGoes, FwOnly, RowOnly, RowsOf, FollowPlan
      <4>2. QED
        BY <3>0, <4>1 DEF PlanOf, Planned, AtTurn, Onto
    <3>4. QED
      BY <3>1, <3>2, <3>3
  <2>2. QED
    BY <1>16, <2>1 DEF FollowIntends, History, FollowPlan
<1>17. ASSUME NEW f \in Party, FollowSends(f) PROVE FollowPlan'
  BY <1>17, TurnStays DEF FollowSends, FwFollows, FwEnds, FwGoes, FwOnly, FwKeeps, FollowPlan, PlanOf, AtTurn, Planned, Sought, Busy, Onto
<1>18. ASSUME NEW f \in Party, FollowReceives(f) PROVE FollowPlan'
  BY <1>18, TurnStays DEF FollowReceives, History, World, FwSkips, FwOnly, FwKeeps, RowOnly, RowsOf, FollowPlan, PlanOf, AtTurn, Planned, Sought, Busy, Onto
<1>19. ASSUME NEW f \in Party, FollowLapses(f) PROVE FollowPlan'
  BY <1>19, TurnStays DEF FollowLapses, History, World, FollowPlan, PlanOf, AtTurn, Planned, Sought, Busy, Onto
<1>20. QED
  BY <1>1, <1>2, <1>3, <1>4, <1>5, <1>6, <1>7, <1>8, <1>9, <1>10, <1>11, <1>12, <1>13, <1>14, <1>15, <1>16, <1>17, <1>18, <1>19 DEF FollowStep

\* The effects keep others from beginning a search between an intent and its search.
LEMMA FollowApartKept == ASSUME FollowTypes, FollowTurns, FollowRows, FollowPlan, FollowApart, FollowStep PROVE FollowApart'
<1>1. CASE FollowRests
  BY <1>1, TurnStays, PartyAssumption DEF FollowRests, FwFollows, FollowApart, ApartOf, Following!Known
<1>2. CASE FollowTouched
  BY <1>2, TurnStays, PartyAssumption DEF FollowTouched, FollowApart, ApartOf, Following!Known
<1>3. CASE FollowHalts
  BY <1>3, TurnStays, PartyAssumption DEF FollowHalts, History, World, FollowApart, ApartOf, Following!Known
<1>4. ASSUME NEW f \in Party, FollowSaves(f) PROVE FollowApart'
  <2>1. RowsOf(f) /\ fwTouched' = fwTouched /\ \A g \in Party : (g # f => fwAtt'[g] = fwAtt[g]) /\ (fwLock' = g => fwLock = g)
    BY <1>4, PartyAssumption DEF FollowSaves, History, FwInserts, RowsOf
  <2>2. \A e \in Episode \ fwTouched : fwRow[f][e].cmd > 0 => fwRow'[f][e].cmd > 0
    BY <1>4 DEF FollowSaves, History, FwInserts, RowsOf, FollowRows, KeptRow
  <2>3. \A e \in Episode : fwRow'[f][e].st = "searching" => fwRow[f][e].st = "searching" /\ fwRow'[f][e].since = fwRow[f][e].since
    BY <1>4 DEF FollowSaves, History, FwInserts, RowsOf
  <2>4. fwAtt'[f] = fwAtt[f] /\ (fwAtt[f].pc = "post" => fwRow'[f][Turn(f)].since = fwRow[f][Turn(f)].since)
    BY <1>4, TurnAt DEF FollowSaves, History, FwInserts, RowsOf, FollowRows, BegunRow, Busy, AtTurn
  <2>5. \A g \in Party : fwAtt'[g] = fwAtt[g] => ApartOf(g)'
    BY <2>1, <2>2, <2>3, <2>4, ApartSame
  <2>6. QED
    BY <2>1, <2>4, <2>5 DEF FollowApart, ApartOf
<1>5. ASSUME NEW f \in Party, FollowDelivers(f) PROVE FollowApart'
  BY <1>5, TurnStays, PartyAssumption DEF FollowDelivers, History, World, FwReconciles, RowsOf, FwFollows, FwBegins, FwOnly, RecRow, FollowApart, ApartOf, Following!Known
<1>6. ASSUME NEW f \in Party, FollowChecks(f) PROVE FollowApart'
  <2>1. RowsOf(f) /\ fwTouched' = fwTouched /\ \A g \in Party : (g # f => fwAtt'[g] = fwAtt[g]) /\ (fwLock' = g => fwLock = g)
    BY <1>6, PartyAssumption DEF FollowChecks, History, FwReconciles, RowsOf, RecRow
  <2>2. \A e \in Episode \ fwTouched : fwRow[f][e].cmd > 0 => fwRow'[f][e].cmd > 0
    BY <1>6 DEF FollowChecks, History, FwReconciles, RowsOf, RecRow, FollowRows, KeptRow
  <2>3. \A e \in Episode : fwRow'[f][e].st = "searching" => fwRow[f][e].st = "searching" /\ fwRow'[f][e].since = fwRow[f][e].since
    BY <1>6 DEF FollowChecks, History, FwReconciles, RowsOf, RecRow
  <2>4. fwAtt'[f] = fwAtt[f] /\ (fwAtt[f].pc = "post" => fwRow'[f][Turn(f)].since = fwRow[f][Turn(f)].since)
    BY <1>6, TurnAt DEF FollowChecks, History, FwReconciles, RowsOf, RecRow, FollowRows, BegunRow, Busy, AtTurn
  <2>5. \A g \in Party : fwAtt'[g] = fwAtt[g] => ApartOf(g)'
    BY <2>1, <2>2, <2>3, <2>4, ApartSame
  <2>6. QED
    BY <2>1, <2>4, <2>5 DEF FollowApart, ApartOf
<1>7. ASSUME NEW f \in Party, FollowSweeps(f) PROVE FollowApart'
  BY <1>7, TurnStays, PartyAssumption DEF FollowSweeps, History, World, FwBegins, FwOnly, FollowApart, ApartOf, Following!Known
<1>8. ASSUME NEW f \in Party, FollowEnds(f) PROVE FollowApart'
  BY <1>8, TurnStays, PartyAssumption DEF FollowEnds, History, FwFollows, FwEnds, FwOnly, FollowApart, ApartOf, Following!Known
<1>9. ASSUME NEW f \in Party, FollowGoes(f) PROVE FollowApart'
  <2>1. RowsOf(f) /\ fwTouched' = fwTouched /\ \A g \in Party : (g # f => fwAtt'[g] = fwAtt[g]) /\ (fwLock' = g => fwLock = g)
    BY <1>9, PartyAssumption DEF FollowGoes, History, FwInserts, RowsOf, FwGoes, FwOnly, FwKeeps
  <2>2. \A e \in Episode \ fwTouched : fwRow[f][e].cmd > 0 => fwRow'[f][e].cmd > 0
    BY <1>9 DEF FollowGoes, History, FwInserts, RowsOf, FwGoes, FwOnly, FwKeeps, FollowRows, KeptRow
  <2>3. \A e \in Episode : fwRow'[f][e].st = "searching" => fwRow[f][e].st = "searching" /\ fwRow'[f][e].since = fwRow[f][e].since
    BY <1>9 DEF FollowGoes, History, FwInserts, RowsOf, FwGoes, FwOnly, FwKeeps
  <2>4. fwAtt'[f].pc \notin {"intent", "post"}
    BY <1>9 DEF FollowGoes, History, FwInserts, RowsOf, FwGoes, FwOnly, FwKeeps
  <2>5. \A g \in Party : fwAtt'[g] = fwAtt[g] => ApartOf(g)'
    BY <2>1, <2>2, <2>3, <2>4, ApartSame
  <2>6. QED
    BY <2>1, <2>4, <2>5 DEF FollowApart, ApartOf
<1>10. ASSUME NEW f \in Party, FollowReads(f) PROVE FollowApart'
  BY <1>10, TurnStays, PartyAssumption DEF FollowReads, History, World, FwOnly, FollowApart, ApartOf, Following!Known
<1>11. ASSUME NEW f \in Party, FollowPlans(f) PROVE FollowApart'
  BY <1>11, TurnStays, PartyAssumption DEF FollowPlans, History, World, FwGoes, FwOnly, FwKeeps, FollowApart, ApartOf, Following!Known
<1>12. ASSUME NEW f \in Party, FollowFinds(f) PROVE FollowApart'
  <2>1. RowsOf(f) /\ fwTouched' = fwTouched /\ \A g \in Party : (g # f => fwAtt'[g] = fwAtt[g]) /\ (fwLock' = g => fwLock = g)
    BY <1>12, PartyAssumption DEF FollowTypes, FollowFinds, History, FwSkips, FwOnly, FwKeeps, RowOnly, RowsOf
  <2>2. \A e \in Episode \ fwTouched : fwRow[f][e].cmd > 0 => fwRow'[f][e].cmd > 0
    BY <1>12 DEF FollowFinds, History, FwSkips, FwOnly, FwKeeps, RowOnly, RowsOf, FollowRows, KeptRow
  <2>3. \A e \in Episode : fwRow'[f][e].st = "searching" => fwRow[f][e].st = "searching" /\ fwRow'[f][e].since = fwRow[f][e].since
    BY <1>12 DEF FollowFinds, History, FwSkips, FwOnly, FwKeeps, RowOnly, RowsOf
  <2>4. fwAtt'[f].pc \notin {"intent", "post"}
    BY <1>12 DEF FollowFinds, History, FwSkips, FwOnly, FwKeeps, RowOnly, RowsOf
  <2>5. \A g \in Party : fwAtt'[g] = fwAtt[g] => ApartOf(g)'
    BY <2>1, <2>2, <2>3, <2>4, ApartSame
  <2>6. QED
    BY <2>1, <2>4, <2>5 DEF FollowApart, ApartOf
<1>13. ASSUME NEW f \in Party, FollowMonitors(f) PROVE FollowApart'
  BY <1>13, TurnStays, PartyAssumption DEF FollowMonitors, History, FwGoes, FwOnly, FwKeeps, FollowApart, ApartOf, Following!Known
<1>14. ASSUME NEW f \in Party, FollowMarks(f) PROVE FollowApart'
  <2>1. RowsOf(f) /\ fwTouched' = fwTouched /\ \A g \in Party : (g # f => fwAtt'[g] = fwAtt[g]) /\ (fwLock' = g => fwLock = g)
    BY <1>14, PartyAssumption DEF FollowMarks, History, FwGoes, FwOnly, RowOnly, RowsOf, FwKeeps
  <2>2. \A e \in Episode \ fwTouched : fwRow[f][e].cmd > 0 => fwRow'[f][e].cmd > 0
    BY <1>14 DEF FollowMarks, History, FwGoes, FwOnly, RowOnly, RowsOf, FwKeeps, FollowRows, KeptRow
  <2>3. \A e \in Episode : fwRow'[f][e].st = "searching" => fwRow[f][e].st = "searching" /\ fwRow'[f][e].since = fwRow[f][e].since
    BY <1>14 DEF FollowMarks, History, FwGoes, FwOnly, RowOnly, RowsOf, FwKeeps
  <2>4. fwAtt'[f].pc \notin {"intent", "post"}
    BY <1>14 DEF FollowMarks, History, FwGoes, FwOnly, RowOnly, RowsOf, FwKeeps
  <2>5. \A g \in Party : fwAtt'[g] = fwAtt[g] => ApartOf(g)'
    BY <2>1, <2>2, <2>3, <2>4, ApartSame
  <2>6. QED
    BY <2>1, <2>4, <2>5 DEF FollowApart, ApartOf
<1>15. ASSUME NEW f \in Party, FollowQueues(f) PROVE FollowApart'
  <2>1. CASE FwShown(f)
    <3>1. RowsOf(f) /\ fwTouched' = fwTouched /\ \A g \in Party : (g # f => fwAtt'[g] = fwAtt[g]) /\ (fwLock' = g => fwLock = g)
      BY <1>15, <2>1, PartyAssumption DEF FollowQueues, History, FwShown, RowOnly, RowsOf, FwSkips, FwOnly, FwKeeps
    <3>2. \A e \in Episode \ fwTouched : fwRow[f][e].cmd > 0 => fwRow'[f][e].cmd > 0
      BY <1>15, <2>1 DEF FollowQueues, History, FwShown, RowOnly, RowsOf, FwSkips, FwOnly, FwKeeps, FollowRows, KeptRow
    <3>3. \A e \in Episode : fwRow'[f][e].st = "searching" => fwRow[f][e].st = "searching" /\ fwRow'[f][e].since = fwRow[f][e].since
      BY <1>15, <2>1 DEF FollowQueues, History, FwShown, RowOnly, RowsOf, FwSkips, FwOnly, FwKeeps
    <3>4. fwAtt'[f].pc \notin {"intent", "post"}
      BY <1>15, <2>1 DEF FollowQueues, History, FwShown, RowOnly, RowsOf, FwSkips, FwOnly
    <3>5. \A g \in Party : fwAtt'[g] = fwAtt[g] => ApartOf(g)'
      BY <3>1, <3>2, <3>3, <3>4, ApartSame
    <3>6. QED
      BY <3>1, <3>4, <3>5 DEF FollowApart, ApartOf
  <2>2. CASE FwClear(f)
    <3>1. RowsOf(f) /\ UNCHANGED <<fwTouched, fwRow, fwLock>> /\ \A g \in Party : g # f => fwAtt'[g] = fwAtt[g]
      BY <1>15, <2>2 DEF FollowQueues, History, FwClear, FwGoes, FwOnly, FwKeeps, RowsOf, FollowTypes
    <3>2. \A g \in Party : fwAtt'[g] = fwAtt[g] => ApartOf(g)'
      BY <3>1, ApartSame
    <3>3. Turn(f)' = Turn(f) /\ Turn(f) \in Episode
      BY <1>15, <2>2, TurnStays, TurnAt DEF FollowQueues, FwClear, FwGoes, AtTurn
    <3>4. \/ Following!Known(Turn(f), f)
          \/ \A g \in Party \ {f} : fwRow[g][Turn(f)].st # "searching"
      BY <2>2, <3>3 DEF FwClear, FollowTurns, Sought
    <3>5. Following!Known(Turn(f), f) => Following!Known(Turn(f), f)'
      BY <3>1, <3>3 DEF Following!Known
    <3>6. ApartOf(f)'
      BY <3>1, <3>3, <3>4, <3>5 DEF ApartOf
    <3>7. QED
      BY <3>1, <3>2, <3>6 DEF FollowApart
  <2>3. CASE FwCopies(f)
    <3>1. /\ RowsOf(f) /\ fwTouched' = fwTouched /\ fwAtt'[f].pc \notin {"intent", "post"} /\ Turn(f) \in Episode
          /\ \A g \in Party : (g # f => fwAtt'[g] = fwAtt[g] /\ Turn(g)' = Turn(g)) /\ (fwLock' = g => fwLock = g)
      BY <1>15, <2>3, PartyAssumption, TurnStays, TurnAt DEF FollowQueues, History, FwCopies, FwReconciles, FwSkips, FwEnds, FwOnly, FwKeeps, AtTurn
    <3>2. \A e \in Episode \ fwTouched : fwRow[f][e].cmd > 0 => fwRow'[f][e].cmd > 0
      <4>1. Turn(f) \notin fwTouched => fwRow[f][Turn(f)].cmd = 0
        BY <1>15, <2>3, NotBegun DEF FollowQueues, FwCopies
      <4>2. QED
        BY <2>3, <4>1 DEF FwCopies, FwReconciles, RecRow, FollowRows, KeptRow
    <3>3. ASSUME NEW g \in Party, g # f, fwAtt[g].pc \in {"intent", "post"}, fwLock = g,
                 NEW h \in Party \ {g}, fwRow'[h][Turn(g)].st = "searching", Turn(g) \notin fwTouched
          PROVE  Following!Known(Turn(g), g)' \/ (fwAtt[g].pc = "post" /\ fwRow'[h][Turn(g)].since = fwRow'[g][Turn(g)].since)
      <4>1. Turn(g) \in Episode /\ fwRow'[g] = fwRow[g]
        BY <3>1, <3>3, TurnAt DEF AtTurn, RowsOf
      <4>2. Following!Known(Turn(g), g) => Following!Known(Turn(g), g)'
        BY <3>1, <3>2, <3>3, <4>1 DEF Following!Known, RowsOf
      <4>3. \A d \in Party \ {g} : fwRow[d][Turn(g)].st = "searching" =>
              \/ Following!Known(Turn(g), g)
              \/ fwAtt[g].pc = "post" /\ fwRow[d][Turn(g)].since = fwRow[g][Turn(g)].since
        BY <3>3 DEF FollowApart, ApartOf
      <4>4. CASE h # f \/ Turn(g) # Turn(f)
        <5>1. fwRow[h][Turn(g)].st = "searching" /\ fwRow'[h][Turn(g)].since = fwRow[h][Turn(g)].since
          BY <2>3, <3>1, <3>3, <4>1, <4>4 DEF FwCopies, FwReconciles, RowsOf, RecRow
        <5>2. QED
          BY <3>3, <4>1, <4>2, <4>3, <5>1
      <4>5. CASE h = f /\ Turn(g) = Turn(f)
        <5>1. PICK d \in Party \ {f} : fwRow[d][Turn(g)].st = "searching" /\ fwRow'[f][Turn(g)].since = fwRow[d][Turn(g)].since
          BY <2>3, <4>5 DEF FwCopies
        <5>2. CASE d # g
          BY <3>3, <4>1, <4>2, <4>3, <4>5, <5>1, <5>2
        <5>3. CASE d = g
          <6>1. fwAtt[g].pc # "intent"
            BY <3>3, <5>1, <5>3, NotBegun DEF Busy
          <6>2. QED
            BY <3>3, <4>1, <4>5, <5>1, <5>3, <6>1
        <5>4. QED
          BY <5>2, <5>3
      <4>6. QED
        BY <4>4, <4>5
    <3>4. \A g \in Party : ApartOf(g)'
      BY <3>1, <3>3 DEF ApartOf
    <3>5. QED
      BY <3>1, <3>4 DEF FollowApart
  <2>4. CASE FwSettles(f)
    <3>1. RowsOf(f) /\ fwTouched' = fwTouched /\ \A g \in Party : (g # f => fwAtt'[g] = fwAtt[g]) /\ (fwLock' = g => fwLock = g)
      BY <1>15, <2>4, PartyAssumption DEF FollowQueues, History, FwSettles, FwReconciles, RowsOf, RecRow, FwSkips, FwEnds, FwOnly, FwKeeps
    <3>2. \A e \in Episode \ fwTouched : fwRow[f][e].cmd > 0 => fwRow'[f][e].cmd > 0
      BY <1>15, <2>4 DEF FollowQueues, History, FwSettles, FwReconciles, RowsOf, RecRow, FwSkips, FwEnds, FwOnly, FwKeeps, FollowRows, KeptRow
    <3>3. \A e \in Episode : fwRow'[f][e].st = "searching" => fwRow[f][e].st = "searching" /\ fwRow'[f][e].since = fwRow[f][e].since
      BY <1>15, <2>4 DEF FollowQueues, History, FwSettles, FwReconciles, RowsOf, RecRow, FwSkips, FwEnds, FwOnly, FwKeeps
    <3>4. fwAtt'[f].pc \notin {"intent", "post"}
      BY <1>15, <2>4 DEF FollowQueues, History, FwSettles, FwReconciles, RowsOf, RecRow, FwSkips, FwEnds, FwOnly
    <3>5. \A g \in Party : fwAtt'[g] = fwAtt[g] => ApartOf(g)'
      BY <3>1, <3>2, <3>3, <3>4, ApartSame
    <3>6. QED
      BY <3>1, <3>4, <3>5 DEF FollowApart, ApartOf
  <2>5. QED
    BY <1>15, <2>1, <2>2, <2>3, <2>4 DEF FollowQueues
<1>16. ASSUME NEW f \in Party, FollowIntends(f) PROVE FollowApart'
  BY <1>16, TurnStays, PartyAssumption DEF FollowIntends, History, World, FwGoes, FwOnly, FwKeeps, RowOnly, RowsOf, FollowApart, ApartOf, Following!Known
<1>17. ASSUME NEW f \in Party, FollowSends(f) PROVE FollowApart'
  BY <1>17, TurnStays, PartyAssumption DEF FollowSends, FwFollows, FwEnds, FwGoes, FwOnly, FwKeeps, FollowApart, ApartOf, Following!Known
<1>18. ASSUME NEW f \in Party, FollowReceives(f) PROVE FollowApart'
  <2>1. RowsOf(f) /\ fwTouched' = fwTouched /\ \A g \in Party : (g # f => fwAtt'[g] = fwAtt[g]) /\ (fwLock' = g => fwLock = g)
    BY <1>18, PartyAssumption DEF FollowReceives, History, FwSkips, FwOnly, FwKeeps, RowOnly, RowsOf
  <2>2. \A e \in Episode \ fwTouched : fwRow[f][e].cmd > 0 => fwRow'[f][e].cmd > 0
    BY <1>18 DEF FollowReceives, RowOnly, RowsOf, FollowRows, BegunRow
  <2>3. \A e \in Episode : fwRow'[f][e].st = "searching" => fwRow[f][e].st = "searching" /\ fwRow'[f][e].since = fwRow[f][e].since
    BY <1>18 DEF FollowReceives, History, FwSkips, FwOnly, FwKeeps, RowOnly, RowsOf
  <2>4. fwAtt'[f].pc \notin {"intent", "post"}
    BY <1>18 DEF FollowReceives, History, FwSkips, FwOnly, FwKeeps, RowOnly, RowsOf
  <2>5. \A g \in Party : fwAtt'[g] = fwAtt[g] => ApartOf(g)'
    BY <2>1, <2>2, <2>3, <2>4, ApartSame
  <2>6. QED
    BY <2>1, <2>4, <2>5 DEF FollowApart, ApartOf
<1>19. ASSUME NEW f \in Party, FollowLapses(f) PROVE FollowApart'
  BY <1>19, TurnStays, PartyAssumption DEF FollowLapses, History, World, FollowApart, ApartOf, Following!Known
<1>20. QED
  BY <1>1, <1>2, <1>3, <1>4, <1>5, <1>6, <1>7, <1>8, <1>9, <1>10, <1>11, <1>12, <1>13, <1>14, <1>15, <1>16, <1>17, <1>18, <1>19 DEF FollowStep

\* The follows start within their invariant.
LEMMA FollowInit == ASSUME Following!Init PROVE FollowInv
<1>1. /\ fwFollow = [f \in Party |-> [st |-> "active", owned |-> 0, id |-> FALSE]]
      /\ fwRequest = [f \in Party |-> [st |-> "none", adding |-> FALSE]]
      /\ fwRow = [f \in Party |-> [e \in Episode |-> Following!NoRow]]
      /\ fwSonarr = [series |-> "absent", watched |-> FALSE, mon |-> {}, queue |-> {}, file |-> {}]
      /\ fwCommand = {} /\ fwLock = NoParty /\ fwAtt = [f \in Party |-> Following!Idle]
      /\ fwClock = 0 /\ fwPosts = [f \in Party |-> [e \in Episode |-> 0]]
      /\ fwReal = {} /\ fwTouched = {} /\ fwFault = 0
  BY DEF Following!Init
<1>2. fwFollow \in [Party -> FwFollow] /\ fwRequest \in [Party -> FwRequest] /\ fwSonarr \in FwSonarr
  BY <1>1 DEF FwFollow, FwRequest, FwSonarr
<1>3. fwRow \in [Party -> [Episode -> FwRow]] /\ fwAtt \in [Party -> FwAtt] /\ fwPosts \in [Party -> [Episode -> Nat]]
  BY <1>1, FollowNothing
<1>4. FollowTypes
  BY <1>1, <1>2, <1>3, FollowAssumption, PartyAssumption DEF FollowTypes
<1>5. \A f \in Party : /\ fwAtt[f].pc = "idle" /\ fwAtt[f].kind = "none"
                       /\ \A e \in Episode : fwRow[f][e].st = "none" /\ fwRow[f][e].cmd = 0 /\ fwPosts[f][e] = 0
  BY <1>1, FollowNothing
<1>6. FollowTurns /\ FollowReal /\ FollowWatched
  BY <1>1, <1>5 DEF FollowTurns, TurnOf, FollowReal, FollowWatched, AtTurn, Planned, Sought
<1>7. FollowRows /\ FollowPlan /\ FollowApart
  BY <1>1, <1>5 DEF FollowRows, KeptRow, BegunRow, FollowPlan, PlanOf, FollowApart, ApartOf, AtTurn, Planned
<1>8. QED
  BY <1>4, <1>6, <1>7 DEF FollowInv

\* Every behaviour of the services is one of the follows.
LEMMA FollowSpec == Spec => Following!Spec
<1>1. Init => Following!Init
  BY DEF Init
<1>2. [Next]_vars => [Following!Next]_(Following!vars)
  BY DEF Next, Only, vars, tagVars, tvVars, followVars, grokVars, discordVars, profileVars, mediaVars,
         signVars, Following!vars
<1>3. QED
  BY <1>1, <1>2, PTL DEF Spec, Following!Spec

\* The invariant is inductive, by one case per effect.
LEMMA FollowInvKept == FollowInv /\ [Following!Next]_(Following!vars) => FollowInv'
<1>1. ASSUME FollowInv, Following!Next PROVE FollowInv'
  <2>1. FollowStep
    BY <1>1, FollowSteps DEF FollowInv
  <2>2. FollowTypes' /\ FollowTurns' /\ FollowReal' /\ FollowWatched'
    BY <1>1, <2>1, FollowTypesKept, FollowTurnsKept, FollowRealKept, FollowWatchedKept DEF FollowInv
  <2>3. FollowRows' /\ FollowPlan' /\ FollowApart'
    BY <1>1, <2>1, FollowRowsKept, FollowPlanKept, FollowApartKept DEF FollowInv
  <2>4. QED
    BY <2>2, <2>3 DEF FollowInv
<1>2. ASSUME FollowInv, UNCHANGED Following!vars PROVE FollowInv'
  <2>1. \A f \in Party : Turn(f)' = Turn(f)
    BY <1>2, TurnStays DEF Following!vars
  <2>2. FollowTypes' /\ FollowTurns' /\ FollowReal' /\ FollowWatched'
    BY <1>2, <2>1 DEF FollowInv, Following!vars, FollowTypes, FollowTurns, TurnOf, FollowReal, FollowWatched, AtTurn, Planned
  <2>3. FollowRows' /\ FollowPlan' /\ FollowApart'
    BY <1>2, <2>1 DEF FollowInv, Following!vars, FollowRows, KeptRow, BegunRow, FollowPlan, PlanOf, FollowApart, ApartOf, AtTurn, Planned, Onto, Following!Known
  <2>4. QED
    BY <2>2, <2>3 DEF FollowInv
<1>3. QED
  BY <1>1, <1>2

\* The inductive invariant of the follows.
LEMMA FollowInvHolds == Spec => []FollowInv
BY FollowInvKept, FollowInit, FollowSpec, PTL DEF Following!Spec

\* A follow's search is sent once unless somebody changed the episode by
\* hand, whatever is lost or restarted, and a search that is called submitted
\* was taken by Sonarr.
THEOREM SearchesAreKnownHolds == Spec => []SearchesAreKnown
<1>1. FollowInv => SearchesAreKnown
  BY DEF FollowInv, FollowReal, FollowRows, KeptRow, BegunRow, SearchesAreKnown, Following!SearchedOnce, Following!SubmittedIsReal, FollowTypes
<1>2. QED
  BY <1>1, FollowInvHolds, PTL

\* No search is sent beside another follow's uncertain one for the episode,
\* unless a known one was looked at, or somebody changed the episode by hand.
THEOREM SearchesDoNotOverlapHolds == Spec => Following!SearchesDoNotOverlap
<1> DEFINE More(f, e) == fwPosts'[f][e] > fwPosts[f][e]
           Apart(f, e) == \A g \in Party \ {f} : fwFollow[g].id /\ fwRow[g][e].st = "searching" =>
                            fwRow[g][e].since = fwRow[f][e].since \/ Following!Known(e, f) \/ e \in fwTouched
<1>1. ASSUME FollowInv, Following!Next, NEW f \in Party, NEW e \in Episode, More(f, e) PROVE Apart(f, e)
  <2>1. FollowStep /\ fwPosts \in [Party -> [Episode -> Nat]]
    BY <1>1, FollowSteps DEF FollowInv, FollowTypes
  <2>2. PICK h \in Party : FollowSends(h)
    BY <1>1, <2>1 DEF FollowStep, FollowRests, FollowTouched, FollowHalts, FollowSaves, FollowDelivers, FollowChecks, FollowSweeps,
       FollowEnds, FollowGoes, FollowReads, FollowPlans, FollowFinds, FollowMonitors, FollowMarks, FollowQueues, FollowIntends,
       FollowReceives, FollowLapses, History
  <2>3. f = h /\ e = Turn(f)
    BY <1>1, <2>1, <2>2 DEF FollowSends
  <2>4. QED
    BY <1>1, <2>2, <2>3 DEF FollowSends, FollowInv, FollowApart, ApartOf
<1>2. FollowInv /\ [Following!Next]_(Following!vars) => [\A f \in Party, e \in Episode : More(f, e) => Apart(f, e)]_(Following!vars)
  BY <1>1
<1>3. QED
  BY <1>2, FollowInvHolds, FollowSpec, PTL DEF Following!Spec, Following!SearchesDoNotOverlap

\* A stopped follow stays stopped, and only the first delivery that was under
\* way when it was stopped still searches for it.
THEOREM StopIsFinalHolds == Spec => Following!StopIsFinal
<1> DEFINE Stays(f) == fwFollow[f].st = "stopped" =>
                         fwFollow'[f].st = "stopped" /\ (fwPosts'[f] # fwPosts[f] => Following!First(f))
<1>1. ASSUME FollowInv, Following!Next, NEW f \in Party PROVE Stays(f)
  <2>1. FollowStep /\ fwPosts \in [Party -> [Episode -> Nat]]
    BY <1>1, FollowSteps DEF FollowInv, FollowTypes
  <2>2. CASE \E h \in Party : FollowSends(h)
    BY <2>1, <2>2 DEF FollowSends, FwFollows, Following!Holds
  <2>3. CASE ~\E h \in Party : FollowSends(h)
    BY <2>1, <2>3 DEF FollowStep, FollowRests, FollowTouched, FollowHalts, FollowSaves, FollowDelivers, FollowChecks, FollowSweeps,
       FollowEnds, FollowGoes, FollowReads, FollowPlans, FollowFinds, FollowMonitors, FollowMarks, FollowQueues, FollowIntends,
       FollowReceives, FollowLapses, History, FwFollows
  <2>4. QED
    BY <2>2, <2>3
<1>2. FollowInv /\ [Following!Next]_(Following!vars) => [\A f \in Party : Stays(f)]_(Following!vars)
  BY <1>1
<1>3. QED
  BY <1>2, FollowInvHolds, FollowSpec, PTL DEF Following!Spec, Following!StopIsFinal

\* The invariant holds the module's type invariant.
LEMMA FollowTypeOK == ASSUME FollowInv PROVE Following!TypeOK
BY DEF FollowInv, FollowTypes, Following!TypeOK, FwFollow, FwRequest, FwRow, FwAtt

\* No service takes up again what its requester gave up, or what may already
\* be under way: a cancelled tag stays cancelled unless its requester returns,
\* a search is not sent beside an uncertain one, and a stop is final.
THEOREM WorkIsWantedHolds == Spec => WorkIsWanted
BY NoRevivalHolds, SearchesDoNotOverlapHolds, StopIsFinalHolds DEF WorkIsWanted
===============================================================================
