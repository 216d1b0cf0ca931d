--------------------------- MODULE DiscordOutbox ----------------------------
(***************************************************************************)
(* The Discord outbox (server/internal/discordnotify): alerts about new    *)
(* requests, and about requested content that becomes available, are       *)
(* queued as rows and posted to one webhook by one sender.                 *)
(*                                                                         *)
(* A request has one announcement row per unit and activation; the code    *)
(* batches the units of a minute into one row, whose fate they share.      *)
(***************************************************************************)
EXTENDS Naturals

CONSTANTS
  Request, Unit,
  MaxTries,       \* attempts of a row (five)
  MaxSave,        \* bound on changes of the configuration
  MaxFault        \* bound on failed statements and restarts

VARIABLES
  conf,     \* settings: enabled, the available category, revision, epoch, floor
  cooling,  \* conf.NotBefore lies ahead
  row,      \* discord_notifications
  seen,     \* discord_availability: epoch and units of each request
  saved,    \* requests in request_log
  content,  \* the units of each request a library has
  scan,     \* scanAvailability of a request: the epoch it read, and the units
  sender,   \* deliverOne: next step, its row, and what Discord said
  posts,    \* history: times each row was posted
  old,      \* history: units that were there when announcements were last activated
  told,     \* history: times each unit was announced since
  fault

vars == <<conf, cooling, row, seen, saved, content, scan, sender, posts, old, told, fault>>

Epoch == 1 .. MaxSave + 1
New(r) == [of |-> r, unit |-> "request", epoch |-> 0]
News(r, u, n) == [of |-> r, unit |-> u, epoch |-> n]
Alert == {New(r) : r \in Request} \union {News(r, u, n) : r \in Request, u \in Unit, n \in Epoch}
NoAlert == [of |-> "none", unit |-> "none", epoch |-> 0]

NoRow == [st |-> "none", rev |-> 0, tries |-> 0, due |-> FALSE, aged |-> FALSE]
Idle == [pc |-> "idle", row |-> NoAlert, said |-> "none"]
NoScan == [epoch |-> 0, units |-> {}]
Waiting == {"pending", "sending"}

Init ==
  /\ conf = [on |-> TRUE, news |-> TRUE, rev |-> 1, epoch |-> 1, floor |-> {}] /\ cooling = FALSE
  /\ row = [a \in Alert |-> NoRow] /\ seen = [r \in Request |-> NoScan] /\ saved = {}
  /\ content = [r \in Request |-> {}] /\ scan = [r \in Request |-> NoScan] /\ sender = Idle
  /\ posts = [a \in Alert |-> 0] /\ old = [r \in Request |-> {}] /\ told = [r \in Request |-> [u \in Unit |-> 0]]
  /\ fault = 0

TypeOK ==
  /\ conf.rev \in Epoch /\ conf.epoch \in Epoch /\ conf.floor \subseteq saved
  /\ \A a \in Alert : /\ row[a].st \in Waiting \union {"none", "sent", "failed", "cancelled", "unconfirmed"}
                      /\ row[a].rev \in 0 .. conf.rev /\ row[a].tries \in 0 .. MaxTries
  /\ \A r \in Request : seen[r].units \subseteq Unit /\ seen[r].epoch <= conf.epoch
  /\ sender.pc \in {"idle", "prepare", "record"} /\ sender.row \in Alert \union {NoAlert}

(* Nothing but its status is used of a row that is settled.                *)
Settled(st) == [NoRow EXCEPT !.st = st]

library == <<saved, content>>
history == <<posts, old, told>>

(* INSERT ... ON CONFLICT DO NOTHING, for the alerts of A; announcements   *)
(* wait a minute for others to join them.                                  *)
Queued(A) ==
  [a \in Alert |->
     IF a \in A /\ row[a].st = "none" THEN [NoRow EXCEPT !.st = "pending", !.rev = conf.rev, !.due = a.unit = "request" /\ ~cooling]
     ELSE row[a]]

---------------------------------------------------------------------------
(* Requests and their content.                                             *)

(* RequestCreated: queueing the alert may fail, the request stands.        *)
Create(r) ==
  /\ r \notin saved /\ saved' = saved \union {r}
  /\ \/ row' = (IF conf.on THEN Queued({New(r)}) ELSE row) /\ UNCHANGED fault
     \/ fault < MaxFault /\ fault' = fault + 1 /\ UNCHANGED row
  /\ UNCHANGED <<conf, cooling, seen, content, scan, sender>> /\ UNCHANGED history

Arrive(r, u) ==
  /\ u \notin content[r] /\ content' = [content EXCEPT ![r] = @ \union {u}]
  /\ UNCHANGED <<conf, cooling, row, seen, saved, scan, sender, posts, old, told, fault>>

Leave(r, u) ==
  /\ u \in content[r] /\ fault < MaxFault /\ fault' = fault + 1
  /\ content' = [content EXCEPT ![r] = @ \ {u}] /\ old' = [old EXCEPT ![r] = @ \ {u}]
  /\ UNCHANGED <<conf, cooling, row, seen, saved, scan, sender, posts, told>>

(* scanAvailability reads the settings, then the library, ...              *)
Scan(r) ==
  /\ r \in saved /\ conf.on /\ conf.news /\ scan[r] = NoScan
  /\ scan' = [scan EXCEPT ![r] = [epoch |-> conf.epoch, units |-> content[r]]]
  /\ UNCHANGED <<conf, cooling, row, seen, sender, fault>> /\ UNCHANGED library /\ UNCHANGED history

(* ... and recordAvailability records what it saw, if announcements were   *)
(* not activated anew meanwhile; the first look at a request that is older *)
(* than the activation only sets its baseline.                             *)
AnyEpoch(r) == TRUE
SameEpoch(r) == scan[r].epoch = conf.epoch
Baseline(r) == seen[r].epoch # conf.epoch /\ r \in conf.floor
Novel(r) ==
  LET known == IF seen[r].epoch = conf.epoch THEN seen[r].units ELSE {}
  IN IF Baseline(r) THEN {} ELSE scan[r].units \ known
Record(r) ==
  /\ scan[r] # NoScan /\ scan' = [scan EXCEPT ![r] = NoScan]
  /\ IF conf.on /\ conf.news /\ SameEpoch(r)
     THEN /\ seen' = [seen EXCEPT ![r] = [epoch |-> conf.epoch,
                units |-> scan[r].units \union IF @.epoch = conf.epoch THEN @.units ELSE {}]]
          /\ row' = Queued({News(r, u, conf.epoch) : u \in Novel(r)})
          /\ told' = [told EXCEPT ![r] = [u \in Unit |-> IF u \in Novel(r) THEN @[u] + 1 ELSE @[u]]]
     ELSE UNCHANGED <<seen, row, told>>
  /\ UNCHANGED <<conf, cooling, sender, posts, old, fault>> /\ UNCHANGED library

---------------------------------------------------------------------------
(* SaveUpdate, which waits for the sender (deliveryMu).                    *)

Cancelled(A) == [a \in Alert |-> IF a \in A /\ row[a].st = "pending" THEN Settled("cancelled") ELSE row[a]]

Save(on, news, moved) ==
  /\ sender.pc = "idle" /\ conf.rev + conf.epoch < MaxSave + 2
  /\ LET changed == on # conf.on \/ moved
         activated == on /\ news /\ (~conf.on \/ ~conf.news \/ moved)
     IN /\ conf' = [on |-> on, news |-> news,
                    rev |-> IF changed THEN conf.rev + 1 ELSE conf.rev,
                    epoch |-> IF activated THEN conf.epoch + 1 ELSE conf.epoch,
                    floor |-> IF activated THEN saved ELSE conf.floor]
        /\ row' = Cancelled(IF changed THEN Alert
                            ELSE IF news THEN {} ELSE {a \in Alert : a.unit # "request"})
        /\ cooling' = (cooling /\ ~moved)
        /\ IF activated THEN old' = content /\ told' = [r \in Request |-> [u \in Unit |-> 0]] ELSE UNCHANGED <<old, told>>
  /\ UNCHANGED <<seen, scan, sender, posts, fault>> /\ UNCHANGED library

---------------------------------------------------------------------------
(* deliverOne.                                                             *)

(* A claim nobody holds any more may have been posted.                     *)
ReapedToPending(R) == [a \in Alert |-> IF R[a].st = "sending" THEN [R[a] EXCEPT !.st = "pending"] ELSE R[a]]
ReapedNever(R) == R
Reaped(R) == [a \in Alert |-> IF R[a].st = "sending" THEN Settled("unconfirmed") ELSE R[a]]
Limited(R) ==
  [a \in Alert |-> IF R[a].st = "pending" /\ (R[a].tries >= MaxTries \/ R[a].aged)
                   THEN Settled("failed") ELSE R[a]]

(* Claims lapse, rows reach their limits, and the next due row is claimed. *)
Tick ==
  /\ sender.pc = "idle"
  /\ LET R == IF conf.on THEN Limited(Reaped(row)) ELSE Reaped(row)
         due == {a \in Alert : R[a].st = "pending" /\ R[a].rev = conf.rev /\ R[a].due}
     IN IF conf.on /\ ~cooling /\ due # {}
        THEN \E a \in due :
               /\ row' = [R EXCEPT ![a].st = "sending", ![a].tries = @ + 1]
               /\ sender' = [pc |-> "prepare", row |-> a, said |-> "none"]
        ELSE row' = R /\ R # row /\ UNCHANGED sender
  /\ UNCHANGED <<conf, cooling, seen, scan, fault>> /\ UNCHANGED library /\ UNCHANGED history

(* prepareMessage and the POST: nothing is sent if access cannot be read   *)
(* or nobody is left to tell; Discord takes the message, refuses it, asks  *)
(* to wait, or does not say.                                               *)
Send ==
  /\ sender.pc = "prepare"
  /\ \E said \in {"unread", "cancelled", "sent", "failed", "wait", "unconfirmed"}, posted \in {0, 1} :
       /\ said = "sent" => posted = 1
       /\ posted = 1 => said \in {"sent", "unconfirmed"}
       /\ sender' = [sender EXCEPT !.pc = "record", !.said = said]
       /\ posts' = [posts EXCEPT ![sender.row] = @ + posted]
  /\ UNCHANGED <<conf, cooling, row, seen, scan, old, told, fault>> /\ UNCHANGED library

(* A wait Discord asked for is remembered before the row; an attempt that  *)
(* sent nothing does not count.                                            *)
Outcome(b, said) ==
  LET tries == IF said = "unread" THEN b.tries - 1 ELSE b.tries
  IN IF said \notin {"unread", "wait"} THEN Settled(said)
     ELSE IF tries >= MaxTries \/ b.aged THEN Settled("failed")
     ELSE [b EXCEPT !.st = "pending", !.tries = tries, !.due = FALSE]
Finish ==
  /\ sender.pc = "record" /\ sender' = Idle
  /\ \/ /\ row' = [row EXCEPT ![sender.row] = IF @.st = "sending" THEN Outcome(@, sender.said) ELSE @]
        /\ cooling' = (cooling \/ sender.said = "wait") /\ UNCHANGED fault
     \/ /\ fault < MaxFault /\ fault' = fault + 1 /\ UNCHANGED row
        /\ cooling' \in {cooling, cooling \/ sender.said = "wait"}
  /\ UNCHANGED <<conf, seen, scan>> /\ UNCHANGED library /\ UNCHANGED history

---------------------------------------------------------------------------
(* Time: a row falls due, a row is a day old, a cooldown ends.             *)

Due(a) ==
  /\ row[a].st = "pending" /\ ~row[a].due /\ row' = [row EXCEPT ![a].due = TRUE]
  /\ UNCHANGED <<conf, cooling, seen, scan, sender, fault>> /\ UNCHANGED library /\ UNCHANGED history
Age(a) ==
  /\ row[a].st \in Waiting /\ ~row[a].aged /\ row' = [row EXCEPT ![a].aged = TRUE]
  /\ UNCHANGED <<conf, cooling, seen, scan, sender, fault>> /\ UNCHANGED library /\ UNCHANGED history
Warm ==
  /\ cooling /\ cooling' = FALSE
  /\ UNCHANGED <<conf, row, seen, scan, sender, fault>> /\ UNCHANGED library /\ UNCHANGED history

Crash ==
  /\ fault < MaxFault /\ fault' = fault + 1
  /\ sender' = Idle /\ scan' = [r \in Request |-> NoScan]
  /\ UNCHANGED <<conf, cooling, row, seen>> /\ UNCHANGED library /\ UNCHANGED history

Next ==
  \/ \E r \in Request : Create(r) \/ Scan(r) \/ Record(r)
  \/ \E r \in Request, u \in Unit : Arrive(r, u) \/ Leave(r, u)
  \/ \E on, news, moved \in BOOLEAN : Save(on, news, moved)
  \/ Tick \/ Send \/ Finish \/ Warm \/ Crash
  \/ \E a \in Alert : Due(a) \/ Age(a)

Spec == Init /\ [][Next]_vars

(* The sender runs every second, and time passes.                          *)
Fairness ==
  /\ WF_vars(Tick) /\ WF_vars(Send) /\ WF_vars(Finish) /\ WF_vars(Warm)
  /\ \A a \in Alert : WF_vars(Due(a)) /\ WF_vars(Age(a))

(* A row is posted at most once, whatever Discord answers and wherever the *)
(* sender dies (deliverOne, "never eligible for replay").                  *)
PostedOnce == \A a \in Alert : posts[a] <= 1

(* Only news is announced: nothing that was there when announcements were  *)
(* activated, unless it was asked for since, and nothing twice             *)
(* (recordAvailability, "only establishes the baseline").                  *)
NewsIsNew ==
  [][\A r \in Request, u \in Unit :
       told'[r][u] > told[r][u] => told[r][u] = 0 /\ (r \in conf.floor => u \notin old[r])]_vars

(* Every alert is settled in the end.                                      *)
QueueDrains == \A a \in Alert : row[a].st \in Waiting ~> row[a].st \notin Waiting
=============================================================================
