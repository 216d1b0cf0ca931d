------------------------- MODULE RequestQuotaProofs -------------------------
(***************************************************************************)
(* The accounting of RequestQuota, proved for every number of users,       *)
(* requests, formats and charges and every allowance.                      *)
(***************************************************************************)
EXTENDS RequestQuota, FiniteSetTheorems, TLAPS

\* A set of charges that is not empty has a newest one.
LEMMA NewestIn ==
    ASSUME NEW C \in SUBSET Charge, C # {}
    PROVE  Newest(C) \in C
<1>1. MaxCharges \in Nat /\ \A c \in C : c \in Nat /\ c <= MaxCharges
  BY ConstantsAssumption DEF Charge
<1> DEFINE Below == {n \in Nat : \E c \in C : n = MaxCharges - c}
<1>2. Below \subseteq Nat /\ Below # {}
  <2>1. PICK c \in C : TRUE
    OBVIOUS
  <2>2. MaxCharges - c \in Nat
    BY <1>1
  <2>3. QED
    BY <2>2
<1>3. PICK x \in Below : \A y \in Below : ~ (<<y, x>> \in OpToRel(<, Nat))
  <2> HIDE DEF Below
  <2>1. QED
    BY <1>2, NatLessThanWellFounded, WFMin
<1>4. PICK c \in C : x = MaxCharges - c
  BY <1>3
<1>5. ASSUME NEW d \in C PROVE d <= c
  <2>1. MaxCharges - d \in Below
    BY <1>1
  <2>2. ~ (MaxCharges - d < x)
    BY <1>3, <2>1 DEF OpToRel
  <2>3. QED
    BY <1>1, <1>4, <2>2
<1>6. QED
  BY <1>5 DEF Newest

\* As many unused charges as there are formats to pay for can be told apart.
LEMMA InjectionExists ==
    ASSUME NEW S, NEW T, IsFiniteSet(S), IsFiniteSet(T), Cardinality(S) <= Cardinality(T)
    PROVE  \E g \in [S -> T] : \A x, y \in S : g[x] = g[y] => x = y
<1>1. Cardinality(S) \in Nat /\ Cardinality(T) \in Nat
  BY FS_CardinalityType
<1>2. PICK a \in Bijection(1 .. Cardinality(S), S) : TRUE
  BY FS_CardinalityType DEF ExistsBijection
<1>3. PICK b \in Bijection(1 .. Cardinality(T), T) : TRUE
  BY FS_CardinalityType DEF ExistsBijection
<1>4. /\ a \in [1 .. Cardinality(S) -> S]
      /\ \A x \in S : \E n \in 1 .. Cardinality(S) : a[n] = x
  BY <1>2 DEF Bijection, Surjection
<1>5. /\ b \in [1 .. Cardinality(T) -> T]
      /\ \A m, n \in 1 .. Cardinality(T) : b[m] = b[n] => m = n
  BY <1>3 DEF Bijection, Injection, IsInjective
<1> DEFINE pos == [x \in S |-> CHOOSE n \in 1 .. Cardinality(S) : a[n] = x]
           g == [x \in S |-> b[pos[x]]]
<1>6. \A x \in S : pos[x] \in 1 .. Cardinality(S) /\ a[pos[x]] = x
  BY <1>4
<1>7. \A x \in S : pos[x] \in 1 .. Cardinality(T)
  BY <1>1, <1>6
<1>8. g \in [S -> T]
  BY <1>5, <1>7
<1>9. \A x, y \in S : g[x] = g[y] => x = y
  BY <1>5, <1>6, <1>7
<1>10. QED
  BY <1>8, <1>9

-----------------------------------------------------------------------------
(* The inductive invariant: besides the properties, what connects items    *)
(* with the charges they ever had and subscribers with what a request is   *)
(* still wanted for.                                                       *)

Linked ==
    \A i \in Item : item[i].exists /\ item[i].charge # NoCharge =>
        charge[item[i].charge].user = i[2] /\ charge[item[i].charge].format = i[3]

SubsAreWanted ==
    \A r \in Request, u \in User :
        /\ status[r] = "none" => subs[r][u] = {}
        /\ status[r] = "pending" => subs[r][u] \subseteq wanted[r]

Accounts == NoFreeRide /\ RefundsAreFinal /\ Linked
Sharing == OneRowPerFormat /\ SubscribersAreAccounted /\ SubsAreWanted
Inv == TypeOK /\ Accounts /\ Sharing

ItemRow == [exists : BOOLEAN, released : BOOLEAN, started : BOOLEAN,
            charge : Charge \union {NoCharge}]
ChargeRow == [user : User \union {NoUser}, format : Format \union {NoFormat},
              age : 0 .. MaxWindow, reset : BOOLEAN, refunded : BOOLEAN]
JobRow == [state : {"absent", "open", "processing", "complete", "cancelled"}, started : BOOLEAN]

\* Release keeps the accounts in order: what it gives back is not in use.
LEMMA ReleaseStep ==
    ASSUME TypeOK, Accounts, NEW r \in Request, NEW users \in SUBSET User,
           NEW formats \in SUBSET Format, Release(r, users, formats)
    PROVE  /\ item' \in [Item -> ItemRow] /\ charge' \in [Charge -> ChargeRow]
           /\ Accounts'
           /\ \A i \in Item : \/ item'[i] = item[i]
                              \/ /\ i[1] = r /\ i[2] \in users /\ i[3] \in formats
                                 /\ item'[i] = [item[i] EXCEPT !.released = TRUE]
           /\ \A c \in Charge : charge'[c] \in {charge[c], [charge[c] EXCEPT !.refunded = TRUE]}
<1>1. /\ item \in [Item -> ItemRow] /\ charge \in [Charge -> ChargeRow]
      /\ \A i \in Item : item[i] \in ItemRow
      /\ \A c \in Charge : charge[c] \in ChargeRow
  BY DEF TypeOK, ItemRow, ChargeRow
<1>2. \A i \in Item : \/ item'[i] = item[i]
                      \/ /\ i[1] = r /\ i[2] \in users /\ i[3] \in formats
                         /\ item'[i] = [item[i] EXCEPT !.released = TRUE]
  BY DEF Release, Released
<1>3. \A i \in Item : /\ item'[i] \in ItemRow
                      /\ item'[i].charge = item[i].charge /\ (item'[i].exists <=> item[i].exists)
                      /\ (item'[i].started <=> item[i].started)
                      /\ item[i].released => item'[i].released
  BY <1>1, <1>2 DEF ItemRow
<1>4. item' \in [Item -> ItemRow]
  BY <1>3 DEF Release, Released
<1>5. \A c \in Charge :
        \/ charge'[c] = charge[c]
        \/ /\ charge'[c] = [charge[c] EXCEPT !.refunded = TRUE]
           /\ \A i \in Item : Uses(item', i, c) => item'[i].released /\ ~item'[i].started
  BY DEF Release, Refunded
<1>6. \A c \in Charge : /\ charge'[c] \in ChargeRow
                        /\ charge'[c].user = charge[c].user
                        /\ charge'[c].format = charge[c].format
  <2> SUFFICES ASSUME NEW c \in Charge
               PROVE  /\ charge'[c] \in ChargeRow
                      /\ charge'[c].user = charge[c].user
                      /\ charge'[c].format = charge[c].format
    OBVIOUS
  <2>1. charge'[c] \in {charge[c], [charge[c] EXCEPT !.refunded = TRUE]}
    BY <1>5
  <2>2. charge[c] \in ChargeRow
    BY <1>1
  <2>3. QED
    BY <2>1, <2>2 DEF ChargeRow
<1>7. charge' \in [Charge -> ChargeRow]
  BY <1>6 DEF Release, Refunded
<1>8. RefundsAreFinal'
  <2> SUFFICES ASSUME NEW c \in Charge, charge'[c].refunded,
                      NEW i \in Item, Uses(item', i, c)
               PROVE  item'[i].released /\ ~item'[i].started
    BY DEF RefundsAreFinal
  <2>1. CASE charge'[c] = charge[c]
    <3>1. Uses(item, i, c)
      BY <1>3 DEF Uses
    <3>2. item[i].released /\ ~item[i].started
      BY <2>1, <3>1 DEF Accounts, RefundsAreFinal
    <3>3. QED
      BY <1>3, <3>2
  <2>2. QED
    BY <1>5, <2>1
<1>9. Linked'
  <2> SUFFICES ASSUME NEW i \in Item, item'[i].exists, item'[i].charge # NoCharge
               PROVE  /\ charge'[item'[i].charge].user = i[2]
                      /\ charge'[item'[i].charge].format = i[3]
    BY DEF Linked
  <2>1. item[i].exists /\ item[i].charge # NoCharge /\ item[i].charge = item'[i].charge
        /\ item[i].charge \in Charge
    BY <1>1, <1>3 DEF ItemRow
  <2>2. QED
    BY <1>6, <2>1 DEF Accounts, Linked
<1>10. NoFreeRide'
  <2> SUFFICES ASSUME NEW i \in Item, InUse(i)', item'[i].charge # NoCharge
               PROVE  ~charge'[item'[i].charge].refunded
    BY <1>9 DEF NoFreeRide, Linked, InUse
  <2>1. /\ item'[i].charge \in Charge /\ item'[i].exists /\ ~item'[i].released
        /\ Uses(item', i, item'[i].charge)
    BY <1>3 DEF InUse, Uses, ItemRow
  <2>2. QED
    BY <1>8, <2>1 DEF RefundsAreFinal
<1>11. QED
  BY <1>2, <1>4, <1>5, <1>7, <1>8, <1>9, <1>10 DEF Accounts
-----------------------------------------------------------------------------
(* Submit, told by the row each format goes to, the formats that are paid  *)
(* for anew and the charges they get.                                      *)

Submitted(u, formats, new, row, paid, id) ==
    /\ \A f \in formats : \/ row[f] \in Covering(f)
                          \/ row[f] = new /\ Covering(f) = {} /\ status[new] = "none"
    /\ \A f, h \in paid : id[f] = id[h] => f = h
    /\ \A f \in paid : charge[id[f]].user = NoUser /\ charge'[id[f]] = NewCharge(u, f)
    /\ u \notin Admin => \A f \in paid : Used(u, f) < rule[<<u, f>>].count
    /\ \A r \in Request :
        \/ status'[r] = status[r] /\ wanted'[r] = wanted[r]
        \/ /\ r = new /\ status[r] = "none" /\ status'[r] \in {"requested", "pending"}
           /\ wanted'[r] \subseteq {f \in formats : row[f] = new /\ Covering(f) = {}}
    /\ \A f \in formats : f \in wanted'[row[f]] /\ status'[row[f]] # "none"
    /\ \A r \in Request, v \in User :
        subs'[r][v] = IF v = u THEN subs[r][v] \union {f \in formats : row[f] = r} ELSE subs[r][v]
    /\ \A j \in Job : \/ job'[j] = job[j]
                      \/ /\ j[1] = new /\ status[new] = "none"
                         /\ job'[j].state \in {"complete", "open"} /\ job'[j].started = FALSE
    /\ \A c \in Charge : charge'[c] = charge[c] \/ \E f \in paid : id[f] = c
    /\ \A i \in Item :
        \/ item'[i] = item[i]
        \/ /\ i[2] = u /\ i[3] \in formats /\ item'[i].exists /\ ~item'[i].released
           /\ \/ item'[i].charge = NoCharge
              \/ LET c == item'[i].charge IN
                 /\ c \in Charge /\ charge'[c].user = i[2] /\ charge'[c].format = i[3]
                 /\ ~charge'[c].refunded
    /\ \A f \in formats : LET i == <<row[f], u, f>> IN item'[i].exists /\ ~item'[i].released
    /\ UNCHANGED rule

\* A selection goes to rows that cover it or to a new one, and what it pays
\* with are charges nobody had.
LEMMA SubmitStep ==
    ASSUME TypeOK, NEW u \in User, NEW formats \in SUBSET Format, NEW free \in SUBSET Format,
           NEW new \in Request, Submit(u, formats, free, new)
    PROVE  /\ TypeOK'
           /\ \E row \in [formats -> Request], paid \in SUBSET formats :
                \E id \in [paid -> Charge] : Submitted(u, formats, new, row, paid, id)
<1> DEFINE missing == {f \in formats : Covering(f) = {}}
           RowOf(f) == IF f \in missing THEN new ELSE CHOOSE r \in Covering(f) : TRUE
           accepted == {f \in formats : ~InUse(<<RowOf(f), u, f>>)}
           ToPay(without) == {f \in accepted \ without : Reusable(u, f) = {}}
           unused == {c \in Charge : charge[c].user = NoUser}
           paid == ToPay(free)
           id == CHOOSE g \in [paid -> unused] : \A f, h \in paid : g[f] = g[h] => f = h
           ChargeOf(f) == IF f \in free THEN NoCharge
                          ELSE IF Reusable(u, f) # {} THEN Newest(Reusable(u, f)) ELSE id[f]
           row == [f \in formats |-> RowOf(f)]
<1>1. /\ missing # {} => status[new] = "none"
      /\ free \subseteq missing
      /\ Fits(u, paid)
      /\ Cardinality(paid) <= Cardinality(unused)
  BY DEF Submit
<1>2. job' = [j \in Job |-> IF j[1] = new /\ j[2] \in missing
                 THEN [state |-> IF j[2] \in free THEN "complete" ELSE "open", started |-> FALSE]
                 ELSE job[j]]
  BY DEF Submit
<1>3. /\ status' = IF missing = {} THEN status
                   ELSE [status EXCEPT ![new] = IF free = missing THEN "requested" ELSE "pending"]
      /\ wanted' = IF missing = {} THEN wanted ELSE [wanted EXCEPT ![new] = missing]
      /\ UNCHANGED rule
  BY DEF Submit
<1>4. subs' = [r \in Request |-> [subs[r] EXCEPT ![u] = @ \union {f \in formats : RowOf(f) = r}]]
  BY DEF Submit
<1>5. charge' = [c \in Charge |-> IF \E f \in paid : id[f] = c
                    THEN NewCharge(u, CHOOSE f \in paid : id[f] = c) ELSE charge[c]]
  BY DEF Submit
<1>6. item' = [i \in Item |->
          IF i[2] = u /\ i[3] \in accepted /\ i[1] = RowOf(i[3])
          THEN [exists |-> TRUE, released |-> FALSE, charge |-> ChargeOf(i[3]),
                started |-> item[i].started \/ job'[<<i[1], i[3]>>].started]
          ELSE item[i]]
  BY DEF Submit
<1> HIDE DEF missing, RowOf, accepted, unused, paid, id, ChargeOf
<1>7. /\ unused \subseteq Charge /\ IsFiniteSet(unused)
      /\ paid \subseteq formats /\ paid \subseteq accepted /\ IsFiniteSet(paid)
  <2>1. unused \subseteq Charge /\ IsFiniteSet(Charge)
    BY FS_Interval, ConstantsAssumption DEF unused, Charge
  <2>2. paid \subseteq accepted /\ accepted \subseteq Format
    BY DEF paid, accepted
  <2>3. paid \subseteq formats
    BY DEF paid, accepted
  <2>4. QED
    BY <2>1, <2>2, <2>3, FS_Subset, ConstantsAssumption
<1>8. id \in [paid -> unused] /\ \A f, h \in paid : id[f] = id[h] => f = h
  BY <1>1, <1>7, InjectionExists DEF id
<1>9. \A f \in formats : /\ row[f] = RowOf(f) /\ row[f] \in Request
                         /\ f \in missing => row[f] = new /\ Covering(f) = {}
                         /\ f \notin missing => row[f] \in Covering(f)
  BY DEF RowOf, missing, Covering
<1>10. \A f \in formats : \/ row[f] \in Covering(f) /\ f \notin missing
                          \/ row[f] = new /\ f \in missing /\ Covering(f) = {} /\ status[new] = "none"
  BY <1>1, <1>9
<1>11. missing \subseteq formats /\ accepted \subseteq formats
  BY DEF missing, accepted
<1>12. \A f \in paid : /\ id[f] \in Charge /\ charge[id[f]].user = NoUser
                       /\ charge'[id[f]] = NewCharge(u, f)
  BY <1>5, <1>7, <1>8 DEF unused
<1>13. \A c \in Charge : charge'[c] = charge[c] \/ \E f \in paid : id[f] = c
  BY <1>5
<1>14. \A f \in accepted :
         \/ ChargeOf(f) = NoCharge
         \/ LET c == ChargeOf(f) IN
            /\ c \in Charge /\ charge'[c].user = u /\ charge'[c].format = f /\ ~charge'[c].refunded
  <2> SUFFICES ASSUME NEW f \in accepted, f \notin free
               PROVE  LET c == ChargeOf(f) IN
                      /\ c \in Charge /\ charge'[c].user = u /\ charge'[c].format = f
                      /\ ~charge'[c].refunded
    BY DEF ChargeOf
  <2>1. CASE Reusable(u, f) # {}
    <3>1. ChargeOf(f) \in Reusable(u, f)
      BY <2>1, NewestIn DEF ChargeOf, Reusable
    <3>2. /\ ChargeOf(f) \in Charge /\ charge[ChargeOf(f)].user = u
          /\ charge[ChargeOf(f)].format = f /\ ~charge[ChargeOf(f)].refunded
      BY <3>1 DEF Reusable
    <3>3. charge'[ChargeOf(f)] = charge[ChargeOf(f)]
      BY <1>12, <1>13, <3>2, ConstantsAssumption
    <3>4. QED
      BY <3>2, <3>3
  <2>2. CASE Reusable(u, f) = {}
    <3>1. f \in paid /\ ChargeOf(f) = id[f]
      BY <2>2 DEF paid, ChargeOf
    <3>2. ChargeOf(f) \in Charge /\ charge'[ChargeOf(f)] = NewCharge(u, f)
      BY <1>12, <3>1
    <3>3. QED
      BY <3>2 DEF NewCharge
  <2>3. QED
    BY <2>1, <2>2
<1>15. TypeOK'
  <2>1. status' \in [Request -> {"none", "pending", "requested", "denied"}]
        /\ wanted' \in [Request -> SUBSET Format] /\ rule' \in Settings
    BY <1>3, <1>11 DEF TypeOK
  <2>2. subs' \in [Request -> [User -> SUBSET Format]]
    BY <1>4 DEF TypeOK
  <2>3. job' \in [Job -> JobRow]
    BY <1>2 DEF TypeOK, JobRow
  <2>4. charge' \in [Charge -> ChargeRow]
    <3>1. \A c \in Charge : charge'[c] \in ChargeRow
      <4> SUFFICES ASSUME NEW c \in Charge PROVE charge'[c] \in ChargeRow
        OBVIOUS
      <4>1. CASE charge'[c] = charge[c]
        BY <4>1 DEF TypeOK, ChargeRow
      <4>2. ASSUME NEW f \in paid, id[f] = c PROVE charge'[c] \in ChargeRow
        <5>1. charge'[c] = NewCharge(u, f) /\ f \in Format
          BY <1>7, <1>12, <4>2
        <5>2. QED
          BY <5>1, ConstantsAssumption DEF NewCharge, ChargeRow
      <4>3. QED
        BY <1>13, <4>1, <4>2
    <3>2. QED
      BY <1>5, <3>1
  <2>5. item' \in [Item -> ItemRow]
    <3>1. \A i \in Item : item'[i] \in ItemRow
      <4> SUFFICES ASSUME NEW i \in Item PROVE item'[i] \in ItemRow
        OBVIOUS
      <4>1. CASE item'[i] = item[i]
        BY <4>1 DEF TypeOK, ItemRow
      <4>2. CASE i[2] = u /\ i[3] \in accepted /\ i[1] = RowOf(i[3])
        <5>1. <<i[1], i[3]>> \in Job /\ item[i].started \in BOOLEAN
          BY DEF Item, Job, TypeOK
        <5>2. job'[<<i[1], i[3]>>].started \in BOOLEAN
          BY <2>3, <5>1 DEF JobRow
        <5>3. ChargeOf(i[3]) \in Charge \union {NoCharge}
          BY <1>14, <4>2
        <5>4. item'[i] = [exists |-> TRUE, released |-> FALSE, charge |-> ChargeOf(i[3]),
                          started |-> item[i].started \/ job'[<<i[1], i[3]>>].started]
          BY <1>6, <4>2
        <5>5. QED
          BY <5>1, <5>2, <5>3, <5>4 DEF ItemRow
      <4>3. QED
        BY <1>6, <4>1, <4>2
    <3>2. QED
      BY <1>6, <3>1
  <2>6. QED
    BY <2>1, <2>2, <2>3, <2>4, <2>5 DEF TypeOK, JobRow, ChargeRow, ItemRow
<1>16. u \notin Admin => \A f \in paid : Used(u, f) < rule[<<u, f>>].count
  BY <1>1 DEF Fits
<1>17. \A r \in Request :
        \/ status'[r] = status[r] /\ wanted'[r] = wanted[r]
        \/ /\ r = new /\ status[r] = "none" /\ status'[r] \in {"requested", "pending"}
           /\ wanted'[r] \subseteq {f \in formats : row[f] = new /\ Covering(f) = {}}
  <2>1. missing \subseteq {f \in formats : row[f] = new /\ Covering(f) = {}}
    BY <1>9, <1>11
  <2>2. QED
    BY <1>1, <1>3, <2>1 DEF TypeOK
<1>18. \A f \in formats : f \in wanted'[row[f]] /\ status'[row[f]] # "none"
  <2> SUFFICES ASSUME NEW f \in formats
               PROVE  f \in wanted'[row[f]] /\ status'[row[f]] # "none"
    OBVIOUS
  <2>1. CASE f \in missing
    <3>1. row[f] = new /\ missing # {}
      BY <1>9, <2>1
    <3>2. wanted'[new] = missing /\ status'[new] \in {"requested", "pending"}
      BY <1>3, <3>1 DEF TypeOK
    <3>3. QED
      BY <2>1, <3>1, <3>2
  <2>2. CASE f \notin missing
    <3>1. row[f] \in Request /\ status[row[f]] = "pending" /\ f \in wanted[row[f]]
      BY <1>9, <2>2 DEF Covering
    <3>2. missing # {} => row[f] # new
      BY <1>1, <3>1
    <3>3. status'[row[f]] = status[row[f]] /\ wanted'[row[f]] = wanted[row[f]]
      BY <1>3, <3>1, <3>2 DEF TypeOK
    <3>4. QED
      BY <3>1, <3>3
  <2>3. QED
    BY <2>1, <2>2
<1>19. \A r \in Request, v \in User :
        subs'[r][v] = IF v = u THEN subs[r][v] \union {f \in formats : row[f] = r} ELSE subs[r][v]
  <2> SUFFICES ASSUME NEW r \in Request, NEW v \in User
               PROVE  subs'[r][v] = IF v = u THEN subs[r][v] \union {f \in formats : row[f] = r}
                                    ELSE subs[r][v]
    OBVIOUS
  <2>1. subs[r] \in [User -> SUBSET Format]
    BY DEF TypeOK
  <2>2. {f \in formats : row[f] = r} = {f \in formats : RowOf(f) = r}
    BY <1>9
  <2>3. QED
    BY <1>4, <2>1, <2>2
<1>20. \A j \in Job : \/ job'[j] = job[j]
                      \/ /\ j[1] = new /\ status[new] = "none"
                         /\ job'[j].state \in {"complete", "open"} /\ job'[j].started = FALSE
  BY <1>1, <1>2
<1>21. \A i \in Item :
        \/ item'[i] = item[i]
        \/ /\ i[2] = u /\ i[3] \in formats /\ item'[i].exists /\ ~item'[i].released
           /\ \/ item'[i].charge = NoCharge
              \/ LET c == item'[i].charge IN
                 /\ c \in Charge /\ charge'[c].user = i[2] /\ charge'[c].format = i[3]
                 /\ ~charge'[c].refunded
  BY <1>6, <1>11, <1>14
<1>22. \A f \in formats : LET i == <<row[f], u, f>> IN item'[i].exists /\ ~item'[i].released
  <2> SUFFICES ASSUME NEW f \in formats
               PROVE  item'[<<row[f], u, f>>].exists /\ ~item'[<<row[f], u, f>>].released
    OBVIOUS
  <2>1. <<row[f], u, f>> \in Item
    BY <1>9 DEF Item
  <2>2. f \notin accepted => InUse(<<row[f], u, f>>)
    BY <1>9 DEF accepted
  <2>3. QED
    BY <1>6, <1>9, <2>1, <2>2 DEF InUse
<1>23. Submitted(u, formats, new, row, paid, id)
  <2> HIDE DEF row
  <2>1. /\ \A f \in formats : \/ row[f] \in Covering(f)
                              \/ row[f] = new /\ Covering(f) = {} /\ status[new] = "none"
        /\ \A f, h \in paid : id[f] = id[h] => f = h
        /\ \A f \in paid : charge[id[f]].user = NoUser /\ charge'[id[f]] = NewCharge(u, f)
    BY <1>8, <1>10, <1>12
  <2>2. QED
    BY <2>1, <1>3, <1>13, <1>16, <1>17, <1>18, <1>19, <1>20, <1>21, <1>22 DEF Submitted
<1>24. row \in [formats -> Request] /\ id \in [paid -> Charge]
  BY <1>7, <1>8, <1>9
<1>25. QED
  BY <1>7, <1>15, <1>23, <1>24

\* Whoever's charges do not come to count more has not come to use more.
LEMMA UsedShrinks ==
    ASSUME NEW u, NEW f, \A c \in Charge : Counted(c, u, f)' => Counted(c, u, f)
    PROVE  ~(Used(u, f)' > Used(u, f))
<1> DEFINE A == {c \in Charge : Counted(c, u, f)}
           B == {c \in Charge : Counted(c, u, f)'}
<1>1. IsFiniteSet(A) /\ B \subseteq A
  BY FS_Interval, FS_Subset, ConstantsAssumption DEF Charge
<1>2. Cardinality(B) <= Cardinality(A) /\ Cardinality(A) \in Nat /\ Cardinality(B) \in Nat
  BY <1>1, FS_Subset, FS_CardinalityType
<1>3. Used(u, f) = Cardinality(A) /\ Used(u, f)' = Cardinality(B)
  BY DEF Used
<1> HIDE DEF A, B
<1>4. QED
  BY <1>2, <1>3

\* One more charge that counts is at most one more use.
LEMMA UsedGrowsByOne ==
    ASSUME NEW u, NEW f, NEW d \in Charge,
           \A c \in Charge : Counted(c, u, f)' => Counted(c, u, f) \/ c = d
    PROVE  Used(u, f)' <= Used(u, f) + 1 /\ Used(u, f) \in Nat /\ Used(u, f)' \in Nat
<1> DEFINE A == {c \in Charge : Counted(c, u, f)}
           B == {c \in Charge : Counted(c, u, f)'}
<1>1. IsFiniteSet(A) /\ B \subseteq A \union {d} /\ IsFiniteSet(A \union {d})
  <2>1. IsFiniteSet(A)
    BY FS_Interval, FS_Subset, ConstantsAssumption DEF Charge
  <2>2. QED
    BY <2>1, FS_AddElement
<1>2. /\ Cardinality(A \union {d}) \in {Cardinality(A), Cardinality(A) + 1}
      /\ Cardinality(A) \in Nat /\ Cardinality(B) \in Nat
      /\ Cardinality(B) <= Cardinality(A \union {d})
  <2> HIDE DEF A, B
  <2>1. Cardinality(A \union {d}) \in {Cardinality(A), Cardinality(A) + 1}
    BY <1>1, FS_AddElement
  <2>2. QED
    BY <1>1, <2>1, FS_Subset, FS_CardinalityType
<1>3. Used(u, f) = Cardinality(A) /\ Used(u, f)' = Cardinality(B)
  BY DEF Used
<1> HIDE DEF A, B
<1>4. QED
  BY <1>2, <1>3

\* What Submit charges is in order: its own user's, its own format's, unrefunded.
LEMMA SubmitAccounts ==
    ASSUME TypeOK, Accounts, NEW u \in User, NEW formats \in SUBSET Format, NEW new \in Request,
           NEW row \in [formats -> Request], NEW paid \in SUBSET formats,
           NEW id \in [paid -> Charge], Submitted(u, formats, new, row, paid, id), TypeOK'
    PROVE  Accounts'
<1>1. \A c \in Charge : \/ charge'[c] = charge[c]
                        \/ charge[c].user = NoUser /\ ~charge'[c].refunded
  <2> SUFFICES ASSUME NEW c \in Charge, charge'[c] # charge[c]
               PROVE  charge[c].user = NoUser /\ ~charge'[c].refunded
    OBVIOUS
  <2>1. PICK f \in paid : id[f] = c
    BY DEF Submitted
  <2>2. charge[id[f]].user = NoUser /\ charge'[id[f]] = NewCharge(u, f)
    BY DEF Submitted
  <2>3. QED
    BY <2>1, <2>2 DEF NewCharge
<1>2. \A i \in Item : \/ item'[i] = item[i]
                      \/ item'[i].charge = NoCharge
                      \/ LET c == item'[i].charge IN
                         /\ c \in Charge /\ charge'[c].user = i[2] /\ charge'[c].format = i[3]
                         /\ ~charge'[c].refunded
  BY DEF Submitted
<1>3. \A i \in Item : item[i] \in ItemRow /\ i[2] \in User
  BY DEF TypeOK, ItemRow, Item
<1>4. \A i \in Item : item'[i] = item[i] /\ item[i].exists /\ item[i].charge # NoCharge =>
        /\ item[i].charge \in Charge /\ charge'[item[i].charge] = charge[item[i].charge]
        /\ charge[item[i].charge].user = i[2] /\ charge[item[i].charge].format = i[3]
  BY <1>1, <1>3, ConstantsAssumption DEF Accounts, Linked, ItemRow
<1>5. Linked'
  BY <1>2, <1>4 DEF Linked
<1>6. NoFreeRide'
  <2> SUFFICES ASSUME NEW i \in Item, InUse(i)', item'[i].charge # NoCharge
               PROVE  ~charge'[item'[i].charge].refunded
    BY <1>5 DEF NoFreeRide, Linked, InUse
  <2>1. CASE item'[i] = item[i]
    BY <1>4, <2>1 DEF InUse, Accounts, NoFreeRide
  <2>2. QED
    BY <1>2, <2>1
<1>7. RefundsAreFinal'
  <2> SUFFICES ASSUME NEW c \in Charge, charge'[c].refunded,
                      NEW i \in Item, Uses(item', i, c)
               PROVE  item'[i].released /\ ~item'[i].started
    BY DEF RefundsAreFinal
  <2>1. item'[i].charge = c /\ item'[i].exists /\ c # NoCharge
    BY ConstantsAssumption DEF Uses, Charge, NoCharge
  <2>2. item'[i] = item[i] /\ charge'[c] = charge[c]
    BY <1>1, <1>2, <2>1
  <2>3. QED
    BY <2>2 DEF Accounts, RefundsAreFinal, Uses
<1>8. QED
  BY <1>5, <1>6, <1>7 DEF Accounts

\* Submit joins rows that cover a format and makes a new one only where none does.
LEMMA SubmitSharing ==
    ASSUME TypeOK, Sharing, NEW u \in User, NEW formats \in SUBSET Format, NEW new \in Request,
           NEW row \in [formats -> Request], NEW paid \in SUBSET formats,
           NEW id \in [paid -> Charge], Submitted(u, formats, new, row, paid, id), TypeOK'
    PROVE  Sharing'
<1>1. \A r \in Request :
        \/ status'[r] = status[r] /\ wanted'[r] = wanted[r]
        \/ /\ r = new /\ status[r] = "none" /\ status'[r] \in {"requested", "pending"}
           /\ wanted'[r] \subseteq {f \in formats : row[f] = new /\ Covering(f) = {}}
  BY DEF Submitted
<1>2. /\ \A f \in formats : f \in wanted'[row[f]] /\ status'[row[f]] # "none"
      /\ \A r \in Request, v \in User :
           subs'[r][v] = IF v = u THEN subs[r][v] \union {f \in formats : row[f] = r} ELSE subs[r][v]
  BY DEF Submitted
<1>3. OneRowPerFormat'
  <2> SUFFICES ASSUME NEW f \in Format, NEW r \in Covering(f)', NEW s \in Covering(f)'
               PROVE  r = s
    BY DEF OneRowPerFormat
  <2>1. /\ r \in Request /\ status'[r] = "pending" /\ f \in wanted'[r]
        /\ s \in Request /\ status'[s] = "pending" /\ f \in wanted'[s]
    BY DEF Covering
  <2>2. \A t \in {r, s} : t \in Covering(f) \/ (t = new /\ Covering(f) = {})
    BY <1>1, <2>1 DEF Covering
  <2>3. QED
    BY <2>2 DEF Sharing, OneRowPerFormat
<1>4. SubsAreWanted'
  <2> SUFFICES ASSUME NEW r \in Request, NEW v \in User
               PROVE  /\ status'[r] = "none" => subs'[r][v] = {}
                      /\ status'[r] = "pending" => subs'[r][v] \subseteq wanted'[r]
    BY DEF SubsAreWanted
  <2>1. /\ status[r] = "none" => subs[r][v] = {}
        /\ status[r] = "pending" => subs[r][v] \subseteq wanted[r]
    BY DEF Sharing, SubsAreWanted
  <2>2. {f \in formats : row[f] = r} \subseteq wanted'[r]
        /\ (status'[r] = "none" => {f \in formats : row[f] = r} = {})
    BY <1>2
  <2>3. \A f \in subs'[r][v] : f \in subs[r][v] \/ f \in {g \in formats : row[g] = r}
    BY <1>2
  <2>4. CASE status'[r] = status[r] /\ wanted'[r] = wanted[r]
    BY <2>1, <2>2, <2>3, <2>4
  <2>5. CASE status[r] = "none" /\ status'[r] \in {"requested", "pending"}
    BY <2>1, <2>2, <2>3, <2>5
  <2>6. QED
    BY <1>1, <2>4, <2>5
<1>5. SubscribersAreAccounted'
  <2> SUFFICES ASSUME NEW r \in Request, NEW v \in User, status'[r] = "pending",
                      NEW f \in subs'[r][v], f \in wanted'[r]
               PROVE  \/ InUse(<<r, v, f>>)'
                      \/ job'[<<r, f>>].state = "complete" /\ ~job'[<<r, f>>].started
    BY DEF SubscribersAreAccounted
  <2>1. CASE v = u /\ f \in formats /\ row[f] = r
    BY <2>1 DEF Submitted, InUse
  <2>2. CASE f \in subs[r][v]
    <3>1. status[r] = "pending" /\ f \in wanted[r]
      BY <1>1, <2>2 DEF Sharing, SubsAreWanted
    <3>2. f \in Format /\ <<r, v, f>> \in Item /\ <<r, f>> \in Job
      BY <3>1 DEF TypeOK, Item, Job
    <3>3. \/ InUse(<<r, v, f>>)
          \/ job[<<r, f>>].state = "complete" /\ ~job[<<r, f>>].started
      BY <2>2, <3>1 DEF Sharing, SubscribersAreAccounted
    <3>4. InUse(<<r, v, f>>) => InUse(<<r, v, f>>)'
      BY <3>2 DEF Submitted, InUse
    <3>5. job'[<<r, f>>] = job[<<r, f>>]
      BY <3>1, <3>2 DEF Submitted
    <3>6. QED
      BY <3>3, <3>4, <3>5
  <2>3. subs'[r][v] = IF v = u THEN subs[r][v] \union {g \in formats : row[g] = r} ELSE subs[r][v]
    BY <1>2
  <2>4. CASE v = u
    <3>1. f \in subs[r][v] \/ f \in {g \in formats : row[g] = r}
      BY <2>3, <2>4
    <3>2. QED
      BY <2>1, <2>2, <2>4, <3>1
  <2>5. CASE v # u
    BY <2>2, <2>3, <2>5
  <2>6. QED
    BY <2>4, <2>5
<1>6. QED
  BY <1>3, <1>4, <1>5 DEF Sharing

\* Submit charges a user for a format once, and only where that fits.
LEMMA SubmitAdmits ==
    ASSUME TypeOK, NEW u \in User, NEW formats \in SUBSET Format, NEW new \in Request,
           NEW row \in [formats -> Request], NEW paid \in SUBSET formats,
           NEW id \in [paid -> Charge], Submitted(u, formats, new, row, paid, id),
           NEW v \in User \ Admin, NEW f \in Format, Used(v, f)' > Used(v, f)
    PROVE  Used(v, f)' <= rule[<<v, f>>].count
<1>0. rule' = rule
  BY DEF Submitted
<1>1. /\ \A c \in Charge : charge'[c] = charge[c] \/ \E g \in paid : id[g] = c
      /\ \A g \in paid : charge'[id[g]] = NewCharge(u, g)
  BY DEF Submitted
<1>2. CASE v = u /\ f \in paid
  <2>1. \A c \in Charge : Counted(c, v, f)' => Counted(c, v, f) \/ c = id[f]
    <3> SUFFICES ASSUME NEW c \in Charge, Counted(c, v, f)', charge'[c] # charge[c]
                 PROVE  c = id[f]
      BY <1>0 DEF Counted, Recent
    <3>1. PICK g \in paid : id[g] = c
      BY <1>1
    <3>2. charge'[c] = NewCharge(u, g)
      BY <1>1, <3>1
    <3>3. charge'[c].format = g
      BY <3>2 DEF NewCharge
    <3>4. QED
      BY <3>1, <3>3 DEF Counted
  <2>2. Used(v, f)' <= Used(v, f) + 1 /\ Used(v, f) \in Nat /\ Used(v, f)' \in Nat
    BY <1>2, <2>1, UsedGrowsByOne
  <2>3. rule \in [User \X Format -> [count : Nat, window : 1 .. MaxWindow]]
    BY ConstantsAssumption DEF TypeOK
  <2>4. Used(v, f) < rule[<<v, f>>].count /\ rule[<<v, f>>].count \in Nat
    BY <1>2, <2>3 DEF Submitted
  <2>5. QED
    BY <2>2, <2>4
<1>3. CASE ~(v = u /\ f \in paid)
  <2>1. \A c \in Charge : Counted(c, v, f)' => Counted(c, v, f)
    <3> SUFFICES ASSUME NEW c \in Charge, Counted(c, v, f)', charge'[c] # charge[c]
                 PROVE  FALSE
      BY <1>0 DEF Counted, Recent
    <3>1. PICK g \in paid : id[g] = c
      BY <1>1
    <3>2. charge'[c] = NewCharge(u, g)
      BY <1>1, <3>1
    <3>3. charge'[c].format = g /\ charge'[c].user = u
      BY <3>2 DEF NewCharge
    <3>4. QED
      BY <1>3, <3>1, <3>3 DEF Counted
  <2>2. QED
    BY <2>1, UsedShrinks
<1>4. QED
  BY <1>2, <1>3

-----------------------------------------------------------------------------
(* Every other operation only takes away: charges stop counting, requests  *)
(* stop being pending, subscribers leave.                                  *)

ChargesFade ==
    \A c \in Charge : charge'[c] \in {charge[c], [charge[c] EXCEPT !.refunded = TRUE],
                                      [charge[c] EXCEPT !.age = @ + 1],
                                      [charge[c] EXCEPT !.reset = TRUE]}

SharingFades ==
    /\ \A r \in Request : /\ status'[r] = "pending" => status[r] = "pending"
                          /\ status'[r] = "none" => status[r] = "none"
                          /\ wanted'[r] \subseteq wanted[r]
    /\ \A r \in Request, v \in User :
        /\ subs'[r][v] \subseteq subs[r][v]
        /\ status'[r] = "pending" => subs'[r][v] \subseteq wanted'[r]
    /\ \A r \in Request, v \in User, f \in Format :
        status'[r] = "pending" /\ f \in subs'[r][v] =>
            /\ InUse(<<r, v, f>>) =>
                \/ InUse(<<r, v, f>>)'
                \/ job'[<<r, f>>].state = "complete" /\ ~job'[<<r, f>>].started
            /\ job[<<r, f>>].state = "complete" => job'[<<r, f>>] = job[<<r, f>>]

\* Whatever only leaves or ends keeps the remaining subscriptions in order.
LEMMA FadedSharing ==
    ASSUME TypeOK, Sharing, SharingFades
    PROVE  Sharing'
<1>1. OneRowPerFormat'
  <2> SUFFICES ASSUME NEW f \in Format, NEW r \in Covering(f)', NEW s \in Covering(f)'
               PROVE  r = s
    BY DEF OneRowPerFormat
  <2>1. r \in Covering(f) /\ s \in Covering(f)
    BY DEF Covering, SharingFades
  <2>2. QED
    BY <2>1 DEF Sharing, OneRowPerFormat
<1>2. SubsAreWanted'
  BY DEF Sharing, SubsAreWanted, SharingFades
<1>3. SubscribersAreAccounted'
  <2> SUFFICES ASSUME NEW r \in Request, NEW v \in User, status'[r] = "pending",
                      NEW f \in subs'[r][v], f \in wanted'[r]
               PROVE  \/ InUse(<<r, v, f>>)'
                      \/ job'[<<r, f>>].state = "complete" /\ ~job'[<<r, f>>].started
    BY DEF SubscribersAreAccounted
  <2>1. status[r] = "pending" /\ f \in subs[r][v] /\ f \in wanted[r] /\ f \in Format
    BY DEF SharingFades, TypeOK
  <2>2. \/ InUse(<<r, v, f>>)
        \/ job[<<r, f>>].state = "complete" /\ ~job[<<r, f>>].started
    BY <2>1 DEF Sharing, SubscribersAreAccounted
  <2>3. QED
    BY <2>1, <2>2 DEF SharingFades
<1>4. QED
  BY <1>1, <1>2, <1>3 DEF Sharing

\* Charges that fade never count for more under the same rule.
LEMMA FadedCharges ==
    ASSUME TypeOK, ChargesFade, NEW v \in User \ Admin, NEW f \in Format,
           rule'[<<v, f>>] = rule[<<v, f>>]
    PROVE  ~(Used(v, f)' > Used(v, f))
<1> SUFFICES ASSUME NEW c \in Charge, Counted(c, v, f)' PROVE Counted(c, v, f)
  BY UsedShrinks
<1>1. charge[c] \in ChargeRow
  BY DEF TypeOK, ChargeRow
<1>2. /\ charge'[c].user = charge[c].user /\ charge'[c].format = charge[c].format
      /\ charge[c].age \in Nat /\ charge'[c].age \in {charge[c].age, charge[c].age + 1}
      /\ charge[c].reset => charge'[c].reset
      /\ charge[c].refunded => charge'[c].refunded
  BY <1>1 DEF ChargesFade, ChargeRow
<1>3. rule[<<v, f>>].window \in Nat
  BY ConstantsAssumption DEF TypeOK
<1>4. Recent(c, v, f)' => Recent(c, v, f)
  BY <1>2, <1>3 DEF Recent
<1>5. QED
  BY <1>2, <1>4 DEF Counted

\* Items that stay as they are stay in order while charges age or are reset.
LEMMA AccountsUntouched ==
    ASSUME TypeOK, Accounts, UNCHANGED item,
           \A c \in Charge : /\ charge'[c].user = charge[c].user
                             /\ charge'[c].format = charge[c].format
                             /\ charge'[c].refunded <=> charge[c].refunded
    PROVE  Accounts'
<1>1. \A i \in Item : item[i].charge # NoCharge => item[i].charge \in Charge
  BY DEF TypeOK
<1>2. QED
  BY <1>1 DEF Accounts, NoFreeRide, RefundsAreFinal, Linked, InUse, Uses

-----------------------------------------------------------------------------
\* Nothing is requested, charged or refunded at first.
LEMMA InitInv == Init => Inv
<1> SUFFICES ASSUME Init PROVE Inv
  OBVIOUS
<1>1. TypeOK
  BY ConstantsAssumption DEF Init, TypeOK, NoItem, NewCharge
<1>2. \A i \in Item : ~item[i].exists
  BY DEF Init, NoItem
<1>3. \A c \in Charge : ~charge[c].refunded
  BY DEF Init, NewCharge
<1>4. Accounts
  BY <1>2, <1>3 DEF Accounts, NoFreeRide, RefundsAreFinal, Linked, InUse
<1>5. Sharing
  BY DEF Init, Sharing, OneRowPerFormat, SubscribersAreAccounted, SubsAreWanted, Covering
<1>6. QED
  BY <1>1, <1>4, <1>5 DEF Inv

\* One job moves to another state of delivery.
LEMMA JobMoves ==
    ASSUME TypeOK, NEW j \in Job, NEW s \in {"open", "processing", "complete"},
           job' = [job EXCEPT ![j].state = s]
    PROVE  /\ job' \in [Job -> JobRow]
           /\ job'[j].state = s /\ (job'[j].started <=> job[j].started)
           /\ \A k \in Job : k # j => job'[k] = job[k]
<1>1. job \in [Job -> JobRow] /\ job[j] \in JobRow
  BY DEF TypeOK, JobRow
<1>2. job'[j] = [job[j] EXCEPT !.state = s]
  BY <1>1
<1>3. job'[j] \in JobRow /\ job'[j].state = s /\ (job'[j].started <=> job[j].started)
  BY <1>1, <1>2 DEF JobRow
<1>4. \A k \in Job : k # j => job'[k] = job[k]
  BY <1>1
<1>5. job' \in [Job -> JobRow]
  BY <1>1, <1>3, <1>4
<1>6. QED
  BY <1>3, <1>4, <1>5

\* A delivery attempt begins or ends without a result.
LEMMA AttemptStep ==
    ASSUME Inv, NEW r \in Request, NEW f \in Format, Claim(r, f) \/ Retry(r, f)
    PROVE  Inv' /\ ChargesFade
<1>1. /\ <<r, f>> \in Job
      /\ job[<<r, f>>].state # "complete"
      /\ UNCHANGED <<status, wanted, subs, item, charge, rule>>
      /\ \E s \in {"processing", "open"} : job' = [job EXCEPT ![<<r, f>>].state = s]
  BY DEF Claim, Retry, Job
<1>2. /\ job' \in [Job -> JobRow]
      /\ \A j \in Job : job[j].state = "complete" => job'[j] = job[j]
  BY <1>1, JobMoves DEF Inv
<1>3. TypeOK' /\ Accounts'
  <2>1. TypeOK'
    BY <1>1, <1>2 DEF Inv, TypeOK, JobRow
  <2>2. QED
    BY <1>1, <2>1, AccountsUntouched DEF Inv
<1>4. SharingFades
  BY <1>1, <1>2 DEF SharingFades, InUse, Inv, Job, Sharing, SubsAreWanted
<1>5. QED
  BY <1>1, <1>3, <1>4, FadedSharing DEF Inv, ChargesFade

\* The delivery marker reaches only items in use, so no refunded charge's.
LEMMA StartDeliveryStep ==
    ASSUME Inv, NEW r \in Request, NEW f \in Format, StartDelivery(r, f)
    PROVE  Inv' /\ ChargesFade
<1>1. /\ <<r, f>> \in Job
      /\ job[<<r, f>>].state = "processing"
      /\ UNCHANGED <<status, wanted, subs, charge, rule>>
      /\ job' = [job EXCEPT ![<<r, f>>].started = TRUE]
      /\ item' = [i \in Item |-> IF i[1] = r /\ i[3] = f /\ InUse(i)
                                 THEN [item[i] EXCEPT !.started = TRUE] ELSE item[i]]
  BY DEF StartDelivery, Job
<1>2. \A i \in Item : item[i] \in ItemRow
  BY DEF Inv, TypeOK, ItemRow
<1>3. \A i \in Item : /\ item'[i] \in ItemRow
                      /\ item'[i].charge = item[i].charge
                      /\ item'[i].exists <=> item[i].exists
                      /\ item'[i].released <=> item[i].released
                      /\ InUse(i) \/ item'[i] = item[i]
  BY <1>1, <1>2 DEF ItemRow
<1>4. TypeOK'
  <2>1. item' \in [Item -> ItemRow]
    BY <1>1, <1>3
  <2>2. job' \in [Job -> JobRow]
    <3>1. job \in [Job -> JobRow] /\ job[<<r, f>>] \in JobRow
      BY <1>1 DEF Inv, TypeOK, JobRow
    <3>2. [job[<<r, f>>] EXCEPT !.started = TRUE] \in JobRow
      BY <3>1 DEF JobRow
    <3>3. QED
      BY <1>1, <3>1, <3>2
  <2>3. QED
    BY <1>1, <2>1, <2>2 DEF Inv, TypeOK, ItemRow, JobRow
<1>5. NoFreeRide' /\ Linked'
  BY <1>1, <1>3 DEF Inv, Accounts, NoFreeRide, Linked, InUse
<1>6. RefundsAreFinal'
  <2> SUFFICES ASSUME NEW c \in Charge, charge[c].refunded, NEW i \in Item, Uses(item', i, c)
               PROVE  item'[i].released /\ ~item'[i].started
    BY <1>1 DEF RefundsAreFinal
  <2>1. item[i].released /\ ~item[i].started
    BY <1>3 DEF Inv, Accounts, RefundsAreFinal, Uses
  <2>2. QED
    BY <1>3, <2>1 DEF InUse
<1>7. SharingFades
  <2>1. \A g \in Request, v \in User, h \in Format :
           InUse(<<g, v, h>>) => InUse(<<g, v, h>>)'
    BY <1>3 DEF InUse, Item
  <2>2. \A j \in Job : job[j].state = "complete" => job'[j] = job[j]
    BY <1>1 DEF Inv, TypeOK
  <2>3. QED
    BY <1>1, <2>1, <2>2 DEF SharingFades, Inv, Sharing, SubsAreWanted, Job
<1>8. QED
  BY <1>1, <1>4, <1>5, <1>6, <1>7, FadedSharing DEF Inv, Accounts, ChargesFade

\* A completed job gives back what it holds unless a delivery may have begun.
LEMMA CompleteStep ==
    ASSUME Inv, NEW r \in Request, NEW f \in Format, Complete(r, f)
    PROVE  Inv' /\ ChargesFade
<1>1. /\ <<r, f>> \in Job /\ job[<<r, f>>].state \in {"open", "processing"}
      /\ job' = [job EXCEPT ![<<r, f>>].state = "complete"]
      /\ \E s \in {"requested", status[r]} : status' = [status EXCEPT ![r] = s]
      /\ UNCHANGED <<wanted, subs, rule>>
      /\ status[r] = "pending"
  BY DEF Complete, Job
<1>2. /\ job' \in [Job -> JobRow]
      /\ job'[<<r, f>>].state = "complete" /\ (job'[<<r, f>>].started <=> job[<<r, f>>].started)
      /\ \A j \in Job : job[j].state = "complete" => job'[j] = job[j]
  BY <1>1, JobMoves DEF Inv
<1>3. \A g \in Request : /\ status'[g] \in {"requested", status[g]}
                         /\ g # r => status'[g] = status[g]
  BY <1>1 DEF Inv, TypeOK
<1>4. status' \in [Request -> {"none", "pending", "requested", "denied"}]
  BY <1>1 DEF Inv, TypeOK
<1>5. ASSUME \A v \in User, g \in Request, h \in Format :
               InUse(<<g, v, h>>) => \/ InUse(<<g, v, h>>)'
                                     \/ job'[<<g, h>>].state = "complete" /\ ~job'[<<g, h>>].started
      PROVE  SharingFades
  <2>1. \A g \in Request : /\ status'[g] = "pending" => status[g] = "pending"
                           /\ status'[g] = "none" => status[g] = "none"
    BY <1>1, <1>3
  <2>2. \A g \in Request, v \in User : status'[g] = "pending" => subs'[g][v] \subseteq wanted'[g]
    BY <1>1, <2>1 DEF Inv, Sharing, SubsAreWanted
  <2>3. \A g \in Request, h \in Format :
          job[<<g, h>>].state = "complete" => job'[<<g, h>>] = job[<<g, h>>]
    BY <1>2 DEF Job
  <2>4. QED
    BY <1>1, <1>5, <2>1, <2>2, <2>3 DEF SharingFades
<1>6. CASE job[<<r, f>>].started
  <2>1. UNCHANGED <<item, charge>>
    BY <1>6 DEF Complete
  <2>2. TypeOK'
    BY <1>1, <1>2, <1>4, <2>1 DEF Inv, TypeOK, JobRow
  <2>3. SharingFades
    BY <1>5, <2>1 DEF InUse
  <2>4. QED
    BY <2>1, <2>2, <2>3, AccountsUntouched, FadedSharing DEF Inv, ChargesFade
<1>7. CASE ~job[<<r, f>>].started
  <2>1. Release(r, User, {f}) /\ User \in SUBSET User /\ {f} \in SUBSET Format
    BY <1>7 DEF Complete
  <2>2. /\ item' \in [Item -> ItemRow] /\ charge' \in [Charge -> ChargeRow] /\ Accounts'
        /\ \A i \in Item : \/ item'[i] = item[i]
                            \/ /\ i[1] = r /\ i[2] \in User /\ i[3] \in {f}
                               /\ item'[i] = [item[i] EXCEPT !.released = TRUE]
        /\ \A c \in Charge : charge'[c] \in {charge[c], [charge[c] EXCEPT !.refunded = TRUE]}
    BY <2>1, ReleaseStep DEF Inv
  <2>3. TypeOK'
    BY <1>1, <1>2, <1>4, <2>2 DEF Inv, TypeOK, ItemRow, ChargeRow, JobRow
  <2>4. SharingFades
    <3> SUFFICES ASSUME NEW v \in User, NEW g \in Request, NEW h \in Format, InUse(<<g, v, h>>),
                        ~InUse(<<g, v, h>>)'
                 PROVE  job'[<<g, h>>].state = "complete" /\ ~job'[<<g, h>>].started
      BY <1>5
    <3>1. <<g, v, h>> \in Item
      BY DEF Item
    <3>2. g = r /\ h = f
      BY <2>2, <3>1 DEF InUse
    <3>3. QED
      BY <1>2, <1>7, <3>2
  <2>5. QED
    BY <2>2, <2>3, <2>4, FadedSharing DEF Inv, ChargesFade
<1>8. QED
  BY <1>6, <1>7

\* Jobs that are not wanted any more become cancelled, never otherwise.
LEMMA CancelledJobsKeep ==
    ASSUME TypeOK, NEW r \in Request, NEW keep, job' = CancelledJobs(r, keep)
    PROVE  /\ job' \in [Job -> JobRow]
           /\ \A j \in Job : job[j].state = "complete" => job'[j] = job[j]
<1>1. \A j \in Job : job[j] \in JobRow
  BY DEF TypeOK, JobRow
<1>2. \A j \in Job : job'[j] \in {job[j], [job[j] EXCEPT !.state = "cancelled"]}
                     /\ (job[j].state = "complete" => job'[j] = job[j])
  BY DEF CancelledJobs
<1>3. \A j \in Job : job'[j] \in JobRow
  BY <1>1, <1>2 DEF JobRow
<1>4. QED
  BY <1>2, <1>3 DEF CancelledJobs

\* A subscriber leaves: what the others wait for stays wanted and accepted.
LEMMA UnsubscribeStep ==
    ASSUME Inv, NEW u \in User, NEW r \in Request, Unsubscribe(u, r)
    PROVE  Inv' /\ ChargesFade
<1> DEFINE others == {v \in User \ {u} : subs[r][v] # {}}
           needed == UNION {subs[r][v] : v \in others}
<1>1. /\ status[r] = "pending"
      /\ subs' = [subs EXCEPT ![r][u] = {}]
      /\ wanted' = [wanted EXCEPT ![r] = needed]
      /\ job' = CancelledJobs(r, needed)
      /\ \E s \in {"requested", status[r]} : status' = [status EXCEPT ![r] = s]
      /\ Release(r, {u}, Format)
      /\ UNCHANGED rule
  BY DEF Unsubscribe
<1>2. /\ item' \in [Item -> ItemRow] /\ charge' \in [Charge -> ChargeRow] /\ Accounts'
      /\ \A i \in Item : \/ item'[i] = item[i]
                          \/ /\ i[1] = r /\ i[2] \in {u} /\ i[3] \in Format
                             /\ item'[i] = [item[i] EXCEPT !.released = TRUE]
      /\ \A c \in Charge : charge'[c] \in {charge[c], [charge[c] EXCEPT !.refunded = TRUE]}
  <2>1. {u} \in SUBSET User /\ Format \in SUBSET Format
    OBVIOUS
  <2> HIDE DEF needed
  <2>2. QED
    BY <1>1, <2>1, ReleaseStep DEF Inv
<1>3. /\ job' \in [Job -> JobRow]
      /\ \A j \in Job : job[j].state = "complete" => job'[j] = job[j]
  <2> HIDE DEF needed
  <2>1. QED
    BY <1>1, CancelledJobsKeep DEF Inv
<1>4. needed \subseteq wanted[r] /\ needed \subseteq Format
  BY <1>1 DEF Inv, Sharing, SubsAreWanted, TypeOK
<1>5. \A v \in User \ {u} : subs[r][v] \subseteq needed
  OBVIOUS
<1> HIDE DEF others, needed
<1>6. TypeOK'
  <2>1. status' \in [Request -> {"none", "pending", "requested", "denied"}]
        /\ wanted' \in [Request -> SUBSET Format] /\ rule' \in Settings
    BY <1>1, <1>4 DEF Inv, TypeOK
  <2>2. subs' \in [Request -> [User -> SUBSET Format]]
    BY <1>1 DEF Inv, TypeOK
  <2>3. QED
    BY <1>2, <1>3, <2>1, <2>2 DEF TypeOK, ItemRow, ChargeRow, JobRow
<1>7. SharingFades
  <2>1. \A g \in Request, v \in User :
          subs'[g][v] = IF g = r /\ v = u THEN {} ELSE subs[g][v]
    BY <1>1 DEF Inv, TypeOK
  <2>2. \A g \in Request : /\ status'[g] = "pending" => status[g] = "pending"
                           /\ status'[g] = "none" => status[g] = "none"
                           /\ wanted'[g] = IF g = r THEN needed ELSE wanted[g]
    BY <1>1 DEF Inv, TypeOK
  <2>3. \A g \in Request, v \in User : status'[g] = "pending" => subs'[g][v] \subseteq wanted'[g]
    BY <1>5, <2>1, <2>2 DEF Inv, Sharing, SubsAreWanted
  <2>4. \A g \in Request, v \in User, f \in Format :
          f \in subs'[g][v] /\ InUse(<<g, v, f>>) => InUse(<<g, v, f>>)'
    BY <1>2, <2>1 DEF Item, InUse
  <2>5. QED
    BY <1>3, <1>4, <2>1, <2>2, <2>3, <2>4 DEF SharingFades, Job
<1>8. QED
  BY <1>2, <1>6, <1>7, FadedSharing DEF Inv, ChargesFade

\* A request ends: its row is not pending any more, its items are given back.
LEMMA CloseStep ==
    ASSUME Inv, NEW r \in Request, NEW users \in SUBSET User, Close(r, users)
    PROVE  Inv' /\ ChargesFade
<1>1. /\ status[r] = "pending"
      /\ job' = CancelledJobs(r, {})
      /\ status' = [status EXCEPT ![r] = "denied"]
      /\ Release(r, users, Format)
      /\ UNCHANGED <<wanted, subs, rule>>
  BY DEF Close
<1>2. /\ item' \in [Item -> ItemRow] /\ charge' \in [Charge -> ChargeRow] /\ Accounts'
      /\ \A i \in Item : item'[i] = item[i] \/ i[1] = r
      /\ \A c \in Charge : charge'[c] \in {charge[c], [charge[c] EXCEPT !.refunded = TRUE]}
  BY <1>1, ReleaseStep DEF Inv
<1>3. /\ job' \in [Job -> JobRow]
      /\ \A j \in Job : job[j].state = "complete" => job'[j] = job[j]
  BY <1>1, CancelledJobsKeep DEF Inv
<1>4. TypeOK'
  BY <1>1, <1>2, <1>3 DEF Inv, TypeOK, ItemRow, ChargeRow, JobRow
<1>5. SharingFades
  <2>1. \A g \in Request : status'[g] = IF g = r THEN "denied" ELSE status[g]
    BY <1>1 DEF Inv, TypeOK
  <2>2. \A g \in Request, v \in User, f \in Format :
          status'[g] = "pending" /\ InUse(<<g, v, f>>) => InUse(<<g, v, f>>)'
    BY <1>2, <2>1 DEF Item, InUse
  <2>3. QED
    BY <1>1, <1>3, <2>1, <2>2 DEF SharingFades, Job, Inv, Sharing, SubsAreWanted
<1>6. QED
  BY <1>2, <1>4, <1>5, FadedSharing DEF Inv, ChargesFade

\* Time and administration touch neither the requests nor their items.
LEMMA AdministrationStep ==
    ASSUME Inv,
           \/ \E c \in Charge : LeaveWindow(c)
           \/ \E new \in Settings : Save(new)
           \/ \E u \in User, f \in Format : Reset(u, f)
    PROVE  Inv' /\ ChargesFade
<1>1. /\ UNCHANGED <<status, wanted, subs, job, item>>
      /\ rule' \in Settings
  BY DEF Inv, TypeOK, LeaveWindow, Save, Reset
<1>2. /\ charge' \in [Charge -> ChargeRow]
      /\ \A c \in Charge : charge'[c] \in {charge[c], [charge[c] EXCEPT !.age = @ + 1],
                                           [charge[c] EXCEPT !.reset = TRUE]}
  <2>1. \A c \in Charge : charge'[c] \in {charge[c], [charge[c] EXCEPT !.age = @ + 1],
                                          [charge[c] EXCEPT !.reset = TRUE]}
    BY DEF Inv, TypeOK, LeaveWindow, Save, Reset
  <2>2. \A c \in Charge : charge[c] \in ChargeRow
    BY DEF Inv, TypeOK, ChargeRow
  <2>3. \A c \in Charge : charge'[c] \in ChargeRow
    <3>1. \A c \in Charge : \/ charge'[c] \in {charge[c], [charge[c] EXCEPT !.reset = TRUE]}
                            \/ /\ charge[c].age < MaxWindow
                               /\ charge'[c] = [charge[c] EXCEPT !.age = @ + 1]
      BY DEF Inv, TypeOK, LeaveWindow, Save, Reset
    <3>2. ASSUME NEW age \in 0 .. MaxWindow, age < MaxWindow
          PROVE  age + 1 \in 0 .. MaxWindow
      BY <3>2, ConstantsAssumption
    <3>3. SUFFICES ASSUME NEW c \in Charge PROVE charge'[c] \in ChargeRow
      OBVIOUS
    <3>4. CASE charge'[c] \in {charge[c], [charge[c] EXCEPT !.reset = TRUE]}
      BY <2>2, <3>4 DEF ChargeRow
    <3>5. CASE /\ charge[c].age < MaxWindow
               /\ charge'[c] = [charge[c] EXCEPT !.age = @ + 1]
      <4>1. charge[c].age + 1 \in 0 .. MaxWindow
        BY <2>2, <3>2, <3>5 DEF ChargeRow
      <4>2. QED
        BY <2>2, <3>5, <4>1 DEF ChargeRow
    <3>6. QED
      BY <3>1, <3>4, <3>5
  <2>4. charge' = [c \in Charge |-> charge'[c]]
    BY DEF Inv, TypeOK, LeaveWindow, Save, Reset
  <2>5. QED
    BY <2>1, <2>3, <2>4
<1>3. TypeOK'
  BY <1>1, <1>2 DEF Inv, TypeOK, ChargeRow
<1>4. \A c \in Charge : /\ charge'[c].user = charge[c].user
                        /\ charge'[c].format = charge[c].format
                        /\ charge'[c].refunded <=> charge[c].refunded
  <2>1. \A c \in Charge : charge[c] \in ChargeRow
    BY DEF Inv, TypeOK, ChargeRow
  <2>2. QED
    BY <1>2, <2>1 DEF ChargeRow
<1>5. Accounts'
  BY <1>1, <1>4, AccountsUntouched DEF Inv
<1>6. SharingFades
  BY <1>1 DEF SharingFades, InUse, Inv, Sharing, SubsAreWanted
<1>7. QED
  BY <1>1, <1>2, <1>3, <1>5, <1>6, FadedSharing DEF Inv, ChargesFade

\* All of it: the invariant is kept, and a use is admitted by Submit alone.
LEMMA NextStep ==
    ASSUME Inv, Next
    PROVE  /\ Inv'
           /\ \A u \in User \ Admin, f \in Format :
                Used(u, f)' > Used(u, f) /\ rule'[<<u, f>>] = rule[<<u, f>>]
                    => Used(u, f)' <= rule[<<u, f>>].count
<1>1. ASSUME NEW u \in User, NEW formats \in SUBSET Format, NEW free \in SUBSET Format,
             NEW new \in Request, Submit(u, formats, free, new)
      PROVE  /\ Inv'
             /\ \A v \in User \ Admin, f \in Format :
                  Used(v, f)' > Used(v, f) /\ rule'[<<v, f>>] = rule[<<v, f>>]
                      => Used(v, f)' <= rule[<<v, f>>].count
  <2>1. /\ TypeOK'
        /\ \E row \in [formats -> Request], paid \in SUBSET formats :
             \E id \in [paid -> Charge] : Submitted(u, formats, new, row, paid, id)
    BY <1>1, SubmitStep DEF Inv
  <2>2. PICK row \in [formats -> Request], paid \in SUBSET formats :
          \E id \in [paid -> Charge] : Submitted(u, formats, new, row, paid, id)
    BY <2>1
  <2>3. PICK id \in [paid -> Charge] : Submitted(u, formats, new, row, paid, id)
    BY <2>2
  <2>4. Accounts'
    BY <2>1, <2>3, SubmitAccounts DEF Inv
  <2>5. Sharing'
    BY <2>1, <2>3, SubmitSharing DEF Inv
  <2>6. \A v \in User \ Admin, f \in Format :
          Used(v, f)' > Used(v, f) => Used(v, f)' <= rule[<<v, f>>].count
    BY <2>3, SubmitAdmits DEF Inv
  <2>7. QED
    BY <2>1, <2>4, <2>5, <2>6 DEF Inv
<1>2. ASSUME Inv' /\ ChargesFade
      PROVE  /\ Inv'
             /\ \A v \in User \ Admin, f \in Format :
                  Used(v, f)' > Used(v, f) /\ rule'[<<v, f>>] = rule[<<v, f>>]
                      => Used(v, f)' <= rule[<<v, f>>].count
  BY <1>2, FadedCharges DEF Inv
<1>3. CASE \E r \in Request, f \in Format :
             Claim(r, f) \/ Retry(r, f) \/ StartDelivery(r, f) \/ Complete(r, f)
  BY <1>2, <1>3, AttemptStep, StartDeliveryStep, CompleteStep
<1>4. CASE \E u \in User, r \in Request : Unsubscribe(u, r) \/ CancelAlone(u, r)
  <2>1. ASSUME NEW u \in User, NEW r \in Request, CancelAlone(u, r) PROVE Close(r, {u})
    BY <2>1 DEF CancelAlone
  <2>2. QED
    BY <1>2, <1>4, <2>1, UnsubscribeStep, CloseStep
<1>5. CASE \E r \in Request : Deny(r)
  BY <1>2, <1>5, CloseStep DEF Deny
<1>6. CASE \/ \E c \in Charge : LeaveWindow(c)
           \/ \E new \in Settings : Save(new)
           \/ \E u \in User, f \in Format : Reset(u, f)
  BY <1>2, <1>6, AdministrationStep
<1>7. QED
  BY <1>1, <1>3, <1>4, <1>5, <1>6 DEF Next

\* The invariant speaks of the variables alone.
LEMMA StutterStep ==
    ASSUME Inv, UNCHANGED vars
    PROVE  Inv'
<1> USE DEF vars
<1>1. TypeOK' /\ Accounts'
  BY DEF Inv, TypeOK, Accounts, NoFreeRide, RefundsAreFinal, Linked, InUse, Uses
<1>2. OneRowPerFormat' /\ SubsAreWanted' /\ SubscribersAreAccounted'
  BY DEF Inv, Sharing, OneRowPerFormat, SubsAreWanted, SubscribersAreAccounted, Covering, InUse
<1>3. QED
  BY <1>1, <1>2 DEF Inv, Sharing

-----------------------------------------------------------------------------
\* The inductive invariant holds in every reachable state.
THEOREM InvHolds == Spec => []Inv
  BY InitInv, NextStep, StutterStep, PTL DEF Spec

\* Every variable of the allowance accounting keeps its type.
THEOREM TypeCorrect == Spec => []TypeOK
  BY InvHolds, PTL DEF Inv

\* Accepted work is always paid for by its own user's unrefunded charge.
THEOREM WorkIsPaid == Spec => []NoFreeRide
<1>1. Inv => NoFreeRide
  BY DEF Inv, Accounts
<1>2. QED
  BY <1>1, InvHolds, PTL

\* A refunded charge never has work in use, nor work that may have begun.
THEOREM RefundsStay == Spec => []RefundsAreFinal
<1>1. Inv => RefundsAreFinal
  BY DEF Inv, Accounts
<1>2. QED
  BY <1>1, InvHolds, PTL

\* A format is waited for on one pending row at most.
THEOREM RowsAreShared == Spec => []OneRowPerFormat
<1>1. Inv => OneRowPerFormat
  BY DEF Inv, Sharing
<1>2. QED
  BY <1>1, InvHolds, PTL

\* Who waits for a pending format has accepted work of their own for it.
THEOREM SubscribersAreKnown == Spec => []SubscribersAreAccounted
<1>1. Inv => SubscribersAreAccounted
  BY DEF Inv, Sharing
<1>2. QED
  BY <1>1, InvHolds, PTL

\* No step takes a user beyond the allowance in force, unless it changes that
\* allowance (Price, Accept and Save).
THEOREM AllowancesHold == Spec => NeverOverAdmitted
<1>1. ASSUME Inv, [Next]_vars
      PROVE  [\A u \in User \ Admin, f \in Format :
                 Used(u, f)' > Used(u, f) /\ rule'[<<u, f>>] = rule[<<u, f>>]
                    => Used(u, f)' <= rule[<<u, f>>].count]_vars
  BY <1>1, NextStep
<1>2. QED
  BY <1>1, InvHolds, PTL DEF Spec, NeverOverAdmitted
=============================================================================
