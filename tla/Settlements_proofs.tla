--------------------------- MODULE Settlements_proofs ---------------------------
(***************************************************************************)
(* Proofs about Settlements, for any number of dealers, sales, days and    *)
(* crashes.                                                                *)
(***************************************************************************)
EXTENDS Settlements, FiniteSetTheorems, SequenceTheorems, TLAPS

(***************************************************************************)
(* Why a sale is settled once and none is passed over.  What a settlement  *)
(* covers it settles; what the settler is about to insert covers what it   *)
(* will settle and nothing that is settled, but for the sales it has been  *)
(* overtaken by; and while the server has always had a grace day there are *)
(* none of these, for every period is over before the day of any sale that *)
(* is still to come.                                                       *)
(***************************************************************************)
HasGrace == ~ungraced

PeriodsAreOver ==
    /\ grace > 0
    /\ settler.pc # "sleep" => settler.cutoff < DateOf(day)
    /\ \A x \in settler.at : x[2] < DateOf(day)
    /\ \A i \in DOMAIN settlement : settlement[i].end < DateOf(day)
    /\ overtaken = {}

CoversAreIds == \A i \in DOMAIN settlement : settlement[i].covers \subseteq 1..nSale

CoveredOnce ==
    \A i, j \in DOMAIN settlement : \A s \in SaleId \ redated :
        s \in settlement[i].covers /\ s \in settlement[j].covers => i = j

CoveredAreSettled ==
    \A i \in DOMAIN settlement :
        \A s \in (settlement[i].covers \cap DOMAIN sale) \ redated :
            sale[s].owner = settlement[i].owner /\ sale[s].date <= settlement[i].end

\* The settlement of a dealer up to a date, for the sales the totals were summed over.
Ready(o, e) ==
    /\ \A s \in settler.sales \ redated : Covered(s) = {}
    /\ \A s \in (settler.sales \cap DOMAIN sale) \ redated : sale[s].owner = o /\ sale[s].date <= e
    /\ \A s \in DOMAIN sale \ (redated \cup overtaken) :
         sale[s].owner = o /\ sale[s].date <= e => s \in settler.sales \/ IsSettled(s)

SettlementIsReady ==
    settler.pc = "insert" =>
        /\ settler.sales \subseteq 1..nSale
        /\ \A x \in settler.at : Ready(x[1], x[2])

SettledAreCovered ==
    \A s \in DOMAIN sale \ (redated \cup overtaken) : IsSettled(s) => Covered(s) # {}

PeriodsOK == (HasGrace => PeriodsAreOver) /\ CoversAreIds

CoversOK == CoveredOnce /\ CoveredAreSettled /\ SettledAreCovered /\ SettlementIsReady

SettleInv == TypeOK /\ PeriodsOK /\ CoversOK

-----------------------------------------------------------------------------
(***************************************************************************)
(* A set of numbers up to n that is not empty has a greatest one: of the   *)
(* sets of what is greater than a member, the one that contains no other   *)
(* is that of the greatest.                                                *)
(***************************************************************************)
LEMMA MaxIs ==
  ASSUME NEW n \in Nat, NEW S, S \subseteq 0..n, S # {}
  PROVE  Max(S) \in S /\ \A y \in S : Max(S) >= y
<1> DEFINE Above(x) == {y \in S : y > x}
           F == {Above(x) : x \in S}
           R == StrictSubsetOrdering(S)
<1>1. \A T \in SUBSET S : IsFiniteSet(T)
  <2>1. IsFiniteSet(0..n)
    BY FS_Interval
  <2> QED
    BY <2>1, FS_Subset
<1>2. F \subseteq FiniteSubsetsOf(S) /\ F # {}
  BY <1>1 DEF FiniteSubsetsOf
<1>3. IsWellFoundedOn(R, FiniteSubsetsOf(S))
  BY FS_StrictSubsetOrderingWellFounded
<1>4. PICK A \in F : \A B \in F : <<B, A>> \notin R
  <2> HIDE DEF F, R
  <2> QED
    BY <1>2, <1>3, WFMin
<1>5. PICK x \in S : A = Above(x)
  BY <1>4
<1>6. \A y \in S : x >= y
  <2>0. \A z \in S : z \in Int
    OBVIOUS
  <2> SUFFICES ASSUME NEW y \in S, y > x PROVE FALSE
    BY <2>0
  <2>1. Above(y) \subseteq Above(x) /\ y \in Above(x) /\ y \notin Above(y)
    <3> HIDE DEF F, R
    <3>1. \A z \in S : z > y => z > x
      BY <2>0
    <3>2. ~(y > y)
      BY <2>0
    <3> QED
      BY <3>1, <3>2
  <2>2. <<Above(y), Above(x)>> \in R
    BY <2>1 DEF StrictSubsetOrdering
  <2> QED
    BY <1>4, <1>5, <2>2
<1> QED
  BY <1>6 DEF Max

LEMMA SettlingIs ==
  ASSUME NEW label \in {"sleep", "dealers", "totals", "insert"}, NEW cut \in Int,
         NEW todo \in SUBSET Owner, NEW at \in SUBSET (Owner \X Stamp), NEW ss \in SUBSET SaleId
  PROVE  /\ Settling(label, cut, todo, at, ss) \in SettlerType
         /\ Settling(label, cut, todo, at, ss).pc = label
         /\ Settling(label, cut, todo, at, ss).cutoff = cut
         /\ Settling(label, cut, todo, at, ss).at = at
         /\ Settling(label, cut, todo, at, ss).sales = ss
  BY DEF Settling, SettlerType

LEMMA AsleepIs == Asleep \in SettlerType /\ Asleep.pc = "sleep" /\ Asleep.at = {}
  BY SettlingIs DEF Asleep

LEMMA SettlerHas ==
  ASSUME TypeOK
  PROVE  /\ settler.pc \in {"sleep", "dealers", "totals", "insert"} /\ settler.cutoff \in Int
         /\ settler.todo \in SUBSET Owner /\ settler.at \in SUBSET (Owner \X Stamp)
         /\ settler.sales \in SUBSET SaleId
  BY DEF TypeOK, SettlerType

LEMMA SettlementHas ==
  ASSUME TypeOK, NEW i \in DOMAIN settlement
  PROVE  /\ settlement[i] \in SettlementType
         /\ settlement[i].owner \in Owner /\ settlement[i].end \in Stamp
         /\ settlement[i].covers \in SUBSET SaleId
<1>1. settlement \in Seq(SettlementType)
  BY DEF TypeOK
<1>2. settlement[i] \in SettlementType
  BY <1>1
<1> QED
  BY <1>2 DEF SettlementType

LEMMA SaleIds == ASSUME TypeOK PROVE 1..nSale \subseteq SaleId /\ DOMAIN sale \subseteq SaleId
  BY SettlementsAssumption DEF TypeOK, SaleId

LEMMA Dates ==
  ASSUME NEW d \in 0..MaxDay
  PROVE  DateOf(d) \in Stamp /\ TimeOf(d) \in Stamp /\ DateOf(d) < TimeOf(d)
  BY SettlementsAssumption DEF DateOf, TimeOf, Stamp

\* A settlement that is added covers what it was summed over.
LEMMA AppendIs ==
  ASSUME TypeOK, NEW r, settlement' = Append(settlement, r)
  PROVE  LET n == Len(settlement)
         IN  /\ n \in Nat /\ DOMAIN settlement = 1..n /\ DOMAIN settlement' = 1..(n + 1)
             /\ settlement'[n + 1] = r
             /\ \A i \in 1..n : settlement'[i] = settlement[i]
<1>1. settlement \in Seq(SettlementType)
  BY DEF TypeOK
<1> QED
  BY <1>1

-----------------------------------------------------------------------------
(***************************************************************************)
(* The handlers.  No period has passed a sale that is new, or it counts as *)
(* overtaken; one whose date no client has changed keeps it.               *)
(***************************************************************************)
SalesGo ==
    /\ nSale <= nSale' /\ redated \subseteq redated' /\ overtaken \subseteq overtaken'
    /\ \A s \in DOMAIN sale' \ redated' :
         IF s \in DOMAIN sale
         THEN sale'[s] = sale[s]
         ELSE s > nSale /\ (s \notin overtaken' => ~Overtakes(sale'[s].owner, sale'[s].date))

\* A sale that is entered after the periods of every dealer are over is not overtaken.
LEMMA NoneOvertaken ==
  ASSUME TypeOK, HasGrace => PeriodsAreOver, PostSale \/ PutSaleDate \/ DeleteSale
  PROVE  HasGrace => overtaken' = {}
<1> SUFFICES ASSUME HasGrace PROVE overtaken' = {}
  OBVIOUS
<1>1. PeriodsAreOver /\ overtaken = {}
  BY DEF PeriodsAreOver
<1>2. ASSUME NEW o, NEW d \in {TimeOf(day), DateOf(day)} PROVE ~Overtakes(o, d)
  <2>1. d \in Int /\ DateOf(day) \in Int /\ d >= DateOf(day)
    BY <1>2 DEF DateOf, TimeOf, TypeOK
  <2>2. \A i \in DOMAIN settlement : settlement[i].end \in Int
    BY SettlementHas DEF Stamp
  <2>3. \A x \in settler.at : x[2] \in Int
    BY SettlerHas DEF Stamp
  <2> QED
    BY <1>1, <2>1, <2>2, <2>3 DEF PeriodsAreOver, Overtakes
<1>3. CASE PostSale
  <2>1. PICK o \in Owner \cup {NoOwner}, d \in {TimeOf(day), DateOf(day)} :
          overtaken' = IF Overtakes(o, d) THEN overtaken \cup {nSale + 1} ELSE overtaken
    BY <1>3 DEF PostSale
  <2> QED
    BY <1>1, <1>2, <2>1
<1>4. CASE PutSaleDate \/ DeleteSale
  BY <1>1, <1>4 DEF PutSaleDate, DeleteSale
<1> QED
  BY <1>3, <1>4

LEMMA SaleStepGoes ==
  ASSUME TypeOK, PostSale \/ PutSaleDate \/ DeleteSale
  PROVE  TypeOK' /\ SalesGo /\ UNCHANGED <<day, settlement, grace, settler, ungraced>>
<1>1. CASE PostSale
  <2>1. PICK o \in Owner \cup {NoOwner}, d \in {TimeOf(day), DateOf(day)} :
          /\ sale' = [s \in DOMAIN sale \cup {nSale + 1} |->
                        IF s = nSale + 1 THEN SaleRow(o, d) ELSE sale[s]]
          /\ overtaken' = IF Overtakes(o, d) THEN overtaken \cup {nSale + 1} ELSE overtaken
    BY <1>1 DEF PostSale
  <2>2. /\ nSale < MaxSale /\ nSale' = nSale + 1 /\ nSale \in Nat
        /\ UNCHANGED <<day, settlement, grace, settler, crashes, redated, ungraced>>
    BY <1>1, SettlementsAssumption DEF PostSale, TypeOK
  <2>3. d \in Stamp
    <3>1. day \in 0..MaxDay
      BY SettlementsAssumption DEF TypeOK
    <3> QED
      BY <3>1, Dates DEF DateOf, TimeOf
  <2>4. /\ SaleRow(o, d) \in [owner : Owner \cup {NoOwner}, date : Stamp]
        /\ SaleRow(o, d).owner = o /\ SaleRow(o, d).date = d
    BY <2>3 DEF SaleRow
  <2>5. /\ DOMAIN sale' = DOMAIN sale \cup {nSale + 1} /\ nSale + 1 \notin DOMAIN sale
        /\ sale'[nSale + 1] = SaleRow(o, d)
        /\ \A s \in DOMAIN sale : sale'[s] = sale[s]
    BY <2>1, <2>2 DEF TypeOK
  <2>6. TypeOK'
    <3>1. nSale' \in 0..MaxSale /\ 1..nSale \subseteq 1..nSale' /\ nSale + 1 \in 1..nSale'
      BY <2>2, SettlementsAssumption DEF TypeOK
    <3>2. /\ DOMAIN sale' \subseteq 1..nSale' /\ redated' \subseteq 1..nSale'
          /\ \A s \in DOMAIN sale' : sale'[s] \in [owner : Owner \cup {NoOwner}, date : Stamp]
      BY <2>2, <2>4, <2>5, <3>1 DEF TypeOK
    <3>3. overtaken' \subseteq 1..nSale'
      BY <2>1, <3>1 DEF TypeOK
    <3> QED
      BY <2>2, <3>1, <3>2, <3>3 DEF TypeOK
  <2>7. nSale + 1 \notin overtaken' => ~Overtakes(o, d)
    BY <2>1
  <2>8. SalesGo
    <3>1. overtaken \subseteq overtaken' /\ nSale <= nSale' /\ nSale + 1 > nSale
      BY <2>1, <2>2
    <3>2. \A s \in DOMAIN sale' : s \notin DOMAIN sale => s = nSale + 1
      BY <2>5
    <3> QED
      BY <2>2, <2>4, <2>5, <2>7, <3>1, <3>2 DEF SalesGo
  <2> QED
    BY <2>2, <2>6, <2>8
<1>2. CASE PutSaleDate
  <2>1. PICK s \in DOMAIN sale \ redated, d \in 1..MaxDay :
             /\ sale' = [sale EXCEPT ![s] = SaleRow(@.owner, DateOf(d))]
             /\ redated' = redated \cup {s}
    BY <1>2 DEF PutSaleDate
  <2>2. UNCHANGED <<day, nSale, settlement, grace, settler, crashes, overtaken, ungraced>>
    BY <1>2 DEF PutSaleDate
  <2>3. SaleRow(sale[s].owner, DateOf(d)) \in [owner : Owner \cup {NoOwner}, date : Stamp]
    BY Dates DEF SaleRow, TypeOK
  <2>4. TypeOK'
    BY <2>1, <2>2, <2>3 DEF TypeOK
  <2>5. SalesGo
    BY <2>1, <2>2, SettlementsAssumption DEF SalesGo, TypeOK
  <2> QED
    BY <2>2, <2>4, <2>5
<1>3. CASE DeleteSale
  BY <1>3, SettlementsAssumption DEF DeleteSale, TypeOK, SalesGo
<1> QED
  BY <1>1, <1>2, <1>3

LEMMA SaleStep == ASSUME SettleInv, PostSale \/ PutSaleDate \/ DeleteSale PROVE SettleInv'
<1>1. TypeOK' /\ SalesGo /\ UNCHANGED <<day, settlement, grace, settler, ungraced>>
  BY SaleStepGoes DEF SettleInv
<1>2. TypeOK /\ (HasGrace => PeriodsAreOver) /\ CoversAreIds /\ CoveredOnce /\ CoveredAreSettled
      /\ SettledAreCovered /\ SettlementIsReady
  BY DEF SettleInv, PeriodsOK, CoversOK
<1>3. (HasGrace => PeriodsAreOver)'
  BY <1>1, <1>2, NoneOvertaken DEF HasGrace, PeriodsAreOver
<1>4. 1..nSale \subseteq 1..nSale'
  BY <1>1, <1>2, SettlementsAssumption DEF TypeOK, SalesGo
<1>5. CoversAreIds'
  BY <1>1, <1>2, <1>4 DEF CoversAreIds
<1>6. CoveredOnce'
  BY <1>1, <1>2 DEF CoveredOnce, SalesGo
<1>7. \A s \in DOMAIN sale' \ redated' :
        \/ s \in DOMAIN sale \ redated /\ sale'[s] = sale[s]
        \/ s \notin 1..nSale /\ (s \notin overtaken' => ~Overtakes(sale'[s].owner, sale'[s].date))
  BY <1>1, <1>2, SettlementsAssumption DEF SalesGo, TypeOK
<1>8. CoveredAreSettled'
  BY <1>1, <1>2, <1>7 DEF CoveredAreSettled, CoversAreIds
<1>9. SettledAreCovered'
  <2> SUFFICES ASSUME NEW s \in DOMAIN sale' \ (redated' \cup overtaken'), IsSettled(s)'
               PROVE  Covered(s)' # {}
    BY DEF SettledAreCovered
  <2>1. CASE s \in DOMAIN sale \ redated /\ sale'[s] = sale[s]
    <3>1. s \notin overtaken
      BY <1>1 DEF SalesGo
    <3> QED
      BY <1>1, <1>2, <2>1, <3>1 DEF SettledAreCovered, IsSettled, Covered
  <2>2. CASE ~Overtakes(sale'[s].owner, sale'[s].date)
    BY <1>1, <2>2 DEF IsSettled, Overtakes
  <2> QED
    BY <1>7, <2>1, <2>2
<1>10. SettlementIsReady'
  <2> SUFFICES ASSUME settler.pc = "insert", NEW x \in settler.at
               PROVE  settler.sales \subseteq 1..nSale' /\ Ready(x[1], x[2])'
    BY <1>1, <1>2, <1>4 DEF SettlementIsReady
  <2>0. settler.sales \subseteq 1..nSale /\ Ready(x[1], x[2])
    BY <1>2 DEF SettlementIsReady
  <2>1. x[2] \in Int
    BY <1>2, SettlerHas DEF Stamp
  <2>2. \A s \in settler.sales \ redated' : Covered(s)' = {}
    BY <1>1, <2>0 DEF Ready, Covered, SalesGo
  <2>3. \A s \in (settler.sales \cap DOMAIN sale') \ redated' :
           sale'[s].owner = x[1] /\ sale'[s].date <= x[2]
    BY <1>7, <2>0 DEF Ready
  <2>4. ASSUME NEW s \in DOMAIN sale' \ (redated' \cup overtaken'),
               sale'[s].owner = x[1], sale'[s].date <= x[2]
        PROVE  s \in settler.sales \/ IsSettled(s)'
    <3>1. sale'[s].date \in Int
      BY <1>1 DEF TypeOK, Stamp
    <3>2. Overtakes(sale'[s].owner, sale'[s].date)
      BY <2>1, <2>4, <3>1 DEF Overtakes
    <3>3. s \in DOMAIN sale \ redated /\ sale'[s] = sale[s] /\ s \notin overtaken
      BY <1>1, <1>7, <2>4, <3>2 DEF SalesGo
    <3> QED
      BY <1>1, <2>0, <2>4, <3>3 DEF Ready, IsSettled
  <2> QED
    BY <1>1, <1>4, <2>0, <2>2, <2>3, <2>4 DEF Ready
<1> QED
  BY <1>1, <1>3, <1>5, <1>6, <1>8, <1>9, <1>10 DEF SettleInv, PeriodsOK, CoversOK

\* A settlement that is paid is for the same sales, up to the same date.
LEMMA PutSettlementPaidStep == ASSUME SettleInv, PutSettlementPaid PROVE SettleInv'
<1>1. PICK k \in DOMAIN settlement : settlement' = [settlement EXCEPT ![k].status = "paid"]
  BY DEF PutSettlementPaid
<1>2. TypeOK /\ (HasGrace => PeriodsAreOver) /\ CoversAreIds /\ CoveredOnce
      /\ CoveredAreSettled /\ SettledAreCovered /\ SettlementIsReady
  BY DEF SettleInv, PeriodsOK, CoversOK
<1>3. UNCHANGED <<day, sale, nSale, grace, settler, crashes, redated, overtaken, ungraced>>
  BY DEF PutSettlementPaid
<1>4. [settlement[k] EXCEPT !.status = "paid"] \in SettlementType
  BY <1>2, SettlementHas DEF SettlementType
<1>5. settlement \in Seq(SettlementType)
  BY <1>2 DEF TypeOK
<1>6. /\ settlement' \in Seq(SettlementType)
      /\ DOMAIN settlement' = DOMAIN settlement
  BY <1>1, <1>4, <1>5
<1>7. \A i \in DOMAIN settlement : /\ settlement'[i].owner = settlement[i].owner
                                   /\ settlement'[i].end = settlement[i].end
                                   /\ settlement'[i].covers = settlement[i].covers
  BY <1>1, <1>2, <1>5, SettlementHas DEF SettlementType
<1>8. TypeOK'
  BY <1>2, <1>3, <1>6 DEF TypeOK
<1>9. \A s : (Covered(s)' = Covered(s)) /\ (IsSettled(s)' <=> IsSettled(s))
  BY <1>3, <1>6, <1>7 DEF Covered, IsSettled
<1>10. (HasGrace => PeriodsAreOver)' /\ CoversAreIds'
  BY <1>2, <1>3, <1>6, <1>7 DEF HasGrace, PeriodsAreOver, CoversAreIds
<1>11. CoveredOnce' /\ CoveredAreSettled'
  BY <1>2, <1>3, <1>6, <1>7 DEF CoveredOnce, CoveredAreSettled
<1>12. SettledAreCovered' /\ SettlementIsReady'
  BY <1>2, <1>3, <1>9 DEF SettledAreCovered, SettlementIsReady, Ready
<1> QED
  BY <1>8, <1>10, <1>11, <1>12 DEF SettleInv, PeriodsOK, CoversOK

(***************************************************************************)
(* The settler, and time.                                                  *)
(***************************************************************************)

LEMMA GraceDays == \A g \in Grace : (~(g <= 0)) => g > 0
  BY SettlementsAssumption

LEMMA GraceStays ==
  ASSUME SettleInv, UNCHANGED <<grace, ungraced>>
  PROVE  HasGrace' => HasGrace /\ grace' > 0
  BY DEF SettleInv, PeriodsOK, PeriodsAreOver, HasGrace

\* A step that writes no row.
LEMMA NoRowStep ==
  ASSUME SettleInv, TypeOK', UNCHANGED <<sale, nSale, settlement, redated, overtaken>>,
         day <= day', HasGrace' => HasGrace /\ grace' > 0,
         HasGrace /\ settler'.pc # "sleep" => settler'.cutoff < DateOf(day'),
         HasGrace => \A x \in settler'.at : x[2] < DateOf(day'),
         SettlementIsReady'
  PROVE  SettleInv'
<1>1. TypeOK /\ (HasGrace => PeriodsAreOver) /\ CoversAreIds /\ CoveredOnce
      /\ CoveredAreSettled /\ SettledAreCovered
  BY DEF SettleInv, PeriodsOK, CoversOK
<1>2. ASSUME HasGrace PROVE \A i \in DOMAIN settlement : settlement[i].end < DateOf(day')
  <2> SUFFICES ASSUME NEW i \in DOMAIN settlement PROVE settlement[i].end < DateOf(day')
    OBVIOUS
  <2>1. settlement[i].end < DateOf(day) /\ settlement[i].end \in Int
    BY <1>1, <1>2, SettlementHas DEF PeriodsAreOver, Stamp
  <2> QED
    BY <1>1, <2>1 DEF DateOf, TypeOK
<1>3. (HasGrace => PeriodsAreOver)'
  BY <1>1, <1>2 DEF PeriodsAreOver
<1>4. CoversAreIds'
  BY <1>1 DEF CoversAreIds
<1>5. CoveredOnce' /\ CoveredAreSettled' /\ SettledAreCovered'
  BY <1>1 DEF CoveredOnce, CoveredAreSettled, SettledAreCovered, IsSettled, Covered
<1> QED
  BY <1>3, <1>4, <1>5 DEF SettleInv, PeriodsOK, CoversOK

LEMMA NextDayStep == ASSUME SettleInv, NextDay PROVE SettleInv'
<1>1. TypeOK /\ (HasGrace => PeriodsAreOver) /\ SettlementIsReady
  BY DEF SettleInv, PeriodsOK, CoversOK
<1>2. /\ UNCHANGED <<sale, nSale, settlement, grace, settler, crashes, redated, overtaken, ungraced>>
      /\ day' = day + 1 /\ day' \in 1..MaxDay /\ day \in Int
  BY <1>1, SettlementsAssumption DEF NextDay, TypeOK
<1>3. TypeOK'
  BY <1>1, <1>2 DEF TypeOK
<1>4. HasGrace /\ settler'.pc # "sleep" => settler'.cutoff < DateOf(day')
  BY <1>1, <1>2, SettlerHas DEF PeriodsAreOver, DateOf
<1>5. ASSUME NEW o, NEW e, Ready(o, e) PROVE Ready(o, e)'
  BY <1>2, <1>5 DEF Ready, Covered, IsSettled
<1>6. \A x \in settler.at : x[2] \in Int
  BY <1>1, SettlerHas DEF Stamp
<1>7. SettlementIsReady'
  BY <1>1, <1>2, <1>5 DEF SettlementIsReady
<1>8. HasGrace => \A x \in settler'.at : x[2] < DateOf(day')
  BY <1>1, <1>2, <1>6 DEF PeriodsAreOver, DateOf
<1> QED
  BY <1>2, <1>3, <1>4, <1>7, <1>8, GraceStays, NoRowStep

\* A step of the settler that writes no row, and after which it is at no settlement.
LEMMA SettlerReads ==
  ASSUME SettleInv, UNCHANGED <<day, sale, nSale, settlement, redated, overtaken>>,
         crashes' \in 0..MaxCrash, grace' \in Grace, settler' \in SettlerType,
         ungraced' \in BOOLEAN, HasGrace' => HasGrace /\ grace' > 0,
         HasGrace /\ settler'.pc # "sleep" => settler'.cutoff < DateOf(day),
         settler'.pc # "insert", settler'.at = {}
  PROVE  SettleInv'
<1>1. TypeOK'
  BY DEF SettleInv, TypeOK
<1>2. SettlementIsReady'
  BY DEF SettlementIsReady
<1>3. day <= day'
  BY SettlementsAssumption DEF SettleInv, TypeOK
<1> QED
  BY <1>1, <1>2, <1>3, NoRowStep

LEMMA WakeStep == ASSUME SettleInv, Wake PROVE SettleInv'
<1>1. /\ UNCHANGED <<day, sale, nSale, settlement, grace, crashes, redated, overtaken, ungraced>>
      /\ settler' = Settling("dealers", DateOf(day - grace), {}, {}, {})
  BY DEF Wake
<1>2. DateOf(day - grace) \in Int /\ (HasGrace => DateOf(day - grace) < DateOf(day))
  BY SettlementsAssumption DEF SettleInv, TypeOK, DateOf, PeriodsOK, PeriodsAreOver
<1>3. /\ settler' \in SettlerType /\ settler'.pc = "dealers"
      /\ settler'.cutoff = DateOf(day - grace) /\ settler'.at = {}
  BY <1>1, <1>2, SettlingIs
<1> QED
  BY <1>1, <1>2, <1>3, GraceStays, SettlerReads DEF SettleInv, TypeOK

LEMMA FindDealersStep == ASSUME SettleInv, FindDealers PROVE SettleInv'
<1> DEFINE todo == {o \in Owner : Due(o, settler.cutoff) # {}}
<1>1. /\ UNCHANGED <<day, sale, nSale, settlement, grace, crashes, redated, overtaken, ungraced>>
      /\ settler.pc = "dealers" /\ settler' = Settling("totals", settler.cutoff, todo, {}, {})
  BY DEF FindDealers
<1>2. todo \in SUBSET Owner
  OBVIOUS
<1> HIDE DEF todo
<1>3. /\ settler' \in SettlerType /\ settler'.pc = "totals"
      /\ settler'.cutoff = settler.cutoff /\ settler'.at = {}
  BY <1>1, <1>2, SettlingIs, SettlerHas DEF SettleInv
<1>4. HasGrace => settler.cutoff < DateOf(day)
  BY <1>1 DEF SettleInv, PeriodsOK, PeriodsAreOver
<1> QED
  BY <1>1, <1>3, <1>4, GraceStays, SettlerReads DEF SettleInv, TypeOK

\* The settler falls asleep, or the process ends.
LEMMA EndStep == ASSUME SettleInv, AllSettled \/ Crash PROVE SettleInv'
<1>1. crashes' \in 0..MaxCrash /\ grace' \in Grace
  BY SettlementsAssumption DEF AllSettled, Crash, SettleInv, TypeOK
<1>2. HasGrace' => HasGrace /\ grace' > 0
  <2>1. CASE AllSettled
    BY <2>1, GraceStays DEF AllSettled
  <2>2. CASE Crash
    BY <1>1, <2>2, GraceDays, Zenon DEF Crash, HasGrace
  <2> QED
    BY <2>1, <2>2
<1>3. ungraced' \in BOOLEAN
  <2>1. CASE AllSettled
    BY <2>1 DEF AllSettled, SettleInv, TypeOK
  <2>2. CASE Crash
    BY <2>2, Zenon DEF Crash
  <2> QED
    BY <2>1, <2>2
<1> QED
  BY <1>1, <1>2, <1>3, AsleepIs, SettlerReads DEF AllSettled, Crash

\* The totals are of every sale of the dealer up to the date that is not settled: his
\* other sales up to that date are, and none of these is.
LEMMA SumTotalsStep == ASSUME SettleInv, SumTotals PROVE SettleInv'
<1>1. TypeOK /\ (HasGrace => PeriodsAreOver) /\ CoversAreIds /\ CoveredOnce
      /\ CoveredAreSettled
  BY DEF SettleInv, PeriodsOK, CoversOK
<1>2. UNCHANGED <<day, sale, nSale, settlement, grace, crashes, redated, overtaken, ungraced>>
      /\ settler.pc = "totals"
  BY DEF SumTotals
<1>3. PICK o \in settler.todo :
        settler' = IF Due(o, settler.cutoff) = {}
                   THEN Settling("totals", settler.cutoff, settler.todo \ {o}, {}, {})
                   ELSE Settling("insert", settler.cutoff, settler.todo \ {o},
                                 {<<o, Max({sale[s].date : s \in Due(o, settler.cutoff)})>>},
                                 Due(o, settler.cutoff))
  BY DEF SumTotals
<1> DEFINE due == Due(o, settler.cutoff)
           rest == settler.todo \ {o}
           dates == {sale[s].date : s \in due}
<1>4. /\ HasGrace => settler.cutoff < DateOf(day)
      /\ settler.cutoff \in Int /\ DateOf(day) \in Int
  BY <1>1, <1>2, SettlerHas DEF PeriodsAreOver, DateOf, TypeOK
<1>5. rest \in SUBSET Owner /\ o \in Owner
  BY <1>1, SettlerHas
<1>6. due \subseteq DOMAIN sale /\ due \in SUBSET SaleId /\ due \subseteq 1..nSale
  BY <1>1, SaleIds DEF Due, TypeOK
<1>7. CASE due = {}
  <2>1. settler' = Settling("totals", settler.cutoff, rest, {}, {})
    BY <1>3, <1>7
  <2> HIDE DEF rest
  <2>2. /\ settler' \in SettlerType /\ settler'.pc = "totals"
        /\ settler'.cutoff = settler.cutoff /\ settler'.at = {}
    BY <1>1, <1>5, <2>1, SettlingIs, SettlerHas
  <2>3. crashes' \in 0..MaxCrash /\ grace' \in Grace /\ ungraced' \in BOOLEAN
    BY <1>1, <1>2 DEF TypeOK
  <2> QED
    BY <1>2, <1>4, <2>2, <2>3, GraceStays, SettlerReads
<1>8. CASE due # {}
  <2>0. PICK e : e = Max(dates)
    OBVIOUS
  <2>1. settler' = Settling("insert", settler.cutoff, rest, {<<o, e>>}, due)
    BY <1>3, <1>8, <2>0
  <2>2. dates \subseteq Stamp /\ dates # {} /\ \A s \in due : sale[s].date \in dates
    BY <1>1, <1>6, <1>8 DEF TypeOK
  <2> HIDE DEF dates
  <2>3. e \in dates /\ \A y \in dates : e >= y
    <3>1. TimeOf(MaxDay) \in Nat /\ dates \subseteq 0..TimeOf(MaxDay)
      BY <2>2, SettlementsAssumption DEF Stamp, TimeOf
    <3> QED
      BY <2>0, <2>2, <3>1, MaxIs
  <2>4. e <= settler.cutoff
    BY <2>3 DEF dates, Due
  <2> HIDE DEF rest
  <2>5. e \in Stamp /\ (HasGrace => e < DateOf(day))
    BY <1>4, <2>2, <2>3, <2>4 DEF Stamp
  <2>6. /\ settler' \in SettlerType /\ settler'.pc = "insert" /\ settler'.cutoff = settler.cutoff
        /\ settler'.at = {<<o, e>>} /\ settler'.sales = due
    BY <1>1, <1>5, <1>6, <2>1, <2>5, SettlingIs, SettlerHas
  <2>7. \A s \in due \ redated : Covered(s) = {}
    BY <1>1, <1>6 DEF Due, Covered, CoveredAreSettled, IsSettled, TypeOK, Stamp
  <2>8. \A s \in due : sale[s].owner = o /\ sale[s].date <= e
    BY <2>2, <2>3 DEF Due, Stamp
  <2>9. ASSUME NEW s \in DOMAIN sale, sale[s].owner = o, sale[s].date <= e
        PROVE  s \in due \/ IsSettled(s)
    <3>1. sale[s].date \in Int /\ e \in Int
      BY <1>1, <2>5 DEF TypeOK, Stamp
    <3> QED
      BY <1>4, <2>4, <2>9, <3>1 DEF Due
  <2>10. SettlementIsReady'
    <3> SUFFICES Ready(o, e)'
      BY <1>2, <1>6, <2>6 DEF SettlementIsReady
    <3> QED
      BY <1>2, <2>5, <2>6, <2>7, <2>8, <2>9 DEF Ready, Covered, IsSettled
  <2>11. TypeOK' /\ day <= day'
    BY <1>1, <1>2, <2>6, SettlementsAssumption DEF TypeOK
  <2>12. HasGrace => \A x \in settler'.at : x[2] < DateOf(day')
    BY <1>2, <2>5, <2>6
  <2> QED
    BY <1>2, <1>4, <2>6, <2>10, <2>11, <2>12, GraceStays, NoRowStep
<1> QED
  BY <1>7, <1>8

\* What the settlement settles that was not settled, it covers; and what it covers was
\* not covered.
LEMMA InsertSettlementStep == ASSUME SettleInv, InsertSettlement PROVE SettleInv'
<1>1. /\ TypeOK /\ (HasGrace => PeriodsAreOver) /\ CoversAreIds /\ CoveredOnce
      /\ CoveredAreSettled /\ SettledAreCovered /\ SettlementIsReady
  BY DEF SettleInv, PeriodsOK, CoversOK
<1>2. /\ UNCHANGED <<day, sale, nSale, grace, crashes, redated, overtaken, ungraced>>
      /\ settler.pc = "insert"
      /\ settler' = Settling("totals", settler.cutoff, settler.todo, {}, {})
  BY DEF InsertSettlement
<1>3. PICK x \in settler.at : settlement' = Append(settlement, SettlementRow(x[1], x[2], settler.sales))
  BY DEF InsertSettlement
<1>4. PICK o \in Owner, e \in Stamp : x = <<o, e>>
  BY <1>1, SettlerHas
<1> DEFINE n == Len(settlement)
           r == SettlementRow(o, e, settler.sales)
<1>5. Ready(o, e) /\ settler.sales \subseteq 1..nSale /\ settler.sales \in SUBSET SaleId
  BY <1>1, <1>2, <1>4, SettlerHas DEF SettlementIsReady
<1>6. /\ r \in SettlementType
      /\ r.owner = o /\ r.end = e /\ r.covers = settler.sales
  BY <1>5 DEF SettlementRow, SettlementType
<1>7. settlement' = Append(settlement, r) /\ settlement' \in Seq(SettlementType)
  BY <1>1, <1>3, <1>4, <1>6 DEF TypeOK
<1> HIDE DEF r
<1>8. /\ n \in Nat /\ DOMAIN settlement = 1..n /\ DOMAIN settlement' = 1..(n + 1)
      /\ settlement'[n + 1] = r
      /\ \A i \in 1..n : settlement'[i] = settlement[i]
  BY <1>1, <1>7, AppendIs
<1> HIDE DEF n
<1>9. \A i \in DOMAIN settlement' :
        \/ i \in DOMAIN settlement /\ settlement'[i] = settlement[i]
        \/ i = n + 1 /\ settlement'[i] = r
  BY <1>8
<1>10. DOMAIN settlement \subseteq DOMAIN settlement' /\ n + 1 \in DOMAIN settlement'
  BY <1>8
<1>11. /\ settler' \in SettlerType /\ settler'.pc = "totals"
       /\ settler'.cutoff = settler.cutoff /\ settler'.at = {}
  BY <1>1, <1>2, SettlingIs, SettlerHas
<1>12. TypeOK'
  BY <1>1, <1>2, <1>7, <1>11 DEF TypeOK
<1>13. (HasGrace => PeriodsAreOver)'
  <2>1. HasGrace => e < DateOf(day)
    BY <1>1, <1>3, <1>4 DEF PeriodsAreOver
  <2> QED
    BY <1>1, <1>2, <1>6, <1>9, <1>11, <2>1 DEF PeriodsAreOver, HasGrace
<1>14. CoversAreIds'
  BY <1>1, <1>2, <1>5, <1>6, <1>9 DEF CoversAreIds
<1>15. CoveredOnce'
  <2> SUFFICES ASSUME NEW i \in DOMAIN settlement', NEW j \in DOMAIN settlement',
                      NEW s \in SaleId \ redated,
                      s \in settlement'[i].covers, s \in settlement'[j].covers
               PROVE  i = j
    BY <1>2 DEF CoveredOnce
  <2>1. \A k \in DOMAIN settlement : s \in settler.sales => s \notin settlement[k].covers
    BY <1>5 DEF Ready, Covered
  <2>2. CASE i \in DOMAIN settlement /\ settlement'[i] = settlement[i]
    <3>1. CASE j \in DOMAIN settlement /\ settlement'[j] = settlement[j]
      BY <1>1, <2>2, <3>1 DEF CoveredOnce
    <3>2. CASE settlement'[j] = r
      BY <1>6, <2>1, <2>2, <3>2
    <3> QED
      BY <1>9, <3>1, <3>2
  <2>3. CASE i = n + 1 /\ settlement'[i] = r
    <3>1. CASE j \in DOMAIN settlement /\ settlement'[j] = settlement[j]
      BY <1>6, <2>1, <2>3, <3>1
    <3>2. CASE j = n + 1
      BY <2>3, <3>2
    <3> QED
      BY <1>9, <3>1, <3>2
  <2> QED
    BY <1>9, <2>2, <2>3
<1>16. CoveredAreSettled'
  BY <1>1, <1>2, <1>5, <1>6, <1>9 DEF CoveredAreSettled, Ready
<1>17. SettledAreCovered'
  <2> SUFFICES ASSUME NEW s \in DOMAIN sale \ (redated \cup overtaken), NEW i \in DOMAIN settlement',
                      settlement'[i].owner = sale[s].owner, settlement'[i].end >= sale[s].date
               PROVE  \E k \in DOMAIN settlement' : s \in settlement'[k].covers
    BY <1>2 DEF SettledAreCovered, IsSettled, Covered
  <2>1. ASSUME IsSettled(s) PROVE \E k \in DOMAIN settlement' : s \in settlement'[k].covers
    <3>1. PICK k \in DOMAIN settlement : s \in settlement[k].covers
      BY <1>1, <2>1 DEF SettledAreCovered, Covered
    <3> QED
      BY <1>8, <1>10, <3>1
  <2>2. CASE i \in DOMAIN settlement /\ settlement'[i] = settlement[i]
    BY <2>1, <2>2 DEF IsSettled
  <2>3. CASE i = n + 1 /\ settlement'[i] = r
    <3>1. sale[s].owner = o /\ sale[s].date <= e
      BY <1>1, <1>6, <2>3 DEF TypeOK, Stamp
    <3>2. s \in settler.sales \/ IsSettled(s)
      BY <1>5, <3>1 DEF Ready
    <3> QED
      BY <1>6, <1>10, <2>1, <2>3, <3>2
  <2> QED
    BY <1>9, <2>2, <2>3
<1>18. SettlementIsReady'
  BY <1>11 DEF SettlementIsReady
<1> QED
  BY <1>12, <1>13, <1>14, <1>15, <1>16, <1>17, <1>18 DEF SettleInv, PeriodsOK, CoversOK

-----------------------------------------------------------------------------
LEMMA InitInv == Init => SettleInv
<1> SUFFICES ASSUME Init PROVE SettleInv
  OBVIOUS
<1>1. TypeOK
  BY AsleepIs, SettlementsAssumption DEF Init, TypeOK
<1>2. HasGrace => grace > 0
  BY GraceDays, Zenon DEF Init, HasGrace
<1>3. PeriodsOK
  BY <1>2, AsleepIs DEF Init, PeriodsOK, PeriodsAreOver, CoversAreIds, Asleep, Settling
<1>4. CoversOK
  BY AsleepIs DEF Init, CoversOK, CoveredOnce, CoveredAreSettled, SettledAreCovered,
                  SettlementIsReady
<1> QED
  BY <1>1, <1>3, <1>4 DEF SettleInv

LEMMA SettleInvStep == ASSUME SettleInv, [Next]_vars PROVE SettleInv'
<1>1. CASE UNCHANGED vars
  BY <1>1 DEF vars, SettleInv, TypeOK, PeriodsOK, HasGrace, PeriodsAreOver, CoversAreIds, CoversOK,
              CoveredOnce, CoveredAreSettled, SettledAreCovered, SettlementIsReady, Ready,
              Covered, IsSettled
<1> QED
  BY <1>1, NextDayStep, SaleStep, PutSettlementPaidStep, WakeStep, FindDealersStep,
     SumTotalsStep, InsertSettlementStep, EndStep DEF Next, SettlerStep

LEMMA SettleInvariant == Spec => []SettleInv
  BY InitInv, SettleInvStep, PTL DEF Spec

\* Rows and local variables have the values the statements give them.
THEOREM SettlementsTypeCorrect == Spec => []TypeOK
  BY SettleInvariant, PTL DEF SettleInv

\* No sale is paid out twice, unless a client has changed its date: whatever is sold,
\* dated anew or deleted between the query that sums and the INSERT, and wherever a crash
\* falls.
THEOREM SalesAreSettledOnce == Spec => []SettledOnce
<1>1. SettleInv => SettledOnce
  <2> SUFFICES ASSUME SettleInv, NEW s \in SaleId \ redated PROVE Cardinality(Covered(s)) <= 1
    BY DEF SettledOnce
  <2>1. \A i, j \in Covered(s) : i = j
    BY DEF SettleInv, CoversOK, CoveredOnce, Covered
  <2>2. CASE Covered(s) = {}
    BY <2>2, FS_EmptySet
  <2>3. CASE Covered(s) # {}
    <3>1. PICK i : Covered(s) = {i}
      BY <2>1, <2>3
    <3> QED
      BY <3>1, FS_Singleton
  <2> QED
    BY <2>2, <2>3
<1> QED
  BY <1>1, SettleInvariant, PTL

\* No sale is passed over, unless a client has changed its date: one that counts as
\* settled was summed in one of its owner's settlements.  What is dated no later than the
\* end of a period that was fixed when it was entered is the exception, and there is none
\* while settlements.grace_days has been at least a day at every start of the server.
THEOREM SettledSalesAreCovered == Spec => []SettledMeansCovered
<1>1. SettleInv => SettledMeansCovered
  <2> SUFFICES ASSUME SettleInv, NEW s \in DOMAIN sale \ redated, IsSettled(s)
               PROVE  Covered(s) # {} \/ (s \in overtaken /\ ungraced)
    BY DEF SettledMeansCovered
  <2>1. CASE HasGrace
    BY <2>1 DEF SettleInv, PeriodsOK, PeriodsAreOver, CoversOK, SettledAreCovered
  <2>2. CASE ~HasGrace
    BY <2>2 DEF HasGrace, SettleInv, CoversOK, SettledAreCovered
  <2> QED
    BY <2>1, <2>2
<1> QED
  BY <1>1, SettleInvariant, PTL
=============================================================================
