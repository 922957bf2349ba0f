-------------------------- MODULE SettlementProofs --------------------------
(***************************************************************************)
(* Proofs about Settlement, for any number of images and attempts and any  *)
(* prices: what is booked never exceeds what upstream logged, the hold     *)
(* follows the bookings, and a batch is closed once, with the sum of the   *)
(* bills that were read.                                                   *)
(***************************************************************************)
EXTENDS Settlement, SumLemmas

-----------------------------------------------------------------------------
(* The inductive invariant                                                 *)

\* What the queue left behind.
Outcome ==
    /\ won \subseteq Items /\ tried \in [Items -> 0..MaxAttempts]
    /\ \A i \in won : tried[i] > 0
    /\ owed \subseteq {id \in Ids : id[2] <= tried[id[1]]}
    /\ Required \subseteq owed

\* Bills appear only for what was charged, and the loop reads no others.
BillsAreReal == logged \subseteq owed /\ seen \subseteq logged

\* The bills of one image.
BillsOf(i, bills) == {id \in bills : id[1] = i}

\* The bills of the images that are booked in this round.
BookedBills == {id \in seen : id[1] \notin todo}

\* No image is booked with more than its bills in usage_logs.
BookedIsLogged == \A i \in Items : OrZero(billed[i]) <= SumCost(BillsOf(i, logged))

\* In a round, what earlier rounds booked is among the bills that were read, and the running
\* total is the sum of the bills of the images done so far.
RoundIsExact ==
    pc = "booking" =>
        /\ \A i \in Items : OrZero(billed[i]) <= SumCost(BillsOf(i, seen))
        /\ total = SumCost(BookedBills)

\* Closing a batch releases its hold.
ClosedHasNoHold == closedBy # "none" => hold = NULL

\* An alert belongs to a batch the loop has closed, and is about to be written at most once.
AlertOnceClosed ==
    /\ alerts["warn"] + alerts["critical"] \in {0, 1}
    /\ closedBy = "none" \/ pc = "alerting" => alerts["warn"] + alerts["critical"] = 0
    /\ pc = "alerting" => closedBy # "none"

IInv ==
    /\ TypeOK /\ Outcome /\ BillsAreReal
    /\ BookedIsLogged /\ RoundIsExact
    /\ HoldTracksBilled /\ ClosedHasNoHold
    /\ DeliveredIsPaid /\ NeverOvercharged
    /\ AlertOnceClosed

-----------------------------------------------------------------------------
(* Sums of bills                                                           *)

\* There are finitely many bills.
LEMMA FiniteIds == IsFiniteSet(Ids) /\ \A S \in SUBSET Ids : IsFiniteSet(S)
<1>1. IsFiniteSet(1..MaxAttempts)
  BY SettlementAssumption, FS_Interval
<1>2. IsFiniteSet(Ids)
  BY <1>1, SettlementAssumption, FS_Product DEF Ids
<1> QED
  BY <1>2, FS_Subset

\* Every set of bills has a sum.
LEMMA CostIsNat == \A S \in SUBSET Ids : SumCost(S) \in Nat
<1> SUFFICES ASSUME NEW S \in SUBSET Ids PROVE SumCost(S) \in Nat
  OBVIOUS
<1>1. IsFiniteSet(S) /\ \A id \in S : Cost[id] \in Nat
  BY FiniteIds, SettlementAssumption
<1> QED
  BY <1>1, SumNat DEF SumCost

\* More bills, no smaller sum.
LEMMA CostGrows ==
    ASSUME NEW S \in SUBSET Ids, NEW T \in SUBSET S
    PROVE  SumCost(T) <= SumCost(S)
<1>1. IsFiniteSet(S) /\ \A id \in S : Cost[id] \in Nat
  BY FiniteIds, SettlementAssumption
<1> QED
  BY <1>1, SumSubset DEF SumCost

\* Bills of different images add up.
LEMMA CostAdds ==
    ASSUME NEW S \in SUBSET Ids, NEW T \in SUBSET Ids, S \cap T = {}
    PROVE  SumCost(S \cup T) = SumCost(S) + SumCost(T)
<1>1. IsFiniteSet(S) /\ IsFiniteSet(T) /\ \A id \in S \cup T : Cost[id] \in Int
  BY FiniteIds, SettlementAssumption
<1> QED
  BY <1>1, SumUnion DEF SumCost

\* No bills, no cost.
LEMMA CostOfNothing == SumCost({}) = 0
BY SumEmpty DEF SumCost

\* Image by image no more than the bills: altogether no more than the bills.
LEMMA CostByImage ==
    ASSUME NEW g \in [Items -> Nat], NEW bills \in SUBSET Ids,
           \A i \in Items : g[i] <= SumCost(BillsOf(i, bills))
    PROVE  SumFunctionOnSet(g, Items) <= SumCost(bills)
<1> DEFINE Sum(J)  == SumFunctionOnSet(g, J)
           Part(J) == {id \in bills : id[1] \in J}
           Q == {n \in Nat : \A J \in SUBSET Items : Cardinality(J) <= n => Sum(J) <= SumCost(Part(J))}
<1>0. \A J \in SUBSET Items : /\ IsFiniteSet(J) /\ Cardinality(J) \in Nat /\ Sum(J) \in Nat
                              /\ SumCost(Part(J)) \in Nat
  <2> SUFFICES ASSUME NEW J \in SUBSET Items
               PROVE  /\ IsFiniteSet(J) /\ Cardinality(J) \in Nat /\ Sum(J) \in Nat
                      /\ SumCost(Part(J)) \in Nat
    OBVIOUS
  <2>1. IsFiniteSet(J) /\ Cardinality(J) \in Nat
    BY SettlementAssumption, FS_Subset, FS_CardinalityType
  <2>2. Sum(J) \in Nat
    BY <2>1, SumNat
  <2>3. Part(J) \in SUBSET Ids
    OBVIOUS
  <2> HIDE DEF Part
  <2> QED
    BY <2>1, <2>2, <2>3, CostIsNat
<1>1. ASSUME NEW J \in SUBSET Items, NEW i \in J
      PROVE  /\ Sum(J) = g[i] + Sum(J \ {i})
             /\ SumCost(Part(J)) = SumCost(BillsOf(i, bills)) + SumCost(Part(J \ {i}))
  <2>1. IsFiniteSet(J) /\ \A j \in J : g[j] \in Int
    BY SettlementAssumption, FS_Subset
  <2>2. Sum(J) = g[i] + Sum(J \ {i})
    BY <2>1, SumRemove
  <2>3. /\ BillsOf(i, bills) \in SUBSET Ids /\ Part(J \ {i}) \in SUBSET Ids
        /\ BillsOf(i, bills) \cap Part(J \ {i}) = {}
    BY DEF BillsOf
  <2>4. Part(J) = BillsOf(i, bills) \cup Part(J \ {i})
    BY DEF BillsOf
  <2> HIDE DEF Part, Sum
  <2> QED
    BY <2>2, <2>3, <2>4, CostAdds
<1> HIDE DEF Sum, Part
<1>2. 0 \in Q
  <2> SUFFICES ASSUME NEW J \in SUBSET Items, Cardinality(J) <= 0 PROVE Sum(J) <= SumCost(Part(J))
    OBVIOUS
  <2>0. IsFiniteSet(J) /\ Cardinality(J) \in Nat /\ SumCost(Part(J)) \in Nat
    BY <1>0
  <2>1. Cardinality(J) = 0
    BY <2>0
  <2>2. J = {}
    BY <2>0, <2>1, FS_EmptySet
  <2>3. Sum(J) = 0
    BY <2>2, SumEmpty DEF Sum
  <2> QED
    BY <2>0, <2>3
<1>3. ASSUME NEW n \in Nat, n \in Q PROVE n + 1 \in Q
  <2> SUFFICES ASSUME NEW J \in SUBSET Items, Cardinality(J) <= n + 1 PROVE Sum(J) <= SumCost(Part(J))
    OBVIOUS
  <2>1. CASE J = {}
    <3>1. Cardinality(J) <= 0
      BY <2>1, FS_EmptySet
    <3> QED
      BY <1>2, <3>1
  <2>2. CASE J # {}
    <3>1. PICK i : i \in J
      BY <2>2
    <3>2. IsFiniteSet(J) /\ Cardinality(J) \in Nat
      BY <1>0
    <3>3. Cardinality(J \ {i}) = Cardinality(J) - 1
      BY <3>1, <3>2, FS_RemoveElement
    <3>4. J \ {i} \in SUBSET Items /\ Cardinality(J \ {i}) <= n
      BY <3>2, <3>3
    <3>5. Sum(J \ {i}) <= SumCost(Part(J \ {i}))
      BY <1>3, <3>4
    <3>6. Sum(J \ {i}) \in Nat /\ SumCost(Part(J \ {i})) \in Nat
      BY <1>0, <3>4
    <3>7. BillsOf(i, bills) \in SUBSET Ids
      BY DEF BillsOf
    <3>8. g[i] \in Nat /\ SumCost(BillsOf(i, bills)) \in Nat /\ g[i] <= SumCost(BillsOf(i, bills))
      BY <3>1, <3>7, CostIsNat
    <3>9. Sum(J) = g[i] + Sum(J \ {i}) /\ SumCost(Part(J)) = SumCost(BillsOf(i, bills)) + SumCost(Part(J \ {i}))
      BY <1>1, <3>1
    <3> QED
      BY <3>5, <3>6, <3>8, <3>9
  <2> QED
    BY <2>1, <2>2
<1> HIDE DEF Q
<1>4. Cardinality(Items) \in Q
  BY <1>0, <1>2, <1>3, SetOfNumbers
<1> USE DEF Q
<1>5. Sum(Items) <= SumCost(Part(Items))
  BY <1>0, <1>4
<1>6. Part(Items) = bills
  BY DEF Ids, Part
<1> QED
  BY <1>5, <1>6 DEF Sum

-----------------------------------------------------------------------------
(* One image                                                               *)

\* The ids of all attempts of an image find all its bills.
LEMMA CandidatesFindAll ==
    ASSUME TypeOK, Outcome, NEW bills \in SUBSET owed, NEW i \in Items
    PROVE  /\ Candidates(i) \cap bills = BillsOf(i, bills)
           /\ BillsOf(i, bills) \in SUBSET Ids
<1>1. tried[i] \in 0..MaxAttempts /\ MaxAttempts \in Nat
  BY SettlementAssumption DEF TypeOK
<1>2. \A id \in bills : id \in Ids /\ id[2] <= tried[id[1]]
  BY DEF Outcome
<1>3. \A id \in Ids : id = <<id[1], id[2]>> /\ id[1] \in Items /\ id[2] \in 1..MaxAttempts
  BY DEF Ids
<1>4. \A id \in bills : id[1] = i => id = <<i, id[2]>> /\ id[2] \in 1..tried[i]
  BY <1>1, <1>2, <1>3
<1>5. \A id \in bills : id \in Candidates(i) <=> id[1] = i
  BY <1>4 DEF Candidates
<1> QED
  BY <1>2, <1>5 DEF BillsOf

\* The sum of an image's bills.
LEMMA ItemTotalIs ==
    ASSUME TypeOK, Outcome, BillsAreReal, NEW i \in Items
    PROVE  /\ ItemTotal(i) = SumCost(BillsOf(i, seen)) /\ ItemTotal(i) \in Nat
           /\ Candidates(i) \cap seen = {} => ItemTotal(i) = 0
<1>1. seen \in SUBSET owed
  BY DEF BillsAreReal
<1>2. Candidates(i) \cap seen = BillsOf(i, seen) /\ BillsOf(i, seen) \in SUBSET Ids
  BY <1>1, CandidatesFindAll
<1> QED
  BY <1>2, CostIsNat, CostOfNothing DEF ItemTotal

\* An image's part of actual_cost is the sum of its bills, booked now or booked before.
LEMMA ShareIsTotal ==
    ASSUME TypeOK, Outcome, BillsAreReal, RoundIsExact, pc = "booking", NEW i \in Items
    PROVE  Share(i) = ItemTotal(i)
<1>1. OrZero(billed[i]) \in Nat
  BY DEF TypeOK, OrZero
<1>2. OrZero(billed[i]) <= ItemTotal(i) /\ ItemTotal(i) \in Nat
  BY ItemTotalIs DEF RoundIsExact
<1>3. CASE Books(i)
  BY <1>3 DEF Share
<1>4. CASE ~Books(i)
  <2>1. CASE Candidates(i) \cap seen = {}
    BY <1>1, <1>2, <1>4, <2>1, ItemTotalIs DEF Share
  <2>2. CASE ~(ItemTotal(i) > OrZero(billed[i]))
    BY <1>1, <1>2, <1>4, <2>2 DEF Share
  <2> QED
    BY <1>4, <2>1, <2>2 DEF Books
<1> QED
  BY <1>3, <1>4

-----------------------------------------------------------------------------
(* What a step leaves alone                                                *)

\* The rows and what they are compared with.
LEMMA RowsStay ==
    ASSUME IInv, UNCHANGED <<factVars, logged, billed, actual, hold, closedBy>>
    PROVE  /\ Outcome' /\ BookedIsLogged' /\ HoldTracksBilled' /\ ClosedHasNoHold'
           /\ DeliveredIsPaid' /\ NeverOvercharged'
<1>0. /\ won' = won /\ tried' = tried /\ owed' = owed /\ logged' = logged /\ billed' = billed
      /\ actual' = actual /\ hold' = hold /\ closedBy' = closedBy
  BY DEF factVars
<1>1. Outcome'
  BY <1>0 DEF IInv, Outcome, Required, RequiredID
<1>2. BookedIsLogged'
  BY <1>0 DEF IInv, BookedIsLogged, BillsOf, OrZero
<1>3. SumBilled' = SumBilled
  BY <1>0 DEF SumBilled, OrZero
<1>4. HoldTracksBilled' /\ ClosedHasNoHold'
  BY <1>0, <1>3 DEF IInv, HoldTracksBilled, ClosedHasNoHold
<1>5. DeliveredIsPaid' /\ NeverOvercharged'
  BY <1>0 DEF IInv, DeliveredIsPaid, NeverOvercharged
<1> QED
  BY <1>1, <1>2, <1>4, <1>5

\* What was found and booked, as far as the loop is in a round.
LEMMA RoundStays ==
    ASSUME IInv, UNCHANGED <<billed, pc, seen, todo, total>>
    PROVE  RoundIsExact'
BY DEF IInv, RoundIsExact, BookedBills, BillsOf, OrZero

\* Alerts, unless the loop has just closed the batch.
LEMMA AlertsStay ==
    ASSUME IInv, UNCHANGED <<alerts, closedBy>>, pc' = pc \/ pc' # "alerting"
    PROVE  AlertOnceClosed'
BY DEF IInv, AlertOnceClosed

-----------------------------------------------------------------------------
(* The steps                                                               *)

\* When the batch begins to settle.
LEMMA InitStep == Init => IInv
<1> SUFFICES ASSUME Init PROVE IInv
  OBVIOUS
<1> USE SettlementAssumption
<1>1. TypeOK
  BY DEF Init, TypeOK
<1>2. Outcome /\ BillsAreReal
  BY DEF Init, Outcome, BillsAreReal
<1>3. \A i \in Items : OrZero(billed[i]) = 0
  BY DEF Init, OrZero
<1>4. BookedIsLogged
  <2>1. \A i \in Items : BillsOf(i, logged) = {}
    BY DEF Init, BillsOf
  <2> QED
    BY <1>3, <2>1, CostOfNothing DEF BookedIsLogged
<1>5. HoldTracksBilled
  <2> DEFINE g == [i \in Items |-> OrZero(billed[i])]
             h == [i \in Items |-> 0]
  <2>1. SumFunctionOnSet(g, Items) \in Nat
    BY <1>3, SumNat
  <2>2. SumFunctionOnSet(g, Items) <= SumCost({})
    <3>1. g \in [Items -> Nat] /\ {} \in SUBSET Ids
      BY <1>3
    <3>2. \A i \in Items : BillsOf(i, {}) = {} /\ g[i] = 0
      BY <1>3 DEF BillsOf
    <3>3. \A i \in Items : g[i] <= SumCost(BillsOf(i, {}))
      BY <3>2, CostOfNothing
    <3> HIDE DEF g
    <3> QED
      BY <3>1, <3>3, CostByImage
  <2>3. SumBilled = 0
    BY <2>1, <2>2, CostOfNothing DEF SumBilled
  <2> QED
    BY <2>3 DEF HoldTracksBilled, Init
<1>6. RoundIsExact /\ ClosedHasNoHold /\ DeliveredIsPaid /\ NeverOvercharged
  BY DEF Init, RoundIsExact, ClosedHasNoHold, DeliveredIsPaid, NeverOvercharged
<1>7. AlertOnceClosed
  BY DEF Init, AlertOnceClosed
<1> QED
  BY <1>1, <1>2, <1>4, <1>5, <1>6, <1>7 DEF IInv

\* A bill appears.
LEMMA WriteUsageLogStep ==
    ASSUME IInv, NEW id \in Ids, WriteUsageLog(id) PROVE IInv'
<1> USE DEF WriteUsageLog, factVars, rowVars, loopVars
<1>1. TypeOK'
  BY DEF IInv, TypeOK
<1>2. Outcome' /\ BillsAreReal'
  BY DEF IInv, Outcome, BillsAreReal, Required, RequiredID
<1>3. logged' \in SUBSET Ids /\ logged \in SUBSET logged' /\ logged \in SUBSET Ids
  BY DEF IInv, TypeOK
<1>4. BookedIsLogged'
  <2> SUFFICES ASSUME NEW i \in Items PROVE OrZero(billed'[i]) <= SumCost(BillsOf(i, logged'))
    BY DEF BookedIsLogged, OrZero, BillsOf
  <2>1. OrZero(billed'[i]) = OrZero(billed[i]) /\ OrZero(billed[i]) \in Nat
    BY DEF IInv, TypeOK, OrZero
  <2>2. BillsOf(i, logged) \in SUBSET BillsOf(i, logged') /\ BillsOf(i, logged') \in SUBSET Ids
    BY <1>3 DEF BillsOf
  <2>3. SumCost(BillsOf(i, logged)) <= SumCost(BillsOf(i, logged'))
    BY <2>2, CostGrows
  <2>4. SumCost(BillsOf(i, logged)) \in Nat /\ SumCost(BillsOf(i, logged')) \in Nat
    BY <2>2, CostIsNat
  <2>5. OrZero(billed[i]) <= SumCost(BillsOf(i, logged))
    BY DEF IInv, BookedIsLogged
  <2> QED
    BY <2>1, <2>3, <2>4, <2>5
<1>5. NeverOvercharged'
  <2>1. SumCost(logged) <= SumCost(logged') /\ SumCost(logged) \in Nat /\ SumCost(logged') \in Nat
    BY <1>3, CostGrows, CostIsNat
  <2>2. actual' = actual /\ actual \in Nat \cup {NULL} /\ (actual # NULL => actual <= SumCost(logged))
    BY DEF IInv, TypeOK, NeverOvercharged
  <2> QED
    BY <2>1, <2>2 DEF NeverOvercharged
<1>6. HoldTracksBilled' /\ ClosedHasNoHold' /\ DeliveredIsPaid'
  <2>1. SumBilled' = SumBilled
    BY DEF SumBilled, OrZero
  <2> QED
    BY <2>1 DEF IInv, HoldTracksBilled, ClosedHasNoHold, DeliveredIsPaid
<1>7. RoundIsExact' /\ AlertOnceClosed'
  BY RoundStays, AlertsStay
<1> QED
  BY <1>1, <1>2, <1>4, <1>5, <1>6, <1>7 DEF IInv

\* Time passes.
LEMMA GrowOldStep == ASSUME IInv, GrowOld PROVE IInv'
<1> USE DEF GrowOld, rowVars, loopVars
<1>1. TypeOK'
  BY DEF IInv, TypeOK, factVars
<1>2. BillsAreReal'
  BY DEF IInv, BillsAreReal, factVars
<1> QED
  BY <1>1, <1>2, RowsStay, RoundStays, AlertsStay DEF IInv

\* The batch is picked up.
LEMMA ListPendingStep == ASSUME IInv, ListPending PROVE IInv'
<1> USE DEF ListPending, rowVars
<1>1. TypeOK'
  BY DEF IInv, TypeOK, factVars
<1>2. BillsAreReal' /\ RoundIsExact'
  BY DEF IInv, BillsAreReal, RoundIsExact, factVars
<1> QED
  BY <1>1, <1>2, RowsStay, AlertsStay DEF IInv

\* The look-up fails and is retried later.
LEMMA ReadBillsFailsStep == ASSUME IInv, ReadBillsFails PROVE IInv'
<1> USE DEF ReadBillsFails, Disrupt, rowVars
<1>1. TypeOK'
  BY DEF IInv, TypeOK, factVars
<1>2. BillsAreReal' /\ RoundIsExact'
  BY DEF IInv, BillsAreReal, RoundIsExact, factVars
<1> QED
  BY <1>1, <1>2, RowsStay, AlertsStay DEF IInv

\* A restart forgets the loop's round and keeps every row.
LEMMA RestartStep == ASSUME IInv, Restart PROVE IInv'
<1> USE DEF Restart, Disrupt, rowVars
<1>1. TypeOK'
  <2>1. stale' \in BOOLEAN /\ seen' \subseteq Ids /\ todo' \subseteq Items
    OBVIOUS
  <2>2. disruptions' \in Nat /\ tries' \in Nat /\ total' \in Nat
    BY DEF IInv, TypeOK
  <2>3. /\ pool' \in {"up", "absent"} /\ pc' = "idle"
        /\ UNCHANGED <<won, tried, owed, logged, billed, actual, hold, closedBy, alerts, age>>
    BY DEF factVars
  <2> HIDE DEF Restart
  <2> QED
    BY <2>1, <2>2, <2>3 DEF IInv, TypeOK
<1>2. BillsAreReal' /\ RoundIsExact'
  BY DEF IInv, BillsAreReal, RoundIsExact, factVars
<1> QED
  BY <1>1, <1>2, RowsStay, AlertsStay DEF IInv

\* A round begins with nothing summed up, and with all the bills there are.
LEMMA ReadBillsStep == ASSUME IInv, ReadBills PROVE IInv'
<1> USE DEF ReadBills, rowVars
<1>1. TypeOK'
  <2>1. stale' \in BOOLEAN
    OBVIOUS
  <2>2. /\ pc' \in {"idle", "booking"} /\ tries' \in {tries, tries + 1}
        /\ todo' \in {todo, Items} /\ total' \in {total, 0}
    OBVIOUS
  <2>3. UNCHANGED <<factVars, logged, rowVars, age, pool, disruptions>> /\ seen' = logged
    OBVIOUS
  <2> HIDE DEF ReadBills
  <2> QED
    BY <2>1, <2>2, <2>3 DEF IInv, TypeOK, factVars
<1>2. BillsAreReal'
  BY DEF IInv, BillsAreReal, factVars
<1>3. RoundIsExact'
  <2> SUFFICES ASSUME pc' = "booking" PROVE RoundIsExact'
    BY DEF RoundIsExact
  <2>1. seen' = logged /\ todo' = Items /\ total' = 0 /\ billed' = billed /\ logged \subseteq Ids
    BY DEF IInv, TypeOK
  <2>2. BookedBills' = {}
    BY <2>1 DEF BookedBills, Ids
  <2>3. \A i \in Items : OrZero(billed[i]) <= SumCost(BillsOf(i, logged))
    BY DEF IInv, BookedIsLogged
  <2> QED
    BY <2>1, <2>2, <2>3, CostOfNothing DEF RoundIsExact, BillsOf, OrZero
<1> QED
  BY <1>1, <1>2, <1>3, RowsStay, AlertsStay DEF IInv

\* One image is booked: its share is the sum of its bills, and if the row changes the hold
\* goes down by what it goes up.
LEMMA ApplyItemBillingStep ==
    ASSUME IInv, NEW i \in Items, ApplyItemBilling(i) PROVE IInv'
<1> DEFINE b == BillsOf(i, seen)
<1>0. /\ pc = "booking" /\ pc' = pc /\ i \in todo /\ todo' = todo \ {i} /\ total' = total + Share(i)
      /\ UNCHANGED <<won, tried, owed, logged, actual, closedBy, alerts, age, pool, tries, seen, stale>>
  BY DEF ApplyItemBilling, factVars
<1>1. /\ TypeOK /\ Outcome /\ BillsAreReal /\ RoundIsExact
      /\ ItemTotal(i) \in Nat /\ ItemTotal(i) = SumCost(b) /\ Share(i) = ItemTotal(i)
  BY <1>0, ItemTotalIs, ShareIsTotal DEF IInv
<1>2. \/ /\ Books(i) /\ billed' = [billed EXCEPT ![i] = ItemTotal(i)]
         /\ hold' = Decrement(hold, Delta(billed[i], ItemTotal(i))) /\ disruptions' = disruptions
      \/ UNCHANGED <<billed, hold>> /\ disruptions' \in {disruptions, disruptions + 1}
  BY DEF ApplyItemBilling, Disrupt
<1>3. /\ b \in SUBSET Ids /\ b \in SUBSET BillsOf(i, logged) /\ BillsOf(i, logged) \in SUBSET Ids
      /\ BookedBills \in SUBSET Ids /\ seen \in SUBSET Ids /\ logged \in SUBSET Ids
  BY <1>1 DEF TypeOK, BillsAreReal, BillsOf, BookedBills
<1>4. OrZero(billed[i]) \in Nat /\ OrZero(billed[i]) <= ItemTotal(i)
  BY <1>0, <1>1 DEF TypeOK, OrZero, RoundIsExact
<1>5. Delta(billed[i], ItemTotal(i)) \in Nat
  BY <1>1, <1>4 DEF Delta
<1> HIDE DEF b
<1>6. TypeOK'
  <2>1. billed' \in [Items -> Nat \cup {NULL}]
    BY <1>1, <1>2 DEF TypeOK
  <2>2. hold' \in Nat \cup {NULL}
    <3>1. hold \in Nat \cup {NULL}
      BY <1>1 DEF TypeOK
    <3> QED
      BY <1>2, <1>5, <3>1 DEF Decrement
  <2>3. total' \in Nat /\ todo' \subseteq Items
    BY <1>0, <1>1 DEF TypeOK
  <2>4. disruptions' \in Nat
    BY <1>1, <1>2 DEF TypeOK
  <2> QED
    BY <1>0, <1>1, <2>1, <2>2, <2>3, <2>4 DEF TypeOK
<1>7. Outcome' /\ BillsAreReal'
  BY <1>0, <1>1 DEF Outcome, BillsAreReal, Required, RequiredID
<1>8. \A j \in Items : OrZero(billed'[j]) = OrZero(billed[j]) \/ (j = i /\ OrZero(billed'[j]) = ItemTotal(i))
  <2> SUFFICES ASSUME NEW j \in Items
               PROVE  OrZero(billed'[j]) = OrZero(billed[j]) \/ (j = i /\ OrZero(billed'[j]) = ItemTotal(i))
    OBVIOUS
  <2>0. billed' = billed \/ billed' = [billed EXCEPT ![i] = ItemTotal(i)]
    BY <1>2
  <2>1. billed'[j] = billed[j] \/ (j = i /\ billed'[j] = ItemTotal(i))
    BY <1>1, <2>0 DEF TypeOK
  <2> QED
    BY <1>1, <2>1, SettlementAssumption DEF OrZero
<1>9. BookedIsLogged'
  <2> SUFFICES ASSUME NEW j \in Items PROVE OrZero(billed'[j]) <= SumCost(BillsOf(j, logged))
    BY <1>0 DEF BookedIsLogged, OrZero, BillsOf
  <2>1. OrZero(billed[j]) <= SumCost(BillsOf(j, logged))
    BY DEF IInv, BookedIsLogged
  <2>2. ItemTotal(i) <= SumCost(BillsOf(i, logged))
    BY <1>1, <1>3, CostGrows
  <2> QED
    BY <1>8, <2>1, <2>2
<1>10. RoundIsExact'
  <2>1. ASSUME NEW j \in Items PROVE OrZero(billed'[j]) <= SumCost(BillsOf(j, seen))
    <3>1. OrZero(billed[j]) <= SumCost(BillsOf(j, seen))
      BY <1>0, <1>1 DEF RoundIsExact
    <3>2. ItemTotal(i) <= SumCost(b)
      BY <1>1
    <3> QED
      BY <1>8, <3>1, <3>2 DEF b
  <2>2. BookedBills' = BookedBills \cup b /\ BookedBills \cap b = {}
    BY <1>0, <1>1 DEF BookedBills, BillsOf, b, TypeOK
  <2>3. SumCost(BookedBills') = SumCost(BookedBills) + SumCost(b)
    BY <1>3, <2>2, CostAdds
  <2>4. total = SumCost(BookedBills)
    BY <1>0, <1>1 DEF RoundIsExact
  <2>5. total' = SumCost(BookedBills')
    BY <1>0, <1>1, <2>3, <2>4
  <2>6. \A j \in Items : OrZero(billed'[j]) <= SumCost(BillsOf(j, seen'))
    BY <1>0, <2>1
  <2> QED
    BY <2>5, <2>6 DEF RoundIsExact, OrZero, BillsOf
<1>11. HoldTracksBilled'
  <2>1. CASE UNCHANGED <<billed, hold>>
    <3>1. SumBilled' = SumBilled
      BY <2>1 DEF SumBilled, OrZero
    <3> QED
      BY <2>1, <3>1 DEF IInv, HoldTracksBilled
  <2>2. CASE /\ billed' = [billed EXCEPT ![i] = ItemTotal(i)]
             /\ hold' = Decrement(hold, Delta(billed[i], ItemTotal(i)))
    <3> DEFINE f == [j \in Items |-> OrZero(billed[j])]
               g == [j \in Items |-> OrZero(billed'[j])]
               d == Delta(billed[i], ItemTotal(i))
    <3>1. \A j \in Items : f[j] \in Nat /\ g[j] \in Nat
      BY <1>1, <1>6 DEF TypeOK, OrZero
    <3>2. \A j \in Items \ {i} : f[j] = g[j]
      BY <1>8
    <3>3. f[i] = OrZero(billed[i]) /\ g[i] = ItemTotal(i)
      <4>1. billed'[i] = ItemTotal(i)
        BY <1>1, <2>2 DEF TypeOK
      <4> QED
        BY <1>1, <4>1, SettlementAssumption DEF OrZero
    <3>4. SumBilled = SumFunctionOnSet(f, Items) /\ SumBilled' = SumFunctionOnSet(g, Items)
      BY DEF SumBilled, OrZero
    <3> HIDE DEF f, g
    <3>5. SumFunctionOnSet(f, Items) \in Nat
      BY <3>1, SumNat, SettlementAssumption
    <3>6. SumFunctionOnSet(g, Items) = SumFunctionOnSet(f, Items) + (g[i] - f[i])
      BY <3>1, <3>2, SumChange, SettlementAssumption
    <3>7. SumBilled \in Nat /\ SumBilled' = SumBilled + d /\ d \in Nat
      BY <1>5, <3>3, <3>4, <3>5, <3>6 DEF Delta
    <3>8. hold \in Nat \cup {NULL} /\ (hold # NULL => hold = IF Frozen > SumBilled THEN Frozen - SumBilled ELSE 0)
      BY <1>1 DEF TypeOK, IInv, HoldTracksBilled
    <3>9. hold' = Decrement(hold, d)
      BY <2>2
    <3> HIDE DEF d
    <3>10. hold' # NULL => hold' = IF Frozen > SumBilled' THEN Frozen - SumBilled' ELSE 0
      <4>1. CASE hold = NULL
        BY <3>9, <4>1 DEF Decrement
      <4>2. CASE hold # NULL /\ Frozen > SumBilled
        <5>1. hold = Frozen - SumBilled
          BY <3>8, <4>2
        <5> QED
          BY <3>7, <3>9, <4>2, <5>1, SettlementAssumption DEF Decrement
      <4>3. CASE hold # NULL /\ ~(Frozen > SumBilled)
        <5>1. hold = 0
          BY <3>8, <4>3
        <5> QED
          BY <3>7, <3>9, <4>3, <5>1, SettlementAssumption DEF Decrement
      <4> QED
        BY <4>1, <4>2, <4>3
    <3> QED
      BY <3>10 DEF HoldTracksBilled
  <2> QED
    BY <1>2, <2>1, <2>2
<1>12. ClosedHasNoHold'
  BY <1>0, <1>2 DEF IInv, ClosedHasNoHold, Decrement
<1>13. DeliveredIsPaid' /\ NeverOvercharged' /\ AlertOnceClosed'
  BY <1>0, AlertsStay DEF IInv, DeliveredIsPaid, NeverOvercharged
<1> QED
  BY <1>6, <1>7, <1>9, <1>10, <1>11, <1>12, <1>13 DEF IInv

\* A round that is through has summed up every bill it read.
LEMMA TotalIsComplete ==
    ASSUME IInv, pc = "booking", todo = {}
    PROVE  total = SumCost(seen)
<1>1. BookedBills = seen
  BY DEF BookedBills
<1> QED
  BY <1>1 DEF IInv, RoundIsExact

\* The loop closes the batch, or does not.
LEMMA SettleJobStep == ASSUME IInv, SettleJob PROVE IInv'
<1>0. /\ pc = "booking" /\ todo = {} /\ pc' \in {"idle", "alerting"} /\ tries' \in {0, tries + 1}
      /\ disruptions' \in {disruptions, disruptions + 1}
      /\ UNCHANGED <<won, tried, owed, logged, billed, alerts, age, pool, seen, stale, todo, total>>
  BY DEF SettleJob, AfterSettle, Disrupt, factVars
<1>1. TypeOK /\ total = SumCost(seen)
  BY <1>0, TotalIsComplete DEF IInv
<1>2. BillsAreReal' /\ RoundIsExact'
  BY <1>0 DEF IInv, BillsAreReal, RoundIsExact
<1>3. CASE UNCHANGED <<actual, hold, closedBy>> /\ pc' = AfterSettle(FALSE)
  <2>1. pc' = "idle"
    BY <1>3 DEF AfterSettle
  <2>2. TypeOK'
    <3>1. tries' \in Nat /\ disruptions' \in Nat
      BY <1>0, <1>1 DEF TypeOK
    <3> QED
      BY <1>0, <1>1, <1>3, <3>1 DEF TypeOK
  <2> QED
    BY <1>0, <1>2, <1>3, <2>1, <2>2, RowsStay, AlertsStay DEF IInv, factVars
<1>4. CASE closedBy = "none" /\ actual' = total /\ hold' = NULL /\ closedBy' = IF Forced THEN "forced" ELSE "settler"
  <2>1. TypeOK'
    BY <1>0, <1>1, <1>4 DEF TypeOK
  <2>2. Outcome' /\ BookedIsLogged'
    BY <1>0 DEF IInv, Outcome, Required, RequiredID, BookedIsLogged, OrZero, BillsOf
  <2>3. HoldTracksBilled' /\ ClosedHasNoHold'
    BY <1>4 DEF HoldTracksBilled, ClosedHasNoHold
  <2>4. AlertOnceClosed'
    BY <1>0, <1>4 DEF IInv, AlertOnceClosed
  <2>5. seen \in SUBSET logged /\ logged \in SUBSET Ids
    BY <1>1 DEF IInv, BillsAreReal, TypeOK
  <2>6. NeverOvercharged'
    BY <1>0, <1>1, <1>4, <2>5, CostGrows DEF NeverOvercharged
  <2>7. DeliveredIsPaid'
    <3> DEFINE paid == UNION {{<<i, tried[i]>>} : i \in won}
    <3> SUFFICES ASSUME ~Forced PROVE actual' >= SumCost(paid)
      BY <1>0, <1>4 DEF DeliveredIsPaid
    <3>1. paid \in SUBSET Required
      BY <1>1 DEF Required, RequiredID, TypeOK
    <3>2. Required \in SUBSET seen
      BY DEF Forced, MissingRequired
    <3>3. paid \in SUBSET seen /\ seen \in SUBSET Ids
      BY <3>1, <3>2, <2>5
    <3> HIDE DEF paid
    <3>4. paid \in SUBSET Ids
      BY <3>3
    <3>5. SumCost(paid) <= SumCost(seen) /\ SumCost(paid) \in Nat /\ SumCost(seen) \in Nat
      BY <3>3, <3>4, CostGrows, CostIsNat
    <3> QED
      BY <1>1, <1>4, <3>5
  <2> QED
    BY <1>2, <2>1, <2>2, <2>3, <2>4, <2>6, <2>7 DEF IInv
<1> QED
  BY <1>3, <1>4 DEF SettleJob, Closable, Close

\* The one alert of a batch is written, or lost.
LEMMA RecordAlertStep == ASSUME IInv, RecordAlert PROVE IInv'
<1>0. /\ pc = "alerting" /\ pc' = "idle" /\ disruptions' \in {disruptions, disruptions + 1}
      /\ alerts' = [alerts EXCEPT ![AlertLevel(total)] = @ + 1] \/ alerts' = alerts
      /\ UNCHANGED <<won, tried, owed, logged, billed, actual, hold, closedBy>>
      /\ UNCHANGED <<age, pool, tries, seen, stale, todo, total>>
  BY DEF RecordAlert, Disrupt, factVars
<1>1. TypeOK /\ alerts \in [{"warn", "critical"} -> Nat] /\ AlertOnceClosed
  BY DEF IInv, TypeOK
<1>2. /\ alerts' \in [{"warn", "critical"} -> Nat]
      /\ alerts'["warn"] + alerts'["critical"] \in {0, 1}
  <2>1. alerts["warn"] = 0 /\ alerts["critical"] = 0
    BY <1>0, <1>1 DEF AlertOnceClosed
  <2>2. AlertLevel(total) \in {"warn", "critical", "none"}
    BY DEF AlertLevel
  <2> QED
    BY <1>0, <1>1, <2>1, <2>2
<1>3. TypeOK'
  BY <1>0, <1>1, <1>2 DEF TypeOK
<1>4. AlertOnceClosed'
  BY <1>0, <1>1, <1>2 DEF AlertOnceClosed
<1>5. BillsAreReal' /\ RoundIsExact'
  BY <1>0 DEF IInv, BillsAreReal, RoundIsExact
<1> QED
  BY <1>0, <1>3, <1>4, <1>5, RowsStay DEF IInv, factVars

\* The reaper closes with what is booked, which is no more than what is logged.
LEMMA ReapStep == ASSUME IInv, ReapStuckSettling PROVE IInv'
<1>0. /\ closedBy = "none" /\ closedBy' = "reaper" /\ actual' = SumBilled /\ hold' = NULL
      /\ UNCHANGED <<won, tried, owed, logged, billed, alerts, age, pool, disruptions>>
      /\ UNCHANGED <<pc, tries, seen, stale, todo, total>>
  BY DEF ReapStuckSettling, Close, factVars, loopVars
<1> DEFINE g == [i \in Items |-> OrZero(billed[i])]
<1>1. TypeOK
  BY DEF IInv
<1>2. g \in [Items -> Nat]
  BY <1>1 DEF TypeOK, OrZero
<1>3. logged \in SUBSET Ids /\ \A i \in Items : g[i] <= SumCost(BillsOf(i, logged))
  BY <1>1 DEF IInv, TypeOK, BookedIsLogged
<1>4. SumBilled = SumFunctionOnSet(g, Items)
  BY DEF SumBilled
<1> HIDE DEF g
<1>5. SumBilled \in Nat /\ SumBilled <= SumCost(logged)
  BY <1>2, <1>3, <1>4, CostByImage, SumNat, SettlementAssumption
<1>6. TypeOK'
  BY <1>0, <1>1, <1>5 DEF TypeOK
<1>7. Outcome' /\ BookedIsLogged' /\ BillsAreReal'
  BY <1>0 DEF IInv, Outcome, Required, RequiredID, BookedIsLogged, OrZero, BillsOf, BillsAreReal
<1>8. HoldTracksBilled' /\ ClosedHasNoHold' /\ DeliveredIsPaid'
  BY <1>0 DEF HoldTracksBilled, ClosedHasNoHold, DeliveredIsPaid
<1>9. NeverOvercharged'
  BY <1>0, <1>5 DEF NeverOvercharged
<1>10. AlertOnceClosed'
  BY <1>0 DEF IInv, AlertOnceClosed
<1>11. RoundIsExact'
  BY <1>0, RoundStays
<1> QED
  BY <1>6, <1>7, <1>8, <1>9, <1>10, <1>11 DEF IInv

\* Nothing happens.
LEMMA StutterStep == ASSUME IInv, UNCHANGED vars PROVE IInv'
<1> USE DEF vars, rowVars, loopVars
<1>1. TypeOK' /\ BillsAreReal'
  BY DEF IInv, TypeOK, BillsAreReal, factVars
<1> QED
  BY <1>1, RowsStay, RoundStays, AlertsStay DEF IInv

\* Every step keeps the invariant, action by action.
LEMMA NextStep == IInv /\ [Next]_vars => IInv'
<1> SUFFICES ASSUME IInv, [Next]_vars PROVE IInv'
  OBVIOUS
<1>1. CASE \E id \in Ids : WriteUsageLog(id)
  BY <1>1, WriteUsageLogStep
<1>2. CASE GrowOld
  BY <1>2, GrowOldStep
<1>3. CASE ListPending
  BY <1>3, ListPendingStep
<1>4. CASE ReadBills
  BY <1>4, ReadBillsStep
<1>5. CASE \E i \in Items : ApplyItemBilling(i)
  BY <1>5, ApplyItemBillingStep
<1>6. CASE SettleJob
  BY <1>6, SettleJobStep
<1>7. CASE RecordAlert
  BY <1>7, RecordAlertStep
<1>8. CASE ReadBillsFails
  BY <1>8, ReadBillsFailsStep
<1>9. CASE ReapStuckSettling
  BY <1>9, ReapStep
<1>10. CASE Restart
  BY <1>10, RestartStep
<1>11. CASE UNCHANGED vars
  BY <1>11, StutterStep
<1> QED
  BY <1>1, <1>2, <1>3, <1>4, <1>5, <1>6, <1>7, <1>8, <1>9, <1>10, <1>11 DEF Next, LoopStep

-----------------------------------------------------------------------------
(* The theorems                                                            *)

\* The invariant holds throughout.
LEMMA Inductive == Spec => []IInv
BY InitStep, NextStep, PTL DEF Spec

\* Rows and loop are well typed; in particular no hold becomes negative.
THEOREM SettlementTypeCorrect == Spec => []TypeOK
<1>1. IInv => TypeOK
  BY DEF IInv
<1> QED
  BY <1>1, Inductive, PTL

\* The open hold is what was frozen less what is booked: no failing statement, restart or
\* repeated round of the loop takes an image off the hold twice (ApplyItemBilling).
THEOREM HoldFollowsBookings == Spec => []HoldTracksBilled
<1>1. IInv => HoldTracksBilled
  BY DEF IInv
<1> QED
  BY <1>1, Inductive, PTL

\* A batch that SettleJob closes without force has paid for every image it delivered.
THEOREM DeliveryIsPaidFor == Spec => []DeliveredIsPaid
<1>1. IInv => DeliveredIsPaid
  BY DEF IInv
<1> QED
  BY <1>1, Inductive, PTL

\* Whoever closes the batch, loop or reaper, actual_cost is no more than usage_logs says.
THEOREM NoOvercharge == Spec => []NeverOvercharged
<1>1. IInv => NeverOvercharged
  BY DEF IInv
<1> QED
  BY <1>1, Inductive, PTL

\* However often a settlement is retried, it leaves at most one alert.
THEOREM OneAlert == Spec => []AtMostOneAlert
<1>1. IInv => AtMostOneAlert
  BY DEF IInv, AlertOnceClosed, AtMostOneAlert
<1> QED
  BY <1>1, Inductive, PTL

\* The loop closes a batch with the sum of all bills it read at its last look-up: all
\* attempts, those of failed images too, and whatever earlier rounds booked is not added again.
THEOREM EveryBillCounted == Spec => AllAttemptsCounted
<1>1. IInv /\ [Next]_vars =>
         [closedBy = "none" /\ closedBy' \in {"settler", "forced"} => actual' = SumCost(seen)]_vars
  <2> SUFFICES ASSUME IInv, Next, closedBy = "none", closedBy' \in {"settler", "forced"}
               PROVE  actual' = SumCost(seen)
    OBVIOUS
  <2>1. CASE SettleJob
    <3>1. pc = "booking" /\ todo = {} /\ actual' = total
      BY <2>1 DEF SettleJob, Close
    <3> QED
      BY <3>1, TotalIsComplete
  <2>2. CASE ReapStuckSettling
    BY <2>2 DEF ReapStuckSettling
  <2>3. CASE closedBy' = closedBy
    BY <2>3
  <2>4. SettleJob \/ ReapStuckSettling \/ closedBy' = closedBy
    BY DEF Next, LoopStep, WriteUsageLog, GrowOld, ListPending, ReadBills, ApplyItemBilling, RecordAlert,
           ReadBillsFails, Restart, rowVars
  <2> QED
    BY <2>1, <2>2, <2>3, <2>4
<1> QED
  BY <1>1, Inductive, PTL DEF Spec, AllAttemptsCounted

\* Once loop or reaper has closed a batch, a round of the other that is still under way
\* changes neither actual_cost nor the hold: SettleJob finds settled_at set and
\* decrementHoldSQL finds no open hold.
THEOREM ClosedForGood == Spec => ClosedBooksStayClosed
<1>1. IInv /\ [Next]_vars => [closedBy # "none" => UNCHANGED <<actual, hold, closedBy>>]_vars
  <2> SUFFICES ASSUME IInv, Next, closedBy # "none" PROVE UNCHANGED <<actual, hold, closedBy>>
    OBVIOUS
  <2>1. hold = NULL
    BY DEF IInv, ClosedHasNoHold
  <2>2. CASE SettleJob
    BY <2>2 DEF SettleJob, Closable
  <2>3. CASE \E i \in Items : ApplyItemBilling(i)
    BY <2>1, <2>3 DEF ApplyItemBilling, Decrement
  <2>4. CASE ReapStuckSettling
    BY <2>4 DEF ReapStuckSettling
  <2>5. CASE UNCHANGED <<actual, hold, closedBy>>
    BY <2>5
  <2>6. \/ SettleJob \/ ReapStuckSettling \/ (\E i \in Items : ApplyItemBilling(i))
        \/ UNCHANGED <<actual, hold, closedBy>>
    BY DEF Next, LoopStep, WriteUsageLog, GrowOld, ListPending, ReadBills, RecordAlert,
           ReadBillsFails, Restart, rowVars
  <2> QED
    BY <2>2, <2>3, <2>4, <2>5, <2>6
<1> QED
  BY <1>1, Inductive, PTL DEF Spec, ClosedBooksStayClosed

-----------------------------------------------------------------------------
(* What is left of actual_cost = SUM(items.billed_cost)                    *)

\* After the loop has closed the batch it does not come back to it.
LoopIsDone == closedBy \in {"settler", "forced"} => pc \in {"idle", "alerting"}

\* Whoever closes the batch writes actual_cost.
ClosedHasCost == closedBy # "none" => actual # NULL

\* The loop may close above what is booked (a booking failed), never below; the reaper closes
\* with what is booked, and a round still under way may book more, never less.
GapHasOneSign ==
    /\ closedBy \in {"settler", "forced"} => SumBilled <= actual
    /\ closedBy = "reaper" => actual <= SumBilled

\* Every batch has a sum of bookings.
LEMMA BilledIsNat == ASSUME TypeOK PROVE SumBilled \in Nat
<1> DEFINE g == [i \in Items |-> OrZero(billed[i])]
<1>1. \A i \in Items : g[i] \in Nat
  BY DEF TypeOK, OrZero
<1>2. SumBilled = SumFunctionOnSet(g, Items)
  BY DEF SumBilled
<1> HIDE DEF g
<1> QED
  BY <1>1, <1>2, SumNat, SettlementAssumption

\* A booking never lowers it.
LEMMA BookingOnlyAdds ==
    ASSUME IInv, TypeOK', NEW i \in Items, ApplyItemBilling(i)
    PROVE  SumBilled <= SumBilled'
<1> DEFINE f == [j \in Items |-> OrZero(billed[j])]
           g == [j \in Items |-> OrZero(billed'[j])]
<1>1. billed' = billed \/ billed' = [billed EXCEPT ![i] = ItemTotal(i)]
  BY DEF ApplyItemBilling
<1>2. billed \in [Items -> Nat \cup {NULL}] /\ billed' \in [Items -> Nat \cup {NULL}]
  BY DEF IInv, TypeOK
<1>3. ItemTotal(i) \in Nat /\ OrZero(billed[i]) <= ItemTotal(i)
  BY ItemTotalIs DEF IInv, ApplyItemBilling, RoundIsExact
<1>4. \A j \in Items : OrZero(billed[j]) \in Nat /\ OrZero(billed'[j]) \in Nat
  BY <1>2 DEF OrZero
<1>5. \A j \in Items : billed'[j] = billed[j] \/ (j = i /\ billed'[j] = ItemTotal(i))
  BY <1>1, <1>2
<1>6. ASSUME NEW j \in Items PROVE OrZero(billed[j]) <= OrZero(billed'[j])
  <2>1. CASE billed'[j] = billed[j]
    BY <1>4, <2>1
  <2>2. CASE j = i /\ billed'[j] = ItemTotal(i)
    <3>1. OrZero(billed'[j]) = ItemTotal(i)
      BY <1>3, <2>2, SettlementAssumption DEF OrZero
    <3> QED
      BY <1>3, <2>2, <3>1
  <2> QED
    BY <1>5, <2>1, <2>2
<1>7. \A j \in Items : f[j] \in Int /\ g[j] \in Int /\ f[j] <= g[j]
  BY <1>4, <1>6
<1>8. SumBilled = SumFunctionOnSet(f, Items) /\ SumBilled' = SumFunctionOnSet(g, Items)
  BY DEF SumBilled, OrZero
<1> HIDE DEF f, g
<1> QED
  BY <1>7, <1>8, SumPointwise, SettlementAssumption

\* At the end of a round no more is booked than was read.
LEMMA BookedIsRead == ASSUME IInv, pc = "booking" PROVE SumBilled <= SumCost(seen)
<1> DEFINE g == [i \in Items |-> OrZero(billed[i])]
<1>1. g \in [Items -> Nat] /\ seen \in SUBSET Ids
  BY DEF IInv, TypeOK, OrZero
<1>2. \A i \in Items : g[i] <= SumCost(BillsOf(i, seen))
  BY DEF IInv, RoundIsExact
<1>3. SumBilled = SumFunctionOnSet(g, Items)
  BY DEF SumBilled
<1> HIDE DEF g
<1> QED
  BY <1>1, <1>2, <1>3, CostByImage

\* Every step keeps the gap's sign.
LEMMA GapStep ==
    ASSUME IInv, IInv', LoopIsDone, ClosedHasCost, GapHasOneSign, [Next]_vars
    PROVE  LoopIsDone' /\ ClosedHasCost' /\ GapHasOneSign'
<1>0. SumBilled \in Nat /\ actual \in Nat \cup {NULL} /\ TypeOK'
  BY BilledIsNat DEF IInv, TypeOK
<1>1. CASE UNCHANGED <<billed, actual, closedBy>> /\ (pc' = pc \/ pc' = "idle" \/ closedBy = "none" \/ pc = "listed")
  <2>1. SumBilled' = SumBilled
    BY <1>1 DEF SumBilled, OrZero
  <2> QED
    BY <1>1, <2>1 DEF LoopIsDone, ClosedHasCost, GapHasOneSign
<1>2. CASE \E i \in Items : ApplyItemBilling(i)
  <2>1. SumBilled <= SumBilled'
    BY <1>0, <1>2, BookingOnlyAdds
  <2>2. pc = "booking" /\ pc' = pc /\ actual' = actual /\ closedBy' = closedBy
    BY <1>2 DEF ApplyItemBilling
  <2>3. SumBilled' \in Nat
    <3> DEFINE g == [i \in Items |-> OrZero(billed'[i])]
    <3>1. \A i \in Items : g[i] \in Nat
      BY <1>0 DEF TypeOK, OrZero
    <3>2. SumBilled' = SumFunctionOnSet(g, Items)
      BY DEF SumBilled, OrZero
    <3> HIDE DEF g
    <3> QED
      BY <3>1, <3>2, SumNat, SettlementAssumption
  <2>4. closedBy \notin {"settler", "forced"}
    BY <2>2 DEF LoopIsDone
  <2>5. closedBy = "reaper" => actual <= SumBilled /\ actual \in Nat
    BY <1>0 DEF ClosedHasCost, GapHasOneSign
  <2> QED
    BY <1>0, <2>1, <2>2, <2>3, <2>4, <2>5 DEF LoopIsDone, ClosedHasCost, GapHasOneSign
<1>3. CASE SettleJob
  <2>1. SumBilled' = SumBilled
    BY <1>3 DEF SettleJob, SumBilled, OrZero
  <2>2. CASE closedBy = "none" /\ actual' = total /\ pc' \in {"idle", "alerting"} /\ closedBy' \in {"forced", "settler"}
    <3>1. pc = "booking" /\ todo = {}
      BY <1>3 DEF SettleJob
    <3>2. SumBilled <= actual'
      BY <2>2, <3>1, TotalIsComplete, BookedIsRead
    <3>3. actual' # NULL
      BY <2>2, SettlementAssumption DEF IInv, TypeOK
    <3> QED
      BY <2>1, <2>2, <3>2, <3>3 DEF LoopIsDone, ClosedHasCost, GapHasOneSign
  <2>3. CASE UNCHANGED <<actual, closedBy>> /\ pc' = "idle"
    BY <2>1, <2>3 DEF LoopIsDone, ClosedHasCost, GapHasOneSign
  <2> QED
    BY <1>3, <2>2, <2>3 DEF SettleJob, Closable, Close, AfterSettle
<1>4. CASE ReapStuckSettling
  <2>1. SumBilled' = SumBilled
    BY <1>4 DEF ReapStuckSettling, SumBilled, OrZero
  <2> QED
    BY <1>0, <1>4, <2>1, SettlementAssumption DEF ReapStuckSettling, Close, LoopIsDone, ClosedHasCost, GapHasOneSign
<1>5. \/ SettleJob \/ ReapStuckSettling \/ (\E i \in Items : ApplyItemBilling(i))
      \/ UNCHANGED <<billed, actual, closedBy>> /\ (pc' = pc \/ pc' = "idle" \/ closedBy = "none" \/ pc = "listed")
  BY DEF Next, LoopStep, WriteUsageLog, GrowOld, ListPending, ReadBills, RecordAlert,
         ReadBillsFails, Restart, rowVars, loopVars, vars
<1> QED
  BY <1>1, <1>2, <1>3, <1>4, <1>5

\* Iron law 1 of settlement fails in one direction per closer only: a batch the loop closed is
\* never charged less than its images are booked, one the reaper closed never more.
THEOREM IronLawUpToSign == Spec => []GapHasOneSign
<1>1. Init => LoopIsDone /\ ClosedHasCost /\ GapHasOneSign
  BY DEF Init, LoopIsDone, ClosedHasCost, GapHasOneSign
<1> QED
  BY <1>1, GapStep, Inductive, PTL DEF Spec
=============================================================================
