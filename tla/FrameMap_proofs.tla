--------------------------- MODULE FrameMap_proofs ---------------------------
(***************************************************************************)
(* FindFDE's bisection, for maps of any size: its assertion is never       *)
(* reached, it stays inside the arrays from the first entry up, and it is  *)
(* right in every sorted map.                                              *)
(***************************************************************************)
EXTENDS FrameMap, WellFoundedInduction, TLAPS

\* Below every set of numbers that is not empty lies one of its members.
LEMMA HasLeast ==
  ASSUME NEW S, S \subseteq Nat, S # {}
  PROVE  \E s \in S : \A r \in S : s <= r
<1> DEFINE R == OpToRel(<, Nat)
<1>1. IsWellFoundedOn(R, Nat)
  BY NatLessThanWellFounded
<1>2. \A x, y \in Nat : x < y => <<x, y>> \in R
  BY DEF OpToRel
<1> HIDE DEF R
<1>3. PICK s \in S : \A r \in S : <<r, s>> \notin R
  BY <1>1, WFMin
<1>4. \A r \in S : ~(r < s)
  BY <1>2, <1>3
<1> QED  BY <1>4

-----------------------------------------------------------------------------
(* The inductive invariant                                                 *)

\* A map that is looked things up in is closed by MAX_u64, and nothing is
\* looked up before.
ClosedInv ==
  /\ phase = "build" => pc = None /\ Len(PCs) <= MaxFDEs
  /\ phase # "build" => PCs # <<>> /\ PCs[Len(PCs)] = MaxU64

\* The entry at low starts at or below the pc, unless low never moved; the one
\* after high is above it, unless high is still the size of the map.  Once high
\* has wrapped around, the next turn leaves the arrays.
Bounded ==
  /\ low <= high /\ high <= Len(PCs)
  /\ high < Len(PCs) - 1 => pc < PCs[high + 2]

Wrapped == low = 0 /\ high = U32 - 1 /\ pc < PCs[1]

IntervalInv ==
  phase = "search" =>
    /\ low < Len(PCs)
    /\ low > 0 => PCs[low + 1] <= pc
    /\ Bounded \/ Wrapped

\* The entries behind the first are in order.
TailSorted(s) == \A i, j \in 2 .. Len(s) : i < j => s[i] < s[j]

Distinct(s) == \A i, j \in 1 .. Len(s) : i < j => s[i] # s[j]

SortInv ==
  /\ TailSorted(PCs) /\ Distinct(PCs)
  /\ phase = "build" => \A i \in 1 .. Len(PCs) : PCs[i] < MaxU64

SearchingInv == phase = "search" => pc \in Addresses

IInv ==
  /\ TypeOK /\ MapPaired
  /\ SortInv /\ ClosedInv /\ SearchingInv /\ IntervalInv
  /\ SearchInside /\ FoundNearest

\* The number in the middle of an interval lies in it.
LEMMA Middle ==
  ASSUME TypeOK, low <= high, high <= Len(PCs)
  PROVE  /\ Index \in Nat
         /\ low <= Index /\ Index <= high
         /\ low < high => Index < high
<1>1. low \in Nat /\ high \in Nat /\ Len(PCs) \in Nat /\ MaxFDEs \in Nat /\ U32 \in Nat
  BY FrameMapAssumption DEF TypeOK
<1>2. low + high < U32
  BY <1>1, FrameMapAssumption DEF TypeOK
<1>3. (low + high) % U32 = low + high
  BY <1>1, <1>2
<1>4. Index = (low + high) \div 2
  BY <1>3 DEF Index
<1> QED  BY <1>1, <1>4

\* Inserting an element lengthens a sequence by one.
LEMMA InsertedType ==
  ASSUME NEW S, NEW s \in Seq(S), NEW n \in 1 .. Len(s) + 1, NEW a \in S
  PROVE  Inserted(s, n, a) \in Seq(S) /\ Len(Inserted(s, n, a)) = Len(s) + 1
<1>1. Len(s) \in Nat /\ DOMAIN s = 1 .. Len(s) /\ \A i \in 1 .. Len(s) : s[i] \in S
  OBVIOUS
<1>2. \A i \in 1 .. Len(s) + 1 : i < n => i \in 1 .. Len(s)
  BY <1>1
<1>3. \A i \in 1 .. Len(s) + 1 : i > n => i - 1 \in 1 .. Len(s)
  BY <1>1
<1>4. \A i \in 1 .. Len(s) + 1 :
        (IF i < n THEN s[i] ELSE IF i = n THEN a ELSE s[i - 1]) \in S
  BY <1>1, <1>2, <1>3
<1> QED  BY <1>1, <1>4 DEF Inserted

\* There is a place for an address in every sequence.
LEMMA PlaceOK ==
  ASSUME NEW s \in Seq(Nat), NEW a \in Nat
  PROVE  /\ Place(s, a) \in 1 .. Len(s) + 1
         /\ \A i \in Place(s, a) .. Len(s) : s[i] > a
         /\ Place(s, a) <= 2 \/ s[Place(s, a) - 1] <= a
         /\ Place(s, a) = 1 => s = <<>>
<1>1. Len(s) \in Nat /\ \A i \in 1 .. Len(s) : s[i] \in Nat
  OBVIOUS
<1> DEFINE P(n) == /\ \A i \in n .. Len(s) : s[i] > a
                   /\ n <= 2 \/ s[n - 1] <= a
                   /\ n = 1 => s = <<>>
<1>2. \E n \in 1 .. Len(s) + 1 : P(n)
  <2>1. CASE s = <<>>
    <3>1. P(1) /\ 1 \in 1 .. Len(s) + 1
      BY <2>1
    <3> QED  BY <3>1
  <2>2. CASE s # <<>>
    <3> DEFINE T == {n \in 2 .. Len(s) + 1 : \A i \in n .. Len(s) : s[i] > a}
    <3>1. Len(s) >= 1
      BY <1>1, <2>2
    <3>2. Len(s) + 1 \in T /\ T \subseteq Nat
      BY <1>1, <3>1
    <3>3. PICK n \in T : \A m \in T : n <= m
      BY <3>2, HasLeast
    <3>4. n \in 2 .. Len(s) + 1 /\ \A i \in n .. Len(s) : s[i] > a
      BY <3>3
    <3>5. n <= 2 \/ s[n - 1] <= a
      <4> SUFFICES ASSUME n > 2, ~(s[n - 1] <= a)  PROVE FALSE
        BY <3>4
      <4>1. n - 1 \in 2 .. Len(s) /\ n - 1 \in 1 .. Len(s)
        BY <1>1, <3>4
      <4>2. s[n - 1] > a
        BY <1>1, <4>1
      <4>3. \A i \in n - 1 .. Len(s) : s[i] > a
        BY <1>1, <3>4, <4>2
      <4>4. n - 1 \in T
        BY <1>1, <4>1, <4>3
      <4> QED  BY <3>3, <3>4, <4>4
    <3>6. n # 1
      BY <3>4
    <3> QED  BY <3>4, <3>5, <3>6
  <2> QED  BY <2>1, <2>2
<1> HIDE DEF P
<1>3. Place(s, a) = CHOOSE n \in 1 .. Len(s) + 1 : P(n)
  BY DEF Place, P
<1>4. Place(s, a) \in 1 .. Len(s) + 1 /\ P(Place(s, a))
  BY <1>2, <1>3
<1> QED  BY <1>4 DEF P

\* An address put in its place keeps the order of the entries behind the first.
LEMMA InsertedSorted ==
  ASSUME NEW s \in Seq(Nat), NEW a \in Nat, TailSorted(s), Distinct(s),
         \A i \in 1 .. Len(s) : s[i] # a
  PROVE  LET t == Inserted(s, Place(s, a), a)
         IN  TailSorted(t) /\ Distinct(t)
<1> DEFINE n == Place(s, a)
           t == Inserted(s, n, a)
<1>1. /\ n \in 1 .. Len(s) + 1
      /\ \A i \in n .. Len(s) : s[i] > a
      /\ n <= 2 \/ s[n - 1] <= a
      /\ n = 1 => s = <<>>
  BY PlaceOK
<1> HIDE DEF n
<1>2. Len(s) \in Nat /\ n \in Nat /\ \A i \in 1 .. Len(s) : s[i] \in Nat
  BY <1>1
<1>3. Len(t) = Len(s) + 1
  BY <1>1, <1>2, InsertedType
<1>4. /\ \A i \in 1 .. Len(s) + 1 : i < n => t[i] = s[i] /\ i \in 1 .. Len(s)
      /\ t[n] = a
      /\ \A i \in 1 .. Len(s) + 1 : i > n => t[i] = s[i - 1] /\ i - 1 \in 1 .. Len(s)
  BY <1>1, <1>2 DEF Inserted
<1> HIDE DEF t
<1>5. TailSorted(t)
  <2> SUFFICES ASSUME NEW i \in 2 .. Len(s) + 1, NEW j \in 2 .. Len(s) + 1, i < j
               PROVE  t[i] < t[j]
    BY <1>3 DEF TailSorted
  <2>0. i \in 1 .. Len(s) + 1 /\ j \in 1 .. Len(s) + 1 /\ i \in Nat /\ j \in Nat
    BY <1>2
  <2>a. n # 1
    BY <1>1, <1>2, <2>0
  <2>1. CASE j < n
    <3>1. t[i] = s[i] /\ t[j] = s[j] /\ i \in 2 .. Len(s) /\ j \in 2 .. Len(s)
      BY <1>2, <1>4, <2>0, <2>1
    <3> QED  BY <3>1 DEF TailSorted
  <2>2. CASE j = n
    <3>1. t[i] = s[i] /\ t[j] = a /\ i \in 2 .. Len(s) /\ n - 1 \in 2 .. Len(s)
      BY <1>1, <1>2, <1>4, <2>0, <2>2
    <3>2. s[n - 1] < a
      <4>1. n - 1 \in 1 .. Len(s) /\ ~(n <= 2)
        BY <1>1, <1>2, <2>0, <2>2
      <4> QED  BY <4>1, <1>1, <1>2
    <3>3. s[i] <= s[n - 1]
      <4>1. i = n - 1 \/ i < n - 1
        BY <1>2, <2>0, <2>2
      <4>2. s[i] \in Nat /\ s[n - 1] \in Nat
        BY <1>2, <3>1
      <4> QED  BY <4>1, <4>2, <3>1 DEF TailSorted
    <3>4. s[i] \in Nat /\ s[n - 1] \in Nat
      BY <1>2, <3>1
    <3> QED  BY <3>1, <3>2, <3>3, <3>4
  <2>3. CASE i < n /\ n < j
    <3>1. t[i] = s[i] /\ t[j] = s[j - 1] /\ i \in 2 .. Len(s) /\ j - 1 \in 2 .. Len(s) /\ i < j - 1
      BY <1>2, <1>4, <2>0, <2>3
    <3> QED  BY <3>1 DEF TailSorted
  <2>4. CASE i = n
    <3>1. t[i] = a /\ t[j] = s[j - 1] /\ j - 1 \in n .. Len(s) /\ j - 1 \in 1 .. Len(s)
      BY <1>2, <1>4, <2>0, <2>4
    <3>2. s[j - 1] > a
      BY <1>1, <3>1
    <3> QED  BY <1>2, <3>1, <3>2
  <2>5. CASE n < i
    <3>1. /\ t[i] = s[i - 1] /\ t[j] = s[j - 1] /\ i - 1 < j - 1
          /\ i - 1 \in 2 .. Len(s) /\ j - 1 \in 2 .. Len(s)
      BY <1>1, <1>2, <1>4, <2>0, <2>5, <2>a
    <3> QED  BY <3>1 DEF TailSorted
  <2> QED  BY <1>2, <2>0, <2>1, <2>2, <2>3, <2>4, <2>5
<1>6. Distinct(t)
  <2> SUFFICES ASSUME NEW i \in 1 .. Len(s) + 1, NEW j \in 1 .. Len(s) + 1, i < j
               PROVE  t[i] # t[j]
    BY <1>3 DEF Distinct
  <2>0. i \in Nat /\ j \in Nat
    BY <1>2
  <2>1. CASE j < n
    <3>1. t[i] = s[i] /\ t[j] = s[j] /\ i \in 1 .. Len(s) /\ j \in 1 .. Len(s)
      BY <1>2, <1>4, <2>0, <2>1
    <3> QED  BY <3>1 DEF Distinct
  <2>2. CASE i < n /\ n < j
    <3>1. t[i] = s[i] /\ t[j] = s[j - 1] /\ i \in 1 .. Len(s) /\ j - 1 \in 1 .. Len(s) /\ i < j - 1
      BY <1>2, <1>4, <2>0, <2>2
    <3> QED  BY <3>1 DEF Distinct
  <2>3. CASE n < i
    <3>1. /\ t[i] = s[i - 1] /\ t[j] = s[j - 1] /\ i - 1 < j - 1
          /\ i - 1 \in 1 .. Len(s) /\ j - 1 \in 1 .. Len(s)
      BY <1>2, <1>4, <2>0, <2>3
    <3> QED  BY <3>1 DEF Distinct
  <2>4. CASE i = n
    <3>1. t[i] = a /\ t[j] = s[j - 1] /\ j - 1 \in 1 .. Len(s)
      BY <1>2, <1>4, <2>0, <2>4
    <3> QED  BY <3>1
  <2>5. CASE j = n
    <3>1. t[j] = a /\ t[i] = s[i] /\ i \in 1 .. Len(s)
      BY <1>2, <1>4, <2>0, <2>5
    <3> QED  BY <3>1
  <2> QED  BY <1>2, <2>0, <2>1, <2>2, <2>3, <2>4, <2>5
<1> QED  BY <1>5, <1>6 DEF t, n

\* The map is empty and nothing has been looked up.
LEMMA InitOK == Init => IInv
BY FrameMapAssumption
   DEF Init, IInv, TypeOK, MapPaired, SortInv, TailSorted, Distinct, ClosedInv, SearchingInv, IntervalInv, SearchInside,
       FoundNearest, None

\* Building the map keeps it in order.
LEMMA SortStep ==
  ASSUME IInv, AddFDE \/ CloseMap
  PROVE  SortInv'
<1>1. /\ phase = "build" /\ PCs \in Seq(Nat) /\ TailSorted(PCs) /\ Distinct(PCs)
      /\ \A i \in 1 .. Len(PCs) : PCs[i] < MaxU64
      /\ MaxU64 \in Nat
  <2>1. MaxU64 \in Nat /\ PCs \in Seq(0 .. MaxU64)
    BY FrameMapAssumption DEF IInv, TypeOK
  <2>2. PCs \in Seq(Nat)
    BY <2>1
  <2>3. phase = "build"
    BY DEF AddFDE, CloseMap
  <2> QED  BY <2>1, <2>2, <2>3 DEF IInv, SortInv
<1>2. Len(PCs) \in Nat /\ DOMAIN PCs = 1 .. Len(PCs) /\ \A i \in 1 .. Len(PCs) : PCs[i] \in Nat
  BY <1>1
<1>3. CASE AddFDE
  <2>1. PICK a \in Locations :
          /\ \A i \in DOMAIN PCs : PCs[i] # a
          /\ PCs' = Inserted(PCs, Place(PCs, a), a)
    BY <1>3 DEF AddFDE
  <2>2. a \in Nat /\ a < MaxU64
    BY FrameMapAssumption
  <2>3. TailSorted(PCs') /\ Distinct(PCs')
    BY <1>1, <1>2, <2>1, <2>2, InsertedSorted
  <2>4. Place(PCs, a) \in 1 .. Len(PCs) + 1
    BY <1>1, <2>2, PlaceOK
  <2> DEFINE n == Place(PCs, a)
  <2> HIDE DEF n
  <2>5. /\ n \in 1 .. Len(PCs) + 1 /\ PCs' = Inserted(PCs, n, a)
        /\ Len(PCs') = Len(PCs) + 1
    BY <1>1, <2>1, <2>2, <2>4, InsertedType DEF n
  <2>6. ASSUME NEW i \in 1 .. Len(PCs')  PROVE PCs'[i] < MaxU64
    <3>1. i \in 1 .. Len(PCs) + 1
      BY <2>5
    <3>2. PCs'[i] = IF i < n THEN PCs[i] ELSE IF i = n THEN a ELSE PCs[i - 1]
      BY <2>5, <3>1 DEF Inserted
    <3>3. (i < n => i \in 1 .. Len(PCs)) /\ (i > n => i - 1 \in 1 .. Len(PCs))
      BY <1>2, <2>5, <3>1
    <3>4. i < n \/ i = n \/ i > n
      BY <1>2, <2>5, <3>1
    <3> QED  BY <1>1, <1>2, <2>2, <3>2, <3>3, <3>4
  <2> QED  BY <2>3, <2>6 DEF SortInv
<1>4. CASE CloseMap
  <2>1. PCs' = Append(PCs, MaxU64) /\ phase' = "idle"
    BY <1>4 DEF CloseMap
  <2>2. /\ Len(PCs') = Len(PCs) + 1 /\ PCs'[Len(PCs) + 1] = MaxU64
        /\ \A i \in 1 .. Len(PCs) : PCs'[i] = PCs[i]
    BY <1>1, <1>2, <2>1
  <2>3. TailSorted(PCs')
    <3> SUFFICES ASSUME NEW i \in 2 .. Len(PCs) + 1, NEW j \in 2 .. Len(PCs) + 1, i < j
                 PROVE  PCs'[i] < PCs'[j]
      BY <2>2 DEF TailSorted
    <3>1. i \in 2 .. Len(PCs) /\ i \in 1 .. Len(PCs) /\ j \in 1 .. Len(PCs) + 1
      BY <1>2
    <3>2. CASE j = Len(PCs) + 1
      BY <1>1, <2>2, <3>1, <3>2
    <3>3. CASE j # Len(PCs) + 1
      <4>1. j \in 2 .. Len(PCs) /\ j \in 1 .. Len(PCs)
        BY <1>2, <3>3
      <4> QED  BY <1>1, <2>2, <3>1, <4>1 DEF TailSorted
    <3> QED  BY <3>2, <3>3
  <2>4. Distinct(PCs')
    <3> SUFFICES ASSUME NEW i \in 1 .. Len(PCs) + 1, NEW j \in 1 .. Len(PCs) + 1, i < j
                 PROVE  PCs'[i] # PCs'[j]
      BY <2>2 DEF Distinct
    <3>1. i \in 1 .. Len(PCs)
      BY <1>2
    <3>2. CASE j = Len(PCs) + 1
      BY <1>1, <1>2, <2>2, <3>1, <3>2
    <3>3. CASE j # Len(PCs) + 1
      <4>1. j \in 1 .. Len(PCs)
        BY <1>2, <3>3
      <4> QED  BY <1>1, <2>2, <3>1, <4>1 DEF Distinct
    <3> QED  BY <3>2, <3>3
  <2> QED  BY <2>1, <2>3, <2>4 DEF SortInv
<1> QED  BY <1>3, <1>4

\* Building the map.
LEMMA BuildStep ==
  ASSUME IInv, AddFDE \/ CloseMap
  PROVE  IInv'
<1> USE DEF IInv
<1>1. /\ phase = "build" /\ pc = None /\ pc' = None /\ phase' \in {"build", "idle"}
      /\ UNCHANGED <<low, high, found>>
  BY DEF AddFDE, CloseMap, ClosedInv
<1>2. MaxU64 \in Nat /\ MaxU64 \in 0 .. MaxU64 /\ MaxFDEs \in Nat
  BY FrameMapAssumption
<1>3. /\ PCs' \in Seq(0 .. MaxU64) /\ FDEAddresses' = PCs'
      /\ Len(PCs') <= (IF phase' = "build" THEN MaxFDEs ELSE MaxFDEs + 1)
      /\ phase' = "idle" => PCs' # <<>> /\ PCs'[Len(PCs')] = MaxU64
  <2>1. CASE AddFDE
    <3>1. PICK a \in Locations :
            /\ PCs' = Inserted(PCs, Place(PCs, a), a)
            /\ FDEAddresses' = Inserted(FDEAddresses, Place(PCs, a), a)
      BY <2>1 DEF AddFDE
    <3>2. a \in Nat /\ a \in 0 .. MaxU64
      BY FrameMapAssumption
    <3>3. PCs \in Seq(0 .. MaxU64) /\ PCs \in Seq(Nat)
      BY <1>2 DEF TypeOK
    <3>4. Place(PCs, a) \in 1 .. Len(PCs) + 1
      BY <3>2, <3>3, PlaceOK
    <3>5. PCs' \in Seq(0 .. MaxU64) /\ Len(PCs') = Len(PCs) + 1
      <4> DEFINE S == 0 .. MaxU64
      <4>1. PCs \in Seq(S) /\ a \in S
        BY <3>2, <3>3
      <4> HIDE DEF S
      <4>2. Inserted(PCs, Place(PCs, a), a) \in Seq(S)
            /\ Len(Inserted(PCs, Place(PCs, a), a)) = Len(PCs) + 1
        BY <4>1, <3>4, InsertedType
      <4> QED  BY <4>2, <3>1 DEF S
    <3>6. phase' = "build" /\ Len(PCs) < MaxFDEs /\ Len(PCs) \in Nat
      BY <2>1, <3>3 DEF AddFDE
    <3> QED  BY <3>1, <3>5, <3>6, <1>2 DEF MapPaired
  <2>2. CASE CloseMap
    <3>1. PCs \in Seq(0 .. MaxU64) /\ Len(PCs) <= MaxFDEs /\ Len(PCs) \in Nat
      BY <1>1 DEF TypeOK, ClosedInv
    <3>2. PCs' = Append(PCs, MaxU64) /\ FDEAddresses' = PCs' /\ phase' = "idle"
      BY <2>2 DEF CloseMap, MapPaired
    <3> QED  BY <3>1, <3>2, <1>2
  <2> QED  BY <2>1, <2>2
<1>4. TypeOK'
  <2>1. Len(PCs') <= MaxFDEs + 1
    BY <1>1, <1>2, <1>3 DEF TypeOK
  <2> QED  BY <1>1, <1>3, <2>1 DEF TypeOK
<1>5. MapPaired' /\ ClosedInv'
  BY <1>1, <1>3 DEF MapPaired, ClosedInv
<1>6. SearchingInv' /\ IntervalInv' /\ SearchInside' /\ FoundNearest'
  BY <1>1 DEF SearchingInv, IntervalInv, SearchInside, FoundNearest
<1> QED  BY <1>4, <1>5, <1>6, SortStep

\* A lookup starts with the whole map.
LEMMA SearchStep ==
  ASSUME IInv, Search
  PROVE  IInv'
<1> USE DEF IInv, Search
<1>1. PCs' = PCs /\ FDEAddresses' = FDEAddresses /\ found' = found
  BY DEF map
<1>2. Len(PCs) \in Nat /\ PCs # <<>> /\ Len(PCs) > 0
  BY DEF TypeOK, ClosedInv
<1>3. Len(PCs) \in 0 .. U32 - 1 /\ 0 \in 0 .. U32 - 1
  BY <1>2, FrameMapAssumption DEF TypeOK
<1>4. TypeOK'
  BY <1>1, <1>3 DEF TypeOK
<1>5. MapPaired' /\ SortInv' /\ ClosedInv' /\ SearchingInv'
  BY <1>1 DEF MapPaired, SortInv, TailSorted, Distinct, ClosedInv, SearchingInv
<1>6. IntervalInv'
  BY <1>1, <1>2 DEF IntervalInv, Bounded
<1>7. SearchInside' /\ FoundNearest'
  BY DEF SearchInside, FoundNearest
<1> QED  BY <1>4, <1>5, <1>6, <1>7

LEMMA NotLast ==
  ASSUME NEW i \in Nat, NEW n \in Nat, i < n, i + 1 # n
  PROVE  i + 1 \in 1 .. n /\ i + 2 \in 1 .. n /\ i < n - 1 /\ i + 1 < n /\ (i + 1) + 1 = i + 2
OBVIOUS

\* One turn of the loop keeps the pc between the bounds, and finds the nearest
\* FDE if the map is sorted.
LEMMA ProbeBounded ==
  ASSUME IInv, Probe, Bounded
  PROVE  IntervalInv' /\ phase' # "outside" /\ FoundNearest'
<1>0. TypeOK /\ MapPaired /\ ClosedInv /\ SearchingInv /\ IntervalInv
  BY DEF IInv
<1>1. /\ phase = "search" /\ PCs' = PCs /\ pc' = pc
      /\ low \in Nat /\ high \in Nat /\ Len(PCs) \in Nat /\ pc \in Nat
      /\ DOMAIN PCs = 1 .. Len(PCs)
  BY <1>0, FrameMapAssumption DEF Probe, map, TypeOK, SearchingInv
<1>a. \A i \in 1 .. Len(PCs) : PCs[i] \in Nat
  <2> DEFINE S == 0 .. MaxU64
  <2>1. PCs \in Seq(S)
    BY <1>0 DEF TypeOK
  <2>2. \A x \in S : x \in Nat
    BY FrameMapAssumption
  <2> HIDE DEF S
  <2>3. \A i \in 1 .. Len(PCs) : PCs[i] \in S
    BY <2>1
  <2> QED  BY <2>2, <2>3
<1>2. /\ low <= high /\ high <= Len(PCs) /\ low < Len(PCs)
      /\ low > 0 => PCs[low + 1] <= pc
      /\ high < Len(PCs) - 1 => pc < PCs[high + 2]
  BY <1>0, <1>1 DEF IntervalInv, Bounded
<1>3. PCs[Len(PCs)] = MaxU64 /\ pc < MaxU64 /\ MaxU64 \in Nat
  BY <1>0, <1>1, FrameMapAssumption DEF ClosedInv, SearchingInv
<1>4. /\ Index \in Nat /\ low <= Index /\ Index <= high
      /\ low < high => Index < high
  BY <1>0, <1>2, Middle
<1>5. Index < Len(PCs)
  BY <1>1, <1>2, <1>4
<1> HIDE DEF Index
<1>7. CASE Covers(Index)
  <2>1. phase' = "idle" /\ found' = FDEAddresses[Index + 1]
    BY <1>1, <1>4, <1>5, <1>7 DEF Probe, Covers
  <2>2. found' = PCs[Index + 1] /\ PCs[Index + 1] <= pc /\ pc <= PCs[Index + 2]
    BY <2>1, <1>0, <1>7 DEF MapPaired, Covers, Starts
  <2>3. Index + 1 # Len(PCs)
    BY <1>3, <2>2, <1>1
  <2>4. Index + 1 \in 1 .. Len(PCs) /\ Index + 2 \in 1 .. Len(PCs)
    BY <1>1, <1>4, <1>5, <2>3, NotLast
  <2>5. ASSUME Sorted(PCs), NEW i \in 1 .. Len(PCs), PCs[Index + 1] < PCs[i], PCs[i] < pc
        PROVE  FALSE
    <3>0. PCs[i] \in Nat /\ PCs[Index + 1] \in Nat /\ PCs[Index + 2] \in Nat
      BY <1>a, <2>4
    <3>a. \A j, k \in 1 .. Len(PCs) : j < k => PCs[j] < PCs[k]
      BY <1>1, <2>5 DEF Sorted
    <3>1. ~(i < Index + 1) /\ i # Index + 1
      BY <3>0, <3>a, <2>4, <2>5
    <3>2. i = Index + 2 \/ i > Index + 2
      BY <3>1, <1>4
    <3>3. PCs[Index + 2] <= PCs[i]
      BY <3>0, <3>2, <3>a, <2>4
    <3> QED  BY <3>0, <3>3, <2>2, <2>5, <1>1
  <2>6. FoundNearest'
    BY <2>2, <2>5, <1>1 DEF FoundNearest
  <2> QED  BY <2>1, <2>6 DEF IntervalInv
<1>8. CASE ~Covers(Index) /\ Starts(Index)
  <2>1. phase' = "search" /\ low' = Above(Index) /\ high' = high
    BY <1>1, <1>4, <1>5, <1>8 DEF Probe
  <2>2. low' = Index + 1 /\ PCs[Index + 1] <= pc /\ ~(pc <= PCs[Index + 2])
    BY <2>1, <1>8 DEF Covers, Starts, Above
  <2>3. Index + 1 # Len(PCs)
    BY <1>3, <2>2, <1>1
  <2>4. Index + 2 \in 1 .. Len(PCs)
    BY <1>1, <1>4, <1>5, <2>3, NotLast
  <2>5. PCs[Index + 2] \in Nat /\ PCs[Index + 2] <= pc
    BY <2>2, <2>4, <1>a, <1>1
  <2>6. Index # high
    <3> SUFFICES ASSUME Index = high  PROVE FALSE
      OBVIOUS
    <3>1. high < Len(PCs) - 1
      BY <1>1, <1>4, <1>5, <2>3, NotLast
    <3>2. pc < PCs[Index + 2]
      BY <3>1, <1>2
    <3> QED  BY <3>2, <2>5, <1>1
  <2>7. Index + 1 <= high /\ Index + 1 < Len(PCs) /\ (Index + 1) + 1 = Index + 2
    <3>1. Index < high
      BY <1>1, <1>4, <2>6
    <3>2. Index + 1 <= high
      BY <3>1, <1>1, <1>4
    <3>3. Index + 1 < Len(PCs) /\ (Index + 1) + 1 = Index + 2
      BY <1>1, <1>4, <1>5, <2>3, NotLast
    <3> QED  BY <3>2, <3>3
  <2>8. IntervalInv'
    BY <2>1, <2>2, <2>5, <2>7, <1>1, <1>2 DEF IntervalInv, Bounded
  <2> QED  BY <2>1, <2>8 DEF FoundNearest
<1>9. CASE ~Starts(Index)
  <2>1. phase' = "search" /\ low' = low /\ high' = Below(Index)
    BY <1>1, <1>4, <1>5, <1>9 DEF Probe, Covers
  <2>2. Index + 1 \in 1 .. Len(PCs) /\ PCs[Index + 1] \in Nat
    BY <1>1, <1>4, <1>5, <1>a
  <2>3. pc < PCs[Index + 1]
    BY <1>1, <1>9, <2>2 DEF Starts
  <2>4. U32 \in Nat /\ Len(PCs) < U32 /\ U32 > 0
    BY <1>0, <1>1, FrameMapAssumption DEF TypeOK
  <2>5. CASE Index > low
    <3>1. Index - 1 \in 0 .. U32 - 1
      BY <1>1, <1>4, <1>5, <2>4, <2>5
    <3>2. high' = Index - 1
      BY <2>1, <2>4, <3>1 DEF Below
    <3>3. /\ low <= Index - 1 /\ Index - 1 <= Len(PCs) /\ (Index - 1) + 2 = Index + 1
      BY <1>1, <1>4, <1>5, <2>5
    <3>4. IntervalInv'
      BY <2>1, <2>3, <3>2, <3>3, <1>1, <1>2 DEF IntervalInv, Bounded
    <3> QED  BY <2>1, <3>4 DEF FoundNearest
  <2>6. CASE Index = low
    <3>1. low = 0
      BY <1>1, <1>2, <2>2, <2>3, <2>6
    <3>2. high' = U32 - 1
      BY <2>1, <2>4, <2>6, <3>1 DEF Below
    <3>3. IntervalInv'
      BY <2>1, <2>3, <2>6, <3>1, <3>2, <1>1, <1>2 DEF IntervalInv, Wrapped
    <3> QED  BY <2>1, <3>3 DEF FoundNearest
  <2> QED  BY <2>5, <2>6, <1>1, <1>4
<1> QED  BY <1>7, <1>8, <1>9

\* After high has wrapped around the next look is outside the arrays.
LEMMA ProbeWrapped ==
  ASSUME IInv, Probe, Wrapped
  PROVE  phase' = "outside" /\ ~(PCs[1] <= pc)
<1>1. low = 0 /\ high = U32 - 1 /\ U32 \in Nat /\ MaxFDEs \in Nat /\ Len(PCs) \in Nat
      /\ Len(PCs) <= MaxFDEs + 1
  BY FrameMapAssumption DEF Wrapped, IInv, TypeOK
<1>2. Index = (U32 - 1) \div 2
  <2>1. (low + high) % U32 = U32 - 1
    BY <1>1, FrameMapAssumption
  <2> QED  BY <2>1 DEF Index
<1>3. Index >= Len(PCs)
  BY <1>1, <1>2, FrameMapAssumption
<1>4. Index \in Nat
  BY <1>1, <1>2, FrameMapAssumption
<1>5. phase' = "outside"
  BY <1>1, <1>3, <1>4 DEF Probe
<1>6. PCs # <<>> /\ pc \in Nat /\ PCs[1] \in Nat
  <2> DEFINE S == 0 .. MaxU64
  <2>1. PCs \in Seq(S) /\ PCs # <<>> /\ pc \in Nat
    BY FrameMapAssumption DEF IInv, TypeOK, ClosedInv, SearchingInv, Probe
  <2>2. \A x \in S : x \in Nat
    BY FrameMapAssumption
  <2> HIDE DEF S
  <2> QED  BY <2>1, <2>2
<1> QED  BY <1>5, <1>6 DEF Wrapped

LEMMA ProbeStep ==
  ASSUME IInv, Probe
  PROVE  IInv'
<1>0. /\ TypeOK /\ MapPaired /\ SortInv /\ ClosedInv /\ SearchingInv
      /\ IntervalInv /\ SearchInside
  BY DEF IInv
<1>1. /\ phase = "search" /\ PCs' = PCs /\ FDEAddresses' = FDEAddresses /\ pc' = pc
      /\ phase' \in {"search", "idle", "outside"}
  BY DEF Probe, map
<1>2. TypeOK'
  <2>1. U32 \in Nat /\ U32 > 0 /\ low \in Nat /\ high \in Nat
    BY <1>0, FrameMapAssumption DEF TypeOK
  <2>2. Len(PCs) \in Nat /\ Len(PCs) < U32 /\ DOMAIN FDEAddresses = 1 .. Len(PCs)
    BY <1>0, FrameMapAssumption DEF TypeOK
  <2>3. Index \in Nat
    BY <2>1 DEF Index
  <2>4. Below(Index) \in 0 .. U32 - 1
    BY <2>1, <2>3 DEF Below
  <2>5. Index < Len(PCs) => Above(Index) \in 0 .. U32 - 1
    BY <2>1, <2>2, <2>3 DEF Above
  <2>6. ASSUME Index < Len(PCs)  PROVE FDEAddresses[Index + 1] \in 0 .. MaxU64
    <3>1. Index + 1 \in 1 .. Len(FDEAddresses)
      BY <1>0, <2>2, <2>3, <2>6 DEF TypeOK
    <3> DEFINE S == 0 .. MaxU64
    <3>2. FDEAddresses \in Seq(S)
      BY <1>0 DEF TypeOK
    <3> HIDE DEF S
    <3>3. FDEAddresses[Index + 1] \in S
      BY <3>1, <3>2
    <3> QED  BY <3>3 DEF S
  <2>7. /\ low' \in {low} \cup (IF Index < Len(PCs) THEN {Above(Index)} ELSE {})
        /\ high' \in {high, Below(Index)}
        /\ found' \in {found} \cup (IF Index < Len(PCs) THEN {FDEAddresses[Index + 1]} ELSE {})
    BY <1>1 DEF Probe
  <2> QED  BY <1>0, <1>1, <2>4, <2>5, <2>6, <2>7 DEF TypeOK
<1>3. IntervalInv' /\ SearchInside' /\ FoundNearest'
  <2>1. CASE Bounded
    BY <1>1, <2>1, ProbeBounded DEF SearchInside
  <2>2. CASE Wrapped
    BY <1>1, <2>2, ProbeWrapped DEF IntervalInv, SearchInside, FoundNearest
  <2> QED  BY <1>0, <1>1, <2>1, <2>2 DEF IntervalInv
<1>4. MapPaired' /\ SortInv' /\ ClosedInv' /\ SearchingInv'
  BY <1>0, <1>1 DEF MapPaired, SortInv, TailSorted, Distinct, ClosedInv, SearchingInv
<1> QED  BY <1>2, <1>3, <1>4 DEF IInv

-----------------------------------------------------------------------------
(* The theorems                                                            *)

LEMMA Inductive == IInv /\ [Next]_vars => IInv'
<1> SUFFICES ASSUME IInv, [Next]_vars  PROVE IInv'
  OBVIOUS
<1>1. CASE UNCHANGED vars
  BY <1>1 DEF vars, map, IInv, TypeOK, MapPaired, SortInv, TailSorted, Distinct, ClosedInv, SearchingInv, IntervalInv, Bounded,
       Wrapped, SearchInside, FoundNearest
<1> QED  BY <1>1, BuildStep, SearchStep, ProbeStep DEF Next

\* The map is closed before it is searched, its two arrays agree, and the pc
\* stays between the bounds of the search.
THEOREM Invariance == Spec => []IInv
BY InitOK, Inductive, PTL DEF Spec

\* However entries are moved, the address and the FDE of an entry stay together.
THEOREM StaysPaired == Spec => []MapPaired
<1>1. IInv => MapPaired
  BY DEF IInv
<1> QED  BY <1>1, Invariance, PTL

\* However the section is ordered, the map is sorted behind its first entry, and
\* all of it if the section's first FDE is its lowest.
THEOREM Sorts == Spec => []SortedAfterFirst
<1>1. IInv => SortedAfterFirst
  <2> SUFFICES ASSUME IInv
               PROVE  SortedAfterFirst
    OBVIOUS
  <2>1. /\ Len(PCs) \in Nat /\ DOMAIN PCs = 1 .. Len(PCs)
        /\ \A k \in 1 .. Len(PCs) : PCs[k] \in Nat
        /\ TailSorted(PCs) /\ Distinct(PCs)
    <3>1. MaxU64 \in Nat /\ PCs \in Seq(0 .. MaxU64)
      BY FrameMapAssumption DEF IInv, TypeOK
    <3>2. PCs \in Seq(Nat)
      BY <3>1
    <3> QED  BY <3>2 DEF IInv, SortInv
  <2>2. ASSUME NEW i \in DOMAIN PCs, NEW j \in DOMAIN PCs, 1 < i, i < j
        PROVE  PCs[i] < PCs[j]
    <3>1. i \in 2 .. Len(PCs) /\ j \in 2 .. Len(PCs)
      BY <2>1, <2>2
    <3> QED  BY <3>1, <2>1, <2>2 DEF TailSorted
  <2>3. ASSUME \A i \in DOMAIN PCs : PCs[1] <= PCs[i],
               NEW i \in DOMAIN PCs, NEW j \in DOMAIN PCs, i < j
        PROVE  PCs[i] < PCs[j]
    <3>1. CASE i = 1
      <4>1. PCs[1] <= PCs[j] /\ PCs[1] # PCs[j] /\ PCs[1] \in Nat /\ PCs[j] \in Nat
        BY <2>1, <2>3, <3>1 DEF Distinct
      <4> QED  BY <3>1, <4>1
    <3>2. CASE i # 1
      <4>1. 1 < i
        BY <2>1, <3>2
      <4> QED  BY <2>2, <2>3, <4>1
    <3> QED  BY <3>1, <3>2
  <2> QED  BY <2>2, <2>3 DEF SortedAfterFirst, Sorted
<1> QED  BY <1>1, Invariance, PTL

\* The assertion after FindFDE's loop never fails, in any map.
THEOREM AssertionUnreached == Spec => []NeverEmpty
<1>1. IInv => NeverEmpty
  <2> SUFFICES ASSUME IInv, phase = "search"  PROVE low <= high
    BY DEF NeverEmpty
  <2>1. CASE Bounded
    BY <2>1 DEF Bounded
  <2>2. CASE Wrapped
    BY <2>2, FrameMapAssumption DEF Wrapped, IInv, TypeOK
  <2> QED  BY <2>1, <2>2 DEF IInv, IntervalInv
<1> QED  BY <1>1, Invariance, PTL

\* In every map an address at or above its first entry is looked up without a
\* look outside the arrays.
THEOREM SearchStaysInside == Spec => []SearchInside
<1>1. IInv => SearchInside
  BY DEF IInv
<1> QED  BY <1>1, Invariance, PTL

\* What is found in a sorted map is the FDE that starts nearest below the
\* address, or at it.
THEOREM FindsNearest == Spec => []FoundNearest
<1>1. IInv => FoundNearest
  BY DEF IInv
<1> QED  BY <1>1, Invariance, PTL

=============================================================================
