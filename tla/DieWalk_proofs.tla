--------------------------- MODULE DieWalk_proofs ---------------------------
(***************************************************************************)
(* The walks over any debug information whose units are trees.             *)
(* `breakpoint set func' answers the first function of the name but for    *)
(* those with DW_AT_prototyped, `section info' goes over every entry once  *)
(* and in order, and reads its attributes but for those of some forms, the *)
(* function of an address has it, where its addresses are in forms that    *)
(* are read, and `locals' prints what is below it.                         *)
(***************************************************************************)
EXTENDS DieWalk, FiniteSetTheorems, WellFoundedInduction, TLAPS

\* Below every set of numbers that is not empty lies one of its members.
LEMMA HasLeast ==
  ASSUME NEW S, S \subseteq Nat, S # {}
  PROVE  \E s \in S : \A r \in S : s <= r
<1> DEFINE R == OpToRel(<, Nat)
<1>1. IsWellFoundedOn(R, Nat)
  BY NatLessThanWellFounded
<1>2. \A x, y \in Nat : x < y => <<x, y>> \in R
  BY DEF OpToRel
<1> HIDE DEF R
<1>3. PICK s \in S : \A r \in S : <<r, s>> \notin R
  BY <1>1, WFMin
<1>4. \A r \in S : ~(r < s)
  BY <1>2, <1>3
<1> QED  BY <1>4

-----------------------------------------------------------------------------
(* Debug information                                                       *)

LEMMA UnitType ==
  ASSUME info \in Infos, NEW u \in DOMAIN info.units
  PROVE  /\ Len(Entries(u)) \in Nat /\ DOMAIN Entries(u) = 1 .. Len(Entries(u))
         /\ u \in Nat \ {0}
         /\ AbbrevOf(u, 0) = NoAbbrev
         /\ \A e \in 2 .. Len(Entries(u)) : TrueDepth(u, e) > 0
<1> DEFINE unit == info.units[u]
<1>1. IsSequence(info.units) /\ IsSequence(unit.entries) /\ 0 \notin DOMAIN unit.abbrevs
  BY DieWalkAssumption
<1>2. \A e \in 2 .. Len(unit.entries) : Depth(unit, e) > 0
  BY DieWalkAssumption
<1> QED  BY <1>1, <1>2 DEF IsSequence, Entries, AbbrevOf, TrueDepth

LEMMA EntryType ==
  ASSUME info \in Infos, NEW u \in DOMAIN info.units, NEW e \in Real(u)
  PROVE  LET abbrev == AbbrevOf(u, Entries(u)[e].code)
         IN  /\ Entries(u)[e].code \in DOMAIN info.units[u].abbrevs
             /\ abbrev = info.units[u].abbrevs[Entries(u)[e].code]
             /\ ValuesOf(abbrev, Entries(u)[e].values)
             /\ IsSequence(abbrev.def) /\ Len(abbrev.def) <= MAX_DIE_DATA
             /\ abbrev.children \in BOOLEAN
<1> DEFINE unit == info.units[u]
           entry == unit.entries[e]
<1>1. e \in DOMAIN unit.entries /\ entry.code # 0
  BY DEF Real, Entries
<1>2. entry.code \in DOMAIN unit.abbrevs /\ ValuesOf(unit.abbrevs[entry.code], entry.values)
  BY <1>1, DieWalkAssumption
<1>3. LET abbrev == unit.abbrevs[entry.code]
      IN  /\ IsSequence(abbrev.def) /\ Len(abbrev.def) <= MAX_DIE_DATA
          /\ abbrev.children \in BOOLEAN
  BY <1>2, DieWalkAssumption
<1> QED  BY <1>2, <1>3 DEF Entries, AbbrevOf

\* The null entries before the next entry, if there is one.
LEMMA NullsPassed ==
  ASSUME info \in Infos, NEW u \in DOMAIN info.units, NEW k \in 1 .. Len(Entries(u)) + 1
  PROVE  LET n == Nulls(u, k)
         IN  /\ n \in 0 .. Len(Entries(u)) + 1 - k
             /\ \A i \in k .. k + n - 1 : Entries(u)[i].code = 0
             /\ k + n <= Len(Entries(u)) => Entries(u)[k + n].code # 0
<1> DEFINE left == Len(Entries(u)) + 1 - k
           P(n) == /\ \A i \in k .. k + n - 1 : Entries(u)[i].code = 0
                   /\ n < left => Entries(u)[k + n].code # 0
           S == {n \in 0 .. left : n = left \/ Entries(u)[k + n].code # 0}
<1>1. Len(Entries(u)) \in Nat /\ left \in Nat
  BY UnitType
<1>2. PICK n \in S : \A m \in S : n <= m
  <2>1. S \subseteq Nat /\ left \in S
    BY <1>1
  <2> HIDE DEF S
  <2> QED  BY <2>1, HasLeast
<1>3. n \in 0 .. left /\ (n < left => Entries(u)[k + n].code # 0)
  BY <1>1, <1>2
<1>4. ASSUME NEW i \in k .. k + n - 1 PROVE Entries(u)[i].code = 0
  <2>1. i - k \in 0 .. left /\ i - k < n /\ k + (i - k) = i
    BY <1>1, <1>3
  <2>2. i - k \notin S
    <3> SUFFICES ASSUME i - k \in S PROVE FALSE
      OBVIOUS
    <3>1. n <= i - k
      BY <1>2
    <3> QED  BY <3>1, <2>1, <1>1, <1>3
  <2> QED  BY <2>1, <2>2
<1>5. \E m \in 0 .. left : P(m)
  BY <1>3, <1>4
<1>6. Nulls(u, k) = CHOOSE m \in 0 .. left : P(m)
  BY DEF Nulls
<1>7. Nulls(u, k) \in 0 .. left /\ P(Nulls(u, k))
  <2> HIDE DEF P, left
  <2> QED  BY <1>5, <1>6
<1> QED  BY <1>1, <1>7

LEMMA FiniteBefore ==
  ASSUME NEW m \in Int, NEW T, T \subseteq 1 .. m
  PROVE  IsFiniteSet(T) /\ Cardinality(T) \in Nat
<1>1. IsFiniteSet(1 .. m)
  BY FS_Interval
<1>2. IsFiniteSet(T)
  BY <1>1, FS_Subset
<1> QED  BY <1>2, FS_CardinalityType

LEMMA IntervalAdded ==
  ASSUME NEW a \in Nat, NEW n \in Nat, NEW S, IsFiniteSet(S), S \subseteq 1 .. a
  PROVE  Cardinality(S \cup (a + 1 .. a + n)) = Cardinality(S) + n
<1> DEFINE I == a + 1 .. a + n
<1>1. IsFiniteSet(I) /\ Cardinality(I) = n
  <2>1. a + 1 \in Int /\ a + n \in Int
    OBVIOUS
  <2>2. IsFiniteSet(I) /\ Cardinality(I) = IF a + 1 > a + n THEN 0 ELSE (a + n) - (a + 1) + 1
    BY <2>1, FS_Interval
  <2> QED  BY <2>2
<1>2. S \cap I = {}
  OBVIOUS
<1>3. Cardinality(S \cap I) = 0
  BY <1>2, FS_EmptySet
<1> HIDE DEF I
<1>4. Cardinality(S \cup I) = Cardinality(S) + Cardinality(I) - Cardinality(S \cap I)
  BY <1>1, FS_Union
<1>5. Cardinality(S) \in Nat
  BY FS_CardinalityType
<1>6. Cardinality(S \cup I) = Cardinality(S) + n
  BY <1>1, <1>3, <1>4, <1>5
<1> QED  BY <1>6 DEF I

\* The entries before e that open a list of children, and the null entries.
Openers(u, e) == {i \in 1 .. e - 1 : /\ Entries(u)[i].code # 0
                                    /\ info.units[u].abbrevs[Entries(u)[i].code].children}
Closers(u, e) == {i \in 1 .. e - 1 : Entries(u)[i].code = 0}

LEMMA DepthIs ==
  ASSUME NEW u, NEW e
  PROVE  TrueDepth(u, e) = Cardinality(Openers(u, e)) - Cardinality(Closers(u, e))
BY DEF TrueDepth, Depth, Openers, Closers, Entries

LEMMA DepthType ==
  ASSUME NEW u, NEW e \in Int
  PROVE  TrueDepth(u, e) \in Int
<1>1. Openers(u, e) \subseteq 1 .. e - 1 /\ Closers(u, e) \subseteq 1 .. e - 1
  BY DEF Openers, Closers
<1>2. Cardinality(Openers(u, e)) \in Nat /\ Cardinality(Closers(u, e)) \in Nat
  BY <1>1, FiniteBefore
<1> QED  BY <1>2, DepthIs

\* An entry with children is followed by one a level deeper, and every null
\* entry ends a level.
LEMMA DepthMoves ==
  ASSUME info \in Infos, NEW u \in DOMAIN info.units, NEW e \in Real(u), NEW n \in Nat,
         \A i \in e + 1 .. e + n : Entries(u)[i].code = 0
  PROVE  TrueDepth(u, e + 1 + n) = TrueDepth(u, e) + (IF Opens(u, e) THEN 1 ELSE 0) - n
<1>1. e \in Nat \ {0} /\ Entries(u)[e].code # 0
  BY UnitType DEF Real
<1>2. Opens(u, e) <=> info.units[u].abbrevs[Entries(u)[e].code].children
  BY EntryType DEF Opens
<1>3. /\ IsFiniteSet(Openers(u, e)) /\ Cardinality(Openers(u, e)) \in Nat
      /\ IsFiniteSet(Closers(u, e)) /\ Cardinality(Closers(u, e)) \in Nat
  <2>1. Openers(u, e) \subseteq 1 .. e - 1 /\ Closers(u, e) \subseteq 1 .. e - 1
    BY DEF Openers, Closers
  <2> QED  BY <2>1, <1>1, FiniteBefore
<1>4. Cardinality(Openers(u, e + 1 + n))
        = Cardinality(Openers(u, e)) + (IF Opens(u, e) THEN 1 ELSE 0)
  <2>1. CASE Opens(u, e)
    <3>1. Openers(u, e + 1 + n) = Openers(u, e) \cup {e}
      BY <1>1, <1>2, <2>1 DEF Openers
    <3>2. e \notin Openers(u, e)
      BY <1>1 DEF Openers
    <3> QED  BY <3>1, <3>2, <2>1, <1>3, FS_AddElement
  <2>2. CASE ~Opens(u, e)
    <3>1. Openers(u, e + 1 + n) = Openers(u, e)
      BY <1>1, <1>2, <2>2 DEF Openers
    <3> QED  BY <3>1, <2>2, <1>3
  <2> QED  BY <2>1, <2>2
<1>5. Cardinality(Closers(u, e + 1 + n)) = Cardinality(Closers(u, e)) + n
  <2>1. Closers(u, e + 1 + n) = Closers(u, e) \cup (e + 1 .. e + n)
    BY <1>1 DEF Closers
  <2>2. Closers(u, e) \subseteq 1 .. e
    BY <1>1 DEF Closers
  <2> QED  BY <2>1, <2>2, <1>1, <1>3, IntervalAdded
<1> QED  BY <1>3, <1>4, <1>5, DepthIs

-----------------------------------------------------------------------------
(* The cursor                                                              *)

DIEShape(d) ==
  /\ d = [unit |-> d.unit, entry |-> d.entry, code |-> d.code, depth |-> d.depth,
          prevHasChildren |-> d.prevHasChildren, cursorAbbrev |-> d.cursorAbbrev,
          cursorData |-> d.cursorData, data |-> d.data]
  /\ DOMAIN d.data = 1 .. MAX_DIE_DATA

\* The entry that the cursor's fields tell of.
OnEntry(d) ==
  /\ d.unit \in DOMAIN info.units /\ d.entry \in Real(d.unit)
  /\ d.code = Entries(d.unit)[d.entry].code

\* The cursor is at the entry its fields tell of, and knows its depth.
AtEntry(d) ==
  /\ d.unit \in DOMAIN info.units
  /\ d.entry \in Real(d.unit) /\ d.entry > 1
  /\ d.code = Entries(d.unit)[d.entry].code
  /\ d.depth = TrueDepth(d.unit, d.entry)
  /\ d.prevHasChildren <=> Opens(d.unit, d.entry)

LEMMA UpdateFields ==
  ASSUME NEW d, DIEShape(d), NEW k
  PROVE  LET u == d.unit
             n == Nulls(u, k)
             code == IF n > d.depth \/ k + n > Len(Entries(u)) THEN 0
                     ELSE Entries(u)[k + n].code
             m == UpdateDIE(d, k)
         IN  /\ DIEShape(m)
             /\ m.unit = u /\ m.code = code /\ m.cursorAbbrev = 1 /\ m.data = d.data
             /\ m.entry = IF n > d.depth THEN k + d.depth ELSE k + n
             /\ m.depth = IF n > d.depth THEN 0
                          ELSE IF n = 0 /\ d.prevHasChildren THEN d.depth + 1 ELSE d.depth - n
             /\ m.prevHasChildren = AbbrevOf(u, code).children
<1> DEFINE u == d.unit
           n == Nulls(u, k)
           code == IF n > d.depth \/ k + n > Len(Entries(u)) THEN 0
                   ELSE Entries(u)[k + n].code
           entry == IF n > d.depth THEN k + d.depth ELSE k + n
           depth == IF n > d.depth THEN 0
                    ELSE IF n = 0 /\ d.prevHasChildren THEN d.depth + 1 ELSE d.depth - n
           children == AbbrevOf(u, code).children
           m == UpdateDIE(d, k)
<1>1. m = [d EXCEPT !.entry = entry, !.code = code, !.depth = depth,
                    !.prevHasChildren = children, !.cursorAbbrev = 1]
  BY DEF UpdateDIE
<1> HIDE DEF m, entry, code, depth, children
<1>2. m = [unit |-> d.unit, entry |-> entry, code |-> code, depth |-> depth,
           prevHasChildren |-> children, cursorAbbrev |-> 1,
           cursorData |-> d.cursorData, data |-> d.data]
  BY <1>1 DEF DIEShape
<1>3. DIEShape(m)
  BY <1>2 DEF DIEShape
<1>4. /\ m.unit = d.unit /\ m.entry = entry /\ m.code = code /\ m.depth = depth
      /\ m.prevHasChildren = children /\ m.cursorAbbrev = 1 /\ m.data = d.data
  BY <1>2
<1> QED  BY <1>3, <1>4 DEF m, entry, code, depth, children

\* The null entries behind entry e, each of which ends a level.
LEMMA NullsAfter ==
  ASSUME info \in Infos, InTree, NEW u \in DOMAIN info.units, NEW e \in Real(u)
  PROVE  LET n == Nulls(u, e + 1)
             last == Len(Entries(u))
         IN  /\ last \in Nat /\ e \in 1 .. last /\ n \in 0 .. last - e
             /\ TrueDepth(u, e) \in Int
             /\ \A i \in e + 1 .. e + n : i \notin Real(u)
             /\ e + 1 + n <= last => e + 1 + n \in Real(u)
             /\ \A j \in 0 .. n :
                  TrueDepth(u, e + 1 + j) = TrueDepth(u, e) + (IF Opens(u, e) THEN 1 ELSE 0) - j
             /\ Opens(u, e) => n = 0
<1> DEFINE last == Len(Entries(u))
           n == Nulls(u, e + 1)
<1>1. last \in Nat /\ DOMAIN Entries(u) = 1 .. last
  BY UnitType
<1>2. e \in 1 .. last /\ Entries(u)[e].code # 0 /\ e + 1 \in 1 .. last + 1
  BY <1>1 DEF Real
<1>3. /\ n \in 0 .. last - e
      /\ \A i \in e + 1 .. e + n : Entries(u)[i].code = 0
      /\ e + 1 + n <= last => Entries(u)[e + 1 + n].code # 0
  <2>1. /\ n \in 0 .. last + 1 - (e + 1)
        /\ \A i \in e + 1 .. e + 1 + n - 1 : Entries(u)[i].code = 0
        /\ e + 1 + n <= last => Entries(u)[e + 1 + n].code # 0
    BY <1>2, NullsPassed
  <2> HIDE DEF n, last
  <2> QED  BY <2>1, <1>1, <1>2
<1> HIDE DEF n
<1>4. /\ \A i \in e + 1 .. e + n : i \notin Real(u)
      /\ e + 1 + n <= last => e + 1 + n \in Real(u)
  BY <1>1, <1>2, <1>3 DEF Real
<1>5. TrueDepth(u, e) \in Int
  BY <1>1, <1>2, DepthType
<1>6. \A j \in 0 .. n :
        TrueDepth(u, e + 1 + j) = TrueDepth(u, e) + (IF Opens(u, e) THEN 1 ELSE 0) - j
  <2> SUFFICES ASSUME NEW j \in 0 .. n
               PROVE  TrueDepth(u, e + 1 + j)
                        = TrueDepth(u, e) + (IF Opens(u, e) THEN 1 ELSE 0) - j
    OBVIOUS
  <2>1. j \in Nat /\ \A i \in e + 1 .. e + j : Entries(u)[i].code = 0
    BY <1>1, <1>2, <1>3
  <2> QED  BY <2>1, DepthMoves
<1>7. Opens(u, e) => n = 0
  <2> SUFFICES ASSUME Opens(u, e), n # 0 PROVE FALSE
    OBVIOUS
  <2>1. e + 1 \in 1 .. last /\ e + 1 \notin Real(u)
    BY <1>1, <1>2, <1>3, <1>4
  <2>2. EmptyList(u, e)
    BY <2>1, <1>1 DEF EmptyList
  <2> QED  BY <2>2, <1>1, <1>2 DEF InTree
<1> QED  BY <1>1, <1>2, <1>3, <1>4, <1>5, <1>6, <1>7 DEF n

\* From the entry e, whose depth the cursor knows or is one below, it moves to
\* the next entry, or behind the unit.
LEMMA UpdateMoves ==
  ASSUME info \in Infos, InTree, NEW d, DIEShape(d), d.unit \in DOMAIN info.units,
         NEW e \in Real(d.unit), d.depth \in Nat,
         \/ /\ d.depth = TrueDepth(d.unit, e)
            /\ d.prevHasChildren <=> Opens(d.unit, e)
         \/ /\ d.depth = TrueDepth(d.unit, e) + 1
            /\ ~d.prevHasChildren /\ Opens(d.unit, e)
  PROVE  LET m == UpdateDIE(d, e + 1)
             last == Len(Entries(d.unit))
         IN  /\ DIEShape(m) /\ m.unit = d.unit /\ m.cursorAbbrev = 1
             /\ m.entry \in e + 1 .. last + 1
             /\ \A i \in e + 1 .. m.entry - 1 : i \notin Real(d.unit)
             /\ m.entry <= last => AtEntry(m)
             /\ m.entry > last => m.depth = 0 \/ Outside(m)
<1> DEFINE u == d.unit
           last == Len(Entries(u))
           n == Nulls(u, e + 1)
           m == UpdateDIE(d, e + 1)
<1>1. DOMAIN Entries(u) = 1 .. last /\ \A i \in 2 .. last : TrueDepth(u, i) > 0
  BY UnitType
<1>2. /\ last \in Nat /\ e \in 1 .. last
      /\ n \in 0 .. last - e
      /\ \A i \in e + 1 .. e + n : i \notin Real(u)
      /\ e + 1 + n <= last => e + 1 + n \in Real(u)
  BY NullsAfter
<1>3. TrueDepth(u, e) \in Int
  BY NullsAfter
<1>4. \A j \in 0 .. n :
        TrueDepth(u, e + 1 + j) = TrueDepth(u, e) + (IF Opens(u, e) THEN 1 ELSE 0) - j
  BY NullsAfter
<1>5. Opens(u, e) => n = 0
  BY NullsAfter
<1> HIDE DEF n
<1>6. n <= d.depth
  <2> SUFFICES ASSUME n > d.depth PROVE FALSE
    BY <1>1, <1>2
  <2>1. ~Opens(u, e) /\ d.depth = TrueDepth(u, e)
    BY <1>5
  <2>2. TrueDepth(u, e + 1 + d.depth) = 0
    BY <2>1, <1>3, <1>4, <1>2
  <2>3. e + 1 + d.depth \in 2 .. last
    <3> HIDE DEF last
    <3> QED  BY <1>2
  <2> QED  BY <2>2, <2>3, <1>1
<1> DEFINE code == IF n > d.depth \/ e + 1 + n > last THEN 0 ELSE Entries(u)[e + 1 + n].code
<1>7. /\ DIEShape(m) /\ m.unit = u /\ m.cursorAbbrev = 1 /\ m.code = code
      /\ m.entry = IF n > d.depth THEN e + 1 + d.depth ELSE e + 1 + n
      /\ m.depth = IF n > d.depth THEN 0
                   ELSE IF n = 0 /\ d.prevHasChildren THEN d.depth + 1 ELSE d.depth - n
      /\ m.prevHasChildren = AbbrevOf(u, code).children
  BY UpdateFields DEF n
<1>8. m.entry = e + 1 + n
  BY <1>6, <1>7, <1>2
<1>9. m.depth = TrueDepth(u, m.entry)
  <2>1. TrueDepth(u, e + 1 + n) = TrueDepth(u, e) + (IF Opens(u, e) THEN 1 ELSE 0) - n
    BY <1>4, <1>2
  <2>2. m.depth = IF n = 0 /\ d.prevHasChildren THEN d.depth + 1 ELSE d.depth - n
    BY <1>6, <1>7, <1>2
  <2> HIDE DEF m, u, code
  <2>3. CASE Opens(u, e)
    BY <2>1, <2>2, <2>3, <1>3, <1>5, <1>8 DEF u
  <2>4. CASE ~Opens(u, e)
    BY <2>1, <2>2, <2>4, <1>3, <1>8, <1>2 DEF u
  <2> QED  BY <2>3, <2>4
<1>10. m.entry \in e + 1 .. last + 1 /\ \A i \in e + 1 .. m.entry - 1 : i \notin Real(u)
  BY <1>1, <1>2, <1>8
<1>11. ASSUME m.entry <= last PROVE AtEntry(m)
  <2>1. m.entry \in Real(u) /\ m.entry > 1
    BY <1>1, <1>2, <1>8, <1>11 DEF Real
  <2>2. code = Entries(u)[m.entry].code
    BY <1>6, <1>8, <1>11, <1>1, <1>2
  <2>3. m.prevHasChildren <=> Opens(u, m.entry)
    BY <1>7, <2>1, <2>2 DEF Opens
  <2> HIDE DEF m, code, u
  <2> QED  BY <1>7, <1>9, <2>1, <2>2, <2>3 DEF AtEntry, u
<1>12. ASSUME m.entry > last PROVE m.depth = 0 \/ Outside(m)
  BY <1>7, <1>12 DEF Outside
<1> QED  BY <1>7, <1>10, <1>11, <1>12

-----------------------------------------------------------------------------
(* The functions of a name                                                 *)

LEMMA NamedIs ==
  ASSUME info \in Infos, NEW name, NEW f \in Named(name)
  PROVE  /\ f = <<f[1], f[2]>>
         /\ f[1] \in DOMAIN info.units /\ f[1] \in Nat \ {0}
         /\ f[2] \in Real(f[1]) /\ f[2] \in 1 .. Len(Entries(f[1]))
         /\ AbbrevOf(f[1], Entries(f[1])[f[2]].code).tag = "subprogram"
         /\ HasAttribute(f[1], f[2], "name") /\ Attribute(f[1], f[2], "name") = name
<1>1. PICK u \in DOMAIN info.units : \E e \in Tagged(u, {"subprogram"}) :
        f = <<u, e>> /\ HasAttribute(u, e, "name") /\ Attribute(u, e, "name") = name
  BY DEF Named
<1> PICK e \in Tagged(u, {"subprogram"}) :
        f = <<u, e>> /\ HasAttribute(u, e, "name") /\ Attribute(u, e, "name") = name
  BY <1>1
<1>2. e \in Real(u) /\ AbbrevOf(u, Entries(u)[e].code).tag = "subprogram"
  BY DEF Tagged
<1>3. e \in 1 .. Len(Entries(u)) /\ u \in Nat \ {0}
  BY <1>2, UnitType DEF Real
<1> QED  BY <1>1, <1>2, <1>3

LEMMA IsNamed ==
  ASSUME info \in Infos, NEW u \in DOMAIN info.units, NEW e \in Real(u),
         AbbrevOf(u, Entries(u)[e].code).tag = "subprogram", HasAttribute(u, e, "name")
  PROVE  <<u, e>> \in Named(Attribute(u, e, "name"))
BY DEF Named, Tagged

\* No function of that name before entry e has been passed over but for its
\* DW_AT_prototyped.
Judged(name, u, e) == \A f \in Named(name) : Before(f, <<u, e>>) => Prototyped(f)

LEMMA JudgedMoves ==
  ASSUME info \in Infos, NEW name, NEW u \in DOMAIN info.units, NEW e \in Nat, NEW k \in Nat,
         Judged(name, u, e),
         \A i \in e .. k - 1 : <<u, i>> \in Named(name) => Prototyped(<<u, i>>)
  PROVE  Judged(name, u, k)
<1> SUFFICES ASSUME NEW f \in Named(name), Before(f, <<u, k>>)
             PROVE  Prototyped(f)
  BY DEF Judged
<1>1. f = <<f[1], f[2]>> /\ f[1] \in Nat /\ f[2] \in Nat /\ u \in Nat
  <2>1. f = <<f[1], f[2]>> /\ f[1] \in Nat \ {0} /\ f[2] \in 1 .. Len(Entries(f[1]))
        /\ f[1] \in DOMAIN info.units
    BY NamedIs
  <2> QED  BY <2>1, UnitType
<1>2. CASE Before(f, <<u, e>>)
  BY <1>2 DEF Judged
<1>3. CASE ~Before(f, <<u, e>>)
  <2>1. f[1] = u /\ f[2] \in e .. k - 1
    BY <1>1, <1>3 DEF Before
  <2> QED  BY <2>1, <1>1
<1> QED  BY <1>2, <1>3

LEMMA JudgedUnit ==
  ASSUME info \in Infos, NEW name, NEW u \in DOMAIN info.units,
         Judged(name, u, Len(Entries(u)) + 1)
  PROVE  Judged(name, u + 1, 1)
<1> SUFFICES ASSUME NEW f \in Named(name), Before(f, <<u + 1, 1>>)
             PROVE  Prototyped(f)
  BY DEF Judged
<1>1. /\ f[1] \in Nat \ {0} /\ f[2] \in 1 .. Len(Entries(f[1])) /\ u \in Nat
      /\ Len(Entries(u)) \in Nat
  BY NamedIs, UnitType
<1>2. f[1] < u \/ f[1] = u
  <2>1. f[1] \in DOMAIN info.units /\ Len(Entries(f[1])) \in Nat
    BY NamedIs, UnitType
  <2> QED  BY <1>1, <2>1 DEF Before
<1>3. Before(f, <<u, Len(Entries(u)) + 1>>)
  BY <1>1, <1>2 DEF Before
<1> QED  BY <1>3 DEF Judged

LEMMA JudgedFirst ==
  ASSUME info \in Infos, NEW name
  PROVE  Judged(name, 1, 1)
<1> SUFFICES ASSUME NEW f \in Named(name), Before(f, <<1, 1>>)
             PROVE  FALSE
  BY DEF Judged
<1>1. f[1] \in DOMAIN info.units /\ f[1] \in Nat \ {0} /\ f[2] \in 1 .. Len(Entries(f[1]))
  BY NamedIs
<1>2. Len(Entries(f[1])) \in Nat
  BY <1>1, UnitType
<1> QED  BY <1>1, <1>2 DEF Before

\* Where the cursor is after a step from an entry that is judged.
LEMMA Arrived ==
  ASSUME info \in Infos, NEW name, NEW u \in DOMAIN info.units, NEW e \in Real(u), NEW m,
         Judged(name, u, e + 1),
         m.unit = u, m.entry \in e + 1 .. Len(Entries(u)) + 1,
         \A i \in e + 1 .. m.entry - 1 : i \notin Real(u),
         m.entry <= Len(Entries(u)) => AtEntry(m),
         m.entry > Len(Entries(u)) => m.depth = 0 \/ Outside(m)
  PROVE  /\ m.depth = 0 => Judged(name, u + 1, 1)
         /\ m.depth # 0 /\ ~Outside(m) => AtEntry(m) /\ Judged(name, u, m.entry)
<1> DEFINE last == Len(Entries(u))
<1>1. last \in Nat /\ DOMAIN Entries(u) = 1 .. last /\ e \in 1 .. last
  BY UnitType DEF Real
<1>2. \A i \in e + 1 .. m.entry - 1 : <<u, i>> \notin Named(name)
  <2> SUFFICES ASSUME NEW i \in e + 1 .. m.entry - 1, <<u, i>> \in Named(name) PROVE FALSE
    OBVIOUS
  <2>1. <<u, i>>[2] \in Real(<<u, i>>[1])
    BY NamedIs
  <2> QED  BY <2>1
<1>3. Judged(name, u, m.entry)
  <2>1. e + 1 \in Nat /\ m.entry \in Nat
    BY <1>1
  <2> HIDE DEF last
  <2> QED  BY <2>1, <1>2, JudgedMoves
<1>4. CASE m.entry <= last
  <2>1. AtEntry(m)
    BY <1>4
  <2>2. m.entry \in 2 .. last /\ m.depth = TrueDepth(u, m.entry)
    BY <2>1, <1>1, <1>4 DEF AtEntry, Real
  <2>3. m.depth > 0
    BY <2>2, UnitType
  <2> QED  BY <2>1, <2>3, <1>3
<1>5. CASE m.entry > last
  <2>1. m.entry = last + 1
    BY <1>1, <1>5
  <2>2. Judged(name, u + 1, 1)
    BY <2>1, <1>3, JudgedUnit
  <2> QED  BY <2>2, <1>5
<1>6. m.entry <= last \/ m.entry > last
  BY <1>1
<1> QED  BY <1>4, <1>5, <1>6

-----------------------------------------------------------------------------
(* What a parsed function is called                                        *)

LEMMA LeastIn ==
  ASSUME NEW S, S \subseteq Nat, S # {}
  PROVE  Min(S) \in S /\ \A x \in S : Min(S) <= x
<1>1. \E x \in S : \A y \in S : x <= y
  BY HasLeast
<1> QED  BY <1>1 DEF Min

LEMMA IndexIs ==
  ASSUME info \in Infos, NEW d, OnEntry(d), NEW name
  PROVE  /\ Has(d, name) <=> HasAttribute(d.unit, d.entry, name)
         /\ Has(d, name) =>
              /\ Index(d, name) \in DOMAIN Def(d)
              /\ Def(d)[Index(d, name)].name = name
              /\ Def(d)[Index(d, name)].form = FormOf(d.unit, d.entry, name)
              /\ Index(d, name) = Min({i \in DOMAIN Def(d) : Def(d)[i].name = name})
              /\ ValueAt(d, Index(d, name)).v = Attribute(d.unit, d.entry, name)
<1> DEFINE at == {i \in DOMAIN Def(d) : Def(d)[i].name = name}
           values == Entries(d.unit)[d.entry].values
<1>1. /\ Def(d) = AbbrevOf(d.unit, Entries(d.unit)[d.entry].code).def
      /\ d.entry \in Real(d.unit) /\ d.unit \in DOMAIN info.units
  BY DEF OnEntry, Def, Abbrev
<1>2. DOMAIN values = DOMAIN Def(d) /\ IsSequence(Def(d))
  BY <1>1, EntryType DEF ValuesOf
<1>3. NameOf(d.unit, d.entry, name) = at
  BY <1>1, <1>2 DEF NameOf
<1>4. at \subseteq Nat \ {0}
  BY <1>2 DEF IsSequence
<1>5. CASE at = {}
  BY <1>5, <1>3 DEF Has, Index, HasAttribute
<1>6. CASE at # {}
  <2>1. Min(at) \in at
    BY <1>4, <1>6, LeastIn
  <2>2. Index(d, name) = Min(at)
    BY <1>6 DEF Index
  <2>3. Has(d, name)
    BY <2>1, <2>2, <1>4 DEF Has
  <2>4. HasAttribute(d.unit, d.entry, name)
    BY <1>3, <1>6 DEF HasAttribute
  <2>5. ValueAt(d, Index(d, name)).v = Attribute(d.unit, d.entry, name)
    BY <1>3, <2>2 DEF ValueAt, Attribute
  <2>6. Def(d)[Index(d, name)].form = FormOf(d.unit, d.entry, name)
    BY <1>1, <1>3, <2>2 DEF FormOf
  <2> QED  BY <2>1, <2>2, <2>3, <2>4, <2>5, <2>6
<1> QED  BY <1>5, <1>6

\* What is parsed is the first attribute of the name, an implicit constant or
\* not.
NameRead(d, name) ==
  Has(d, name) => Get(d, name).v = Attribute(d.unit, d.entry, name)

LEMMA ParseReads ==
  ASSUME info \in Infos, NEW d, DIEShape(d), OnEntry(d), d.cursorAbbrev = 1, NEW name
  PROVE  /\ AtEntry(d) => AtEntry(ParseDIE(d))
         /\ NameRead(ParseDIE(d), name)
         /\ ParseDIE(d).unit = d.unit /\ ParseDIE(d).entry = d.entry
         /\ ParseDIE(d).code = d.code
<1> DEFINE p == ParseDIE(d)
           i == Index(d, name)
           data == [j \in DOMAIN d.data |->
                      IF j \in d.cursorAbbrev .. Len(Def(d)) THEN NextDIEValue(d, j)
                      ELSE d.data[j]]
           cursor == Len(Def(d)) + 1
<1>1. p = [unit |-> d.unit, entry |-> d.entry, code |-> d.code, depth |-> d.depth,
           prevHasChildren |-> d.prevHasChildren, cursorAbbrev |-> cursor,
           cursorData |-> d.cursorData, data |-> data]
  <2>1. p = [d EXCEPT !.cursorAbbrev = cursor, !.data = data]
    BY DEF ParseDIE
  <2> HIDE DEF p, cursor, data
  <2> QED  BY <2>1 DEF DIEShape
<1> HIDE DEF p
<1>2. /\ p.unit = d.unit /\ p.entry = d.entry /\ p.code = d.code /\ p.depth = d.depth
      /\ p.prevHasChildren = d.prevHasChildren /\ p.data = data
  <2> HIDE DEF data, cursor
  <2> QED  BY <1>1
<1>3. AtEntry(d) => AtEntry(p)
  BY <1>2 DEF AtEntry
<1>4. Def(p) = Def(d) /\ Index(p, name) = i /\ (Has(p, name) <=> Has(d, name))
  BY <1>2 DEF Def, Abbrev, Index, Has
<1>5. ASSUME Has(d, name) PROVE data[i].v = Attribute(d.unit, d.entry, name)
  <2>1. /\ i \in DOMAIN Def(d) /\ Def(d)[i].name = name
        /\ i = Min({j \in DOMAIN Def(d) : Def(d)[j].name = name})
        /\ ValueAt(d, i).v = Attribute(d.unit, d.entry, name)
    BY <1>5, IndexIs
  <2>2. /\ d.unit \in DOMAIN info.units /\ d.entry \in Real(d.unit)
        /\ Abbrev(d) = AbbrevOf(d.unit, Entries(d.unit)[d.entry].code)
    BY DEF OnEntry, Abbrev
  <2>3. /\ ValuesOf(Abbrev(d), Entries(d.unit)[d.entry].values)
        /\ IsSequence(Def(d)) /\ Len(Def(d)) <= MAX_DIE_DATA
    BY <2>2, EntryType DEF Def
  <2>4. i \in 1 .. Len(Def(d)) /\ i \in DOMAIN d.data
    BY <2>1, <2>3, DieWalkAssumption DEF IsSequence, DIEShape
  <2>5. data[i] = NextDIEValue(d, i)
    BY <2>4
  <2>6. CASE Def(d)[i].form = "implicit_const"
    <3>1. data[i].v = GetImplicitConst(d, name)
      BY <2>1, <2>5, <2>6 DEF NextDIEValue
    <3>2. GetImplicitConst(d, name)
            = Abbrev(d).consts[1 + Cardinality({j \in 1 .. i - 1 : Def(d)[j].form = "implicit_const"})]
      BY <2>1 DEF GetImplicitConst
    <3>3. ValueAt(d, i).v
            = Abbrev(d).consts[1 + Cardinality({j \in 1 .. i - 1 : Def(d)[j].form = "implicit_const"})]
      BY <2>1, <2>3, <2>6 DEF ValuesOf, ValueAt, Def
    <3> QED  BY <3>1, <3>2, <3>3, <2>1
  <2>7. CASE Def(d)[i].form # "implicit_const"
    <3>1. NextDIEValue(d, i).v = ValueAt(d, i).v
      BY <2>7 DEF NextDIEValue
    <3> HIDE DEF data, i
    <3> QED  BY <3>1, <2>1, <2>5
  <2> HIDE DEF data, i
  <2> QED  BY <2>6, <2>7
<1>6. NameRead(p, name)
  <2> HIDE DEF data
  <2> QED  BY <1>2, <1>4, <1>5 DEF NameRead, Get
<1> QED  BY <1>2, <1>3, <1>6 DEF p

-----------------------------------------------------------------------------
(* The invariant                                                           *)

RootOK(u) ==
  /\ u \in DOMAIN info.units /\ 1 \in Real(u)
  /\ AbbrevOf(u, Entries(u)[1].code).tag = "compile_unit"

UnitsRead ==
  /\ \E S : cus \in Seq(S)
  /\ Len(cus) \in 0 .. Len(info.units)
  /\ \A u \in 1 .. Len(cus) : RootOK(u)

JobShape ==
  /\ job = [kind |-> job.kind, arg |-> job.arg, unit |-> job.unit, at |-> job.at]
  /\ job.unit \in Nat \ {0}
  /\ job.at \in {"start", "units"} => job.kind = "none"

\* The cursor is at an entry of the unit being walked.
AtJob == AtEntry(die) /\ die.unit = job.unit

\* Where `breakpoint set func' is, the functions behind it are judged.
NameWalk ==
  /\ job.at = "unit" => Judged(job.arg, job.unit, 1)
  /\ job.at = "die" /\ die.depth = 0 => Judged(job.arg, job.unit + 1, 1)
  /\ job.at = "die" /\ die.depth # 0 =>
       AtJob /\ die.cursorAbbrev = 1 /\ Judged(job.arg, job.unit, die.entry)
  /\ job.at = "parsed" =>
       /\ AtJob /\ Judged(job.arg, job.unit, die.entry)
       /\ Abbrev(die).tag = "subprogram" /\ NameRead(die, "name")
  /\ job.at = "next" => AtJob /\ Judged(job.arg, job.unit, die.entry + 1)

Walking == job.kind = "name" /\ InTree /\ status = "running"

IInv ==
  /\ info \in Infos /\ DIEShape(die) /\ JobShape
  /\ UnitsRead
  /\ NameFound
  /\ Walking => NameWalk

LEMMA NotWalking ==
  ASSUME \/ status' # "running" \/ job'.kind # "name"
         \/ job'.at \notin {"unit", "die", "parsed", "next"}
  PROVE  (Walking => NameWalk)'
BY DEF Walking, NameWalk

LEMMA NotAnswered ==
  ASSUME job'.kind # "name" \/ job'.at # "idle"
  PROVE  NameFound'
BY DEF NameFound, Answered

\* Nothing said of debug information changes.
LEMMA SameInfo ==
  ASSUME info' = info
  PROVE  /\ InTree' <=> InTree
         /\ UNCHANGED cus /\ UnitsRead => UnitsRead'
         /\ AtEntry(die') => AtEntry(die)'
         /\ AtEntry(die)' => AtEntry(die')
         /\ Abbrev(die)' = Abbrev(die')
         /\ NameRead(die', "name") => NameRead(die, "name")'
         /\ \A name : Named(name)' = Named(name)
         /\ \A f : Prototyped(f)' <=> Prototyped(f)
<1>1. InTree' <=> InTree
  BY DEF InTree, EmptyList, Opens, Real, Entries, AbbrevOf
<1>2. UNCHANGED cus /\ UnitsRead => UnitsRead'
  BY DEF UnitsRead, RootOK, Real, Entries, AbbrevOf
<1>3. AtEntry(die') <=> AtEntry(die)'
  BY DEF AtEntry, Real, Entries, TrueDepth, Opens, AbbrevOf
<1>4. Abbrev(die)' = Abbrev(die')
  BY DEF Abbrev, AbbrevOf
<1>5. NameRead(die', "name") => NameRead(die, "name")'
  BY DEF NameRead, Has, Get, Index, Def, Abbrev, AbbrevOf, Attribute, NameOf, Entries
<1>6. ASSUME NEW name PROVE Named(name)' = Named(name)
  BY DEF Named, Tagged, Real, HasAttribute, Attribute, NameOf, Entries, AbbrevOf
<1>7. ASSUME NEW f PROVE Prototyped(f)' <=> Prototyped(f)
  BY DEF Prototyped, HasAttribute, NameOf, Entries, AbbrevOf
<1> QED  BY <1>1, <1>2, <1>3, <1>4, <1>5, <1>6, <1>7

LEMMA NamedKept ==
  ASSUME info' = info, job'.arg = job.arg
  PROVE  Named(job.arg)' = Named(job.arg)
BY DEF Named, Tagged, Real, HasAttribute, Attribute, NameOf, Entries, AbbrevOf

LEMMA WalkKept ==
  ASSUME UNCHANGED <<info, die, job>>, Walking => NameWalk, status' = "running" => status = "running"
  PROVE  (Walking => NameWalk)'
<1> SUFFICES ASSUME Walking' PROVE NameWalk'
  OBVIOUS
<1>1. Walking
  BY SameInfo DEF Walking
<1>2. \A name, u, e : Judged(name, u, e)' <=> Judged(name, u, e)
  BY SameInfo DEF Judged
<1> QED  BY <1>1, <1>2, SameInfo DEF NameWalk, AtJob

LEMMA GoesIs ==
  ASSUME JobShape, NEW at, Goes(at), at \notin {"start", "units"}
  PROVE  /\ JobShape'
         /\ job'.kind = job.kind /\ job'.arg = job.arg /\ job'.unit = job.unit /\ job'.at = at
<1>1. job' = [kind |-> job.kind, arg |-> job.arg, unit |-> job.unit, at |-> at]
  BY DEF JobShape, Goes
<1> QED  BY <1>1 DEF JobShape

\* Steps of other commands, and the last step of a debugger.
LEMMA Elsewhere ==
  ASSUME IInv, UNCHANGED <<info, cus>>, DIEShape(die'), JobShape',
         \/ job'.kind # "name"
         \/ job'.at # "idle" /\ status' # "running"
         \/ job'.at \in {"start", "units"}
  PROVE  IInv'
<1>1. info' \in Infos /\ UnitsRead'
  BY SameInfo DEF IInv
<1>2. NameFound'
  BY NotAnswered
<1>3. (Walking => NameWalk)'
  BY NotWalking
<1>4. DIEShape(die)'
  BY DEF DIEShape
<1> QED  BY <1>1, <1>2, <1>3, <1>4 DEF IInv

LEMMA Ended ==
  ASSUME IInv, NEW s, s # "running", Ends(s), job.at # "idle"
  PROVE  IInv'
<1>1. UNCHANGED <<info, cus, die, job>> /\ status' = s
  BY DEF Ends
<1>2. JobShape' /\ DIEShape(die')
  BY <1>1 DEF IInv, JobShape
<1> QED  BY <1>1, <1>2, Elsewhere

LEMMA UninitialisedShape == DIEShape(Uninitialised)
BY DEF DIEShape, Uninitialised

\* The cursor from which InitializeDIE moves on.
Start(d, u) ==
  [unit |-> u, entry |-> d.entry, code |-> d.code, depth |-> 1, prevHasChildren |-> FALSE,
   cursorAbbrev |-> d.cursorAbbrev, cursorData |-> d.cursorData, data |-> d.data]

LEMMA StartShape ==
  ASSUME NEW d, DIEShape(d), NEW u
  PROVE  /\ DIEShape(Start(d, u)) /\ Start(d, u).unit = u /\ Start(d, u).depth = 1
         /\ ~Start(d, u).prevHasChildren
BY DEF DIEShape, Start

LEMMA StartIs ==
  ASSUME NEW d, DIEShape(d), NEW k, NEW u
  PROVE  InitializeDIE(d, k, u) = UpdateDIE(Start(d, u), k)
<1> DEFINE s == [d EXCEPT !.unit = u, !.depth = 1, !.prevHasChildren = FALSE]
<1>1. s = [d EXCEPT !.unit = u, !.depth = 1, !.prevHasChildren = FALSE]
  OBVIOUS
<1>2. InitializeDIE(d, k, u) = UpdateDIE(s, k)
  BY DEF InitializeDIE
<1> HIDE DEF s
<1>3. s = Start(d, u)
  BY <1>1 DEF DIEShape, Start
<1> QED  BY <1>2, <1>3

LEMMA InitializeFields ==
  ASSUME NEW d, DIEShape(d), NEW k, NEW u
  PROVE  LET n == Nulls(u, k)
             m == InitializeDIE(d, k, u)
         IN  /\ DIEShape(m) /\ m.unit = u
             /\ m.code = IF n > 1 \/ k + n > Len(Entries(u)) THEN 0 ELSE Entries(u)[k + n].code
<1>1. InitializeDIE(d, k, u) = UpdateDIE(Start(d, u), k)
  BY StartIs
<1>2. DIEShape(Start(d, u)) /\ Start(d, u).unit = u /\ Start(d, u).depth = 1
  BY StartShape
<1> QED  BY <1>1, <1>2, UpdateFields

-----------------------------------------------------------------------------
(* The units                                                               *)

LEMMA InvInit == Init => IInv
<1> SUFFICES ASSUME Init PROVE IInv
  OBVIOUS
<1>1. job = [kind |-> "none", arg |-> "none", unit |-> 1, at |-> "start"]
  BY DEF Init, NoJob
<1>2. info \in Infos /\ DIEShape(die)
  BY UninitialisedShape DEF Init
<1>3. JobShape
  BY <1>1 DEF JobShape
<1>4. UnitsRead
  <2>1. cus \in Seq({}) /\ Len(cus) = 0
    BY DEF Init
  <2>2. Len(info.units) \in Nat
    BY <1>2, DieWalkAssumption DEF IsSequence
  <2> QED  BY <2>1, <2>2 DEF UnitsRead
<1>5. NameFound /\ ~Walking
  BY <1>1 DEF NameFound, Answered, Walking
<1> QED  BY <1>2, <1>3, <1>4, <1>5 DEF IInv

LEMMA CountKept ==
  ASSUME IInv, GetCompileUnitCount
  PROVE  IInv'
<1>1. job.at = "start"
  BY DEF GetCompileUnitCount, Running
<1>2. CASE Ends("lost")
  BY <1>1, <1>2, Ended
<1>3. CASE Goes("units") /\ UNCHANGED <<info, cus, die, func, status, seen, answer>>
  <2>1. job' = [kind |-> job.kind, arg |-> job.arg, unit |-> job.unit, at |-> "units"]
    BY <1>3 DEF Goes, IInv, JobShape
  <2>2. JobShape' /\ job'.at = "units"
    BY <2>1, <1>1 DEF IInv, JobShape
  <2>3. DIEShape(die')
    BY <1>3 DEF IInv
  <2> QED  BY <1>3, <2>2, <2>3, Elsewhere
<1> QED  BY <1>2, <1>3 DEF GetCompileUnitCount

\* The first entry of a unit is the unit's.
LEMMA RootRead ==
  ASSUME info \in Infos, NEW u \in DOMAIN info.units,
         Abbrev(InitializeDIE(Uninitialised, 1, u)).tag = "compile_unit"
  PROVE  RootOK(u)
<1> DEFINE n == Nulls(u, 1)
           last == Len(Entries(u))
           code == IF n > 1 \/ 1 + n > last THEN 0 ELSE Entries(u)[1 + n].code
           d == InitializeDIE(Uninitialised, 1, u)
<1>1. last \in Nat /\ DOMAIN Entries(u) = 1 .. last /\ AbbrevOf(u, 0) = NoAbbrev
      /\ \A e \in 2 .. last : TrueDepth(u, e) > 0
  BY UnitType
<1>2. /\ n \in 0 .. last
      /\ \A i \in 1 .. n : Entries(u)[i].code = 0
  <2>1. 1 \in 1 .. last + 1
    BY <1>1
  <2>2. n \in 0 .. last + 1 - 1 /\ \A i \in 1 .. 1 + n - 1 : Entries(u)[i].code = 0
    BY <2>1, NullsPassed
  <2> HIDE DEF n
  <2> QED  BY <2>2, <1>1
<1>3. d.unit = u /\ d.code = code
  <2>1. DIEShape(Uninitialised)
    BY UninitialisedShape
  <2> QED  BY <2>1, InitializeFields
<1>4. AbbrevOf(u, code).tag = "compile_unit"
  BY <1>3 DEF Abbrev
<1>5. code # 0
  BY <1>1, <1>4 DEF NoAbbrev
<1>6. n = 0
  <2> SUFFICES ASSUME n # 0 PROVE FALSE
    OBVIOUS
  <2>1. n = 1 /\ 2 \in 2 .. last /\ Entries(u)[1].code = 0
    BY <1>1, <1>2, <1>5
  <2>2. TrueDepth(u, 2) > 0
    BY <1>1, <2>1
  <2>3. Openers(u, 2) = {} /\ IsFiniteSet(Closers(u, 2)) /\ Cardinality(Closers(u, 2)) \in Nat
    <3>1. Openers(u, 2) \subseteq {} /\ Closers(u, 2) \subseteq 1 .. 1
      BY <2>1 DEF Openers, Closers
    <3> QED  BY <3>1, FiniteBefore
  <2>4. Cardinality(Openers(u, 2)) = 0
    BY <2>3, FS_EmptySet
  <2>5. TrueDepth(u, 2) = 0 - Cardinality(Closers(u, 2))
    BY <2>4, DepthIs
  <2> HIDE DEF n, last, code, d
  <2> QED  BY <2>2, <2>3, <2>5
<1>7. 1 \in Real(u) /\ code = Entries(u)[1].code
  BY <1>1, <1>5, <1>6 DEF Real
<1> QED  BY <1>4, <1>7 DEF RootOK

LEMMA UnitKept ==
  ASSUME IInv, InitializeCompileUnit
  PROVE  IInv'
<1> DEFINE u == Len(cus) + 1
           d == InitializeDIE(Uninitialised, 1, u)
<1>1. job.at = "units" /\ Len(cus) < Len(info.units)
  BY DEF InitializeCompileUnit, Running
<1>2. CASE \E s : s # "running" /\ Ends(s)
  BY <1>1, <1>2, Ended
<1>3. CASE /\ Abbrev(d).tag = "compile_unit"
           /\ cus' = Append(cus, ParseDIE(d))
           /\ UNCHANGED <<info, die, func, job, status, seen, answer>>
  <2>1. u \in DOMAIN info.units /\ u \in Nat
    BY <1>1, DieWalkAssumption DEF IInv, UnitsRead, IsSequence
  <2>2. RootOK(u)
    BY <2>1, <1>3, RootRead DEF IInv
  <2>3. PICK S : cus \in Seq(S)
    BY DEF IInv, UnitsRead
  <2>4. cus' \in Seq(S \cup {ParseDIE(d)}) /\ Len(cus') = u
    <3>1. cus \in Seq(S \cup {ParseDIE(d)})
      BY <2>3
    <3> HIDE DEF d
    <3> QED  BY <3>1, <1>3
  <2>5. UnitsRead'
    <3>1. Len(cus') \in 0 .. Len(info.units)
      BY <2>1, <2>4, <1>1, DieWalkAssumption DEF IInv, IsSequence
    <3>2. \A v \in 1 .. Len(cus') : RootOK(v)
      BY <2>1, <2>2, <2>4 DEF IInv, UnitsRead
    <3>3. \A v : RootOK(v)' <=> RootOK(v)
      BY <1>3 DEF RootOK, Real, Entries, AbbrevOf
    <3> QED  BY <2>4, <3>1, <3>2, <3>3, <1>3 DEF UnitsRead
  <2>6. job'.at = "units" /\ JobShape' /\ DIEShape(die') /\ info' \in Infos
    BY <1>1, <1>3 DEF IInv, JobShape
  <2>7. NameFound' /\ (Walking => NameWalk)'
    BY <2>6, NotAnswered, NotWalking
  <2>8. DIEShape(die)'
    BY <2>6 DEF DIEShape
  <2> QED  BY <2>5, <2>6, <2>7, <2>8 DEF IInv
<1> QED
  <2>1. InitializeCompileUnit =>
          \/ Ends("failed") \/ Ends("lost")
          \/ Ends(After("unit", d)) /\ After("unit", d) # "running"
          \/ /\ Abbrev(d).tag = "compile_unit"
             /\ cus' = Append(cus, ParseDIE(d))
             /\ UNCHANGED <<info, die, func, job, status, seen, answer>>
    BY DEF InitializeCompileUnit
  <2> HIDE DEF d
  <2> QED  BY <2>1, <1>2, <1>3

-----------------------------------------------------------------------------
(* The steps of `breakpoint set func'                                      *)

LEMMA JudgedKept ==
  ASSUME info' = info
  PROVE  \A name, u, e : Judged(name, u, e) => Judged(name, u, e)'
BY SameInfo DEF Judged

\* The cursor has been moved to m, and the functions before it are judged.
LEMMA WalkArrives ==
  ASSUME IInv, UNCHANGED <<info, cus>>, JobShape', job'.kind = "name", job'.at = "die",
         NEW m, NEW before, Arrives(m, before), DIEShape(m), m.unit = job'.unit,
         m.cursorAbbrev = 1,
         InTree /\ status = "running" =>
           /\ m.depth = 0 => Judged(job'.arg, job'.unit + 1, 1)
           /\ m.depth # 0 /\ ~Outside(m) => AtEntry(m) /\ Judged(job'.arg, job'.unit, m.entry)
  PROVE  IInv'
<1>1. die' = m /\ status' = IF Outside(m) THEN "lost" ELSE status
  BY DEF Arrives
<1>2. info' \in Infos /\ UnitsRead' /\ NameFound' /\ DIEShape(die)'
  BY <1>1, SameInfo, NotAnswered DEF IInv, DIEShape
<1>3. ASSUME Walking' PROVE NameWalk'
  <2>1. InTree /\ status = "running" /\ ~Outside(m)
    BY <1>1, <1>3, SameInfo DEF Walking
  <2>2. die'.depth = 0 => Judged(job.arg, job.unit + 1, 1)'
    BY <2>1, <1>1, JudgedKept DEF Judged
  <2>3. die'.depth # 0 => AtJob' /\ die'.cursorAbbrev = 1 /\ Judged(job.arg, job.unit, die.entry)'
    BY <2>1, <1>1, JudgedKept, SameInfo DEF Judged, AtJob
  <2> QED  BY <2>2, <2>3 DEF NameWalk
<1> QED  BY <1>2, <1>3 DEF IInv

LEMMA RootDepth ==
  ASSUME NEW u
  PROVE  TrueDepth(u, 1) = 0
<1>1. Openers(u, 1) = {} /\ Closers(u, 1) = {}
  BY DEF Openers, Closers
<1>2. Cardinality(Openers(u, 1)) = 0 /\ Cardinality(Closers(u, 1)) = 0
  BY <1>1, FS_EmptySet
<1> QED  BY <1>2, DepthIs

\* From entry e of unit u to m there is no entry, and m is one or behind them.
MovesTo(m, u, e) ==
  /\ m.unit = u /\ m.entry \in e + 1 .. Len(Entries(u)) + 1
  /\ \A i \in e + 1 .. m.entry - 1 : i \notin Real(u)
  /\ m.entry <= Len(Entries(u)) => AtEntry(m)
  /\ m.entry > Len(Entries(u)) => m.depth = 0 \/ Outside(m)

LEMMA EnterReaches ==
  ASSUME info \in Infos, InTree, NEW d, DIEShape(d), NEW u, RootOK(u)
  PROVE  MovesTo(InitializeDIE(d, 2, u), u, 1)
<1> DEFINE s == Start(d, u)
           m == InitializeDIE(d, 2, u)
           last == Len(Entries(u))
<1>1. m = UpdateDIE(s, 2)
  BY StartIs
<1>2. DIEShape(s) /\ s.unit = u /\ s.depth = 1 /\ ~s.prevHasChildren
  BY StartShape
<1> HIDE DEF s, m
<1>3. u \in DOMAIN info.units /\ 1 \in Real(u)
  BY DEF RootOK
<1>4. last \in Nat /\ DOMAIN Entries(u) = 1 .. last /\ 1 \in 1 .. last
      /\ \A e \in 2 .. last : TrueDepth(u, e) > 0
  BY <1>3, UnitType DEF Real
<1>5. CASE Opens(u, 1)
  <2>1. s.depth \in Nat /\ s.depth = TrueDepth(u, 1) + 1
    BY <1>2, RootDepth
  <2>2. m = UpdateDIE(s, 1 + 1)
    BY <1>1
  <2> QED  BY <2>1, <2>2, <1>2, <1>3, <1>5, UpdateMoves DEF MovesTo, m
<1>6. CASE ~Opens(u, 1)
  <2>1. last = 1
    <3> SUFFICES ASSUME last # 1 PROVE FALSE
      OBVIOUS
    <3>1. 2 \in 2 .. last
      BY <1>4
    <3>2. \A i \in 1 + 1 .. 1 + 0 : Entries(u)[i].code = 0
      OBVIOUS
    <3>3. TrueDepth(u, 1 + 1 + 0) = TrueDepth(u, 1) + (IF Opens(u, 1) THEN 1 ELSE 0) - 0
      BY <3>2, <1>3, DepthMoves
    <3>4. TrueDepth(u, 2) = 0
      BY <3>3, <1>6, RootDepth
    <3> QED  BY <3>1, <3>4, <1>4
  <2>2. Nulls(u, 2) = 0
    <3>1. 2 \in 1 .. last + 1
      BY <2>1
    <3>2. Nulls(u, 2) \in 0 .. last + 1 - 2
      BY <3>1, <1>3, NullsPassed
    <3> QED  BY <3>2, <2>1
  <2>3. m.entry = 2 /\ m.depth = 1 /\ m.unit = u
    <3>1. /\ m.unit = s.unit
          /\ m.entry = IF Nulls(s.unit, 2) > s.depth THEN 2 + s.depth ELSE 2 + Nulls(s.unit, 2)
          /\ m.depth = IF Nulls(s.unit, 2) > s.depth THEN 0
                       ELSE IF Nulls(s.unit, 2) = 0 /\ s.prevHasChildren THEN s.depth + 1
                       ELSE s.depth - Nulls(s.unit, 2)
      BY <1>1, <1>2, UpdateFields
    <3> QED  BY <3>1, <1>2, <2>2
  <2>4. Outside(m)
    <3>1. Len(Entries(m.unit)) = 1
      BY <2>1, <2>3
    <3> QED  BY <3>1, <2>3 DEF Outside
  <2>5. m.entry \in 1 + 1 .. last + 1 /\ \A i \in 1 + 1 .. m.entry - 1 : i \notin Real(u)
    BY <2>1, <2>3
  <2> HIDE DEF last
  <2> QED  BY <2>1, <2>3, <2>4, <2>5 DEF MovesTo, m, last
<1> QED  BY <1>5, <1>6

LEMMA EnterMoves ==
  ASSUME info \in Infos, InTree, NEW d, DIEShape(d), NEW u, RootOK(u), NEW name,
         Judged(name, u, 1)
  PROVE  LET m == InitializeDIE(d, 2, u)
         IN  /\ m.cursorAbbrev = 1
             /\ m.depth = 0 => Judged(name, u + 1, 1)
             /\ m.depth # 0 /\ ~Outside(m) => AtEntry(m) /\ Judged(name, u, m.entry)
<1> DEFINE m == InitializeDIE(d, 2, u)
<1>1. m = UpdateDIE(Start(d, u), 2) /\ DIEShape(Start(d, u))
  BY StartIs, StartShape
<1>2. m.cursorAbbrev = 1
  <2> HIDE DEF m
  <2> QED  BY <1>1, UpdateFields
<1>3. MovesTo(m, u, 1)
  BY EnterReaches
<1>4. u \in DOMAIN info.units /\ 1 \in Real(u)
      /\ AbbrevOf(u, Entries(u)[1].code).tag = "compile_unit"
  BY DEF RootOK
<1>5. Judged(name, u, 1 + 1)
  <2>1. <<u, 1>> \notin Named(name)
    <3> SUFFICES ASSUME <<u, 1>> \in Named(name) PROVE FALSE
      OBVIOUS
    <3>1. AbbrevOf(<<u, 1>>[1], Entries(<<u, 1>>[1])[<<u, 1>>[2]].code).tag = "subprogram"
      BY NamedIs
    <3> QED  BY <3>1, <1>4
  <2>2. \A i \in 1 .. 2 - 1 : <<u, i>> \in Named(name) => Prototyped(<<u, i>>)
    BY <2>1
  <2> QED  BY <2>2, <1>4, JudgedMoves
<1> HIDE DEF m
<1> QED  BY <1>2, <1>3, <1>4, <1>5, Arrived DEF MovesTo, m

LEMMA EnterKept ==
  ASSUME IInv, EnterUnit
  PROVE  IInv'
<1> DEFINE u == job.unit
           m == InitializeDIE(die, 2, u)
<1>1. /\ job.at = "unit" /\ u <= Len(cus)
      /\ Arrives(m, seen) /\ Goes("die") /\ UNCHANGED <<info, cus>>
  BY DEF EnterUnit, Running
<1>2. /\ JobShape' /\ job'.kind = job.kind /\ job'.arg = job.arg /\ job'.unit = u
      /\ job'.at = "die"
  BY <1>1, GoesIs DEF IInv
<1>3. DIEShape(m) /\ m.unit = u
  BY InitializeFields DEF IInv
<1>4. info \in Infos /\ RootOK(u)
  BY <1>1 DEF IInv, UnitsRead, JobShape
<1>5. m.cursorAbbrev = 1
  <2>1. m = UpdateDIE(Start(die, u), 2) /\ DIEShape(Start(die, u))
    <3>1. m = UpdateDIE(Start(die, u), 2)
      BY StartIs DEF IInv
    <3> QED  BY <3>1, StartShape DEF IInv
  <2> QED  BY <2>1, UpdateFields
<1>6. CASE job.kind # "name"
  <2>1. DIEShape(die')
    BY <1>1, <1>3 DEF Arrives
  <2> QED  BY <2>1, <1>1, <1>2, <1>6, Elsewhere
<1>7. CASE job.kind = "name"
  <2>1. ASSUME InTree, status = "running"
        PROVE  /\ m.depth = 0 => Judged(job.arg, u + 1, 1)
               /\ m.depth # 0 /\ ~Outside(m) => AtEntry(m) /\ Judged(job.arg, u, m.entry)
    <3>1. Judged(job.arg, u, 1)
      BY <2>1, <1>1, <1>7 DEF IInv, Walking, NameWalk
    <3> QED  BY <3>1, <2>1, <1>4, EnterMoves DEF IInv
  <2> HIDE DEF m, u
  <2> QED  BY <2>1, <1>1, <1>2, <1>3, <1>5, <1>7, WalkArrives
<1> QED  BY <1>6, <1>7

LEMMA LeaveKept ==
  ASSUME IInv, LeaveUnit
  PROVE  IInv'
<1>1. /\ job.at = "die" /\ die.depth = 0
      /\ job' = [job EXCEPT !.unit = @ + 1, !.at = "unit"]
      /\ UNCHANGED <<info, cus, die, status>>
  BY DEF LeaveUnit, Running
<1>2. job' = [kind |-> job.kind, arg |-> job.arg, unit |-> job.unit + 1, at |-> "unit"]
  BY <1>1 DEF IInv, JobShape
<1>3. JobShape' /\ job'.at = "unit"
  BY <1>2 DEF IInv, JobShape
<1>4. DIEShape(die')
  BY <1>1 DEF IInv
<1>5. CASE job.kind # "name"
  BY <1>1, <1>2, <1>3, <1>4, <1>5, Elsewhere
<1>6. CASE job.kind = "name"
  <2>1. info' \in Infos /\ UnitsRead' /\ NameFound' /\ DIEShape(die)'
    BY <1>1, <1>3, SameInfo, NotAnswered DEF IInv, DIEShape
  <2>2. ASSUME Walking' PROVE NameWalk'
    <3>1. Walking
      BY <2>2, <1>1, <1>6, SameInfo DEF Walking
    <3>2. Judged(job.arg, job.unit + 1, 1)
      BY <3>1, <1>1 DEF IInv, NameWalk
    <3>3. Judged(job.arg, job.unit, 1)'
      BY <3>2, <1>1, <1>2, JudgedKept DEF Judged
    <3> QED  BY <3>3, <1>3 DEF NameWalk
  <2> QED  BY <2>1, <2>2, <1>3 DEF IInv
<1> QED  BY <1>5, <1>6

\* A function that is passed over has DW_AT_prototyped.
LEMMA SkipKept ==
  ASSUME IInv, Skip
  PROVE  IInv'
<1>1. /\ job.at = "die" /\ die.depth # 0 /\ FALSE \in Wanted /\ Goes("next")
      /\ UNCHANGED <<info, cus, die, status>>
  BY DEF Skip, Running
<1>2. /\ JobShape' /\ job'.kind = job.kind /\ job'.arg = job.arg /\ job'.unit = job.unit
      /\ job'.at = "next"
  BY <1>1, GoesIs DEF IInv
<1>3. DIEShape(die') /\ info \in Infos
  BY <1>1 DEF IInv
<1>4. CASE job.kind # "name"
  BY <1>1, <1>2, <1>3, <1>4, Elsewhere
<1>5. CASE job.kind = "name"
  <2>1. info' \in Infos /\ UnitsRead' /\ NameFound' /\ DIEShape(die)'
    BY <1>1, <1>2, SameInfo, NotAnswered DEF IInv, DIEShape
  <2>2. ASSUME Walking' PROVE NameWalk'
    <3>1. Walking
      BY <2>2, <1>1, <1>5, SameInfo DEF Walking
    <3>2. AtJob /\ Judged(job.arg, job.unit, die.entry)
      BY <3>1, <1>1 DEF IInv, NameWalk
    <3>3. /\ job.unit \in DOMAIN info.units /\ die.unit = job.unit
          /\ die.entry \in Real(job.unit) /\ AtEntry(die)
          /\ die.code = Entries(job.unit)[die.entry].code
      BY <3>2 DEF AtJob, AtEntry
    <3>4. ASSUME <<job.unit, die.entry>> \in Named(job.arg)
          PROVE  Prototyped(<<job.unit, die.entry>>)
      <4>1. Abbrev(die).tag = "subprogram"
        <5>1. AbbrevOf(<<job.unit, die.entry>>[1],
                       Entries(<<job.unit, die.entry>>[1])[<<job.unit, die.entry>>[2]].code).tag
                = "subprogram"
          BY <3>4, <1>3, NamedIs
        <5> QED  BY <5>1, <3>3 DEF Abbrev
      <4>2. Has(die, "prototyped")
        BY <1>1, <1>5, <4>1 DEF Wanted, Skips
      <4>3. HasAttribute(die.unit, die.entry, "prototyped")
        BY <4>2, <3>3, <1>3, IndexIs DEF AtEntry, OnEntry
      <4> QED  BY <4>3, <3>3 DEF Prototyped
    <3>5. Judged(job.arg, job.unit, die.entry + 1)
      <4>1. die.entry \in Nat /\ die.entry + 1 \in Nat
        BY <3>3, <1>3, UnitType DEF Real
      <4>2. \A i \in die.entry .. die.entry + 1 - 1 :
              <<job.unit, i>> \in Named(job.arg) => Prototyped(<<job.unit, i>>)
        BY <4>1, <3>4
      <4> QED  BY <4>1, <4>2, <3>2, <3>3, <1>3, JudgedMoves
    <3>6. AtJob'
      BY <3>2, <1>1, <1>2, SameInfo DEF AtJob
    <3>7. Judged(job.arg, job.unit, die.entry + 1)'
      BY <3>5, <1>1, <1>2, JudgedKept DEF Judged
    <3> QED  BY <3>6, <3>7, <1>2 DEF NameWalk
  <2> QED  BY <2>1, <2>2, <1>2 DEF IInv
<1> QED  BY <1>4, <1>5

LEMMA ParseShape ==
  ASSUME NEW d, DIEShape(d)
  PROVE  DIEShape(ParseDIE(d))
<1> DEFINE data == [j \in DOMAIN d.data |->
                      IF j \in d.cursorAbbrev .. Len(Def(d)) THEN NextDIEValue(d, j)
                      ELSE d.data[j]]
           cursor == Len(Def(d)) + 1
           p == ParseDIE(d)
<1>1. p = [d EXCEPT !.cursorAbbrev = cursor, !.data = data]
  BY DEF ParseDIE
<1>2. DOMAIN data = 1 .. MAX_DIE_DATA
  BY DEF DIEShape
<1> HIDE DEF p, cursor, data
<1>3. p = [unit |-> d.unit, entry |-> d.entry, code |-> d.code, depth |-> d.depth,
           prevHasChildren |-> d.prevHasChildren, cursorAbbrev |-> cursor,
           cursorData |-> d.cursorData, data |-> data]
  BY <1>1 DEF DIEShape
<1>4. DIEShape(p)
  BY <1>2, <1>3 DEF DIEShape
<1> QED  BY <1>4 DEF p

LEMMA ParseKept ==
  ASSUME IInv, Parse
  PROVE  IInv'
<1>1. job.at = "die" /\ die.depth # 0 /\ TRUE \in Wanted
  BY DEF Parse, Running
<1>2. CASE \E s : s # "running" /\ Ends(s)
  BY <1>1, <1>2, Ended
<1>3. CASE die' = ParseDIE(die) /\ Goes("parsed") /\ UNCHANGED <<info, cus, status>>
  <2>1. /\ JobShape' /\ job'.kind = job.kind /\ job'.arg = job.arg /\ job'.unit = job.unit
        /\ job'.at = "parsed"
    BY <1>3, GoesIs DEF IInv
  <2>2. DIEShape(die') /\ DIEShape(die) /\ info \in Infos
    <3>1. DIEShape(ParseDIE(die))
      BY ParseShape DEF IInv
    <3> QED  BY <3>1, <1>3 DEF IInv
  <2>3. CASE job.kind # "name"
    BY <1>3, <2>1, <2>2, <2>3, Elsewhere
  <2>4. CASE job.kind = "name"
    <3>1. info' \in Infos /\ UnitsRead' /\ NameFound' /\ DIEShape(die)'
      BY <1>3, <2>1, <2>2, SameInfo, NotAnswered DEF IInv, DIEShape
    <3>2. ASSUME Walking' PROVE NameWalk'
      <4>1. Walking
        BY <3>2, <1>3, <2>4, SameInfo DEF Walking
      <4>2. AtJob /\ die.cursorAbbrev = 1 /\ Judged(job.arg, job.unit, die.entry)
        BY <4>1, <1>1 DEF IInv, NameWalk
      <4>3. /\ AtEntry(die') /\ NameRead(die', "name")
            /\ die'.unit = die.unit /\ die'.entry = die.entry /\ die'.code = die.code
        BY <4>2, <2>2, <1>3, ParseReads DEF AtJob, AtEntry, OnEntry
      <4>4. Abbrev(die).tag = "subprogram"
        BY <1>1, <2>4 DEF Wanted
      <4>5. Abbrev(die)'.tag = "subprogram"
        BY <4>3, <4>4, <1>3 DEF Abbrev, AbbrevOf
      <4>6. AtJob' /\ NameRead(die, "name")'
        BY <4>2, <4>3, <1>3, <2>1, SameInfo DEF AtJob
      <4>7. Judged(job.arg, job.unit, die.entry)'
        BY <4>2, <4>3, <1>3, <2>1, JudgedKept DEF Judged
      <4> QED  BY <4>5, <4>6, <4>7, <2>1 DEF NameWalk
    <3> QED  BY <3>1, <3>2, <2>1 DEF IInv
  <2> QED  BY <2>3, <2>4
<1> QED
  <2>1. \/ Ends(After("parse", die)) /\ After("parse", die) # "running"
        \/ die' = ParseDIE(die) /\ Goes("parsed") /\ UNCHANGED <<info, cus, status>>
    BY DEF Parse
  <2> QED  BY <2>1, <1>2, <1>3

LEMMA StepKept ==
  ASSUME IInv, StepDIE
  PROVE  IInv'
<1> DEFINE m == NextDIE(die)
           e == die.entry
<1>1. job.at = "next"
  BY DEF StepDIE, Running
<1>2. CASE \E s : s # "running" /\ Ends(s)
  BY <1>1, <1>2, Ended
<1>3. CASE Arrives(m, seen) /\ Goes("die") /\ UNCHANGED <<info, cus>>
  <2>1. /\ JobShape' /\ job'.kind = job.kind /\ job'.arg = job.arg /\ job'.unit = job.unit
        /\ job'.at = "die"
    BY <1>3, GoesIs DEF IInv
  <2>2. DIEShape(die) /\ info \in Infos
    BY DEF IInv
  <2>3. m = UpdateDIE(die, e + 1)
    BY DEF NextDIE
  <2> HIDE DEF m
  <2>4. DIEShape(m) /\ m.unit = die.unit /\ m.cursorAbbrev = 1
    BY <2>2, <2>3, UpdateFields
  <2>5. DIEShape(die')
    BY <2>4, <1>3 DEF Arrives
  <2>6. ~(job.kind = "name" /\ InTree /\ status = "running") => IInv'
    <3> SUFFICES ASSUME ~(job.kind = "name" /\ InTree /\ status = "running") PROVE IInv'
      OBVIOUS
    <3>1. CASE job.kind # "name"
      BY <1>3, <2>1, <2>5, <3>1, Elsewhere
    <3>2. CASE ~(InTree /\ status = "running")
      <4>1. (Walking => NameWalk)'
        <5>1. ~Walking'
          BY <3>2, <1>3, SameInfo DEF Walking, Arrives
        <5> QED  BY <5>1
      <4>2. info' \in Infos /\ UnitsRead' /\ NameFound' /\ DIEShape(die)'
        BY <1>3, <2>1, <2>2, <2>5, SameInfo, NotAnswered DEF IInv, DIEShape
      <4> QED  BY <4>1, <4>2, <2>1 DEF IInv
    <3> QED  BY <3>1, <3>2
  <2>7. ASSUME job.kind = "name", InTree, status = "running" PROVE IInv'
    <3>1. AtJob /\ Judged(job.arg, job.unit, e + 1)
      BY <2>7, <1>1 DEF IInv, Walking, NameWalk
    <3>2. /\ job.unit \in DOMAIN info.units /\ die.unit = job.unit /\ e \in Real(job.unit)
          /\ die.depth = TrueDepth(job.unit, e) /\ e > 1
          /\ die.prevHasChildren <=> Opens(job.unit, e)
      BY <3>1 DEF AtJob, AtEntry
    <3>3. die.depth \in Nat
      <4>1. e \in 2 .. Len(Entries(job.unit))
        BY <3>2, <2>2, UnitType DEF Real
      <4>2. TrueDepth(job.unit, e) > 0 /\ TrueDepth(job.unit, e) \in Int
        BY <4>1, <3>2, <2>2, UnitType, DepthType
      <4> QED  BY <4>2, <3>2
    <3>4. /\ m.entry \in e + 1 .. Len(Entries(job.unit)) + 1
          /\ \A i \in e + 1 .. m.entry - 1 : i \notin Real(job.unit)
          /\ m.entry <= Len(Entries(job.unit)) => AtEntry(m)
          /\ m.entry > Len(Entries(job.unit)) => m.depth = 0 \/ Outside(m)
      BY <2>2, <2>3, <2>7, <3>2, <3>3, UpdateMoves
    <3>5. /\ m.depth = 0 => Judged(job.arg, job.unit + 1, 1)
          /\ m.depth # 0 /\ ~Outside(m) => AtEntry(m) /\ Judged(job.arg, job.unit, m.entry)
      <4> HIDE DEF e
      <4> QED  BY <2>2, <2>4, <3>1, <3>2, <3>4, Arrived
    <3> QED  BY <1>3, <2>1, <2>4, <2>7, <3>2, <3>5, WalkArrives
  <2> QED  BY <2>6, <2>7
<1> QED
  <2>1. \/ Ends(After("skip", die)) /\ After("skip", die) # "running"
        \/ Arrives(m, seen) /\ Goes("die") /\ UNCHANGED <<info, cus>>
    BY DEF StepDIE
  <2> HIDE DEF m
  <2> QED  BY <2>1, <1>2, <1>3

LEMMA JudgeKept ==
  ASSUME IInv, JudgeName
  PROVE  IInv'
<1>1. job.at = "parsed" /\ job.kind = "name" /\ status = "running"
  BY DEF JudgeName, Running
<1>2. CASE Ends("failed")
  BY <1>1, <1>2, Ended
<1>3. ASSUME InTree
      PROVE  /\ AtJob /\ Judged(job.arg, job.unit, die.entry) /\ AtEntry(die)
             /\ Abbrev(die).tag = "subprogram" /\ NameRead(die, "name")
             /\ die.unit \in DOMAIN info.units /\ die.entry \in Real(die.unit)
             /\ die.unit = job.unit
             /\ AbbrevOf(die.unit, Entries(die.unit)[die.entry].code).tag = "subprogram"
  <2>1. NameWalk
    BY <1>1, <1>3 DEF IInv, Walking
  <2>2. /\ AtJob /\ Judged(job.arg, job.unit, die.entry)
        /\ Abbrev(die).tag = "subprogram" /\ NameRead(die, "name")
    BY <2>1, <1>1 DEF NameWalk
  <2> QED  BY <2>2 DEF AtJob, AtEntry, Abbrev
<1>4. CASE /\ Has(die, "name") /\ Get(die, "name").v # job.arg
           /\ Goes("next") /\ UNCHANGED <<info, cus, die, status>>
  <2>1. /\ JobShape' /\ job'.kind = job.kind /\ job'.arg = job.arg /\ job'.unit = job.unit
        /\ job'.at = "next"
    BY <1>4, GoesIs DEF IInv
  <2>2. info' \in Infos /\ UnitsRead' /\ NameFound' /\ DIEShape(die)'
    BY <1>4, <2>1, SameInfo, NotAnswered DEF IInv, DIEShape
  <2>3. ASSUME Walking' PROVE NameWalk'
    <3>1. InTree
      BY <2>3, <1>4, SameInfo DEF Walking
    <3>2. <<die.unit, die.entry>> \notin Named(job.arg)
      <4> SUFFICES ASSUME <<die.unit, die.entry>> \in Named(job.arg) PROVE FALSE
        OBVIOUS
      <4>1. Attribute(<<die.unit, die.entry>>[1], <<die.unit, die.entry>>[2], "name") = job.arg
        BY NamedIs DEF IInv
      <4> QED  BY <4>1, <3>1, <1>3, <1>4 DEF NameRead
    <3>3. Judged(job.arg, job.unit, die.entry + 1)
      <4>1. die.entry \in Nat /\ die.entry + 1 \in Nat
        BY <3>1, <1>3, UnitType DEF Real, IInv
      <4>2. \A i \in die.entry .. die.entry + 1 - 1 :
              <<job.unit, i>> \in Named(job.arg) => Prototyped(<<job.unit, i>>)
        BY <4>1, <3>1, <3>2, <1>3
      <4>3. job.unit \in DOMAIN info.units /\ Judged(job.arg, job.unit, die.entry)
        BY <3>1, <1>3
      <4> QED  BY <4>1, <4>2, <4>3, JudgedMoves DEF IInv
    <3>4. AtJob'
      BY <3>1, <1>3, <1>4, <2>1, SameInfo DEF AtJob
    <3>5. Judged(job.arg, job.unit, die.entry + 1)'
      BY <3>3, <1>4, <2>1, JudgedKept DEF Judged
    <3> QED  BY <3>4, <3>5, <2>1 DEF NameWalk
  <2> QED  BY <2>1, <2>2, <2>3 DEF IInv
<1>5. CASE /\ Has(die, "name") /\ Get(die, "name").v = job.arg
           /\ answer' = <<die.unit, die.entry>>
           /\ Goes("idle") /\ UNCHANGED <<info, cus, die, status>>
  <2>1. /\ JobShape' /\ job'.arg = job.arg /\ job'.at = "idle"
    BY <1>5, GoesIs DEF IInv
  <2>2. info' \in Infos /\ UnitsRead' /\ DIEShape(die)' /\ (Walking => NameWalk)'
    BY <1>5, <2>1, SameInfo, NotWalking DEF IInv, DIEShape
  <2>3. NameFound'
    <3> SUFFICES ASSUME InTree'
                 PROVE  /\ answer' \in Named(job.arg)'
                        /\ \A f \in Named(job.arg)' : Before(f, answer') => Prototyped(f)'
      BY DEF NameFound
    <3>1. InTree
      BY <1>5, SameInfo
    <3>2. HasAttribute(die.unit, die.entry, "name")
      BY <3>1, <1>3, <1>5, IndexIs DEF IInv, AtEntry, OnEntry
    <3>3. Attribute(die.unit, die.entry, "name") = job.arg
      BY <3>1, <1>3, <1>5 DEF NameRead
    <3>4. answer' \in Named(job.arg)
      BY <3>1, <3>2, <3>3, <1>3, <1>5, IsNamed DEF IInv
    <3>5. Judged(job.arg, die.unit, die.entry)
      BY <3>1, <1>3
    <3>6. Named(job.arg)' = Named(job.arg)
      BY <1>5, <2>1, NamedKept
    <3>7. \A f : Prototyped(f) => Prototyped(f)'
      BY <1>5, SameInfo
    <3> QED  BY <3>4, <3>5, <3>6, <3>7, <1>5 DEF Judged
  <2> QED  BY <2>1, <2>2, <2>3 DEF IInv
<1> QED  BY <1>2, <1>4, <1>5 DEF JudgeName, Finished

LEMMA AskKept ==
  ASSUME IInv, NEW q \in info.queries, Ask(q)
  PROVE  IInv'
<1>1. /\ job.at = "idle"
      /\ job' = [kind |-> q[1], arg |-> q[2], unit |-> 1, at |-> "unit"]
      /\ die' = Uninitialised /\ UNCHANGED <<info, cus>>
  BY DEF Ask, Running
<1>2. JobShape' /\ DIEShape(die')
  BY <1>1, UninitialisedShape DEF JobShape
<1>3. info' \in Infos /\ UnitsRead' /\ NameFound' /\ DIEShape(die)'
  BY <1>1, <1>2, SameInfo, NotAnswered DEF IInv, DIEShape
<1>4. ASSUME Walking' PROVE NameWalk'
  <2>1. Judged(q[2], 1, 1)
    BY JudgedFirst DEF IInv
  <2>2. Judged(job.arg, job.unit, 1)'
    BY <2>1, <1>1, JudgedKept DEF Judged
  <2> QED  BY <2>2, <1>1 DEF NameWalk
<1> QED  BY <1>2, <1>3, <1>4 DEF IInv

\* What the other commands do, and the end of a walk.
LEMMA OthersKept ==
  ASSUME IInv, \/ UnitsReady \/ PassUnit \/ NotFound \/ PrintedDIE \/ JudgeAddress
               \/ JudgeLocals \/ PrintLocal \/ LocalsDone
  PROVE  IInv'
<1>1. CASE UnitsReady
  <2>1. job.at = "units" /\ Goes("idle") /\ UNCHANGED <<info, cus, die>>
    BY <1>1 DEF UnitsReady, Running
  <2>2. JobShape' /\ job'.kind = job.kind
    BY <2>1, GoesIs DEF IInv
  <2>3. job.kind = "none" /\ DIEShape(die')
    BY <2>1 DEF IInv, JobShape
  <2> QED  BY <2>1, <2>2, <2>3, Elsewhere
<1>2. CASE PassUnit
  <2>1. /\ job.at = "unit" /\ job' = [job EXCEPT !.unit = @ + 1] /\ UNCHANGED <<info, cus, die>>
        /\ job.kind # "name"
    BY <1>2 DEF PassUnit, Running, Concerns
  <2>2. job' = [kind |-> job.kind, arg |-> job.arg, unit |-> job.unit + 1, at |-> job.at]
    BY <2>1 DEF IInv, JobShape
  <2>3. JobShape' /\ job'.kind # "name" /\ DIEShape(die')
    BY <2>1, <2>2 DEF IInv, JobShape
  <2> QED  BY <2>1, <2>3, Elsewhere
<1>3. CASE NotFound
  <2>1. job.at = "unit" /\ UNCHANGED <<info, cus, die>>
    BY <1>3 DEF NotFound, Running
  <2>2. DIEShape(die')
    BY <2>1 DEF IInv
  <2>3. CASE job.kind \in {"info", "address"}
    <3>1. JobShape' /\ job'.kind # "name"
      BY <1>3, <2>3, GoesIs DEF NotFound, Finished, IInv
    <3> QED  BY <2>1, <2>2, <3>1, Elsewhere
  <2>4. CASE job.kind \notin {"info", "address"}
    <3>1. status' # "running" /\ UNCHANGED job
      BY <1>3, <2>4 DEF NotFound
    <3>2. JobShape' /\ job'.at # "idle"
      BY <2>1, <3>1 DEF IInv, JobShape
    <3> QED  BY <2>1, <2>2, <3>1, <3>2, Elsewhere
  <2> QED  BY <2>3, <2>4
<1>4. CASE PrintedDIE
  <2>1. job.kind = "info" /\ Goes("next") /\ UNCHANGED <<info, cus, die>>
    BY <1>4 DEF PrintedDIE
  <2>2. JobShape' /\ job'.kind # "name" /\ DIEShape(die')
    BY <2>1, GoesIs DEF IInv
  <2> QED  BY <2>1, <2>2, Elsewhere
<1>5. CASE JudgeAddress
  <2>1. /\ job.kind = "address" /\ (Goes("idle") \/ Goes("next"))
        /\ UNCHANGED <<info, cus, die>>
    BY <1>5 DEF JudgeAddress, Finished
  <2>2. JobShape' /\ job'.kind # "name" /\ DIEShape(die')
    BY <2>1, GoesIs DEF IInv
  <2> QED  BY <2>1, <2>2, Elsewhere
<1>6. CASE JudgeLocals
  <2>1. job.at = "parsed" /\ job.kind = "locals"
    BY <1>6 DEF JudgeLocals, Running
  <2>2. CASE \E s : s # "running" /\ Ends(s)
    BY <2>1, <2>2, Ended
  <2>3. CASE Goes("next") /\ UNCHANGED <<info, cus, die>>
    <3>1. JobShape' /\ job'.kind # "name" /\ DIEShape(die')
      BY <2>1, <2>3, GoesIs DEF IInv
    <3> QED  BY <2>3, <3>1, Elsewhere
  <2>4. CASE /\ die' = InitializeDIE(Uninitialised, die.entry + 1, die.unit)
             /\ job' = [job EXCEPT !.kind = "children", !.at = "die"]
             /\ UNCHANGED <<info, cus>>
    <3>1. DIEShape(die')
      <4>1. DIEShape(Uninitialised)
        BY UninitialisedShape
      <4> QED  BY <4>1, <2>4, InitializeFields
    <3>2. job' = [kind |-> "children", arg |-> job.arg, unit |-> job.unit, at |-> "die"]
      BY <2>4 DEF IInv, JobShape
    <3>3. JobShape' /\ job'.kind # "name"
      BY <3>2 DEF IInv, JobShape
    <3> QED  BY <2>4, <3>1, <3>3, Elsewhere
  <2> QED  BY <1>6, <2>2, <2>3, <2>4 DEF JudgeLocals, Arrives
<1>7. CASE PrintLocal
  <2>1. job.at = "parsed" /\ job.kind = "children"
    BY <1>7 DEF PrintLocal, Running
  <2>2. CASE \E s : s # "running" /\ Ends(s)
    BY <2>1, <2>2, Ended
  <2>3. CASE die' = MoveDataCursor(die, "name") /\ Goes("next") /\ UNCHANGED <<info, cus>>
    <3>1. DIEShape(die')
      <4>1. die' = [unit |-> die.unit, entry |-> die.entry, code |-> die.code,
                    depth |-> die.depth, prevHasChildren |-> die.prevHasChildren,
                    cursorAbbrev |-> die.cursorAbbrev, cursorData |-> Index(die, "name"),
                    data |-> die.data]
        BY <2>3 DEF MoveDataCursor, IInv, DIEShape
      <4> QED  BY <4>1 DEF IInv, DIEShape
    <3>2. JobShape' /\ job'.kind # "name"
      BY <2>1, <2>3, GoesIs DEF IInv
    <3> QED  BY <2>3, <3>1, <3>2, Elsewhere
  <2> QED  BY <1>7, <2>2, <2>3 DEF PrintLocal
<1>8. CASE LocalsDone
  <2>1. job.kind = "children" /\ Goes("idle") /\ UNCHANGED <<info, cus, die>>
    BY <1>8 DEF LocalsDone, Finished
  <2>2. JobShape' /\ job'.kind # "name" /\ DIEShape(die')
    BY <2>1, GoesIs DEF IInv
  <2> QED  BY <2>1, <2>2, Elsewhere
<1> QED  BY <1>1, <1>2, <1>3, <1>4, <1>5, <1>6, <1>7, <1>8

LEMMA VarsKept ==
  ASSUME IInv, UNCHANGED vars
  PROVE  IInv'
<1>1. UNCHANGED <<info, cus, die, job, status, answer>>
  BY DEF vars
<1>2. info' \in Infos /\ DIEShape(die)' /\ JobShape' /\ UnitsRead'
  BY <1>1, SameInfo DEF IInv, DIEShape, JobShape
<1>3. NameFound'
  <2>1. InTree' <=> InTree
    BY <1>1, SameInfo
  <2>2. Named(job.arg)' = Named(job.arg)
    BY <1>1, NamedKept
  <2>3. \A f : Prototyped(f)' <=> Prototyped(f)
    BY <1>1, SameInfo
  <2> QED  BY <1>1, <2>1, <2>2, <2>3 DEF IInv, NameFound, Answered
<1>4. (Walking => NameWalk)'
  BY <1>1, WalkKept DEF IInv
<1> QED  BY <1>2, <1>3, <1>4 DEF IInv

LEMMA InvNext == IInv /\ [Next]_vars => IInv'
<1> SUFFICES ASSUME IInv, [Next]_vars PROVE IInv'
  OBVIOUS
<1>1. ASSUME NEW q \in info.queries, Ask(q) PROVE IInv'
  BY <1>1, AskKept
<1> QED  BY <1>1, CountKept, UnitKept, EnterKept, LeaveKept, SkipKept, ParseKept, StepKept,
            JudgeKept, OthersKept, VarsKept DEF Next, Walk

\* `breakpoint set func' (GetFunctionByName, Dwarf.h:410): whatever the units,
\* as long as they are trees with no empty list of children, what is found is
\* a function of that name, and every one before it has DW_AT_prototyped.
THEOREM FindsName == Spec => []NameFound
<1>1. IInv => NameFound
  BY DEF IInv
<1> QED  BY InvInit, InvNext, <1>1, PTL DEF Spec

-----------------------------------------------------------------------------
(* Where the cursor is in any walk, and how far the entry is read          *)

\* All attributes are read, each by as many bytes as it has.
ReadAs(how, d) ==
  /\ d.cursorAbbrev = Len(Def(d)) + 1
  /\ \A i \in DOMAIN Def(d) : /\ d.data[i] = NextDIEValue(d, i)
                             /\ Passed(how, d, i) = ValueAt(d, i).bytes

Searching == job.kind \in {"info", "address", "locals"} /\ status = "running"

\* The cursor is at an entry.
AtDIE == job.at \in {"parsed", "next"} \/ (job.at = "die" /\ die.depth # 0)

ReadyInv ==
  /\ job.at # "start" => ~info.wide
  /\ job.at \notin {"start", "units"} => Len(cus) = Len(info.units)

RootsInv ==
  \A u \in 1 .. Len(cus) :
    /\ cus[u].unit = u /\ cus[u].entry = 1 /\ ~HeaderMisread
    /\ OnEntry(cus[u]) /\ ReadAs("unit", cus[u])

\* What the cursor is at, and how far the entry is read.
CursorInv ==
  Searching =>
    /\ job.at \in {"unit", "die", "parsed", "next", "idle"}
    /\ job.at \in {"die", "parsed", "next"} => job.unit <= Len(cus) /\ die.unit = job.unit
    /\ AtDIE => OnEntry(die)
    /\ job.at = "die" => die.cursorAbbrev = 1
    /\ job.at = "parsed" => ReadAs("parse", die)
    /\ job.at = "next" /\ job.kind = "info" => die.cursorAbbrev = Len(Def(die)) + 1

TreeInv == Searching /\ InTree /\ AtDIE => AtEntry(die)

PlaceInv == ReadyInv /\ RootsInv /\ CursorInv /\ TreeInv

LEMMA UpdateReaches ==
  ASSUME info \in Infos, NEW d, DIEShape(d), d.unit \in DOMAIN info.units,
         NEW k \in 1 .. Len(Entries(d.unit)) + 1
  PROVE  LET m == UpdateDIE(d, k)
         IN  m.depth # 0 /\ ~Outside(m) => OnEntry(m)
<1> DEFINE u == d.unit
           last == Len(Entries(u))
           n == Nulls(u, k)
           m == UpdateDIE(d, k)
<1>1. last \in Nat /\ DOMAIN Entries(u) = 1 .. last
  BY UnitType
<1>2. n \in 0 .. last + 1 - k /\ (k + n <= last => Entries(u)[k + n].code # 0)
  BY NullsPassed
<1>3. /\ m.unit = u
      /\ m.code = IF n > d.depth \/ k + n > last THEN 0 ELSE Entries(u)[k + n].code
      /\ m.entry = IF n > d.depth THEN k + d.depth ELSE k + n
      /\ m.depth = IF n > d.depth THEN 0
                   ELSE IF n = 0 /\ d.prevHasChildren THEN d.depth + 1 ELSE d.depth - n
  BY UpdateFields
<1> HIDE DEF m, n
<1> SUFFICES ASSUME m.depth # 0, ~Outside(m)
             PROVE  OnEntry(m)
  BY DEF m
<1>4. ~(n > d.depth) /\ m.entry = k + n
  BY <1>3
<1>5. k + n \in 1 .. last
  <2>1. ~(m.entry > last)
    BY <1>3 DEF Outside
  <2> HIDE DEF last
  <2> QED  BY <2>1, <1>1, <1>2, <1>4
<1>6. m.code = Entries(u)[m.entry].code
  BY <1>1, <1>2, <1>3, <1>4, <1>5
<1>7. m.entry \in Real(u)
  BY <1>1, <1>2, <1>4, <1>5 DEF Real
<1> QED  BY <1>3, <1>6, <1>7 DEF OnEntry

LEMMA ParsedIs ==
  ASSUME info \in Infos, NEW d, DIEShape(d), OnEntry(d), d.cursorAbbrev = 1
  PROVE  LET p == ParseDIE(d)
         IN  /\ p.unit = d.unit /\ p.entry = d.entry /\ p.code = d.code
             /\ p.depth = d.depth /\ p.prevHasChildren = d.prevHasChildren
             /\ Def(p) = Def(d) /\ OnEntry(p)
             /\ p.cursorAbbrev = Len(Def(d)) + 1
             /\ \A i \in DOMAIN Def(d) :
                  /\ p.data[i] = NextDIEValue(p, i)
                  /\ ValueAt(p, i) = ValueAt(d, i)
                  /\ \A how : Passed(how, p, i) = Passed(how, d, i)
<1> DEFINE p == ParseDIE(d)
           data == [j \in DOMAIN d.data |->
                      IF j \in d.cursorAbbrev .. Len(Def(d)) THEN NextDIEValue(d, j)
                      ELSE d.data[j]]
           cursor == Len(Def(d)) + 1
<1>1. p = [d EXCEPT !.cursorAbbrev = cursor, !.data = data]
  BY DEF ParseDIE
<1>2. IsSequence(Def(d)) /\ Len(Def(d)) <= MAX_DIE_DATA /\ MAX_DIE_DATA \in Nat
  BY EntryType, DieWalkAssumption DEF OnEntry, Def, Abbrev
<1>3. \A i \in DOMAIN Def(d) : data[i] = NextDIEValue(d, i)
  <2> SUFFICES ASSUME NEW i \in DOMAIN Def(d) PROVE data[i] = NextDIEValue(d, i)
    OBVIOUS
  <2>1. i \in 1 .. MAX_DIE_DATA /\ i \in 1 .. Len(Def(d))
    BY <1>2 DEF IsSequence
  <2> QED  BY <2>1 DEF DIEShape
<1> HIDE DEF p, cursor, data
<1>4. p = [unit |-> d.unit, entry |-> d.entry, code |-> d.code, depth |-> d.depth,
           prevHasChildren |-> d.prevHasChildren, cursorAbbrev |-> cursor,
           cursorData |-> d.cursorData, data |-> data]
  BY <1>1 DEF DIEShape
<1>5. /\ p.unit = d.unit /\ p.entry = d.entry /\ p.code = d.code /\ p.depth = d.depth
      /\ p.prevHasChildren = d.prevHasChildren /\ p.cursorAbbrev = cursor /\ p.data = data
  BY <1>4
<1>6. Abbrev(p) = Abbrev(d) /\ Def(p) = Def(d)
  BY <1>5 DEF Abbrev, Def
<1>7. \A i : ValueAt(p, i) = ValueAt(d, i) /\ ClassAt(p, i) = ClassAt(d, i)
  BY <1>5, <1>6 DEF ValueAt, ClassAt
<1>8. \A i : NextDIEValue(p, i) = NextDIEValue(d, i)
  BY <1>6, <1>7 DEF NextDIEValue, GetImplicitConst
<1>9. \A how, i : Passed(how, p, i) = Passed(how, d, i)
  BY <1>6, <1>7 DEF Passed
<1>10. OnEntry(p)
  BY <1>5 DEF OnEntry
<1> QED  BY <1>3, <1>5, <1>6, <1>7, <1>8, <1>9, <1>10 DEF p, cursor

\* No attribute stops a reader that each is passed by as many bytes as it has.
LEMMA AfterRuns ==
  ASSUME info \in Infos, NEW d, OnEntry(d), d.cursorAbbrev = 1, NEW how
  PROVE  After(how, d) = "running"
           <=> \A i \in DOMAIN Def(d) : Passed(how, d, i) = ValueAt(d, i).bytes
<1> DEFINE wrong == {i \in d.cursorAbbrev .. Len(Def(d)) : Passed(how, d, i) # ValueAt(d, i).bytes}
<1>1. DOMAIN Def(d) = 1 .. Len(Def(d))
  BY EntryType DEF OnEntry, Def, Abbrev, IsSequence
<1>2. wrong = {} <=> \A i \in DOMAIN Def(d) : Passed(how, d, i) = ValueAt(d, i).bytes
  BY <1>1
<1>3. After(how, d) = IF wrong = {} THEN "running"
                      ELSE IF Passed(how, d, Min(wrong)) = Asserts THEN "failed" ELSE "lost"
  BY DEF After
<1> HIDE DEF wrong
<1> QED  BY <1>2, <1>3

LEMMA StepReaches ==
  ASSUME info \in Infos, InTree, NEW d, DIEShape(d), AtEntry(d)
  PROVE  MovesTo(NextDIE(d), d.unit, d.entry)
<1>1. d.unit \in DOMAIN info.units /\ d.entry \in Real(d.unit) /\ d.entry > 1
      /\ d.depth = TrueDepth(d.unit, d.entry)
      /\ (d.prevHasChildren <=> Opens(d.unit, d.entry))
  BY DEF AtEntry
<1>2. d.entry \in 2 .. Len(Entries(d.unit)) /\ Len(Entries(d.unit)) \in Nat
  BY <1>1, UnitType DEF Real
<1>3. d.depth \in Nat
  <2>1. d.depth \in Int
    BY <1>1, <1>2, DepthType
  <2>2. d.depth > 0
    BY <1>1, <1>2, UnitType
  <2> QED  BY <2>1, <2>2
<1> QED  BY <1>1, <1>3, UpdateMoves DEF MovesTo, NextDIE

\* Nothing said of debug information changes.
LEMMA SamePlaces ==
  ASSUME info' = info
  PROVE  /\ InTree' <=> InTree
         /\ OnEntry(die') <=> OnEntry(die)'
         /\ AtEntry(die') <=> AtEntry(die)'
         /\ Def(die)' = Def(die')
         /\ ReadAs("parse", die') <=> ReadAs("parse", die)'
         /\ Outside(die') <=> Outside(die)'
         /\ UNCHANGED cus /\ RootsInv => RootsInv'
         /\ \A u, e : /\ TrueDepth(u, e)' = TrueDepth(u, e)
                      /\ Real(u)' = Real(u)
                      /\ Tagged(u, {"subprogram"})' = Tagged(u, {"subprogram"})
<1>1. \A u, e : Entries(u)' = Entries(u) /\ TrueDepth(u, e)' = TrueDepth(u, e) /\ Real(u)' = Real(u)
  BY DEF Entries, TrueDepth, Real
<1>2. \A u : Tagged(u, {"subprogram"})' = Tagged(u, {"subprogram"})
  BY DEF Tagged, Real, Entries, AbbrevOf
<1>3. InTree' <=> InTree
  BY DEF InTree, EmptyList, Opens, Real, Entries, AbbrevOf
<1>4. OnEntry(die') <=> OnEntry(die)'
  BY DEF OnEntry, Real, Entries
<1>5. AtEntry(die') <=> AtEntry(die)'
  BY DEF AtEntry, Real, Entries, TrueDepth, Opens, AbbrevOf
<1>6. Def(die)' = Def(die') /\ (Outside(die') <=> Outside(die)')
  BY DEF Def, Abbrev, AbbrevOf, Outside, Entries
<1>7. ReadAs("parse", die') <=> ReadAs("parse", die)'
  BY DEF ReadAs, Def, Abbrev, AbbrevOf, NextDIEValue, ClassAt, ValueAt, Entries,
         GetImplicitConst, Passed, Listed
<1>8. UNCHANGED cus /\ RootsInv => RootsInv'
  <2> SUFFICES ASSUME cus' = cus, RootsInv, NEW u \in 1 .. Len(cus)
               PROVE  (cus[u].unit = u /\ cus[u].entry = 1 /\ OnEntry(cus[u])
                         /\ ReadAs("unit", cus[u]))'
    BY DEF RootsInv, HeaderMisread
  <2> DEFINE d == cus[u]
  <2>1. d.unit = u /\ d.entry = 1 /\ OnEntry(d) /\ ReadAs("unit", d)
    BY DEF RootsInv
  <2>2. d' = d
    OBVIOUS
  <2> HIDE DEF d
  <2>3. OnEntry(d)'
    BY <2>1, <2>2 DEF OnEntry, Real, Entries
  <2>4. Def(d)' = Def(d) /\ Abbrev(d)' = Abbrev(d)
    BY <2>2 DEF Def, Abbrev, AbbrevOf
  <2>5. \A i : /\ ValueAt(d, i)' = ValueAt(d, i) /\ ClassAt(d, i)' = ClassAt(d, i)
               /\ Passed("unit", d, i)' = Passed("unit", d, i)
               /\ NextDIEValue(d, i)' = NextDIEValue(d, i)
    BY <2>2 DEF ValueAt, ClassAt, Passed, Listed, NextDIEValue, GetImplicitConst, Entries, Def, Abbrev, AbbrevOf
  <2>6. ReadAs("unit", d)'
    BY <2>1, <2>2, <2>4, <2>5 DEF ReadAs
  <2> QED  BY <2>1, <2>2, <2>3, <2>6 DEF d
<1> QED  BY <1>1, <1>2, <1>3, <1>4, <1>5, <1>6, <1>7, <1>8

\* Nor of a DIE that has been read.
LEMMA SameRead ==
  ASSUME info' = info, NEW d
  PROVE  /\ OnEntry(d)' <=> OnEntry(d)
         /\ \A how : ReadAs(how, d)' <=> ReadAs(how, d)
<1>1. OnEntry(d)' <=> OnEntry(d)
  BY DEF OnEntry, Real, Entries
<1>2. Def(d)' = Def(d) /\ Abbrev(d)' = Abbrev(d)
  BY DEF Def, Abbrev, AbbrevOf
<1>3. \A how, i : /\ ValueAt(d, i)' = ValueAt(d, i) /\ ClassAt(d, i)' = ClassAt(d, i)
                  /\ Passed(how, d, i)' = Passed(how, d, i)
                  /\ NextDIEValue(d, i)' = NextDIEValue(d, i)
  BY DEF ValueAt, ClassAt, Passed, Listed, NextDIEValue, GetImplicitConst, Entries, Def, Abbrev, AbbrevOf
<1>4. \A how : ReadAs(how, d)' <=> ReadAs(how, d)
  BY <1>2, <1>3 DEF ReadAs
<1> QED  BY <1>1, <1>4

LEMMA ReadyKept ==
  ASSUME ReadyInv, RootsInv, UNCHANGED <<info, cus>>, job.at \notin {"start", "units"}
  PROVE  ReadyInv' /\ RootsInv'
BY SamePlaces DEF ReadyInv

LEMMA NotSearching ==
  ASSUME job'.kind \notin {"info", "address", "locals"} \/ status' # "running"
  PROVE  CursorInv' /\ TreeInv'
BY DEF CursorInv, TreeInv, Searching

\* The cursor has been moved to m from entry e of the unit that is walked.
LEMMA MovedPlace ==
  ASSUME info \in Infos, UNCHANGED <<info, cus>>,
         NEW m, NEW before, Arrives(m, before), NEW e,
         job'.at = "die", job'.unit <= Len(cus), m.unit = job'.unit, m.cursorAbbrev = 1,
         m.depth # 0 /\ ~Outside(m) => OnEntry(m),
         InTree => MovesTo(m, job'.unit, e)
  PROVE  CursorInv' /\ TreeInv'
<1>1. die' = m /\ status' = IF Outside(m) THEN "lost" ELSE status
  BY DEF Arrives
<1>2. CASE Outside(m)
  BY <1>1, <1>2, NotSearching
<1>3. CASE ~Outside(m)
  <2>1. CursorInv'
    BY <1>1, <1>3, SamePlaces DEF CursorInv, AtDIE
  <2>2. ASSUME InTree', AtDIE' PROVE AtEntry(die)'
    <3>1. InTree /\ m.depth # 0
      BY <1>1, <2>2, SamePlaces DEF AtDIE
    <3>2. AtEntry(m)
      BY <3>1, <1>3 DEF MovesTo, Outside
    <3> QED  BY <3>2, <1>1, SamePlaces
  <2> QED  BY <2>1, <2>2 DEF TreeInv
<1> QED  BY <1>2, <1>3

LEMMA PlaceStart ==
  ASSUME IInv, PlaceInv, GetCompileUnitCount \/ UnitsReady
  PROVE  PlaceInv'
<1>1. job.at \in {"start", "units"} /\ job.kind = "none"
  BY DEF GetCompileUnitCount, UnitsReady, Running, IInv, JobShape
<1>2. UNCHANGED <<info, cus>> /\ RootsInv'
  BY SamePlaces DEF GetCompileUnitCount, UnitsReady, Ends, PlaceInv
<1>3. job'.kind = "none" /\ ReadyInv'
  <2>1. CASE Ends("lost")
    BY <2>1, <1>1, <1>2 DEF Ends, PlaceInv, ReadyInv
  <2>2. CASE ~info.wide /\ Goes("units")
    <3>1. job'.kind = "none" /\ job'.at = "units"
      BY <2>2, <1>1 DEF Goes, IInv, JobShape
    <3> QED  BY <3>1, <2>2, <1>2 DEF ReadyInv
  <2>3. CASE job.at = "units" /\ Len(cus) = Len(info.units) /\ Goes("idle")
    <3>1. job'.kind = "none" /\ job'.at = "idle"
      BY <2>3, <1>1, GoesIs DEF IInv
    <3> QED  BY <3>1, <2>3, <1>1, <1>2 DEF ReadyInv, PlaceInv
  <2> QED  BY <2>1, <2>2, <2>3 DEF GetCompileUnitCount, UnitsReady, Running
<1> QED  BY <1>2, <1>3, NotSearching DEF PlaceInv

\* A unit's own DIE is its first entry.
LEMMA RootEntry ==
  ASSUME info \in Infos, NEW u \in DOMAIN info.units, RootOK(u)
  PROVE  LET d == InitializeDIE(Uninitialised, 1, u)
         IN  /\ DIEShape(d) /\ d.unit = u /\ d.entry = 1 /\ d.cursorAbbrev = 1
             /\ OnEntry(d)
<1> DEFINE s == Start(Uninitialised, u)
           n == Nulls(u, 1)
           d == InitializeDIE(Uninitialised, 1, u)
           last == Len(Entries(u))
<1>1. last \in Nat /\ DOMAIN Entries(u) = 1 .. last
  BY UnitType
<1>2. 1 \in Real(u) /\ 1 \in 1 .. last /\ Entries(u)[1].code # 0
  BY <1>1 DEF RootOK, Real
<1>3. n = 0
  <2>1. 1 \in 1 .. last + 1
    BY <1>1
  <2>2. n \in 0 .. last + 1 - 1 /\ \A i \in 1 .. 1 + n - 1 : Entries(u)[i].code = 0
    BY <2>1, NullsPassed
  <2> HIDE DEF n
  <2> QED  BY <2>2, <1>1, <1>2
<1>4. d = UpdateDIE(s, 1) /\ DIEShape(s) /\ s.unit = u /\ s.depth = 1
  BY UninitialisedShape, StartIs, StartShape
<1>5. /\ DIEShape(d) /\ d.unit = u /\ d.cursorAbbrev = 1
      /\ d.entry = IF n > 1 THEN 1 + 1 ELSE 1 + n
      /\ d.code = IF n > 1 \/ 1 + n > last THEN 0 ELSE Entries(u)[1 + n].code
  <2> HIDE DEF s, d
  <2> QED  BY <1>4, UpdateFields
<1>6. d.entry = 1 /\ d.code = Entries(u)[1].code
  <2> HIDE DEF d, n
  <2> QED  BY <1>1, <1>2, <1>3, <1>5
<1> QED  BY <1>2, <1>5, <1>6 DEF OnEntry

LEMMA PlaceUnit ==
  ASSUME IInv, PlaceInv, InitializeCompileUnit
  PROVE  PlaceInv'
<1> DEFINE u == Len(cus) + 1
           d == InitializeDIE(Uninitialised, 1, u)
           p == ParseDIE(d)
<1>1. /\ job.at = "units" /\ job.kind = "none" /\ Len(cus) < Len(info.units)
      /\ UNCHANGED <<info, job>>
  BY DEF InitializeCompileUnit, Running, Ends, IInv, JobShape
<1>2. ReadyInv' /\ CursorInv' /\ TreeInv'
  BY <1>1, NotSearching DEF PlaceInv, ReadyInv
<1>3. CASE UNCHANGED cus
  BY <1>1, <1>2, <1>3, SamePlaces DEF PlaceInv
<1>4. CASE /\ Abbrev(d).tag = "compile_unit" /\ After("unit", d) = "running"
           /\ ~HeaderMisread /\ cus' = Append(cus, p)
  <2>1. info \in Infos /\ u \in DOMAIN info.units
    BY <1>1, DieWalkAssumption DEF IInv, UnitsRead, IsSequence
  <2>2. RootOK(u)
    BY <2>1, <1>4, RootRead
  <2>3. DIEShape(d) /\ d.unit = u /\ d.entry = 1 /\ d.cursorAbbrev = 1 /\ OnEntry(d)
    BY <2>1, <2>2, RootEntry
  <2>4. /\ p.unit = u /\ p.entry = 1 /\ OnEntry(p) /\ ReadAs("unit", p)
    <3>1. /\ p.unit = d.unit /\ p.entry = d.entry /\ Def(p) = Def(d) /\ OnEntry(p)
          /\ p.cursorAbbrev = Len(Def(d)) + 1
          /\ \A i \in DOMAIN Def(d) :
               /\ p.data[i] = NextDIEValue(p, i)
               /\ ValueAt(p, i) = ValueAt(d, i)
               /\ Passed("unit", p, i) = Passed("unit", d, i)
      BY <2>1, <2>3, ParsedIs
    <3>2. \A i \in DOMAIN Def(d) : Passed("unit", d, i) = ValueAt(d, i).bytes
      BY <1>4, <2>1, <2>3, AfterRuns
    <3> HIDE DEF p, d
    <3> QED  BY <3>1, <3>2, <2>3 DEF ReadAs
  <2>5. PICK S : cus \in Seq(S)
    BY DEF IInv, UnitsRead
  <2> HIDE DEF p, d
  <2>6. cus \in Seq(S \cup {p})
    BY <2>5
  <2>7. Len(cus') = u /\ \A v \in 1 .. Len(cus') : IF v = u THEN cus'[v] = p ELSE cus'[v] = cus[v]
    BY <2>6, <1>4
  <2>8. \A v \in 1 .. Len(cus') :
          cus'[v].unit = v /\ cus'[v].entry = 1 /\ OnEntry(cus'[v]) /\ ReadAs("unit", cus'[v])
    <3> TAKE v \in 1 .. Len(cus')
    <3>1. CASE v = u
      BY <3>1, <2>4, <2>7
    <3>2. CASE v # u
      <4>1. v \in 1 .. Len(cus) /\ cus'[v] = cus[v]
        BY <3>2, <2>5, <2>7
      <4> QED  BY <4>1 DEF PlaceInv, RootsInv
    <3> QED  BY <3>1, <3>2
  <2>9. RootsInv'
    <3> SUFFICES ASSUME NEW v \in 1 .. Len(cus')
                 PROVE  (cus[v].unit = v /\ cus[v].entry = 1 /\ ~HeaderMisread
                           /\ OnEntry(cus[v]) /\ ReadAs("unit", cus[v]))'
      BY DEF RootsInv
    <3>1. PICK c : c = cus'[v]
      OBVIOUS
    <3>2. c.unit = v /\ c.entry = 1 /\ OnEntry(c) /\ ReadAs("unit", c)
      BY <2>8, <3>1
    <3>3. OnEntry(c)' /\ ReadAs("unit", c)'
      BY <3>2, <1>1, SameRead
    <3>4. OnEntry(cus[v])'
      BY <3>1, <3>3 DEF OnEntry, Real, Entries
    <3>5. Def(cus[v])' = Def(c)' /\ Abbrev(cus[v])' = Abbrev(c)'
      BY <3>1 DEF Def, Abbrev, AbbrevOf
    <3>6. \A i : /\ ValueAt(cus[v], i)' = ValueAt(c, i)'
                 /\ Passed("unit", cus[v], i)' = Passed("unit", c, i)'
                 /\ NextDIEValue(cus[v], i)' = NextDIEValue(c, i)'
      BY <3>1 DEF ValueAt, ClassAt, Passed, Listed, NextDIEValue, GetImplicitConst, Entries, Def,
                  Abbrev, AbbrevOf
    <3>7. ReadAs("unit", cus[v])'
      BY <3>1, <3>3, <3>5, <3>6 DEF ReadAs
    <3>8. ~HeaderMisread'
      BY <1>1, <1>4 DEF HeaderMisread
    <3> QED  BY <3>1, <3>2, <3>4, <3>7, <3>8
  <2> QED  BY <2>9, <1>2 DEF PlaceInv
<1> QED
  <2>1. \/ UNCHANGED cus
        \/ /\ Abbrev(d).tag = "compile_unit" /\ After("unit", d) = "running"
           /\ ~HeaderMisread /\ cus' = Append(cus, p)
    BY DEF InitializeCompileUnit, Ends
  <2> HIDE DEF d, p
  <2> QED  BY <2>1, <1>3, <1>4

LEMMA PlaceEnter ==
  ASSUME IInv, PlaceInv, EnterUnit
  PROVE  PlaceInv'
<1> DEFINE u == job.unit
           m == InitializeDIE(die, 2, u)
<1>1. /\ job.at = "unit" /\ u <= Len(cus) /\ Arrives(m, seen) /\ Goes("die")
      /\ UNCHANGED <<info, cus>>
  BY DEF EnterUnit, Running
<1>2. job'.kind = job.kind /\ job'.unit = u /\ job'.at = "die"
  BY <1>1, GoesIs DEF IInv
<1>3. info \in Infos /\ RootOK(u) /\ u \in DOMAIN info.units /\ 1 \in Real(u)
  BY <1>1 DEF IInv, UnitsRead, JobShape, RootOK
<1>4. m = UpdateDIE(Start(die, u), 2) /\ DIEShape(Start(die, u)) /\ Start(die, u).unit = u
  BY StartIs, StartShape DEF IInv
<1>5. 2 \in 1 .. Len(Entries(u)) + 1
  BY <1>3, UnitType DEF Real
<1>6. m.unit = u /\ m.cursorAbbrev = 1 /\ (m.depth # 0 /\ ~Outside(m) => OnEntry(m))
  BY <1>3, <1>4, <1>5, UpdateFields, UpdateReaches
<1>7. InTree => MovesTo(m, u, 1)
  BY <1>3, EnterReaches DEF IInv
<1>8. CursorInv' /\ TreeInv'
  <2> HIDE DEF m, u
  <2> QED  BY <1>1, <1>2, <1>3, <1>6, <1>7, MovedPlace
<1> QED  BY <1>1, <1>8, ReadyKept DEF PlaceInv

LEMMA PlaceStep ==
  ASSUME IInv, PlaceInv, StepDIE
  PROVE  PlaceInv'
<1> DEFINE m == NextDIE(die)
<1>1. job.at = "next" /\ UNCHANGED <<info, cus>> /\ status = "running"
  BY DEF StepDIE, Running, Ends
<1>2. ReadyInv' /\ RootsInv'
  BY <1>1, ReadyKept DEF PlaceInv
<1>3. CASE Ends(After("skip", die)) /\ After("skip", die) # "running"
  BY <1>2, <1>3, NotSearching DEF Ends, PlaceInv
<1>4. CASE Arrives(m, seen) /\ Goes("die")
  <2>1. job'.kind = job.kind /\ job'.unit = job.unit /\ job'.at = "die"
    BY <1>4, GoesIs DEF IInv
  <2>2. CASE job.kind \notin {"info", "address", "locals"}
    BY <2>1, <2>2, <1>2, NotSearching DEF PlaceInv
  <2>3. CASE job.kind \in {"info", "address", "locals"}
    <3>1. /\ OnEntry(die) /\ die.unit = job.unit /\ job.unit <= Len(cus)
          /\ (InTree => AtEntry(die))
      BY <1>1, <2>3 DEF PlaceInv, CursorInv, TreeInv, Searching, AtDIE
    <3>2. /\ info \in Infos /\ DIEShape(die) /\ die.unit \in DOMAIN info.units
          /\ die.entry + 1 \in 1 .. Len(Entries(die.unit)) + 1
      BY <3>1, UnitType DEF IInv, OnEntry, Real
    <3>3. m.unit = job.unit /\ m.cursorAbbrev = 1 /\ (m.depth # 0 /\ ~Outside(m) => OnEntry(m))
      BY <3>1, <3>2, UpdateFields, UpdateReaches DEF NextDIE
    <3>4. InTree => MovesTo(m, job.unit, die.entry)
      BY <3>1, <3>2, StepReaches
    <3> HIDE DEF m
    <3>5. CursorInv' /\ TreeInv'
      BY <1>1, <1>4, <2>1, <3>1, <3>2, <3>3, <3>4, MovedPlace
    <3> QED  BY <1>2, <3>5 DEF PlaceInv
  <2> QED  BY <2>2, <2>3
<1> QED
  <2>1. \/ Ends(After("skip", die)) /\ After("skip", die) # "running"
        \/ Arrives(m, seen) /\ Goes("die")
    BY DEF StepDIE
  <2> HIDE DEF m
  <2> QED  BY <2>1, <1>3, <1>4

LEMMA PlaceParse ==
  ASSUME IInv, PlaceInv, Parse
  PROVE  PlaceInv'
<1>1. job.at = "die" /\ die.depth # 0 /\ UNCHANGED <<info, cus>> /\ status = "running"
  BY DEF Parse, Running, Ends
<1>2. ReadyInv' /\ RootsInv'
  BY <1>1, ReadyKept DEF PlaceInv
<1>3. CASE Ends(After("parse", die)) /\ After("parse", die) # "running"
  BY <1>2, <1>3, NotSearching DEF Ends, PlaceInv
<1>4. CASE After("parse", die) = "running" /\ die' = ParseDIE(die) /\ Goes("parsed")
  <2>1. job'.kind = job.kind /\ job'.unit = job.unit /\ job'.at = "parsed"
    BY <1>4, GoesIs DEF IInv
  <2>2. CASE job.kind \notin {"info", "address", "locals"}
    BY <2>1, <2>2, <1>2, NotSearching DEF PlaceInv
  <2>3. CASE job.kind \in {"info", "address", "locals"}
    <3> DEFINE p == ParseDIE(die)
    <3>1. /\ OnEntry(die) /\ die.unit = job.unit /\ job.unit <= Len(cus)
          /\ die.cursorAbbrev = 1 /\ (InTree => AtEntry(die))
      BY <1>1, <2>3 DEF PlaceInv, CursorInv, TreeInv, Searching, AtDIE
    <3>2. info \in Infos /\ DIEShape(die)
      BY DEF IInv
    <3>3. /\ p.unit = die.unit /\ p.entry = die.entry /\ p.code = die.code
          /\ p.depth = die.depth /\ p.prevHasChildren = die.prevHasChildren
          /\ Def(p) = Def(die) /\ OnEntry(p)
          /\ p.cursorAbbrev = Len(Def(die)) + 1
          /\ \A i \in DOMAIN Def(die) :
               /\ p.data[i] = NextDIEValue(p, i)
               /\ ValueAt(p, i) = ValueAt(die, i)
               /\ Passed("parse", p, i) = Passed("parse", die, i)
      BY <3>1, <3>2, ParsedIs
    <3>4. \A i \in DOMAIN Def(die) : Passed("parse", die, i) = ValueAt(die, i).bytes
      BY <1>4, <3>1, <3>2, AfterRuns
    <3>5. die' = p
      BY <1>4
    <3> HIDE DEF p
    <3>6. ReadAs("parse", p)
      BY <3>3, <3>4 DEF ReadAs
    <3>7. InTree => AtEntry(p)
      BY <3>1, <3>3 DEF AtEntry
    <3>8. OnEntry(die)' /\ ReadAs("parse", die)' /\ (InTree' => AtEntry(die)')
      BY <1>1, <3>3, <3>5, <3>6, <3>7, SamePlaces
    <3>9. CursorInv' /\ TreeInv'
      BY <1>1, <2>1, <3>1, <3>3, <3>5, <3>8 DEF CursorInv, TreeInv, AtDIE
    <3> QED  BY <1>2, <3>9 DEF PlaceInv
  <2> QED  BY <2>2, <2>3
<1> QED  BY <1>3, <1>4 DEF Parse

\* The cursor stays where it is.
LEMMA PlaceStays ==
  ASSUME IInv, PlaceInv,
         Skip \/ PrintedDIE \/ JudgeAddress \/ (JudgeLocals /\ ~IsInRange(die, job.arg))
  PROVE  PlaceInv'
<1>1. /\ job.at \in {"die", "parsed"} /\ AtDIE /\ UNCHANGED <<info, cus, die, status>>
      /\ Goes("next") \/ Goes("idle")
  BY DEF Skip, PrintedDIE, JudgeAddress, JudgeLocals, Running, Finished, AtDIE
<1>2. PICK at \in {"next", "idle"} : Goes(at)
  BY <1>1
<1>3. job'.kind = job.kind /\ job'.unit = job.unit /\ job'.at = at
  BY <1>2, GoesIs DEF IInv
<1>4. ReadyInv' /\ RootsInv'
  BY <1>1, ReadyKept DEF PlaceInv
<1>5. CASE job.kind \notin {"info", "address", "locals"}
  BY <1>3, <1>4, <1>5, NotSearching DEF PlaceInv
<1>6. CASE job.kind \in {"info", "address", "locals"}
  <2>1. Searching' => Searching
    BY <1>1, <1>3 DEF Searching
  <2>2. OnEntry(die') <=> OnEntry(die)
    BY <1>1
  <2>3. job.kind = "info" => job.at = "parsed"
    BY DEF Skip, PrintedDIE, JudgeAddress, JudgeLocals, Wanted, Running
  <2>4. CursorInv'
    <3> SUFFICES ASSUME Searching'
                 PROVE  /\ job'.unit <= Len(cus') /\ die'.unit = job'.unit
                        /\ OnEntry(die)'
                        /\ job'.kind = "info" => die'.cursorAbbrev = Len(Def(die)') + 1
      BY <1>3 DEF CursorInv
    <3>1. job.unit <= Len(cus) /\ die.unit = job.unit /\ OnEntry(die)
      BY <1>1, <2>1 DEF PlaceInv, CursorInv
    <3>2. job.kind = "info" => die.cursorAbbrev = Len(Def(die)) + 1
      BY <2>1, <2>3 DEF PlaceInv, CursorInv, ReadAs
    <3>3. Def(die)' = Def(die)
      BY <1>1, SamePlaces
    <3>4. OnEntry(die)'
      BY <1>1, <3>1, SamePlaces
    <3> QED  BY <1>1, <1>3, <3>1, <3>2, <3>3, <3>4
  <2>5. TreeInv'
    <3> SUFFICES ASSUME Searching', InTree' PROVE AtEntry(die)'
      BY DEF TreeInv
    <3>1. AtEntry(die)
      BY <1>1, <2>1, SamePlaces DEF PlaceInv, TreeInv
    <3> QED  BY <3>1, <1>1, SamePlaces
  <2> QED  BY <1>4, <2>4, <2>5 DEF PlaceInv
<1> QED  BY <1>5, <1>6

LEMMA PlaceUnits ==
  ASSUME IInv, PlaceInv, PassUnit \/ LeaveUnit \/ NotFound
  PROVE  PlaceInv'
<1>1. /\ job.at \in {"unit", "die"} /\ UNCHANGED <<info, cus>>
      /\ \/ job' = [job EXCEPT !.unit = @ + 1, !.at = "unit"]
         \/ job.at = "unit" /\ job' = [job EXCEPT !.unit = @ + 1]
         \/ Goes("idle")
         \/ status' # "running"
  BY DEF PassUnit, LeaveUnit, NotFound, Running, Finished
<1>2. ReadyInv' /\ RootsInv'
  BY <1>1, ReadyKept DEF PlaceInv
<1>3. status' # "running" \/ job'.at \in {"unit", "idle"}
  BY <1>1 DEF IInv, JobShape, Goes
<1>4. CursorInv' /\ TreeInv'
  BY <1>3 DEF CursorInv, TreeInv, AtDIE, Searching
<1> QED  BY <1>2, <1>4 DEF PlaceInv

LEMMA PlaceAsk ==
  ASSUME IInv, PlaceInv, NEW q \in info.queries, Ask(q)
  PROVE  PlaceInv'
<1>1. job.at = "idle" /\ UNCHANGED <<info, cus>> /\ job'.at = "unit"
  BY DEF Ask, Running
<1>2. ReadyInv' /\ RootsInv'
  BY <1>1, ReadyKept DEF PlaceInv
<1>3. CursorInv' /\ TreeInv'
  BY <1>1 DEF CursorInv, TreeInv, AtDIE
<1> QED  BY <1>2, <1>3 DEF PlaceInv

LEMMA PlaceOthers ==
  ASSUME IInv, PlaceInv, JudgeName \/ JudgeLocals \/ PrintLocal \/ LocalsDone
  PROVE  PlaceInv'
<1>1. job.at \notin {"start", "units"} /\ UNCHANGED <<info, cus>>
  BY DEF JudgeName, JudgeLocals, PrintLocal, LocalsDone, Running, Ends
<1>2. CASE JudgeName \/ PrintLocal \/ LocalsDone
  <2>1. job'.kind \notin {"info", "address", "locals"}
    BY <1>2 DEF JudgeName, PrintLocal, LocalsDone, Ends, Finished, Goes, IInv, JobShape
  <2> QED  BY <1>1, <2>1, ReadyKept, NotSearching DEF PlaceInv
<1>3. CASE JudgeLocals /\ IsInRange(die, job.arg)
  <2>1. status' # "running" \/ job'.kind = "children"
    BY <1>3 DEF JudgeLocals, Ends, IInv, JobShape
  <2> QED  BY <1>1, <2>1, ReadyKept, NotSearching DEF PlaceInv
<1>4. CASE JudgeLocals /\ ~IsInRange(die, job.arg)
  BY <1>4, PlaceStays
<1> QED  BY <1>2, <1>3, <1>4

LEMMA PlaceSame ==
  ASSUME PlaceInv, UNCHANGED vars
  PROVE  PlaceInv'
<1>1. UNCHANGED <<info, cus, die, job, status>>
  BY DEF vars
<1>2. ReadyInv' /\ RootsInv'
  BY <1>1, SamePlaces DEF PlaceInv, ReadyInv
<1>3. /\ OnEntry(die)' <=> OnEntry(die)
      /\ AtEntry(die)' <=> AtEntry(die)
      /\ Def(die)' = Def(die)
      /\ ReadAs("parse", die)' <=> ReadAs("parse", die)
      /\ InTree' <=> InTree
  <2>1. /\ OnEntry(die') <=> OnEntry(die)
        /\ AtEntry(die') <=> AtEntry(die)
        /\ Def(die') = Def(die)
        /\ ReadAs("parse", die') <=> ReadAs("parse", die)
    BY <1>1
  <2> QED  BY <2>1, <1>1, SamePlaces
<1>4. (Searching' <=> Searching) /\ (AtDIE' <=> AtDIE)
  BY <1>1 DEF Searching, AtDIE
<1>5. CursorInv' /\ TreeInv'
  BY <1>1, <1>3, <1>4 DEF PlaceInv, CursorInv, TreeInv
<1> QED  BY <1>2, <1>5 DEF PlaceInv

\* Every walk keeps to the entries, and in a tree without empty lists to their
\* depths.
LEMMA PlaceInductive ==
  /\ Init => PlaceInv
  /\ IInv /\ PlaceInv /\ [Next]_vars => PlaceInv'
<1>1. ASSUME Init PROVE PlaceInv
  <2>1. job.at = "start" /\ job.kind = "none" /\ Len(cus) = 0
    BY <1>1 DEF Init, NoJob
  <2> QED  BY <2>1 DEF PlaceInv, ReadyInv, RootsInv, CursorInv, TreeInv, Searching
<1>2. ASSUME IInv, PlaceInv, [Next]_vars PROVE PlaceInv'
  <2>1. ASSUME Walk PROVE PlaceInv'
    BY <2>1, <1>2, PlaceStart, PlaceUnit, PlaceEnter, PlaceStep, PlaceParse, PlaceStays,
       PlaceUnits, PlaceOthers DEF Walk
  <2>2. ASSUME NEW q \in info.queries, Ask(q) PROVE PlaceInv'
    BY <2>2, <1>2, PlaceAsk
  <2> QED  BY <1>2, <2>1, <2>2, PlaceSame DEF Next
<1> QED  BY <1>1, <1>2

-----------------------------------------------------------------------------
(* The forms                                                               *)

LEMMA FixedBytes ==
  ASSUME NEW form \in Forms, NEW bytes \in Bytes(form)
  PROVE  /\ bytes \in Nat
         /\ form \in Variable => bytes > 0
         /\ form \in DOMAIN Fixed /\ form \notin Variable => bytes = Fixed[form]
<1>1. \A f \in DOMAIN Fixed : Fixed[f] \in Nat
  BY DEF Fixed
<1> QED  BY <1>1 DEF Forms, Bytes

\* Which attributes the readers do not pass by the bytes they have, whatever
\* the name, in version 5: the class decides the reader.
LEMMA FormsRead ==
  ASSUME NEW version \in Nat, ~(version < 5), NEW listed \in BOOLEAN,
         NEW name, NEW form \in Forms, NEW bytes \in Bytes(form)
  PROVE  LET class == GetDwarfClass(version, name, form)
         IN  class = "constant" \/ Reader(class, form, bytes, listed) # bytes
               <=> Misread(name, form, bytes) \/ Refused(name, form, listed)
<1> DEFINE class == GetDwarfClass(version, name, form)
           Off == class = "constant" \/ Reader(class, form, bytes, listed) # bytes
           Bad == Misread(name, form, bytes) \/ Refused(name, form, listed)
<1>1. /\ bytes \in Nat
      /\ form \in Variable => bytes > 0
      /\ form \in DOMAIN Fixed /\ form \notin Variable => bytes = Fixed[form]
  BY FixedBytes
<1>2. CASE form \in {"addr", "addrx3", "addrx4"}
  <2>1. class = "address"
    BY <1>2 DEF GetDwarfClass
  <2>2. ~Off
    BY <1>2, <2>1 DEF Reader, FormToAddress
  <2>3. ~Bad
    BY <1>2 DEF Misread, Refused
  <2> QED  BY <2>2, <2>3
<1>3. CASE form \in {"addrx", "addrx1"}
  <2>1. class = "address"
    BY <1>3 DEF GetDwarfClass
  <2>2. form = "addrx1" => bytes = 1
    BY <1>1 DEF Fixed, Variable
  <2>3. form = "addrx" => bytes > 0
    BY <1>1 DEF Variable
  <2>4. Off <=> form = "addrx1" \/ bytes > 1
    BY <1>1, <1>3, <2>1, <2>2, <2>3 DEF Reader, FormToAddress
  <2>5. Bad <=> form = "addrx1" \/ bytes > 1
    BY <1>1, <1>3, <2>2, <2>3 DEF Misread, Refused
  <2> QED  BY <2>4, <2>5
<1>4. CASE form \in {"block", "block1", "block2", "block4"}
  <2>1. class = "block"
    <3>1. ~(version <= 3)
      OBVIOUS
    <3> QED  BY <3>1, <1>4 DEF GetDwarfClass
  <2>2. ~Off
    BY <1>4, <2>1 DEF Reader
  <2>3. ~Bad
    BY <1>4 DEF Misread, Refused
  <2> QED  BY <2>2, <2>3
<1>5. CASE form \in {"data4", "data8"}
  <2>1. class = Data(version, name) /\ ~(version <= 3)
    BY <1>5 DEF GetDwarfClass
  <2>2. class = IF name = "high_pc" THEN "uconstant" ELSE "constant"
    BY <2>1 DEF Data
  <2>3. Off <=> name # "high_pc"
    BY <2>2, <1>5 DEF Reader, FormToUConst
  <2>4. Bad <=> name # "high_pc"
    BY <1>5 DEF Misread, Refused
  <2> QED  BY <2>3, <2>4
<1>6. CASE form \in {"data1", "data2"}
  <2>1. class = IF name \in Unsigned THEN "uconstant" ELSE "constant"
    BY <1>6 DEF GetDwarfClass, Constant
  <2>2. Off <=> name \notin Unsigned
    BY <1>6, <2>1 DEF Reader, FormToUConst
  <2>3. Bad <=> name \notin Unsigned
    BY <1>6 DEF Misread, Refused
  <2> QED  BY <2>2, <2>3
<1>7. CASE form = "data16"
  <2>1. class \in {"uconstant", "constant"}
    BY <1>7 DEF GetDwarfClass, Constant
  <2>2. Off
    BY <1>1, <1>7, <2>1 DEF Reader, FormToUConst, Asserts
  <2> QED  BY <2>2, <1>7 DEF Refused
<1>8. CASE form \in {"udata", "sdata", "implicit_const", "exprloc", "flag", "flag_present"}
  <2>1. class = IF form = "udata" THEN "uconstant"
                ELSE IF form \in {"sdata", "implicit_const"} THEN "sconstant"
                ELSE IF form = "exprloc" THEN "exprloc" ELSE "flag"
    BY <1>8 DEF GetDwarfClass
  <2>2. ~Off
    BY <1>8, <2>1 DEF Reader, FormToUConst, FormToExprloc
  <2>3. ~Bad
    BY <1>8 DEF Misread, Refused
  <2> QED  BY <2>2, <2>3
<1>9. CASE form \in {"ref1", "ref2", "ref4", "ref8", "ref_udata"}
  <2>1. class = "reference"
    BY <1>9 DEF GetDwarfClass
  <2>2. ~Off
    BY <1>9, <2>1 DEF Reader, FormToReference
  <2>3. ~Bad
    BY <1>9 DEF Misread, Refused
  <2> QED  BY <2>2, <2>3
<1>10. CASE form \in {"ref_addr", "ref_sig8", "ref_sup4", "ref_sup8"}
  <2>1. class = "reference" /\ bytes > 0
    BY <1>1, <1>10 DEF GetDwarfClass, Fixed, Variable
  <2>2. Off
    BY <1>1, <1>10, <2>1 DEF Reader, FormToReference
  <2> QED  BY <2>2, <1>10 DEF Misread
<1>11. CASE form \in {"string", "strp", "strp_sup", "line_strp", "strx1", "strx2", "strx3", "strx4"}
  <2>1. class = "string"
    BY <1>11 DEF GetDwarfClass
  <2>2. form = "strp_sup" => bytes = 4
    BY <1>1 DEF Fixed, Variable
  <2>3. Off <=> form = "strp_sup"
    BY <1>1, <1>11, <2>1, <2>2 DEF Reader, FormToString
  <2>4. Bad <=> form = "strp_sup"
    BY <1>11 DEF Misread, Refused
  <2> QED  BY <2>3, <2>4
<1>12. CASE form \in {"loclistx", "rnglistx"}
  <2>1. class = IF form = "loclistx" THEN "loclist" ELSE "rnglist"
    BY <1>12 DEF GetDwarfClass
  <2>2. Off <=> form = "rnglistx" /\ ~listed
    BY <1>1, <1>12, <2>1 DEF Reader, FormToLoclist, FormToRnglist, Asserts
  <2>3. Bad <=> form = "rnglistx" /\ ~listed
    BY <1>12 DEF Misread, Refused
  <2> QED  BY <2>2, <2>3
<1>13. CASE form = "sec_offset"
  <2>1. class = Offset(name) /\ bytes = 4
    BY <1>1, <1>13 DEF GetDwarfClass, Fixed, Variable
  <2>2. Offset(name) \in {"loclist", "rnglist", "null"}
    BY DEF Offset
  <2>3. Off <=> Offset(name) = "null"
    BY <1>13, <2>1, <2>2 DEF Reader, FormToLoclist, FormToRnglist
  <2>4. Bad <=> Offset(name) = "null"
    BY <1>13 DEF Misread, Refused
  <2> QED  BY <2>3, <2>4
<1>14. CASE form \in {"addrx2", "strx", "indirect"}
  <2>1. class = "null" /\ bytes > 0
    BY <1>1, <1>14 DEF GetDwarfClass, Fixed, Variable
  <2>2. Off
    BY <1>1, <2>1 DEF Reader
  <2> QED  BY <2>2, <1>14 DEF Misread
<1>15. form \in {"addr", "addrx3", "addrx4", "addrx", "addrx1", "block", "block1", "block2",
                 "block4", "data4", "data8", "data1", "data2", "data16", "udata", "sdata",
                 "implicit_const", "exprloc", "flag", "flag_present", "ref1", "ref2", "ref4",
                 "ref8", "ref_udata", "ref_addr", "ref_sig8", "ref_sup4", "ref_sup8", "string",
                 "strp", "strp_sup", "line_strp", "strx1", "strx2", "strx3", "strx4",
                 "loclistx", "rnglistx", "sec_offset", "addrx2", "strx", "indirect"}
  BY DEF Forms, Fixed, Variable
<1> HIDE DEF Off, Bad
<1> QED  BY <1>2, <1>3, <1>4, <1>5, <1>6, <1>7, <1>8, <1>9, <1>10, <1>11, <1>12, <1>13,
            <1>14, <1>15 DEF Off, Bad

AllStandard == \A i \in Infos : ~i.wide => Standard(i)

\* An attribute's value, and what the standard says of it.
LEMMA ValueType ==
  ASSUME info \in Infos, Standard(info), NEW d, OnEntry(d), NEW i \in DOMAIN Def(d)
  PROVE  /\ info.version \in Nat
         /\ i \in 1 .. Len(Def(d))
         /\ Def(d)[i].form \in Forms /\ ValueAt(d, i).bytes \in Bytes(Def(d)[i].form)
         /\ \A j \in DOMAIN Def(d) : Def(d)[i].name = Def(d)[j].name => i = j
         /\ Def(d)[i].form = "implicit_const" =>
              ValueAt(d, i).v
                = Abbrev(d).consts[
                    1 + Cardinality({j \in 1 .. i - 1 : Def(d)[j].form = "implicit_const"})]
<1> DEFINE u == d.unit
           unit == info.units[u]
           entry == unit.entries[d.entry]
<1>1. u \in DOMAIN info.units /\ d.entry \in Real(u) /\ d.code = entry.code
  BY DEF OnEntry, Entries
<1>2. /\ entry.code \in DOMAIN unit.abbrevs
      /\ Abbrev(d) = unit.abbrevs[entry.code]
      /\ ValuesOf(Abbrev(d), entry.values)
      /\ IsSequence(Def(d))
  BY <1>1, EntryType DEF Abbrev, Def, Entries
<1>3. d.entry \in DOMAIN unit.entries /\ entry.code # 0
  BY <1>1 DEF Real, Entries
<1>4. DOMAIN entry.values = DOMAIN Def(d) /\ ValueAt(d, i) = entry.values[i]
  BY <1>2 DEF ValuesOf, Def, ValueAt, Entries
<1>5. /\ Def(d)[i].form \in Forms
      /\ \A j \in DOMAIN Def(d) : Def(d)[i].name = Def(d)[j].name => i = j
  <2>1. \A a \in DOMAIN unit.abbrevs : \A j, k \in DOMAIN unit.abbrevs[a].def :
          /\ unit.abbrevs[a].def[j].form \in Forms
          /\ unit.abbrevs[a].def[j].name = unit.abbrevs[a].def[k].name => j = k
    BY <1>1 DEF Standard
  <2>2. Def(d) = unit.abbrevs[entry.code].def
    BY <1>2 DEF Def
  <2> HIDE DEF unit, entry
  <2> QED  BY <2>1, <2>2, <1>2
<1>6. entry.values[i].bytes \in Bytes(unit.abbrevs[entry.code].def[i].form)
  BY <1>1, <1>3, <1>4 DEF Standard
<1>7. Def(d)[i].form = "implicit_const" =>
        entry.values[i].v
          = Abbrev(d).consts[
              1 + Cardinality({j \in 1 .. i - 1 : Def(d)[j].form = "implicit_const"})]
  BY <1>2, <1>4 DEF ValuesOf, Def
<1>8. i \in 1 .. Len(Def(d)) /\ info.version \in Nat
  BY <1>2 DEF IsSequence, Standard
<1> QED  BY <1>2, <1>4, <1>5, <1>6, <1>7, <1>8 DEF Def

\* What is read of an attribute that is there once is its value.
LEMMA ValuesRead ==
  ASSUME info \in Infos, Standard(info), NEW d, OnEntry(d), NEW i \in DOMAIN Def(d)
  PROVE  NextDIEValue(d, i).v = ValueAt(d, i).v
<1>1. CASE Def(d)[i].form # "implicit_const"
  BY <1>1 DEF NextDIEValue
<1>2. CASE Def(d)[i].form = "implicit_const"
  <2> DEFINE same == {j \in DOMAIN Def(d) : Def(d)[j].name = Def(d)[i].name}
  <2>1. same = {i} /\ i \in Nat
    <3>1. \A j \in DOMAIN Def(d) : Def(d)[i].name = Def(d)[j].name => i = j
      BY ValueType
    <3>2. i \in 1 .. Len(Def(d)) /\ Len(Def(d)) \in Nat
      BY ValueType, EntryType DEF OnEntry, Def, Abbrev, IsSequence
    <3> QED  BY <3>1, <3>2
  <2>2. Min(same) = i
    <3>1. same \subseteq Nat /\ same # {}
      BY <2>1
    <3>2. Min(same) \in same
      BY <3>1, LeastIn
    <3> QED  BY <3>2, <2>1
  <2>3. GetImplicitConst(d, Def(d)[i].name)
          = Abbrev(d).consts[
              1 + Cardinality({j \in 1 .. i - 1 : Def(d)[j].form = "implicit_const"})]
    BY <2>2 DEF GetImplicitConst
  <2>4. NextDIEValue(d, i).v = GetImplicitConst(d, Def(d)[i].name)
    BY <1>2 DEF NextDIEValue
  <2>5. ValueAt(d, i).v
          = Abbrev(d).consts[
              1 + Cardinality({j \in 1 .. i - 1 : Def(d)[j].form = "implicit_const"})]
    BY <1>2, ValueType
  <2> QED  BY <2>3, <2>4, <2>5
<1> QED  BY <1>1, <1>2

\* An entry is parsed to its end if and only if none of its attributes is of
\* those that are misread or refused.
LEMMA SpoilsRead ==
  ASSUME info \in Infos, Standard(info), NEW d, OnEntry(d), d.cursorAbbrev = 1,
         ~HeaderMisread
  PROVE  After("parse", d) # "running" <=> Spoils(d.unit, d.entry)
<1>1. \A i \in DOMAIN Def(d) :
        Passed("parse", d, i) # ValueAt(d, i).bytes
          <=> \/ Misread(Def(d)[i].name, Def(d)[i].form, ValueAt(d, i).bytes)
              \/ Refused(Def(d)[i].name, Def(d)[i].form, Listed(ValueAt(d, i)))
  <2> TAKE i \in DOMAIN Def(d)
  <2> DEFINE name == Def(d)[i].name
             form == Def(d)[i].form
             bytes == ValueAt(d, i).bytes
             listed == Listed(ValueAt(d, i))
             class == GetDwarfClass(info.version, name, form)
  <2>1. info.version \in Nat /\ form \in Forms /\ bytes \in Bytes(form) /\ ~(info.version < 5)
        /\ listed \in BOOLEAN
    <3>1. info.version \in Nat /\ form \in Forms /\ bytes \in Bytes(form)
      BY ValueType
    <3>2. ~(info.version < 5)
      BY DEF HeaderMisread
    <3>3. listed \in BOOLEAN
      BY DEF Listed
    <3> QED  BY <3>1, <3>2, <3>3
  <2>2. bytes \in Nat
    BY <2>1, FixedBytes
  <2>3. Passed("parse", d, i) = IF class = "constant" THEN Asserts
                                ELSE Reader(class, form, bytes, listed)
    BY DEF Passed, ClassAt
  <2>4. class = "constant" \/ Reader(class, form, bytes, listed) # bytes
          <=> Misread(name, form, bytes) \/ Refused(name, form, listed)
    BY <2>1, FormsRead
  <2> HIDE DEF name, form, bytes, class, listed
  <2>5. Asserts # bytes
    BY <2>2 DEF Asserts
  <2> QED  BY <2>3, <2>4, <2>5 DEF name, form, bytes, listed
<1>2. Def(d) = AbbrevOf(d.unit, Entries(d.unit)[d.entry].code).def
  BY DEF OnEntry, Def, Abbrev
<1>3. Spoils(d.unit, d.entry)
        <=> \E i \in DOMAIN Def(d) :
              \/ Misread(Def(d)[i].name, Def(d)[i].form, ValueAt(d, i).bytes)
              \/ Refused(Def(d)[i].name, Def(d)[i].form, Listed(ValueAt(d, i)))
  BY <1>2 DEF Spoils, ValueAt
<1>4. After("parse", d) = "running"
        <=> \A i \in DOMAIN Def(d) : Passed("parse", d, i) = ValueAt(d, i).bytes
  BY AfterRuns
<1> QED  BY <1>1, <1>3, <1>4

-----------------------------------------------------------------------------
(* What `section info' reads                                               *)

\* Nothing is said of a walk that goes on, or has left the unit.
LEMMA NothingRead ==
  ASSUME \/ job'.kind # "info"
         \/ status' = "running" /\ job'.at # "parsed"
         \/ Outside(die)'
  PROVE  AttributesRead'
BY DEF AttributesRead

LEMMA SpoilsSame ==
  ASSUME info' = info, NEW u, NEW e, die'.unit = u, die'.entry = e
  PROVE  Spoils(die.unit, die.entry)' <=> Spoils(u, e)
<1>1. Entries(die.unit)' = Entries(u)
  BY DEF Entries
<1>2. AbbrevOf(die.unit, Entries(die.unit)[die.entry].code)' = AbbrevOf(u, Entries(u)[e].code)
  BY DEF AbbrevOf, Entries
<1>3. \A value : Listed(value)' <=> Listed(value)
  BY DEF Listed
<1> QED  BY <1>1, <1>2, <1>3 DEF Spoils, Refused

LEMMA AttributesParse ==
  ASSUME AllStandard, IInv, PlaceInv, Parse
  PROVE  AttributesRead'
<1>1. job.at = "die" /\ die.depth # 0 /\ status = "running" /\ info' = info
  BY DEF Parse, Running, Ends
<1>2. CASE job.kind # "info"
  <2>1. job'.kind = job.kind
    BY DEF Parse, Ends, Goes, IInv, JobShape
  <2> QED  BY <1>2, <2>1, NothingRead
<1>3. CASE job.kind = "info"
  <2>1. OnEntry(die) /\ die.cursorAbbrev = 1
    BY <1>1, <1>3 DEF PlaceInv, CursorInv, Searching, AtDIE
  <2>2. info \in Infos /\ Standard(info) /\ DIEShape(die) /\ ~HeaderMisread
    <3>1. job.unit \in 1 .. Len(cus)
      BY <1>1, <1>3 DEF IInv, JobShape, UnitsRead, PlaceInv, CursorInv, Searching
    <3> QED  BY <1>1, <3>1 DEF IInv, PlaceInv, ReadyInv, RootsInv, AllStandard
  <2>3. After("parse", die) # "running" <=> Spoils(die.unit, die.entry)
    BY <2>1, <2>2, SpoilsRead
  <2>4. CASE Ends(After("parse", die)) /\ After("parse", die) # "running"
    <3>1. status' # "running" /\ die' = die
      BY <2>4 DEF Ends
    <3>2. Spoils(die.unit, die.entry)'
      BY <3>1, <2>3, <2>4, <1>1, SpoilsSame
    <3> QED  BY <3>1, <3>2 DEF AttributesRead
  <2>5. CASE After("parse", die) = "running" /\ die' = ParseDIE(die) /\ UNCHANGED status
    <3> DEFINE p == ParseDIE(die)
    <3>1. /\ p.unit = die.unit /\ p.entry = die.entry /\ Def(p) = Def(die) /\ OnEntry(p)
          /\ \A i \in DOMAIN Def(die) : p.data[i] = NextDIEValue(p, i)
      BY <2>1, <2>2, ParsedIs
    <3>2. die' = p
      BY <2>5
    <3> HIDE DEF p
    <3>3. \A i \in DOMAIN Def(p) : p.data[i].v = ValueAt(p, i).v
      BY <3>1, <2>2, ValuesRead
    <3>4. Def(die)' = Def(p)
      BY <3>2, <1>1 DEF Def, Abbrev, AbbrevOf
    <3>5. \A i : ValueAt(die, i)' = ValueAt(p, i)
      BY <3>2, <1>1 DEF ValueAt, Entries
    <3>6. \A i \in DOMAIN Def(die)' : die'.data[i].v = ValueAt(die, i)'.v
      BY <3>2, <3>3, <3>4, <3>5
    <3>7. ~Spoils(die.unit, die.entry)'
      BY <3>1, <3>2, <2>3, <2>5, <1>1, SpoilsSame
    <3>8. status' = "running"
      BY <1>1, <2>5
    <3> QED  BY <3>6, <3>7, <3>8 DEF AttributesRead
  <2> QED  BY <2>4, <2>5 DEF Parse
<1> QED  BY <1>2, <1>3

LEMMA AttributesMove ==
  ASSUME IInv, PlaceInv, EnterUnit \/ StepDIE
  PROVE  AttributesRead'
<1>1. CASE \E m, before : Arrives(m, before) /\ Goes("die")
  <2> PICK m, before : Arrives(m, before) /\ Goes("die")
    BY <1>1
  <2>1. job'.at = "die" /\ die' = m /\ info' = info
        /\ status' = IF Outside(m) THEN "lost" ELSE status
    BY GoesIs DEF Arrives, IInv, EnterUnit, StepDIE, Ends
  <2>2. status = "running"
    BY DEF EnterUnit, StepDIE, Running
  <2>3. Outside(m) => Outside(die)'
    BY <2>1, SamePlaces
  <2> QED  BY <2>1, <2>2, <2>3, NothingRead
<1>2. CASE StepDIE /\ Ends(After("skip", die)) /\ After("skip", die) # "running"
  <2>1. job' = job /\ job.at = "next" /\ status = "running"
    BY <1>2 DEF Ends, StepDIE, Running
  <2>2. CASE job.kind = "info"
    <3>1. OnEntry(die) /\ die.cursorAbbrev = Len(Def(die)) + 1
      BY <2>1, <2>2 DEF PlaceInv, CursorInv, Searching, AtDIE
    <3>2. Len(Def(die)) \in Nat
      BY <3>1, EntryType DEF IInv, OnEntry, Def, Abbrev, IsSequence
    <3>3. die.cursorAbbrev .. Len(Def(die)) = {}
      BY <3>1, <3>2
    <3>4. {i \in die.cursorAbbrev .. Len(Def(die)) :
             Passed("skip", die, i) # ValueAt(die, i).bytes} = {}
      BY <3>3
    <3>5. After("skip", die) = "running"
      BY <3>4 DEF After
    <3> QED  BY <3>5, <1>2
  <2> QED  BY <2>1, <2>2, NothingRead
<1> QED
  <2>1. EnterUnit => \E m, before : Arrives(m, before) /\ Goes("die")
    BY DEF EnterUnit
  <2>2. StepDIE => \/ \E m, before : Arrives(m, before) /\ Goes("die")
                   \/ Ends(After("skip", die)) /\ After("skip", die) # "running"
    BY DEF StepDIE
  <2> QED  BY <2>1, <2>2, <1>1, <1>2

LEMMA AttributesOthers ==
  ASSUME IInv,
         \/ GetCompileUnitCount \/ InitializeCompileUnit \/ UnitsReady \/ PassUnit \/ LeaveUnit
         \/ NotFound \/ Skip \/ PrintedDIE \/ JudgeName \/ JudgeAddress \/ JudgeLocals
         \/ PrintLocal \/ LocalsDone
  PROVE  AttributesRead'
<1>1. CASE GetCompileUnitCount \/ InitializeCompileUnit \/ UnitsReady
  <2>1. job.kind = "none"
    BY <1>1 DEF GetCompileUnitCount, InitializeCompileUnit, UnitsReady, Running, IInv, JobShape
  <2>2. job'.kind = "none"
    BY <1>1, <2>1 DEF GetCompileUnitCount, InitializeCompileUnit, UnitsReady, Ends, Goes, IInv,
                      JobShape
  <2> QED  BY <2>2, NothingRead
<1>2. CASE PassUnit \/ LeaveUnit
  <2>1. status' = "running" /\ job'.at = "unit"
    BY <1>2 DEF PassUnit, LeaveUnit, Running, IInv, JobShape
  <2> QED  BY <2>1, NothingRead
<1>3. CASE NotFound
  <2>1. status = "running" /\ job'.kind = job.kind
    BY <1>3 DEF NotFound, Running, Finished, Goes, IInv, JobShape
  <2>2. job.kind = "info" => status' = "running" /\ job'.at = "idle"
    BY <1>3, <2>1 DEF NotFound, Finished, Goes, IInv, JobShape
  <2> QED  BY <2>1, <2>2, NothingRead
<1>4. CASE Skip \/ PrintedDIE
  <2>1. status' = "running" /\ job'.at = "next"
    BY <1>4 DEF Skip, PrintedDIE, Running, Goes, IInv, JobShape
  <2> QED  BY <2>1, NothingRead
<1>5. CASE JudgeName \/ JudgeAddress \/ JudgeLocals \/ PrintLocal \/ LocalsDone
  <2>1. job.kind # "info"
    BY <1>5 DEF JudgeName, JudgeAddress, JudgeLocals, PrintLocal, LocalsDone
  <2>2. job'.kind # "info"
    BY <1>5, <2>1 DEF JudgeName, JudgeAddress, JudgeLocals, PrintLocal, LocalsDone, Ends,
                      Finished, Goes, IInv, JobShape
  <2> QED  BY <2>2, NothingRead
<1> QED  BY <1>1, <1>2, <1>3, <1>4, <1>5

LEMMA AttributesStep ==
  ASSUME AllStandard, IInv, PlaceInv, AttributesRead, [Next]_vars
  PROVE  AttributesRead'
<1>1. ASSUME Walk PROVE AttributesRead'
  BY <1>1, AttributesParse, AttributesMove, AttributesOthers DEF Walk
<1>2. ASSUME NEW q \in info.queries, Ask(q) PROVE AttributesRead'
  <2>1. status' = "running" /\ job'.at = "unit"
    BY <1>2 DEF Ask, Running
  <2> QED  BY <2>1, NothingRead
<1>3. ASSUME UNCHANGED vars PROVE AttributesRead'
  <2>1. UNCHANGED <<info, die, job, status>>
    BY <1>3 DEF vars
  <2>2. /\ Spoils(die.unit, die.entry)' <=> Spoils(die.unit, die.entry)
        /\ Outside(die)' <=> Outside(die)
        /\ Def(die)' = Def(die)
        /\ \A i : ValueAt(die, i)' = ValueAt(die, i)
    BY <2>1 DEF Spoils, Refused, Listed, Outside, Def, Abbrev, AbbrevOf, ValueAt, Entries
  <2> QED  BY <2>1, <2>2 DEF AttributesRead
<1> QED  BY <1>1, <1>2, <1>3 DEF Next

\* In units of version 5 `section info' comes to grief at the first entry with an
\* attribute that is misread or refused and nowhere else, and what it parses is the
\* entry's, whatever names and forms there are; units of a lower version it never
\* gets to (NextDIEValue, DwarfForms.h:723-821,
\* with GetDwarfClass, DwarfDef.h:392-570).
THEOREM ReadsAttributes ==
  ASSUME AllStandard
  PROVE  Spec => []AttributesRead
<1>1. Init => IInv /\ PlaceInv /\ AttributesRead
  <2>1. Init => AttributesRead
    BY DEF Init, NoJob, AttributesRead
  <2> QED  BY <2>1, InvInit, PlaceInductive
<1>2. IInv /\ PlaceInv /\ AttributesRead /\ [Next]_vars => (IInv /\ PlaceInv /\ AttributesRead)'
  BY InvNext, PlaceInductive, AttributesStep
<1> QED  BY <1>1, <1>2, PTL DEF Spec

-----------------------------------------------------------------------------
(* What `section info' walks over                                          *)

\* A walk has to do with the entries before Frontier no more; Reach is behind those
\* it has come to.
Frontier ==
  CASE job.at \in {"unit", "idle"} -> <<job.unit, 0>>
    [] job.at = "die" /\ die.depth = 0 -> <<job.unit + 1, 0>>
    [] job.at = "next" -> <<job.unit, die.entry + 1>>
    [] OTHER -> <<job.unit, die.entry>>
Reach == IF AtDIE THEN <<job.unit, die.entry + 1>> ELSE Frontier

\* The visits are those of all entries before f but the units' own, in order.
SeenBefore(visits, f) ==
  /\ \E S : visits \in Seq(S)
  /\ \A k \in DOMAIN visits :
       /\ visits[k].unit \in DOMAIN info.units
       /\ visits[k].entry \in Real(visits[k].unit) \ {1}
       /\ visits[k].depth = TrueDepth(visits[k].unit, visits[k].entry)
       /\ Before(Place(visits[k]), f)
  /\ \A j, k \in DOMAIN visits : j < k => Before(Place(visits[j]), Place(visits[k]))
  /\ \A u \in DOMAIN info.units : \A e \in Real(u) \ {1} :
       Before(<<u, e>>, f) => \E k \in DOMAIN visits : Place(visits[k]) = <<u, e>>

SeenInv == Searching /\ InTree /\ job.kind = "info" => SeenBefore(seen, Reach)

\* Entries and units are numbers.
LEMMA PlaceType ==
  ASSUME info \in Infos, NEW u \in DOMAIN info.units
  PROVE  u \in Nat \ {0} /\ \A e \in Real(u) : e \in Nat \ {0}
<1>1. u \in Nat \ {0}
  BY DieWalkAssumption DEF IsSequence
<1>2. \A e \in Real(u) : e \in Nat \ {0}
  BY UnitType DEF Real
<1> QED  BY <1>1, <1>2

\* Between f and g there is no entry.
LEMMA SeenAsFar ==
  ASSUME NEW visits, NEW f, NEW g, SeenBefore(visits, f),
         \A u \in DOMAIN info.units : \A e \in Real(u) \ {1} :
           Before(<<u, e>>, f) <=> Before(<<u, e>>, g)
  PROVE  SeenBefore(visits, g)
BY DEF SeenBefore, Place

\* Between f and g there is one.
LEMMA SeenOneMore ==
  ASSUME NEW visits, NEW f, NEW g, SeenBefore(visits, f), NEW m, AtEntry(m),
         \A u \in DOMAIN info.units : \A e \in Real(u) \ {1} :
           Before(<<u, e>>, g) <=> \/ Before(<<u, e>>, f)
                                   \/ u = m.unit /\ e = m.entry,
         \A u \in DOMAIN info.units : \A e \in Real(u) \ {1} :
           Before(<<u, e>>, f) => Before(<<u, e>>, Place(Visit(m)))
  PROVE  SeenBefore(Append(visits, Visit(m)), g)
<1> DEFINE v == Visit(m)
           all == Append(visits, v)
<1>1. PICK S : visits \in Seq(S)
  BY DEF SeenBefore
<1>2. visits \in Seq(S \cup {v})
  BY <1>1
<1>3. /\ all \in Seq(S \cup {v}) /\ DOMAIN all = DOMAIN visits \cup {Len(visits) + 1}
      /\ Len(visits) \in Nat /\ DOMAIN visits = 1 .. Len(visits)
      /\ \A k \in DOMAIN visits : all[k] = visits[k]
      /\ all[Len(visits) + 1] = v
  BY <1>2
<1>4. v.unit = m.unit /\ v.entry = m.entry /\ v.depth = m.depth /\ Place(v) = <<m.unit, m.entry>>
  BY DEF Visit, Place
<1>5. /\ m.unit \in DOMAIN info.units /\ m.entry \in Real(m.unit) \ {1}
      /\ m.depth = TrueDepth(m.unit, m.entry)
  <2>1. /\ m.unit \in DOMAIN info.units /\ m.entry \in Real(m.unit) /\ m.entry > 1
        /\ m.depth = TrueDepth(m.unit, m.entry)
    BY DEF AtEntry
  <2> QED  BY <2>1
<1> HIDE DEF all, v
<1>6. \A k \in DOMAIN all :
        /\ all[k].unit \in DOMAIN info.units
        /\ all[k].entry \in Real(all[k].unit) \ {1}
        /\ all[k].depth = TrueDepth(all[k].unit, all[k].entry)
        /\ Before(Place(all[k]), g)
  <2> TAKE k \in DOMAIN all
  <2>1. CASE k \in DOMAIN visits
    <3>1. all[k] = visits[k]
      BY <1>3, <2>1
    <3>2. /\ visits[k].unit \in DOMAIN info.units
          /\ visits[k].entry \in Real(visits[k].unit) \ {1}
          /\ visits[k].depth = TrueDepth(visits[k].unit, visits[k].entry)
          /\ Before(Place(visits[k]), f)
      BY <2>1 DEF SeenBefore
    <3>3. Before(Place(visits[k]), g)
      BY <3>2 DEF Place
    <3> QED  BY <3>1, <3>2, <3>3
  <2>2. CASE k = Len(visits) + 1
    <3>1. Before(<<m.unit, m.entry>>, g)
      BY <1>5
    <3> QED  BY <1>3, <1>4, <1>5, <2>2, <3>1
  <2> QED  BY <1>3, <2>1, <2>2
<1>7. \A j, k \in DOMAIN all : j < k => Before(Place(all[j]), Place(all[k]))
  <2> SUFFICES ASSUME NEW j \in DOMAIN all, NEW k \in DOMAIN all, j < k
               PROVE  Before(Place(all[j]), Place(all[k]))
    OBVIOUS
  <2>1. j \in DOMAIN visits /\ all[j] = visits[j]
    BY <1>3
  <2>2. CASE k \in DOMAIN visits
    <3>1. all[k] = visits[k]
      BY <1>3, <2>2
    <3> QED  BY <2>1, <2>2, <3>1 DEF SeenBefore
  <2>3. CASE k = Len(visits) + 1
    <3>1. /\ visits[j].unit \in DOMAIN info.units
          /\ visits[j].entry \in Real(visits[j].unit) \ {1}
          /\ Before(Place(visits[j]), f)
      BY <2>1 DEF SeenBefore
    <3>2. Before(Place(visits[j]), Place(Visit(m)))
      BY <3>1 DEF Place
    <3> QED  BY <1>3, <2>1, <2>3, <3>2 DEF v
  <2> QED  BY <1>3, <2>2, <2>3
<1>8. ASSUME NEW u \in DOMAIN info.units, NEW e \in Real(u) \ {1}, Before(<<u, e>>, g)
      PROVE  \E k \in DOMAIN all : Place(all[k]) = <<u, e>>
  <2>1. CASE Before(<<u, e>>, f)
    <3>1. PICK k \in DOMAIN visits : Place(visits[k]) = <<u, e>>
      BY <1>8, <2>1 DEF SeenBefore
    <3> QED  BY <1>3, <3>1
  <2>2. CASE u = m.unit /\ e = m.entry
    BY <1>3, <1>4, <2>2
  <2> QED  BY <1>8, <2>1, <2>2
<1> QED  BY <1>3, <1>6, <1>7, <1>8 DEF SeenBefore, all, v

\* The cursor moves to m from entry e of unit u, over no entry.
LEMMA PassesNothing ==
  ASSUME info \in Infos, NEW u \in DOMAIN info.units, NEW e \in Nat, NEW m,
         MovesTo(m, u, e), ~Outside(m)
  PROVE  /\ m.depth # 0 => AtEntry(m)
         /\ \A v \in DOMAIN info.units : \A x \in Real(v) :
              Before(<<v, x>>, <<u, e + 1>>)
                <=> Before(<<v, x>>, IF m.depth = 0 THEN <<u + 1, 0>> ELSE <<u, m.entry>>)
<1> DEFINE last == Len(Entries(u))
<1>1. /\ u \in Nat /\ last \in Nat /\ DOMAIN Entries(u) = 1 .. last
      /\ \A x \in 2 .. last : TrueDepth(u, x) > 0
  BY UnitType, PlaceType
<1>2. /\ m.unit = u /\ m.entry \in e + 1 .. last + 1
      /\ \A x \in Real(u) : x >= e + 1 => x >= m.entry
      /\ m.entry <= last => AtEntry(m)
      /\ m.entry > last => m.depth = 0
  <2>1. /\ m.unit = u /\ m.entry \in e + 1 .. last + 1
        /\ \A i \in e + 1 .. m.entry - 1 : i \notin Real(u)
        /\ m.entry <= last => AtEntry(m)
        /\ m.entry > last => m.depth = 0
    BY DEF MovesTo
  <2> HIDE DEF last
  <2>2. ASSUME NEW x \in Real(u), x >= e + 1 PROVE x >= m.entry
    <3>1. x \in Nat
      BY PlaceType
    <3> QED  BY <2>1, <2>2, <3>1, <1>1
  <2> QED  BY <2>1, <2>2
<1>3. \A v \in DOMAIN info.units : v \in Nat /\ \A x \in Real(v) : x \in Nat
  BY PlaceType
<1>4. \A x \in Real(u) : x <= last
  BY <1>1 DEF Real
<1> HIDE DEF last
<1>5. CASE m.depth = 0
  <2>1. m.entry = last + 1
    <3> SUFFICES ASSUME m.entry <= last PROVE FALSE
      BY <1>1, <1>2
    <3>1. m.entry \in Real(u) /\ m.entry > 1 /\ m.depth = TrueDepth(u, m.entry)
      BY <1>2 DEF AtEntry
    <3>2. m.entry \in 2 .. last
      BY <3>1, <1>1, <1>2
    <3>3. TrueDepth(u, m.entry) > 0
      BY <3>2, <1>1
    <3>4. TrueDepth(u, m.entry) = 0
      BY <3>1, <1>5
    <3> QED  BY <3>3, <3>4
  <2>2. ASSUME NEW v \in DOMAIN info.units, NEW x \in Real(v)
        PROVE  Before(<<v, x>>, <<u, e + 1>>) <=> Before(<<v, x>>, <<u + 1, 0>>)
    BY <2>1, <1>1, <1>2, <1>3, <1>4 DEF Before
  <2> QED  BY <1>5, <2>2
<1>6. CASE m.depth # 0
  <2>1. AtEntry(m) /\ m.entry \in Nat
    BY <1>1, <1>2, <1>6
  <2>2. ASSUME NEW v \in DOMAIN info.units, NEW x \in Real(v)
        PROVE  Before(<<v, x>>, <<u, e + 1>>) <=> Before(<<v, x>>, <<u, m.entry>>)
    BY <2>1, <1>1, <1>2, <1>3 DEF Before
  <2> QED  BY <1>6, <2>1, <2>2
<1> QED  BY <1>5, <1>6

LEMMA SeenMoves ==
  ASSUME info \in Infos, NEW u \in DOMAIN info.units, NEW e \in Nat, NEW m, NEW visits,
         SeenBefore(visits, <<u, e + 1>>), MovesTo(m, u, e), ~Outside(m)
  PROVE  IF m.depth = 0 THEN SeenBefore(visits, <<u + 1, 0>>)
         ELSE SeenBefore(Append(visits, Visit(m)), <<u, m.entry + 1>>)
<1> DEFINE f == IF m.depth = 0 THEN <<u + 1, 0>> ELSE <<u, m.entry>>
           g == <<u, m.entry + 1>>
<1>1. SeenBefore(visits, f)
  <2>1. \A v \in DOMAIN info.units : \A x \in Real(v) :
          Before(<<v, x>>, <<u, e + 1>>) <=> Before(<<v, x>>, f)
    BY PassesNothing
  <2> HIDE DEF f
  <2> QED  BY <2>1, SeenAsFar
<1>2. CASE m.depth # 0
  <2>1. AtEntry(m) /\ m.unit = u /\ f = <<u, m.entry>>
    BY <1>2, PassesNothing DEF MovesTo
  <2>2. u \in Nat /\ m.entry \in Nat
    BY <2>1, PlaceType DEF AtEntry
  <2>3. Place(Visit(m)) = f
    BY <2>1 DEF Place, Visit
  <2>4. \A v \in DOMAIN info.units : \A x \in Real(v) \ {1} :
          Before(<<v, x>>, g) <=> Before(<<v, x>>, f) \/ (v = m.unit /\ x = m.entry)
    <3> TAKE v \in DOMAIN info.units
    <3> TAKE x \in Real(v) \ {1}
    <3>1. v \in Nat /\ x \in Nat
      BY PlaceType
    <3> QED  BY <2>1, <2>2, <3>1 DEF Before
  <2> HIDE DEF f, g
  <2>5. SeenBefore(Append(visits, Visit(m)), g)
    BY <1>1, <2>1, <2>3, <2>4, SeenOneMore
  <2> QED  BY <1>2, <2>5 DEF g
<1>3. CASE m.depth = 0
  BY <1>1, <1>3
<1> QED  BY <1>2, <1>3

LEMMA SeenNow ==
  ASSUME info' = info, NEW visits, seen' = visits, NEW f, Reach' = f,
         InTree => SeenBefore(visits, f)
  PROVE  SeenInv'
<1> SUFFICES ASSUME InTree' PROVE SeenBefore(seen, Reach)'
  BY DEF SeenInv
<1>1. SeenBefore(visits, f)
  BY SamePlaces
<1>2. \A u, e : TrueDepth(u, e)' = TrueDepth(u, e) /\ Real(u)' = Real(u)
  BY SamePlaces
<1> QED  BY <1>1, <1>2 DEF SeenBefore, Place, Before

\* Nothing is said of another command, or of one that is at an end.
LEMMA SeenElse ==
  ASSUME job'.kind # "info" \/ status' # "running"
  PROVE  SeenInv'
BY DEF SeenInv, Searching

\* The cursor has moved to m.
LEMMA SeenArrives ==
  ASSUME info \in Infos, info' = info, NEW u \in DOMAIN info.units, NEW e \in Nat,
         NEW m, Arrives(m, seen), job'.at = "die", job'.unit = u,
         InTree => MovesTo(m, u, e) /\ SeenBefore(seen, <<u, e + 1>>)
  PROVE  SeenInv'
<1>1. /\ die' = m
      /\ status' = IF Outside(m) THEN "lost" ELSE status
      /\ seen' = IF m.depth = 0 \/ Outside(m) THEN seen ELSE Append(seen, Visit(m))
  BY DEF Arrives
<1>2. CASE Outside(m)
  BY <1>1, <1>2, SeenElse
<1>3. CASE ~Outside(m)
  <2>1. InTree => IF m.depth = 0 THEN SeenBefore(seen, <<u + 1, 0>>)
                  ELSE SeenBefore(Append(seen, Visit(m)), <<u, m.entry + 1>>)
    BY <1>3, SeenMoves
  <2>2. Reach' = IF m.depth = 0 THEN <<u + 1, 0>> ELSE <<u, m.entry + 1>>
    BY <1>1 DEF Reach, Frontier, AtDIE
  <2>3. InTree => SeenBefore(seen', Reach')
    BY <1>1, <1>3, <2>1, <2>2
  <2> QED  BY <2>3, SeenNow
<1> QED  BY <1>2, <1>3

\* `section info' walks all units.
LEMMA SeenKept ==
  ASSUME IInv, PlaceInv, SeenInv, Searching, job.kind = "info",
         \/ EnterUnit \/ PassUnit \/ LeaveUnit \/ NotFound \/ Skip \/ Parse \/ StepDIE
         \/ PrintedDIE \/ JudgeName \/ JudgeAddress \/ JudgeLocals \/ PrintLocal \/ LocalsDone
  PROVE  SeenInv'
<1> USE DEF IInv
<1>1. /\ job.kind = "info" /\ status = "running" /\ info \in Infos /\ info' = info
      /\ InTree => SeenBefore(seen, Reach)
  BY DEF SeenInv, Searching, EnterUnit, PassUnit, LeaveUnit, NotFound, Skip, Parse, StepDIE,
         PrintedDIE, JudgeName, JudgeAddress, JudgeLocals, PrintLocal, LocalsDone, Ends, Arrives
<1>2. CASE EnterUnit
  <2> DEFINE u == job.unit
             m == InitializeDIE(die, 2, u)
  <2>1. job.at = "unit" /\ u <= Len(cus) /\ Arrives(m, seen) /\ Goes("die")
    BY <1>2 DEF EnterUnit, Running
  <2>2. job'.unit = u /\ job'.at = "die"
    BY <2>1, GoesIs
  <2>3. RootOK(u) /\ u \in DOMAIN info.units
    BY <2>1 DEF UnitsRead, JobShape, RootOK
  <2>4. InTree => MovesTo(m, u, 1)
    BY <1>1, <2>3, EnterReaches
  <2>5. InTree => SeenBefore(seen, <<u, 1 + 1>>)
    <3> SUFFICES ASSUME InTree PROVE SeenBefore(seen, <<u, 1 + 1>>)
      OBVIOUS
    <3>1. Reach = <<u, 0>>
      BY <2>1 DEF Reach, Frontier, AtDIE
    <3>2. SeenBefore(seen, <<u, 0>>)
      BY <1>1, <3>1
    <3>3. ASSUME NEW v \in DOMAIN info.units, NEW x \in Real(v) \ {1}
          PROVE  Before(<<v, x>>, <<u, 0>>) <=> Before(<<v, x>>, <<u, 1 + 1>>)
      <4>1. u \in Nat /\ v \in Nat /\ x \in Nat \ {0}
        BY <1>1, <2>3, PlaceType
      <4> HIDE DEF u
      <4> QED  BY <4>1 DEF Before
    <3> HIDE DEF u
    <3> QED  BY <3>2, <3>3, SeenAsFar
  <2> HIDE DEF m, u
  <2> QED  BY <1>1, <2>1, <2>2, <2>3, <2>4, <2>5, SeenArrives
<1>3. CASE PassUnit
  BY <1>1, <1>3 DEF PassUnit, Concerns
<1>4. CASE LeaveUnit \/ NotFound
  <2>1. /\ seen' = seen
        /\ \/ job.at = "die" /\ die.depth = 0 /\ job' = [job EXCEPT !.unit = @ + 1, !.at = "unit"]
           \/ job.at = "unit" /\ Goes("idle")
    BY <1>1, <1>4 DEF LeaveUnit, NotFound, Running, Finished
  <2>2. \/ Reach = <<job.unit + 1, 0>> /\ job'.at = "unit" /\ job'.unit = job.unit + 1
        \/ Reach = <<job.unit, 0>> /\ job'.at = "idle" /\ job'.unit = job.unit
    BY <2>1 DEF Reach, Frontier, AtDIE, Goes, JobShape
  <2>3. Reach' = Reach
    BY <2>2 DEF Reach, Frontier, AtDIE
  <2> QED  BY <1>1, <2>1, <2>3, SeenNow
<1>5. CASE Skip \/ PrintedDIE \/ Parse
  <2>1. CASE Ends(After("parse", die)) /\ After("parse", die) # "running"
    BY <2>1, SeenElse DEF Ends
  <2>2. CASE /\ \E at \in {"next", "parsed"} : Goes(at)
             /\ AtDIE /\ seen' = seen /\ die'.entry = die.entry
    <3>1. PICK at \in {"next", "parsed"} : Goes(at)
      BY <2>2
    <3>2. job'.at = at /\ job'.unit = job.unit
      BY <3>1, GoesIs
    <3>3. Reach' = Reach
      BY <2>2, <3>2 DEF Reach, AtDIE
    <3> QED  BY <1>1, <2>2, <3>3, SeenNow
  <2>3. CASE Parse
    <3>1. AtDIE
      BY <2>3 DEF Parse, Running, AtDIE
    <3>2. OnEntry(die) /\ die.cursorAbbrev = 1 /\ DIEShape(die)
      BY <3>1, <2>3 DEF PlaceInv, CursorInv, Parse, Running
    <3>3. ParseDIE(die).entry = die.entry
      BY <1>1, <3>2, ParsedIs
    <3> QED  BY <2>1, <2>2, <2>3, <3>1, <3>3 DEF Parse
  <2>4. CASE Skip \/ PrintedDIE
    BY <2>2, <2>4 DEF Skip, PrintedDIE, Running, AtDIE
  <2> QED  BY <1>5, <2>3, <2>4
<1>6. CASE StepDIE
  <2> DEFINE m == NextDIE(die)
             u == job.unit
  <2>1. CASE Ends(After("skip", die)) /\ After("skip", die) # "running"
    BY <2>1, SeenElse DEF Ends
  <2>2. CASE Arrives(m, seen) /\ Goes("die")
    <3>1. job'.unit = u /\ job'.at = "die"
      BY <2>2, GoesIs
    <3>2. job.at = "next" /\ AtDIE
      BY <1>6 DEF StepDIE, Running, AtDIE
    <3>3. OnEntry(die) /\ die.unit = u /\ (InTree => AtEntry(die)) /\ u \in DOMAIN info.units
      BY <3>2 DEF PlaceInv, CursorInv, TreeInv, OnEntry
    <3>4. die.entry \in Nat
      BY <1>1, <3>3, PlaceType DEF OnEntry
    <3>5. InTree => MovesTo(m, u, die.entry)
      BY <1>1, <3>3, StepReaches
    <3>6. InTree => SeenBefore(seen, <<u, die.entry + 1>>)
      BY <1>1, <3>2 DEF Reach
    <3> HIDE DEF m, u
    <3> QED  BY <1>1, <2>2, <3>1, <3>3, <3>4, <3>5, <3>6, SeenArrives
  <2> QED  BY <1>6, <2>1, <2>2 DEF StepDIE
<1>7. CASE JudgeName \/ JudgeAddress \/ JudgeLocals \/ PrintLocal \/ LocalsDone
  BY <1>1, <1>7 DEF JudgeName, JudgeAddress, JudgeLocals, PrintLocal, LocalsDone
<1> QED  BY <1>2, <1>3, <1>4, <1>5, <1>6, <1>7

LEMMA SeenStep ==
  ASSUME IInv, PlaceInv, SeenInv, [Next]_vars
  PROVE  SeenInv'
<1>1. CASE UNCHANGED vars
  <2>1. info' = info /\ seen' = seen /\ UNCHANGED <<die, job, status>>
    BY <1>1 DEF vars
  <2>2. Reach' = Reach /\ (Searching' <=> Searching)
    BY <2>1 DEF Reach, Frontier, AtDIE, Searching
  <2>3. CASE Searching /\ job.kind = "info"
    BY <2>1, <2>2, <2>3, SeenNow DEF SeenInv
  <2>4. CASE ~Searching \/ job.kind # "info"
    BY <2>1, <2>2, <2>4 DEF SeenInv
  <2> QED  BY <2>3, <2>4
<1>2. CASE GetCompileUnitCount \/ InitializeCompileUnit \/ UnitsReady
  <2>1. job.kind = "none"
    BY <1>2 DEF GetCompileUnitCount, InitializeCompileUnit, UnitsReady, Running, IInv, JobShape
  <2>2. job'.kind = "none"
    BY <1>2, <2>1 DEF GetCompileUnitCount, InitializeCompileUnit, UnitsReady, Ends, Goes, IInv,
                      JobShape
  <2> QED  BY <2>2, SeenElse
<1>3. ASSUME NEW q \in info.queries, Ask(q) PROVE SeenInv'
  <2>1. info' = info /\ seen' = <<>> /\ Reach' = <<1, 0>> /\ info \in Infos
    BY <1>3 DEF Ask, Reach, Frontier, AtDIE, IInv
  <2>2. \A u \in DOMAIN info.units : \A e \in Real(u) : ~Before(<<u, e>>, <<1, 0>>)
    BY <2>1, PlaceType DEF Before
  <2>3. SeenBefore(<<>>, <<1, 0>>)
    <3>1. <<>> \in Seq({})
      OBVIOUS
    <3> QED  BY <2>2, <3>1 DEF SeenBefore
  <2> QED  BY <2>1, <2>3, SeenNow
<1>4. CASE \/ EnterUnit \/ PassUnit \/ LeaveUnit \/ NotFound \/ Skip \/ Parse \/ StepDIE
           \/ PrintedDIE \/ JudgeName \/ JudgeAddress \/ JudgeLocals \/ PrintLocal \/ LocalsDone
  <2>1. CASE Searching /\ job.kind = "info"
    BY <1>4, <2>1, SeenKept
  <2>2. CASE job.kind # "info"
    <3>1. job'.kind # "info"
      BY <1>4, <2>2 DEF EnterUnit, PassUnit, LeaveUnit, NotFound, Skip, Parse, StepDIE, PrintedDIE,
         JudgeName, JudgeAddress, JudgeLocals, PrintLocal, LocalsDone, Ends, Finished, Goes, IInv,
         JobShape
    <3> QED  BY <3>1, SeenElse
  <2>3. status = "running"
    BY <1>4 DEF EnterUnit, PassUnit, LeaveUnit, NotFound, Skip, Parse, StepDIE, PrintedDIE,
       JudgeName, JudgeAddress, JudgeLocals, PrintLocal, LocalsDone, Running
  <2> QED  BY <2>1, <2>2, <2>3 DEF Searching
<1> QED  BY <1>1, <1>2, <1>3, <1>4 DEF Next, Walk

LEMMA SeenTrue ==
  ASSUME IInv, PlaceInv, SeenInv
  PROVE  WalksTrue
<1> SUFFICES ASSUME job.kind = "info", InTree, job.at \in {"idle", "die"}, status = "running"
             PROVE  WalksTrue
  BY DEF WalksTrue
<1>1. SeenBefore(seen, Reach) /\ info \in Infos
  BY DEF SeenInv, Searching, IInv
<1>2. job.unit \in Nat
  BY DEF IInv, JobShape
<1>3. ASSUME NEW u \in DOMAIN info.units, NEW e \in Real(u) \ {1}, u < job.unit
      PROVE  Before(<<u, e>>, Reach)
  <2>1. Reach[1] \in {job.unit, job.unit + 1}
    BY DEF Reach, Frontier
  <2>2. u \in Nat
    BY <1>1, PlaceType
  <2> QED  BY <1>2, <1>3, <2>1, <2>2 DEF Before
<1>4. ASSUME NEW u \in DOMAIN info.units, NEW e \in Real(u) \ {1}, NEW k \in DOMAIN seen,
             Before(<<u, e>>, Place(seen[k]))
      PROVE  Before(<<u, e>>, Reach)
  <2>1. /\ seen[k].unit \in DOMAIN info.units /\ seen[k].entry \in Real(seen[k].unit)
        /\ Before(Place(seen[k]), Reach)
    BY <1>1 DEF SeenBefore
  <2>2. /\ u \in Nat /\ e \in Nat /\ seen[k].unit \in Nat /\ seen[k].entry \in Nat
    BY <1>1, <2>1, PlaceType
  <2>3. AtDIE => die.entry \in Nat
    <3>1. AtDIE => OnEntry(die)
      BY DEF PlaceInv, CursorInv, Searching
    <3> QED  BY <3>1, <1>1, PlaceType DEF OnEntry
  <2>4. Reach[1] \in Nat /\ Reach[2] \in Nat
    BY <1>2, <2>3 DEF Reach, Frontier, AtDIE
  <2> QED  BY <1>4, <2>1, <2>2, <2>4 DEF Before, Place
<1> QED  BY <1>1, <1>3, <1>4 DEF WalksTrue, SeenBefore

\* `section info' goes over every entry once, in order and at its depth, in
\* every tree that has no empty list of children (PrintInfo, Dwarf.h:768-775, with UpdateDIE,
\* Dwarf.h:331-349).
THEOREM WalksInfo == Spec => []WalksTrue
<1>1. Init => IInv /\ PlaceInv /\ SeenInv
  <2>1. Init => SeenInv
    BY DEF Init, NoJob, SeenInv, Searching
  <2> QED  BY <2>1, InvInit, PlaceInductive
<1>2. IInv /\ PlaceInv /\ SeenInv /\ [Next]_vars => (IInv /\ PlaceInv /\ SeenInv)'
  BY InvNext, PlaceInductive, SeenStep
<1>3. IInv /\ PlaceInv /\ SeenInv => WalksTrue
  BY SeenTrue
<1> QED  BY <1>1, <1>2, <1>3, PTL DEF Spec

-----------------------------------------------------------------------------
(* The addresses of an entry                                               *)

LEMMA GreatestIn ==
  ASSUME NEW n \in Nat, NEW S, S \subseteq 1 .. n, S # {}
  PROVE  Max(S) \in S
<1> DEFINE bounds == {b \in Nat : \A x \in S : x <= b}
<1>1. n \in bounds
  OBVIOUS
<1>2. PICK b \in bounds : \A c \in bounds : b <= c
  BY <1>1, HasLeast
<1>3. b \in S
  <2> SUFFICES ASSUME b \notin S PROVE FALSE
    OBVIOUS
  <2>1. PICK x \in S : x \in 1 .. n /\ x <= b
    BY <1>2
  <2>2. b - 1 \in bounds
    BY <1>2, <2>1
  <2> QED  BY <1>2, <2>2
<1>4. \E x \in S : \A y \in S : x >= y
  BY <1>2, <1>3
<1> QED  BY <1>4 DEF Max

\* An attribute of an entry that has been read.
LEMMA AttributeRead ==
  ASSUME info \in Infos, Standard(info), AddressesNumeric(info),
         NEW how \in {"unit", "parse"}, NEW d, OnEntry(d), ReadAs(how, d),
         NEW name \in {"low_pc", "high_pc", "ranges"}
  PROVE  /\ Has(d, name) <=> HasAttribute(d.unit, d.entry, name)
         /\ Has(d, name) =>
              LET form == FormOf(d.unit, d.entry, name)
                  class == GetDwarfClass(info.version, name, form)
              IN  /\ Get(d, name) = [class |-> class, v |-> Attribute(d.unit, d.entry, name)]
                  /\ class # "constant"
                  /\ Numeric(name, Attribute(d.unit, d.entry, name))
<1>1. Has(d, name) <=> HasAttribute(d.unit, d.entry, name)
  BY IndexIs
<1> SUFFICES ASSUME Has(d, name)
             PROVE  LET form == FormOf(d.unit, d.entry, name)
                        class == GetDwarfClass(info.version, name, form)
                    IN  /\ Get(d, name) = [class |-> class, v |-> Attribute(d.unit, d.entry, name)]
                        /\ class # "constant"
                        /\ Numeric(name, Attribute(d.unit, d.entry, name))
  BY <1>1
<1> DEFINE i == Index(d, name)
           form == FormOf(d.unit, d.entry, name)
           class == GetDwarfClass(info.version, name, form)
           v == Attribute(d.unit, d.entry, name)
<1>2. /\ i \in DOMAIN Def(d) /\ Def(d)[i].name = name /\ Def(d)[i].form = form
      /\ ValueAt(d, i).v = v
  BY IndexIs
<1>3. ClassAt(d, i) = class
  BY <1>2 DEF ClassAt
<1>4. Get(d, name) = NextDIEValue(d, i)
  BY <1>2 DEF ReadAs, Get
<1>5. NextDIEValue(d, i).v = v /\ NextDIEValue(d, i).class = class
  BY <1>2, <1>3, ValuesRead DEF NextDIEValue
<1>6. NextDIEValue(d, i) = [class |-> NextDIEValue(d, i).class, v |-> NextDIEValue(d, i).v]
  BY DEF NextDIEValue
<1>7. class # "constant"
  <2> SUFFICES ASSUME class = "constant" PROVE FALSE
    OBVIOUS
  <2>1. Passed(how, d, i) = Asserts
    BY <1>2, <1>3 DEF Passed, Bases
  <2>2. ValueAt(d, i).bytes \in Nat
    <3>1. Def(d)[i].form \in Forms /\ ValueAt(d, i).bytes \in Bytes(Def(d)[i].form)
      BY <1>2, ValueType
    <3> QED  BY <3>1, FixedBytes
  <2>3. Passed(how, d, i) = ValueAt(d, i).bytes
    BY <1>2 DEF ReadAs
  <2> QED  BY <2>1, <2>2, <2>3 DEF Asserts
<1>8. Numeric(name, v)
  <2> DEFINE unit == info.units[d.unit]
             entry == unit.entries[d.entry]
  <2>1. /\ d.unit \in DOMAIN info.units /\ d.entry \in DOMAIN unit.entries
        /\ d.code = entry.code /\ entry.code # 0
    BY DEF OnEntry, Real, Entries
  <2>2. \A j \in DOMAIN entry.values :
          Numeric(unit.abbrevs[entry.code].def[j].name, entry.values[j].v)
    BY <2>1 DEF AddressesNumeric
  <2>3. DOMAIN entry.values = DOMAIN Def(d) /\ Def(d) = unit.abbrevs[entry.code].def
    BY <2>1, EntryType DEF OnEntry, ValuesOf, Def, Abbrev, Entries
  <2>4. ValueAt(d, i) = entry.values[i]
    BY DEF ValueAt, Entries
  <2> QED  BY <2>2, <2>3, <2>4, <1>2
<1> QED  BY <1>4, <1>5, <1>6, <1>7, <1>8

\* In a list that is plain an interval is the standard's.
LEMMA IntervalsSame ==
  ASSUME info \in Infos, NEW u, NEW e, HasAttribute(u, e, "ranges"), Plain(u, e),
         Numeric("ranges", Attribute(u, e, "ranges")),
         NEW i \in DOMAIN Attribute(u, e, "ranges")
  PROVE  LET list == Attribute(u, e, "ranges")
         IN  /\ Interval(list, i) = StdInterval(u, list, i)
             /\ Interval(list, i)[1] \in Nat /\ Interval(list, i)[2] \in Nat
<1> DEFINE list == Attribute(u, e, "ranges")
           plain == {"base_address", "offset_pair", "start_end", "start_length"}
           bases == {j \in 1 .. i - 1 : list[j].kind = "base_address"}
           base == IF bases = {} THEN 0 ELSE list[Max(bases)].low
           all == {j \in 1 .. i - 1 : list[j].kind \in {"base_address", "base_addressx"}}
           first == IF HasAttribute(u, 1, "low_pc") THEN Attribute(u, 1, "low_pc") ELSE 0
           stdBase == IF all # {} THEN list[Max(all)].low ELSE first
<1>1. /\ IsSequence(list)
      /\ \A r \in DOMAIN list : list[r].low \in Nat /\ list[r].high \in Nat
  BY DEF Numeric
<1>2. /\ \A r \in DOMAIN list : list[r].kind \in plain
      /\ list[i].kind = "offset_pair" =>
           \/ \E j \in 1 .. i - 1 : list[j].kind = "base_address"
           \/ ~HasAttribute(u, 1, "low_pc") \/ Attribute(u, 1, "low_pc") = 0
  BY DEF Plain
<1>3. Interval(list, i) =
        CASE list[i].kind = "offset_pair" -> <<base + list[i].low, base + list[i].high>>
          [] list[i].kind = "start_end" -> <<list[i].low, list[i].high>>
          [] list[i].kind = "start_length" -> <<list[i].low, list[i].low + list[i].high>>
          [] OTHER -> <<0, 0>>
  BY DEF Interval
<1>4. StdInterval(u, list, i) =
        CASE list[i].kind = "offset_pair" -> <<stdBase + list[i].low, stdBase + list[i].high>>
          [] list[i].kind \in {"start_end", "startx_endx"} -> <<list[i].low, list[i].high>>
          [] list[i].kind \in {"start_length", "startx_length"} ->
               <<list[i].low, list[i].low + list[i].high>>
          [] OTHER -> <<0, 0>>
  BY DEF StdInterval
<1> HIDE DEF list
<1>5. i \in Nat \ {0} /\ 1 .. i - 1 \subseteq DOMAIN list
  BY <1>1 DEF IsSequence, list
<1>6. all = bases
  BY <1>2, <1>5
<1>7. base \in Nat
  <2>1. bases # {} => Max(bases) \in bases
    <3>1. i - 1 \in Nat /\ bases \subseteq 1 .. i - 1
      BY <1>5
    <3> HIDE DEF bases
    <3> QED  BY <3>1, GreatestIn
  <2>2. bases \subseteq DOMAIN list
    BY <1>5
  <2> HIDE DEF bases
  <2> QED  BY <2>1, <2>2, <1>1
<1>8. list[i].kind = "offset_pair" => stdBase = base
  <2>1. CASE bases # {}
    BY <2>1, <1>6
  <2>2. CASE bases = {}
    <3>1. ~\E j \in 1 .. i - 1 : list[j].kind = "base_address"
      BY <2>2
    <3>2. list[i].kind = "offset_pair" => first = 0
      BY <3>1, <1>2
    <3>3. all = {}
      BY <2>2, <1>6
    <3> HIDE DEF bases, all, first
    <3> QED  BY <2>2, <3>2, <3>3
  <2> QED  BY <2>1, <2>2
<1>9. list[i].low \in Nat /\ list[i].high \in Nat /\ list[i].kind \in plain
  BY <1>1, <1>2 DEF list
<1> HIDE DEF base, stdBase
<1>10. CASE list[i].kind = "offset_pair"
  BY <1>3, <1>4, <1>7, <1>8, <1>9, <1>10 DEF list
<1>11. CASE list[i].kind \in {"base_address", "start_end", "start_length"}
  BY <1>3, <1>4, <1>9, <1>11 DEF list
<1> QED  BY <1>9, <1>10, <1>11

\* Where an entry's addresses are in forms that are read, IsInRange takes them
\* all, and of others only the one it ends at.
LEMMA RangeRead ==
  ASSUME info \in Infos, Standard(info), AddressesNumeric(info),
         NEW how \in {"unit", "parse"}, NEW d, OnEntry(d), ReadAs(how, d), NEW a \in Nat,
         Plain(d.unit, d.entry)
  PROVE  /\ Covered(d.unit, d.entry, a) => IsInRange(d, a)
         /\ IsInRange(d, a) => Covered(d.unit, d.entry, a) \/ EndsAt(d.unit, d.entry, a)
<1> DEFINE u == d.unit
           e == d.entry
<1>1. \A name \in {"low_pc", "high_pc", "ranges"} :
        /\ Has(d, name) <=> HasAttribute(u, e, name)
        /\ Has(d, name) =>
             /\ Get(d, name).class = GetDwarfClass(info.version, name, FormOf(u, e, name))
             /\ Get(d, name).class # "constant"
             /\ Get(d, name).v = Attribute(u, e, name)
             /\ Numeric(name, Attribute(u, e, name))
  BY AttributeRead
<1>2. CASE Has(d, "ranges")
  <2> DEFINE list == Attribute(u, e, "ranges")
  <2>1. HasAttribute(u, e, "ranges") /\ Numeric("ranges", list) /\ Get(d, "ranges").v = list
    BY <1>1, <1>2
  <2>2. \A i \in DOMAIN list :
          /\ Interval(list, i) = StdInterval(u, list, i)
          /\ Interval(list, i)[1] \in Nat /\ Interval(list, i)[2] \in Nat
    BY <2>1, IntervalsSame
  <2>3. Intervals(u, e) = {StdInterval(u, list, i) : i \in DOMAIN list}
    BY <2>1 DEF Intervals
  <2>4. IsInRange(d, a) <=>
          \E i \in DOMAIN list : Interval(list, i)[1] <= a /\ a <= Interval(list, i)[2]
    BY <1>2, <2>1 DEF IsInRange, IsInRangeRnglist
  <2> HIDE DEF list, u, e
  <2>5. ASSUME Covered(u, e, a) PROVE IsInRange(d, a)
    <3>1. PICK i \in DOMAIN list : /\ StdInterval(u, list, i)[1] <= a
                                   /\ a < StdInterval(u, list, i)[2]
      BY <2>3, <2>5 DEF Covered
    <3> QED  BY <2>2, <2>4, <3>1
  <2>6. ASSUME IsInRange(d, a) PROVE Covered(u, e, a) \/ EndsAt(u, e, a)
    <3>1. PICK i \in DOMAIN list : Interval(list, i)[1] <= a /\ a <= Interval(list, i)[2]
      BY <2>4, <2>6
    <3>2. a < Interval(list, i)[2] \/ a = Interval(list, i)[2]
      BY <2>2, <3>1
    <3> QED  BY <2>2, <2>3, <3>1, <3>2 DEF Covered, EndsAt
  <2> QED  BY <2>5, <2>6 DEF u, e
<1>3. CASE ~Has(d, "ranges") /\ Has(d, "low_pc")
  <2> DEFINE low == Attribute(u, e, "low_pc")
             high == Attribute(u, e, "high_pc")
             form == FormOf(u, e, "high_pc")
             end == IF ~HasAttribute(u, e, "high_pc") THEN low + 1
                    ELSE IF form = "addr" THEN high ELSE low + high
  <2>1. Get(d, "low_pc").v = low /\ low \in Nat
    BY <1>1, <1>3 DEF Numeric
  <2>2. Intervals(u, e) = {<<low, end>>}
    <3>1. ~HasAttribute(u, e, "ranges") /\ HasAttribute(u, e, "low_pc")
      BY <1>1, <1>3
    <3> QED  BY <3>1 DEF Intervals
  <2>3. CASE ~Has(d, "high_pc")
    <3>1. end = low + 1
      BY <1>1, <2>3
    <3>2. IsInRange(d, a) <=> low <= a /\ a <= low
      BY <1>3, <2>1, <2>3 DEF IsInRange
    <3> HIDE DEF low, end, u, e
    <3>3. (low <= a /\ a < end) <=> (low <= a /\ a <= low)
      BY <2>1, <3>1
    <3>4. Covered(u, e, a) <=> low <= a /\ a < end
      BY <2>2 DEF Covered
    <3> QED  BY <3>2, <3>3, <3>4 DEF u, e
  <2>4. CASE Has(d, "high_pc")
    <3>1. /\ HasAttribute(u, e, "high_pc") /\ Get(d, "high_pc").v = high /\ high \in Nat
          /\ Get(d, "high_pc").class = GetDwarfClass(info.version, "high_pc", form)
          /\ Get(d, "high_pc").class # "constant"
      BY <1>1, <2>4 DEF Numeric
    <3>2. form \in {"addr", "udata", "data1", "data2", "data4", "data8"}
      BY <3>1 DEF Plain
    <3>3. Get(d, "high_pc").class = IF form = "addr" THEN "address" ELSE "uconstant"
      <4> HIDE DEF form
      <4>1. CASE form \in {"addr", "udata"}
        BY <3>1, <4>1 DEF GetDwarfClass
      <4>2. CASE form \in {"data1", "data2", "data4", "data8"}
        BY <3>1, <4>2 DEF GetDwarfClass, Data, Constant, Pointers, Unsigned
      <4> QED  BY <3>2, <4>1, <4>2
    <3>4. GetDIEHighPC(d) = end
      BY <2>1, <3>1, <3>3 DEF GetDIEHighPC
    <3>5. IsInRange(d, a) <=> low <= a /\ a <= end
      BY <1>3, <2>1, <2>4, <3>4 DEF IsInRange
    <3>6. end \in Nat
      BY <2>1, <3>1
    <3> HIDE DEF low, end, u, e
    <3>7. Covered(u, e, a) <=> low <= a /\ a < end
      BY <2>2 DEF Covered
    <3>8. EndsAt(u, e, a) <=> end = a
      BY <2>2 DEF EndsAt
    <3> QED  BY <3>5, <3>6, <3>7, <3>8 DEF u, e
  <2> QED  BY <2>3, <2>4
<1>4. CASE ~Has(d, "ranges") /\ ~Has(d, "low_pc")
  <2>1. ~IsInRange(d, a)
    BY <1>4 DEF IsInRange
  <2>2. Intervals(u, e) = {}
    BY <1>1, <1>4 DEF Intervals
  <2> QED  BY <2>1, <2>2 DEF Covered
<1> QED  BY <1>2, <1>3, <1>4

-----------------------------------------------------------------------------
(* What a search for an address finds                                      *)

\* A function that has the address, as far as its ranges are in forms that
\* are read.
Finds(u, e, a) == Covered(u, 1, a) /\ Covered(u, e, a) /\ Plain(u, 1) /\ Plain(u, e)

\* No such function is before f.
Misses(f, a) ==
  \A u \in DOMAIN info.units : \A e \in Tagged(u, {"subprogram"}) :
    Before(<<u, e>>, f) => ~Finds(u, e, a)

\* What a search for an address has passed over, and what it has found.
SearchInv ==
  /\ job.kind = "address" => job.arg \in Nat
  /\ job.kind = "address" /\ job.at # "idle" => answer = <<>>
  /\ job.at = "idle" => status = "running"

MissedInv ==
  Searching /\ InTree /\ job.kind = "address" /\ answer = <<>> =>
    /\ \E f, a : f = Frontier /\ a = job.arg /\ Misses(f, a)
    /\ job.at = "idle" => job.unit > Len(cus)

FoundInv ==
  Answered("address") /\ answer # <<>> =>
    \E u, e, a : /\ answer = <<u, e>> /\ a = job.arg
                 /\ Covered(u, e, a) \/ EndsAt(u, e, a) \/ ~Plain(u, e)

AddressInv == SearchInv /\ MissedInv /\ FoundInv

AllNumeric == \A i \in Infos : AddressesNumeric(i)

LEMMA SameRanges ==
  ASSUME info' = info
  PROVE  \A u, e, a : /\ Covered(u, e, a)' <=> Covered(u, e, a)
                      /\ EndsAt(u, e, a)' <=> EndsAt(u, e, a)
                      /\ Plain(u, e)' <=> Plain(u, e)
                      /\ Misses(u, a)' <=> Misses(u, a)
<1>1. \A u, e, name : /\ NameOf(u, e, name)' = NameOf(u, e, name)
                      /\ HasAttribute(u, e, name)' <=> HasAttribute(u, e, name)
                      /\ Attribute(u, e, name)' = Attribute(u, e, name)
                      /\ FormOf(u, e, name)' = FormOf(u, e, name)
  BY DEF NameOf, HasAttribute, Attribute, FormOf, Entries, AbbrevOf
<1>2. \A u, list, i : StdInterval(u, list, i)' = StdInterval(u, list, i)
  BY <1>1 DEF StdInterval
<1>3. \A u, e : Intervals(u, e)' = Intervals(u, e)
  BY <1>1, <1>2 DEF Intervals
<1>4. \A u, e, a : (Covered(u, e, a)' <=> Covered(u, e, a)) /\ (EndsAt(u, e, a)' <=> EndsAt(u, e, a))
  BY <1>3 DEF Covered, EndsAt
<1>5. \A u, e : Plain(u, e)' <=> Plain(u, e)
  BY <1>1 DEF Plain
<1>6. \A u, e, a : Finds(u, e, a)' <=> Finds(u, e, a)
  BY <1>4, <1>5 DEF Finds
<1>7. \A f, a : Misses(f, a)' <=> Misses(f, a)
  BY <1>6, SamePlaces DEF Misses, Before
<1> QED  BY <1>4, <1>5, <1>7

\* A search is passed on to g.
LEMMA MissedOn ==
  ASSUME UNCHANGED <<info, answer>>, job'.kind = job.kind, job'.arg = job.arg,
         status = "running", NEW g, Frontier' = g,
         InTree /\ job.kind = "address" => Misses(g, job.arg),
         job'.at = "idle" => job'.unit > Len(cus')
  PROVE  MissedInv'
<1> SUFFICES ASSUME InTree', job'.kind = "address"
             PROVE  \E f, a : f = Frontier' /\ a = job'.arg /\ Misses(f, a)'
  BY DEF MissedInv
<1>1. PICK a : a = job.arg
  OBVIOUS
<1>2. Misses(g, a)
  BY <1>1, SamePlaces
<1>3. Misses(g, a)'
  BY <1>2, SameRanges
<1> QED  BY <1>1, <1>3

LEMMA MissedElse ==
  ASSUME job'.kind # "address" \/ status' # "running" \/ answer' # <<>>
  PROVE  MissedInv'
BY DEF MissedInv, Searching

\* No unit's own DIE is a function.
LEMMA NoRoot ==
  ASSUME IInv, PlaceInv, job.at \notin {"start", "units"},
         NEW u \in DOMAIN info.units, NEW e \in Tagged(u, {"subprogram"})
  PROVE  e \in Real(u) /\ e # 1 /\ u \in Nat \ {0} /\ e \in Nat \ {0} /\ u \in 1 .. Len(cus)
<1>1. e \in Real(u) /\ AbbrevOf(u, Entries(u)[e].code).tag = "subprogram"
  BY DEF Tagged
<1>2. u \in 1 .. Len(cus)
  BY DieWalkAssumption DEF IInv, PlaceInv, ReadyInv, IsSequence
<1>3. AbbrevOf(u, Entries(u)[1].code).tag = "compile_unit"
  BY <1>2 DEF IInv, UnitsRead, RootOK
<1> QED  BY <1>1, <1>2, <1>3, PlaceType DEF IInv

\* The cursor has moved to m from entry e of unit u.
LEMMA MissedArrives ==
  ASSUME IInv, PlaceInv, job.at \notin {"start", "units"}, UNCHANGED <<info, answer>>,
         status = "running", NEW u \in DOMAIN info.units, NEW e \in Nat,
         NEW m, Arrives(m, seen), job'.at = "die", job'.unit = u, job'.kind = job.kind,
         job'.arg = job.arg, NEW f,
         InTree /\ job.kind = "address" => MovesTo(m, u, e) /\ Misses(f, job.arg),
         \A v, x \in Nat \ {0} :
           x # 1 /\ Before(<<v, x>>, <<u, e + 1>>) => Before(<<v, x>>, f)
  PROVE  MissedInv'
<1> DEFINE g == IF m.depth = 0 THEN <<u + 1, 0>> ELSE <<u, m.entry>>
<1>1. die' = m /\ status' = IF Outside(m) THEN "lost" ELSE status
  BY DEF Arrives
<1>2. CASE Outside(m)
  BY <1>1, <1>2, MissedElse
<1>3. CASE ~Outside(m)
  <2>1. Frontier' = g
    BY <1>1 DEF Frontier
  <2>2. ASSUME InTree, job.kind = "address" PROVE Misses(g, job.arg)
    <3> SUFFICES ASSUME NEW v \in DOMAIN info.units, NEW x \in Tagged(v, {"subprogram"}),
                        Before(<<v, x>>, g)
                 PROVE  ~Finds(v, x, job.arg)
      BY DEF Misses
    <3>1. x \in Real(v) /\ x # 1 /\ v \in Nat \ {0} /\ x \in Nat \ {0}
      BY NoRoot
    <3>2. Before(<<v, x>>, <<u, e + 1>>)
      BY <1>3, <2>2, <3>1, PassesNothing DEF IInv
    <3>3. Before(<<v, x>>, f)
      BY <3>1, <3>2
    <3> QED  BY <2>2, <3>3 DEF Misses
  <2> HIDE DEF g
  <2> QED  BY <2>1, <2>2, MissedOn
<1> QED  BY <1>2, <1>3

\* An entry that is behind the walk now.
LEMMA MissedOne ==
  ASSUME NEW u \in Nat, NEW e \in Nat, info \in Infos, NEW a,
         Misses(<<u, e>>, a),
         u \in DOMAIN info.units /\ e \in Tagged(u, {"subprogram"}) => ~Finds(u, e, a)
  PROVE  Misses(<<u, e + 1>>, a)
<1> SUFFICES ASSUME NEW v \in DOMAIN info.units, NEW x \in Tagged(v, {"subprogram"}),
                    Before(<<v, x>>, <<u, e + 1>>)
             PROVE  ~Finds(v, x, a)
  BY DEF Misses
<1>1. v \in Nat /\ x \in Nat
  BY PlaceType DEF Tagged
<1>2. Before(<<v, x>>, <<u, e>>) \/ (v = u /\ x = e)
  BY <1>1 DEF Before
<1> QED  BY <1>2 DEF Misses

\* A search judges a function by its addresses.
LEMMA MissedJudge ==
  ASSUME AllStandard, AllNumeric, IInv, PlaceInv, AddressInv,
         job.at # "start", job.kind = "address",
         NEW how \in {"unit", "parse"}, NEW d, OnEntry(d), ReadAs(how, d)
  PROVE  /\ ~IsInRange(d, job.arg) => ~(Covered(d.unit, d.entry, job.arg) /\ Plain(d.unit, d.entry))
         /\ IsInRange(d, job.arg) => \/ Covered(d.unit, d.entry, job.arg)
                                     \/ EndsAt(d.unit, d.entry, job.arg)
                                     \/ ~Plain(d.unit, d.entry)
<1>1. /\ info \in Infos /\ Standard(info) /\ AddressesNumeric(info)
      /\ job.arg \in Nat
  BY DEF IInv, PlaceInv, ReadyInv, AllStandard, AllNumeric, AddressInv, SearchInv
<1> QED  BY <1>1, RangeRead

LEMMA MissedKept ==
  ASSUME AllStandard, AllNumeric, IInv, PlaceInv, AddressInv,
         job.kind = "address", status = "running",
         \/ EnterUnit \/ PassUnit \/ LeaveUnit \/ NotFound \/ Skip \/ Parse \/ StepDIE
         \/ PrintedDIE \/ JudgeName \/ JudgeAddress \/ JudgeLocals \/ PrintLocal \/ LocalsDone
  PROVE  MissedInv'
<1> USE DEF IInv
<1>1. /\ info \in Infos /\ info' = info /\ Searching /\ job.at # "idle" /\ answer = <<>>
      /\ job.at \notin {"start", "units"}
      /\ InTree => Misses(Frontier, job.arg)
  <2>1. job.at \notin {"idle", "start", "units"} /\ info' = info
    BY DEF EnterUnit, PassUnit, LeaveUnit, NotFound, Skip, Parse, StepDIE,
           PrintedDIE, JudgeName, JudgeAddress, JudgeLocals, PrintLocal, LocalsDone, Ends, Arrives,
           Running
  <2> QED  BY <2>1 DEF AddressInv, SearchInv, MissedInv, Searching
<1>2. CASE EnterUnit
  <2> DEFINE u == job.unit
             m == InitializeDIE(die, 2, u)
  <2>1. job.at = "unit" /\ u <= Len(cus) /\ Arrives(m, seen) /\ Goes("die") /\ answer' = answer
    BY <1>2 DEF EnterUnit, Running
  <2>2. job'.unit = u /\ job'.at = "die" /\ job'.kind = job.kind /\ job'.arg = job.arg
    BY <2>1, GoesIs
  <2>3. RootOK(u) /\ u \in DOMAIN info.units /\ u \in Nat
    BY <2>1 DEF UnitsRead, JobShape, RootOK
  <2>4. InTree => MovesTo(m, u, 1)
    BY <1>1, <2>3, EnterReaches
  <2>5. InTree => Misses(<<u, 0>>, job.arg)
    BY <1>1, <2>1 DEF Frontier
  <2> HIDE DEF m, u
  <2>6. \A v, x \in Nat \ {0} :
          x # 1 /\ Before(<<v, x>>, <<u, 1 + 1>>) => Before(<<v, x>>, <<u, 0>>)
    BY <2>3 DEF Before
  <2>7. PICK f : f = <<u, 0>>
    OBVIOUS
  <2>8. InTree => Misses(f, job.arg)
    BY <2>5, <2>7
  <2>9. \A v, x \in Nat \ {0} : x # 1 /\ Before(<<v, x>>, <<u, 1 + 1>>) => Before(<<v, x>>, f)
    BY <2>6, <2>7
  <2> QED  BY <1>1, <2>1, <2>2, <2>3, <2>4, <2>8, <2>9, MissedArrives
<1>3. CASE PassUnit
  <2> DEFINE u == job.unit
             c == cus[u]
  <2>1. /\ job.at = "unit" /\ u \in 1 .. Len(cus) /\ ~IsInRange(c, job.arg)
        /\ job' = [job EXCEPT !.unit = @ + 1] /\ UNCHANGED <<answer, cus>>
    BY <1>3 DEF PassUnit, Running, Concerns, JobShape
  <2>2. job'.unit = u + 1 /\ job'.at = "unit" /\ job'.kind = job.kind /\ job'.arg = job.arg
    BY <2>1 DEF JobShape
  <2>3. c.unit = u /\ c.entry = 1 /\ OnEntry(c) /\ ReadAs("unit", c)
    BY <2>1 DEF PlaceInv, RootsInv
  <2> HIDE DEF c
  <2>4. ~(Covered(u, 1, job.arg) /\ Plain(u, 1))
    BY <1>1, <2>1, <2>3, MissedJudge
  <2>5. InTree => Misses(<<u, 0>>, job.arg)
    BY <1>1, <2>1 DEF Frontier
  <2>6. ASSUME InTree PROVE Misses(<<u + 1, 0>>, job.arg)
    <3> SUFFICES ASSUME NEW v \in DOMAIN info.units, NEW x \in Tagged(v, {"subprogram"}),
                        Before(<<v, x>>, <<u + 1, 0>>)
                 PROVE  ~Finds(v, x, job.arg)
      BY DEF Misses
    <3>1. v \in Nat /\ x \in Nat /\ u \in Nat
      BY <1>1, <2>1, NoRoot
    <3>2. v = u \/ Before(<<v, x>>, <<u, 0>>)
      BY <3>1 DEF Before
    <3> QED  BY <2>4, <2>5, <2>6, <3>2 DEF Misses, Finds
  <2>7. Frontier' = <<u + 1, 0>>
    BY <2>2 DEF Frontier
  <2> HIDE DEF u
  <2> QED  BY <1>1, <2>1, <2>2, <2>6, <2>7, MissedOn
<1>4. CASE LeaveUnit \/ NotFound
  <2>1. /\ UNCHANGED <<answer, cus>>
        /\ \/ job.at = "die" /\ die.depth = 0 /\ job' = [job EXCEPT !.unit = @ + 1, !.at = "unit"]
           \/ job.at = "unit" /\ job.unit > Len(cus) /\ Goes("idle")
    BY <1>1, <1>4 DEF LeaveUnit, NotFound, Running, Finished
  <2>2. /\ job'.kind = job.kind /\ job'.arg = job.arg
        /\ \/ Frontier = <<job.unit + 1, 0>> /\ job'.at = "unit" /\ job'.unit = job.unit + 1
           \/ /\ Frontier = <<job.unit, 0>> /\ job'.at = "idle" /\ job'.unit = job.unit
              /\ job.unit > Len(cus)
    BY <2>1 DEF Frontier, Goes, JobShape
  <2>3. Frontier' = Frontier
    BY <2>2 DEF Frontier
  <2> QED  BY <1>1, <2>1, <2>2, <2>3, MissedOn
<1>5. CASE Parse
  <2>1. CASE Ends(After("parse", die)) /\ After("parse", die) # "running"
    BY <2>1, MissedElse DEF Ends
  <2>2. CASE After("parse", die) = "running" /\ die' = ParseDIE(die) /\ Goes("parsed")
    <3>1. AtDIE /\ job.at = "die" /\ die.depth # 0 /\ answer' = answer
      BY <1>5, <2>2 DEF Parse, Running, AtDIE, Ends
    <3>2. OnEntry(die) /\ die.cursorAbbrev = 1 /\ DIEShape(die)
      BY <1>1, <3>1 DEF PlaceInv, CursorInv
    <3>3. ParseDIE(die).entry = die.entry
      BY <1>1, <3>2, ParsedIs
    <3>4. job'.at = "parsed" /\ job'.unit = job.unit /\ job'.kind = job.kind /\ job'.arg = job.arg
      BY <2>2, GoesIs
    <3>5. Frontier' = Frontier
      BY <2>2, <3>1, <3>3, <3>4 DEF Frontier
    <3> QED  BY <1>1, <3>1, <3>4, <3>5, MissedOn
  <2> QED  BY <1>5, <2>1, <2>2 DEF Parse
<1>6. CASE Skip \/ JudgeAddress
  <2>1. CASE answer' # <<>>
    BY <2>1, MissedElse
  <2>2. CASE answer' = <<>>
    <3>1. AtDIE /\ job.at \in {"die", "parsed"} /\ UNCHANGED <<die, cus, answer>> /\ Goes("next")
      BY <1>1, <1>6, <2>2 DEF Skip, JudgeAddress, Running, AtDIE
    <3>2. /\ job'.at = "next" /\ job'.unit = job.unit /\ job'.kind = job.kind
          /\ job'.arg = job.arg
      BY <3>1, GoesIs
    <3>3. OnEntry(die) /\ die.unit = job.unit
      BY <1>1, <3>1 DEF PlaceInv, CursorInv
    <3>4. job.unit \in Nat /\ die.entry \in Nat
      BY <1>1, <3>3, PlaceType DEF OnEntry
    <3>5. Frontier = <<job.unit, die.entry>> /\ Frontier' = <<job.unit, die.entry + 1>>
      BY <1>6, <3>1, <3>2 DEF Frontier, AtDIE
    <3>6. \/ die.entry \notin Tagged(die.unit, {"subprogram"})
          \/ ~Finds(die.unit, die.entry, job.arg)
      <4>1. CASE Skip
        <5>1. Abbrev(die).tag # "subprogram"
          BY <4>1 DEF Skip, Wanted
        <5> QED  BY <3>3, <5>1 DEF Tagged, Abbrev, OnEntry
      <4>2. CASE JudgeAddress
        <5>1. job.at = "parsed" /\ ~IsInRange(die, job.arg)
          BY <4>2, <2>2 DEF JudgeAddress, Running
        <5>2. ReadAs("parse", die)
          BY <1>1, <5>1 DEF PlaceInv, CursorInv
        <5>3. ~(Covered(die.unit, die.entry, job.arg) /\ Plain(die.unit, die.entry))
          BY <3>3, <5>1, <5>2, MissedJudge
        <5> QED  BY <5>3 DEF Finds
      <4> QED  BY <1>6, <4>1, <4>2
    <3>7. InTree => Misses(<<job.unit, die.entry + 1>>, job.arg)
      <4>1. InTree => Misses(<<job.unit, die.entry>>, job.arg)
        BY <1>1, <3>5
      <4> QED  BY <1>1, <3>3, <3>4, <3>6, <4>1, MissedOne
    <3> QED  BY <1>1, <3>1, <3>2, <3>5, <3>7, MissedOn
  <2> QED  BY <2>1, <2>2
<1>7. CASE StepDIE
  <2> DEFINE m == NextDIE(die)
             u == job.unit
  <2>1. CASE Ends(After("skip", die)) /\ After("skip", die) # "running"
    BY <2>1, MissedElse DEF Ends
  <2>2. CASE Arrives(m, seen) /\ Goes("die")
    <3>1. job'.unit = u /\ job'.at = "die" /\ job'.kind = job.kind /\ job'.arg = job.arg
      BY <2>2, GoesIs
    <3>2. job.at = "next" /\ AtDIE /\ answer' = answer
      BY <1>7 DEF StepDIE, Running, AtDIE, Ends
    <3>3. OnEntry(die) /\ die.unit = u /\ (InTree => AtEntry(die)) /\ u \in DOMAIN info.units
      BY <1>1, <3>2 DEF PlaceInv, CursorInv, TreeInv, OnEntry
    <3>4. die.entry \in Nat
      BY <1>1, <3>3, PlaceType DEF OnEntry
    <3>5. InTree => MovesTo(m, u, die.entry)
      BY <1>1, <3>3, StepReaches
    <3>6. PICK f : f = <<u, die.entry + 1>>
      OBVIOUS
    <3>7. InTree => Misses(f, job.arg)
      BY <1>1, <3>2, <3>6 DEF Frontier
    <3>8. \A v, x \in Nat \ {0} :
            x # 1 /\ Before(<<v, x>>, <<u, die.entry + 1>>) => Before(<<v, x>>, f)
      BY <3>6
    <3> HIDE DEF m, u
    <3> QED  BY <1>1, <2>2, <3>1, <3>2, <3>3, <3>4, <3>5, <3>7, <3>8, MissedArrives
  <2> QED  BY <1>7, <2>1, <2>2 DEF StepDIE
<1>8. CASE PrintedDIE \/ JudgeName \/ JudgeLocals \/ PrintLocal \/ LocalsDone
  BY <1>8 DEF PrintedDIE, JudgeName, JudgeLocals, PrintLocal, LocalsDone
<1> QED  BY <1>2, <1>3, <1>4, <1>5, <1>6, <1>7, <1>8

\* What is found is where the cursor is.
LEMMA FoundOn ==
  ASSUME info' = info, NEW u, NEW e, answer' = <<u, e>>,
         \/ Covered(u, e, job'.arg) \/ EndsAt(u, e, job'.arg) \/ ~Plain(u, e)
  PROVE  FoundInv'
<1>1. PICK a : a = job'.arg
  OBVIOUS
<1>2. (Covered(u, e, a) \/ EndsAt(u, e, a) \/ ~Plain(u, e))'
  BY <1>1, SameRanges
<1> QED  BY <1>1, <1>2 DEF FoundInv

LEMMA FoundElse ==
  ASSUME job'.kind # "address" \/ job'.at # "idle" \/ answer' = <<>>
  PROVE  FoundInv'
BY DEF FoundInv, Answered

LEMMA FoundJudged ==
  ASSUME AllStandard, AllNumeric, IInv, PlaceInv, AddressInv, JudgeAddress
  PROVE  FoundInv' /\ SearchInv'
<1>1. /\ job.at = "parsed" /\ job.kind = "address" /\ status = "running"
      /\ UNCHANGED <<info, status>>
      /\ \/ IsInRange(die, job.arg) /\ answer' = <<die.unit, die.entry>> /\ Goes("idle")
         \/ answer' = answer /\ Goes("next")
  BY DEF JudgeAddress, Running, Finished
<1>2. answer = <<>> /\ job.arg \in Nat /\ job'.kind = job.kind /\ job'.arg = job.arg
  BY <1>1, GoesIs DEF AddressInv, SearchInv, IInv
<1>3. CASE IsInRange(die, job.arg) /\ answer' = <<die.unit, die.entry>> /\ Goes("idle")
  <2>1. job'.at = "idle"
    BY <1>3, GoesIs DEF IInv
  <2>2. OnEntry(die) /\ ReadAs("parse", die)
    BY <1>1 DEF PlaceInv, CursorInv, Searching, AtDIE
  <2>3. \/ Covered(die.unit, die.entry, job.arg)
        \/ EndsAt(die.unit, die.entry, job.arg)
        \/ ~Plain(die.unit, die.entry)
    BY <1>1, <1>3, <2>2, MissedJudge
  <2>4. FoundInv'
    BY <1>1, <1>2, <1>3, <2>3, FoundOn
  <2> QED  BY <1>1, <1>2, <2>1, <2>4 DEF SearchInv
<1>4. CASE answer' = answer /\ Goes("next")
  <2>1. job'.at = "next"
    BY <1>4, GoesIs DEF IInv
  <2> QED  BY <1>1, <1>2, <1>4, <2>1, FoundElse DEF SearchInv
<1> QED  BY <1>1, <1>3, <1>4

\* No other step answers a search.
LEMMA SearchKept ==
  ASSUME IInv, AddressInv,
         \/ GetCompileUnitCount \/ InitializeCompileUnit \/ UnitsReady
         \/ EnterUnit \/ PassUnit \/ LeaveUnit \/ NotFound \/ Skip \/ Parse \/ StepDIE
         \/ PrintedDIE \/ JudgeName \/ JudgeLocals \/ PrintLocal \/ LocalsDone
  PROVE  FoundInv' /\ SearchInv'
<1> USE DEF IInv
<1>1. /\ status = "running" /\ job.at # "idle"
      /\ job.kind = "address" => answer = <<>> /\ job.arg \in Nat
  BY DEF GetCompileUnitCount, InitializeCompileUnit, UnitsReady, EnterUnit, PassUnit, LeaveUnit,
         NotFound, Skip, Parse, StepDIE, PrintedDIE, JudgeName, JudgeLocals, PrintLocal,
         LocalsDone, Running, AddressInv, SearchInv
<1>2. CASE GetCompileUnitCount \/ InitializeCompileUnit \/ UnitsReady
  <2>1. job.kind = "none" /\ job.at \in {"start", "units"}
    BY <1>2 DEF GetCompileUnitCount, InitializeCompileUnit, UnitsReady, Running, JobShape
  <2>2. job'.kind = "none" /\ (job'.at = "idle" => status' = status)
    BY <1>2, <2>1 DEF GetCompileUnitCount, InitializeCompileUnit, UnitsReady, Ends, Goes, JobShape
  <2> QED  BY <1>1, <2>2, FoundElse DEF SearchInv
<1>3. CASE \/ EnterUnit \/ PassUnit \/ LeaveUnit \/ NotFound \/ Skip \/ Parse \/ StepDIE
           \/ PrintedDIE \/ JudgeName \/ JudgeLocals \/ PrintLocal \/ LocalsDone
  <2>1. job'.kind = "address" => job.kind = "address"
    BY <1>3 DEF EnterUnit, PassUnit, LeaveUnit, NotFound, Skip, Parse, StepDIE, PrintedDIE,
       JudgeName, JudgeLocals, PrintLocal, LocalsDone, Ends, Finished, Goes, JobShape
  <2>2. job.kind = "address" => answer' = answer /\ job'.arg = job.arg
    BY <1>3 DEF EnterUnit, PassUnit, LeaveUnit, NotFound, Skip, Parse, StepDIE, PrintedDIE,
       JudgeName, JudgeLocals, PrintLocal, LocalsDone, Ends, Finished, Goes, JobShape
  <2>3. job'.at = "idle" => status' = "running"
    <3>1. CASE EnterUnit \/ PassUnit \/ LeaveUnit \/ Skip \/ Parse \/ StepDIE \/ PrintedDIE
               \/ JudgeLocals \/ PrintLocal
      <4>1. job'.at # "idle"
        BY <1>1, <3>1 DEF EnterUnit, PassUnit, LeaveUnit, Skip, Parse, StepDIE, PrintedDIE,
           JudgeLocals, PrintLocal, Ends, Goes, JobShape
      <4> QED  BY <4>1
    <3>2. CASE NotFound \/ JudgeName \/ LocalsDone
      <4>1. status' = status \/ job' = job
        BY <3>2 DEF NotFound, JudgeName, LocalsDone, Ends
      <4> QED  BY <1>1, <4>1
    <3> QED  BY <1>3, <3>1, <3>2
  <2> QED  BY <1>1, <2>1, <2>2, <2>3, FoundElse DEF SearchInv
<1> QED  BY <1>2, <1>3

LEMMA AddressAsk ==
  ASSUME AllNumeric, IInv, PlaceInv, NEW q \in info.queries, Ask(q)
  PROVE  AddressInv'
<1>1. /\ job'.kind = q[1] /\ job'.arg = q[2] /\ job'.unit = 1 /\ job'.at = "unit"
      /\ answer' = <<>> /\ info' = info /\ info \in Infos
  BY DEF Ask, IInv
<1>2. SearchInv'
  BY <1>1 DEF SearchInv, AllNumeric, AddressesNumeric
<1>3. Frontier' = <<1, 0>>
  BY <1>1 DEF Frontier
<1>4. PICK f, a : f = <<1, 0>> /\ a = job'.arg
  OBVIOUS
<1>5. Misses(f, a)
  <2> SUFFICES ASSUME NEW v \in DOMAIN info.units, NEW x \in Tagged(v, {"subprogram"}),
                      Before(<<v, x>>, <<1, 0>>)
               PROVE  FALSE
    BY <1>4 DEF Misses
  <2>1. v \in Nat \ {0} /\ x \in Nat
    BY <1>1, PlaceType DEF Tagged
  <2> QED  BY <2>1 DEF Before
<1>6. Misses(f, a)'
  BY <1>1, <1>5, SameRanges
<1>7. MissedInv'
  BY <1>1, <1>3, <1>4, <1>6 DEF MissedInv
<1> QED  BY <1>1, <1>2, <1>7, FoundElse DEF AddressInv

LEMMA AddressSame ==
  ASSUME AddressInv, UNCHANGED vars
  PROVE  AddressInv'
<1>1. UNCHANGED <<info, cus, die, job, status, answer>>
  BY DEF vars
<1>2. Frontier' = Frontier /\ (Searching' <=> Searching) /\ (InTree' <=> InTree)
      /\ (Answered("address")' <=> Answered("address"))
  BY <1>1, SamePlaces DEF Frontier, Searching, Answered
<1>3. /\ \A f, a : Misses(f, a)' <=> Misses(f, a)
      /\ \A u, e, a : /\ Covered(u, e, a)' <=> Covered(u, e, a)
                      /\ EndsAt(u, e, a)' <=> EndsAt(u, e, a)
                      /\ Plain(u, e)' <=> Plain(u, e)
  BY <1>1, SameRanges
<1>4. SearchInv'
  BY <1>1 DEF AddressInv, SearchInv
<1>5. MissedInv'
  BY <1>1, <1>2, <1>3 DEF AddressInv, MissedInv
<1>6. FoundInv'
  BY <1>1, <1>2, <1>3 DEF AddressInv, FoundInv
<1> QED  BY <1>4, <1>5, <1>6 DEF AddressInv

LEMMA AddressStep ==
  ASSUME AllStandard, AllNumeric, IInv, PlaceInv, AddressInv, [Next]_vars
  PROVE  AddressInv'
<1>1. ASSUME Walk PROVE AddressInv'
  <2>1. FoundInv' /\ SearchInv'
    BY <1>1, FoundJudged, SearchKept DEF Walk
  <2>2. MissedInv'
    <3>1. CASE GetCompileUnitCount \/ InitializeCompileUnit \/ UnitsReady
      <4>1. job.kind = "none"
        BY <3>1 DEF GetCompileUnitCount, InitializeCompileUnit, UnitsReady, Running, IInv, JobShape
      <4>2. job'.kind = "none"
        BY <3>1, <4>1 DEF GetCompileUnitCount, InitializeCompileUnit, UnitsReady, Ends, Goes, IInv,
                          JobShape
      <4> QED  BY <4>2, MissedElse
    <3>2. CASE \/ EnterUnit \/ PassUnit \/ LeaveUnit \/ NotFound \/ Skip \/ Parse \/ StepDIE
               \/ PrintedDIE \/ JudgeName \/ JudgeAddress \/ JudgeLocals \/ PrintLocal
               \/ LocalsDone
      <4>1. CASE job.kind = "address"
        <5>1. status = "running"
          BY <3>2 DEF EnterUnit, PassUnit, LeaveUnit, NotFound, Skip, Parse, StepDIE, PrintedDIE,
             JudgeName, JudgeAddress, JudgeLocals, PrintLocal, LocalsDone, Running
        <5> QED  BY <3>2, <4>1, <5>1, MissedKept
      <4>2. CASE job.kind # "address"
        <5>1. job'.kind # "address"
          BY <3>2, <4>2 DEF EnterUnit, PassUnit, LeaveUnit, NotFound, Skip, Parse, StepDIE,
             PrintedDIE, JudgeName, JudgeAddress, JudgeLocals, PrintLocal, LocalsDone, Ends,
             Finished, Goes, IInv, JobShape
        <5> QED  BY <5>1, MissedElse
      <4> QED  BY <4>1, <4>2
    <3> QED  BY <1>1, <3>1, <3>2 DEF Walk
  <2> QED  BY <2>1, <2>2 DEF AddressInv
<1>2. ASSUME NEW q \in info.queries, Ask(q) PROVE AddressInv'
  BY <1>2, AddressAsk
<1> QED  BY <1>1, <1>2, AddressSame DEF Next

LEMMA AddressTrue ==
  ASSUME IInv, PlaceInv, AddressInv
  PROVE  AddressFound
<1> SUFFICES ASSUME Answered("address"), InTree PROVE AddressFound
  BY DEF AddressFound
<1>1. CASE answer # <<>>
  <2>1. PICK u, e, a : /\ answer = <<u, e>> /\ a = job.arg
                       /\ Covered(u, e, a) \/ EndsAt(u, e, a) \/ ~Plain(u, e)
    BY <1>1 DEF AddressInv, FoundInv
  <2>2. u = answer[1] /\ e = answer[2]
    BY <2>1
  <2> QED  BY <1>1, <2>1, <2>2 DEF AddressFound
<1>2. CASE answer = <<>>
  <2>1. job.at = "idle" /\ job.kind = "address" /\ status = "running"
    BY DEF Answered, AddressInv, SearchInv
  <2>2. Misses(<<job.unit, 0>>, job.arg) /\ job.unit > Len(cus)
    BY <1>2, <2>1 DEF AddressInv, MissedInv, Searching, Frontier
  <2>3. ASSUME NEW u \in DOMAIN info.units, NEW e \in Tagged(u, {"subprogram"})
        PROVE  ~Finds(u, e, job.arg)
    <3>1. u \in 1 .. Len(cus) /\ Len(cus) \in Nat /\ job.unit \in Nat
      BY <2>1, NoRoot DEF IInv, UnitsRead, JobShape
    <3>2. Before(<<u, e>>, <<job.unit, 0>>)
      BY <2>2, <3>1 DEF Before
    <3> QED  BY <2>2, <3>2 DEF Misses
  <2> QED  BY <1>2, <2>3 DEF AddressFound, Finds
<1> QED  BY <1>1, <1>2

\* A search for the function of an address finds one that contains it or ends
\* at it, and misses none whose addresses are in forms that are read, nor that
\* of a unit like that (GetFunctionByAddress, Dwarf.h:386-401, with IsInRange,
\* Dwarf.h:363-384).
THEOREM FindsAddress ==
  ASSUME AllStandard, AllNumeric
  PROVE  Spec => []AddressFound
<1>1. Init => IInv /\ PlaceInv /\ AddressInv
  <2>1. Init => AddressInv
    BY DEF Init, NoJob, AddressInv, SearchInv, MissedInv, FoundInv, Answered
  <2> QED  BY <2>1, InvInit, PlaceInductive
<1>2. IInv /\ PlaceInv /\ AddressInv /\ [Next]_vars => (IInv /\ PlaceInv /\ AddressInv)'
  BY InvNext, PlaceInductive, AddressStep
<1>3. IInv /\ PlaceInv /\ AddressInv => AddressFound
  BY AddressTrue
<1> QED  BY <1>1, <1>2, <1>3, PTL DEF Spec

-----------------------------------------------------------------------------
(* The locals of a function                                                *)

\* The entries that `locals' prints for function f.
Printable(f) == Tagged(f.unit, {"variable", "formal_parameter"}) \cap Below(f.unit, f.entry)

\* The cursor is at an entry below f, and knows how far.
BelowEntry(d, f) ==
  /\ OnEntry(d) /\ d.unit = f.unit /\ d.entry > f.entry
  /\ d.depth = TrueDepth(f.unit, d.entry) - TrueDepth(f.unit, f.entry)
  /\ d.prevHasChildren <=> Opens(f.unit, d.entry)
  /\ \A j \in f.entry + 1 .. d.entry : TrueDepth(f.unit, j) > TrueDepth(f.unit, f.entry)

\* The cursor has come to m from entry e: to the next one below f, or there is
\* none.
MovesBelow(m, f, e) ==
  /\ m.unit = f.unit /\ m.cursorAbbrev = 1
  /\ m.depth = 0 => \A x \in Below(f.unit, f.entry) : x <= e
  /\ m.depth # 0 /\ ~Outside(m) =>
       BelowEntry(m, f) /\ \A x \in Real(f.unit) : x < m.entry <=> x <= e

LEMMA UpdateBelow ==
  ASSUME info \in Infos, InTree, NEW f, OnEntry(f), Opens(f.unit, f.entry),
         NEW d, DIEShape(d), d.unit = f.unit, d.depth \in Nat,
         NEW e \in Real(f.unit), e >= f.entry,
         \A j \in f.entry + 1 .. e : TrueDepth(f.unit, j) > TrueDepth(f.unit, f.entry),
         \/ /\ d.depth = TrueDepth(f.unit, e) - TrueDepth(f.unit, f.entry)
            /\ d.prevHasChildren <=> Opens(f.unit, e)
         \/ /\ d.depth = TrueDepth(f.unit, e) - TrueDepth(f.unit, f.entry) + 1
            /\ ~d.prevHasChildren /\ Opens(f.unit, e)
  PROVE  MovesBelow(UpdateDIE(d, e + 1), f, e)
<1> DEFINE u == f.unit
           base == TrueDepth(u, f.entry)
           last == Len(Entries(u))
           n == Nulls(u, e + 1)
           m == UpdateDIE(d, e + 1)
           code == IF n > d.depth \/ e + 1 + n > last THEN 0 ELSE Entries(u)[e + 1 + n].code
<1>1. u \in DOMAIN info.units /\ f.entry \in Real(u) /\ f.entry \in Nat /\ base \in Int
  BY PlaceType, NullsAfter DEF OnEntry
<1>2. /\ last \in Nat /\ e \in 1 .. last
      /\ n \in 0 .. last - e
      /\ \A i \in e + 1 .. e + n : i \notin Real(u)
      /\ e + 1 + n <= last => e + 1 + n \in Real(u)
  BY <1>1, NullsAfter
<1>3. TrueDepth(u, e) \in Int /\ (Opens(u, e) => n = 0)
  BY <1>1, NullsAfter
<1>4. \A j \in 0 .. n :
        TrueDepth(u, e + 1 + j) = TrueDepth(u, e) + (IF Opens(u, e) THEN 1 ELSE 0) - j
  BY <1>1, NullsAfter
<1>5. /\ m.unit = u /\ m.cursorAbbrev = 1 /\ m.code = code
      /\ m.entry = IF n > d.depth THEN e + 1 + d.depth ELSE e + 1 + n
      /\ m.depth = IF n > d.depth THEN 0
                   ELSE IF n = 0 /\ d.prevHasChildren THEN d.depth + 1 ELSE d.depth - n
      /\ m.prevHasChildren = AbbrevOf(u, code).children
  BY UpdateFields
<1>6. \A x \in Real(u) : x \in Nat /\ (x <= e \/ x >= e + 1 + n)
  <2> TAKE x \in Real(u)
  <2>1. x \in Nat
    BY <1>1, PlaceType
  <2> HIDE DEF n, u
  <2> QED  BY <2>1, <1>2
<1> HIDE DEF m, n, last, u, base
<1>7. ASSUME m.depth = 0, NEW x \in Below(u, f.entry) PROVE x <= e
  <2>1. ~Opens(u, e) /\ d.depth = TrueDepth(u, e) - base /\ d.depth <= n
    <3>1. TrueDepth(u, e) >= base
      <4>1. e = f.entry \/ e \in f.entry + 1 .. e
        BY <1>1, <1>2
      <4> QED  BY <4>1, <1>1, <1>3 DEF u, base
    <3>2. ~Opens(u, e)
      BY <3>1, <1>1, <1>2, <1>3, <1>5, <1>7 DEF u, base
    <3> QED  BY <3>2, <1>2, <1>5, <1>7 DEF u, base
  <2>2. TrueDepth(u, e + 1 + d.depth) = base
    BY <2>1, <1>1, <1>2, <1>3, <1>4
  <2>3. x \in Real(u) /\ \A j \in f.entry + 1 .. x : TrueDepth(u, j) > base
    BY DEF Below, base
  <2>4. ~(e + 1 + d.depth <= x)
    <3> SUFFICES ASSUME e + 1 + d.depth <= x PROVE FALSE
      OBVIOUS
    <3>1. e + 1 + d.depth \in f.entry + 1 .. x
      BY <1>1, <1>2, <1>6, <2>3
    <3>2. TrueDepth(u, e + 1 + d.depth) > base
      BY <2>3, <3>1
    <3> QED  BY <2>2, <3>2, <1>1
  <2>5. x \in Nat /\ (x <= e \/ x >= e + 1 + n)
    BY <2>3, <1>6
  <2> QED  BY <2>1, <2>4, <2>5, <1>2
<1>8. ASSUME m.depth # 0, ~Outside(m)
      PROVE  BelowEntry(m, f) /\ \A x \in Real(u) : x < m.entry <=> x <= e
  <2>1. m.entry = e + 1 + n /\ n <= d.depth
    BY <1>2, <1>5, <1>8
  <2>2. m.entry <= last /\ m.entry \in Nat
    BY <2>1, <1>2, <1>5, <1>8 DEF Outside, last
  <2>3. m.entry \in Real(u) /\ code = Entries(u)[m.entry].code
    BY <2>1, <2>2, <1>2
  <2>4. m.depth = TrueDepth(u, m.entry) - base
    <3>1. TrueDepth(u, e + 1 + n) = TrueDepth(u, e) + (IF Opens(u, e) THEN 1 ELSE 0) - n
      BY <1>2, <1>4
    <3>2. m.depth = IF n = 0 /\ d.prevHasChildren THEN d.depth + 1 ELSE d.depth - n
      BY <1>2, <1>5, <2>1
    <3>3. CASE Opens(u, e)
      BY <3>1, <3>2, <3>3, <2>1, <1>1, <1>2, <1>3 DEF u, base
    <3>4. CASE ~Opens(u, e)
      BY <3>1, <3>2, <3>4, <2>1, <1>1, <1>2, <1>3 DEF u, base
    <3> QED  BY <3>3, <3>4
  <2>5. m.prevHasChildren <=> Opens(u, m.entry)
    BY <1>5, <2>3 DEF Opens
  <2>6. ASSUME NEW j \in f.entry + 1 .. m.entry PROVE TrueDepth(u, j) > base
    <3>1. CASE j <= e
      <4>1. j \in f.entry + 1 .. e
        BY <3>1, <1>1, <1>2, <2>2
      <4> QED  BY <4>1 DEF u, base
    <3>2. CASE j > e
      <4>1. j - (e + 1) \in 0 .. n /\ j = e + 1 + (j - (e + 1))
        BY <3>2, <1>1, <1>2, <2>1
      <4>2. TrueDepth(u, j) = TrueDepth(u, e) + (IF Opens(u, e) THEN 1 ELSE 0) - (j - (e + 1))
        BY <4>1, <1>4
      <4>3. TrueDepth(u, m.entry) = TrueDepth(u, e) + (IF Opens(u, e) THEN 1 ELSE 0) - n
        BY <1>2, <1>4, <2>1
      <4>4. m.depth > 0
        BY <1>2, <1>5, <1>8, <2>1
      <4> QED  BY <4>1, <4>2, <4>3, <4>4, <2>4, <1>1, <1>2, <1>3
    <3> QED  BY <3>1, <3>2, <1>1, <1>2
  <2>7. \A x \in Real(u) : x < m.entry <=> x <= e
    BY <2>1, <1>2, <1>6
  <2>8. m.entry > f.entry
    BY <2>1, <1>1, <1>2
  <2>9. OnEntry(m)
    BY <1>1, <1>5, <2>3 DEF OnEntry
  <2> QED  BY <1>5, <2>4, <2>5, <2>6, <2>7, <2>8, <2>9 DEF BelowEntry, u, base
<1> QED  BY <1>5, <1>7, <1>8 DEF MovesBelow, u, m

\* An entry below f is one that the cursor is at.
LEMMA BelowIs ==
  ASSUME info \in Infos, NEW d, NEW f, OnEntry(f), BelowEntry(d, f), Opens(f.unit, f.entry)
  PROVE  /\ d.entry \in Below(f.unit, f.entry)
         /\ d.entry \in Printable(f) <=> Abbrev(d).tag \in Locals
<1>1. d.entry \in Below(f.unit, f.entry)
  BY DEF Below, BelowEntry, OnEntry
<1>2. d.entry \in Printable(f) <=> Abbrev(d).tag \in Locals
  BY <1>1 DEF Printable, Tagged, Locals, Abbrev, BelowEntry, OnEntry
<1> QED  BY <1>1, <1>2

LEMMA PrintableType ==
  ASSUME info \in Infos, NEW f, OnEntry(f), NEW set, set \subseteq Printable(f)
  PROVE  /\ set \subseteq Nat /\ set \subseteq Real(f.unit) /\ IsFiniteSet(set)
         /\ Cardinality(set) \in Nat
<1>1. f.unit \in DOMAIN info.units /\ set \subseteq Real(f.unit)
  BY DEF OnEntry, Printable, Tagged
<1>2. Len(Entries(f.unit)) \in Int /\ set \subseteq 1 .. Len(Entries(f.unit))
  BY <1>1, UnitType DEF Real
<1>3. IsFiniteSet(set) /\ Cardinality(set) \in Nat
  BY <1>2, FiniteBefore
<1>4. set \subseteq Nat
  BY <1>2
<1> QED  BY <1>1, <1>3, <1>4

\* The name of one more entry, behind all others.
LEMMA ListsOne ==
  ASSUME NEW S, NEW names \in Seq(S), NEW u, NEW set, set \subseteq Nat, IsFiniteSet(set),
         Lists(names, u, set), NEW e \in Nat, \A x \in set : x < e
  PROVE  Lists(Append(names, Attribute(u, e, "name")), u, set \cup {e})
<1> DEFINE v == Attribute(u, e, "name")
           all == Append(names, v)
           more == set \cup {e}
           Upto(s, x) == {y \in s : y <= x}
<1>1. /\ Len(names) = Cardinality(set) /\ Cardinality(set) \in Nat
      /\ \A x \in set : names[Cardinality(Upto(set, x))] = Attribute(u, x, "name")
  BY FS_CardinalityType DEF Lists
<1>2. Cardinality(more) = Cardinality(set) + 1
  <2>1. e \notin set
    BY DEF Lists
  <2> QED  BY <2>1, FS_AddElement
<1> HIDE DEF v
<1>3. /\ Len(all) = Len(names) + 1 /\ all[Len(names) + 1] = v
      /\ \A k \in 1 .. Len(names) : all[k] = names[k]
  <2>1. names \in Seq(S \cup {v}) /\ v \in S \cup {v}
    OBVIOUS
  <2> QED  BY <2>1
<1>4. ASSUME NEW x \in set
      PROVE  all[Cardinality(Upto(more, x))] = Attribute(u, x, "name")
  <2>1. x \in Nat /\ x < e
    OBVIOUS
  <2>2. Upto(more, x) = Upto(set, x) /\ Upto(set, x) \subseteq set /\ x \in Upto(set, x)
    BY <2>1
  <2>3. /\ IsFiniteSet(Upto(set, x)) /\ Cardinality(Upto(set, x)) \in Nat
        /\ Cardinality(Upto(set, x)) <= Cardinality(set)
        /\ Cardinality(Upto(set, x)) # 0
    <3> HIDE DEF Upto
    <3>1. IsFiniteSet(Upto(set, x)) /\ Cardinality(Upto(set, x)) <= Cardinality(set)
      BY <2>2, FS_Subset
    <3> QED  BY <3>1, <2>2, FS_CardinalityType, FS_EmptySet
  <2> HIDE DEF all, more, Upto
  <2> QED  BY <2>2, <2>3, <1>1, <1>3
<1>5. all[Cardinality(Upto(more, e))] = v
  <2>1. \A y \in more : y <= e
    OBVIOUS
  <2>2. Upto(more, e) = more
    BY <2>1
  <2> HIDE DEF all, more, Upto
  <2> QED  BY <2>2, <1>1, <1>2, <1>3
<1>6. Len(all) = Cardinality(more)
  BY <1>1, <1>2, <1>3
<1> QED  BY <1>4, <1>5, <1>6 DEF Lists, v

\* What `locals' has printed when it is at a place, with the cursor d.
LocalsAt(at, f, d, names) ==
  LET all == Printable(f)
  IN  /\ at = "die" => d.cursorAbbrev = 1
      /\ at = "idle" \/ (at = "die" /\ d.depth = 0) => Lists(names, f.unit, all)
      /\ (at = "die" /\ d.depth # 0) \/ at \in {"parsed", "next"} => BelowEntry(d, f)
      /\ (at = "die" /\ d.depth # 0) \/ at = "parsed" =>
           Lists(names, f.unit, {x \in all : x < d.entry})
      /\ at = "parsed" => d.entry \in all /\ NameRead(d, "name")
      /\ at = "next" => Lists(names, f.unit, {x \in all : x <= d.entry})

Listing(at, f, d, names) ==
  /\ at \in {"die", "parsed", "next", "idle"}
  /\ OnEntry(f) /\ \E S : names \in Seq(S)
  /\ InTree /\ Opens(f.unit, f.entry) => LocalsAt(at, f, d, names)

Printing == job.kind = "children" /\ (status = "running" \/ job.at = "idle")

LocalsInv ==
  /\ job.kind = "locals" => answer = <<>>
  /\ Printing => \E at, f, d, names :
       /\ at = job.at /\ f = func /\ d = die /\ names = answer
       /\ Listing(at, f, d, names)

\* Nothing said of debug information changes.
LEMMA SameLocals ==
  ASSUME info' = info, NEW at, NEW f, NEW d, NEW names
  PROVE  Listing(at, f, d, names)' <=> Listing(at, f, d, names)
<1>1. \A u, e : /\ Entries(u)' = Entries(u) /\ TrueDepth(u, e)' = TrueDepth(u, e)
                /\ Real(u)' = Real(u) /\ (Opens(u, e)' <=> Opens(u, e))
                /\ Attribute(u, e, "name")' = Attribute(u, e, "name")
  BY DEF Entries, TrueDepth, Real, Opens, AbbrevOf, Attribute, NameOf
<1>2. InTree' <=> InTree
  BY SamePlaces
<1>3. OnEntry(f)' <=> OnEntry(f)
  BY SameRead
<1>4. Printable(f)' = Printable(f)
  BY <1>1 DEF Printable, Tagged, Below, AbbrevOf
<1>5. BelowEntry(d, f)' <=> BelowEntry(d, f)
  BY <1>1, SameRead DEF BelowEntry
<1>6. \A set : Lists(names, f.unit, set)' <=> Lists(names, f.unit, set)
  BY <1>1 DEF Lists
<1>7. NameRead(d, "name")' <=> NameRead(d, "name")
  <2>1. Def(d)' = Def(d)
    BY DEF Def, Abbrev, AbbrevOf
  <2>2. Index(d, "name")' = Index(d, "name")
    BY <2>1 DEF Index
  <2> QED  BY <1>1, <2>2 DEF NameRead, Has, Get
<1>8. LocalsAt(at, f, d, names)' <=> LocalsAt(at, f, d, names)
  BY <1>4, <1>5, <1>6, <1>7 DEF LocalsAt
<1> QED  BY <1>1, <1>2, <1>3, <1>8 DEF Listing

LEMMA ListingNow ==
  ASSUME info' = info, job'.kind # "locals", NEW at, NEW f, NEW d, NEW names,
         job'.at = at, func' = f, die' = d, answer' = names, Listing(at, f, d, names)
  PROVE  LocalsInv'
<1>1. Listing(at, f, d, names)'
  BY SameLocals
<1> QED  BY <1>1 DEF LocalsInv

\* Nothing is said of another command, or of one that is at an end.
LEMMA ListingElse ==
  ASSUME job'.kind # "children" \/ (status' # "running" /\ job'.at # "idle"),
         job'.kind = "locals" => answer' = <<>>
  PROVE  LocalsInv'
BY DEF LocalsInv, Printing

\* The cursor has moved to m from entry e.
LEMMA ListingArrives ==
  ASSUME info \in Infos, info' = info, job'.kind = "children", job'.at = "die",
         NEW f, func' = f, OnEntry(f), NEW m, NEW before, Arrives(m, before),
         NEW e, NEW names, answer' = names, \E S : names \in Seq(S),
         m.cursorAbbrev = 1,
         InTree /\ Opens(f.unit, f.entry) =>
           MovesBelow(m, f, e) /\ Lists(names, f.unit, {x \in Printable(f) : x <= e})
  PROVE  LocalsInv'
<1>1. die' = m /\ status' = IF Outside(m) THEN "lost" ELSE status
  BY DEF Arrives
<1>2. CASE Outside(m)
  BY <1>1, <1>2, ListingElse
<1>3. CASE ~Outside(m)
  <2>1. ASSUME InTree, Opens(f.unit, f.entry)
        PROVE  LocalsAt("die", f, m, names)
    <3> DEFINE all == Printable(f)
    <3>1. all \subseteq Real(f.unit) /\ all \subseteq Below(f.unit, f.entry)
      BY DEF Printable, Tagged
    <3>2. Lists(names, f.unit, {x \in all : x <= e})
      BY <2>1
    <3>3. CASE m.depth = 0
      <4>1. {x \in all : x <= e} = all
        BY <2>1, <3>1, <3>3 DEF MovesBelow
      <4> HIDE DEF all
      <4>2. Lists(names, f.unit, all)
        BY <3>2, <4>1
      <4> QED  BY <3>3, <4>2 DEF LocalsAt, all
    <3>4. CASE m.depth # 0
      <4>1. BelowEntry(m, f) /\ \A x \in Real(f.unit) : x < m.entry <=> x <= e
        BY <1>3, <2>1, <3>4 DEF MovesBelow
      <4>2. {x \in all : x <= e} = {x \in all : x < m.entry}
        BY <3>1, <4>1
      <4> HIDE DEF all
      <4>3. Lists(names, f.unit, {x \in all : x < m.entry})
        BY <3>2, <4>2
      <4> QED  BY <3>4, <4>1, <4>3 DEF LocalsAt, all
    <3> QED  BY <3>3, <3>4
  <2>2. Listing("die", f, m, names)
    BY <2>1 DEF Listing
  <2> QED  BY <1>1, <2>2, ListingNow
<1> QED  BY <1>2, <1>3

\* The function is found, and the cursor goes to the first entry below it.
LEMMA LocalsFound ==
  ASSUME IInv, PlaceInv, LocalsInv, JudgeLocals
  PROVE  LocalsInv'
<1> DEFINE child == InitializeDIE(Uninitialised, die.entry + 1, die.unit)
<1>1. /\ job.at = "parsed" /\ job.kind = "locals" /\ status = "running" /\ answer = <<>>
      /\ UNCHANGED <<info, answer>> /\ info \in Infos
  BY DEF JudgeLocals, Running, Ends, LocalsInv, IInv
<1>2. CASE Goes("next") \/ \E s : Ends(s) /\ s # "running"
  <2>1. job'.kind = "locals"
    BY <1>1, <1>2, GoesIs DEF Ends, IInv
  <2> QED  BY <1>1, <2>1, ListingElse
<1>3. CASE /\ func' = die /\ Arrives(child, <<>>)
           /\ job' = [job EXCEPT !.kind = "children", !.at = "die"]
  <2>1. job'.kind = "children" /\ job'.at = "die"
    BY <1>3 DEF IInv, JobShape
  <2>2. PICK f : f = die
    OBVIOUS
  <2>3. OnEntry(f)
    BY <1>1, <2>2 DEF PlaceInv, CursorInv, Searching, AtDIE
  <2>4. f.unit \in DOMAIN info.units /\ f.entry \in Real(f.unit) /\ f.entry \in Nat
    BY <1>1, <2>3, PlaceType DEF OnEntry
  <2>5. child = UpdateDIE(Start(Uninitialised, f.unit), f.entry + 1)
    BY <2>2, UninitialisedShape, StartIs
  <2>6. /\ DIEShape(Start(Uninitialised, f.unit)) /\ Start(Uninitialised, f.unit).unit = f.unit
        /\ Start(Uninitialised, f.unit).depth = 1
        /\ ~Start(Uninitialised, f.unit).prevHasChildren
    BY UninitialisedShape, StartShape
  <2>7. child.cursorAbbrev = 1
    BY <2>5, <2>6, UpdateFields
  <2>8. ASSUME InTree, Opens(f.unit, f.entry)
        PROVE  /\ MovesBelow(child, f, f.entry)
               /\ Lists(<<>>, f.unit, {x \in Printable(f) : x <= f.entry})
    <3>1. TrueDepth(f.unit, f.entry) \in Int
      BY <2>4, DepthType
    <3>2. 1 = TrueDepth(f.unit, f.entry) - TrueDepth(f.unit, f.entry) + 1
      BY <3>1
    <3>3. \A j \in f.entry + 1 .. f.entry : FALSE
      BY <2>4
    <3>4. f.entry >= f.entry
      BY <2>4
    <3>5. MovesBelow(UpdateDIE(Start(Uninitialised, f.unit), f.entry + 1), f, f.entry)
      BY <1>1, <2>3, <2>4, <2>6, <2>8, <3>2, <3>3, <3>4, UpdateBelow
    <3>6. \A x \in Printable(f) : x \in Nat /\ x > f.entry
      <4>1. \A x \in Printable(f) : x > f.entry
        BY <2>8 DEF Printable, Below
      <4> QED  BY <1>1, <2>3, <4>1, PrintableType
    <3>7. {x \in Printable(f) : x <= f.entry} = {}
      BY <2>4, <3>6
    <3>8. Lists(<<>>, f.unit, {})
      BY FS_EmptySet DEF Lists
    <3> QED  BY <2>5, <3>5, <3>7, <3>8
  <2>9. \E S : <<>> \in Seq(S)
    <3>1. <<>> \in Seq({})
      OBVIOUS
    <3> QED  BY <3>1
  <2> HIDE DEF child
  <2>10. answer' = <<>> /\ info' = info /\ func' = f
    BY <1>1, <1>3, <2>2
  <2> QED  BY <1>1, <1>3, <2>1, <2>3, <2>7, <2>8, <2>9, <2>10, ListingArrives
<1> QED
  <2>1. \/ Goes("next") \/ \E s : Ends(s) /\ s # "running"
        \/ /\ func' = die /\ Arrives(child, <<>>)
           /\ job' = [job EXCEPT !.kind = "children", !.at = "die"]
    BY DEF JudgeLocals
  <2> HIDE DEF child
  <2> QED  BY <2>1, <1>2, <1>3

\* `locals' goes over what is below the function.
LEMMA LocalsKept ==
  ASSUME IInv, LocalsInv, job.kind = "children", status = "running",
         Skip \/ Parse \/ StepDIE \/ PrintLocal \/ LocalsDone
  PROVE  LocalsInv'
<1>1. PICK at, f, d, names :
        /\ at = job.at /\ f = func /\ d = die /\ names = answer
        /\ Listing(at, f, d, names)
  BY DEF LocalsInv, Printing
<1>2. PICK S : names \in Seq(S)
  BY <1>1 DEF Listing
<1> DEFINE all == Printable(f)
<1>3. /\ info' = info /\ info \in Infos /\ DIEShape(d) /\ OnEntry(f)
      /\ at \in {"die", "parsed", "next"}
      /\ (InTree /\ Opens(f.unit, f.entry) => LocalsAt(at, f, d, names))
  BY <1>1 DEF Listing, IInv, Skip, Parse, StepDIE, PrintLocal, LocalsDone, Running, Ends, Arrives
<1>4. CASE \E s : Ends(s) /\ s # "running"
  <2>1. job'.kind = "children" /\ job'.at # "idle" /\ status' # "running"
    BY <1>1, <1>3, <1>4 DEF Ends
  <2> QED  BY <2>1, ListingElse
<1>5. ASSUME InTree, Opens(f.unit, f.entry), BelowEntry(d, f)
      PROVE  /\ OnEntry(d) /\ d.entry \in Nat
             /\ d.entry \in all <=> Abbrev(d).tag \in Locals
             /\ all \subseteq Nat /\ IsFiniteSet(all)
  <2>1. OnEntry(d) /\ d.entry \in Nat
    BY <1>3, <1>5, PlaceType DEF BelowEntry, OnEntry
  <2> QED  BY <1>3, <1>5, <2>1, BelowIs, PrintableType
<1> HIDE DEF all
<1>6. CASE Skip
  <2>1. Goes("next") /\ UNCHANGED <<func, die, answer>> /\ at = "die" /\ d.depth # 0
    BY <1>1, <1>6 DEF Skip, Running
  <2>2. job'.kind = "children" /\ job'.at = "next"
    BY <2>1, GoesIs DEF IInv
  <2>3. Abbrev(d).tag \notin Locals
    BY <1>1, <1>6 DEF Skip, Wanted
  <2>4. ASSUME InTree, Opens(f.unit, f.entry) PROVE LocalsAt("next", f, d, names)
    <3>1. BelowEntry(d, f) /\ Lists(names, f.unit, {x \in all : x < d.entry})
      BY <1>3, <2>1, <2>4 DEF LocalsAt, all
    <3>2. {x \in all : x < d.entry} = {x \in all : x <= d.entry}
      BY <1>5, <2>3, <2>4, <3>1
    <3>3. Lists(names, f.unit, {x \in all : x <= d.entry})
      BY <3>1, <3>2
    <3> QED  BY <3>1, <3>3 DEF LocalsAt, all
  <2>5. Listing("next", f, d, names)
    BY <1>2, <1>3, <2>4 DEF Listing
  <2> QED  BY <1>1, <1>3, <2>1, <2>2, <2>5, ListingNow
<1>7. CASE Parse /\ ~\E s : Ends(s) /\ s # "running"
  <2> DEFINE p == ParseDIE(d)
  <2>1. /\ Goes("parsed") /\ UNCHANGED <<func, answer>> /\ die' = p
        /\ at = "die" /\ d.depth # 0
    BY <1>1, <1>7 DEF Parse, Running
  <2>2. job'.kind = "children" /\ job'.at = "parsed"
    BY <2>1, GoesIs DEF IInv
  <2>3. Abbrev(d).tag \in Locals
    BY <1>1, <1>7 DEF Parse, Wanted
  <2>4. ASSUME InTree, Opens(f.unit, f.entry) PROVE LocalsAt("parsed", f, p, names)
    <3>1. /\ BelowEntry(d, f) /\ Lists(names, f.unit, {x \in all : x < d.entry})
          /\ d.cursorAbbrev = 1
      BY <1>3, <2>1, <2>4 DEF LocalsAt, all
    <3>2. OnEntry(d) /\ d.entry \in all
      BY <1>5, <2>3, <2>4, <3>1
    <3>3. NameRead(p, "name")
      BY <1>3, <3>1, <3>2, ParseReads
    <3>4. /\ p.unit = d.unit /\ p.entry = d.entry /\ p.depth = d.depth
          /\ p.prevHasChildren = d.prevHasChildren /\ OnEntry(p)
      BY <1>3, <3>1, <3>2, ParsedIs
    <3> HIDE DEF p
    <3>5. BelowEntry(p, f)
      BY <3>1, <3>4 DEF BelowEntry
    <3> QED  BY <3>1, <3>2, <3>3, <3>4, <3>5 DEF LocalsAt, all
  <2>5. Listing("parsed", f, p, names)
    BY <1>2, <1>3, <2>4 DEF Listing
  <2> HIDE DEF p
  <2> QED  BY <1>1, <1>3, <2>1, <2>2, <2>5, ListingNow
<1>8. CASE StepDIE /\ ~\E s : Ends(s) /\ s # "running"
  <2> DEFINE m == NextDIE(d)
  <2>1. Goes("die") /\ UNCHANGED <<func, answer>> /\ Arrives(m, seen) /\ at = "next"
    BY <1>1, <1>8 DEF StepDIE, Running
  <2>2. job'.kind = "children" /\ job'.at = "die"
    BY <2>1, GoesIs DEF IInv
  <2>3. m.cursorAbbrev = 1
    BY <1>3, UpdateFields DEF NextDIE
  <2>4. ASSUME InTree, Opens(f.unit, f.entry)
        PROVE  /\ MovesBelow(m, f, d.entry)
               /\ Lists(names, f.unit, {x \in Printable(f) : x <= d.entry})
    <3>1. BelowEntry(d, f) /\ Lists(names, f.unit, {x \in Printable(f) : x <= d.entry})
      BY <1>3, <2>1, <2>4 DEF LocalsAt
    <3>2. /\ d.unit = f.unit /\ d.entry \in Real(f.unit) /\ d.entry > f.entry
          /\ f.unit \in DOMAIN info.units /\ f.entry \in Real(f.unit)
          /\ d.depth = TrueDepth(f.unit, d.entry) - TrueDepth(f.unit, f.entry)
          /\ d.prevHasChildren <=> Opens(f.unit, d.entry)
          /\ \A j \in f.entry + 1 .. d.entry :
               TrueDepth(f.unit, j) > TrueDepth(f.unit, f.entry)
      BY <1>3, <3>1 DEF BelowEntry, OnEntry
    <3>3. f.entry \in Nat /\ d.entry \in Nat
      BY <1>3, <3>2, PlaceType
    <3>4. TrueDepth(f.unit, d.entry) \in Int /\ TrueDepth(f.unit, f.entry) \in Int
      BY <3>3, DepthType
    <3>5. d.entry \in f.entry + 1 .. d.entry /\ d.entry >= f.entry
      BY <3>2, <3>3
    <3>6. d.depth \in Nat
      BY <3>2, <3>4, <3>5
    <3>7. MovesBelow(UpdateDIE(d, d.entry + 1), f, d.entry)
      BY <1>3, <2>4, <3>2, <3>5, <3>6, UpdateBelow
    <3> QED  BY <3>1, <3>7 DEF NextDIE
  <2>5. info' = info /\ func' = f /\ answer' = names
    BY <1>1, <1>3, <2>1
  <2> HIDE DEF m
  <2> QED  BY <1>2, <1>3, <2>1, <2>2, <2>3, <2>4, <2>5, ListingArrives
<1>9. CASE PrintLocal /\ ~\E s : Ends(s) /\ s # "running"
  <2> DEFINE m == MoveDataCursor(d, "name")
             more == Append(names, Get(d, "name").v)
  <2>1. /\ Goes("next") /\ func' = f /\ answer' = more /\ die' = m
        /\ at = "parsed" /\ Has(d, "name")
    BY <1>1, <1>9 DEF PrintLocal, Running
  <2>2. job'.kind = "children" /\ job'.at = "next"
    BY <2>1, GoesIs DEF IInv
  <2>3. /\ m.unit = d.unit /\ m.entry = d.entry /\ m.depth = d.depth /\ m.code = d.code
        /\ m.prevHasChildren = d.prevHasChildren
    <3>1. d = [unit |-> d.unit, entry |-> d.entry, code |-> d.code, depth |-> d.depth,
               prevHasChildren |-> d.prevHasChildren, cursorAbbrev |-> d.cursorAbbrev,
               cursorData |-> d.cursorData, data |-> d.data]
      BY <1>3 DEF DIEShape
    <3>2. PICK i : i = Index(d, "name")
      OBVIOUS
    <3>3. m = [unit |-> d.unit, entry |-> d.entry, code |-> d.code, depth |-> d.depth,
               prevHasChildren |-> d.prevHasChildren, cursorAbbrev |-> d.cursorAbbrev,
               cursorData |-> i, data |-> d.data]
      BY <3>1, <3>2 DEF MoveDataCursor
    <3> HIDE DEF m
    <3> QED  BY <3>3
  <2>4. \E T : more \in Seq(T)
    <3>1. PICK v : v = Get(d, "name").v
      OBVIOUS
    <3>2. Append(names, v) \in Seq(S \cup {v})
      BY <1>2
    <3> QED  BY <3>1, <3>2
  <2> HIDE DEF m
  <2>5. ASSUME InTree, Opens(f.unit, f.entry) PROVE LocalsAt("next", f, m, more)
    <3>1. /\ BelowEntry(d, f) /\ Lists(names, f.unit, {x \in all : x < d.entry})
          /\ d.entry \in all /\ NameRead(d, "name")
      BY <1>3, <2>1, <2>5 DEF LocalsAt, all
    <3>2. more = Append(names, Attribute(f.unit, d.entry, "name"))
      BY <2>1, <3>1 DEF NameRead, BelowEntry
    <3> DEFINE set == {x \in all : x < d.entry}
    <3>3. all \subseteq Nat /\ IsFiniteSet(all) /\ d.entry \in Nat
      BY <1>5, <2>5, <3>1
    <3>4. IsFiniteSet(set) /\ set \subseteq Nat /\ \A x \in set : x < d.entry
      BY <3>3, FS_Subset
    <3>5. set \cup {d.entry} = {x \in all : x <= d.entry}
      <4>1. \A x \in all : x <= d.entry <=> x < d.entry \/ x = d.entry
        BY <3>3
      <4> QED  BY <4>1, <3>1
    <3> HIDE DEF set
    <3>6. Lists(names, f.unit, set)
      BY <3>1 DEF set
    <3>7. Lists(more, f.unit, set \cup {d.entry})
      BY <1>2, <3>2, <3>3, <3>4, <3>6, ListsOne
    <3>8. Lists(more, f.unit, {x \in all : x <= m.entry})
      BY <2>3, <3>5, <3>7
    <3> HIDE DEF more
    <3>9. BelowEntry(m, f)
      BY <2>3, <3>1 DEF BelowEntry, OnEntry
    <3> QED  BY <3>8, <3>9 DEF LocalsAt, all
  <2> HIDE DEF more
  <2>6. Listing("next", f, m, more)
    BY <1>3, <2>4, <2>5 DEF Listing
  <2> QED  BY <1>3, <2>1, <2>2, <2>6, ListingNow
<1>10. CASE LocalsDone
  <2>1. Goes("idle") /\ UNCHANGED <<func, die, answer>> /\ at = "die" /\ d.depth = 0
    BY <1>1, <1>10 DEF LocalsDone, Running, Finished
  <2>2. job'.kind = "children" /\ job'.at = "idle"
    BY <2>1, GoesIs DEF IInv
  <2>3. ASSUME InTree, Opens(f.unit, f.entry) PROVE LocalsAt("idle", f, d, names)
    BY <1>3, <2>1, <2>3 DEF LocalsAt
  <2>4. Listing("idle", f, d, names)
    BY <1>2, <1>3, <2>3 DEF Listing
  <2> QED  BY <1>1, <1>3, <2>1, <2>2, <2>4, ListingNow
<1> QED  BY <1>4, <1>6, <1>7, <1>8, <1>9, <1>10

\* Steps of other commands.
LEMMA LocalsOthers ==
  ASSUME IInv, LocalsInv, Walk, ~JudgeLocals, job.kind # "children"
  PROVE  LocalsInv'
<1> USE DEF IInv
<1>1. job'.kind = job.kind
  BY DEF Walk, GetCompileUnitCount, InitializeCompileUnit, UnitsReady, EnterUnit, PassUnit,
         LeaveUnit, NotFound, Skip, Parse, StepDIE, PrintedDIE, JudgeName, JudgeAddress,
         PrintLocal, LocalsDone, Ends, Finished, Goes, JobShape
<1>2. job.kind = "locals" => answer' = answer
  BY DEF Walk, GetCompileUnitCount, InitializeCompileUnit, UnitsReady, EnterUnit, PassUnit,
         LeaveUnit, NotFound, Skip, Parse, StepDIE, PrintedDIE, JudgeName, JudgeAddress,
         PrintLocal, LocalsDone, Ends
<1> QED  BY <1>1, <1>2, ListingElse DEF LocalsInv

LEMMA LocalsStep ==
  ASSUME IInv, PlaceInv, LocalsInv, [Next]_vars
  PROVE  LocalsInv'
<1>1. ASSUME Walk PROVE LocalsInv'
  <2>1. CASE JudgeLocals
    BY <2>1, LocalsFound
  <2>2. CASE ~JudgeLocals /\ job.kind # "children"
    BY <1>1, <2>2, LocalsOthers
  <2>3. CASE ~JudgeLocals /\ job.kind = "children"
    <3>1. status = "running" /\ job.at # "idle"
      BY <1>1 DEF Walk, GetCompileUnitCount, InitializeCompileUnit, UnitsReady, EnterUnit,
         PassUnit, LeaveUnit, NotFound, Skip, Parse, StepDIE, PrintedDIE, JudgeName,
         JudgeAddress, JudgeLocals, PrintLocal, LocalsDone, Running
    <3>2. job.at \in {"die", "parsed", "next"}
      BY <2>3, <3>1 DEF LocalsInv, Printing, Listing
    <3>3. Skip \/ Parse \/ StepDIE \/ PrintLocal \/ LocalsDone
      BY <1>1, <2>3, <3>2 DEF Walk, GetCompileUnitCount, InitializeCompileUnit, UnitsReady,
         EnterUnit, PassUnit, LeaveUnit, NotFound, PrintedDIE, JudgeName, JudgeAddress, Running
    <3> QED  BY <2>3, <3>1, <3>3, LocalsKept
  <2> QED  BY <2>1, <2>2, <2>3
<1>2. ASSUME NEW q \in info.queries, Ask(q) PROVE LocalsInv'
  <2>1. job'.kind = q[1] /\ q[1] \in Kinds /\ answer' = <<>>
    BY <1>2, DieWalkAssumption DEF Ask, IInv
  <2> QED  BY <2>1, ListingElse DEF Kinds
<1>3. ASSUME UNCHANGED vars PROVE LocalsInv'
  <2>1. UNCHANGED <<info, die, func, job, status, answer>>
    BY <1>3 DEF vars
  <2>2. CASE Printing
    <3>1. PICK at, f, d, names :
            /\ at = job.at /\ f = func /\ d = die /\ names = answer
            /\ Listing(at, f, d, names)
      BY <2>2 DEF LocalsInv
    <3>2. job'.kind # "locals"
      BY <2>1, <2>2 DEF Printing
    <3> QED  BY <2>1, <3>1, <3>2, ListingNow
  <2>3. CASE ~Printing
    BY <2>1, <2>3 DEF LocalsInv, Printing
  <2> QED  BY <2>2, <2>3
<1> QED  BY <1>1, <1>2, <1>3 DEF Next

\* `locals' prints the variables and parameters below the function, of all its
\* blocks and no others, by their names and in their order, however deep the
\* blocks are (PrintLocalVariables, Debugger.h:174-226, with UpdateDIE,
\* Dwarf.h:331-349).
THEOREM PrintsLocals == Spec => []LocalsTrue
<1>1. Init => IInv /\ PlaceInv /\ LocalsInv
  <2>1. Init => LocalsInv
    BY DEF Init, NoJob, LocalsInv, Printing
  <2> QED  BY <2>1, InvInit, PlaceInductive
<1>2. IInv /\ PlaceInv /\ LocalsInv /\ [Next]_vars => (IInv /\ PlaceInv /\ LocalsInv)'
  BY InvNext, PlaceInductive, LocalsStep
<1>3. LocalsInv => LocalsTrue
  <2> SUFFICES ASSUME LocalsInv, job.kind = "children", job.at = "idle",
                      Opens(func.unit, func.entry), InTree
               PROVE  Lists(answer, func.unit, Printable(func))
    BY DEF LocalsTrue, Answered, Printable
  <2>1. PICK at, f, d, names :
          /\ at = job.at /\ f = func /\ d = die /\ names = answer
          /\ Listing(at, f, d, names)
    BY DEF LocalsInv, Printing
  <2>2. LocalsAt(at, f, d, names)
    BY <2>1 DEF Listing
  <2>3. Lists(names, f.unit, Printable(f))
    BY <2>1, <2>2 DEF LocalsAt
  <2> QED  BY <2>1, <2>3
<1> QED  BY <1>1, <1>2, <1>3, PTL DEF Spec

=============================================================================
