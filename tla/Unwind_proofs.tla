---------------------------- MODULE Unwind_proofs ----------------------------
(***************************************************************************)
(* Theorems about unwinding in any program that keeps frames and says so   *)
(* in its call-frame instructions.                                         *)
(***************************************************************************)
EXTENDS FramedProgram, WellFoundedInduction, TLAPS

\* Below every set of numbers that is not empty lies one of its members.
LEMMA HasLeast ==
  ASSUME NEW S, S \subseteq Nat, S # {}
  PROVE  \E s \in S : \A r \in S : s <= r
<1> DEFINE R == OpToRel(<, Nat)
<1>1. IsWellFoundedOn(R, Nat)
  BY NatLessThanWellFounded
<1>2. \A x, y \in Nat : x < y => <<x, y>> \in R
  BY DEF OpToRel
<1> HIDE DEF R
<1>3. PICK s \in S : \A r \in S : <<r, s>> \notin R
  BY <1>1, WFMin
<1>4. \A r \in S : ~(r < s)
  BY <1>2, <1>3
<1> QED  BY <1>4

-----------------------------------------------------------------------------
(* The recursive functions satisfy their equations                         *)

MovedTo(i, location) ==
  CASE i.op = "advance_loc" -> location + i.n
    [] i.op = "set_loc" -> i.n
    [] OTHER -> location

\* Each location follows from the one before it.
LEMMA PlacesFollow ==
  ASSUME NEW f, Len(f.instructions) \in Nat
  PROVE  /\ Places(f)[0] = f.location
         /\ \A k \in 1 .. Len(f.instructions) :
              Places(f)[k] = MovedTo(f.instructions[k], Places(f)[k - 1])
<1> DEFINE Body(t, m) ==
             [k \in 0 .. m |-> IF k = 0 THEN f.location
                               ELSE MovedTo(f.instructions[k], t[k - 1])]
           S == {m \in Nat : ~ \E t : t = Body(t, m)}
<1> HIDE DEF MovedTo
<1>1. S = {}
  <2> SUFFICES ASSUME S # {} PROVE FALSE
    OBVIOUS
  <2>1. PICK m \in S : \A r \in S : m <= r
    BY HasLeast
  <2>2. m # 0
    <3> DEFINE t == [k \in 0 .. 0 |-> f.location]
    <3>1. t = Body(t, 0)
      OBVIOUS
    <3> QED  BY <3>1
  <2>3. m - 1 \in Nat /\ m - 1 \notin S
    <3>1. m \in Nat
      OBVIOUS
    <3> HIDE DEF S
    <3> QED  BY <2>1, <2>2, <3>1
  <2>4. PICK t : t = Body(t, m - 1)
    BY <2>3
  <2>5. \A k \in 0 .. m - 1 : t[k] = IF k = 0 THEN f.location
                                      ELSE MovedTo(f.instructions[k], t[k - 1])
    BY ONLY <2>4
  <2> DEFINE more == [k \in 0 .. m |-> IF k = m THEN MovedTo(f.instructions[m], t[m - 1])
                                        ELSE t[k]]
  <2>6. \A k \in 0 .. m : more[k] = IF k = 0 THEN f.location
                                     ELSE MovedTo(f.instructions[k], more[k - 1])
    <3> SUFFICES ASSUME NEW k \in 0 .. m
                 PROVE  more[k] = IF k = 0 THEN f.location
                                  ELSE MovedTo(f.instructions[k], more[k - 1])
      OBVIOUS
    <3>1. CASE k = m
      <4>1. more[m] = MovedTo(f.instructions[m], t[m - 1]) /\ more[m - 1] = t[m - 1]
        BY <2>2, <2>3
      <4> QED  BY <2>2, <3>1, <4>1
    <3>2. CASE k # m /\ k # 0
      <4>1. k \in 0 .. m - 1 /\ k - 1 \in 0 .. m - 1 /\ k - 1 # m
        BY <2>3, <3>2
      <4>2. more[k] = t[k] /\ more[k - 1] = t[k - 1]
        BY <2>3, <3>2, <4>1
      <4> QED  BY <2>5, <3>2, <4>1, <4>2
    <3>3. CASE k = 0
      <4>1. 0 \in 0 .. m - 1
        BY <2>3
      <4> QED  BY <2>2, <2>5, <3>3, <4>1
    <3> QED  BY <2>2, <3>1, <3>2, <3>3
  <2>7. more = [k \in 0 .. m |-> more[k]]
    OBVIOUS
  <2> HIDE DEF more
  <2>8. more = Body(more, m)
    BY <2>6, <2>7
  <2> QED  BY <2>1, <2>8
<1>2. \E t : t = Body(t, Len(f.instructions))
  BY <1>1
<1>3. Places(f) = CHOOSE t : t = Body(t, Len(f.instructions))
  BY DEF Places, MovedTo
<1>4. Places(f) = Body(Places(f), Len(f.instructions))
  BY <1>2, <1>3
<1>5. \A k \in 0 .. Len(f.instructions) :
        Places(f)[k] = IF k = 0 THEN f.location
                       ELSE MovedTo(f.instructions[k], Places(f)[k - 1])
  BY <1>4
<1> QED  BY <1>5

KeptOf(i, n) ==
  CASE i.op = "remember_state" -> n + 1
    [] i.op = "restore_state" -> n - 1
    [] OTHER -> n

\* Each number of remembered sets follows from the one before it.
LEMMA RememberedFollows ==
  ASSUME NEW is, Len(is) \in Nat
  PROVE  /\ Remembered(is)[0] = 0
         /\ \A k \in 1 .. Len(is) :
              Remembered(is)[k] = KeptOf(is[k], Remembered(is)[k - 1])
<1> DEFINE Body(t, m) ==
             [k \in 0 .. m |-> IF k = 0 THEN 0
                               ELSE KeptOf(is[k], t[k - 1])]
           S == {m \in Nat : ~ \E t : t = Body(t, m)}
<1> HIDE DEF KeptOf
<1>1. S = {}
  <2> SUFFICES ASSUME S # {} PROVE FALSE
    OBVIOUS
  <2>1. PICK m \in S : \A r \in S : m <= r
    BY HasLeast
  <2>2. m # 0
    <3> DEFINE t == [k \in 0 .. 0 |-> 0]
    <3>1. t = Body(t, 0)
      OBVIOUS
    <3> QED  BY <3>1
  <2>3. m - 1 \in Nat /\ m - 1 \notin S
    <3>1. m \in Nat
      OBVIOUS
    <3> HIDE DEF S
    <3> QED  BY <2>1, <2>2, <3>1
  <2>4. PICK t : t = Body(t, m - 1)
    BY <2>3
  <2>5. \A k \in 0 .. m - 1 : t[k] = IF k = 0 THEN 0
                                      ELSE KeptOf(is[k], t[k - 1])
    BY ONLY <2>4
  <2> DEFINE more == [k \in 0 .. m |-> IF k = m THEN KeptOf(is[m], t[m - 1])
                                        ELSE t[k]]
  <2>6. \A k \in 0 .. m : more[k] = IF k = 0 THEN 0
                                     ELSE KeptOf(is[k], more[k - 1])
    <3> SUFFICES ASSUME NEW k \in 0 .. m
                 PROVE  more[k] = IF k = 0 THEN 0
                                  ELSE KeptOf(is[k], more[k - 1])
      OBVIOUS
    <3>1. CASE k = m
      <4>1. more[m] = KeptOf(is[m], t[m - 1]) /\ more[m - 1] = t[m - 1]
        BY <2>2, <2>3
      <4> QED  BY <2>2, <3>1, <4>1
    <3>2. CASE k # m /\ k # 0
      <4>1. k \in 0 .. m - 1 /\ k - 1 \in 0 .. m - 1 /\ k - 1 # m
        BY <2>3, <3>2
      <4>2. more[k] = t[k] /\ more[k - 1] = t[k - 1]
        BY <2>3, <3>2, <4>1
      <4> QED  BY <2>5, <3>2, <4>1, <4>2
    <3>3. CASE k = 0
      <4>1. 0 \in 0 .. m - 1
        BY <2>3
      <4> QED  BY <2>2, <2>5, <3>3, <4>1
    <3> QED  BY <2>2, <3>1, <3>2, <3>3
  <2>7. more = [k \in 0 .. m |-> more[k]]
    OBVIOUS
  <2> HIDE DEF more
  <2>8. more = Body(more, m)
    BY <2>6, <2>7
  <2> QED  BY <2>1, <2>8
<1>2. \E t : t = Body(t, Len(is))
  BY <1>1
<1>3. Remembered(is) = CHOOSE t : t = Body(t, Len(is))
  BY DEF Remembered, KeptOf
<1>4. Remembered(is) = Body(Remembered(is), Len(is))
  BY <1>2, <1>3
<1>5. \A k \in 0 .. Len(is) :
        Remembered(is)[k] = IF k = 0 THEN 0
                       ELSE KeptOf(is[k], Remembered(is)[k - 1])
  BY <1>4
<1> QED  BY <1>5

\* Each row follows from the one before it, and the last is the result.
LEMMA RowsFollow ==
  ASSUME NEW row, NEW is, Len(is) \in Nat, NEW a
  PROVE  \E after :
           /\ after[0] = [row EXCEPT !.remembered = <<>>]
           /\ \A k \in 1 .. Len(is) : after[k] = Instructed(after[k - 1], is[k], a)
           /\ FrameInstructionsUntilPC(row, is, a) = after[Len(is)]
<1> DEFINE Body(t, m) ==
             [k \in 0 .. m |-> IF k = 0 THEN [row EXCEPT !.remembered = <<>>]
                               ELSE Instructed(t[k - 1], is[k], a)]
           S == {m \in Nat : ~ \E t : t = Body(t, m)}
           first == [row EXCEPT !.remembered = <<>>]
           Next1(k, before) == Instructed(before, is[k], a)
<1>1. S = {}
  <2> SUFFICES ASSUME S # {} PROVE FALSE
    OBVIOUS
  <2>1. PICK m \in S : \A r \in S : m <= r
    BY HasLeast
  <2>2. m # 0
    <3> DEFINE t == [k \in 0 .. 0 |-> first]
    <3>1. t = Body(t, 0)
      OBVIOUS
    <3> QED  BY <3>1
  <2>3. m - 1 \in Nat /\ m - 1 \notin S
    <3>1. m \in Nat
      OBVIOUS
    <3> HIDE DEF S
    <3> QED  BY <2>1, <2>2, <3>1
  <2>4. PICK t : t = Body(t, m - 1)
    BY <2>3
  <2> HIDE DEF first, Next1
  <2>5. \A k \in 0 .. m - 1 : t[k] = IF k = 0 THEN first ELSE Next1(k, t[k - 1])
    BY <2>4 DEF first, Next1
  <2> DEFINE more == [k \in 0 .. m |-> IF k = m THEN Next1(m, t[m - 1]) ELSE t[k]]
  <2>6. \A k \in 0 .. m : more[k] = IF k = 0 THEN first ELSE Next1(k, more[k - 1])
    <3> SUFFICES ASSUME NEW k \in 0 .. m
                 PROVE  more[k] = IF k = 0 THEN first ELSE Next1(k, more[k - 1])
      OBVIOUS
    <3>1. CASE k = m
      <4>1. more[m] = Next1(m, t[m - 1]) /\ more[m - 1] = t[m - 1]
        BY <2>2, <2>3
      <4> QED  BY <2>2, <3>1, <4>1
    <3>2. CASE k # m /\ k # 0
      <4>1. k \in 0 .. m - 1 /\ k - 1 \in 0 .. m - 1 /\ k - 1 # m
        BY <2>3, <3>2
      <4>2. more[k] = t[k] /\ more[k - 1] = t[k - 1]
        BY <2>3, <3>2, <4>1
      <4> QED  BY <2>5, <3>2, <4>1, <4>2
    <3>3. CASE k = 0
      <4>1. 0 \in 0 .. m - 1
        BY <2>3
      <4> QED  BY <2>2, <2>5, <3>3, <4>1
    <3> QED  BY <2>2, <3>1, <3>2, <3>3
  <2>7. more = [k \in 0 .. m |-> more[k]]
    OBVIOUS
  <2> HIDE DEF more
  <2>8. more = Body(more, m)
    BY <2>6, <2>7 DEF first, Next1
  <2> QED  BY <2>1, <2>8
<1> DEFINE after == CHOOSE t : t = Body(t, Len(is))
<1>2. \E t : t = Body(t, Len(is))
  BY <1>1
<1>3. FrameInstructionsUntilPC(row, is, a) = after[Len(is)]
  BY DEF FrameInstructionsUntilPC
<1>4. after = Body(after, Len(is))
  BY <1>2
<1> HIDE DEF after, first, Next1
<1>5. \A k \in 0 .. Len(is) : after[k] = IF k = 0 THEN first ELSE Next1(k, after[k - 1])
  BY <1>4 DEF first, Next1
<1>6. /\ after[0] = first
      /\ \A k \in 1 .. Len(is) : after[k] = Next1(k, after[k - 1])
  BY <1>5
<1> QED  BY <1>3, <1>6 DEF first, Next1

-----------------------------------------------------------------------------
(* The interpreter: after the instructions up to the pc, the row says what *)
(* the last of each kind has set.                                          *)

RowFields == {"PC", "cfa", "registers", "withRules", "remembered", "returned"}

IsRow(row) ==
  \E location, cfaReg, offset, registers, withRules, remembered, returned :
    row = [PC |-> location, cfa |-> [reg |-> cfaReg, offset |-> offset],
           registers |-> registers, withRules |-> withRules,
           remembered |-> remembered, returned |-> returned]

CfaSetters == {"def_cfa", "def_cfa_register", "def_cfa_expression"}
OffsetSetters == {"def_cfa", "def_cfa_offset"}

LastIn(J, k, ops, i) ==
  i \in 1 .. k /\ J[i].op \in ops /\ \A j \in i + 1 .. k : J[j].op \notin ops

PlainOne(i) ==
  \/ i.op \in Moves \cup {"def_cfa", "def_cfa_register", "def_cfa_offset",
                          "remember_state", "restore"}
  \/ i.op = "offset" /\ i.reg = "rip" /\ i.n = -1
  \/ i.op = "offset" /\ i.reg = "rbp" /\ i.n = -2

CfaRow(row, J, k) ==
  /\ \A i \in 1 .. k : LastIn(J, k, CfaSetters, i) =>
       row.cfa.reg = IF J[i].op = "def_cfa_expression" THEN "expression" ELSE J[i].reg
  /\ row.cfa.reg # "none" => \E i \in 1 .. k : LastIn(J, k, CfaSetters, i)

Saved(r) == [rule |-> "offset", n |-> IF r = "rip" THEN -1 ELSE -2]

PlainRow(row, J, k) ==
  /\ \A i \in 1 .. k : LastIn(J, k, OffsetSetters, i) => row.cfa.offset = J[i].n
  /\ DOMAIN row.registers = Registers
  /\ \A r : r \in row.withRules <=> \E i \in 1 .. k : J[i].op = "offset" /\ J[i].reg = r
  /\ \A r \in row.withRules : r \in {"rip", "rbp"} /\ row.registers[r] = Saved(r)
  /\ \A r \in Registers \ row.withRules : row.registers[r].rule = "undefined"

\* A def_cfa among the first k that no def_cfa_expression has overtaken.
CfaGiven(J, k) ==
  \E h \in 1 .. k : /\ J[h].op = "def_cfa"
                   /\ \A g \in h .. k : J[g].op # "def_cfa_expression"

\* A row has so many remembered sets.
Remembers(row, n) == \E S : row.remembered \in Seq(S) /\ Len(row.remembered) = n

RowOf(row, J, k) ==
  /\ IsRow(row)
  /\ CfaGiven(J, k) => row.cfa.reg \in Registers
  /\ CfaRow(row, J, k)
  /\ (\A i \in 1 .. k : PlainOne(J[i])) => PlainRow(row, J, k)

\* No location beyond the pc has come.
Open(row) == row.returned = FALSE

\* A row is known by its parts.
LEMMA RowParts ==
  ASSUME NEW p, NEW c, NEW o, NEW g, NEW w, NEW m, NEW e, NEW row,
         row = [PC |-> p, cfa |-> [reg |-> c, offset |-> o], registers |-> g,
                withRules |-> w, remembered |-> m, returned |-> e]
  PROVE  /\ IsRow(row) /\ row.PC = p /\ row.cfa.reg = c /\ row.cfa.offset = o
         /\ row.registers = g /\ row.withRules = w /\ row.remembered = m
         /\ row.returned = e
<1>1. IsRow(row)
  BY Zenon DEF IsRow
<1> QED  BY <1>1

\* A register is saved at an offset of the CFA.
SavedAt(registers, reg, n) ==
  [registers EXCEPT ![reg] = [rule |-> "offset", n |-> n]]

\* What an instruction that does not end the interpretation does to a row.
LEMMA OneInstruction ==
  ASSUME NEW row, IsRow(row), Open(row), NEW i \in CFI, NEW a, ~Fails(row, i),
         i.op \in Moves => ~Beyond(a, MovedTo(i, row.PC)),
         NEW next, next = Instructed(row, i, a)
  PROVE  /\ IsRow(next) /\ Open(next)
         /\ next.PC = MovedTo(i, row.PC)
         /\ next.cfa.reg = IF i.op \in {"def_cfa", "def_cfa_register"} THEN i.reg
                           ELSE IF i.op = "def_cfa_expression" THEN "expression"
                           ELSE row.cfa.reg
         /\ next.cfa.offset = IF i.op \in OffsetSetters THEN i.n ELSE row.cfa.offset
         /\ next.remembered = IF i.op = "remember_state"
                              THEN Append(row.remembered, row.registers)
                              ELSE IF i.op = "restore_state" THEN Front(row.remembered)
                              ELSE row.remembered
         /\ PlainOne(i) =>
              /\ next.withRules = IF i.op = "offset" THEN row.withRules \cup {i.reg}
                                  ELSE row.withRules
              /\ next.registers = IF i.op = "offset"
                                  THEN SavedAt(row.registers, i.reg, i.n)
                                  ELSE row.registers
<1>1. PICK p, c, o, g, w, m, e :
        row = [PC |-> p, cfa |-> [reg |-> c, offset |-> o], registers |-> g,
               withRules |-> w, remembered |-> m, returned |-> e]
  BY DEF IsRow
<1>2. /\ row.PC = p /\ row.cfa.reg = c /\ row.cfa.offset = o
      /\ row.registers = g /\ row.withRules = w /\ row.remembered = m /\ e = FALSE
  BY <1>1 DEF Open
<1>3. CASE i.op \in Moves
  <2>1. next = [row EXCEPT !.PC = MovedTo(i, row.PC)]
    BY <1>1, <1>2, <1>3 DEF Instructed, Advanced, MovedTo, Moves
  <2>2. next = [PC |-> MovedTo(i, p), cfa |-> [reg |-> c, offset |-> o], registers |-> g,
                withRules |-> w, remembered |-> m, returned |-> e]
    BY <1>1, <2>1
  <2>3. /\ IsRow(next) /\ next.PC = MovedTo(i, p) /\ next.cfa.reg = c
        /\ next.cfa.offset = o /\ next.registers = g /\ next.withRules = w
        /\ next.returned = e
        /\ next.remembered = m
    BY ONLY <2>2, RowParts
  <2> QED  BY <1>2, <1>3, <2>3 DEF Open, PlainOne, Moves, OffsetSetters
<1>4. CASE i.op \in {"offset", "val_offset", "register", "same_value", "expression"}
  <2>1. next = [row EXCEPT !.withRules = @ \cup {i.reg},
                           !.registers[i.reg] = [rule |-> i.op, n |-> i.n]]
    BY <1>1, <1>2, <1>4 DEF Instructed
  <2>2. next = [PC |-> p, cfa |-> [reg |-> c, offset |-> o],
                registers |-> [g EXCEPT ![i.reg] = [rule |-> i.op, n |-> i.n]],
                withRules |-> w \cup {i.reg}, remembered |-> m, returned |-> e]
    BY <1>1, <2>1
  <2>3. MovedTo(i, p) = p
    BY <1>4 DEF MovedTo
  <2>4. /\ IsRow(next) /\ next.PC = p /\ next.cfa.reg = c /\ next.cfa.offset = o
        /\ next.registers = [g EXCEPT ![i.reg] = [rule |-> i.op, n |-> i.n]]
        /\ next.withRules = w \cup {i.reg} /\ next.returned = e
        /\ next.remembered = m
    BY ONLY <2>2, RowParts
  <2> QED  BY <1>2, <1>4, <2>3, <2>4 DEF SavedAt, PlainOne, Open, Moves, OffsetSetters
<1>5. CASE i.op \in {"def_cfa", "def_cfa_register", "def_cfa_offset", "def_cfa_expression"}
  <2>1. \E d, q : /\ next = [PC |-> p, cfa |-> [reg |-> d, offset |-> q], registers |-> g,
                             withRules |-> w, remembered |-> m, returned |-> e]
                  /\ d = IF i.op \in {"def_cfa", "def_cfa_register"} THEN i.reg
                         ELSE IF i.op = "def_cfa_expression" THEN "expression" ELSE c
                  /\ q = IF i.op \in OffsetSetters THEN i.n ELSE o
    <3>1. CASE i.op = "def_cfa"
      BY <1>1, <1>2, <3>1 DEF Instructed, OffsetSetters
    <3>2. CASE i.op = "def_cfa_register"
      BY <1>1, <1>2, <3>2 DEF Instructed, OffsetSetters
    <3>3. CASE i.op = "def_cfa_offset"
      BY <1>1, <1>2, <3>3 DEF Instructed, OffsetSetters
    <3>4. CASE i.op = "def_cfa_expression"
      BY <1>1, <1>2, <3>4 DEF Instructed, OffsetSetters
    <3> QED  BY <1>5, <3>1, <3>2, <3>3, <3>4
  <2>3. MovedTo(i, p) = p
    BY <1>5 DEF MovedTo
  <2>4. PICK d, q : /\ next = [PC |-> p, cfa |-> [reg |-> d, offset |-> q], registers |-> g,
                               withRules |-> w, remembered |-> m, returned |-> e]
                    /\ d = IF i.op \in {"def_cfa", "def_cfa_register"} THEN i.reg
                           ELSE IF i.op = "def_cfa_expression" THEN "expression" ELSE c
                    /\ q = IF i.op \in OffsetSetters THEN i.n ELSE o
    BY <2>1
  <2>5. /\ IsRow(next) /\ next.PC = p /\ next.cfa.reg = d /\ next.cfa.offset = q
        /\ next.registers = g /\ next.withRules = w /\ next.returned = e
        /\ next.remembered = m
    BY ONLY <2>4, RowParts
  <2> QED  BY <1>2, <1>5, <2>3, <2>4, <2>5 DEF Open, PlainOne, Moves
<1>6. CASE i.op \in {"undefined", "remember_state", "restore_state", "restore"}
  <2>1. \E h, v, q : /\ next = [PC |-> p, cfa |-> [reg |-> c, offset |-> o], registers |-> h,
                                withRules |-> v, remembered |-> q, returned |-> e]
                     /\ q = IF i.op = "remember_state" THEN Append(m, g)
                            ELSE IF i.op = "restore_state" THEN Front(m) ELSE m
    <3>1. CASE i.op = "undefined"
      BY <1>1, <1>2, <3>1 DEF Instructed
    <3>2. CASE i.op = "remember_state"
      BY <1>1, <1>2, <3>2 DEF Instructed
    <3>3. CASE i.op = "restore_state"
      BY <1>1, <1>2, <3>3 DEF Instructed
    <3>4. CASE i.op = "restore"
      BY <1>1, <1>2, <3>4 DEF Instructed
    <3> QED  BY <1>6, <3>1, <3>2, <3>3, <3>4
  <2>2. i.op \in {"remember_state", "restore"} => next.registers = g /\ next.withRules = w
    BY <1>1, <1>2 DEF Instructed
  <2>3. MovedTo(i, p) = p
    BY <1>6 DEF MovedTo
  <2>4. PICK h, v, q : /\ next = [PC |-> p, cfa |-> [reg |-> c, offset |-> o], registers |-> h,
                                  withRules |-> v, remembered |-> q, returned |-> e]
                       /\ q = IF i.op = "remember_state" THEN Append(m, g)
                              ELSE IF i.op = "restore_state" THEN Front(m) ELSE m
    BY <2>1
  <2>5. /\ IsRow(next) /\ next.PC = p /\ next.cfa.reg = c /\ next.cfa.offset = o
        /\ next.returned = e /\ next.remembered = q
    BY ONLY <2>4, RowParts
  <2> QED  BY <1>2, <1>6, <2>2, <2>3, <2>4, <2>5 DEF Open, PlainOne, Moves, OffsetSetters
<1>7. i.op \in Moves \cup {"offset", "val_offset", "register", "same_value", "expression",
                           "def_cfa", "def_cfa_register", "def_cfa_offset",
                           "def_cfa_expression", "undefined", "remember_state",
                           "restore_state", "restore"}
  BY DEF CFI
<1> QED  BY <1>3, <1>4, <1>5, <1>6, <1>7

\* One instruction more: the last that set something before it, or it.
LEMMA LastOneMore ==
  ASSUME NEW J, NEW k \in Nat, NEW ops
  PROVE  /\ J[k + 1].op \in ops =>
              \A i : LastIn(J, k + 1, ops, i) <=> i = k + 1
         /\ J[k + 1].op \notin ops =>
              \A i : LastIn(J, k + 1, ops, i) <=> LastIn(J, k, ops, i)
<1>1. \A i \in 1 .. k : k + 1 \in i + 1 .. k + 1
  OBVIOUS
<1>2. \A i \in 1 .. k : \A j : j \in i + 1 .. k + 1 <=> j \in i + 1 .. k \/ j = k + 1
  OBVIOUS
<1>3. \A i : i \in 1 .. k + 1 <=> i \in 1 .. k \/ i = k + 1
  OBVIOUS
<1>4. k + 1 \notin 1 .. k /\ (k + 1) + 1 .. k + 1 = {}
  OBVIOUS
<1>5. J[k + 1].op \in ops => \A i : LastIn(J, k + 1, ops, i) <=> i = k + 1
  <2> SUFFICES ASSUME J[k + 1].op \in ops, NEW i
               PROVE  LastIn(J, k + 1, ops, i) <=> i = k + 1
    OBVIOUS
  <2>1. CASE i = k + 1
    BY <1>3, <1>4, <2>1 DEF LastIn
  <2>2. CASE i \in 1 .. k
    BY <1>1, <1>4, <2>2 DEF LastIn
  <2> QED  BY ONLY <1>3, <2>1, <2>2 DEF LastIn
<1>6. J[k + 1].op \notin ops =>
        \A i : LastIn(J, k + 1, ops, i) <=> LastIn(J, k, ops, i)
  <2> SUFFICES ASSUME J[k + 1].op \notin ops, NEW i
               PROVE  LastIn(J, k + 1, ops, i) <=> LastIn(J, k, ops, i)
    OBVIOUS
  <2>1. CASE i = k + 1
    BY <1>4, <2>1 DEF LastIn
  <2>2. CASE i \in 1 .. k
    BY <1>2, <1>3, <2>2 DEF LastIn
  <2> QED  BY ONLY <1>3, <2>1, <2>2 DEF LastIn
<1> QED  BY <1>5, <1>6

\* The row after the first k, at which the next instruction is neither a move
\* beyond a nor asserted against, and how many sets are remembered.
Taken(row, next, J, k, a, n, kept) ==
  /\ k \in Nat /\ RowOf(row, J, k) /\ Open(row)
  /\ J[k + 1] \in CFI
  /\ J[k + 1].op \in Moves => ~Beyond(a, MovedTo(J[k + 1], row.PC))
  /\ CfaFirst(J, k + 1)
  /\ n \in 0 .. REG_STACK /\ Remembers(row, n)
  /\ kept \in 0 .. REG_STACK /\ kept = KeptOf(J[k + 1], n)
  /\ next = Instructed(row, J[k + 1], a)

\* Such an instruction keeps the row up to date.
LEMMA RowGrows ==
  ASSUME NEW J, NEW k, NEW row, NEW a, NEW n, NEW kept, NEW next,
         Taken(row, next, J, k, a, n, kept)
  PROVE  /\ RowOf(next, J, k + 1) /\ Open(next)
         /\ next.PC = MovedTo(J[k + 1], row.PC)
         /\ Remembers(next, kept)
<1>11. /\ k \in Nat /\ RowOf(row, J, k) /\ Open(row)
       /\ J[k + 1] \in CFI
       /\ J[k + 1].op \in Moves => ~Beyond(a, MovedTo(J[k + 1], row.PC))
       /\ CfaFirst(J, k + 1)
       /\ n \in 0 .. REG_STACK /\ Remembers(row, n)
       /\ kept \in 0 .. REG_STACK /\ kept = KeptOf(J[k + 1], n)
       /\ next = Instructed(row, J[k + 1], a)
  BY DEF Taken
<1> USE <1>11
<1>0. PICK i \in CFI : i = J[k + 1]
  OBVIOUS
<1>10. ~Fails(row, i)
  <2>1. CASE i.op = "remember_state"
    <3>1. kept = n + 1
      BY <1>0, <2>1 DEF KeptOf
    <3>2. n < REG_STACK
      BY <3>1 DEF REG_STACK
    <3>3. Len(row.remembered) = n
      BY DEF Remembers
    <3> QED  BY <2>1, <3>2, <3>3 DEF Fails
  <2>2. CASE i.op \in {"def_cfa_register", "def_cfa_offset"}
    <3>1. (k + 1) - 1 = k
      OBVIOUS
    <3>2. CfaGiven(J, k)
      BY <1>0, <2>2, <3>1 DEF CfaFirst, CfaGiven
    <3> QED  BY <2>2, <3>2 DEF Fails, RowOf
  <2> QED  BY <2>1, <2>2 DEF Fails
<1>1. /\ IsRow(next) /\ Open(next)
      /\ next.PC = MovedTo(i, row.PC)
      /\ next.cfa.reg = IF i.op \in {"def_cfa", "def_cfa_register"} THEN i.reg
                        ELSE IF i.op = "def_cfa_expression" THEN "expression"
                        ELSE row.cfa.reg
      /\ next.cfa.offset = IF i.op \in OffsetSetters THEN i.n ELSE row.cfa.offset
      /\ next.remembered = IF i.op = "remember_state"
                           THEN Append(row.remembered, row.registers)
                           ELSE IF i.op = "restore_state" THEN Front(row.remembered)
                           ELSE row.remembered
      /\ PlainOne(i) =>
           /\ next.withRules = IF i.op = "offset" THEN row.withRules \cup {i.reg}
                               ELSE row.withRules
           /\ next.registers = IF i.op = "offset"
                               THEN SavedAt(row.registers, i.reg, i.n)
                               ELSE row.registers
  <2>1. IsRow(row)
    BY DEF RowOf
  <2>2. i.op \in Moves => ~Beyond(a, MovedTo(i, row.PC))
    BY <1>0
  <2>3. next = Instructed(row, i, a)
    BY <1>0
  <2>4. Open(row) /\ i \in CFI
    BY <1>0
  <2> QED  BY ONLY <1>10, <2>1, <2>2, <2>3, <2>4, OneInstruction
<1>2. CfaRow(next, J, k + 1)
  <2>1. CASE i.op \in CfaSetters
    <3>1. \A j : LastIn(J, k + 1, CfaSetters, j) <=> j = k + 1
      BY <1>0, <2>1, LastOneMore
    <3>2. next.cfa.reg = IF i.op = "def_cfa_expression" THEN "expression" ELSE i.reg
      BY <1>1, <2>1 DEF CfaSetters
    <3>3. k + 1 \in 1 .. k + 1
      OBVIOUS
    <3> QED  BY <1>0, <3>1, <3>2, <3>3 DEF CfaRow
  <2>2. CASE i.op \notin CfaSetters
    <3>1. \A j : LastIn(J, k + 1, CfaSetters, j) <=> LastIn(J, k, CfaSetters, j)
      BY <1>0, <2>2, LastOneMore
    <3>2. next.cfa.reg = row.cfa.reg
      BY <1>1, <2>2 DEF CfaSetters
    <3>3. \A j : LastIn(J, k, CfaSetters, j) => j \in 1 .. k /\ j \in 1 .. k + 1
      BY DEF LastIn
    <3>4. CfaRow(row, J, k)
      BY DEF RowOf
    <3> QED  BY <3>1, <3>2, <3>3, <3>4 DEF CfaRow
  <2> QED  BY <2>1, <2>2
<1>3. ASSUME \A j \in 1 .. k + 1 : PlainOne(J[j])
      PROVE  PlainRow(next, J, k + 1)
  <2>1. PlainRow(row, J, k) /\ PlainOne(i)
    BY <1>0, <1>3 DEF RowOf
  <2>2. ASSUME NEW j \in 1 .. k + 1, LastIn(J, k + 1, OffsetSetters, j)
        PROVE  next.cfa.offset = J[j].n
    <3>1. CASE i.op \in OffsetSetters
      BY <1>0, <1>1, <2>2, <3>1, LastOneMore
    <3>2. CASE i.op \notin OffsetSetters
      <4>1. LastIn(J, k, OffsetSetters, j) /\ j \in 1 .. k
        BY <1>0, <2>2, <3>2, LastOneMore DEF LastIn
      <4> QED  BY <1>1, <2>1, <3>2, <4>1 DEF PlainRow
    <3> QED  BY <3>1, <3>2
  <2>3. \A r : (\E j \in 1 .. k + 1 : J[j].op = "offset" /\ J[j].reg = r)
                 <=> \/ \E j \in 1 .. k : J[j].op = "offset" /\ J[j].reg = r
                     \/ i.op = "offset" /\ i.reg = r
    BY <1>0
  <2>4. \A r : r \in row.withRules <=> \E j \in 1 .. k : J[j].op = "offset" /\ J[j].reg = r
    BY <2>1 DEF PlainRow
  <2>5. CASE i.op = "offset"
    <3>1. /\ i.reg \in {"rip", "rbp"}
          /\ [rule |-> "offset", n |-> i.n] = Saved(i.reg)
      BY <2>1, <2>5 DEF PlainOne, Moves, Saved
    <3>2. DOMAIN row.registers = Registers
      BY <2>1 DEF PlainRow
    <3>3. /\ next.withRules = row.withRules \cup {i.reg}
          /\ next.registers = [row.registers EXCEPT ![i.reg] = Saved(i.reg)]
      BY <1>1, <2>1, <2>5, <3>1 DEF SavedAt
    <3>4. DOMAIN next.registers = Registers
      BY <3>2, <3>3
    <3>5. \A r \in next.withRules : r \in {"rip", "rbp"} /\ next.registers[r] = Saved(r)
      <4> SUFFICES ASSUME NEW r \in next.withRules
                   PROVE  r \in {"rip", "rbp"} /\ next.registers[r] = Saved(r)
        OBVIOUS
      <4>1. CASE r = i.reg
        BY <3>1, <3>2, <3>3, <4>1 DEF Registers
      <4>2. CASE r # i.reg
        <5>1. r \in row.withRules
          BY <3>3, <4>2
        <5>2. r \in {"rip", "rbp"} /\ row.registers[r] = Saved(r)
          BY <2>1, <5>1 DEF PlainRow
        <5> QED  BY <3>2, <3>3, <4>2, <5>2 DEF Registers
      <4> QED  BY <4>1, <4>2
    <3>6. \A r : r \in next.withRules
                   <=> \E j \in 1 .. k + 1 : J[j].op = "offset" /\ J[j].reg = r
      BY <2>3, <2>4, <2>5, <3>3
    <3>7. \A r \in Registers \ next.withRules : next.registers[r].rule = "undefined"
      <4>1. \A r \in Registers \ next.withRules :
              r # i.reg /\ r \in Registers \ row.withRules
        BY <3>3
      <4>2. \A r \in Registers : r # i.reg => next.registers[r] = row.registers[r]
        BY <3>2, <3>3
      <4> QED  BY <2>1, <4>1, <4>2 DEF PlainRow
    <3> QED  BY <2>2, <3>4, <3>5, <3>6, <3>7 DEF PlainRow
  <2>6. CASE i.op # "offset"
    <3>1. next.withRules = row.withRules /\ next.registers = row.registers
      BY <1>1, <2>1, <2>6
    <3>2. \A r : r \in next.withRules
                   <=> \E j \in 1 .. k + 1 : J[j].op = "offset" /\ J[j].reg = r
      BY <2>3, <2>4, <2>6, <3>1
    <3> QED  BY <2>1, <2>2, <3>1, <3>2 DEF PlainRow
  <2> QED  BY <2>5, <2>6
<1>4. ASSUME CfaGiven(J, k + 1)
      PROVE  next.cfa.reg \in Registers
  <2>1. PICK h \in 1 .. k + 1 : /\ J[h].op = "def_cfa"
                                /\ \A g \in h .. k + 1 : J[g].op # "def_cfa_expression"
    BY <1>4 DEF CfaGiven
  <2>2. i.op # "def_cfa_expression"
    BY <1>0, <2>1
  <2>3. CASE i.op \in {"def_cfa", "def_cfa_register"}
    <3>1. i.reg \in Registers
      BY <2>3 DEF CFI, Moves
    <3> QED  BY <1>1, <2>3, <3>1
  <2>4. CASE i.op \notin {"def_cfa", "def_cfa_register"}
    <3>1. h \in 1 .. k
      BY <1>0, <2>1, <2>4
    <3>2. CfaGiven(J, k)
      BY <2>1, <3>1 DEF CfaGiven
    <3> QED  BY <1>1, <2>2, <2>4, <3>2 DEF RowOf
  <2> QED  BY <2>3, <2>4
<1>5. Remembers(next, kept)
  <2>1. PICK S : row.remembered \in Seq(S) /\ Len(row.remembered) = n
    BY DEF Remembers
  <2>2. PICK m \in Seq(S) : m = row.remembered
    BY <2>1
  <2>3. PICK g : g = row.registers
    OBVIOUS
  <2>4. CASE i.op = "remember_state"
    <3>1. PICK R : R = S \cup {g}
      OBVIOUS
    <3>2. m \in Seq(R) /\ g \in R
      BY <3>1
    <3>3. Append(m, g) \in Seq(R) /\ Len(Append(m, g)) = Len(m) + 1
      BY <3>2
    <3>4. kept = n + 1
      BY <1>0, <2>4 DEF KeptOf
    <3>5. next.remembered = Append(m, g)
      BY <1>1, <2>2, <2>3, <2>4
    <3> QED  BY <2>1, <2>2, <3>3, <3>4, <3>5 DEF Remembers
  <2>5. CASE i.op = "restore_state"
    <3>1. kept = n - 1
      BY <1>0, <2>5 DEF KeptOf
    <3>2. Len(m) = n /\ n \in 1 .. REG_STACK /\ Len(m) - 1 \in Nat
      BY <2>1, <2>2, <3>1
    <3>3. Front(m) \in Seq(S) /\ Len(Front(m)) = n - 1
      BY <3>2 DEF Front
    <3>4. next.remembered = Front(m)
      BY <1>1, <2>2, <2>5
    <3> QED  BY <3>1, <3>3, <3>4 DEF Remembers
  <2>6. CASE i.op \notin {"remember_state", "restore_state"}
    <3>1. kept = n /\ next.remembered = row.remembered
      BY <1>0, <1>1, <2>6 DEF KeptOf
    <3> QED  BY <2>1, <3>1 DEF Remembers
  <2> QED  BY <2>4, <2>5, <2>6
<1> QED  BY <1>0, <1>1, <1>2, <1>3, <1>4, <1>5 DEF RowOf

\* Forgetting the remembered rules, or ending, leaves what a row says.
LEMMA RowKept ==
  ASSUME NEW J, NEW k, NEW row, RowOf(row, J, k), NEW next,
         \/ next = [row EXCEPT !.remembered = <<>>]
         \/ next = [row EXCEPT !.returned = TRUE]
  PROVE  RowOf(next, J, k)
<1>1. PICK p, c, o, g, w, m, e :
        row = [PC |-> p, cfa |-> [reg |-> c, offset |-> o], registers |-> g,
               withRules |-> w, remembered |-> m, returned |-> e]
  BY DEF RowOf, IsRow
<1>2. /\ row.cfa.reg = c /\ row.cfa.offset = o /\ row.registers = g /\ row.withRules = w
  BY <1>1
<1>3. PICK n, f : next = [PC |-> p, cfa |-> [reg |-> c, offset |-> o], registers |-> g,
                          withRules |-> w, remembered |-> n, returned |-> f]
  <2>1. CASE next = [row EXCEPT !.remembered = <<>>]
    <3>1. next = [PC |-> p, cfa |-> [reg |-> c, offset |-> o], registers |-> g,
                  withRules |-> w, remembered |-> <<>>, returned |-> e]
      BY <1>1, <2>1
    <3> QED  BY <3>1
  <2>2. CASE next = [row EXCEPT !.returned = TRUE]
    <3>1. PICK f : f = TRUE
      OBVIOUS
    <3>2. next = [PC |-> p, cfa |-> [reg |-> c, offset |-> o], registers |-> g,
                  withRules |-> w, remembered |-> m, returned |-> f]
      BY <1>1, <2>2, <3>1
    <3> QED  BY <3>2
  <2> QED  BY <2>1, <2>2
<1>4. /\ IsRow(next) /\ next.cfa.reg = c /\ next.cfa.offset = o
      /\ next.registers = g /\ next.withRules = w
  BY ONLY <1>3, RowParts
<1>5. CfaRow(row, J, k) => CfaRow(next, J, k)
  BY <1>2, <1>4 DEF CfaRow
<1>6. PlainRow(row, J, k) => PlainRow(next, J, k)
  BY <1>2, <1>4 DEF PlainRow
<1> QED  BY <1>2, <1>4, <1>5, <1>6 DEF RowOf

\* The first m of some instructions, which J has behind its first o, are the
\* ones up to the first move beyond a; p is where they get, q how many sets are
\* remembered.
FirstOf(J, o, is, m, a, p, q) ==
  /\ o \in Nat /\ Len(is) \in Nat /\ m \in 0 .. Len(is)
  /\ \A k \in 1 .. Len(is) : is[k] \in CFI
  /\ \A k \in 1 .. m : /\ J[o + k] = is[k] /\ p[k] = MovedTo(is[k], p[k - 1])
                       /\ is[k].op \in Moves => ~Beyond(a, p[k])
                       /\ CfaFirst(J, o + k)
                       /\ q[k] = KeptOf(is[k], q[k - 1]) /\ q[k] \in 0 .. REG_STACK
  /\ q[0] = 0
  /\ m < Len(is) => /\ is[m + 1].op \in Moves
                    /\ Beyond(a, MovedTo(is[m + 1], p[m]))

\* FrameInstructionsUntilPC takes these.
LEMMA UntilRow ==
  ASSUME NEW J, NEW o, NEW is, NEW m, NEW a, NEW p, NEW q, FirstOf(J, o, is, m, a, p, q),
         NEW row, RowOf(row, J, o), Open(row), p[0] = row.PC,
         NEW result, result = FrameInstructionsUntilPC(row, is, a)
  PROVE  /\ RowOf(result, J, o + m)
         /\ m = Len(is) => Open(result) /\ result.PC = p[m]
<1>0. /\ o \in Nat /\ Len(is) \in Nat /\ m \in 0 .. Len(is)
      /\ \A k \in 1 .. Len(is) : is[k] \in CFI
      /\ \A k \in 1 .. m : /\ J[o + k] = is[k] /\ p[k] = MovedTo(is[k], p[k - 1])
                           /\ is[k].op \in Moves => ~Beyond(a, p[k])
                           /\ CfaFirst(J, o + k)
                           /\ q[k] = KeptOf(is[k], q[k - 1]) /\ q[k] \in 0 .. REG_STACK
      /\ q[0] = 0
      /\ m < Len(is) => /\ is[m + 1].op \in Moves
                        /\ Beyond(a, MovedTo(is[m + 1], p[m]))
  BY DEF FirstOf
<1> USE <1>0
<1>1. PICK after :
        /\ after[0] = [row EXCEPT !.remembered = <<>>]
        /\ \A k \in 1 .. Len(is) : after[k] = Instructed(after[k - 1], is[k], a)
        /\ result = after[Len(is)]
  BY RowsFollow
<1> DEFINE Good(k) == /\ RowOf(after[k], J, o + k) /\ Open(after[k]) /\ after[k].PC = p[k]
                      /\ Remembers(after[k], q[k])
           S == {k \in 0 .. m : ~Good(k)}
<1>2. Good(0)
  <2>1. RowOf(after[0], J, o)
    BY <1>1, RowKept
  <2>2. after[0].PC = row.PC /\ Open(after[0])
    BY <1>1 DEF RowOf, IsRow, Open
  <2>3. Remembers(after[0], 0)
    <3>1. after[0].remembered = <<>>
      BY <1>1 DEF RowOf, IsRow
    <3>2. <<>> \in Seq({}) /\ Len(<<>>) = 0
      OBVIOUS
    <3> QED  BY <3>1, <3>2 DEF Remembers
  <2> QED  BY <2>1, <2>2, <2>3
<1>3. ASSUME NEW k \in 1 .. m, Good(k - 1)
      PROVE  Good(k)
  <2>1. /\ after[k] = Instructed(after[k - 1], is[k], a)
        /\ is[k] \in CFI /\ J[o + k] = is[k] /\ p[k] = MovedTo(is[k], p[k - 1])
        /\ is[k].op \in Moves => ~Beyond(a, p[k])
        /\ CfaFirst(J, o + k)
        /\ q[k] = KeptOf(is[k], q[k - 1]) /\ q[k] \in 0 .. REG_STACK
    BY <1>1
  <2>9. q[k - 1] \in 0 .. REG_STACK
    <3>1. CASE k = 1
      BY <3>1 DEF REG_STACK
    <3>2. CASE k # 1
      <4>1. k - 1 \in 1 .. m
        BY <3>2
      <4> QED  BY <4>1
    <3> QED  BY <3>1, <3>2
  <2>2. PICK n \in Nat : n = o + (k - 1)
    OBVIOUS
  <2>3. n + 1 = o + k
    BY <2>2
  <2>4. PICK before : before = after[k - 1]
    OBVIOUS
  <2>5. /\ RowOf(before, J, n) /\ Open(before) /\ before.PC = p[k - 1]
        /\ Remembers(before, q[k - 1])
    BY <1>3, <2>2, <2>4
  <2>6. PICK next : next = after[k]
    OBVIOUS
  <2>7. /\ J[n + 1] \in CFI
        /\ J[n + 1].op \in Moves => ~Beyond(a, MovedTo(J[n + 1], before.PC))
        /\ next = Instructed(before, J[n + 1], a)
    BY <2>1, <2>3, <2>4, <2>5, <2>6
  <2>10. PICK c \in 0 .. REG_STACK, d \in 0 .. REG_STACK : c = q[k - 1] /\ d = q[k]
    BY <2>1, <2>9
  <2>11. CfaFirst(J, n + 1) /\ Remembers(before, c) /\ d = KeptOf(J[n + 1], c)
    BY <2>1, <2>3, <2>5, <2>10
  <2>8. /\ RowOf(next, J, n + 1) /\ Open(next)
        /\ next.PC = MovedTo(J[n + 1], before.PC)
        /\ Remembers(next, d)
    <3>1. Taken(before, next, J, n, a, c, d)
      BY ONLY <2>5, <2>7, <2>11, n \in Nat, c \in 0 .. REG_STACK, d \in 0 .. REG_STACK
         DEF Taken
    <3> QED  BY ONLY <3>1, RowGrows
  <2> QED  BY <2>1, <2>3, <2>5, <2>6, <2>8, <2>10
<1>4. S = {}
  <2> SUFFICES ASSUME S # {} PROVE FALSE
    OBVIOUS
  <2>1. S \subseteq Nat
    OBVIOUS
  <2>2. PICK k \in S : \A r \in S : k <= r
    BY <2>1, HasLeast
  <2> HIDE DEF Good
  <2>3. k \in 1 .. m /\ k - 1 \in 0 .. m
    BY <1>2, <2>2
  <2>4. k - 1 \notin S
    BY <2>1, <2>2, <2>3
  <2> QED  BY <1>3, <2>3, <2>4
<1>5. Good(m)
  BY <1>4
<1>6. CASE m = Len(is)
  BY <1>1, <1>5, <1>6
<1>7. CASE m # Len(is)
  <2>1. m + 1 \in 1 .. Len(is) /\ m < Len(is)
    BY <1>7
  <2>2. PICK last : last = after[m]
    OBVIOUS
  <2>3. RowOf(last, J, o + m) /\ Open(last) /\ last.PC = p[m]
    BY <1>5, <2>2
  <2>4. after[m + 1] = Instructed(last, is[m + 1], a)
    BY <1>1, <2>1, <2>2
  <2>5. Beyond(a, MovedTo(is[m + 1], p[m])) /\ is[m + 1].op \in Moves
    BY <2>1
  <2>6. after[m + 1] = [last EXCEPT !.returned = TRUE]
    <3>1. CASE is[m + 1].op = "advance_loc"
      BY <2>3, <2>4, <2>5, <3>1 DEF Instructed, Fails, Advanced, MovedTo, Open
    <3>2. CASE is[m + 1].op = "set_loc"
      BY <2>3, <2>4, <2>5, <3>2 DEF Instructed, Fails, Advanced, MovedTo, Open
    <3> QED  BY <2>5, <3>1, <3>2 DEF Moves
  <2>7. RowOf(after[m + 1], J, o + m)
    BY <2>3, <2>6, RowKept
  <2>8. after[m + 1].returned = TRUE
    BY <2>3, <2>6 DEF RowOf, IsRow
  <2> DEFINE T == {k \in m + 1 .. Len(is) : after[k] # after[m + 1]}
  <2>9. T = {}
    <3> SUFFICES ASSUME T # {} PROVE FALSE
      OBVIOUS
    <3>1. T \subseteq Nat
      OBVIOUS
    <3>2. PICK k \in T : \A r \in T : k <= r
      BY <3>1, HasLeast
    <3>3. k \in m + 2 .. Len(is) /\ k - 1 \in m + 1 .. Len(is) /\ k \in 1 .. Len(is)
      BY <3>2
    <3>4. k - 1 \notin T
      BY <3>1, <3>2, <3>3
    <3>5. after[k] = Instructed(after[m + 1], is[k], a)
      <4>1. after[k] = Instructed(after[k - 1], is[k], a)
        BY <1>1, <3>3
      <4>2. after[k - 1] = after[m + 1]
        BY <3>3, <3>4
      <4> QED  BY <4>1, <4>2
    <3>6. after[k] = after[m + 1]
      BY <2>8, <3>5 DEF Instructed
    <3> QED  BY <3>2, <3>6
  <2>10. result = after[m + 1]
    <3>1. Len(is) \in m + 1 .. Len(is)
      BY <2>1
    <3>2. after[Len(is)] = after[m + 1]
      BY <2>9, <3>1
    <3> QED  BY <1>1, <3>2
  <2> QED  BY <1>7, <2>7, <2>10
<1> QED  BY <1>6, <1>7

\* The locations of an FDE are numbers.
LEMMA PlacesNumbers ==
  ASSUME NEW f, f.location \in Int, f.instructions \in Seq(CFI)
  PROVE  \A k \in 0 .. Len(f.instructions) : Places(f)[k] \in Int
<1> DEFINE S == {k \in 0 .. Len(f.instructions) : Places(f)[k] \notin Int}
<1>1. Len(f.instructions) \in Nat
      /\ \A k \in 1 .. Len(f.instructions) : f.instructions[k] \in CFI
  OBVIOUS
<1>2. /\ Places(f)[0] = f.location
      /\ \A k \in 1 .. Len(f.instructions) :
           Places(f)[k] = MovedTo(f.instructions[k], Places(f)[k - 1])
  BY <1>1, PlacesFollow
<1>3. ASSUME NEW i \in CFI, NEW p \in Int
      PROVE  MovedTo(i, p) \in Int
  <2>1. i.op \in Moves => i.n \in Int
    BY DEF CFI, Moves
  <2> QED  BY <2>1 DEF MovedTo, Moves
<1>4. S = {}
  <2> SUFFICES ASSUME S # {} PROVE FALSE
    OBVIOUS
  <2>1. S \subseteq Nat
    BY <1>1
  <2>2. PICK k \in S : \A r \in S : k <= r
    BY <2>1, HasLeast
  <2>3. k \in 1 .. Len(f.instructions) /\ k - 1 \in 0 .. Len(f.instructions)
    BY <1>1, <1>2, <2>2
  <2>4. k - 1 \notin S
    BY <2>1, <2>2, <2>3
  <2>5. Places(f)[k - 1] \in Int
    BY <2>3, <2>4
  <2> QED  BY <1>1, <1>2, <1>3, <2>2, <2>3, <2>5
<1> QED  BY <1>4

\* What the map of the FDEs holds.
LEMMA FoundFDE ==
  ASSUME NEW L, Described(L), NEW a \in DOMAIN Code, HasFunction(a)
  PROVE  FindFDE(a).location \in Int /\ FindFDE(a).instructions \in Seq(CFI)
<1>1. PICK i \in DOMAIN FDEs : FindFDE(a) = FDEs[i]
  BY DEF Described
<1>2. FDEs \in Seq([location : Word, instructions : Seq(CFI)])
  BY DEF Described, FrameData
<1>3. \A S : FDEs \in Seq(S) => FDEs[i] \in S
  OBVIOUS
<1>4. Word \subseteq Int
  BY LineTableAssumption DEF Word
<1>5. FDEs[i] \in [location : Word, instructions : Seq(CFI)]
  BY <1>2, <1>3
<1> QED  BY <1>1, <1>4, <1>5

\* One sequence behind another.
LEMMA Joined ==
  ASSUME NEW S, NEW s \in Seq(S), NEW t \in Seq(S)
  PROVE  /\ s \o t \in Seq(S) /\ Len(s \o t) = Len(s) + Len(t)
         /\ \A k \in 1 .. Len(s) : (s \o t)[k] = s[k]
         /\ \A k \in 1 .. Len(t) : (s \o t)[Len(s) + k] = t[k]
<1>1. Len(s) \in Nat /\ Len(t) \in Nat
  OBVIOUS
<1>2. \A k \in 1 .. Len(s) + Len(t) :
        (s \o t)[k] = IF k <= Len(s) THEN s[k] ELSE t[k - Len(s)]
  OBVIOUS
<1>3. \A k \in 1 .. Len(t) : /\ Len(s) + k \in 1 .. Len(s) + Len(t)
                             /\ ~(Len(s) + k <= Len(s)) /\ (Len(s) + k) - Len(s) = k
  BY <1>1
<1>4. \A k \in 1 .. Len(s) : k \in 1 .. Len(s) + Len(t) /\ k <= Len(s)
  BY <1>1
<1>5. s \o t \in Seq(S) /\ Len(s \o t) = Len(s) + Len(t)
  OBVIOUS
<1> QED  BY <1>2, <1>3, <1>4, <1>5

\* The row of an address is what the instructions that hold there say.
LEMMA FrameRow ==
  ASSUME NEW L, Described(L), NEW a \in DOMAIN Code, HasFunction(a)
  PROVE  /\ Holding(a) \in Seq(CFI)
         /\ RowOf(GetFrameRowAtPC[a], Holding(a), Len(Holding(a)))
<1> DEFINE f == FindFDE(a)
           is == f.instructions
           J == Holding(a)
<1>1. f.location \in Int /\ is \in Seq(CFI)
  BY FoundFDE
<1>2. PICK m \in 0 .. Len(is) :
        Until(f, a, m) /\ J = Initial \o SubSeq(is, 1, m)
  <2>1. \E m \in 0 .. Len(is) : Until(f, a, m)
    BY DEF Described
  <2> QED  BY <2>1 DEF Holding
<1>3. /\ Initial \in Seq(CFI) /\ Len(Initial) \in Nat
      /\ \A k \in 1 .. Len(Initial) : Initial[k] \in CFI /\ Initial[k].op \notin Moves
  BY DEF Described, FrameData
<1>4. Len(is) \in Nat /\ \A k \in 1 .. Len(is) : is[k] \in CFI
  BY <1>1
<1>5. /\ SubSeq(is, 1, m) \in Seq(CFI) /\ Len(SubSeq(is, 1, m)) = m
      /\ \A k \in 1 .. m : SubSeq(is, 1, m)[k] = is[k]
  BY <1>1, <1>4
<1>6. /\ J \in Seq(CFI) /\ Len(J) = Len(Initial) + m
      /\ \A k \in 1 .. Len(Initial) : J[k] = Initial[k]
      /\ \A k \in 1 .. m : J[Len(Initial) + k] = is[k]
  <2>1. PICK s \in Seq(CFI) : s = SubSeq(is, 1, m)
    BY <1>5
  <2>2. J = Initial \o s /\ Len(s) = m /\ \A k \in 1 .. m : s[k] = is[k]
    BY <1>2, <1>5, <2>1
  <2> HIDE DEF J, is
  <2>3. /\ Initial \o s \in Seq(CFI) /\ Len(Initial \o s) = Len(Initial) + Len(s)
        /\ \A k \in 1 .. Len(Initial) : (Initial \o s)[k] = Initial[k]
        /\ \A k \in 1 .. Len(s) : (Initial \o s)[Len(Initial) + k] = s[k]
    BY <1>3, Joined
  <2> QED  BY <2>2, <2>3
<1>11. \A k \in 1 .. Len(J) : CfaFirst(J, k)
  <2>1. \A k \in DOMAIN J : CfaFirst(J, k)
    BY DEF Described
  <2> HIDE DEF J
  <2> QED  BY <1>6, <2>1
<1>12. /\ Remembered(Initial)[0] = 0 /\ Remembered(is)[0] = 0
       /\ \A k \in 1 .. Len(Initial) :
            /\ Remembered(Initial)[k] = KeptOf(Initial[k], Remembered(Initial)[k - 1])
            /\ Remembered(Initial)[k] \in 0 .. REG_STACK
       /\ \A k \in 1 .. Len(is) :
            /\ Remembered(is)[k] = KeptOf(is[k], Remembered(is)[k - 1])
            /\ Remembered(is)[k] \in 0 .. REG_STACK
  <2>1. Balanced(Initial) /\ Balanced(is)
    BY DEF Described
  <2> HIDE DEF is
  <2> QED  BY <1>3, <1>4, <2>1, RememberedFollows DEF Balanced
<1> DEFINE row == NewRow(f.location)
           begun == FrameInstructionsUntilPC(row, Initial, WordSize)
           done == FrameInstructionsUntilPC(begun, is, a)
<1>7. RowOf(row, J, 0) /\ Open(row) /\ row.PC = f.location
  <2>1. PICK e : e = FALSE
    OBVIOUS
  <2>2. PICK g : g = [r \in Registers |-> [rule |-> "undefined", n |-> 0]]
    OBVIOUS
  <2>3. row = [PC |-> f.location, cfa |-> [reg |-> "none", offset |-> 0],
               registers |-> g, withRules |-> {}, remembered |-> <<>>, returned |-> e]
    BY <2>1, <2>2 DEF NewRow
  <2>4. /\ IsRow(row) /\ row.PC = f.location /\ row.cfa.reg = "none"
        /\ row.registers = g /\ row.withRules = {} /\ row.returned = e
    BY ONLY <2>3, RowParts
  <2> HIDE DEF row
  <2>5. DOMAIN g = Registers
    BY <2>2
  <2>6. 1 .. 0 = {}
    OBVIOUS
  <2>7. \A r \in Registers : g[r].rule = "undefined"
    BY <2>2
  <2>8. CfaRow(row, J, 0) /\ PlainRow(row, J, 0) /\ ~CfaGiven(J, 0)
    BY <2>4, <2>5, <2>6, <2>7 DEF CfaRow, PlainRow, CfaGiven
  <2> QED  BY <2>1, <2>4, <2>8 DEF RowOf, Open
<1>8. RowOf(begun, J, Len(Initial)) /\ Open(begun) /\ begun.PC = f.location
  <2> DEFINE p == [k \in 0 .. Len(Initial) |-> f.location]
  <2>1. /\ p[0] = row.PC /\ p[Len(Initial)] = f.location
        /\ \A k \in 1 .. Len(Initial) : p[k] = f.location /\ p[k - 1] = f.location
    BY <1>3, <1>7
  <2>2. \A k \in 1 .. Len(Initial) : MovedTo(Initial[k], f.location) = f.location
    BY <1>3 DEF MovedTo, Moves
  <2>3. \A k \in 1 .. Len(Initial) : J[0 + k] = Initial[k]
    BY <1>3, <1>6
  <2> DEFINE q == Remembered(Initial)
  <2>12. \A k \in 1 .. Len(Initial) : CfaFirst(J, 0 + k)
    BY <1>3, <1>6, <1>11
  <2>13. /\ q[0] = 0
         /\ \A k \in 1 .. Len(Initial) : /\ q[k] = KeptOf(Initial[k], q[k - 1])
                                          /\ q[k] \in 0 .. REG_STACK
    BY <1>12
  <2> HIDE DEF p, q, row, J, f
  <2>4. PICK o, m1, result : o = 0 /\ m1 = Len(Initial) /\ result = begun
    OBVIOUS
  <2>5. FirstOf(J, o, Initial, m1, WordSize, p, q)
    <3>1. \A k \in 1 .. m1 : /\ J[o + k] = Initial[k]
                              /\ p[k] = MovedTo(Initial[k], p[k - 1])
                              /\ Initial[k].op \notin Moves
      BY <1>3, <2>1, <2>2, <2>3, <2>4
    <3>3. \A k \in 1 .. m1 : /\ CfaFirst(J, o + k)
                              /\ q[k] = KeptOf(Initial[k], q[k - 1])
                              /\ q[k] \in 0 .. REG_STACK
      BY <2>4, <2>12, <2>13
    <3>2. o \in Nat /\ m1 \in 0 .. Len(Initial) /\ ~(m1 < Len(Initial))
      BY <1>3, <2>4
    <3> QED  BY <1>3, <2>13, <3>1, <3>2, <3>3 DEF FirstOf
  <2>8. RowOf(row, J, o) /\ Open(row) /\ p[0] = row.PC
    BY <1>7, <2>1, <2>4
  <2>9. result = FrameInstructionsUntilPC(row, Initial, WordSize)
    BY <2>4
  <2>10. /\ RowOf(result, J, o + m1)
         /\ m1 = Len(Initial) => Open(result) /\ result.PC = p[m1]
    BY <2>5, <2>8, <2>9, UntilRow
  <2>11. o + m1 = Len(Initial)
    BY <1>3, <2>4
  <2> QED  BY <2>1, <2>4, <2>10, <2>11
<1>9. RowOf(done, J, Len(Initial) + m)
  <2>1. /\ Places(f)[0] = begun.PC
        /\ \A k \in 1 .. Len(is) : Places(f)[k] = MovedTo(is[k], Places(f)[k - 1])
    BY <1>4, <1>8, PlacesFollow
  <2>2. \A k \in 0 .. Len(is) : Places(f)[k] \in Int
    BY <1>1, PlacesNumbers
  <2>3. a \in Int
    BY LineTableAssumption, UnwindAssumption DEF Word
  <2> DEFINE p == Places(f)
  <2>4. \A k \in 1 .. m : is[k].op \in Moves => ~Beyond(a, p[k])
    <3>1. \A k \in 1 .. m : is[k].op \in Moves => Places(f)[k] <= a
      BY <1>2 DEF Until
    <3>2. \A k \in 1 .. m : Places(f)[k] \in Int
      BY <1>4, <2>2
    <3> HIDE DEF f, is
    <3> QED  BY <2>3, <3>1, <3>2 DEF Beyond
  <2>5. m < Len(is) => is[m + 1].op \in Moves /\ Beyond(a, MovedTo(is[m + 1], p[m]))
    <3> SUFFICES ASSUME m < Len(is)
                 PROVE  is[m + 1].op \in Moves /\ Beyond(a, MovedTo(is[m + 1], p[m]))
      OBVIOUS
    <3>1. m + 1 \in 1 .. Len(is) /\ (m + 1) - 1 = m
      OBVIOUS
    <3>2. p[m + 1] = MovedTo(is[m + 1], p[m])
      BY <2>1, <3>1
    <3>3. is[m + 1].op \in Moves /\ p[m + 1] > a
      BY <1>2 DEF Until
    <3>4. p[m + 1] \in Int
      BY <2>2, <3>1
    <3> HIDE DEF p, is
    <3>5. a < p[m + 1]
      BY <2>3, <3>3, <3>4
    <3> QED  BY <3>2, <3>3, <3>5 DEF Beyond
  <2> DEFINE q == Remembered(is)
  <2>6. FirstOf(J, Len(Initial), is, m, a, p, q)
    <3>1. \A k \in 1 .. m : k \in 1 .. Len(is)
      BY <1>4
    <3>3. \A k \in 1 .. m : /\ CfaFirst(J, Len(Initial) + k)
                             /\ q[k] = KeptOf(is[k], q[k - 1])
                             /\ q[k] \in 0 .. REG_STACK
      <4>1. \A k \in 1 .. m : Len(Initial) + k \in 1 .. Len(J)
        BY <1>3, <1>6
      <4> QED  BY <1>11, <1>12, <3>1, <4>1
    <3>4. q[0] = 0
      BY <1>12
    <3> HIDE DEF J, is, f, begun, p, q
    <3>2. \A k \in 1 .. m : J[Len(Initial) + k] = is[k] /\ p[k] = MovedTo(is[k], p[k - 1])
      BY <1>6, <2>1, <3>1 DEF p
    <3> QED  BY <1>3, <1>4, <2>4, <2>5, <3>2, <3>3, <3>4 DEF FirstOf
  <2>7. PICK result, before : result = done /\ before = begun
    OBVIOUS
  <2> HIDE DEF p, q, J, is, f, begun
  <2>8. p[0] = before.PC
    BY <2>1, <2>7 DEF p
  <2>9. result = FrameInstructionsUntilPC(before, is, a)
    BY <2>7
  <2>10. RowOf(before, J, Len(Initial)) /\ Open(before)
    BY <1>8, <2>7
  <2>11. RowOf(result, J, Len(Initial) + m)
    BY <2>6, <2>8, <2>9, <2>10, UntilRow
  <2> QED  BY <2>7, <2>11
<1>10. GetFrameRowAtPC[a] = done
  <2>1. a \in Word
    BY UnwindAssumption
  <2> QED  BY <2>1 DEF GetFrameRowAtPC
<1> QED  BY <1>6, <1>9, <1>10

-----------------------------------------------------------------------------
(* What a row yields                                                       *)

\* The value of a register that is saved.
LEMMA SavedValue ==
  ASSUME NEW row, DOMAIN row.registers = Registers,
         \A r \in Registers : \/ row.registers[r] = Saved(r)
                              \/ row.registers[r].rule = "undefined",
         NEW reg \in Registers, row.registers[reg] = Saved(reg), NEW cfa, NEW junk
  PROVE  GetRegInFrameRow(row, cfa, reg, junk)
           = ReadWord((cfa + (IF reg = "rip" THEN -1 ELSE -2)) % WordSize, junk)
<1> DEFINE Body(v) ==
             [r \in Registers |->
                LET rule == row.registers[r]
                IN  IF rule.rule = "register" THEN v[rule.n]
                    ELSE ValueOf(rule, cfa, junk)]
           value == CHOOSE v : v = Body(v)
<1>1. GetRegInFrameRow(row, cfa, reg, junk) = value[reg]
  BY DEF GetRegInFrameRow
<1>2. \E v : v = Body(v)
  <2> DEFINE w == [r \in Registers |-> ValueOf(row.registers[r], cfa, junk)]
  <2>1. \A r \in Registers : row.registers[r].rule # "register"
    <3>1. \A r : Saved(r).rule = "offset"
      BY DEF Saved
    <3> HIDE DEF w, Body, value
    <3> QED  BY <3>1
  <2>2. \A r \in Registers : Body(w)[r] = ValueOf(row.registers[r], cfa, junk)
    BY <2>1
  <2>3. \A r \in Registers : w[r] = ValueOf(row.registers[r], cfa, junk)
    OBVIOUS
  <2>4. w = [r \in Registers |-> w[r]] /\ Body(w) = [r \in Registers |-> Body(w)[r]]
    OBVIOUS
  <2>5. PICK b, c : b = Body(w) /\ c = w
    OBVIOUS
  <2>6. /\ b = [r \in Registers |-> b[r]] /\ c = [r \in Registers |-> c[r]]
        /\ \A r \in Registers : b[r] = c[r]
    BY <2>2, <2>3, <2>4, <2>5
  <2>7. b = c
    BY ONLY <2>6
  <2> QED  BY <2>5, <2>7
<1>3. value = Body(value)
  BY <1>2
<1> HIDE DEF value
<1>4. Body(value)[reg] = ReadWord((cfa + row.registers[reg].n) % WordSize, junk)
  <2>1. row.registers[reg].rule = "offset"
    BY DEF Saved
  <2>2. Body(value)[reg] = ValueOf(row.registers[reg], cfa, junk)
    BY <2>1
  <2> QED  BY <2>1, <2>2 DEF ValueOf
<1>5. row.registers[reg].n = IF reg = "rip" THEN -1 ELSE -2
  BY DEF Saved
<1> QED  BY <1>1, <1>3, <1>4, <1>5

\* The interpreter's last is the declaration's.
LEMMA SameLast ==
  ASSUME NEW J \in Seq(CFI), NEW ops, NEW i
  PROVE  LastIn(J, Len(J), ops, i) <=> LastBy(J, ops, i)
<1>1. DOMAIN J = 1 .. Len(J) /\ Len(J) \in Nat
  OBVIOUS
<1>2. ASSUME i \in 1 .. Len(J)
      PROVE  (\A j \in i + 1 .. Len(J) : J[j].op \notin ops)
               <=> \A j \in DOMAIN J : j > i => J[j].op \notin ops
  <2>1. \A j : j \in i + 1 .. Len(J) <=> j \in 1 .. Len(J) /\ j > i
    BY <1>1, <1>2
  <2> QED  BY <1>1, <2>1
<1> QED  BY <1>1, <1>2 DEF LastIn, LastBy

\* A row that takes the CFA from rbp has been told so.
LEMMA CfaByRbp ==
  ASSUME NEW L, Described(L), NEW a \in DOMAIN Code, HasFunction(a),
         GetFrameRowAtPC[a].cfa.reg = "rbp"
  PROVE  CfaFrom(Holding(a), "rbp")
<1> DEFINE J == Holding(a)
           row == GetFrameRowAtPC[a]
<1>1. J \in Seq(CFI) /\ RowOf(row, J, Len(J))
  BY FrameRow
<1>2. CfaRow(row, J, Len(J))
  BY <1>1 DEF RowOf
<1> HIDE DEF J, row
<1>3. row.cfa.reg = "rbp"
  BY DEF row
<1>4. PICK i \in 1 .. Len(J) : LastIn(J, Len(J), CfaSetters, i)
  BY <1>2, <1>3 DEF CfaRow
<1>5. row.cfa.reg = IF J[i].op = "def_cfa_expression" THEN "expression" ELSE J[i].reg
  BY <1>2, <1>4 DEF CfaRow
<1>6. J[i].reg = "rbp"
  BY <1>3, <1>5
<1>7. LastBy(J, CfaSetters, i) /\ i \in DOMAIN J
  BY <1>1, <1>4, SameLast DEF LastBy
<1> QED  BY <1>6, <1>7 DEF CfaFrom, CfaSetters, J

\* What a described row says of the frame.
LEMMA RowSays ==
  ASSUME NEW L, Described(L), NEW a \in DOMAIN Code, HasFunction(a),
         NEW l, Describes(Holding(a), l), NEW row, row = GetFrameRowAtPC[a]
  PROVE  /\ Unwindable(row)
         /\ \/ row.cfa.reg = "rsp" /\ row.cfa.offset = l.depth
            \/ row.cfa.reg = "rbp" /\ row.cfa.offset = 2 /\ l.rbp = "frame"
         /\ \A loaded, junk :
              /\ Unwound(row, loaded, junk)["rip"]
                   = ReadWord((GetCFA(row, loaded) + (-1)) % WordSize, junk)
              /\ Unwound(row, loaded, junk)["rbp"]
                   = IF Ruled(Holding(a), "rbp")
                     THEN ReadWord((GetCFA(row, loaded) + (-2)) % WordSize, junk)
                     ELSE loaded["rbp"]
<1> DEFINE J == Holding(a)
<1>1. J \in Seq(CFI) /\ RowOf(row, J, Len(J))
  BY FrameRow
<1>2. DOMAIN J = 1 .. Len(J)
  BY <1>1
<1>3. Plain(J) /\ Ruled(J, "rip")
  BY DEF Describes
<1>4. \A i \in 1 .. Len(J) : PlainOne(J[i])
  BY <1>2, <1>3 DEF Plain, PlainOne
<1>5. CfaRow(row, J, Len(J)) /\ PlainRow(row, J, Len(J))
  BY <1>1, <1>4 DEF RowOf
<1>6. \/ row.cfa.reg = "rsp" /\ row.cfa.offset = l.depth
      \/ row.cfa.reg = "rbp" /\ row.cfa.offset = 2 /\ l.rbp = "frame"
  <2>1. ASSUME NEW reg, CfaFrom(J, reg)
        PROVE  row.cfa.reg = reg
    <3>1. PICK i \in DOMAIN J : LastBy(J, CfaSetters, i) /\ J[i].reg = reg
      BY <2>1 DEF CfaFrom, CfaSetters
    <3>2. LastIn(J, Len(J), CfaSetters, i) /\ i \in 1 .. Len(J)
      BY <1>1, <1>2, <3>1, SameLast
    <3>3. J[i].op # "def_cfa_expression"
      BY <1>4, <3>2 DEF PlainOne, Moves
    <3> QED  BY <1>5, <3>1, <3>2, <3>3 DEF CfaRow
  <2>2. ASSUME NEW n, CfaOffset(J, n)
        PROVE  row.cfa.offset = n
    <3>1. PICK i \in DOMAIN J : LastBy(J, OffsetSetters, i) /\ J[i].n = n
      BY <2>2 DEF CfaOffset, OffsetSetters
    <3>2. LastIn(J, Len(J), OffsetSetters, i) /\ i \in 1 .. Len(J)
      BY <1>1, <1>2, <3>1, SameLast
    <3> QED  BY <1>5, <3>1, <3>2 DEF PlainRow
  <2>3. \/ CfaFrom(J, "rsp") /\ CfaOffset(J, l.depth)
        \/ CfaFrom(J, "rbp") /\ CfaOffset(J, 2) /\ l.rbp = "frame"
    BY DEF Describes
  <2> QED  BY <2>1, <2>2, <2>3
<1>7. \A r : r \in row.withRules <=> Ruled(J, r)
  BY <1>2, <1>5 DEF PlainRow, Ruled
<1>8. /\ DOMAIN row.registers = Registers
      /\ \A r \in row.withRules : r \in {"rip", "rbp"} /\ row.registers[r] = Saved(r)
      /\ \A r \in Registers : \/ row.registers[r] = Saved(r)
                              \/ row.registers[r].rule = "undefined"
  BY <1>5 DEF PlainRow
<1> HIDE DEF J
<1>9. Unwindable(row)
  <2>1. \A r \in row.withRules : row.registers[r].rule = "offset"
    <3>1. \A r : Saved(r).rule = "offset"
      BY DEF Saved
    <3> QED  BY <1>8, <3>1
  <2>2. row.cfa.reg \notin {"expression", "failed"}
    BY <1>6
  <2> QED  BY <2>1, <2>2 DEF Unwindable
<1>10. ASSUME NEW loaded, NEW junk
       PROVE  /\ Unwound(row, loaded, junk)["rip"]
                   = ReadWord((GetCFA(row, loaded) + (-1)) % WordSize, junk)
              /\ Unwound(row, loaded, junk)["rbp"]
                   = IF Ruled(J, "rbp")
                     THEN ReadWord((GetCFA(row, loaded) + (-2)) % WordSize, junk)
                     ELSE loaded["rbp"]
  <2> DEFINE cfa == GetCFA(row, loaded)
  <2> HIDE DEF cfa
  <2>1. \A r \in Registers :
          Unwound(row, loaded, junk)[r]
            = IF r \in row.withRules THEN GetRegInFrameRow(row, cfa, r, junk) ELSE loaded[r]
    BY DEF Unwound, cfa
  <2>2. "rip" \in Registers /\ "rbp" \in Registers
    BY DEF Registers
  <2>3. "rip" \in row.withRules
    BY <1>3, <1>7
  <2>4. GetRegInFrameRow(row, cfa, "rip", junk) = ReadWord((cfa + (-1)) % WordSize, junk)
    <3>1. row.registers["rip"] = Saved("rip")
      BY <1>8, <2>3
    <3>2. GetRegInFrameRow(row, cfa, "rip", junk)
            = ReadWord((cfa + (IF "rip" = "rip" THEN -1 ELSE -2)) % WordSize, junk)
      BY ONLY <1>8, <2>2, <3>1, SavedValue
    <3> QED  BY <3>2
  <2>5. "rbp" \in row.withRules =>
          GetRegInFrameRow(row, cfa, "rbp", junk) = ReadWord((cfa + (-2)) % WordSize, junk)
    <3> SUFFICES ASSUME "rbp" \in row.withRules
                 PROVE  GetRegInFrameRow(row, cfa, "rbp", junk)
                          = ReadWord((cfa + (-2)) % WordSize, junk)
      OBVIOUS
    <3>1. row.registers["rbp"] = Saved("rbp")
      BY <1>8
    <3>2. GetRegInFrameRow(row, cfa, "rbp", junk)
            = ReadWord((cfa + (IF "rbp" = "rip" THEN -1 ELSE -2)) % WordSize, junk)
      BY ONLY <1>8, <2>2, <3>1, SavedValue
    <3> QED  BY <3>2
  <2> QED  BY <1>7, <2>1, <2>2, <2>3, <2>4, <2>5 DEF cfa
<1> QED  BY <1>6, <1>9, <1>10 DEF J

-----------------------------------------------------------------------------
(* The frames of the program                                               *)

FrameRecords ==
  [ret : ReturnPoints \cap DOMAIN Code, cfa : Bottom .. Top + 1, rbp : Word]

\* What an invariant that is taken apart says of the frames' records.
LEMMA Records ==
  ASSUME NEW L, NEW at, NEW sp, NEW bp, NEW words, NEW fs,
         FramesAre(L, at, sp, bp, words, fs)
  PROVE  /\ Len(fs) \in Nat /\ DOMAIN fs = 1 .. Len(fs)
         /\ \A k \in 1 .. Len(fs) : fs[k] \in FrameRecords
         /\ \A k \in 1 .. Len(fs) : /\ fs[k].ret \in ReturnPoints \cap DOMAIN Code
                                    /\ fs[k].cfa \in Bottom .. Top + 1
                                    /\ fs[k].rbp \in Word
         /\ fs # <<>> => Len(fs) \in 1 .. Len(fs) /\ Last(fs) = fs[Len(fs)]
<1>1. fs \in Seq(FrameRecords)
  BY DEF FramesAre, FrameRecords
<1>2. \A S : fs \in Seq(S) => /\ Len(fs) \in Nat /\ DOMAIN fs = 1 .. Len(fs)
                               /\ \A k \in 1 .. Len(fs) : fs[k] \in S
                               /\ fs # <<>> => Len(fs) # 0
  OBVIOUS
<1>3. \A f \in FrameRecords : /\ f.ret \in ReturnPoints \cap DOMAIN Code
                              /\ f.cfa \in Bottom .. Top + 1 /\ f.rbp \in Word
  BY DEF FrameRecords
<1>4. /\ Len(fs) \in Nat /\ DOMAIN fs = 1 .. Len(fs)
      /\ \A k \in 1 .. Len(fs) : fs[k] \in FrameRecords
      /\ fs # <<>> => Len(fs) # 0
  BY <1>1, <1>2
<1> QED  BY <1>3, <1>4 DEF Last

\* What lies in a frame is at or above rsp; a write below leaves it.
LEMMA FrameKept ==
  ASSUME NEW L, Laid(L), NEW words, NEW f, f.cfa \in Int, NEW at \in DOMAIN Code,
         NEW sp, NEW bp, LaidFrame(L, words, f, at, sp, bp),
         L[at].saved => L[at].depth > 1,
         NEW more, NEW low \in Int, low <= sp,
         \A a \in Stack : a >= low => more[a] = words[a]
  PROVE  LaidFrame(L, more, f, at, sp, bp)
<1>1. L[at].depth \in Nat /\ L[at].depth > 0
  BY DEF Laid, Layout
<1>2. sp = f.cfa - L[at].depth /\ f.cfa - 1 \in Stack /\ f.cfa - 1 >= low
  BY <1>1 DEF LaidFrame
<1>3. L[at].saved => f.cfa - 2 \in Stack /\ f.cfa - 2 >= low
  BY <1>1, <1>2 DEF LaidFrame
<1> QED  BY <1>2, <1>3 DEF LaidFrame

\* So the callers stay as they are, whatever happens below rsp.
LEMMA CallersKept ==
  ASSUME NEW L, Laid(L), NEW at, NEW sp, NEW bp, NEW words, NEW fs,
         FramesAre(L, at, sp, bp, words, fs), fs # <<>>,
         NEW more, \A a \in Stack : a >= sp => more[a] = words[a],
         NEW k \in 1 .. Len(fs) - 1
  PROVE  LaidCaller(L, more, fs[k], fs[k + 1])
<1>1. /\ Len(fs) \in Nat /\ Last(fs) = fs[Len(fs)]
      /\ \A i \in 1 .. Len(fs) : /\ fs[i].ret \in DOMAIN Code
                                 /\ fs[i].cfa \in Bottom .. Top + 1
  BY Records
<1>2. Bottom \in Int /\ Top \in Int
  BY UnwindAssumption
<1>3. k \in 1 .. Len(fs) /\ k + 1 \in 1 .. Len(fs) /\ Len(fs) \in 1 .. Len(fs)
  BY <1>1
<1>4. fs[Len(fs)].cfa <= fs[k + 1].cfa
  <2>1. CASE k + 1 = Len(fs)
    BY <1>1, <1>2, <1>3, <2>1
  <2>2. CASE k + 1 < Len(fs)
    <3>1. fs[Len(fs)].cfa < fs[k + 1].cfa
      BY <1>3, <2>2 DEF FramesAre
    <3> QED  BY <1>1, <1>2, <1>3, <3>1
  <2> QED  BY <1>1, <1>3, <2>1, <2>2
<1>5. sp \in Int /\ sp < fs[Len(fs)].cfa
  <2>1. LaidFrame(L, words, fs[Len(fs)], at, sp, bp) /\ at \in DOMAIN Code
    BY <1>1 DEF FramesAre
  <2>2. L[at].depth \in Nat \ {0}
    BY <2>1 DEF Laid, Layout
  <2>3. sp = fs[Len(fs)].cfa - L[at].depth
    BY <2>1 DEF LaidFrame
  <2>4. fs[Len(fs)].cfa \in Int
    BY <1>1, <1>2, <1>3
  <2> QED  BY <2>2, <2>3, <2>4
<1>6. LaidCaller(L, words, fs[k], fs[k + 1])
  BY DEF FramesAre
<1>7. PICK f, g : f = fs[k] /\ g = fs[k + 1]
  OBVIOUS
<1>8. sp <= g.cfa /\ f.cfa \in Int /\ g.ret \in DOMAIN Code
  BY <1>1, <1>2, <1>3, <1>4, <1>5, <1>7
<1>9. /\ LaidFrame(L, words, f, g.ret, g.cfa, g.rbp)
      /\ L[g.ret].saved => L[g.ret].depth > 1
  BY <1>6, <1>7 DEF LaidCaller
<1>10. LaidFrame(L, more, f, g.ret, g.cfa, g.rbp)
  BY <1>5, <1>8, <1>9, FrameKept
<1> QED  BY <1>7, <1>9, <1>10 DEF LaidCaller

\* An instruction of a function that is followed by the next one.
LEMMA InFunction ==
  ASSUME NEW L, Laid(L), NEW at, NEW sp, NEW bp, NEW words, NEW fs,
         FramesAre(L, at, sp, bp, words, fs), fs # <<>>,
         NEW at2 \in DOMAIN Code, NEW sp2 \in Bottom .. Top + 1, NEW bp2 \in Word,
         NEW words2 \in [Stack -> Word],
         \A a \in Stack : a >= sp => words2[a] = words[a],
         LaidFrame(L, words2, Last(fs), at2, sp2, bp2)
  PROVE  FramesAre(L, at2, sp2, bp2, words2, fs)
<1>1. \A k \in 1 .. Len(fs) - 1 : LaidCaller(L, words2, fs[k], fs[k + 1])
  BY CallersKept
<1> QED  BY <1>1 DEF FramesAre

\* Where the program is in a function, it is in a frame, and conversely.
LEMMA InnermostFrame ==
  ASSUME NEW L, Laid(L), NEW at, NEW sp, NEW bp, NEW words, NEW fs,
         FramesAre(L, at, sp, bp, words, fs)
  PROVE  /\ HasFunction(at) <=> fs # <<>>
         /\ at \in DOMAIN Code /\ sp \in Int /\ Bottom \in Int /\ Top \in Int
         /\ L[at].depth \in Nat /\ L[at].depth > 0
         /\ L[at].rbp \in {"caller", "frame"}
         /\ L[at].rbp = "frame" => L[at].saved
         /\ fs # <<>> =>
              /\ LaidFrame(L, words, Last(fs), at, sp, bp)
              /\ Last(fs).cfa \in Int /\ Last(fs).rbp \in Word
              /\ sp = Last(fs).cfa - L[at].depth
<1>1. Bottom \in Int /\ Top \in Int
  BY UnwindAssumption
<1>2. at \in DOMAIN Code /\ sp \in Int
  BY <1>1 DEF FramesAre
<1>3. /\ L[at].depth \in Nat /\ L[at].depth > 0
      /\ L[at].rbp \in {"caller", "frame"}
      /\ L[at].rbp = "frame" => L[at].saved
  BY <1>2 DEF Laid, Layout
<1>4. CASE fs = <<>>
  BY <1>1, <1>2, <1>3, <1>4 DEF FramesAre
<1>5. CASE fs # <<>>
  <2>1. LaidFrame(L, words, Last(fs), at, sp, bp)
    BY <1>5 DEF FramesAre
  <2>2. Last(fs).cfa \in Int /\ Last(fs).rbp \in Word
    BY <1>1, <1>5, Records
  <2> QED  BY <1>1, <1>2, <1>3, <1>5, <2>1, <2>2 DEF LaidFrame
<1> QED  BY <1>4, <1>5

\* An instruction other than a call or a return, in a function.
LEMMA InsideStep ==
  ASSUME NEW L, Laid(L), NEW at \in DOMAIN Code, HasFunction(at),
         Code[at].op \notin {"call", "ret"}, NEW b \in Code[at].next
  PROVE  /\ b \in DOMAIN Code /\ HasFunction(b) /\ Code[at].n \in Int
         /\ Follows(Code[at].op, Code[at].n, L[at], L[b])
<1>1. b \in DOMAIN Code /\ Code[at].n \in Int
  BY DEF Laid
<1>2. LaidInside(L)
  BY DEF Laid
<1> QED  BY <1>1, <1>2 DEF LaidInside

\* What only a function does, it does in a frame.
LEMMA InsideOnly ==
  ASSUME NEW L, Laid(L), NEW at, NEW sp, NEW bp, NEW words, NEW fs,
         FramesAre(L, at, sp, bp, words, fs),
         Code[at].op \notin {"flow", "call", "exit"}
  PROVE  fs # <<>> /\ HasFunction(at)
<1>1. at \in DOMAIN Code /\ (HasFunction(at) <=> fs # <<>>)
  BY InnermostFrame
<1>2. LaidOutside(L)
  BY DEF Laid
<1> QED  BY <1>1, <1>2 DEF LaidOutside

\* push rbp writes below the frames, and may save rbp in the innermost one.
LEMMA PushKeeps ==
  ASSUME NEW L, Laid(L), FramesInv(L), Push
  PROVE  FramesInv(L)'
<1>1. PICK f, at, sp, bp, words, fs :
        /\ at = pc /\ sp = rsp /\ bp = rbp /\ words = memory /\ fs = frames
        /\ f = Last(fs)
  OBVIOUS
<1>2. FramesAre(L, at, sp, bp, words, fs)
  BY <1>1 DEF FramesInv
<1>3. /\ Code[at].op = "push rbp" /\ sp > Bottom
      /\ rsp' = sp - 1 /\ memory' = [words EXCEPT ![sp - 1] = bp]
      /\ pc' \in Code[at].next /\ rbp' = bp /\ frames' = fs
  BY <1>1 DEF Push, Instruction
<1>4. fs # <<>> /\ HasFunction(at)
  BY <1>2, <1>3, InsideOnly
<1>5. PICK b : b = pc' /\ b \in Code[at].next
  BY <1>3
<1>6. /\ at \in DOMAIN Code /\ sp \in Int /\ Bottom \in Int /\ Top \in Int
      /\ L[at].depth \in Nat /\ L[at].depth > 0
      /\ LaidFrame(L, words, f, at, sp, bp)
      /\ f.cfa \in Int /\ f.rbp \in Word
      /\ sp = f.cfa - L[at].depth
  BY <1>1, <1>2, <1>4, InnermostFrame
<1>7. /\ b \in DOMAIN Code /\ HasFunction(b)
      /\ Follows("push rbp", Code[at].n, L[at], L[b])
  BY <1>3, <1>4, <1>5, <1>6, InsideStep
<1>8. /\ L[b].depth = L[at].depth + 1 /\ L[b].rbp = L[at].rbp
      /\ L[b].saved => IF L[at].depth = 1 THEN L[at].rbp = "caller" ELSE L[at].saved
  BY <1>7 DEF Follows
<1>9. /\ bp \in Word /\ sp \in Bottom .. Top + 1 /\ words \in [Stack -> Word]
  BY <1>2 DEF FramesAre
<1>10. PICK low : low = sp - 1
  OBVIOUS
<1>11. /\ low \in Int /\ low \in Stack /\ low \in Bottom .. Top + 1 /\ low < sp
  <2>1. sp > Bottom
    BY <1>3
  <2> QED  BY <1>6, <1>9, <1>10, <2>1 DEF Stack
<1>15. PICK more : more = [words EXCEPT ![low] = bp]
  OBVIOUS
<1>12. /\ more \in [Stack -> Word] /\ more[low] = bp
       /\ \A a \in Stack : a >= sp => more[a] = words[a]
  BY <1>6, <1>9, <1>11, <1>15 DEF Stack
<1>13. LaidFrame(L, more, f, b, low, bp)
  <2>1. f.cfa - 1 \in Stack /\ more[f.cfa - 1] = f.ret
    <3>1. f.cfa - 1 \in Stack /\ words[f.cfa - 1] = f.ret /\ f.cfa - 1 >= sp
      BY <1>6 DEF LaidFrame
    <3> QED  BY <1>12, <3>1
  <2>2. L[b].saved => f.cfa - 2 \in Stack /\ more[f.cfa - 2] = f.rbp
    <3>1. CASE L[at].depth = 1
      <4>1. f.cfa - 2 = low
        BY <1>6, <1>10, <3>1
      <4>2. L[b].saved => bp = f.rbp
        BY <1>6, <1>8, <3>1 DEF LaidFrame
      <4> QED  BY <1>11, <1>12, <4>1, <4>2
    <3>2. CASE L[at].depth # 1
      <4>1. f.cfa - 2 >= sp
        BY <1>6, <3>2
      <4>2. L[b].saved => f.cfa - 2 \in Stack /\ words[f.cfa - 2] = f.rbp
        BY <1>6, <1>8, <3>2 DEF LaidFrame
      <4> QED  BY <1>12, <4>1, <4>2
    <3> QED  BY <3>1, <3>2
  <2>3. low = f.cfa - L[b].depth
    BY <1>6, <1>8, <1>10
  <2> QED  BY <1>6, <1>7, <1>8, <2>1, <2>2, <2>3 DEF LaidFrame
<1>14. FramesAre(L, b, low, bp, more, fs)
  <2>1. LaidFrame(L, more, Last(fs), b, low, bp)
    BY <1>1, <1>13
  <2>2. /\ b \in DOMAIN Code /\ low \in Bottom .. Top + 1 /\ bp \in Word
        /\ more \in [Stack -> Word] /\ \A a \in Stack : a >= sp => more[a] = words[a]
    BY <1>7, <1>9, <1>11, <1>12
  <2> QED  BY ONLY Laid(L), <1>2, <1>4, <2>1, <2>2, InFunction
<1> QED  BY <1>3, <1>5, <1>10, <1>14, <1>15 DEF FramesInv

\* mov rbp, rsp behind it makes rbp the frame's own.
LEMMA MoveKeeps ==
  ASSUME NEW L, Laid(L), FramesInv(L), Move
  PROVE  FramesInv(L)'
<1>1. PICK f, at, sp, bp, words, fs :
        /\ at = pc /\ sp = rsp /\ bp = rbp /\ words = memory /\ fs = frames
        /\ f = Last(fs)
  OBVIOUS
<1>2. FramesAre(L, at, sp, bp, words, fs)
  BY <1>1 DEF FramesInv
<1>3. /\ Code[at].op = "mov rbp, rsp"
      /\ rsp' = sp /\ memory' = words /\ pc' \in Code[at].next /\ rbp' = sp /\ frames' = fs
  BY <1>1 DEF Move, Instruction
<1>4. fs # <<>> /\ HasFunction(at)
  BY <1>2, <1>3, InsideOnly
<1>5. PICK b : b = pc' /\ b \in Code[at].next
  BY <1>3
<1>6. /\ at \in DOMAIN Code /\ LaidFrame(L, words, f, at, sp, bp)
      /\ f.cfa \in Int /\ sp = f.cfa - L[at].depth
  BY <1>1, <1>2, <1>4, InnermostFrame
<1>7. /\ b \in DOMAIN Code /\ HasFunction(b)
      /\ Follows("mov rbp, rsp", Code[at].n, L[at], L[b])
  BY <1>3, <1>4, <1>5, <1>6, InsideStep
<1>8. /\ L[at].depth = 2 /\ L[at].saved
      /\ L[b].depth = 2 /\ L[b].rbp = "frame" /\ L[b].saved
  BY <1>7 DEF Follows
<1>9. LaidFrame(L, words, f, b, sp, sp)
  BY <1>6, <1>7, <1>8 DEF LaidFrame
<1>10. sp \in Word /\ sp \in Bottom .. Top + 1 /\ words \in [Stack -> Word]
  <2>1. sp \in Bottom .. Top + 1 /\ words \in [Stack -> Word]
    BY <1>2 DEF FramesAre
  <2> QED  BY <2>1, UnwindAssumption, LineTableAssumption DEF Word
<1>11. FramesAre(L, b, sp, sp, words, fs)
  <2>1. LaidFrame(L, words, Last(fs), b, sp, sp)
    BY <1>1, <1>9
  <2> QED  BY ONLY Laid(L), <1>2, <1>4, <1>7, <1>10, <2>1, InFunction
<1> QED  BY <1>3, <1>5, <1>11 DEF FramesInv

\* sub and add on rsp touch no frame.
LEMMA AddKeeps ==
  ASSUME NEW L, Laid(L), FramesInv(L), Add
  PROVE  FramesInv(L)'
<1>1. PICK f, at, sp, bp, words, fs :
        /\ at = pc /\ sp = rsp /\ bp = rbp /\ words = memory /\ fs = frames
        /\ f = Last(fs)
  OBVIOUS
<1>2. FramesAre(L, at, sp, bp, words, fs)
  BY <1>1 DEF FramesInv
<1>3. /\ Code[at].op = "add rsp" /\ sp + Code[at].n \in Stack
      /\ rsp' = sp + Code[at].n
      /\ memory' = words /\ pc' \in Code[at].next /\ rbp' = bp /\ frames' = fs
  BY <1>1 DEF Add, Instruction
<1>4. fs # <<>> /\ HasFunction(at)
  BY <1>2, <1>3, InsideOnly
<1>5. PICK b, n, sp2 : /\ b = pc' /\ b \in Code[at].next
                       /\ n = Code[at].n /\ sp2 = sp + n
  BY <1>3
<1>6. /\ at \in DOMAIN Code /\ LaidFrame(L, words, f, at, sp, bp)
      /\ f.cfa \in Int /\ sp = f.cfa - L[at].depth /\ L[at].depth \in Nat /\ sp \in Int
  BY <1>1, <1>2, <1>4, InnermostFrame
<1>7. /\ b \in DOMAIN Code /\ HasFunction(b) /\ n \in Int
      /\ Follows("add rsp", n, L[at], L[b])
  BY <1>3, <1>4, <1>5, <1>6, InsideStep
<1>8. /\ L[b].depth = L[at].depth - n /\ L[b].rbp = L[at].rbp
      /\ L[b].saved => L[at].saved
  BY <1>7 DEF Follows
<1>9. sp2 = f.cfa - L[b].depth
  <2>1. n \in Int
    BY <1>5, <1>6 DEF Laid
  <2> QED  BY ONLY <1>5, <1>6, <1>8, <2>1
<1>10. LaidFrame(L, words, f, b, sp2, bp)
  BY <1>6, <1>7, <1>8, <1>9 DEF LaidFrame
<1>11. bp \in Word /\ sp2 \in Bottom .. Top + 1 /\ words \in [Stack -> Word]
  <2>1. sp2 \in Bottom .. Top
    BY <1>3, <1>5 DEF Stack
  <2> QED  BY <1>2, <2>1, UnwindAssumption DEF FramesAre
<1>12. FramesAre(L, b, sp2, bp, words, fs)
  <2>1. LaidFrame(L, words, Last(fs), b, sp2, bp)
    BY <1>1, <1>10
  <2> QED  BY ONLY Laid(L), <1>2, <1>4, <1>7, <1>11, <2>1, InFunction
<1> QED  BY <1>3, <1>5, <1>12 DEF FramesInv

\* leave brings the caller's rbp back and leaves the return address on top.
LEMMA LeaveKeeps ==
  ASSUME NEW L, Laid(L), FramesInv(L), Leave
  PROVE  FramesInv(L)'
<1>1. PICK f, at, sp, bp, words, fs :
        /\ at = pc /\ sp = rsp /\ bp = rbp /\ words = memory /\ fs = frames
        /\ f = Last(fs)
  OBVIOUS
<1>2. FramesAre(L, at, sp, bp, words, fs)
  BY <1>1 DEF FramesInv
<1>3. /\ Code[at].op = "leave"
      /\ rsp' = bp + 1 /\ rbp' = words[bp]
      /\ memory' = words /\ pc' \in Code[at].next /\ frames' = fs
  BY <1>1 DEF Leave, Instruction
<1>4. fs # <<>> /\ HasFunction(at)
  BY <1>2, <1>3, InsideOnly
<1>5. PICK b : b = pc' /\ b \in Code[at].next
  BY <1>3
<1>6. /\ at \in DOMAIN Code /\ LaidFrame(L, words, f, at, sp, bp)
      /\ f.cfa \in Int /\ f.rbp \in Word
      /\ L[at].rbp = "frame" => L[at].saved
  BY <1>1, <1>2, <1>4, InnermostFrame
<1>7. /\ b \in DOMAIN Code /\ HasFunction(b)
      /\ Follows("leave", Code[at].n, L[at], L[b])
  BY <1>3, <1>4, <1>5, <1>6, InsideStep
<1>8. /\ L[at].rbp = "frame" /\ L[b].depth = 1 /\ L[b].rbp = "caller"
      /\ L[b].saved => L[at].saved
  BY <1>7 DEF Follows
<1>9. bp = f.cfa - 2 /\ words[bp] = f.rbp /\ bp + 1 = f.cfa - 1 /\ f.cfa - 1 \in Stack
  BY <1>6, <1>8 DEF LaidFrame
<1>10. LaidFrame(L, words, f, b, f.cfa - 1, f.rbp)
  BY <1>6, <1>7, <1>8 DEF LaidFrame
<1>11. f.cfa - 1 \in Bottom .. Top + 1 /\ words \in [Stack -> Word]
  <2>1. f.cfa - 1 \in Bottom .. Top
    BY <1>9 DEF Stack
  <2> QED  BY <1>2, <2>1, UnwindAssumption DEF FramesAre
<1>12. PICK sp2 : sp2 = f.cfa - 1
  OBVIOUS
<1>13. FramesAre(L, b, sp2, f.rbp, words, fs)
  <2>1. LaidFrame(L, words, Last(fs), b, sp2, f.rbp) /\ sp2 \in Bottom .. Top + 1
    BY <1>1, <1>10, <1>11, <1>12
  <2>2. \A a \in Stack : a >= sp => words[a] = words[a]
    OBVIOUS
  <2> QED  BY ONLY Laid(L), <1>2, <1>4, <1>6, <1>7, <1>11, <2>1, <2>2, InFunction
<1> QED  BY <1>3, <1>5, <1>9, <1>12, <1>13 DEF FramesInv

\* Any other instruction keeps the layout.
LEMMA FlowKeeps ==
  ASSUME NEW L, Laid(L), FramesInv(L), Flow
  PROVE  FramesInv(L)'
<1>1. PICK f, at, sp, bp, words, fs :
        /\ at = pc /\ sp = rsp /\ bp = rbp /\ words = memory /\ fs = frames
        /\ f = Last(fs)
  OBVIOUS
<1>2. FramesAre(L, at, sp, bp, words, fs)
  BY <1>1 DEF FramesInv
<1>3. /\ Code[at].op = "flow" /\ rsp' = sp /\ rbp' = bp
      /\ memory' = words /\ pc' \in Code[at].next /\ frames' = fs
  BY <1>1 DEF Flow, Instruction
<1>4. PICK b : b = pc' /\ b \in Code[at].next
  BY <1>3
<1>5. at \in DOMAIN Code /\ b \in DOMAIN Code /\ (HasFunction(at) <=> fs # <<>>)
  <2>1. at \in DOMAIN Code /\ (HasFunction(at) <=> fs # <<>>)
    BY <1>2, InnermostFrame
  <2> QED  BY <1>4, <2>1 DEF Laid
<1>6. CASE HasFunction(at)
  <2>1. HasFunction(b) /\ Follows("flow", Code[at].n, L[at], L[b])
    BY <1>3, <1>4, <1>5, <1>6, InsideStep
  <2>2. L[b] = L[at] /\ LaidFrame(L, words, Last(fs), at, sp, bp)
    BY <1>2, <1>5, <1>6, <2>1, InnermostFrame DEF Follows
  <2>3. LaidFrame(L, words, Last(fs), b, sp, bp)
    BY <2>1, <2>2 DEF LaidFrame
  <2> QED  BY <1>2, <1>3, <1>4, <1>5, <1>6, <2>3 DEF FramesInv, FramesAre
<1>7. CASE ~HasFunction(at)
  <2>1. ~HasFunction(b)
    <3>1. LaidOutside(L)
      BY DEF Laid
    <3> QED  BY <1>3, <1>4, <1>5, <1>7, <3>1 DEF LaidOutside
  <2> QED  BY <1>2, <1>3, <1>4, <1>5, <1>7, <2>1 DEF FramesInv, FramesAre
<1> QED  BY <1>6, <1>7

\* A call makes its caller's frame one that has called, below which it begins another.
LEMMA CallKeeps ==
  ASSUME NEW L, Laid(L), FramesInv(L), Call
  PROVE  FramesInv(L)'
<1>1. PICK at, sp, bp, words, fs :
        at = pc /\ sp = rsp /\ bp = rbp /\ words = memory /\ fs = frames
  OBVIOUS
<1>2. FramesAre(L, at, sp, bp, words, fs)
  BY <1>1 DEF FramesInv
<1> DEFINE n == Code[at].n
<1>3. PICK low, more, new :
        /\ low = sp - 1 /\ more = [words EXCEPT ![low] = n]
        /\ new = [ret |-> n, cfa |-> sp, rbp |-> bp]
  OBVIOUS
<1>4. /\ Code[at].op = "call" /\ sp > Bottom
      /\ rsp' = low /\ rbp' = bp
      /\ memory' = more /\ pc' \in Code[at].next /\ frames' = Append(fs, new)
  BY <1>1, <1>3 DEF Call, Instruction
<1>5. PICK b : b = pc' /\ b \in Code[at].next
  BY <1>4
<1>6. /\ at \in DOMAIN Code /\ sp \in Int /\ Bottom \in Int /\ Top \in Int
      /\ HasFunction(at) <=> fs # <<>>
      /\ L[at].depth \in Nat /\ L[at].depth > 0
  BY <1>2, InnermostFrame
<1>7. b \in DOMAIN Code
  BY <1>5, <1>6 DEF Laid
<1>8. /\ n \in DOMAIN Code /\ HasFunction(b) /\ L[b] = Entry
      /\ ~HasFunction(at) => ~HasFunction(n)
      /\ HasFunction(at) => /\ HasFunction(n)
                            /\ L[n].depth = L[at].depth /\ L[n].rbp = L[at].rbp
                            /\ L[n].saved => L[at].saved /\ L[at].depth > 1
  <2>1. LaidInside(L) /\ LaidOutside(L)
    BY DEF Laid
  <2>2. CASE HasFunction(at)
    BY <1>4, <1>5, <1>6, <2>1, <2>2 DEF LaidInside
  <2>3. CASE ~HasFunction(at)
    BY <1>4, <1>5, <1>6, <2>1, <2>3 DEF LaidOutside
  <2> QED  BY <2>2, <2>3
<1>9. n \in ReturnPoints /\ n \in Word
  BY <1>4, <1>6, <1>8, UnwindAssumption DEF ReturnPoints
<1> HIDE DEF n
<1>10. sp \in Bottom .. Top + 1 /\ bp \in Word /\ words \in [Stack -> Word]
       /\ fs \in Seq(FrameRecords)
  BY <1>2 DEF FramesAre, FrameRecords
<1>11. low \in Int /\ low \in Stack /\ low \in Bottom .. Top + 1 /\ low < sp
  <2>1. sp > Bottom
    BY <1>4
  <2> QED  BY <1>3, <1>6, <1>10, <2>1 DEF Stack
<1>12. /\ more \in [Stack -> Word] /\ more[low] = n
       /\ \A a \in Stack : a >= sp => more[a] = words[a]
  BY <1>3, <1>6, <1>9, <1>10, <1>11 DEF Stack
<1>13. /\ new \in FrameRecords /\ new.ret = n /\ new.cfa = sp /\ new.rbp = bp
  BY <1>3, <1>8, <1>9, <1>10 DEF FrameRecords
<1>14. LaidFrame(L, more, new, b, low, bp)
  <2>1. L[b].depth = 1 /\ L[b].rbp = "caller" /\ ~L[b].saved
    BY <1>8 DEF Entry
  <2> QED  BY <1>3, <1>8, <1>11, <1>12, <1>13, <2>1 DEF LaidFrame
<1>15. fs # <<>> => LaidCaller(L, more, Last(fs), new)
  <2> SUFFICES ASSUME fs # <<>> PROVE LaidCaller(L, more, Last(fs), new)
    OBVIOUS
  <2>1. PICK f : f = Last(fs)
    OBVIOUS
  <2>2. /\ LaidFrame(L, words, f, at, sp, bp) /\ f.cfa \in Int
        /\ sp = f.cfa - L[at].depth
    BY <1>2, <2>1, InnermostFrame
  <2>3. HasFunction(at)
    BY <1>6
  <2>4. f.cfa - 1 \in Stack /\ more[f.cfa - 1] = f.ret
    <3>1. f.cfa - 1 \in Stack /\ words[f.cfa - 1] = f.ret
      BY <2>2 DEF LaidFrame
    <3>2. f.cfa - 1 >= sp
      BY <1>6, <2>2
    <3> QED  BY <1>12, <3>1, <3>2
  <2>5. L[n].saved => f.cfa - 2 \in Stack /\ more[f.cfa - 2] = f.rbp
    <3> SUFFICES ASSUME L[n].saved
                 PROVE  f.cfa - 2 \in Stack /\ more[f.cfa - 2] = f.rbp
      OBVIOUS
    <3>1. L[at].saved /\ L[at].depth > 1
      BY <1>8, <2>3
    <3>2. f.cfa - 2 \in Stack /\ words[f.cfa - 2] = f.rbp
      BY <2>2, <3>1 DEF LaidFrame
    <3>3. f.cfa - 2 >= sp
      BY <1>6, <2>2, <3>1
    <3> QED  BY <1>12, <3>2, <3>3
  <2>6. LaidFrame(L, more, f, n, sp, bp)
    BY <1>8, <2>2, <2>3, <2>4, <2>5 DEF LaidFrame
  <2>7. L[n].saved => L[n].depth > 1
    BY <1>8, <2>3
  <2> QED  BY <1>13, <2>1, <2>6, <2>7 DEF LaidCaller
<1>16. PICK fs2 : fs2 = Append(fs, new)
  OBVIOUS
<1>17. /\ Len(fs) \in Nat
       /\ \A k \in 1 .. Len(fs) : fs[k].cfa \in Bottom .. Top + 1
       /\ fs # <<>> => Len(fs) \in 1 .. Len(fs) /\ Last(fs) = fs[Len(fs)]
  BY <1>2, Records
<1>18. /\ fs2 \in Seq(FrameRecords) /\ Len(fs2) = Len(fs) + 1 /\ fs2 # <<>>
       /\ \A k \in 1 .. Len(fs) : fs2[k] = fs[k]
       /\ fs2[Len(fs) + 1] = new /\ Last(fs2) = new
  <2>1. \A S : fs \in Seq(S) /\ new \in S =>
          /\ Append(fs, new) \in Seq(S) /\ Len(Append(fs, new)) = Len(fs) + 1
          /\ \A k \in 1 .. Len(fs) : Append(fs, new)[k] = fs[k]
          /\ Append(fs, new)[Len(fs) + 1] = new
    OBVIOUS
  <2>2. /\ fs2 \in Seq(FrameRecords) /\ Len(fs2) = Len(fs) + 1
        /\ \A k \in 1 .. Len(fs) : fs2[k] = fs[k]
        /\ fs2[Len(fs) + 1] = new
    BY <1>10, <1>13, <1>16, <2>1
  <2> QED  BY <1>17, <2>2 DEF Last
<1>19. \A j, k \in 1 .. Len(fs2) : j < k => fs2[k].cfa < fs2[j].cfa
  <2> SUFFICES ASSUME NEW j \in 1 .. Len(fs2), NEW k \in 1 .. Len(fs2), j < k
               PROVE  fs2[k].cfa < fs2[j].cfa
    OBVIOUS
  <2>1. \A i, l \in 1 .. Len(fs) : i < l => fs[l].cfa < fs[i].cfa
    BY <1>2 DEF FramesAre
  <2>2. j \in 1 .. Len(fs)
    BY <1>17, <1>18
  <2>3. CASE k \in 1 .. Len(fs)
    BY <1>18, <2>1, <2>2, <2>3
  <2>4. CASE k = Len(fs) + 1
    <3>1. fs # <<>>
      BY <1>17, <2>2
    <3>2. fs[Len(fs)].cfa \in Int /\ sp < fs[Len(fs)].cfa
      BY <1>2, <1>6, <1>17, <3>1, InnermostFrame
    <3>3. CASE j = Len(fs)
      BY <1>13, <1>18, <2>2, <2>4, <3>2, <3>3
    <3>4. CASE j # Len(fs)
      <4>1. fs[Len(fs)].cfa < fs[j].cfa
        BY <1>17, <2>1, <2>2, <3>1, <3>4
      <4>2. fs[j].cfa \in Int
        BY <1>6, <1>17, <2>2
      <4>3. sp < fs[j].cfa
        BY ONLY <1>6, <3>2, <4>1, <4>2
      <4> QED  BY <1>13, <1>18, <2>2, <2>4, <4>3
    <3> QED  BY <3>3, <3>4
  <2> QED  BY <1>17, <1>18, <2>3, <2>4
<1>20. \A k \in 1 .. Len(fs2) - 1 : LaidCaller(L, more, fs2[k], fs2[k + 1])
  <2> SUFFICES ASSUME NEW k \in 1 .. Len(fs2) - 1
               PROVE  LaidCaller(L, more, fs2[k], fs2[k + 1])
    OBVIOUS
  <2>1. k \in 1 .. Len(fs) /\ fs # <<>>
    BY <1>17, <1>18
  <2>2. CASE k = Len(fs)
    BY <1>15, <1>17, <1>18, <2>1, <2>2
  <2>3. CASE k # Len(fs)
    <3>1. k \in 1 .. Len(fs) - 1 /\ k + 1 \in 1 .. Len(fs)
      BY <1>17, <2>1, <2>3
    <3>2. LaidCaller(L, more, fs[k], fs[k + 1])
      BY <1>2, <1>12, <2>1, <3>1, CallersKept
    <3> QED  BY <1>18, <2>1, <3>1, <3>2
  <2> QED  BY <2>2, <2>3
<1>21. ~HasFunction(fs2[1].ret)
  <2>1. CASE fs = <<>>
    <3>1. Len(fs) + 1 = 1
      BY <2>1
    <3> QED  BY <1>6, <1>8, <1>13, <1>18, <2>1, <3>1
  <2>2. CASE fs # <<>>
    <3>1. ~HasFunction(fs[1].ret)
      BY <1>2, <2>2 DEF FramesAre
    <3>2. 1 \in 1 .. Len(fs)
      BY <1>17, <2>2
    <3> QED  BY <1>18, <3>1, <3>2
  <2> QED  BY <2>1, <2>2
<1>22. FramesAre(L, b, low, bp, more, fs2)
  BY <1>7, <1>10, <1>11, <1>12, <1>14, <1>18, <1>19, <1>20, <1>21
  DEF FramesAre, FrameRecords
<1> QED  BY <1>4, <1>5, <1>16, <1>22 DEF FramesInv

\* A sequence without its last element.
LEMMA Shorter ==
  ASSUME NEW S, NEW s \in Seq(S), s # <<>>
  PROVE  /\ Front(s) \in Seq(S) /\ Len(Front(s)) = Len(s) - 1
         /\ \A k \in 1 .. Len(s) - 1 : Front(s)[k] = s[k]
<1>1. Len(s) \in Nat /\ Len(s) > 0
  OBVIOUS
<1>2. PICK m : m = Len(s) - 1
  OBVIOUS
<1>3. m \in 0 .. Len(s)
  BY <1>1, <1>2
<1>4. SubSeq(s, 1, m) \in Seq(S) /\ Len(SubSeq(s, 1, m)) = m
      /\ \A k \in 1 .. m : SubSeq(s, 1, m)[k] = s[k]
  BY <1>1, <1>3
<1> QED  BY <1>2, <1>4 DEF Front

\* A return goes on in the frame around, as the call left it.
LEMMA ReturnKeeps ==
  ASSUME NEW L, Laid(L), FramesInv(L), Return
  PROVE  FramesInv(L)'
<1>1. PICK f, at, sp, bp, words, fs :
        /\ at = pc /\ sp = rsp /\ bp = rbp /\ words = memory /\ fs = frames
        /\ f = Last(fs)
  OBVIOUS
<1>2. FramesAre(L, at, sp, bp, words, fs)
  BY <1>1 DEF FramesInv
<1>3. /\ Code[at].op = "ret" /\ pc' = words[sp] /\ rsp' = sp + 1 /\ rbp' = bp
      /\ memory' = words /\ frames' = Front(fs)
  BY <1>1 DEF Return, Instruction
<1>4. fs # <<>> /\ HasFunction(at)
  BY <1>2, <1>3, InsideOnly
<1>5. /\ at \in DOMAIN Code /\ LaidFrame(L, words, f, at, sp, bp)
      /\ f.cfa \in Int /\ sp = f.cfa - L[at].depth
  BY <1>1, <1>2, <1>4, InnermostFrame
<1>6. L[at].depth = 1 /\ L[at].rbp = "caller"
  <2>1. LaidInside(L)
    BY DEF Laid
  <2> QED  BY <1>3, <1>4, <1>5, <2>1 DEF LaidInside
<1>7. pc' = f.ret /\ rsp' = f.cfa /\ rbp' = f.rbp
  <2>1. sp = f.cfa - 1 /\ sp + 1 = f.cfa
    BY <1>5, <1>6
  <2>2. words[f.cfa - 1] = f.ret /\ bp = f.rbp
    BY <1>5, <1>6 DEF LaidFrame
  <2> QED  BY <1>3, <2>1, <2>2
<1>8. /\ Len(fs) \in Nat /\ Len(fs) \in 1 .. Len(fs) /\ f = fs[Len(fs)]
      /\ \A k \in 1 .. Len(fs) : fs[k] \in FrameRecords
      /\ f.ret \in DOMAIN Code /\ f.cfa \in Bottom .. Top + 1 /\ f.rbp \in Word
  BY <1>1, <1>2, <1>4, Records
<1>9. PICK rest : rest = Front(fs)
  OBVIOUS
<1>10. /\ rest \in Seq(FrameRecords) /\ Len(rest) = Len(fs) - 1
       /\ \A k \in 1 .. Len(fs) - 1 : rest[k] = fs[k]
  <2>1. fs \in Seq(FrameRecords)
    BY <1>2 DEF FramesAre, FrameRecords
  <2> QED  BY <1>4, <1>9, <2>1, Shorter
<1>11. /\ \A j, k \in 1 .. Len(fs) : j < k => fs[k].cfa < fs[j].cfa
       /\ \A k \in 1 .. Len(fs) - 1 : LaidCaller(L, words, fs[k], fs[k + 1])
       /\ ~HasFunction(fs[1].ret) /\ words \in [Stack -> Word]
  BY <1>2, <1>4 DEF FramesAre
<1>12. \A j, k \in 1 .. Len(rest) : j < k => rest[k].cfa < rest[j].cfa
  BY <1>8, <1>10, <1>11
<1>13. \A k \in 1 .. Len(rest) - 1 : LaidCaller(L, words, rest[k], rest[k + 1])
  <2> SUFFICES ASSUME NEW k \in 1 .. Len(rest) - 1
               PROVE  LaidCaller(L, words, rest[k], rest[k + 1])
    OBVIOUS
  <2>1. k \in 1 .. Len(fs) - 1 /\ k + 1 \in 1 .. Len(fs) - 1
    BY <1>8, <1>10
  <2> QED  BY <1>10, <1>11, <2>1
<1>14. CASE Len(fs) = 1
  <2>1. Len(rest) = 0 /\ ~HasFunction(f.ret)
    BY <1>8, <1>10, <1>11, <1>14
  <2>2. rest = <<>>
    BY <1>10, <2>1
  <2>3. FramesAre(L, f.ret, f.cfa, f.rbp, words, rest)
    BY <1>8, <1>10, <1>11, <1>12, <1>13, <2>1, <2>2 DEF FramesAre, FrameRecords
  <2> QED  BY <1>3, <1>7, <1>9, <2>3 DEF FramesInv
<1>15. CASE Len(fs) # 1
  <2>1. PICK k : k = Len(fs) - 1
    OBVIOUS
  <2>2. /\ k \in 1 .. Len(fs) - 1 /\ k + 1 = Len(fs) /\ Len(rest) = k
        /\ 1 \in 1 .. Len(fs) - 1
    BY <1>8, <1>10, <1>15, <2>1
  <2>3. rest # <<>> /\ Last(rest) = fs[k] /\ rest[1] = fs[1]
    <3>1. rest[k] = fs[k] /\ rest[1] = fs[1]
      BY <1>10, <2>2
    <3>2. rest # <<>>
      BY <1>10, <2>2
    <3> QED  BY <2>2, <3>1, <3>2 DEF Last
  <2>4. LaidFrame(L, words, fs[k], f.ret, f.cfa, f.rbp)
    BY <1>8, <1>11, <2>2 DEF LaidCaller
  <2>5. FramesAre(L, f.ret, f.cfa, f.rbp, words, rest)
    <3>1. LaidFrame(L, words, Last(rest), f.ret, f.cfa, f.rbp) /\ ~HasFunction(rest[1].ret)
      BY <1>11, <2>3, <2>4
    <3> QED  BY <1>8, <1>10, <1>11, <1>12, <1>13, <2>3, <3>1 DEF FramesAre, FrameRecords
  <2> QED  BY <1>3, <1>7, <1>9, <2>5 DEF FramesInv
<1> QED  BY <1>14, <1>15

-----------------------------------------------------------------------------
(* The frames are where the layout says                                    *)

\* A program is entered outside its functions, with an empty stack.
LEMMA FramesInit ==
  ASSUME NEW L, Laid(L), Init
  PROVE  FramesInv(L)
<1>1. Bottom \in Int /\ Top \in Int /\ Bottom <= Top /\ 0 \in Word
  BY UnwindAssumption, LineTableAssumption DEF Word
<1>2. pc = Start /\ rsp = Top + 1 /\ rbp = 0 /\ frames = <<>> /\ memory \in [Stack -> Word]
  BY <1>1 DEF Init
<1>3. pc \in DOMAIN Code /\ ~HasFunction(pc)
  BY <1>2, UnwindAssumption DEF Laid
<1>4. rsp \in Bottom .. Top + 1 /\ rbp \in Word
  BY <1>1, <1>2
<1>5. PICK fs : fs = frames
  OBVIOUS
<1>6. fs \in Seq(FrameRecords) /\ Len(fs) = 0
  BY <1>2, <1>5
<1>7. FramesAre(L, pc, rsp, rbp, memory, fs)
  BY <1>2, <1>3, <1>4, <1>5, <1>6 DEF FramesAre, FrameRecords
<1> QED  BY <1>5, <1>7 DEF FramesInv

\* The debugger's walk changes nothing of the program.
LEMMA FramesStay ==
  ASSUME NEW L, FramesInv(L), UNCHANGED thread
  PROVE  FramesInv(L)'
BY DEF FramesInv, thread

\* Every step keeps the frames where they are laid.
LEMMA FramesStep ==
  ASSUME NEW L, Laid(L), FramesInv(L), [Next]_vars
  PROVE  FramesInv(L)'
<1>1. CASE PrintCallStack
  BY <1>1, FramesStay DEF PrintCallStack
<1>2. CASE ShowFrame
  <2>1. UNCHANGED thread
    BY <1>2 DEF ShowFrame, thread
  <2> QED  BY <2>1, FramesStay
<1>3. CASE EndOfStack
  <2>1. UNCHANGED thread
    BY <1>3 DEF EndOfStack, thread
  <2> QED  BY <2>1, FramesStay
<1>4. CASE Push
  BY <1>4, PushKeeps
<1>5. CASE Move
  BY <1>5, MoveKeeps
<1>6. CASE Add
  BY <1>6, AddKeeps
<1>7. CASE Flow
  BY <1>7, FlowKeeps
<1>8. CASE Call
  BY <1>8, CallKeeps
<1>9. CASE Leave
  BY <1>9, LeaveKeeps
<1>10. CASE Return
  BY <1>10, ReturnKeeps
<1>11. CASE UNCHANGED vars
  <2>1. UNCHANGED thread
    BY <1>11 DEF vars, thread
  <2> QED  BY <2>1, FramesStay
<1> QED  BY <1>1, <1>2, <1>3, <1>4, <1>5, <1>6, <1>7, <1>8, <1>9, <1>10, <1>11
         DEF Next, Execute

\* In a program that keeps frames the frames of the active calls lie below one
\* another on the stack, each with its return address and the rbp it saved,
\* whatever the calls: what GetReturnAddresss and PrintCallStack count on.
THEOREM FramesInvariance ==
  ASSUME NEW L, Laid(L)
  PROVE  Spec => []FramesInv(L)
<1>1. Init => FramesInv(L)
  BY FramesInit
<1>2. FramesInv(L) /\ [Next]_vars => FramesInv(L)'
  BY FramesStep
<1> QED  BY <1>1, <1>2, PTL DEF Spec

-----------------------------------------------------------------------------
(* Unwinding out of a frame                                                *)

\* A frame f in which the program is at an address with these rsp and rbp, of
\* which the loaded registers have what the row asks for.
LoadedIn(L, f, at, sp, bp, row, loaded) ==
  /\ at \in DOMAIN Code /\ Describes(Holding(at), L[at]) /\ row = GetFrameRowAtPC[at]
  /\ f.cfa \in Bottom .. Top + 1 /\ LaidFrame(L, memory, f, at, sp, bp)
  /\ loaded["rbp"] = bp /\ (row.cfa.reg = "rsp" => loaded["rsp"] = sp)

\* In a frame, with its rbp, and its rsp where the row counts from it, the CFA
\* is the frame's, and the caller's registers come from the frame.
LEMMA FrameUnwound ==
  ASSUME NEW L, Laid(L), Described(L), NEW f, NEW at, NEW sp, NEW bp, NEW row,
         NEW loaded, LoadedIn(L, f, at, sp, bp, row, loaded), NEW junk
  PROVE  /\ Unwindable(row) /\ GetCFA(row, loaded) = f.cfa
         /\ Unwound(row, loaded, junk)["rip"] = f.ret
         /\ DescribesRbp(Holding(at), L[at]) =>
              Unwound(row, loaded, junk)["rbp"] = f.rbp
<1>1. /\ at \in DOMAIN Code /\ HasFunction(at) /\ Describes(Holding(at), L[at])
      /\ row = GetFrameRowAtPC[at]
      /\ f.cfa \in Bottom .. Top + 1 /\ LaidFrame(L, memory, f, at, sp, bp)
      /\ loaded["rbp"] = bp /\ (row.cfa.reg = "rsp" => loaded["rsp"] = sp)
  BY DEF LoadedIn, LaidFrame
<1>2. PICK l : l = L[at]
  OBVIOUS
<1>3. /\ Unwindable(row)
      /\ \/ row.cfa.reg = "rsp" /\ row.cfa.offset = l.depth
         \/ row.cfa.reg = "rbp" /\ row.cfa.offset = 2 /\ l.rbp = "frame"
      /\ Unwound(row, loaded, junk)["rip"]
           = ReadWord((GetCFA(row, loaded) + (-1)) % WordSize, junk)
      /\ Unwound(row, loaded, junk)["rbp"]
           = IF Ruled(Holding(at), "rbp")
             THEN ReadWord((GetCFA(row, loaded) + (-2)) % WordSize, junk)
             ELSE loaded["rbp"]
  <2>1. Describes(Holding(at), l)
    BY <1>1, <1>2
  <2> QED  BY ONLY Described(L), <1>1, <2>1, RowSays
<1>4. PICK c : c = f.cfa
  OBVIOUS
<1>5. /\ Bottom \in Nat /\ Top \in Nat /\ Top + 1 < WordSize /\ WordSize \in Nat
      /\ c \in Bottom .. Top + 1
  BY <1>1, <1>4, UnwindAssumption, LineTableAssumption DEF Word
<1>6. c % WordSize = c
  BY <1>5
<1>7. l.depth \in Nat
  BY <1>1, <1>2 DEF Laid, Layout
<1>8. GetCFA(row, loaded) = c
  <2>1. CASE row.cfa.reg = "rsp"
    <3>1. loaded["rsp"] = c - l.depth /\ row.cfa.offset = l.depth
      BY <1>1, <1>2, <1>3, <1>4, <2>1 DEF LaidFrame
    <3>2. (loaded["rsp"] + row.cfa.offset) = c
      BY <1>5, <1>7, <3>1
    <3> QED  BY <1>6, <2>1, <3>2 DEF GetCFA
  <2>2. CASE row.cfa.reg = "rbp"
    <3>1. loaded["rbp"] = c - 2 /\ row.cfa.offset = 2
      BY <1>1, <1>2, <1>3, <1>4, <2>2 DEF LaidFrame
    <3>2. (loaded["rbp"] + row.cfa.offset) = c
      BY <1>5, <3>1
    <3> QED  BY <1>6, <2>2, <3>2 DEF GetCFA
  <2> QED  BY <1>3, <2>1, <2>2
<1>9. \A n \in {1, 2} : c - n \in Stack => ReadWord((c + (-n)) % WordSize, junk) = memory[c - n]
  <2> SUFFICES ASSUME NEW n \in {1, 2}, c - n \in Stack
               PROVE  ReadWord((c + (-n)) % WordSize, junk) = memory[c - n]
    OBVIOUS
  <2>1. PICK a : a = c - n
    OBVIOUS
  <2>2. a \in 0 .. WordSize - 1 /\ a \in Int /\ c + (-n) = a
    BY <1>5, <2>1 DEF Stack
  <2>3. a % WordSize = a
    BY <1>5, <2>2
  <2> QED  BY <2>1, <2>2, <2>3 DEF ReadWord
<1>10. /\ c - 1 \in Stack /\ memory[c - 1] = f.ret
       /\ l.rbp = "caller" => bp = f.rbp
       /\ l.saved => c - 2 \in Stack /\ memory[c - 2] = f.rbp
  BY <1>1, <1>2, <1>4 DEF LaidFrame
<1>11. Unwound(row, loaded, junk)["rip"] = f.ret
  BY <1>3, <1>8, <1>9, <1>10
<1>12. ASSUME DescribesRbp(Holding(at), l)
       PROVE  Unwound(row, loaded, junk)["rbp"] = f.rbp
  <2>1. CASE Ruled(Holding(at), "rbp")
    <3>1. l.saved
      BY <1>12, <2>1 DEF DescribesRbp
    <3> QED  BY <1>3, <1>8, <1>9, <1>10, <2>1, <3>1
  <2>2. CASE ~Ruled(Holding(at), "rbp")
    <3>1. l.rbp = "caller"
      BY <1>12, <2>2 DEF DescribesRbp
    <3> QED  BY <1>1, <1>3, <1>10, <2>2, <3>1
  <2> QED  BY <2>1, <2>2
<1> QED  BY <1>2, <1>3, <1>4, <1>8, <1>11, <1>12

\* So the row at the pc yields the innermost frame.
LEMMA InnermostUnwound ==
  ASSUME NEW L, Laid(L), Described(L), FramesInv(L)
  PROVE  InnermostFound
<1> SUFFICES ASSUME frames # <<>>, HasFunction(pc), ~Restores(pc), NEW junk,
                    NEW row, row = GetFrameRowAtPC[pc]
             PROVE  /\ Unwindable(row)
                    /\ GetCFA(row, LoadRegisters) = Last(frames).cfa
                    /\ Unwound(row, LoadRegisters, junk)["rip"] = Last(frames).ret
  BY DEF InnermostFound
<1>1. PICK f, at, sp, bp, fs : f = Last(frames) /\ at = pc /\ sp = rsp /\ bp = rbp /\ fs = frames
  OBVIOUS
<1>2. FramesAre(L, at, sp, bp, memory, fs) /\ fs # <<>>
  BY <1>1 DEF FramesInv
<1>3. at \in DOMAIN Code /\ LaidFrame(L, memory, f, at, sp, bp)
  BY <1>1, <1>2, InnermostFrame
<1>4. f.cfa \in Bottom .. Top + 1
  BY <1>1, <1>2, Records
<1>5. Describes(Holding(at), L[at])
  BY <1>1, <1>3 DEF Described
<1>6. PICK loaded : loaded = LoadRegisters
  OBVIOUS
<1>7. loaded["rbp"] = bp /\ loaded["rsp"] = sp
  BY <1>1, <1>6 DEF LoadRegisters
<1>8. /\ Unwindable(row) /\ GetCFA(row, loaded) = f.cfa
      /\ Unwound(row, loaded, junk)["rip"] = f.ret
  <2>1. row = GetFrameRowAtPC[at]
    BY <1>1
  <2>2. LoadedIn(L, f, at, sp, bp, row, loaded)
    BY <1>3, <1>4, <1>5, <1>7, <2>1 DEF LoadedIn
  <2> QED  BY <2>2, FrameUnwound
<1> QED  BY <1>1, <1>6, <1>8

\* In a program that keeps frames, with call-frame instructions that say where
\* they are, an unwind finds the frame of the function that is running and its
\* return address at every instruction of it (GetReturnAddresss, Frame.h).
THEOREM FindsInnermost ==
  ASSUME NEW L, Laid(L), Described(L)
  PROVE  Spec => []InnermostFound
<1>1. FramesInv(L) => InnermostFound
  BY InnermostUnwound
<1> QED  BY <1>1, FramesInvariance, PTL

-----------------------------------------------------------------------------
(* The callstack                                                           *)

\* While the program stands still so does what the callstack should show.
LEMMA FramePointersStay ==
  ASSUME UNCHANGED thread
  PROVE  /\ ByFramePointer' <=> ByFramePointer
         /\ \A k : Executing(k)' = Executing(k) /\ RbpOf(k)' = RbpOf(k)
         /\ LoadRegisters' = LoadRegisters
<1>1. pc' = pc /\ rsp' = rsp /\ rbp' = rbp /\ frames' = frames
  BY DEF thread
<1>2. \A k : Executing(k)' = Executing(k) /\ RbpOf(k)' = RbpOf(k)
  BY <1>1 DEF Executing, RbpOf
<1>3. LoadRegisters' = LoadRegisters
  BY <1>1 DEF LoadRegisters
<1>4. ByFramePointer' <=> ByFramePointer
  BY <1>1, <1>2 DEF ByFramePointer
<1> QED  BY <1>2, <1>3, <1>4

\* One turn of PrintCallStack's loop goes from a frame to the one around it.
LEMMA OneFrameOut ==
  ASSUME NEW L, Laid(L), Described(L), FramesInv(L), WalkInv, ByFramePointer,
         phase = "walk", HasFunction(PC), NEW junk,
         NEW row, row = GetFrameRowAtPC[PC],
         NEW k, k = shown, NEW fs, fs = frames
  PROVE  /\ k \in 0 .. Len(fs) - 1 /\ Len(fs) \in Nat
         /\ Unwound(row, regs, junk)["rip"] = fs[Len(fs) - k].ret
         /\ Unwound(row, regs, junk)["rbp"] = fs[Len(fs) - k].rbp
<1>1. PICK at, sp, bp : at = pc /\ sp = rsp /\ bp = rbp
  OBVIOUS
<1>2. FramesAre(L, at, sp, bp, memory, fs)
  BY <1>1 DEF FramesInv
<1>3. /\ k \in 0 .. Len(fs) /\ PC = Executing(k) /\ regs["rbp"] = RbpOf(k)
      /\ k = 0 => regs = LoadRegisters
  BY DEF WalkInv
<1>4. Len(fs) \in Nat
  BY <1>2, Records
<1>5. fs # <<>> /\ k # Len(fs)
  <2>1. CASE k = 0
    <3>1. PC = at
      BY <1>1, <1>3, <2>1 DEF Executing
    <3>2. fs # <<>>
      BY <1>2, <3>1, InnermostFrame
    <3>3. Len(fs) # 0
      BY <1>2, <3>2, Records
    <3> QED  BY <2>1, <3>2, <3>3
  <2>2. CASE k # 0
    <3>1. Len(fs) # 0 /\ k <= Len(fs)
      BY <1>3, <1>4, <2>2
    <3>2. fs # <<>>
      BY <3>1
    <3>3. ~HasFunction(fs[1].ret)
      BY <1>2, <3>2 DEF FramesAre
    <3>4. PC = fs[Len(fs) + 1 - k].ret
      BY <1>3, <2>2, <3>1 DEF Executing
    <3>5. k = Len(fs) => Len(fs) + 1 - k = 1
      BY <1>4
    <3> QED  BY <3>2, <3>3, <3>4, <3>5
  <2> QED  BY <2>1, <2>2
<1>6. PICK j : j = Len(fs) - k
  OBVIOUS
<1>7. j \in 1 .. Len(fs) /\ k \in 0 .. Len(fs) - 1 /\ Len(fs) + 1 - k = j + 1
  BY <1>3, <1>4, <1>5, <1>6
<1>8. PICK f : f = fs[j]
  OBVIOUS
<1>9. f.cfa \in Bottom .. Top + 1
  BY <1>2, <1>7, <1>8, Records
<1>10. PICK loaded : loaded = regs
  OBVIOUS
<1>11. CASE k = 0
  <2>1. PC = at /\ loaded["rbp"] = bp /\ loaded["rsp"] = sp
    BY <1>1, <1>3, <1>10, <1>11 DEF Executing, LoadRegisters
  <2>2. j = Len(fs) /\ f = Last(fs)
    BY <1>4, <1>6, <1>8, <1>11 DEF Last
  <2>3. at \in DOMAIN Code /\ LaidFrame(L, memory, f, at, sp, bp)
    BY <1>2, <1>5, <2>2, InnermostFrame
  <2>4. HasFunction(at) /\ ~Restores(at) /\ ~AtStart(at)
    BY <1>1, <2>1 DEF ByFramePointer
  <2>5. Describes(Holding(at), L[at]) /\ DescribesRbp(Holding(at), L[at])
    BY <2>3, <2>4 DEF Described
  <2>6. row = GetFrameRowAtPC[at]
    BY <2>1
  <2>7. LoadedIn(L, f, at, sp, bp, row, loaded)
    BY <1>9, <2>1, <2>3, <2>5, <2>6 DEF LoadedIn
  <2>8. /\ Unwound(row, loaded, junk)["rip"] = f.ret
        /\ DescribesRbp(Holding(at), L[at]) =>
             Unwound(row, loaded, junk)["rbp"] = f.rbp
    BY <2>7, FrameUnwound
  <2> QED  BY <1>4, <1>6, <1>7, <1>8, <1>10, <2>5, <2>8
<1>12. CASE k # 0
  <2>1. PICK g : g = fs[j + 1]
    OBVIOUS
  <2>2. k \in 1 .. Len(fs) /\ j \in 1 .. Len(fs) - 1 /\ j + 1 \in 1 .. Len(fs)
    BY <1>4, <1>6, <1>7, <1>12
  <2>3. PC = g.ret /\ loaded["rbp"] = g.rbp
    <3>1. Executing(k) = fs[j + 1].ret
      BY <1>7, <1>12, <2>2 DEF Executing
    <3>2. RbpOf(k) = fs[j + 1].rbp
      BY <1>7, <1>12 DEF RbpOf
    <3> QED  BY <1>3, <1>10, <2>1, <3>1, <3>2
  <2>4. LaidFrame(L, memory, f, g.ret, g.cfa, g.rbp)
    <3>1. LaidCaller(L, memory, fs[j], fs[j + 1])
      BY <1>2, <2>2 DEF FramesAre
    <3> QED  BY <1>8, <2>1, <3>1 DEF LaidCaller
  <2>5. g.ret \in ReturnPoints /\ g.ret \in DOMAIN Code
    BY <1>2, <2>1, <2>2, Records
  <2>6. row.cfa.reg = "rbp"
    <3>1. GetFrameRowAtPC[Executing(k)].cfa.reg = "rbp"
      BY <1>3, <2>2 DEF ByFramePointer
    <3> QED  BY <1>3, <3>1
  <2>7. row = GetFrameRowAtPC[g.ret] /\ HasFunction(g.ret)
    BY <2>3
  <2>8. CfaFrom(Holding(g.ret), "rbp")
    BY <2>5, <2>6, <2>7, CfaByRbp
  <2>9. Describes(Holding(g.ret), L[g.ret]) /\ DescribesRbp(Holding(g.ret), L[g.ret])
    BY <2>5, <2>7, <2>8 DEF Described
  <2>10. PICK ret, cfa, bp2 : ret = g.ret /\ cfa = g.cfa /\ bp2 = g.rbp
    OBVIOUS
  <2>11. Describes(Holding(ret), L[ret]) /\ DescribesRbp(Holding(ret), L[ret])
    BY <2>9, <2>10
  <2>12. LoadedIn(L, f, ret, cfa, bp2, row, loaded)
    <3>1. ret \in DOMAIN Code /\ row = GetFrameRowAtPC[ret] /\ loaded["rbp"] = bp2
      BY <2>3, <2>5, <2>7, <2>10
    <3>2. LaidFrame(L, memory, f, ret, cfa, bp2)
      BY <2>4, <2>10
    <3> QED  BY <1>9, <2>6, <2>11, <3>1, <3>2 DEF LoadedIn
  <2>13. /\ Unwound(row, loaded, junk)["rip"] = f.ret
         /\ DescribesRbp(Holding(ret), L[ret]) =>
              Unwound(row, loaded, junk)["rbp"] = f.rbp
    BY <2>12, FrameUnwound
  <2> QED  BY <1>4, <1>6, <1>7, <1>8, <1>10, <2>11, <2>13
<1> QED  BY <1>11, <1>12

\* Every step keeps the callstack at the frame it is to show next.
LEMMA WalkStep ==
  ASSUME NEW L, Laid(L), Described(L), FramesInv(L), WalkInv, [Next]_vars
  PROVE  WalkInv'
<1>1. CASE PrintCallStack
  <2>1. /\ phase' = "walk" /\ PC' = pc /\ regs' = LoadRegisters /\ shown' = 0
        /\ UNCHANGED thread
    BY <1>1 DEF PrintCallStack
  <2>2. regs' = LoadRegisters' /\ pc' = pc /\ rbp' = rbp /\ frames' = frames
    BY <2>1, FramePointersStay DEF thread
  <2>3. regs'["rbp"] = rbp
    BY <2>1 DEF LoadRegisters
  <2>4. Executing(shown)' = pc /\ RbpOf(shown)' = rbp
    BY <2>1, <2>2 DEF Executing, RbpOf
  <2>5. PICK fs : fs = frames
    OBVIOUS
  <2>6. 0 \in 0 .. Len(fs)
    <3>1. FramesAre(L, pc, rsp, rbp, memory, fs)
      BY <2>5 DEF FramesInv
    <3>2. Len(fs) \in Nat
      BY <3>1, Records
    <3> QED  BY <3>2
  <2>7. shown' \in 0 .. Len(frames')
    BY <2>1, <2>2, <2>5, <2>6
  <2> QED  BY <2>1, <2>2, <2>3, <2>4, <2>7 DEF WalkInv
<1>2. CASE ShowFrame
  <2>1. UNCHANGED thread /\ phase' = phase
    BY <1>2 DEF ShowFrame, thread
  <2>2. phase' = "walk" /\ phase = "walk" /\ HasFunction(PC)
    BY <1>2, <2>1 DEF ShowFrame
  <2>3. CASE ~ByFramePointer
    <3>1. ~(ByFramePointer')
      BY <2>1, <2>3, FramePointersStay
    <3> QED  BY <2>2, <3>1 DEF WalkInv
  <2>4. CASE ByFramePointer
    <3>1. PICK junk : regs' = Unwound(GetFrameRowAtPC[PC], regs, junk)
      BY <1>2 DEF ShowFrame
    <3>2. PICK row, k, fs : row = GetFrameRowAtPC[PC] /\ k = shown /\ fs = frames
      OBVIOUS
    <3>3. /\ k \in 0 .. Len(fs) - 1 /\ Len(fs) \in Nat
          /\ Unwound(row, regs, junk)["rip"] = fs[Len(fs) - k].ret
          /\ Unwound(row, regs, junk)["rbp"] = fs[Len(fs) - k].rbp
      BY <2>2, <2>4, <3>2, OneFrameOut
    <3>4. PC' = regs'["rip"]
      BY <1>2 DEF ShowFrame
    <3>5. PC' = fs[Len(fs) - k].ret /\ regs'["rbp"] = fs[Len(fs) - k].rbp
      BY <3>1, <3>2, <3>3, <3>4
    <3>6. shown' = k + 1 /\ frames' = fs
      <4>1. k <= Len(fs)
        BY <3>3
      <4>2. shown' = IF k <= Len(fs) THEN k + 1 ELSE k
        BY <1>2, <3>2 DEF ShowFrame
      <4>3. frames' = fs
        BY <2>1, <3>2 DEF thread
      <4> QED  BY <4>1, <4>2, <4>3
    <3>7. /\ k + 1 # 0 /\ k + 1 <= Len(fs) /\ Len(fs) + 1 - (k + 1) = Len(fs) - k
          /\ k + 1 \in 0 .. Len(fs)
      BY <3>3
    <3>8. PICK n : n = k + 1
      OBVIOUS
    <3>9. /\ shown' = n /\ n # 0 /\ n \in 0 .. Len(fs)
          /\ Len(fs) + 1 - n = Len(fs) - k /\ n <= Len(fs)
      BY <3>6, <3>7, <3>8
    <3>10. Executing(shown)' = fs[Len(fs) - k].ret
      BY <3>6, <3>9 DEF Executing
    <3>11. RbpOf(shown)' = fs[Len(fs) - k].rbp
      BY <3>6, <3>9 DEF RbpOf
    <3> QED  BY <2>2, <3>5, <3>6, <3>9, <3>10, <3>11 DEF WalkInv
  <2> QED  BY <2>3, <2>4
<1>3. CASE EndOfStack
  BY <1>3 DEF EndOfStack, WalkInv
<1>4. CASE Execute
  <2>1. phase = "run" /\ UNCHANGED walk
    BY <1>4 DEF Execute, Push, Move, Add, Flow, Call, Leave, Return, Instruction
  <2>2. phase' = "run"
    BY <2>1 DEF walk
  <2> QED  BY <2>2 DEF WalkInv
<1>5. CASE UNCHANGED vars
  <2>1. UNCHANGED thread /\ phase' = phase /\ PC' = PC /\ regs' = regs /\ shown' = shown
        /\ frames' = frames
    BY <1>5 DEF vars, thread
  <2>2. /\ ByFramePointer' <=> ByFramePointer
        /\ Executing(shown)' = Executing(shown) /\ RbpOf(shown)' = RbpOf(shown)
        /\ LoadRegisters' = LoadRegisters
    <3>1. \A k : Executing(k)' = Executing(k) /\ RbpOf(k)' = RbpOf(k)
      BY <2>1, FramePointersStay
    <3>2. pc' = pc /\ rbp' = rbp
      BY <2>1 DEF thread
    <3>3. Executing(shown)' = Executing(shown)
      BY <2>1, <3>2 DEF Executing
    <3>4. RbpOf(shown)' = RbpOf(shown)
      BY <2>1, <3>2 DEF RbpOf
    <3> QED  BY <2>1, <3>3, <3>4, FramePointersStay
  <2> QED  BY <2>1, <2>2 DEF WalkInv
<1> QED  BY <1>1, <1>2, <1>3, <1>4, <1>5 DEF Next

\* The callstack shows the frames there are, one by one, if the callers keep
\* frame pointers and the row at the pc is the right one (PrintCallStack).
THEOREM ShowsCallers ==
  ASSUME NEW L, Laid(L), Described(L)
  PROVE  Spec => []CallStackByFramePointer
<1>1. Init => WalkInv
  BY DEF Init, WalkInv
<1>2. FramesInv(L) /\ WalkInv /\ [Next]_vars => WalkInv'
  BY WalkStep
<1>3. WalkInv => CallStackByFramePointer
  BY DEF WalkInv, CallStackByFramePointer
<1> QED  BY <1>1, <1>2, <1>3, FramesInvariance, PTL DEF Spec

=============================================================================
