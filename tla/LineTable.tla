----------------------------- MODULE LineTable -----------------------------
(***************************************************************************)
(* The lookups of Dwarf_line.h in a line table that has been built: which  *)
(* source position an address belongs to, which position comes next, and   *)
(* which address a line is at.  IsInRange and GetFunctionByAddress are     *)
(* Dwarf.h's, for units and functions of one range.                        *)
(*                                                                         *)
(* A compile unit is a record [low, high, files, rows], with the numbers   *)
(* of the files in its header, a function [low, high]; a row of a unit's   *)
(* table is [address, line, file, stmt].  Addresses are machine words.     *)
(* X_Y is X with a mistake in it.                                          *)
(***************************************************************************)
EXTENDS Integers, SequencesExt

CONSTANT WordSize    \* number of values of a u64

ASSUME LineTableAssumption == WordSize \in Nat \ {0}

NoPos == [line |-> 0, address |-> 0]

\* Both ends belong to the range.
IsInRange(unit, a) == unit.low <= a /\ a <= unit.high

\* The first function, in the order of their DIEs, whose range the address is
\* in; 0 for none.
GetFunctionByAddress(functions, a) ==
  LET hits == {f \in DOMAIN functions : IsInRange(functions[f], a)}
  IN  IF hits = {} THEN 0 ELSE Min(hits)

PosOf(row) == [line |-> row.line, address |-> row.address]

\* One turn of GetSrcPosByAddress's loop: best is the row found so far (<<>>
\* for none).  Once a row has been found the distance to beat is the address
\* itself, so any later statement at or below the address replaces it as soon
\* as its line differs.
Nearer_Nearest(a, best, row) ==
  LET dif == (a - row.address) % WordSize
      limit == IF best = <<>> THEN WordSize - 1 ELSE (a - best[1].address) % WordSize
  IN  IF dif < limit /\ row.stmt /\ (best = <<>> \/ best[1].line # row.line)
        THEN <<row>> ELSE best

Nearer(a, best, row) ==
  LET dif == (a - row.address) % WordSize
      limit == IF best = <<>> THEN WordSize - 1 ELSE a
  IN  IF dif < limit /\ row.stmt /\ (best = <<>> \/ best[1].line # row.line)
        THEN <<row>> ELSE best

\* The rows found after each turn, in tuples; <<>> where there is none.
Nearest(table, a) ==
  LET best[k \in 0 .. Len(table)] ==
        IF k = 0 THEN <<>> ELSE Nearer(a, best[k - 1], table[k])
  IN  best
NearestRow(unit, a) == Nearest(unit.rows, a)[Len(unit.rows)]

InUnit(unit, a) ==
  LET best == NearestRow(unit, a)
  IN  IF best = <<>> THEN NoPos ELSE PosOf(best[1])

\* GetSrcPosByAddress; NoPos where its assertion fails.
GetSrcPosByAddress(units, a) ==
  LET hits == {u \in DOMAIN units : IsInRange(units[u], a)}
  IN  IF hits = {} THEN NoPos ELSE InUnit(units[Min(hits)], a)

\* Where NextSrcPos takes the next position of one unit from: 0 for nowhere.
NextRow_AnyLine(unit, pos) ==
  LET here == {i \in DOMAIN unit.rows : PosOf(unit.rows[i]) = pos}
      after == {i \in DOMAIN unit.rows :
                  /\ here # {} /\ i > Min(here)
                  /\ unit.rows[i].address # pos.address
                  /\ unit.rows[i].stmt}
  IN  IF after = {} THEN 0 ELSE Min(after)

NextRow(unit, pos) ==
  LET here == {i \in DOMAIN unit.rows : PosOf(unit.rows[i]) = pos}
      after == {i \in DOMAIN unit.rows :
                  /\ here # {} /\ i > Min(here)
                  /\ unit.rows[i].line # pos.line
                  /\ unit.rows[i].address # pos.address
                  /\ unit.rows[i].stmt}
  IN  IF after = {} THEN 0 ELSE Min(after)

\* NextSrcPos; NoPos where its assertion fails.
NextSrcPos(units, pos) ==
  LET hits == {u \in DOMAIN units :
                 IsInRange(units[u], pos.address) /\ NextRow(units[u], pos) # 0}
      unit == units[Min(hits)]
  IN  IF hits = {} THEN NoPos ELSE PosOf(unit.rows[NextRow(unit, pos)])

\* GetPCByLine; 0 where it answers MAX_u64.
GetPCByLine(units, file, line) ==
  LET at(u) == {i \in DOMAIN units[u].rows :
                  /\ file \in Range(units[u].files)
                  /\ units[u].rows[i].line = line
                  /\ units[u].rows[i].file = file
                  /\ units[u].rows[i].stmt}
      hits == {u \in DOMAIN units : at(u) # {}}
  IN  IF hits = {} THEN 0 ELSE units[Min(hits)].rows[Min(at(Min(hits)))].address

\* Where StepOver's loop sets breakpoints with the pc at a: the positions it
\* passes in the function it takes a to be in, up to the line found at that
\* function's end, but not a's own.  NextSrcPos's assertion cuts the walk short.
StepOverWalk(units, functions, a) ==
  LET here == GetSrcPosByAddress(units, a)
      function == functions[GetFunctionByAddress(functions, a)]
      stop == GetSrcPosByAddress(units, function.high).line
      n == 1 + FoldLeft(LAMBDA m, unit : m + Len(unit.rows), 0, units)
      pos[i \in 1 .. n] ==
        IF i = 1 THEN GetSrcPosByAddress(units, function.low)
        ELSE IF pos[i - 1] = NoPos \/ pos[i - 1].line = stop THEN NoPos
        ELSE NextSrcPos(units, pos[i - 1])
  IN  SelectSeq([i \in 1 .. n |-> pos[i].address],
                LAMBDA p : p # 0 /\ p # here.address)

=============================================================================
