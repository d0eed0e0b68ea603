---------------------------- MODULE LineProgram ----------------------------
(***************************************************************************)
(* How Dwarf_line.h builds what its lookups read.  At startup              *)
(* ParseLineHeader gives every file of every unit's header a number of the *)
(* whole project and keeps, per unit, the numbers of its files; the first  *)
(* lookup that needs a unit's table has CreateLineTable run the unit's     *)
(* line-number program, a byte code with its own registers, whose rows are *)
(* the table.                                                              *)
(*                                                                         *)
(* A project is chosen at the start, its programs as they are read; only   *)
(* their shape is bounded.  File number i is files[i + 1] here, and a      *)
(* unit's files are numbered from 0 as in its header.                      *)
(* X_Y is X with a mistake in it.                                          *)
(***************************************************************************)
EXTENDS LineTable

CONSTANTS
  Files,        \* files, as records [dir, name]
  Projects,     \* what is debugged, of one
  MaxSequences  \* bound on the sequences of a program

Header ==
  [minimumInstructionLength : Nat \ {0}, maximumOperationsInstructions : Nat \ {0},
   defaultIsStmt : BOOLEAN, lineBase : Int, lineRange : Nat \ {0}, opcodeBase : 10 .. 255]

\* An instruction [op, n]: n is its operand, the opcode of a special one.
WellFormedOperand(i) ==
  /\ i.n \in Int
  /\ i.op = "set_file" => i.n \in Nat
  /\ i.op = "set_address" => i.n \in 0 .. WordSize - 1

\* Per unit the file table of its header; the other fields, alike for all; the
\* instructions of its programs and a bound on their number.
ASSUME LineProgramAssumption ==
  \A p \in Projects : /\ p.files \in Seq(Seq(Files)) /\ p.files # <<>>
                      /\ p.header \in Header
                      /\ \A i \in p.instructions : WellFormedOperand(i)
                      /\ p.length \in Nat

VARIABLES
  project,  \* the project read
  files,    \* projectFilesIds
  indices,  \* projectFilesIdsIndices of the units parsed so far
  unit,     \* the unit whose table is being created, 0 for none
  program,  \* per unit, the instructions of its line-number program read so far
  state,    \* the registers of the line-number program
  rows,     \* per unit, its lineTable
  created   \* per unit, lineTableCreated; "assertion" if it never will be

headers == project.files
header == project.header

vars == <<project, files, indices, unit, program, state, rows, created>>
running == <<unit, program, state, rows, created>>

Registers(file) ==
  [address |-> 0, opIndex |-> 0, file |-> file, line |-> 1,
   stmt |-> header.defaultIsStmt, end |-> FALSE]

Init ==
  /\ project \in Projects
  /\ files = <<>> /\ indices = <<<<>>>>
  /\ unit = 0
  /\ program = [u \in DOMAIN headers |-> <<>>]
  /\ state = Registers(0)
  /\ rows = [u \in DOMAIN headers |-> <<>>]
  /\ created = [u \in DOMAIN headers |-> "no"]

-----------------------------------------------------------------------------
(* ParseLineHeader: the files of the header                                *)

Current == Len(indices)
FilesDone == Len(indices[Current]) = Len(headers[Current])
Parsed == Current = Len(headers) /\ FilesDone

File == headers[Current][Len(indices[Current]) + 1]

\* The numbers under which a file is already known: the search starts at 1.
Known_Dirless(f) == {i \in 1 .. Len(files) - 1 : files[i + 1].name = f.name}
Known(f) == {i \in 1 .. Len(files) - 1 : files[i + 1] = f}

Numbered(n) == indices' = [indices EXCEPT ![Current] = Append(@, n)]

KnownFile ==
  /\ ~FilesDone /\ Known(File) # {}
  /\ Numbered(Min(Known(File)))
  /\ UNCHANGED <<project, files, running>>

NewFile ==
  /\ ~FilesDone /\ Known(File) = {}
  /\ files' = Append(files, File)
  /\ Numbered(Len(files))
  /\ UNCHANGED <<project, running>>

NextHeader ==
  /\ FilesDone /\ Current < Len(headers)
  /\ indices' = Append(indices, <<>>)
  /\ UNCHANGED <<project, files, running>>

\* A unit's number for one of its files.  The arrays lie one after the other,
\* so that an index past a unit's own is answered by the next unit's.
FileNumber_Local(numbers, u, n) == n
FileNumber(numbers, u, n) ==
  LET onwards == FlattenSeq(SubSeq(numbers, u, Len(numbers)))
  IN  IF n < Len(numbers[u]) THEN numbers[u][n + 1]
      ELSE IF n < Len(onwards) THEN onwards[n + 1] ELSE 0

-----------------------------------------------------------------------------
(* CreateLineTable                                                         *)

\* GetLineTable, the first time a lookup wants the table of unit u.
GetLineTable(u) ==
  /\ Parsed /\ unit = 0 /\ created[u] = "no"
  /\ unit' = u
  /\ state' = Registers(FileNumber(indices, u, 1))
  /\ UNCHANGED <<project, files, indices, program, rows, created>>

\* The instruction i is read; the program is one a compiler writes: every
\* sequence begins with set_address, takes lines from 1 on, and has rows.
Sequences(u) == {k \in DOMAIN program[u] : program[u][k].op = "end_sequence"}
Fresh == IF program[unit] = <<>> THEN TRUE ELSE Last(program[unit]).op = "end_sequence"
Reads(i) ==
  /\ unit # 0
  /\ Fresh <=> i.op = "set_address"
  /\ Cardinality(Sequences(unit)) < MaxSequences
  /\ MapThenSumSet(LAMBDA u : Len(program[u]), DOMAIN program) < project.length
  /\ program' = [program EXCEPT ![unit] = Append(@, i)]
  /\ UNCHANGED <<project, files, indices, unit>>

\* The registers after an advance by a number of operations; the code keeps it
\* in 32 bits, which an advance within a program's code does not fill.
Advanced(s, operations) ==
  LET total == s.opIndex + operations
  IN  [s EXCEPT
        !.address = (@ + header.minimumInstructionLength
                           * (total \div header.maximumOperationsInstructions)) % WordSize,
        !.opIndex = total % header.maximumOperationsInstructions]

Row(s) == rows' = [rows EXCEPT ![unit] = Append(@, s)]
Register(s) == state' = s /\ UNCHANGED rows

OperationsOf(h, opcode) == (opcode - h.opcodeBase) \div h.lineRange
LinesOf(h, opcode) == h.lineBase + ((opcode - h.opcodeBase) % h.lineRange)

Special(i) ==
  LET s == [Advanced(state, OperationsOf(header, i.n))
                EXCEPT !.line = @ + LinesOf(header, i.n)]
  IN  /\ i.op = "special" /\ Reads(i)
      /\ s.line > 0
      /\ state' = s
      /\ Row(s)
      /\ UNCHANGED created

Copy(i) ==
  /\ i.op = "copy" /\ Reads(i)
  /\ Row(state)
  /\ UNCHANGED <<state, created>>

AdvancePC(i) ==
  /\ i.op = "advance_pc" /\ Reads(i)
  /\ Register(Advanced(state, i.n))
  /\ UNCHANGED created

AdvanceLine(i) ==
  /\ i.op = "advance_line" /\ Reads(i)
  /\ state.line + i.n > 0
  /\ Register([state EXCEPT !.line = @ + i.n])
  /\ UNCHANGED created

SetFile(i) ==
  /\ i.op = "set_file" /\ Reads(i)
  /\ Register([state EXCEPT !.file = FileNumber(indices, unit, i.n)])
  /\ UNCHANGED created

NegateStmt(i) ==
  /\ i.op = "negate_stmt" /\ Reads(i)
  /\ Register([state EXCEPT !.stmt = ~@])
  /\ UNCHANGED created

ConstAddPC(i) ==
  /\ i.op = "const_add_pc" /\ Reads(i)
  /\ Register(Advanced(state, OperationsOf(header, 255)))
  /\ UNCHANGED created

\* Registers that only the printed table shows: the column, the discriminator.
SetOther(i) ==
  /\ i.op \in {"set_column", "set_discriminator"} /\ Reads(i)
  /\ UNCHANGED <<state, rows, created>>

\* fixed_advance_pc, set_prologue_end, set_epilogue_begin, set_basic_block,
\* set_isa and the vendors' opcodes fail an assertion.
Unsupported(i) ==
  /\ i.op = "unsupported" /\ Reads(i)
  /\ created' = [created EXCEPT ![unit] = "assertion"]
  /\ UNCHANGED <<state, rows>>

SetAddress(i) ==
  /\ i.op = "set_address" /\ Reads(i)
  /\ Register([state EXCEPT !.address = i.n, !.opIndex = 0])
  /\ UNCHANGED created

EndSequence_KeepFile(i) ==
  /\ i.op = "end_sequence" /\ Reads(i)
  /\ Row([state EXCEPT !.end = TRUE])
  /\ state' = Registers(state.file)
  /\ UNCHANGED created

EndSequence(i) ==
  /\ i.op = "end_sequence" /\ Reads(i)
  /\ Row([state EXCEPT !.end = TRUE])
  /\ state' = Registers(FileNumber(indices, unit, 1))
  /\ UNCHANGED created

Instruct(i) ==
  \/ Special(i) \/ Copy(i) \/ AdvancePC(i) \/ AdvanceLine(i) \/ SetFile(i)
  \/ NegateStmt(i) \/ ConstAddPC(i) \/ SetOther(i) \/ Unsupported(i)
  \/ SetAddress(i) \/ EndSequence(i)

\* The end of the program.
TableCreated ==
  /\ unit # 0 /\ Fresh /\ program[unit] # <<>>
  /\ created' = [created EXCEPT ![unit] = "yes"]
  /\ unit' = 0
  /\ UNCHANGED <<project, files, indices, program, state, rows>>

Failed == unit # 0 /\ created[unit] = "assertion"

Next ==
  \/ KnownFile \/ NewFile \/ NextHeader
  \/ \E u \in DOMAIN headers : GetLineTable(u)
  \/ ~Failed /\ (TableCreated \/ \E i \in project.instructions : Instruct(i))

Spec == Init /\ [][Next]_vars

-----------------------------------------------------------------------------
(* What the table should be                                                *)

\* The number every header's file is given names that file, and from 1 on no
\* two numbers name the same one: ParseLineHeader's search misses number 0,
\* so that only the first file of the first unit may have two.
FilesInterned ==
  /\ \A u \in DOMAIN indices : \A i \in DOMAIN indices[u] :
       /\ indices[u][i] + 1 \in DOMAIN files
       /\ files[indices[u][i] + 1] = headers[u][i]
  /\ \A i, j \in 2 .. Len(files) : files[i] = files[j] => i = j

\* DWARF 5, 6.2: what the instruction number i of the program p puts into the
\* table, from the instructions since its sequence began and no registers.
Totals(g) ==
  LET total[j \in 0 .. Len(g)] == IF j = 0 THEN 0 ELSE total[j - 1] + g[j] IN total
SumOf(p, f(_), from, to) ==
  LET total == Totals([j \in DOMAIN p |-> f(p[j])]) IN total[to] - total[from]
PlacesOf(p, op, from, to) == {j \in from + 1 .. to : p[j].op = op}

Operations(h, i) ==
  CASE i.op = "special" -> OperationsOf(h, i.n)
    [] i.op = "advance_pc" -> i.n
    [] i.op = "const_add_pc" -> OperationsOf(h, 255)
    [] OTHER -> 0
LinesBy(h, i) ==
  CASE i.op = "special" -> LinesOf(h, i.n)
    [] i.op = "advance_line" -> i.n
    [] OTHER -> 0
Negations(i) == IF i.op = "negate_stmt" THEN 1 ELSE 0

Meant(h, p, i) ==
  LET begin == Max(PlacesOf(p, "end_sequence", 0, i - 1) \cup {0})
      base == Max(PlacesOf(p, "set_address", 0, i))
      named == PlacesOf(p, "set_file", begin, i)
      operations == SumOf(p, LAMBDA x : Operations(h, x), base, i)
  IN  [address |-> (p[base].n + h.minimumInstructionLength
                                  * (operations \div h.maximumOperationsInstructions))
                     % WordSize,
       line |-> 1 + SumOf(p, LAMBDA x : LinesBy(h, x), begin, i),
       stmt |-> h.defaultIsStmt <=> SumOf(p, Negations, begin, i) % 2 = 0,
       end |-> p[i].op = "end_sequence",
       file |-> IF named = {} THEN 1 ELSE p[Max(named)].n]

\* The instructions of a program that put a row into the table, and which row.
Emitters(p) == {i \in DOMAIN p : p[i].op \in {"special", "copy", "end_sequence"}}
Nth(p, i) == Cardinality({e \in Emitters(p) : e <= i})
MeantRows(u) == {Meant(header, program[u], i) : i \in Emitters(program[u])}

\* The rows of CreateLineTable are those the program means, and name the file
\* the header has under the program's number, if it has one.
RowsTrue ==
  \A u \in DOMAIN rows :
    LET p == program[u]
    IN  /\ Len(rows[u]) = Cardinality(Emitters(p))
        /\ \A i \in Emitters(p) :
             LET row == rows[u][Nth(p, i)]
                 meant == Meant(header, p, i)
             IN  /\ \A field \in {"address", "line", "stmt", "end"} :
                      row[field] = meant[field]
                 /\ meant.file < Len(headers[u]) =>
                      files[row.file + 1] = headers[u][meant.file + 1]

-----------------------------------------------------------------------------
(* What the lookups find in it                                             *)

Built == {u \in DOMAIN created : created[u] = "yes"}
AddressesOf(u) == {rows[u][k].address : k \in DOMAIN rows[u]}
UnitOf(u) ==
  [low |-> Min(AddressesOf(u)), high |-> Max(AddressesOf(u)),
   files |-> indices[u], rows |-> rows[u]]
NoUnit == [low |-> 1, high |-> 0, files |-> <<>>, rows |-> <<>>]
Units == [u \in DOMAIN created |-> IF u \in Built THEN UnitOf(u) ELSE NoUnit]

\* The sequences of a built unit, as pairs of their first row and their end.
Spans(u) ==
  LET ends == {k \in DOMAIN rows[u] : rows[u][k].end}
  IN  {<<1 + Max({k \in ends : k < e} \cup {0}), e>> : e \in ends}
Covers(u, span, a) ==
  rows[u][span[1]].address <= a /\ a < rows[u][span[2]].address
InOrder(u) ==
  \A i, j \in DOMAIN rows[u] : i < j => rows[u][i].address <= rows[u][j].address

\* In a unit whose addresses ascend from above 0, GetSrcPosByAddress takes an address to
\* the line of the last statement at or below it in its sequence, although it
\* compares the distances of all but the first with the address itself; the
\* file too is right where no two files of the unit share the line number.
\* An address at which an earlier unit ends is taken for that unit's.  The
\* answer only changes at rows, so that these and their neighbours are asked.
LineOfAddress ==
  \A u \in Built : InOrder(u) /\ 0 \notin AddressesOf(u) =>
    \A span \in Spans(u), a \in UNION {{x - 1, x} : x \in AddressesOf(u)} :
      LET within == {k \in span[1] .. span[2] - 1 : rows[u][k].stmt}
          before == {k \in within : rows[u][k].address <= a}
          row == rows[u][Max(before)]
          found == NearestRow(Units[u], a)[1]
      IN  Covers(u, span, a) /\ before # {} =>
            /\ found.line = row.line
            /\ \/ found.file = row.file
               \/ \E k \in DOMAIN rows[u] : /\ rows[u][k].line = row.line
                                            /\ rows[u][k].file # row.file
            /\ (\A v \in Built \ {u} : ~IsInRange(Units[v], a)) =>
                 GetSrcPosByAddress(Units, a) = PosOf(found)

\* A compiler ends a sequence with an advance of the address and nothing else.
Closed(u) ==
  \A span \in Spans(u) :
    LET end == rows[u][span[2]]
        last == rows[u][span[2] - 1]
    IN  /\ span[1] < span[2]
        /\ last.address < end.address
        /\ last.line = end.line /\ last.file = end.file /\ last.stmt = end.stmt

InCode(u, a) == \E span \in Spans(u) : Covers(u, span, a)

\* Although the lookups take the row that ends a sequence for any other, no
\* address they give to plant a breakpoint at lies behind the code.  The one
\* exception is NextSrcPos where the last row is another line at the address
\* of the position.
PlantsInCode ==
  \A u \in Built : Closed(u) /\ InOrder(u) =>
    \A k \in DOMAIN rows[u] :
      LET row == rows[u][k]
          next == NextSrcPos(<<Units[u]>>, PosOf(row))
      IN  ~row.end =>
            /\ row.stmt /\ row.file \in Range(indices[u]) =>
                 InCode(u, GetPCByLine(<<Units[u]>>, row.file, row.line))
            /\ \/ next = NoPos
               \/ InCode(u, next.address)
               \/ \E span \in Spans(u) :
                    /\ rows[u][span[2] - 1].address = row.address
                    /\ rows[u][span[2] - 1].line # row.line

-----------------------------------------------------------------------------
(* breakpoint set line                                                     *)

\* FindFileID compares the names alone and answers the first number.
Numbers(name) == {i \in 0 .. Len(files) - 1 : files[i + 1].name = name}
FindFileID(name) == Min(Numbers(name))

\* The address of `breakpoint set line', 0 if it finds none.
SetLine(name, line) == GetPCByLine(Units, FindFileID(name), line)

\* The addresses at which the built tables have a statement of that line in a
\* file of that name, by the header's own numbers.
Statements(name, line) ==
  UNION {{row.address : row \in {m \in MeantRows(u) :
            /\ m.stmt /\ ~m.end /\ m.line = line /\ m.file < Len(headers[u])
            /\ headers[u][m.file + 1].name = name}} : u \in Built}

Breakable(name) ==
  \A line \in UNION {{row.line : row \in Range(rows[u])} : u \in Built} :
    Statements(name, line) # {} =>
      SetLine(name, line) \in Statements(name, line)

WellFormed ==
  \A u \in Built :
    Closed(u) /\ \A m \in MeantRows(u) : m.file < Len(headers[u])

\* `breakpoint set line' finds every line with a statement, at one of its
\* statements, in a file whose name has one number.
LineBreakable ==
  WellFormed =>
    \A name \in {f.name : f \in Range(files)} :
      Cardinality(Numbers(name)) = 1 => Breakable(name)

\* README.md:17: "Breakpoints could be set to a specific line in a file".
BreakByLine ==
  WellFormed =>
    \A name \in {f.name : f \in Range(files)} :
      Cardinality({f \in Range(files) : f.name = name}) = 1 => Breakable(name)

=============================================================================
