# MEN_Debugger: a verification project

MEN_Debugger is a command-line debugger for Windows programs with DWARF 5
debug information (`src/README.md`). These modules model what it does to the
program it debugs and how it finds its way in that program's tables. TLC checks
them on small programs and small debug information, TLAPS proves the central
invariants for all of them.

## 1. The system

### Components

| component | source | state | operations |
|---|---|---|---|
| breakpoints and stepping | `Debugger.h` 17-25, 227-420, 455-613 | `State.breakpoints`, temporary breakpoints on the C stack or in an arena | `continue`, `stepi`, `in`, `out`, `over`, `breakpoint set`, `register set` |
| debug-event layer | `WindowsLayer.c` 234-610, `OS.h` | none of its own: the debuggee's memory, context and pending event | `ProcStartup`, `SingleStep`, `ContinueProcess`, reads and writes |
| debuggee and debug port | not in the repository (`test/src/test.cpp` is an example) | text, stack, registers, trap flag, events | executes, traps, exits |
| line-number program | `Dwarf_line.h` 113-457 | the project's files; per unit the numbers of its files, a table, and while it is built the registers | `ParseLineHeader`, `CreateLineTable`, `GetLineTable` |
| line table lookups | `Dwarf_line.h` 536-622, `Dwarf.h` 363-401, `Debugger.h` 65-76, 514-532 | none | address to line, next position, line to address, address to function, name to file |
| FDE map | `Frame.h` 109-114, 449-535 | two parallel arrays sorted by address | `CreateFDEPCMap`, `FindFDE` |
| frame rows and unwinding | `Frame.h` 1-447, `Debugger.h` 126-172, `Registers.h` | a row, a copy of the registers | `GetFrameRowAtPC`, `GetReturnAddresss`, `PrintCallStack` |
| temporary arenas | `Memory_Managment.c/.h` | a stack of arenas in one region | `AllocTempArena`, `FreeTempArena` |
| DIE cursor | `Dwarf.h` 174-190, 288-426, 547-777, `DwarfForms.h` 631-827, `Debugger.h` 192-225 | per DIE an entry, an attribute, a depth, values; the units' DIEs | `InitializeCompileUnits`, `NextDIE`, `ParseDIE`, `MoveDataCursor`, the four walks |
| attributes | `DwarfDef.h` 380-575, `DwarfForms.h` 39-545 | none | `GetDwarfClass`, a reader per class |
| range lists | `RangeList.h` | none | `IsInRangeRnglist` |
| DWARF expressions | `DwarfExpr.h`, `DataStructures.h` | an evaluation stack, what is to be returned | `EvalExprFrameBase`, `EvaluateExpression` |
| LEB128 | `Encodings.h` | none | `ULEB128AndAdvance`, `SLEB128AndAdvance` |
| command parsing | `Debugger.h` 460-613, `String.h` 111-125, 179-209, `Memory_Utils.h` 33-98 | the line, split in place, and the words' places, both kept from line to line | `scanf`, `ParseCommands`, the dispatch |
| executable image | `PE.h`, `ELF.h` | none | header parsing, printing |
| printing, profiling, definitions | the other headers | none | none that matters here |
| Linux layer | `LinuxLayer.c` | an earlier port that `build.bat` does not compile | none |

### How they interact

The debugger has one thread. It reads a command, works on the debuggee with
`ReadProcessMemory`, `WriteProcessMemory` and `SetThreadContext`, and then blocks
in `WaitForDebugEvent` inside one of three loops: `ProcStartup`, `SingleStep` or
`ContinueProcess`. Each loop waits for one kind of event and prints and continues
all others. The debuggee runs only while the debugger is blocked, so shared
state is handed over and not raced for; what is hard is the order:

* which loop is waiting when an event arrives (a breakpoint during a single
  step, an exit during either),
* text bytes that are changed by a table breakpoint, a temporary one and the
  step off either, at the same address, and put back in some order,
* commands that run to an address though they mean a frame,
* boundaries: the end address of one range is the first address of the next,
* structures filled in one order and emptied in another (arenas, the FDE map),
* byte streams read by a cursor that nothing resynchronises: one attribute, one
  level of the tree or one register wrong, and all that follows is,
* state left over from the last use: a DIE's values, a stack's size, registers, the
  words of earlier command lines,
* resources nobody gives back.

`hazards` in `PROJECT.json` lists them by line, with the properties for each.

### What would make it correct

* *Session*: the text is as the user's breakpoints want it whenever the prompt is
  there; breakpoints are never run over; the debuggee behaves as it would
  alone; each command stops where it says; each command comes back.
* *FDE map*: sorted, paired, searched inside its arrays; what is found is nearest.
* *Unwinding*: at every instruction, prologue and epilogue included, the
  frame and its return address are found; the callstack is the true one.
* *Arenas*: no two overlap, none is popped under its holder, all come back.
* *Line tables*: a file has one number; a table's rows are those its program means;
  an address has the line of the statement before it, a line the address of
  one of its statements, and no lookup leads out of the code.
* *Debug information*: a walk visits the entries of a unit once, in order, at their
  depth; each attribute is read from where it begins; what is looked for by name
  or address is found; every command comes back.
* *Expressions*: the stack is the standard's, and so is the result; LEB128 numbers are
  read as they are written.
* *Command lines*: a line is split into its words, whatever was typed before; every line is
  read; an argument that a line does not have is at least a string.

## 2. The modules

```
Debuggee        the program alone: the abstract specification
  DebugSession  breakpoints, commands, event loops, debug port
    StraightSession            programs without recursion
      DebugSession_proofs      about both
      MCStraight               one of them      (with LineTable)
    MCRecursive                another program  (with LineTable)
LineTable       lookups in line tables and function ranges
  Unwind        frame rows and the callstack, on a program with a real stack
    FramedProgram              programs that keep frames and say so
      Unwind_proofs
      MCUnwind                 one of them, with its call-frame instructions
  LineProgram   file numbers, line-number programs, `breakpoint set line'
    LineProgram_proofs
    MCLineProgram              two projects
DwarfForms      classes and readers of attributes
  DieWalk       the DIE cursor, range lists, the walks of four commands
    DieWalk_proofs
    MCDieWalk   debug information of two units, with and without oddities,
                and of one attribute in every form
Encodings       LEB128
  Expressions   the stack machine of DWARF expressions
    Expressions_proofs
    MCExpressions
FrameMap        building and searching the FDE map
  FrameMap_proofs
TempArenas      the allocator of temporary arenas and its callers
  TempArenas_proofs
CommandLine     reading a line, its words, the arguments a command takes
  CommandLine_proofs
  MCCommandLine sessions of short lines, and of longer commands
```

An operator `X_Y` in front of an operator `X` is `X` with a plausible mistake;
`PROJECT.json` names, for every property, the mistake it notices.

### DebugSession

`ctl` is where the debugger is: one of the three loops (`startup`, `step`, `cont`),
the `prompt`, or an end. Everything between two waits is one action, because
nothing else can happen in between: the debuggee is stopped. So
`CommandStepOut`, for example, is all of `StepOut` up to the wait inside
`SingleStep` or `ContinueProcess`; the rest of `StepOut` (`RemoveBreakpoint`)
is in `ContinueStopped`, the action of the event that ends the wait.

| code | model |
|---|---|
| `State.breakpoints`, `used` flags, `byteExtracted` | `slots` |
| `tempBreakpoint`, `tempBreakpoints`, `kernelBreakpoint` | `temps`, in the order they were set |
| text of the debuggee | `mem`: per instruction start, `"orig"` or `"int3"` |
| `SetBreakpoint` on a list; `RemoveBreakpoint` on a list | `Extracted`, `Armed`; `Restored` |
| `SingleStepInstruction`, `SingleStepFromBreakpoint` | `SingleStepInstruction`, `stepSlot`, `Rearmed` |
| `Continue` | `Continue`, then the third disjunct of `StepDone` when it stepped first |
| `SingleStep`'s loop | `StepDone` for `EXCEPTION_SINGLE_STEP`, `StepSwallow` for the rest |
| `ContinueProcess`'s loop | `ContinueStopped`, `ContinueExited`, `ContinueOther` |
| `ProcStartup` | `StartupPlant`, `StartupDone`, `StartupExit`, `StartupOther` |

The debuggee (`Target...`) is external: instructions with successors, calls and
returns; the processor's int3 and trap flag; the events of the port. `Disturb`
switches on what may happen besides: the process killed from outside, another
thread hitting a breakpoint, a useless unwind, a user overwriting `rip`. What the user
writes is any of `Typed`, addresses in the middle of an instruction and behind the text included, but not 0.

The lookups the commands make are constants (`SrcPos`, `Walk`) whose values each
MC module gives as tables; its `LookupsAgree`, evaluated on every run, says
they are what `LineTable` computes from the program's line table.

### StraightSession

What the commands promise about where they stop holds only where an address is as good
as a frame. `StraightSession` says what a program must be like for that, and states
the invariants that then hold. The hypotheses are about the program and its debug
information alone:

* `NoRecursion`: the functions can be ranked so that a call leads deeper than where it
  returns to (`CallsRanked`), and so that the positions `StepOver` walks belong to a
  function no deeper (`WalksRanked`). The walk goes one position too far, for
  both ends of a function's range count (`Dwarf.h:377`), so a callee that lies directly
  behind its caller is excluded: there `over` plants in the callee and stops in it.
* `OverInReach`, of the places where `over` is typed. Where `rbp` is the function's own any will do.
  In a prologue, where it is still the caller's and `StepOver` plants the return address of that, what
  follows must be positions the walk plants at, or on in the prologue (`Prologue`). In an epilogue, at
  a `ret` behind `pop rbp` or `leave`, the function must be right below its caller in the
  call graph (`RightBelow`): the caller goes on under the breakpoints of the walk, and if something it calls can
  call the function too, `over` stops in there, deeper than it began.

They are not empty: `MCStraight` gives a ranking of its program with every function right below what calls it,
and prologues that are `Prologue`, so `over` is in reach everywhere. TLC evaluates `ProgramIsStraight` in every run of it.

### LineTable

Pure operators: `GetSrcPosByAddress` (with the reset of the distance to beat that
makes later rows win), `NextSrcPos`, `GetPCByLine` (in the units whose header has the file), `GetFunctionByAddress`
(both ends of a range count, the first DIE wins) and the walk of `StepOver`.

### LineProgram

`KnownFile`, `NewFile` and `NextHeader` are the turns of `ParseLineHeader`'s loop over the
files of all units, in the order of startup; `GetLineTable` starts the program
of any unit, as lookups do, and each opcode of `CreateLineTable` is an action. The
program is not fixed: it is read instruction by instruction, so that a run goes
through all programs of its length whose sequences a compiler could write (an
address first, lines from 1 on, an end). The bytes are left out, and of the
registers those that only the printed table shows.

What a program *means* is stated without registers: `Meant` gives the row of an
instruction from the instructions before it, by sums and last occurrences.
`RowsTrue` says that the built rows are those. Addresses wrap at the word size; an
advance is taken whole, which the code keeps in 32 bits. The lookups are `LineTable`'s, asked in
the tables that came out, and compared with the sequences of the program.

| code | model |
|---|---|
| `projectFilesIds`, `projectFilesIdsIndices` | `files`, `indices` |
| `Dwarf_Line_State state` | `state` |
| `lineTable`, `lineTableCreated` | `rows`, `created` |
| special opcode; `DW_LNS_...`, `DW_LNE_...` | `Special`; one action each, those that assert together in `Unsupported` |

### DwarfForms and DieWalk

An entry of `.debug_info` is its abbreviation code and the values with their sizes in
bytes. `DwarfForms` says by how many bytes each reader passes a value of a form, and
the standard's sizes; whether the index of an `rnglistx` is in the list of offsets, which `FormToRnglist` asserts,
is `Listed`. `DieWalk` is the cursor over it: `UpdateDIE` passes null entries
and keeps the depth, `Passed` is what passing an attribute comes to in each of the
three places where it is done (`NextDIE`, `ParseDIE`, a unit's own DIE), `After` what that
does to the rest of the entry. When a reader takes another number of bytes than there
are, or the walk leaves the unit, everything read from then on is arbitrary: the
status is `lost` and nothing more is said. A failed assertion is `failed`. Lost at once are units of a version below 5:
of a unit's header only what `HeaderMisread` says is modelled, that it is read in version 5's order whatever its version.

`DieWalkAssumption` says what debug information is: the entries of a unit are one tree that
ends with the unit, and the value of an implicit constant is the one its abbreviation has.
TLC evaluates it on all that the runs use, and also `Standard` (a value has the bytes its form says,
no attribute is there twice) and `AddressesNumeric`, which some theorems take as
hypotheses (`InfosAreStandard`; not for 64-bit DWARF, which the debugger reads as 32-bit).

The walks share their actions: `EnterUnit`, `PassUnit`, `Skip`, `Parse`, `StepDIE`,
`LeaveUnit` are the loops of `PrintInfo`, `GetFunctionByName`, `GetFunctionByAddress` and
`PrintLocalVariables`, and the `Judge...` actions what each does with a parsed DIE.
`die` outlives an entry as it does in the code: its values are those of the DIE that
was parsed last, or of none (`Junk`), which is where `Skips` gets its flag from.

| code | model |
|---|---|
| `dataRaw`, `cursorDataRaw` | `entry` |
| `cursorAbbrev`, `cursorData`, `treeDepth`, `prevHasChildren`, `data` | the same |
| the table `ParseDwarfAbbrev` makes | `AbbrevOf`, with code 0 and unknown codes `NoAbbrev` |
| `Dwarf_Compile_Unit.DIE` | `cus` |

### Encodings and Expressions

`Encodings` has the widths as constants (7, 32 and 64 bits in the code), because what
goes wrong depends on them: a group is shifted as an `int`. A shift by more than its width is what
x86 makes of it. C's bitwise operators are the sets of the words' bits (`Bits`, `WordOf`). `Expressions` has one
action per group of operations that one piece of code serves; operations that are
not implemented assert (`Unimplemented`) or fall through without passing over their
operands (`Ignored`), after which the evaluation is `lost`. The stack begins with any
size within its array and with leftovers in its slots. Beside the machine, `meant` holds what DWARF 5 makes of the operations
read so far: the words of its stack, where it goes on, the location named. Nothing in the
code corresponds to it and no step of the machine looks at it. It counts as long as
only operations occur that are `Right`; the operations that compute something else
(`minus`, `div`, `shra`, `plus_uconst`, `dup`, `over`, `pick`, `addr`, `regx`,
`stack_value`) are modelled as they are and excepted there.

### Unwind

`Instructed` is one call-frame instruction of `FrameInstructionsUntilPC`,
`GetFrameRowAtPC` the row of every address, `Unwound` the registers after
`GetReturnAddresss`, `ShowFrame` one turn of `PrintCallStack`'s loop. The program
under it has a stack in memory, `rsp` and `rbp`; `frames` is the history a
callstack should show. The words below `rsp` keep what was last there, as
they do on a machine, and a failing read yields any of `Junk`.

`FramedProgram` says of any program what the unwinding rests on. `Laid` is what a compiler that keeps
frames emits: a *layout* gives, for each instruction, the words between the CFA and `rsp`, whether
`rbp` is still the caller's or the frame's own, and whether the caller's is saved; `Follows` is what an instruction
may do to it. Code of no function only flows, calls functions and exits. `Described` is what its
call-frame instructions must say of that layout, by what they *mean* (those up to the last location not
beyond the address, the later over the earlier: `Holding`, `LastBy`), not by how the debugger
reads them. They must also keep what the debugger asserts (`Fails`): a CFA that counts from a register is there before
that or its offset is changed (`CfaFirst`), and no more sets of rules are remembered than there is room for (`Balanced`, which
also rules out restoring a set that was not remembered: the debugger would take it from before its array). Of a function with `DW_CFA_restore_state` nothing is asked but at return points whose CFA
counts from `rbp`, and what is said of `rbp` only has to be true where a callstack can read it. TLC
evaluates both on `MCUnwind`'s program (`MCFramed`).

### FrameMap

`AddFDE` is one object of the section with the insertion loop, `Probe` one turn of
the bisection with 32-bit bounds. An FDE is named by its start address.

### TempArenas

The allocator with `FreeTempArena`'s loop one turn at a time, under its callers in
the order `DebuggerLoop` has them.

### CommandLine

`Read` is the `scanf`, `Word` one turn of `ParseCommands`' loop, `Look` the dispatch taking one
more word, and `Run` the command, of which only the words it took are kept (`ran`): what it
does is the other modules. `buffer` is `input` byte by byte, `commands` the places of the words;
nothing resets them, so a line lies over the end of a longer one and words of
earlier lines keep their places. A byte nobody wrote is `Junk`; who reads it is `lost`,
and so is who finds more words than there are places (`WordLost`). By then the place of the word is
put, any behind the line if the word begins among such bytes, and a quoted word may be ended. What a line *means* is stated without
places, character by character (`Split`).

## 3. The runs

| run | bounds | what it shows |
|---|---|---|
| `Straight` (23 thousand states) | program of 12 instructions with a library call and a loop, call depth 3, 2 table entries, 3 sites | all properties of the session, liveness and transparency included |
| `Recursive` (6.3 million) | recursive program, depth 3, 1 table entry, all of `Disturb`, `rip` overwritten with a breakpoint's address and the one behind it | type invariant, the inductive invariant of the proofs, breakpoints armed and honoured |
| `ContinueStray` | recursive program, 2 entries | finding: `continue` stops at no breakpoint |
| `Unwind` (42 thousand) | 3 functions, mutual recursion, 12 words of stack | innermost frame found everywhere; callstack true and finite with frame pointers |
| `FrameMap` (1.9 thousand) | up to 4 FDEs in any order, addresses 1-8, 4-bit bounds | sorted behind the first, paired, inside, nearest, ends |
| `TempArenas` (1.3 thousand) | 6 arenas, 9 bytes, sizes 1-3 | disjoint, held, reclaimed |
| `ArenaLeak` | 6 arenas, 9 bytes, size 1: two are kept at startup and four `over`s fit | finding: the fifth `over` finds no arena; were `StepOver` to free its own, the bounds would never be reached |
| `LineProgram` (1.08 million) | two projects, 2 and 3 units, every program of up to 6 and 8 instructions in all, up to 2 sequences in each | files interned, rows true, lookups right, nothing planted behind the code |
| `BreakByLine` | same | finding: lines of the first file cannot be set |
| `DieWalk` (14 thousand) | debug information of two units, six with oddities, and one attribute in every form, 9 names, version 5; units of versions 3 and 4; 20 queries | walks true, attributes read, functions, locals and addresses found, commands end |
| `CommandLine` (64 thousand) | two lines of up to 3 characters each, all of them, and five sessions of up to 6 lines of commands; buffer of 16, 5 words | words true, arguments are strings until a byte nobody wrote is met, an empty line repeats |
| `Expressions` (263 thousand) | all expressions of one or two operations, of three that push and apply, every LEB128 number of up to five groups; 2-bit groups, 5-bit ints, 12-bit words, 4 slots | stack and result as meant; LEB128 |

Why the bounds are enough. Two table entries let one breakpoint be at the address
of a temporary and one elsewhere; with call depth 3 a recursive function has a
caller of its own kind and a deeper call. Where one entry is used (`Recursive`)
the disturbances make up for it, and what is checked there is proved for any
number. Programs have one instruction for each thing that can make a command
stop differently: a prologue where `rbp` is still the caller's, a return where it is so again, a call whose
return address is a line of its own and one where it is not, code without
lines, a loop. Twelve words hold three nested frames with a frame pointer between two
without. Four FDEs make three turns of the bisection.

The two projects divide the work: `GccLike` has headers as gcc writes them (file 0
again as file 1), every opcode and two operations per instruction, so that `opIndex`
wraps; `TwoSections` has two files of one name and programs of two sequences, the
second below the first as well as above, so that something can leak from one to the other.
The debug information has adjoining functions and units, nested blocks, functions
with and without `DW_AT_prototyped`, range lists of each kind of entry, an empty list of
children, a unit without children, 64-bit DWARF and missing padding. In an
8-bit `int` the third 3-bit group reaches the sign and the fourth is lost, as the
fifth and sixth 7-bit group are in 32 bits; 12-bit words overflow in every operation
that can. Three characters are enough for each thing a line can end with (a word, a
blank, a quote open or closed) over the leftovers of another; the longer sessions have commands
with more and with fewer arguments than the line before.

`CHECK_DEADLOCK FALSE` is in every cfg: the debugger stops on `exit`, on a failed
assertion and when the debuggee's program has ended.

### Fairness

`FairSpec` of the session: the debugger's handlers are weakly fair (a delivered
event is handled), the debuggee's own steps strongly fair, for a notification may
interrupt it again and again but not for ever (Windows sends finitely many). No
command is fair: nobody has to type. `LoopEnds` in `MCStraight` adds that
the program's loop is left if it can be; without it `continue` may wait for a
program that never stops, which is no fault. `Unwind`, `FrameMap` and `DieWalk` assume
only that a loop of the debugger that can turn does (in `DieWalk`, weak fairness of
`Walk`: no query is fair).

`CommandReturns` is checked where nobody kills the process: in `SingleStep` an exit
event is continued like any other, and the next wait has nothing to wait
for (hazard at `WindowsLayer.c:450`).

## 4. The proofs

All are by TLAPS, for every value of the constants that satisfies the named
assumptions in the modules.

**DebugSession_proofs.** `IInv` is the inductive invariant:

* `PortInv`: the debuggee runs only while the debugger waits, and an event is
  pending only while it is stopped. Without it a command could be
  given to a moving target.
* `PCInv`: the pc is no address 0, return addresses are instruction starts, and
  behind an int3 there is one. `GetBreakpointByAddress` does not look at `used`, and
  unused entries have address 0: with pc 0 it would take one of those.
* `StartupInv`: the startup's temporary never meets a table entry.
* `SlotsInv`: a used entry has an address and, if filled from a live process,
  a byte.
* `TempsInv`: a temporary at the address of a table entry extracted that entry's
  0xCC. This is what makes `out` and `over` put the breakpoint back
  and not the instruction.
* `StepInv`: an entry is being stepped off only inside `SingleStep`.

`Invariance` is proved by one step per action; from it follow `TypeCorrect`,
`StaysArmed` (`BreakpointsArmed`) and `Honoured` (`BreakpointsHonoured`). They hold
with every disturbance on.

**Its second part.** Six properties more, for every program without recursion, any number
of table entries and any sites. On top of `IInv`, `SessionInv` is inductive:

* `LevelInv`: the stack leads up the call graph, so that each function is there at most once.
  Return addresses differ, and the temporaries of `over` are all at different
  addresses: two at one place is what leaves a 0xCC behind in `ContinueStray`.
* `TextInv`: an int3 in the text is the table's or a temporary one's, and a temporary
  extracts an int3 only from the table. With no temporaries at the prompt
  that is `TextRestored`.
* `TableInv`: the table is filled from its beginning, and the first entry at an address
  is the one with the compiler's byte, the one `GetBreakpointByAddress` finds.
* `SteppingInv`: while `SingleStep` waits, the instruction is in place and the trap flag set, so it
  cannot end on a breakpoint's event.
* `EventInv`, `ContinueInv`: an event is about an int3 that is still there, and `continue` has
  no temporary to stop at.

From it follow `TextIsRestored`, `ContinueStops` and, with one case for each kind of step (the
debuggee executes an instruction as the program alone would, or its pc and stack
stay as they are, the pc behind an int3 being counted back), `SessionIsTransparent`:
`Spec => Plain!Spec`. Here the process may be killed at any time, and `out` in code without frame information may
take any address for the caller's;
a `rip` overwritten by the user is excluded, which is no step of the program, and so is another thread at a
breakpoint, whose event the debugger takes for the main thread's.

`CommandInv` is inductive on top of that:

* `PlantedInv`: a running command's temporaries are in the text.
* `MovesInv`: until something was executed, the instruction at the pc is in place and no
  stop is pending. Hence `EachCommandMoves`.
* `OutInv`: `out` waits at the return address of a frame that is still there, or has arrived.
  Hence `OutLeaves`.
* `OverInv`: `over` is in a callee, in the function itself with its return planted, in a prologue all
  of whose successors are planted, behind an epilogue, or at a temporary no deeper than it began. In the first two, no
  temporary is in a function deeper than the one that runs (`NoneBelow`), so a callee meets none; behind an epilogue
  (`InCaller`) none is more than a level below the caller, so what the caller calls meets none deeper than it was,
  and the caller's own return address is planted.
  Hence `OverStays`, the only one that needs `OverInReach`, which it asks of every step.

An `out` that takes any address for the caller's (`"unwind"`) is excluded here: it may plant at the pc
itself, or where it is already, and so comes back at once. `MCStraight`'s ranking
put for `Level` and for the rankings, TLC finds both invariants kept on its program.

**FrameMap_proofs.** The inductive invariant is the conjunction of

* `MapPaired` and `SortInv`: the two arrays are in step, no address is there twice,
  and what lies behind the first entry is sorted, which is all the insertion
  loop keeps (with the lowest first, the whole map then is);
* `ClosedInv`: a map that is searched ends in `MAX_u64`, which stops the upper bound;
* `IntervalInv`: the entry at `low` starts at or below the address and the one after
  `high` above it (`Bounded`), or `high` has wrapped around because the address
  is below the first entry (`Wrapped`), and the next turn leaves the arrays.

From it: `StaysPaired`, `Sorts`, `AssertionUnreached`, `SearchStaysInside`,
`FindsNearest`. The only assumption that is not a type is that twice the size
of the map fits its `u32`. That a non-empty set of numbers
has a least one is `HasLeast`, which most of these modules begin with: it is what they use for
induction.

**Unwind_proofs.** Both safety properties, for any program that is `Laid` out, with call-frame
instructions that have it `Described`.

* `FramesInvariance`: `FramesInv`. The frames of the active calls lie below one another; each holds its return
  address and, where the layout of the instruction it is at (or returns to) says so, the caller's `rbp`; the registers
  are what the layout says of the innermost one. One lemma for each instruction: what is written is
  below `rsp`, and every caller's frame is at or above it (`FrameKept`). This is why a frame that has
  called must have `depth > 1` if it has saved `rbp`: the word that saves it must be one
  it still owns.
* `FrameRow`: the row `GetFrameRowAtPC` computes holds the last word of the instructions that hold at the
  address on each thing (`RowOf`). By the first length at which it would not (`UntilRow`); behind a location
  beyond the address nothing changes any more (`RowKept`). Hence `RowSays`: what a described row
  yields.
* `FindsInnermost` (`InnermostFound`) from these alone; no invariant of its own.
* `ShowsCallers` (`CallStackByFramePointer`) by `WalkInv`: the callstack is at the frame it is to show next, with that
  frame's `rbp` in its registers, and `rsp` is right for the innermost only, which is why the rows of
  callers must count from `rbp` (`ByFramePointer`). That it does not run on past the outermost
  frame follows: that frame returns to code of no function (`OneFrameOut`).

TLC finds both invariants kept on `MCUnwind`'s program with its layout.

**TempArenas_proofs.** The inductive invariant is the conjunction of

* `Contiguous`: each arena begins where the one below it ends, and what is used ends
  with the one on top, so that a pop gives back exactly the last arena's bytes;
* `CallerInv`: how much a caller holds goes with what it still has to do;
* `Holds`: what it still gives back is in use and is no other it gives back, so the
  loop of `FreeTempArena` stops above it;
* `TopInv`: outside that loop the arena on top is in use.

From it: `Disjoint`, `HoldersKeep`, `AllReclaimed`, for any number of arenas, region
and sizes. That the arenas suffice is not so (`ArenaLeak`).

**LineProgram_proofs.** All five invariants, for any number of units with any files, any
header and any programs a compiler could write.

* `Interned` (`FilesInterned`) from `IInv`: no unit has more numbers than files (`Short`),
  each number given names the file of the header at its place (`Names`), and from
  number 1 on no file is there twice (`Once`). The last is no stronger for number 0, which
  the search misses, and that is the finding `BreakByLine`.
* `TablesInvariance`: `TInv`. Each unit's rows are what its program so far means, one for each
  instruction that puts one there, in order (`Table`), and the registers of the program that
  runs hold the totals of its sequence (`Keeps`): the sum of the operations since its address, of the lines and
  negations since it began, the last file named. That a division with a remainder carried from step to step is the
  division of the sum is `Carried`; that `Totals` is the function it defines, `TotalsFollow`,
  by the first length for which there would be none. Programs are only read when every header
  is parsed (`Full`), so that a number of the header is one of the project's.
* From `TInv` alone: `RowsAreTrue` (`RowsTrue`); then, since a created table ends with the end of a
  sequence, every other row lies in a span (`LiesInSpan`), the row before an end is the
  same line (`BeforeEnd`), and so a lookup that takes the first row of a line never takes an end
  (`FirstNoEnd`): `PlantsAreInCode` (`PlantsInCode`) and `LinesAreBreakable` (`LineBreakable`).
* `AddressesHaveLines` (`LineOfAddress`): as long as rows are at or below the address, the row kept is
  of the last statement's line (`FoundBelow`), whatever it compares distances with; behind the address
  the distance wraps and never falls below the address (`Distances`), so nothing changes (`StaysFound`).

**DieWalk_proofs.** All five safety properties, for any debug information and any queries. Most of the work is
about the cursor alone: in a tree, moving on from an entry passes over exactly the null
entries behind it, and where it stops, the depth it keeps is the depth in the tree, or it has
left the unit (`UpdateMoves`, from how the depth changes, `DepthMoves`). The inductive invariants
add what each command knows:

* `IInv`, for `breakpoint set func`: wherever the walk is, the functions of the name that lie behind it have
  `DW_AT_prototyped` (`Judged`); a parsed function has the name that was read (`NameRead`, which
  is where implicit constants matter); and each unit begins with an entry that is no
  function (`RootOK`, from the assertion in `InitializeCompileUnits`). Hence `FindsName`.
* `PlaceInv`, for `section info` and the searches for an address: the cursor is on an entry whose
  code it has (`CursorInv`), at its depth if it is `InTree` (`TreeInv`), and each unit's DIE was read
  to its end (`RootsInv`). An entry is parsed to its end if and only if no attribute of it is
  among those named (`SpoilsRead`), by `FormsRead`: over every version, name and form,
  the class `GetDwarfClass` gives it has a reader that passes it by its bytes, but for `Misread` and
  `Refused`. Hence `ReadsAttributes`, for standard debug information.
* `SeenInv`: `section info` has seen the entries before where it is, all of them, each at its depth, in
  order (`SeenBefore`). Hence `WalksInfo`.
* `AddressInv`: a search has passed over no function that has the address and whose ranges are
  `Plain` (`Misses`), and what it has found contains the address or ends at it. It rests on `RangeRead`:
  where an entry's addresses are `Plain`, `IsInRange` takes all of them, and one more at the end. Hence
  `FindsAddress`, for standard debug information with numeric addresses.
* `LocalsInv`: below a function the cursor counts its depth from the function's on, so it ends where the
  tree below it does, and on no entry before (`UpdateBelow`); `locals` has printed the name of every
  variable and parameter before where it is, the k-th at the k-th place (`Lists`). Hence
  `PrintsLocals`.

`InTree` is needed: after an empty list of children the depth is wrong and the walk may end early.

**CommandLine_proofs.** All its properties, for any buffer, number of words and input: `WordsEnd`
(`ArgumentsEnd`), `RepeatsLast` (`EmptyRepeats`), `SplitsLine` (`WordsTrue`) and `Typed`.

* `IInv` says that, until `ParseCommands` is lost, behind the longest line nothing was ever written and that this line's
  end is still there (`Written`), since `ParseCommands` writes nothing but ends; so a search for the
  end of a word that does not run into unwritten bytes stops there at the latest, and every
  word's place is below (`WordsWithin`).
* `Again`: from the first turn on the buffer holds every turn so far, with where it began, its word and
  its end (`Turns`), and after the last the end of the line (`Parsed`); a turn that the buffer holds is
  found again and writes what is there (`TurnIsFound`). The second time round the loop may stop at an
  earlier word, whose end is now the end of the string, but the words behind it have
  kept their places. What the dispatch takes then depends on buffer and places alone (`Heard`), so that
  two times through it with the same ones stop at the same word (`SaidAgain`).
* `SplitInv`: while a line is split, what is behind `scan` is still the line, and the words found are those
  of what is before it (`Unsplit`). It needs the line to be `Complete`: behind a blank at the end the
  search for a word goes on into what an earlier line left. That the characters of a word make one word
  (`WordGrows`) is proved by the first place where it would fail, and that `Splits` is the function
  it defines (`SplitsFollow`) by the first length for which there would be none.

**Expressions_proofs.** All three properties, for any widths with groups narrower than ints and ints
narrower than words, any expressions, stack size within the array, registers and memory.

* *Numbers*. `Recursion` gives the functions that the loops are modelled by, `Induction` is over the
  set of places where something holds. Or-ing words adds them where one is below a power of two and the other a
  multiple of it (`OrAdds`), or is all ones from there on (`OrAddsSign`), and or-ing ints gives an
  int (`OrOfInts`). So the loop of `ULEB128AndAdvance` never leaves anything but an `int` with its sign
  extended (`ReadsNumber`), which is why a number beyond that is not read (`UnsignedFits`, `SignedFits`); and as
  long as its shifts are below the width of an `int`, what it has read and what is left make up the number
  (`ReadTo`, `ReadOn`). A negative number may reach the sign bit in its last group: then the sign
  extension of the `int` gives the ones that the reader would have to add (`PlacedNegative`). Hence
  `NumbersAreRead` (`NumbersRead`). That this needs the last group to begin below the width of an
  `int` is how `Wraps` was found.
* *The machine*. `IInv` says that the machine is where the standard is, that the words of the standard's stack
  lie on top of what was there, and that their elements are all generic until memory is read
  (`Follows`), without which a comparison asserts; a location is in `ret` if and only if one was named. An operation that is
  `Right` takes and pushes what the standard does (`Does`), whatever it is, so one lemma moves the
  stack (`Effected`) and one per operation says what is pushed: the offset of `breg` may wrap, a
  shift left loses what the product loses (`ShiftsLeft`), words of one sign compare as signed ones
  (`HoldsAlike`). The first that is not `Right` ends what is claimed. Hence `StackIsMeant` (`StackAsMeant`) and
  `ResultIsMeant` (`ResultAsMeant`): no assertion, no null pointer and no operand taken for an operation
  until then.

**What is only model-checked.** Liveness (`CommandReturns`, `SearchEnds`,
`CallStackEnds`, `CommandsEnd`), which is out of the prover's reach.

## 5. Findings

1. `ContinueStray`: `over` in a recursive function sets two temporaries at one
   address; the second extracts the first one's 0xCC, which is put back last and
   stays in the text.
2. `ArenaLeak`: `StepOver` never frees its arena, so each `over` uses one up; the trace has four that
   succeed and a fifth that asserts.
3. `BreakByLine`: the first file of the first unit has two numbers if it is named again,
   which gcc does in every header; `breakpoint set line` asks for the first, the
   rows have the second.

What else the code does not do as one would expect is excepted by name in a property
that passes, so that the exception is as narrow as it is true:

* `out` runs to an address and not to a frame: in a recursive function the first return of
  a deeper call ends it. `OutLeavesFrame` is checked on a program without recursion.
* `in` looks every pc up and asserts outside the units: the line that calls library code
  ends the debugger (`Debugger.h:353`).
* `over` at a function's first instruction finds the function that ends there, if its DIE comes
  first (`Dwarf.h:377`). `MCStraight` gives the walk with the DIEs the other way round;
  with `MCWalkSourceOrder` for `Walk`, `OverStaysInFrame` is violated.
* `callstack` at a function's first instruction takes the FDE before it, whose last row still
  has a rule for `rbp`, since `DW_CFA_restore` is ignored: `CallStackByFramePointer`
  excepts that address.
* The insertion loop of the FDE map never compares with entry 0 (`Frame.h:512`): the map is
  only `SortedAfterFirst`, and `FoundNearest` asks for a sorted one.
* `GetSrcPosByAddress` resets the distance to beat (`Dwarf_line.h:580`) to the address itself, which a row at
  address 0 is not below: `LineOfAddress` asks for
  rows in ascending order, and for the file only where the line number decides it.
* `NextSrcPos` may answer the end of the code where the last row is another line at the
  same address (`PlantsInCode`).
* `GetFunctionByName` reads `DW_AT_prototyped` before it has parsed the DIE (`Dwarf.h:414`), and so judges by
  an earlier DIE's value; a C function that has the attribute is passed over, and the command
  asserts. `NameFound` excepts such functions.
* An empty line is not consumed by `scanf("%[^\n]%*c")` (`Debugger.h:466`): the last command is done again
  (`EmptyRepeats`), for ever, and nothing typed behind it is read, `exit` included.
* After an empty list of children the depth of a walk is one too low (`InTree`).
* A blank or an open quote at the end of a line lets `ParseCommands` run on into what an earlier, longer
  line left (`Complete`). If no earlier line was longer, it runs into bytes nobody wrote, and the place of a word it puts
  there (`String.h:200`) is one for a later command to read: `ArgumentsEnd` holds until then.
* `over` at a `ret` behind `pop rbp` takes the caller's caller for the caller (`Debugger.h:405`), so nothing is planted where
  the function returns to; where something the caller calls next calls the function again, it stops there, deeper than it began
  (`RightBelow`).
* A range list's base is 0 until the list sets one, and `.debug_addr` is not read; a signed
  `DW_AT_high_pc` is taken for 0, and the index of an x-form for an address (`Plain`). The proof of
  `FindsAddress` does not go through without either.
* A negative LEB128 number padded with groups that begin at or behind the width of an int is read with ones where
  the number has zeros, since those shifts wrap (`Wraps`). `NumbersRead` holds of the others.
* A unit's header is read in version 5's order whatever its version (`Dwarf.h:672-681`), so a unit of version 2 to 4 is lost at
  startup (`HeaderMisread`) and the branches of `GetDwarfClass` for version 3 are never reached. `src/README.md` promises
  version 5 only.
* `AttributesRead` lists the forms that are misread (`Misread`) and those that assert (`Refused`).

`InnermostFound` and `CallStackByFramePointer` name what else they must except:
functions with `DW_CFA_restore_state` (neither the CFA nor the flags come back) and
callers without a frame pointer (`rsp` is not unwound).

## 6. Not modelled, and the plan

Not modelled:

* the helpers of `String.h` and `Memory_Utils.h` that only copy or format, and the C library's
  reading of numbers in arguments;
* PE and ELF headers, printing, profiling, `Vectors.h` (which nothing uses): no state that a
  command's effect depends on;
* the Linux layer, which is not built;
* the bytes that headers, frame instructions and line-number instructions are decoded
  from; so the hazard that an FDE ends at its first nop (`Frame.h:175`) has no property;
* a write past an array once a reader is lost, and the size of an expression's stack, which is never set, if it is beyond the array.

In this order:

1. *Bytes*: the call-frame instructions as a stream, with FDEs that need no padding.
