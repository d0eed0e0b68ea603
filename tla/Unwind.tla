------------------------------- MODULE Unwind -------------------------------
(***************************************************************************)
(* Unwinding: the frame rows of Frame.h, GetReturnAddresss and             *)
(* PrintCallStack of Debugger.h, over a program that pushes, calls and     *)
(* returns on a real stack.                                                *)
(*                                                                         *)
(* Of the registers there are the three that frames are made of.  The      *)
(* stack is counted in words, growing down; an FDE is a record             *)
(* [location, instructions], its call-frame instructions being records     *)
(* [op, reg, n], with offsets as the rule stores them (factored).          *)
(***************************************************************************)
EXTENDS LineTable

CONSTANTS
  Code,          \* the program: address -> [op, n, next]
  Start,         \* where it is entered
  Functions,     \* the functions' ranges, in the order of their DIEs
  Initial,       \* the CIE's initial instructions
  FDEs,          \* the FDEs, sorted by location
  Bottom, Top,   \* the stack's words
  Junk           \* what a variable that no read has filled may hold

Word == 0 .. WordSize - 1
Stack == Bottom .. Top
Registers == {"rbp", "rsp", "rip"}

ASSUME UnwindAssumption ==
  /\ DOMAIN Code \cup Junk \subseteq Word
  /\ Bottom \in Nat /\ Top \in Nat /\ Bottom <= Top /\ Top + 1 \in Word
  /\ Start \in DOMAIN Code
  /\ \A i, j \in DOMAIN FDEs : i < j => FDEs[i].location < FDEs[j].location

VARIABLES
  pc, rsp, rbp,  \* the main thread's registers
  memory,        \* the words of its stack
  frames,        \* history: return address, CFA and rbp of every active call
  phase,         \* run, or walk: inside PrintCallStack
  PC,            \* PrintCallStack: the address it looks at
  regs,          \* PrintCallStack: its registers
  shown          \* history: the frames it has shown, up to one too many

vars == <<pc, rsp, rbp, memory, frames, phase, PC, regs, shown>>
thread == <<pc, rsp, rbp, memory, frames>>
walk == <<phase, PC, regs, shown>>

Init ==
  /\ pc = Start /\ rsp = Top + 1 /\ rbp = 0
  /\ memory = [a \in Stack |-> 0]
  /\ frames = <<>>
  /\ phase = "run" /\ PC = 0 /\ shown = 0
  /\ regs = [r \in Registers |-> 0]

-----------------------------------------------------------------------------
(* Frame rows                                                              *)

\* FindFDE's bisection (see FrameMap), at or above the first location.
FindFDE(a) ==
  LET location(i) == IF i < Len(FDEs) THEN FDEs[i + 1].location ELSE WordSize
      find[low \in Nat, high \in Nat] ==
        LET index == (low + high) \div 2
        IN  IF location(index) <= a /\ a <= location(index + 1) THEN FDEs[index + 1]
            ELSE IF location(index) <= a THEN find[index + 1, high]
            ELSE find[low, index - 1]
  IN  find[0, Len(FDEs) + 1]

NewRow(location) ==
  [PC |-> location, cfa |-> [reg |-> "none", offset |-> 0],
   registers |-> [r \in Registers |-> [rule |-> "undefined", n |-> 0]],
   withRules |-> {}, remembered |-> <<>>, returned |-> FALSE]

\* A location beyond the pc ends the interpretation.
Beyond_At(a, location) == a <= location

Beyond(a, location) == a < location

Advanced(row, location, a) ==
  IF Beyond(a, location) THEN [row EXCEPT !.returned = TRUE]
                         ELSE [row EXCEPT !.PC = location]

\* regStack has room for so many sets of rules.
REG_STACK == 64

\* What FrameInstructionsUntilPC asserts: that there is room for one set more, and
\* that the CFA counts from a register if that or the offset is to be another.
Fails(row, i) ==
  \/ i.op = "remember_state" /\ ~(Len(row.remembered) < REG_STACK)
  \/ i.op \in {"def_cfa_register", "def_cfa_offset"} /\ row.cfa.reg \notin Registers

\* One instruction of FrameInstructionsUntilPC, with the pc at a.  DW_CFA_restore
\* does nothing; DW_CFA_restore_state brings back neither the CFA nor the flags.
Instructed(row, i, a) ==
  IF row.returned THEN row
  ELSE IF Fails(row, i) THEN [row EXCEPT !.returned = TRUE, !.cfa.reg = "failed"]
  ELSE
  CASE i.op = "advance_loc" -> Advanced(row, row.PC + i.n, a)
    [] i.op = "set_loc" -> Advanced(row, i.n, a)
    [] i.op \in {"offset", "val_offset", "register", "same_value", "expression"} ->
         [row EXCEPT !.withRules = @ \cup {i.reg},
                     !.registers[i.reg] = [rule |-> i.op, n |-> i.n]]
    [] i.op = "undefined" ->
         [row EXCEPT !.withRules = @ \ {i.reg}, !.registers[i.reg].rule = "undefined"]
    [] i.op = "remember_state" ->
         [row EXCEPT !.remembered = Append(@, row.registers)]
    [] i.op = "restore_state" ->
         [row EXCEPT !.registers = Last(row.remembered), !.remembered = Front(@)]
    [] i.op = "def_cfa" -> [row EXCEPT !.cfa = [reg |-> i.reg, offset |-> i.n]]
    [] i.op = "def_cfa_register" -> [row EXCEPT !.cfa.reg = i.reg]
    [] i.op = "def_cfa_offset" -> [row EXCEPT !.cfa.offset = i.n]
    [] i.op = "def_cfa_expression" -> [row EXCEPT !.cfa.reg = "expression"]
    [] i.op = "restore" -> row

\* FrameInstructionsUntilPC; the remembered rules are its own.
FrameInstructionsUntilPC(row, instructions, a) ==
  LET after[i \in 0 .. Len(instructions)] ==
        IF i = 0 THEN [row EXCEPT !.remembered = <<>>]
        ELSE Instructed(after[i - 1], instructions[i], a)
  IN  after[Len(instructions)]

HasFunction(a) == GetFunctionByAddress(Functions, a) # 0

\* The row of each address of the functions.
GetFrameRowAtPC ==
  [a \in {a \in Word : HasFunction(a)} |->
     FrameInstructionsUntilPC(
       FrameInstructionsUntilPC(NewRow(FindFDE(a).location), Initial, WordSize),
       FindFDE(a).instructions, a)]

GetCFA(row, loaded) ==
  IF row.cfa.reg = "none" THEN 0
  ELSE (loaded[row.cfa.reg] + row.cfa.offset) % WordSize

\* A word of the debuggee; a read that fails leaves what was there.
ReadWord(a, junk) == IF a \in Stack THEN memory[a] ELSE junk

\* What a rule other than another register's gives.
ValueOf(rule, cfa, junk) ==
  CASE rule.rule = "same_value" -> 0
    [] rule.rule = "offset" -> ReadWord((cfa + rule.n) % WordSize, junk)
    [] rule.rule = "val_offset" -> (cfa + rule.n) % WordSize

GetRegInFrameRow(row, cfa, reg, junk) ==
  LET value[r \in Registers] ==
        LET rule == row.registers[r]
        IN  IF rule.rule = "register" THEN value[rule.n] ELSE ValueOf(rule, cfa, junk)
  IN  value[reg]

\* The registers of the caller.  rsp has no rule and stays.
Unwound_RipOnly(row, loaded, junk) ==
  [loaded EXCEPT !["rip"] =
     GetRegInFrameRow(row, GetCFA(row, loaded), "rip", junk)]

Unwound_Not(row, loaded, junk) == loaded

Unwound(row, loaded, junk) ==
  [r \in Registers |->
     IF r \in row.withRules THEN GetRegInFrameRow(row, GetCFA(row, loaded), r, junk)
     ELSE loaded[r]]

\* No assertion has failed for the row, and GetCFA and GetRegInFrameRow do not
\* assert either: against expressions, and a register that has the flag and no
\* rule, as restore_state can leave it.
Unwindable(row) ==
  /\ row.cfa.reg \notin {"expression", "failed"}
  /\ \A r \in row.withRules :
       row.registers[r].rule \notin {"undefined", "expression"}

-----------------------------------------------------------------------------
(* PrintCallStack                                                          *)

LoadRegisters == [rbp |-> rbp, rsp |-> rsp, rip |-> pc]

PrintCallStack ==
  /\ phase = "run"
  /\ phase' = "walk"
  /\ PC' = pc /\ regs' = LoadRegisters /\ shown' = 0
  /\ UNCHANGED thread

\* One turn of its loop: a frame is shown and the PC moves to its caller.  A
\* failed assertion is where the debugger ends.
ShowFrame ==
  /\ phase = "walk" /\ HasFunction(PC)
  /\ Unwindable(GetFrameRowAtPC[PC])
  /\ \E junk \in Junk : regs' = Unwound(GetFrameRowAtPC[PC], regs, junk)
  /\ PC' = regs'["rip"]
  /\ shown' = IF shown <= Len(frames) THEN shown + 1 ELSE shown
  /\ UNCHANGED <<thread, phase>>

\* No function has the address: the list is complete.
EndOfStack ==
  /\ phase = "walk" /\ ~HasFunction(PC)
  /\ phase' = "run"
  /\ UNCHANGED <<thread, PC, regs, shown>>

-----------------------------------------------------------------------------
(* The program (not in the repository)                                     *)

Instruction(op) == phase = "run" /\ Code[pc].op = op

Push ==
  /\ Instruction("push rbp") /\ rsp > Bottom
  /\ rsp' = rsp - 1
  /\ memory' = [memory EXCEPT ![rsp - 1] = rbp]
  /\ pc' \in Code[pc].next
  /\ UNCHANGED <<rbp, frames, walk>>

Move ==
  /\ Instruction("mov rbp, rsp")
  /\ rbp' = rsp
  /\ pc' \in Code[pc].next
  /\ UNCHANGED <<rsp, memory, frames, walk>>

Add ==
  /\ Instruction("add rsp") /\ rsp + Code[pc].n \in Stack
  /\ rsp' = rsp + Code[pc].n
  /\ pc' \in Code[pc].next
  /\ UNCHANGED <<rbp, memory, frames, walk>>

Flow ==
  /\ Instruction("flow")
  /\ pc' \in Code[pc].next
  /\ UNCHANGED <<rsp, rbp, memory, frames, walk>>

Call ==
  /\ Instruction("call") /\ rsp > Bottom
  /\ rsp' = rsp - 1
  /\ memory' = [memory EXCEPT ![rsp - 1] = Code[pc].n]
  /\ frames' = Append(frames, [ret |-> Code[pc].n, cfa |-> rsp, rbp |-> rbp])
  /\ pc' \in Code[pc].next
  /\ UNCHANGED <<rbp, walk>>

\* mov rsp, rbp; pop rbp.
Leave ==
  /\ Instruction("leave")
  /\ rsp' = rbp + 1
  /\ rbp' = memory[rbp]
  /\ pc' \in Code[pc].next
  /\ UNCHANGED <<memory, frames, walk>>

Return ==
  /\ Instruction("ret")
  /\ pc' = memory[rsp]
  /\ rsp' = rsp + 1
  /\ frames' = Front(frames)
  /\ UNCHANGED <<rbp, memory, walk>>

Execute == Push \/ Move \/ Add \/ Flow \/ Call \/ Leave \/ Return

Next == PrintCallStack \/ ShowFrame \/ EndOfStack \/ Execute

Spec == Init /\ [][Next]_vars

\* The debugger's loop runs on; nobody has to type callstack, and the
\* program owes nothing.
FairSpec == Spec /\ WF_vars(ShowFrame \/ EndOfStack)

-----------------------------------------------------------------------------
(* Properties                                                              *)

\* The address at which the k-th frame from inside is executing.
Executing(k) ==
  IF k = 0 THEN pc
  ELSE IF k <= Len(frames) THEN frames[Len(frames) + 1 - k].ret ELSE 0

\* Where an FDE starts the one before it may be found (FrameMap), and only
\* restore_state does less than it says.
AtStart(a) == \E i \in DOMAIN FDEs : FDEs[i].location = a

Restores(a) ==
  \E i \in DOMAIN FindFDE(a).instructions : FindFDE(a).instructions[i].op = "restore_state"

\* An unwind finds the frame of the function that is running, with its return
\* address, at every instruction of it, prologue and epilogue included: `out'
\* rests on this (Debugger.h:126-147, 332-336; Frame.h:168-365).
InnermostFound ==
  phase = "run" /\ frames # <<>> /\ HasFunction(pc) /\ ~Restores(pc) =>
    LET row == GetFrameRowAtPC[pc]
    IN  /\ Unwindable(row)
        /\ GetCFA(row, LoadRegisters) = Last(frames).cfa
        /\ \A junk \in Junk : Unwound(row, LoadRegisters, junk)["rip"] = Last(frames).ret

\* Every frame but the innermost is found by its rbp: rsp does not unwind.
ByFramePointer ==
  /\ ~AtStart(pc) /\ (HasFunction(pc) => ~Restores(pc))
  /\ \A k \in 1 .. Len(frames) :
       HasFunction(Executing(k)) => GetFrameRowAtPC[Executing(k)].cfa.reg = "rbp"

\* The callstack shows the frames there are, one by one, if the callers keep
\* frame pointers (Debugger.h:149-172).
CallStackByFramePointer ==
  ByFramePointer /\ phase = "walk" => PC = Executing(shown)

\* And then the list comes to its end.
CallStackEnds == phase = "walk" /\ ByFramePointer ~> phase = "run"

=============================================================================
