---------------------------- MODULE DebugSession ----------------------------
(***************************************************************************)
(* The core of MEN_Debugger: the breakpoint table and the stepping         *)
(* commands of Debugger.h, the debug-event loops of WindowsLayer.c, and    *)
(* the debuggee and the Win32 debug port they drive.                       *)
(*                                                                         *)
(* The debugger is one thread that blocks in WaitForDebugEvent.  `ctl' is  *)
(* the loop it is blocked in (or the prompt), `cmd' the command that got   *)
(* it there.  Everything it does between two waits is one action.  The     *)
(* debuggee moves only while the debugger waits.                           *)
(*                                                                         *)
(* A byte of the debuggee's text is either the one the compiler put there  *)
(* ("orig") or 0xCC ("int3"): the debugger writes no other value.          *)
(*                                                                         *)
(* An operator X_Y stands before X and is X with a mistake in it: the      *)
(* properties are checked to notice it.                                    *)
(***************************************************************************)
EXTENDS Debuggee, Sequences

CONSTANTS
  BPSize,   \* BP_SIZE: entries of State.breakpoints
  Sites,    \* addresses `breakpoint set' can resolve to
  SrcPos,   \* GetSrcPosByAddress: address -> [line, address], line 0 for none
  Walk,     \* where StepOver's loop sets its breakpoints, with the pc at an address
  NoFrame,  \* addresses at which rbp is not the frame of the running function
  Typed,    \* what the user writes into rip
  Disturb   \* what else may happen: see Disturbances

Disturbances == {"kill",    \* the process is terminated from outside
                 "thread",  \* another thread runs into a breakpoint
                 "unwind",  \* unwinding where there is nothing to unwind by
                 "setpc"}   \* the user overwrites rip (`register set rip')

Slots == 1 .. BPSize
NoLine == 0
NoSlot == 0
Unmapped == 0    \* stands for a word that is no address of the image

ASSUME SessionAssumption ==
  /\ BPSize \in Nat \ {0}
  /\ Sites \subseteq Starts
  /\ SrcPos \in [Address -> [line : Nat, address : Address]]
  /\ Walk \in [Address -> Seq(Starts)]
  /\ NoFrame \subseteq Starts
  /\ Typed \subseteq Address \ {0}
  /\ Disturb \subseteq Disturbances

VARIABLES
  proc,      \* the debuggee: running, stopped at an event, exited, gone
  event,     \* the event WaitForDebugEvent has delivered or will deliver
  boot,      \* the loader has not yet executed its own breakpoint
  mem,       \* the text bytes at the instruction starts
  tf,        \* the trap flag in the main thread's EFlags
  ctl,       \* where the debugger is
  cmd,       \* the command being executed, or the last one
  slots,     \* State.breakpoints
  temps,     \* breakpoints kept outside the table, in the order they were set
  stepSlot,  \* the table entry SingleStepFromBreakpoint is stepping off
  line0,     \* StepIn: currentSrcPos.line
  depth0,    \* history: call depth when the command was given
  moved      \* history: the main thread executed an instruction since then

targetVars == <<proc, event, boot, mem, tf>>
debuggerVars == <<ctl, cmd, slots, temps, stepSlot, line0>>
history == <<depth0, moved>>
vars == <<programVars, targetVars, debuggerVars, history>>

Byte == {"orig", "int3"}
Event == {"none", "create", "loader", "bp", "foreign", "ss", "other", "exit"}
RunCommand == {"continue", "stepi", "in", "out", "over"}
Breakpoint == [used : BOOLEAN, address : Address, byte : Byte \cup {"unread"}]
Temporary == [address : Starts, byte : Byte]

TypeOK ==
  /\ ProgramTypeOK
  /\ proc \in {"running", "stopped", "exited", "gone"}
  /\ event \in Event
  /\ boot \in BOOLEAN
  /\ mem \in [Starts -> Byte]
  /\ tf \in BOOLEAN
  /\ ctl \in {"startup", "prompt", "step", "cont", "failed", "full", "done"}
  /\ cmd \in RunCommand \cup {"none"}
  /\ slots \in [Slots -> Breakpoint]
  /\ temps \in Seq(Temporary)
  /\ stepSlot \in Slots \cup {NoSlot}
  /\ line0 \in Nat
  /\ depth0 \in 0 .. MaxDepth
  /\ moved \in BOOLEAN

Init ==
  /\ ProgramInit
  /\ proc = "stopped" /\ event = "create" /\ boot = TRUE
  /\ mem = [a \in Starts |-> "orig"]
  /\ tf = FALSE
  /\ ctl = "startup" /\ cmd = "none"
  /\ slots = [s \in Slots |-> [used |-> FALSE, address |-> 0, byte |-> "unread"]]
  /\ temps = <<>>
  /\ stepSlot = NoSlot
  /\ line0 = NoLine
  /\ depth0 = 0 /\ moved = FALSE

-----------------------------------------------------------------------------
(* Breakpoints                                                             *)

\* Memory and registers can be accessed until the process has exited.
Alive == proc \notin {"exited", "gone"}

LowestOf(S) == CHOOSE s \in S : \A r \in S : s <= r
LastOf(S) == CHOOSE s \in S : \A r \in S : r <= s

\* The first entry with this address; the code does not look at `used'.
GetBreakpointByAddress(a) ==
  LET hits == {s \in Slots : slots[s].address = a}
  IN  IF hits = {} THEN NoSlot ELSE LowestOf(hits)

GetEmptyBreakpoint ==
  LET free == {s \in Slots : ~slots[s].used}
  IN  IF free = {} THEN NoSlot ELSE LowestOf(free)

\* SetBreakpoint's record of an address of the text, in entry s.
Filled_Unread(s, a) == [used |-> TRUE, address |-> a, byte |-> slots[s].byte]

Filled(s, a) ==
  [used |-> TRUE, address |-> a, byte |-> IF Alive THEN mem[a] ELSE slots[s].byte]

\* SetBreakpoint on each address of a list, in order: an address that comes
\* twice already holds 0xCC when its byte is extracted the second time.
Extracted_Compiled(addresses) ==
  [i \in DOMAIN addresses |-> [address |-> addresses[i], byte |-> "orig"]]

Extracted(addresses) ==
  [i \in DOMAIN addresses |->
     [address |-> addresses[i],
      byte |-> IF \E j \in 1 .. i - 1 : addresses[j] = addresses[i]
                 THEN "int3" ELSE mem[addresses[i]]]]

Armed(addresses) ==
  [a \in Starts |-> IF \E i \in DOMAIN addresses : addresses[i] = a
                      THEN "int3" ELSE mem[a]]

\* RemoveBreakpoint on each temporary, in the order they were set.
Restored_Never == mem

Restored_ButLast ==
  [a \in Starts |->
     LET at == {i \in DOMAIN temps : temps[i].address = a /\ i < Len(temps)}
     IN  IF at = {} THEN mem[a]
         ELSE temps[LastOf(at)].byte]

Restored ==
  [a \in Starts |->
     LET at == {i \in DOMAIN temps : temps[i].address = a}
     IN  IF at = {} THEN mem[a]
         ELSE temps[LastOf(at)].byte]

-----------------------------------------------------------------------------
(* The debugger                                                            *)

Delivered == proc \in {"stopped", "exited"} /\ event # "none"
IsBreakpoint == event \in {"loader", "bp", "foreign"}

\* ContinueDebugEvent followed by WaitForDebugEvent(INFINITE).
Resume ==
  /\ proc' = IF proc = "stopped" THEN "running" ELSE "gone"
  /\ event' = "none"

\* SingleStepInstruction with text m: off a breakpoint of the table if the
\* pc is at one, plainly otherwise.
SingleStepInstruction(m) ==
  LET s == GetBreakpointByAddress(pc)
  IN  /\ mem' = IF s # NoSlot /\ Alive
                  THEN [m EXCEPT ![pc] = slots[s].byte] ELSE m
      /\ stepSlot' = s
      /\ tf' = TRUE
      /\ ctl' = "step"
      /\ Resume

\* Continue with text m: the step comes first only at a breakpoint.
Continue_NoStep(m) ==
  /\ mem' = m
  /\ ctl' = "cont"
  /\ Resume
  /\ UNCHANGED <<tf, stepSlot>>

Continue(m) ==
  \/ /\ GetBreakpointByAddress(pc) # NoSlot
     /\ SingleStepInstruction(m)
  \/ /\ GetBreakpointByAddress(pc) = NoSlot
     /\ mem' = m
     /\ ctl' = "cont"
     /\ Resume
     /\ UNCHANGED <<tf, stepSlot>>

\* SetPC(GetPC() - 1): back over the one byte of an int3.
PCBeforeInt3_Kept == pc

PCBeforeInt3 == pc - 1

\* GetSrcPosByAddress after a command: an address outside every compile unit
\* fails its assertion and ends the debugger.
ReportAt(a) == ctl' = IF SrcPos[a].line # NoLine THEN "prompt" ELSE "failed"

\* ProcStartup: the loader's breakpoint plants one at the start address, and
\* that one ends the startup.  An exit before that leaves the loop too.
StartupPlant ==
  /\ ctl = "startup" /\ Delivered
  /\ IsBreakpoint /\ temps = <<>>
  /\ temps' = Extracted(<<Entry>>)
  /\ mem' = Armed(<<Entry>>)
  /\ Resume
  /\ UNCHANGED <<programVars, boot, tf, ctl, cmd, slots, stepSlot, line0, history>>

StartupDone ==
  /\ ctl = "startup" /\ Delivered
  /\ IsBreakpoint /\ temps # <<>>
  /\ pc' = PCBeforeInt3
  /\ mem' = Restored
  /\ temps' = <<>>
  /\ ctl' = "prompt"
  /\ event' = "none"
  /\ UNCHANGED <<depth, stack, proc, boot, tf, cmd, slots, stepSlot, line0, history>>

StartupExit ==
  /\ ctl = "startup" /\ Delivered
  /\ event = "exit"
  /\ ctl' = "prompt"
  /\ event' = "none"
  /\ temps' = <<>>     \* kernelBreakpoint goes out of scope
  /\ UNCHANGED <<programVars, proc, boot, mem, tf, cmd, slots, stepSlot, line0, history>>

StartupOther ==
  /\ ctl = "startup" /\ Delivered
  /\ ~IsBreakpoint /\ event # "exit"
  /\ Resume
  /\ UNCHANGED <<programVars, boot, mem, tf, debuggerVars, history>>

-----------------------------------------------------------------------------
(* Commands at the prompt.  With a dead process GetThreadContext and the   *)
(* memory accesses fail without anybody looking: see CommandOnDead.        *)

Prompt(c) ==
  /\ ctl = "prompt"
  /\ cmd' = c
  /\ depth0' = depth
  /\ moved' = FALSE

CommandContinue ==
  /\ Prompt("continue") /\ Alive
  /\ Continue(mem)
  /\ UNCHANGED <<programVars, boot, slots, temps, line0>>

CommandStepInstruction ==
  /\ Prompt("stepi") /\ Alive
  /\ SingleStepInstruction(mem)
  /\ UNCHANGED <<programVars, boot, slots, temps, line0>>

\* StepIn: the first GetSrcPosByAddress is of the same address twice, so the
\* loop always runs once.
CommandStepIn ==
  /\ Prompt("in") /\ Alive
  /\ line0' = SrcPos[pc].line
  /\ \/ SrcPos[pc].line # NoLine /\ SingleStepInstruction(mem)
     \/ /\ SrcPos[pc].line = NoLine
        /\ ctl' = "failed"
        /\ UNCHANGED <<proc, event, mem, tf, stepSlot>>
  /\ UNCHANGED <<programVars, boot, slots, temps>>

\* The caller's address as GetReturnAddresss unwinds it.  Where there is no
\* frame information the word it reads is no address, or any address.
ReturnAddresses ==
  IF SrcPos[pc].line # NoLine /\ depth > 0 THEN {stack[depth]}
  ELSE {Unmapped} \cup (IF "unwind" \in Disturb THEN Starts ELSE {})

\* SetBreakpoint on a word that is no address fails without anybody looking.
Mapped(a) == IF a \in Starts THEN <<a>> ELSE <<>>

CommandStepOut ==
  /\ Prompt("out") /\ Alive
  /\ \/ \E r \in ReturnAddresses :
          /\ temps' = Extracted(Mapped(r))
          /\ Continue(Armed(Mapped(r)))
     \/ /\ SrcPos[pc].line = NoLine    \* FindFDE runs off its map
        /\ ctl' = "failed"
        /\ UNCHANGED <<proc, event, mem, tf, temps, stepSlot>>
  /\ UNCHANGED <<programVars, boot, slots, line0>>

\* StepOver reads the return address at rbp + 8, whatever frame rbp is of.
FrameReturn ==
  IF pc \notin NoFrame THEN IF depth > 0 THEN stack[depth] ELSE Unmapped
                       ELSE IF depth > 1 THEN stack[depth - 1] ELSE Unmapped

StepOverAddresses ==
  IF FrameReturn \in Starts THEN Append(Walk[pc], FrameReturn) ELSE Walk[pc]

CommandStepOver ==
  /\ Prompt("over") /\ Alive
  /\ \/ /\ SrcPos[pc].line # NoLine
        /\ temps' = Extracted(StepOverAddresses)
        /\ Continue(Armed(StepOverAddresses))
     \/ /\ SrcPos[pc].line = NoLine
        /\ ctl' = "failed"
        /\ UNCHANGED <<proc, event, mem, tf, temps, stepSlot>>
  /\ UNCHANGED <<programVars, boot, slots, line0>>

\* `breakpoint set': the table is full, or the first free entry is filled.
CommandSetBreakpoint ==
  /\ ctl = "prompt"
  /\ LET s == GetEmptyBreakpoint IN
       \/ /\ s = NoSlot
          /\ ctl' = "full"
          /\ UNCHANGED <<mem, slots>>
       \/ /\ s # NoSlot
          /\ \E a \in Sites :
               /\ slots' = [slots EXCEPT ![s] = Filled(s, a)]
               /\ mem' = IF Alive THEN [mem EXCEPT ![a] = "int3"] ELSE mem
          /\ UNCHANGED ctl
  /\ UNCHANGED <<programVars, proc, event, boot, tf, cmd, temps, stepSlot, line0, history>>

\* `register set rip', to any address, in the middle of an instruction or behind
\* the text too, but for 0, which is what a failing GetPC answers.
CommandSetPC ==
  /\ ctl = "prompt" /\ Alive /\ "setpc" \in Disturb
  /\ pc' \in Typed
  /\ UNCHANGED <<depth, stack, targetVars, debuggerVars, history>>

\* GetPC yields 0, which fails an assertion: of SingleStepFromBreakpoint,
\* since unused entries have address 0, or of a lookup.  With a full table,
\* or a last context to read, continue and stepi wait for an event instead.
CommandOnDead ==
  \E c \in RunCommand :
    /\ Prompt(c) /\ ~Alive
    /\ \/ /\ c \in {"continue", "stepi"}
          /\ ctl' = IF c = "continue" THEN "cont" ELSE "step"
          /\ Resume
       \/ /\ ctl' = "failed"
          /\ UNCHANGED <<proc, event>>
    /\ UNCHANGED <<programVars, boot, mem, tf, slots, temps, stepSlot, line0>>

CommandExit ==
  /\ ctl = "prompt"
  /\ ctl' = "done"
  /\ UNCHANGED <<programVars, targetVars, cmd, slots, temps, stepSlot, line0, history>>

-----------------------------------------------------------------------------
(* SingleStep: only EXCEPTION_SINGLE_STEP ends it.                         *)

\* The text once SingleStepFromBreakpoint has put its breakpoint back.
Rearmed_AtPC == IF stepSlot = NoSlot THEN mem ELSE [mem EXCEPT ![pc] = "int3"]

Rearmed ==
  IF stepSlot = NoSlot THEN mem
  ELSE [mem EXCEPT ![slots[stepSlot].address] = "int3"]

StepDone ==
  /\ ctl = "step" /\ Delivered
  /\ event = "ss"
  /\ \/ /\ cmd = "stepi"
        /\ mem' = Rearmed
        /\ stepSlot' = NoSlot
        /\ event' = "none"
        /\ ReportAt(pc)
        /\ UNCHANGED <<proc, tf>>
     \/ /\ cmd = "in" /\ SrcPos[pc].line # line0
        /\ mem' = Rearmed
        /\ stepSlot' = NoSlot
        /\ event' = "none"
        /\ ReportAt(pc)
        /\ UNCHANGED <<proc, tf>>
     \/ /\ cmd = "in" /\ SrcPos[pc].line = line0
        /\ SingleStepInstruction(Rearmed)
     \/ /\ cmd \in {"continue", "out", "over"}
        /\ mem' = Rearmed
        /\ stepSlot' = NoSlot
        /\ ctl' = "cont"
        /\ Resume
        /\ UNCHANGED tf
  /\ UNCHANGED <<programVars, boot, cmd, slots, temps, line0, history>>

\* Anything else is printed and continued, a breakpoint and an exit included.
StepSwallow ==
  /\ ctl = "step" /\ Delivered
  /\ event # "ss"
  /\ Resume
  /\ UNCHANGED <<programVars, boot, mem, tf, debuggerVars, history>>

(* ContinueProcess, and what the command does when it returns.             *)

ContinueStopped ==
  /\ ctl = "cont" /\ Delivered
  /\ IsBreakpoint
  /\ pc' = PCBeforeInt3
  /\ mem' = Restored
  /\ temps' = <<>>
  /\ event' = "none"
  /\ ReportAt(pc')
  /\ UNCHANGED <<depth, stack, proc, boot, tf, cmd, slots, stepSlot, line0, history>>

\* The process is gone: nothing is written back, and the pc that is read has
\* no source position.
ContinueExited_Resumed ==
  /\ ctl = "cont" /\ Delivered
  /\ event = "exit"
  /\ Resume
  /\ UNCHANGED <<programVars, boot, mem, tf, debuggerVars, history>>

ContinueExited ==
  /\ ctl = "cont" /\ Delivered
  /\ event = "exit"
  /\ temps' = <<>>
  /\ event' = "none"
  /\ ctl' = "failed"
  /\ UNCHANGED <<programVars, proc, boot, mem, tf, cmd, slots, stepSlot, line0, history>>

ContinueOther ==
  /\ ctl = "cont" /\ Delivered
  /\ ~IsBreakpoint /\ event # "exit"
  /\ Resume
  /\ UNCHANGED <<programVars, boot, mem, tf, debuggerVars, history>>

-----------------------------------------------------------------------------
(* The debuggee and the debug port (not in the repository)                 *)

Stop(e) == proc' = "stopped" /\ event' = e

\* The loader's own int3, before the image is entered.
TargetLoaderBreak ==
  /\ proc = "running" /\ boot
  /\ boot' = FALSE
  /\ Stop("loader")
  /\ UNCHANGED <<programVars, mem, tf, debuggerVars, history>>

TargetTrap ==
  /\ proc = "running" /\ ~boot
  /\ pc \in Starts /\ mem[pc] = "int3"
  /\ pc' = pc + 1
  /\ Stop("bp")
  /\ UNCHANGED <<depth, stack, boot, mem, tf, debuggerVars, history>>

\* An instruction that completes with the trap flag set traps once.
Completed ==
  /\ IF tf THEN Stop("ss") ELSE UNCHANGED <<proc, event>>
  /\ tf' = FALSE
  /\ moved' = TRUE

TargetExecute ==
  /\ proc = "running" /\ ~boot
  /\ pc \in Starts /\ mem[pc] = "orig"
  /\ Execute
  /\ Completed
  /\ UNCHANGED <<boot, mem, debuggerVars, depth0>>

\* Bytes from the middle of an instruction decode to anything.
TargetDerailed ==
  /\ proc = "running" /\ ~boot
  /\ pc \notin Starts
  /\ pc' \in Starts
  /\ Completed
  /\ UNCHANGED <<depth, stack, boot, mem, debuggerVars, depth0>>

TargetExit ==
  /\ proc = "running" /\ ~boot
  /\ \/ pc \in Starts /\ mem[pc] = "orig" /\ Instr[pc].op = "exit"
     \/ "kill" \in Disturb
  /\ proc' = "exited" /\ event' = "exit"
  /\ UNCHANGED <<programVars, boot, mem, tf, debuggerVars, history>>

\* Everything the loops only print: module and thread events, debug strings,
\* and exceptions, after which DBG_CONTINUE executes the instruction again.
TargetNotify ==
  /\ proc = "running"
  /\ Stop("other")
  /\ UNCHANGED <<programVars, boot, mem, tf, debuggerVars, history>>

\* Another thread executes an int3; threads are created by the program, so
\* not before it is entered.  The bound pc > 1 keeps pc off address 0.
TargetForeignTrap ==
  /\ "thread" \in Disturb
  /\ proc = "running" /\ ctl # "startup" /\ pc > 1
  /\ \E a \in Starts : mem[a] = "int3"
  /\ Stop("foreign")
  /\ UNCHANGED <<programVars, boot, mem, tf, debuggerVars, history>>

-----------------------------------------------------------------------------
Command ==
  \/ CommandContinue \/ CommandStepInstruction \/ CommandStepIn
  \/ CommandStepOut \/ CommandStepOver
  \/ CommandSetBreakpoint \/ CommandSetPC
  \/ CommandOnDead \/ CommandExit

Handler ==
  \/ StartupPlant \/ StartupDone \/ StartupExit \/ StartupOther
  \/ StepDone \/ StepSwallow
  \/ ContinueStopped \/ ContinueExited \/ ContinueOther

Target ==
  \/ TargetLoaderBreak \/ TargetTrap \/ TargetExecute \/ TargetDerailed
  \/ TargetExit \/ TargetNotify \/ TargetForeignTrap

Next == Command \/ Handler \/ Target

Spec == Init /\ [][Next]_vars

\* The debugger thread and the debuggee are scheduled by the system; events
\* that only notify cannot keep the debuggee from running for ever.  Nobody
\* has to type a command.
Progress == TargetLoaderBreak \/ TargetTrap \/ TargetExecute \/ TargetExit

FairSpec == Spec /\ WF_vars(Handler) /\ SF_vars(Progress)

-----------------------------------------------------------------------------
(* Properties                                                              *)

UserAt(a) == \E s \in Slots : slots[s].used /\ slots[s].address = a

SteppingOff(a) == stepSlot # NoSlot /\ slots[stepSlot].address = a

\* Every breakpoint of the table is in the text, except the one
\* SingleStepFromBreakpoint is stepping off: StepOut and StepOver put theirs
\* over it and take theirs away again (Debugger.h:338-344, 390-419), and each
\* step off it ends with it back in place (301-310).
BreakpointsArmed ==
  Alive => \A s \in Slots :
    slots[s].used /\ ~SteppingOff(slots[s].address) => mem[slots[s].address] = "int3"

\* At the prompt no 0xCC is left in the text that is not a breakpoint of the
\* table: whatever a command planted it has taken back (Debugger.h:262-267).
TextRestored ==
  ctl = "prompt" /\ Alive => \A a \in Starts : mem[a] = "int3" => UserAt(a)

\* A stop at an int3 is over once the pc is back where the byte was.
ProgramCounter == IF event = "bp" THEN pc - 1 ELSE pc

Plain == INSTANCE Debuggee WITH pc <- ProgramCounter

\* The debuggee does what it would do with no debugger: breakpoints, steps
\* and their removal never make it skip, repeat or garble an instruction
\* (Debugger.h:301-420 with WindowsLayer.c:440-531).
Transparent == Plain!ProgramSpec

\* The main thread never executes the instruction at a breakpoint of the table
\* unless that breakpoint was just reported and is being stepped off
\* (Debugger.h:322-330): no command runs over a breakpoint unnoticed.
BreakpointsHonoured ==
  [][proc = "running" /\ ProgramCounter' # ProgramCounter /\ UserAt(pc)
       => SteppingOff(pc)]_vars

\* A `continue' that comes back to the prompt has hit a breakpoint of the
\* table: there is nothing else in the text to stop at (Debugger.h:322-330,
\* WindowsLayer.c:486-490).
ContinueStopsAtBreakpoint ==
  ctl = "prompt" /\ Alive /\ cmd = "continue" => UserAt(pc)

\* A command that runs the debuggee and comes back has executed at least one
\* of its instructions: it does not stop again where it stood
\* (Debugger.h:322-330, 338-342, 390-415).
CommandMoves ==
  ctl = "prompt" /\ Alive /\ cmd \in RunCommand => moved

\* `over' does not stop inside a call made by the line it steps over, unless a
\* breakpoint of the table is there (Debugger.h:390-415).
OverStaysInFrame ==
  ctl = "prompt" /\ Alive /\ cmd = "over" /\ ~UserAt(pc) => depth <= depth0

\* `out' comes back with the function left, unless a breakpoint of the table
\* was met before (Debugger.h:332-345).
OutLeavesFrame ==
  ctl = "prompt" /\ Alive /\ cmd = "out" /\ depth0 > 0 /\ ~UserAt(pc)
    => depth < depth0

\* Every command comes back to the prompt or ends the debugger
\* (WindowsLayer.c:450-465, 471-528).
CommandReturns == ctl \in {"step", "cont"} ~> ctl \in {"prompt", "failed"}

-----------------------------------------------------------------------------
(* The inductive invariant behind TypeOK and BreakpointsArmed              *)

\* The debuggee runs only while the debugger waits for an event, and an event
\* that has been handled is gone.
PortInv ==
  /\ ctl \notin {"startup", "step", "cont"} => proc # "running" /\ event = "none"
  /\ proc = "running" => event = "none"

\* The pc is never 0, and not where taking it back by one would make it 0.
PCInv ==
  /\ pc # 0
  /\ \A i \in 1 .. depth : stack[i] \in Starts
  /\ event = "bp" => pc - 1 \in Starts
  /\ event = "foreign" => pc > 1 /\ ctl # "startup"

\* The loader breaks once, before anything is planted.
StartupInv ==
  /\ boot => event \in {"none", "create", "other"}
  /\ boot \/ event = "loader" => ctl = "startup" /\ temps = <<>>
  /\ ctl = "startup" => cmd = "none" /\ \A s \in Slots : ~slots[s].used

\* An entry in use has an address and, if it was filled while there was a
\* process to read from, a byte.
SlotsInv ==
  \A s \in Slots :
    /\ slots[s].used => slots[s].address \in Starts
    /\ slots[s].used /\ Alive => slots[s].byte \in Byte
    /\ ~slots[s].used => slots[s].address = 0

\* Temporaries live only while `out', `over' or the startup runs; one that shares its address
\* with an entry of the table extracted that entry's 0xCC.
TempsInv ==
  /\ ctl = "prompt" \/ cmd \in {"stepi", "in"} => temps = <<>>
  /\ \A i \in DOMAIN temps, s \in Slots :
       slots[s].used /\ slots[s].address = temps[i].address
         => temps[i].byte = "int3"

StepInv ==
  /\ ctl # "step" => stepSlot = NoSlot
  /\ stepSlot # NoSlot => slots[stepSlot].used

\* Breakpoints stay armed because what SingleStepFromBreakpoint and the
\* temporaries put back at an entry's address is that entry's 0xCC.
IInv ==
  TypeOK /\ PortInv /\ PCInv /\ StartupInv /\ SlotsInv /\ TempsInv /\ StepInv
    /\ BreakpointsArmed

=============================================================================
