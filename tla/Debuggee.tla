------------------------------ MODULE Debuggee ------------------------------
(***************************************************************************)
(* The program under debug, running with nobody watching: one thread that  *)
(* fetches the instruction at pc, executes it and moves on.  It is the     *)
(* abstract specification of what the debugger has to leave undisturbed.   *)
(*                                                                         *)
(* The debuggee is not part of the repository (test/src/test.cpp is one    *)
(* example); an instruction is modelled by what the debugger can tell      *)
(* apart: where it may lead and what it does to the return addresses.      *)
(***************************************************************************)
EXTENDS Naturals

CONSTANTS
  MaxAddress,  \* addresses of the image are 0 .. MaxAddress
  Starts,      \* addresses at which an instruction begins
  Entry,       \* lpStartAddress: where the loader enters the image
  Instr,       \* what the instruction at an address does
  MaxDepth     \* bound on the call depth

Address == 0 .. MaxAddress

Instruction == [op : {"flow", "call", "ret", "exit", "fault"},
                next : SUBSET Starts,   \* where control may go ("flow", "call")
                ret : Address]          \* return address a "call" pushes

ASSUME DebuggeeAssumption ==
  /\ MaxAddress \in Nat
  /\ Starts \subseteq {a \in Address : 0 < a /\ a < MaxAddress}
  /\ Entry \in Starts
  /\ Instr \in [Starts -> Instruction]
  /\ \A a \in Starts : Instr[a].op = "call" => Instr[a].ret \in Starts
  /\ MaxDepth \in Nat

VARIABLES
  pc,     \* instruction pointer of the main thread
  depth,  \* number of return addresses on its stack
  stack   \* the return addresses, the innermost at index depth

programVars == <<pc, depth, stack>>

ProgramTypeOK ==
  /\ pc \in Address
  /\ depth \in 0 .. MaxDepth
  /\ stack \in [1 .. MaxDepth -> Address]

ProgramInit ==
  /\ pc = Entry
  /\ depth = 0
  /\ stack = [i \in 1 .. MaxDepth |-> 0]

Flow ==
  /\ Instr[pc].op = "flow"
  /\ pc' \in Instr[pc].next
  /\ UNCHANGED <<depth, stack>>

Call ==
  /\ Instr[pc].op = "call"
  /\ depth < MaxDepth
  /\ pc' \in Instr[pc].next
  /\ depth' = depth + 1
  /\ stack' = [stack EXCEPT ![depth + 1] = Instr[pc].ret]

Return ==
  /\ Instr[pc].op = "ret"
  /\ depth > 0
  /\ pc' = stack[depth]
  /\ depth' = depth - 1
  /\ UNCHANGED stack

Execute == pc \in Starts /\ (Flow \/ Call \/ Return)

ProgramSpec == ProgramInit /\ [][Execute]_programVars

=============================================================================
