--------------------------- MODULE StraightSession ---------------------------
(***************************************************************************)
(* Debug sessions on programs without recursion: what such a program and   *)
(* its line table are, and the invariants by which the stepping commands   *)
(* do what they say there.  Where a function calls itself they do not: an  *)
(* address is then no frame (see ContinueStray).                           *)
(***************************************************************************)
EXTENDS DebugSession

-----------------------------------------------------------------------------
(* The program                                                             *)

ReturnPoints == {Instr[c].ret : c \in {c \in Starts : Instr[c].op = "call"}}

\* L says how deep in the call graph the function of an instruction is: a
\* call leads deeper than the instruction it returns to, anything else not up.
CallsRanked(L) ==
  \A a \in Starts :
    /\ Instr[a].op = "flow" => \A n \in Instr[a].next : L[a] <= L[n]
    /\ Instr[a].op = "call" =>
         /\ L[a] <= L[Instr[a].ret]
         /\ \A n \in Instr[a].next : L[Instr[a].ret] < L[n]

Walked(a) == {Walk[a][i] : i \in DOMAIN Walk[a]}

\* StepOver's walk visits other positions of the function the pc is in, each
\* once.  The first of the function behind it, which it visits too, is none to
\* return to, and not of a function that this one calls.
WalksRanked(L) ==
  \A a \in Starts :
    /\ \A i, j \in DOMAIN Walk[a] : Walk[a][i] = Walk[a][j] => i = j
    /\ \A w \in Walked(a) :
         /\ w # a
         /\ L[w] <= L[a]
         /\ w \in ReturnPoints => L[a] <= L[w]

Rankings == {L \in [Starts -> Nat] : CallsRanked(L) /\ WalksRanked(L)}

NoRecursion == Rankings # {}

Level == CHOOSE L \in Rankings : TRUE

\* Where rbp is the caller's, a prologue leads to other positions of its function,
\* or on in the prologue.
LeadsToWalk(P) ==
  \A a \in P :
    /\ Instr[a].op = "flow"
    /\ \A n \in Instr[a].next :
         n \in Walked(a) \/ (n \in P /\ Walked(n) \subseteq Walked(a))

Prologue == UNION {P \in SUBSET NoFrame : LeadsToWalk(P)}

\* The other such places are epilogues, from where the function is left for a
\* caller that goes on under the breakpoints of the walk.  The caller is right
\* above if nothing it calls can be between it and the function.
RightBelow ==
  depth > 0 => \E L \in Rankings : L[pc] <= L[stack[depth]] + 1

\* `over' is typed where the breakpoints it plants do not lead it astray.
OverInReach ==
  CommandStepOver => pc \notin NoFrame \/ pc \in Prologue \/ RightBelow

-----------------------------------------------------------------------------
(* The invariant behind TextRestored, ContinueStopsAtBreakpoint and        *)
(* Transparent                                                             *)

Planted(a) == \E i \in DOMAIN temps : temps[i].address = a

\* A process that has exited sends nothing more, and a breakpoint event comes
\* from the main thread and from an int3 that is still there.
EventInv ==
  /\ ~Alive => event \in {"none", "exit"}
  /\ event = "exit" => ~Alive
  /\ event # "foreign"
  /\ event = "bp" => mem[pc - 1] = "int3"
  /\ event = "bp" /\ ctl = "startup" => temps # <<>>

\* The stack leads up the call graph, one function at each return address.
Ascends(L) ==
  /\ \A i, j \in 1 .. depth : i < j => L[stack[i]] < L[stack[j]]
  /\ depth > 0 => L[stack[depth]] < L[ProgramCounter]

LevelInv ==
  /\ ProgramCounter \in Starts
  /\ \A i \in 1 .. depth : stack[i] \in ReturnPoints \cap Starts
  /\ \A L \in Rankings : Ascends(L)

\* An int3 in the text is the table's or a temporary one's, and a temporary one
\* over another int3 is over the table's.
TextInv ==
  Alive =>
    /\ \A a \in Starts : mem[a] = "int3" => UserAt(a) \/ Planted(a)
    /\ \A i \in DOMAIN temps : temps[i].byte = "int3" => UserAt(temps[i].address)

\* The table is filled from its beginning, so that the entry found at an
\* address is the one that extracted the compiler's byte.
TableInv ==
  /\ \A r, s \in Slots : r < s /\ slots[s].used => slots[r].used
  /\ Alive => \A s \in Slots :
       slots[s].used => \/ slots[s].byte = "orig"
                        \/ \E r \in Slots : r < s /\ slots[r].address = slots[s].address

\* While SingleStep waits, the instruction is still to be executed with the
\* trap flag set or has trapped: it meets no int3.
SteppingInv ==
  Alive =>
    /\ ctl # "step" \/ event = "ss" => ~tf
    /\ ctl = "step" /\ event # "ss" => tf /\ event # "bp" /\ mem[pc] = "orig"

\* `continue' plants nothing of its own, and stops at what the user planted.
ContinueInv ==
  /\ cmd = "continue" => temps = <<>>
  /\ ContinueStopsAtBreakpoint

SessionInv ==
  EventInv /\ LevelInv /\ TextInv /\ TableInv /\ SteppingInv /\ ContinueInv

-----------------------------------------------------------------------------
(* The invariant behind CommandMoves, OutLeavesFrame and OverStaysInFrame  *)

Underway == Alive /\ ctl \in {"step", "cont"}

\* While a command runs, its temporary breakpoints are in the text.
PlantedInv ==
  Underway => \A i \in DOMAIN temps : mem[temps[i].address] = "int3"

\* Until the first instruction has been executed there is nothing to stop at.
MovesInv ==
  /\ Underway /\ ~moved => mem[pc] = "orig" /\ event \notin {"ss", "bp"}
  /\ CommandMoves

\* `out' waits at the return address, with the function or something it calls
\* running, or has arrived there.
OutInv ==
  /\ Underway /\ cmd = "out" /\ depth0 > 0 =>
       \A i \in DOMAIN temps :
         \/ depth0 <= depth /\ temps[i].address = stack[depth0]
         \/ depth < depth0 /\ temps[i].address = ProgramCounter
  /\ OutLeavesFrame

NoneBelow(a) == \A i \in DOMAIN temps : Level[temps[i].address] <= Level[a]

ReturnPlanted == depth0 > 0 => Planted(stack[depth0])

\* Where the debuggee is while `over' runs it.
InCallee == depth0 < depth /\ NoneBelow(stack[depth0 + 1]) /\ ReturnPlanted
InFunction == depth = depth0 /\ NoneBelow(ProgramCounter) /\ ReturnPlanted
InPrologue == depth = depth0 /\ ProgramCounter \in Prologue
                /\ \A w \in Walked(ProgramCounter) : Planted(w)
Arrived == depth <= depth0 /\ Planted(ProgramCounter)

\* Behind an epilogue: in it, in the caller or in what that calls, where the
\* breakpoints are in functions right below the caller or above.
InCaller ==
  /\ 0 < depth0 /\ depth0 - 1 <= depth
  /\ depth0 > 1 => Planted(stack[depth0 - 1])
  /\ \E L \in Rankings : \A i \in DOMAIN temps :
       L[temps[i].address]
         <= L[IF depth < depth0 THEN ProgramCounter ELSE stack[depth0]] + 1

OverInv ==
  /\ Underway /\ cmd = "over" =>
       InCallee \/ InFunction \/ InPrologue \/ InCaller \/ Arrived
  /\ OverStaysInFrame

CommandInv == PlantedInv /\ MovesInv /\ OutInv /\ OverInv

=============================================================================
