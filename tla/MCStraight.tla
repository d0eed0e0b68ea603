----------------------------- MODULE MCStraight -----------------------------
(***************************************************************************)
(* A debug session on a program without recursion:                         *)
(*                                                                         *)
(*      f:    10  prologue               line 10                           *)
(*            12  call p (a library)     line 11                           *)
(*            14  pop rbp                line 12                           *)
(*            15  return                                                   *)
(*      main: 16  prologue               line 20                           *)
(*            18  call f                 line 21                           *)
(*            20  back to 18, or on      line 22                           *)
(*            22  pop rbp                line 23                           *)
(*            23  return                                                   *)
(*                                                                         *)
(* entered from startup code at 1 that has no line information, like p.    *)
(***************************************************************************)
EXTENDS StraightSession, LineTable

Do(op, next, ret) == [op |-> op, next |-> next, ret |-> ret]

MCInstr ==
   1 :> Do("call", {16}, 3) @@ 3 :> Do("exit", {}, 0) @@ 5 :> Do("ret", {}, 0)
   @@ 10 :> Do("flow", {12}, 0) @@ 12 :> Do("call", {5}, 14)
   @@ 14 :> Do("flow", {15}, 0) @@ 15 :> Do("ret", {}, 0)
   @@ 16 :> Do("flow", {18}, 0) @@ 18 :> Do("call", {10}, 20)
   @@ 20 :> Do("flow", {18, 22}, 0) @@ 22 :> Do("flow", {23}, 0)
   @@ 23 :> Do("ret", {}, 0)

MCStarts == DOMAIN MCInstr

Row(a, l) == [address |-> a, line |-> l, file |-> 1, stmt |-> TRUE]

Units == <<[low |-> 10, high |-> 24,
            rows |-> <<Row(10, 10), Row(12, 11), Row(14, 12), Row(16, 20),
                       Row(18, 21), Row(20, 22), Row(22, 23), Row(24, 23)>>]>>

\* The tables of this program, and that they are what the lookups give.
MCSrcPos ==
  [a \in Address |->
     IF a \in 10 .. 23
       THEN [line |-> <<10, 11, 12, 20, 21, 22, 23>>[(a - 8) \div 2], address |-> 2 * (a \div 2)]
     ELSE IF a = 24 THEN [line |-> 23, address |-> 22]
     ELSE NoPos]

\* The two functions adjoin, and the end of a range belongs to it: which one
\* 16 is in is a matter of the order of their DIEs.
MainFirst == <<[low |-> 16, high |-> 24], [low |-> 10, high |-> 16]>>
SourceOrder == <<[low |-> 10, high |-> 16], [low |-> 16, high |-> 24]>>

Positions(f) == IF f.low = 10 THEN <<10, 12, 14, 16>> ELSE <<16, 18, 20, 22>>

WalkIn(functions) ==
  [a \in Address |->
     IF a \in 10 .. 24
       THEN SelectSeq(Positions(functions[GetFunctionByAddress(functions, a)]),
                      LAMBDA p : p # MCSrcPos[a].address)
       ELSE <<>>]

MCWalk == WalkIn(MainFirst)

\* Given as Walk, OverStaysInFrame is violated: `over' at 16 walks f.
MCWalkSourceOrder == WalkIn(SourceOrder)

ASSUME LookupsAgree ==
  /\ \A a \in Address : MCSrcPos[a] = GetSrcPosByAddress(Units, a)
  /\ \A a \in 10 .. 24 :
       /\ MCWalk[a] = StepOverWalk(Units, MainFirst, a)
       /\ MCWalkSourceOrder[a] = StepOverWalk(Units, SourceOrder, a)

\* The call graph: startup code, main, f, the library.
MCLevel ==
  [a \in MCStarts |-> IF a \in {1, 3} THEN 0 ELSE IF a >= 16 THEN 1 ELSE IF a >= 10 THEN 2 ELSE 3]

\* The program is one that the theorems on sessions without recursion are
\* about: this is the ranking that NoRecursion asks for, with every function
\* right below what calls it.
ASSUME ProgramIsStraight ==
  /\ MCLevel \in [MCStarts -> 0 .. 3]
  /\ CallsRanked(MCLevel)
  /\ WalksRanked(MCLevel)
  /\ {10, 16} \subseteq Prologue
  /\ \A c \in MCStarts : Instr[c].op = "call" =>
       \A n \in Instr[c].next : MCLevel[n] <= MCLevel[Instr[c].ret] + 1

\* `breakpoint set line' 11 and 22, `breakpoint set func' main.
MCSites == {12, 18, 20}

\* The program's loop comes to an end: what the debugger waits for does happen.
LoopEnds == SF_vars(TargetExecute /\ pc = 20 /\ pc' = 22)

MCSpec == FairSpec /\ LoopEnds

=============================================================================
