---------------------------- MODULE MCRecursive ----------------------------
(***************************************************************************)
(* A debug session on a recursive program whose recursive call is a        *)
(* statement of its own, so that it returns to the start of a line:        *)
(*                                                                         *)
(*      f:    10  prologue                 line 10                         *)
(*            12  test                     line 11                         *)
(*            14  call f                   line 12                         *)
(*            16  return                   line 13                         *)
(*      main: 18  prologue                 line 20                         *)
(*            20  call f                   line 21                         *)
(*            22  return                   line 22                         *)
(***************************************************************************)
EXTENDS DebugSession, LineTable

Do(op, next, ret) == [op |-> op, next |-> next, ret |-> ret]

MCInstr ==
   1 :> Do("call", {18}, 3) @@ 3 :> Do("exit", {}, 0)
   @@ 10 :> Do("flow", {12}, 0) @@ 12 :> Do("flow", {14, 16}, 0)
   @@ 14 :> Do("call", {10}, 16) @@ 16 :> Do("ret", {}, 0)
   @@ 18 :> Do("flow", {20}, 0) @@ 20 :> Do("call", {10}, 22)
   @@ 22 :> Do("ret", {}, 0)

MCStarts == DOMAIN MCInstr

Row(a, l) == [address |-> a, line |-> l, file |-> 1, stmt |-> TRUE]

Units == <<[low |-> 10, high |-> 24,
            rows |-> <<Row(10, 10), Row(12, 11), Row(14, 12), Row(16, 13),
                       Row(18, 20), Row(20, 21), Row(22, 22), Row(24, 22)>>]>>

\* The tables of this program, and that they are what the lookups give.
MCSrcPos ==
  [a \in Address |->
     IF a \in 10 .. 23
       THEN [line |-> <<10, 11, 12, 13, 20, 21, 22>>[(a - 8) \div 2], address |-> 2 * (a \div 2)]
     ELSE IF a = 24 THEN [line |-> 22, address |-> 22]
     ELSE NoPos]

\* The functions in the order of the source: 18, the end of f, counts as f's.
Functions == <<[low |-> 10, high |-> 18], [low |-> 18, high |-> 24]>>

Positions(f) == IF f = 1 THEN <<10, 12, 14, 16, 18>> ELSE <<18, 20, 22>>

MCWalk ==
  [a \in Address |->
     IF a \in 10 .. 24
       THEN SelectSeq(Positions(GetFunctionByAddress(Functions, a)),
                      LAMBDA p : p # MCSrcPos[a].address)
       ELSE <<>>]

ASSUME LookupsAgree ==
  /\ \A a \in Address : MCSrcPos[a] = GetSrcPosByAddress(Units, a)
  /\ \A a \in 10 .. 24 : MCWalk[a] = StepOverWalk(Units, Functions, a)

MCSites == {12, 16}

=============================================================================
