------------------------------ MODULE MCUnwind ------------------------------
(***************************************************************************)
(* Two functions with a frame pointer, and one without that may return     *)
(* early, as a compiler lays them out, with its call-frame instructions:   *)
(*                                                                         *)
(*   f:    10 push rbp   11 mov rbp, rsp   12 sub rsp   13 call g          *)
(*         14 test       15 call f         16 leave     17 ret             *)
(*   g:    18 sub rsp    19 test           20 add rsp   21 ret             *)
(*         22 call f     23 add rsp        24 ret                          *)
(*   main: 25 push rbp   26 mov rbp, rsp   27 call f    28 call g          *)
(*         29 test       30 leave          31 ret                          *)
(*                                                                         *)
(* entered from startup code at 1 that no function has.                    *)
(***************************************************************************)
EXTENDS FramedProgram

Do(op, n, next) == [op |-> op, n |-> n, next |-> next]

MCCode ==
  1 :> Do("call", 3, {25}) @@ 3 :> Do("exit", 0, {})
  @@ 10 :> Do("push rbp", 0, {11}) @@ 11 :> Do("mov rbp, rsp", 0, {12})
  @@ 12 :> Do("add rsp", -1, {13}) @@ 13 :> Do("call", 14, {18})
  @@ 14 :> Do("flow", 0, {15, 16}) @@ 15 :> Do("call", 16, {10})
  @@ 16 :> Do("leave", 0, {17}) @@ 17 :> Do("ret", 0, {})
  @@ 18 :> Do("add rsp", -1, {19}) @@ 19 :> Do("flow", 0, {20, 22})
  @@ 20 :> Do("add rsp", 1, {21}) @@ 21 :> Do("ret", 0, {})
  @@ 22 :> Do("call", 23, {10}) @@ 23 :> Do("add rsp", 1, {24})
  @@ 24 :> Do("ret", 0, {})
  @@ 25 :> Do("push rbp", 0, {26}) @@ 26 :> Do("mov rbp, rsp", 0, {27})
  @@ 27 :> Do("call", 28, {10}) @@ 28 :> Do("call", 29, {18})
  @@ 29 :> Do("flow", 0, {27, 30}) @@ 30 :> Do("leave", 0, {31})
  @@ 31 :> Do("ret", 0, {})

MCFunctions == <<[low |-> 10, high |-> 18], [low |-> 18, high |-> 25],
                 [low |-> 25, high |-> 32]>>

I(op, reg, n) == [op |-> op, reg |-> reg, n |-> n]
Advance(n) == I("advance_loc", "none", n)

MCInitial == <<I("def_cfa", "rsp", 1), I("offset", "rip", -1)>>

\* push rbp; mov rbp, rsp; ... leave; ret with the leave at its n-th address.
Framed(n) ==
  <<Advance(1), I("def_cfa_offset", "none", 2), I("offset", "rbp", -2),
    Advance(1), I("def_cfa_register", "rbp", 0),
    Advance(n - 1), I("restore", "rbp", 0), I("def_cfa", "rsp", 1)>>

EarlyReturn ==
  <<Advance(1), I("def_cfa_offset", "none", 2), Advance(2),
    I("remember_state", "none", 0), I("def_cfa_offset", "none", 1), Advance(1),
    I("restore_state", "none", 0), Advance(2), I("def_cfa_offset", "none", 1)>>

MCFDEs == <<[location |-> 10, instructions |-> Framed(6)],
            [location |-> 18, instructions |-> EarlyReturn],
            [location |-> 25, instructions |-> Framed(5)]>>

Lay(depth, in, saved) == [depth |-> depth, rbp |-> in, saved |-> saved]

MCLayout ==
  [a \in DOMAIN Code |->
     CASE a \in {11, 26} -> Lay(2, "caller", TRUE)
       [] a = 12 \/ a \in 27 .. 30 -> Lay(2, "frame", TRUE)
       [] a \in 13 .. 16 -> Lay(3, "frame", TRUE)
       [] a \in {17, 31} -> Lay(1, "caller", TRUE)
       [] a \in {19, 20, 22, 23} -> Lay(2, "caller", FALSE)
       [] OTHER -> Entry]

ASSUME MCFramed == Laid(MCLayout) /\ Described(MCLayout)

=============================================================================
