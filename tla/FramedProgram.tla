---------------------------- MODULE FramedProgram ----------------------------
(***************************************************************************)
(* What a compiler that keeps frames lays out, for any program: where the  *)
(* frame of every instruction is, and call-frame instructions that say so. *)
(* For such a program the unwinding of Unwind is right.                    *)
(***************************************************************************)
EXTENDS Unwind

-----------------------------------------------------------------------------
(* The layout of a program: an instruction is reached with so many words   *)
(* between the CFA and rsp, with what in rbp, and with the caller's rbp    *)
(* saved at the CFA's second word or not.                                  *)

Layout == [depth : Nat \ {0}, rbp : {"caller", "frame"}, saved : BOOLEAN]

\* A function is entered with the return address on the stack, no more.
Entry == [depth |-> 1, rbp |-> "caller", saved |-> FALSE]

ReturnPoints == {Code[a].n : a \in {c \in DOMAIN Code : Code[c].op = "call"}}

\* Code no function has only flows, calls functions and exits.
LaidOutside(L) ==
  \A a \in DOMAIN Code : ~HasFunction(a) =>
    /\ Code[a].op \in {"flow", "call", "exit"}
    /\ Code[a].op = "flow" => \A b \in Code[a].next : ~HasFunction(b)
    /\ Code[a].op = "call" =>
         /\ Code[a].n \in DOMAIN Code /\ ~HasFunction(Code[a].n)
         /\ \A b \in Code[a].next : HasFunction(b) /\ L[b] = Entry

\* The layouts before and after an instruction that goes on to the next.
Follows(op, n, l, m) ==
  \/ /\ op = "push rbp"
     /\ m.depth = l.depth + 1 /\ m.rbp = l.rbp
     /\ m.saved => IF l.depth = 1 THEN l.rbp = "caller" ELSE l.saved
  \/ /\ op = "mov rbp, rsp"
     /\ l.depth = 2 /\ l.saved
     /\ m.depth = 2 /\ m.rbp = "frame" /\ m.saved
  \/ /\ op = "add rsp"
     /\ m.depth = l.depth - n /\ m.rbp = l.rbp
     /\ m.saved => l.saved
  \/ op = "flow" /\ m = l
  \/ /\ op = "leave"
     /\ l.rbp = "frame"
     /\ m.depth = 1 /\ m.rbp = "caller"
     /\ m.saved => l.saved

LaidInside(L) ==
  \A a \in DOMAIN Code : HasFunction(a) =>
    \/ /\ Code[a].op \notin {"call", "ret"}
       /\ \A b \in Code[a].next :
            HasFunction(b) /\ Follows(Code[a].op, Code[a].n, L[a], L[b])
    \/ /\ Code[a].op = "call" /\ Code[a].n \in DOMAIN Code
       /\ HasFunction(Code[a].n)
       /\ L[Code[a].n].depth = L[a].depth /\ L[Code[a].n].rbp = L[a].rbp
       /\ L[Code[a].n].saved => L[a].saved /\ L[a].depth > 1
       /\ \A b \in Code[a].next : HasFunction(b) /\ L[b] = Entry
    \/ /\ Code[a].op = "ret"
       /\ L[a].depth = 1 /\ L[a].rbp = "caller"

Laid(L) ==
  /\ L \in [DOMAIN Code -> Layout]
  /\ \A a \in DOMAIN Code : L[a].rbp = "frame" => L[a].saved
  /\ \A a \in DOMAIN Code : Code[a].next \subseteq DOMAIN Code /\ Code[a].n \in Int
  /\ ~HasFunction(Start)
  /\ LaidOutside(L) /\ LaidInside(L)

-----------------------------------------------------------------------------
(* What call-frame instructions mean: those up to the last location that   *)
(* is not beyond the address hold there, the later ones over the earlier.  *)

Moves == {"advance_loc", "set_loc"}

\* The location after the first k of an FDE's instructions.
Places(f) ==
  LET place[k \in 0 .. Len(f.instructions)] ==
        IF k = 0 THEN f.location
        ELSE LET i == f.instructions[k]
             IN  CASE i.op = "advance_loc" -> place[k - 1] + i.n
                   [] i.op = "set_loc" -> i.n
                   [] OTHER -> place[k - 1]
  IN  place

\* The first m hold at a: what follows is a move beyond it.
Until(f, a, m) ==
  /\ m \in 0 .. Len(f.instructions)
  /\ \A k \in 1 .. m : f.instructions[k].op \in Moves => Places(f)[k] <= a
  /\ m < Len(f.instructions) =>
       f.instructions[m + 1].op \in Moves /\ Places(f)[m + 1] > a

\* They, and the ones that every FDE begins with.
Holding(a) ==
  LET f == FindFDE(a)
      m == CHOOSE m \in 0 .. Len(f.instructions) : Until(f, a, m)
  IN  Initial \o SubSeq(f.instructions, 1, m)

\* The last of those that set something.
LastBy(J, ops, i) ==
  /\ i \in DOMAIN J /\ J[i].op \in ops
  /\ \A j \in DOMAIN J : j > i => J[j].op \notin ops

CfaFrom(J, reg) ==
  \E i \in DOMAIN J :
    LastBy(J, {"def_cfa", "def_cfa_register", "def_cfa_expression"}, i) /\ J[i].reg = reg

CfaOffset(J, n) ==
  \E i \in DOMAIN J : LastBy(J, {"def_cfa", "def_cfa_offset"}, i) /\ J[i].n = n

\* A register has a rule.
Ruled(J, reg) == \E i \in DOMAIN J : J[i].op = "offset" /\ J[i].reg = reg

\* The instructions of a program that saves nothing but rbp: the return address
\* is at the CFA's first word and rbp at its second.
Plain(J) ==
  \A i \in DOMAIN J :
    \/ J[i].op \in Moves \cup {"def_cfa", "def_cfa_register", "def_cfa_offset",
                               "remember_state", "restore"}
    \/ J[i].op = "offset" /\ J[i].reg = "rip" /\ J[i].n = -1
    \/ J[i].op = "offset" /\ J[i].reg = "rbp" /\ J[i].n = -2

\* How many sets of rules are remembered after the first k.
Remembered(is) ==
  LET count[k \in 0 .. Len(is)] ==
        IF k = 0 THEN 0
        ELSE CASE is[k].op = "remember_state" -> count[k - 1] + 1
               [] is[k].op = "restore_state" -> count[k - 1] - 1
               [] OTHER -> count[k - 1]
  IN  count

\* Every set that is restored has been remembered, and there is room for them.
Balanced(is) == \A k \in 1 .. Len(is) : Remembered(is)[k] \in 0 .. REG_STACK

\* The k-th does not change a CFA that counts from no register.
CfaFirst(J, k) ==
  J[k].op \in {"def_cfa_register", "def_cfa_offset"} =>
    \E h \in 1 .. k - 1 : /\ J[h].op = "def_cfa"
                         /\ \A g \in h .. k - 1 : J[g].op # "def_cfa_expression"

\* They give the CFA, and where the return address is.
Describes(J, l) ==
  /\ Plain(J) /\ Ruled(J, "rip")
  /\ \/ CfaFrom(J, "rsp") /\ CfaOffset(J, l.depth)
     \/ CfaFrom(J, "rbp") /\ CfaOffset(J, 2) /\ l.rbp = "frame"

\* And where the caller's rbp is.
DescribesRbp(J, l) ==
  IF Ruled(J, "rbp") THEN l.saved ELSE l.rbp = "caller"

CFI ==
  [op : {"offset", "val_offset", "same_value", "expression", "undefined", "restore",
         "def_cfa", "def_cfa_register"}, reg : Registers, n : Int]
  \cup [op : {"register"}, reg : Registers, n : Registers]
  \cup [op : Moves \cup {"remember_state", "restore_state", "def_cfa_offset",
                       "def_cfa_expression"}, reg : {"none"}, n : Int]

\* What the debugger reads the rows from.
FrameData ==
  /\ Initial \in Seq(CFI)
  /\ FDEs \in Seq([location : Word, instructions : Seq(CFI)])

Described(L) ==
  /\ FrameData
  /\ Plain(Initial) /\ \A i \in DOMAIN Initial : Initial[i].op \notin Moves
  /\ Balanced(Initial)
  /\ \A a \in DOMAIN Code : HasFunction(a) =>
       /\ \E i \in DOMAIN FDEs : FindFDE(a) = FDEs[i]
       /\ \E m \in 0 .. Len(FindFDE(a).instructions) : Until(FindFDE(a), a, m)
       /\ Balanced(FindFDE(a).instructions)
       /\ \A k \in DOMAIN Holding(a) : CfaFirst(Holding(a), k)
       /\ ~Restores(a) =>
            /\ Describes(Holding(a), L[a])
            /\ ~AtStart(a) => DescribesRbp(Holding(a), L[a])
       /\ a \in ReturnPoints /\ CfaFrom(Holding(a), "rbp") =>
            Describes(Holding(a), L[a]) /\ DescribesRbp(Holding(a), L[a])

-----------------------------------------------------------------------------
(* What the proofs rest on: frames lie below one another, each with its    *)
(* return address and, where the layout says so, the caller's rbp in it.   *)

\* A frame f, in which the program is at an address with these rsp and rbp.
LaidFrame(L, words, f, at, sp, bp) ==
  /\ HasFunction(at)
  /\ sp = f.cfa - L[at].depth
  /\ f.cfa - 1 \in Stack /\ words[f.cfa - 1] = f.ret
  /\ L[at].rbp = "caller" => bp = f.rbp
  /\ L[at].rbp = "frame" => bp = f.cfa - 2
  /\ L[at].saved => f.cfa - 2 \in Stack /\ words[f.cfa - 2] = f.rbp

\* One that has called the next.
LaidCaller(L, words, f, g) ==
  /\ LaidFrame(L, words, f, g.ret, g.cfa, g.rbp)
  /\ L[g.ret].saved => L[g.ret].depth > 1

\* The frames, with the program at an address with these registers and words.
FramesAre(L, at, sp, bp, words, stack) ==
  /\ at \in DOMAIN Code /\ sp \in Bottom .. Top + 1 /\ bp \in Word
  /\ words \in [Stack -> Word]
  /\ stack \in Seq([ret : ReturnPoints \cap DOMAIN Code, cfa : Bottom .. Top + 1,
                    rbp : Word])
  /\ \A j, k \in 1 .. Len(stack) : j < k => stack[k].cfa < stack[j].cfa
  /\ \A k \in 1 .. Len(stack) - 1 : LaidCaller(L, words, stack[k], stack[k + 1])
  /\ IF stack = <<>> THEN ~HasFunction(at)
     ELSE /\ ~HasFunction(stack[1].ret)
          /\ LaidFrame(L, words, Last(stack), at, sp, bp)

FramesInv(L) == FramesAre(L, pc, rsp, rbp, memory, frames)

\* The rbp of the k-th frame from inside, where it is executing.
RbpOf(k) == IF k = 0 THEN rbp ELSE frames[Len(frames) + 1 - k].rbp

\* The callstack is at the frame it is to show next.
WalkInv ==
  /\ phase \in {"run", "walk"}
  /\ phase = "walk" /\ ByFramePointer =>
       /\ shown \in 0 .. Len(frames)
       /\ PC = Executing(shown)
       /\ regs["rbp"] = RbpOf(shown)
       /\ shown = 0 => regs = LoadRegisters

=============================================================================
