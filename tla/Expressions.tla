---------------------------- MODULE Expressions ----------------------------
(***************************************************************************)
(* EvalExprFrameBase and EvaluateExpression of DwarfExpr.h: the stack      *)
(* machine for DWARF expressions, which `locals' runs on the frame base of *)
(* the function.                                                           *)
(*                                                                         *)
(* An expression is a sequence of operations [op, n, leb, bytes]: the name *)
(* without DW_OP_, an operand of fixed size, the LEB128 operands, and how  *)
(* many bytes the operands take.  Neither the stack's size nor its slots   *)
(* are ever initialised.  X_Y is X with a mistake in it.                   *)
(***************************************************************************)
EXTENDS Encodings, SequencesExt

CONSTANTS
  Expressions,  \* the expressions evaluated
  Capacity,     \* slots of the stack
  Leftovers,    \* what the slots of the stack may hold before
  Registers,    \* the debuggee's registers by number
  Memory,       \* its memory: the words at the addresses that can be read
  CFA,          \* of its innermost frame
  ByteBits      \* bits of a byte of a word

WordBytes == WordBits \div ByteBits
Words == 0 .. WordSize - 1
Element == [type : {"generic", "integral", "loc_reg", "implicit", "stack_value"}, v : Words]

SignedLEB == {"consts", "fbreg", "breg"}

ASSUME ExpressionsAssumption ==
  /\ Expressions \subseteq Seq([op : STRING, n : Int, leb : Seq(Seq(Groups)), bytes : Nat])
  /\ \A e \in Expressions :
       /\ e # <<>>
       /\ \A k \in DOMAIN e :
            /\ e[k].op \in {"constu"} \cup SignedLEB => e[k].leb # <<>>
            /\ <<>> \notin Range(e[k].leb)
            /\ e[k].op = "deref_size" => e[k].n \in Nat
  /\ Capacity \in Nat
  /\ ByteBits \in Nat \ {0} /\ ByteBits * WordBytes = WordBits
  /\ Leftovers \subseteq Element
  /\ DOMAIN Registers \subseteq Nat /\ Range(Registers) \subseteq Words
  /\ DOMAIN Memory \subseteq Words /\ Range(Memory) \subseteq Words
  /\ CFA \in Words

VARIABLES
  expression,
  scan,    \* the byte next to be read
  stack,   \* the slots, from 0 on
  size,    \* how many are in use
  ret,     \* what is returned, Unset while retIsSet is false
  status,  \* entered, running, done, failed (an assertion), crashed, or lost
  base,    \* the size before the first operation
  meant    \* what the operations read so far mean, see below

vars == <<expression, scan, stack, size, ret, status, base, meant>>

Unset == [type |-> "unset", v |-> 0]
Generic(v) == [type |-> "generic", v |-> v % WordSize]

\* The byte behind each operation, and the one at which the first begins.
Offset ==
  LET at[k \in 0 .. Len(expression)] ==
        IF k = 0 THEN 0 ELSE at[k - 1] + 1 + expression[k].bytes
  IN  at
Starts == {Offset[k - 1] : k \in 1 .. Len(expression)}
End == Offset[Len(expression)]
Here == CHOOSE k \in 1 .. Len(expression) : Offset[k - 1] = scan
I == expression[Here]
Behind == Offset[Here]

\* A size beyond the array is left out: nothing can be said of what lies there.
Init ==
  /\ expression \in Expressions
  /\ scan = 0
  /\ \E leftover \in Leftovers : stack = [slot \in 0 .. Capacity - 1 |-> leftover]
  /\ size \in 0 .. Capacity
  /\ ret = Unset
  /\ status = "entered"
  /\ base = size
  /\ meant = [right |-> TRUE, words |-> <<>>, next |-> 0, named |-> {}, read |-> FALSE]

-----------------------------------------------------------------------------
(* What an expression means: DWARF 5, 2.5 and 2.6                          *)

\* `meant' is kept beside the machine: `words' is the standard's stack, the top
\* first, `next' where it goes on, `named' the location or value given, and `read'
\* whether memory was.  They count while `right' says that every operation is one
\* that does what it should.
Fixed == {"const1u", "const1s", "const2u", "const2s", "const4u", "const4s", "const8u",
          "const8s", "lit"}
Binaries == {"and", "mod", "mul", "or", "plus", "xor", "shl", "shr"}
Comparisons == {"eq", "ge", "gt", "le", "lt", "ne"}

Magnitude(x) == IF x < 0 THEN -x ELSE x

Holds(op, x, y) ==
  CASE op = "eq" -> x = y
    [] op = "ne" -> x # y
    [] op = "ge" -> x >= y
    [] op = "gt" -> x > y
    [] op = "le" -> x <= y
    [] op = "lt" -> x < y
Truth(condition) == IF condition THEN 1 ELSE 0

StdBinary(op, x, y) ==
  CASE op = "and" -> And(x, y)
    [] op = "mod" -> x % y
    [] op = "mul" -> x * y
    [] op = "or" -> Or(x, y)
    [] op = "plus" -> x + y
    [] op = "xor" -> Xor(x, y)
    [] op = "shl" -> x * Power2[y]
    [] op = "shr" -> x \div Power2[y]
    [] OTHER -> Truth(Holds(op, Signed(x, WordBits), Signed(y, WordBits)))

StdStep(s, i) ==
  CASE i.op \in Fixed -> <<i.n % WordSize>> \o s
    [] i.op = "constu" -> <<Unsigned(i.leb[1]) % WordSize>> \o s
    [] i.op \in {"consts", "fbreg"} -> <<SignedValue(i.leb[1]) % WordSize>> \o s
    [] i.op = "breg" -> <<(Registers[i.n] + SignedValue(i.leb[1])) % WordSize>> \o s
    [] i.op = "deref" -> <<Memory[s[1]]>> \o Tail(s)
    [] i.op = "deref_size" -> <<Memory[s[1]] % Power2[ByteBits * i.n]>> \o Tail(s)
    [] i.op \in {"drop", "bra"} -> Tail(s)
    [] i.op = "swap" -> <<s[2], s[1]>> \o SubSeq(s, 3, Len(s))
    [] i.op = "rot" -> <<s[2], s[3], s[1]>> \o SubSeq(s, 4, Len(s))
    [] i.op = "abs" -> <<Magnitude(Signed(s[1], WordBits))>> \o Tail(s)
    [] i.op = "neg" -> <<(WordSize - s[1]) % WordSize>> \o Tail(s)
    [] i.op = "not" -> <<WordSize - 1 - s[1]>> \o Tail(s)
    [] i.op \in Binaries \cup Comparisons ->
         <<StdBinary(i.op, s[2], s[1]) % WordSize>> \o SubSeq(s, 3, Len(s))
    [] i.op \in {"skip", "reg", "implicit_value"} -> s

Operands(i) ==
  CASE i.op \in Binaries \cup Comparisons \cup {"swap"} -> 2
    [] i.op = "rot" -> 3
    [] i.op \in {"abs", "neg", "not", "deref", "deref_size", "drop", "bra"} -> 1
    [] OTHER -> 0

Readable(number) ==
  ~SLEB128Asserts(number) /\ FitsInt(SignedValue(number)) /\ ~Wraps(number)

\* A comparison does what it should where the signs agree and nothing was read
\* from memory, deref_size where nothing is left of the address, an operation
\* with a LEB128 number where an int holds it.
Right(s, i) ==
  /\ Len(s) >= Operands(i)
  /\ base + Len(s) < Capacity
  /\ CASE i.op \in Binaries ->
            /\ i.op \in {"shl", "shr"} => s[1] < WordBits
            /\ i.op = "mod" => s[1] # 0
       [] i.op \in Comparisons ->
            /\ Signed(s[1], WordBits) < 0 <=> Signed(s[2], WordBits) < 0
            /\ ~meant.read
       [] i.op = "constu" -> FitsInt(Unsigned(i.leb[1]))
       [] i.op \in {"consts", "fbreg"} -> Readable(i.leb[1])
       [] i.op = "breg" -> Readable(i.leb[1]) /\ i.n \in DOMAIN Registers
       [] i.op = "deref" -> s[1] \in DOMAIN Memory
       [] i.op = "deref_size" ->
            /\ s[1] \in DOMAIN Memory /\ i.n <= WordBytes
            /\ i.n < WordBytes => s[1] < Power2[ByteBits * i.n]
       [] i.op \in {"skip", "bra"} -> Behind + i.n \in Starts \cup {End}
       [] OTHER -> i.op \in Fixed \cup {"drop", "swap", "rot", "abs", "neg", "not",
                                        "reg", "implicit_value"}

StdJumps(s, i) == i.op = "skip" \/ (i.op = "bra" /\ s[1] # 0)

StdAfter ==
  IF meant.right /\ Right(meant.words, I)
    THEN [right |-> TRUE,
          words |-> StdStep(meant.words, I),
          next  |-> IF StdJumps(meant.words, I) THEN Behind + I.n ELSE Behind,
          named |-> IF I.op \in {"reg", "implicit_value"} THEN {I.n} ELSE meant.named,
          read  |-> meant.read \/ I.op = "deref"]
  ELSE [meant EXCEPT !.right = FALSE]

-----------------------------------------------------------------------------
(* The machine                                                             *)

Is(ops) ==
  /\ status = "running" /\ scan \in Starts /\ I.op \in ops
  /\ meant' = StdAfter
  /\ UNCHANGED <<expression, base>>

Ends(how) == status' = how /\ UNCHANGED <<scan, stack, size, ret>>

Top(depth) == stack[size - 1 - depth]

\* So many elements are popped and these pushed.  StackExprPop of an empty
\* stack and StackExprPush on a full one give a null pointer, which is used.
Effect(popped, pushed, next) ==
  IF popped > size \/ size - popped + Len(pushed) > Capacity THEN Ends("crashed")
  ELSE /\ stack' = [slot \in DOMAIN stack |->
                      IF slot \in size - popped .. size - popped + Len(pushed) - 1
                        THEN pushed[slot - size + popped + 1] ELSE stack[slot]]
       /\ size' = size - popped + Len(pushed)
       /\ scan' = next
       /\ UNCHANGED <<ret, status>>

Pushes(element) == Effect(0, <<element>>, Behind)

\* EvalExprFrameBase.
FrameBase ==
  /\ status = "entered"
  /\ IF expression[1].op = "call_frame_cfa"
       THEN ret' = Generic(CFA) /\ status' = "done"
     ELSE status' = "running" /\ UNCHANGED ret
  /\ UNCHANGED <<expression, scan, stack, size, base, meant>>

\* The frame base a frame base is evaluated with.
frameBase == 0

Constant == Is(Fixed) /\ Pushes(Generic(I.n))

ConstU == Is({"constu"}) /\ Pushes(Generic(ULEB128AndAdvance(I.leb[1])))

Offsets(number, origin) ==
  IF SLEB128Asserts(number) THEN Ends("failed")
  ELSE Pushes(Generic(origin + SLEB128AndAdvance(number)))

ConstS == Is({"consts"}) /\ Offsets(I.leb[1], 0)
FBReg == Is({"fbreg"}) /\ Offsets(I.leb[1], frameBase)

\* GetLoadedRegister knows no other registers.
BReg ==
  /\ Is({"breg"})
  /\ IF I.n \in DOMAIN Registers THEN Offsets(I.leb[1], Registers[I.n]) ELSE Ends("failed")

\* Which of the two numbers is read first is the compiler's choice.
BRegX ==
  /\ Is({"bregx"})
  /\ \E order \in {<<1, 2>>, <<2, 1>>} :
       LET register == ULEB128AndAdvance(I.leb[order[1]])
       IN  IF register \in DOMAIN Registers THEN Offsets(I.leb[order[2]], Registers[register])
           ELSE Ends("failed")

Reg_NotSet == Is({"reg"}) /\ Effect(0, <<>>, Behind)
Reg ==
  /\ Is({"reg"})
  /\ ret' = [type |-> "loc_reg", v |-> I.n]
  /\ scan' = Behind
  /\ UNCHANGED <<stack, size, status>>

RegX ==
  Is({"regx"}) /\ Pushes([type |-> "loc_reg", v |-> ULEB128AndAdvance(I.leb[1])])

\* The address is read and not pushed.
Addr == Is({"addr"}) /\ Effect(0, <<>>, Behind)

\* A failed read leaves what is in the slot: the address.
ReadWord(address) == IF address \in DOMAIN Memory THEN Memory[address] ELSE address
Deref ==
  /\ Is({"deref"})
  /\ IF size = 0 THEN Ends("crashed")
     ELSE Effect(1, <<[type |-> "integral", v |-> ReadWord(Top(0).v)]>>, Behind)

\* So many bytes of the address are overwritten.
ReadBytes(address, bytes) ==
  LET low == Power2[ByteBits * bytes]
  IN  (ReadWord(address) % low) + address - (address % low)
DerefSize ==
  /\ Is({"deref_size"})
  /\ IF I.n > WordBytes THEN Ends("failed")
     ELSE IF size = 0 THEN Ends("crashed")
     ELSE Effect(1, <<Generic(ReadBytes(Top(0).v, I.n))>>, Behind)

Drop ==
  /\ Is({"drop"})
  /\ Effect(IF size = 0 THEN 0 ELSE 1, <<>>, Behind)

\* StackExprTopIndex compares an unsigned number with 0 and always gives null.
Copy == Is({"dup", "over", "pick"}) /\ Ends("crashed")

Swap == Is({"swap"}) /\ Effect(2, <<Top(0), Top(1)>>, Behind)
Rot == Is({"rot"}) /\ Effect(3, <<Top(0), Top(2), Top(1)>>, Behind)

Unary(op, x) ==
  CASE op = "abs" -> Magnitude(Signed(x, WordBits))
    [] op = "neg" -> -x
    [] op = "not" -> -x - 1

Arithmetic1 ==
  /\ Is({"abs", "neg", "not"})
  /\ Effect(1, <<[Top(0) EXCEPT !.v = Unary(I.op, @) % WordSize]>>, Behind)

\* The words are unsigned in all of them; a shift by more than a word is one by
\* the rest.
Binary(op, x, y) ==
  CASE op \in {"and", "div"} -> And(x, y)
    [] op = "minus" -> x \div y
    [] op = "mod" -> x % y
    [] op = "mul" -> x * y
    [] op = "or" -> Or(x, y)
    [] op = "plus" -> x + y
    [] op = "xor" -> Xor(x, y)
    [] op = "shl" -> (x % Power2[WordBits - (y % WordBits)]) * Power2[y % WordBits]
    [] op = "shr" -> x \div Power2[y % WordBits]
    [] op = "shra" -> x \div ((2 * y) % WordSize)

DividesByZero(op, y) ==
  \/ op \in {"minus", "mod"} /\ y = 0
  \/ op = "shra" /\ (2 * y) % WordSize = 0

Arithmetic2 ==
  /\ Is({"and", "div", "minus", "mod", "mul", "or", "plus", "xor", "shl", "shr", "shra"})
  /\ IF size < 2 THEN Ends("crashed")
     ELSE IF DividesByZero(I.op, Top(0).v) THEN Ends("crashed")
     ELSE Effect(2, <<[Top(0) EXCEPT !.v = Binary(I.op, Top(1).v, @) % WordSize]>>, Behind)

\* Two elements are popped, where there is one.
PlusUConst ==
  /\ Is({"plus_uconst"})
  /\ Effect(2, <<[Top(0) EXCEPT
                    !.v = (@ + Top(1).v + ULEB128AndAdvance(I.leb[1])) % WordSize]>>, Behind)

Compare ==
  /\ Is({"eq", "ge", "gt", "le", "lt", "ne"})
  /\ IF size < 2 THEN Ends("crashed")
     ELSE IF Top(0).type # Top(1).type THEN Ends("failed")
     ELSE Effect(2, <<Generic(Truth(Holds(I.op, Top(1).v, Top(0).v)))>>, Behind)

\* A jump counts from behind its operand.
Skip == Is({"skip"}) /\ Effect(0, <<>>, Behind + I.n)

Bra_Zero ==
  /\ Is({"bra"})
  /\ IF size = 0 THEN Ends("crashed")
     ELSE Effect(1, <<>>, IF Top(0).v = 0 THEN Behind + I.n ELSE Behind)

Bra ==
  /\ Is({"bra"})
  /\ IF size = 0 THEN Ends("crashed")
     ELSE Effect(1, <<>>, IF Top(0).v # 0 THEN Behind + I.n ELSE Behind)

ImplicitValue ==
  /\ Is({"implicit_value"})
  /\ ret' = [type |-> "implicit", v |-> I.n]
  /\ scan' = Behind
  /\ UNCHANGED <<stack, size, status>>

\* What is returned is not the top but the free slot above it.
StackValue ==
  /\ Is({"stack_value"})
  /\ IF size = Capacity THEN Ends("crashed")
     ELSE /\ ret' = [type |-> "stack_value", v |-> stack[size].v]
          /\ size' = size + 1
          /\ scan' = Behind
          /\ UNCHANGED <<stack, status>>

Unimplemented ==
  Is({"piece", "xderef_size", "nop", "implicit_pointer", "unknown"}) /\ Ends("failed")

\* Nothing is done, and the operands are not passed over.
Ignored ==
  /\ Is({"xderef", "push_object_address", "call2", "call4", "call_ref", "form_tls_address",
         "call_frame_cfa", "bit_piece", "addrx", "constx", "entry_value", "const_type",
         "regval_type", "deref_type", "xderef_type", "convert", "reinterpret"})
  /\ Effect(0, <<>>, scan + 1)

Operation ==
  \/ Constant \/ ConstU \/ ConstS \/ FBReg \/ BReg \/ BRegX \/ Reg \/ RegX \/ Addr
  \/ Deref \/ DerefSize \/ Drop \/ Copy \/ Swap \/ Rot \/ Arithmetic1 \/ Arithmetic2
  \/ PlusUConst \/ Compare \/ Skip \/ Bra \/ ImplicitValue \/ StackValue
  \/ Unimplemented \/ Ignored

\* Operands are taken for operations: what is done next is not followed.
Astray ==
  /\ status = "running" /\ scan < End /\ scan \notin Starts
  /\ Ends("lost")
  /\ UNCHANGED <<expression, base, meant>>

Finish ==
  /\ status = "running" /\ scan >= End
  /\ IF ret # Unset THEN status' = "done" /\ UNCHANGED <<size, ret>>
     ELSE IF size = 0 THEN status' = "crashed" /\ UNCHANGED <<size, ret>>
     ELSE status' = "done" /\ ret' = Top(0) /\ size' = size - 1
  /\ UNCHANGED <<expression, scan, stack, base, meant>>

Next == FrameBase \/ Operation \/ Astray \/ Finish

Spec == Init /\ [][Next]_vars

-----------------------------------------------------------------------------
(* Correctness                                                             *)

\* Evaluating right operations does what the standard says, on top of whatever
\* was in the stack, and comes to no assertion and no null pointer.
StackAsMeant ==
  meant.right /\ status # "done" =>
    /\ status \in {"entered", "running"} \/ (status = "crashed" /\ size = 0)
    /\ scan = meant.next
    /\ size = base + Len(meant.words)
    /\ \A k \in DOMAIN meant.words : stack[size - k].v = meant.words[k]

\* What is returned is the location or the value last given, or else the top.
\* A frame base that begins with call_frame_cfa is taken to be no more than it.
ResultAsMeant ==
  meant.right /\ status = "done" =>
    IF expression[1].op = "call_frame_cfa" THEN ret = Generic(CFA)
    ELSE IF meant.named # {} THEN meant.named = {ret.v}
    ELSE IF meant.words # <<>> THEN ret.v = meant.words[1]
    ELSE base > 0

\* A LEB128 number is read as it is written only if an int holds it, and then it
\* is (unsigned ones with the highest bit apart, and negative ones that wrap).
NumbersRead ==
  \A k \in DOMAIN expression : \A number \in Range(expression[k].leb) :
    IF expression[k].op \in SignedLEB
      THEN ~SLEB128Asserts(number) =>
             LET isRead == SLEB128AndAdvance(number) = SignedValue(number) % WordSize
             IN  /\ isRead => FitsInt(SignedValue(number))
                 /\ Readable(number) => isRead
    ELSE Unsigned(number) < WordSize \div 2 =>
           (ULEB128AndAdvance(number) = Unsigned(number) <=> FitsInt(Unsigned(number)))

=============================================================================
