--------------------------- MODULE MCExpressions ---------------------------
(***************************************************************************)
(* Expressions that push one, two or three words and apply every operation *)
(* to them, every pair of operations, jumps, and every number of up to     *)
(* five groups, of which the fourth begins behind an int, and some of six: *)
(* groups of 2 bits, an int of 5, words of 12.                             *)
(***************************************************************************)
EXTENDS Expressions

O(op, n, leb, bytes) == [op |-> op, n |-> n, leb |-> leb, bytes |-> bytes]
Plain(op) == O(op, 0, <<>>, 0)
Number(op, number) == O(op, 0, <<number>>, Len(number))

Negative == O("const1s", -3, <<>>, 1)
Zero == O("lit", 0, <<>>, 0)
Two == O("lit", 2, <<>>, 0)
Address == O("const2u", 40, <<>>, 2)
Pushers == {Negative, Zero, Two, Address, O("breg", 6, << <<0, 2>> >>, 2)}

Jump(op, n) == O(op, n, <<>>, 2)

Others ==
  {Plain(op) : op \in {"deref", "drop", "dup", "over", "swap", "rot", "abs", "neg", "not",
                       "stack_value", "piece", "call_frame_cfa", "and", "div", "minus", "mod",
                       "mul", "or", "plus", "xor", "shl", "shr", "shra"} \cup Comparisons}
  \cup {O("deref_size", n, <<>>, 1) : n \in {1, 3, 4}}
  \cup {O("pick", 1, <<>>, 1), O("reg", 6, <<>>, 0), O("addr", 40, <<>>, 8),
        O("implicit_value", 9, <<>>, 3), O("call2", 1, <<>>, 2), Jump("bra", 1),
        Jump("skip", 0), O("breg", 9, << <<1>> >>, 1),
        O("bregx", 0, << <<2, 1>>, <<1>> >>, 3), Number("regx", <<2, 1>>),
        Number("plus_uconst", <<3>>), Number("fbreg", <<3, 0>>)}

Numbers ==
  UNION {[1 .. length -> Groups] : length \in 1 .. 5}
  \cup {<<1, 0, 0, 0, 0, 0>>, <<3, 3, 3, 3, 3, 3>>}

MCExpressions ==
  {<<Plain("call_frame_cfa")>>, <<Plain("call_frame_cfa"), Two>>}
  \cup {<<a>> : a \in Pushers \cup Others}
  \cup {<<a, b>> : a, b \in Pushers \cup Others}
  \cup {<<a, b, c>> : a, b \in Pushers, c \in Others}
  \cup {<<a, b, Two, c, Plain("plus")>> : a, b \in Pushers,
          c \in {Plain("swap"), Plain("rot"), Plain("drop"), Jump("skip", 1), Jump("bra", 1)}}
  \cup {<<Two, Zero, Negative, Jump("bra", -3)>>, <<Two, Jump("skip", 1), Address, Plain("neg")>>}
  \cup {<<Number(op, number)>> : op \in {"constu", "consts"}, number \in Numbers}

MCLeftovers == {[type |-> "generic", v |-> 1], [type |-> "loc_reg", v |-> 77]}
MCRegisters == 6 :> 45 @@ 7 :> 100
MCMemory == 40 :> 2730 @@ 37 :> 41 @@ 2 :> 7

=============================================================================
