----------------------------- MODULE Encodings -----------------------------
(***************************************************************************)
(* Words, their bits, and the LEB128 numbers of DWARF as Encodings.h reads *)
(* them.  A number is the sequence of its groups, the least significant    *)
(* first; the bit that says that more follow is the length of the sequence *)
(* here.  The widths are constants, 7, 32 and 64 in the code.              *)
(* X_Y is X with a mistake in it.                                          *)
(***************************************************************************)
EXTENDS Integers, Sequences

CONSTANTS
  GroupBits,  \* bits of a group
  IntBits,    \* width of an int
  WordBits    \* width of a u64

ASSUME EncodingsAssumption ==
  /\ GroupBits \in Nat \ {0} /\ IntBits \in Nat /\ WordBits \in Nat
  /\ GroupBits < IntBits /\ IntBits < WordBits

Power2[k \in 0 .. WordBits] == IF k = 0 THEN 1 ELSE 2 * Power2[k - 1]

WordSize == Power2[WordBits]
Groups == 0 .. Power2[GroupBits] - 1

-----------------------------------------------------------------------------
(* C's operators on words                                                  *)

Bits(x) == {i \in 0 .. WordBits - 1 : (x \div Power2[i]) % 2 = 1}
WordOf(bits) ==
  LET sum[k \in 0 .. WordBits] ==
        IF k = 0 THEN 0
        ELSE sum[k - 1] + IF k - 1 \in bits THEN Power2[k - 1] ELSE 0
  IN  sum[WordBits]

And(x, y) == WordOf(Bits(x) \cap Bits(y))
Or(x, y) == WordOf(Bits(x) \cup Bits(y))
Xor(x, y) == WordOf((Bits(x) \cup Bits(y)) \ (Bits(x) \cap Bits(y)))

\* A word read as a signed number of so many bits.
Signed(x, bits) == IF x >= Power2[bits - 1] THEN x - Power2[bits] ELSE x

-----------------------------------------------------------------------------
(* The readers                                                             *)

\* `(byte & 0b01111111) << shift' is an int, whose sign is extended when it is
\* or-ed into the u64.  What x86 makes of a shift by more than its width is a
\* shift by the rest.
Shifted(group, shift) ==
  Signed((group * Power2[shift % IntBits]) % Power2[IntBits], IntBits) % WordSize

ULEB128AndAdvance(number) ==
  LET ret[k \in 0 .. Len(number)] ==
        IF k = 0 THEN 0 ELSE Or(ret[k - 1], Shifted(number[k], GroupBits * (k - 1)))
  IN  ret[Len(number)]

\* The assertion behind the loop of SLEB128AndAdvance.
SLEB128Asserts(number) == GroupBits * Len(number) >= WordBits

IsNegative(number) == number[Len(number)] >= Power2[GroupBits - 1]

SLEB128AndAdvance_Unextended(number) == ULEB128AndAdvance(number)
SLEB128AndAdvance(number) ==
  IF IsNegative(number)
    THEN Or(ULEB128AndAdvance(number), WordSize - Power2[GroupBits * Len(number)])
  ELSE ULEB128AndAdvance(number)

-----------------------------------------------------------------------------
(* The standard: DWARF 5, 7.6                                              *)

Unsigned(number) ==
  LET last[k \in 0 .. Len(number)] ==
        IF k = 0 THEN 0 ELSE number[Len(number) + 1 - k] + Power2[GroupBits] * last[k - 1]
  IN  last[Len(number)]

\* Of a number that SLEB128AndAdvance takes.
SignedValue(number) ==
  IF IsNegative(number) THEN Unsigned(number) - Power2[GroupBits * Len(number)]
  ELSE Unsigned(number)

FitsInt(value) == -Power2[IntBits - 1] <= value /\ value < Power2[IntBits - 1]

\* A negative number written with groups that begin behind an int: its shifts
\* have wrapped around, and leave ones where there may be zeros.
Wraps(number) == IsNegative(number) /\ GroupBits * (Len(number) - 1) >= IntBits

=============================================================================
