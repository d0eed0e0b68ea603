--------------------------- MODULE MCCommandLine ---------------------------
(***************************************************************************)
(* Sessions of two lines of every kind, of up to three characters, and     *)
(* some of the longer commands: `r' is register, `b' breakpoint, `c'       *)
(* section, `x' exit, `s' set, `l' line, `f' func.                         *)
(***************************************************************************)
EXTENDS CommandLine

MCChar == {BLANK, QUOTE, "a", "b", "c", "f", "g", "l", "r", "s", "x"}

Lines(n) == UNION {[1 .. k -> {BLANK, QUOTE, "c", "x"}] : k \in 0 .. n}

\* The words with a blank between them.
Words(ws) == SubSeq(FoldLeft(LAMBDA so, w : so \o <<BLANK>> \o w, <<>>, ws), 2,
                    FoldLeft(LAMBDA n, w : n + 1 + Len(w), 0, ws))
Session(lines) == [i \in DOMAIN lines |-> IF lines[i] = <<>> THEN <<>> ELSE Words(lines[i])]

B == <<"b">>
S == <<"s">>
L == <<"l">>
F == <<"f">>
R == <<"r">>
X == <<"x">>
A == <<"a">>
C == <<"c">>
G == <<"g">>
Spaced == <<QUOTE, "a", BLANK, "g", QUOTE>>

Long ==
  {Session(ls) : ls \in
     {<<<<B, S, L, Spaced, A>>, <<B, S, L, A>>, <<B, S, F>>, <<>>, <<X>>>>,
      <<<<R, S, A, G>>, <<R, G, A>>, <<R>>, <<B, L>>, <<R, S>>, <<X>>>>,
      <<<<B, S, F, A>>, <<B, S>>, <<B, L>>, <<B, S, L, G, A>>, <<X>>>>,
      <<<<B, S, A>>, <<C>>, <<X>>>>,
      <<<<R, S>>, <<C, C, C, C, C, C>>, <<X>>>>}}

MCInputs == {<<first, second>> : first \in Lines(3), second \in Lines(3)} \cup Long

MCExit == X
MCRegister == R
MCBreakpoint == B
MCOneArgument == {C}
MCSet == S
MCLine == L
MCFunc == F

=============================================================================
