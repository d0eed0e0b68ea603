--------------------------- MODULE MCLineProgram ---------------------------
(***************************************************************************)
(* Two projects.  The headers of the first name files the way gcc writes   *)
(* them, the file of number 0 again as number 1, and its programs have all *)
(* instructions; the second has a header of one file, two files of one     *)
(* name, and programs of two sequences.  The special opcodes are one line  *)
(* on in place, at the next operation, and at the next instruction.        *)
(***************************************************************************)
EXTENDS LineProgram

Crt == [dir |-> "crt", name |-> "crtexe.c"]
Main == [dir |-> "src", name |-> "main.c"]
Util == [dir |-> "src", name |-> "util.h"]
Other == [dir |-> "crt", name |-> "util.h"]

MCFiles == {Crt, Main, Util, Other}

MCHeader(ops) ==
  [minimumInstructionLength |-> 2, maximumOperationsInstructions |-> ops,
   defaultIsStmt |-> TRUE, lineBase |-> -5, lineRange |-> 14, opcodeBase |-> 13]

I(op, n) == [op |-> op, n |-> n]

GccLike ==
  [files |-> << <<Crt, Crt, Main>>, <<Main, Main, Util, Crt>> >>,
   header |-> MCHeader(2),
   instructions |->
     {I("special", 19), I("special", 33), I("copy", 0), I("advance_pc", 3),
      I("advance_line", -1), I("set_file", 0), I("set_file", 2),
      I("negate_stmt", 0), I("const_add_pc", 0), I("set_column", 0),
      I("unsupported", 0), I("set_address", 8), I("end_sequence", 0)},
   length |-> 6]

TwoSections ==
  [files |-> << <<Main, Util, Other>>, <<Crt>>, <<Other, Main>> >>,
   header |-> MCHeader(1),
   instructions |->
     {I("special", 33), I("advance_pc", 3), I("negate_stmt", 0), I("set_file", 0),
      I("set_address", 8), I("set_address", 30), I("end_sequence", 0)},
   length |-> 8]

MCProjects == {GccLike, TwoSections}

=============================================================================
