---------------------------- MODULE DwarfForms -----------------------------
(***************************************************************************)
(* How the debugger reads one attribute of .debug_info: GetDwarfClass of   *)
(* DwarfDef.h says what an attribute is from its name and its form, and a  *)
(* reader of DwarfForms.h takes it from the cursor.                        *)
(*                                                                         *)
(* Only what keeps the cursor in step is kept of an encoding: how many     *)
(* bytes the value has (by the standard) and how many the reader moves on  *)
(* by.  Attributes and forms have their names without DW_AT_ and DW_FORM_. *)
(* X_Y is X with a mistake in it.                                          *)
(***************************************************************************)
EXTENDS Integers

Pointers ==  \* attributes whose data4 and data8 are offsets up to DWARF 3
  {"location", "stmt_list", "string_length", "return_addr", "start_scope",
   "data_member_location", "frame_base", "macro_info", "segment", "static_link",
   "use_location", "vtable_elem_location", "ranges"}

Expressions ==  \* attributes whose blocks are expressions up to DWARF 3
  {"location", "byte_size", "data_bit_offset", "bit_size", "string_length",
   "lower_bound", "return_addr", "bit_stride", "upper_bound", "count",
   "data_member_location", "frame_base", "segment", "static_link",
   "use_location", "vtable_elem_location", "allocated", "associated",
   "data_location", "byte_stride"}

Unsigned ==  \* attributes whose data1, data2 and data16 are known to be unsigned
  {"language", "upper_bound", "const_value", "bit_size", "data_bit_offset",
   "encoding", "call_file", "call_line", "call_column", "GNU_entry_view",
   "data_member_location", "decimal_sign", "endianity", "alignment",
   "accessibility", "visibility", "virtuality", "identifier_case",
   "calling_convention", "inline", "ordering", "discr_list", "defaulted",
   "byte_size", "decl_file", "decl_line", "decl_column"}

Offset(name) ==
  IF name \in {"location", "string_length", "return_addr", "data_member_location",
               "frame_base", "segment", "static_link", "use_location",
               "vtable_elem_location", "GNU_locviews"} THEN "loclist"
  ELSE IF name \in {"start_scope", "ranges"} THEN "rnglist" ELSE "null"

Constant(name) == IF name \in Unsigned THEN "uconstant" ELSE "constant"

\* data4 and data8: below version 4 what is no offset is handled as data1.
Data(version, name) ==
  IF version <= 3 THEN IF name \in Pointers THEN Offset(name) ELSE Constant(name)
  ELSE IF name = "high_pc" THEN "uconstant" ELSE "constant"

GetDwarfClass(version, name, form) ==
  CASE form \in {"addr", "addrx", "addrx1", "addrx3", "addrx4"} -> "address"
    [] form \in {"block", "block1", "block2", "block4"} ->
         IF version <= 3 /\ name \in Expressions THEN "exprloc" ELSE "block"
    [] form \in {"data4", "data8"} -> Data(version, name)
    [] form \in {"data1", "data2", "data16"} -> Constant(name)
    [] form = "udata" -> "uconstant"
    [] form \in {"sdata", "implicit_const"} -> "sconstant"
    [] form = "exprloc" -> "exprloc"
    [] form \in {"flag", "flag_present"} -> "flag"
    [] form \in {"ref1", "ref2", "ref4", "ref8", "ref_addr", "ref_sig8",
                 "ref_udata", "ref_sup4", "ref_sup8"} -> "reference"
    [] form \in {"string", "strp", "strp_sup", "line_strp",
                 "strx1", "strx2", "strx3", "strx4"} -> "string"
    [] form = "loclistx" -> "loclist"
    [] form = "rnglistx" -> "rnglist"
    [] form = "sec_offset" -> Offset(name)
    [] OTHER -> "null"

-----------------------------------------------------------------------------
(* The readers: by how much they move the cursor over a value of so many   *)
(* bytes; Asserts if they fail an assertion.                               *)

Asserts == -1

FormToAddress(form, bytes) ==
  IF form = "addrx1" THEN 2 ELSE IF form = "addrx" THEN 1 ELSE bytes

FormToUConst(form, bytes) == IF form = "data16" THEN Asserts ELSE bytes

FormToString_Indexed(form, bytes) ==
  IF form \in {"strp_sup", "strx3"} THEN 0 ELSE bytes
FormToString(form, bytes) == IF form = "strp_sup" THEN 0 ELSE bytes

FormToReference(form, bytes) ==
  IF form \in {"ref_addr", "ref_sup4", "ref_sig8", "ref_sup8"} THEN 0 ELSE bytes

FormToExprloc(form, bytes) == IF form = "exprloc" THEN bytes ELSE Asserts

FormToLoclist(form, bytes) ==
  IF form \in {"loclistx", "sec_offset"} THEN bytes ELSE Asserts

\* listed: the index is one the header of .debug_rnglists has an offset for.
FormToRnglist(form, bytes, listed) ==
  IF form = "sec_offset" \/ (form = "rnglistx" /\ listed) THEN bytes ELSE Asserts

\* NextDIE and NextDIEValue have one reader per class, and none for null.
Reader(class, form, bytes, listed) ==
  CASE class = "address" -> FormToAddress(form, bytes)
    [] class \in {"constant", "uconstant"} -> FormToUConst(form, bytes)
    [] class = "string" -> FormToString(form, bytes)
    [] class = "reference" -> FormToReference(form, bytes)
    [] class = "exprloc" -> FormToExprloc(form, bytes)
    [] class = "loclist" -> FormToLoclist(form, bytes)
    [] class = "rnglist" -> FormToRnglist(form, bytes, listed)
    [] class \in {"block", "sconstant", "flag"} -> bytes
    [] class = "null" -> 0

-----------------------------------------------------------------------------
(* The standard: DWARF 5, 7.5.5 and 7.5.6                                  *)

Fixed ==  \* the forms of one size on a 64-bit machine, in 32-bit DWARF
  [addr |-> 8, addrx1 |-> 1, addrx2 |-> 2, addrx3 |-> 3, addrx4 |-> 4,
   data1 |-> 1, data2 |-> 2, data4 |-> 4, data8 |-> 8, data16 |-> 16,
   implicit_const |-> 0, flag |-> 1, flag_present |-> 0,
   ref1 |-> 1, ref2 |-> 2, ref4 |-> 4, ref8 |-> 8, ref_addr |-> 4,
   ref_sig8 |-> 8, ref_sup4 |-> 4, ref_sup8 |-> 8,
   strp |-> 4, strp_sup |-> 4, line_strp |-> 4,
   strx1 |-> 1, strx2 |-> 2, strx3 |-> 3, strx4 |-> 4, sec_offset |-> 4]

Variable ==  \* the forms with a length, a LEB128 number or a string
  {"addrx", "block", "block1", "block2", "block4", "udata", "sdata", "exprloc",
   "ref_udata", "string", "strx", "loclistx", "rnglistx", "indirect"}

Forms == DOMAIN Fixed \cup Variable
Bytes(form) == IF form \in Variable THEN Nat \ {0} ELSE {Fixed[form]}

=============================================================================
