----------------------------- MODULE MCDieWalk -----------------------------
(***************************************************************************)
(* Debug information: two units the way gcc writes them for C, with        *)
(* adjoining code and nested blocks; the same with oddities, each of which *)
(* some property excepts; units of versions 3 and 4; and, for every form   *)
(* with some names, a unit in which one attribute between two others has   *)
(* it, an index with and without an offset for it.                         *)
(***************************************************************************)
EXTENDS DieWalk

At(name, form) == [name |-> name, form |-> form]
V(bytes, v) == [bytes |-> bytes, v |-> v, index |-> 0]
E(code, values) == [code |-> code, values |-> values]
Null == E(0, <<>>)
Ab(tag, children, def, consts) ==
  [tag |-> tag, children |-> children, def |-> def, consts |-> consts]

Abbrevs ==
  1 :> Ab("compile_unit", TRUE,
          <<At("name", "line_strp"), At("low_pc", "addr"), At("high_pc", "data8"),
            At("stmt_list", "sec_offset")>>, <<>>)
  @@ 2 :> Ab("other", FALSE, <<At("byte_size", "data1"), At("name", "string")>>, <<>>)
  @@ 3 :> Ab("subprogram", TRUE,
             <<At("name", "strp"), At("decl_file", "implicit_const"),
               At("decl_line", "implicit_const"), At("prototyped", "flag_present"),
               At("low_pc", "addr"), At("high_pc", "data8"), At("frame_base", "exprloc")>>,
             <<1, 7>>)
  @@ 4 :> Ab("formal_parameter", FALSE, <<At("name", "string"), At("location", "exprloc")>>, <<>>)
  @@ 5 :> Ab("other", TRUE, <<At("low_pc", "addr"), At("high_pc", "data8")>>, <<>>)
  @@ 6 :> Ab("variable", FALSE, <<At("name", "string"), At("location", "sec_offset")>>, <<>>)
  @@ 7 :> Ab("subprogram", FALSE,
             <<At("name", "strp"), At("decl_line", "data1"), At("low_pc", "addr"),
               At("high_pc", "udata"), At("frame_base", "exprloc")>>, <<>>)
  @@ 8 :> Ab("compile_unit", TRUE, <<At("low_pc", "addr"), At("ranges", "sec_offset")>>, <<>>)
  @@ 9 :> Ab("subprogram", TRUE,
             <<At("name", "strp"), At("ranges", "rnglistx"), At("frame_base", "exprloc")>>, <<>>)
  @@ 10 :> Ab("subprogram", FALSE, <<At("low_pc", "addr")>>, <<>>)
  @@ 11 :> Ab("compile_unit", FALSE, <<At("name", "string")>>, <<>>)
  @@ 12 :> Ab("variable", FALSE, <<At("location", "exprloc")>>, <<>>)
  @@ 13 :> Ab("subprogram", FALSE,
              <<At("name", "strp"), At("low_pc", "addr"), At("high_pc", "sdata")>>, <<>>)

Root(low, size) == E(1, <<V(4, "a.c"), V(8, low), V(8, size), V(4, 0)>>)
Type == E(2, <<V(1, 4), V(2, "int")>>)
Fun(name, low, size) ==
  E(3, <<V(4, name), V(0, 1), V(0, 7), V(0, TRUE), V(8, low), V(8, size), V(2, "cfa")>>)
Param(name) == E(4, <<V(2, name), V(3, "fbreg")>>)
Block == E(5, <<V(8, 11), V(8, 2)>>)
Var(name) == E(6, <<V(2, name), V(4, 0)>>)
Leaf(name, low, size) == E(7, <<V(4, name), V(1, 9), V(8, low), V(1, size), V(2, "cfa")>>)
RootRanges(low, list) == E(8, <<V(8, low), V(4, list)>>)
FunRanges(name, list) == E(9, <<V(4, name), V(1, list), V(2, "cfa")>>)
Nameless(low) == E(10, <<V(8, low)>>)
Signed(name, low, size) == E(13, <<V(4, name), V(8, low), V(1, size)>>)
NamelessVar == E(12, <<V(3, "fbreg")>>)
Bare == E(11, <<V(2, "b.s")>>)

R(kind, low, high) == [kind |-> kind, low |-> low, high |-> high]

Of(entries) == [abbrevs |-> Abbrevs, entries |-> entries]
MCQueries ==
  {<<"info", 0>>} \cup {<<"name", n>> : n \in {"f", "g", "h", "k", "missing"}}
  \cup {<<"address", a>> : a \in {10, 13, 14, 16, 19, 20, 22, 24, 30}}
  \cup {<<"locals", a>> : a \in {11, 15, 16, 17, 23}}

Info(version, units) ==
  [version |-> version, wide |-> FALSE, padded |-> TRUE, offsets |-> 1, units |-> units,
   queries |-> MCQueries]

First(middle) ==
  Of(<<Root(10, 6), Type, Fun("f", 10, 4), Param("x"), Block, Var("y"), Null>>
     \o middle \o <<Var("z"), Null, Leaf("g", 14, 2), Var("w"), Null>>)
Second(list, own) ==
  Of(<<RootRanges(0, list), Var("v"), FunRanges("h", own), Param("x"), Null,
       Leaf("g", 18, 1), Fun("k", 22, 2), Var("t"), Null, Null>>)

Plain2 ==
  Info(5, <<First(<<>>),
            Second(<<R("base_address", 10, 0), R("offset_pair", 6, 10), R("start_length", 22, 2)>>,
                   <<R("start_end", 16, 18), R("start_length", 19, 1)>>)>>)
Odd ==
  {Info(5, <<First(<<Block, Null>>), Second(<<R("start_end", 16, 24)>>, <<R("start_end", 16, 18)>>)>>),
   Info(5, <<First(<<NamelessVar>>),
             Of(<<RootRanges(16, <<R("offset_pair", 0, 8)>>), Leaf("h", 16, 4), Null>>)>>),
   Info(5, <<Of(<<Root(10, 16), Leaf("g", 14, 2), Fun("f", 10, 4), Param("x"), Null,
                  Nameless(20), Signed("s", 24, 2), Null>>),
             Of(<<RootRanges(0, <<R("startx_endx", 16, 24)>>),
                  FunRanges("h", <<R("startx_length", 16, 4)>>), Param("x"), Null, Null>>)>>),
   Info(5, <<Of(<<Bare>>), First(<<>>)>>),
   [Plain2 EXCEPT !.wide = TRUE], [Plain2 EXCEPT !.padded = FALSE],
   [Plain2 EXCEPT !.version = 3], [Plain2 EXCEPT !.version = 4]}

FormNames == {"name", "location", "high_pc", "byte_size", "ranges", "stmt_list",
              "count", "GNU_locviews", "sibling"}
FormValue(name) == IF name = "ranges" THEN <<R("start_end", 1, 3)>> ELSE 3
FormUnit(name, form, bytes) ==
  [abbrevs |->
     1 :> Ab("compile_unit", TRUE, <<At("name", "string")>>, <<>>)
     @@ 2 :> Ab("variable", FALSE,
                <<At("linkage_name", "string"), At(name, form), At("decl_line", "data1")>>,
                <<FormValue(name)>>),
   entries |->
     <<E(1, <<V(2, name)>>), E(2, <<V(2, "a"), V(bytes, FormValue(name)), V(1, 1)>>),
       E(2, <<V(3, "b"), V(bytes, FormValue(name)), V(1, 2)>>), Null>>]

\* The variable forms are tried with up to three bytes.
Sizes(form) == {n \in (IF form \in Variable THEN 1 .. 3 ELSE 0 .. 16) : n \in Bytes(form)}
FormInfos ==
  UNION {{[Info(5, <<FormUnit(name, form, bytes)>>) EXCEPT
             !.queries = {<<"info", 0>>}, !.offsets = offsets]
          : bytes \in Sizes(form), offsets \in IF form = "rnglistx" THEN {0, 1} ELSE {1}}
         : name \in FormNames, form \in Forms}

MCInfos == {Plain2} \cup Odd \cup FormInfos

\* The debug information is what the theorems about the walks ask for.
ASSUME InfosAreStandard ==
  \A i \in Infos : AddressesNumeric(i) /\ (~i.wide => Standard(i))

=============================================================================
