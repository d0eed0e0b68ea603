------------------------------ MODULE DieWalk ------------------------------
(***************************************************************************)
(* The DIE cursor of Dwarf.h and DwarfForms.h, and the walks that use it:  *)
(* InitializeCompileUnits at startup, then `section info' (PrintInfo),     *)
(* `breakpoint set func' (GetFunctionByName), every lookup of the function *)
(* of an address (GetFunctionByAddress), and `locals'                      *)
(* (PrintLocalVariables).                                                  *)
(*                                                                         *)
(* .debug_info is, per unit, the sequence of its entries: the code of an   *)
(* abbreviation and the attributes' values with their sizes, code 0 for a  *)
(* null entry.  The cursor is the entry last read and the attribute it is  *)
(* at.  Once the debugger takes another number of bytes than there are,    *)
(* everything it reads after is arbitrary: it is lost, and no more is said *)
(* of it.  X_Y is X with a mistake in it.                                  *)
(***************************************************************************)
EXTENDS DwarfForms, SequencesExt

CONSTANTS
  Infos,        \* debug information of programs, see below
  MAX_DIE_DATA  \* the attributes a DIE has room for

(***************************************************************************)
(* Debug information is [version, wide, padded, offsets, units, queries]:  *)
(* wide if it is 64-bit DWARF, padded if zeros follow its last unit,       *)
(* offsets how many lists the header of .debug_rnglists has offsets for,   *)
(* the queries what is asked of it, a kind of command and its argument.  A *)
(* unit is [abbrevs, entries]; an abbreviation [tag, children, def,        *)
(* consts], def its attributes [name, form], consts its implicit           *)
(* constants; an entry [code, values], a value [bytes, v, index], index    *)
(* the number that stands for v in a form that is one.                     *)
(***************************************************************************)
Tags == {"compile_unit", "subprogram", "variable", "formal_parameter", "other"}
Kinds == {"info", "name", "address", "locals"}

\* How many lists of children are open before entry e of a unit.
Depth(unit, e) ==
  Cardinality({i \in 1 .. e - 1 : /\ unit.entries[i].code # 0
                                 /\ unit.abbrevs[unit.entries[i].code].children})
  - Cardinality({i \in 1 .. e - 1 : unit.entries[i].code = 0})

\* The values of an entry are those of its abbreviation's attributes, that of
\* an implicit constant without bytes of its own.
ValuesOf(abbrev, values) ==
  /\ DOMAIN values = DOMAIN abbrev.def
  /\ \A i \in DOMAIN values :
       abbrev.def[i].form = "implicit_const" =>
         values[i].v = abbrev.consts[
           1 + Cardinality({j \in 1 .. i - 1 : abbrev.def[j].form = "implicit_const"})]

IsSequence(s) == Len(s) \in Nat /\ DOMAIN s = 1 .. Len(s)

\* Debug information as the standard has it, in 32-bit DWARF: a value has the
\* bytes its form says, and no attribute is there twice.
Standard(i) ==
  /\ i.version \in Nat
  /\ \A u \in DOMAIN i.units :
       LET unit == i.units[u]
       IN  /\ \A a \in DOMAIN unit.abbrevs : \A j, k \in DOMAIN unit.abbrevs[a].def :
                /\ unit.abbrevs[a].def[j].form \in Forms
                /\ unit.abbrevs[a].def[j].name = unit.abbrevs[a].def[k].name => j = k
           /\ \A e \in DOMAIN unit.entries : unit.entries[e].code # 0 =>
                \A j \in DOMAIN unit.entries[e].values :
                  unit.entries[e].values[j].bytes
                    \in Bytes(unit.abbrevs[unit.entries[e].code].def[j].form)

\* Addresses and sizes are numbers, and so are those of a list of ranges.
RangeKinds == {"end_of_list", "base_addressx", "startx_endx", "startx_length",
               "offset_pair", "base_address", "start_end", "start_length"}
Numeric(name, v) ==
  /\ name \in {"low_pc", "high_pc"} => v \in Nat
  /\ name = "ranges" =>
       /\ IsSequence(v)
       /\ \A r \in DOMAIN v : v[r].kind \in RangeKinds /\ v[r].low \in Nat /\ v[r].high \in Nat

AddressesNumeric(i) ==
  /\ \A q \in i.queries : q[1] = "address" => q[2] \in Nat
  /\ \A u \in DOMAIN i.units : \A e \in DOMAIN i.units[u].entries :
       LET entry == i.units[u].entries[e]
       IN  entry.code # 0 =>
             \A j \in DOMAIN entry.values :
               Numeric(i.units[u].abbrevs[entry.code].def[j].name, entry.values[j].v)

\* The entries of a unit are one tree, which ends with the unit.
ASSUME DieWalkAssumption ==
  /\ MAX_DIE_DATA \in Nat
  /\ \A i \in Infos : /\ IsSequence(i.units)
                      /\ \A q \in i.queries : q[1] \in Kinds
  /\ \A i \in Infos : \A u \in DOMAIN i.units :
       LET unit == i.units[u]
       IN  /\ IsSequence(unit.entries)
           /\ 0 \notin DOMAIN unit.abbrevs
           /\ \A a \in DOMAIN unit.abbrevs : /\ unit.abbrevs[a].tag \in Tags
                                            /\ unit.abbrevs[a].children \in BOOLEAN
                                            /\ IsSequence(unit.abbrevs[a].def)
                                            /\ Len(unit.abbrevs[a].def) <= MAX_DIE_DATA
           /\ \A e \in DOMAIN unit.entries :
                LET entry == unit.entries[e]
                IN  entry.code # 0 =>
                      /\ entry.code \in DOMAIN unit.abbrevs
                      /\ ValuesOf(unit.abbrevs[entry.code], entry.values)
           /\ \A e \in 2 .. Len(unit.entries) : Depth(unit, e) > 0

VARIABLES
  info,    \* .debug_info and .debug_abbrev
  cus,     \* the compile units' DIEs
  die,     \* the DIE in use
  func,    \* the function of `locals', once it is found
  job,     \* the command at work: its kind, its argument, where it is
  status,  \* running, failed (an assertion), or lost
  seen,    \* the entries the command has walked over, with their depths
  answer   \* what it found: the entry, or the names printed

vars == <<info, cus, die, func, job, status, seen, answer>>

-----------------------------------------------------------------------------
(* The cursor                                                              *)

Junk == [class |-> "junk", v |-> 0]
NoAbbrev == [tag |-> "none", children |-> FALSE, def |-> <<>>, consts |-> <<>>]
Uninitialised == [unit |-> 1, entry |-> 0, code |-> 0, depth |-> 1, prevHasChildren |-> FALSE,
          cursorAbbrev |-> 1, cursorData |-> MAX_DIE_DATA, data |-> [i \in 1 .. MAX_DIE_DATA |-> Junk]]

Entries(u) == info.units[u].entries
AbbrevOf(u, code) ==
  IF code \in DOMAIN info.units[u].abbrevs THEN info.units[u].abbrevs[code] ELSE NoAbbrev
Abbrev(d) == AbbrevOf(d.unit, d.code)
Def(d) == Abbrev(d).def

\* The null entries from entry k on.
Nulls(u, k) ==
  LET left == Len(Entries(u)) + 1 - k
  IN  CHOOSE n \in 0 .. left :
        /\ \A i \in k .. k + n - 1 : Entries(u)[i].code = 0
        /\ n < left => Entries(u)[k + n].code # 0

\* UpdateDIE, with entry k the next to be read: null entries lower the depth
\* until it is 0, and an entry after one with children is one deeper.  Behind
\* a unit lies the next one, or padding.
UpdateDIE_NoDepth(d, k) ==
  LET u == d.unit
      n == Nulls(u, k)
      code == IF n > d.depth \/ k + n > Len(Entries(u)) THEN 0 ELSE Entries(u)[k + n].code
  IN  [d EXCEPT !.entry = IF n > d.depth THEN k + d.depth ELSE k + n,
                !.code = code,
                !.depth = IF n > @ THEN 0 ELSE @ - n,
                !.prevHasChildren = AbbrevOf(u, code).children,
                !.cursorAbbrev = 1]

UpdateDIE(d, k) ==
  LET u == d.unit
      n == Nulls(u, k)
      code == IF n > d.depth \/ k + n > Len(Entries(u)) THEN 0 ELSE Entries(u)[k + n].code
  IN  [d EXCEPT !.entry = IF n > d.depth THEN k + d.depth ELSE k + n,
                !.code = code,
                !.depth = IF n > @ THEN 0
                          ELSE IF n = 0 /\ d.prevHasChildren THEN @ + 1 ELSE @ - n,
                !.prevHasChildren = AbbrevOf(u, code).children,
                !.cursorAbbrev = 1]

InitializeDIE(d, k, u) ==
  UpdateDIE([d EXCEPT !.unit = u, !.depth = 1, !.prevHasChildren = FALSE], k)

\* By how much attribute i of the entry under the cursor is passed.  NextDIE
\* skips it; NextDIEValue also asserts that it is no plain constant, and for a
\* unit's DIE stmt_list is read apart and the sections' bases are refused.
Bases == {"macro_info", "str_offsets_base", "addr_base", "rnglists_base", "macros",
          "loclists_base"}
ClassAt(d, i) == GetDwarfClass(info.version, Def(d)[i].name, Def(d)[i].form)
ValueAt(d, i) == Entries(d.unit)[d.entry].values[i]
Listed(value) == value.index < info.offsets
Passed(how, d, i) ==
  CASE how = "unit" /\ Def(d)[i].name = "stmt_list" -> 4
    [] how = "unit" /\ Def(d)[i].name \in Bases -> Asserts
    [] how # "skip" /\ ClassAt(d, i) = "constant" -> Asserts
    [] OTHER -> Reader(ClassAt(d, i), Def(d)[i].form, ValueAt(d, i).bytes,
                            Listed(ValueAt(d, i)))

\* What becomes of the debugger when it reads the rest of the attributes: the
\* first one passed by another number of bytes than it has decides.
After(how, d) ==
  LET wrong == {i \in d.cursorAbbrev .. Len(Def(d)) :
                  Passed(how, d, i) # ValueAt(d, i).bytes}
  IN  IF wrong = {} THEN "running"
      ELSE IF Passed(how, d, Min(wrong)) = Asserts THEN "failed" ELSE "lost"

\* GetImplicitConst counts the implicit constants before the first attribute
\* of that name.
GetImplicitConst_Nth(d, name) == Abbrev(d).consts[1]
GetImplicitConst(d, name) ==
  LET first == Min({i \in DOMAIN Def(d) : Def(d)[i].name = name})
  IN  Abbrev(d).consts[1 + Cardinality({i \in 1 .. first - 1 : Def(d)[i].form = "implicit_const"})]

NextDIEValue(d, i) ==
  [class |-> ClassAt(d, i),
   v |-> IF Def(d)[i].form = "implicit_const" THEN GetImplicitConst(d, Def(d)[i].name)
         ELSE ValueAt(d, i).v]

\* ParseDIE and NextDIE where After is running.
ParseDIE(d) ==
  [d EXCEPT !.cursorAbbrev = Len(Def(d)) + 1,
            !.data = [i \in DOMAIN @ |->
                        IF i \in d.cursorAbbrev .. Len(Def(d)) THEN NextDIEValue(d, i) ELSE @[i]]]
NextDIE(d) == UpdateDIE(d, d.entry + 1)

\* MoveDataCursor: where the attribute is, 0 for nowhere.
Index(d, name) ==
  LET at == {i \in DOMAIN Def(d) : Def(d)[i].name = name}
  IN  IF at = {} THEN 0 ELSE Min(at)
Has(d, name) == Index(d, name) # 0
MoveDataCursor(d, name) == [d EXCEPT !.cursorData = Index(d, name)]
Get(d, name) == d.data[Index(d, name)]

-----------------------------------------------------------------------------
(* Ranges                                                                  *)

\* The interval of entry i of a range list, as IsInRangeRnglist takes it: the
\* base is that of the last base_address, at first the unit's
\* defaultBaseAddress, which is always 0; .debug_addr is not read.
Interval(list, i) ==
  LET bases == {j \in 1 .. i - 1 : list[j].kind = "base_address"}
      base == IF bases = {} THEN 0 ELSE list[Max(bases)].low
  IN  CASE list[i].kind = "offset_pair" -> <<base + list[i].low, base + list[i].high>>
        [] list[i].kind = "start_end" -> <<list[i].low, list[i].high>>
        [] list[i].kind = "start_length" -> <<list[i].low, list[i].low + list[i].high>>
        [] OTHER -> <<0, 0>>

IsInRangeRnglist(list, a) ==
  \E i \in DOMAIN list : Interval(list, i)[1] <= a /\ a <= Interval(list, i)[2]

GetDIEHighPC_Address(d) == Get(d, "high_pc").v
GetDIEHighPC(d) ==
  CASE Get(d, "high_pc").class = "uconstant" -> Get(d, "low_pc").v + Get(d, "high_pc").v
    [] Get(d, "high_pc").class = "address" -> Get(d, "high_pc").v
    [] OTHER -> 0

IsInRange(d, a) ==
  CASE Has(d, "ranges") -> IsInRangeRnglist(Get(d, "ranges").v, a)
    [] ~Has(d, "ranges") /\ Has(d, "low_pc") ->
         /\ Get(d, "low_pc").v <= a
         /\ a <= IF Has(d, "high_pc") THEN GetDIEHighPC(d) ELSE Get(d, "low_pc").v
    [] OTHER -> FALSE

\* GetCUByAddress, 0 for none.
GetCUByAddress(a) ==
  LET hits == {u \in DOMAIN cus : IsInRange(cus[u], a)}
  IN  IF hits = {} THEN 0 ELSE Min(hits)

-----------------------------------------------------------------------------
(* InitializeCompileUnits                                                  *)

Running(at) == status = "running" /\ job.at = at
Goes(at) == job' = [job EXCEPT !.at = at]
Ends(s) == status' = s /\ UNCHANGED <<info, cus, die, func, job, seen, answer>>

NoJob == [kind |-> "none", arg |-> "none", unit |-> 1, at |-> "idle"]

Init ==
  /\ info \in Infos
  /\ cus = <<>>
  /\ die = Uninitialised /\ func = Uninitialised
  /\ job = [NoJob EXCEPT !.at = "start"]
  /\ status = "running"
  /\ seen = <<>> /\ answer = <<>>

\* GetCompileUnitCount goes from unit to unit until it finds a length of 0,
\* and takes a 64-bit unit for a 32-bit one.
GetCompileUnitCount ==
  /\ Running("start")
  /\ IF info.wide \/ ~info.padded THEN Ends("lost")
     ELSE Goes("units") /\ UNCHANGED <<info, cus, die, func, status, seen, answer>>

\* A unit's header is read as one of version 5, whatever its version: before, the
\* offset of the abbreviations came first and there was no unit type, so neither
\* the abbreviations nor the unit's DIE are where the debugger looks for them.
HeaderMisread == info.version < 5

InitializeCompileUnit ==
  /\ Running("units") /\ Len(cus) < Len(info.units)
  /\ LET d == InitializeDIE(Uninitialised, 1, Len(cus) + 1)
     IN  IF HeaderMisread THEN Ends("lost")
         ELSE IF Abbrev(d).tag # "compile_unit" THEN Ends("failed")
         ELSE IF After("unit", d) # "running" THEN Ends(After("unit", d))
         ELSE /\ cus' = Append(cus, ParseDIE(d))
              /\ UNCHANGED <<info, die, func, job, status, seen, answer>>

UnitsReady ==
  /\ Running("units") /\ Len(cus) = Len(info.units)
  /\ Goes("idle")
  /\ UNCHANGED <<info, cus, die, func, status, seen, answer>>

-----------------------------------------------------------------------------
(* The walks                                                               *)

Ask(q) ==
  /\ Running("idle")
  /\ job' = [kind |-> q[1], arg |-> q[2], unit |-> 1, at |-> "unit"]
  /\ die' = Uninitialised
  /\ seen' = <<>> /\ answer' = <<>>
  /\ UNCHANGED <<info, cus, func, status>>

\* The cursor is at a DIE.  Behind a unit without children lies the header of
\* the next one, which the walk would take for an entry.
Outside(d) == d.depth # 0 /\ d.entry > Len(Entries(d.unit))
Visit(d) == [entry |-> d.entry, unit |-> d.unit, depth |-> d.depth]
Arrives(d, before) ==
  /\ die' = d
  /\ status' = IF Outside(d) THEN "lost" ELSE status
  /\ seen' = IF d.depth = 0 \/ Outside(d) THEN before ELSE Append(before, Visit(d))

\* An address is looked for in the units that have it.
Concerns(cu) == IF job.kind \in {"info", "name"} THEN TRUE ELSE IsInRange(cu, job.arg)

\* The walk of a unit begins behind the unit's own DIE.
EnterUnit ==
  /\ Running("unit") /\ job.unit <= Len(cus)
  /\ Concerns(cus[job.unit])
  /\ Arrives(InitializeDIE(die, 2, job.unit), seen)
  /\ Goes("die")
  /\ UNCHANGED <<info, cus, func, answer>>

PassUnit_Again ==
  /\ Running("unit") /\ job.unit <= Len(cus)
  /\ ~Concerns(cus[job.unit])
  /\ UNCHANGED vars

PassUnit ==
  /\ Running("unit") /\ job.unit <= Len(cus)
  /\ ~Concerns(cus[job.unit])
  /\ job' = [job EXCEPT !.unit = @ + 1]
  /\ UNCHANGED <<info, cus, die, func, status, seen, answer>>

LeaveUnit ==
  /\ Running("die") /\ die.depth = 0 /\ job.kind # "children"
  /\ job' = [job EXCEPT !.unit = @ + 1, !.at = "unit"]
  /\ UNCHANGED <<info, cus, die, func, status, seen, answer>>

Finished == Goes("idle")

\* All units are walked: `section info' has printed all, and who looks for a
\* function that is not there goes on with a DIE that is none.
NotFound ==
  /\ Running("unit") /\ job.unit > Len(cus)
  /\ IF job.kind \in {"info", "address"} THEN Finished /\ UNCHANGED status
     ELSE status' \in {"failed", "lost"} /\ UNCHANGED job
  /\ UNCHANGED <<info, cus, die, func, seen, answer>>

\* What a stale value is as a flag.
Truths(value) ==
  CASE value.class = "flag" -> {value.v}
    [] value.class = "uconstant" -> {value.v # 0}
    [] OTHER -> BOOLEAN

\* GetFunctionByName asks for the flag before it parses the DIE: what it gets
\* is the value of an earlier DIE, or of none.
Skips_NoCursor == Truths(die.data[die.cursorData])
Skips == IF Has(die, "prototyped") THEN Truths(Get(die, "prototyped")) ELSE {FALSE}

Locals_Variables == {"variable"}
Locals == {"variable", "formal_parameter"}

Wanted ==
  CASE job.kind = "info" -> {TRUE}
    [] job.kind = "children" -> {Abbrev(die).tag \in Locals}
    [] job.kind = "name" /\ Abbrev(die).tag = "subprogram" -> {~skip : skip \in Skips}
    [] OTHER -> {Abbrev(die).tag = "subprogram"}

Skip ==
  /\ Running("die") /\ die.depth # 0 /\ FALSE \in Wanted
  /\ Goes("next")
  /\ UNCHANGED <<info, cus, die, func, status, seen, answer>>

Parse ==
  /\ Running("die") /\ die.depth # 0 /\ TRUE \in Wanted
  /\ IF After("parse", die) # "running" THEN Ends(After("parse", die))
     ELSE /\ die' = ParseDIE(die)
          /\ Goes("parsed")
          /\ UNCHANGED <<info, cus, func, status, seen, answer>>

StepDIE ==
  /\ Running("next")
  /\ IF After("skip", die) # "running" THEN Ends(After("skip", die))
     ELSE /\ Arrives(NextDIE(die), seen)
          /\ Goes("die")
          /\ UNCHANGED <<info, cus, func, answer>>

PrintedDIE ==
  /\ Running("parsed") /\ job.kind = "info"
  /\ Goes("next")
  /\ UNCHANGED <<info, cus, die, func, status, seen, answer>>

\* `breakpoint set func' then needs the function's low_pc.
JudgeName ==
  /\ Running("parsed") /\ job.kind = "name"
  /\ IF ~Has(die, "name") THEN Ends("failed")
     ELSE IF Get(die, "name").v # job.arg
       THEN Goes("next") /\ UNCHANGED <<info, cus, die, func, status, seen, answer>>
     ELSE IF ~Has(die, "low_pc") THEN Ends("failed")
     ELSE /\ answer' = <<die.unit, die.entry>>
          /\ Finished
          /\ UNCHANGED <<info, cus, die, func, status, seen>>

JudgeAddress ==
  /\ Running("parsed") /\ job.kind = "address"
  /\ IF IsInRange(die, job.arg) THEN answer' = <<die.unit, die.entry>> /\ Finished
     ELSE Goes("next") /\ UNCHANGED answer
  /\ UNCHANGED <<info, cus, die, func, status, seen>>

\* The function of `locals' is found: its frame base and its name are needed,
\* and its children are walked with the abbreviations of the first unit that
\* has the address.
JudgeLocals ==
  /\ Running("parsed") /\ job.kind = "locals"
  /\ IF ~IsInRange(die, job.arg)
       THEN Goes("next") /\ UNCHANGED <<info, cus, die, func, status, seen, answer>>
     ELSE IF GetCUByAddress(job.arg) # die.unit THEN Ends("lost")
     ELSE IF ~Has(die, "frame_base") \/ ~Has(die, "name") THEN Ends("failed")
     ELSE LET child == InitializeDIE(Uninitialised, die.entry + 1, die.unit)
          IN  /\ func' = die
              /\ Arrives(child, <<>>)
              /\ job' = [job EXCEPT !.kind = "children", !.at = "die"]
              /\ UNCHANGED <<info, cus, answer>>

\* GetDIEName trusts a cursor that happens to be at a name: one left behind
\* the attributes, as it is at first, is at anything.
PrintLocal ==
  /\ Running("parsed") /\ job.kind = "children"
  /\ \/ /\ die.cursorData > Len(Def(die))
        /\ Ends("lost")
     \/ /\ ~Has(die, "name")
        /\ Ends("failed")
     \/ /\ Has(die, "name")
        /\ answer' = Append(answer, Get(die, "name").v)
        /\ die' = MoveDataCursor(die, "name")
        /\ Goes("next")
        /\ UNCHANGED <<info, cus, func, status, seen>>

LocalsDone ==
  /\ Running("die") /\ die.depth = 0 /\ job.kind = "children"
  /\ Finished
  /\ UNCHANGED <<info, cus, die, func, status, seen, answer>>

Walk ==
  \/ GetCompileUnitCount \/ InitializeCompileUnit \/ UnitsReady
  \/ EnterUnit \/ PassUnit \/ LeaveUnit \/ NotFound
  \/ Skip \/ Parse \/ StepDIE
  \/ PrintedDIE \/ JudgeName \/ JudgeAddress \/ JudgeLocals \/ PrintLocal \/ LocalsDone

Next == Walk \/ \E q \in info.queries : Ask(q)

Spec == Init /\ [][Next]_vars
FairSpec == Spec /\ WF_vars(Walk)

-----------------------------------------------------------------------------
(* What the walks should do, from the entries themselves                   *)

Real(u) == {e \in DOMAIN Entries(u) : Entries(u)[e].code # 0}
Opens(u, e) == e \in Real(u) /\ AbbrevOf(u, Entries(u)[e].code).children
TrueDepth(u, e) == Depth(info.units[u], e)

\* DW_CHILDREN_yes, and no child.
EmptyList(u, e) == Opens(u, e) /\ e + 1 \in DOMAIN Entries(u) \ Real(u)
InTree == \A u \in DOMAIN info.units : ~\E e \in DOMAIN Entries(u) : EmptyList(u, e)

NameOf(u, e, name) ==
  {i \in DOMAIN Entries(u)[e].values : AbbrevOf(u, Entries(u)[e].code).def[i].name = name}
HasAttribute(u, e, name) == NameOf(u, e, name) # {}
Attribute(u, e, name) == Entries(u)[e].values[Min(NameOf(u, e, name))].v
FormOf(u, e, name) == AbbrevOf(u, Entries(u)[e].code).def[Min(NameOf(u, e, name))].form
Tagged(u, tags) == {e \in Real(u) : AbbrevOf(u, Entries(u)[e].code).tag \in tags}

Before(f, g) == f[1] < g[1] \/ (f[1] = g[1] /\ f[2] < g[2])

\* The subtree of an entry, without it.
Below(u, e) ==
  IF ~Opens(u, e) THEN {}
  ELSE {i \in Real(u) : i > e /\ \A j \in e + 1 .. i : TrueDepth(u, j) > TrueDepth(u, e)}

Place(visit) == <<visit.unit, visit.entry>>

\* `section info' goes over every entry once, in order, and takes each to be
\* at its depth in the tree, if no list of children is empty: after such a
\* list it takes everything to be one higher, and leaves the unit early.
WalksTrue ==
  /\ job.kind = "info" /\ InTree
  /\ job.at \in {"idle", "die"} /\ status = "running"
  => /\ \A k \in DOMAIN seen :
          /\ seen[k].unit \in DOMAIN info.units
          /\ seen[k].entry \in Real(seen[k].unit) \ {1}
          /\ seen[k].depth = TrueDepth(seen[k].unit, seen[k].entry)
     /\ \A j, k \in DOMAIN seen : j < k => Before(Place(seen[j]), Place(seen[k]))
     /\ \A u \in DOMAIN info.units : \A e \in Real(u) \ {1} :
          u < job.unit \/ (\E k \in DOMAIN seen : Before(<<u, e>>, Place(seen[k])))
            => \E k \in DOMAIN seen : Place(seen[k]) = <<u, e>>

\* The attributes of version 5 that are read wrongly, and those that are refused.
Misread(name, form, bytes) ==
  \/ form \in {"addrx1", "addrx2", "strx", "strp_sup", "ref_addr", "ref_sig8",
               "ref_sup4", "ref_sup8", "indirect"}
  \/ form = "addrx" /\ bytes > 1
  \/ form = "sec_offset" /\ Offset(name) = "null"
Refused(name, form, listed) ==
  \/ form = "data16"
  \/ form \in {"data1", "data2"} /\ name \notin Unsigned
  \/ form \in {"data4", "data8"} /\ name # "high_pc"
  \/ form = "rnglistx" /\ ~listed

Spoils(u, e) ==
  LET def == AbbrevOf(u, Entries(u)[e].code).def
      values == Entries(u)[e].values
  IN  \E i \in DOMAIN def :
        \/ Misread(def[i].name, def[i].form, values[i].bytes)
        \/ Refused(def[i].name, def[i].form, Listed(values[i]))

\* `section info', which needs units of version 5 to be reached at all, comes to
\* grief at the first entry with one of these attributes and at no other,
\* whatever the name and the form: after every other the next attribute is read
\* where it begins.  A value it has parsed is the entry's.
AttributesRead ==
  /\ job.kind = "info" /\ ~Outside(die)
  /\ status # "running" \/ job.at = "parsed"
  => /\ status # "running" <=> Spoils(die.unit, die.entry)
     /\ status = "running" =>
          \A i \in DOMAIN Def(die) : die.data[i].v = ValueAt(die, i).v

Answered(kind) == job.kind = kind /\ job.at = "idle"
Named(name) ==
  UNION {{<<u, e>> : e \in {x \in Tagged(u, {"subprogram"}) :
            HasAttribute(u, x, "name") /\ Attribute(u, x, "name") = name}}
         : u \in DOMAIN info.units}
Prototyped(f) == HasAttribute(f[1], f[2], "prototyped")

\* `breakpoint set func' finds a function of that name, and passes over none
\* that has no DW_AT_prototyped.
NameFound ==
  Answered("name") /\ InTree =>
    /\ answer \in Named(job.arg)
    /\ \A f \in Named(job.arg) : Before(f, answer) => Prototyped(f)

\* The addresses an entry has by the standard; x-forms are given resolved, and
\* the base of a list is the unit's low_pc until it sets one.  A low_pc alone is
\* an address.
StdInterval(u, list, i) ==
  LET bases == {j \in 1 .. i - 1 : list[j].kind \in {"base_address", "base_addressx"}}
      base == IF bases # {} THEN list[Max(bases)].low
              ELSE IF HasAttribute(u, 1, "low_pc") THEN Attribute(u, 1, "low_pc") ELSE 0
  IN  CASE list[i].kind = "offset_pair" -> <<base + list[i].low, base + list[i].high>>
        [] list[i].kind \in {"start_end", "startx_endx"} -> <<list[i].low, list[i].high>>
        [] list[i].kind \in {"start_length", "startx_length"} ->
             <<list[i].low, list[i].low + list[i].high>>
        [] OTHER -> <<0, 0>>
Intervals(u, e) ==
  IF HasAttribute(u, e, "ranges")
    THEN LET list == Attribute(u, e, "ranges")
         IN  {StdInterval(u, list, i) : i \in DOMAIN list}
  ELSE IF HasAttribute(u, e, "low_pc")
    THEN LET low == Attribute(u, e, "low_pc")
         IN  {<<low, IF ~HasAttribute(u, e, "high_pc") THEN low + 1
                     ELSE IF FormOf(u, e, "high_pc") = "addr" THEN Attribute(u, e, "high_pc")
                     ELSE low + Attribute(u, e, "high_pc")>>}
  ELSE {}
Covered(u, e, a) == \E x \in Intervals(u, e) : x[1] <= a /\ a < x[2]
EndsAt(u, e, a) == \E x \in Intervals(u, e) : x[2] = a

\* Addresses that are no indices, sizes that are unsigned (a signed high_pc is
\* taken for 0), and a list that only base_address and literal addresses make.
Plain(u, e) ==
  /\ HasAttribute(u, e, "low_pc") => FormOf(u, e, "low_pc") = "addr"
  /\ HasAttribute(u, e, "high_pc") =>
       FormOf(u, e, "high_pc") \in {"addr", "udata", "data1", "data2", "data4", "data8"}
  /\ HasAttribute(u, e, "ranges") =>
    LET list == Attribute(u, e, "ranges")
    IN  \A i \in DOMAIN list :
          /\ list[i].kind \in {"base_address", "offset_pair", "start_end", "start_length"}
          /\ list[i].kind = "offset_pair" =>
               \/ \E j \in 1 .. i - 1 : list[j].kind = "base_address"
               \/ ~HasAttribute(u, 1, "low_pc") \/ Attribute(u, 1, "low_pc") = 0

\* The function found for an address contains it, or ends at it; and if its
\* unit, and it, have their ranges in forms that are read, it is found.
AddressFound ==
  Answered("address") /\ InTree =>
    IF answer # <<>>
      THEN \/ Covered(answer[1], answer[2], job.arg)
           \/ EndsAt(answer[1], answer[2], job.arg)
           \/ ~Plain(answer[1], answer[2])
    ELSE \A u \in DOMAIN info.units : \A e \in Tagged(u, {"subprogram"}) :
           Covered(u, 1, job.arg) /\ Covered(u, e, job.arg) => ~(Plain(u, 1) /\ Plain(u, e))

\* Of the entries in set, one name each, in their order: that of the k-th is the
\* k-th.
Lists(names, u, set) ==
  /\ Len(names) = Cardinality(set)
  /\ \A e \in set : names[Cardinality({x \in set : x <= e})] = Attribute(u, e, "name")

\* `locals' prints the variables and parameters of the function, and of the
\* blocks in it, if it has any entries below it.
LocalsTrue ==
  LET u == func.unit
      wanted == Tagged(u, {"variable", "formal_parameter"}) \cap Below(u, func.entry)
  IN  Answered("children") /\ Opens(u, func.entry) /\ InTree => Lists(answer, u, wanted)

\* Every command comes back, or the debugger has ended, or is lost.
CommandsEnd == job.at # "idle" ~> (job.at = "idle" \/ status # "running")

=============================================================================
