------------------------- MODULE DebugSession_proofs -------------------------
(***************************************************************************)
(* Theorems about DebugSession: for every program, every breakpoint table  *)
(* and every disturbance, and then for programs without recursion.         *)
(***************************************************************************)
EXTENDS StraightSession, WellFoundedInduction, TLAPS

\* Below every set of numbers that is not empty lies one of its members.
LEMMA HasLeast ==
  ASSUME NEW S, S \subseteq Nat, S # {}
  PROVE  \E s \in S : \A r \in S : s <= r
<1> DEFINE R == OpToRel(<, Nat)
<1>1. IsWellFoundedOn(R, Nat)
  BY NatLessThanWellFounded
<1>2. \A x, y \in Nat : x < y => <<x, y>> \in R
  BY DEF OpToRel
<1> HIDE DEF R
<1>3. PICK s \in S : \A r \in S : <<r, s>> \notin R
  BY <1>1, WFMin
<1>4. \A r \in S : ~(r < s)
  BY <1>2, <1>3
<1> QED  BY <1>4

-----------------------------------------------------------------------------
(* Lemmas on the operators of the breakpoint table                         *)

\* The first of a set of indices is one of them.
LEMMA LowestOfMember ==
  ASSUME NEW S, S \subseteq Nat, S # {}
  PROVE  LowestOf(S) \in S
BY HasLeast DEF LowestOf

\* A set of indices of a sequence has a last one.
LEMMA LastOfMember ==
  ASSUME NEW n \in Nat, NEW S, S \subseteq 1 .. n, S # {}
  PROVE  LastOf(S) \in S
<1> DEFINE T == {k \in Nat : \E i \in S : k = n - i}
<1>1. \A i \in S : n - i \in T
  OBVIOUS
<1>2. T \subseteq Nat /\ T # {}
  BY <1>1
<1> HIDE DEF T
<1>3. PICK k \in T : \A r \in T : k <= r
  BY <1>2, HasLeast
<1>4. PICK j \in S : k = n - j
  BY <1>3 DEF T
<1>5. ASSUME NEW r \in S  PROVE r <= j
  <2>1. k <= n - r
    BY <1>1, <1>3, <1>5
  <2> QED  BY <2>1, <1>4, <1>5
<1> QED  BY <1>4, <1>5 DEF LastOf

\* The entry found at an address is in use and has that address.
LEMMA FoundInUse ==
  ASSUME TypeOK, SlotsInv, NEW a, a # 0, GetBreakpointByAddress(a) # NoSlot
  PROVE  /\ GetBreakpointByAddress(a) \in Slots
         /\ slots[GetBreakpointByAddress(a)].used
         /\ slots[GetBreakpointByAddress(a)].address = a
         /\ a \in Starts
<1> DEFINE hits == {s \in Slots : slots[s].address = a}
<1>1. hits # {} /\ GetBreakpointByAddress(a) = LowestOf(hits)
  BY DEF GetBreakpointByAddress
<1>2. hits \subseteq Nat
  BY SessionAssumption DEF Slots
<1>3. LowestOf(hits) \in hits
  BY <1>1, <1>2, LowestOfMember
<1> QED  BY <1>1, <1>3 DEF SlotsInv

\* No entry has an address at which none is found.
LEMMA NotFound ==
  ASSUME NEW a, GetBreakpointByAddress(a) = NoSlot
  PROVE  \A s \in Slots : slots[s].address # a
<1> DEFINE hits == {s \in Slots : slots[s].address = a}
<1> SUFFICES hits = {}
  OBVIOUS
<1> SUFFICES ASSUME hits # {} PROVE FALSE
  OBVIOUS
<1>1. GetBreakpointByAddress(a) = LowestOf(hits)
  BY DEF GetBreakpointByAddress
<1>2. hits \subseteq Nat /\ hits \subseteq Slots
  BY SessionAssumption DEF Slots
<1>3. LowestOf(hits) \in Slots
  BY <1>2, LowestOfMember
<1> QED  BY <1>1, <1>3, SessionAssumption DEF Slots, NoSlot

\* A free entry that is found is an entry of the table.
LEMMA EmptyFound ==
  ASSUME GetEmptyBreakpoint # NoSlot
  PROVE  GetEmptyBreakpoint \in Slots
<1> DEFINE free == {s \in Slots : ~slots[s].used}
<1>1. free # {} /\ GetEmptyBreakpoint = LowestOf(free)
  BY DEF GetEmptyBreakpoint
<1>2. free \subseteq Nat
  BY SessionAssumption DEF Slots
<1> QED  BY <1>1, <1>2, LowestOfMember

\* What SetBreakpoint extracts at a list of instructions is a list of bytes.
LEMMA ExtractedType ==
  ASSUME TypeOK, NEW addresses \in Seq(Starts)
  PROVE  /\ Extracted(addresses) \in Seq(Temporary)
         /\ DOMAIN Extracted(addresses) = DOMAIN addresses
         /\ \A i \in DOMAIN addresses :
              /\ Extracted(addresses)[i].address = addresses[i]
              /\ Extracted(addresses)[i].byte \in {"int3", mem[addresses[i]]}
<1> DEFINE n == Len(addresses)
<1>1. n \in Nat /\ DOMAIN addresses = 1 .. n /\ \A i \in 1 .. n : addresses[i] \in Starts
  OBVIOUS
<1>2. \A i \in 1 .. n : mem[addresses[i]] \in Byte
  BY <1>1 DEF TypeOK
<1>3. Extracted(addresses) = [i \in 1 .. n |-> Extracted(addresses)[i]]
  BY <1>1 DEF Extracted
<1>4. \A i \in 1 .. n :
        /\ Extracted(addresses)[i] \in Temporary
        /\ Extracted(addresses)[i].address = addresses[i]
        /\ Extracted(addresses)[i].byte \in {"int3", mem[addresses[i]]}
  BY <1>1, <1>2 DEF Extracted, Temporary, Byte
<1> QED  BY <1>1, <1>3, <1>4

\* Wherever a breakpoint of the table is in the text it extracts 0xCC.
LEMMA ExtractedOK ==
  ASSUME TypeOK, BreakpointsArmed, Alive, stepSlot = NoSlot,
         NEW addresses \in Seq(Starts)
  PROVE  \A i \in DOMAIN Extracted(addresses), s \in Slots :
           slots[s].used /\ slots[s].address = Extracted(addresses)[i].address
             => Extracted(addresses)[i].byte = "int3"
<1>1. ASSUME NEW s \in Slots, slots[s].used  PROVE mem[slots[s].address] = "int3"
  BY <1>1 DEF BreakpointsArmed, SteppingOff
<1> QED  BY <1>1, ExtractedType

\* Planting breakpoints leaves text bytes, and those that are there.
LEMMA ArmedOK ==
  ASSUME TypeOK, NEW addresses
  PROVE  /\ Armed(addresses) \in [Starts -> Byte]
         /\ \A a \in Starts : mem[a] = "int3" => Armed(addresses)[a] = "int3"
BY DEF Armed, TypeOK, Byte

\* Taking the temporaries away leaves every breakpoint of the table.
LEMMA RestoredOK ==
  ASSUME TypeOK, TempsInv
  PROVE  /\ Restored \in [Starts -> Byte]
         /\ \A s \in Slots :
              /\ slots[s].used /\ slots[s].address \in Starts
              /\ mem[slots[s].address] = "int3"
              => Restored[slots[s].address] = "int3"
<1> DEFINE at(a) == {i \in DOMAIN temps : temps[i].address = a}
<1>1. DOMAIN temps = 1 .. Len(temps) /\ Len(temps) \in Nat
  BY DEF TypeOK
<1>2. ASSUME NEW a, at(a) # {}  PROVE LastOf(at(a)) \in at(a)
  BY <1>1, <1>2, LastOfMember
<1>3. ASSUME NEW i \in DOMAIN temps  PROVE temps[i].byte \in Byte
  <2>1. temps \in Seq(Temporary)
    BY DEF TypeOK
  <2>2. temps[i] \in Temporary
    BY <2>1, <1>1
  <2> QED  BY <2>2 DEF Temporary
<1>4. \A a \in Starts : mem[a] \in Byte
  BY DEF TypeOK
<1>5. Restored = [a \in Starts |-> IF at(a) = {} THEN mem[a] ELSE temps[LastOf(at(a))].byte]
  BY DEF Restored
<1>6. ASSUME NEW a \in Starts
      PROVE  (IF at(a) = {} THEN mem[a] ELSE temps[LastOf(at(a))].byte) \in Byte
  BY <1>2, <1>3, <1>4
<1>7. ASSUME NEW s \in Slots, slots[s].used, slots[s].address \in Starts,
             mem[slots[s].address] = "int3"
      PROVE  Restored[slots[s].address] = "int3"
  <2> DEFINE a == slots[s].address
  <2>1. CASE at(a) = {}
    BY <2>1, <1>5, <1>7
  <2>2. CASE at(a) # {}
    <3>1. LastOf(at(a)) \in at(a)
      BY <2>2, <1>2
    <3>2. temps[LastOf(at(a))].byte = "int3"
      BY <3>1, <1>7 DEF TempsInv
    <3> QED  BY <3>2, <2>2, <1>5, <1>7
  <2> QED  BY <2>1, <2>2
<1>8. Restored \in [Starts -> Byte]
  BY <1>5, <1>6
<1> QED  BY <1>7, <1>8

\* Putting the breakpoint back that was stepped off leaves all of them armed.
LEMMA RearmedOK ==
  ASSUME TypeOK, SlotsInv, StepInv, BreakpointsArmed
  PROVE  /\ Rearmed \in [Starts -> Byte]
         /\ Alive => \A s \in Slots : slots[s].used => Rearmed[slots[s].address] = "int3"
<1>1. CASE stepSlot = NoSlot
  BY <1>1 DEF Rearmed, TypeOK, BreakpointsArmed, SteppingOff
<1>2. CASE stepSlot # NoSlot
  <2>1. stepSlot \in Slots /\ slots[stepSlot].address \in Starts
    BY <1>2 DEF TypeOK, StepInv, SlotsInv
  <2>2. Rearmed = [mem EXCEPT ![slots[stepSlot].address] = "int3"]
    BY <1>2 DEF Rearmed
  <2> QED  BY <2>1, <2>2, <1>2 DEF TypeOK, Byte, BreakpointsArmed, SteppingOff, SlotsInv
<1> QED  BY <1>1, <1>2

-----------------------------------------------------------------------------
(* What the steps of the debugger leave behind                             *)

\* A command that sets the debuggee going, with text m in which the table is
\* armed, leaves all of it armed but what it steps off.
LEMMA Going ==
  ASSUME TypeOK, SlotsInv, PCInv,
         NEW m \in [Starts -> Byte],
         Alive => \A s \in Slots : slots[s].used => m[slots[s].address] = "int3",
         SingleStepInstruction(m) \/ (Continue(m) /\ stepSlot = NoSlot),
         UNCHANGED slots
  PROVE  /\ proc' \in {"running", "gone"} /\ (proc' = "running" => Alive)
         /\ event' = "none"
         /\ tf' \in BOOLEAN
         /\ mem' \in [Starts -> Byte]
         /\ ctl' \in {"step", "cont"}
         /\ stepSlot' \in Slots \cup {NoSlot}
         /\ StepInv'
         /\ BreakpointsArmed'
<1> DEFINE s0 == GetBreakpointByAddress(pc)
<1>1. proc' \in {"running", "gone"} /\ (proc' = "running" => Alive) /\ event' = "none"
  BY DEF SingleStepInstruction, Continue, Resume, Alive
<1>2. ASSUME s0 # NoSlot
      PROVE  s0 \in Slots /\ slots[s0].used /\ slots[s0].address = pc /\ pc \in Starts
  BY <1>2, FoundInUse DEF PCInv
<1>3. CASE SingleStepInstruction(m)
  <2>1. stepSlot' = s0 /\ ctl' = "step" /\ tf' = TRUE
    BY <1>3 DEF SingleStepInstruction
  <2>2. mem' = IF s0 # NoSlot /\ Alive THEN [m EXCEPT ![pc] = slots[s0].byte] ELSE m
    BY <1>3 DEF SingleStepInstruction
  <2>3. ASSUME s0 # NoSlot, Alive  PROVE slots[s0].byte \in Byte
    BY <2>3, <1>2 DEF SlotsInv
  <2> HIDE DEF s0
  <2>4. mem' \in [Starts -> Byte]
    BY <2>2, <2>3
  <2>5. StepInv'
    BY <2>1, <1>2 DEF StepInv
  <2>6. ASSUME Alive', NEW s \in Slots, slots[s].used, ~SteppingOff(slots[s].address)'
        PROVE  mem'[slots[s].address] = "int3"
    <3>1. Alive /\ m[slots[s].address] = "int3" /\ slots[s].address \in Starts
      BY <1>1, <2>6 DEF Alive, SlotsInv
    <3>2. s0 = NoSlot \/ slots[s].address # pc
      BY <2>1, <2>6, <1>2 DEF SteppingOff
    <3> QED  BY <3>1, <3>2, <2>2
  <2>7. BreakpointsArmed'
    BY <2>6 DEF BreakpointsArmed
  <2> QED  BY <1>1, <1>2, <2>1, <2>4, <2>5, <2>7
<1>4. CASE Continue(m) /\ stepSlot = NoSlot /\ ~SingleStepInstruction(m)
  <2>1. mem' = m /\ ctl' = "cont" /\ tf' = tf /\ stepSlot' = NoSlot
    BY <1>4 DEF Continue
  <2>2. Alive' => Alive
    BY <1>1 DEF Alive
  <2> QED  BY <1>1, <2>1, <2>2 DEF TypeOK, StepInv, BreakpointsArmed
<1> QED  BY <1>3, <1>4

-----------------------------------------------------------------------------
(* The inductive invariant                                                 *)

\* The session starts in it.
LEMMA InitOK == Init => IInv
<1> SUFFICES ASSUME Init  PROVE IInv
  OBVIOUS
<1> USE DEF Init, ProgramInit
<1>1. Entry \in Starts /\ Entry \in Address /\ Entry # 0 /\ MaxDepth \in Nat
  BY DebuggeeAssumption DEF Address
<1>2. ProgramTypeOK
  BY <1>1, DebuggeeAssumption DEF ProgramTypeOK, Address
<1>3. mem \in [Starts -> Byte] /\ temps \in Seq(Temporary)
  BY DEF Byte
<1>4. slots \in [Slots -> Breakpoint]
  BY DebuggeeAssumption DEF Breakpoint, Address
<1>5. TypeOK
  <2>1. proc \in {"running", "stopped", "exited", "gone"} /\ event \in Event
    BY DEF Event
  <2>2. boot \in BOOLEAN /\ tf \in BOOLEAN /\ moved \in BOOLEAN
    OBVIOUS
  <2>3. /\ ctl \in {"startup", "prompt", "step", "cont", "failed", "full", "done"}
        /\ cmd \in RunCommand \cup {"none"}
    OBVIOUS
  <2>4. stepSlot \in Slots \cup {NoSlot} /\ line0 \in Nat /\ depth0 \in 0 .. MaxDepth
    BY <1>1 DEF NoLine
  <2> QED  BY <1>2, <1>3, <1>4, <2>1, <2>2, <2>3, <2>4 DEF TypeOK
<1>6. PortInv /\ PCInv /\ StartupInv
  BY <1>1 DEF PortInv, PCInv, StartupInv
<1>7. SlotsInv /\ TempsInv /\ StepInv /\ BreakpointsArmed
  BY DEF SlotsInv, TempsInv, StepInv, BreakpointsArmed
<1> QED  BY <1>5, <1>6, <1>7 DEF IInv

\* An action that changes nothing the debugger holds and no text only has the
\* port and the program to answer for.
LEMMA Frame ==
  ASSUME IInv, UNCHANGED <<mem, debuggerVars>>, Alive' => Alive,
         ctl \in {"startup", "step", "cont"}, event' # "loader", boot' => boot,
         boot' => event' \in {"none", "create", "other"}
  PROVE  /\ StartupInv' /\ SlotsInv' /\ TempsInv' /\ StepInv' /\ BreakpointsArmed'
         /\ mem' \in [Starts -> Byte]
         /\ ctl' \in {"startup", "prompt", "step", "cont", "failed", "full", "done"}
         /\ cmd' \in RunCommand \cup {"none"}
         /\ slots' \in [Slots -> Breakpoint]
         /\ temps' \in Seq(Temporary)
         /\ stepSlot' \in Slots \cup {NoSlot}
         /\ line0' \in Nat
BY DEF IInv, TypeOK, debuggerVars, StartupInv, SlotsInv, TempsInv, StepInv,
       BreakpointsArmed, SteppingOff

\* Events that are only printed and continued.
LEMMA SwallowStep ==
  ASSUME IInv, StartupOther \/ StepSwallow \/ ContinueOther
  PROVE  IInv'
<1> USE DEF IInv
<1>1. /\ Resume
      /\ UNCHANGED <<programVars, boot, mem, tf, debuggerVars, history>>
      /\ ctl \in {"startup", "step", "cont"} /\ Delivered
  BY DEF StartupOther, StepSwallow, ContinueOther
<1>2. proc' \in {"running", "gone"} /\ event' = "none" /\ (Alive' => Alive)
  BY <1>1 DEF Resume, Alive
<1>3. /\ StartupInv' /\ SlotsInv' /\ TempsInv' /\ StepInv' /\ BreakpointsArmed'
      /\ TypeOK'
  BY <1>1, <1>2, Frame DEF TypeOK, ProgramTypeOK, programVars, history, Event
<1>4. PortInv'
  BY <1>1, <1>2 DEF PortInv, debuggerVars
<1>5. PCInv'
  BY <1>1, <1>2 DEF PCInv, programVars
<1> QED  BY <1>3, <1>4, <1>5

\* What executing an instruction does to the program.
LEMMA ExecuteOK ==
  ASSUME ProgramTypeOK, \A i \in 1 .. depth : stack[i] \in Starts, Execute
  PROVE  /\ ProgramTypeOK'
         /\ pc' \in Starts
         /\ \A i \in 1 .. depth' : stack'[i] \in Starts
<1>1. /\ pc \in Starts /\ Starts \subseteq Address /\ MaxDepth \in Nat
      /\ Instr[pc].next \subseteq Starts
      /\ Instr[pc].op = "call" => Instr[pc].ret \in Starts
  BY DebuggeeAssumption DEF Execute, Instruction
<1>2. CASE Flow
  BY <1>1, <1>2 DEF Flow, ProgramTypeOK
<1>3. CASE Call
  BY <1>1, <1>3 DEF Call, ProgramTypeOK
<1>4. CASE Return
  BY <1>1, <1>4 DEF Return, ProgramTypeOK
<1> QED  BY <1>2, <1>3, <1>4 DEF Execute

\* The debuggee and the debug port.
LEMMA TargetStep ==
  ASSUME IInv, Target
  PROVE  IInv'
<1> USE DEF IInv
<1> DEFINE Rest == /\ StartupInv' /\ SlotsInv' /\ TempsInv' /\ StepInv' /\ BreakpointsArmed'
                   /\ TypeOK'
<1>1. /\ proc = "running" /\ event = "none" /\ UNCHANGED <<mem, debuggerVars>>
      /\ boot' => boot
      /\ ctl \in {"startup", "step", "cont"}
  BY DEF Target, TargetLoaderBreak, TargetTrap, TargetExecute, TargetDerailed, TargetExit,
         TargetNotify, TargetForeignTrap, PortInv, TypeOK
<1>2. Alive /\ (ctl' = ctl) /\ (temps' = temps)
  BY <1>1 DEF Alive, debuggerVars
<1>3. Starts \subseteq Address /\ \A a \in Starts : a # 0 /\ a + 1 \in Address /\ a + 1 - 1 = a
  BY DebuggeeAssumption DEF Address
<1> USE DEF Event
<1>4. CASE TargetLoaderBreak
  <2> USE <1>4 DEF TargetLoaderBreak, Stop
  <2>1. TypeOK'
    BY DEF TypeOK, ProgramTypeOK, programVars, debuggerVars, history
  <2>2. StartupInv' /\ StepInv' /\ TempsInv'
    BY DEF StartupInv, StepInv, TempsInv, debuggerVars
  <2>3. SlotsInv' /\ BreakpointsArmed'
    BY <1>2 DEF SlotsInv, BreakpointsArmed, SteppingOff, debuggerVars
  <2>4. PortInv' /\ PCInv'
    BY <1>1, <1>2 DEF PortInv, PCInv, programVars
  <2> QED  BY <2>1, <2>2, <2>3, <2>4
<1>5. CASE TargetTrap
  <2> USE <1>5 DEF TargetTrap, Stop
  <2>1. Rest
    BY <1>1, <1>2, <1>3, Frame DEF TypeOK, ProgramTypeOK, debuggerVars, history
  <2>2. PortInv' /\ PCInv'
    BY <1>1, <1>2, <1>3 DEF PortInv, PCInv, Address
  <2> QED  BY <2>1, <2>2
<1>6. CASE TargetExecute \/ TargetDerailed
  <2>1. /\ ProgramTypeOK' /\ pc' \in Starts
        /\ \A i \in 1 .. depth' : stack'[i] \in Starts
        /\ UNCHANGED depth0
    BY <1>3, <1>6, ExecuteOK DEF TargetExecute, TargetDerailed, TypeOK, ProgramTypeOK, PCInv
  <2>2. /\ ~boot' /\ ~tf' /\ moved'
        /\ \/ proc' = "stopped" /\ event' = "ss"
           \/ proc' = "running" /\ event' = "none"
    BY <1>1, <1>6 DEF TargetExecute, TargetDerailed, Completed, Stop
  <2>3. boot' \in BOOLEAN /\ tf' \in BOOLEAN /\ moved' \in BOOLEAN
    BY <1>6 DEF TargetExecute, TargetDerailed, Completed, TypeOK
  <2>4. Rest
    BY <1>1, <1>2, <2>1, <2>2, <2>3, Frame DEF TypeOK, debuggerVars
  <2>5. PortInv' /\ PCInv'
    BY <1>1, <1>2, <1>3, <2>1, <2>2 DEF PortInv, PCInv
  <2> QED  BY <2>4, <2>5
<1>7. CASE TargetExit
  <2> USE <1>7 DEF TargetExit
  <2>1. Rest
    BY <1>1, <1>2, Frame DEF TypeOK, ProgramTypeOK, programVars, debuggerVars, history
  <2>2. PortInv' /\ PCInv'
    BY <1>1, <1>2 DEF PortInv, PCInv, programVars
  <2> QED  BY <2>1, <2>2
<1>8. CASE TargetNotify
  <2> USE <1>8 DEF TargetNotify, Stop
  <2>1. Rest
    BY <1>1, <1>2, Frame DEF TypeOK, ProgramTypeOK, programVars, debuggerVars, history
  <2>2. PortInv' /\ PCInv'
    BY <1>1, <1>2 DEF PortInv, PCInv, programVars
  <2> QED  BY <2>1, <2>2
<1>9. CASE TargetForeignTrap
  <2> USE <1>9 DEF TargetForeignTrap, Stop
  <2>1. ~boot
    BY DEF StartupInv
  <2>2. Rest
    BY <1>1, <1>2, <2>1, Frame DEF TypeOK, ProgramTypeOK, programVars, debuggerVars, history
  <2>3. PortInv' /\ PCInv'
    BY <1>1, <1>2 DEF PortInv, PCInv, programVars
  <2> QED  BY <2>2, <2>3
<1> QED  BY <1>4, <1>5, <1>6, <1>7, <1>8, <1>9 DEF Target

\* ProcStartup: until it ends the table is empty.
LEMMA StartupStep ==
  ASSUME IInv, StartupPlant \/ StartupDone \/ StartupExit
  PROVE  IInv'
<1> USE DEF IInv
<1>1. ctl = "startup" /\ (\A s \in Slots : ~slots[s].used) /\ stepSlot = NoSlot
  BY DEF StartupPlant, StartupDone, StartupExit, StartupInv, StepInv
<1>2. slots' = slots /\ stepSlot' = stepSlot
  BY DEF StartupPlant, StartupDone, StartupExit
<1>3. StepInv' /\ BreakpointsArmed'
  BY <1>1, <1>2 DEF StepInv, BreakpointsArmed
<1>4. SlotsInv'
  BY <1>1, <1>2 DEF SlotsInv
<1>5. (\A i \in DOMAIN temps', s \in Slots :
         slots'[s].used /\ slots'[s].address = temps'[i].address
           => temps'[i].byte = "int3")
  BY <1>1, <1>2
<1>6. CASE StartupPlant
  <2> USE <1>6 DEF StartupPlant
  <2>1. ~boot /\ event' = "none" /\ proc' \in {"running", "gone"} /\ ctl' = "startup"
    BY DEF StartupInv, Resume, IsBreakpoint
  <2>2. Entry \in Starts /\ <<Entry>> \in Seq(Starts)
    BY DebuggeeAssumption
  <2>3. temps' \in Seq(Temporary)
    BY <2>2, ExtractedType
  <2>4. mem' \in [Starts -> Byte]
    BY ArmedOK
  <2>5. TypeOK'
    BY <2>1, <2>3, <2>4 DEF TypeOK, ProgramTypeOK, programVars, history, Event
  <2>6. PortInv' /\ PCInv' /\ StartupInv' /\ TempsInv'
    BY <2>1, <1>1, <1>2, <1>5 DEF PortInv, PCInv, StartupInv, TempsInv, programVars
  <2> QED  BY <1>3, <1>4, <2>5, <2>6
<1>7. CASE StartupDone
  <2> USE <1>7 DEF StartupDone
  <2>1. ~boot /\ event = "bp" /\ pc' \in Starts
    BY DEF StartupInv, PCInv, PCBeforeInt3, IsBreakpoint
  <2>2. pc' # 0 /\ pc' \in Address
    BY <2>1, DebuggeeAssumption
  <2>3. mem' \in [Starts -> Byte]
    BY RestoredOK
  <2>4. temps' \in Seq(Temporary)
    OBVIOUS
  <2>5. TypeOK'
    BY <2>2, <2>3, <2>4 DEF TypeOK, ProgramTypeOK, history, Event
  <2>6. PortInv' /\ PCInv' /\ StartupInv' /\ TempsInv'
    BY <2>1, <2>2, <1>5 DEF PortInv, PCInv, StartupInv, TempsInv, Delivered
  <2> QED  BY <1>3, <1>4, <2>5, <2>6
<1>8. CASE StartupExit
  <2> USE <1>8 DEF StartupExit
  <2>1. ~boot
    BY DEF StartupInv
  <2>2. temps' \in Seq(Temporary)
    OBVIOUS
  <2>3. TypeOK'
    BY <2>2 DEF TypeOK, ProgramTypeOK, programVars, history, Event
  <2>4. PortInv' /\ PCInv' /\ StartupInv' /\ TempsInv'
    BY <2>1, <1>5 DEF PortInv, PCInv, StartupInv, TempsInv, Delivered, programVars
  <2> QED  BY <1>3, <1>4, <2>3, <2>4
<1> QED  BY <1>6, <1>7, <1>8

\* ContinueProcess coming back.
LEMMA ContinueStep ==
  ASSUME IInv, ContinueStopped \/ ContinueExited
  PROVE  IInv'
<1> USE DEF IInv
<1>1. /\ ctl = "cont" /\ ctl' \in {"prompt", "failed"} /\ temps' = <<>> /\ event' = "none"
      /\ UNCHANGED <<proc, boot, slots, stepSlot, depth, stack>>
      /\ Delivered
  BY DEF ContinueStopped, ContinueExited, ReportAt, programVars
<1>2. stepSlot = NoSlot /\ ~boot /\ event # "loader"
  BY <1>1 DEF StepInv, StartupInv
<1>3. StepInv' /\ SlotsInv' /\ TempsInv' /\ StartupInv' /\ PortInv'
  BY <1>1, <1>2 DEF StepInv, SlotsInv, Alive, TempsInv, StartupInv, PortInv, Delivered
<1>4. pc' \in Address /\ pc' # 0
  <2>1. CASE ContinueExited
    BY <2>1 DEF ContinueExited, programVars, PCInv, TypeOK, ProgramTypeOK
  <2>2. CASE ContinueStopped
    <3>1. pc' = pc - 1 /\ event \in {"bp", "foreign"}
      BY <2>2, <1>2 DEF ContinueStopped, PCBeforeInt3, IsBreakpoint
    <3>2. event = "bp" => pc - 1 # 0
      BY DebuggeeAssumption DEF PCInv
    <3>3. pc \in 0 .. MaxAddress /\ MaxAddress \in Nat
      BY DebuggeeAssumption DEF TypeOK, ProgramTypeOK, Address
    <3> QED  BY <3>1, <3>2, <3>3 DEF PCInv, Address
  <2> QED  BY <2>1, <2>2
<1>5. PCInv'
  BY <1>1, <1>4 DEF PCInv
<1>6. mem' \in [Starts -> Byte] /\ BreakpointsArmed'
  <2>1. CASE ContinueExited
    BY <2>1, <1>1 DEF ContinueExited, TypeOK, BreakpointsArmed, Alive, SteppingOff
  <2>2. CASE ContinueStopped
    <3>1. mem' = Restored
      BY <2>2 DEF ContinueStopped
    <3>2. Alive' => \A s \in Slots : slots[s].used => Restored[slots[s].address] = "int3"
      BY <1>1, <1>2, RestoredOK DEF BreakpointsArmed, SteppingOff, Alive, SlotsInv
    <3> QED  BY <1>1, <3>1, <3>2, RestoredOK DEF BreakpointsArmed
  <2> QED  BY <2>1, <2>2
<1>7. temps' \in Seq(Temporary)
  BY <1>1
<1>8. UNCHANGED <<tf, cmd, line0, depth0, moved>>
  BY DEF ContinueStopped, ContinueExited, history
<1>9. TypeOK'
  BY <1>1, <1>4, <1>6, <1>7, <1>8 DEF TypeOK, ProgramTypeOK, Event
<1> QED  BY <1>3, <1>5, <1>6, <1>9

\* SingleStep coming back.
LEMMA StepDoneStep ==
  ASSUME IInv, StepDone
  PROVE  IInv'
<1> USE DEF IInv
<1>1. /\ ctl = "step" /\ event = "ss" /\ Delivered
      /\ UNCHANGED <<programVars, boot, cmd, slots, temps, line0, history>>
  BY DEF StepDone
<1>2. ~boot
  BY <1>1 DEF StartupInv
<1>3. /\ Rearmed \in [Starts -> Byte]
      /\ Alive => \A s \in Slots : slots[s].used => Rearmed[slots[s].address] = "int3"
  BY RearmedOK
<1>4. /\ proc' \in {"running", "stopped", "exited", "gone"} /\ event' = "none"
      /\ (Alive' => Alive)
      /\ ctl' \in {"prompt", "failed", "cont", "step"}
      /\ (ctl' \in {"prompt", "failed"} => proc' # "running" /\ cmd \in {"stepi", "in"})
      /\ mem' \in [Starts -> Byte] /\ tf' \in BOOLEAN
      /\ stepSlot' \in Slots \cup {NoSlot}
      /\ StepInv' /\ BreakpointsArmed'
  <2>1. CASE SingleStepInstruction(Rearmed)
    <3>1. UNCHANGED slots
      BY <1>1
    <3>2. proc' = "running" => Alive
      BY <2>1, <3>1, <1>3, Going
    <3> QED  BY <2>1, <3>1, <3>2, <1>3, Going DEF Alive
  <2>2. CASE /\ mem' = Rearmed /\ stepSlot' = NoSlot /\ tf' = tf
             /\ \/ event' = "none" /\ ReportAt(pc) /\ UNCHANGED proc /\ cmd \in {"stepi", "in"}
                \/ ctl' = "cont" /\ Resume
    <3>1. /\ proc' \in {"running", "stopped", "exited", "gone"} /\ event' = "none"
          /\ (Alive' => Alive)
          /\ ctl' \in {"prompt", "failed", "cont"}
          /\ (ctl' \in {"prompt", "failed"} => proc' # "running" /\ cmd \in {"stepi", "in"})
      BY <2>2, <1>1 DEF ReportAt, Resume, Alive, Delivered
    <3>2. BreakpointsArmed' /\ StepInv'
      BY <2>2, <3>1, <1>1, <1>3 DEF BreakpointsArmed, StepInv
    <3> QED  BY <2>2, <3>1, <3>2, <1>3 DEF TypeOK
  <2> QED  BY <2>1, <2>2 DEF StepDone
<1>5. TypeOK'
  BY <1>1, <1>4 DEF TypeOK, ProgramTypeOK, programVars, history, Event
<1>6. PortInv' /\ PCInv' /\ StartupInv'
  BY <1>1, <1>2, <1>4 DEF PortInv, PCInv, StartupInv, programVars
<1>7. SlotsInv' /\ TempsInv'
  BY <1>1, <1>4 DEF SlotsInv, TempsInv
<1> QED  BY <1>4, <1>5, <1>6, <1>7

\* A command that sets the debuggee going with temporaries at some addresses.
LEMMA GoingStep ==
  ASSUME IInv, NEW addresses \in Seq(Starts), NEW c \in RunCommand,
         Prompt(c), Alive,
         SingleStepInstruction(Armed(addresses)) \/ Continue(Armed(addresses)),
         temps' = Extracted(addresses),
         addresses = <<>> \/ c \notin {"stepi", "in"},
         line0' \in Nat,
         UNCHANGED <<programVars, boot, slots>>
  PROVE  IInv'
<1> USE DEF IInv
<1>1. ctl = "prompt" /\ stepSlot = NoSlot /\ ~boot
  BY DEF Prompt, StepInv, StartupInv
<1>2. Alive => \A s \in Slots : slots[s].used => Armed(addresses)[slots[s].address] = "int3"
  BY <1>1, ArmedOK DEF BreakpointsArmed, SteppingOff, SlotsInv
<1>3. /\ proc' \in {"running", "gone"} /\ (proc' = "running" => Alive)
      /\ event' = "none"
      /\ tf' \in BOOLEAN
      /\ mem' \in [Starts -> Byte]
      /\ ctl' \in {"step", "cont"}
      /\ stepSlot' \in Slots \cup {NoSlot}
      /\ StepInv'
      /\ BreakpointsArmed'
  BY <1>1, <1>2, ArmedOK, Going
<1>4. TempsInv'
  <2>1. c \in {"stepi", "in"} => temps' = <<>>
    BY DEF Extracted
  <2>2. cmd' = c
    BY DEF Prompt
  <2>3. \A i \in DOMAIN temps', s \in Slots :
          slots[s].used /\ slots[s].address = temps'[i].address => temps'[i].byte = "int3"
    BY <1>1, ExtractedOK
  <2> QED  BY <1>3, <2>1, <2>2, <2>3 DEF TempsInv
<1>5. TypeOK'
  <2>1. cmd' = c /\ depth0' = depth /\ moved' = FALSE
    BY DEF Prompt
  <2>2. temps' \in Seq(Temporary)
    BY ExtractedType
  <2> QED  BY <1>3, <2>1, <2>2 DEF TypeOK, ProgramTypeOK, programVars, Event
<1>6. PortInv' /\ PCInv' /\ StartupInv'
  BY <1>1, <1>3 DEF PortInv, PCInv, StartupInv, programVars
<1>7. SlotsInv'
  BY <1>3 DEF SlotsInv
<1> QED  BY <1>3, <1>4, <1>5, <1>6, <1>7

\* A lookup fails its assertion before the debuggee is touched.
LEMMA FailedStep ==
  ASSUME IInv, NEW c \in RunCommand, Prompt(c), ctl' = "failed", line0' \in Nat,
         UNCHANGED <<programVars, proc, event, boot, mem, tf, slots, temps, stepSlot>>
  PROVE  IInv'
<1> USE DEF IInv, Prompt
<1>1. TypeOK'
  BY DEF TypeOK, ProgramTypeOK, programVars
<1>2. PortInv' /\ PCInv' /\ StartupInv' /\ StepInv'
  BY DEF PortInv, PCInv, StartupInv, StepInv, programVars
<1>3. SlotsInv' /\ TempsInv' /\ BreakpointsArmed'
  BY DEF SlotsInv, TempsInv, BreakpointsArmed, Alive, SteppingOff
<1> QED  BY <1>1, <1>2, <1>3

\* The commands that run the debuggee.
LEMMA RunStep ==
  ASSUME IInv, \/ CommandContinue \/ CommandStepInstruction \/ CommandStepIn
               \/ CommandStepOut \/ CommandStepOver
  PROVE  IInv'
<1> USE DEF RunCommand
<1>1. /\ Armed(<<>>) = mem /\ Extracted(<<>>) = <<>> /\ <<>> \in Seq(Starts)
  BY DEF Armed, Extracted, IInv, TypeOK
<1>2. temps = <<>> \/ ctl # "prompt"
  BY DEF IInv, TempsInv
<1>3. line0 \in Nat /\ pc \in Address /\ SrcPos[pc].line \in Nat /\ Walk[pc] \in Seq(Starts)
  BY SessionAssumption DEF IInv, TypeOK, ProgramTypeOK
<1>4. CASE CommandContinue
  BY <1>1, <1>2, <1>3, <1>4, GoingStep DEF CommandContinue, Prompt
<1>5. CASE CommandStepInstruction
  BY <1>1, <1>2, <1>3, <1>5, GoingStep DEF CommandStepInstruction, Prompt
<1>6. CASE CommandStepIn
  <2>1. CASE ctl' = "failed"
    BY <1>3, <1>6, <2>1, FailedStep DEF CommandStepIn, SingleStepInstruction
  <2>2. CASE ctl' # "failed"
    BY <1>1, <1>2, <1>3, <1>6, <2>2, GoingStep DEF CommandStepIn, Prompt
  <2> QED  BY <2>1, <2>2
<1>7. CASE CommandStepOut
  <2>1. CASE ctl' = "failed"
    BY <1>3, <1>7, <2>1, FailedStep DEF CommandStepOut, SingleStepInstruction, Continue
  <2>2. CASE ctl' # "failed"
    <3>1. PICK r : temps' = Extracted(Mapped(r)) /\ Continue(Armed(Mapped(r)))
      BY <1>7, <2>2 DEF CommandStepOut
    <3>2. Mapped(r) \in Seq(Starts)
      BY DEF Mapped
    <3> QED  BY <1>3, <1>7, <3>1, <3>2, GoingStep DEF CommandStepOut
  <2> QED  BY <2>1, <2>2
<1>8. CASE CommandStepOver
  <2>1. CASE ctl' = "failed"
    BY <1>3, <1>8, <2>1, FailedStep DEF CommandStepOver, SingleStepInstruction, Continue
  <2>2. CASE ctl' # "failed"
    <3>1. StepOverAddresses \in Seq(Starts)
      BY <1>3 DEF StepOverAddresses
    <3> QED  BY <1>3, <1>8, <2>2, <3>1, GoingStep DEF CommandStepOver
  <2> QED  BY <2>1, <2>2
<1> QED  BY <1>4, <1>5, <1>6, <1>7, <1>8

\* `breakpoint set', `register set rip', `exit', and every command once there
\* is no process.
LEMMA OtherCommandStep ==
  ASSUME IInv, CommandSetBreakpoint \/ CommandSetPC \/ CommandOnDead \/ CommandExit
  PROVE  IInv'
<1> USE DEF IInv
<1>1. /\ ctl = "prompt" /\ ~boot /\ stepSlot = NoSlot /\ temps = <<>>
      /\ proc # "running" /\ event = "none"
  BY DEF CommandSetBreakpoint, CommandSetPC, CommandOnDead, CommandExit, Prompt,
         StartupInv, StepInv, TempsInv, PortInv
<1>2. CASE CommandSetBreakpoint
  <2> DEFINE s0 == GetEmptyBreakpoint
  <2>1. UNCHANGED <<programVars, proc, event, boot, tf, cmd, temps, stepSlot, line0, history>>
    BY <1>2 DEF CommandSetBreakpoint
  <2>2. /\ ctl' \in {"prompt", "full"} /\ mem' \in [Starts -> Byte]
        /\ slots' \in [Slots -> Breakpoint]
        /\ SlotsInv' /\ BreakpointsArmed'
    <3>1. CASE s0 = NoSlot
      BY <1>1, <1>2, <2>1, <3>1
         DEF CommandSetBreakpoint, TypeOK, SlotsInv, BreakpointsArmed, Alive, SteppingOff
    <3>2. CASE s0 # NoSlot
      <4>1. PICK a \in Sites :
              /\ slots' = [slots EXCEPT ![s0] = Filled(s0, a)]
              /\ mem' = IF Alive THEN [mem EXCEPT ![a] = "int3"] ELSE mem
        BY <1>2, <3>2 DEF CommandSetBreakpoint
      <4>2. s0 \in Slots /\ a \in Starts /\ a \in Address
        BY <3>2, EmptyFound, SessionAssumption, DebuggeeAssumption
      <4>3. ctl' = "prompt"
        BY <1>1, <1>2, <3>2 DEF CommandSetBreakpoint
      <4> HIDE DEF s0
      <4>4. mem[a] \in Byte /\ slots[s0].byte \in Byte \cup {"unread"}
        BY <4>2 DEF TypeOK, Breakpoint
      <4>5. slots' \in [Slots -> Breakpoint] /\ mem' \in [Starts -> Byte]
        BY <4>1, <4>2, <4>4 DEF TypeOK, Breakpoint, Byte, Filled
      <4>6. /\ slots'[s0].used /\ slots'[s0].address = a /\ (Alive => slots'[s0].byte \in Byte)
            /\ \A s \in Slots : s # s0 => slots'[s] = slots[s]
        BY <4>1, <4>2, <4>4 DEF TypeOK, Filled
      <4>7. Alive' = Alive
        BY <2>1 DEF Alive
      <4>8. SlotsInv'
        BY <4>2, <4>6, <4>7 DEF SlotsInv
      <4>9. ASSUME Alive, NEW s \in Slots, slots'[s].used
            PROVE  mem'[slots'[s].address] = "int3"
        <5>1. mem' = [mem EXCEPT ![a] = "int3"] /\ mem \in [Starts -> Byte]
          BY <4>1, <4>9 DEF TypeOK
        <5>2. CASE s = s0
          BY <4>2, <4>6, <5>1, <5>2
        <5>3. CASE s # s0
          BY <1>1, <4>2, <4>6, <4>9, <5>1, <5>3 DEF BreakpointsArmed, SteppingOff, SlotsInv
        <5> QED  BY <5>2, <5>3
      <4> QED  BY <4>3, <4>5, <4>7, <4>8, <4>9 DEF BreakpointsArmed
    <3> QED  BY <3>1, <3>2
  <2>3. TypeOK'
    BY <2>1, <2>2 DEF TypeOK, ProgramTypeOK, programVars, history
  <2>4. PortInv' /\ PCInv' /\ StartupInv' /\ StepInv' /\ TempsInv'
    BY <1>1, <2>1, <2>2 DEF PortInv, PCInv, StartupInv, StepInv, TempsInv, programVars
  <2> QED  BY <2>2, <2>3, <2>4
<1>3. CASE CommandSetPC
  <2>1. UNCHANGED <<depth, stack, targetVars, debuggerVars, history>>
    BY <1>3 DEF CommandSetPC
  <2>2. pc' \in Address /\ pc' # 0
    BY <1>3, SessionAssumption, DebuggeeAssumption DEF CommandSetPC
  <2>3. TypeOK'
    BY <2>1, <2>2 DEF TypeOK, ProgramTypeOK, targetVars, debuggerVars, history
  <2>4. PortInv' /\ PCInv' /\ StartupInv' /\ StepInv' /\ TempsInv'
    BY <1>1, <2>1, <2>2
       DEF PortInv, PCInv, StartupInv, StepInv, TempsInv, targetVars, debuggerVars
  <2>5. SlotsInv' /\ BreakpointsArmed'
    BY <2>1 DEF SlotsInv, BreakpointsArmed, Alive, SteppingOff, targetVars, debuggerVars
  <2> QED  BY <2>3, <2>4, <2>5
<1>4. CASE CommandOnDead
  <2>1. /\ ~Alive /\ cmd' \in RunCommand /\ depth0' = depth /\ moved' = FALSE
        /\ ctl' \in {"cont", "step", "failed"}
        /\ event' = "none"
        /\ proc' = "gone" \/ (proc' = proc /\ proc # "running")
        /\ UNCHANGED <<programVars, boot, mem, tf, slots, temps, stepSlot, line0>>
    BY <1>1, <1>4 DEF CommandOnDead, Prompt, Resume, Alive
  <2>2. ~Alive'
    BY <2>1 DEF Alive
  <2>3. TypeOK'
    BY <2>1 DEF TypeOK, ProgramTypeOK, programVars, Event
  <2>4. PortInv' /\ PCInv' /\ StartupInv' /\ StepInv' /\ TempsInv'
    BY <1>1, <2>1 DEF PortInv, PCInv, StartupInv, StepInv, TempsInv, programVars
  <2>5. SlotsInv' /\ BreakpointsArmed'
    BY <2>1, <2>2 DEF SlotsInv, BreakpointsArmed
  <2> QED  BY <2>3, <2>4, <2>5
<1>5. CASE CommandExit
  <2> USE <1>5 DEF CommandExit
  <2>1. TypeOK'
    BY DEF TypeOK, ProgramTypeOK, programVars, targetVars, history
  <2>2. PortInv' /\ PCInv' /\ StartupInv' /\ StepInv' /\ TempsInv'
    BY <1>1 DEF PortInv, PCInv, StartupInv, StepInv, TempsInv, programVars, targetVars
  <2>3. SlotsInv' /\ BreakpointsArmed'
    BY DEF SlotsInv, BreakpointsArmed, Alive, SteppingOff, targetVars
  <2> QED  BY <2>1, <2>2, <2>3
<1> QED  BY <1>2, <1>3, <1>4, <1>5

-----------------------------------------------------------------------------
(* The theorems                                                            *)

\* Every step of the debugger, of the debuggee or of neither keeps the
\* inductive invariant.
THEOREM Inductive == IInv /\ [Next]_vars => IInv'
<1> SUFFICES ASSUME IInv, [Next]_vars  PROVE IInv'
  OBVIOUS
<1>1. CASE Command
  BY <1>1, RunStep, OtherCommandStep DEF Command
<1>2. CASE Handler
  BY <1>2, StartupStep, SwallowStep, StepDoneStep, ContinueStep DEF Handler
<1>3. CASE Target
  BY <1>3, TargetStep
<1>4. CASE UNCHANGED vars
  BY <1>4 DEF vars, programVars, targetVars, debuggerVars, history, IInv, TypeOK, ProgramTypeOK,
       PortInv, PCInv, StartupInv, SlotsInv, TempsInv, StepInv, BreakpointsArmed, Alive,
       SteppingOff
<1> QED  BY <1>1, <1>2, <1>3, <1>4 DEF Next

\* All of it holds of every behaviour, whatever the program, the size of the
\* table and the disturbances.
THEOREM Invariance == Spec => []IInv
BY InitOK, Inductive, PTL DEF Spec

\* Every variable keeps its type: in particular each entry of the table that
\* is in use while there is a process holds a byte that was really read.
THEOREM TypeCorrect == Spec => []TypeOK
<1>1. IInv => TypeOK
  BY DEF IInv
<1> QED  BY <1>1, Invariance, PTL

\* Whatever commands are given, whatever other threads do and wherever the
\* user moves rip, the breakpoints of the table stay in the text while there
\* is a process, save the one that is being stepped off (Debugger.h:301-420).
THEOREM StaysArmed == Spec => []BreakpointsArmed
<1>1. IInv => BreakpointsArmed
  BY DEF IInv
<1> QED  BY <1>1, Invariance, PTL

\* One step of the system does not run over a breakpoint of the table.
LEMMA HonouredStep ==
  ASSUME IInv, Next, proc = "running", ProgramCounter' # ProgramCounter, UserAt(pc)
  PROVE  SteppingOff(pc)
<1> USE DEF IInv
<1>1. event = "none" /\ ctl \in {"startup", "step", "cont"}
  BY DEF PortInv, TypeOK
<1>2. pc \in Starts
  BY DEF UserAt, SlotsInv
<1>3. ~Command /\ ~Handler
  BY <1>1 DEF Command, CommandContinue, CommandStepInstruction, CommandStepIn, CommandStepOut,
       CommandStepOver, CommandSetBreakpoint, CommandSetPC, CommandOnDead, CommandExit, Prompt,
       Handler, StartupPlant, StartupDone, StartupExit, StartupOther, StepDone, StepSwallow,
       ContinueStopped, ContinueExited, ContinueOther, Delivered
<1>4. TargetExecute
  <2>1. pc' # pc \/ event' = "bp"
    BY <1>1 DEF ProgramCounter
  <2>2. ~TargetTrap
    <3> SUFFICES ASSUME TargetTrap  PROVE FALSE
      OBVIOUS
    <3>1. pc' = pc + 1 /\ event' = "bp"
      BY DEF TargetTrap, Stop
    <3>2. ProgramCounter' = pc' - 1 /\ ProgramCounter = pc
      BY <3>1, <1>1 DEF ProgramCounter
    <3>3. pc \in Nat
      BY <1>2, DebuggeeAssumption DEF Address
    <3> QED  BY <3>1, <3>2, <3>3
  <2> QED  BY <1>2, <1>3, <2>1, <2>2
           DEF Next, Target, TargetLoaderBreak, TargetDerailed, TargetExit, TargetNotify,
               TargetForeignTrap, Stop, programVars
<1>5. mem[pc] = "orig"
  BY <1>4 DEF TargetExecute
<1>6. Alive
  BY DEF Alive
<1> QED  BY <1>5, <1>6 DEF BreakpointsArmed, UserAt

\* The debuggee never executes the instruction at a breakpoint of the table
\* unless the debugger is stepping off it, whatever else happens: no command
\* runs over a breakpoint unnoticed (Debugger.h:301-330).
THEOREM Honoured == Spec => BreakpointsHonoured
<1>1. IInv /\ [Next]_vars =>
        [proc = "running" /\ ProgramCounter' # ProgramCounter /\ UserAt(pc)
           => SteppingOff(pc)]_vars
  BY HonouredStep
<1> QED  BY <1>1, Invariance, PTL DEF Spec, BreakpointsHonoured

-----------------------------------------------------------------------------
(* Programs without recursion: lemmas on the ranking and on the table      *)

\* The ranking chosen is one.
LEMMA LevelOK ==
  ASSUME NoRecursion
  PROVE  Level \in [Starts -> Nat] /\ CallsRanked(Level) /\ WalksRanked(Level)
BY DEF NoRecursion, Level, Rankings

\* The ranking chosen is one of them.
LEMMA LevelRanks ==
  ASSUME NoRecursion
  PROVE  Level \in Rankings
BY DEF NoRecursion, Level

\* No entry before the first of a set of them is in it.
LEMMA LowestOfLeast ==
  ASSUME NEW S, S \subseteq Nat, S # {}
  PROVE  LowestOf(S) \in S /\ \A r \in S : LowestOf(S) <= r
BY HasLeast DEF LowestOf

\* The byte that a step off a breakpoint puts back is the compiler's.
LEMMA FoundOrig ==
  ASSUME IInv, TableInv, Alive, NEW a, a # 0, GetBreakpointByAddress(a) # NoSlot
  PROVE  slots[GetBreakpointByAddress(a)].byte = "orig"
<1> DEFINE hits == {s \in Slots : slots[s].address = a}
           s0 == GetBreakpointByAddress(a)
<1>1. hits # {} /\ s0 = LowestOf(hits)
  BY DEF GetBreakpointByAddress
<1>2. hits \subseteq Nat /\ Slots \subseteq Nat
  BY SessionAssumption DEF Slots
<1>3. s0 \in hits /\ \A r \in hits : s0 <= r
  BY <1>1, <1>2, LowestOfLeast
<1>4. slots[s0].used
  BY FoundInUse DEF IInv
<1> HIDE DEF s0
<1>5. \A r \in Slots : r < s0 => slots[r].address # a
  BY <1>2, <1>3
<1>6. s0 \in Slots /\ slots[s0].address = a
  BY <1>3
<1> QED  BY <1>4, <1>5, <1>6 DEF TableInv, s0

\* The user's breakpoints are found.
LEMMA UserFound ==
  ASSUME NEW a, UserAt(a)
  PROVE  GetBreakpointByAddress(a) # NoSlot
BY NotFound DEF UserAt

\* What is found is the user's.
LEMMA FoundUser ==
  ASSUME IInv, NEW a, a # 0, GetBreakpointByAddress(a) # NoSlot
  PROVE  UserAt(a)
BY FoundInUse DEF UserAt, IInv

-----------------------------------------------------------------------------
(* The debuggee                                                            *)

\* A step of the system is an instruction of the program, or leaves its
\* program counter and its stack as they are.
LEMMA TransparentStep ==
  ASSUME IInv, SessionInv, Disturb \subseteq {"kill", "unwind"}, [Next]_vars
  PROVE  \/ Execute /\ event # "bp" /\ event' # "bp" /\ TargetExecute
         \/ UNCHANGED <<ProgramCounter, depth, stack>>
<1> USE DEF IInv, SessionInv
<1>1. CASE Command
  <2>1. event = "none" /\ ~CommandSetPC
    BY <1>1 DEF Command, CommandContinue, CommandStepInstruction, CommandStepIn, CommandStepOut,
         CommandStepOver, CommandSetBreakpoint, CommandSetPC, CommandOnDead, CommandExit, Prompt,
         PortInv
  <2>2. event' = "none" /\ UNCHANGED programVars
    BY <1>1, <2>1 DEF Command, CommandContinue, CommandStepInstruction, CommandStepIn,
         CommandStepOut, CommandStepOver, CommandSetBreakpoint, CommandOnDead, CommandExit,
         Continue, SingleStepInstruction, Resume, targetVars
  <2> QED  BY <2>1, <2>2 DEF ProgramCounter, programVars
<1>2. CASE Handler
  <2>1. CASE StartupDone \/ ContinueStopped
    <3>1. event = "bp"
      BY <2>1 DEF StartupDone, ContinueStopped, IsBreakpoint, EventInv, StartupInv
    <3>2. pc' = pc - 1 /\ event' = "none" /\ UNCHANGED <<depth, stack>>
      BY <2>1 DEF StartupDone, ContinueStopped, PCBeforeInt3
    <3> QED  BY <3>1, <3>2 DEF ProgramCounter
  <2>2. CASE ~(StartupDone \/ ContinueStopped)
    <3>1. event # "bp"
      BY <1>2, <2>2 DEF Handler, StartupPlant, StartupExit, StartupOther, StepDone, StepSwallow,
           ContinueExited, ContinueOther, IsBreakpoint, EventInv, SteppingInv
    <3>2. event' = "none" /\ UNCHANGED programVars
      BY <1>2, <2>2 DEF Handler, StartupPlant, StartupExit, StartupOther, StepDone, StepSwallow,
           ContinueExited, ContinueOther, SingleStepInstruction, Resume
    <3> QED  BY <3>1, <3>2 DEF ProgramCounter, programVars
  <2> QED  BY <2>1, <2>2
<1>3. CASE Target
  <2>1. event = "none" /\ proc = "running"
    BY <1>3 DEF Target, TargetLoaderBreak, TargetTrap, TargetExecute, TargetDerailed, TargetExit,
         TargetNotify, TargetForeignTrap, PortInv
  <2>2. pc \in Starts /\ pc \in Nat
    <3>1. pc \in Starts
      BY <2>1 DEF LevelInv, ProgramCounter
    <3> QED  BY <3>1, DebuggeeAssumption DEF Address
  <2>3. CASE TargetTrap
    <3>1. pc' = pc + 1 /\ event' = "bp" /\ UNCHANGED <<depth, stack>>
      BY <2>3 DEF TargetTrap, Stop
    <3>2. pc' - 1 = pc
      BY <3>1, <2>2
    <3> QED  BY <3>1, <3>2, <2>1 DEF ProgramCounter
  <2>4. CASE TargetExecute
    BY <2>1, <2>4 DEF TargetExecute, Completed, Stop
  <2>5. CASE TargetLoaderBreak \/ TargetExit \/ TargetNotify \/ TargetForeignTrap
    <3>1. event' # "bp" /\ UNCHANGED programVars
      BY <2>5 DEF TargetLoaderBreak, TargetExit, TargetNotify, TargetForeignTrap, Stop
    <3> QED  BY <3>1, <2>1 DEF ProgramCounter, programVars
  <2>6. ~TargetDerailed
    BY <2>2 DEF TargetDerailed
  <2> QED  BY <1>3, <2>3, <2>4, <2>5, <2>6 DEF Target
<1>4. CASE UNCHANGED vars
  BY <1>4 DEF vars, programVars, targetVars, ProgramCounter
<1> QED  BY <1>1, <1>2, <1>3, <1>4 DEF Next

\* The program keeps to its ranking.
LEMMA LevelStep ==
  ASSUME NoRecursion, IInv, LevelInv,
         \/ Execute /\ event # "bp" /\ event' # "bp"
         \/ UNCHANGED <<ProgramCounter, depth, stack>>
  PROVE  LevelInv'
<1> DEFINE P == ProgramCounter
<1>1. CASE UNCHANGED <<ProgramCounter, depth, stack>>
  BY <1>1 DEF LevelInv, Ascends
<1>2. CASE Execute /\ event # "bp" /\ event' # "bp"
  <2>1. P = pc /\ P' = pc'
    BY <1>2 DEF ProgramCounter
  <2>2. /\ pc \in Starts /\ Instr[pc].next \subseteq Starts
        /\ Instr[pc].op = "call" => Instr[pc].ret \in ReturnPoints \cap Starts
    BY <1>2, DebuggeeAssumption DEF Execute, Instruction, ReturnPoints
  <2>3. /\ depth \in Nat /\ depth <= MaxDepth /\ MaxDepth \in Nat
        /\ stack \in [1 .. MaxDepth -> Address]
    BY DebuggeeAssumption DEF IInv, TypeOK, ProgramTypeOK
  <2>5. pc' \in Starts
    BY <1>2, ExecuteOK DEF IInv, TypeOK, PCInv
  <2>6. \A i \in 1 .. depth' : stack'[i] \in ReturnPoints \cap Starts
    <3>1. CASE Flow
      BY <3>1 DEF Flow, LevelInv
    <3>2. CASE Call
      <4>1. /\ depth' = depth + 1 /\ depth + 1 \in 1 .. MaxDepth
            /\ stack' = [stack EXCEPT ![depth + 1] = Instr[pc].ret]
            /\ Instr[pc].ret \in ReturnPoints \cap Starts
        BY <2>2, <2>3, <3>2 DEF Call
      <4>2. \A i \in 1 .. depth' : i = depth + 1 \/ i \in 1 .. depth
        BY <4>1, <2>3
      <4> QED  BY <4>1, <4>2, <2>3 DEF LevelInv
    <3>3. CASE Return
      <4>1. 1 .. depth' \subseteq 1 .. depth /\ stack' = stack
        BY <2>3, <3>3 DEF Return
      <4> QED  BY <4>1 DEF LevelInv
    <3> QED  BY <1>2, <3>1, <3>2, <3>3 DEF Execute
  <2>7. ASSUME NEW L \in Rankings
        PROVE  Ascends(L)'
    <3>4. L \in [Starts -> Nat] /\ CallsRanked(L)
      BY DEF Rankings
    <3>5. Ascends(L)
      BY DEF LevelInv
    <3>6. \A i \in 1 .. depth : stack[i] \in Starts /\ L[stack[i]] \in Nat
      BY <3>4 DEF LevelInv
    <3>7. L[pc] \in Nat /\ L[pc'] \in Nat
      BY <2>2, <3>4, <2>5
    <3>8. depth > 0 => L[stack[depth]] < L[pc]
      BY <2>1, <3>5 DEF Ascends
    <3>9. CASE Flow
      <4>1. L[pc] <= L[pc'] /\ UNCHANGED <<depth, stack>>
        BY <2>2, <3>4, <3>9 DEF Flow, CallsRanked
      <4>2. depth > 0 => L[stack[depth]] < L[pc']
        BY <4>1, <2>3, <3>6, <3>7, <3>8
      <4> QED  BY <4>1, <4>2, <2>1, <3>5 DEF Ascends
    <3>10. CASE Call
      <4> DEFINE r == Instr[pc].ret
      <4>1. /\ depth' = depth + 1 /\ depth + 1 \in 1 .. MaxDepth
            /\ stack' = [stack EXCEPT ![depth + 1] = r]
            /\ r \in ReturnPoints \cap Starts
            /\ L[pc] <= L[r] /\ L[r] < L[pc']
        BY <2>2, <2>3, <3>4, <3>10 DEF Call, CallsRanked
      <4>2. L[r] \in Nat
        BY <4>1, <3>4
      <4> HIDE DEF r
      <4>3. stack'[depth + 1] = r /\ \A i \in 1 .. depth : stack'[i] = stack[i]
        BY <4>1, <2>3
      <4>4. \A i \in 1 .. depth : L[stack[i]] < L[r]
        <5>1. \A i \in 1 .. depth : L[stack[i]] <= L[stack[depth]]
          BY <2>3, <3>5, <3>6 DEF Ascends
        <5> QED  BY <5>1, <4>1, <4>2, <2>3, <3>6, <3>7, <3>8
      <4>5. \A i \in 1 .. depth' : i = depth + 1 \/ i \in 1 .. depth
        BY <4>1, <2>3
      <4>7. ASSUME NEW i \in 1 .. depth', NEW j \in 1 .. depth', i < j
            PROVE  L[stack'[i]] < L[stack'[j]]
        <5>1. i \in 1 .. depth
          BY <4>1, <4>7, <2>3
        <5> QED  BY <5>1, <3>5, <4>3, <4>4, <4>5, <4>7 DEF Ascends
      <4> QED  BY <4>1, <4>3, <4>7, <2>1 DEF Ascends
    <3>11. CASE Return
      <4>1. depth > 0 /\ pc' = stack[depth] /\ depth' = depth - 1 /\ stack' = stack
        BY <3>11 DEF Return
      <4>2. 1 .. depth' \subseteq 1 .. depth /\ depth \in 1 .. depth
        BY <4>1, <2>3
      <4>3. depth' > 0 => L[stack[depth']] < L[stack[depth]]
        BY <4>1, <4>2, <2>3, <3>5 DEF Ascends
      <4> QED  BY <4>1, <4>2, <4>3, <2>1, <3>5 DEF Ascends
    <3> QED  BY <1>2, <3>9, <3>10, <3>11 DEF Execute
  <2> QED  BY <2>1, <2>5, <2>6, <2>7 DEF LevelInv
<1> QED  BY <1>1, <1>2

-----------------------------------------------------------------------------
(* What the debugger leaves in the text                                    *)

\* Setting the debuggee going with text m: what a step off a breakpoint leaves
\* at the pc is the compiler's byte, and the rest of m stays.
LEMMA SetGoing ==
  ASSUME IInv, TableInv, proc = "stopped", pc \in Starts, NEW m \in [Starts -> Byte],
         \/ SingleStepInstruction(m) /\ (m[pc] = "int3" => UserAt(pc))
         \/ Continue(m)
  PROVE  /\ proc' = "running" /\ event' = "none"
         /\ \A a \in Starts : mem'[a] = "int3" => m[a] = "int3"
         /\ \A a \in Starts \ {pc} : mem'[a] = m[a]
         /\ \/ ctl' = "step" /\ tf' /\ mem'[pc] = "orig"
            \/ ctl' = "cont" /\ tf' = tf /\ mem' = m /\ ~UserAt(pc)
<1> DEFINE s0 == GetBreakpointByAddress(pc)
<1>1. Alive /\ pc # 0
  BY DEF Alive, IInv, PCInv
<1>2. s0 # NoSlot => slots[s0].byte = "orig"
  BY <1>1, FoundOrig
<1>3. CASE SingleStepInstruction(m) /\ (s0 = NoSlot => m[pc] = "orig")
  <2>1. /\ mem' = IF s0 # NoSlot /\ Alive THEN [m EXCEPT ![pc] = slots[s0].byte] ELSE m
        /\ tf' = TRUE /\ ctl' = "step" /\ proc' = "running" /\ event' = "none"
    BY <1>3 DEF SingleStepInstruction, Resume
  <2> HIDE DEF s0
  <2>2. mem'[pc] = "orig" /\ \A a \in Starts \ {pc} : mem'[a] = m[a]
    BY <2>1, <1>1, <1>2, <1>3
  <2> QED  BY <2>1, <2>2
<1>4. CASE SingleStepInstruction(m) /\ (m[pc] = "int3" => UserAt(pc))
  <2>1. s0 = NoSlot => m[pc] = "orig"
    BY <1>4, UserFound DEF Byte
  <2> QED  BY <1>3, <1>4, <2>1
<1>5. CASE Continue(m) /\ s0 # NoSlot
  BY <1>3, <1>5 DEF Continue
<1>6. CASE Continue(m) /\ s0 = NoSlot
  <2>1. /\ mem' = m /\ ctl' = "cont" /\ tf' = tf /\ proc' = "running" /\ event' = "none"
    BY <1>6 DEF Continue, Resume
  <2>2. ~UserAt(pc)
    BY <1>6, UserFound
  <2> QED  BY <2>1, <2>2
<1> QED  BY <1>4, <1>5, <1>6

\* Once the temporaries are taken away only the table's breakpoints are left.
LEMMA RestoredUser ==
  ASSUME IInv, TextInv, Alive, NEW a \in Starts, Restored[a] = "int3"
  PROVE  UserAt(a)
<1> DEFINE at == {i \in DOMAIN temps : temps[i].address = a}
<1>1. CASE at = {}
  BY <1>1 DEF Restored, TextInv, Planted
<1>2. CASE at # {}
  <2>1. Restored[a] = temps[LastOf(at)].byte
    BY <1>2 DEF Restored
  <2>2. DOMAIN temps = 1 .. Len(temps) /\ Len(temps) \in Nat
    BY DEF IInv, TypeOK
  <2>3. LastOf(at) \in at
    BY <1>2, <2>2, LastOfMember
  <2> QED  BY <2>1, <2>3 DEF TextInv
<1> QED  BY <1>1, <1>2

\* The same of a text in which the breakpoint that was stepped off is back.
LEMMA RearmedUser ==
  ASSUME IInv, TextInv, Alive, NEW a \in Starts, Rearmed[a] = "int3"
  PROVE  UserAt(a) \/ Planted(a)
BY DEF IInv, TypeOK, SlotsInv, StepInv, Rearmed, TextInv, UserAt

\* Where the addresses are distinct each extracts the byte of the text.
LEMMA ExtractedDistinct ==
  ASSUME TypeOK, NEW addresses \in Seq(Starts),
         \A i, j \in DOMAIN addresses : addresses[i] = addresses[j] => i = j
  PROVE  \A i \in DOMAIN addresses : Extracted(addresses)[i].byte = mem[addresses[i]]
<1>1. DOMAIN addresses = 1 .. Len(addresses) /\ Len(addresses) \in Nat
  OBVIOUS
<1>2. \A i \in DOMAIN addresses, j \in Nat :
        j \in 1 .. i - 1 => j \in DOMAIN addresses /\ j # i
  BY <1>1
<1> QED  BY <1>2, <1>1 DEF Extracted

-----------------------------------------------------------------------------
(* The invariant of the session.  LevelInv is LevelStep's; each lemma is   *)
(* about the rest of it and some of the actions.                           *)

\* What does not depend on the pc, where the text, the table and the
\* temporaries stay as they are.
LEMMA TextKept ==
  ASSUME TextInv, TableInv, UNCHANGED <<mem, slots, temps>>, Alive' => Alive
  PROVE  TextInv' /\ TableInv'
BY DEF TextInv, TableInv, UserAt, Planted

\* Events that are only printed and continued.
LEMMA SwallowKeeps ==
  ASSUME IInv, SessionInv, StartupOther \/ StepSwallow \/ ContinueOther
  PROVE  EventInv' /\ TextInv' /\ TableInv' /\ SteppingInv' /\ ContinueInv'
<1> USE DEF SessionInv
<1>1. /\ Resume
      /\ UNCHANGED <<programVars, boot, mem, tf, debuggerVars, history>>
      /\ ctl \in {"startup", "step", "cont"}
      /\ ctl = "step" => event # "ss"
  BY DEF StartupOther, StepSwallow, ContinueOther
<1>2. proc' \in {"running", "gone"} /\ event' = "none" /\ (Alive' => Alive)
  BY <1>1 DEF Resume, Alive
<1>3. UNCHANGED <<pc, ctl, cmd, slots, temps>>
  BY <1>1 DEF programVars, debuggerVars
<1>4. EventInv'
  BY <1>2 DEF EventInv
<1>5. SteppingInv'
  BY <1>1, <1>2, <1>3 DEF SteppingInv
<1>6. ContinueInv'
  BY <1>1, <1>3 DEF ContinueInv, ContinueStopsAtBreakpoint
<1> QED  BY <1>1, <1>2, <1>3, <1>4, <1>5, <1>6, TextKept

\* The debuggee and the debug port.
LEMMA TargetKeeps ==
  ASSUME IInv, SessionInv, Disturb \subseteq {"kill", "unwind"}, Target
  PROVE  EventInv' /\ TextInv' /\ TableInv' /\ SteppingInv' /\ ContinueInv'
<1> USE DEF SessionInv
<1>1. /\ proc = "running" /\ event = "none" /\ UNCHANGED <<mem, debuggerVars>>
      /\ ctl \in {"startup", "step", "cont"}
  BY DEF Target, TargetLoaderBreak, TargetTrap, TargetExecute, TargetDerailed, TargetExit,
         TargetNotify, TargetForeignTrap, IInv, PortInv, TypeOK
<1>2. Alive /\ UNCHANGED <<ctl, cmd, slots, temps>>
  BY <1>1 DEF Alive, debuggerVars
<1>3. TextInv' /\ TableInv'
  BY <1>1, <1>2, TextKept
<1>4. ContinueInv'
  BY <1>1, <1>2 DEF ContinueInv, ContinueStopsAtBreakpoint
<1>5. pc \in Starts
  BY <1>1 DEF LevelInv, ProgramCounter
<1>6. ctl = "step" => tf /\ mem[pc] = "orig"
  BY <1>1, <1>2 DEF SteppingInv
<1>7. ctl # "step" => ~tf
  BY <1>1, <1>2 DEF SteppingInv
<1>8. CASE TargetLoaderBreak
  <2>1. event' = "loader" /\ proc' = "stopped" /\ boot /\ UNCHANGED <<pc, tf>>
    BY <1>8 DEF TargetLoaderBreak, Stop, programVars
  <2>2. ctl = "startup"
    BY <2>1 DEF IInv, StartupInv
  <2> QED  BY <1>2, <1>3, <1>4, <1>7, <2>1, <2>2 DEF EventInv, SteppingInv, Alive
<1>9. CASE TargetTrap
  <2>1. /\ pc' = pc + 1 /\ event' = "bp" /\ proc' = "stopped" /\ tf' = tf
        /\ mem[pc] = "int3"
    BY <1>9 DEF TargetTrap, Stop
  <2>2. pc' - 1 = pc
    BY <1>5, <2>1, DebuggeeAssumption DEF Address
  <2>3. ctl = "startup" => temps # <<>>
    <3>1. UserAt(pc) \/ Planted(pc)
      BY <1>2, <1>5, <2>1 DEF TextInv
    <3> QED  BY <3>1 DEF UserAt, Planted, IInv, StartupInv
  <2>4. EventInv'
    BY <1>1, <1>2, <2>1, <2>2, <2>3 DEF EventInv, Alive
  <2>5. SteppingInv'
    BY <1>2, <1>6, <1>7, <2>1 DEF SteppingInv
  <2> QED  BY <1>3, <1>4, <2>4, <2>5
<1>10. CASE TargetExecute
  <2>1. /\ ~tf' /\ UNCHANGED mem
        /\ IF tf THEN event' = "ss" /\ proc' = "stopped" ELSE event' = "none" /\ proc' = proc
    BY <1>1, <1>10 DEF TargetExecute, Completed, Stop
  <2>2. EventInv'
    BY <1>1, <2>1 DEF EventInv, Alive
  <2>3. SteppingInv'
    BY <1>2, <1>6, <2>1 DEF SteppingInv
  <2> QED  BY <1>3, <1>4, <2>2, <2>3
<1>11. CASE TargetExit
  <2>1. event' = "exit" /\ ~Alive'
    BY <1>11 DEF TargetExit, Alive
  <2> QED  BY <1>3, <1>4, <2>1 DEF EventInv, SteppingInv
<1>12. CASE TargetNotify
  <2>1. event' = "other" /\ proc' = "stopped" /\ UNCHANGED <<pc, tf, mem>>
    BY <1>12 DEF TargetNotify, Stop, programVars
  <2> QED  BY <1>2, <1>3, <1>4, <1>6, <1>7, <2>1 DEF EventInv, SteppingInv, Alive
<1>13. ~TargetForeignTrap /\ ~TargetDerailed
  BY <1>5 DEF TargetForeignTrap, TargetDerailed
<1> QED  BY <1>8, <1>9, <1>10, <1>11, <1>12, <1>13 DEF Target

\* ProcStartup.
LEMMA StartupKeeps ==
  ASSUME IInv, SessionInv, StartupPlant \/ StartupDone \/ StartupExit
  PROVE  EventInv' /\ TextInv' /\ TableInv' /\ SteppingInv' /\ ContinueInv'
<1> USE DEF SessionInv
<1>1. /\ ctl = "startup" /\ event' = "none" /\ cmd = "none"
      /\ UNCHANGED <<tf, cmd, slots>> /\ ctl' \in {"startup", "prompt"}
      /\ (Alive' => Alive)
  BY DEF StartupPlant, StartupDone, StartupExit, IInv, StartupInv, Resume, Alive
<1>2. EventInv'
  BY <1>1 DEF EventInv
<1>3. SteppingInv'
  BY <1>1 DEF SteppingInv
<1>4. ContinueInv'
  BY <1>1 DEF ContinueInv, ContinueStopsAtBreakpoint
<1>5. TableInv'
  BY <1>1 DEF TableInv
<1>6. ASSUME Alive'  PROVE TextInv'
  <2>1. CASE StartupPlant
    <3>1. /\ <<Entry>> \in Seq(Starts) /\ DOMAIN <<Entry>> = {1} /\ <<Entry>>[1] = Entry
      BY DebuggeeAssumption
    <3>2. mem' = Armed(<<Entry>>) /\ temps' = Extracted(<<Entry>>) /\ temps = <<>>
      BY <2>1 DEF StartupPlant
    <3>3. \A a \in Starts : ~UserAt(a) /\ ~Planted(a)
      BY <1>1, <3>2 DEF IInv, StartupInv, UserAt, Planted
    <3>4. \A a \in Starts : mem[a] # "int3"
      BY <1>1, <1>6, <3>3 DEF TextInv
    <3>5. DOMAIN temps' = {1} /\ temps'[1].address = Entry /\ temps'[1].byte = mem[Entry]
      <4> DEFINE list == <<Entry>>
      <4> HIDE DEF list
      <4>1. list \in Seq(Starts) /\ DOMAIN list = {1} /\ list[1] = Entry
        BY <3>1 DEF list
      <4>2. DOMAIN Extracted(list) = {1} /\ Extracted(list)[1].address = Entry
        BY <4>1, ExtractedType DEF IInv
      <4>3. Extracted(list)[1].byte = mem[Entry]
        BY <4>1, ExtractedDistinct DEF IInv
      <4> QED  BY <3>2, <4>2, <4>3 DEF list
    <3>6. \A a \in Starts : mem'[a] = "int3" => a = Entry
      BY <3>1, <3>2, <3>4 DEF Armed
    <3> QED  BY <3>4, <3>5, <3>6, DebuggeeAssumption DEF TextInv, Planted
  <2>2. CASE StartupDone
    <3>1. mem' = Restored /\ temps' = <<>>
      BY <2>2 DEF StartupDone
    <3>2. \A a \in Starts : Restored[a] = "int3" => UserAt(a)
      BY <1>1, <1>6, RestoredUser
    <3> QED  BY <1>1, <3>1, <3>2 DEF TextInv, UserAt
  <2>3. ~StartupExit
    BY <1>6 DEF StartupExit, EventInv, Alive
  <2> QED  BY <2>1, <2>2, <2>3
<1>7. ~Alive' => TextInv'
  BY DEF TextInv
<1> QED  BY <1>2, <1>3, <1>4, <1>5, <1>6, <1>7

\* ContinueProcess coming back.
LEMMA ContinueKeeps ==
  ASSUME IInv, SessionInv, ContinueStopped \/ ContinueExited
  PROVE  EventInv' /\ TextInv' /\ TableInv' /\ SteppingInv' /\ ContinueInv'
<1> USE DEF SessionInv
<1>1. /\ ctl = "cont" /\ event' = "none" /\ temps' = <<>>
      /\ UNCHANGED <<proc, tf, cmd, slots>> /\ ctl' \in {"failed", "prompt"}
      /\ Alive' = Alive
  BY DEF ContinueStopped, ContinueExited, ReportAt, Alive
<1>2. EventInv'
  BY <1>1 DEF EventInv
<1>3. SteppingInv'
  BY <1>1 DEF SteppingInv
<1>4. TableInv'
  BY <1>1 DEF TableInv
<1>5. ASSUME Alive
      PROVE  /\ event = "bp" /\ pc' = pc - 1 /\ pc - 1 \in Starts
             /\ mem' = Restored
             /\ mem[pc - 1] = "int3"
  <2>1. ContinueStopped
    BY <1>5 DEF ContinueExited, EventInv
  <2>2. event = "bp"
    BY <2>1 DEF ContinueStopped, IsBreakpoint, EventInv, IInv, StartupInv
  <2> QED  BY <2>1, <2>2 DEF ContinueStopped, PCBeforeInt3, EventInv, IInv, PCInv
<1>6. TextInv'
  <2> SUFFICES ASSUME Alive  PROVE TextInv'
    BY <1>1 DEF TextInv
  <2>1. \A a \in Starts : mem'[a] = "int3" => UserAt(a)
    BY <1>5, RestoredUser
  <2> QED  BY <1>1, <2>1 DEF TextInv, UserAt
<1>7. ContinueInv'
  <2>1. ASSUME Alive, cmd = "continue"  PROVE UserAt(pc')
    <3>1. UserAt(pc - 1) \/ Planted(pc - 1)
      BY <1>5, <2>1 DEF TextInv
    <3>2. ~Planted(pc - 1)
      BY <2>1 DEF ContinueInv, Planted
    <3> QED  BY <1>5, <2>1, <3>1, <3>2
  <2> QED  BY <1>1, <2>1 DEF ContinueInv, ContinueStopsAtBreakpoint, UserAt
<1> QED  BY <1>2, <1>3, <1>4, <1>6, <1>7

\* SingleStep coming back.
LEMMA StepDoneKeeps ==
  ASSUME IInv, SessionInv, StepDone
  PROVE  EventInv' /\ TextInv' /\ TableInv' /\ SteppingInv' /\ ContinueInv'
<1> USE DEF SessionInv
<1>1. /\ ctl = "step" /\ event = "ss" /\ Delivered /\ UNCHANGED <<pc, cmd, slots, temps>>
  BY DEF StepDone, programVars
<1>2. Alive /\ proc = "stopped"
  BY <1>1 DEF EventInv, Delivered, Alive
<1>3. ~tf
  BY <1>1, <1>2 DEF SteppingInv
<1>4. pc \in Starts
  BY <1>1 DEF LevelInv, ProgramCounter
<1>5. Rearmed \in [Starts -> Byte]
  BY RearmedOK DEF IInv
<1>6. \A a \in Starts : Rearmed[a] = "int3" => UserAt(a) \/ Planted(a)
  BY <1>2, RearmedUser
<1>7. TableInv'
  BY <1>1, <1>2 DEF TableInv
<1>8. CASE /\ mem' = Rearmed /\ tf' = tf /\ event' = "none"
           /\ ctl' \in {"prompt", "failed", "cont"}
           /\ ctl' = "prompt" => cmd # "continue"
  <2>1. EventInv'
    BY <1>8 DEF EventInv
  <2>2. SteppingInv'
    BY <1>3, <1>8 DEF SteppingInv
  <2>3. TextInv'
    BY <1>1, <1>2, <1>6, <1>8 DEF TextInv, UserAt, Planted
  <2>4. ContinueInv'
    BY <1>1, <1>8 DEF ContinueInv, ContinueStopsAtBreakpoint
  <2> QED  BY <1>7, <2>1, <2>2, <2>3, <2>4
<1>9. CASE cmd = "in" /\ SingleStepInstruction(Rearmed)
  <2>1. \A a : ~Planted(a)
    BY <1>9 DEF Planted, IInv, TempsInv
  <2>2. /\ event' = "none" /\ proc' = "running"
        /\ \A a \in Starts : mem'[a] = "int3" => Rearmed[a] = "int3"
        /\ ctl' = "step" /\ tf' /\ mem'[pc] = "orig"
    <3>1. /\ event' = "none" /\ proc' = "running"
          /\ \A a \in Starts : mem'[a] = "int3" => Rearmed[a] = "int3"
          /\ ctl' = "step" => tf' /\ mem'[pc] = "orig"
      BY <1>2, <1>4, <1>5, <1>6, <1>9, <2>1, SetGoing
    <3>2. ctl' = "step"
      BY <1>9 DEF SingleStepInstruction
    <3> QED  BY <3>1, <3>2
  <2>3. EventInv'
    BY <2>2 DEF EventInv, Alive
  <2>4. SteppingInv'
    BY <1>1, <2>2 DEF SteppingInv
  <2>5. TextInv'
    BY <1>1, <1>2, <1>6, <2>2 DEF TextInv, UserAt, Planted
  <2>6. ContinueInv'
    BY <1>1, <1>9, <2>2 DEF ContinueInv, ContinueStopsAtBreakpoint
  <2> QED  BY <1>7, <2>3, <2>4, <2>5, <2>6
<1> QED  BY <1>8, <1>9 DEF StepDone, ReportAt, Resume

\* A command that sets the debuggee going, with temporaries at some addresses.
LEMMA GoKeeps ==
  ASSUME IInv, SessionInv, NEW addresses \in Seq(Starts), NEW c \in RunCommand,
         \A i, j \in DOMAIN addresses : addresses[i] = addresses[j] => i = j,
         Prompt(c), Alive,
         \/ SingleStepInstruction(Armed(addresses)) /\ addresses = <<>>
         \/ Continue(Armed(addresses)),
         temps' = Extracted(addresses),
         addresses = <<>> \/ c # "continue",
         UNCHANGED <<programVars, slots>>
  PROVE  EventInv' /\ TextInv' /\ TableInv' /\ SteppingInv' /\ ContinueInv'
<1> USE DEF SessionInv
<1>1. /\ ctl = "prompt" /\ event = "none" /\ proc = "stopped" /\ temps = <<>> /\ cmd' = c
      /\ UNCHANGED <<pc, slots>>
  BY DEF Prompt, IInv, PortInv, TempsInv, Alive, TypeOK, programVars
<1>2. ~tf /\ pc \in Starts
  BY <1>1 DEF SteppingInv, LevelInv, ProgramCounter
<1>3. \A a \in Starts : mem[a] = "int3" => UserAt(a)
  BY <1>1 DEF TextInv, Planted
<1>4. Armed(addresses) \in [Starts -> Byte]
  BY ArmedOK DEF IInv
<1>5. addresses = <<>> => Armed(addresses) = mem
  BY DEF Armed, IInv, TypeOK
<1>6. /\ event' = "none" /\ proc' = "running"
      /\ \A a \in Starts : mem'[a] = "int3" => Armed(addresses)[a] = "int3"
      /\ \/ ctl' = "step" /\ tf' /\ mem'[pc] = "orig"
         \/ ctl' = "cont" /\ tf' = tf
  BY <1>1, <1>2, <1>3, <1>4, <1>5, SetGoing
<1>7. /\ DOMAIN temps' = DOMAIN addresses
      /\ \A i \in DOMAIN addresses :
           temps'[i].address = addresses[i] /\ temps'[i].byte = mem[addresses[i]]
           /\ addresses[i] \in Starts
  BY ExtractedType, ExtractedDistinct DEF IInv
<1>8. EventInv'
  BY <1>6 DEF EventInv, Alive
<1>9. SteppingInv'
  BY <1>1, <1>2, <1>6 DEF SteppingInv
<1>10. TableInv'
  BY <1>1 DEF TableInv
<1>11. TextInv'
  <2>1. ASSUME NEW a \in Starts, mem'[a] = "int3"
        PROVE  UserAt(a) \/ \E i \in DOMAIN addresses : addresses[i] = a
    BY <1>3, <1>6, <2>1 DEF Armed
  <2>2. \A a \in Starts : mem'[a] = "int3" => UserAt(a)' \/ Planted(a)'
    BY <1>1, <1>7, <2>1 DEF UserAt, Planted
  <2>3. ASSUME NEW i \in DOMAIN temps', temps'[i].byte = "int3"
        PROVE  \E s \in Slots : slots'[s].used /\ slots'[s].address = temps'[i].address
    BY <1>1, <1>3, <1>7, <2>3 DEF UserAt
  <2> QED  BY <2>2, <2>3 DEF TextInv, UserAt
<1>12. ContinueInv'
  <2>1. addresses = <<>> => temps' = <<>>
    BY DEF Extracted
  <2>2. ctl' # "prompt"
    BY <1>6
  <2> QED  BY <1>1, <2>1, <2>2 DEF ContinueInv, ContinueStopsAtBreakpoint
<1> QED  BY <1>8, <1>9, <1>10, <1>11, <1>12

\* The addresses that `over' and `out' plant at are distinct: where a function
\* returns to is not in it.
LEMMA AddressesRanked ==
  ASSUME NEW L \in Rankings, IInv, LevelInv, event # "bp"
  PROVE  /\ StepOverAddresses \in Seq(Starts)
         /\ \A i, j \in DOMAIN StepOverAddresses :
              StepOverAddresses[i] = StepOverAddresses[j] => i = j
         /\ \A i \in DOMAIN StepOverAddresses :
              /\ StepOverAddresses[i] # pc
              /\ L[StepOverAddresses[i]] <= L[pc]
         /\ \A w \in Walked(pc) : \E i \in DOMAIN StepOverAddresses : StepOverAddresses[i] = w
         /\ FrameReturn \in Starts =>
              \E i \in DOMAIN StepOverAddresses : StepOverAddresses[i] = FrameReturn
<1> DEFINE W == Walk[pc]
<1>1. /\ L \in [Starts -> Nat] /\ WalksRanked(L)
      /\ Ascends(L)
  BY DEF Rankings, LevelInv
<1>2. pc \in Starts /\ pc \in Address /\ L[pc] \in Nat
  <2>1. pc \in Starts
    BY DEF LevelInv, ProgramCounter
  <2> QED  BY <1>1, <2>1, DebuggeeAssumption
<1>3. /\ W \in Seq(Starts)
      /\ \A i, j \in DOMAIN W : W[i] = W[j] => i = j
      /\ \A i \in DOMAIN W : W[i] # pc /\ L[W[i]] <= L[pc]
                            /\ (W[i] \in ReturnPoints => L[pc] <= L[W[i]])
  BY <1>1, <1>2, SessionAssumption DEF WalksRanked, Walked
<1>4. CASE FrameReturn \in Starts
  <2> DEFINE r == FrameReturn
  <2>1. depth \in Nat /\ r # Unmapped
    BY <1>4, DebuggeeAssumption DEF IInv, TypeOK, ProgramTypeOK, Unmapped, Address
  <2>2. \E k \in 1 .. depth : r = stack[k]
    BY <2>1 DEF FrameReturn
  <2>3. PICK k \in 1 .. depth : r = stack[k]
    BY <2>2
  <2> HIDE DEF r
  <2>4. r \in ReturnPoints \cap Starts /\ L[r] < L[pc] /\ L[r] \in Nat
    <3>1. r \in ReturnPoints \cap Starts /\ L[stack[depth]] < L[pc]
      BY <1>1, <2>1, <2>3 DEF LevelInv, Ascends, ProgramCounter
    <3>2. stack[depth] \in Starts /\ (k = depth \/ L[r] < L[stack[depth]])
      BY <1>1, <2>1, <2>3 DEF LevelInv, Ascends
    <3>3. L[r] \in Nat /\ L[stack[depth]] \in Nat
      BY <1>1, <3>1, <3>2
    <3> QED  BY <1>2, <2>3, <3>1, <3>2, <3>3
  <2>5. \A i \in DOMAIN W : W[i] # r
    BY <1>2, <1>3, <2>4
  <2>6. StepOverAddresses = Append(W, r)
    BY <1>4 DEF StepOverAddresses, r
  <2>7. /\ Append(W, r) \in Seq(Starts)
        /\ DOMAIN W = 1 .. Len(W) /\ Len(W) \in Nat
        /\ DOMAIN Append(W, r) = 1 .. Len(W) + 1
        /\ \A i \in 1 .. Len(W) : Append(W, r)[i] = W[i]
        /\ Append(W, r)[Len(W) + 1] = r
    BY <1>3, <2>4
  <2> HIDE DEF W
  <2> DEFINE A == Append(W, r)
  <2> HIDE DEF A
  <2>8. \A i \in DOMAIN A : i = Len(W) + 1 \/ i \in DOMAIN W
    BY <2>7 DEF A
  <2>9. \A i, j \in DOMAIN A : A[i] = A[j] => i = j
    BY <1>3, <2>5, <2>7, <2>8 DEF A
  <2>10. \A i \in DOMAIN A : A[i] # pc /\ L[A[i]] <= L[pc]
    BY <1>2, <1>3, <2>4, <2>7, <2>8 DEF A
  <2>11. \A w \in Walked(pc) : \E i \in DOMAIN A : A[i] = w
    BY <2>7 DEF A, W, Walked
  <2>12. \E i \in DOMAIN A : A[i] = r
    BY <2>7 DEF A
  <2> QED  BY <2>6, <2>7, <2>9, <2>10, <2>11, <2>12 DEF A, r
<1>5. CASE FrameReturn \notin Starts
  BY <1>3, <1>5 DEF StepOverAddresses, Walked
<1> QED  BY <1>4, <1>5

\* StepOver's addresses are the lines it walks and the return address, each once.
LEMMA AddressesDistinct ==
  ASSUME NoRecursion, IInv, LevelInv, event # "bp"
  PROVE  /\ StepOverAddresses \in Seq(Starts)
         /\ \A i, j \in DOMAIN StepOverAddresses :
              StepOverAddresses[i] = StepOverAddresses[j] => i = j
         /\ \A i \in DOMAIN StepOverAddresses :
              /\ StepOverAddresses[i] # pc
              /\ Level[StepOverAddresses[i]] <= Level[pc]
         /\ \A w \in Walked(pc) : \E i \in DOMAIN StepOverAddresses : StepOverAddresses[i] = w
         /\ FrameReturn \in Starts =>
              \E i \in DOMAIN StepOverAddresses : StepOverAddresses[i] = FrameReturn
BY LevelRanks, AddressesRanked

\* The commands that run the debuggee, or fail before they do.
LEMMA RunKeeps ==
  ASSUME NoRecursion, IInv, SessionInv,
         \/ CommandContinue \/ CommandStepInstruction \/ CommandStepIn
         \/ CommandStepOut \/ CommandStepOver
  PROVE  EventInv' /\ TextInv' /\ TableInv' /\ SteppingInv' /\ ContinueInv'
<1> USE DEF RunCommand
<1>1. /\ Armed(<<>>) = mem /\ Extracted(<<>>) = <<>> /\ <<>> \in Seq(Starts)
      /\ DOMAIN <<>> = {}
  BY DEF Armed, Extracted, IInv, TypeOK
<1>2. temps = <<>> /\ Alive /\ event = "none" /\ ctl = "prompt" /\ UNCHANGED <<programVars, slots>>
  BY DEF IInv, TempsInv, PortInv, Prompt, CommandContinue, CommandStepInstruction, CommandStepIn,
         CommandStepOut, CommandStepOver
<1>3. CASE ctl' = "failed"
  <2>1. UNCHANGED <<proc, event, mem, tf, temps, slots, pc>>
    BY <1>2, <1>3
       DEF CommandContinue, CommandStepInstruction, CommandStepIn, CommandStepOut,
           CommandStepOver, SingleStepInstruction, Continue, programVars
  <2>2. TextInv' /\ TableInv'
    BY <2>1, TextKept DEF SessionInv, Alive
  <2>3. EventInv' /\ SteppingInv' /\ ContinueInv'
    BY <1>2, <1>3, <2>1
       DEF SessionInv, EventInv, SteppingInv, ContinueInv, ContinueStopsAtBreakpoint, Alive
  <2> QED  BY <2>2, <2>3
<1>4. CASE CommandContinue
  BY <1>1, <1>2, <1>4, GoKeeps DEF CommandContinue
<1>5. CASE CommandStepInstruction
  BY <1>1, <1>2, <1>5, GoKeeps DEF CommandStepInstruction
<1>6. CASE CommandStepIn /\ ctl' # "failed"
  BY <1>1, <1>2, <1>6, GoKeeps DEF CommandStepIn
<1>7. CASE CommandStepOut /\ ctl' # "failed"
  <2>1. PICK r : temps' = Extracted(Mapped(r)) /\ Continue(Armed(Mapped(r)))
    BY <1>7 DEF CommandStepOut
  <2>2. Mapped(r) \in Seq(Starts) /\ \A i, j \in DOMAIN Mapped(r) : i = j
    BY DEF Mapped
  <2> QED  BY <1>2, <1>7, <2>1, <2>2, GoKeeps DEF CommandStepOut
<1>8. CASE CommandStepOver /\ ctl' # "failed"
  BY <1>2, <1>8, AddressesDistinct, GoKeeps DEF CommandStepOver, SessionInv
<1> QED  BY <1>3, <1>4, <1>5, <1>6, <1>7, <1>8

\* `breakpoint set', `exit', and every command once there is no process.
LEMMA OtherCommandKeeps ==
  ASSUME IInv, SessionInv, CommandSetBreakpoint \/ CommandOnDead \/ CommandExit
  PROVE  EventInv' /\ TextInv' /\ TableInv' /\ SteppingInv' /\ ContinueInv'
<1> USE DEF SessionInv
<1>1. ctl = "prompt" /\ event = "none" /\ temps = <<>>
  BY DEF CommandSetBreakpoint, CommandOnDead, CommandExit, Prompt, IInv, TempsInv, PortInv
<1>2. CASE CommandSetBreakpoint
  <2> DEFINE s0 == GetEmptyBreakpoint
  <2>1. UNCHANGED <<pc, proc, event, tf, cmd, temps>> /\ ctl' \in {"prompt", "full"}
    BY <1>1, <1>2 DEF CommandSetBreakpoint, programVars
  <2>2. EventInv' /\ SteppingInv'
    BY <1>1, <2>1 DEF EventInv, SteppingInv, Alive
  <2>3. CASE s0 = NoSlot
    <3>1. UNCHANGED <<mem, slots>>
      BY <1>2, <2>3 DEF CommandSetBreakpoint
    <3>2. TextInv' /\ TableInv'
      BY <2>1, <3>1, TextKept DEF Alive
    <3>3. ContinueInv'
      BY <1>1, <2>1, <3>1 DEF ContinueInv, ContinueStopsAtBreakpoint, UserAt, Alive
    <3> QED  BY <2>2, <3>2, <3>3
  <2>4. CASE s0 # NoSlot
    <3>1. PICK a \in Sites :
            /\ slots' = [slots EXCEPT ![s0] = Filled(s0, a)]
            /\ mem' = IF Alive THEN [mem EXCEPT ![a] = "int3"] ELSE mem
      BY <1>2, <2>4 DEF CommandSetBreakpoint
    <3>2. s0 \in Slots /\ ~slots[s0].used /\ \A r \in Slots : r < s0 => slots[r].used
      <4> DEFINE free == {s \in Slots : ~slots[s].used}
      <4>1. free # {} /\ s0 = LowestOf(free)
        BY <2>4 DEF GetEmptyBreakpoint
      <4>2. free \subseteq Nat /\ Slots \subseteq Nat
        BY SessionAssumption DEF Slots
      <4>3. s0 \in free /\ \A r \in free : s0 <= r
        BY <4>1, <4>2, LowestOfLeast
      <4> HIDE DEF s0
      <4> QED  BY <4>2, <4>3
    <3>3. a \in Starts /\ Slots \subseteq Nat
      BY SessionAssumption DEF Slots
    <3> HIDE DEF s0
    <3>4. /\ slots'[s0] = Filled(s0, a)
          /\ \A s \in Slots : s # s0 => slots'[s] = slots[s]
      BY <3>1, <3>2 DEF IInv, TypeOK
    <3>5. /\ slots'[s0].used /\ slots'[s0].address = a
          /\ Alive => slots'[s0].byte = mem[a]
      BY <3>4 DEF Filled
    <3>6. \A b : UserAt(b) => \E s \in Slots : slots'[s].used /\ slots'[s].address = b
      BY <3>2, <3>4 DEF UserAt
    <3>7. ContinueInv'
      BY <1>1, <2>1, <3>6 DEF ContinueInv, ContinueStopsAtBreakpoint, UserAt, Alive
    <3>8. TextInv'
      <4> SUFFICES ASSUME Alive  PROVE TextInv'
        BY <2>1 DEF TextInv, Alive
      <4>1. ASSUME NEW b \in Starts, mem'[b] = "int3"
            PROVE  \E s \in Slots : slots'[s].used /\ slots'[s].address = b
        <5>1. CASE b = a
          BY <3>2, <3>5, <5>1
        <5>2. CASE b # a
          <6>1. mem[b] = "int3"
            BY <3>1, <4>1, <5>2
          <6>2. UserAt(b)
            BY <1>1, <6>1 DEF TextInv, Planted
          <6> QED  BY <3>6, <6>2
        <5> QED  BY <5>1, <5>2
      <4> QED  BY <1>1, <2>1, <4>1 DEF TextInv, UserAt
    <3>9. TableInv'
      <4>1. ASSUME NEW r \in Slots, NEW s \in Slots, r < s, slots'[s].used
            PROVE  slots'[r].used
        BY <3>2, <3>3, <3>4, <3>5, <4>1 DEF TableInv
      <4>2. ASSUME Alive, NEW s \in Slots, slots'[s].used
            PROVE  \/ slots'[s].byte = "orig"
                   \/ \E r \in Slots : r < s /\ slots'[r].address = slots'[s].address
        <5>1. CASE s = s0
          <6>1. mem[a] = "orig" \/ UserAt(a)
            BY <1>1, <3>3, <4>2 DEF IInv, TypeOK, Byte, TextInv, Planted
          <6>2. ASSUME UserAt(a)
                PROVE  \E r \in Slots : r < s0 /\ slots[r].address = a
            <7>1. PICK r \in Slots : slots[r].used /\ slots[r].address = a
              BY <6>2 DEF UserAt
            <7>2. r < s0 \/ s0 < r \/ r = s0
              BY <3>2, <3>3
            <7> QED  BY <3>2, <7>1, <7>2 DEF TableInv
          <6>3. ASSUME NEW r \in Slots, r < s0  PROVE slots'[r] = slots[r]
            BY <3>3, <3>2, <3>4, <6>3
          <6> QED  BY <3>5, <4>2, <5>1, <6>1, <6>2, <6>3
        <5>2. CASE s # s0
          <6>1. slots'[s] = slots[s]
            BY <3>4, <5>2
          <6>2. ASSUME NEW r \in Slots, r < s  PROVE slots'[r] = slots[r]
            <7>1. r # s0
              BY <3>2, <4>2, <6>1, <6>2 DEF TableInv
            <7> QED  BY <3>4, <7>1
          <6> QED  BY <4>2, <6>1, <6>2 DEF TableInv
        <5> QED  BY <5>1, <5>2
      <4>3. Alive' = Alive
        BY <2>1 DEF Alive
      <4> QED  BY <4>1, <4>2, <4>3 DEF TableInv
    <3> QED  BY <2>2, <3>7, <3>8, <3>9
  <2> QED  BY <2>3, <2>4
<1>3. CASE CommandOnDead
  <2>1. ~Alive /\ ~Alive' /\ event' = "none" /\ UNCHANGED <<slots, temps>> /\ ctl' # "prompt"
    BY <1>1, <1>3 DEF CommandOnDead, Prompt, Resume, Alive
  <2> QED  BY <1>1, <2>1
           DEF EventInv, TextInv, TableInv, SteppingInv, ContinueInv, ContinueStopsAtBreakpoint
<1>4. CASE CommandExit
  <2>1. UNCHANGED <<pc, proc, event, mem, tf, cmd, slots, temps>> /\ ctl' = "done"
    BY <1>4 DEF CommandExit, programVars, targetVars
  <2>2. TextInv' /\ TableInv'
    BY <2>1, TextKept DEF Alive
  <2>3. EventInv' /\ SteppingInv' /\ ContinueInv'
    BY <1>1, <2>1
       DEF EventInv, SteppingInv, ContinueInv, ContinueStopsAtBreakpoint, Alive
  <2> QED  BY <2>2, <2>3
<1> QED  BY <1>2, <1>3, <1>4

\* A session starts in the invariant.
LEMMA SessionInit == Init => SessionInv
<1> SUFFICES ASSUME Init  PROVE SessionInv
  OBVIOUS
<1> USE DEF Init, ProgramInit
<1>1. Entry \in Starts
  BY DebuggeeAssumption
<1>2. EventInv /\ ContinueInv
  BY DEF EventInv, Alive, ContinueInv, ContinueStopsAtBreakpoint
<1>3. LevelInv
  BY <1>1 DEF LevelInv, Ascends, ProgramCounter
<1>4. TextInv /\ SteppingInv
  BY DEF TextInv, SteppingInv
<1>5. TableInv
  BY DEF TableInv
<1> QED  BY <1>2, <1>3, <1>4, <1>5 DEF SessionInv

\* Every step keeps it, where there is no recursion, no other thread meets a
\* breakpoint and the user leaves rip alone.
THEOREM SessionInductive ==
  ASSUME NoRecursion, Disturb \subseteq {"kill", "unwind"}
  PROVE  IInv /\ SessionInv /\ [Next]_vars => SessionInv'
<1> SUFFICES ASSUME IInv, SessionInv, [Next]_vars  PROVE SessionInv'
  OBVIOUS
<1>1. LevelInv'
  BY TransparentStep, LevelStep DEF SessionInv
<1>2. EventInv' /\ TextInv' /\ TableInv' /\ SteppingInv' /\ ContinueInv'
  <2>1. CASE Command
    <3>1. ~CommandSetPC
      BY DEF CommandSetPC
    <3> QED  BY <2>1, <3>1, RunKeeps, OtherCommandKeeps DEF Command
  <2>2. CASE Handler
    BY <2>2, StartupKeeps, SwallowKeeps, StepDoneKeeps, ContinueKeeps DEF Handler
  <2>3. CASE Target
    BY <2>3, TargetKeeps
  <2>4. CASE UNCHANGED vars
    <3>1. UNCHANGED <<pc, proc, event, mem, tf, ctl, cmd, slots, temps>>
      BY <2>4 DEF vars, programVars, targetVars, debuggerVars
    <3>2. TextInv' /\ TableInv'
      BY <3>1, TextKept DEF SessionInv, Alive
    <3> QED  BY <3>1, <3>2
             DEF SessionInv, EventInv, SteppingInv, ContinueInv, ContinueStopsAtBreakpoint,
                 UserAt, Alive
  <2> QED  BY <2>1, <2>2, <2>3, <2>4 DEF Next
<1> QED  BY <1>1, <1>2 DEF SessionInv

\* So it holds throughout.
THEOREM SessionInvariance ==
  ASSUME NoRecursion, Disturb \subseteq {"kill", "unwind"}
  PROVE  Spec => [](IInv /\ SessionInv)
<1>1. Init => IInv /\ SessionInv
  BY InitOK, SessionInit
<1>2. IInv /\ SessionInv /\ [Next]_vars => (IInv /\ SessionInv)'
  BY Inductive, SessionInductive
<1> QED  BY <1>1, <1>2, PTL DEF Spec

\* At the prompt no 0xCC is left in the text that the user did not put there:
\* every command takes back what it planted (Debugger.h:262-267, 332-420).
THEOREM TextIsRestored ==
  ASSUME NoRecursion, Disturb \subseteq {"kill", "unwind"}
  PROVE  Spec => []TextRestored
<1>1. IInv /\ SessionInv => TextRestored
  <2> SUFFICES ASSUME IInv, SessionInv, ctl = "prompt", Alive
               PROVE  \A a \in Starts : mem[a] = "int3" => UserAt(a)
    BY DEF TextRestored
  <2>1. \A a : ~Planted(a)
    BY DEF IInv, TempsInv, Planted
  <2> QED  BY <2>1 DEF SessionInv, TextInv
<1> QED  BY <1>1, SessionInvariance, PTL

\* `continue' comes back to the prompt at a breakpoint of the table and
\* nowhere else (Debugger.h:322-330, WindowsLayer.c:486-490).
THEOREM ContinueStops ==
  ASSUME NoRecursion, Disturb \subseteq {"kill", "unwind"}
  PROVE  Spec => []ContinueStopsAtBreakpoint
<1>1. SessionInv => ContinueStopsAtBreakpoint
  BY DEF SessionInv, ContinueInv
<1> QED  BY <1>1, SessionInvariance, PTL

\* The session implements the program alone: breakpoints, steps off them and
\* temporaries never make the debuggee skip, repeat or garble an instruction
\* (Debugger.h:301-420 with WindowsLayer.c:440-531).
THEOREM SessionIsTransparent ==
  ASSUME NoRecursion, Disturb \subseteq {"kill", "unwind"}
  PROVE  Spec => Transparent
<1>1. Init => Plain!ProgramInit
  BY DEF Init, ProgramInit, Plain!ProgramInit, ProgramCounter
<1>2. IInv /\ SessionInv /\ [Next]_vars => [Plain!Execute]_(Plain!programVars)
  <2> SUFFICES ASSUME IInv, SessionInv, [Next]_vars
               PROVE  Plain!Execute \/ UNCHANGED Plain!programVars
    OBVIOUS
  <2>1. CASE Execute /\ event # "bp" /\ event' # "bp"
    <3>1. ProgramCounter = pc /\ ProgramCounter' = pc'
      BY <2>1 DEF ProgramCounter
    <3> QED  BY <2>1, <3>1
             DEF Execute, Flow, Call, Return, Plain!Execute, Plain!Flow, Plain!Call, Plain!Return
  <2>2. CASE UNCHANGED <<ProgramCounter, depth, stack>>
    BY <2>2 DEF Plain!programVars
  <2> QED  BY <2>1, <2>2, TransparentStep
<1> QED  BY <1>1, <1>2, SessionInvariance, PTL DEF Spec, Transparent, Plain!ProgramSpec
-----------------------------------------------------------------------------
(* The invariant of the stepping commands                                  *)

\* Where a command plants is not where the debuggee stands.
LEMMA GoPlants ==
  ASSUME IInv, SessionInv, NEW addresses \in Seq(Starts), NEW c \in RunCommand,
         Prompt(c), Alive,
         \/ SingleStepInstruction(Armed(addresses)) /\ addresses = <<>>
         \/ Continue(Armed(addresses)),
         temps' = Extracted(addresses),
         \A i \in DOMAIN addresses : addresses[i] # pc,
         UNCHANGED <<programVars, slots>>
  PROVE  PlantedInv' /\ MovesInv'
<1> USE DEF SessionInv
<1>1. /\ ctl = "prompt" /\ event = "none" /\ proc = "stopped" /\ temps = <<>> /\ pc' = pc
  BY DEF Prompt, IInv, PortInv, TempsInv, Alive, TypeOK, programVars
<1>2. pc \in Starts
  BY <1>1 DEF LevelInv, ProgramCounter
<1>3. mem[pc] = "int3" => UserAt(pc)
  BY <1>1, <1>2 DEF TextInv, Planted
<1>4. Armed(addresses) \in [Starts -> Byte] /\ Armed(addresses)[pc] = mem[pc] /\ mem[pc] \in Byte
  BY <1>2, ArmedOK DEF IInv, Armed, TypeOK
<1>5. addresses = <<>> => Armed(addresses) = mem
  BY DEF Armed, IInv, TypeOK
<1>6. /\ event' = "none" /\ ctl' # "prompt"
      /\ \A a \in Starts \ {pc} : mem'[a] = Armed(addresses)[a]
      /\ mem'[pc] = "orig" \/ (mem' = Armed(addresses) /\ ~UserAt(pc))
  BY <1>1, <1>2, <1>3, <1>4, SetGoing
<1>7. MovesInv'
  BY <1>1, <1>3, <1>4, <1>6 DEF MovesInv, CommandMoves, Byte
<1>8. PlantedInv'
  <2>1. DOMAIN temps' = DOMAIN addresses
    BY ExtractedType DEF IInv
  <2>2. ASSUME NEW i \in DOMAIN temps'  PROVE mem'[temps'[i].address] = "int3"
    <3>1. temps'[i].address = addresses[i] /\ addresses[i] \in Starts /\ addresses[i] # pc
      BY <2>1, <2>2, ExtractedType DEF IInv
    <3>2. Armed(addresses)[addresses[i]] = "int3"
      BY <2>1, <2>2, <3>1 DEF Armed
    <3> QED  BY <1>6, <3>1, <3>2
  <2> QED  BY <2>2 DEF PlantedInv
<1> QED  BY <1>7, <1>8

\* `out' plants at the caller's return address, which is not in the function.
LEMMA OutPlants ==
  ASSUME NoRecursion, IInv, LevelInv, Disturb \subseteq {"kill"}, event # "bp",
         NEW r \in ReturnAddresses
  PROVE  /\ Mapped(r) \in Seq(Starts)
         /\ \A i \in DOMAIN Mapped(r) : depth > 0 /\ Mapped(r)[i] = stack[depth] /\ Mapped(r)[i] # pc
<1>1. Mapped(r) \in Seq(Starts)
  BY DEF Mapped
<1>2. CASE r = Unmapped
  BY <1>1, <1>2, DebuggeeAssumption DEF Mapped, Unmapped, Address
<1>3. CASE r # Unmapped
  <2>1. depth > 0 /\ r = stack[depth] /\ depth \in Nat
    BY <1>3 DEF ReturnAddresses, IInv, TypeOK, ProgramTypeOK
  <2>2. r \in Starts /\ Level[r] < Level[pc] /\ Level[r] \in Nat
    BY <2>1, LevelOK, LevelRanks DEF LevelInv, Ascends, ProgramCounter
  <2> QED  BY <1>1, <2>1, <2>2 DEF Mapped
<1> QED  BY <1>2, <1>3

\* Temporary breakpoints stay in the text, and nothing stops the debuggee
\* before it has moved.
LEMMA MovesStep ==
  ASSUME NoRecursion, Disturb \subseteq {"kill"}, IInv, SessionInv, PlantedInv, MovesInv,
         [Next]_vars
  PROVE  PlantedInv' /\ MovesInv'
<1> USE DEF SessionInv
<1>1. CASE \/ CommandContinue \/ CommandStepInstruction \/ CommandStepIn
           \/ CommandStepOut \/ CommandStepOver
  <2> USE DEF RunCommand
  <2>1. /\ Armed(<<>>) = mem /\ Extracted(<<>>) = <<>> /\ <<>> \in Seq(Starts)
        /\ DOMAIN <<>> = {}
    BY DEF Armed, Extracted, IInv, TypeOK
  <2>2. temps = <<>> /\ Alive /\ event = "none" /\ UNCHANGED <<programVars, slots>>
    BY <1>1 DEF IInv, TempsInv, PortInv, Prompt, CommandContinue, CommandStepInstruction,
         CommandStepIn, CommandStepOut, CommandStepOver
  <2>3. CASE ctl' = "failed"
    BY <2>3 DEF PlantedInv, MovesInv, CommandMoves, Underway
  <2>4. CASE CommandContinue
    BY <2>1, <2>2, <2>4, GoPlants DEF CommandContinue
  <2>5. CASE CommandStepInstruction
    BY <2>1, <2>2, <2>5, GoPlants DEF CommandStepInstruction
  <2>6. CASE CommandStepIn /\ ctl' # "failed"
    BY <2>1, <2>2, <2>6, GoPlants DEF CommandStepIn
  <2>7. CASE CommandStepOut /\ ctl' # "failed"
    <3>1. PICK r \in ReturnAddresses : temps' = Extracted(Mapped(r)) /\ Continue(Armed(Mapped(r)))
      BY <2>7 DEF CommandStepOut
    <3> QED  BY <2>2, <2>7, <3>1, OutPlants, GoPlants DEF CommandStepOut
  <2>8. CASE CommandStepOver /\ ctl' # "failed"
    BY <2>2, <2>8, AddressesDistinct, GoPlants DEF CommandStepOver
  <2> QED  BY <1>1, <2>3, <2>4, <2>5, <2>6, <2>7, <2>8
<1>2. CASE CommandSetBreakpoint
  <2>1. ctl' \in {"prompt", "full"} /\ ctl = "prompt" /\ UNCHANGED <<proc, cmd, moved>>
    BY <1>2 DEF CommandSetBreakpoint, history
  <2> QED  BY <2>1 DEF PlantedInv, MovesInv, CommandMoves, Underway, Alive
<1>3. CASE CommandOnDead
  <2>1. ~Alive'
    BY <1>3 DEF CommandOnDead, Resume, Alive
  <2> QED  BY <2>1 DEF PlantedInv, MovesInv, CommandMoves, Underway
<1>4. CASE CommandExit
  <2>1. ctl' = "done"
    BY <1>4 DEF CommandExit
  <2> QED  BY <2>1 DEF PlantedInv, MovesInv, CommandMoves, Underway
<1>5. ~CommandSetPC
  BY DEF CommandSetPC
<1>6. CASE StartupPlant \/ StartupDone \/ StartupExit \/ StartupOther
  <2>1. ctl' \in {"startup", "prompt"} /\ cmd' \notin RunCommand
    BY <1>6 DEF StartupPlant, StartupDone, StartupExit, StartupOther, IInv, StartupInv, RunCommand,
         debuggerVars
  <2> QED  BY <2>1 DEF PlantedInv, MovesInv, CommandMoves, Underway
<1>7. CASE StepSwallow \/ ContinueOther
  <2>1. /\ ctl \in {"step", "cont"} /\ event' = "none" /\ (Alive' => Alive)
        /\ UNCHANGED <<pc, mem, ctl, cmd, temps, moved>>
    BY <1>7 DEF StepSwallow, ContinueOther, Resume, Alive, Delivered, programVars, debuggerVars,
         history
  <2> QED  BY <2>1 DEF PlantedInv, MovesInv, CommandMoves, Underway
<1>8. CASE ContinueStopped
  <2>1. /\ ctl = "cont" /\ ctl' \in {"prompt", "failed"} /\ UNCHANGED <<proc, cmd, moved>>
    BY <1>8 DEF ContinueStopped, ReportAt, history
  <2>2. event = "bp"
    BY <1>8 DEF ContinueStopped, IsBreakpoint, EventInv, IInv, StartupInv
  <2> QED  BY <2>1, <2>2 DEF PlantedInv, MovesInv, CommandMoves, Underway, Alive
<1>9. CASE ContinueExited
  <2>1. ctl' = "failed"
    BY <1>9 DEF ContinueExited
  <2> QED  BY <2>1 DEF PlantedInv, MovesInv, CommandMoves, Underway
<1>10. CASE StepDone
  <2>1. /\ ctl = "step" /\ event = "ss" /\ UNCHANGED <<pc, cmd, temps, moved>>
    BY <1>10 DEF StepDone, programVars, history
  <2>2. Alive
    BY <2>1 DEF EventInv
  <2>3. moved
    BY <2>1, <2>2 DEF MovesInv, Underway
  <2>4. MovesInv'
    BY <2>1, <2>3 DEF MovesInv, CommandMoves
  <2>5. PlantedInv'
    <3>1. CASE mem' = Rearmed
      <4>1. \A i \in DOMAIN temps : mem[temps[i].address] = "int3"
        BY <2>1, <2>2 DEF PlantedInv, Underway
      <4>2. \A i \in DOMAIN temps : temps[i].address \in Starts
        <5>1. DOMAIN temps = 1 .. Len(temps) /\ temps \in Seq(Temporary)
          BY DEF IInv, TypeOK
        <5>2. \A i \in DOMAIN temps : temps[i] \in Temporary
          BY <5>1
        <5> QED  BY <5>2 DEF Temporary
      <4>3. \A a \in Starts : mem[a] = "int3" => Rearmed[a] = "int3"
        BY DEF Rearmed, IInv, TypeOK
      <4> QED  BY <2>1, <3>1, <4>1, <4>2, <4>3 DEF PlantedInv
    <3>2. CASE cmd = "in"
      BY <2>1, <3>2 DEF PlantedInv, IInv, TempsInv
    <3> QED  BY <1>10, <3>1, <3>2 DEF StepDone
  <2> QED  BY <2>4, <2>5
<1>11. CASE Target
  <2>1. UNCHANGED <<mem, ctl, cmd, temps>> /\ event = "none" /\ proc = "running"
    BY <1>11 DEF Target, TargetLoaderBreak, TargetTrap, TargetExecute, TargetDerailed, TargetExit,
         TargetNotify, TargetForeignTrap, IInv, PortInv, debuggerVars
  <2>2. Alive /\ ctl # "prompt"
    BY <2>1 DEF Alive, IInv, PortInv
  <2>3. PlantedInv'
    BY <2>1, <2>2 DEF PlantedInv, Underway
  <2>4. CASE TargetTrap
    BY <2>1, <2>2, <2>3, <2>4 DEF TargetTrap, MovesInv, CommandMoves, Underway, history
  <2>5. CASE TargetExecute \/ TargetDerailed
    BY <2>1, <2>2, <2>3, <2>5 DEF TargetExecute, TargetDerailed, Completed, MovesInv, CommandMoves
  <2>6. CASE TargetLoaderBreak \/ TargetExit \/ TargetNotify \/ TargetForeignTrap
    <3>1. event' \notin {"ss", "bp"} /\ UNCHANGED <<pc, moved>>
      BY <2>6 DEF TargetLoaderBreak, TargetExit, TargetNotify, TargetForeignTrap, Stop, programVars,
           history
    <3> QED  BY <2>1, <2>2, <2>3, <3>1 DEF MovesInv, CommandMoves, Underway
  <2> QED  BY <1>11, <2>3, <2>4, <2>5, <2>6 DEF Target
<1>12. CASE UNCHANGED vars
  BY <1>12 DEF vars, programVars, targetVars, debuggerVars, history, PlantedInv, MovesInv,
       CommandMoves, Underway, Alive
<1> QED  BY <1>1, <1>2, <1>3, <1>4, <1>5, <1>6, <1>7, <1>8, <1>9, <1>10, <1>11, <1>12
         DEF Next, Command, Handler

\* A step in which the debuggee of an `out' or `over' stays where it is, with
\* its breakpoints.
Quiet ==
  /\ UNCHANGED <<ProgramCounter, depth, stack, depth0, temps, cmd>>
  /\ Underway' => Underway
  /\ ctl' = "prompt" =>
       /\ ctl = "prompt" /\ (Alive' => Alive) /\ pc' = pc
       /\ \A a : UserAt(a) => \E s \in Slots : slots'[s].used /\ slots'[s].address = a

\* Neither of them is running or has come back.
Elsewhere == ~Alive \/ cmd \notin {"out", "over"} \/ ctl \in {"startup", "failed", "full", "done"}

\* What the steps of the system are to `out' and `over'.
LEMMA StepKinds ==
  ASSUME IInv, SessionInv, Disturb \subseteq {"kill"}, [Next]_vars
  PROVE  \/ TargetExecute /\ Execute /\ event # "bp" /\ event' # "bp"
         \/ CommandStepOut \/ CommandStepOver
         \/ ContinueStopped
         \/ Elsewhere'
         \/ Quiet
<1> USE DEF SessionInv
<1> SUFFICES ASSUME ~(TargetExecute /\ Execute /\ event # "bp" /\ event' # "bp")
             PROVE  \/ CommandStepOut \/ CommandStepOver \/ ContinueStopped
                    \/ Elsewhere' \/ Quiet
  OBVIOUS
<1>1. UNCHANGED <<ProgramCounter, depth, stack>>
  BY TransparentStep
<1>2. CASE CommandContinue \/ CommandStepInstruction \/ CommandStepIn
  BY <1>2 DEF CommandContinue, CommandStepInstruction, CommandStepIn, Prompt, Elsewhere
<1>3. CASE CommandSetBreakpoint
  <2>1. ctl = "prompt" /\ ctl' \in {"prompt", "full"} /\ UNCHANGED <<depth0, temps, cmd, pc, proc>>
    BY <1>3 DEF CommandSetBreakpoint, history, programVars
  <2>2. ASSUME NEW a, UserAt(a)
        PROVE  \E s \in Slots : slots'[s].used /\ slots'[s].address = a
    <3>1. PICK s \in Slots : slots[s].used /\ slots[s].address = a
      BY <2>2 DEF UserAt
    <3> DEFINE s0 == GetEmptyBreakpoint
    <3>2. s0 # NoSlot => s0 \in Slots /\ ~slots[s0].used
      <4> DEFINE free == {r \in Slots : ~slots[r].used}
      <4> SUFFICES ASSUME s0 # NoSlot  PROVE s0 \in free
        OBVIOUS
      <4>1. free # {} /\ s0 = LowestOf(free) /\ free \subseteq Nat
        BY SessionAssumption DEF GetEmptyBreakpoint, Slots
      <4> QED  BY <4>1, LowestOfMember
    <3>3. slots' = slots \/ (s0 # NoSlot /\ \E b : slots' = [slots EXCEPT ![s0] = Filled(s0, b)])
      BY <1>3 DEF CommandSetBreakpoint
    <3> HIDE DEF s0
    <3>4. slots'[s] = slots[s]
      BY <3>1, <3>2, <3>3 DEF IInv, TypeOK
    <3> QED  BY <3>1, <3>4
  <2> QED  BY <1>1, <2>1, <2>2 DEF Quiet, Underway, Alive
<1>4. CASE CommandOnDead
  BY <1>4 DEF CommandOnDead, Resume, Alive, Elsewhere
<1>5. CASE CommandExit
  BY <1>5 DEF CommandExit, Elsewhere
<1>6. CASE StartupPlant \/ StartupDone \/ StartupExit \/ StartupOther
  BY <1>6 DEF StartupPlant, StartupDone, StartupExit, StartupOther, IInv, StartupInv, Elsewhere,
       debuggerVars
<1>7. CASE StepSwallow \/ ContinueOther
  <2>1. /\ ctl \in {"step", "cont"} /\ (Alive' => Alive) /\ UNCHANGED <<ctl, cmd, temps, depth0>>
    BY <1>7 DEF StepSwallow, ContinueOther, Resume, Alive, Delivered, debuggerVars, history
  <2> QED  BY <1>1, <2>1 DEF Quiet, Underway
<1>8. CASE StepDone /\ cmd \in {"out", "over"}
  <2>1. /\ ctl = "step" /\ (Alive' => Alive) /\ ctl' = "cont" /\ UNCHANGED <<cmd, temps, depth0>>
    BY <1>8 DEF StepDone, Resume, Alive, history
  <2> QED  BY <1>1, <2>1 DEF Quiet, Underway
<1>9. CASE StepDone /\ cmd \notin {"out", "over"}
  BY <1>9 DEF StepDone, Elsewhere
<1>10. CASE ContinueExited
  BY <1>10 DEF ContinueExited, Elsewhere
<1>11. CASE Target
  <2>1. UNCHANGED <<ctl, cmd, temps, depth0>> /\ proc = "running"
    BY <1>11 DEF Target, TargetLoaderBreak, TargetTrap, TargetExecute, TargetDerailed, TargetExit,
         TargetNotify, TargetForeignTrap, debuggerVars, history
  <2>2. Alive /\ ctl # "prompt"
    BY <2>1 DEF Alive, IInv, PortInv
  <2> QED  BY <1>1, <2>1, <2>2 DEF Quiet, Underway
<1>12. CASE UNCHANGED vars
  BY <1>1, <1>12 DEF vars, programVars, targetVars, debuggerVars, history, Quiet, Underway, Alive,
       UserAt
<1>13. ~CommandSetPC
  BY DEF CommandSetPC
<1> QED  BY <1>2, <1>3, <1>4, <1>5, <1>6, <1>7, <1>8, <1>9, <1>10, <1>11, <1>12, <1>13
         DEF Next, Command, Handler

\* What executing an instruction leaves of a command that is running.
LEMMA ExecuteKeeps ==
  ASSUME IInv, SessionInv, TargetExecute
  PROVE  /\ UNCHANGED <<mem, temps, cmd, ctl, slots, depth0>>
         /\ Alive /\ ctl # "prompt" /\ pc \in Starts /\ mem[pc] = "orig"
         /\ ProgramCounter = pc /\ ProgramCounter' = pc'
         /\ (Underway' => Underway)
<1>1. UNCHANGED <<mem, temps, cmd, ctl, slots, depth0>> /\ proc = "running" /\ event = "none"
  BY DEF TargetExecute, debuggerVars, IInv, PortInv
<1>2. Alive /\ ctl # "prompt"
  BY <1>1 DEF Alive, IInv, PortInv
<1>3. event' # "bp"
  BY <1>1 DEF TargetExecute, Completed, Stop
<1> QED  BY <1>1, <1>2, <1>3 DEF TargetExecute, ProgramCounter, Underway

\* Where ContinueProcess stops there is a breakpoint of the table or a
\* temporary one.
LEMMA StopsAt ==
  ASSUME IInv, SessionInv, ContinueStopped, Alive
  PROVE  /\ pc' = ProgramCounter /\ UNCHANGED <<depth, depth0, cmd, slots>>
         /\ Underway /\ ~Underway'
         /\ UserAt(pc') \/ Planted(pc')
<1> USE DEF SessionInv
<1>1. event = "bp"
  BY DEF ContinueStopped, IsBreakpoint, EventInv, IInv, StartupInv
<1>2. pc' = pc - 1 /\ pc - 1 \in Starts /\ mem[pc - 1] = "int3"
  BY <1>1 DEF ContinueStopped, PCBeforeInt3, EventInv, IInv, PCInv
<1>3. ctl = "cont" /\ ctl' \in {"prompt", "failed"} /\ UNCHANGED <<depth, depth0, cmd, slots>>
  BY DEF ContinueStopped, ReportAt, history
<1> QED  BY <1>1, <1>2, <1>3 DEF TextInv, ProgramCounter, Underway

\* The stack below an address on it is above it in the call graph.
LEMMA StackRanked ==
  ASSUME IInv, LevelInv, NEW k \in 1 .. depth, NEW L \in Rankings
  PROVE  /\ stack[k] \in Starts /\ ProgramCounter \in Starts
         /\ L[stack[k]] \in Nat /\ L[ProgramCounter] \in Nat
         /\ L[stack[k]] < L[ProgramCounter]
<1>1. depth \in Nat /\ depth \in 1 .. depth
  BY DEF IInv, TypeOK, ProgramTypeOK
<1>2. /\ stack[k] \in Starts /\ stack[depth] \in Starts /\ ProgramCounter \in Starts
      /\ L[stack[depth]] < L[ProgramCounter]
      /\ k = depth \/ L[stack[k]] < L[stack[depth]]
  BY <1>1 DEF LevelInv, Ascends
<1>3. /\ L[stack[k]] \in Nat /\ L[stack[depth]] \in Nat
      /\ L[ProgramCounter] \in Nat
  BY <1>2 DEF Rankings
<1> QED  BY <1>2, <1>3

\* `out' stops outside the function.
LEMMA OutStep ==
  ASSUME NoRecursion, Disturb \subseteq {"kill"}, IInv, SessionInv, PlantedInv, OutInv, [Next]_vars
  PROVE  OutInv'
<1>1. CASE Elsewhere'
  BY <1>1 DEF Elsewhere, OutInv, OutLeavesFrame, Underway
<1>2. CASE Quiet
  BY <1>2 DEF Quiet, OutInv, OutLeavesFrame, UserAt
<1>3. CASE CommandStepOver
  BY <1>3 DEF CommandStepOver, Prompt, OutInv, OutLeavesFrame
<1>4. CASE CommandStepOut
  <2>1. CASE ctl' = "failed"
    BY <2>1 DEF OutInv, OutLeavesFrame, Underway
  <2>2. CASE ctl' # "failed"
    <3>1. PICK r \in ReturnAddresses : temps' = Extracted(Mapped(r)) /\ Continue(Armed(Mapped(r)))
      BY <1>4, <2>2 DEF CommandStepOut
    <3>2. /\ ctl = "prompt" /\ depth0' = depth /\ depth' = depth /\ stack' = stack
          /\ depth \in Nat /\ event = "none"
      BY <1>4 DEF CommandStepOut, Prompt, programVars, IInv, TypeOK, ProgramTypeOK, PortInv
    <3>3. ctl' # "prompt"
      BY <3>1 DEF Continue, SingleStepInstruction
    <3>4. \A i \in DOMAIN temps' : temps'[i].address = stack[depth]
      BY <3>1, <3>2, OutPlants, ExtractedType DEF IInv, SessionInv
    <3> QED  BY <3>2, <3>3, <3>4 DEF OutInv, OutLeavesFrame
  <2> QED  BY <2>1, <2>2
<1>5. CASE ContinueStopped
  <2> SUFFICES ASSUME Alive, cmd = "out", depth0 > 0, ~UserAt(pc')
               PROVE  depth < depth0
    <3>1. Alive' = Alive /\ ~Underway' /\ UNCHANGED <<cmd, slots, depth, depth0>>
      BY <1>5 DEF ContinueStopped, ReportAt, Underway, Alive, history
    <3> QED  BY <3>1 DEF OutInv, OutLeavesFrame, UserAt
  <2>1. Planted(ProgramCounter) /\ Underway
    BY <1>5, StopsAt
  <2>2. PICK i \in DOMAIN temps : temps[i].address = ProgramCounter
    BY <2>1 DEF Planted
  <2>3. depth < depth0 \/ (depth0 <= depth /\ ProgramCounter = stack[depth0])
    BY <2>1, <2>2 DEF OutInv
  <2>4. ~(depth0 <= depth /\ ProgramCounter = stack[depth0])
    <3> SUFFICES ASSUME depth0 <= depth, ProgramCounter = stack[depth0]  PROVE FALSE
      OBVIOUS
    <3>1. depth0 \in 1 .. depth
      BY DebuggeeAssumption DEF IInv, TypeOK, ProgramTypeOK
    <3> QED  BY <3>1, LevelRanks, StackRanked DEF SessionInv
  <2> QED  BY <2>3, <2>4
<1>6. CASE TargetExecute /\ Execute
  <2> SUFFICES ASSUME Underway, cmd = "out", depth0 > 0, NEW i \in DOMAIN temps
               PROVE  \/ depth0 <= depth' /\ temps[i].address = stack'[depth0]
                      \/ depth' < depth0 /\ temps[i].address = pc'
    BY <1>6, ExecuteKeeps DEF OutInv, OutLeavesFrame
  <2>1. mem[pc] = "orig" /\ ProgramCounter = pc
    BY <1>6, ExecuteKeeps
  <2>2. mem[temps[i].address] = "int3"
    BY DEF PlantedInv
  <2>3. depth0 <= depth /\ temps[i].address = stack[depth0]
    BY <2>1, <2>2 DEF OutInv
  <2>4. /\ depth \in Nat /\ depth0 \in Nat /\ MaxDepth \in Nat
        /\ stack \in [1 .. MaxDepth -> Address]
    BY DebuggeeAssumption DEF IInv, TypeOK, ProgramTypeOK
  <2>5. CASE Flow
    BY <2>3, <2>5 DEF Flow
  <2>6. CASE Call
    BY <2>3, <2>4, <2>6 DEF Call
  <2>7. CASE Return
    BY <2>3, <2>4, <2>7 DEF Return
  <2> QED  BY <1>6, <2>5, <2>6, <2>7 DEF Execute
<1> QED  BY <1>1, <1>2, <1>3, <1>4, <1>5, <1>6, StepKinds

\* A prologue leads to a walked position or on in the prologue.
LEMMA PrologueLeads ==
  /\ Prologue \subseteq NoFrame
  /\ LeadsToWalk(Prologue)
BY DEF Prologue, LeadsToWalk

\* `over' sets out with a breakpoint at every line of the function and at its
\* return address, or in a prologue at every line, or from an epilogue with the
\* caller's return address instead.
LEMMA OverStarts ==
  ASSUME NoRecursion, IInv, SessionInv, CommandStepOver, OverInReach, ctl' # "failed"
  PROVE  OverInv'
<1> USE DEF SessionInv
<1>1. /\ temps' = Extracted(StepOverAddresses) /\ Continue(Armed(StepOverAddresses))
      /\ SrcPos[pc].line # NoLine /\ depth0' = depth
      /\ UNCHANGED <<pc, depth, stack>> /\ event = "none"
  BY DEF CommandStepOver, Prompt, programVars, IInv, PortInv
<1>2. event' = "none" /\ ctl' # "prompt" /\ ProgramCounter' = pc
  BY <1>1 DEF Continue, SingleStepInstruction, Resume, ProgramCounter
<1>3. /\ DOMAIN temps' = DOMAIN StepOverAddresses
      /\ \A i \in DOMAIN temps' : temps'[i].address = StepOverAddresses[i]
  BY <1>1, AddressesDistinct, ExtractedType DEF IInv
<1>4. NoneBelow(pc)'
  BY <1>1, <1>3, AddressesDistinct DEF NoneBelow
<1>5. \A w \in Walked(pc) : Planted(w)'
  BY <1>1, <1>3, AddressesDistinct DEF Planted
<1>6. CASE pc \in Prologue
  BY <1>1, <1>2, <1>5, <1>6 DEF OverInv, OverStaysInFrame, InPrologue
<1>8. CASE pc \in NoFrame /\ RightBelow /\ depth > 0
  <2>1. PICK L \in Rankings : L[pc] <= L[stack[depth]] + 1
    BY <1>8 DEF RightBelow
  <2>2. \A i \in DOMAIN StepOverAddresses : L[StepOverAddresses[i]] <= L[pc]
    BY <1>1, AddressesRanked
  <2>3. /\ depth \in Nat /\ depth \in 1 .. depth
        /\ \A i \in 1 .. depth : stack[i] \in Starts
    BY <1>8 DEF LevelInv, IInv, TypeOK, ProgramTypeOK
  <2>4. ProgramCounter = pc /\ pc \in Starts /\ StepOverAddresses \in Seq(Starts)
    BY <1>1, AddressesDistinct DEF ProgramCounter, LevelInv
  <2>5. /\ L[pc] \in Nat /\ L[stack[depth]] \in Nat
        /\ \A i \in DOMAIN StepOverAddresses : L[StepOverAddresses[i]] \in Nat
    BY <2>3, <2>4 DEF Rankings
  <2>6. \A i \in DOMAIN StepOverAddresses : L[StepOverAddresses[i]] <= L[stack[depth]] + 1
    BY <2>1, <2>2, <2>5
  <2>7. depth > 1 => \E i \in DOMAIN temps' : temps'[i].address = stack[depth - 1]
    <3> SUFFICES ASSUME depth > 1
                 PROVE  \E i \in DOMAIN temps' : temps'[i].address = stack[depth - 1]
      OBVIOUS
    <3>1. FrameReturn = stack[depth - 1] /\ depth - 1 \in 1 .. depth
      BY <1>8, <2>3 DEF FrameReturn
    <3>2. FrameReturn \in Starts
      BY <2>3, <3>1
    <3> QED  BY <1>1, <1>3, <3>1, <3>2, AddressesDistinct
  <2>8. InCaller'
    <3>1. 0 < depth0' /\ depth0' - 1 <= depth' /\ ~(depth' < depth0')
      BY <1>1, <1>8, <2>3
    <3>2. depth0' > 1 => Planted(stack[depth0 - 1])'
      BY <1>1, <2>7 DEF Planted
    <3>3. \A i \in DOMAIN temps' : L[temps'[i].address] <= L[stack'[depth0']] + 1
      BY <1>1, <1>3, <2>6
    <3> QED  BY <3>1, <3>2, <3>3 DEF InCaller
  <2> QED  BY <1>1, <1>2, <2>8 DEF OverInv, OverStaysInFrame
<1>7. CASE pc \notin NoFrame \/ ~(depth > 0)
  <2>1. ASSUME depth > 0  PROVE \E i \in DOMAIN temps' : temps'[i].address = stack[depth]
    <3>1. FrameReturn = stack[depth] /\ depth \in Nat
      BY <1>7, <2>1 DEF FrameReturn, IInv, TypeOK, ProgramTypeOK
    <3>2. FrameReturn \in Starts
      BY <2>1, <3>1 DEF LevelInv
    <3> QED  BY <1>1, <1>3, <3>1, <3>2, AddressesDistinct
  <2>2. ReturnPlanted'
    BY <1>1, <2>1 DEF ReturnPlanted, Planted
  <2> QED  BY <1>1, <1>2, <1>4, <2>2 DEF OverInv, OverStaysInFrame, InFunction, NoneBelow
<1> QED  BY <1>6, <1>7, <1>8 DEF OverInReach

\* Behind an epilogue the caller and what it calls run on until they meet one of
\* the breakpoints, at the latest where the caller returns to.
LEMMA CallerExecute ==
  ASSUME IInv, LevelInv, Execute, ProgramCounter = pc, ProgramCounter' = pc', InCaller,
         UNCHANGED <<temps, depth0>>
  PROVE  (InCaller \/ Arrived)'
<1>1. PICK L \in Rankings : \A i \in DOMAIN temps :
        L[temps[i].address]
          <= L[IF depth < depth0 THEN ProgramCounter ELSE stack[depth0]] + 1
  BY DEF InCaller
<1>2. /\ 0 < depth0 /\ depth0 - 1 <= depth
      /\ depth0 > 1 => Planted(stack[depth0 - 1])
  BY DEF InCaller
<1>3. /\ depth \in Nat /\ depth <= MaxDepth /\ depth0 \in Nat /\ MaxDepth \in Nat
      /\ stack \in [1 .. MaxDepth -> Address]
  BY DebuggeeAssumption DEF IInv, TypeOK, ProgramTypeOK
<1>4. /\ pc \in Starts /\ pc' \in Starts
      /\ \A i \in DOMAIN temps : temps[i].address \in Starts
      /\ \A i \in 1 .. depth : stack[i] \in Starts
  <2>1. temps \in Seq(Temporary) /\ DOMAIN temps = 1 .. Len(temps)
    BY DEF IInv, TypeOK
  <2>2. \A i \in DOMAIN temps : temps[i] \in Temporary
    BY <2>1
  <2> QED  BY <2>2, ExecuteOK DEF IInv, TypeOK, PCInv, Temporary, LevelInv, Execute
<1>5. /\ L[pc] \in Nat /\ L[pc'] \in Nat /\ CallsRanked(L)
      /\ \A i \in DOMAIN temps : L[temps[i].address] \in Nat
      /\ \A i \in 1 .. depth : L[stack[i]] \in Nat
  BY <1>4 DEF Rankings
<1>7. CASE Flow
  <2>1. UNCHANGED <<depth, stack>> /\ L[pc] <= L[pc']
    BY <1>4, <1>5, <1>7 DEF Flow, CallsRanked
  <2>2. \A i \in DOMAIN temps :
          L[temps[i].address] <= L[IF depth < depth0 THEN pc' ELSE stack[depth0]] + 1
    <3>1. CASE depth < depth0
      BY <1>1, <1>5, <2>1, <3>1
    <3>2. CASE ~(depth < depth0)
      BY <1>1, <3>2
    <3> QED  BY <3>1, <3>2
  <2>3. depth0 > 1 => Planted(stack[depth0 - 1])'
    BY <1>2, <2>1 DEF Planted
  <2> QED  BY <1>2, <2>1, <2>2, <2>3 DEF InCaller
<1>8. CASE Call
  <2>0. Instr[pc].op = "call" /\ Instr[pc].ret \in Starts
    BY <1>4, <1>8, DebuggeeAssumption DEF Call
  <2>1. PICK r \in Starts : r = Instr[pc].ret
    BY <2>0
  <2>7. /\ depth' = depth + 1 /\ stack' = [stack EXCEPT ![depth + 1] = r]
        /\ depth < MaxDepth
    BY <1>8, <2>1 DEF Call
  <2>8. depth + 1 \in 1 .. MaxDepth
    BY <1>3, <2>7
  <2>9. L[pc] <= L[r]
    BY <1>4, <1>5, <2>0, <2>1 DEF CallsRanked
  <2>2. L[r] \in Nat
    BY DEF Rankings
  <2>3. stack'[depth + 1] = r /\ \A i \in 1 .. depth : stack'[i] = stack[i]
    BY <1>3, <2>7, <2>8
  <2>4. depth0 - 1 <= depth' /\ ~(depth' < depth0)
    BY <1>2, <1>3, <2>7
  <2>5. depth0 > 1 => Planted(stack[depth0 - 1])'
    <3>1. depth0 > 1 => stack'[depth0 - 1] = stack[depth0 - 1]
      BY <1>2, <1>3, <2>3
    <3> QED  BY <1>2, <3>1 DEF Planted
  <2>6. \A i \in DOMAIN temps : L[temps[i].address] <= L[stack'[depth0]] + 1
    <3>1. CASE depth < depth0
      <4>1. depth0 = depth + 1
        BY <1>2, <1>3, <3>1
      <4>2. \A i \in DOMAIN temps : L[temps[i].address] <= L[pc] + 1
        BY <1>1, <3>1
      <4> QED  BY <1>5, <2>2, <2>3, <2>9, <4>1, <4>2
    <3>2. CASE ~(depth < depth0)
      <4>1. stack'[depth0] = stack[depth0]
        BY <1>2, <1>3, <2>3, <3>2
      <4> QED  BY <1>1, <3>2, <4>1
    <3> QED  BY <3>1, <3>2
  <2> QED  BY <1>2, <2>4, <2>5, <2>6 DEF InCaller
<1>9. CASE Return
  <2>1. depth > 0 /\ pc' = stack[depth] /\ depth' = depth - 1 /\ stack' = stack
    BY <1>9 DEF Return
  <2>2. CASE depth < depth0
    <3>1. depth = depth0 - 1 /\ depth0 > 1
      BY <1>2, <1>3, <2>1, <2>2
    <3>2. Planted(ProgramCounter)'
      BY <1>2, <2>1, <3>1 DEF Planted
    <3>3. depth' <= depth0
      BY <1>3, <2>1, <3>1
    <3> QED  BY <3>2, <3>3 DEF Arrived
  <2>3. CASE ~(depth < depth0)
    <3>1. depth0 - 1 <= depth' /\ (depth' < depth0 => depth = depth0)
      BY <1>2, <1>3, <2>1, <2>3
    <3>2. \A i \in DOMAIN temps :
            L[temps[i].address] <= L[IF depth' < depth0 THEN pc' ELSE stack[depth0]] + 1
      BY <1>1, <2>1, <2>3, <3>1
    <3>3. depth0 > 1 => Planted(stack[depth0 - 1])'
      BY <1>2, <2>1 DEF Planted
    <3> QED  BY <1>2, <2>1, <3>1, <3>2, <3>3 DEF InCaller
  <2> QED  BY <2>2, <2>3
<1> QED  BY <1>7, <1>8, <1>9 DEF Execute

\* Where `over' leaves a breakpoint unmet, the debuggee is not in the function,
\* or every place it leads to is one.
LEMMA OverExecute ==
  ASSUME NoRecursion, IInv, SessionInv, PlantedInv, TargetExecute, Execute,
         Underway, InCallee \/ InFunction \/ InPrologue \/ InCaller \/ Arrived
  PROVE  (InCallee \/ InFunction \/ InPrologue \/ InCaller \/ Arrived)'
<1>1. /\ mem[pc] = "orig" /\ ProgramCounter = pc /\ ProgramCounter' = pc' /\ pc \in Starts
      /\ UNCHANGED <<temps, depth0>>
  BY ExecuteKeeps
<1>2. ~Arrived
  BY <1>1 DEF Arrived, Planted, PlantedInv
<1>3. /\ depth \in Nat /\ depth <= MaxDepth /\ depth0 \in Nat /\ MaxDepth \in Nat
      /\ stack \in [1 .. MaxDepth -> Address]
  BY DebuggeeAssumption DEF IInv, TypeOK, ProgramTypeOK
<1>4. /\ pc' \in Starts
      /\ \A i \in DOMAIN temps : temps[i].address \in Starts
  <2>1. temps \in Seq(Temporary) /\ DOMAIN temps = 1 .. Len(temps)
    BY DEF IInv, TypeOK
  <2>2. \A i \in DOMAIN temps : temps[i] \in Temporary
    BY <2>1
  <2> QED  BY <2>2, ExecuteOK DEF IInv, TypeOK, PCInv, Temporary
<1>5. /\ Level[pc] \in Nat /\ Level[pc'] \in Nat
      /\ \A i \in DOMAIN temps : Level[temps[i].address] \in Nat
      /\ CallsRanked(Level)
  BY <1>1, <1>4, LevelOK
<1>6. Instr[pc].op = "call" => Instr[pc].ret \in Starts /\ Level[Instr[pc].ret] \in Nat
  BY <1>1, DebuggeeAssumption, LevelOK
<1>7. ASSUME Flow, InPrologue  PROVE (InPrologue \/ Arrived)'
  <2>1. /\ pc' \in Instr[pc].next /\ UNCHANGED depth /\ pc \in Prologue /\ depth = depth0
        /\ \A w \in Walked(pc) : Planted(w)
    BY <1>1, <1>7 DEF Flow, InPrologue
  <2>2. pc' \in Walked(pc) \/ (pc' \in Prologue /\ Walked(pc') \subseteq Walked(pc))
    BY <2>1, PrologueLeads DEF LeadsToWalk
  <2>3. \A w \in Walked(pc) : \E i \in DOMAIN temps : temps[i].address = w
    BY <2>1 DEF Planted
  <2>4. CASE pc' \in Walked(pc)
    BY <1>1, <1>3, <2>1, <2>3, <2>4 DEF Arrived, Planted
  <2>5. CASE pc' \in Prologue /\ Walked(pc') \subseteq Walked(pc)
    BY <1>1, <2>1, <2>3, <2>5 DEF InPrologue, Planted
  <2> QED  BY <2>2, <2>4, <2>5
<1>8. ASSUME Flow, InCallee \/ InFunction  PROVE (InCallee \/ InFunction)'
  <2>1. UNCHANGED <<depth, stack>> /\ Level[pc] <= Level[pc']
    BY <1>1, <1>5, <1>8 DEF Flow, CallsRanked
  <2>2. ReturnPlanted'
    BY <1>1, <1>8, <2>1 DEF InCallee, InFunction, ReturnPlanted, Planted
  <2>3. CASE InCallee
    BY <1>1, <2>1, <2>2, <2>3 DEF InCallee, NoneBelow
  <2>4. CASE InFunction
    <3>1. depth = depth0 /\ \A i \in DOMAIN temps : Level[temps[i].address] <= Level[pc']
      BY <1>1, <1>5, <2>1, <2>4 DEF InFunction, NoneBelow
    <3> QED  BY <1>1, <2>1, <2>2, <3>1 DEF InFunction, NoneBelow
  <2> QED  BY <1>8, <2>3, <2>4
<1>9. ASSUME Call, InCallee \/ InFunction  PROVE InCallee'
  <2> DEFINE r == Instr[pc].ret
  <2>1. /\ depth' = depth + 1 /\ depth < MaxDepth /\ stack' = [stack EXCEPT ![depth + 1] = r]
        /\ Level[pc] <= Level[r] /\ Level[r] \in Nat
    BY <1>1, <1>5, <1>6, <1>9 DEF Call, CallsRanked
  <2> HIDE DEF r
  <2>2. depth0 <= depth /\ ReturnPlanted
    BY <1>3, <1>9 DEF InCallee, InFunction
  <2>3. stack'[depth + 1] = r /\ \A i \in 1 .. depth : stack'[i] = stack[i]
    BY <1>3, <2>1
  <2>4. ReturnPlanted'
    <3>1. depth0 > 0 => stack'[depth0] = stack[depth0]
      BY <1>3, <2>2, <2>3
    <3> QED  BY <1>1, <2>2, <3>1 DEF ReturnPlanted, Planted
  <2>5. \A i \in DOMAIN temps : Level[temps[i].address] <= Level[stack'[depth0 + 1]]
    <3>1. CASE InCallee
      <4>1. stack'[depth0 + 1] = stack[depth0 + 1]
        BY <1>3, <2>3, <3>1 DEF InCallee
      <4> QED  BY <3>1, <4>1 DEF InCallee, NoneBelow
    <3>2. CASE InFunction
      BY <1>1, <1>5, <2>1, <2>3, <3>2 DEF InFunction, NoneBelow
    <3> QED  BY <1>9, <3>1, <3>2
  <2>6. depth0 < depth'
    BY <1>3, <2>1, <2>2
  <2> QED  BY <1>1, <2>4, <2>5, <2>6 DEF InCallee, NoneBelow
<1>10. ASSUME Return, InCallee \/ InFunction  PROVE (InCallee \/ InFunction \/ Arrived)'
  <2>1. depth > 0 /\ pc' = stack[depth] /\ depth' = depth - 1 /\ stack' = stack
    BY <1>10 DEF Return
  <2>2. CASE InCallee
    <3>1. ReturnPlanted'
      BY <1>1, <2>1, <2>2 DEF InCallee, ReturnPlanted, Planted
    <3>2. depth0 < depth /\ \A i \in DOMAIN temps : Level[temps[i].address] <= Level[stack[depth0 + 1]]
      BY <2>2 DEF InCallee, NoneBelow
    <3>3. CASE depth = depth0 + 1
      BY <1>1, <1>3, <2>1, <3>1, <3>2, <3>3 DEF InFunction, NoneBelow
    <3>4. CASE depth # depth0 + 1
      <4>1. depth0 < depth'
        BY <1>3, <2>1, <3>2, <3>4
      <4> QED  BY <1>1, <2>1, <3>1, <3>2, <4>1 DEF InCallee, NoneBelow
    <3> QED  BY <3>3, <3>4
  <2>3. CASE InFunction
    <3>1. depth0 > 0 /\ depth = depth0 /\ Planted(stack[depth])
      BY <2>1, <2>3 DEF InFunction, ReturnPlanted
    <3>2. depth' <= depth0
      BY <1>3, <2>1, <3>1
    <3> QED  BY <1>1, <2>1, <3>1, <3>2 DEF Arrived, Planted
  <2> QED  BY <1>10, <2>2, <2>3
<1>11. InPrologue => Flow
  <2>1. InPrologue => Instr[pc].op = "flow"
    BY <1>1, PrologueLeads DEF InPrologue, LeadsToWalk
  <2> QED  BY <2>1 DEF Execute, Call, Return
<1>12. InCaller => (InCaller \/ Arrived)'
  BY <1>1, CallerExecute DEF SessionInv
<1> QED  BY <1>2, <1>7, <1>8, <1>9, <1>10, <1>11, <1>12 DEF Execute

\* `over' does not stop in a callee.
LEMMA OverStep ==
  ASSUME NoRecursion, Disturb \subseteq {"kill"},
         IInv, SessionInv, PlantedInv, OverInv, [Next]_vars, [OverInReach]_vars
  PROVE  OverInv'
<1>1. CASE Elsewhere'
  BY <1>1 DEF Elsewhere, OverInv, OverStaysInFrame, Underway
<1>2. CASE Quiet
  <2>1. ASSUME Underway', cmd' = "over"
        PROVE  (InCallee \/ InFunction \/ InPrologue \/ InCaller \/ Arrived)'
    <3>1. InCallee \/ InFunction \/ InPrologue \/ InCaller \/ Arrived
      BY <1>2, <2>1 DEF Quiet, OverInv
    <3> QED  BY <1>2, <3>1
             DEF Quiet, InCallee, InFunction, InPrologue, InCaller, Arrived, NoneBelow, ReturnPlanted, Planted
  <2>2. OverStaysInFrame'
    BY <1>2 DEF Quiet, OverInv, OverStaysInFrame, UserAt
  <2> QED  BY <2>1, <2>2 DEF OverInv
<1>3. CASE CommandStepOut
  BY <1>3 DEF CommandStepOut, Prompt, OverInv, OverStaysInFrame
<1>4. CASE CommandStepOver
  <2>1. CASE ctl' = "failed"
    BY <2>1 DEF OverInv, OverStaysInFrame, Underway
  <2>2. CASE OverInReach
    BY <1>4, <2>1, <2>2, OverStarts
  <2>3. CASE UNCHANGED vars
    <3>1. ctl' = ctl /\ ctl = "prompt"
      BY <1>4, <2>3 DEF vars, debuggerVars, CommandStepOver, Prompt
    <3> QED  BY <1>4, <3>1 DEF CommandStepOver, Continue, SingleStepInstruction
  <2> QED  BY <2>2, <2>3
<1>5. CASE ContinueStopped
  <2> SUFFICES ASSUME Alive, cmd = "over", ~UserAt(pc')
               PROVE  depth <= depth0
    <3>1. Alive' = Alive /\ ~Underway' /\ UNCHANGED <<cmd, slots, depth, depth0>>
      BY <1>5 DEF ContinueStopped, ReportAt, Underway, Alive, history
    <3> QED  BY <3>1 DEF OverInv, OverStaysInFrame, UserAt
  <2>1. Planted(ProgramCounter) /\ Underway
    BY <1>5, StopsAt
  <2>2. PICK i \in DOMAIN temps : temps[i].address = ProgramCounter
    BY <2>1 DEF Planted
  <2>3. ~InCallee
    <3> SUFFICES ASSUME InCallee  PROVE FALSE
      OBVIOUS
    <3>1. depth0 + 1 \in 1 .. depth
      BY DebuggeeAssumption DEF InCallee, IInv, TypeOK, ProgramTypeOK
    <3>2. Level[ProgramCounter] <= Level[stack[depth0 + 1]]
      BY <2>2 DEF InCallee, NoneBelow
    <3> QED  BY <3>1, <3>2, LevelRanks, StackRanked DEF SessionInv
  <2>5. ASSUME InCaller, depth0 < depth  PROVE FALSE
    <3>1. PICK L \in Rankings : \A j \in DOMAIN temps :
            L[temps[j].address]
              <= L[IF depth < depth0 THEN ProgramCounter ELSE stack[depth0]] + 1
      BY <2>5 DEF InCaller
    <3>2. /\ depth0 \in 1 .. depth /\ depth0 + 1 \in 1 .. depth /\ ~(depth < depth0)
          /\ depth0 < depth0 + 1
      BY <2>5, DebuggeeAssumption DEF InCaller, IInv, TypeOK, ProgramTypeOK
    <3>3. L[ProgramCounter] <= L[stack[depth0]] + 1
      BY <2>2, <3>1, <3>2
    <3>4. L[stack[depth0]] < L[stack[depth0 + 1]]
      BY <3>2 DEF SessionInv, LevelInv, Ascends
    <3>5. /\ L[stack[depth0]] \in Nat /\ L[stack[depth0 + 1]] \in Nat
          /\ L[ProgramCounter] \in Nat /\ L[stack[depth0 + 1]] < L[ProgramCounter]
      BY <3>2, StackRanked DEF SessionInv
    <3> QED  BY <3>3, <3>4, <3>5
  <2>4. depth \in Nat /\ depth0 \in Nat
    BY DebuggeeAssumption DEF IInv, TypeOK, ProgramTypeOK
  <2> QED  BY <2>1, <2>3, <2>4, <2>5 DEF OverInv, InFunction, InPrologue, InCaller, Arrived
<1>6. CASE TargetExecute /\ Execute
  <2> SUFFICES ASSUME Underway, cmd = "over"
               PROVE  (InCallee \/ InFunction \/ InPrologue \/ InCaller \/ Arrived)'
    BY <1>6, ExecuteKeeps DEF OverInv, OverStaysInFrame
  <2> QED  BY <1>6, OverExecute DEF OverInv
<1> QED  BY <1>1, <1>2, <1>3, <1>4, <1>5, <1>6, StepKinds

-----------------------------------------------------------------------------
(* The theorems on the stepping commands                                   *)

\* Before the first command there is nothing to say of one.
LEMMA CommandInit == Init => PlantedInv /\ MovesInv /\ OutInv /\ OverInv
BY DEF Init, PlantedInv, MovesInv, OutInv, OverInv, Underway, CommandMoves, OutLeavesFrame,
       OverStaysInFrame, RunCommand

\* A command that runs the debuggee and comes back to the prompt has executed
\* at least one of its instructions: it does not report the breakpoint it
\* started from, nor one of its own at that place (Debugger.h:322-330, 338-342,
\* 390-415).
THEOREM EachCommandMoves ==
  ASSUME NoRecursion, Disturb \subseteq {"kill"}
  PROVE  Spec => []CommandMoves
<1>1. Init => IInv /\ SessionInv /\ PlantedInv /\ MovesInv
  BY InitOK, SessionInit, CommandInit
<1>2. /\ IInv /\ SessionInv /\ PlantedInv /\ MovesInv
      /\ [Next]_vars
      => (IInv /\ SessionInv /\ PlantedInv /\ MovesInv)'
  BY Inductive, SessionInductive, MovesStep
<1>3. MovesInv => CommandMoves
  BY DEF MovesInv
<1> QED  BY <1>1, <1>2, <1>3, PTL DEF Spec

\* Every step keeps the whole invariant.
THEOREM CommandInductive ==
  ASSUME NoRecursion, Disturb \subseteq {"kill"}
  PROVE  IInv /\ SessionInv /\ CommandInv /\ [Next]_vars /\ [OverInReach]_vars => CommandInv'
<1> SUFFICES ASSUME IInv, SessionInv, CommandInv, [Next]_vars, [OverInReach]_vars
             PROVE  CommandInv'
  OBVIOUS
<1> QED  BY MovesStep, OutStep, OverStep DEF CommandInv

\* `out' comes back with the function left, unless a breakpoint of the table
\* was met before: the return address it waits at is reached by no function
\* that the one it leaves calls (Debugger.h:332-345).
THEOREM OutLeaves ==
  ASSUME NoRecursion, Disturb \subseteq {"kill"}
  PROVE  Spec => []OutLeavesFrame
<1>1. Init => IInv /\ SessionInv /\ PlantedInv /\ MovesInv /\ OutInv
  BY InitOK, SessionInit, CommandInit
<1>2. /\ IInv /\ SessionInv /\ PlantedInv /\ MovesInv /\ OutInv
      /\ [Next]_vars
      => (IInv /\ SessionInv /\ PlantedInv /\ MovesInv /\ OutInv)'
  BY Inductive, SessionInductive, MovesStep, OutStep
<1>3. OutInv => OutLeavesFrame
  BY DEF OutInv
<1> QED  BY <1>1, <1>2, <1>3, PTL DEF Spec

\* `over' does not stop inside a call made by the line it steps over, unless
\* a breakpoint of the table is there (Debugger.h:347-420), if where rbp is the
\* caller's it is typed in a prologue that leads into the walk, or in an epilogue
\* of a function that its caller does not reach through another one.
THEOREM OverStays ==
  ASSUME NoRecursion, Disturb \subseteq {"kill"}
  PROVE  Spec /\ [][OverInReach]_vars => []OverStaysInFrame
<1>1. Init => IInv /\ SessionInv /\ CommandInv
  BY InitOK, SessionInit, CommandInit DEF CommandInv
<1>2. /\ IInv /\ SessionInv /\ CommandInv
      /\ [Next]_vars /\ [OverInReach]_vars
      => (IInv /\ SessionInv /\ CommandInv)'
  BY Inductive, SessionInductive, CommandInductive
<1>3. CommandInv => OverStaysInFrame
  BY DEF CommandInv, OverInv
<1> QED  BY <1>1, <1>2, <1>3, PTL DEF Spec

=============================================================================
