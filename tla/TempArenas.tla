----------------------------- MODULE TempArenas -----------------------------
(***************************************************************************)
(* The temporary arenas of Memory_Managment.c: a stack of blocks cut from  *)
(* one region of memory, given back in any order and popped once the top   *)
(* of the stack is free; and the callers that take and give them.          *)
(*                                                                         *)
(* FreeTempArena's loop is one action per turn.  Arena numbers are the     *)
(* code's indices plus one.  X_Y is X with a mistake in it.                *)
(***************************************************************************)
EXTENDS Naturals, Sequences

CONSTANTS
  TempArenaCount,  \* TEMP_ARENA_COUNT: arenas there can be
  TempSize,        \* temp_size: bytes they can have together
  Sizes            \* sizes that are asked for

ASSUME ArenaAssumption ==
  /\ TempArenaCount \in Nat
  /\ TempSize \in Nat
  /\ Sizes \subseteq Nat

VARIABLES
  arenas,  \* globalMem.temp.tempArenas
  used,    \* globalMem.temp.arena.used
  mode,    \* idle, in FreeTempArena's loop, or ended by an assertion
  stage,   \* how far DebuggerLoop has come
  todo,    \* what the running caller still does: Take, or give back its i-th
  mine     \* the arenas the running caller was given

vars == <<arenas, used, mode, stage, todo, mine>>

Take == 0
Arena == [allocated : BOOLEAN, base : Nat, size : Nat]

TypeOK ==
  /\ arenas \in Seq(Arena)
  /\ Len(arenas) <= TempArenaCount
  /\ used \in Nat
  /\ mode \in {"idle", "freeing", "failed"}
  /\ stage \in {"sections", "units", "commands"}
  /\ todo \in Seq(0 .. 2)
  /\ mine \in Seq(1 .. TempArenaCount)

Init ==
  /\ arenas = <<>> /\ used = 0
  /\ mode = "idle"
  /\ stage = "sections"
  /\ todo = <<>> /\ mine = <<>>

-----------------------------------------------------------------------------
(* The allocator                                                           *)

\* What is used once `size' bytes have been pushed.
PushBytes_Kept(size) == used

PushBytes(size) == used + size

AllocTempArena ==
  /\ mode = "idle" /\ todo # <<>> /\ Head(todo) = Take
  /\ \E size \in Sizes :
       \/ /\ Len(arenas) < TempArenaCount /\ used + size < TempSize
          /\ arenas' = Append(arenas, [allocated |-> TRUE, base |-> used, size |-> size])
          /\ used' = PushBytes(size)
          /\ mine' = Append(mine, Len(arenas) + 1)
          /\ todo' = Tail(todo)
          /\ UNCHANGED mode
       \/ /\ Len(arenas) >= TempArenaCount \/ used + size >= TempSize
          /\ mode' = "failed"
          /\ UNCHANGED <<arenas, used, mine, todo>>
  /\ UNCHANGED stage

FreeTempArena ==
  /\ mode = "idle" /\ todo # <<>> /\ Head(todo) # Take
  /\ LET i == mine[Head(todo)] IN
       \/ /\ i <= Len(arenas)
          /\ arenas' = [arenas EXCEPT ![i].allocated = FALSE]
          /\ mode' = "freeing"
       \/ /\ i > Len(arenas)
          /\ mode' = "failed"
          /\ UNCHANGED arenas
  /\ todo' = Tail(todo)
  /\ UNCHANGED <<used, stage, mine>>

Top == arenas[Len(arenas)]

\* What is used once the arena on top has gone.
PopBytes_Kept == used

PopBytes == used - Top.size

FreePop_Any ==
  /\ mode = "freeing" /\ arenas # <<>>
  /\ arenas' = SubSeq(arenas, 1, Len(arenas) - 1)
  /\ used' = PopBytes
  /\ UNCHANGED <<mode, stage, todo, mine>>

\* One turn of the loop: the arena on top is free and goes.
FreePop ==
  /\ mode = "freeing" /\ arenas # <<>> /\ ~Top.allocated
  /\ arenas' = SubSeq(arenas, 1, Len(arenas) - 1)
  /\ used' = PopBytes
  /\ UNCHANGED <<mode, stage, todo, mine>>

\* The loop ends: the arena on top is in use, or there is none.
FreeDone ==
  /\ mode = "freeing" /\ (arenas # <<>> => Top.allocated)
  /\ mode' = "idle"
  /\ UNCHANGED <<arenas, used, stage, todo, mine>>

-----------------------------------------------------------------------------
(* Its callers, in the order DebuggerLoop has them                         *)

Call(from, to, steps) ==
  /\ mode = "idle" /\ todo = <<>>
  /\ stage = from
  /\ stage' = to
  /\ todo' = steps
  /\ mine' = <<>>
  /\ UNCHANGED <<arenas, used, mode>>

DwarfSectionsToFile == Call("sections", "units", <<Take, 1>>)

\* Two arenas, given back in the order they were taken.
ParseDwarfAbbrev == Call("units", "units", <<Take, Take, 1, 2>>)

\* Keeps both.
CreateFDEPCMap == Call("units", "commands", <<Take, Take>>)

\* Keeps the arena of its breakpoints.
StepOver == Call("commands", "commands", <<Take>>)

PrintSourcePosition == Call("commands", "commands", <<Take, 1>>)

Next ==
  \/ AllocTempArena \/ FreeTempArena \/ FreePop \/ FreeDone
  \/ DwarfSectionsToFile \/ ParseDwarfAbbrev \/ CreateFDEPCMap
  \/ StepOver \/ PrintSourcePosition

Spec == Init /\ [][Next]_vars

-----------------------------------------------------------------------------
(* Properties                                                              *)

End(i) == arenas[i].base + arenas[i].size

\* No byte belongs to two arenas that are in use, and none lies outside the
\* region: a caller's data is not written over by a later one, though freed
\* arenas below the top keep their bytes (Memory_Managment.c:21-49).
ArenasDisjoint ==
  \A i, j \in DOMAIN arenas :
    i < j => End(i) <= arenas[j].base /\ End(j) <= used /\ used <= TempSize

\* What a caller has taken and not given back is an arena in use: arenas that
\* are popped are nobody's (Memory_Managment.c:40-48).
HeldInUse ==
  \A k \in DOMAIN mine :
    (mode = "idle" /\ todo # <<>> /\ \E n \in DOMAIN todo : todo[n] = k)
      => mine[k] \in DOMAIN arenas /\ arenas[mine[k]].allocated

\* Memory that was given back comes back, whatever the order: between two
\* calls the top of the stack is in use, and with no arena in use all of the
\* region is free again (Memory_Managment.c:40-48).
Reclaimed ==
  /\ mode = "idle" /\ arenas # <<>> => Top.allocated
  /\ arenas = <<>> => used = 0

\* An allocation always finds a free arena and enough bytes: the assertions
\* Memory_Managment.c:15 and 22.
NeverExhausted == mode # "failed"

=============================================================================
