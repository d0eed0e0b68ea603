------------------------------ MODULE FrameMap ------------------------------
(***************************************************************************)
(* FDE_PC_Map of Frame.h: CreateFDEPCMap collects the FDEs of .debug_frame *)
(* in the order of the section, meaning to keep them sorted by the address *)
(* they start at, and FindFDE looks an address up by bisection.            *)
(*                                                                         *)
(* The map is two parallel arrays; an FDE is named by the address it       *)
(* starts at, so a pair that is out of step shows.  PCs[i] of the code is  *)
(* PCs[i + 1] here.  X_Y is X with a mistake in it.                        *)
(***************************************************************************)
EXTENDS Integers, Sequences

CONSTANTS
  Locations,  \* addresses at which FDEs start
  MaxFDEs,    \* bound on their number
  Addresses,  \* addresses that are looked up
  MaxU64,     \* MAX_u64
  U32         \* number of values of a u32

ASSUME FrameMapAssumption ==
  /\ MaxU64 \in Nat /\ U32 \in Nat /\ MaxFDEs \in Nat
  /\ Locations \subseteq 0 .. MaxU64 - 1
  /\ Addresses \subseteq 0 .. MaxU64 - 1
  /\ 2 * MaxFDEs + 2 < U32

VARIABLES
  phase,         \* build, idle, search, or ended by a read outside the arrays
  PCs,           \* frameMap->PCs
  FDEAddresses,  \* frameMap->FDEAddresses
  pc,            \* FindFDE's argument
  low, high,     \* the interval left to search
  found          \* the FDE of the last search

vars == <<phase, PCs, FDEAddresses, pc, low, high, found>>
map == <<PCs, FDEAddresses>>

None == MaxU64

TypeOK ==
  /\ phase \in {"build", "idle", "search", "outside"}
  /\ PCs \in Seq(0 .. MaxU64)
  /\ FDEAddresses \in Seq(0 .. MaxU64)
  /\ Len(PCs) = Len(FDEAddresses)
  /\ Len(PCs) <= MaxFDEs + 1
  /\ pc \in Addresses \cup {None}
  /\ low \in 0 .. U32 - 1
  /\ high \in 0 .. U32 - 1
  /\ found \in 0 .. MaxU64

Init ==
  /\ phase = "build"
  /\ PCs = <<>> /\ FDEAddresses = <<>>
  /\ pc = None /\ low = 0 /\ high = 0 /\ found = None

-----------------------------------------------------------------------------
(* CreateFDEPCMap                                                          *)

\* Where an address appended to a sequence ends up: it is moved down past
\* every greater one, but never past the first.
Place_Unsorted(s, a) == Len(s) + 1

Place(s, a) ==
  CHOOSE n \in 1 .. Len(s) + 1 :
    /\ \A i \in n .. Len(s) : s[i] > a
    /\ n <= 2 \/ s[n - 1] <= a
    /\ n = 1 => s = <<>>

Inserted(s, n, a) ==
  [i \in 1 .. Len(s) + 1 |-> IF i < n THEN s[i] ELSE IF i = n THEN a ELSE s[i - 1]]

\* The next object of the section is an FDE.
AddFDE_PCOnly ==
  /\ phase = "build" /\ Len(PCs) < MaxFDEs
  /\ \E a \in Locations :
       /\ \A i \in DOMAIN PCs : PCs[i] # a
       /\ PCs' = Inserted(PCs, Place(PCs, a), a)
       /\ FDEAddresses' = Append(FDEAddresses, a)
  /\ UNCHANGED <<phase, pc, low, high, found>>

AddFDE ==
  /\ phase = "build" /\ Len(PCs) < MaxFDEs
  /\ \E a \in Locations :
       /\ \A i \in DOMAIN PCs : PCs[i] # a
       /\ PCs' = Inserted(PCs, Place(PCs, a), a)
       /\ FDEAddresses' = Inserted(FDEAddresses, Place(PCs, a), a)
  /\ UNCHANGED <<phase, pc, low, high, found>>

\* The section ends: an entry no address reaches closes the map.
CloseMap ==
  /\ phase = "build"
  /\ PCs' = Append(PCs, MaxU64)
  /\ FDEAddresses' = Append(FDEAddresses, MaxU64)
  /\ phase' = "idle"
  /\ UNCHANGED <<pc, low, high, found>>

-----------------------------------------------------------------------------
(* FindFDE                                                                 *)

Search ==
  /\ phase = "idle"
  /\ pc' \in Addresses
  /\ low' = 0 /\ high' = Len(PCs)
  /\ phase' = "search"
  /\ UNCHANGED <<map, found>>

Index == ((low + high) % U32) \div 2

\* The bounds are u32: below 0 comes the largest of them.
Above_Same(index) == index

Above(index) == index + 1

Below(index) == (index - 1) % U32

\* The entry at the index starts at or below the pc.
Starts_Below(index) == PCs[index + 1] < pc

Starts(index) == PCs[index + 1] <= pc

Covers_Start(index) == Starts(index)

Covers_Inside(index) == PCs[index + 1] < pc /\ pc < PCs[index + 2]

Covers(index) == Starts(index) /\ pc <= PCs[index + 2]

\* One turn of the loop.  That its condition never fails, so that the assertion
\* after it is not reached, is NeverEmpty.
Probe ==
  /\ phase = "search" /\ low <= high
  /\ \/ /\ Index >= Len(PCs)
        /\ phase' = "outside"
        /\ UNCHANGED <<low, high, found>>
     \/ /\ Index < Len(PCs) /\ Covers(Index)
        /\ phase' = "idle"
        /\ found' = FDEAddresses[Index + 1]
        /\ UNCHANGED <<low, high>>
     \/ /\ Index < Len(PCs) /\ ~Covers(Index) /\ Starts(Index)
        /\ low' = Above(Index)
        /\ UNCHANGED <<phase, high, found>>
     \/ /\ Index < Len(PCs) /\ ~Starts(Index)
        /\ high' = Below(Index)
        /\ UNCHANGED <<phase, low, found>>
  /\ UNCHANGED <<map, pc>>

Next == AddFDE \/ CloseMap \/ Search \/ Probe

Spec == Init /\ [][Next]_vars

FairSpec == Spec /\ WF_vars(Probe)

-----------------------------------------------------------------------------
(* Properties                                                              *)

Sorted(s) == \A i, j \in DOMAIN s : i < j => s[i] < s[j]

\* The two arrays stay in step however entries are moved (Frame.h:512-517).
MapPaired == PCs = FDEAddresses

\* However the section is ordered, the map is sorted by address (Frame.h:511)
\* behind its first entry, past which the loop moves no other (Frame.h:512);
\* it is sorted as a whole if the section's first FDE is its lowest.
SortedAfterFirst ==
  /\ \A i, j \in DOMAIN PCs : 1 < i /\ i < j => PCs[i] < PCs[j]
  /\ (\A i \in DOMAIN PCs : PCs[1] <= PCs[i]) => Sorted(PCs)

\* The interval left to search is never empty, sorted or not, so the assertion
\* after the loop never fails (Frame.h:453, 467): an address below the first
\* entry leaves the arrays instead.
NeverEmpty == phase = "search" => low <= high

\* An address at or above the first entry is looked up inside the arrays,
\* even in a map that is not sorted (Frame.h:453-465).
SearchInside == pc # None /\ PCs[1] <= pc => phase # "outside"

\* What is found in a sorted map starts at or below the address, and no other
\* FDE starts between the two: only an address at which an FDE starts may be
\* given the FDE before it, for both ends count (Frame.h:456).
FoundNearest ==
  phase = "idle" /\ pc # None /\ Sorted(PCs) =>
    found <= pc /\ \A i \in DOMAIN PCs : ~(found < PCs[i] /\ PCs[i] < pc)

\* A lookup comes to an end (Frame.h:453-465).
SearchEnds == phase = "search" ~> phase # "search"

=============================================================================
