-------------------------- MODULE TempArenas_proofs --------------------------
(***************************************************************************)
(* The temporary arenas, for any number of them, any region and any sizes: *)
(* they never overlap, none is popped under its holder, and all of the     *)
(* region comes back.                                                      *)
(***************************************************************************)
EXTENDS TempArenas, TLAPS

-----------------------------------------------------------------------------
(* The inductive invariant                                                 *)

EndOf(arena) == arena.base + arena.size

\* A stack of arenas that lie one behind the other, the last one ending at u.
Contiguous(A, u) ==
  /\ \A i, j \in 1 .. Len(A) : i < j => EndOf(A[i]) <= A[j].base
  /\ \A i \in 1 .. Len(A) :
       A[i].base = IF i = 1 THEN 0 ELSE EndOf(A[i - 1])
  /\ u = IF A = <<>> THEN 0 ELSE EndOf(A[Len(A)])
  /\ \A i \in 1 .. Len(A) : EndOf(A[i]) <= u

\* How far a caller has come.  Each gives back only what it has taken, and
\* nothing twice.
CallerInv ==
  \/ todo = <<>>
  \/ Len(mine) = 0 /\ todo \in {<<0>>, <<0, 0>>, <<0, 1>>, <<0, 0, 1, 2>>}
  \/ Len(mine) = 1 /\ todo \in {<<0>>, <<1>>, <<0, 1, 2>>}
  \/ Len(mine) = 2 /\ todo \in {<<1, 2>>, <<2>>}

\* The caller that holds `held' still gives back its k-th.
Returns(steps, k) == \E n \in 1 .. Len(steps) : steps[n] = k

\* What it still gives back is in use, and it does so once.
Holds(A, steps, held) ==
  \A k \in 1 .. Len(held) : Returns(steps, k) =>
    /\ held[k] \in 1 .. Len(A) /\ A[held[k]].allocated
    /\ \A l \in 1 .. Len(held) : Returns(steps, l) /\ k # l => held[k] # held[l]

\* Only inside FreeTempArena may the arena on top be free.
TopInv == mode = "idle" /\ arenas # <<>> => Top.allocated

IInv ==
  /\ TypeOK /\ CallerInv /\ TopInv
  /\ Contiguous(arenas, used) /\ used <= TempSize
  /\ Holds(arenas, todo, mine)

LEMMA InitOK == Init => IInv
<1> SUFFICES ASSUME Init PROVE IInv
  OBVIOUS
<1>1. TypeOK
  BY ArenaAssumption DEF Init, TypeOK
<1>2. Contiguous(arenas, used) /\ used <= TempSize /\ TopInv
  BY ArenaAssumption DEF Init, Contiguous, TopInv
<1>3. CallerInv /\ Holds(arenas, todo, mine)
  BY DEF Init, CallerInv, Holds
<1> QED  BY <1>1, <1>2, <1>3 DEF IInv

-----------------------------------------------------------------------------
(* Pushing and popping                                                     *)

LEMMA Fields ==
  ASSUME NEW a \in Arena
  PROVE  /\ a.allocated \in BOOLEAN /\ a.base \in Nat /\ a.size \in Nat
         /\ EndOf(a) \in Nat /\ EndOf(a) = a.base + a.size
BY DEF Arena, EndOf

\* An arena that is marked as free.
LEMMA Freed ==
  ASSUME NEW a \in Arena
  PROVE  /\ [a EXCEPT !.allocated = FALSE] \in Arena
         /\ [a EXCEPT !.allocated = FALSE].base = a.base
         /\ EndOf([a EXCEPT !.allocated = FALSE]) = EndOf(a)
BY DEF Arena, EndOf

\* An arena pushed behind the others.
LEMMA Pushed ==
  ASSUME NEW A \in Seq(Arena), NEW u \in Nat, Contiguous(A, u), NEW size \in Nat,
         NEW new, new = [allocated |-> TRUE, base |-> u, size |-> size]
  PROVE  /\ Append(A, new) \in Seq(Arena)
         /\ Contiguous(Append(A, new), u + size)
<1> DEFINE n == Len(A)
           B == Append(A, new)
<1>1. new \in Arena /\ n \in Nat
  BY DEF Arena
<1>2. B \in Seq(Arena) /\ Len(B) = n + 1 /\ B[n + 1] = new /\ \A i \in 1 .. n : B[i] = A[i]
  BY <1>1
<1>3. \A i \in 1 .. n : EndOf(A[i]) \in Nat /\ A[i].base \in Nat /\ EndOf(A[i]) <= u
  <2>1. \A i \in 1 .. n : A[i] \in Arena
    OBVIOUS
  <2> QED  BY <2>1, Fields DEF Contiguous
<1>4. new.base = u /\ EndOf(new) = u + size
  BY DEF EndOf
<1> HIDE DEF B
<1>5. ASSUME NEW i \in 1 .. n + 1, NEW j \in 1 .. n + 1, i < j
      PROVE  EndOf(B[i]) <= B[j].base
  <2>1. i \in 1 .. n /\ B[i] = A[i]
    BY <1>1, <1>2, <1>5
  <2>2. CASE j = n + 1
    BY <2>1, <2>2, <1>2, <1>3, <1>4
  <2>3. CASE j \in 1 .. n
    BY <2>1, <2>3, <1>2, <1>5 DEF Contiguous
  <2> QED  BY <2>2, <2>3, <1>1
<1>6. ASSUME NEW i \in 1 .. n + 1
      PROVE  B[i].base = IF i = 1 THEN 0 ELSE EndOf(B[i - 1])
  <2>1. CASE i \in 1 .. n
    <3>1. i # 1 => i - 1 \in 1 .. n
      BY <2>1
    <3> QED  BY <2>1, <3>1, <1>2 DEF Contiguous
  <2>2. CASE i = n + 1
    <3>1. B[i].base = IF A = <<>> THEN 0 ELSE EndOf(A[n])
      BY <2>2, <1>2, <1>4 DEF Contiguous
    <3>2. CASE A = <<>>
      BY <2>2, <3>1, <3>2
    <3>3. CASE A # <<>>
      BY <2>2, <3>1, <3>3, <1>1, <1>2
    <3> QED  BY <3>2, <3>3
  <2> QED  BY <2>1, <2>2, <1>1
<1>7. ASSUME NEW i \in 1 .. n + 1
      PROVE  EndOf(B[i]) <= u + size
  <2>1. CASE i \in 1 .. n
    BY <2>1, <1>2, <1>3
  <2>2. CASE i = n + 1
    BY <2>2, <1>2, <1>4
  <2> QED  BY <2>1, <2>2, <1>1
<1>8. B # <<>> /\ EndOf(B[Len(B)]) = u + size
  BY <1>1, <1>2, <1>4 DEF B
<1>9. Contiguous(B, u + size)
  BY <1>1, <1>2, <1>5, <1>6, <1>7, <1>8 DEF Contiguous
<1> QED  BY <1>2, <1>9 DEF B

\* The first m members of a sequence.
LEMMA Front ==
  ASSUME NEW S, NEW s \in Seq(S), NEW m \in 0 .. Len(s)
  PROVE  /\ SubSeq(s, 1, m) \in Seq(S) /\ Len(SubSeq(s, 1, m)) = m
         /\ \A i \in 1 .. m : SubSeq(s, 1, m)[i] = s[i]
<1>1. SubSeq(s, 1, m) \in Seq(S)
  OBVIOUS
<1>2. Len(SubSeq(s, 1, m)) = m
  OBVIOUS
<1>3. \A i \in 1 .. m : SubSeq(s, 1, m)[i] = s[i]
  OBVIOUS
<1> QED  BY <1>1, <1>2, <1>3

\* The arena on top popped.
LEMMA Popped ==
  ASSUME NEW A \in Seq(Arena), NEW u \in Nat, Contiguous(A, u), A # <<>>
  PROVE  /\ SubSeq(A, 1, Len(A) - 1) \in Seq(Arena)
         /\ Len(SubSeq(A, 1, Len(A) - 1)) = Len(A) - 1
         /\ \A i \in 1 .. Len(A) - 1 : SubSeq(A, 1, Len(A) - 1)[i] = A[i]
         /\ u - A[Len(A)].size \in Nat
         /\ u - A[Len(A)].size <= u
         /\ Contiguous(SubSeq(A, 1, Len(A) - 1), u - A[Len(A)].size)
<1> DEFINE n == Len(A)
           B == SubSeq(A, 1, n - 1)
           v == u - A[n].size
<1>1. n \in Nat /\ n # 0 /\ n \in 1 .. n
  OBVIOUS
<1>2. /\ B \in Seq(Arena) /\ Len(B) = n - 1
      /\ \A i \in 1 .. n - 1 : B[i] = A[i]
  <2>1. n - 1 \in 0 .. Len(A)
    BY <1>1
  <2> QED  BY <2>1, Front
<1>3. \A i \in 1 .. n : A[i] \in Arena
  OBVIOUS
<1>4. u = A[n].base + A[n].size
  BY <1>1 DEF Contiguous, EndOf
<1>5. v = A[n].base /\ v \in Nat /\ v <= u
  <2>1. A[n].base \in Nat /\ A[n].size \in Nat
    BY <1>1, <1>3, Fields
  <2> QED  BY <2>1, <1>4
<1> HIDE DEF B, v
<1>6. \A i, j \in 1 .. n - 1 : i < j => EndOf(B[i]) <= B[j].base
  BY <1>1, <1>2 DEF Contiguous
<1>7. \A i \in 1 .. n - 1 : B[i].base = IF i = 1 THEN 0 ELSE EndOf(B[i - 1])
  <2> SUFFICES ASSUME NEW i \in 1 .. n - 1
               PROVE  B[i].base = IF i = 1 THEN 0 ELSE EndOf(B[i - 1])
    OBVIOUS
  <2>1. i \in 1 .. n /\ (i # 1 => i - 1 \in 1 .. n - 1)
    BY <1>1
  <2> QED  BY <2>1, <1>2 DEF Contiguous
<1>8. \A i \in 1 .. n - 1 : EndOf(B[i]) <= v
  BY <1>1, <1>2, <1>5 DEF Contiguous
<1>9. v = IF B = <<>> THEN 0 ELSE EndOf(B[Len(B)])
  <2>1. CASE n = 1
    <3>1. B = <<>>
      BY <2>1, <1>2
    <3>2. A[n].base = 0
      BY <2>1, <1>1 DEF Contiguous
    <3> QED  BY <3>1, <3>2, <1>5
  <2>2. CASE n # 1
    <3>1. B # <<>> /\ n - 1 \in 1 .. n - 1
      BY <2>2, <1>1, <1>2
    <3>2. A[n].base = EndOf(A[n - 1])
      BY <2>2, <1>1 DEF Contiguous
    <3> QED  BY <3>1, <3>2, <1>2, <1>5
  <2> QED  BY <2>1, <2>2
<1>10. Contiguous(B, v)
  BY <1>2, <1>6, <1>7, <1>8, <1>9 DEF Contiguous
<1> QED  BY <1>2, <1>5, <1>10 DEF B, v

\* Arenas that lie where the others lay.
LEMMA Moved ==
  ASSUME NEW A \in Seq(Arena), NEW u \in Nat, Contiguous(A, u),
         NEW B \in Seq(Arena), Len(B) = Len(A),
         \A i \in 1 .. Len(A) : B[i].base = A[i].base /\ EndOf(B[i]) = EndOf(A[i])
  PROVE  Contiguous(B, u)
<1>1. /\ A = <<>> <=> B = <<>>
      /\ \A i \in 1 .. Len(A) : i # 1 => i - 1 \in 1 .. Len(A)
      /\ A # <<>> => Len(A) \in 1 .. Len(A)
  OBVIOUS
<1>2. \A i, j \in 1 .. Len(B) : i < j => EndOf(B[i]) <= B[j].base
  BY DEF Contiguous
<1>3. \A i \in 1 .. Len(B) : B[i].base = IF i = 1 THEN 0 ELSE EndOf(B[i - 1])
  BY <1>1 DEF Contiguous
<1>4. u = IF B = <<>> THEN 0 ELSE EndOf(B[Len(B)])
  BY <1>1 DEF Contiguous
<1>5. \A i \in 1 .. Len(B) : EndOf(B[i]) <= u
  BY DEF Contiguous
<1> QED  BY <1>2, <1>3, <1>4, <1>5 DEF Contiguous

-----------------------------------------------------------------------------
(* The steps                                                               *)

\* The caller's next step is to take an arena.
LEMMA TakeStep ==
  ASSUME CallerInv, todo # <<>>, Head(todo) = Take, mine \in Seq(Nat),
         todo' = Tail(todo), Len(mine') = Len(mine) + 1
  PROVE  CallerInv'
<1>1. todo \notin {<<1>>, <<1, 2>>, <<2>>}
  BY DEF Take
<1>2. \/ Len(mine) = 0 /\ todo \in {<<0>>, <<0, 0>>, <<0, 1>>, <<0, 0, 1, 2>>}
      \/ Len(mine) = 1 /\ todo \in {<<0>>, <<0, 1, 2>>}
  BY <1>1 DEF CallerInv
<1>3. CASE Len(mine) = 0
  <2>1. Len(mine') = 1
    BY <1>3
  <2>2. CASE todo = <<0>>
    BY <2>2, <1>3 DEF CallerInv
  <2>3. CASE todo = <<0, 0>>
    <3>1. todo' = <<0>>
      BY <2>3
    <3> QED  BY <3>1, <2>1 DEF CallerInv
  <2>4. CASE todo = <<0, 1>>
    <3>1. todo' = <<1>>
      BY <2>4
    <3> QED  BY <3>1, <2>1 DEF CallerInv
  <2>5. CASE todo = <<0, 0, 1, 2>>
    <3>1. todo' = <<0, 1, 2>>
      BY <2>5
    <3> QED  BY <3>1, <2>1 DEF CallerInv
  <2> QED  BY <1>2, <1>3, <2>2, <2>3, <2>4, <2>5
<1>4. CASE Len(mine) = 1
  <2>1. Len(mine') = 2
    BY <1>4
  <2>2. CASE todo = <<0>>
    BY <2>2 DEF CallerInv
  <2>3. CASE todo = <<0, 1, 2>>
    <3>1. todo' = <<1, 2>>
      BY <2>3
    <3> QED  BY <3>1, <2>1 DEF CallerInv
  <2> QED  BY <1>2, <1>4, <2>2, <2>3
<1> QED  BY <1>2, <1>3, <1>4

\* Or to give one back that it holds, and that it does not give back again.
LEMMA ReturnStep ==
  ASSUME CallerInv, todo # <<>>, Head(todo) # Take, mine \in Seq(Nat),
         todo' = Tail(todo), Len(mine') = Len(mine)
  PROVE  /\ CallerInv'
         /\ Head(todo) \in 1 .. Len(mine)
         /\ Returns(todo, Head(todo))
         /\ ~Returns(todo', Head(todo))
         /\ \A k : Returns(todo', k) => Returns(todo, k)
<1>1. todo \notin {<<0>>, <<0, 0>>, <<0, 1>>, <<0, 0, 1, 2>>, <<0, 1, 2>>}
  BY DEF Take
<1>2. \/ Len(mine) = 1 /\ todo = <<1>>
      \/ Len(mine) = 2 /\ todo \in {<<1, 2>>, <<2>>}
  BY <1>1 DEF CallerInv
<1>3. CASE Len(mine) = 1 /\ todo = <<1>>
  <2>1. todo' = <<>> /\ Head(todo) = 1 /\ todo[1] = 1 /\ Len(todo) = 1
    BY <1>3
  <2> QED  BY <1>3, <2>1 DEF CallerInv, Returns
<1>4. CASE Len(mine) = 2 /\ todo = <<1, 2>>
  <2>1. /\ todo' = <<2>> /\ Head(todo) = 1
        /\ todo[1] = 1 /\ todo[2] = 2 /\ Len(todo) = 2
        /\ Len(todo') = 1 /\ todo'[1] = 2
    BY <1>4
  <2> QED  BY <1>4, <2>1 DEF CallerInv, Returns
<1>5. CASE Len(mine) = 2 /\ todo = <<2>>
  <2>1. todo' = <<>> /\ Head(todo) = 2 /\ todo[1] = 2 /\ Len(todo) = 1
    BY <1>5
  <2> QED  BY <1>5, <2>1 DEF CallerInv, Returns
<1> QED  BY <1>2, <1>3, <1>4, <1>5

\* What a step that touches neither arenas nor what is held leaves alone.
LEMMA Still ==
  ASSUME IInv, UNCHANGED <<arenas, used, todo, mine>>
  PROVE  /\ CallerInv'
         /\ Contiguous(arenas, used)' /\ (used <= TempSize)'
         /\ Holds(arenas, todo, mine)'
<1>1. CallerInv'
  BY DEF IInv, CallerInv
<1>2. Contiguous(arenas, used)' /\ (used <= TempSize)'
  BY DEF IInv, Contiguous, EndOf
<1>3. Holds(arenas, todo, mine)'
  BY DEF IInv, Holds, Returns
<1> QED  BY <1>1, <1>2, <1>3

LEMMA AllocStep ==
  ASSUME IInv, AllocTempArena
  PROVE  IInv'
<1>1. /\ arenas \in Seq(Arena) /\ used \in Nat /\ TempSize \in Nat
      /\ TempArenaCount \in Nat /\ Len(arenas) <= TempArenaCount
      /\ mine \in Seq(1 .. TempArenaCount) /\ todo \in Seq(0 .. 2)
      /\ todo # <<>> /\ Head(todo) = Take /\ mode = "idle" /\ stage' = stage
  BY ArenaAssumption DEF IInv, TypeOK, AllocTempArena
<1>2. CASE mode' = "failed" /\ UNCHANGED <<arenas, used, mine, todo>>
  <2>1. TypeOK' /\ TopInv'
    BY <1>1, <1>2 DEF IInv, TypeOK, TopInv
  <2> QED  BY <1>2, <2>1, Still DEF IInv
<1>3. ASSUME NEW size \in Sizes,
             Len(arenas) < TempArenaCount, used + size < TempSize,
             arenas' = Append(arenas, [allocated |-> TRUE, base |-> used, size |-> size]),
             used' = used + size,
             mine' = Append(mine, Len(arenas) + 1),
             todo' = Tail(todo), mode' = mode
      PROVE  IInv'
  <2> DEFINE A == arenas
             n == Len(A)
             M == Len(mine)
             new == [allocated |-> TRUE, base |-> used, size |-> size]
             B == Append(A, new)
             held == Append(mine, n + 1)
             steps == Tail(todo)
  <2>1. size \in Nat /\ n \in Nat /\ M \in Nat /\ new \in Arena /\ new.allocated
    BY <1>1, ArenaAssumption DEF Arena
  <2>2. B \in Seq(Arena) /\ Contiguous(B, used + size)
    BY <1>1, <2>1, Pushed DEF IInv
  <2>3. Len(B) = n + 1 /\ B[n + 1] = new /\ \A i \in 1 .. n : B[i] = A[i]
    BY <1>1, <2>1
  <2>4. /\ held \in Seq(1 .. TempArenaCount) /\ Len(held) = M + 1
        /\ held[M + 1] = n + 1 /\ \A k \in 1 .. M : held[k] = mine[k]
    BY <1>1, <1>3, <2>1
  <2>5. /\ steps \in Seq(0 .. 2)
        /\ \A k : Returns(steps, k) => Returns(todo, k)
    <3>1. /\ Len(todo) \in Nat /\ Len(steps) = Len(todo) - 1
          /\ \A m \in 1 .. Len(steps) : m + 1 \in 1 .. Len(todo) /\ steps[m] = todo[m + 1]
          /\ steps \in Seq(0 .. 2)
      BY <1>1
    <3> QED  BY <3>1 DEF Returns
  <2> HIDE DEF new, B, held, steps
  <2>6. Holds(B, steps, held)
    <3>1. \A k \in 1 .. M : Returns(steps, k) =>
            mine[k] \in 1 .. n /\ A[mine[k]].allocated
      BY <2>5 DEF IInv, Holds
    <3>2. ASSUME NEW k \in 1 .. M + 1, Returns(steps, k)
          PROVE  held[k] \in 1 .. n + 1 /\ B[held[k]].allocated
      <4>1. CASE k = M + 1
        BY <4>1, <2>1, <2>3, <2>4
      <4>2. CASE k \in 1 .. M
        BY <4>2, <3>1, <3>2, <2>1, <2>3, <2>4
      <4> QED  BY <4>1, <4>2, <2>1
    <3>3. ASSUME NEW k \in 1 .. M + 1, NEW l \in 1 .. M + 1,
                 Returns(steps, k), Returns(steps, l), k # l
          PROVE  held[k] # held[l]
      <4>1. CASE k \in 1 .. M /\ l \in 1 .. M
        BY <4>1, <3>3, <2>4, <2>5 DEF IInv, Holds
      <4>2. CASE k = M + 1 /\ l \in 1 .. M
        BY <4>2, <3>1, <3>3, <2>1, <2>4
      <4>3. CASE k \in 1 .. M /\ l = M + 1
        BY <4>3, <3>1, <3>3, <2>1, <2>4
      <4> QED  BY <4>1, <4>2, <4>3, <3>3, <2>1
    <3> QED  BY <3>2, <3>3, <2>3, <2>4 DEF Holds
  <2>7. arenas' = B /\ used' = used + size /\ mine' = held /\ todo' = steps
    BY <1>3 DEF B, new, held, steps
  <2>8. TypeOK'
    BY <1>1, <1>3, <2>1, <2>2, <2>3, <2>4, <2>5, <2>7 DEF IInv, TypeOK
  <2>9. CallerInv'
    <3>1. mine \in Seq(Nat)
      BY <1>1
    <3> QED  BY <1>1, <1>3, <2>4, <2>7, <3>1, TakeStep DEF IInv
  <2>10. TopInv'
    BY <2>1, <2>3, <2>7 DEF TopInv, Top
  <2>11. (used <= TempSize)'
    BY <1>1, <1>3, <2>1, <2>7
  <2> QED  BY <2>2, <2>6, <2>7, <2>8, <2>9, <2>10, <2>11 DEF IInv
<1> QED  BY <1>1, <1>2, <1>3 DEF AllocTempArena, PushBytes

LEMMA FreeStep ==
  ASSUME IInv, FreeTempArena
  PROVE  IInv'
<1> DEFINE k0 == Head(todo)
           m == mine[k0]
<1>1. /\ arenas \in Seq(Arena) /\ used \in Nat /\ Len(arenas) \in Nat
      /\ mine \in Seq(1 .. TempArenaCount) /\ todo \in Seq(0 .. 2)
      /\ todo # <<>> /\ k0 # Take /\ TempArenaCount \in Nat
      /\ UNCHANGED <<used, stage, mine>> /\ todo' = Tail(todo)
  BY ArenaAssumption DEF IInv, TypeOK, FreeTempArena
<1>2. /\ CallerInv' /\ k0 \in 1 .. Len(mine)
      /\ Returns(todo, k0) /\ ~Returns(todo', k0)
      /\ \A k : Returns(todo', k) => Returns(todo, k)
  <2>1. mine \in Seq(Nat)
    BY <1>1
  <2> QED  BY <1>1, <2>1, ReturnStep DEF IInv
<1>3. m \in 1 .. Len(arenas) /\ todo' \in Seq(0 .. 2)
  BY <1>1, <1>2 DEF IInv, Holds
<1>4. arenas' = [arenas EXCEPT ![m].allocated = FALSE] /\ mode' = "freeing"
  BY <1>1, <1>3 DEF FreeTempArena
<1>5. /\ arenas' \in Seq(Arena) /\ Len(arenas') = Len(arenas)
      /\ Contiguous(arenas', used)
      /\ \A i \in 1 .. Len(arenas) : i # m => arenas'[i] = arenas[i]
  <2> DEFINE free == [arenas[m] EXCEPT !.allocated = FALSE]
  <2>1. free \in Arena /\ free.base = arenas[m].base /\ EndOf(free) = EndOf(arenas[m])
    <3>1. arenas[m] \in Arena
      BY <1>1, <1>3
    <3> QED  BY <3>1, Freed
  <2>2. arenas' = [arenas EXCEPT ![m] = free]
    BY <1>4
  <2> HIDE DEF m, free
  <2>3. /\ arenas' \in Seq(Arena) /\ Len(arenas') = Len(arenas)
        /\ arenas'[m] = free
        /\ \A i \in 1 .. Len(arenas) : i # m => arenas'[i] = arenas[i]
    <3>1. arenas \in [1 .. Len(arenas) -> Arena]
      BY <1>1
    <3>2. arenas' \in [1 .. Len(arenas) -> Arena]
      BY <3>1, <2>1, <2>2
    <3> QED  BY <1>1, <1>3, <3>1, <3>2, <2>2
  <2>4. /\ Contiguous(arenas, used)
        /\ \A i \in 1 .. Len(arenas) :
             arenas'[i].base = arenas[i].base /\ EndOf(arenas'[i]) = EndOf(arenas[i])
    BY <2>1, <2>3 DEF IInv
  <2> QED  BY <1>1, <2>3, <2>4, Moved
<1>6. TypeOK' /\ TopInv' /\ (used <= TempSize)' /\ used' = used
  BY <1>1, <1>3, <1>4, <1>5 DEF IInv, TypeOK, TopInv
<1>7. Holds(arenas, todo, mine)'
  <2>1. ASSUME NEW k \in 1 .. Len(mine), Returns(todo', k)
        PROVE  /\ mine[k] \in 1 .. Len(arenas') /\ arenas'[mine[k]].allocated
               /\ \A l \in 1 .. Len(mine) :
                    Returns(todo', l) /\ k # l => mine[k] # mine[l]
    <3>1. k # k0 /\ Returns(todo, k)
      BY <1>2, <2>1
    <3>2. mine[k] # m /\ mine[k] \in 1 .. Len(arenas) /\ arenas[mine[k]].allocated
      BY <1>2, <3>1 DEF IInv, Holds
    <3>3. \A l \in 1 .. Len(mine) : Returns(todo', l) /\ k # l => mine[k] # mine[l]
      BY <1>2, <3>1 DEF IInv, Holds
    <3> QED  BY <3>2, <3>3, <1>5
  <2> QED  BY <2>1, <1>1 DEF Holds
<1> QED  BY <1>2, <1>5, <1>6, <1>7 DEF IInv

LEMMA PopStep ==
  ASSUME IInv, FreePop
  PROVE  IInv'
<1> DEFINE n == Len(arenas)
<1>1. /\ arenas \in Seq(Arena) /\ used \in Nat /\ n \in Nat /\ arenas # <<>>
      /\ ~arenas[n].allocated /\ mode' = "freeing" /\ TempSize \in Nat
      /\ arenas' = SubSeq(arenas, 1, n - 1) /\ used' = used - arenas[n].size
      /\ UNCHANGED <<mode, stage, todo, mine>>
  BY ArenaAssumption DEF IInv, TypeOK, FreePop, PopBytes, Top
<1>2. /\ arenas' \in Seq(Arena) /\ Len(arenas') = n - 1
      /\ \A i \in 1 .. n - 1 : arenas'[i] = arenas[i]
      /\ used' \in Nat /\ used' <= used
      /\ Contiguous(arenas', used')
  BY <1>1, Popped DEF IInv
<1>3. TypeOK' /\ TopInv' /\ (used <= TempSize)'
  BY <1>1, <1>2, ArenaAssumption DEF IInv, TypeOK, TopInv
<1>4. CallerInv'
  BY <1>1 DEF IInv, CallerInv
<1>5. Holds(arenas', todo, mine)
  <2>1. \A k \in 1 .. Len(mine) : Returns(todo, k) => mine[k] \in 1 .. n - 1
    BY <1>1 DEF IInv, Holds
  <2> QED  BY <1>1, <1>2, <2>1 DEF IInv, Holds
<1> QED  BY <1>1, <1>2, <1>3, <1>4, <1>5 DEF IInv

LEMMA DoneStep ==
  ASSUME IInv, FreeDone
  PROVE  IInv'
<1>1. TypeOK'
  BY DEF IInv, TypeOK, FreeDone
<1>2. TopInv'
  BY DEF FreeDone, TopInv, Top
<1> QED  BY <1>1, <1>2, Still DEF IInv, FreeDone

\* What the callers do.
Scripts == {<<0>>, <<0, 0>>, <<0, 1>>, <<0, 0, 1, 2>>}

\* A caller starts with nothing in hand.
LEMMA CallStep ==
  ASSUME IInv, NEW from, NEW to \in {"sections", "units", "commands"},
         NEW steps \in Scripts, Call(from, to, steps)
  PROVE  IInv'
<1>1. TypeOK'
  <2>1. steps \in Seq(0 .. 2)
    <3>1. /\ <<0>> \in Seq(0 .. 2)
          /\ <<0, 0>> \in Seq(0 .. 2)
          /\ <<0, 1>> \in Seq(0 .. 2)
      OBVIOUS
    <3>2. <<0, 0, 1, 2>> \in Seq(0 .. 2)
      OBVIOUS
    <3> QED  BY <3>1, <3>2 DEF Scripts
  <2> QED  BY <2>1 DEF IInv, TypeOK, Call
<1>2. CallerInv' /\ TopInv'
  BY DEF IInv, CallerInv, TopInv, Top, Call, Scripts
<1>3. Contiguous(arenas, used)' /\ (used <= TempSize)'
  BY DEF IInv, Contiguous, EndOf, Call
<1>4. Holds(arenas, todo, mine)'
  BY DEF Holds, Call
<1> QED  BY <1>1, <1>2, <1>3, <1>4 DEF IInv

LEMMA Inductive == IInv /\ [Next]_vars => IInv'
<1> SUFFICES ASSUME IInv, [Next]_vars PROVE IInv'
  OBVIOUS
<1>1. CASE AllocTempArena
  BY <1>1, AllocStep
<1>2. CASE FreeTempArena
  BY <1>2, FreeStep
<1>3. CASE FreePop
  BY <1>3, PopStep
<1>4. CASE FreeDone
  BY <1>4, DoneStep
<1>5. CASE DwarfSectionsToFile
  <2>1. Call("sections", "units", <<0, 1>>)
    BY <1>5 DEF DwarfSectionsToFile, Take
  <2>2. <<0, 1>> \in Scripts
    BY DEF Scripts
  <2> QED  BY <2>1, <2>2, CallStep
<1>6. CASE ParseDwarfAbbrev
  <2>1. Call("units", "units", <<0, 0, 1, 2>>)
    BY <1>6 DEF ParseDwarfAbbrev, Take
  <2>2. <<0, 0, 1, 2>> \in Scripts
    BY DEF Scripts
  <2> QED  BY <2>1, <2>2, CallStep
<1>7. CASE CreateFDEPCMap
  <2>1. Call("units", "commands", <<0, 0>>)
    BY <1>7 DEF CreateFDEPCMap, Take
  <2>2. <<0, 0>> \in Scripts
    BY DEF Scripts
  <2> QED  BY <2>1, <2>2, CallStep
<1>8. CASE StepOver
  <2>1. Call("commands", "commands", <<0>>)
    BY <1>8 DEF StepOver, Take
  <2>2. <<0>> \in Scripts
    BY DEF Scripts
  <2> QED  BY <2>1, <2>2, CallStep
<1>9. CASE PrintSourcePosition
  <2>1. Call("commands", "commands", <<0, 1>>)
    BY <1>9 DEF PrintSourcePosition, Take
  <2>2. <<0, 1>> \in Scripts
    BY DEF Scripts
  <2> QED  BY <2>1, <2>2, CallStep
<1>10. CASE UNCHANGED vars
  <2>1. TypeOK' /\ TopInv'
    BY <1>10 DEF IInv, TypeOK, TopInv, Top, vars
  <2> QED  BY <1>10, <2>1, Still DEF IInv, vars
<1> QED
  BY <1>1, <1>2, <1>3, <1>4, <1>5, <1>6, <1>7, <1>8, <1>9, <1>10 DEF Next

-----------------------------------------------------------------------------
(* The theorems                                                            *)

\* The inductive invariant holds in every state.
THEOREM Invariance == Spec => []IInv
BY InitOK, Inductive, PTL DEF Spec

\* No number of arenas, size or order of callers takes a variable out of its
\* type: in particular used never falls below 0.
THEOREM TypeCorrect == Spec => []TypeOK
<1>1. IInv => TypeOK
  BY DEF IInv
<1> QED  BY <1>1, Invariance, PTL

\* No byte belongs to two arenas and none lies outside the region
\* (Memory_Managment.c:21-49).
THEOREM Disjoint == Spec => []ArenasDisjoint
<1>1. IInv => ArenasDisjoint
  <2> SUFFICES ASSUME IInv PROVE ArenasDisjoint
    OBVIOUS
  <2>1. arenas \in Seq(Arena) /\ DOMAIN arenas = 1 .. Len(arenas)
    BY DEF IInv, TypeOK
  <2> QED  BY <2>1 DEF IInv, Contiguous, EndOf, End, ArenasDisjoint
<1> QED  BY <1>1, Invariance, PTL

\* What a caller still has to give back is in use (Memory_Managment.c:40-48).
THEOREM HoldersKeep == Spec => []HeldInUse
<1>1. IInv => HeldInUse
  <2> SUFFICES ASSUME IInv PROVE HeldInUse
    OBVIOUS
  <2>1. /\ DOMAIN arenas = 1 .. Len(arenas) /\ DOMAIN mine = 1 .. Len(mine)
        /\ DOMAIN todo = 1 .. Len(todo)
    BY DEF IInv, TypeOK
  <2> QED  BY <2>1 DEF IInv, Holds, Returns, HeldInUse
<1> QED  BY <1>1, Invariance, PTL

\* Whatever the order in which arenas are given back, all of their memory
\* comes back with them (Memory_Managment.c:40-48).
THEOREM AllReclaimed == Spec => []Reclaimed
<1>1. IInv => Reclaimed
  BY DEF IInv, TopInv, Contiguous, Reclaimed
<1> QED  BY <1>1, Invariance, PTL

=============================================================================
