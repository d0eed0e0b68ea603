------------------------- MODULE LineProgram_proofs -------------------------
(***************************************************************************)
(* What Dwarf_line.h builds and finds, for any number of units with any    *)
(* files and any line-number programs.                                     *)
(*                                                                         *)
(*   1. Every file of every header gets a number that names it, and but    *)
(*      for number 0 no file has two.                                      *)
(*   2. The rows of every table are those its program means.  The          *)
(*      invariant says of the registers, at every instruction of the       *)
(*      program that runs, that they hold the totals of its sequence.      *)
(*   3. What the lookups find in the tables follows from what the tables   *)
(*      are: the address to plant a line's breakpoint at, the position     *)
(*      after one, and the line of an address.                             *)
(***************************************************************************)
EXTENDS LineProgram, WellFoundedInduction, FiniteSetTheorems, TLAPS

\* Below every set of numbers that is not empty lies one of its members.
LEMMA HasLeast ==
  ASSUME NEW S, S \subseteq Nat, S # {}
  PROVE  \E s \in S : \A r \in S : s <= r
<1> DEFINE R == OpToRel(<, Nat)
<1>1. IsWellFoundedOn(R, Nat)
  BY NatLessThanWellFounded
<1>2. \A x, y \in Nat : x < y => <<x, y>> \in R
  BY DEF OpToRel
<1> HIDE DEF R
<1>3. PICK s \in S : \A r \in S : <<r, s>> \notin R
  BY <1>1, WFMin
<1>4. \A r \in S : ~(r < s)
  BY <1>2, <1>3
<1> QED  BY <1>4

-----------------------------------------------------------------------------
(* The inductive invariant                                                 *)

\* No unit has more numbers than files.
Short(H, I) == \A u \in 1 .. Len(I) : Len(I[u]) <= Len(H[u])

\* The numbers given so far name the headers' files.
Names(H, F, I) ==
  \A u \in 1 .. Len(I) : \A i \in 1 .. Len(I[u]) :
    I[u][i] + 1 \in 1 .. Len(F) /\ F[I[u][i] + 1] = H[u][i]

Once(F) == \A i, j \in 2 .. Len(F) : F[i] = F[j] => i = j

IInv ==
  /\ project \in Projects
  /\ files \in Seq(Files)
  /\ indices \in Seq(Seq(Nat)) /\ 1 <= Len(indices) /\ Len(indices) <= Len(headers)
  /\ Short(headers, indices)
  /\ Names(headers, files, indices)
  /\ Once(files)

LEMMA HeadersType ==
  ASSUME project \in Projects
  PROVE  headers \in Seq(Seq(Files)) /\ 1 <= Len(headers)
<1>1. headers \in Seq(Seq(Files)) /\ headers # <<>>
  BY LineProgramAssumption DEF headers
<1> QED  BY <1>1

LEMMA InitOK == Init => IInv
<1> SUFFICES ASSUME Init PROVE IInv
  OBVIOUS
<1>1. project \in Projects /\ files = <<>> /\ indices = <<<<>>>>
  BY DEF Init
<1>2. headers \in Seq(Seq(Files)) /\ 1 <= Len(headers)
  BY <1>1, HeadersType
<1>3. /\ indices \in Seq(Seq(Nat)) /\ Len(indices) = 1 /\ Len(indices[1]) = 0
      /\ files \in Seq(Files) /\ Len(files) = 0
  BY <1>1
<1>4. Short(headers, indices) /\ Names(headers, files, indices)
  <2>1. headers[1] \in Seq(Files)
    BY <1>2
  <2> QED  BY <1>3, <2>1 DEF Short, Names
<1>5. Once(files)
  BY <1>3 DEF Once
<1> QED  BY <1>1, <1>2, <1>3, <1>4, <1>5 DEF IInv

-----------------------------------------------------------------------------
(* A file is given its number                                              *)

\* The current unit's numbers get one more, of a file in G, what the project's
\* files have become.
LEMMA OneMore ==
  ASSUME IInv, ~FilesDone, NEW n \in Nat, Numbered(n), NEW G \in Seq(Files),
         \A i \in 1 .. Len(files) : i \in 1 .. Len(G) /\ G[i] = files[i],
         n + 1 \in 1 .. Len(G), G[n + 1] = File
  PROVE  /\ indices' \in Seq(Seq(Nat)) /\ Len(indices') = Len(indices)
         /\ Short(headers, indices') /\ Names(headers, G, indices')
<1> DEFINE c == Len(indices)
           old == indices[c]
           new == Append(old, n)
<1>1. headers \in Seq(Seq(Files)) /\ indices \in Seq(Seq(Nat))
  BY HeadersType DEF IInv
<1>2. c \in Nat /\ c \in 1 .. Len(indices) /\ c \in 1 .. Len(headers)
  BY <1>1 DEF IInv
<1>3. old \in Seq(Nat) /\ headers[c] \in Seq(Files)
  BY <1>1, <1>2
<1>4. indices' = [indices EXCEPT ![c] = new]
  BY DEF Numbered, Current
<1>5. /\ new \in Seq(Nat) /\ Len(new) = Len(old) + 1 /\ new[Len(old) + 1] = n
      /\ \A i \in 1 .. Len(old) : new[i] = old[i]
  BY <1>3
<1>6. Len(old) \in Nat /\ Len(headers[c]) \in Nat
  BY <1>3
<1>7. Len(old) < Len(headers[c])
  <2>1. Len(old) <= Len(headers[c])
    BY <1>2 DEF IInv, Short
  <2>2. Len(old) # Len(headers[c])
    BY DEF FilesDone, Current
  <2> QED  BY <2>1, <2>2, <1>6
<1> HIDE DEF new
<1>8. /\ indices' \in Seq(Seq(Nat)) /\ Len(indices') = c /\ indices'[c] = new
      /\ \A u \in 1 .. c : u # c => indices'[u] = indices[u]
  BY <1>1, <1>2, <1>4, <1>5
<1>9. File = headers[c][Len(old) + 1]
  BY DEF File, Current
<1> HIDE DEF c, old, headers
<1>10. Short(headers, indices')
  <2> SUFFICES ASSUME NEW u \in 1 .. c PROVE Len(indices'[u]) <= Len(headers[u])
    BY <1>8 DEF Short
  <2>1. CASE u = c
    BY <2>1, <1>5, <1>6, <1>7, <1>8
  <2>2. CASE u # c
    BY <2>2, <1>8 DEF IInv, Short, c
  <2> QED  BY <2>1, <2>2
<1>11. Names(headers, G, indices')
  <2> SUFFICES ASSUME NEW u \in 1 .. c, NEW i \in 1 .. Len(indices'[u])
               PROVE  /\ indices'[u][i] + 1 \in 1 .. Len(G)
                      /\ G[indices'[u][i] + 1] = headers[u][i]
    BY <1>8 DEF Names
  <2>1. ASSUME NEW v \in 1 .. c, NEW k \in 1 .. Len(indices[v])
        PROVE  /\ indices[v][k] + 1 \in 1 .. Len(G)
               /\ G[indices[v][k] + 1] = headers[v][k]
    <3>1. indices[v][k] + 1 \in 1 .. Len(files) /\ files[indices[v][k] + 1] = headers[v][k]
      BY DEF IInv, Names, c
    <3> QED  BY <3>1
  <2>2. CASE u = c /\ i = Len(old) + 1
    <3>1. indices'[u][i] = n
      BY <2>2, <1>5, <1>8
    <3> QED  BY <3>1, <2>2, <1>9
  <2>3. CASE u = c /\ i # Len(old) + 1
    <3>1. Len(indices'[u]) = Len(old) + 1
      BY <2>3, <1>5, <1>8
    <3>2. i \in 1 .. Len(old)
      BY <3>1, <2>3, <1>6
    <3>3. indices'[u][i] = old[i]
      BY <3>2, <2>3, <1>5, <1>8
    <3>4. old = indices[c] /\ c \in 1 .. c
      BY <1>2 DEF old
    <3> QED  BY <3>2, <3>3, <3>4, <2>1, <2>3
  <2>4. CASE u # c
    <3>1. indices'[u] = indices[u]
      BY <2>4, <1>8
    <3> QED  BY <3>1, <2>1
  <2> QED  BY <2>2, <2>3, <2>4
<1> QED  BY <1>8, <1>10, <1>11 DEF c

\* Known is a set of numbers, and Min picks one of them.
LEMMA MinKnown ==
  ASSUME NEW f, files \in Seq(Files), Known(f) # {}
  PROVE  Min(Known(f)) \in Known(f)
<1>1. Known(f) \subseteq Nat
  BY DEF Known
<1>2. \E x \in Known(f) : \A y \in Known(f) : x <= y
  BY <1>1, HasLeast
<1> QED  BY <1>2 DEF Min

LEMMA KnownFileOK == IInv /\ KnownFile => IInv'
<1> SUFFICES ASSUME IInv, KnownFile PROVE IInv'
  OBVIOUS
<1> DEFINE n == Min(Known(File))
<1>1. n \in Known(File)
  BY MinKnown DEF IInv, KnownFile
<1>2. n \in Nat /\ n + 1 \in 1 .. Len(files) /\ files[n + 1] = File
  BY <1>1 DEF Known, IInv
<1>3. ~FilesDone /\ Numbered(n) /\ project' = project /\ headers' = headers /\ files' = files
  BY DEF KnownFile, headers
<1>4. files \in Seq(Files)
  BY DEF IInv
<1> HIDE DEF n
<1>5. /\ indices' \in Seq(Seq(Nat)) /\ Len(indices') = Len(indices)
      /\ Short(headers, indices') /\ Names(headers, files, indices')
  BY OneMore, <1>2, <1>3, <1>4
<1> QED  BY <1>3, <1>5 DEF IInv

LEMMA NewFileOK == IInv /\ NewFile => IInv'
<1> SUFFICES ASSUME IInv, NewFile PROVE IInv'
  OBVIOUS
<1> DEFINE n == Len(files)
           G == Append(files, File)
<1>1. /\ ~FilesDone /\ Numbered(n) /\ Known(File) = {}
      /\ project' = project /\ headers' = headers /\ files' = G
  BY DEF NewFile, headers
<1>2. File \in Files
  <2>1. headers \in Seq(Seq(Files))
    BY HeadersType DEF IInv
  <2>2. /\ indices[Len(indices)] \in Seq(Nat) /\ headers[Len(indices)] \in Seq(Files)
        /\ Len(indices[Len(indices)]) <= Len(headers[Len(indices)])
    BY <2>1 DEF IInv, Short
  <2>3. Len(indices[Len(indices)]) # Len(headers[Len(indices)])
    BY <1>1 DEF FilesDone, Current
  <2>4. Len(indices[Len(indices)]) + 1 \in 1 .. Len(headers[Len(indices)])
    BY <2>2, <2>3
  <2> QED  BY <2>2, <2>4 DEF File, Current
<1>3. /\ n \in Nat /\ G \in Seq(Files) /\ Len(G) = n + 1 /\ G[n + 1] = File
      /\ \A i \in 1 .. n : G[i] = files[i]
  BY <1>2 DEF IInv
<1>4. \A i \in 2 .. n : files[i] # File
  <2> SUFFICES ASSUME NEW i \in 2 .. n, files[i] = File PROVE FALSE
    OBVIOUS
  <2>1. i - 1 \in 1 .. Len(files) - 1 /\ files[(i - 1) + 1] = File
    BY <1>3
  <2> QED  BY <2>1, <1>1 DEF Known
<1> HIDE DEF G
<1>5. /\ indices' \in Seq(Seq(Nat)) /\ Len(indices') = Len(indices)
      /\ Short(headers, indices') /\ Names(headers, G, indices')
  <2>1. \A i \in 1 .. Len(files) : i \in 1 .. Len(G) /\ G[i] = files[i]
    BY <1>3
  <2>2. n + 1 \in 1 .. Len(G)
    BY <1>3
  <2> HIDE DEF n
  <2> QED  BY OneMore, <1>1, <1>3, <2>1, <2>2
<1>6. Once(G)
  <2>1. \A i, j \in 2 .. n : files[i] = files[j] => i = j
    BY DEF IInv, Once
  <2> SUFFICES ASSUME NEW i \in 2 .. Len(G), NEW j \in 2 .. Len(G), G[i] = G[j] PROVE i = j
    BY DEF Once
  <2> HIDE DEF n
  <2> QED  BY <2>1, <1>3, <1>4
<1> QED  BY <1>1, <1>3, <1>5, <1>6 DEF IInv

LEMMA NextHeaderOK == IInv /\ NextHeader => IInv'
<1> SUFFICES ASSUME IInv, NextHeader PROVE IInv'
  OBVIOUS
<1> DEFINE c == Len(indices)
<1>1. /\ indices' = Append(indices, <<>>) /\ c < Len(headers)
      /\ project' = project /\ headers' = headers /\ files' = files
  BY DEF NextHeader, Current, headers
<1>2. headers \in Seq(Seq(Files)) /\ indices \in Seq(Seq(Nat)) /\ <<>> \in Seq(Nat)
  BY HeadersType DEF IInv
<1>3. /\ indices' \in Seq(Seq(Nat)) /\ Len(indices') = c + 1 /\ c \in Nat
      /\ indices'[c + 1] = <<>>
      /\ \A u \in 1 .. c : indices'[u] = indices[u]
  BY <1>1, <1>2
<1>4. \A u \in 1 .. c + 1 : u \in 1 .. c \/ u = c + 1
  BY <1>3
<1> HIDE DEF c, headers
<1>5. Short(headers, indices')
  <2> SUFFICES ASSUME NEW u \in 1 .. c + 1 PROVE Len(indices'[u]) <= Len(headers[u])
    BY <1>3 DEF Short
  <2>1. CASE u \in 1 .. c
    BY <2>1, <1>3 DEF IInv, Short, c
  <2>2. CASE u = c + 1
    <3>1. headers[u] \in Seq(Files)
      BY <1>1, <1>2, <1>3, <2>2
    <3>2. Len(headers[u]) >= 0 /\ Len(indices'[u]) = 0
      BY <3>1, <1>3, <2>2
    <3> QED  BY <3>2
  <2> QED  BY <2>1, <2>2, <1>4
<1>6. Names(headers, files, indices')
  <2> SUFFICES ASSUME NEW u \in 1 .. c + 1, NEW i \in 1 .. Len(indices'[u])
               PROVE  /\ indices'[u][i] + 1 \in 1 .. Len(files)
                      /\ files[indices'[u][i] + 1] = headers[u][i]
    BY <1>3 DEF Names
  <2>1. CASE u \in 1 .. c
    BY <2>1, <1>3 DEF IInv, Names, c
  <2>2. CASE u = c + 1
    BY <2>2, <1>3
  <2> QED  BY <2>1, <2>2, <1>4
<1>7. 1 <= Len(indices') /\ Len(indices') <= Len(headers)
  BY <1>1, <1>2, <1>3
<1> QED  BY <1>1, <1>3, <1>5, <1>6, <1>7 DEF IInv

-----------------------------------------------------------------------------
(* Everything else                                                         *)

\* Creating a line table leaves the numbers alone.
LEMMA TablesOK ==
  ASSUME [Next]_vars
  PROVE  KnownFile \/ NewFile \/ NextHeader \/ UNCHANGED <<project, files, indices>>
<1>1. ASSUME NEW i, Instruct(i) PROVE UNCHANGED <<project, files, indices>>
  BY <1>1 DEF Instruct, Special, Copy, AdvancePC, AdvanceLine, SetFile, NegateStmt,
     ConstAddPC, SetOther, Unsupported, SetAddress, EndSequence, Reads
<1>2. ASSUME NEW u, GetLineTable(u) PROVE UNCHANGED <<project, files, indices>>
  BY <1>2 DEF GetLineTable
<1>3. TableCreated => UNCHANGED <<project, files, indices>>
  BY DEF TableCreated
<1> QED  BY <1>1, <1>2, <1>3 DEF Next, vars

LEMMA Inductive == IInv /\ [Next]_vars => IInv'
<1> SUFFICES ASSUME IInv, [Next]_vars PROVE IInv'
  OBVIOUS
<1>1. CASE KnownFile
  BY <1>1, KnownFileOK
<1>2. CASE NewFile
  BY <1>2, NewFileOK
<1>3. CASE NextHeader
  BY <1>3, NextHeaderOK
<1>4. CASE UNCHANGED <<project, files, indices>>
  BY <1>4 DEF IInv, headers, Short, Names, Once
<1> QED  BY <1>1, <1>2, <1>3, <1>4, TablesOK

THEOREM Invariance == Spec => []IInv
BY InitOK, Inductive, PTL DEF Spec

\* Whatever units name whatever files, in whatever order: a number given to a
\* file of a header names it, and no two numbers from 1 on name the same file
\* (Dwarf_line.h:435-453).
THEOREM Interned == Spec => []FilesInterned
<1>1. IInv => FilesInterned
  <2> SUFFICES ASSUME IInv PROVE FilesInterned
    OBVIOUS
  <2>1. /\ DOMAIN indices = 1 .. Len(indices) /\ DOMAIN files = 1 .. Len(files)
        /\ \A u \in 1 .. Len(indices) : DOMAIN indices[u] = 1 .. Len(indices[u])
    BY DEF IInv
  <2> QED  BY <2>1 DEF IInv, Names, Once, FilesInterned
<1> QED  BY <1>1, Invariance, PTL

-----------------------------------------------------------------------------
(* Quotients and totals                                                    *)

LEMMA Quotient ==
  ASSUME NEW M \in Nat \ {0}, NEW q \in Int, NEW r \in 0 .. M - 1, NEW x, x = M * q + r
  PROVE  x \div M = q /\ x % M = r
OBVIOUS

LEMMA Divided ==
  ASSUME NEW M \in Nat \ {0}, NEW x \in Int
  PROVE  x = M * (x \div M) + (x % M) /\ x \div M \in Int /\ x % M \in 0 .. M - 1
<1>1. x \div M \in Int
  OBVIOUS
<1>2. x % M \in 0 .. M - 1
  OBVIOUS
<1>3. x = M * (x \div M) + (x % M)
  OBVIOUS
<1> QED  BY <1>1, <1>2, <1>3

\* What is left over is carried to the next sum.
LEMMA Carried ==
  ASSUME NEW M \in Nat \ {0}, NEW x \in Int, NEW y \in Int
  PROVE  /\ (x + y) \div M = (x \div M) + (((x % M) + y) \div M)
         /\ (x + y) % M = ((x % M) + y) % M
<1> DEFINE z == (x % M) + y
<1>1. x = M * (x \div M) + (x % M) /\ x \div M \in Int /\ x % M \in 0 .. M - 1
  BY Divided
<1>2. z \in Int
  BY <1>1
<1>3. z = M * (z \div M) + (z % M) /\ z \div M \in Int /\ z % M \in 0 .. M - 1
  BY <1>2, Divided
<1>4. x + y = M * (x \div M) + z
  BY <1>1
<1>5. PICK a, b, c, w : a = x \div M /\ b = z \div M /\ c = z % M /\ w = x + y
  OBVIOUS
<1>6. a \in Int /\ b \in Int /\ c \in 0 .. M - 1 /\ a + b \in Int
  BY <1>1, <1>3, <1>5
<1>7. w = M * (a + b) + c
  <2>1. M * (a + b) = M * a + M * b
    BY <1>6
  <2>2. z = M * b + c /\ w = M * a + z
    BY <1>3, <1>4, <1>5
  <2> QED  BY <2>1, <2>2, <1>6
<1>8. w \div M = a + b /\ w % M = c
  <2>1. PICK q : q = a + b
    OBVIOUS
  <2>2. M \in Nat \ {0} /\ q \in Int /\ c \in 0 .. M - 1 /\ w = M * q + c
    BY <1>6, <1>7, <2>1
  <2>3. w \div M = q /\ w % M = c
    BY ONLY <2>2, Quotient
  <2> QED  BY <2>1, <2>3
<1> QED  BY <1>5, <1>8

\* Each total follows from the one before it.
LEMMA TotalsFollow ==
  ASSUME NEW g, Len(g) \in Nat
  PROVE  /\ Totals(g)[0] = 0
         /\ \A n \in 1 .. Len(g) : Totals(g)[n] = Totals(g)[n - 1] + g[n]
<1> DEFINE Body(t, m) == [n \in 0 .. m |-> IF n = 0 THEN 0 ELSE t[n - 1] + g[n]]
           S == {m \in Nat : ~ \E t : t = Body(t, m)}
<1>1. S = {}
  <2> SUFFICES ASSUME S # {} PROVE FALSE
    OBVIOUS
  <2>1. PICK m \in S : \A r \in S : m <= r
    BY HasLeast
  <2>2. m # 0
    <3> DEFINE t == [n \in 0 .. 0 |-> 0]
    <3>1. t = Body(t, 0)
      OBVIOUS
    <3> QED  BY <3>1
  <2>3. m - 1 \in Nat /\ m - 1 \notin S
    <3>1. m \in Nat
      OBVIOUS
    <3> HIDE DEF S
    <3> QED  BY <2>1, <2>2, <3>1
  <2>4. PICK t : t = Body(t, m - 1)
    BY <2>3
  <2>5. \A n \in 0 .. m - 1 : t[n] = IF n = 0 THEN 0 ELSE t[n - 1] + g[n]
    BY ONLY <2>4
  <2> DEFINE more == [n \in 0 .. m |-> IF n = m THEN t[m - 1] + g[m] ELSE t[n]]
  <2>6. \A n \in 0 .. m : more[n] = IF n = 0 THEN 0 ELSE more[n - 1] + g[n]
    <3> SUFFICES ASSUME NEW n \in 0 .. m
                 PROVE  more[n] = IF n = 0 THEN 0 ELSE more[n - 1] + g[n]
      OBVIOUS
    <3>1. CASE n = m
      <4>1. more[m] = t[m - 1] + g[m] /\ more[m - 1] = t[m - 1]
        BY <2>2, <2>3
      <4> QED  BY <2>2, <3>1, <4>1
    <3>2. CASE n # m /\ n # 0
      <4>1. n \in 0 .. m - 1 /\ n - 1 \in 0 .. m - 1 /\ n - 1 # m
        BY <2>3, <3>2
      <4>2. more[n] = t[n] /\ more[n - 1] = t[n - 1]
        BY <2>3, <3>2, <4>1
      <4> QED  BY <2>5, <3>2, <4>1, <4>2
    <3>3. CASE n = 0
      <4>1. 0 \in 0 .. m - 1
        BY <2>3
      <4> QED  BY <2>2, <2>5, <3>3, <4>1
    <3> QED  BY <2>2, <3>1, <3>2, <3>3
  <2>7. more = [n \in 0 .. m |-> more[n]]
    OBVIOUS
  <2> HIDE DEF more
  <2>8. more = Body(more, m)
    BY <2>6, <2>7
  <2> QED  BY <2>1, <2>8
<1>2. \E t : t = Body(t, Len(g))
  BY <1>1
<1>3. Totals(g) = CHOOSE t : t = Body(t, Len(g))
  BY DEF Totals
<1>4. Totals(g) = Body(Totals(g), Len(g))
  BY <1>2, <1>3
<1>5. \A n \in 0 .. Len(g) : Totals(g)[n] = IF n = 0 THEN 0 ELSE Totals(g)[n - 1] + g[n]
  BY <1>4
<1> QED  BY <1>5

\* One number more leaves the totals before it as they are.
LEMMA TotalsGrow ==
  ASSUME NEW m \in Nat, NEW g, NEW f, Len(g) = m, Len(f) = m + 1,
         \A j \in 1 .. m : g[j] \in Int /\ f[j] = g[j], f[m + 1] \in Int
  PROVE  /\ \A j \in 0 .. m : Totals(f)[j] = Totals(g)[j] /\ Totals(g)[j] \in Int
         /\ Totals(f)[m + 1] = Totals(g)[m] + f[m + 1]
         /\ Totals(f)[m + 1] \in Int
<1> DEFINE S == {j \in 0 .. m : ~ (Totals(f)[j] = Totals(g)[j] /\ Totals(g)[j] \in Int)}
<1>1. /\ Totals(g)[0] = 0
      /\ \A n \in 1 .. m : Totals(g)[n] = Totals(g)[n - 1] + g[n]
  <2>1. Len(g) \in Nat
    OBVIOUS
  <2> QED  BY <2>1, TotalsFollow
<1>2. /\ Totals(f)[0] = 0
      /\ \A n \in 1 .. m + 1 : Totals(f)[n] = Totals(f)[n - 1] + f[n]
  <2>1. Len(f) \in Nat
    OBVIOUS
  <2> QED  BY <2>1, TotalsFollow
<1>3. S = {}
  <2> SUFFICES ASSUME S # {} PROVE FALSE
    OBVIOUS
  <2>1. PICK j \in S : \A r \in S : j <= r
    <3>1. S \subseteq Nat
      OBVIOUS
    <3> HIDE DEF S
    <3> QED  BY <3>1, HasLeast
  <2>2. j \in 0 .. m /\ j # 0
    BY <1>1, <1>2
  <2>3. j - 1 \in 0 .. m /\ j - 1 \notin S /\ j \in 1 .. m /\ j \in 1 .. m + 1
    <3> HIDE DEF S
    <3> QED  BY <2>1, <2>2
  <2>4. Totals(f)[j - 1] = Totals(g)[j - 1] /\ Totals(g)[j - 1] \in Int
    BY <2>3
  <2>5. Totals(g)[j] = Totals(g)[j - 1] + g[j] /\ Totals(f)[j] = Totals(f)[j - 1] + f[j]
    BY <1>1, <1>2, <2>3
  <2>6. g[j] \in Int /\ f[j] = g[j]
    BY <2>3
  <2>7. Totals(f)[j] = Totals(g)[j] /\ Totals(g)[j] \in Int
    BY ONLY <2>4, <2>5, <2>6
  <2> QED  BY <2>7
<1>4. \A j \in 0 .. m : Totals(f)[j] = Totals(g)[j] /\ Totals(g)[j] \in Int
  BY <1>3
<1>5. Totals(f)[m + 1] = Totals(f)[m] + f[m + 1]
  <2>1. m + 1 \in 1 .. m + 1 /\ (m + 1) - 1 = m
    OBVIOUS
  <2> QED  BY <1>2, <2>1
<1>6. Totals(f)[m] = Totals(g)[m] /\ Totals(g)[m] \in Int
  BY <1>4
<1> QED  BY <1>4, <1>5, <1>6

-----------------------------------------------------------------------------
(* What a program means, one instruction later                             *)

\* The largest of some numbers that have a bound is one of them.
LEMMA MaxOf ==
  ASSUME NEW m \in Nat, NEW S, S \subseteq 0 .. m, S # {}
  PROVE  Max(S) \in S /\ \A y \in S : y <= Max(S)
<1> DEFINE T == {m - s : s \in S}
<1>1. T \subseteq Nat /\ T # {}
  <2>1. \A s \in S : m - s \in Nat
    OBVIOUS
  <2>2. \E s \in S : m - s \in T
    OBVIOUS
  <2> QED  BY <2>1, <2>2
<1>2. PICK t \in T : \A r \in T : t <= r
  <2> HIDE DEF T
  <2> QED  BY <1>1, HasLeast
<1>3. PICK s \in S : t = m - s
  OBVIOUS
<1>4. \A y \in S : s >= y
  <2> SUFFICES ASSUME NEW y \in S PROVE s >= y
    OBVIOUS
  <2>1. m - y \in T /\ y \in Int /\ s \in Int
    OBVIOUS
  <2>2. t <= m - y
    BY <1>2, <2>1
  <2> QED  BY <1>3, <2>1, <2>2
<1>5. \E x \in S : \A y \in S : x >= y
  BY <1>4
<1>6. Max(S) \in S /\ \A y \in S : Max(S) >= y
  BY <1>5 DEF Max
<1> QED  BY <1>6

LEMMA MaxIs ==
  ASSUME NEW S, S \subseteq Nat, NEW m \in S, \A y \in S : y <= m
  PROVE  Max(S) = m
<1>1. S \subseteq 0 .. m /\ S # {} /\ m \in Nat
  OBVIOUS
<1>2. Max(S) \in S /\ \A y \in S : y <= Max(S)
  BY <1>1, MaxOf
<1>3. PICK x : x = Max(S)
  OBVIOUS
<1>4. x \in S /\ m <= x
  <2>1. \A y \in S : y <= x
    BY <1>2, <1>3
  <2> QED  BY <1>2, <1>3, <2>1
<1>5. x <= m /\ x \in Int /\ m \in Int
  BY <1>4
<1>6. x = m
  BY ONLY <1>4, <1>5
<1> QED  BY <1>3, <1>6

OperationsIn(h, p, from, to) == SumOf(p, LAMBDA x : Operations(h, x), from, to)
LinesIn(h, p, from, to) == SumOf(p, LAMBDA x : LinesBy(h, x), from, to)
NegationsIn(p, from, to) == SumOf(p, Negations, from, to)

Operands(S) == \A i \in S : WellFormedOperand(i)

LEMMA Numbered3 ==
  ASSUME NEW h \in Header, NEW i, i.n \in Int
  PROVE  Operations(h, i) \in Int /\ LinesBy(h, i) \in Int /\ Negations(i) \in Int
<1>1. /\ h.opcodeBase \in Int /\ h.lineBase \in Int /\ h.lineRange \in Nat \ {0}
  BY DEF Header
<1>2. \A n \in Int : OperationsOf(h, n) \in Int /\ LinesOf(h, n) \in Int
  BY <1>1 DEF OperationsOf, LinesOf
<1> QED  BY <1>2 DEF Operations, LinesBy, Negations

LEMMA Appended ==
  ASSUME NEW S, NEW p \in Seq(S), NEW x \in S
  PROVE  /\ Append(p, x) \in Seq(S) /\ Len(Append(p, x)) = Len(p) + 1 /\ Len(p) \in Nat
         /\ Append(p, x)[Len(p) + 1] = x
         /\ \A j \in 1 .. Len(p) : Append(p, x)[j] = p[j] /\ p[j] \in S
         /\ DOMAIN p = 1 .. Len(p) /\ DOMAIN Append(p, x) = 1 .. Len(p) + 1
OBVIOUS

\* A list of numbers and the same with one more.
LEMMA SumsOf ==
  ASSUME NEW m \in Nat, NEW g \in [1 .. m -> Int], NEW f \in [1 .. m + 1 -> Int],
         \A j \in 1 .. m : f[j] = g[j]
  PROVE  \A from \in 0 .. m :
           /\ \A to \in 0 .. m : /\ Totals(f)[to] - Totals(f)[from] = Totals(g)[to] - Totals(g)[from]
                                 /\ Totals(g)[to] - Totals(g)[from] \in Int
           /\ Totals(f)[m + 1] - Totals(f)[from] = (Totals(g)[m] - Totals(g)[from]) + f[m + 1]
<1>1. Len(g) = m /\ Len(f) = m + 1
  OBVIOUS
<1>2. \A j \in 1 .. m : g[j] \in Int /\ f[j] = g[j]
  OBVIOUS
<1>3. f[m + 1] \in Int
  OBVIOUS
<1>4. /\ \A j \in 0 .. m : Totals(f)[j] = Totals(g)[j] /\ Totals(g)[j] \in Int
      /\ Totals(f)[m + 1] = Totals(g)[m] + f[m + 1]
  BY <1>1, <1>2, <1>3, TotalsGrow
<1> SUFFICES ASSUME NEW from \in 0 .. m
             PROVE  /\ \A to \in 0 .. m : /\ Totals(f)[to] - Totals(f)[from] = Totals(g)[to] - Totals(g)[from]
                                          /\ Totals(g)[to] - Totals(g)[from] \in Int
                    /\ Totals(f)[m + 1] - Totals(f)[from] = (Totals(g)[m] - Totals(g)[from]) + f[m + 1]
  OBVIOUS
<1>5. m \in 0 .. m
  OBVIOUS
<1> QED  BY <1>3, <1>4, <1>5

LEMMA TotalsAreInt ==
  ASSUME NEW m \in Nat, NEW g \in [1 .. m -> Int]
  PROVE  Totals(g)[m] \in Int
<1> DEFINE f == [j \in 1 .. m + 1 |-> IF j = m + 1 THEN 0 ELSE g[j]]
<1>1. f \in [1 .. m + 1 -> Int] /\ \A j \in 1 .. m : f[j] = g[j]
  OBVIOUS
<1> HIDE DEF f
<1>2. Len(g) = m /\ Len(f) = m + 1
  BY <1>1
<1>3. \A j \in 1 .. m : g[j] \in Int /\ f[j] = g[j]
  BY <1>1
<1>4. f[m + 1] \in Int
  BY <1>1
<1>5. \A j \in 0 .. m : Totals(f)[j] = Totals(g)[j] /\ Totals(g)[j] \in Int
  BY <1>2, <1>3, <1>4, TotalsGrow
<1> QED  BY <1>5

\* What an instruction adds to the sums.
LEMMA SumsGrow ==
  ASSUME NEW h \in Header, NEW S, Operands(S), NEW p \in Seq(S), NEW x \in S,
         NEW from \in 0 .. Len(p)
  PROVE  LET q == Append(p, x)
             n == Len(p)
         IN  /\ \A to \in 0 .. n :
                  /\ OperationsIn(h, q, from, to) = OperationsIn(h, p, from, to)
                  /\ LinesIn(h, q, from, to) = LinesIn(h, p, from, to)
                  /\ NegationsIn(q, from, to) = NegationsIn(p, from, to)
                  /\ OperationsIn(h, p, from, to) \in Int
                  /\ LinesIn(h, p, from, to) \in Int
                  /\ NegationsIn(p, from, to) \in Int
             /\ OperationsIn(h, q, from, n + 1) = OperationsIn(h, p, from, n) + Operations(h, x)
             /\ LinesIn(h, q, from, n + 1) = LinesIn(h, p, from, n) + LinesBy(h, x)
             /\ NegationsIn(q, from, n + 1) = NegationsIn(p, from, n) + Negations(x)
<1> DEFINE q == Append(p, x)
           n == Len(p)
<1>1. /\ Len(q) = n + 1 /\ n \in Nat /\ q[n + 1] = x
      /\ \A j \in 1 .. n : q[j] = p[j] /\ p[j] \in S
      /\ DOMAIN p = 1 .. n /\ DOMAIN q = 1 .. n + 1
  BY Appended
<1>2. /\ \A j \in 1 .. n : p[j].n \in Int
      /\ x.n \in Int
  BY <1>1 DEF Operands, WellFormedOperand
<1> HIDE DEF q, n
<1>3. \A j \in 1 .. n + 1 : j \in 1 .. n \/ j = n + 1
  BY <1>1
<1>4. from \in 0 .. n
  BY DEF n
<1>5. /\ \A to \in 0 .. n : /\ OperationsIn(h, q, from, to) = OperationsIn(h, p, from, to)
                            /\ OperationsIn(h, p, from, to) \in Int
      /\ OperationsIn(h, q, from, n + 1) = OperationsIn(h, p, from, n) + Operations(h, x)
  <2> DEFINE g == [j \in 1 .. n |-> Operations(h, p[j])]
             f == [j \in 1 .. n + 1 |-> Operations(h, q[j])]
  <2>1. g \in [1 .. n -> Int]
    BY <1>2, Numbered3
  <2>2. f \in [1 .. n + 1 -> Int]
    BY <1>1, <1>2, <1>3, Numbered3
  <2>3. \A j \in 1 .. n : f[j] = g[j]
    BY <1>1
  <2>4. f[n + 1] = Operations(h, x)
    BY <1>1
  <2>5. \A to : /\ OperationsIn(h, p, from, to) = Totals(g)[to] - Totals(g)[from]
                /\ OperationsIn(h, q, from, to) = Totals(f)[to] - Totals(f)[from]
    BY <1>1 DEF OperationsIn, SumOf
  <2> HIDE DEF g, f
  <2>6. /\ \A to \in 0 .. n : /\ Totals(f)[to] - Totals(f)[from] = Totals(g)[to] - Totals(g)[from]
                              /\ Totals(g)[to] - Totals(g)[from] \in Int
        /\ Totals(f)[n + 1] - Totals(f)[from] = (Totals(g)[n] - Totals(g)[from]) + f[n + 1]
    BY <1>1, <1>4, <2>1, <2>2, <2>3, SumsOf
  <2> QED  BY <2>4, <2>5, <2>6
<1>6. /\ \A to \in 0 .. n : /\ LinesIn(h, q, from, to) = LinesIn(h, p, from, to)
                            /\ LinesIn(h, p, from, to) \in Int
      /\ LinesIn(h, q, from, n + 1) = LinesIn(h, p, from, n) + LinesBy(h, x)
  <2> DEFINE g == [j \in 1 .. n |-> LinesBy(h, p[j])]
             f == [j \in 1 .. n + 1 |-> LinesBy(h, q[j])]
  <2>1. g \in [1 .. n -> Int]
    BY <1>2, Numbered3
  <2>2. f \in [1 .. n + 1 -> Int]
    BY <1>1, <1>2, <1>3, Numbered3
  <2>3. \A j \in 1 .. n : f[j] = g[j]
    BY <1>1
  <2>4. f[n + 1] = LinesBy(h, x)
    BY <1>1
  <2>5. \A to : /\ LinesIn(h, p, from, to) = Totals(g)[to] - Totals(g)[from]
                /\ LinesIn(h, q, from, to) = Totals(f)[to] - Totals(f)[from]
    BY <1>1 DEF LinesIn, SumOf
  <2> HIDE DEF g, f
  <2>6. /\ \A to \in 0 .. n : /\ Totals(f)[to] - Totals(f)[from] = Totals(g)[to] - Totals(g)[from]
                              /\ Totals(g)[to] - Totals(g)[from] \in Int
        /\ Totals(f)[n + 1] - Totals(f)[from] = (Totals(g)[n] - Totals(g)[from]) + f[n + 1]
    BY <1>1, <1>4, <2>1, <2>2, <2>3, SumsOf
  <2> QED  BY <2>4, <2>5, <2>6
<1>7. /\ \A to \in 0 .. n : /\ NegationsIn(q, from, to) = NegationsIn(p, from, to)
                            /\ NegationsIn(p, from, to) \in Int
      /\ NegationsIn(q, from, n + 1) = NegationsIn(p, from, n) + Negations(x)
  <2> DEFINE g == [j \in 1 .. n |-> Negations(p[j])]
             f == [j \in 1 .. n + 1 |-> Negations(q[j])]
  <2>1. g \in [1 .. n -> Int]
    BY <1>2, Numbered3
  <2>2. f \in [1 .. n + 1 -> Int]
    BY <1>1, <1>2, <1>3, Numbered3
  <2>3. \A j \in 1 .. n : f[j] = g[j]
    BY <1>1
  <2>4. f[n + 1] = Negations(x)
    BY <1>1
  <2>5. \A to : /\ NegationsIn(p, from, to) = Totals(g)[to] - Totals(g)[from]
                /\ NegationsIn(q, from, to) = Totals(f)[to] - Totals(f)[from]
    BY <1>1 DEF NegationsIn, SumOf
  <2> HIDE DEF g, f
  <2>6. /\ \A to \in 0 .. n : /\ Totals(f)[to] - Totals(f)[from] = Totals(g)[to] - Totals(g)[from]
                              /\ Totals(g)[to] - Totals(g)[from] \in Int
        /\ Totals(f)[n + 1] - Totals(f)[from] = (Totals(g)[n] - Totals(g)[from]) + f[n + 1]
    BY <1>1, <1>4, <2>1, <2>2, <2>3, SumsOf
  <2> QED  BY <2>4, <2>5, <2>6
<1> QED  BY <1>5, <1>6, <1>7 DEF q, n

-----------------------------------------------------------------------------
(* The registers                                                           *)

\* What the program p has named after its n-th instruction, in the sequence
\* that begins behind b.
NamedBy(p, b, n) ==
  LET named == PlacesOf(p, "set_file", b, n)
  IN  IF named = {} THEN 1 ELSE p[Max(named)].n

\* The n-th instruction is in the sequence that begins behind b, or ends one.
Begun(p, b, n) ==
  /\ b \in 0 .. n
  /\ b # 0 => p[b].op = "end_sequence"
  /\ \A j \in b + 1 .. n : /\ p[j].op # "end_sequence"
                           /\ p[j].op = "set_address" <=> j = b + 1

\* The registers are those the program means after its n-th instruction.
Keeps(h, I, u, p, b, n, s) ==
  /\ s = [address |-> s.address, opIndex |-> s.opIndex, file |-> s.file,
          line |-> s.line, stmt |-> s.stmt, end |-> s.end]
  /\ s.line = 1 + LinesIn(h, p, b, n)
  /\ s.stmt = (h.defaultIsStmt <=> NegationsIn(p, b, n) % 2 = 0)
  /\ s.end = FALSE
  /\ s.file = FileNumber(I, u, NamedBy(p, b, n))
  /\ n = b => s.address = 0 /\ s.opIndex = 0
  /\ n # b =>
       LET operations == OperationsIn(h, p, b + 1, n)
       IN  /\ s.address = (p[b + 1].n + h.minimumInstructionLength
                                         * (operations \div h.maximumOperationsInstructions))
                            % WordSize
           /\ s.opIndex = operations % h.maximumOperationsInstructions

\* The registers after the instruction x.
After(h, I, u, s, x) ==
  LET total == s.opIndex + Operations(h, x)
  IN  [address |-> IF x.op = "set_address" THEN x.n
                   ELSE (s.address + h.minimumInstructionLength
                                       * (total \div h.maximumOperationsInstructions)) % WordSize,
       opIndex |-> IF x.op = "set_address" THEN 0
                   ELSE total % h.maximumOperationsInstructions,
       file |-> IF x.op = "set_file" THEN FileNumber(I, u, x.n) ELSE s.file,
       line |-> s.line + LinesBy(h, x),
       stmt |-> IF x.op = "negate_stmt" THEN ~s.stmt ELSE s.stmt,
       end |-> FALSE]

LEMMA HeaderTypes ==
  ASSUME NEW h \in Header
  PROVE  /\ h.minimumInstructionLength \in Nat \ {0}
         /\ h.maximumOperationsInstructions \in Nat \ {0}
         /\ h.defaultIsStmt \in BOOLEAN
BY DEF Header

\* The address of an operand, a quotient further.
Onto(a, k, c) == (a + k * c) % WordSize

LEMMA Address ==
  ASSUME NEW k \in Int, NEW a \in Int, NEW c \in Int, NEW d \in Int
  PROVE  Onto(Onto(a, k, c), k, d) = Onto(a, k, c + d)
<1>1. k * c \in Int /\ k * d \in Int /\ k * (c + d) = k * c + k * d
  OBVIOUS
<1>2. PICK y, z : y = k * c /\ z = k * d
  OBVIOUS
<1>3. PICK x : x = a + y
  OBVIOUS
<1>4. x \in Int /\ z \in Int
  BY <1>1, <1>2, <1>3
<1>5. (x + z) % WordSize = ((x % WordSize) + z) % WordSize
  BY <1>4, Carried, LineTableAssumption
<1>6. x + z = a + k * (c + d) /\ x = a + k * c
  BY <1>1, <1>2, <1>3
<1> QED  BY <1>2, <1>3, <1>5, <1>6 DEF Onto

LEMMA Parity ==
  ASSUME NEW x \in Int
  PROVE  (x + 1) % 2 = 0 <=> ~ (x % 2 = 0)
OBVIOUS

\* A step of a program not ended: the registers stay those the program means.
LEMMA KeepsOn ==
  ASSUME NEW h \in Header, NEW I, NEW u, NEW S, Operands(S), NEW p \in Seq(S), NEW x \in S,
         NEW b, Begun(p, b, Len(p)), Len(p) = b <=> x.op = "set_address",
         NEW s, Keeps(h, I, u, p, b, Len(p), s)
  PROVE  Keeps(h, I, u, Append(p, x), b, Len(p) + 1, After(h, I, u, s, x))
<1> DEFINE q == Append(p, x)
           n == Len(p)
           t == After(h, I, u, s, x)
           M == h.maximumOperationsInstructions
           k == h.minimumInstructionLength
<1>1. /\ n \in Nat /\ q[n + 1] = x
      /\ \A j \in 1 .. n : q[j] = p[j] /\ p[j] \in S
  BY Appended
<1>2. b \in 0 .. n
  BY DEF Begun
<1>3. M \in Nat \ {0} /\ k \in Nat \ {0} /\ h.defaultIsStmt \in BOOLEAN /\ WordSize \in Nat \ {0}
  BY HeaderTypes, LineTableAssumption
<1>4. x.n \in Int /\ Operations(h, x) \in Int /\ LinesBy(h, x) \in Int /\ Negations(x) \in Int
  BY Numbered3 DEF Operands, WellFormedOperand
<1>5. /\ LinesIn(h, q, b, n + 1) = LinesIn(h, p, b, n) + LinesBy(h, x)
      /\ NegationsIn(q, b, n + 1) = NegationsIn(p, b, n) + Negations(x)
      /\ LinesIn(h, p, b, n) \in Int /\ NegationsIn(p, b, n) \in Int
  <2>1. n \in 0 .. n
    BY <1>1
  <2> QED  BY <1>2, <2>1, SumsGrow
<1> HIDE DEF q, n, M, k
<1>6. t.line = 1 + LinesIn(h, q, b, n + 1)
  <2>1. s.line = 1 + LinesIn(h, p, b, n)
    BY DEF Keeps, n
  <2>2. t.line = s.line + LinesBy(h, x)
    BY DEF After
  <2> QED  BY <1>4, <1>5, <2>1, <2>2
<1>7. t.stmt = (h.defaultIsStmt <=> NegationsIn(q, b, n + 1) % 2 = 0)
  <2>1. s.stmt = (h.defaultIsStmt <=> NegationsIn(p, b, n) % 2 = 0)
    BY DEF Keeps, n
  <2>2. CASE x.op = "negate_stmt"
    <3>1. t.stmt = ~s.stmt
      BY <2>2 DEF After
    <3>2. NegationsIn(q, b, n + 1) % 2 = 0 <=> ~ (NegationsIn(p, b, n) % 2 = 0)
      BY <1>5, <2>2, Parity DEF Negations
    <3> QED  BY <2>1, <3>1, <3>2, <1>3
  <2>3. CASE x.op # "negate_stmt"
    <3>1. t.stmt = s.stmt
      BY <2>3 DEF After
    <3>2. NegationsIn(q, b, n + 1) = NegationsIn(p, b, n)
      BY <1>5, <2>3 DEF Negations
    <3> QED  BY <2>1, <3>1, <3>2
  <2> QED  BY <2>2, <2>3
<1>8. t.file = FileNumber(I, u, NamedBy(q, b, n + 1))
  <2>1. s.file = FileNumber(I, u, NamedBy(p, b, n))
    BY DEF Keeps, n
  <2>2. \A j \in b + 1 .. n : j \in 1 .. n
    BY <1>1, <1>2
  <2>3. \A j \in b + 1 .. n + 1 : j \in b + 1 .. n \/ j = n + 1
    BY <1>1, <1>2
  <2>4. n + 1 \in b + 1 .. n + 1 /\ \A j \in b + 1 .. n : j \in b + 1 .. n + 1
    BY <1>1, <1>2
  <2>5. CASE x.op = "set_file"
    <3> DEFINE N == PlacesOf(q, "set_file", b, n + 1)
    <3>1. n + 1 \in N
      BY <1>1, <2>4, <2>5 DEF PlacesOf
    <3>2. N \subseteq Nat /\ \A y \in N : y <= n + 1
      BY <1>1, <1>2 DEF PlacesOf
    <3>3. Max(N) = n + 1
      BY <3>1, <3>2, MaxIs
    <3>4. NamedBy(q, b, n + 1) = x.n
      <4> HIDE DEF N
      <4>1. N # {} /\ q[Max(N)].n = x.n
        BY <1>1, <3>1, <3>3
      <4> QED  BY <4>1 DEF NamedBy, N
    <3> QED  BY <2>5, <3>4 DEF After
  <2>6. CASE x.op # "set_file"
    <3>1. PlacesOf(q, "set_file", b, n + 1) = PlacesOf(p, "set_file", b, n)
      BY <1>1, <2>2, <2>3, <2>4, <2>6 DEF PlacesOf
    <3>2. PlacesOf(p, "set_file", b, n) # {} =>
            q[Max(PlacesOf(p, "set_file", b, n))] = p[Max(PlacesOf(p, "set_file", b, n))]
      <4> DEFINE N == PlacesOf(p, "set_file", b, n)
      <4>1. N \subseteq 0 .. n /\ \A y \in N : y \in 1 .. n
        BY <1>1, <2>2 DEF PlacesOf
      <4> HIDE DEF N
      <4>2. N # {} => Max(N) \in N
        BY <1>1, <4>1, MaxOf
      <4>3. N # {} => q[Max(N)] = p[Max(N)]
        BY <1>1, <4>1, <4>2
      <4> QED  BY <4>3 DEF N
    <3>3. NamedBy(q, b, n + 1) = NamedBy(p, b, n)
      BY <3>1, <3>2 DEF NamedBy
    <3>4. t.file = s.file
      BY <2>6 DEF After
    <3> QED  BY <2>1, <3>3, <3>4
  <2> QED  BY <2>5, <2>6
<1>9. LET operations == OperationsIn(h, q, b + 1, n + 1)
      IN  /\ t.address = (q[b + 1].n + k * (operations \div M)) % WordSize
          /\ t.opIndex = operations % M
  <2>1. CASE x.op = "set_address"
    <3>1. b = n
      BY <2>1 DEF n
    <3>2. OperationsIn(h, q, b + 1, n + 1) = 0
      <4>1. PICK T : T = Totals([j \in DOMAIN q |-> Operations(h, q[j])])
        OBVIOUS
      <4>2. OperationsIn(h, q, b + 1, n + 1) = T[n + 1] - T[b + 1]
        BY <4>1 DEF OperationsIn, SumOf
      <4>3. T[n + 1] \in Int
        <5> DEFINE g == [j \in 1 .. n |-> Operations(h, p[j])]
                   f == [j \in 1 .. n + 1 |-> Operations(h, q[j])]
        <5>1. Len(g) = n /\ Len(f) = n + 1
          BY <1>1
        <5>2. \A j \in 1 .. n : g[j] \in Int /\ f[j] = g[j]
          BY <1>1, Numbered3 DEF Operands, WellFormedOperand
        <5>3. f[n + 1] \in Int
          BY <1>1, <1>4
        <5>4. Totals(f)[n + 1] \in Int
          <6> HIDE DEF f, g
          <6> QED  BY <1>1, <5>1, <5>2, <5>3, TotalsGrow
        <5>5. DOMAIN q = 1 .. n + 1
          BY Appended DEF q, n
        <5> QED  BY <4>1, <5>4, <5>5
      <4> QED  BY <3>1, <4>2, <4>3
    <3>3. q[b + 1].n = x.n /\ x.n \in 0 .. WordSize - 1
      BY <1>1, <2>1, <3>1 DEF Operands, WellFormedOperand
    <3>4. 0 \div M = 0 /\ 0 % M = 0 /\ k * 0 = 0
      BY <1>3
    <3>5. (x.n + 0) % WordSize = x.n
      BY <1>3, <3>3
    <3>6. t.address = x.n /\ t.opIndex = 0
      BY <2>1 DEF After
    <3> QED  BY <3>2, <3>3, <3>4, <3>5, <3>6
  <2>2. CASE x.op # "set_address"
    <3>1. n # b
      BY <2>2 DEF n
    <3>2. b + 1 \in 0 .. n /\ n \in 0 .. n /\ b + 1 \in 1 .. n
      BY <1>1, <1>2, <3>1
    <3>3. PICK o, c, a : o = OperationsIn(h, p, b + 1, n) /\ c = Operations(h, x) /\ a = p[b + 1].n
      OBVIOUS
    <3>4. OperationsIn(h, q, b + 1, n + 1) = o + c /\ o \in Int
      BY <3>2, <3>3, SumsGrow DEF q, n
    <3>5. s.address = (a + k * (o \div M)) % WordSize /\ s.opIndex = o % M
      BY <3>1, <3>3 DEF Keeps, n, M, k
    <3>6. q[b + 1].n = a /\ a \in Int
      BY <1>1, <3>2, <3>3 DEF Operands, WellFormedOperand
    <3>7. t.address = (s.address + k * ((s.opIndex + c) \div M)) % WordSize
      BY <2>2, <3>3 DEF After, M, k
    <3>8. t.opIndex = (s.opIndex + c) % M
      BY <2>2, <3>3 DEF After, M
    <3>9. c \in Int
      BY <1>4, <3>3
    <3>10. /\ (o + c) \div M = (o \div M) + (((o % M) + c) \div M)
           /\ (o + c) % M = ((o % M) + c) % M
      BY <1>3, <3>4, <3>9, Carried
    <3>11. o \div M \in Int /\ ((o % M) + c) \div M \in Int
      BY <1>3, <3>4, <3>9
    <3>12. PICK d, e : d = o \div M /\ e = ((o % M) + c) \div M
      OBVIOUS
    <3>13. Onto(Onto(a, k, d), k, e) = Onto(a, k, d + e)
      <4>1. k \in Int /\ d \in Int /\ e \in Int
        BY <1>3, <3>11, <3>12
      <4> QED  BY ONLY <3>6, <4>1, Address
    <3>14. t.address = Onto(a, k, d + e)
      <4>1. s.address = Onto(a, k, d)
        BY <3>5, <3>12 DEF Onto
      <4>2. t.address = Onto(s.address, k, e)
        BY <3>5, <3>7, <3>12 DEF Onto
      <4> QED  BY <3>13, <4>1, <4>2
    <3>15. q[b + 1].n = a /\ d + e = (o + c) \div M
      BY <3>6, <3>10, <3>12
    <3> QED  BY <3>4, <3>5, <3>8, <3>10, <3>14, <3>15 DEF Onto
  <2> QED  BY <2>1, <2>2
<1>10. /\ t = [address |-> t.address, opIndex |-> t.opIndex, file |-> t.file,
               line |-> t.line, stmt |-> t.stmt, end |-> t.end]
       /\ t.end = FALSE
  BY DEF After
<1>11. n + 1 # b
  BY <1>1, <1>2
<1> HIDE DEF t
<1>12. Keeps(h, I, u, q, b, n + 1, t)
  BY <1>6, <1>7, <1>8, <1>9, <1>10, <1>11 DEF Keeps, M, k
<1> QED  BY <1>12 DEF q, n, t

\* A row is the one that is meant, with the file's number of the project.
Fits(I, u, row, m) ==
  /\ row.address = m.address
  /\ row.line = m.line
  /\ row.stmt = m.stmt
  /\ row.end = m.end
  /\ row.file = FileNumber(I, u, m.file)

\* The row an instruction puts into the table.
RowBy(x, s) == [s EXCEPT !.end = (x.op = "end_sequence")]

Emitting == {"special", "copy", "end_sequence"}

\* What an instruction puts into the table is what it means.
LEMMA RowMeant ==
  ASSUME NEW h \in Header, NEW I, NEW u, NEW S, NEW p \in Seq(S), NEW x \in S,
         x.op \in Emitting, NEW b, Begun(p, b, Len(p)), Len(p) # b,
         NEW t, Keeps(h, I, u, Append(p, x), b, Len(p) + 1, t)
  PROVE  Fits(I, u, RowBy(x, t), Meant(h, Append(p, x), Len(p) + 1))
<1> DEFINE q == Append(p, x)
           n == Len(p)
           m == Meant(h, q, n + 1)
<1>1. /\ n \in Nat /\ q[n + 1] = x
      /\ \A j \in 1 .. n : q[j] = p[j]
  BY Appended
<1> HIDE DEF q, n
<1>2. /\ b \in 0 .. n /\ n # b
      /\ b # 0 => p[b].op = "end_sequence"
      /\ \A j \in b + 1 .. n : /\ p[j].op # "end_sequence"
                               /\ p[j].op = "set_address" <=> j = b + 1
  BY DEF Begun, n
<1>3. Max(PlacesOf(q, "end_sequence", 0, (n + 1) - 1) \cup {0}) = b
  <2> DEFINE E == PlacesOf(q, "end_sequence", 0, (n + 1) - 1) \cup {0}
  <2>1. E \subseteq Nat /\ b \in E
    BY <1>1, <1>2 DEF PlacesOf
  <2>2. \A y \in E : y <= b
    <3> SUFFICES ASSUME NEW y \in E, ~(y <= b) PROVE FALSE
      OBVIOUS
    <3>1. y \in b + 1 .. n /\ y \in 1 .. n /\ q[y].op = "end_sequence"
      BY <1>1, <1>2 DEF PlacesOf
    <3> QED  BY <3>1, <1>1, <1>2
  <2> HIDE DEF E
  <2>3. Max(E) = b
    BY <2>1, <2>2, MaxIs
  <2> QED  BY <2>3 DEF E
<1>4. Max(PlacesOf(q, "set_address", 0, n + 1)) = b + 1
  <2> DEFINE E == PlacesOf(q, "set_address", 0, n + 1)
  <2>1. E \subseteq Nat /\ b + 1 \in E
    BY <1>1, <1>2 DEF PlacesOf
  <2>2. \A y \in E : y <= b + 1
    <3> SUFFICES ASSUME NEW y \in E, ~(y <= b + 1) PROVE FALSE
      OBVIOUS
    <3>1. y \in 1 .. n + 1 /\ q[y].op = "set_address"
      BY DEF PlacesOf
    <3>2. y # n + 1
      BY <3>1, <1>1 DEF Emitting
    <3>3. y \in b + 1 .. n /\ y \in 1 .. n /\ y # b + 1
      BY <3>1, <3>2, <1>1, <1>2
    <3> QED  BY <3>1, <3>3, <1>1, <1>2
  <2> HIDE DEF E
  <2>3. Max(E) = b + 1
    BY <2>1, <2>2, MaxIs
  <2> QED  BY <2>3 DEF E
<1>5. /\ t = [address |-> t.address, opIndex |-> t.opIndex, file |-> t.file,
              line |-> t.line, stmt |-> t.stmt, end |-> t.end]
      /\ t.line = 1 + LinesIn(h, q, b, n + 1)
      /\ t.stmt = (h.defaultIsStmt <=> NegationsIn(q, b, n + 1) % 2 = 0)
      /\ t.file = FileNumber(I, u, NamedBy(q, b, n + 1))
  BY DEF Keeps, q, n
<1>6. t.address = (q[b + 1].n + h.minimumInstructionLength
                     * (OperationsIn(h, q, b + 1, n + 1) \div h.maximumOperationsInstructions))
                    % WordSize
  <2>1. n + 1 # b
    BY <1>1, <1>2
  <2> QED  BY <2>1 DEF Keeps, q, n
<1>7. /\ m.address = (q[b + 1].n + h.minimumInstructionLength
                        * (OperationsIn(h, q, b + 1, n + 1) \div h.maximumOperationsInstructions))
                       % WordSize
      /\ m.line = 1 + LinesIn(h, q, b, n + 1)
      /\ m.stmt = (h.defaultIsStmt <=> NegationsIn(q, b, n + 1) % 2 = 0)
      /\ m.end = (q[n + 1].op = "end_sequence")
      /\ m.file = NamedBy(q, b, n + 1)
  BY <1>3, <1>4 DEF Meant, OperationsIn, LinesIn, NegationsIn, NamedBy
<1> HIDE DEF m
<1>8. /\ RowBy(x, t).address = t.address /\ RowBy(x, t).line = t.line
      /\ RowBy(x, t).stmt = t.stmt /\ RowBy(x, t).file = t.file
      /\ RowBy(x, t).end = (x.op = "end_sequence")
  BY <1>5 DEF RowBy
<1>9. Fits(I, u, RowBy(x, t), m)
  BY <1>1, <1>5, <1>6, <1>7, <1>8 DEF Fits
<1> QED  BY <1>9 DEF m, q, n

Opens(p) == p # <<>> => p[1].op = "set_address"

\* What an instruction means does not depend on those after it.
LEMMA MeantStays ==
  ASSUME NEW h \in Header, NEW S, Operands(S), NEW p \in Seq(S), NEW x \in S, Opens(p),
         NEW i \in 1 .. Len(p)
  PROVE  Meant(h, Append(p, x), i) = Meant(h, p, i)
<1> DEFINE q == Append(p, x)
           n == Len(p)
<1>1. /\ n \in Nat /\ i \in 1 .. n /\ p # <<>>
      /\ \A j \in 1 .. n : q[j] = p[j]
  BY Appended
<1> HIDE DEF q, n
<1>2. PICK b : b = Max(PlacesOf(p, "end_sequence", 0, i - 1) \cup {0})
  OBVIOUS
<1>3. b \in 0 .. i - 1
  <2> DEFINE E == PlacesOf(p, "end_sequence", 0, i - 1) \cup {0}
  <2>1. E \subseteq 0 .. i - 1 /\ E # {} /\ i - 1 \in Nat
    BY <1>1 DEF PlacesOf
  <2> HIDE DEF E
  <2>2. Max(E) \in E
    BY <2>1, MaxOf
  <2> QED  BY <1>2, <2>1, <2>2 DEF E
<1>4. PICK a : a = Max(PlacesOf(p, "set_address", 0, i))
  OBVIOUS
<1>5. a \in 1 .. i
  <2> DEFINE E == PlacesOf(p, "set_address", 0, i)
  <2>1. E \subseteq 1 .. i /\ E \subseteq 0 .. i /\ 1 \in E /\ i \in Nat
    BY <1>1 DEF PlacesOf, Opens
  <2> HIDE DEF E
  <2>2. Max(E) \in E
    BY <2>1, MaxOf
  <2> QED  BY <1>4, <2>1, <2>2 DEF E
<1>6. /\ PlacesOf(q, "end_sequence", 0, i - 1) = PlacesOf(p, "end_sequence", 0, i - 1)
      /\ PlacesOf(q, "set_address", 0, i) = PlacesOf(p, "set_address", 0, i)
      /\ PlacesOf(q, "set_file", b, i) = PlacesOf(p, "set_file", b, i)
  <2>1. PlacesOf(q, "end_sequence", 0, i - 1) = PlacesOf(p, "end_sequence", 0, i - 1)
    BY <1>1 DEF PlacesOf
  <2>2. PlacesOf(q, "set_address", 0, i) = PlacesOf(p, "set_address", 0, i)
    BY <1>1 DEF PlacesOf
  <2>3. PlacesOf(q, "set_file", b, i) = PlacesOf(p, "set_file", b, i)
    BY <1>1, <1>3 DEF PlacesOf
  <2> QED  BY <2>1, <2>2, <2>3
<1>7. PICK N : N = PlacesOf(p, "set_file", b, i)
  OBVIOUS
<1>8. N # {} => q[Max(N)] = p[Max(N)]
  <2>1. N \subseteq 1 .. n /\ N \subseteq 0 .. n
    BY <1>1, <1>3, <1>7 DEF PlacesOf
  <2>2. N # {} => Max(N) \in N
    BY <1>1, <2>1, MaxOf
  <2> QED  BY <1>1, <2>1, <2>2
<1>9. /\ OperationsIn(h, q, a, i) = OperationsIn(h, p, a, i)
       /\ LinesIn(h, q, b, i) = LinesIn(h, p, b, i)
       /\ NegationsIn(q, b, i) = NegationsIn(p, b, i)
  <2>1. a \in 0 .. n /\ b \in 0 .. n /\ i \in 0 .. n
    BY <1>1, <1>3, <1>5
  <2> QED  BY <2>1, SumsGrow DEF q, n
<1>10. q[a] = p[a] /\ q[i] = p[i]
  BY <1>1, <1>5
<1>11. Meant(h, p, i) =
         [address |-> (p[a].n + h.minimumInstructionLength
                         * (OperationsIn(h, p, a, i) \div h.maximumOperationsInstructions)) % WordSize,
          line |-> 1 + LinesIn(h, p, b, i),
          stmt |-> h.defaultIsStmt <=> NegationsIn(p, b, i) % 2 = 0,
          end |-> p[i].op = "end_sequence",
          file |-> IF N = {} THEN 1 ELSE p[Max(N)].n]
  BY <1>2, <1>4, <1>7 DEF Meant, OperationsIn, LinesIn, NegationsIn
<1>12. Meant(h, q, i) =
         [address |-> (q[a].n + h.minimumInstructionLength
                         * (OperationsIn(h, q, a, i) \div h.maximumOperationsInstructions)) % WordSize,
          line |-> 1 + LinesIn(h, q, b, i),
          stmt |-> h.defaultIsStmt <=> NegationsIn(q, b, i) % 2 = 0,
          end |-> q[i].op = "end_sequence",
          file |-> IF N = {} THEN 1 ELSE q[Max(N)].n]
  BY <1>2, <1>4, <1>6, <1>7 DEF Meant, OperationsIn, LinesIn, NegationsIn
<1> QED  BY <1>8, <1>9, <1>10, <1>11, <1>12 DEF q

\* The file a program names is a number.
LEMMA MeantFile ==
  ASSUME NEW h \in Header, NEW S, Operands(S), NEW p \in Seq(S), NEW i \in 1 .. Len(p)
  PROVE  Meant(h, p, i).file \in Nat
<1>1. PICK b : b = Max(PlacesOf(p, "end_sequence", 0, i - 1) \cup {0})
  OBVIOUS
<1>2. b \in Nat
  <2> DEFINE E == PlacesOf(p, "end_sequence", 0, i - 1) \cup {0}
  <2>1. E \subseteq 0 .. i - 1 /\ E # {} /\ i - 1 \in Nat
    BY DEF PlacesOf
  <2> HIDE DEF E
  <2>2. Max(E) \in E
    BY <2>1, MaxOf
  <2> QED  BY <1>1, <2>1, <2>2 DEF E
<1>3. PICK N : N = PlacesOf(p, "set_file", b, i)
  OBVIOUS
<1>4. N \subseteq 1 .. Len(p) /\ N \subseteq 0 .. Len(p) /\ \A j \in N : p[j].op = "set_file"
  BY <1>2, <1>3 DEF PlacesOf
<1>5. N # {} => p[Max(N)].n \in Nat
  <2>1. Len(p) \in Nat
    OBVIOUS
  <2>2. N # {} => Max(N) \in N
    BY <1>4, <2>1, MaxOf
  <2>3. \A j \in 1 .. Len(p) : p[j] \in S
    OBVIOUS
  <2> QED  BY <1>4, <2>2, <2>3 DEF Operands, WellFormedOperand
<1>6. Meant(h, p, i).file = IF N = {} THEN 1 ELSE p[Max(N)].n
  BY <1>1, <1>3 DEF Meant
<1> QED  BY <1>5, <1>6

-----------------------------------------------------------------------------
(* The table                                                               *)

IsList(r) == Len(r) \in Nat /\ r = [k \in 1 .. Len(r) |-> r[k]]

LEMMA ListGrows ==
  ASSUME NEW r, IsList(r), NEW x
  PROVE  /\ IsList(Append(r, x)) /\ Len(Append(r, x)) = Len(r) + 1
         /\ Append(r, x)[Len(r) + 1] = x
         /\ \A k \in 1 .. Len(r) : Append(r, x)[k] = r[k]
<1> DEFINE S == {r[k] : k \in 1 .. Len(r)} \cup {x}
<1>1. r \in [1 .. Len(r) -> S] /\ x \in S /\ Len(r) \in Nat
  BY DEF IsList
<1>2. r \in Seq(S)
  BY <1>1
<1> HIDE DEF S
<1>3. /\ Append(r, x) \in Seq(S) /\ Len(Append(r, x)) = Len(r) + 1
      /\ Append(r, x)[Len(r) + 1] = x
      /\ \A k \in 1 .. Len(r) : Append(r, x)[k] = r[k]
  BY <1>1, <1>2
<1>4. IsList(Append(r, x))
  <2>1. PICK t : t = Append(r, x)
    OBVIOUS
  <2>2. t \in Seq(S)
    BY <1>3, <2>1
  <2>3. IsList(t)
    BY <2>2 DEF IsList
  <2> QED  BY <2>1, <2>3
<1> QED  BY <1>3, <1>4

\* The table has one row for each instruction that puts one there, as it means.
Table(h, I, u, p, r) ==
  /\ IsList(r)
  /\ Len(r) = Cardinality(Emitters(p))
  /\ \A i \in Emitters(p) : Nth(p, i) \in 1 .. Len(r) /\ Fits(I, u, r[Nth(p, i)], Meant(h, p, i))
  /\ \A k \in 1 .. Len(r) : \E i \in Emitters(p) : Nth(p, i) = k
  /\ \A k \in 1 .. Len(r) : r[k].address \in 0 .. WordSize - 1

LEMMA EmittersFinite ==
  ASSUME NEW S, NEW p \in Seq(S)
  PROVE  /\ IsFiniteSet(Emitters(p)) /\ Cardinality(Emitters(p)) \in Nat
         /\ Emitters(p) \subseteq 1 .. Len(p)
<1>1. Emitters(p) \subseteq 1 .. Len(p)
  BY DEF Emitters
<1>2. IsFiniteSet(1 .. Len(p))
  <2>1. 1 \in Int /\ Len(p) \in Int
    OBVIOUS
  <2> QED  BY <2>1, FS_Interval
<1> QED  BY <1>1, <1>2, FS_Subset, FS_CardinalityType

LEMMA EmittersGrow ==
  ASSUME NEW S, NEW p \in Seq(S), NEW x \in S
  PROVE  LET q == Append(p, x)
             n == Len(p)
         IN  /\ x.op \notin Emitting => Emitters(q) = Emitters(p)
             /\ x.op \in Emitting =>
                  /\ Emitters(q) = Emitters(p) \cup {n + 1}
                  /\ Cardinality(Emitters(q)) = Cardinality(Emitters(p)) + 1
                  /\ Nth(q, n + 1) = Cardinality(Emitters(p)) + 1
             /\ \A i \in Emitters(p) : Nth(q, i) = Nth(p, i)
<1> DEFINE q == Append(p, x)
           n == Len(p)
<1>1. /\ n \in Nat /\ q[n + 1] = x
      /\ \A j \in 1 .. n : q[j] = p[j]
      /\ DOMAIN p = 1 .. n /\ DOMAIN q = 1 .. n + 1
  BY Appended
<1> HIDE DEF q, n
<1>2. \A j \in 1 .. n + 1 : j \in 1 .. n \/ j = n + 1
  BY <1>1
<1>3. Emitters(p) \subseteq 1 .. n /\ IsFiniteSet(Emitters(p)) /\ n + 1 \notin 1 .. n
  BY <1>1, EmittersFinite DEF n
<1>4. x.op \notin Emitting => Emitters(q) = Emitters(p)
  BY <1>1, <1>2 DEF Emitters, Emitting
<1>5. x.op \in Emitting => Emitters(q) = Emitters(p) \cup {n + 1}
  BY <1>1, <1>2 DEF Emitters, Emitting
<1>6. Cardinality(Emitters(p) \cup {n + 1}) = Cardinality(Emitters(p)) + 1
  BY <1>3, FS_AddElement
<1>7. x.op \in Emitting => Nth(q, n + 1) = Cardinality(Emitters(p)) + 1
  <2> SUFFICES ASSUME x.op \in Emitting PROVE Nth(q, n + 1) = Cardinality(Emitters(p)) + 1
    OBVIOUS
  <2>1. {e \in Emitters(q) : e <= n + 1} = Emitters(p) \cup {n + 1}
    BY <1>1, <1>3, <1>5
  <2> QED  BY <1>6, <2>1 DEF Nth
<1>8. \A i \in Emitters(p) : Nth(q, i) = Nth(p, i)
  <2> SUFFICES ASSUME NEW i \in Emitters(p) PROVE Nth(q, i) = Nth(p, i)
    OBVIOUS
  <2>1. {e \in Emitters(q) : e <= i} = {e \in Emitters(p) : e <= i}
    BY <1>1, <1>3, <1>4, <1>5
  <2> QED  BY <2>1 DEF Nth
<1> QED  BY <1>4, <1>5, <1>6, <1>7, <1>8 DEF q, n

LEMMA TableStays ==
  ASSUME NEW h \in Header, NEW I, NEW u, NEW S, Operands(S), NEW p \in Seq(S), NEW x \in S,
         Opens(p), x.op \notin Emitting, NEW r, Table(h, I, u, p, r)
  PROVE  Table(h, I, u, Append(p, x), r)
<1> DEFINE q == Append(p, x)
<1>1. Emitters(q) = Emitters(p) /\ \A i \in Emitters(p) : Nth(q, i) = Nth(p, i)
  BY EmittersGrow
<1>2. \A i \in Emitters(p) : Meant(h, q, i) = Meant(h, p, i)
  BY EmittersFinite, MeantStays
<1> HIDE DEF q
<1>3. Table(h, I, u, q, r)
  BY <1>1, <1>2 DEF Table
<1> QED  BY <1>3 DEF q

LEMMA TableGrows ==
  ASSUME NEW h \in Header, NEW I, NEW u, NEW S, Operands(S), NEW p \in Seq(S), NEW x \in S,
         Opens(p), x.op \in Emitting, NEW r, Table(h, I, u, p, r),
         NEW row, Fits(I, u, row, Meant(h, Append(p, x), Len(p) + 1)),
         row.address \in 0 .. WordSize - 1
  PROVE  Table(h, I, u, Append(p, x), Append(r, row))
<1> DEFINE q == Append(p, x)
           n == Len(p)
           s == Append(r, row)
           c == Cardinality(Emitters(p))
<1>1. /\ Emitters(q) = Emitters(p) \cup {n + 1}
      /\ Cardinality(Emitters(q)) = c + 1
      /\ Nth(q, n + 1) = c + 1
      /\ \A i \in Emitters(p) : Nth(q, i) = Nth(p, i)
  BY EmittersGrow
<1>2. \A i \in Emitters(p) : Meant(h, q, i) = Meant(h, p, i)
  BY EmittersFinite, MeantStays
<1>3. IsList(r) /\ Len(r) = c /\ c \in Nat
  BY DEF Table, IsList
<1>4. /\ IsList(s) /\ Len(s) = c + 1 /\ s[c + 1] = row
      /\ \A k \in 1 .. c : s[k] = r[k]
  BY <1>3, ListGrows
<1>5. Fits(I, u, row, Meant(h, q, n + 1))
  OBVIOUS
<1>6. /\ \A i \in Emitters(p) : Nth(p, i) \in 1 .. c /\ Fits(I, u, r[Nth(p, i)], Meant(h, p, i))
      /\ \A k \in 1 .. c : \E i \in Emitters(p) : Nth(p, i) = k
      /\ \A k \in 1 .. c : r[k].address \in 0 .. WordSize - 1
  BY <1>3 DEF Table
<1>7. \A k \in 1 .. c + 1 : k \in 1 .. c \/ k = c + 1
  BY <1>3
<1>8. c + 1 \in 1 .. c + 1 /\ \A k \in 1 .. c : k \in 1 .. c + 1
  BY <1>3
<1> HIDE DEF q, n, s, c
<1>9. \A i \in Emitters(q) : Nth(q, i) \in 1 .. c + 1 /\ Fits(I, u, s[Nth(q, i)], Meant(h, q, i))
  BY <1>1, <1>2, <1>4, <1>5, <1>6, <1>8
<1>10. \A k \in 1 .. c + 1 : \E i \in Emitters(q) : Nth(q, i) = k
  BY <1>1, <1>6, <1>7
<1>11. \A k \in 1 .. c + 1 : s[k].address \in 0 .. WordSize - 1
  BY <1>4, <1>6, <1>7
<1>12. Table(h, I, u, q, s)
  BY <1>1, <1>4, <1>9, <1>10, <1>11 DEF Table
<1> QED  BY <1>12 DEF q, s

\* The table of a program not begun.
LEMMA EmptyTable ==
  ASSUME NEW h, NEW I, NEW u
  PROVE  Table(h, I, u, <<>>, <<>>) /\ Opens(<<>>)
<1>1. Emitters(<<>>) = {}
  BY DEF Emitters
<1>2. Cardinality({}) = 0
  BY FS_EmptySet
<1>3. Len(<<>>) = 0 /\ IsList(<<>>)
  BY DEF IsList
<1>4. PICK e : e = <<>>
  OBVIOUS
<1>5. Emitters(e) = {} /\ Len(e) = 0 /\ IsList(e) /\ Cardinality(Emitters(e)) = 0
  BY <1>1, <1>2, <1>3, <1>4
<1>6. Table(h, I, u, e, e)
  BY <1>5 DEF Table
<1> QED  BY <1>4, <1>6 DEF Opens

-----------------------------------------------------------------------------
(* A step of the program                                                   *)

Start(h, f) ==
  [address |-> 0, opIndex |-> 0, file |-> f, line |-> 1, stmt |-> h.defaultIsStmt, end |-> FALSE]

\* Before its first instruction a sequence has added nothing.
LEMMA KeepsFresh ==
  ASSUME NEW h \in Header, NEW I, NEW u, NEW S, Operands(S), NEW p \in Seq(S),
         NEW f, f = FileNumber(I, u, 1)
  PROVE  Keeps(h, I, u, p, Len(p), Len(p), Start(h, f))
<1> DEFINE n == Len(p)
<1>1. n \in Nat /\ DOMAIN p = 1 .. n /\ \A j \in 1 .. n : p[j] \in S
  OBVIOUS
<1> HIDE DEF n
<1>2. \A g \in [1 .. n -> Int] : Totals(g)[n] - Totals(g)[n] = 0
  <2>1. \A g \in [1 .. n -> Int] : Totals(g)[n] \in Int
    BY <1>1, TotalsAreInt
  <2> QED  BY <2>1
<1>3. \A j \in 1 .. n : p[j].n \in Int
  BY <1>1 DEF Operands, WellFormedOperand
<1>4. LinesIn(h, p, n, n) = 0
  <2> DEFINE g == [j \in 1 .. n |-> LinesBy(h, p[j])]
  <2>1. g \in [1 .. n -> Int]
    BY <1>1, <1>3, Numbered3
  <2>2. LinesIn(h, p, n, n) = Totals(g)[n] - Totals(g)[n]
    BY <1>1 DEF LinesIn, SumOf
  <2> HIDE DEF g
  <2> QED  BY <1>2, <2>1, <2>2
<1>5. NegationsIn(p, n, n) = 0
  <2> DEFINE g == [j \in 1 .. n |-> Negations(p[j])]
  <2>1. g \in [1 .. n -> Int]
    BY <1>1, <1>3, Numbered3
  <2>2. NegationsIn(p, n, n) = Totals(g)[n] - Totals(g)[n]
    BY <1>1 DEF NegationsIn, SumOf
  <2> HIDE DEF g
  <2> QED  BY <1>2, <2>1, <2>2
<1>6. NamedBy(p, n, n) = 1
  <2>1. PlacesOf(p, "set_file", n, n) = {}
    BY <1>1 DEF PlacesOf
  <2> QED  BY <2>1 DEF NamedBy
<1>7. h.defaultIsStmt \in BOOLEAN
  BY HeaderTypes
<1>8. Keeps(h, I, u, p, n, n, Start(h, f))
  <2>1. h.defaultIsStmt = (h.defaultIsStmt <=> 0 % 2 = 0)
    BY <1>7
  <2> QED  BY <1>4, <1>5, <1>6, <2>1 DEF Keeps, Start
<1> QED  BY <1>8 DEF n

\* Within the widths of the code's registers.
Ranged(h, s) ==
  /\ s = [address |-> s.address, opIndex |-> s.opIndex, file |-> s.file,
          line |-> s.line, stmt |-> s.stmt, end |-> s.end]
  /\ s.address \in 0 .. WordSize - 1 /\ s.opIndex \in 0 .. h.maximumOperationsInstructions - 1
  /\ s.line \in Int /\ s.stmt \in BOOLEAN /\ s.end = FALSE

LEMMA KeepsRanged ==
  ASSUME NEW h \in Header, NEW I, NEW u, NEW S, Operands(S), S # {}, NEW p \in Seq(S),
         NEW b \in 0 .. Len(p), NEW s, Keeps(h, I, u, p, b, Len(p), s)
  PROVE  Ranged(h, s)
<1> DEFINE n == Len(p)
           M == h.maximumOperationsInstructions
           k == h.minimumInstructionLength
<1>1. PICK x : x \in S
  OBVIOUS
<1>2. n \in Nat /\ b \in 0 .. n /\ \A j \in 1 .. n : p[j] \in S
  OBVIOUS
<1> HIDE DEF n
<1>3. M \in Nat \ {0} /\ k \in Nat \ {0} /\ WordSize \in Nat \ {0}
  BY HeaderTypes, LineTableAssumption
<1> HIDE DEF M, k
<1>4. n \in 0 .. n
  BY <1>2
<1>5. LinesIn(h, p, b, n) \in Int
  BY <1>1, <1>2, <1>4, SumsGrow DEF n
<1>6. s.line \in Int /\ s.stmt \in BOOLEAN
  BY <1>5 DEF Keeps, n
<1>7. s.address \in 0 .. WordSize - 1 /\ s.opIndex \in 0 .. M - 1
  <2>1. CASE n = b
    <3>1. s.address = 0 /\ s.opIndex = 0
      BY <2>1 DEF Keeps, n
    <3> QED  BY <3>1, <1>3
  <2>2. CASE n # b
    <3>1. b + 1 \in 0 .. n /\ b + 1 \in 1 .. n
      BY <1>2, <2>2
    <3>2. PICK o, a : o = OperationsIn(h, p, b + 1, n) /\ a = p[b + 1].n
      OBVIOUS
    <3>3. o \in Int
      BY <1>1, <1>4, <3>1, <3>2, SumsGrow DEF n
    <3>4. a \in Int
      BY <1>2, <3>1, <3>2 DEF Operands, WellFormedOperand
    <3>5. s.address = (a + k * (o \div M)) % WordSize /\ s.opIndex = o % M
      BY <2>2, <3>2 DEF Keeps, n, k, M
    <3>6. a + k * (o \div M) \in Int
      <4>1. o \div M \in Int
        BY <1>3, <3>3
      <4>2. PICK d : d = o \div M
        OBVIOUS
      <4>3. k * d \in Int
        BY <1>3, <4>1, <4>2
      <4> QED  BY <3>4, <4>2, <4>3
    <3> QED  BY <1>3, <3>3, <3>5, <3>6, Divided
  <2> QED  BY <2>1, <2>2
<1> QED  BY <1>6, <1>7 DEF Keeps, Ranged, n, M

\* An instruction that advances by no operation stays where it is.
LEMMA AfterStays ==
  ASSUME NEW h \in Header, NEW s, Ranged(h, s)
  PROVE  LET M == h.maximumOperationsInstructions
         IN  /\ (s.address + h.minimumInstructionLength * ((s.opIndex + 0) \div M)) % WordSize
                  = s.address
             /\ (s.opIndex + 0) % M = s.opIndex
             /\ s.line + 0 = s.line
<1> DEFINE M == h.maximumOperationsInstructions
           k == h.minimumInstructionLength
<1>1. M \in Nat \ {0} /\ k \in Nat \ {0} /\ WordSize \in Nat \ {0}
  BY HeaderTypes, LineTableAssumption
<1>2. s.opIndex \in 0 .. M - 1 /\ s.address \in 0 .. WordSize - 1 /\ s.line \in Int
  BY DEF Ranged
<1> HIDE DEF M, k
<1>3. s.opIndex + 0 = s.opIndex /\ s.opIndex = M * 0 + s.opIndex
  BY <1>1, <1>2
<1>4. s.opIndex \div M = 0 /\ s.opIndex % M = s.opIndex
  BY <1>1, <1>2, <1>3, Quotient
<1>5. s.address + k * 0 = s.address
  BY <1>1, <1>2
<1>6. s.address % WordSize = s.address
  BY <1>1, <1>2
<1> QED  BY <1>2, <1>3, <1>4, <1>5, <1>6 DEF M, k

-----------------------------------------------------------------------------
(* The inductive invariant of the tables                                   *)

\* A unit's program and table so far, and its table once it is created.
UnitInv(h, I, u, p, r, c) ==
  /\ Opens(p)
  /\ Table(h, I, u, p, r)
  /\ c = "yes" => Len(r) # 0 /\ r[Len(r)].end

\* The registers of the program that runs, in the sequence that begins behind b.
RunInv(h, I, u, p, s, c) ==
  /\ c # "yes"
  /\ \E b : Begun(p, b, Len(p)) /\ Keeps(h, I, u, p, b, Len(p), s)

UnitsType ==
  /\ unit \in 0 .. Len(headers)
  /\ program \in [1 .. Len(headers) -> Seq(project.instructions)]
  /\ DOMAIN rows = 1 .. Len(headers) /\ rows = [u \in 1 .. Len(headers) |-> rows[u]]
  /\ DOMAIN created = 1 .. Len(headers) /\ created = [u \in 1 .. Len(headers) |-> created[u]]

\* The headers before the current one are done.
Full(H, I) == \A v \in 1 .. Len(I) - 1 : Len(I[v]) = Len(H[v])

TInv ==
  /\ IInv
  /\ Full(headers, indices)
  /\ UnitsType
  /\ \A u \in 1 .. Len(headers) :
       /\ UnitInv(header, indices, u, program[u], rows[u], created[u])
       /\ u # unit /\ created[u] = "no" => program[u] = <<>>
       /\ ~Parsed => program[u] = <<>> /\ rows[u] = <<>> /\ created[u] = "no"
  /\ unit # 0 =>
       Parsed /\ RunInv(header, indices, unit, program[unit], state, created[unit])

LEMMA ProjectTypes ==
  ASSUME project \in Projects
  PROVE  /\ header \in Header /\ Operands(project.instructions)
         /\ headers \in Seq(Seq(Files)) /\ 1 <= Len(headers) /\ Len(headers) \in Nat
         /\ DOMAIN headers = 1 .. Len(headers)
BY LineProgramAssumption, HeadersType DEF header, Operands

LEMMA InitTables == Init => TInv
<1> SUFFICES ASSUME Init PROVE TInv
  OBVIOUS
<1>1. /\ project \in Projects /\ indices = <<<<>>>> /\ unit = 0
      /\ program = [u \in DOMAIN headers |-> <<>>]
      /\ rows = [u \in DOMAIN headers |-> <<>>]
      /\ created = [u \in DOMAIN headers |-> "no"]
  BY DEF Init
<1>2. Len(headers) \in Nat /\ DOMAIN headers = 1 .. Len(headers)
  BY <1>1, ProjectTypes
<1>3. Full(headers, indices)
  <2>1. Len(indices) = 1
    BY <1>1
  <2> QED  BY <2>1 DEF Full
<1>4. UnitsType
  BY <1>1, <1>2 DEF UnitsType
<1>5. ASSUME NEW u \in 1 .. Len(headers)
      PROVE  /\ UnitInv(header, indices, u, program[u], rows[u], created[u])
             /\ program[u] = <<>> /\ rows[u] = <<>> /\ created[u] = "no"
  <2>1. program[u] = <<>> /\ rows[u] = <<>> /\ created[u] = "no"
    BY <1>1, <1>2
  <2> QED  BY <2>1, EmptyTable DEF UnitInv
<1> QED  BY <1>1, <1>3, <1>4, <1>5, InitOK DEF TInv

-----------------------------------------------------------------------------
(* While headers are parsed, nothing else happens                          *)

LEMMA HeadersFull ==
  ASSUME TInv, [Next]_vars
  PROVE  Full(headers, indices)'
<1>1. headers \in Seq(Seq(Files)) /\ indices \in Seq(Seq(Nat)) /\ 1 <= Len(indices)
  BY HeadersType DEF TInv, IInv
<1>2. Full(headers, indices)
  BY DEF TInv
<1>3. CASE KnownFile \/ NewFile
  <2>1. PICK n : indices' = [indices EXCEPT ![Current] = Append(@, n)] /\ project' = project
    BY <1>3 DEF KnownFile, NewFile, Numbered
  <2>2. headers' = headers
    BY <2>1 DEF headers
  <2>3. Len(indices') = Len(indices) /\ \A v \in 1 .. Len(indices) - 1 : indices'[v] = indices[v]
    BY <1>1, <2>1 DEF Current
  <2> QED  BY <1>2, <2>2, <2>3 DEF Full
<1>4. CASE NextHeader
  <2>1. /\ indices' = Append(indices, <<>>) /\ project' = project
        /\ Len(indices[Len(indices)]) = Len(headers[Len(indices)])
    BY <1>4 DEF NextHeader, FilesDone, Current
  <2>2. headers' = headers
    BY <2>1 DEF headers
  <2>3. Len(indices') = Len(indices) + 1 /\ \A v \in 1 .. Len(indices) : indices'[v] = indices[v]
    BY <1>1, <2>1
  <2>4. \A v \in 1 .. Len(indices') - 1 : v \in 1 .. Len(indices) - 1 \/ v = Len(indices)
    BY <1>1, <2>3
  <2>5. \A v \in 1 .. Len(indices) - 1 : v \in 1 .. Len(indices)
    BY <1>1
  <2>6. Len(indices) \in 1 .. Len(indices)
    BY <1>1
  <2> QED  BY <1>2, <2>1, <2>2, <2>3, <2>4, <2>5, <2>6 DEF Full
<1>5. CASE UNCHANGED <<project, files, indices>>
  <2>1. headers' = headers /\ indices' = indices
    BY <1>5 DEF headers
  <2> QED  BY <1>2, <2>1
<1> QED  BY <1>3, <1>4, <1>5, TablesOK

LEMMA ParsingOK == TInv /\ (KnownFile \/ NewFile \/ NextHeader) => TInv'
<1> SUFFICES ASSUME TInv, KnownFile \/ NewFile \/ NextHeader PROVE TInv'
  OBVIOUS
<1>1. IInv' /\ Full(headers, indices)'
  <2>1. [Next]_vars
    BY DEF Next
  <2> QED  BY <2>1, Inductive, HeadersFull DEF TInv
<1>2. /\ ~Parsed
      /\ project' = project /\ unit' = unit /\ program' = program
      /\ rows' = rows /\ created' = created
  <2>1. ~Parsed
    BY DEF KnownFile, NewFile, NextHeader, Parsed, FilesDone, Current
  <2> QED  BY <2>1 DEF KnownFile, NewFile, NextHeader, running
<1>3. headers' = headers /\ header' = header
  BY <1>2 DEF headers, header
<1>4. unit = 0
  BY <1>2 DEF TInv
<1>5. UnitsType'
  BY <1>2, <1>3 DEF TInv, UnitsType
<1>6. ASSUME NEW u \in 1 .. Len(headers)
      PROVE  /\ program[u] = <<>> /\ rows[u] = <<>> /\ created[u] = "no"
             /\ UnitInv(header, indices', u, program[u], rows[u], created[u])
  <2>1. program[u] = <<>> /\ rows[u] = <<>> /\ created[u] = "no"
    BY <1>2 DEF TInv
  <2> QED  BY <2>1, EmptyTable DEF UnitInv
<1> QED  BY <1>1, <1>2, <1>3, <1>4, <1>5, <1>6 DEF TInv

-----------------------------------------------------------------------------
(* A table is begun and created                                            *)

LEMMA GetLineTableOK ==
  ASSUME TInv, NEW t \in DOMAIN headers, GetLineTable(t)
  PROVE  TInv'
<1>1. /\ Parsed /\ unit = 0 /\ created[t] = "no" /\ unit' = t
      /\ state' = Start(header, FileNumber(indices, t, 1))
      /\ UNCHANGED <<project, files, indices, program, rows, created>>
  BY DEF GetLineTable, Registers, Start
<1>2. headers' = headers /\ header' = header /\ Parsed'
  BY <1>1 DEF headers, header, Parsed, FilesDone, Current
<1>3. IInv' /\ Full(headers, indices)'
  <2>1. [Next]_vars
    BY DEF Next
  <2> QED  BY <2>1, Inductive, HeadersFull DEF TInv
<1>4. /\ header \in Header /\ Operands(project.instructions)
      /\ Len(headers) \in Nat /\ DOMAIN headers = 1 .. Len(headers)
  BY ProjectTypes DEF TInv, IInv
<1>5. t \in 1 .. Len(headers) /\ t # 0
  BY <1>4
<1>6. program[t] = <<>> /\ created[t] # "yes"
  BY <1>1, <1>5 DEF TInv
<1>7. PICK p, h, I, s : p = program[t] /\ h = header /\ I = indices /\ s = state'
  OBVIOUS
<1>8. RunInv(h, I, t, p, s, "no")
  <2>1. p \in Seq(project.instructions) /\ Len(p) = 0
    BY <1>6, <1>7
  <2>2. Keeps(h, I, t, p, Len(p), Len(p), s)
    BY <1>1, <1>4, <1>7, <2>1, KeepsFresh
  <2>3. Begun(p, 0, Len(p))
    BY <2>1 DEF Begun
  <2> QED  BY <2>1, <2>2, <2>3 DEF RunInv
<1>9. RunInv(header, indices, unit, program[unit], state, created[unit])'
  <2>1. /\ program'[unit'] = p /\ header' = h /\ indices' = I /\ unit' = t
        /\ created'[unit'] = "no"
    BY <1>1, <1>2, <1>7
  <2> QED  BY <1>7, <1>8, <2>1
<1>10. UnitsType'
  BY <1>1, <1>2, <1>5 DEF TInv, UnitsType
<1>11. ASSUME NEW u \in 1 .. Len(headers)
       PROVE  /\ UnitInv(header, indices, u, program[u], rows[u], created[u])
              /\ created[u] = "no" => program[u] = <<>>
  BY <1>1 DEF TInv
<1> QED  BY <1>1, <1>2, <1>3, <1>9, <1>10, <1>11 DEF TInv

LEMMA TableCreatedOK == TInv /\ TableCreated /\ ~Failed => TInv'
<1> SUFFICES ASSUME TInv, TableCreated, ~Failed PROVE TInv'
  OBVIOUS
<1>1. /\ unit # 0 /\ Fresh /\ program[unit] # <<>>
      /\ created' = [created EXCEPT ![unit] = "yes"] /\ unit' = 0
      /\ UNCHANGED <<project, files, indices, program, state, rows>>
  BY DEF TableCreated
<1>2. headers' = headers /\ header' = header /\ (Parsed' <=> Parsed)
  BY <1>1 DEF headers, header, Parsed, FilesDone, Current
<1>3. IInv' /\ Full(headers, indices)'
  <2>1. [Next]_vars
    BY DEF Next
  <2> QED  BY <2>1, Inductive, HeadersFull DEF TInv
<1>4. Len(headers) \in Nat
  BY ProjectTypes DEF TInv, IInv
<1>5. unit \in 1 .. Len(headers) /\ Parsed
  BY <1>1, <1>4 DEF TInv, UnitsType
<1>6. UnitsType'
  <2>1. DOMAIN created = 1 .. Len(headers)
    BY DEF TInv, UnitsType
  <2>2. created' = [u \in 1 .. Len(headers) |-> IF u = unit THEN "yes" ELSE created[u]]
    BY <1>1, <2>1
  <2>3. DOMAIN created' = 1 .. Len(headers) /\ created' = [u \in 1 .. Len(headers) |-> created'[u]]
    BY <2>2
  <2>4. unit' \in 0 .. Len(headers)
    BY <1>1, <1>4
  <2> QED  BY <1>1, <1>2, <2>3, <2>4 DEF TInv, UnitsType
<1>7. PICK p, h, I, r, v : /\ p = program[unit] /\ h = header /\ I = indices
                           /\ r = rows[unit] /\ v = unit
  OBVIOUS
<1>8. Opens(p) /\ Table(h, I, v, p, r) /\ p \in Seq(project.instructions)
  BY <1>5, <1>7 DEF TInv, UnitInv, UnitsType
<1>9. Len(r) # 0 /\ r[Len(r)].end
  <2> DEFINE n == Len(p)
  <2>1. p # <<>> /\ p[n].op = "end_sequence"
    BY <1>1, <1>7 DEF Fresh, Last
  <2>2. n \in DOMAIN p /\ DOMAIN p = 1 .. n
    BY <1>8, <2>1
  <2>3. n \in Emitters(p)
    BY <2>1, <2>2 DEF Emitters
  <2>4. Emitters(p) \subseteq 1 .. n
    BY <1>8, EmittersFinite
  <2>5. {e \in Emitters(p) : e <= n} = Emitters(p)
    BY <2>4
  <2> HIDE DEF n
  <2>6. Nth(p, n) = Len(r) /\ Nth(p, n) \in 1 .. Len(r)
    BY <1>8, <2>3, <2>5 DEF Nth, Table
  <2>7. r[Len(r)].end = Meant(h, p, n).end
    BY <1>8, <2>3, <2>6 DEF Table, Fits
  <2>8. Meant(h, p, n).end = (p[n].op = "end_sequence")
    BY DEF Meant
  <2>9. Len(r) # 0
    BY <2>6
  <2> QED  BY <2>1, <2>7, <2>8, <2>9
<1>10. UnitInv(h, I, v, p, r, "yes")
  BY <1>8, <1>9 DEF UnitInv
<1>11. created'[v] = "yes" /\ \A u \in 1 .. Len(headers) : u # v => created'[u] = created[u]
  BY <1>1, <1>5, <1>7 DEF TInv, UnitsType
<1>12. ASSUME NEW u \in 1 .. Len(headers)
       PROVE  /\ UnitInv(header, indices, u, program[u], rows[u], created'[u])
              /\ created'[u] = "no" => program[u] = <<>>
  <2>1. CASE u = v
    BY <1>7, <1>10, <1>11, <2>1
  <2>2. CASE u # v
    <3>1. created'[u] = created[u]
      BY <1>11, <2>2
    <3> QED  BY <1>7, <2>2, <3>1 DEF TInv
  <2> QED  BY <2>1, <2>2
<1> QED  BY <1>1, <1>2, <1>3, <1>5, <1>6, <1>12 DEF TInv

-----------------------------------------------------------------------------
(* An instruction is read                                                  *)

LEMMA FreshIs ==
  ASSUME NEW b, NEW S, NEW p \in Seq(S), Begun(p, b, Len(p))
  PROVE  (IF p = <<>> THEN TRUE ELSE Last(p).op = "end_sequence") <=> Len(p) = b
<1> DEFINE n == Len(p)
<1>1. n \in Nat /\ b \in 0 .. n
  BY DEF Begun
<1>2. CASE n = b
  <2>1. b # 0 => p[b].op = "end_sequence"
    BY DEF Begun
  <2>2. b = 0 => p = <<>>
    BY <1>2
  <2> QED  BY <1>2, <2>1, <2>2 DEF Last
<1>3. CASE n # b
  <2>1. n \in b + 1 .. n
    BY <1>1, <1>3
  <2>2. p[n].op # "end_sequence"
    BY <2>1 DEF Begun
  <2>3. p # <<>>
    BY <1>1, <1>3
  <2> QED  BY <1>3, <2>2, <2>3 DEF Last
<1> QED  BY <1>2, <1>3

LEMMA SetsRegister ==
  ASSUME NEW a, NEW o, NEW f, NEW l, NEW b, NEW e, NEW v, NEW s,
         s = [address |-> a, opIndex |-> o, file |-> f, line |-> l, stmt |-> b, end |-> e]
  PROVE  /\ [s EXCEPT !.address = v]
              = [address |-> v, opIndex |-> o, file |-> f, line |-> l, stmt |-> b, end |-> e]
         /\ [s EXCEPT !.line = v]
              = [address |-> a, opIndex |-> o, file |-> f, line |-> v, stmt |-> b, end |-> e]
OBVIOUS

LEMMA RowSame ==
  ASSUME NEW x, x.op # "end_sequence", NEW a, NEW o, NEW f, NEW l, NEW b, NEW t,
         t = [address |-> a, opIndex |-> o, file |-> f, line |-> l, stmt |-> b, end |-> FALSE]
  PROVE  RowBy(x, t) = t
<1>1. RowBy(x, t) = [t EXCEPT !.end = FALSE]
  BY DEF RowBy
<1> QED  BY <1>1

\* What every opcode comes to.
LEMMA Instructed ==
  ASSUME NEW x, Instruct(x), Ranged(header, state), header \in Header
  PROVE  LET t == After(header, indices, unit, state, x)
         IN  /\ Reads(x)
             /\ state' = IF x.op = "end_sequence"
                           THEN Start(header, FileNumber(indices, unit, 1)) ELSE t
             /\ rows' = IF x.op \in Emitting
                          THEN [rows EXCEPT ![unit] = Append(@, RowBy(x, t))] ELSE rows
             /\ created' = IF x.op = "unsupported"
                             THEN [created EXCEPT ![unit] = "assertion"] ELSE created
<1> DEFINE t == After(header, indices, unit, state, x)
           M == header.maximumOperationsInstructions
           k == header.minimumInstructionLength
<1>1. PICK a, o, f, l, b : /\ a = state.address /\ o = state.opIndex /\ f = state.file
                           /\ l = state.line /\ b = state.stmt
  OBVIOUS
<1>2. state = [address |-> a, opIndex |-> o, file |-> f, line |-> l, stmt |-> b, end |-> FALSE]
  BY <1>1 DEF Ranged
<1>3. (a + k * ((o + 0) \div M)) % WordSize = a /\ (o + 0) % M = o /\ l + 0 = l
  BY <1>1, AfterStays
<1>4. t = [address |-> IF x.op = "set_address" THEN x.n
                       ELSE (a + k * ((o + Operations(header, x)) \div M)) % WordSize,
           opIndex |-> IF x.op = "set_address" THEN 0 ELSE (o + Operations(header, x)) % M,
           file |-> IF x.op = "set_file" THEN FileNumber(indices, unit, x.n) ELSE f,
           line |-> l + LinesBy(header, x),
           stmt |-> IF x.op = "negate_stmt" THEN ~b ELSE b,
           end |-> FALSE]
  BY <1>1 DEF After
<1>5. ASSUME NEW n
      PROVE  Advanced(state, n) =
               [address |-> (a + k * ((o + n) \div M)) % WordSize, opIndex |-> (o + n) % M,
                file |-> f, line |-> l, stmt |-> b, end |-> FALSE]
  <2> DEFINE r == [state EXCEPT !.address = (@ + k * ((state.opIndex + n) \div M)) % WordSize]
  <2>1. Advanced(state, n) = [r EXCEPT !.opIndex = (state.opIndex + n) % M]
    BY DEF Advanced
  <2>2. PICK v, w : v = (a + k * ((o + n) \div M)) % WordSize /\ w = (o + n) % M
    OBVIOUS
  <2>3. r = [state EXCEPT !.address = v]
    BY <1>1, <2>2
  <2>4. r = [address |-> v, opIndex |-> o, file |-> f, line |-> l, stmt |-> b, end |-> FALSE]
    <3>1. PICK s : s = state
      OBVIOUS
    <3>2. PICK e : e = FALSE
      OBVIOUS
    <3>3. s = [address |-> a, opIndex |-> o, file |-> f, line |-> l, stmt |-> b, end |-> e]
      BY <1>2, <3>1, <3>2
    <3>4. [s EXCEPT !.address = v]
            = [address |-> v, opIndex |-> o, file |-> f, line |-> l, stmt |-> b, end |-> e]
      BY ONLY <3>3, SetsRegister
    <3> QED  BY <2>3, <3>1, <3>2, <3>4
  <2> HIDE DEF r
  <2>5. Advanced(state, n) = [r EXCEPT !.opIndex = w]
    BY <1>1, <2>1, <2>2
  <2>6. Advanced(state, n) =
          [address |-> v, opIndex |-> w, file |-> f, line |-> l, stmt |-> b, end |-> FALSE]
    BY <2>4, <2>5
  <2> QED  BY <2>2, <2>6
<1> HIDE DEF t, M, k
<1>6. CASE Special(x)
  <2>1. /\ x.op = "special" /\ Reads(x) /\ created' = created
        /\ state' = [Advanced(state, OperationsOf(header, x.n))
                       EXCEPT !.line = @ + LinesOf(header, x.n)]
        /\ rows' = [rows EXCEPT ![unit] = Append(@, state')]
    BY <1>6 DEF Special, Row
  <2>2. Operations(header, x) = OperationsOf(header, x.n) /\ LinesBy(header, x) = LinesOf(header, x.n)
    BY <2>1 DEF Operations, LinesBy
  <2>3. PICK v, w, y : /\ v = (a + k * ((o + OperationsOf(header, x.n)) \div M)) % WordSize
                       /\ w = (o + OperationsOf(header, x.n)) % M
                       /\ y = l + LinesOf(header, x.n)
    OBVIOUS
  <2>4. t = [address |-> v, opIndex |-> w, file |-> f, line |-> y, stmt |-> b, end |-> FALSE]
    BY <1>4, <2>1, <2>2, <2>3
  <2>5. PICK r : /\ r = Advanced(state, OperationsOf(header, x.n))
                 /\ r = [address |-> v, opIndex |-> w, file |-> f, line |-> l,
                         stmt |-> b, end |-> FALSE]
    BY <1>5, <2>3
  <2>6. state' = [r EXCEPT !.line = y]
    BY <2>1, <2>3, <2>5
  <2>7. state' = t
    <3>1. PICK e : e = FALSE
      OBVIOUS
    <3>2. r = [address |-> v, opIndex |-> w, file |-> f, line |-> l, stmt |-> b, end |-> e]
      BY <2>5, <3>1
    <3>3. [r EXCEPT !.line = y]
            = [address |-> v, opIndex |-> w, file |-> f, line |-> y, stmt |-> b, end |-> e]
      BY ONLY <3>2, SetsRegister
    <3> QED  BY <2>4, <2>6, <3>1, <3>3
  <2>8. RowBy(x, t) = t
    BY <1>4, <2>1, RowSame
  <2> QED  BY <2>1, <2>7, <2>8 DEF Emitting, t
<1>7. CASE Copy(x)
  <2>1. /\ x.op = "copy" /\ Reads(x) /\ created' = created /\ state' = state
        /\ rows' = [rows EXCEPT ![unit] = Append(@, state)]
    BY <1>7 DEF Copy, Row
  <2>2. t = state
    BY <1>2, <1>3, <1>4, <2>1 DEF Operations, LinesBy
  <2>3. RowBy(x, t) = t
    BY <1>4, <2>1, RowSame
  <2> QED  BY <2>1, <2>2, <2>3 DEF Emitting, t
<1>8. CASE AdvancePC(x)
  <2>1. /\ x.op = "advance_pc" /\ Reads(x) /\ created' = created /\ rows' = rows
        /\ state' = Advanced(state, x.n)
    BY <1>8 DEF AdvancePC, Register
  <2>2. Operations(header, x) = x.n /\ LinesBy(header, x) = 0
    BY <2>1 DEF Operations, LinesBy
  <2>3. state' = t
    BY <1>3, <1>4, <1>5, <2>1, <2>2
  <2> QED  BY <2>1, <2>3 DEF Emitting, t
<1>9. CASE AdvanceLine(x)
  <2>1. /\ x.op = "advance_line" /\ Reads(x) /\ created' = created /\ rows' = rows
        /\ state' = [state EXCEPT !.line = @ + x.n]
    BY <1>9 DEF AdvanceLine, Register
  <2>2. Operations(header, x) = 0 /\ LinesBy(header, x) = x.n
    BY <2>1 DEF Operations, LinesBy
  <2>3. t = [address |-> a, opIndex |-> o, file |-> f, line |-> l + x.n, stmt |-> b, end |-> FALSE]
    BY <1>3, <1>4, <2>1, <2>2
  <2>4. state' = [address |-> a, opIndex |-> o, file |-> f, line |-> l + x.n, stmt |-> b, end |-> FALSE]
    BY <1>2, <2>1
  <2> QED  BY <2>1, <2>3, <2>4 DEF Emitting, t
<1>10. CASE SetFile(x)
  <2>1. /\ x.op = "set_file" /\ Reads(x) /\ created' = created /\ rows' = rows
        /\ state' = [state EXCEPT !.file = FileNumber(indices, unit, x.n)]
    BY <1>10 DEF SetFile, Register
  <2>2. Operations(header, x) = 0 /\ LinesBy(header, x) = 0
    BY <2>1 DEF Operations, LinesBy
  <2>3. t = [address |-> a, opIndex |-> o, file |-> FileNumber(indices, unit, x.n),
              line |-> l, stmt |-> b, end |-> FALSE]
    BY <1>3, <1>4, <2>1, <2>2
  <2>4. state' = [address |-> a, opIndex |-> o, file |-> FileNumber(indices, unit, x.n),
              line |-> l, stmt |-> b, end |-> FALSE]
    BY <1>2, <2>1
  <2> QED  BY <2>1, <2>3, <2>4 DEF Emitting, t
<1>11. CASE NegateStmt(x)
  <2>1. /\ x.op = "negate_stmt" /\ Reads(x) /\ created' = created /\ rows' = rows
        /\ state' = [state EXCEPT !.stmt = ~@]
    BY <1>11 DEF NegateStmt, Register
  <2>2. Operations(header, x) = 0 /\ LinesBy(header, x) = 0
    BY <2>1 DEF Operations, LinesBy
  <2>3. t = [address |-> a, opIndex |-> o, file |-> f, line |-> l, stmt |-> ~b, end |-> FALSE]
    BY <1>3, <1>4, <2>1, <2>2
  <2>4. state' = [address |-> a, opIndex |-> o, file |-> f, line |-> l, stmt |-> ~b, end |-> FALSE]
    BY <1>2, <2>1
  <2> QED  BY <2>1, <2>3, <2>4 DEF Emitting, t
<1>12. CASE ConstAddPC(x)
  <2>1. /\ x.op = "const_add_pc" /\ Reads(x) /\ created' = created /\ rows' = rows
        /\ state' = Advanced(state, OperationsOf(header, 255))
    BY <1>12 DEF ConstAddPC, Register
  <2>2. Operations(header, x) = OperationsOf(header, 255) /\ LinesBy(header, x) = 0
    BY <2>1 DEF Operations, LinesBy
  <2>3. state' = t
    BY <1>3, <1>4, <1>5, <2>1, <2>2
  <2> QED  BY <2>1, <2>3 DEF Emitting, t
<1>13. CASE SetOther(x)
  <2>1. /\ x.op \in {"set_column", "set_discriminator"} /\ Reads(x)
        /\ created' = created /\ rows' = rows /\ state' = state
    BY <1>13 DEF SetOther
  <2>2. t = state
    BY <1>2, <1>3, <1>4, <2>1 DEF Operations, LinesBy
  <2> QED  BY <2>1, <2>2 DEF Emitting, t
<1>14. CASE Unsupported(x)
  <2>1. /\ x.op = "unsupported" /\ Reads(x)
        /\ created' = [created EXCEPT ![unit] = "assertion"] /\ rows' = rows /\ state' = state
    BY <1>14 DEF Unsupported
  <2>2. t = state
    BY <1>2, <1>3, <1>4, <2>1 DEF Operations, LinesBy
  <2> QED  BY <2>1, <2>2 DEF Emitting, t
<1>15. CASE SetAddress(x)
  <2>1. /\ x.op = "set_address" /\ Reads(x) /\ created' = created /\ rows' = rows
        /\ state' = [state EXCEPT !.address = x.n, !.opIndex = 0]
    BY <1>15 DEF SetAddress, Register
  <2>2. LinesBy(header, x) = 0
    BY <2>1 DEF LinesBy
  <2>3. t = [address |-> x.n, opIndex |-> 0, file |-> f, line |-> l, stmt |-> b, end |-> FALSE]
    BY <1>3, <1>4, <2>1, <2>2
  <2>4. state' = [address |-> x.n, opIndex |-> 0, file |-> f, line |-> l, stmt |-> b, end |-> FALSE]
    <3>1. PICK r : r = [state EXCEPT !.address = x.n]
      OBVIOUS
    <3>2. state' = [r EXCEPT !.opIndex = 0]
      BY <2>1, <3>1
    <3>3. r = [address |-> x.n, opIndex |-> o, file |-> f, line |-> l, stmt |-> b, end |-> FALSE]
      BY <1>2, <3>1
    <3> QED  BY <3>2, <3>3
  <2> QED  BY <2>1, <2>3, <2>4 DEF Emitting, t
<1>16. CASE EndSequence(x)
  <2>1. /\ x.op = "end_sequence" /\ Reads(x) /\ created' = created
        /\ state' = Start(header, FileNumber(indices, unit, 1))
        /\ rows' = [rows EXCEPT ![unit] = Append(@, [state EXCEPT !.end = TRUE])]
    BY <1>16 DEF EndSequence, Row, Registers, Start
  <2>2. t = state
    BY <1>2, <1>3, <1>4, <2>1 DEF Operations, LinesBy
  <2>3. RowBy(x, t) = [state EXCEPT !.end = TRUE]
    BY <2>1, <2>2 DEF RowBy
  <2> QED  BY <2>1, <2>3 DEF Emitting, t
<1> QED  BY <1>6, <1>7, <1>8, <1>9, <1>10, <1>11, <1>12, <1>13, <1>14, <1>15, <1>16 DEF Instruct, t

\* The unit whose program runs, an instruction later.
LEMMA UnitStep ==
  ASSUME NEW h \in Header, NEW I, NEW u, NEW S, Operands(S), NEW p \in Seq(S), NEW x \in S,
         Opens(p), NEW b, Begun(p, b, Len(p)), NEW s, Keeps(h, I, u, p, b, Len(p), s),
         x.op = "set_address" <=> Len(p) = b, NEW r, Table(h, I, u, p, r),
         NEW t, t = After(h, I, u, s, x), NEW c, c # "yes"
  PROVE  /\ x.op \in Emitting => UnitInv(h, I, u, Append(p, x), Append(r, RowBy(x, t)), c)
         /\ x.op \notin Emitting => UnitInv(h, I, u, Append(p, x), r, c)
         /\ x.op # "end_sequence" => RunInv(h, I, u, Append(p, x), t, c)
         /\ x.op = "end_sequence" =>
              RunInv(h, I, u, Append(p, x), Start(h, FileNumber(I, u, 1)), c)
<1> DEFINE q == Append(p, x)
           n == Len(p)
<1>1. /\ q \in Seq(S) /\ Len(q) = n + 1 /\ n \in Nat /\ q[n + 1] = x
      /\ \A j \in 1 .. n : q[j] = p[j]
  BY Appended
<1>2. b \in 0 .. n /\ S # {}
  BY DEF Begun
<1>3. Keeps(h, I, u, q, b, n + 1, t)
  BY KeepsOn
<1>4. t.address \in 0 .. WordSize - 1 /\ Ranged(h, t)
  <2>1. b \in 0 .. Len(q)
    BY <1>1, <1>2
  <2>2. Keeps(h, I, u, q, b, Len(q), t)
    BY <1>1, <1>3
  <2> HIDE DEF q, n
  <2>3. Ranged(h, t)
    BY <1>1, <1>2, <2>1, <2>2, KeepsRanged
  <2> QED  BY <2>3 DEF Ranged
<1>5. Opens(q)
  <2>1. CASE n = 0
    <3>1. x.op = "set_address"
      BY <1>2, <2>1
    <3> QED  BY <1>1, <2>1, <3>1 DEF Opens
  <2>2. CASE n # 0
    <3>1. p # <<>> /\ 1 \in 1 .. n
      BY <1>1, <2>2
    <3> QED  BY <1>1, <3>1 DEF Opens
  <2> QED  BY <2>1, <2>2
<1>6. ASSUME x.op \in Emitting
      PROVE  UnitInv(h, I, u, q, Append(r, RowBy(x, t)), c)
  <2>1. n # b
    BY <1>6 DEF Emitting
  <2>2. Fits(I, u, RowBy(x, t), Meant(h, q, n + 1))
    BY <1>3, <1>6, <2>1, RowMeant
  <2>3. RowBy(x, t).address = t.address
    BY <1>4 DEF RowBy, Ranged
  <2>4. Table(h, I, u, q, Append(r, RowBy(x, t)))
    <3>1. PICK row : row = RowBy(x, t)
      OBVIOUS
    <3>2. Table(h, I, u, q, Append(r, row))
      BY <1>4, <1>6, <2>2, <2>3, <3>1, TableGrows
    <3> QED  BY <3>1, <3>2
  <2> QED  BY <1>5, <2>4 DEF UnitInv
<1>7. ASSUME x.op \notin Emitting
      PROVE  UnitInv(h, I, u, q, r, c)
  <2>1. Table(h, I, u, q, r)
    BY <1>7, TableStays
  <2> QED  BY <1>5, <2>1 DEF UnitInv
<1>8. ASSUME x.op # "end_sequence"
      PROVE  RunInv(h, I, u, q, t, c)
  <2> SUFFICES Begun(q, b, n + 1)
    BY <1>1, <1>3 DEF RunInv
  <2>1. b # 0 => p[b].op = "end_sequence" /\ q[b] = p[b]
    BY <1>1, <1>2 DEF Begun
  <2>2. ASSUME NEW j \in b + 1 .. n + 1
        PROVE  q[j].op # "end_sequence" /\ (q[j].op = "set_address" <=> j = b + 1)
    <3>1. CASE j = n + 1
      BY <1>1, <1>2, <1>8, <3>1
    <3>2. CASE j # n + 1
      <4>1. j \in b + 1 .. n /\ j \in 1 .. n
        BY <1>1, <1>2, <3>2
      <4> QED  BY <1>1, <4>1 DEF Begun
    <3> QED  BY <3>1, <3>2
  <2>3. b \in 0 .. n + 1
    BY <1>1, <1>2
  <2> QED  BY <2>1, <2>2, <2>3 DEF Begun
<1>9. ASSUME x.op = "end_sequence"
      PROVE  RunInv(h, I, u, q, Start(h, FileNumber(I, u, 1)), c)
  <2>1. Keeps(h, I, u, q, n + 1, n + 1, Start(h, FileNumber(I, u, 1)))
    <3>1. PICK f : f = FileNumber(I, u, 1)
      OBVIOUS
    <3> HIDE DEF q, n
    <3>2. Keeps(h, I, u, q, Len(q), Len(q), Start(h, f))
      BY <1>1, <3>1, KeepsFresh
    <3> QED  BY <1>1, <3>1, <3>2
  <2>2. Begun(q, n + 1, n + 1)
    BY <1>1, <1>9 DEF Begun
  <2> QED  BY <1>1, <2>1, <2>2 DEF RunInv
<1> QED  BY <1>6, <1>7, <1>8, <1>9

LEMMA InstructOK ==
  ASSUME TInv, ~Failed, NEW x \in project.instructions, Instruct(x)
  PROVE  TInv'
<1>1. /\ header \in Header /\ Operands(project.instructions) /\ Len(headers) \in Nat
  BY ProjectTypes DEF TInv, IInv
<1>2. unit # 0
  BY DEF Instruct, Special, Copy, AdvancePC, AdvanceLine, SetFile, NegateStmt, ConstAddPC,
     SetOther, Unsupported, SetAddress, EndSequence, Reads
<1>3. unit \in 1 .. Len(headers) /\ Parsed
  BY <1>1, <1>2 DEF TInv, UnitsType
<1>4. PICK p, h, I, r, v, s, c, S : /\ p = program[unit] /\ h = header /\ I = indices
                                    /\ r = rows[unit] /\ v = unit /\ s = state
                                    /\ c = created[unit] /\ S = project.instructions
  OBVIOUS
<1>5. /\ p \in Seq(S) /\ x \in S /\ h \in Header /\ Operands(S)
      /\ Opens(p) /\ Table(h, I, v, p, r) /\ c # "yes"
      /\ \E b : Begun(p, b, Len(p)) /\ Keeps(h, I, v, p, b, Len(p), s)
  <2>1. UnitInv(h, I, v, p, r, c) /\ p \in Seq(S)
    BY <1>3, <1>4 DEF TInv, UnitsType
  <2>2. RunInv(h, I, v, p, s, c)
    BY <1>2, <1>4 DEF TInv
  <2> QED  BY <1>1, <1>4, <2>1, <2>2 DEF UnitInv, RunInv
<1>6. PICK b : Begun(p, b, Len(p)) /\ Keeps(h, I, v, p, b, Len(p), s)
  BY <1>5
<1>7. Ranged(header, state)
  <2>1. b \in 0 .. Len(p) /\ S # {}
    BY <1>5, <1>6 DEF Begun
  <2>2. Ranged(h, s)
    BY <1>5, <1>6, <2>1, KeepsRanged
  <2> QED  BY <1>4, <2>2
<1>8. PICK t : t = After(h, I, v, s, x)
  OBVIOUS
<1>9. /\ Reads(x)
      /\ state' = IF x.op = "end_sequence" THEN Start(h, FileNumber(I, v, 1)) ELSE t
      /\ rows' = IF x.op \in Emitting THEN [rows EXCEPT ![v] = Append(@, RowBy(x, t))] ELSE rows
      /\ created' = IF x.op = "unsupported" THEN [created EXCEPT ![v] = "assertion"] ELSE created
  BY <1>1, <1>4, <1>7, <1>8, Instructed
<1>10. /\ Fresh <=> x.op = "set_address"
       /\ program' = [program EXCEPT ![v] = Append(p, x)]
       /\ UNCHANGED <<project, files, indices, unit>>
  BY <1>4, <1>9 DEF Reads
<1>11. x.op = "set_address" <=> Len(p) = b
  <2>1. Fresh <=> (IF p = <<>> THEN TRUE ELSE Last(p).op = "end_sequence")
    BY <1>4 DEF Fresh
  <2> QED  BY <1>5, <1>6, <1>10, <2>1, FreshIs
<1>12. headers' = headers /\ header' = header /\ Parsed'
  BY <1>3, <1>10 DEF headers, header, Parsed, FilesDone, Current
<1>13. IInv' /\ Full(headers, indices)'
  <2>1. [Next]_vars
    BY DEF Next
  <2> QED  BY <2>1, Inductive, HeadersFull DEF TInv
<1>14. PICK q : q = Append(p, x)
  OBVIOUS
<1>15. q \in Seq(S)
  BY <1>5, <1>14
<1>16. PICK k, R, C, P : k = Len(headers) /\ R = rows /\ C = created /\ P = program
  OBVIOUS
<1>17. /\ R = [u \in 1 .. k |-> R[u]] /\ C = [u \in 1 .. k |-> C[u]] /\ P \in [1 .. k -> Seq(S)]
       /\ v \in 1 .. k /\ unit \in 0 .. k /\ R[v] = r /\ C[v] = c /\ P[v] = p
  BY <1>3, <1>4, <1>16 DEF TInv, UnitsType
<1>18. /\ program' = [u \in 1 .. k |-> IF u = v THEN q ELSE P[u]]
       /\ program' \in [1 .. k -> Seq(S)]
  <2>1. program' = [P EXCEPT ![v] = q]
    BY <1>10, <1>14, <1>16
  <2> QED  BY <1>15, <1>17, <2>1
<1>19. PICK row : row = RowBy(x, t)
  OBVIOUS
<1>20. rows' = [u \in 1 .. k |-> IF u = v /\ x.op \in Emitting THEN Append(r, row) ELSE R[u]]
  <2>1. CASE x.op \in Emitting
    <3>1. rows' = [R EXCEPT ![v] = Append(R[v], row)]
      BY <1>9, <1>16, <1>19, <2>1
    <3>2. rows' = [R EXCEPT ![v] = Append(r, row)]
      BY <1>17, <3>1
    <3> QED  BY <1>17, <2>1, <3>2
  <2>2. CASE x.op \notin Emitting
    BY <1>9, <1>16, <1>17, <2>2
  <2> QED  BY <2>1, <2>2
<1>21. created' = [u \in 1 .. k |-> IF u = v /\ x.op = "unsupported" THEN "assertion" ELSE C[u]]
  <2>1. CASE x.op = "unsupported"
    <3>1. created' = [C EXCEPT ![v] = "assertion"]
      BY <1>9, <1>16, <2>1
    <3> QED  BY <1>17, <2>1, <3>1
  <2>2. CASE x.op # "unsupported"
    BY <1>9, <1>16, <1>17, <2>2
  <2> QED  BY <2>1, <2>2
<1>22. UnitsType'
  <2>1. DOMAIN rows' = 1 .. k /\ rows' = [u \in 1 .. k |-> rows'[u]]
    BY <1>20
  <2>2. DOMAIN created' = 1 .. k /\ created' = [u \in 1 .. k |-> created'[u]]
    BY <1>21
  <2>3. unit' \in 0 .. k /\ Len(headers') = k /\ project'.instructions = S
    BY <1>4, <1>10, <1>12, <1>16, <1>17
  <2> QED  BY <1>18, <2>1, <2>2, <2>3 DEF UnitsType
<1>23. PICK e : e = created'[v]
  OBVIOUS
<1>24. e # "yes"
  BY <1>5, <1>17, <1>21, <1>23
<1>25. /\ x.op \in Emitting => UnitInv(h, I, v, q, Append(r, row), e)
       /\ x.op \notin Emitting => UnitInv(h, I, v, q, r, e)
       /\ x.op # "end_sequence" => RunInv(h, I, v, q, t, e)
       /\ x.op = "end_sequence" => RunInv(h, I, v, q, Start(h, FileNumber(I, v, 1)), e)
  BY <1>5, <1>6, <1>8, <1>11, <1>14, <1>19, <1>24, UnitStep
<1>26. PICK A, B, D, s2 : A = program' /\ B = rows' /\ D = created' /\ s2 = state'
  OBVIOUS
<1>27. /\ A[v] = q /\ D[v] = e
       /\ B[v] = IF x.op \in Emitting THEN Append(r, row) ELSE r
       /\ s2 = IF x.op = "end_sequence" THEN Start(h, FileNumber(I, v, 1)) ELSE t
  BY <1>9, <1>17, <1>18, <1>20, <1>23, <1>26
<1>28. UnitInv(h, I, v, A[v], B[v], D[v]) /\ RunInv(h, I, v, A[v], s2, D[v])
  BY <1>25, <1>27
<1>29. \A u \in 1 .. k : u # v => A[u] = P[u] /\ B[u] = R[u] /\ D[u] = C[u]
  BY <1>18, <1>20, <1>21, <1>26
<1>30. ASSUME NEW u \in 1 .. k
       PROVE  /\ UnitInv(h, I, u, A[u], B[u], D[u])
              /\ u # v /\ D[u] = "no" => A[u] = <<>>
  <2>1. CASE u = v
    BY <1>28, <2>1
  <2>2. CASE u # v
    <3>1. A[u] = program[u] /\ B[u] = rows[u] /\ D[u] = created[u]
      BY <1>16, <1>29, <2>2
    <3>2. /\ UnitInv(header, indices, u, program[u], rows[u], created[u])
          /\ u # unit /\ created[u] = "no" => program[u] = <<>>
      BY <1>16 DEF TInv
    <3> QED  BY <1>4, <2>2, <3>1, <3>2
  <2> QED  BY <2>1, <2>2
<1>31. header' = h /\ indices' = I /\ Len(headers') = k /\ unit' = v
  BY <1>4, <1>10, <1>12, <1>16
<1> QED  BY <1>12, <1>13, <1>22, <1>26, <1>28, <1>30, <1>31 DEF TInv

LEMMA TablesInductive == TInv /\ [Next]_vars => TInv'
<1> SUFFICES ASSUME TInv, [Next]_vars PROVE TInv'
  OBVIOUS
<1>1. CASE UNCHANGED vars
  <2>1. UNCHANGED <<project, files, indices, unit, program, state, rows, created>>
    BY <1>1 DEF vars
  <2>2. headers' = headers /\ header' = header /\ (Parsed' <=> Parsed)
    BY <2>1 DEF headers, header, Parsed, FilesDone, Current
  <2>3. IInv' /\ Full(headers, indices)'
    BY Inductive, HeadersFull DEF TInv
  <2>4. UnitsType'
    BY <2>1, <2>2 DEF TInv, UnitsType
  <2> QED  BY <2>1, <2>2, <2>3, <2>4 DEF TInv
<1>2. CASE KnownFile \/ NewFile \/ NextHeader
  BY <1>2, ParsingOK
<1>3. ASSUME NEW u \in DOMAIN headers, GetLineTable(u) PROVE TInv'
  BY <1>3, GetLineTableOK
<1>4. CASE ~Failed /\ TableCreated
  BY <1>4, TableCreatedOK
<1>5. ASSUME ~Failed, NEW x \in project.instructions, Instruct(x) PROVE TInv'
  BY <1>5, InstructOK
<1> QED  BY <1>1, <1>2, <1>3, <1>4, <1>5 DEF Next

THEOREM TablesInvariance == Spec => []TInv
BY InitTables, TablesInductive, PTL DEF Spec

-----------------------------------------------------------------------------
(* The rows are those the program means                                    *)

\* Where the headers are parsed, every file of a header has its number.
LEMMA AllNumbered ==
  ASSUME TInv, Parsed
  PROVE  /\ Len(indices) = Len(headers)
         /\ \A u \in 1 .. Len(headers) : Len(indices[u]) = Len(headers[u])
<1>1. Len(indices) = Len(headers) /\ Len(indices[Len(indices)]) = Len(headers[Len(indices)])
  BY DEF Parsed, FilesDone, Current
<1>2. Len(headers) \in Nat
  BY ProjectTypes DEF TInv, IInv
<1>3. \A u \in 1 .. Len(headers) : u \in 1 .. Len(headers) - 1 \/ u = Len(headers)
  BY <1>2
<1> QED  BY <1>1, <1>3 DEF TInv, Full

\* What a program's own number stands for, if the header has a file under it.
LEMMA NumberNames ==
  ASSUME TInv, Parsed, NEW u \in 1 .. Len(headers), NEW n \in Nat, n < Len(headers[u])
  PROVE  LET number == FileNumber(indices, u, n)
         IN  /\ number = indices[u][n + 1] /\ number \in Range(indices[u])
             /\ number \in Nat /\ number + 1 \in 1 .. Len(files)
             /\ files[number + 1] = headers[u][n + 1]
<1>1. Len(indices) = Len(headers) /\ Len(indices[u]) = Len(headers[u])
  BY AllNumbered
<1>2. indices \in Seq(Seq(Nat)) /\ Names(headers, files, indices)
  BY DEF TInv, IInv
<1>3. indices[u] \in Seq(Nat) /\ u \in 1 .. Len(indices)
  BY <1>1, <1>2
<1>4. n + 1 \in 1 .. Len(indices[u])
  BY <1>1, <1>3
<1>5. FileNumber(indices, u, n) = indices[u][n + 1]
  BY <1>1 DEF FileNumber
<1>6. indices[u][n + 1] \in Nat /\ n + 1 \in DOMAIN indices[u]
  BY <1>3, <1>4
<1>7. indices[u][n + 1] \in Range(indices[u])
  BY <1>6 DEF Range
<1>8. /\ indices[u][n + 1] + 1 \in 1 .. Len(files)
      /\ files[indices[u][n + 1] + 1] = headers[u][n + 1]
  BY <1>2, <1>3, <1>4 DEF Names
<1> QED  BY <1>5, <1>6, <1>7, <1>8

\* What the invariant says of one unit.
LEMMA UnitFacts ==
  ASSUME TInv, NEW u \in 1 .. Len(headers)
  PROVE  /\ program[u] \in Seq(project.instructions)
         /\ header \in Header /\ Operands(project.instructions)
         /\ Table(header, indices, u, program[u], rows[u])
         /\ program[u] # <<>> => Parsed
         /\ created[u] = "yes" =>
              Parsed /\ Len(rows[u]) # 0 /\ rows[u][Len(rows[u])].end
<1>1. header \in Header /\ Operands(project.instructions)
  BY ProjectTypes DEF TInv, IInv
<1>2. program[u] \in Seq(project.instructions)
  BY DEF TInv, UnitsType
<1>3. UnitInv(header, indices, u, program[u], rows[u], created[u])
  BY DEF TInv
<1>4. ~Parsed => program[u] = <<>> /\ created[u] = "no"
  BY DEF TInv
<1> QED  BY <1>1, <1>2, <1>3, <1>4 DEF UnitInv

LEMMA EmitterMeant ==
  ASSUME TInv, NEW u \in 1 .. Len(headers), NEW i \in Emitters(program[u])
  PROVE  Parsed /\ Meant(header, program[u], i).file \in Nat
<1>1. program[u] \in Seq(project.instructions) /\ i \in 1 .. Len(program[u])
  BY UnitFacts, EmittersFinite
<1>2. program[u] # <<>>
  BY <1>1
<1>3. Meant(header, program[u], i).file \in Nat
  BY <1>1, UnitFacts, MeantFile
<1> QED  BY <1>2, <1>3, UnitFacts

\* For every program of every unit, whatever it does with the registers and
\* whatever number its files have: CreateLineTable's rows (Dwarf_line.h:113-313)
\* are the ones DWARF means, one after the other, and the file of a row is the
\* header's file of that number.
THEOREM RowsAreTrue == Spec => []RowsTrue
<1>1. TInv => RowsTrue
  <2> SUFFICES ASSUME TInv PROVE RowsTrue
    OBVIOUS
  <2>1. DOMAIN rows = 1 .. Len(headers)
    BY DEF TInv, UnitsType
  <2>2. SUFFICES ASSUME NEW u \in 1 .. Len(headers)
                 PROVE  /\ Len(rows[u]) = Cardinality(Emitters(program[u]))
                        /\ \A i \in Emitters(program[u]) :
                             LET row == rows[u][Nth(program[u], i)]
                                 meant == Meant(header, program[u], i)
                             IN  /\ \A field \in {"address", "line", "stmt", "end"} :
                                      row[field] = meant[field]
                                 /\ meant.file < Len(headers[u]) =>
                                      files[row.file + 1] = headers[u][meant.file + 1]
    BY <2>1 DEF RowsTrue
  <2>3. Table(header, indices, u, program[u], rows[u])
    BY UnitFacts
  <2>4. Len(rows[u]) = Cardinality(Emitters(program[u]))
    BY <2>3 DEF Table
  <2>5. ASSUME NEW i \in Emitters(program[u])
        PROVE  LET row == rows[u][Nth(program[u], i)]
                   meant == Meant(header, program[u], i)
               IN  /\ \A field \in {"address", "line", "stmt", "end"} :
                        row[field] = meant[field]
                   /\ meant.file < Len(headers[u]) =>
                        files[row.file + 1] = headers[u][meant.file + 1]
    <3>1. PICK row, m : row = rows[u][Nth(program[u], i)] /\ m = Meant(header, program[u], i)
      OBVIOUS
    <3>2. Fits(indices, u, row, m)
      BY <2>3, <3>1 DEF Table
    <3>3. Parsed /\ m.file \in Nat
      BY <3>1, EmitterMeant
    <3>4. m.file < Len(headers[u]) => files[row.file + 1] = headers[u][m.file + 1]
      BY <3>2, <3>3, NumberNames DEF Fits
    <3>5. \A field \in {"address", "line", "stmt", "end"} : row[field] = m[field]
      BY <3>2 DEF Fits
    <3> QED  BY <3>1, <3>4, <3>5
  <2> QED  BY <2>4, <2>5
<1> QED  BY <1>1, TablesInvariance, PTL

-----------------------------------------------------------------------------
(* The sequences of a table                                                *)

\* The smallest of some numbers is one of them.
LEMMA MinOf ==
  ASSUME NEW S, S \subseteq Nat, S # {}
  PROVE  Min(S) \in S /\ Min(S) \in Nat /\ \A y \in S : Min(S) <= y
<1>1. \E x \in S : \A y \in S : x <= y
  BY HasLeast
<1>2. Min(S) \in S /\ \A y \in S : Min(S) =< y
  BY <1>1 DEF Min
<1> QED  BY <1>2

\* A table that has been created: its rows, of which the last ends a sequence.
LEMMA BuiltFacts ==
  ASSUME TInv, NEW u \in Built
  PROVE  /\ u \in 1 .. Len(headers) /\ u \in DOMAIN created /\ Parsed
         /\ Len(rows[u]) \in Nat /\ DOMAIN rows[u] = 1 .. Len(rows[u])
         /\ \A k \in 1 .. Len(rows[u]) : rows[u][k].address \in 0 .. WordSize - 1
         /\ Len(rows[u]) \in 1 .. Len(rows[u]) /\ rows[u][Len(rows[u])].end
         /\ Units[u] = UnitOf(u)
<1>1. u \in 1 .. Len(headers) /\ u \in DOMAIN created /\ created[u] = "yes"
  BY DEF Built, TInv, UnitsType
<1>2. /\ Table(header, indices, u, program[u], rows[u]) /\ Parsed
      /\ Len(rows[u]) # 0 /\ rows[u][Len(rows[u])].end
  BY <1>1, UnitFacts
<1>3. IsList(rows[u]) /\ \A k \in 1 .. Len(rows[u]) : rows[u][k].address \in 0 .. WordSize - 1
  BY <1>2 DEF Table
<1>4. PICK r : r = rows[u]
  OBVIOUS
<1>5. Len(r) \in Nat /\ DOMAIN r = 1 .. Len(r)
  BY <1>3, <1>4 DEF IsList
<1>6. Len(rows[u]) \in 1 .. Len(rows[u])
  BY <1>2, <1>4, <1>5
<1>7. Units[u] = UnitOf(u)
  BY <1>1 DEF Units
<1> QED  BY <1>1, <1>2, <1>3, <1>4, <1>5, <1>6, <1>7

LEMMA UnitFields ==
  ASSUME TInv, NEW u \in Built
  PROVE  /\ Units[u].rows = rows[u] /\ Units[u].files = indices[u]
         /\ Units[u].low = Min(AddressesOf(u)) /\ Units[u].high = Max(AddressesOf(u))
<1>1. PICK low, high : low = Min(AddressesOf(u)) /\ high = Max(AddressesOf(u))
  OBVIOUS
<1>2. Units[u] = [low |-> low, high |-> high, files |-> indices[u], rows |-> rows[u]]
  BY <1>1, BuiltFacts DEF UnitOf
<1> QED  BY <1>1, <1>2

\* Every row that ends a sequence is the end of one span.
LEMMA EndsSpan ==
  ASSUME TInv, NEW u \in Built, NEW e \in 1 .. Len(rows[u]), rows[u][e].end
  PROVE  \E b \in 0 .. e - 1 :
           /\ <<b + 1, e>> \in Spans(u)
           /\ b # 0 => rows[u][b].end
           /\ \A k \in b + 1 .. e - 1 : ~rows[u][k].end
<1>1. DOMAIN rows[u] = 1 .. Len(rows[u]) /\ Len(rows[u]) \in Nat
  BY BuiltFacts
<1>2. PICK ends : ends = {k \in DOMAIN rows[u] : rows[u][k].end}
  OBVIOUS
<1>3. PICK B : B = {k \in ends : k < e} \cup {0}
  OBVIOUS
<1>4. B \subseteq 0 .. e - 1 /\ B # {} /\ e - 1 \in Nat
  BY <1>1, <1>2, <1>3
<1>5. PICK b : b = Max(B)
  OBVIOUS
<1>6. b \in B /\ \A y \in B : y <= b
  BY <1>4, <1>5, MaxOf
<1>7. <<1 + b, e>> \in Spans(u)
  <2>1. e \in ends
    BY <1>1, <1>2
  <2>2. Spans(u) = {<<1 + Max({k \in ends : k < x} \cup {0}), x>> : x \in ends}
    BY <1>2 DEF Spans
  <2> QED  BY <1>3, <1>5, <2>1, <2>2
<1>8. b # 0 => rows[u][b].end
  BY <1>2, <1>3, <1>6
<1>9. \A k \in b + 1 .. e - 1 : ~rows[u][k].end
  <2> SUFFICES ASSUME NEW k \in b + 1 .. e - 1, rows[u][k].end PROVE FALSE
    OBVIOUS
  <2>1. k \in 1 .. Len(rows[u]) /\ k < e /\ ~(k <= b)
    BY <1>1, <1>4, <1>6
  <2>2. k \in B
    BY <1>1, <1>2, <1>3, <2>1
  <2> QED  BY <1>6, <2>1, <2>2
<1>10. 1 + b = b + 1 /\ b \in 0 .. e - 1
  BY <1>4, <1>6
<1> QED  BY <1>7, <1>8, <1>9, <1>10

\* Every other row of a created table lies in a span.
LEMMA LiesInSpan ==
  ASSUME TInv, NEW u \in Built, NEW k \in 1 .. Len(rows[u]), ~rows[u][k].end
  PROVE  \E e \in k + 1 .. Len(rows[u]), b \in 0 .. k - 1 :
           /\ rows[u][e].end /\ <<b + 1, e>> \in Spans(u)
<1>1. Len(rows[u]) \in 1 .. Len(rows[u]) /\ rows[u][Len(rows[u])].end
  BY BuiltFacts
<1>2. PICK E : E = {j \in k + 1 .. Len(rows[u]) : rows[u][j].end}
  OBVIOUS
<1>3. Len(rows[u]) \in E
  <2>1. k # Len(rows[u])
    BY <1>1
  <2> QED  BY <1>1, <1>2, <2>1
<1>4. E \subseteq Nat
  BY <1>2
<1>5. PICK e \in E : \A j \in E : e <= j
  BY <1>3, <1>4, HasLeast
<1>6. e \in k + 1 .. Len(rows[u]) /\ e \in 1 .. Len(rows[u]) /\ rows[u][e].end
  BY <1>2, <1>5
<1>7. PICK b \in 0 .. e - 1 :
        /\ <<b + 1, e>> \in Spans(u)
        /\ b # 0 => rows[u][b].end
  BY <1>6, EndsSpan
<1>8. b \in 0 .. k - 1
  <2>1. b # k
    BY <1>7
  <2>2. ~(b > k)
    <3> SUFFICES ASSUME b > k PROVE FALSE
      OBVIOUS
    <3>1. b \in E
      BY <1>2, <1>6, <1>7
    <3> QED  BY <1>5, <1>6, <1>7, <3>1
  <2> QED  BY <1>7, <2>1, <2>2
<1> QED  BY <1>6, <1>7, <1>8

\* In a unit as a compiler writes it, the row that ends a sequence has one
\* before it that differs in nothing but a smaller address.
LEMMA BeforeEnd ==
  ASSUME TInv, NEW u \in Built, Closed(u), NEW e \in 1 .. Len(rows[u]), rows[u][e].end
  PROVE  /\ e - 1 \in 1 .. Len(rows[u]) /\ ~rows[u][e - 1].end
         /\ rows[u][e - 1].line = rows[u][e].line /\ rows[u][e - 1].file = rows[u][e].file
         /\ rows[u][e - 1].stmt = rows[u][e].stmt
         /\ rows[u][e - 1].address < rows[u][e].address
         /\ \E span \in Spans(u) : span[2] = e
<1>1. PICK b \in 0 .. e - 1 : /\ <<b + 1, e>> \in Spans(u)
                              /\ \A k \in b + 1 .. e - 1 : ~rows[u][k].end
  BY EndsSpan
<1>2. PICK span : span = <<b + 1, e>>
  OBVIOUS
<1>3. span \in Spans(u) /\ span[1] = b + 1 /\ span[2] = e
  BY <1>1, <1>2
<1>4. /\ span[1] < span[2]
      /\ rows[u][span[2] - 1].address < rows[u][span[2]].address
      /\ rows[u][span[2] - 1].line = rows[u][span[2]].line
      /\ rows[u][span[2] - 1].file = rows[u][span[2]].file
      /\ rows[u][span[2] - 1].stmt = rows[u][span[2]].stmt
  BY <1>3 DEF Closed
<1>5. e - 1 \in b + 1 .. e - 1 /\ e - 1 \in 1 .. Len(rows[u])
  BY <1>3, <1>4, BuiltFacts
<1> QED  BY <1>1, <1>3, <1>4, <1>5

\* There, every row that ends nothing is at an address in the code.
LEMMA RowInCode ==
  ASSUME TInv, NEW u \in Built, Closed(u), InOrder(u),
         NEW k \in 1 .. Len(rows[u]), ~rows[u][k].end
  PROVE  InCode(u, rows[u][k].address)
<1>1. /\ Len(rows[u]) \in Nat /\ DOMAIN rows[u] = 1 .. Len(rows[u])
      /\ \A j \in 1 .. Len(rows[u]) : rows[u][j].address \in 0 .. WordSize - 1
  BY BuiltFacts
<1>2. PICK e \in k + 1 .. Len(rows[u]), b \in 0 .. k - 1 :
        rows[u][e].end /\ <<b + 1, e>> \in Spans(u)
  BY LiesInSpan
<1>3. PICK span : span = <<b + 1, e>>
  OBVIOUS
<1>4. span \in Spans(u) /\ span[1] = b + 1 /\ span[2] = e
  BY <1>2, <1>3
<1>5. e \in 1 .. Len(rows[u]) /\ b + 1 \in 1 .. Len(rows[u]) /\ e - 1 \in 1 .. Len(rows[u])
  BY <1>1, <1>2
<1>6. rows[u][e - 1].address < rows[u][e].address
  BY <1>2, <1>5, BeforeEnd
<1>7. \A i, j \in 1 .. Len(rows[u]) : i <= j => rows[u][i].address <= rows[u][j].address
  <2> SUFFICES ASSUME NEW i \in 1 .. Len(rows[u]), NEW j \in 1 .. Len(rows[u]), i <= j
               PROVE  rows[u][i].address <= rows[u][j].address
    OBVIOUS
  <2>1. CASE i = j
    BY <1>1, <2>1
  <2>2. CASE i < j
    BY <1>1, <2>2 DEF InOrder
  <2> QED  BY <2>1, <2>2
<1>8. b + 1 <= k /\ k <= e - 1
  BY <1>2
<1>9. rows[u][b + 1].address <= rows[u][k].address /\ rows[u][k].address <= rows[u][e - 1].address
  BY <1>5, <1>7, <1>8
<1>10. /\ rows[u][k].address \in Int /\ rows[u][e - 1].address \in Int
       /\ rows[u][e].address \in Int
  BY <1>1, <1>5
<1>11. rows[u][k].address < rows[u][e].address
  BY <1>6, <1>9, <1>10
<1> QED  BY <1>4, <1>9, <1>11 DEF InCode, Covers

-----------------------------------------------------------------------------
(* Addresses to plant a breakpoint at                                      *)

\* The statements of a line in one unit.
At(cu, file, line) ==
  {i \in DOMAIN cu.rows : /\ file \in Range(cu.files)
                            /\ cu.rows[i].line = line
                            /\ cu.rows[i].file = file
                            /\ cu.rows[i].stmt}

\* The first row of a line at which a statement begins.
LEMMA FirstAt ==
  ASSUME NEW units, NEW file, NEW line, DOMAIN units \subseteq Nat,
         \A v \in DOMAIN units : DOMAIN units[v].rows \subseteq Nat,
         \E v \in DOMAIN units : At(units[v], file, line) # {}
  PROVE  \E v \in DOMAIN units : \E i \in At(units[v], file, line) :
           /\ \A j \in At(units[v], file, line) : i <= j
           /\ GetPCByLine(units, file, line) = units[v].rows[i].address
<1>1. PICK hits : hits = {v \in DOMAIN units : At(units[v], file, line) # {}}
  OBVIOUS
<1>2. hits # {} /\ hits \subseteq Nat
  BY <1>1
<1>3. PICK v : v = Min(hits)
  OBVIOUS
<1>4. v \in hits
  BY <1>2, <1>3, MinOf
<1>5. /\ At(units[v], file, line) \subseteq Nat
      /\ At(units[v], file, line) # {}
      /\ v \in DOMAIN units
  BY <1>1, <1>4 DEF At
<1>6. PICK i : i = Min(At(units[v], file, line))
  OBVIOUS
<1>7. i \in At(units[v], file, line) /\ \A j \in At(units[v], file, line) : i <= j
  BY <1>5, <1>6, MinOf
<1>8. GetPCByLine(units, file, line) = units[v].rows[i].address
  <2>1. GetPCByLine(units, file, line) =
          IF hits = {} THEN 0
          ELSE units[Min(hits)].rows[Min(At(units[Min(hits)], file, line))].address
    BY <1>1 DEF GetPCByLine, At
  <2> QED  BY <1>2, <1>3, <1>6, <2>1
<1> QED  BY <1>5, <1>7, <1>8

\* The positions after one of a unit.
Here(cu, pos) == {i \in DOMAIN cu.rows : PosOf(cu.rows[i]) = pos}
Later(cu, pos) ==
  {i \in DOMAIN cu.rows : /\ Here(cu, pos) # {} /\ i > Min(Here(cu, pos))
                            /\ cu.rows[i].line # pos.line
                            /\ cu.rows[i].address # pos.address
                            /\ cu.rows[i].stmt}

LEMMA NextIn ==
  ASSUME NEW cu, NEW pos, DOMAIN cu.rows \subseteq Nat \ {0},
         NextSrcPos(<<cu>>, pos) # NoPos
  PROVE  \E e \in Later(cu, pos) :
           /\ \A i \in Later(cu, pos) : e <= i
           /\ NextSrcPos(<<cu>>, pos) = PosOf(cu.rows[e])
<1>1. PICK units : units = <<cu>>
  OBVIOUS
<1>2. DOMAIN units = {1} /\ units[1] = cu
  BY <1>1
<1>3. PICK hits : hits = {u \in DOMAIN units : /\ IsInRange(units[u], pos.address)
                                               /\ NextRow(units[u], pos) # 0}
  OBVIOUS
<1>4. NextSrcPos(units, pos) =
        IF hits = {} THEN NoPos
        ELSE PosOf(units[Min(hits)].rows[NextRow(units[Min(hits)], pos)])
  BY <1>3 DEF NextSrcPos
<1>5. hits # {}
  BY <1>1, <1>4
<1>6. hits = {1} /\ NextRow(cu, pos) # 0
  BY <1>2, <1>3, <1>5
<1>7. Min(hits) = 1
  BY <1>6, MinOf
<1>8. NextSrcPos(units, pos) = PosOf(cu.rows[NextRow(cu, pos)])
  BY <1>2, <1>4, <1>5, <1>7
<1>9. NextRow(cu, pos) = IF Later(cu, pos) = {} THEN 0 ELSE Min(Later(cu, pos))
  BY DEF NextRow, Later, Here
<1>10. Later(cu, pos) # {} /\ Later(cu, pos) \subseteq Nat
  BY <1>6, <1>9 DEF Later
<1>11. /\ Min(Later(cu, pos)) \in Later(cu, pos)
       /\ \A i \in Later(cu, pos) : Min(Later(cu, pos)) <= i
  BY <1>10, MinOf
<1> QED  BY <1>1, <1>8, <1>9, <1>10, <1>11

\* The first statement of a line does not end a sequence.
LEMMA FirstNoEnd ==
  ASSUME TInv, NEW u \in Built, Closed(u), NEW file, NEW line,
         NEW i \in At(Units[u], file, line), \A j \in At(Units[u], file, line) : i <= j
  PROVE  /\ i \in 1 .. Len(rows[u]) /\ ~rows[u][i].end /\ rows[u][i].stmt
         /\ rows[u][i].line = line /\ rows[u][i].file = file
<1>1. Units[u].rows = rows[u] /\ DOMAIN rows[u] = 1 .. Len(rows[u])
  BY BuiltFacts, UnitFields
<1>2. /\ i \in 1 .. Len(rows[u]) /\ rows[u][i].stmt
      /\ rows[u][i].line = line /\ rows[u][i].file = file
      /\ file \in Range(Units[u].files)
  BY <1>1 DEF At
<1>3. ASSUME rows[u][i].end PROVE FALSE
  <2>1. /\ i - 1 \in 1 .. Len(rows[u]) /\ rows[u][i - 1].line = rows[u][i].line
        /\ rows[u][i - 1].file = rows[u][i].file /\ rows[u][i - 1].stmt = rows[u][i].stmt
    BY <1>2, <1>3, BeforeEnd
  <2>2. i - 1 \in At(Units[u], file, line)
    BY <1>1, <1>2, <2>1 DEF At
  <2> QED  BY <1>2, <2>2
<1> QED  BY <1>2, <1>3

\* For every table of every program that a compiler could write: neither the
\* row GetPCByLine answers for a line (Dwarf_line.h:598-622) nor the next
\* position of NextSrcPos (Dwarf_line.h:536-567) lies behind the code, but for
\* a last row that is another line at the address of the position.
THEOREM PlantsAreInCode == Spec => []PlantsInCode
<1>1. TInv => PlantsInCode
  <2> SUFFICES ASSUME TInv, NEW u \in Built, Closed(u), InOrder(u),
                      NEW k \in DOMAIN rows[u], ~rows[u][k].end
               PROVE  LET row == rows[u][k]
                          next == NextSrcPos(<<Units[u]>>, PosOf(row))
                      IN  /\ row.stmt /\ row.file \in Range(indices[u]) =>
                               InCode(u, GetPCByLine(<<Units[u]>>, row.file, row.line))
                          /\ \/ next = NoPos
                             \/ InCode(u, next.address)
                             \/ \E span \in Spans(u) :
                                  /\ rows[u][span[2] - 1].address = row.address
                                  /\ rows[u][span[2] - 1].line # row.line
    BY DEF PlantsInCode
  <2>1. /\ DOMAIN rows[u] = 1 .. Len(rows[u]) /\ Len(rows[u]) \in Nat
        /\ Units[u].rows = rows[u] /\ Units[u].files = indices[u]
    BY BuiltFacts, UnitFields
  <2>2. PICK row, cu, pos : row = rows[u][k] /\ cu = Units[u] /\ pos = PosOf(row)
    OBVIOUS
  <2>3. ASSUME row.stmt, row.file \in Range(indices[u])
        PROVE  InCode(u, GetPCByLine(<<cu>>, row.file, row.line))
    <3>1. k \in At(cu, row.file, row.line)
      BY <2>1, <2>2, <2>3 DEF At
    <3>2. PICK units : units = <<cu>>
      OBVIOUS
    <3>3. DOMAIN units = {1} /\ units[1] = cu
      BY <3>2
    <3>4. /\ DOMAIN units \subseteq Nat
          /\ \A v \in DOMAIN units : DOMAIN units[v].rows \subseteq Nat
          /\ \E v \in DOMAIN units : At(units[v], row.file, row.line) # {}
      BY <2>1, <2>2, <3>1, <3>3
    <3>5. \E v \in DOMAIN units : \E i \in At(units[v], row.file, row.line) :
            /\ \A j \in At(units[v], row.file, row.line) : i <= j
            /\ GetPCByLine(units, row.file, row.line) = units[v].rows[i].address
      BY <3>4, FirstAt
    <3>6. PICK i \in At(Units[u], row.file, row.line) :
            /\ \A j \in At(Units[u], row.file, row.line) : i <= j
            /\ GetPCByLine(<<cu>>, row.file, row.line) = rows[u][i].address
      BY <2>1, <2>2, <3>2, <3>3, <3>5
    <3>7. i \in 1 .. Len(rows[u]) /\ ~rows[u][i].end
      BY <3>6, FirstNoEnd
    <3> QED  BY <3>6, <3>7, RowInCode
  <2>4. ASSUME NextSrcPos(<<cu>>, pos) # NoPos
        PROVE  \/ InCode(u, NextSrcPos(<<cu>>, pos).address)
               \/ \E span \in Spans(u) : /\ rows[u][span[2] - 1].address = row.address
                                         /\ rows[u][span[2] - 1].line # row.line
    <3>1. cu.rows = rows[u] /\ DOMAIN cu.rows \subseteq Nat \ {0}
      BY <2>1, <2>2
    <3>2. PICK e \in Later(cu, pos) :
            /\ \A i \in Later(cu, pos) : e <= i
            /\ NextSrcPos(<<cu>>, pos) = PosOf(cu.rows[e])
      BY <2>4, <3>1, NextIn
    <3>3. /\ e \in 1 .. Len(rows[u]) /\ Here(cu, pos) # {} /\ e > Min(Here(cu, pos))
          /\ rows[u][e].line # pos.line /\ rows[u][e].stmt
      BY <2>1, <3>1, <3>2 DEF Later
    <3>4. NextSrcPos(<<cu>>, pos).address = rows[u][e].address
      BY <3>1, <3>2 DEF PosOf
    <3>5. CASE ~rows[u][e].end
      BY <3>3, <3>4, <3>5, RowInCode
    <3>6. CASE rows[u][e].end
      <4>1. /\ e - 1 \in 1 .. Len(rows[u]) /\ rows[u][e - 1].line = rows[u][e].line
            /\ rows[u][e - 1].stmt = rows[u][e].stmt
            /\ \E span \in Spans(u) : span[2] = e
        BY <3>3, <3>6, BeforeEnd
      <4>2. Min(Here(cu, pos)) \in Here(cu, pos) /\ Min(Here(cu, pos)) \in Nat
        <5>1. Here(cu, pos) \subseteq Nat
          BY <3>1 DEF Here
        <5> QED  BY <3>3, <5>1, MinOf
      <4>3. e - 1 # Min(Here(cu, pos))
        <5> SUFFICES ASSUME e - 1 = Min(Here(cu, pos)) PROVE FALSE
          OBVIOUS
        <5>1. PosOf(rows[u][e - 1]) = pos
          BY <3>1, <4>2 DEF Here
        <5>2. rows[u][e - 1].line = pos.line
          BY <5>1 DEF PosOf
        <5> QED  BY <3>3, <4>1, <5>2
      <4>4. e - 1 > Min(Here(cu, pos))
        BY <3>3, <4>2, <4>3
      <4>5. e - 1 \notin Later(cu, pos)
        BY <3>2, <3>3
      <4>6. rows[u][e - 1].address = pos.address
        BY <2>1, <3>1, <3>3, <4>1, <4>4, <4>5 DEF Later
      <4>7. pos.address = row.address /\ pos.line = row.line
        BY <2>2 DEF PosOf
      <4> QED  BY <3>3, <4>1, <4>6, <4>7
    <3> QED  BY <3>5, <3>6
  <2> QED  BY <2>2, <2>3, <2>4
<1> QED  BY <1>1, TablesInvariance, PTL

-----------------------------------------------------------------------------
(* Breakpoints at lines                                                    *)

LEMMA TheOneNumber ==
  ASSUME NEW name, Cardinality(Numbers(name)) = 1, IsFiniteSet(Numbers(name)),
         NEW n \in Numbers(name)
  PROVE  FindFileID(name) = n
<1>1. Numbers(name) = {n}
  BY FS_Singleton
<1>2. n \in Nat
  BY DEF Numbers
<1>3. Min({n}) = n
  BY <1>2, MinOf
<1> QED  BY <1>1, <1>3 DEF FindFileID

\* A statement that a program means is among the rows the lookup looks for.
LEMMA MeantIsAt ==
  ASSUME TInv, NEW u \in Built, NEW m \in MeantRows(u), m.stmt, m.file < Len(headers[u])
  PROVE  LET number == FileNumber(indices, u, m.file)
         IN  /\ At(Units[u], number, m.line) # {}
             /\ number \in Nat /\ number + 1 \in 1 .. Len(files)
             /\ files[number + 1] = headers[u][m.file + 1]
<1>1. /\ u \in 1 .. Len(headers) /\ Parsed /\ DOMAIN rows[u] = 1 .. Len(rows[u])
      /\ Units[u].rows = rows[u] /\ Units[u].files = indices[u]
  BY BuiltFacts, UnitFields
<1>2. PICK i \in Emitters(program[u]) : m = Meant(header, program[u], i)
  BY DEF MeantRows
<1>3. m.file \in Nat
  BY <1>1, <1>2, EmitterMeant
<1>4. PICK number : number = FileNumber(indices, u, m.file)
  OBVIOUS
<1>5. /\ number \in Range(indices[u]) /\ number \in Nat /\ number + 1 \in 1 .. Len(files)
      /\ files[number + 1] = headers[u][m.file + 1]
  BY <1>1, <1>3, <1>4, NumberNames
<1>6. PICK k, row : k = Nth(program[u], i) /\ row = rows[u][k]
  OBVIOUS
<1>7. k \in 1 .. Len(rows[u]) /\ Fits(indices, u, row, m)
  BY <1>1, <1>2, <1>6, UnitFacts DEF Table
<1>8. row.line = m.line /\ row.file = number /\ row.stmt
  BY <1>4, <1>7 DEF Fits
<1>9. k \in At(Units[u], number, m.line)
  BY <1>1, <1>5, <1>6, <1>7, <1>8 DEF At
<1> QED  BY <1>4, <1>5, <1>9

\* And what the lookup finds is the first statement of the line in a unit.
LEMMA FoundIsMeant ==
  ASSUME TInv, WellFormed, NEW u \in Built, NEW number, NEW line,
         NEW i \in At(Units[u], number, line), \A j \in At(Units[u], number, line) : i <= j
  PROVE  \E m \in MeantRows(u) :
           /\ m.stmt /\ ~m.end /\ m.line = line /\ m.address = rows[u][i].address
           /\ m.file < Len(headers[u]) /\ files[number + 1] = headers[u][m.file + 1]
<1>1. u \in 1 .. Len(headers) /\ Parsed
  BY BuiltFacts
<1>2. Closed(u) /\ \A m \in MeantRows(u) : m.file < Len(headers[u])
  BY DEF WellFormed
<1>3. PICK row : row = rows[u][i]
  OBVIOUS
<1>4. /\ i \in 1 .. Len(rows[u]) /\ ~row.end /\ row.stmt
      /\ row.line = line /\ row.file = number
  BY <1>2, <1>3, FirstNoEnd
<1>5. PICK e \in Emitters(program[u]) : Nth(program[u], e) = i
  BY <1>1, <1>4, UnitFacts DEF Table
<1>6. PICK m : m = Meant(header, program[u], e)
  OBVIOUS
<1>7. Fits(indices, u, row, m)
  BY <1>1, <1>3, <1>5, <1>6, UnitFacts DEF Table
<1>8. m.stmt /\ ~m.end /\ m.line = line /\ m.address = row.address
  BY <1>4, <1>7 DEF Fits
<1>9. m \in MeantRows(u) /\ m.file < Len(headers[u])
  BY <1>2, <1>5, <1>6 DEF MeantRows
<1>10. m.file \in Nat
  BY <1>1, <1>5, <1>6, EmitterMeant
<1>11. FileNumber(indices, u, m.file) = number
  BY <1>4, <1>7 DEF Fits
<1>12. files[number + 1] = headers[u][m.file + 1]
  BY <1>1, <1>9, <1>10, <1>11, NumberNames
<1> QED  BY <1>3, <1>8, <1>9, <1>12

\* For any project with programs as a compiler writes them: where a file's name
\* has one number, `breakpoint set line' (Debugger.h:65-76, Dwarf_line.h:598-622)
\* finds every line that has a statement in a file of that name, in whatever
\* unit, and plants at the address of one of these statements.
THEOREM LinesAreBreakable == Spec => []LineBreakable
<1>1. TInv => LineBreakable
  <2> SUFFICES ASSUME TInv, WellFormed, NEW name, Cardinality(Numbers(name)) = 1,
                      NEW line, Statements(name, line) # {}
               PROVE  SetLine(name, line) \in Statements(name, line)
    BY DEF LineBreakable, Breakable
  <2>1. PICK u \in Built : \E m \in MeantRows(u) :
          /\ m.stmt /\ ~m.end /\ m.line = line /\ m.file < Len(headers[u])
          /\ headers[u][m.file + 1].name = name
    BY DEF Statements
  <2>2. PICK m0 \in MeantRows(u) :
          /\ m0.stmt /\ ~m0.end /\ m0.line = line /\ m0.file < Len(headers[u])
          /\ headers[u][m0.file + 1].name = name
    BY <2>1
  <2>3. PICK number : number = FileNumber(indices, u, m0.file)
    OBVIOUS
  <2>4. /\ At(Units[u], number, line) # {}
        /\ number \in Nat /\ number + 1 \in 1 .. Len(files)
        /\ files[number + 1].name = name
    BY <2>2, <2>3, MeantIsAt
  <2>5. Len(files) \in Nat
    BY DEF TInv, IInv
  <2>6. number \in Numbers(name)
    BY <2>4, <2>5 DEF Numbers
  <2>7. IsFiniteSet(Numbers(name))
    <3>1. 0 \in Int /\ Len(files) - 1 \in Int
      BY <2>5
    <3>2. IsFiniteSet(0 .. Len(files) - 1)
      BY <3>1, FS_Interval
    <3> QED  BY <3>2, FS_Subset DEF Numbers
  <2>8. FindFileID(name) = number
    BY <2>6, <2>7, TheOneNumber
  <2>9. PICK units : units = Units
    OBVIOUS
  <2>10. DOMAIN units = DOMAIN created /\ DOMAIN created = 1 .. Len(headers)
    BY <2>9 DEF Units, TInv, UnitsType
  <2>11. ASSUME NEW v \in DOMAIN units
         PROVE  /\ DOMAIN units[v].rows \subseteq Nat
                /\ v \notin Built => At(units[v], number, line) = {}
    <3>1. CASE v \in Built
      <4>1. units[v].rows = rows[v] /\ DOMAIN rows[v] = 1 .. Len(rows[v])
        BY <2>9, <3>1, BuiltFacts, UnitFields
      <4> QED  BY <3>1, <4>1
    <3>2. CASE v \notin Built
      <4>1. units[v] = NoUnit
        BY <2>9, <2>10, <3>2 DEF Units
      <4>2. DOMAIN units[v].rows = {}
        BY <4>1 DEF NoUnit
      <4> QED  BY <4>2 DEF At
    <3> QED  BY <3>1, <3>2
  <2>12. u \in DOMAIN units /\ At(units[u], number, line) # {}
    BY <2>4, <2>9, <2>10, BuiltFacts
  <2>13. \E v \in DOMAIN units : \E i \in At(units[v], number, line) :
           /\ \A j \in At(units[v], number, line) : i <= j
           /\ GetPCByLine(units, number, line) = units[v].rows[i].address
    <3>1. DOMAIN units \subseteq Nat
      BY <2>10
    <3> QED  BY <2>11, <2>12, <3>1, FirstAt
  <2>14. PICK v \in Built : \E i \in At(Units[v], number, line) :
           /\ \A j \in At(Units[v], number, line) : i <= j
           /\ GetPCByLine(Units, number, line) = rows[v][i].address
    <3>1. PICK v \in DOMAIN units : \E i \in At(units[v], number, line) :
            /\ \A j \in At(units[v], number, line) : i <= j
            /\ GetPCByLine(units, number, line) = units[v].rows[i].address
      BY <2>13
    <3>2. v \in Built
      BY <2>11, <3>1
    <3> QED  BY <2>9, <3>1, <3>2, UnitFields
  <2>15. PICK i \in At(Units[v], number, line) :
           /\ \A j \in At(Units[v], number, line) : i <= j
           /\ GetPCByLine(Units, number, line) = rows[v][i].address
    BY <2>14
  <2>16. PICK m \in MeantRows(v) :
           /\ m.stmt /\ ~m.end /\ m.line = line /\ m.address = rows[v][i].address
           /\ m.file < Len(headers[v]) /\ files[number + 1] = headers[v][m.file + 1]
    <3>1. /\ TInv /\ WellFormed /\ v \in Built
          /\ i \in At(Units[v], number, line) /\ \A j \in At(Units[v], number, line) : i <= j
      BY <2>15
    <3>2. \E m \in MeantRows(v) :
           /\ m.stmt /\ ~m.end /\ m.line = line /\ m.address = rows[v][i].address
           /\ m.file < Len(headers[v]) /\ files[number + 1] = headers[v][m.file + 1]
      BY ONLY <3>1, FoundIsMeant
    <3> QED  BY ONLY <3>2
  <2>17. headers[v][m.file + 1].name = name
    BY <2>4, <2>16
  <2>18. SetLine(name, line) = m.address
    BY <2>8, <2>15, <2>16 DEF SetLine
  <2> QED  BY <2>16, <2>17, <2>18 DEF Statements
<1> QED  BY <1>1, TablesInvariance, PTL

-----------------------------------------------------------------------------
(* The search for the line of an address                                   *)

\* Each row found follows from the one before it.
LEMMA NearestFollows ==
  ASSUME NEW table, NEW a, Len(table) \in Nat
  PROVE  /\ Nearest(table, a)[0] = <<>>
         /\ \A n \in 1 .. Len(table) :
              Nearest(table, a)[n] = Nearer(a, Nearest(table, a)[n - 1], table[n])
<1> DEFINE Body(t, m) == [n \in 0 .. m |-> IF n = 0 THEN <<>> ELSE Nearer(a, t[n - 1], table[n])]
           S == {m \in Nat : ~ \E t : t = Body(t, m)}
<1>1. S = {}
  <2> SUFFICES ASSUME S # {} PROVE FALSE
    OBVIOUS
  <2>1. PICK m \in S : \A r \in S : m <= r
    BY HasLeast
  <2>2. m # 0
    <3> DEFINE t == [n \in 0 .. 0 |-> <<>>]
    <3>1. t = Body(t, 0)
      OBVIOUS
    <3> QED  BY <3>1
  <2>3. m - 1 \in Nat /\ m - 1 \notin S
    <3>1. m \in Nat
      OBVIOUS
    <3> HIDE DEF S
    <3> QED  BY <2>1, <2>2, <3>1
  <2>4. PICK t : t = Body(t, m - 1)
    BY <2>3
  <2>5. \A n \in 0 .. m - 1 : t[n] = IF n = 0 THEN <<>> ELSE Nearer(a, t[n - 1], table[n])
    BY ONLY <2>4
  <2> DEFINE more == [n \in 0 .. m |-> IF n = m THEN Nearer(a, t[m - 1], table[m]) ELSE t[n]]
  <2>6. \A n \in 0 .. m : more[n] = IF n = 0 THEN <<>> ELSE Nearer(a, more[n - 1], table[n])
    <3> SUFFICES ASSUME NEW n \in 0 .. m
                 PROVE  more[n] = IF n = 0 THEN <<>> ELSE Nearer(a, more[n - 1], table[n])
      OBVIOUS
    <3>1. CASE n = m
      <4>1. more[m] = Nearer(a, t[m - 1], table[m]) /\ more[m - 1] = t[m - 1]
        BY <2>2, <2>3
      <4> QED  BY <2>2, <3>1, <4>1
    <3>2. CASE n # m /\ n # 0
      <4>1. n \in 0 .. m - 1 /\ n - 1 \in 0 .. m - 1 /\ n - 1 # m
        BY <2>3, <3>2
      <4>2. more[n] = t[n] /\ more[n - 1] = t[n - 1]
        BY <2>3, <3>2, <4>1
      <4> QED  BY <2>5, <3>2, <4>1, <4>2
    <3>3. CASE n = 0
      <4>1. 0 \in 0 .. m - 1
        BY <2>3
      <4> QED  BY <2>2, <2>5, <3>3, <4>1
    <3> QED  BY <2>2, <3>1, <3>2, <3>3
  <2>7. more = [n \in 0 .. m |-> more[n]]
    OBVIOUS
  <2> HIDE DEF more
  <2>8. more = Body(more, m)
    BY <2>6, <2>7
  <2> QED  BY <2>1, <2>8
<1>2. \E t : t = Body(t, Len(table))
  BY <1>1
<1>3. Nearest(table, a) = CHOOSE t : t = Body(t, Len(table))
  BY DEF Nearest
<1>4. Nearest(table, a) = Body(Nearest(table, a), Len(table))
  BY <1>2, <1>3
<1>5. \A n \in 0 .. Len(table) :
        Nearest(table, a)[n] = IF n = 0 THEN <<>>
                               ELSE Nearer(a, Nearest(table, a)[n - 1], table[n])
  BY <1>4
<1> QED  BY <1>5

\* The distance to a row's address, above 0, is below the address itself and
\* below the first limit unless the row lies behind the address.
LEMMA Distances ==
  ASSUME NEW a \in 0 .. WordSize - 1, NEW x \in 1 .. WordSize - 1
  PROVE  /\ x <= a => (a - x) % WordSize < a /\ (a - x) % WordSize < WordSize - 1
         /\ x > a => ~((a - x) % WordSize < a)
<1>1. WordSize \in Nat \ {0}
  BY LineTableAssumption
<1>2. CASE x <= a
  <2>1. PICK d : d = a - x
    OBVIOUS
  <2>2. d \in 0 .. WordSize - 1 /\ d = WordSize * 0 + d /\ d < a /\ d < WordSize - 1
    BY <1>1, <1>2, <2>1
  <2>3. d % WordSize = d
    BY <1>1, <2>2, Quotient
  <2> QED  BY <1>2, <2>1, <2>2, <2>3
<1>3. CASE x > a
  <2>1. PICK d, r : d = a - x /\ r = (a - x) + WordSize
    OBVIOUS
  <2>2. r \in 0 .. WordSize - 1 /\ d = WordSize * (-1) + r /\ ~(r < a) /\ -1 \in Int
    BY <1>1, <1>3, <2>1
  <2>3. d % WordSize = r
    BY <1>1, <2>2, Quotient
  <2> QED  BY <1>3, <2>1, <2>2, <2>3
<1> QED  BY <1>2, <1>3

\* A turn of the loop at a row at or below the address, and at one behind it.
LEMMA OneTurn ==
  ASSUME NEW a \in 0 .. WordSize - 1, NEW best, NEW row, row.address \in 1 .. WordSize - 1
  PROVE  /\ row.address <= a =>
              Nearer(a, best, row) =
                IF row.stmt /\ (best = <<>> \/ best[1].line # row.line) THEN <<row>> ELSE best
         /\ row.address > a /\ best # <<>> => Nearer(a, best, row) = best
         /\ ~row.stmt => Nearer(a, best, row) = best
<1>1. PICK dif : dif = (a - row.address) % WordSize
  OBVIOUS
<1>2. /\ row.address <= a => dif < a /\ dif < WordSize - 1
      /\ row.address > a => ~(dif < a)
  BY <1>1, Distances
<1>3. Nearer(a, best, row) =
        IF /\ dif < (IF best = <<>> THEN WordSize - 1 ELSE a)
           /\ row.stmt /\ (best = <<>> \/ best[1].line # row.line)
        THEN <<row>> ELSE best
  BY <1>1 DEF Nearer
<1> QED  BY <1>2, <1>3

\* After the rows up to k, all at or below the address: nothing where none of
\* them is a statement, otherwise a row of the last one's line.
FoundBelow(r, best, k) ==
  \/ best = <<>> /\ \A i \in 1 .. k : ~r[i].stmt
  \/ \E j, l \in 1 .. k : /\ best = <<r[j]>> /\ r[j].line = r[l].line
                          /\ r[l].stmt /\ \A i \in l + 1 .. k : ~r[i].stmt

LEMMA FindsBelow ==
  ASSUME NEW r, Len(r) \in Nat, NEW a \in 0 .. WordSize - 1,
         \A k \in 1 .. Len(r) : r[k].address \in 1 .. WordSize - 1,
         NEW n \in 0 .. Len(r), \A k \in 1 .. n : r[k].address <= a
  PROVE  \A k \in 0 .. n : FoundBelow(r, Nearest(r, a)[k], k)
<1> DEFINE S == {k \in 0 .. n : ~FoundBelow(r, Nearest(r, a)[k], k)}
<1> SUFFICES ASSUME S # {} PROVE FALSE
  OBVIOUS
<1>1. S \subseteq Nat
  OBVIOUS
<1>2. PICK k \in S : \A i \in S : k <= i
  <2> HIDE DEF S
  <2> QED  BY <1>1, HasLeast
<1>3. k \in 0 .. n /\ k \in Nat /\ ~FoundBelow(r, Nearest(r, a)[k], k)
  BY <1>2
<1>4. k # 0
  <2>1. FoundBelow(r, Nearest(r, a)[0], 0)
    BY NearestFollows DEF FoundBelow
  <2> QED  BY <1>3, <2>1
<1>5. k - 1 \in 0 .. n /\ k \in 1 .. n /\ k \in 1 .. Len(r) /\ k - 1 \notin S
  <2>1. k - 1 \in 0 .. n /\ k \in 1 .. n /\ k \in 1 .. Len(r) /\ ~(k <= k - 1)
    BY <1>3, <1>4
  <2> HIDE DEF S
  <2> QED  BY <1>2, <2>1
<1>6. PICK best, row, next :
        best = Nearest(r, a)[k - 1] /\ row = r[k] /\ next = Nearest(r, a)[k]
  OBVIOUS
<1>7. FoundBelow(r, best, k - 1)
  BY <1>5, <1>6
<1>8. next = Nearer(a, best, row)
  BY <1>5, <1>6, NearestFollows
<1>9. next = IF row.stmt /\ (best = <<>> \/ best[1].line # row.line) THEN <<row>> ELSE best
  BY <1>5, <1>6, <1>8, OneTurn
<1>10. \A i \in 1 .. k : i \in 1 .. k - 1 \/ i = k
  BY <1>5
<1>11. CASE row.stmt /\ (best = <<>> \/ best[1].line # row.line)
  <2>1. next = <<r[k]>> /\ r[k].stmt
    BY <1>6, <1>9, <1>11
  <2>2. k \in 1 .. k /\ \A i \in k + 1 .. k : ~r[i].stmt
    BY <1>5
  <2>3. FoundBelow(r, next, k)
    BY <2>1, <2>2 DEF FoundBelow
  <2> QED  BY <1>3, <1>6, <2>3
<1>12. CASE row.stmt /\ ~(best = <<>> \/ best[1].line # row.line)
  <2>1. PICK j \in 1 .. k - 1 : best = <<r[j]>>
    BY <1>7, <1>12 DEF FoundBelow
  <2>2. best[1] = r[j]
    BY <2>1
  <2>3. next = <<r[j]>> /\ r[j].line = r[k].line /\ r[k].stmt
    BY <1>6, <1>9, <1>12, <2>1, <2>2
  <2>4. k \in 1 .. k /\ j \in 1 .. k /\ \A i \in k + 1 .. k : ~r[i].stmt
    BY <1>5
  <2>5. FoundBelow(r, next, k)
    BY <2>3, <2>4 DEF FoundBelow
  <2> QED  BY <1>3, <1>6, <2>5
<1>13. CASE ~row.stmt
  <2>1. next = best
    BY <1>9, <1>13
  <2>2. CASE best = <<>> /\ \A i \in 1 .. k - 1 : ~r[i].stmt
    <3>1. FoundBelow(r, next, k)
      BY <1>6, <1>10, <1>13, <2>1, <2>2 DEF FoundBelow
    <3> QED  BY <1>3, <1>6, <3>1
  <2>3. CASE ~(best = <<>> /\ \A i \in 1 .. k - 1 : ~r[i].stmt)
    <3>1. PICK j \in 1 .. k - 1 : \E l \in 1 .. k - 1 :
            /\ best = <<r[j]>> /\ r[j].line = r[l].line
            /\ r[l].stmt /\ \A i \in l + 1 .. k - 1 : ~r[i].stmt
      BY <1>7, <2>3 DEF FoundBelow
    <3>2. PICK l \in 1 .. k - 1 :
            /\ best = <<r[j]>> /\ r[j].line = r[l].line
            /\ r[l].stmt /\ \A i \in l + 1 .. k - 1 : ~r[i].stmt
      BY <3>1
    <3>3. \A i \in l + 1 .. k : i \in l + 1 .. k - 1 \/ i = k
      BY <1>5
    <3>4. \A i \in l + 1 .. k : ~r[i].stmt
      BY <1>6, <1>13, <3>2, <3>3
    <3>5. j \in 1 .. k /\ l \in 1 .. k
      BY <1>5
    <3>6. FoundBelow(r, next, k)
      BY <2>1, <3>2, <3>4, <3>5 DEF FoundBelow
    <3> QED  BY <1>3, <1>6, <3>6
  <2> QED  BY <2>2, <2>3
<1> QED  BY <1>11, <1>12, <1>13

\* Once a row is found, rows behind the address and rows that are no statement
\* change nothing.
LEMMA StaysFound ==
  ASSUME NEW r, Len(r) \in Nat, NEW a \in 0 .. WordSize - 1,
         \A k \in 1 .. Len(r) : r[k].address \in 1 .. WordSize - 1,
         NEW n \in 0 .. Len(r), Nearest(r, a)[n] # <<>>,
         \A k \in n + 1 .. Len(r) : ~r[k].stmt \/ r[k].address > a
  PROVE  Nearest(r, a)[Len(r)] = Nearest(r, a)[n]
<1> DEFINE S == {k \in n .. Len(r) : Nearest(r, a)[k] # Nearest(r, a)[n]}
<1> SUFFICES ASSUME S # {} PROVE FALSE
  <2>1. Len(r) \in n .. Len(r)
    OBVIOUS
  <2> QED  BY <2>1
<1>1. S \subseteq Nat
  OBVIOUS
<1>2. PICK k \in S : \A i \in S : k <= i
  <2> HIDE DEF S
  <2> QED  BY <1>1, HasLeast
<1>3. k \in n .. Len(r) /\ Nearest(r, a)[k] # Nearest(r, a)[n]
  BY <1>2
<1>4. k # n
  BY <1>3
<1>5. k \in 1 .. Len(r) /\ k \in n + 1 .. Len(r) /\ k - 1 \in n .. Len(r) /\ k - 1 \notin S
  <2>1. /\ k \in 1 .. Len(r) /\ k \in n + 1 .. Len(r) /\ k - 1 \in n .. Len(r)
        /\ ~(k <= k - 1)
    BY <1>3, <1>4
  <2> HIDE DEF S
  <2> QED  BY <1>2, <2>1
<1>6. PICK best, row : best = Nearest(r, a)[k - 1] /\ row = r[k]
  OBVIOUS
<1>7. best = Nearest(r, a)[n]
  BY <1>5, <1>6
<1>8. Nearest(r, a)[k] = Nearer(a, best, row)
  BY <1>5, <1>6, NearestFollows
<1>9. Nearer(a, best, row) = best
  BY <1>5, <1>6, <1>7, OneTurn
<1> QED  BY <1>3, <1>7, <1>8, <1>9

\* The addresses of a created table are numbers between two of them.
LEMMA TableRange ==
  ASSUME TInv, NEW u \in Built, NEW k \in 1 .. Len(rows[u])
  PROVE  /\ Units[u].low <= rows[u][k].address /\ rows[u][k].address <= Units[u].high
         /\ Units[u].low \in Int /\ Units[u].high \in Int
<1>1. /\ DOMAIN rows[u] = 1 .. Len(rows[u])
      /\ \A j \in 1 .. Len(rows[u]) : rows[u][j].address \in 0 .. WordSize - 1
      /\ Units[u].low = Min(AddressesOf(u)) /\ Units[u].high = Max(AddressesOf(u))
  BY BuiltFacts, UnitFields
<1>2. /\ AddressesOf(u) \subseteq 0 .. WordSize - 1 /\ AddressesOf(u) \subseteq Nat
      /\ rows[u][k].address \in AddressesOf(u)
  BY <1>1 DEF AddressesOf
<1>3. WordSize - 1 \in Nat
  BY LineTableAssumption
<1>4. Min(AddressesOf(u)) \in Nat /\ \A y \in AddressesOf(u) : Min(AddressesOf(u)) <= y
  BY <1>2, MinOf
<1>5. Max(AddressesOf(u)) \in Nat /\ \A y \in AddressesOf(u) : y <= Max(AddressesOf(u))
  BY <1>2, <1>3, MaxOf
<1> QED  BY <1>1, <1>2, <1>4, <1>5

\* Of the built units, GetSrcPosByAddress looks in the only one an address is in.
LEMMA OnlyUnit ==
  ASSUME TInv, NEW u \in Built, NEW a \in Nat, IsInRange(Units[u], a),
         \A v \in Built \ {u} : ~IsInRange(Units[v], a),
         NearestRow(Units[u], a) # <<>>
  PROVE  GetSrcPosByAddress(Units, a) = PosOf(NearestRow(Units[u], a)[1])
<1>1. PICK units : units = Units
  OBVIOUS
<1>2. DOMAIN units = DOMAIN created /\ u \in DOMAIN created /\ u \in Nat
  <2>1. u \in DOMAIN created /\ u \in 1 .. Len(headers)
    BY BuiltFacts
  <2> QED  BY <1>1, <2>1 DEF Units
<1>3. PICK hits : hits = {v \in DOMAIN units : IsInRange(units[v], a)}
  OBVIOUS
<1>4. hits = {u}
  <2>1. ASSUME NEW v \in DOMAIN created, v \notin Built PROVE ~IsInRange(Units[v], a)
    <3>1. Units[v] = NoUnit
      BY <2>1 DEF Units
    <3>2. Units[v].low = 1 /\ Units[v].high = 0
      BY <3>1 DEF NoUnit
    <3> QED  BY <3>2 DEF IsInRange
  <2>2. \A v \in DOMAIN units : IsInRange(units[v], a) => v = u
    BY <1>1, <1>2, <2>1
  <2>3. u \in hits
    BY <1>1, <1>2, <1>3
  <2> QED  BY <1>3, <2>2, <2>3
<1>5. Min(hits) = u
  BY <1>2, <1>4, MinOf
<1>6. GetSrcPosByAddress(units, a) = InUnit(units[u], a)
  <2>1. GetSrcPosByAddress(units, a) = IF hits = {} THEN NoPos ELSE InUnit(units[Min(hits)], a)
    BY <1>3 DEF GetSrcPosByAddress
  <2> QED  BY <1>4, <1>5, <2>1
<1>7. InUnit(units[u], a) = PosOf(NearestRow(units[u], a)[1])
  BY <1>1 DEF InUnit
<1> QED  BY <1>1, <1>6, <1>7

\* For every table, however long, whose addresses ascend from above 0, and for
\* every address in one of its sequences that has a statement before it: the
\* search of GetSrcPosByAddress (Dwarf_line.h:569-596) ends at a row of the line
\* of the last statement at or below the address, although from the second row
\* on it compares each distance with the address and not with the best distance,
\* and no row behind the address is ever taken for one before it.
THEOREM AddressesHaveLines == Spec => []LineOfAddress
<1>1. TInv => LineOfAddress
  <2> SUFFICES ASSUME TInv, NEW u \in Built, InOrder(u), 0 \notin AddressesOf(u),
                      NEW span \in Spans(u),
                      NEW a \in UNION {{x - 1, x} : x \in AddressesOf(u)}
               PROVE  LET within == {k \in span[1] .. span[2] - 1 : rows[u][k].stmt}
                          before == {k \in within : rows[u][k].address <= a}
                          row == rows[u][Max(before)]
                          found == NearestRow(Units[u], a)[1]
                      IN  Covers(u, span, a) /\ before # {} =>
                            /\ found.line = row.line
                            /\ \/ found.file = row.file
                               \/ \E k \in DOMAIN rows[u] : /\ rows[u][k].line = row.line
                                                            /\ rows[u][k].file # row.file
                            /\ (\A v \in Built \ {u} : ~IsInRange(Units[v], a)) =>
                                 GetSrcPosByAddress(Units, a) = PosOf(found)
    BY DEF LineOfAddress
  <2> DEFINE within == {k \in span[1] .. span[2] - 1 : rows[u][k].stmt}
             before == {k \in within : rows[u][k].address <= a}
             row == rows[u][Max(before)]
             found == NearestRow(Units[u], a)[1]
  <2> SUFFICES ASSUME Covers(u, span, a), before # {}
               PROVE  /\ found.line = row.line
                      /\ \/ found.file = row.file
                         \/ \E k \in DOMAIN rows[u] : /\ rows[u][k].line = row.line
                                                      /\ rows[u][k].file # row.file
                      /\ (\A v \in Built \ {u} : ~IsInRange(Units[v], a)) =>
                           GetSrcPosByAddress(Units, a) = PosOf(found)
    OBVIOUS
  <2> HIDE DEF before, row, found
  <2>1. PICK r : r = rows[u]
    OBVIOUS
  <2>2. /\ Len(r) \in Nat /\ DOMAIN r = 1 .. Len(r) /\ Units[u].rows = r
        /\ \A k \in 1 .. Len(r) : r[k].address \in 0 .. WordSize - 1
    BY <2>1, BuiltFacts, UnitFields
  <2>3. \A k \in 1 .. Len(r) : r[k].address \in 1 .. WordSize - 1
    <3>1. \A k \in 1 .. Len(r) : r[k].address # 0
      BY <2>1, <2>2 DEF AddressesOf
    <3> QED  BY <2>2, <3>1, LineTableAssumption
  <2>4. a \in 0 .. WordSize - 1
    <3>1. PICK x \in AddressesOf(u) : a \in {x - 1, x}
      OBVIOUS
    <3>2. x \in 1 .. WordSize - 1
      BY <2>1, <2>2, <2>3 DEF AddressesOf
    <3> QED  BY <3>1, <3>2, LineTableAssumption
  <2>5. /\ span[1] \in 1 .. span[2] /\ span[2] \in 1 .. Len(r)
        /\ a < r[span[2]].address
    <3>1. PICK ends : ends = {k \in DOMAIN rows[u] : rows[u][k].end}
      OBVIOUS
    <3>2. PICK e \in ends : span = <<1 + Max({k \in ends : k < e} \cup {0}), e>>
      BY <3>1 DEF Spans
    <3>3. PICK B, b : B = {k \in ends : k < e} \cup {0} /\ b = Max(B)
      OBVIOUS
    <3>4. e \in 1 .. Len(r) /\ B \subseteq 0 .. e - 1 /\ B # {} /\ e - 1 \in Nat
      BY <2>1, <2>2, <3>1, <3>3
    <3>5. b \in 0 .. e - 1
      BY <3>3, <3>4, MaxOf
    <3>6. span[1] = 1 + b /\ span[2] = e
      BY <3>2, <3>3
    <3>7. a < r[span[2]].address
      BY <2>1 DEF Covers
    <3> QED  BY <3>4, <3>5, <3>6, <3>7
  <2>6. PICK m : m = Max(before)
    OBVIOUS
  <2>7. m \in before /\ \A y \in before : y <= m
    <3>1. before \subseteq 0 .. Len(r)
      BY <2>2, <2>5 DEF before
    <3> QED  BY <2>2, <2>6, <3>1, MaxOf
  <2>8. /\ m \in 1 .. span[2] - 1 /\ m \in 1 .. Len(r) /\ r[m].stmt /\ r[m].address <= a
        /\ m >= span[1]
    BY <2>1, <2>2, <2>5, <2>7 DEF before
  <2>9. \A i, j \in 1 .. Len(r) : i < j => r[i].address <= r[j].address
    BY <2>1, <2>2 DEF InOrder
  <2>10. \A k \in 1 .. m : r[k].address <= a
    <3> SUFFICES ASSUME NEW k \in 1 .. m PROVE r[k].address <= a
      OBVIOUS
    <3>1. k \in 1 .. Len(r) /\ (k < m \/ k = m)
      BY <2>2, <2>8
    <3>2. k < m => r[k].address <= r[m].address
      BY <2>8, <2>9, <3>1
    <3> QED  BY <2>3, <2>4, <2>8, <3>1, <3>2
  <2>11. \A k \in m + 1 .. Len(r) : ~r[k].stmt \/ r[k].address > a
    <3> SUFFICES ASSUME NEW k \in m + 1 .. Len(r), r[k].stmt PROVE r[k].address > a
      OBVIOUS
    <3>1. k \in 1 .. Len(r) /\ r[k].address \in Int /\ a \in Int
      BY <2>2, <2>3, <2>4, <2>8
    <3>2. CASE k < span[2]
      <4>1. k \in span[1] .. span[2] - 1 /\ ~(k <= m)
        BY <2>2, <2>5, <2>8, <3>2
      <4>2. k \notin before
        BY <2>7, <4>1
      <4>3. ~(r[k].address <= a)
        BY <2>1, <4>1, <4>2 DEF before
      <4> QED  BY <3>1, <4>3
    <3>3. CASE k >= span[2]
      <4>1. k = span[2] \/ span[2] < k
        BY <2>2, <2>5, <3>3
      <4>2. r[span[2]].address <= r[k].address
        BY <2>3, <2>5, <2>9, <3>1, <4>1
      <4>3. r[span[2]].address \in Int
        BY <2>3, <2>5
      <4> QED  BY <2>5, <3>1, <4>2, <4>3
    <3> QED  BY <2>2, <2>5, <3>2, <3>3
  <2>12. PICK best : best = Nearest(r, a)[m]
    OBVIOUS
  <2>13. FoundBelow(r, best, m)
    <3>1. m \in 0 .. Len(r) /\ m \in 0 .. m
      BY <2>8
    <3> QED  BY <2>2, <2>3, <2>4, <2>10, <2>12, <3>1, FindsBelow
  <2>14. PICK j \in 1 .. m : best = <<r[j]>> /\ r[j].line = r[m].line
    <3>1. m \in 1 .. m
      BY <2>8
    <3>2. PICK j \in 1 .. m : \E l \in 1 .. m :
            /\ best = <<r[j]>> /\ r[j].line = r[l].line
            /\ r[l].stmt /\ \A i \in l + 1 .. m : ~r[i].stmt
      BY <2>8, <2>13, <3>1 DEF FoundBelow
    <3>3. PICK l \in 1 .. m : /\ best = <<r[j]>> /\ r[j].line = r[l].line
                              /\ r[l].stmt /\ \A i \in l + 1 .. m : ~r[i].stmt
      BY <3>2
    <3>4. l = m
      <4>1. m \notin l + 1 .. m
        BY <2>8, <3>3
      <4> QED  BY <2>8, <4>1
    <3> QED  BY <3>3, <3>4
  <2>15. best # <<>> /\ best[1] = r[j]
    BY <2>14
  <2>16. NearestRow(Units[u], a) = best
    <3>1. m \in 0 .. Len(r)
      BY <2>8
    <3>2. Nearest(r, a)[Len(r)] = best
      BY <2>2, <2>3, <2>4, <2>11, <2>12, <2>15, <3>1, StaysFound
    <3> QED  BY <2>2, <3>2 DEF NearestRow
  <2>17. found = r[j] /\ row = r[m] /\ j \in DOMAIN rows[u] /\ r[j] = rows[u][j]
    BY <2>1, <2>2, <2>6, <2>8, <2>15, <2>16 DEF row, found
  <2>18. found.line = row.line
    BY <2>14, <2>17
  <2>19. \/ found.file = row.file
         \/ \E k \in DOMAIN rows[u] : rows[u][k].line = row.line /\ rows[u][k].file # row.file
    BY <2>17, <2>18
  <2>20. IsInRange(Units[u], a)
    <3>1. Units[u].low <= r[m].address
      BY <2>1, <2>8, TableRange
    <3>2. r[span[2]].address <= Units[u].high
      BY <2>1, <2>5, TableRange
    <3>3. Units[u].low \in Int /\ Units[u].high \in Int
      BY <2>1, <2>8, TableRange
    <3>4. r[m].address \in Int /\ r[span[2]].address \in Int /\ a \in Int
      BY <2>3, <2>4, <2>5, <2>8
    <3>5. PICK low, high, x, y : /\ low = Units[u].low /\ high = Units[u].high
                                 /\ x = r[m].address /\ y = r[span[2]].address
      OBVIOUS
    <3>6. /\ low <= x /\ x <= a /\ a < y /\ y <= high
          /\ low \in Int /\ high \in Int /\ x \in Int /\ y \in Int /\ a \in Int
      BY <2>5, <2>8, <3>1, <3>2, <3>3, <3>4, <3>5
    <3>7. low <= a /\ a <= high
      BY ONLY <3>6
    <3> QED  BY <3>5, <3>7 DEF IsInRange
  <2>21. (\A v \in Built \ {u} : ~IsInRange(Units[v], a)) =>
           GetSrcPosByAddress(Units, a) = PosOf(found)
    <3>1. a \in Nat
      BY <2>4
    <3> QED  BY <2>15, <2>16, <2>20, <3>1, OnlyUnit DEF found
  <2> QED  BY <2>18, <2>19, <2>21
<1> QED  BY <1>1, TablesInvariance, PTL

=============================================================================
