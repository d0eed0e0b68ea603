------------------------- MODULE CommandLine_proofs -------------------------
(***************************************************************************)
(* Whatever is typed, ParseCommands keeps to the bytes that a line has     *)
(* once reached, unless it is lost; so what the commands take for their    *)
(* arguments, set for this line or for an earlier one, ends there.  In a   *)
(* buffer that is split already it finds the same words, so an empty line  *)
(* repeats the last command; and a line that ends with its last word it    *)
(* splits into just its words.                                             *)
(***************************************************************************)
EXTENDS CommandLine, WellFoundedInduction, SequenceTheorems, TLAPS

\* Below every set of numbers that is not empty lies one of its members.
LEMMA HasLeast ==
  ASSUME NEW S, S \subseteq Nat, S # {}
  PROVE  \E s \in S : \A r \in S : s <= r
<1> DEFINE R == OpToRel(<, Nat)
<1>1. IsWellFoundedOn(R, Nat)
  BY NatLessThanWellFounded
<1>2. \A x, y \in Nat : x < y => <<x, y>> \in R
  BY DEF OpToRel
<1> HIDE DEF R
<1>3. PICK s \in S : \A r \in S : <<r, s>> \notin R
  BY <1>1, WFMin
<1>4. \A r \in S : ~(r < s)
  BY <1>2, <1>3
<1> QED  BY <1>4

\* Behind the longest line nothing was written, and that line's end is kept:
\* ParseCommands writes nothing but ends.
Written ==
  /\ \A i \in Places : i > longest => buffer[i] = Junk
  /\ \/ buffer[longest] = NUL
     \/ /\ longest = 0 /\ \A i \in Places : buffer[i] = Junk
        /\ \A w \in DOMAIN commands : commands[w] = SIZE

WordsWithin == \A w \in DOMAIN commands : commands[w] = SIZE \/ commands[w] <= longest

IInv == TypeOK /\ stdin \in Seq(Typeable) /\ (at # "lost" => Written /\ WordsWithin)

-----------------------------------------------------------------------------
\* What is looked for forwards is found there, or the end of the buffer is.
LEMMA FoundForward ==
  ASSUME NEW k \in 0 .. SIZE, NEW S \in SUBSET (k .. SIZE), SIZE \in S
  PROVE  Min(S) \in S /\ \A r \in S : Min(S) <= r
<1>1. S \subseteq Nat /\ S # {}
  BY CommandLineAssumption
<1>2. \E s \in S : \A r \in S : s <= r
  BY <1>1, HasLeast
<1> QED  BY <1>2 DEF Min

LEMMA CharFound ==
  ASSUME NEW k \in 0 .. SIZE, NEW chars
  PROVE  LET found == FindAnyCharForward(k, chars)
         IN  /\ found \in k .. SIZE
             /\ found = SIZE \/ buffer[found] \in chars \cup {Junk}
             /\ \A i \in k .. found - 1 : buffer[i] \notin chars \cup {Junk}
<1> DEFINE S == {i \in k .. SIZE : i = SIZE \/ buffer[i] \in chars \cup {Junk}}
<1>1. SIZE \in S /\ S \in SUBSET (k .. SIZE)
  BY CommandLineAssumption
<1>2. Min(S) \in S /\ \A r \in S : Min(S) <= r
  BY <1>1, FoundForward
<1>3. FindAnyCharForward(k, chars) = Min(S)
  BY DEF FindAnyCharForward
<1> HIDE DEF FindAnyCharForward
<1>4. ASSUME NEW i \in k .. Min(S) - 1 PROVE buffer[i] \notin chars \cup {Junk}
  <2>1. i \in k .. SIZE /\ i \notin S
    BY <1>2, CommandLineAssumption
  <2> QED  BY <2>1
<1> QED  BY <1>2, <1>3, <1>4

LEMMA OtherFound ==
  ASSUME NEW k \in 0 .. SIZE, NEW chars
  PROVE  LET found == FindAnyDiffCharForward(k, chars)
         IN  /\ found \in k .. SIZE
             /\ found = SIZE \/ buffer[found] \notin chars
             /\ \A i \in k .. found - 1 : buffer[i] \in chars
<1> DEFINE S == {i \in k .. SIZE : i = SIZE \/ buffer[i] \notin chars}
<1>1. SIZE \in S /\ S \in SUBSET (k .. SIZE)
  BY CommandLineAssumption
<1>2. Min(S) \in S /\ \A r \in S : Min(S) <= r
  BY <1>1, FoundForward
<1>3. FindAnyDiffCharForward(k, chars) = Min(S)
  BY DEF FindAnyDiffCharForward
<1> HIDE DEF FindAnyDiffCharForward
<1>4. ASSUME NEW i \in k .. Min(S) - 1 PROVE buffer[i] \in chars
  <2>1. i \in k .. SIZE /\ i \notin S
    BY <1>2, CommandLineAssumption
  <2> QED  BY <2>1
<1> QED  BY <1>2, <1>3, <1>4

\* A byte that was written lies within the longest line, whose end is there.
LEMMA KnownWithin ==
  ASSUME IInv, at # "lost", NEW i \in Nat, Known(i)
  PROVE  i <= longest /\ buffer[longest] = NUL
BY CommandLineAssumption DEF IInv, TypeOK, Written, Known, Places

-----------------------------------------------------------------------------
LEMMA InitOK == Init => IInv
<1> SUFFICES ASSUME Init PROVE IInv
  OBVIOUS
<1> USE CommandLineAssumption
<1>1. /\ longest = 0 /\ scan = 0 /\ count = 0 /\ Len(line) = 0
      /\ commands \in [0 .. MAX_WORDS - 1 -> 0 .. SIZE]
  BY DEF Init
<1>2. at = "read" /\ failed = FALSE /\ buffer \in [Places -> Char \cup {NUL, Junk}]
  BY DEF Init
<1>3. TypeOK
  <2>1. longest \in Places /\ scan \in 0 .. longest
        /\ count \in 0 .. MAX_WORDS + 1 /\ count <= MAX_WORDS
    BY <1>1 DEF Places
  <2>2. Len(line) <= longest /\ line \in Typeable
    BY <1>1 DEF Init, Typeable
  <2> QED  BY <1>1, <1>2, <2>1, <2>2 DEF TypeOK
<1>4. Written /\ WordsWithin
  BY DEF Init, Written, WordsWithin, Places
<1>5. stdin \in Seq(Typeable)
  BY DEF Init
<1> QED  BY <1>3, <1>4, <1>5 DEF IInv

\* A line that is read leaves the bytes behind it as they were.
LEMMA ReadOK == IInv /\ Read => IInv'
<1> SUFFICES ASSUME IInv, Read PROVE IInv'
  OBVIOUS
<1> USE CommandLineAssumption
<1>1. /\ buffer \in [Places -> Char \cup {NUL, Junk}]
      /\ longest \in Places /\ Len(line) <= longest
      /\ commands \in [0 .. MAX_WORDS - 1 -> 0 .. SIZE]
      /\ stdin \in Seq(Typeable) /\ stdin # <<>>
  BY DEF IInv, TypeOK, Read
<1>2. Head(stdin) \in Typeable /\ Tail(stdin) \in Seq(Typeable)
  BY <1>1
<1>3. Len(Head(stdin)) \in Places
  BY <1>2 DEF Typeable, Places
<1>4. stdin' \in Seq(Typeable) /\ commands' = commands
  BY <1>1, <1>2 DEF Read, Rest
<1>5. /\ at = "read" /\ at' = "parse" /\ scan' = 0 /\ failed' \in BOOLEAN
      /\ count' \in 0 .. MAX_WORDS + 1 /\ count' <= MAX_WORDS
  BY DEF Read
<1>6. CASE failed'
  <2>1. UNCHANGED <<buffer, line, longest>>
    BY <1>6 DEF Read, NotStored
  <2> QED
    BY <1>1, <1>4, <1>5, <2>1 DEF IInv, TypeOK, Written, WordsWithin, Places
<1>7. CASE ~failed'
  <2> DEFINE n == Len(Head(stdin))
  <2>1. /\ buffer' = Stored(Head(stdin)) /\ line' = Head(stdin)
        /\ longest' = IF n > longest THEN n ELSE longest
    BY <1>7 DEF Read
  <2>2. n \in Places /\ longest' \in Places /\ n <= longest' /\ longest <= longest'
    BY <1>1, <1>3, <2>1 DEF Places
  <2>3. /\ buffer' \in [Places -> Char \cup {NUL, Junk}] /\ buffer'[n] = NUL
        /\ \A i \in Places : i > n => buffer'[i] = buffer[i]
    BY <1>1, <1>2, <2>1, <2>2 DEF Stored, Typeable, Places
  <2>4. TypeOK'
    BY <1>1, <1>2, <1>4, <1>5, <2>1, <2>2, <2>3 DEF TypeOK, Places
  <2>5. \A i \in Places : i > longest' => buffer'[i] = Junk
    BY <1>1, <1>5, <2>2, <2>3 DEF IInv, Written, Places
  <2>6. buffer'[longest'] = NUL \/ (n < longest /\ longest' = longest /\ buffer'[longest] = buffer[longest])
    BY <1>1, <2>1, <2>2, <2>3 DEF Places
  <2>7. Written' /\ WordsWithin'
    <3>1. buffer'[longest'] = NUL
      BY <1>1, <1>5, <2>2, <2>6 DEF IInv, Written, Places
    <3>2. WordsWithin'
      BY <1>1, <1>4, <1>5, <2>2 DEF IInv, WordsWithin, Places
    <3> QED  BY <2>5, <3>1, <3>2 DEF Written
  <2> QED  BY <1>4, <2>4, <2>7 DEF IInv
<1> QED  BY <1>5, <1>6, <1>7

\* A word begins and ends within the longest line, and only its end is written.
LEMMA WordOK == IInv /\ Word => IInv'
<1> SUFFICES ASSUME IInv, Word PROVE IInv'
  OBVIOUS
<1> USE CommandLineAssumption
<1>1. /\ buffer \in [Places -> Char \cup {NUL, Junk}]
      /\ longest \in Places /\ scan \in 0 .. longest
      /\ commands \in [0 .. MAX_WORDS - 1 -> 0 .. SIZE] /\ count \in 0 .. MAX_WORDS
  BY DEF IInv, TypeOK, Word
<1>2. at = "parse" /\ count <= MAX_WORDS /\ Written /\ WordsWithin
  BY DEF Word, IInv, TypeOK
<1>3. Start \in scan .. SIZE
  BY <1>1, OtherFound DEF Start, Places
<1>4. Known(Start) => First \in 0 .. SIZE
  BY <1>1, <1>3 DEF First, Known
<1>5. ASSUME WordLost PROVE IInv'
  <2>1. /\ at' = "lost" /\ count' = count + 1
        /\ UNCHANGED <<stdin, scan, failed, line, longest>>
    BY <1>5 DEF Word, WordLost
  <2>2. \/ UNCHANGED commands
        \/ \E p \in 0 .. SIZE : commands' = [commands EXCEPT ![count] = p]
    <3>1. \/ UNCHANGED commands
          \/ \E p \in Start .. SIZE : Puts(p)
          \/ Known(Start) /\ Puts(First)
      BY <1>5 DEF WordLost, Place
    <3>2. Start .. SIZE \subseteq 0 .. SIZE
      BY <1>1, <1>3
    <3> HIDE DEF Start, First
    <3> QED  BY <1>4, <3>1, <3>2 DEF Puts
  <2>3. UNCHANGED buffer \/ buffer' = [buffer EXCEPT ![End] = NUL]
    BY <1>5 DEF WordLost, Ended
  <2>4. /\ commands' \in [0 .. MAX_WORDS - 1 -> 0 .. SIZE]
        /\ buffer' \in [Places -> Char \cup {NUL, Junk}]
    BY <1>1, <2>2, <2>3
  <2> QED  BY <1>1, <1>2, <2>1, <2>4 DEF IInv, TypeOK
<1>6. ASSUME WordFound PROVE IInv'
  <2>1. /\ Known(Start) /\ count < MAX_WORDS /\ Known(End) /\ Known(Behind)
        /\ commands' = [commands EXCEPT ![count] = First]
        /\ count' = count + 1
        /\ buffer' = [buffer EXCEPT ![End] = NUL]
        /\ \/ at' = "dispatch" /\ UNCHANGED scan
           \/ buffer[Behind] # NUL /\ scan' = End + 1 /\ UNCHANGED at
        /\ UNCHANGED <<stdin, failed, line, longest>>
    BY <1>6 DEF Word, WordFound, Puts, Place, Ended, Beyond
  <2>3. First \in 0 .. SIZE
    BY <1>4, <2>1
  <2>4. End \in First .. SIZE
    BY <2>3, CharFound DEF End
  <2>5. End \in Nat /\ First <= End /\ End <= longest /\ buffer[longest] = NUL
    BY <1>2, <2>1, <2>3, <2>4, KnownWithin
  <2>6. Behind \in Nat /\ Behind <= longest
    <3>1. Behind \in Nat
      BY <2>5 DEF Behind
    <3> QED  BY <1>2, <2>1, <3>1, KnownWithin
  <2>7. buffer[Behind] # NUL => End + 1 <= longest
    <3>1. CASE Behind = End + 1
      BY <2>6, <3>1
    <3>2. CASE Behind = End
      <4>1. buffer[Behind] # NUL => End # longest
        BY <2>5, <3>2
      <4> QED  BY <1>1, <2>5, <4>1 DEF Places
    <3> QED  BY <3>1, <3>2 DEF Behind
  <2> HIDE DEF First, End, Behind
  <2>8. /\ buffer' \in [Places -> Char \cup {NUL, Junk}] /\ buffer'[longest] = NUL
        /\ \A i \in Places : i > longest => buffer'[i] = buffer[i]
    BY <1>1, <2>1, <2>5 DEF Places
  <2>9. /\ DOMAIN commands' = DOMAIN commands
        /\ commands' \in [0 .. MAX_WORDS - 1 -> 0 .. SIZE]
        /\ \A w \in DOMAIN commands : commands'[w] = commands[w] \/ commands'[w] <= longest
    BY <1>1, <2>1, <2>3, <2>5 DEF Places
  <2>10. scan' \in 0 .. longest /\ count' \in 0 .. MAX_WORDS
    BY <1>1, <2>1, <2>5, <2>7
  <2>11. TypeOK'
    BY <1>1, <1>2, <2>1, <2>8, <2>9, <2>10 DEF IInv, TypeOK
  <2>12. Written'
    BY <1>2, <2>1, <2>8 DEF Written
  <2>13. WordsWithin'
    BY <1>2, <2>1, <2>9 DEF WordsWithin
  <2> QED  BY <2>1, <2>11, <2>12, <2>13 DEF IInv
<1> QED  BY <1>5, <1>6 DEF Word

\* The dispatch writes nothing of this.
LEMMA DispatchOK == IInv /\ (Look \/ Run) => IInv'
<1> SUFFICES ASSUME IInv, Look \/ Run PROVE IInv'
  OBVIOUS
<1>1. /\ UNCHANGED <<stdin, buffer, commands, scan, count, failed, line, longest>>
      /\ at' \in {at, "ended", "read", "lost"} /\ at = "dispatch"
  BY DEF Look, Run, GetsLost
<1> QED  BY <1>1 DEF IInv, TypeOK, Written, WordsWithin, Places

LEMMA Inductive == IInv /\ [Next]_vars => IInv'
<1> SUFFICES ASSUME IInv, [Next]_vars PROVE IInv'
  OBVIOUS
<1>1. CASE UNCHANGED vars
  BY <1>1 DEF vars, IInv, TypeOK, Written, WordsWithin, Places
<1> QED  BY <1>1, ReadOK, WordOK, DispatchOK DEF Next

LEMMA Invariance == Spec => []IInv
BY InitOK, Inductive, PTL DEF Spec

-----------------------------------------------------------------------------
\* ParseCommands is never behind the longest line that was read, and with one
\* word more than there are places it is lost (String.h:179).
THEOREM Typed == Spec => []TypeOK
<1>1. IInv => TypeOK
  BY DEF IInv
<1> QED  BY <1>1, Invariance, PTL

\* Whatever lines are typed, until ParseCommands comes to a byte nobody wrote each
\* place of a word that was ever set is that of a string which ends within the
\* longest of them (Debugger.h:461-468).
THEOREM WordsEnd == Spec => []ArgumentsEnd
<1>1. IInv => ArgumentsEnd
  <2> SUFFICES ASSUME IInv, at # "lost", NEW w \in DOMAIN commands, commands[w] < SIZE
               PROVE  \E e \in commands[w] .. longest : buffer[e] = NUL
    BY DEF ArgumentsEnd
  <2>1. commands[w] \in Nat /\ longest \in Nat /\ commands[w] <= longest
    BY CommandLineAssumption DEF IInv, TypeOK, WordsWithin, Places
  <2>2. buffer[longest] = NUL
    BY <2>1, CommandLineAssumption DEF IInv, Written
  <2> QED  BY <2>1, <2>2
<1> QED  BY <1>1, Invariance, PTL

-----------------------------------------------------------------------------
(* An empty line                                                           *)

Ends(c) == IF c = QUOTE THEN {QUOTE, NUL} ELSE {BLANK, NUL}

\* Of the word that begins at p and ends before e, ParseCommands looks at this
\* byte to see whether the line ends.
Peeked(p, e) == IF buffer[p] = QUOTE THEN e + 1 ELSE e

\* In the buffer as it is a turn from k on skips to p and finds the word from f
\* to before e, and its end is written.
Turn(k, p, f, e) ==
  /\ k <= p /\ f <= e /\ e < SIZE
  /\ \A i \in k .. p - 1 : buffer[i] \in {BLANK, NUL}
  /\ buffer[p] \notin {BLANK, NUL, Junk}
  /\ f = IF buffer[p] = QUOTE THEN p + 1 ELSE p
  /\ \A i \in f .. e - 1 : buffer[i] \notin Ends(buffer[p]) \cup {Junk}
  /\ buffer[e] = NUL

\* Word w is that of a turn from k on, behind which the next begins.
TurnOf(w, k, next) == \E p \in Places : Turn(k, p, commands[w], next - 1)

\* The first n turns, of which turn w begins at scans[w], find the words.
Turns(n, scans) ==
  /\ scans \in [0 .. n -> 0 .. SIZE] /\ scans[0] = 0
  /\ \A w \in 0 .. n - 1 :
       /\ scans[w + 1] \in 1 .. scans[n]
       /\ TurnOf(w, scans[w], scans[w + 1])

\* The last of them has found the end of the line.
Parsed(n, scans) ==
  /\ n \in 1 .. MAX_WORDS /\ Turns(n, scans)
  /\ \E p \in Places : /\ Turn(scans[n - 1], p, commands[n - 1], scans[n] - 1)
                       /\ buffer[Peeked(p, scans[n] - 1)] = NUL

Unread == \A i \in Places : buffer[i] = Junk
Parsing == \E scans : Turns(count, scans) /\ scan = scans[count]
AllParsed == \E n, scans : Parsed(n, scans)
Reparsing == \E n, scans : Parsed(n, scans) /\ count < n /\ scan = scans[count]

\* What n looks at words give; the dispatch looks at so many at least.
Heard(n) == [k \in 1 .. n |-> Text(commands[k - 1])]
Told(n) == \A k \in 0 .. n - 1 : More(Heard(k))

Saying == \E n \in Nat : said = Heard(n) /\ Told(n)
Done == \E n \in Nat : ran = Heard(n) /\ Told(n) /\ ~More(Heard(n))

\* The buffer and the places hold what was done last, and a turn in the buffer
\* that is split already changes nothing.
Again ==
  /\ at = "parse" /\ ~failed => Parsing
  /\ at = "parse" /\ failed => (Unread /\ scan = 0) \/ (Reparsing /\ Done)
  /\ at = "dispatch" => AllParsed /\ Saying /\ (failed => Done)
  /\ at = "read" => Unread \/ (AllParsed /\ Done)

\* A turn finds a word, and ends it.
LEMMA TurnFinds ==
  ASSUME IInv, Word, WordFound,
         NEW k, k = scan, NEW p, p = Start, NEW f, f = First, NEW e, e = End
  PROVE  /\ p \in Places /\ f \in Places /\ e \in Places /\ p < e
         /\ Turn(k, p, f, e)' /\ Behind = Peeked(p, e) /\ buffer[e] \in Ends(buffer[p])
         /\ \A i \in k .. p - 1 : buffer[i] \in {BLANK, NUL}
         /\ \A i \in f .. e - 1 : buffer[i] \notin Ends(buffer[p]) \cup {Junk}
         /\ buffer[p] \notin {BLANK, NUL, Junk}
         /\ commands' = [commands EXCEPT ![count] = f] /\ count < MAX_WORDS
         /\ buffer' = [buffer EXCEPT ![e] = NUL]
         /\ count' = count + 1 /\ UNCHANGED <<stdin, failed, line, longest, ran>>
         /\ \/ buffer[Behind] = NUL /\ at' = "dispatch" /\ said' = <<>> /\ UNCHANGED scan
            \/ buffer[Behind] # NUL /\ scan' = e + 1 /\ UNCHANGED <<at, said>>
<1> USE CommandLineAssumption
<1>1. /\ buffer \in [Places -> Char \cup {NUL, Junk}] /\ longest \in Places
      /\ scan \in 0 .. SIZE /\ count \in 0 .. MAX_WORDS + 1
  BY DEF IInv, TypeOK, Places
<1>2. /\ Known(Start) /\ count < MAX_WORDS /\ Known(End) /\ Known(Behind)
      /\ commands' = [commands EXCEPT ![count] = First]
      /\ count' = count + 1
      /\ buffer' = [buffer EXCEPT ![End] = NUL]
      /\ \/ buffer[Behind] = NUL /\ at' = "dispatch" /\ said' = <<>> /\ UNCHANGED scan
         \/ buffer[Behind] # NUL /\ scan' = End + 1 /\ UNCHANGED <<at, said>>
      /\ UNCHANGED <<stdin, failed, line, longest, ran>>
  BY DEF Word, WordFound, Puts, Place, Ended, Beyond
<1>3. /\ p \in k .. SIZE - 1 /\ buffer[p] \notin {BLANK, NUL, Junk}
      /\ \A i \in k .. p - 1 : buffer[i] \in {BLANK, NUL}
  BY <1>1, <1>2, OtherFound DEF Start, Known
<1>4. f \in 0 .. SIZE /\ f = IF buffer[p] = QUOTE THEN p + 1 ELSE p
  BY <1>3, <1>1 DEF First, Quoted
<1>5. EndsWord = Ends(buffer[p])
  BY DEF EndsWord, Quoted, Ends
<1>6. /\ e \in f .. SIZE - 1 /\ buffer[e] \in Ends(buffer[p])
      /\ \A i \in f .. e - 1 : buffer[i] \notin Ends(buffer[p]) \cup {Junk}
  BY <1>2, <1>4, <1>5, CharFound DEF End, Known
<1>7. p < e
  BY <1>1, <1>3, <1>4, <1>6 DEF Ends
<1>8. /\ buffer'[e] = NUL /\ \A i \in 0 .. e - 1 : buffer'[i] = buffer[i]
  BY <1>1, <1>2, <1>6, <1>4 DEF Places
<1>9. Behind = Peeked(p, e)
  BY DEF Behind, Peeked, Quoted
<1>10. Turn(k, p, f, e)'
  BY <1>1, <1>3, <1>4, <1>6, <1>7, <1>8 DEF Turn
<1> QED  BY <1>1, <1>2, <1>3, <1>4, <1>6, <1>7, <1>9, <1>10 DEF Places

\* Where the buffer holds a turn already, ParseCommands finds it.
LEMMA TurnIsFound ==
  ASSUME IInv, at = "parse", NEW k, k = scan, NEW p \in Places, NEW f, NEW e \in Nat,
         Turn(k, p, f, e)
  PROVE  p = Start /\ f = First /\ e = End
<1> USE CommandLineAssumption
<1>1. scan \in 0 .. SIZE
  BY DEF IInv, TypeOK, Places
<1>2. /\ Start \in scan .. SIZE
      /\ Start = SIZE \/ buffer[Start] \notin {BLANK, NUL}
      /\ \A i \in scan .. Start - 1 : buffer[i] \in {BLANK, NUL}
  BY <1>1, OtherFound DEF Start
<1> HIDE DEF Start
<1>3. p = Start
  BY <1>1, <1>2 DEF Turn, Places
<1>4. f = First /\ f \in 0 .. SIZE /\ EndsWord = Ends(buffer[p])
  BY <1>3 DEF Turn, First, Quoted, EndsWord, Ends, Places
<1>5. /\ End \in f .. SIZE
      /\ End = SIZE \/ buffer[End] \in Ends(buffer[p]) \cup {Junk}
      /\ \A i \in f .. End - 1 : buffer[i] \notin Ends(buffer[p]) \cup {Junk}
  BY <1>4, CharFound DEF End
<1>6. e \in f .. SIZE - 1 /\ buffer[e] \in Ends(buffer[p])
  BY <1>4 DEF Turn, Ends
<1> QED  BY <1>3, <1>4, <1>5, <1>6 DEF Turn

\* What a turn and its end look at lies before the next turn.
LEMMA TurnStays ==
  ASSUME NEW k \in Nat, NEW p \in Places, NEW f \in Nat, NEW e \in Nat, Turn(k, p, f, e),
         \A i \in Places : i <= e => buffer'[i] = buffer[i]
  PROVE  Turn(k, p, f, e)' /\ p < e
BY CommandLineAssumption DEF Turn, Ends, Places

LEMMA TurnsStay ==
  ASSUME NEW n \in Nat, NEW scans, Turns(n, scans), commands \in [0 .. MAX_WORDS - 1 -> 0 .. SIZE],
         n <= MAX_WORDS,
         \A i \in Places : i < scans[n] => buffer'[i] = buffer[i],
         \A w \in 0 .. n - 1 : commands'[w] = commands[w]
  PROVE  Turns(n, scans)'
<1>1. scans \in [0 .. n -> 0 .. SIZE] /\ scans[n] \in Nat
  BY CommandLineAssumption DEF Turns
<1>2. ASSUME NEW w \in 0 .. n - 1
      PROVE  /\ scans[w + 1] \in 1 .. scans[n]
             /\ TurnOf(w, scans[w], scans[w + 1])'
  <2>1. PICK p \in Places : Turn(scans[w], p, commands[w], scans[w + 1] - 1)
    BY DEF Turns, TurnOf
  <2>2. scans[w + 1] \in 1 .. scans[n] /\ commands[w] \in Nat /\ commands'[w] = commands[w]
    BY CommandLineAssumption DEF Turns
  <2>3. PICK f : f = commands[w]
    OBVIOUS
  <2>4. \A i \in Places : i <= scans[w + 1] - 1 => buffer'[i] = buffer[i]
    BY <1>1, <2>2 DEF Places
  <2>5. Turn(scans[w], p, f, scans[w + 1] - 1)'
    <3>1. scans[w] \in Nat /\ scans[w + 1] - 1 \in Nat /\ f \in Nat
      BY <1>1, <2>2, <2>3
    <3> QED  BY <2>1, <2>3, <2>4, <3>1, TurnStays
  <2> QED  BY <2>2, <2>3, <2>5 DEF TurnOf
<1> QED  BY <1>1, <1>2 DEF Turns

LEMMA SameBuffer ==
  ASSUME UNCHANGED <<buffer, commands>>
  PROVE  /\ \A n, scans : Parsed(n, scans)' <=> Parsed(n, scans)
         /\ AllParsed' <=> AllParsed
         /\ Unread' <=> Unread
         /\ \A n : Heard(n)' = Heard(n)
         /\ \A n : Told(n)' <=> Told(n)
         /\ UNCHANGED said => (Saying' <=> Saying)
         /\ UNCHANGED ran => (Done' <=> Done)
<1>1. ASSUME NEW n, NEW scans PROVE Parsed(n, scans)' <=> Parsed(n, scans)
  BY DEF Parsed, Turns, TurnOf, Turn, Peeked
<1>2. AllParsed' <=> AllParsed
  BY <1>1 DEF AllParsed
<1>3. Unread' <=> Unread
  BY DEF Unread
<1>4. ASSUME NEW n PROVE Heard(n)' = Heard(n)
  BY DEF Heard, Text, EndOf
<1>5. ASSUME NEW n PROVE Told(n)' <=> Told(n)
  BY <1>4 DEF Told
<1>6. UNCHANGED said => (Saying' <=> Saying)
  BY <1>4, <1>5 DEF Saying
<1>7. UNCHANGED ran => (Done' <=> Done)
  BY <1>4, <1>5 DEF Done
<1> QED  BY <1>1, <1>2, <1>3, <1>4, <1>5, <1>6, <1>7

\* The next look finds the next word.
LEMMA HeardMore ==
  ASSUME NEW n \in Nat
  PROVE  /\ Append(Heard(n), Text(commands[n])) = Heard(n + 1)
         /\ Len(Heard(n)) = n
<1> DEFINE t(k) == Text(commands[k - 1])
           W == {t(k) : k \in 1 .. n + 1}
<1>1. Text(commands[n]) = t(n + 1)
  OBVIOUS
<1>2. Heard(n) = [k \in 1 .. n |-> t(k)] /\ Heard(n + 1) = [k \in 1 .. n + 1 |-> t(k)]
  BY DEF Heard
<1>3. \A k \in 1 .. n + 1 : t(k) \in W
  OBVIOUS
<1> HIDE DEF t, W
<1>4. Heard(n) \in [1 .. n -> W] /\ t(n + 1) \in W
  BY <1>2, <1>3
<1>5. Heard(n) \in Seq(W) /\ Len(Heard(n)) = n
  BY <1>4
<1>6. Append(Heard(n), t(n + 1)) = [k \in 1 .. n + 1 |-> IF k = n + 1 THEN t(n + 1) ELSE Heard(n)[k]]
  BY <1>4, <1>5
<1>7. \A k \in 1 .. n + 1 : k # n + 1 => Heard(n)[k] = t(k)
  BY <1>2
<1>8. [k \in 1 .. n + 1 |-> IF k = n + 1 THEN t(n + 1) ELSE Heard(n)[k]] = [k \in 1 .. n + 1 |-> t(k)]
  BY <1>7
<1> QED  BY <1>1, <1>2, <1>5, <1>6, <1>8

\* From the same words the dispatch takes the same ones.
LEMMA SaidAgain == Saying /\ Done /\ ~More(said) => said = ran
<1> SUFFICES ASSUME Saying, Done, ~More(said) PROVE said = ran
  OBVIOUS
<1>1. PICK n \in Nat : said = Heard(n) /\ Told(n)
  BY DEF Saying
<1>2. PICK m \in Nat : ran = Heard(m) /\ Told(m) /\ ~More(Heard(m))
  BY DEF Done
<1>3. ~(n < m) /\ ~(m < n)
  BY <1>1, <1>2 DEF Told
<1>4. n = m
  BY <1>3
<1> QED  BY <1>1, <1>2, <1>4

-----------------------------------------------------------------------------
LEMMA InitAgain == Init => Again
BY DEF Init, Again, Unread

LEMMA ReadAgain == IInv /\ Again /\ Read => Again'
<1> SUFFICES ASSUME IInv, Again, Read PROVE Again'
  OBVIOUS
<1>1. /\ at = "read" /\ at' = "parse" /\ scan' = 0 /\ count' = 0
      /\ UNCHANGED <<commands, said, ran>> /\ failed' \in BOOLEAN
  BY DEF Read
<1>2. CASE failed'
  <2>1. buffer' = buffer
    BY <1>2 DEF Read, NotStored
  <2>2. CASE Unread
    BY <1>1, <1>2, <2>1, <2>2, SameBuffer DEF Again
  <2>3. CASE AllParsed /\ Done
    <3>1. PICK n, scans : Parsed(n, scans)
      BY <2>3 DEF AllParsed
    <3>2. Parsed(n, scans)' /\ count' < n /\ scan' = scans[count']
      <4>1. 0 < n /\ scans[0] = 0
        BY <3>1, CommandLineAssumption DEF Parsed, Turns
      <4> QED  BY <1>1, <2>1, <3>1, <4>1, SameBuffer
    <3>3. Reparsing' /\ Done'
      BY <1>1, <2>1, <2>3, <3>2, SameBuffer DEF Reparsing
    <3> QED  BY <1>1, <1>2, <3>3 DEF Again
  <2> QED  BY <1>1, <2>2, <2>3 DEF Again
<1>3. CASE ~failed'
  <2> DEFINE scans == [w \in 0 .. 0 |-> 0]
  <2>1. Turns(0, scans)'
    BY CommandLineAssumption DEF Turns
  <2>2. scans[0] = 0
    OBVIOUS
  <2> HIDE DEF scans
  <2>3. Parsing'
    BY <1>1, <2>1, <2>2 DEF Parsing
  <2> QED  BY <1>1, <1>3, <2>3 DEF Again
<1> QED  BY <1>1, <1>2, <1>3

\* A look or a command done again is that of the last time.
LEMMA DispatchAgain == Again /\ (Look \/ Run) => Again'
<1> SUFFICES ASSUME Again, Look \/ Run PROVE Again'
  OBVIOUS
<1>1. at = "dispatch" /\ UNCHANGED <<buffer, commands, failed>>
  BY DEF Look, Run, GetsLost
<1>2. AllParsed /\ Saying /\ (failed => Done)
  BY <1>1 DEF Again
<1>3. PICK n \in Nat : said = Heard(n) /\ Told(n)
  BY <1>2 DEF Saying
<1>4. CASE Look /\ ~GetsLost
  <2>1. /\ said' = Append(said, Text(commands[Len(said)])) /\ More(said)
        /\ UNCHANGED <<at, ran>>
    BY <1>4 DEF Look
  <2>2. said' = Heard(n + 1)
    BY <1>3, <2>1, HeardMore
  <2>3. Told(n + 1)
    BY <1>3, <2>1 DEF Told
  <2>4. Saying'
    BY <1>1, <2>2, <2>3, SameBuffer DEF Saying
  <2> QED  BY <1>1, <1>2, <2>1, <2>4, SameBuffer DEF Again
<1>5. CASE GetsLost
  BY <1>5 DEF GetsLost, Again
<1>6. CASE Run
  <2>1. ran' = said /\ ~More(said) /\ at' \in {"ended", "read"}
    BY <1>6 DEF Run
  <2>2. Done'
    BY <1>1, <1>3, <2>1, SameBuffer DEF Done
  <2>3. AllParsed'
    BY <1>1, <1>2, SameBuffer
  <2> QED  BY <2>1, <2>2, <2>3 DEF Again
<1> QED  BY <1>4, <1>5, <1>6

\* The first time through a line each turn finds one word more.
LEMMA FirstTime == IInv /\ Again /\ ~failed /\ Word => Again'
<1> SUFFICES ASSUME IInv, Again, ~failed, Word PROVE Again'
  OBVIOUS
<1> USE CommandLineAssumption
<1>1. CASE WordLost
  BY <1>1 DEF WordLost, Again
<1>2. CASE WordFound
  <2>1. PICK k, p, f, e : k = scan /\ p = Start /\ f = First /\ e = End
    OBVIOUS
  <2>2. /\ p \in Places /\ f \in Places /\ e \in Places /\ p < e
        /\ Turn(k, p, f, e)' /\ Behind = Peeked(p, e)
        /\ commands' = [commands EXCEPT ![count] = f] /\ count < MAX_WORDS
        /\ buffer' = [buffer EXCEPT ![e] = NUL]
        /\ count' = count + 1 /\ UNCHANGED failed
        /\ \/ buffer[Behind] = NUL /\ at' = "dispatch" /\ said' = <<>> /\ UNCHANGED scan
           \/ buffer[Behind] # NUL /\ scan' = e + 1 /\ UNCHANGED <<at, said>>
    BY <1>2, <2>1, TurnFinds
  <2>3. /\ at = "parse" /\ buffer \in [Places -> Char \cup {NUL, Junk}]
        /\ commands \in [0 .. MAX_WORDS - 1 -> 0 .. SIZE] /\ count \in 0 .. MAX_WORDS
    BY DEF IInv, TypeOK, Word
  <2>4. PICK scans : Turns(count, scans) /\ scan = scans[count]
    BY <2>3 DEF Again, Parsing
  <2>5. PICK n : n = count
    OBVIOUS
  <2>6. scans \in [0 .. n -> 0 .. SIZE] /\ scans[0] = 0 /\ scans[n] = k /\ n \in Nat
    BY <2>1, <2>3, <2>4, <2>5 DEF Turns
  <2>7. k <= p /\ p <= f /\ f <= e
    <3>1. k <= p /\ f <= e /\ (f = p \/ f = p + 1)
      BY <2>2 DEF Turn
    <3> QED  BY <2>2, <3>1 DEF Places
  <2>8. Turns(n, scans)'
    <3>1. \A i \in Places : i < k => buffer'[i] = buffer[i]
      BY <2>2, <2>3, <2>6, <2>7 DEF Places
    <3>2. \A w \in 0 .. n - 1 : commands'[w] = commands[w]
      BY <2>2, <2>3, <2>5
    <3>3. Turns(n, scans) /\ n <= MAX_WORDS
      BY <2>3, <2>4, <2>5
    <3> QED  BY <2>3, <2>6, <3>1, <3>2, <3>3, TurnsStay
  <2> DEFINE more == [w \in 0 .. n + 1 |-> IF w = n + 1 THEN e + 1 ELSE scans[w]]
  <2>9. /\ more \in [0 .. n + 1 -> 0 .. SIZE] /\ more[0] = 0 /\ more[n] = k /\ more[n + 1] = e + 1
        /\ \A w \in 0 .. n : more[w] = scans[w]
    BY <2>2, <2>6 DEF Places
  <2> HIDE DEF more
  <2>10. commands'[n] = f
    BY <2>2, <2>3, <2>5
  <2>11. TurnOf(n, k, e + 1)'
    <3>1. (e + 1) - 1 = e
      BY <2>2 DEF Places
    <3> QED  BY <2>2, <2>10, <3>1 DEF TurnOf
  <2>12. Turns(n + 1, more)'
    <3>1. ASSUME NEW w \in 0 .. n
          PROVE  /\ more[w + 1] \in 1 .. more[n + 1]
                 /\ TurnOf(w, more[w], more[w + 1])'
      <4>1. CASE w = n
        <5>1. more[w] = k /\ more[w + 1] = e + 1 /\ e + 1 \in 1 .. e + 1
          BY <2>2, <2>9, <4>1 DEF Places
        <5> QED  BY <2>9, <2>11, <4>1, <5>1
      <4>2. CASE w # n
        <5>1. w \in 0 .. n - 1 /\ w + 1 \in 0 .. n
          BY <2>6, <4>2
        <5>2. scans[w + 1] \in 1 .. scans[n] /\ TurnOf(w, scans[w], scans[w + 1])'
          BY <2>8, <5>1 DEF Turns
        <5>3. more[w] = scans[w] /\ more[w + 1] = scans[w + 1]
          BY <2>9, <5>1
        <5>4. scans[n] <= e + 1
          BY <2>2, <2>6, <2>7 DEF Places
        <5>5. more[w + 1] \in 1 .. e + 1
          BY <2>2, <2>6, <5>2, <5>3, <5>4 DEF Places
        <5> QED  BY <2>9, <5>2, <5>3, <5>5
      <4> QED  BY <4>1, <4>2
    <3>2. (n + 1) - 1 = n
      BY <2>6
    <3> QED  BY <2>9, <3>1, <3>2 DEF Turns
  <2>13. CASE buffer[Behind] # NUL
    <3>1. /\ scan' = more[n + 1] /\ count' = n + 1 /\ at' = "parse" /\ ~failed'
      BY <2>2, <2>3, <2>5, <2>9, <2>13
    <3>2. Parsing'
      BY <2>12, <3>1 DEF Parsing
    <3> QED  BY <3>1, <3>2 DEF Again
  <2>14. CASE buffer[Behind] = NUL
    <3>1. at' = "dispatch" /\ said' = <<>> /\ ~failed'
      BY <2>2, <2>14
    <3>2. buffer'[Peeked(p, e)'] = NUL
      <4>1. p \in Nat /\ e \in Nat /\ buffer'[p] = buffer[p]
        BY <2>2, <2>3 DEF Places
      <4>2. Peeked(p, e)' = Behind /\ Peeked(p, e)' \in {e, e + 1}
        BY <2>2, <4>1 DEF Peeked
      <4>3. Peeked(p, e)' = e + 1 => buffer'[Peeked(p, e)'] = buffer[Behind]
        BY <2>2, <2>3, <4>1, <4>2
      <4> QED  BY <2>2, <2>3, <2>14, <4>2, <4>3
    <3>3. Parsed(n + 1, more)'
      <4>1. /\ n + 1 \in 1 .. MAX_WORDS /\ (n + 1) - 1 = n /\ more[n + 1] - 1 = e
        BY <2>2, <2>3, <2>5, <2>9 DEF Places
      <4>2. (\E q \in Places : Turn(more[n], q, commands[n], e) /\ buffer[Peeked(q, e)] = NUL)'
        BY <2>2, <2>9, <2>10, <3>2
      <4> QED  BY <2>12, <4>1, <4>2 DEF Parsed
    <3>4. AllParsed'
      BY <3>3 DEF AllParsed
    <3>5. Saying'
      <4>1. Heard(0)' = <<>>
        BY DEF Heard
      <4>2. Told(0)'
        BY DEF Told
      <4> QED  BY <3>1, <4>1, <4>2 DEF Saying
    <3> QED  BY <3>1, <3>4, <3>5 DEF Again
  <2> QED  BY <2>13, <2>14
<1> QED  BY <1>1, <1>2 DEF Word

\* The next times the turns find what they found, and write what is there.
LEMMA NextTimes == IInv /\ Again /\ failed /\ Word => Again'
<1> SUFFICES ASSUME IInv, Again, failed, Word PROVE Again'
  OBVIOUS
<1> USE CommandLineAssumption
<1>1. CASE WordLost
  BY <1>1 DEF WordLost, Again
<1>2. CASE WordFound
  <2>1. /\ at = "parse" /\ buffer \in [Places -> Char \cup {NUL, Junk}]
        /\ commands \in [0 .. MAX_WORDS - 1 -> 0 .. SIZE] /\ count \in 0 .. MAX_WORDS
    BY DEF IInv, TypeOK, Word
  <2>2. PICK k, p, f, e : k = scan /\ p = Start /\ f = First /\ e = End
    OBVIOUS
  <2>3. /\ p \in Places /\ e \in Places /\ buffer[p] # Junk
        /\ Behind = Peeked(p, e)
        /\ commands' = [commands EXCEPT ![count] = f]
        /\ buffer' = [buffer EXCEPT ![e] = NUL]
        /\ count' = count + 1 /\ UNCHANGED <<failed, ran>>
        /\ \/ buffer[Behind] = NUL /\ at' = "dispatch" /\ said' = <<>> /\ UNCHANGED scan
           \/ buffer[Behind] # NUL /\ scan' = e + 1 /\ UNCHANGED <<at, said>>
    BY <1>2, <2>2, TurnFinds
  <2>4. Reparsing /\ Done
    BY <2>1, <2>3 DEF Again, Unread
  <2>5. PICK n, scans : Parsed(n, scans) /\ count < n /\ scan = scans[count]
    BY <2>4 DEF Reparsing
  <2>6. /\ n \in 1 .. MAX_WORDS /\ scans \in [0 .. n -> 0 .. SIZE]
        /\ count \in 0 .. n - 1 /\ scans[count + 1] \in 1 .. scans[n]
    BY <2>1, <2>5 DEF Parsed, Turns
  <2>7. PICK q \in Places :
           /\ Turn(scans[count], q, commands[count], scans[count + 1] - 1)
           /\ count = n - 1 => buffer[Peeked(q, scans[count + 1] - 1)] = NUL
    <3>1. CASE count = n - 1
      <4>1. PICK q \in Places : /\ Turn(scans[n - 1], q, commands[n - 1], scans[n] - 1)
                               /\ buffer[Peeked(q, scans[n] - 1)] = NUL
        BY <2>5 DEF Parsed
      <4>2. count + 1 = n
        BY <2>6, <3>1
      <4> QED  BY <3>1, <4>1, <4>2
    <3>2. CASE count # n - 1
      <4>1. TurnOf(count, scans[count], scans[count + 1])
        BY <2>5, <2>6 DEF Parsed, Turns
      <4> QED  BY <3>2, <4>1 DEF TurnOf
    <3> QED  BY <3>1, <3>2
  <2>8. q = p /\ commands[count] = f /\ scans[count + 1] - 1 = e
    <3>1. PICK next : next = scans[count + 1] - 1
      OBVIOUS
    <3>2. next \in Nat
      BY <2>6, <3>1
    <3>3. PICK g : g = commands[count]
      OBVIOUS
    <3>4. Turn(k, q, g, next)
      BY <2>2, <2>5, <2>7, <3>1, <3>3
    <3> QED  BY <2>1, <2>2, <3>1, <3>2, <3>3, <3>4, TurnIsFound
  <2>9. buffer[e] = NUL
    BY <2>7, <2>8 DEF Turn
  <2>10. UNCHANGED <<buffer, commands>>
    BY <2>1, <2>3, <2>8, <2>9
  <2>11. /\ \A m, turns : Parsed(m, turns)' <=> Parsed(m, turns)
         /\ AllParsed' <=> AllParsed
         /\ Done' <=> Done
    BY <2>3, <2>10, SameBuffer
  <2>12. AllParsed' /\ Done'
    BY <2>4, <2>5, <2>11 DEF AllParsed
  <2>13. CASE buffer[Behind] # NUL
    <3>1. count # n - 1
      BY <2>3, <2>7, <2>8, <2>13
    <3>2. count' < n /\ scan' = scans[count']
      BY <2>3, <2>6, <2>8, <2>13, <3>1
    <3>3. Reparsing'
      BY <2>5, <2>11, <3>2 DEF Reparsing
    <3> QED  BY <2>1, <2>3, <2>12, <2>13, <3>3 DEF Again
  <2>14. CASE buffer[Behind] = NUL
    <3>1. at' = "dispatch" /\ said' = <<>> /\ failed'
      BY <2>3, <2>14
    <3>2. Saying'
      <4>1. Heard(0)' = <<>>
        BY DEF Heard
      <4>2. Told(0)'
        BY DEF Told
      <4> QED  BY <3>1, <4>1, <4>2 DEF Saying
    <3> QED  BY <2>12, <3>1, <3>2 DEF Again
  <2> QED  BY <2>13, <2>14
<1> QED  BY <1>1, <1>2 DEF Word

LEMMA AgainKept == IInv /\ Again /\ [Next]_vars => Again'
<1> SUFFICES ASSUME IInv, Again, [Next]_vars PROVE Again'
  OBVIOUS
<1>1. CASE UNCHANGED vars
  <2>1. UNCHANGED <<buffer, commands, said, ran, at, failed, scan, count>>
    BY <1>1 DEF vars
  <2>2. /\ Parsing' <=> Parsing
        /\ Reparsing' <=> Reparsing
    BY <2>1 DEF Parsing, Reparsing, Parsed, Turns, TurnOf, Turn, Peeked
  <2> QED  BY <2>1, <2>2, SameBuffer DEF Again
<1> QED  BY <1>1, ReadAgain, FirstTime, NextTimes, DispatchAgain DEF Next

\* After an empty line, on which scanf stores nothing, the command done next is
\* the last one with the same words (String.h:179-211, Debugger.h:465-613).
THEOREM RepeatsLast == Spec => EmptyRepeats
<1>1. Init => Again
  BY InitAgain
<1>2. Again /\ [Next]_vars => [failed => ran' = ran]_vars
  <2> SUFFICES ASSUME Again, Next, failed PROVE ran' = ran
    OBVIOUS
  <2>1. CASE Run
    <3>1. Saying /\ Done /\ ~More(said) /\ ran' = said
      BY <2>1 DEF Run, Again
    <3> QED  BY <3>1, SaidAgain
  <2> QED  BY <2>1 DEF Next, Read, Word, Look, GetsLost
<1> QED  BY <1>1, <1>2, AgainKept, Invariance, PTL DEF Spec, EmptyRepeats

-----------------------------------------------------------------------------
(* The words of a line                                                     *)

WordLists == Seq(Seq(Char))
Between(words) == [mode |-> "between", words |-> words]

\* What the words are after each character follows from those before it.
LEMMA SplitsFollow ==
  ASSUME NEW text, Len(text) \in Nat
  PROVE  /\ Splits(text)[0] = Between(<<>>)
         /\ \A n \in 1 .. Len(text) : Splits(text)[n] = Taken(Splits(text)[n - 1], text[n])
<1> DEFINE Body(so, m) == [n \in 0 .. m |-> IF n = 0 THEN Between(<<>>) ELSE Taken(so[n - 1], text[n])]
           S == {m \in Nat : ~ \E so : so = Body(so, m)}
<1>1. S = {}
  <2> SUFFICES ASSUME S # {} PROVE FALSE
    OBVIOUS
  <2>1. PICK m \in S : \A r \in S : m <= r
    BY HasLeast
  <2>2. m # 0
    <3> DEFINE so == [n \in 0 .. 0 |-> Between(<<>>)]
    <3>1. so = Body(so, 0)
      OBVIOUS
    <3> QED  BY <3>1
  <2>3. m - 1 \in Nat /\ m - 1 \notin S
    <3>1. m \in Nat
      OBVIOUS
    <3> HIDE DEF S
    <3> QED  BY <2>1, <2>2, <3>1
  <2>4. PICK so : so = Body(so, m - 1)
    BY <2>3
  <2>5. \A n \in 0 .. m - 1 : so[n] = IF n = 0 THEN Between(<<>>) ELSE Taken(so[n - 1], text[n])
    BY ONLY <2>4
  <2> DEFINE more == [n \in 0 .. m |-> IF n = m THEN Taken(so[m - 1], text[m]) ELSE so[n]]
  <2>6. \A n \in 0 .. m : more[n] = IF n = 0 THEN Between(<<>>) ELSE Taken(more[n - 1], text[n])
    <3> SUFFICES ASSUME NEW n \in 0 .. m
                 PROVE  more[n] = IF n = 0 THEN Between(<<>>) ELSE Taken(more[n - 1], text[n])
      OBVIOUS
    <3>1. CASE n = m
      <4>1. more[m] = Taken(so[m - 1], text[m]) /\ more[m - 1] = so[m - 1]
        BY <2>2, <2>3
      <4> QED  BY <2>2, <3>1, <4>1
    <3>2. CASE n # m /\ n # 0
      <4>1. n \in 0 .. m - 1 /\ n - 1 \in 0 .. m - 1 /\ n - 1 # m
        BY <2>3, <3>2
      <4>2. more[n] = so[n] /\ more[n - 1] = so[n - 1]
        BY <2>3, <3>2, <4>1
      <4> QED  BY <2>5, <3>2, <4>1, <4>2
    <3>3. CASE n = 0
      <4>1. 0 \in 0 .. m - 1
        BY <2>3
      <4> QED  BY <2>2, <2>5, <3>3, <4>1
    <3> QED  BY <2>2, <3>1, <3>2, <3>3
  <2>7. more = [n \in 0 .. m |-> more[n]]
    OBVIOUS
  <2> HIDE DEF more
  <2>8. more = Body(more, m)
    BY <2>6, <2>7
  <2> QED  BY <2>1, <2>8
<1>2. \E so : so = Body(so, Len(text))
  BY <1>1
<1>3. Splits(text) = CHOOSE so : so = Body(so, Len(text))
  BY DEF Splits, Between
<1>4. Splits(text) = Body(Splits(text), Len(text))
  BY <1>2, <1>3
<1>5. \A n \in 0 .. Len(text) :
        Splits(text)[n] = IF n = 0 THEN Between(<<>>) ELSE Taken(Splits(text)[n - 1], text[n])
  BY <1>4
<1> QED  BY <1>5

InWord(mode, words) == [mode |-> mode, words |-> words]

LEMMA Grown ==
  ASSUME NEW text \in Seq(Char), NEW f \in Nat, NEW e \in Nat, f <= e, e < Len(text)
  PROVE  /\ SubSeq(text, f + 1, e) \in Seq(Char) /\ SubSeq(text, f + 1, e + 1) \in Seq(Char)
         /\ Append(SubSeq(text, f + 1, e), text[e + 1]) = SubSeq(text, f + 1, e + 1)
         /\ text[e + 1] \in Char
<1>1. /\ SubSeq(text, f + 1, e) \in Seq(Char) /\ SubSeq(text, f + 1, e + 1) \in Seq(Char)
      /\ Len(SubSeq(text, f + 1, e)) = e - f /\ text[e + 1] \in Char
  BY SubSeqProperties
<1>2. SubSeq(text, f + 1, e) = [i \in 1 .. e - f |-> text[f + i]]
  BY SubSeqProperties
<1>3. SubSeq(text, f + 1, e + 1) = [i \in 1 .. e + 1 - f |-> text[f + i]]
  BY SubSeqProperties
<1> QED  BY <1>1, <1>2, <1>3

LEMMA AppendIs ==
  ASSUME NEW S, NEW W \in Seq(S), NEW x \in S, NEW n, n = Len(W) + 1,
         NEW s \in [1 .. n -> S], \A i \in 1 .. n : s[i] = IF i = n THEN x ELSE W[i]
  PROVE  s = Append(W, x)
<1> DEFINE t == Append(W, x)
<1>1. n \in Nat
  OBVIOUS
<1>2. t \in Seq(S) /\ Len(t) = n /\ t[n] = x /\ \A i \in 1 .. Len(W) : t[i] = W[i]
  BY AppendProperties
<1> HIDE DEF t
<1>3. s \in Seq(S) /\ Len(s) = n
  BY <1>1
<1>4. \A i \in 1 .. Len(s) : s[i] = t[i]
  BY <1>2, <1>3
<1>5. s = t
  BY <1>2, <1>3, <1>4, SeqEqual
<1> QED  BY <1>5 DEF t

\* A character of a word that does not end it.
LEMMA TakenInWord ==
  ASSUME NEW W \in WordLists, NEW word \in Seq(Char), NEW c \in Char,
         NEW mode \in {"word", "quoted"}, mode = "word" => c # BLANK, mode = "quoted" => c # QUOTE
  PROVE  Taken(InWord(mode, Append(W, word)), c) = InWord(mode, Append(W, Append(word, c)))
<1> DEFINE so == InWord(mode, Append(W, word))
<1>1. so.mode = mode /\ so.words = Append(W, word) /\ mode # "between"
  BY DEF InWord
<1>2. Taken(so, c) = [so EXCEPT !.words[Len(so.words)] = Append(@, c)]
  BY <1>1 DEF Taken
<1>3. PICK S, more, q, n : S = Seq(Char) /\ more = Append(word, c) /\ q = Append(W, word) /\ n = Len(W) + 1
  OBVIOUS
<1>4. W \in Seq(S) /\ word \in S /\ more \in S
  <2>1. W \in Seq(Seq(Char)) /\ word \in Seq(Char)
    BY Zenon DEF WordLists
  <2>2. Append(word, c) \in Seq(Char)
    BY AppendProperties
  <2> QED  BY ONLY <1>3, <2>1, <2>2, Zenon
<1>5. q \in Seq(S) /\ Len(q) = n /\ q[n] = word /\ \A i \in 1 .. n - 1 : q[i] = W[i]
  BY <1>3, <1>4, AppendProperties
<1>6. q \in [1 .. n -> S] /\ n \in 1 .. n
  <2>1. q \in [1 .. n -> S]
    BY ONLY <1>5
  <2>2. n \in Nat /\ n # 0
    BY ONLY <1>3, <1>4
  <2> QED  BY ONLY <2>1, <2>2
<1> DEFINE s == [q EXCEPT ![n] = more]
<1>7. s \in [1 .. n -> S] /\ \A i \in 1 .. n : s[i] = IF i = n THEN more ELSE q[i]
  BY <1>4, <1>6
<1>8. so = [mode |-> mode, words |-> q]
  BY <1>3 DEF InWord
<1>9. Taken(so, c) = [so EXCEPT !.words = s]
  BY <1>1, <1>2, <1>3, <1>5
<1> HIDE DEF s, so
<1>10. s = Append(W, more)
  <2>1. \A i \in 1 .. n : s[i] = IF i = n THEN more ELSE W[i]
    BY ONLY <1>5, <1>6, <1>7
  <2> QED  BY ONLY <1>3, <1>4, <1>7, <2>1, AppendIs
<1>11. Taken(so, c) = [mode |-> mode, words |-> Append(W, more)]
  BY <1>8, <1>9, <1>10
<1> QED  BY <1>3, <1>11 DEF so, InWord

\* Blanks between words change nothing.
LEMMA BlanksSkipped ==
  ASSUME NEW text, Len(text) \in Nat, NEW W, NEW k \in Nat, NEW p \in Nat, k <= p, p <= Len(text),
         Splits(text)[k] = Between(W), \A i \in k .. p - 1 : text[i + 1] = BLANK
  PROVE  Splits(text)[p] = Between(W)
<1> DEFINE S == {j \in k .. p : Splits(text)[j] # Between(W)}
<1>1. S = {}
  <2> SUFFICES ASSUME S # {} PROVE FALSE
    OBVIOUS
  <2>1. PICK j \in S : \A r \in S : j <= r
    <3>1. S \subseteq Nat
      OBVIOUS
    <3> HIDE DEF S
    <3> QED  BY <3>1, HasLeast
  <2>2. j \in k .. p /\ Splits(text)[j] # Between(W)
    OBVIOUS
  <2>3. j - 1 \in k .. p /\ j - 1 \in k .. p - 1 /\ j \in 1 .. Len(text)
    BY <2>2
  <2>4. j - 1 \notin S
    <3> HIDE DEF S
    <3> QED  BY <2>1, <2>2
  <2>5. Splits(text)[j - 1] = Between(W)
    BY <2>3, <2>4
  <2>6. text[j] = BLANK
    <3>1. text[(j - 1) + 1] = BLANK
      BY <2>3
    <3> QED  BY <2>2, <3>1
  <2>7. Splits(text)[j] = Taken(Between(W), BLANK)
    BY <2>3, <2>5, <2>6, SplitsFollow
  <2>8. Taken(Between(W), BLANK) = Between(W)
    BY CommandLineAssumption DEF Taken, Between
  <2> QED  BY <2>2, <2>7, <2>8
<1> QED  BY <1>1

\* A word grows with each character that does not end it.
LEMMA WordGrows ==
  ASSUME NEW text \in Seq(Char), NEW W \in WordLists,
         NEW f \in Nat, NEW k \in Nat, NEW e \in Nat, f <= k, k <= e, e <= Len(text),
         NEW mode \in {"word", "quoted"}, NEW stop, stop = IF mode = "word" THEN BLANK ELSE QUOTE,
         Splits(text)[k] = InWord(mode, Append(W, SubSeq(text, f + 1, k))),
         \A i \in k .. e - 1 : text[i + 1] # stop
  PROVE  Splits(text)[e] = InWord(mode, Append(W, SubSeq(text, f + 1, e)))
<1> DEFINE Now(j) == Splits(text)[j] = InWord(mode, Append(W, SubSeq(text, f + 1, j)))
           S == {j \in k .. e : ~Now(j)}
<1>1. S = {}
  <2> SUFFICES ASSUME S # {} PROVE FALSE
    OBVIOUS
  <2>1. PICK j \in S : \A r \in S : j <= r
    <3>1. S \subseteq Nat
      OBVIOUS
    <3> HIDE DEF S
    <3> QED  BY <3>1, HasLeast
  <2>2. j \in k .. e /\ ~Now(j)
    OBVIOUS
  <2> HIDE DEF Now
  <2>3. j # k
    BY <2>2 DEF Now
  <2>4. j - 1 \in k .. e /\ j - 1 \in k .. e - 1 /\ j \in 1 .. Len(text) /\ j - 1 \in Nat
    BY <2>2, <2>3
  <2>5. j - 1 \notin S
    <3> HIDE DEF S
    <3> QED  BY <2>1, <2>2
  <2>6. Now(j - 1)
    BY <2>4, <2>5
  <2>7. PICK i : i = j - 1
    OBVIOUS
  <2>8. i \in Nat /\ f <= i /\ i < Len(text) /\ i + 1 = j /\ i \in k .. e - 1
    BY <2>2, <2>4, <2>7
  <2>9. /\ SubSeq(text, f + 1, i) \in Seq(Char) /\ text[j] \in Char
        /\ Append(SubSeq(text, f + 1, i), text[j]) = SubSeq(text, f + 1, j)
    BY <2>8, Grown
  <2>10. Splits(text)[j] = Taken(Splits(text)[i], text[j])
    BY <2>4, <2>7, SplitsFollow
  <2>11. text[j] # stop
    BY <2>8
  <2>12. Taken(InWord(mode, Append(W, SubSeq(text, f + 1, i))), text[j])
         = InWord(mode, Append(W, Append(SubSeq(text, f + 1, i), text[j])))
    <3> HIDE DEF S
    <3> QED  BY <2>9, <2>11, TakenInWord
  <2>13. Now(j)
    BY <2>6, <2>7, <2>9, <2>10, <2>12 DEF Now
  <2> QED  BY <2>2, <2>13
<1>2. e \in k .. e
  OBVIOUS
<1>3. Now(e)
  <2> HIDE DEF Now
  <2> QED  BY <1>1, <1>2
<1> QED  BY <1>3

LEMMA OneLetter ==
  ASSUME NEW text \in Seq(Char), NEW p \in Nat, p < Len(text)
  PROVE  /\ SubSeq(text, p + 1, p + 1) = <<text[p + 1]>> /\ text[p + 1] \in Char
         /\ SubSeq(text, p + 1, p) = <<>>
<1>1. text[p + 1] \in Char
  OBVIOUS
<1>2. SubSeq(text, p + 1, p) = <<>>
  BY SubSeqEmpty
<1>3. Append(SubSeq(text, p + 1, p), text[p + 1]) = SubSeq(text, p + 1, p + 1)
  BY Grown
<1>4. Append(<<>>, text[p + 1]) = <<text[p + 1]>>
  OBVIOUS
<1> QED  BY <1>1, <1>2, <1>3, <1>4

\* In a line a turn from k on finds the word from f to before e, which begins
\* at p.
WordIn(text, k, p, f, e) ==
  /\ k <= p /\ p < Len(text) /\ f <= e /\ p < e /\ e <= Len(text)
  /\ f = IF text[p + 1] = QUOTE THEN p + 1 ELSE p
  /\ \A i \in k .. p - 1 : text[i + 1] = BLANK
  /\ text[p + 1] # BLANK
  /\ \A i \in f .. e - 1 : text[i + 1] \notin Ends(text[p + 1])
  /\ e < Len(text) => text[e + 1] \in Ends(text[p + 1])

Longer(W, text, f, e) == Append(W, SubSeq(text, f + 1, e))

\* It is one word more of the line.
LEMMA NextWord ==
  ASSUME NEW text \in Seq(Char), Complete(text), NEW W \in WordLists,
         NEW k \in Nat, NEW p \in Nat, NEW f \in Nat, NEW e \in Nat, WordIn(text, k, p, f, e),
         Splits(text)[k] = Between(W), NEW X, X = Longer(W, text, f, e)
  PROVE  /\ e = Len(text) => text[p + 1] # QUOTE /\ Split(text).words = X
         /\ e < Len(text) => Splits(text)[e + 1] = Between(X)
         /\ e + 1 = Len(text) => text[p + 1] = QUOTE /\ Split(text).words = X
<1> USE CommandLineAssumption DEF WordIn, Longer
<1> DEFINE mode == IF text[p + 1] = QUOTE THEN "quoted" ELSE "word"
<1>1. Len(text) \in Nat /\ text[p + 1] \in Char /\ mode \in {"word", "quoted"}
  BY OneLetter
<1>2. Splits(text)[p] = Between(W)
  <2>1. /\ Splits(text)[k] = Between(W) /\ k \in Nat /\ p \in Nat /\ k <= p /\ p <= Len(text)
        /\ \A i \in k .. p - 1 : text[i + 1] = BLANK
    BY <1>1
  <2> QED  BY ONLY <1>1, <2>1, BlanksSkipped
<1>3. Splits(text)[p + 1] = Taken(Between(W), text[p + 1])
  <2>1. PICK n : n = p + 1
    OBVIOUS
  <2>2. n \in 1 .. Len(text) /\ n - 1 = p
    BY <1>1, <2>1
  <2>3. Splits(text)[n] = Taken(Splits(text)[n - 1], text[n])
    BY <1>1, <2>2, SplitsFollow
  <2> QED  BY <1>2, <2>1, <2>2, <2>3
<1>4. Splits(text)[e] = InWord(mode, X)
  <2>1. PICK m, stop : m = mode /\ stop = IF m = "word" THEN BLANK ELSE QUOTE
    OBVIOUS
  <2>2. PICK n : n = p + 1
    OBVIOUS
  <2>3. n \in Nat /\ f <= n /\ n <= e
    BY <2>2
  <2>4. Splits(text)[n] = InWord(m, Append(W, SubSeq(text, f + 1, n)))
    <3>1. CASE text[p + 1] = QUOTE
      <4>1. Taken(Between(W), QUOTE) = InWord("quoted", Append(W, <<>>))
        BY DEF Taken, Between, InWord
      <4>2. SubSeq(text, n + 1, n) = <<>>
        BY <2>3, SubSeqEmpty
      <4> QED  BY <1>3, <2>1, <2>2, <3>1, <4>1, <4>2
    <3>2. CASE text[p + 1] # QUOTE
      <4>1. Taken(Between(W), text[p + 1]) = InWord("word", Append(W, <<text[p + 1]>>))
        BY <3>2 DEF Taken, Between, InWord
      <4> QED  BY <1>3, <2>1, <2>2, <3>2, <4>1, OneLetter
    <3> QED  BY <3>1, <3>2
  <2>5. \A i \in n .. e - 1 : text[i + 1] # stop
    BY <2>1, <2>3 DEF Ends
  <2>6. /\ m \in {"word", "quoted"} /\ f \in Nat /\ e \in Nat /\ e <= Len(text)
        /\ text \in Seq(Char) /\ W \in WordLists /\ stop = IF m = "word" THEN BLANK ELSE QUOTE
    BY <1>1, <2>1
  <2>7. Splits(text)[e] = InWord(m, Append(W, SubSeq(text, f + 1, e)))
    BY ONLY <2>3, <2>4, <2>5, <2>6, WordGrows
  <2> QED  BY <2>1, <2>7
<1>5. ASSUME e = Len(text) PROVE text[p + 1] # QUOTE /\ Split(text).words = X
  <2>1. Split(text) = InWord(mode, X)
    BY <1>4, <1>5 DEF Split
  <2>2. Split(text).mode = mode /\ Split(text).words = X
    BY <2>1 DEF InWord
  <2> QED  BY <2>2 DEF Complete
<1>6. ASSUME e < Len(text) PROVE Splits(text)[e + 1] = Between(X) /\ (text[e + 1] = BLANK \/ mode = "quoted")
  <2>1. PICK n : n = e + 1
    OBVIOUS
  <2>2. n \in 1 .. Len(text) /\ n - 1 = e /\ text[n] \in Char
    BY <1>1, <1>6, <2>1
  <2>3. Splits(text)[n] = Taken(InWord(mode, X), text[n])
    BY <1>1, <1>4, <2>2, SplitsFollow
  <2>4. text[n] = IF mode = "quoted" THEN QUOTE ELSE BLANK
    BY <1>6, <2>1, <2>2 DEF Ends
  <2>5. Taken(InWord(mode, X), text[n]) = Between(X)
    BY <1>1, <2>4 DEF Taken, InWord, Between
  <2> QED  BY <1>1, <2>1, <2>3, <2>4, <2>5
<1>7. ASSUME e + 1 = Len(text) PROVE text[p + 1] = QUOTE /\ Split(text).words = X
  <2>1. e < Len(text) /\ text[e + 1] # BLANK
    <3>1. text[Len(text)] # BLANK
      BY DEF Complete, Last
    <3> QED  BY ONLY <1>1, <1>7, <3>1, e \in Nat
  <2>2. Split(text) = Between(X)
    BY <1>6, <1>7, <2>1 DEF Split
  <2> QED  BY <1>6, <2>1, <2>2 DEF Between
<1> QED  BY <1>5, <1>6, <1>7

\* Until the end of the line is found, what is behind scan is still the line,
\* and before it are the words of what is before it in the line, each ended.
Unsplit ==
  /\ \A i \in scan .. Len(line) - 1 : buffer[i] = line[i + 1]
  /\ buffer[Len(line)] = NUL /\ scan < Len(line)
  /\ Heard(count) \in WordLists /\ Splits(line)[scan] = Between(Heard(count))
  /\ \A w \in 0 .. count - 1 : \E e \in Places : e < scan /\ commands[w] <= e /\ buffer[e] = NUL

SplitInv ==
  /\ at = "parse" /\ ~failed /\ Complete(line) => Unsplit
  /\ WordsTrue

LEMMA LeastIs ==
  ASSUME NEW S \in SUBSET Nat, NEW m \in S, \A r \in S : m <= r
  PROVE  Min(S) = m
<1>1. Min(S) \in S /\ \A r \in S : Min(S) <= r
  BY DEF Min
<1>2. Min(S) \in Nat /\ m \in Nat
  BY <1>1
<1> QED  BY <1>1, <1>2

\* A word that ends before what is written stays the same.
LEMMA TextStays ==
  ASSUME NEW c \in Nat, NEW e \in Places, NEW k \in Nat, c <= e, e < k, buffer[e] = NUL,
         \A i \in Places : i < k => buffer'[i] = buffer[i]
  PROVE  Text(c)' = Text(c)
<1> USE CommandLineAssumption
<1> DEFINE S == {i \in Places : c <= i /\ buffer[i] = NUL}
           T == {i \in Places : c <= i /\ buffer'[i] = NUL}
<1>1. S \in SUBSET Nat /\ T \in SUBSET Nat /\ e \in S
  BY DEF Places
<1>2. PICK m \in S : \A r \in S : m <= r
  <2> HIDE DEF S
  <2> QED  BY <1>1, HasLeast
<1>3. m \in Places /\ m <= e /\ m < k /\ c <= m /\ m \in Nat /\ m \in T
  BY <1>1, <1>2 DEF Places
<1>4. \A r \in T : m <= r
  BY <1>2, <1>3 DEF Places
<1> HIDE DEF S, T
<1>5. Min(S) = m /\ Min(T) = m
  BY <1>1, <1>2, <1>3, <1>4, LeastIs
<1>6. EndOf(c) = m /\ EndOf(c)' = m
  BY <1>5 DEF EndOf, S, T
<1>7. \A i \in 1 .. m - c : buffer'[c + i - 1] = buffer[c + i - 1]
  BY <1>3 DEF Places
<1> QED  BY <1>6, <1>7 DEF Text

\* A word that a turn has ended is that of the line.
LEMMA TextIs ==
  ASSUME NEW text \in Seq(Char), NEW f \in Nat, NEW e \in Places, f <= e, e <= Len(text),
         buffer'[e] = NUL, \A i \in f .. e - 1 : buffer'[i] = text[i + 1]
  PROVE  Text(f)' = SubSeq(text, f + 1, e)
<1> USE CommandLineAssumption
<1> DEFINE T == {i \in Places : f <= i /\ buffer'[i] = NUL}
<1>1. \A i \in f .. e - 1 : buffer'[i] \in Char
  BY DEF Places
<1>2. T \in SUBSET Nat /\ e \in T /\ \A r \in T : e <= r
  BY <1>1 DEF Places
<1>3. EndOf(f)' = e
  <2> HIDE DEF T
  <2>1. Min(T) = e
    BY <1>2, LeastIs
  <2> QED  BY <2>1 DEF EndOf, T
<1>4. Text(f)' = [i \in 1 .. e - f |-> buffer'[f + i - 1]]
  BY <1>3 DEF Text
<1>5. \A i \in 1 .. e - f : buffer'[f + i - 1] = text[f + i]
  <2> SUFFICES ASSUME NEW i \in 1 .. e - f PROVE buffer'[f + i - 1] = text[f + i]
    OBVIOUS
  <2>1. f + i - 1 \in f .. e - 1 /\ (f + i - 1) + 1 = f + i
    BY DEF Places
  <2>2. buffer'[f + i - 1] = text[(f + i - 1) + 1]
    BY <2>1
  <2> QED  BY <2>1, <2>2
<1>6. SubSeq(text, f + 1, e) = [i \in 1 .. e - f |-> text[f + i]]
  BY SubSeqProperties DEF Places
<1> QED  BY <1>4, <1>5, <1>6

\* A turn the first time through a line that ends with its last word.
LEMMA WordSplit == IInv /\ SplitInv /\ Word => SplitInv'
<1> SUFFICES ASSUME IInv, SplitInv, Word PROVE SplitInv'
  OBVIOUS
<1> USE CommandLineAssumption
<1>1. CASE WordLost
  BY <1>1 DEF WordLost, SplitInv, WordsTrue
<1>2. CASE WordFound
  <2>1. PICK k, p, f, e, text, n, W :
           k = scan /\ p = Start /\ f = First /\ e = End /\ text = line /\ n = count /\ W = Heard(n)
    OBVIOUS
  <2>2. /\ p \in Places /\ f \in Places /\ e \in Places /\ p < e
        /\ Turn(k, p, f, e)' /\ Behind = Peeked(p, e) /\ buffer[e] \in Ends(buffer[p])
        /\ \A i \in k .. p - 1 : buffer[i] \in {BLANK, NUL}
        /\ \A i \in f .. e - 1 : buffer[i] \notin Ends(buffer[p]) \cup {Junk}
        /\ buffer[p] \notin {BLANK, NUL, Junk}
        /\ commands' = [commands EXCEPT ![count] = f] /\ count < MAX_WORDS
        /\ buffer' = [buffer EXCEPT ![e] = NUL]
        /\ count' = count + 1 /\ UNCHANGED <<failed, line>>
        /\ \/ buffer[Behind] = NUL /\ at' = "dispatch" /\ UNCHANGED scan
           \/ buffer[Behind] # NUL /\ scan' = e + 1 /\ UNCHANGED at
    BY <1>2, <2>1, TurnFinds
  <2>3. /\ at = "parse" /\ buffer \in [Places -> Char \cup {NUL, Junk}] /\ k \in Nat /\ n \in Nat
        /\ commands \in [0 .. MAX_WORDS - 1 -> 0 .. SIZE] /\ text \in Seq(Char) /\ Len(text) < SIZE
    BY <2>1 DEF IInv, TypeOK, Typeable, Places, Word
  <2>4. text' = line' /\ text' = text
    BY <2>1, <2>2
  <2> SUFFICES ASSUME ~failed, Complete(text)
               PROVE  /\ at' = "parse" => Unsplit'
                      /\ at' = "dispatch" => Heard(n + 1)' = Split(text).words
    <3>1. Complete(line)' <=> Complete(text)
      BY <2>4
    <3>2. WordsTrue' <=> (at' = "dispatch" /\ Complete(text) /\ ~failed => Heard(n + 1)' = Split(text).words)
      BY <2>1, <2>2, <2>4 DEF WordsTrue, Heard
    <3> QED  BY <2>1, <2>2, <3>1, <3>2 DEF SplitInv
  <2>5. /\ \A i \in k .. Len(text) - 1 : buffer[i] = text[i + 1]
        /\ buffer[Len(text)] = NUL /\ k < Len(text)
        /\ W \in WordLists /\ Splits(text)[k] = Between(W)
        /\ \A w \in 0 .. n - 1 : \E d \in Places : d < k /\ commands[w] <= d /\ buffer[d] = NUL
    BY <2>1, <2>3 DEF SplitInv, Unsplit
  <2>6. /\ k <= p /\ f <= e /\ p < e /\ f = (IF buffer[p] = QUOTE THEN p + 1 ELSE p)
        /\ \A i \in Places : i # e => buffer'[i] = buffer[i]
        /\ buffer'[e] = NUL /\ p \in Nat /\ f \in Nat /\ e \in Nat /\ k \in Nat
    BY <2>2, <2>3 DEF Turn, Places
  <2>7. PICK L : L = Len(text)
    OBVIOUS
  <2>8. /\ L \in Nat /\ L < SIZE /\ k < L /\ buffer[L] = NUL
        /\ \A i \in 0 .. L - 1 : text[i + 1] \in Char /\ text[i + 1] # NUL
        /\ \A i \in k .. L - 1 : buffer[i] = text[i + 1] /\ buffer[i] # NUL
    <3>1. L \in Nat /\ \A i \in 0 .. L - 1 : text[i + 1] \in Char
      BY <2>3, <2>7
    <3>2. \A i \in k .. L - 1 : i \in 0 .. L - 1
      BY <2>6, <3>1
    <3> QED  BY <2>3, <2>5, <2>7, <3>1, <3>2
  <2>9. p < L
    <3> SUFFICES ASSUME p >= L PROVE FALSE
      BY <2>6, <2>8
    <3>1. text[L] # BLANK
      BY <2>7 DEF Complete, Last
    <3>2. L - 1 \in k .. p - 1 /\ L - 1 \in k .. L - 1 /\ (L - 1) + 1 = L
      BY ONLY <2>6, <2>8, p >= L
    <3>3. buffer[L - 1] = text[L] /\ buffer[L - 1] # NUL
      BY ONLY <2>8, <3>2
    <3>4. buffer[L - 1] \in {BLANK, NUL}
      BY <2>2, <3>2
    <3> QED  BY <3>1, <3>3, <3>4
  <2>10. /\ \A i \in k .. p - 1 : text[i + 1] = BLANK
         /\ buffer[p] = text[p + 1] /\ text[p + 1] # BLANK
    <3>1. \A i \in k .. p : buffer[i] = text[i + 1] /\ buffer[i] # NUL
      BY ONLY <2>6, <2>8, <2>9
    <3>2. \A i \in k .. p - 1 : i \in k .. p /\ buffer[i] \in {BLANK, NUL}
      BY <2>2, <2>6
    <3>3. p \in k .. p /\ buffer[p] # BLANK
      BY <2>2, <2>6
    <3> QED  BY ONLY <3>1, <3>2, <3>3
  <2>11. e <= L
    <3> SUFFICES ASSUME e > L PROVE FALSE
      BY <2>6, <2>8
    <3>1. L \in f .. e - 1
      BY ONLY <2>6, <2>8, <2>9, e > L
    <3>2. buffer[L] \notin Ends(buffer[p])
      BY <2>2, <3>1
    <3> QED  BY <2>8, <3>2 DEF Ends
  <2>12. /\ \A i \in f .. e - 1 : buffer[i] = text[i + 1] /\ text[i + 1] \notin Ends(text[p + 1])
         /\ e < Len(text) => text[e + 1] \in Ends(text[p + 1])
    <3>1. \A i \in f .. e - 1 : buffer[i] = text[i + 1]
      BY ONLY <2>6, <2>8, <2>9, <2>11
    <3>2. \A i \in f .. e - 1 : buffer[i] \notin Ends(buffer[p])
      BY <2>2
    <3>3. e < L => buffer[e] = text[e + 1]
      BY ONLY <2>6, <2>8, <2>9, <2>11
    <3>4. buffer[e] \in Ends(buffer[p])
      BY <2>2
    <3> QED  BY ONLY <2>7, <2>10, <3>1, <3>2, <3>3, <3>4
  <2>13. PICK word, X : word = SubSeq(text, f + 1, e) /\ X = Append(W, word)
    OBVIOUS
  <2>14. /\ e = Len(text) => text[p + 1] # QUOTE /\ Split(text).words = X
         /\ e < Len(text) => Splits(text)[e + 1] = Between(X)
         /\ e + 1 = Len(text) => text[p + 1] = QUOTE /\ Split(text).words = X
    <3>1. /\ text \in Seq(Char) /\ Complete(text) /\ W \in WordLists
          /\ k \in Nat /\ p \in Nat /\ f \in Nat /\ e \in Nat
          /\ Splits(text)[k] = Between(W)
      BY <2>3, <2>5, <2>6
    <3>2. /\ k <= p /\ p < Len(text) /\ f <= e /\ p < e /\ e <= Len(text)
          /\ f = IF text[p + 1] = QUOTE THEN p + 1 ELSE p
      BY ONLY <2>6, <2>7, <2>9, <2>10, <2>11
    <3>3. /\ \A i \in k .. p - 1 : text[i + 1] = BLANK
          /\ text[p + 1] # BLANK
          /\ \A i \in f .. e - 1 : text[i + 1] \notin Ends(text[p + 1])
          /\ e < Len(text) => text[e + 1] \in Ends(text[p + 1])
      BY ONLY <2>10, <2>12
    <3>4. X = Longer(W, text, f, e)
      BY <2>13 DEF Longer
    <3>5. WordIn(text, k, p, f, e)
      BY ONLY <3>2, <3>3 DEF WordIn
    <3> QED  BY ONLY <3>1, <3>4, <3>5, NextWord
  <2>15. Text(f)' = word
    <3>1. /\ text \in Seq(Char) /\ f \in Nat /\ e \in Places /\ f <= e /\ e <= Len(text)
          /\ buffer'[e] = NUL
      BY <2>2, <2>3, <2>6, <2>7, <2>11
    <3>2. \A i \in f .. e - 1 : buffer'[i] = text[i + 1]
      <4>1. \A i \in f .. e - 1 : i \in Places /\ i # e
        BY ONLY <2>6, <3>1, CommandLineAssumption DEF Places
      <4> QED  BY ONLY <2>6, <2>12, <4>1
    <3> QED  BY ONLY <2>13, <3>1, <3>2, TextIs
  <2>16. /\ commands'[n] = f
         /\ \A w \in 0 .. n - 1 : commands'[w] = commands[w] /\ commands[w] \in Nat
    BY <2>1, <2>2, <2>3
  <2>17. ASSUME NEW w \in 0 .. n - 1 PROVE Text(commands[w])' = Text(commands[w])
    <3>1. PICK c : c = commands[w]
      OBVIOUS
    <3>2. PICK d \in Places : d < k /\ c <= d /\ buffer[d] = NUL
      BY <2>5, <3>1
    <3>3. \A i \in Places : i < k => buffer'[i] = buffer[i]
      BY <2>3, <2>6 DEF Places
    <3>4. Text(c)' = Text(c)
      BY <2>3, <2>16, <3>1, <3>2, <3>3, TextStays
    <3> QED  BY <2>16, <3>1, <3>4
  <2>18. Heard(n + 1)' = X /\ X \in WordLists
    <3>1. PICK S : S = Seq(Char)
      OBVIOUS
    <3>2. W \in Seq(S)
      BY ONLY <2>5, <3>1, Zenon DEF WordLists
    <3>3. word \in S
      BY <2>3, <2>6, <2>7, <2>11, <2>13, <3>1, SubSeqProperties
    <3>4. Len(W) = n /\ \A i \in 1 .. n : W[i] = Text(commands[i - 1])
      BY <2>1, <2>3, HeardMore DEF Heard
    <3>5. \A i \in 1 .. n : W[i] \in S
      BY ONLY <3>2, <3>4
    <3>6. PICK m, s : m = n + 1 /\ s = Heard(m)'
      OBVIOUS
    <3>7. s = [i \in 1 .. m |-> Text(commands[i - 1])']
      BY <3>6 DEF Heard
    <3>8. ASSUME NEW i \in 1 .. m
          PROVE  Text(commands[i - 1])' = IF i = m THEN word ELSE W[i]
      <4>1. CASE i = m
        <5>1. i - 1 = n
          BY <2>3, <3>6, <4>1
        <5>2. Text(commands[i - 1])' = Text(f)'
          BY <2>16, <5>1 DEF Text, EndOf
        <5> QED  BY <2>15, <4>1, <5>2
      <4>2. CASE i # m
        <5>1. i - 1 \in 0 .. n - 1 /\ i \in 1 .. n
          BY <2>3, <3>6, <4>2
        <5> QED  BY <2>17, <3>4, <4>2, <5>1
      <4> QED  BY <4>1, <4>2
    <3>9. s \in [1 .. m -> S] /\ \A i \in 1 .. m : s[i] = IF i = m THEN word ELSE W[i]
      <4>1. \A i \in 1 .. m : s[i] = IF i = m THEN word ELSE W[i]
        BY ONLY <3>7, <3>8
      <4>2. \A i \in 1 .. m : i # m => i \in 1 .. n
        BY <2>3, <3>6
      <4>3. \A i \in 1 .. m : s[i] \in S
        BY ONLY <3>3, <3>5, <4>1, <4>2
      <4> QED  BY ONLY <3>7, <4>1, <4>3
    <3>10. s = X
      <4>1. m = Len(W) + 1
        BY ONLY <3>4, <3>6
      <4>2. s = Append(W, word)
        BY ONLY <3>2, <3>3, <3>9, <4>1, AppendIs
      <4> QED  BY ONLY <2>13, <4>2
    <3>11. Append(W, word) \in Seq(S)
      BY ONLY <3>2, <3>3, AppendProperties
    <3> QED  BY ONLY <2>13, <3>1, <3>6, <3>10, <3>11, Zenon DEF WordLists
  <2>19. CASE buffer[Behind] = NUL
    <3>1. e = L \/ e + 1 = L
      BY ONLY <2>2, <2>6, <2>7, <2>8, <2>9, <2>10, <2>11, <2>14, <2>19 DEF Peeked
    <3>2. Split(text).words = X
      BY <2>7, <2>14, <3>1
    <3> QED  BY <2>2, <2>3, <2>18, <2>19, <3>2
  <2>20. CASE buffer[Behind] # NUL
    <3>1. e < L /\ e + 1 # L
      BY ONLY <2>2, <2>6, <2>7, <2>8, <2>9, <2>10, <2>11, <2>14, <2>20 DEF Peeked
    <3>2. scan' = e + 1 /\ at' = "parse"
      BY <2>2, <2>3, <2>20
    <3>3. \A i \in e + 1 .. L - 1 : buffer'[i] = text[i + 1]
      <4>1. \A i \in e + 1 .. L - 1 : i \in Places /\ i # e /\ i \in k .. L - 1
        BY ONLY <2>6, <2>8, CommandLineAssumption DEF Places
      <4> QED  BY ONLY <2>6, <2>8, <4>1
    <3>4. buffer'[L] = NUL /\ e + 1 < L
      <4>1. L \in Places /\ L # e
        BY ONLY <2>6, <2>8, <3>1, CommandLineAssumption DEF Places
      <4>2. e + 1 < L
        BY ONLY <2>6, <2>8, <3>1
      <4> QED  BY <2>6, <2>8, <4>1, <4>2
    <3>5. Splits(text)[e + 1] = Between(X)
      BY <2>7, <2>14, <3>1
    <3>6. ASSUME NEW w \in 0 .. n
          PROVE  \E d \in Places : d < e + 1 /\ commands'[w] <= d /\ buffer'[d] = NUL
      <4>1. CASE w = n
        BY <2>2, <2>6, <2>16, <4>1
      <4>2. CASE w # n
        <5>1. w \in 0 .. n - 1
          BY <2>3, <4>2
        <5>2. PICK d \in Places : d < k /\ commands[w] <= d /\ buffer[d] = NUL
          BY <2>5, <5>1
        <5>3. d < e + 1 /\ buffer'[d] = NUL
          BY ONLY <2>6, <5>2, CommandLineAssumption DEF Places
        <5> QED  BY <2>16, <5>1, <5>2, <5>3
      <4> QED  BY <4>1, <4>2
    <3>7. count' = n + 1 /\ (n + 1) - 1 = n /\ Len(line') = L /\ line' = text
      BY <2>1, <2>2, <2>3, <2>4, <2>7
    <3>8. Heard(count)' = X
      BY <2>18, <3>7 DEF Heard
    <3>9. Unsplit'
      BY ONLY <2>18, <3>2, <3>3, <3>4, <3>5, <3>6, <3>7, <3>8 DEF Unsplit
    <3> QED  BY <3>2, <3>9
  <2> QED  BY <2>19, <2>20
<1> QED  BY <1>1, <1>2 DEF Word

LEMMA InitSplit == Init => SplitInv
BY DEF Init, SplitInv, WordsTrue

\* A line that is read is not split yet.
LEMMA ReadSplit == IInv /\ SplitInv /\ Read => SplitInv'
<1> SUFFICES ASSUME IInv, SplitInv, Read PROVE SplitInv'
  OBVIOUS
<1> USE CommandLineAssumption
<1>1. at' = "parse" /\ scan' = 0 /\ count' = 0
  BY DEF Read
<1> SUFFICES ASSUME ~failed', Complete(line)' PROVE Unsplit'
  BY <1>1 DEF SplitInv, WordsTrue
<1>2. PICK text : text = Head(stdin)
  OBVIOUS
<1>3. text \in Seq(Char) /\ Len(text) < SIZE
  BY <1>2 DEF IInv, Read, Typeable
<1>4. line' = text /\ buffer' = Stored(text)
  BY <1>2 DEF Read
<1>5. /\ \A i \in 0 .. Len(text) - 1 : buffer'[i] = text[i + 1]
      /\ buffer'[Len(text)] = NUL
  <2>1. Len(text) \in Places /\ \A i \in 0 .. Len(text) - 1 : i \in Places /\ i < Len(text)
    BY <1>3 DEF Places
  <2> QED  BY <1>4, <2>1 DEF Stored
<1>6. 0 < Len(text)
  BY <1>3, <1>4 DEF Complete
<1>7. Heard(0)' = <<>> /\ <<>> \in WordLists
  BY DEF Heard, WordLists
<1>8. Splits(text)[0] = Between(<<>>)
  BY <1>3, SplitsFollow
<1>9. Len(line') = Len(text) /\ Heard(count)' = <<>> /\ Splits(line)' = Splits(text)
  BY <1>1, <1>4, <1>7 DEF Heard
<1> QED  BY <1>1, <1>4, <1>5, <1>6, <1>7, <1>8, <1>9 DEF Unsplit

LEMMA SplitKept == IInv /\ SplitInv /\ [Next]_vars => SplitInv'
<1> SUFFICES ASSUME IInv, SplitInv, [Next]_vars PROVE SplitInv'
  OBVIOUS
<1>1. CASE UNCHANGED vars \/ Look \/ Run
  <2>1. UNCHANGED <<buffer, commands, scan, count, failed, line>>
    BY <1>1 DEF vars, Look, Run, GetsLost
  <2>2. /\ Unsplit' <=> Unsplit
        /\ (at' = "dispatch" => at = "dispatch") /\ (at' = "parse" => at = "parse")
    <3>1. at' \in {at, "lost", "read", "ended"}
      BY <1>1 DEF vars, Look, Run, GetsLost
    <3>2. Unsplit' <=> Unsplit
      BY <2>1 DEF Unsplit, Heard, Text, EndOf
    <3> QED  BY <3>1, <3>2
  <2>3. Complete(line)' <=> Complete(line)
    BY <2>1
  <2>4. WordsTrue'
    BY <2>1, <2>2, <2>3 DEF SplitInv, WordsTrue, Text, EndOf
  <2> QED  BY <2>1, <2>2, <2>3, <2>4 DEF SplitInv
<1> QED  BY <1>1, ReadSplit, WordSplit DEF Next

\* Where a line ends with its last word, ParseCommands splits it into its words
\* and no others, whatever the buffer held before (String.h:179-211).
THEOREM SplitsLine == Spec => []WordsTrue
<1>1. SplitInv => WordsTrue
  BY DEF SplitInv
<1> QED  BY <1>1, InitSplit, SplitKept, Invariance, PTL DEF Spec

=============================================================================
