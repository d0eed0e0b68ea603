---------------------------- MODULE CommandLine ----------------------------
(***************************************************************************)
(* The prompt: DebuggerLoop reads a line, ParseCommands splits it in place *)
(* into words (String.h), and the command is found by comparing words.     *)
(*                                                                         *)
(* The line buffer and the words' places outlive the line.  Whoever reads  *)
(* a byte nobody wrote, or a word nobody set, is lost: all that follows is *)
(* arbitrary.  A character is a model value or a letter; names are shorter *)
(* than in the code.  X_Y is X with a mistake in it.                       *)
(***************************************************************************)
EXTENDS Naturals, SequencesExt

CONSTANTS
  SIZE,         \* of the line buffer
  MAX_WORDS,    \* places for words
  NUL, BLANK, QUOTE, Junk,     \* a blank or a tab; Junk: never written
  Char,         \* what may stand in a line
  Inputs,       \* what may be typed in a session: sequences of lines
  Exit, Register, Breakpoint,  \* names of commands
  OneArgument,  \* section, range, cu
  Set, Line, Func              \* arguments of commands

\* A line fits into the buffer.  One that is empty is also what the end of the
\* input is like.
Typeable == {text \in Seq(Char) : Len(text) < SIZE}

ASSUME CommandLineAssumption ==
  /\ SIZE \in Nat \ {0} /\ MAX_WORDS \in Nat \ {0}
  /\ NUL # Junk /\ BLANK # QUOTE /\ {NUL, Junk} \cap {BLANK, QUOTE} = {}
  /\ Char \cap {NUL, Junk} = {}
  /\ Inputs \subseteq Seq(Typeable)

VARIABLES
  stdin,     \* the lines not yet read
  buffer,    \* input
  commands,  \* where each word begins, SIZE if nowhere
  at,        \* read, parse, dispatch, ended, or lost
  scan,      \* how far ParseCommands is
  count,     \* the words it has found
  said,      \* the words the dispatch has looked at
  failed,    \* scanf has stored nothing
  line,      \* the line last read
  longest,   \* the length of the longest one
  ran        \* the command last done, with what it took as its arguments

vars == <<stdin, buffer, commands, at, scan, count, said, failed, line, longest, ran>>

-----------------------------------------------------------------------------
Places == 0 .. SIZE - 1

Init ==
  /\ stdin \in Inputs
  /\ buffer = [i \in Places |-> Junk]
  /\ commands = [w \in 0 .. MAX_WORDS - 1 |-> SIZE]
  /\ at = "read" /\ scan = 0 /\ count = 0
  /\ said = <<>> /\ ran = <<>>
  /\ failed = FALSE /\ line = <<>> /\ longest = 0

\* scanf("%[^\n]%*c"): the line with its end.
Stored(text) ==
  [i \in Places |-> IF i < Len(text) THEN text[i + 1]
                    ELSE IF i = Len(text) THEN NUL ELSE buffer[i]]

NotStored_Empty == [buffer EXCEPT ![0] = NUL]
NotStored == buffer

\* What is left to read: an empty line stores nothing, and then its newline is
\* not read either.
Rest == IF Head(stdin) = <<>> THEN stdin ELSE Tail(stdin)

Read ==
  /\ at = "read" /\ stdin # <<>>
  /\ failed' = (Head(stdin) = <<>>)
  /\ stdin' = Rest
  /\ IF failed' THEN buffer' = NotStored /\ UNCHANGED <<line, longest>>
     ELSE /\ buffer' = Stored(Head(stdin))
          /\ line' = Head(stdin)
          /\ longest' = IF Len(line') > longest THEN Len(line') ELSE longest
  /\ at' = "parse" /\ scan' = 0 /\ count' = 0
  /\ UNCHANGED <<commands, said, ran>>

\* The first byte from k on that is one of chars, or is none of them; SIZE if
\* that is behind the buffer.
FindAnyCharForward(k, chars) == Min({i \in k .. SIZE : i = SIZE \/ buffer[i] \in chars \cup {Junk}})
FindAnyDiffCharForward(k, chars) == Min({i \in k .. SIZE : i = SIZE \/ buffer[i] \notin chars})
Known(i) == i < SIZE /\ buffer[i] # Junk

GetsLost == at' = "lost" /\ UNCHANGED <<stdin, buffer, commands, scan, count, said, failed,
                                       line, longest, ran>>

\* The next word, without its quotes, from First to before End.  Blanks are
\* skipped before it, and ends of lines too.
Start == FindAnyDiffCharForward(scan, {BLANK, NUL})
Quoted == buffer[Start] = QUOTE
First == IF Quoted THEN Start + 1 ELSE Start
EndsWord == IF Quoted THEN {QUOTE, NUL} ELSE {BLANK, NUL}
End == FindAnyCharForward(First, EndsWord)

\* Behind a quoted word ParseCommands looks at the next byte, after another
\* word at the byte it ends with.
Behind == IF Quoted THEN End + 1 ELSE End
Place_Late == End + 1
Place == First
Beyond == End + 1
Ended_Kept == buffer
Ended == [buffer EXCEPT ![End] = NUL]

Puts(p) == commands' = [commands EXCEPT ![count] = p]

WordFound ==
  /\ count < MAX_WORDS /\ Known(Start) /\ Known(End) /\ Known(Behind)
  /\ Puts(Place)
  /\ buffer' = Ended
  /\ IF buffer[Behind] = NUL THEN at' = "dispatch" /\ said' = <<>> /\ UNCHANGED scan
     ELSE scan' = Beyond /\ UNCHANGED <<at, said>>

\* ParseCommands comes to bytes nobody wrote, or has no place left.  By then it
\* has put the word's place, which is any behind the line if that is where it
\* begins, and it may have ended a quoted word.
WordLost ==
  /\ \/ /\ count = MAX_WORDS
        /\ UNCHANGED <<commands, buffer>>
     \/ /\ count < MAX_WORDS /\ ~Known(Start)
        /\ \E p \in Start .. SIZE : Puts(p)
        /\ UNCHANGED buffer
     \/ /\ count < MAX_WORDS /\ Known(Start) /\ ~Known(End)
        /\ Puts(Place)
        /\ UNCHANGED buffer
     \/ /\ count < MAX_WORDS /\ Known(Start) /\ Known(End) /\ ~Known(Behind)
        /\ Puts(Place)
        /\ buffer' = Ended
  /\ at' = "lost"
  /\ UNCHANGED <<scan, said>>

\* One turn of ParseCommands.
Word ==
  /\ at = "parse"
  /\ count' = count + 1
  /\ WordFound \/ WordLost
  /\ UNCHANGED <<stdin, failed, line, longest, ran>>

-----------------------------------------------------------------------------
(* The dispatch                                                            *)

\* The C string at a place.
HasEnd(p) == \E e \in Places : p <= e /\ buffer[e] = NUL
EndOf(p) == Min({e \in Places : p <= e /\ buffer[e] = NUL})
Readable(p) == HasEnd(p) /\ \A i \in p .. EndOf(p) : buffer[i] # Junk
Text(p) == [i \in 1 .. EndOf(p) - p |-> buffer[p + i - 1]]

\* The dispatch looks at another word after those of seen.
More(seen) ==
  CASE Len(seen) = 0 -> TRUE
    [] Len(seen) = 1 -> seen[1] \in OneArgument \cup {Register, Breakpoint}
    [] Len(seen) = 2 -> seen[1] = Register \/ (seen[1] = Breakpoint /\ seen[2] = Set)
    [] Len(seen) = 3 -> \/ (seen[1] = Register /\ seen[2] = Set)
                       \/ (seen[1] = Breakpoint /\ seen[3] \in {Line, Func})
    [] Len(seen) = 4 -> seen[1] = Breakpoint /\ seen[3] = Line
    [] OTHER -> FALSE

Look ==
  /\ at = "dispatch" /\ More(said)
  /\ LET p == commands[Len(said)]
     IN  IF ~Readable(p) THEN GetsLost
         ELSE /\ said' = Append(said, Text(p))
              /\ UNCHANGED <<stdin, buffer, commands, at, scan, count, failed, line, longest,
                             ran>>

\* The command is done, and the loop ends with `exit'.
Run ==
  /\ at = "dispatch" /\ ~More(said)
  /\ ran' = said
  /\ at' = IF said[1] = Exit THEN "ended" ELSE "read"
  /\ UNCHANGED <<stdin, buffer, commands, scan, count, said, failed, line, longest>>

Next == Read \/ Word \/ Look \/ Run

Spec == Init /\ [][Next]_vars

-----------------------------------------------------------------------------
(* The words of a line                                                     *)

\* A character after others: between words, in one, or in a quoted one.
Taken(so, c) ==
  CASE so.mode = "between" /\ c = BLANK -> so
    [] so.mode = "between" /\ c = QUOTE -> [mode |-> "quoted", words |-> Append(so.words, <<>>)]
    [] so.mode = "between" /\ c \notin {BLANK, QUOTE} ->
         [mode |-> "word", words |-> Append(so.words, <<c>>)]
    [] (so.mode = "word" /\ c = BLANK) \/ (so.mode = "quoted" /\ c = QUOTE) -> [so EXCEPT !.mode = "between"]
    [] OTHER -> [so EXCEPT !.words[Len(so.words)] = Append(@, c)]

\* After each number of characters.
Splits(text) ==
  LET so[n \in 0 .. Len(text)] == IF n = 0 THEN [mode |-> "between", words |-> <<>>]
                                  ELSE Taken(so[n - 1], text[n])
  IN  so
Split(text) == Splits(text)[Len(text)]

\* A line that ends with its last word.
Complete(text) == text # <<>> /\ Last(text) # BLANK /\ Split(text).mode # "quoted"

\* Until ParseCommands is lost, it stays within the longest line that was read,
\* and finds no more words than there are places (String.h:184-208).
TypeOK ==
  /\ buffer \in [Places -> Char \cup {NUL, Junk}]
  /\ commands \in [0 .. MAX_WORDS - 1 -> 0 .. SIZE]
  /\ at \in {"read", "parse", "dispatch", "ended", "lost"}
  /\ scan \in 0 .. longest
  /\ count \in 0 .. MAX_WORDS + 1 /\ (at # "lost" => count <= MAX_WORDS)
  /\ failed \in BOOLEAN
  /\ line \in Typeable /\ longest \in Places /\ Len(line) <= longest

\* A line that ends with its last word, quoted or not, is split into its words,
\* and nothing behind it is looked at, whatever was typed before.
WordsTrue ==
  at = "dispatch" /\ Complete(line) /\ ~failed =>
    [w \in 1 .. count |-> Text(commands[w - 1])] = Split(line).words

\* Commands look at arguments that the line may not have (Debugger.h:496 and
\* after): what they find is from earlier lines or from the midst of this one.
\* Until ParseCommands has come to bytes nobody wrote, it lies within the longest
\* line there was, and ends there.
ArgumentsEnd ==
  at # "lost" => \A w \in DOMAIN commands :
    commands[w] < SIZE => \E e \in commands[w] .. longest : buffer[e] = NUL

\* An empty line does the last command again, with the same arguments, though
\* ParseCommands now finds the buffer split.
EmptyRepeats == [][failed => ran' = ran]_vars

=============================================================================
