------------------------------- MODULE Console -------------------------------
(***************************************************************************)
(* The command line of src/lib/console/console.c: a line is read from a     *)
(* terminal key by key and echoed, cut into words in place, and the first   *)
(* word looked up in the blocks of commands.                                *)
(***************************************************************************)
EXTENDS Integers, Sequences

CONSTANTS
    BufferSize,    \* sizeof(buffer), 256 in the code
    MaxArgs,       \* the size of args, 16 in the code
    Blocks         \* the blocks of commands in the order they are registered

VARIABLES
    buffer, pos, escape_level,     \* read_line
    doing,                         \* what the loop does
    state, arg, args,              \* tokenize_command
    matched,                       \* the block of the command that was found
    shown                          \* what the terminal shows in front of its cursor

convars == <<buffer, pos, escape_level, doing, state, arg, args, matched, shown>>
reading == <<state, arg, args, matched>>

\* After an escape and a bracket 67 and 68 are the arrows to the right and to the
\* left; otherwise they and the bracket are characters like any other.
Keys == {" ", "[", "67", "68", "escape", "delete", "newline"}
Nul == "nul"

\* What is left behind pos in the buffer is not looked at.
ConsoleInit == /\ buffer = <<>> /\ pos = 0 /\ escape_level = 0 /\ doing = "read"
               /\ state = "INITIAL" /\ arg = 0 /\ args = <<>> /\ matched = 0
               /\ shown = <<>>

\* What is written at an index of the buffer, and what is in front of it.
Put(seq, i, c) == Append(SubSeq(seq, 1, i), c)

-----------------------------------------------------------------------------
(* read_line                                                                *)

putc(c) == shown' = Append(shown, c)

insert(c) == /\ buffer' = Put(buffer, pos, c) /\ pos' = pos + 1
             /\ putc(c)

ToTheLeft == shown' = SubSeq(shown, 1, Len(shown) - 1)

\* Fault: the character goes from the screen alone.
rub_out_Screen == IF pos > 0 THEN ToTheLeft /\ UNCHANGED <<buffer, pos>>
                  ELSE UNCHANGED <<buffer, pos, shown>>

\* To the left, a space over what was there, and to the left again.
rub_out == IF pos > 0 THEN pos' = pos - 1 /\ ToTheLeft /\ UNCHANGED buffer
           ELSE UNCHANGED <<buffer, pos, shown>>

\* The end of the line, and how much of it is left.
TooLong(n) == n = BufferSize - 1
Ended(n) == IF TooLong(n) THEN 0 ELSE n

key(c) ==
    /\ doing = "read"
    /\ CASE escape_level = 0 /\ c = "newline" ->
              UNCHANGED <<buffer, pos, escape_level, shown>>
         [] escape_level = 0 /\ c = "delete" -> rub_out /\ UNCHANGED escape_level
         [] escape_level = 0 /\ c = "escape" ->
              escape_level' = 1 /\ UNCHANGED <<buffer, pos, shown>>
         [] escape_level = 0 /\ c \notin {"newline", "delete", "escape"} ->
              insert(c) /\ UNCHANGED escape_level
         [] escape_level = 1 ->
              /\ escape_level' = IF c = "[" THEN 2 ELSE 0
              /\ UNCHANGED <<buffer, pos, shown>>
         [] escape_level = 2 ->
              /\ escape_level' = 0
              /\ CASE c = "67" -> insert(" ")
                   [] c = "68" -> rub_out
                   [] OTHER -> UNCHANGED <<buffer, pos, shown>>
    /\ doing' = IF (escape_level = 0 /\ c = "newline") \/ TooLong(pos') THEN "end" ELSE "read"
    /\ UNCHANGED reading

\* An empty line, and one that was too long, are read over.
line_end ==
    /\ doing = "end"
    /\ buffer' = Put(buffer, Ended(pos), Nul)
    /\ pos' = 0
    /\ IF Ended(pos) = 0 THEN doing' = "read" /\ shown' = <<>>
       ELSE doing' = "tokenize" /\ UNCHANGED <<shown>>
    /\ UNCHANGED <<escape_level, reading>>

-----------------------------------------------------------------------------
(* tokenize_command, a character at a time; a word is where it starts.      *)

c0 == buffer[pos + 1]
isspace == c0 = " "
finished == c0 = Nul
Tokenizing(s) == doing = "tokenize" /\ state = s
StartsWord == args' = Append(args, pos) /\ state' = "IN_TOKEN"

first_char ==
    /\ Tokenizing("INITIAL")
    /\ IF isspace THEN state' = "IN_SPACE" /\ UNCHANGED args ELSE StartsWord
    /\ UNCHANGED <<buffer, pos, escape_level, doing, arg, matched, shown>>

\* Fault: the words after the last that fits are taken, too.
word_ends_Anyway == FALSE
\* The words after the last that fits are left.
word_ends == arg + 1 = MaxArgs

in_token ==
    /\ Tokenizing("IN_TOKEN")
    /\ arg' = IF finished \/ isspace THEN arg + 1 ELSE arg
    /\ IF ~finished /\ isspace
       THEN /\ buffer' = [buffer EXCEPT ![pos + 1] = Nul]
            /\ state' = IF word_ends THEN state ELSE "IN_SPACE"
       ELSE UNCHANGED <<buffer, state>>
    /\ doing' = IF finished \/ (isspace /\ word_ends) THEN "match" ELSE doing
    /\ pos' = IF doing' = "match" THEN pos ELSE pos + 1
    /\ UNCHANGED <<escape_level, args, matched, shown>>

in_space ==
    /\ Tokenizing("IN_SPACE")
    /\ CASE finished -> doing' = "match" /\ UNCHANGED <<pos, state, args>>
         [] ~finished /\ isspace -> pos' = pos + 1 /\ UNCHANGED <<doing, state, args>>
         [] ~finished /\ ~isspace -> pos' = pos + 1 /\ StartsWord /\ UNCHANGED doing
    /\ UNCHANGED <<buffer, escape_level, arg, matched, shown>>

\* The string at an index of the buffer.
StringAt(i) == LET ends == {j \in i + 1 .. Len(buffer) : buffer[j] = Nul}
               IN SubSeq(buffer, i + 1, (CHOOSE j \in ends : \A k \in ends : j <= k) - 1)

\* The block that was registered last is looked at first; 0 is none.
match_command(word) ==
    LET having == {b \in DOMAIN Blocks : word \in Blocks[b]}
    IN IF having = {} THEN 0 ELSE CHOOSE b \in having : \A o \in having : o <= b

\* A line of spaces is read over.
match ==
    /\ doing = "match"
    /\ matched' = IF arg = 0 THEN 0 ELSE match_command(StringAt(args[1]))
    /\ doing' = "run"
    /\ UNCHANGED <<buffer, pos, escape_level, state, arg, args, shown>>

\* The command, if there is one, and the next line.
run ==
    /\ doing = "run" /\ doing' = "read"
    /\ pos' = 0 /\ state' = "INITIAL" /\ arg' = 0 /\ args' = <<>> /\ matched' = 0
    /\ buffer' = <<>> /\ shown' = <<>>
    /\ UNCHANGED escape_level

ConsoleNext == \/ \E c \in Keys : key(c)
               \/ line_end \/ first_char \/ in_token \/ in_space \/ match \/ run

ConsoleSpec == ConsoleInit /\ [][ConsoleNext]_convars

-----------------------------------------------------------------------------
\* A line cut into words.
WordsOf(line) ==
    LET starts == {i \in 1 .. Len(line) : line[i] # " " /\ (i = 1 \/ line[i - 1] = " ")}
        ends == {i \in 1 .. Len(line) : line[i] # " " /\ (i = Len(line) \/ line[i + 1] = " ")}
        first(set) == CHOOSE i \in set : \A j \in set : i <= j
        words[left \in SUBSET starts] ==
            IF left = {} THEN <<>>
            ELSE LET s == first(left)
                 IN <<SubSeq(line, s, first({e \in ends : e >= s}))>> \o words[left \ {s}]
    IN words[starts]

\* A command is run with the words that the terminal showed, however the line was
\* edited, and no more than the array holds.
RunsWhatIsShown ==
    doing = "run" =>
        LET words == WordsOf(shown) IN
        /\ arg = (IF Len(words) < MaxArgs THEN Len(words) ELSE MaxArgs)
        /\ \A i \in 1 .. arg : StringAt(args[i]) = words[i]

\* Nothing is written behind the buffer or behind the array of words.
LineFits == Len(buffer) <= BufferSize /\ Len(args) <= MaxArgs

=============================================================================
