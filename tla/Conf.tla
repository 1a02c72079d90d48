-------------------------------- MODULE Conf --------------------------------
(***************************************************************************)
(* Reading conf.txt: str_split, fillConf and readConf of Project1/misc.c.  *)
(*                                                                         *)
(* A text is a sequence of symbols: the delimiters, and the words between  *)
(* them.  Two words are never side by side.                                *)
(***************************************************************************)
EXTENDS Integers, SequencesExt

CONSTANT Numbers       \* a function: the numbers that words stand for

Newline == "\n"
Space   == " "

(* The fields of struct Conf. *)
Key == {"SEED", "INIT_TIME", "FIN_TIME", "ARRIVE_MIN", "ARRIVE_MAX",
        "QUIT_PROB", "CPU_MIN", "CPU_MAX", "DISK1_MIN", "DISK1_MAX",
        "DISK2_MIN", "DISK2_MAX"}

(* The program is ended by an assertion; nothing else yields <<>>. *)
Aborted == <<>>

(* strtok: the non-empty tokens between delimiters. *)
strtok(str, delim) ==
  LET Read(acc, s) ==
        IF s = delim THEN [acc EXCEPT !.open = FALSE]
        ELSE IF acc.open
        THEN [acc EXCEPT !.tokens[Len(acc.tokens)] = Append(@, s)]
        ELSE [tokens |-> Append(acc.tokens, <<s>>), open |-> TRUE]
  IN  FoldLeft(Read, [tokens |-> <<>>, open |-> FALSE], str).tokens

(* Variant: a delimiter at the end counts as well. *)
Count_NoTrailing(str, delim) ==
  Len(SelectSeq(str, LAMBDA s : s = delim)) + 1

(* The count of str_split before the room for the terminating null: every  *)
(* delimiter ends a token, and so does the end of a text that does not end *)
(* in a delimiter.                                                         *)
Count(str, delim) ==
  Len(SelectSeq(str, LAMBDA s : s = delim))
  + (IF str # <<>> /\ Last(str) = delim THEN 0 ELSE 1)

(* str_split, with its assertion that the count was right. *)
str_split(str, delim) ==
  LET tokens == strtok(str, delim)
  IN  IF Len(tokens) = Count(str, delim) THEN tokens ELSE Aborted

(* A word that does not start with a digit is 0. *)
atoi(word) == IF word \in DOMAIN Numbers THEN Numbers[word] ELSE 0

fillConf(conf, key, val) ==
  IF key \in Key THEN [conf EXCEPT ![key] = atoi(val)] ELSE conf

(* readConf: a line that is split into less than two words is skipped, the *)
(* words after the second are ignored, and a key that is never read stays 0.*)
readConf(text) ==
  LET lines == str_split(text, Newline)
      FillFrom(conf, line) ==
        LET kv == str_split(line, Space)
        IN  IF conf = Aborted \/ kv = Aborted THEN Aborted
            ELSE IF Len(kv) >= 2 THEN fillConf(conf, kv[1][1], kv[2][1])
            ELSE conf
  IN  IF lines = Aborted THEN Aborted
      ELSE FoldLeft(FillFrom, [k \in Key |-> 0], lines)

-----------------------------------------------------------------------------
(* What readConf should return, told from the positions of a text *)

Delimiter == {Newline, Space}

StartsLine(text, p) == p = 1 \/ text[p - 1] = Newline

(* No blank line, no line that begins with a space, no two spaces.         *)
WellFormed(text) ==
  /\ text # <<>>
  /\ \A p \in DOMAIN text :
       /\ StartsLine(text, p) => text[p] \notin Delimiter
       /\ p > 1 /\ text[p] = Space => text[p - 1] # Space

(* The positions of a key that has a value. *)
Settings(text, key) ==
  {p \in 1..(Len(text) - 2) :
     StartsLine(text, p) /\ text[p] = key
     /\ text[p + 1] = Space /\ text[p + 2] \notin Delimiter}

(* The last setting of every key counts; a text that is not well formed    *)
(* ends the program, however its blanks are spread over the lines.         *)
ReadsConf(text) ==
  readConf(text) =
    IF WellFormed(text)
    THEN [key \in Key |->
            LET at == Settings(text, key)
            IN  IF at = {} THEN 0 ELSE atoi(text[Max(at) + 2])]
    ELSE Aborted
=============================================================================
