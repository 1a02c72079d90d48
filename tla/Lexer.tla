------------------------------- MODULE Lexer --------------------------------
(***************************************************************************)
(* The lexer that the shell (src/Project2/mufash.cpp) and the command loop *)
(* of the file system (src/Project4/mufa_fs/main.cpp) share: one pass over *)
(* the characters of a line that builds a vector of commands. The inner    *)
(* loops over a quotation or a comment, and the look at the character      *)
(* after `\` or `>`, are modes of the pass.                                *)
(*                                                                         *)
(* A line is a sequence of characters. A string that is no special         *)
(* character stands for any valid one, or for a whole name.                *)
(***************************************************************************)
EXTENDS Integers, SequencesExt

Separators == {";", "|", ">", "&"}
Quoting == {"\\", "'", "#"}

(* Some of the characters that no branch takes.                            *)
Dropped == {"<", "\"", "*"}

(* What std::string gives for the character after the last.                *)
NUL == "NUL"

isvalid(cur) == cur \notin {" ", NUL} \cup Separators \cup Quoting \cup Dropped

redirection == {"none", "pipe", "redir_output", "append_output"}

(* What an argument consists of: characters, and the NUL that a backslash  *)
(* at the end of the line adds.                                            *)
Char == STRING \cup {NUL}

Command == [args : Seq(Seq(Char)), redir : redirection, background : BOOLEAN]

NoCommand == [args |-> << <<>> >>, redir |-> "none", background |-> FALSE]

(* currentCMD and currentArg are the last command and its last argument.   *)
Begin == [cmds |-> <<NoCommand>>, mode |-> "plain", ignorespace |-> FALSE]

curCmd(lex) == Last(lex.cmds)
SetCommand(lex, cmd) == [lex EXCEPT !.cmds[Len(lex.cmds)] = cmd]

AddLetter(lex, cur) ==
    SetCommand(lex, [curCmd(lex) EXCEPT !.args[Len(curCmd(lex).args)] = Append(@, cur)])

AddArgument(lex) ==
    [SetCommand(lex, [curCmd(lex) EXCEPT !.args = Append(@, <<>>)])
        EXCEPT !.ignorespace = TRUE]

RedirOf(cur) ==
    CASE cur = "|" -> "pipe" [] cur = ">" -> "redir_output" [] OTHER -> "none"

WithoutEmptyLast(args) == IF Last(args) = <<>> THEN Front(args) ELSE args

(* A separator ends the command in hand and starts the next.               *)
EndCommand(lex, cur) ==
    LET ended == [curCmd(lex) EXCEPT !.args = WithoutEmptyLast(@),
                                     !.redir = RedirOf(cur),
                                     !.background = (cur = "&")]
    IN  [cmds |-> Append(Front(lex.cmds), ended) \o <<NoCommand>>,
         mode |-> IF cur = ">" THEN "redirect" ELSE "plain",
         ignorespace |-> TRUE]

ModeAfter(cur) ==
    CASE cur = "\\" -> "escape" [] cur = "'" -> "quote" [] cur = "#" -> "comment"

PlainCharacter(lex, cur) ==
    CASE isvalid(cur)       -> [AddLetter(lex, cur) EXCEPT !.ignorespace = FALSE]
      [] cur = " "          -> IF lex.ignorespace THEN lex ELSE AddArgument(lex)
      [] cur \in Separators -> EndCommand(lex, cur)
      [] cur \in Quoting    -> [lex EXCEPT !.mode = ModeAfter(cur)]
      [] cur \in Dropped    -> lex

(* Variant: what follows a `\` in a quotation is passed over.               *)
QuotedCharacter_Skips(lex, cur) ==
    CASE lex.mode = "quoteEscape" -> [lex EXCEPT !.mode = "quote"]
      [] cur = "'"  -> [lex EXCEPT !.mode = "plain"]
      [] cur = "\\" -> [lex EXCEPT !.mode = "quoteEscape"]
      [] OTHER      -> AddLetter(lex, cur)

(* `\` changes the meaning of the next character and never enters a word.  *)
QuotedCharacter(lex, cur) ==
    CASE cur = "'" /\ lex.mode = "quote" -> [lex EXCEPT !.mode = "plain"]
      [] cur = "\\" -> [lex EXCEPT !.mode = IF @ = "quote" THEN "quoteEscape" ELSE "quote"]
      [] OTHER      -> [AddLetter(lex, cur) EXCEPT !.mode = "quote"]

(* The character after a `>`.                                              *)
Redirected(lex, cur) ==
    IF cur = ">"
    THEN [lex EXCEPT !.mode = "plain", !.cmds[Len(lex.cmds) - 1].redir = "append_output"]
    ELSE PlainCharacter([lex EXCEPT !.mode = "plain"], cur)

Character(lex, cur) ==
    CASE lex.mode = "plain"    -> PlainCharacter(lex, cur)
      [] lex.mode = "redirect" -> Redirected(lex, cur)
      [] lex.mode = "escape"   -> [AddLetter(lex, cur) EXCEPT !.mode = "plain"]
      [] lex.mode = "comment"  -> [lex EXCEPT !.mode = IF cur = "#" THEN "plain" ELSE @]
      [] OTHER                 -> QuotedCharacter(lex, cur)

lexer(text) ==
    LET lex == FoldLeft(Character, Begin, text)
    IN  IF lex.mode = "escape" THEN AddLetter(lex, NUL).cmds ELSE lex.cmds

(* Variant: the empty argument after a last space is kept.                 *)
Parse_KeepsEmpty(text) ==
    LET cmds == lexer(text)
    IN  IF Last(cmds).args = << <<>> >> THEN Front(cmds) ELSE cmds

(* The shell drops an empty last argument and an empty last command.       *)
Parse(text) ==
    LET cmds == lexer(text)
        last == WithoutEmptyLast(Last(cmds).args)
    IN  IF last = <<>> THEN Front(cmds)
        ELSE [cmds EXCEPT ![Len(cmds)].args = last]

(* parseCommands of the file system takes the first command of the line as *)
(* it is and ignores the others.                                           *)
parseCommands(text) == lexer(text)[1].args

-----------------------------------------------------------------------------
(* How a list of commands is written on a line *)

(* A character of a word and how it is written. *)
Letter == [char : STRING, style : {"plain", "escaped", "quoted"}]

Written(letter) ==
    CASE letter.style = "plain"   -> <<letter.char>>
      [] letter.style = "escaped" -> <<"\\", letter.char>>
      [] letter.style = "quoted"  ->
            IF letter.char = "'" THEN <<"'", "\\", "'", "'">> ELSE <<"'", letter.char, "'">>

WrittenWord(word) == FlattenSeq([k \in DOMAIN word |-> Written(word[k])])
Meant(word) == [k \in DOMAIN word |-> word[k].char]

(* The words of a command, separated by so many spaces. *)
WrittenCommand(words, spaces) ==
    FlattenSeq([k \in DOMAIN words |->
        (IF k = 1 THEN <<>> ELSE [s \in 1 .. spaces |-> " "]) \o WrittenWord(words[k])])

(* What the shell and the file system make of a line of one or two         *)
(* commands is what was written: words may be escaped or quoted in part,   *)
(* several spaces may stand between words and one at a separator or at the *)
(* end, and a comment may follow.                                          *)
ReadsCommands(first, sep, second, spaces, gap, tail) ==
    LET text == WrittenCommand(first, spaces)
                \o (IF sep = <<>> THEN <<>> ELSE gap \o sep \o gap)
                \o WrittenCommand(second, spaces) \o tail
        args(words) == [k \in DOMAIN words |-> Meant(words[k])]
        redir == IF sep = <<">", ">">> THEN "append_output"
                 ELSE IF sep = <<>> THEN "none" ELSE RedirOf(sep[1])
        cmd(words, r, b) == [args |-> args(words), redir |-> r, background |-> b]
    IN  /\ Parse(text) =
              <<cmd(first, redir, sep = <<"&">>)>>
              \o (IF second = <<>> THEN <<>> ELSE <<cmd(second, "none", FALSE)>>)
        /\ parseCommands(text) \in {args(first), Append(args(first), <<>>)}

(* The valid characters of a text, and the characters of all arguments.    *)
Letters(str) ==
    FlattenSeq([k \in DOMAIN str |-> IF isvalid(str[k]) THEN <<str[k]>> ELSE <<>>])

AllArgs(cmds) == FlattenSeq([k \in DOMAIN cmds |-> FlattenSeq(cmds[k].args)])

(* Every valid character of a line without a comment is in one argument,   *)
(* in the order of the line, whatever the quotation around it.             *)
KeepsLetters(text) ==
    "#" \notin ToSet(text) => Letters(AllArgs(lexer(text))) = Letters(text)
=============================================================================
