------------------------------ MODULE MCShell ------------------------------
(* Instances of Shell for TLC.                                             *)
EXTENDS Shell

(* `src` writes more than a pipe holds, `cat` reads to the end, `head`     *)
(* reads one piece, `one` writes one, `sleep` does neither.                *)
MCPrograms ==
    <<"src">>      :> [gives |-> 2, takes |-> 0]
    @@ <<"one">>   :> [gives |-> 1, takes |-> 0]
    @@ <<"cat">>   :> [gives |-> 0, takes |-> 9]
    @@ <<"head">>  :> [gives |-> 0, takes |-> 1]
    @@ <<"sleep">> :> [gives |-> 0, takes |-> 0]

MCHome == <<"home">>

(* Pipelines of two and three, two pipelines, background commands at the   *)
(* end and in the middle, redirections, a built-in before a pipe and at    *)
(* the end, a reader that leaves early, a program that does not exist,     *)
(* quit, a cd that returns and two that do not.                            *)
MCLines ==
    {<<"src", "|", "cat">>,
     <<"src", " ", "|", " ", "cat", "|", "'", "cat", "'", " ", "#", "|">>,
     <<"src", "|", "cat", ";", "one", "|", "cat">>,
     <<"sleep", "&", " ">>,
     <<"sleep", "&", "one", "|", "cat">>,
     <<"src", ">", "file", "|", "cat">>,
     <<"one", "|", "cat", ">", ">", "file", ";", "pause">>,
     <<"one", "|", "pause", "|", "cat", " ", "<", " ", "file">>,
     <<"one", "|", "head">>,
     <<"nothing", "|", "cat", "|">>,
     <<"sleep", "&", "quit">>,
     <<"cd", " ", "~", "file">>,
     <<"one", "|", "cat", "|", "cd">>,
     <<"sleep", "&", "cd", " ", "file", ";", "one">>}

(* Words that are written in all three ways. *)
Plain(char)   == [char |-> char, style |-> "plain"]
Escaped(char) == [char |-> char, style |-> "escaped"]
Quote(char)   == [char |-> char, style |-> "quoted"]

MCWords ==
    {<<Plain("a")>>}
    \cup {<<Plain("a"), Escaped(char)>> : char \in {"a", " ", ";", "\\"}}
    \cup {<<Quote(char), Plain("b")>> : char \in {"b", " ", ">", "'", "#"}}

MCCommands == {<<w>> : w \in MCWords} \cup (MCWords \X MCWords)

(* A command in full variety, followed by nothing or by a command of few   *)
(* words.                                                                  *)
MCSeconds == {<<w>> : w \in MCWords} \cup {<< <<Plain("c")>>, <<Quote(" "), Plain("c")>> >>}

(* A line is read as it was written (readme.md "Escape characters": "\ "   *)
(* can be used to escape the whitespace character), provided that every    *)
(* word has a plain letter: the lexer takes a space after a word without   *)
(* one for a repeated space and joins the next word to it.                 *)
LinesAreRead ==
    Init =>
        \A first \in MCCommands, spaces \in 1 .. 2,
           tail \in {<<>>, <<" ">>, <<" ", "#", ";", "a">>} :
            /\ ReadsCommands(first, <<>>, <<>>, spaces, <<>>, tail)
            /\ \A sep \in {<<";">>, <<"|">>, <<">">>, <<">", ">">>, <<"&">>},
                  second \in MCSeconds \cup {<<>>}, gap \in {<<>>, <<" ">>} :
                ReadsCommands(first, sep, second, spaces, gap, tail)

(* No valid character outside a comment is lost or moved, in any line up   *)
(* to this length: the passes over the characters after `>`, after `\` and *)
(* in a quotation take what they consume into a word or look at it again.  *)
LineLength == 5

NoLetterLost ==
    Init => \A text \in BoundedSeq({"a", "b", " ", ";", ">", "\\", "'", "<"}, LineLength) :
                KeepsLetters(text)
=============================================================================
