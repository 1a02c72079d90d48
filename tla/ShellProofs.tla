---------------------------- MODULE ShellProofs ----------------------------
(***************************************************************************)
(* What Shell promises for any lines, programs and size of a pipe:         *)
(*                                                                         *)
(*   - the lexer makes well-formed commands of every line (LexerResult),   *)
(*     and their arguments have the letters of the line (LettersAreKept);  *)
(*   - at the prompt the shell holds no pipe of a command that it forked,  *)
(*     and has reaped as many children as it counts (ShellInv);            *)
(*   - a command that reads to the end of its input gets what its left     *)
(*     neighbour wrote, and nothing else, on lines that satisfy            *)
(*     ForksItsPipes (PipeInv).                                            *)
(*                                                                         *)
(* The only other assumption is ShellAssumption of Shell.                  *)
(***************************************************************************)
EXTENDS Shell, SequenceTheorems, FiniteSetTheorems, TLAPS

PQ == INSTANCE PQueueProofs

----------------------------------------------------------------------------
(* The inductive invariants.                                               *)

(* Commands, processes and pipes have the names <<line, i>>.               *)
Pipe == Nat \X Nat
End  == Pipe \X {"read", "write"}

Proc ==
    [state : {"forked", "running", "zombie", "reaped"}, exe : Seq(Char),
     connected : BOOLEAN, in : Pipe, out : Pipe, open : SUBSET End,
     closes : SUBSET End, got : Nat, put : Nat, waited : BOOLEAN]

EndsOf(pipes) == UNION {Ends(pipe) : pipe \in pipes}

(* Names are given once, and every command has a name of a program.        *)
NameInv ==
    /\ child \in [DOMAIN child -> Proc]
    /\ buffer \in [DOMAIN buffer -> 0 .. PipeCapacity]
    /\ IsFiniteSet(DOMAIN child)
    /\ \A c \in DOMAIN child \cup DOMAIN buffer :
          /\ c \in (1 .. line) \X Nat
          /\ c[1] = line /\ pc = "loop" => c[2] < i
    /\ pc = "loop" => line > 0
    /\ \A k \in 1 .. Len(cmds) : cmds[k].args # <<>>

(* The pipes that the shell made for a built-in, which it never closes.    *)
Lost == DOMAIN buffer \ DOMAIN child

(* While the line is run the shell also holds the pipes of prev_pipe, each *)
(* of a command that was forked.                                           *)
HeldInv ==
    /\ prev_pipe \in Seq(DOMAIN child)
    /\ pc = "loop" => held = EndsOf(Lost \cup ToSet(prev_pipe))
    /\ pc \in {"wait", "prompt"} => held = EndsOf(Lost)

(* The commands of the line from a to b that the loop of waits counts.     *)
Counted(a, b) == {k \in a .. b : \A m \in 1 .. k : ~cmds[m].background}

Unwaited == {c \in DOMAIN child : ~child[c].waited}

(* There are no more children than those left out by the loops of waits    *)
(* and the waits that are still to come.                                   *)
WaitInv ==
    /\ pc = "loop" =>
          Cardinality(Unreaped) =< Cardinality(Unwaited) + Cardinality(Counted(1, i - 1))
    /\ pc = "wait" =>
          /\ Cardinality(Unreaped) =< Cardinality(Unwaited) + Cardinality(Counted(i, Len(cmds)))
          /\ \A m \in 1 .. i - 1 : ~cmds[m].background

ShellInv == TypeOK /\ NameInv /\ HeldInv /\ WaitInv /\ ChildrenAtPrompt

(* Lines in which a command before a `|` is forked, unless it is the first *)
(* such command: it is no built-in of the shell and not the file of a      *)
(* redirection. Behind a pipe, the reader of such a command would read     *)
(* from that pipe.                                                         *)
ForksItsPipes(text) ==
    \A k \in DOMAIN Parse(text) : \A m \in 1 .. k - 1 :
        Parse(text)[k].redir = "pipe" /\ Parse(text)[m].redir = "pipe" =>
            /\ Parse(text)[k].args[1] \notin is_parent
            /\ Parse(text)[k - 1].redir \notin outputs

left(c)  == <<c[1], c[2] - 1>>
right(c) == <<c[1], c[2] + 1>>

(* prev_pipe holds the pipes of forked commands of the line; the last one  *)
(* is that of the command before, or there is none.                        *)
LineInv ==
    /\ cmds = <<>> \/ \E text \in Lines : cmds = Parse(text)
    /\ pc = "loop" /\ skip_cmd => i > 1 /\ cmds[i - 1].redir \in outputs
    /\ pc = "loop" => \A pipe \in ToSet(prev_pipe) : pipe[2] < i /\ cmds[pipe[2]].redir = "pipe"
    /\ pc = "loop" /\ i > 1 /\ cmds[i - 1].redir = "pipe" =>
          IF <<line, i - 1>> \in DOMAIN child
          THEN prev_pipe # <<>> /\ Last(prev_pipe) = <<line, i - 1>>
          ELSE prev_pipe = <<>>

(* A pipe connects its command with the next one only.                     *)
ConnectedInv ==
    \A c \in DOMAIN child :
        /\ c[2] # 0 /\ child[c].out \in {c, Terminal, File}
        /\ child[c].out = c => c \in DOMAIN buffer
        /\ c[1] = line =>
              (child[c].out = c <=> c[2] < Len(cmds) /\ cmds[c[2]].redir = "pipe")
        /\ IF child[c].connected /\ left(c) \in DOMAIN child
           THEN child[c].in = left(c) /\ child[left(c)].out = left(c)
           ELSE child[c].in = Terminal
        /\ child[c].out = c /\ right(c) \in DOMAIN child => child[right(c)].connected

(* A process that writes to a pipe keeps it open until it ends.            *)
WriterInv ==
    \A c \in Running : child[c].out = c =>
        <<c, "write">> \in child[c].open /\ <<c, "write">> \notin child[c].closes

(* What was written to a pipe is in it or was read.                        *)
FlowInv ==
    \A c \in DOMAIN child : child[c].out = c =>
        child[c].put = buffer[c] + (IF right(c) \in DOMAIN child THEN child[right(c)].got ELSE 0)

(* A reader that saw the end of its input left nothing behind.             *)
EndInv ==
    \A c \in Ended :
        child[c].connected /\ left(c) \in DOMAIN child /\ child[c].got < Behaviour(c).takes =>
            left(c) \in Ended /\ buffer[left(c)] = 0

PipeInv == LineInv /\ ConnectedInv /\ WriterInv /\ FlowInv /\ EndInv

(* The lexer is a pass from left to right: the recursive function in the   *)
(* definition of FoldLeft exists, and its values on 1 .. k are the states  *)
(* of the lexer after k characters.                                        *)
LEMMA LexerPass ==
  ASSUME NEW text \in Seq(STRING \ {NUL})
  PROVE  \E g : /\ g[0] = Begin
                /\ \A k \in 1 .. Len(text) : g[k] = Character(g[k - 1], text[k])
                /\ FoldLeft(Character, Begin, text) = g[Len(text)]
<1> DEFINE N == Len(text)
           Step(x, k) == Character(x, text[k])
           Value(f, s) == IF s = {} THEN Begin ELSE Step(f[s \ {Max(s)}], Max(s))
           Folds(f, m) == f = [s \in SUBSET (1 .. m) |-> Value(f, s)]
           Folded == {m \in 0 .. N : \E f : Folds(f, m)}
<1>1. N \in Nat /\ DOMAIN text = 1 .. N
  BY LenProperties
<1>2. FoldLeft(Character, Begin, text) = (CHOOSE f : Folds(f, N))[1 .. N]
  BY <1>1, Zenon DEF FoldLeft, MapThenFoldSet
<1> HIDE DEF N, Step
<1>3. \A m \in Nat : \A s \in SUBSET (1 .. m + 1) :
        m + 1 \in s => Max(s) = m + 1 /\ s \ {Max(s)} \in SUBSET (1 .. m)
  <2>1. ASSUME NEW m \in Nat, NEW s \in SUBSET (1 .. m + 1), m + 1 \in s
        PROVE  Max(s) = m + 1 /\ s \ {Max(s)} \in SUBSET (1 .. m)
    <3>1. \A y \in s : m + 1 >= y
      OBVIOUS
    <3>2. Max(s) \in s /\ \A y \in s : Max(s) >= y
      BY <2>1, <3>1, Zenon DEF Max
    <3>3. Max(s) = m + 1
      <4>1. PICK x \in s : x = Max(s)
        BY <3>2
      <4>2. x \in 1 .. m + 1 /\ x >= m + 1
        BY <2>1, <3>2, <4>1
      <4> QED
        BY <4>1, <4>2
    <3> QED
      BY <3>3
  <2> QED
    BY <2>1
<1>4. 0 \in Folded
  <2> DEFINE f == [s \in SUBSET (1 .. 0) |-> Begin]
  <2>1. \A s \in SUBSET (1 .. 0) : s = {}
    OBVIOUS
  <2>2. Folds(f, 0)
    BY <2>1, Zenon
  <2> HIDE DEF Folds, f
  <2> QED
    BY <1>1, <2>2
<1>5. ASSUME NEW m \in 0 .. N, m \in Folded, m < N PROVE m + 1 \in Folded
  <2>1. PICK f : Folds(f, m)
    BY <1>5
  <2>2. m \in Nat /\ m + 1 \in 0 .. N
    BY <1>1, <1>5
  <2> DEFINE h == [s \in SUBSET (1 .. m + 1) |->
                     IF m + 1 \in s THEN Step(f[s \ {Max(s)}], Max(s)) ELSE f[s]]
  <2>3. \A s \in SUBSET (1 .. m + 1) : m + 1 \notin s => s \in SUBSET (1 .. m)
    BY <2>2
  <2>4. ASSUME NEW s \in SUBSET (1 .. m), s # {} PROVE s \ {Max(s)} \in SUBSET (1 .. m)
    OBVIOUS
  <2>5. \A s \in SUBSET (1 .. m) : m + 1 \notin s /\ s \in SUBSET (1 .. m + 1) /\ h[s] = f[s]
    BY <2>2
  <2>6. ASSUME NEW s \in SUBSET (1 .. m + 1) PROVE h[s] = Value(h, s)
    <3>1. CASE m + 1 \in s
      <4>1. Max(s) = m + 1 /\ s \ {Max(s)} \in SUBSET (1 .. m) /\ s # {}
        BY <1>3, <2>2, <3>1
      <4>2. h[s \ {Max(s)}] = f[s \ {Max(s)}]
        BY <2>5, <4>1
      <4> QED
        BY <3>1, <4>1, <4>2
    <3>2. CASE m + 1 \notin s
      <4>1. s \in SUBSET (1 .. m) /\ h[s] = f[s]
        BY <2>3, <2>5, <3>2
      <4>2. f[s] = Value(f, s)
        BY <2>1, <4>1
      <4>3. s # {} => h[s \ {Max(s)}] = f[s \ {Max(s)}]
        BY <2>4, <2>5, <4>1
      <4> QED
        BY <4>1, <4>2, <4>3
    <3> QED
      BY <3>1, <3>2
  <2>7. Folds(h, m + 1)
    <3> HIDE DEF Value
    <3> QED
      BY <2>6, Zenon
  <2> HIDE DEF Folds, h
  <2> QED
    BY <2>2, <2>7
<1>6. \E f : Folds(f, N)
  <2> HIDE DEF Folds
  <2>1. \A m \in 0 .. N : m \in Folded
    <3> HIDE DEF Folded
    <3> QED
      BY <1>1, <1>4, <1>5, PQ!IntervalInduction
  <2> QED
    BY <1>1, <2>1
<1>7. PICK f : Folds(f, N) /\ FoldLeft(Character, Begin, text) = f[1 .. N]
  <2> HIDE DEF Folds
  <2> QED
    BY <1>2, <1>6
<1> DEFINE g == [k \in 0 .. N |-> f[1 .. k]]
<1>8. g[0] = Begin
  BY <1>1, <1>7
<1>9. ASSUME NEW k \in 1 .. N PROVE g[k] = Step(g[k - 1], k)
  <2>1. PICK n \in Nat : k = n + 1 /\ k - 1 = n /\ k - 1 \in 0 .. N
    BY <1>1
  <2>2. k \in 1 .. k /\ 1 .. k \in SUBSET (1 .. n + 1) /\ (1 .. k) \ {k} = 1 .. n
    BY <2>1
  <2>3. 1 .. k \in SUBSET (1 .. N) /\ 1 .. k # {}
    <3>1. \A j \in 1 .. k : j \in 1 .. N
      BY <1>1
    <3> QED
      BY <2>2, <3>1
  <2>4. Max(1 .. k) = k
    BY <1>3, <2>1, <2>2
  <2>5. f[1 .. k] = Step(f[1 .. n], k)
    BY <1>7, <2>2, <2>3, <2>4
  <2> QED
    BY <1>1, <2>1, <2>5
<1>10. FoldLeft(Character, Begin, text) = g[N]
  <2>1. N \in 0 .. N
    BY <1>1
  <2> HIDE DEF Folds
  <2> QED
    BY <1>7, <2>1
<1> QED
  BY <1>8, <1>9, <1>10 DEF N, Step

(* The lexer always has a command in hand, and that command an argument;   *)
(* after a `>` there is the command that it ended as well.                 *)
Modes == {"plain", "redirect", "escape", "quote", "quoteEscape", "comment"}

LexInv(lex) ==
    /\ lex \in [cmds : Seq(Command), mode : Modes, ignorespace : BOOLEAN]
    /\ lex.cmds # <<>> /\ Last(lex.cmds).args # <<>>
    /\ lex.mode = "redirect" => Len(lex.cmds) >= 2

(* The last element, the elements before it, and a sequence with another   *)
(* element in one place.                                                   *)
LEMMA LastProperties ==
  ASSUME NEW S, NEW s \in Seq(S), s # <<>>
  PROVE  /\ Len(s) \in Nat \ {0} /\ Last(s) = s[Len(s)] /\ Last(s) \in S
         /\ Front(s) \in Seq(S) /\ Len(Front(s)) = Len(s) - 1
         /\ \A k \in 1 .. Len(s) - 1 : Front(s)[k] = s[k]
<1>1. Len(s) \in Nat \ {0} /\ Last(s) = s[Len(s)]
  BY EmptySeq, LenProperties DEF Last
<1>2. Last(s) \in S
  BY <1>1, ElementOfSeq
<1>3. /\ Front(s) \in Seq(S) /\ Len(Front(s)) = Len(s) - 1
      /\ \A k \in 1 .. Len(s) - 1 : Front(s)[k] = s[k]
  <2>0. PICK n \in Nat : n = Len(s) - 1
    BY <1>1
  <2>1. \A k \in 1 .. n : s[k] \in S
    BY <1>1, <2>0, ElementOfSeq
  <2>2. /\ SubSeq(s, 1, n) \in Seq(S) /\ Len(SubSeq(s, 1, n)) = (IF 1 =< n THEN n - 1 + 1 ELSE 0)
        /\ \A k \in 1 .. n - 1 + 1 : SubSeq(s, 1, n)[k] = s[1 + k - 1]
    BY <2>1, SubSeqProperties
  <2> QED
    BY <2>0, <2>1, <2>2 DEF Front
<1> QED
  BY <1>1, <1>2, <1>3

(* A sequence with another element in one place.                           *)
LEMMA ExceptProperties ==
  ASSUME NEW S, NEW s \in Seq(S), NEW k \in 1 .. Len(s), NEW x \in S,
         NEW t, t = [s EXCEPT ![k] = x]
  PROVE  /\ t \in Seq(S) /\ t # <<>> /\ Len(t) = Len(s)
         /\ Last(t) = IF k = Len(s) THEN x ELSE Last(s)
<1>1. t \in Seq(S) /\ Len(t) = Len(s) /\ \A j \in 1 .. Len(s) : t[j] = IF j = k THEN x ELSE s[j]
  BY ExceptSeq
<1>2. Len(s) \in 1 .. Len(s)
  BY LenProperties
<1>3. Last(t) = t[Len(s)] /\ Last(s) = s[Len(s)]
  BY <1>1 DEF Last
<1>4. t # <<>>
  BY ONLY <1>1, <1>2
<1>5. Last(t) = IF k = Len(s) THEN x ELSE Last(s)
  BY ONLY <1>1, <1>2, <1>3, k \in 1 .. Len(s)
<1> QED
  BY <1>1, <1>4, <1>5

(* A command without an empty last argument.                               *)
LEMMA ArgumentsKept ==
  ASSUME NEW args \in Seq(Seq(Char))
  PROVE  /\ Len(args) \in Nat
         /\ args # <<>> => WithoutEmptyLast(args) \in Seq(Seq(Char))
         /\ \A arg \in Seq(Char) :
              Append(args, arg) \in Seq(Seq(Char)) /\ Append(args, arg) # <<>>
<1> DEFINE Word == Seq(Char)
<1>1. args \in Seq(Word)
  OBVIOUS
<1> HIDE DEF Word
<1>2. args # <<>> => WithoutEmptyLast(args) \in Seq(Word)
  BY <1>1, LastProperties DEF WithoutEmptyLast
<1>3. \A arg \in Word : Append(args, arg) \in Seq(Word) /\ Append(args, arg) # <<>>
  BY <1>1, AppendProperties
<1>4. Len(args) \in Nat
  BY <1>1, LenProperties
<1> QED
  BY <1>2, <1>3, <1>4 DEF Word

(* Another command in hand.                                                *)
LEMMA SetCommandKeeps ==
  ASSUME NEW lex, LexInv(lex), NEW cmd \in Command, cmd.args # <<>>
  PROVE  LexInv(SetCommand(lex, cmd)) /\ SetCommand(lex, cmd).mode = lex.mode
         /\ SetCommand(lex, cmd).cmds # <<>>
<1>1. /\ lex.cmds \in Seq(Command) /\ lex.cmds # <<>> /\ Last(lex.cmds).args # <<>>
      /\ lex \in [cmds : Seq(Command), mode : Modes, ignorespace : BOOLEAN]
  BY DEF LexInv
<1>2. PICK n \in 1 .. Len(lex.cmds) : n = Len(lex.cmds)
  BY <1>1, LastProperties
<1>3. PICK s : s = [lex.cmds EXCEPT ![n] = cmd]
  OBVIOUS
<1>4. s \in Seq(Command) /\ s # <<>> /\ Len(s) = n /\ Last(s) = cmd
  BY <1>1, <1>2, <1>3, ExceptProperties
<1>5. SetCommand(lex, cmd) = [lex EXCEPT !.cmds = s]
  BY <1>2, <1>3 DEF SetCommand
<1> HIDE DEF Command
<1> QED
  BY <1>1, <1>2, <1>4, <1>5 DEF LexInv

(* Another mode, or another ignorespace.                                   *)
LEMMA ModeKeeps ==
  ASSUME NEW lex, LexInv(lex)
  PROVE  /\ \A m \in Modes \ {"redirect"} : LexInv([lex EXCEPT !.mode = m])
         /\ \A b \in BOOLEAN : LexInv([lex EXCEPT !.ignorespace = b])
  BY DEF LexInv

(* What the command in hand is.                                            *)
LEMMA CommandInHand ==
  ASSUME NEW lex, LexInv(lex)
  PROVE  /\ curCmd(lex) \in Command /\ curCmd(lex).args # <<>>
         /\ curCmd(lex).args \in Seq(Seq(Char))
<1>1. lex.cmds \in Seq(Command) /\ lex.cmds # <<>> /\ Last(lex.cmds).args # <<>>
  BY DEF LexInv
<1>2. Last(lex.cmds) \in Command
  BY <1>1, LastProperties
<1> QED
  BY <1>1, <1>2 DEF curCmd, Command

(* A letter, plain, escaped or quoted, and the NUL behind the line.        *)
LEMMA AddLetterKeeps ==
  ASSUME NEW lex, LexInv(lex), NEW cur \in Char
  PROVE  LexInv(AddLetter(lex, cur)) /\ AddLetter(lex, cur).mode = lex.mode
<1> DEFINE Word == Seq(Char)
<1>1. PICK cmd \in Command : cmd = curCmd(lex) /\ cmd.args # <<>> /\ cmd.args \in Seq(Word)
  BY CommandInHand
<1>2. \A word \in Word : Append(word, cur) \in Word
  BY AppendProperties
<1> HIDE DEF Word
<1>3. PICK n \in 1 .. Len(cmd.args) : n = Len(cmd.args)
  BY <1>1, LastProperties
<1>4. cmd.args[n] \in Word
  BY <1>1, <1>3, ElementOfSeq
<1>5. PICK args : args = [cmd.args EXCEPT ![n] = Append(@, cur)]
  OBVIOUS
<1>6. args \in Seq(Word) /\ args # <<>>
  BY <1>1, <1>2, <1>3, <1>4, <1>5, ExceptProperties
<1>7. [cmd EXCEPT !.args = args] \in Command /\ [cmd EXCEPT !.args = args].args # <<>>
  BY <1>1, <1>6 DEF Command, Word
<1>8. AddLetter(lex, cur) = SetCommand(lex, [cmd EXCEPT !.args = args])
  BY <1>1, <1>3, <1>5 DEF AddLetter
<1> QED
  BY <1>7, <1>8, SetCommandKeeps

(* A space ends an argument, if it is not one of several.                  *)
LEMMA AddArgumentKeeps ==
  ASSUME NEW lex, LexInv(lex), lex.mode # "redirect"
  PROVE  LexInv(AddArgument(lex))
<1>1. PICK cmd \in Command : cmd = curCmd(lex) /\ cmd.args # <<>> /\ cmd.args \in Seq(Seq(Char))
  BY CommandInHand
<1>2. <<>> \in Seq(Char)
  BY EmptySeq
<1>3. PICK args \in Seq(Seq(Char)) : args = Append(cmd.args, <<>>) /\ args # <<>>
  BY <1>1, <1>2, ArgumentsKept
<1>4. [cmd EXCEPT !.args = args] \in Command /\ [cmd EXCEPT !.args = args].args # <<>>
  BY <1>1, <1>3 DEF Command
<1>5. PICK x : x = SetCommand(lex, [cmd EXCEPT !.args = args])
  OBVIOUS
<1>6. LexInv(x) /\ AddArgument(lex) = [x EXCEPT !.ignorespace = TRUE]
  BY <1>1, <1>3, <1>4, <1>5, SetCommandKeeps DEF AddArgument
<1> QED
  BY <1>6, ModeKeeps DEF Modes

(* A separator ends a command and begins the next.                         *)
LEMMA EndCommandKeeps ==
  ASSUME NEW lex, LexInv(lex), NEW cur \in Char
  PROVE  LexInv(EndCommand(lex, cur))
<1>1. PICK cmd \in Command : cmd = curCmd(lex) /\ cmd.args # <<>> /\ cmd.args \in Seq(Seq(Char))
  BY CommandInHand
<1>2. PICK args \in Seq(Seq(Char)) : args = WithoutEmptyLast(cmd.args)
  BY <1>1, ArgumentsKept
<1>3. RedirOf(cur) \in redirection
  BY DEF RedirOf, redirection
<1>4. PICK ended \in Command :
        ended = [cmd EXCEPT !.args = args, !.redir = RedirOf(cur), !.background = (cur = "&")]
  BY <1>1, <1>2, <1>3 DEF Command
<1>5. NoCommand \in Command /\ NoCommand.args # <<>>
  <2>1. << <<>> >> \in Seq(Seq(Char)) /\ << <<>> >> # <<>>
    BY EmptySeq
  <2> QED
    BY <2>1 DEF NoCommand, Command, redirection
<1> HIDE DEF Command
<1>6. PICK f \in Seq(Command) : f = Front(lex.cmds)
  BY LastProperties DEF LexInv
<1>7. PICK s : s = Append(f, ended) \o <<NoCommand>>
  OBVIOUS
<1>8. s \in Seq(Command) /\ s # <<>> /\ Len(s) >= 2 /\ Last(s) = NoCommand
  <2>1. PICK t \in Seq(Command) : t = Append(f, ended) /\ Len(t) \in Nat \ {0}
    <3>1. Append(f, ended) \in Seq(Command) /\ Len(Append(f, ended)) = Len(f) + 1
      BY <1>6, AppendProperties
    <3>2. Len(f) \in Nat
      BY <1>6, LenProperties
    <3>3. Len(Append(f, ended)) \in Nat \ {0}
      BY <3>1, <3>2
    <3> QED
      BY <3>1, <3>3, Zenon
  <2>2. s = Append(t, NoCommand)
    BY <1>5, <1>7, <2>1, AppendIsConcat
  <2>3. s \in Seq(Command) /\ s # <<>> /\ Len(s) = Len(t) + 1 /\ s[Len(t) + 1] = NoCommand
    BY <1>5, <2>1, <2>2, AppendProperties
  <2> QED
    BY <2>1, <2>3 DEF Last
<1>9. EndCommand(lex, cur) =
        [cmds |-> s, mode |-> IF cur = ">" THEN "redirect" ELSE "plain", ignorespace |-> TRUE]
  BY <1>1, <1>2, <1>4, <1>6, <1>7 DEF EndCommand
<1> QED
  BY <1>5, <1>8, <1>9 DEF LexInv, Modes

(* A character outside of a quotation, a comment and an escape.            *)
LEMMA PlainCharacterKeeps ==
  ASSUME NEW lex, LexInv(lex), lex.mode # "redirect", NEW cur \in STRING \ {NUL}
  PROVE  LexInv(PlainCharacter(lex, cur))
<1>1. CASE isvalid(cur)
  <2>1. PICK x : x = AddLetter(lex, cur) /\ LexInv(x)
    BY AddLetterKeeps DEF Char
  <2>2. PlainCharacter(lex, cur) = [x EXCEPT !.ignorespace = FALSE]
    BY <1>1, <2>1 DEF PlainCharacter, isvalid
  <2> QED
    BY <2>1, <2>2, ModeKeeps DEF Modes
<1>2. CASE cur = " "
  BY <1>2, AddArgumentKeeps DEF PlainCharacter, isvalid, Separators, Quoting, Dropped
<1>3. CASE cur \in Separators
  BY <1>3, EndCommandKeeps DEF Char, PlainCharacter, isvalid, Separators, Quoting, Dropped
<1>4. CASE cur \in Quoting
  <2>1. PlainCharacter(lex, cur) = [lex EXCEPT !.mode = ModeAfter(cur)]
    BY <1>4 DEF PlainCharacter, isvalid, Separators, Quoting, Dropped
  <2>2. ModeAfter(cur) \in Modes \ {"redirect"}
    BY <1>4 DEF ModeAfter, Quoting, Modes
  <2> QED
    BY <2>1, <2>2, ModeKeeps
<1>5. CASE cur \in Dropped
  BY <1>5 DEF PlainCharacter, isvalid, Separators, Quoting, Dropped
<1> QED
  BY <1>1, <1>2, <1>3, <1>4, <1>5 DEF isvalid

(* A character in a quotation.                                             *)
LEMMA QuotedCharacterKeeps ==
  ASSUME NEW lex, LexInv(lex), lex.mode \in {"quote", "quoteEscape"}, NEW cur \in Char
  PROVE  LexInv(QuotedCharacter(lex, cur))
<1>1. CASE cur = "'" /\ lex.mode = "quote"
  BY <1>1, ModeKeeps DEF QuotedCharacter, Modes
<1>2. CASE cur = "\\"
  <2>1. PICK m \in Modes \ {"redirect"} : m = IF lex.mode = "quote" THEN "quoteEscape" ELSE "quote"
    BY DEF Modes
  <2>2. QuotedCharacter(lex, cur) = [lex EXCEPT !.mode = m]
    BY <1>2, <2>1 DEF QuotedCharacter
  <2> QED
    BY <2>1, <2>2, ModeKeeps
<1>3. CASE ~(cur = "'" /\ lex.mode = "quote") /\ cur # "\\"
  <2>1. PICK x : x = AddLetter(lex, cur) /\ LexInv(x)
    BY AddLetterKeeps DEF Char
  <2>2. QuotedCharacter(lex, cur) = [x EXCEPT !.mode = "quote"]
    BY <1>3, <2>1 DEF QuotedCharacter
  <2> QED
    BY <2>1, <2>2, ModeKeeps DEF Modes
<1> QED
  BY <1>1, <1>2, <1>3

(* A `>` behind a `>` changes the command before the one in hand.          *)
LEMMA RedirectedKeeps ==
  ASSUME NEW lex, LexInv(lex), lex.mode = "redirect", NEW cur \in STRING \ {NUL}
  PROVE  LexInv(Redirected(lex, cur))
<1>1. LexInv([lex EXCEPT !.mode = "plain"]) /\ [lex EXCEPT !.mode = "plain"].mode = "plain"
  BY ModeKeeps DEF Modes, LexInv
<1>2. CASE cur = ">"
  <2>1. PICK c \in Seq(Command) : c = lex.cmds /\ c # <<>> /\ Len(c) >= 2 /\ Last(c).args # <<>>
    BY DEF LexInv
  <2>2. PICK n \in 1 .. Len(c) : n = Len(c) - 1 /\ n # Len(c)
    <3>1. Len(c) \in Nat /\ Len(c) >= 2
      BY <2>1, LenProperties
    <3>2. Len(c) - 1 \in 1 .. Len(c) /\ Len(c) - 1 # Len(c)
      BY ONLY <3>1
    <3> QED
      BY <3>2
  <2>3. c[n] \in Command
    BY <2>1, <2>2, ElementOfSeq
  <2>4. PICK cmd \in Command : cmd = [c[n] EXCEPT !.redir = "append_output"]
    BY <2>3 DEF Command, redirection
  <2>5. PICK s : s = [c EXCEPT ![n] = cmd]
    OBVIOUS
  <2>6. s \in Seq(Command) /\ s # <<>> /\ Last(s) = Last(c)
    <3>1. /\ s \in Seq(Command) /\ Len(s) = Len(c)
          /\ \A j \in 1 .. Len(c) : s[j] = IF j = n THEN cmd ELSE c[j]
      BY <2>1, <2>2, <2>4, <2>5, ExceptSeq
    <3>2. Len(c) \in 1 .. Len(c) /\ n # Len(c) /\ s # <<>>
      BY <2>1, <2>2, <3>1, LastProperties
    <3> QED
      BY <3>1, <3>2 DEF Last
  <2>7. Redirected(lex, cur) = [lex EXCEPT !.mode = "plain", !.cmds = s]
    BY <1>2, <2>1, <2>2, <2>4, <2>5 DEF Redirected
  <2> QED
    BY <2>1, <2>6, <2>7 DEF LexInv, Modes
<1>3. CASE cur # ">"
  BY <1>1, <1>3, PlainCharacterKeeps DEF Redirected
<1> QED
  BY <1>2, <1>3

(* A turn of the loop over the characters.                                 *)
LEMMA CharacterKeeps ==
  ASSUME NEW lex, LexInv(lex), NEW cur \in STRING \ {NUL}
  PROVE  LexInv(Character(lex, cur))
<1>1. CASE lex.mode = "plain"
  BY <1>1, PlainCharacterKeeps DEF Character
<1>2. CASE lex.mode = "redirect"
  BY <1>2, RedirectedKeeps DEF Character
<1>3. CASE lex.mode = "escape"
  <2>1. PICK x : x = AddLetter(lex, cur) /\ LexInv(x)
    BY AddLetterKeeps DEF Char
  <2>2. Character(lex, cur) = [x EXCEPT !.mode = "plain"]
    BY <1>3, <2>1 DEF Character
  <2> QED
    BY <2>1, <2>2, ModeKeeps DEF Modes
<1>4. CASE lex.mode = "comment"
  <2>1. PICK m \in Modes \ {"redirect"} : m = IF cur = "#" THEN "plain" ELSE lex.mode
    BY <1>4 DEF Modes
  <2>2. Character(lex, cur) = [lex EXCEPT !.mode = m]
    BY <1>4, <2>1 DEF Character
  <2> QED
    BY <2>1, <2>2, ModeKeeps
<1>5. CASE lex.mode \in {"quote", "quoteEscape"}
  BY <1>5, QuotedCharacterKeeps DEF Character, Char
<1> QED
  BY <1>1, <1>2, <1>3, <1>4, <1>5 DEF LexInv, Modes

(* The lexer begins with a command that has an empty argument.             *)
LEMMA BeginKeeps ==
  LexInv(Begin)
<1>1. << <<>> >> \in Seq(Seq(Char)) /\ << <<>> >> # <<>>
  BY EmptySeq
<1>2. NoCommand \in Command /\ NoCommand.args # <<>>
  BY <1>1 DEF NoCommand, Command, redirection
<1>3. <<NoCommand>> \in Seq(Command) /\ Last(<<NoCommand>>) = NoCommand
  BY <1>2 DEF Last
<1> QED
  BY <1>2, <1>3 DEF Begin, LexInv, Modes

(* Whatever the user enters, the lexer ends with commands of the right     *)
(* form, the last of which has an argument.                                *)
THEOREM LexerResult ==
  ASSUME NEW text \in Seq(STRING \ {NUL})
  PROVE  /\ lexer(text) \in Seq(Command) /\ lexer(text) # <<>>
         /\ Last(lexer(text)).args # <<>>
<1> DEFINE lex == FoldLeft(Character, Begin, text)
<1>1. Len(text) \in Nat /\ \A k \in 1 .. Len(text) : text[k] \in STRING \ {NUL}
  BY ElementOfSeq, LenProperties
<1>2. PICK g : /\ g[0] = Begin
               /\ \A k \in 1 .. Len(text) : g[k] = Character(g[k - 1], text[k])
               /\ lex = g[Len(text)]
  BY <1>1, LexerPass
<1> HIDE DEF lex
<1> DEFINE Good == {k \in 0 .. Len(text) : LexInv(g[k])}
<1>3. LexInv(Begin)
  BY BeginKeeps
<1>4. 0 \in Good
  BY <1>1, <1>2, <1>3
<1>5. ASSUME NEW k \in 0 .. Len(text), k \in Good, k < Len(text) PROVE k + 1 \in Good
  <2>1. k + 1 \in 1 .. Len(text) /\ (k + 1) - 1 = k
    BY <1>1, <1>5
  <2>2. g[k + 1] = Character(g[k], text[k + 1])
    BY <1>2, <2>1
  <2>3. LexInv(g[k + 1])
    BY <1>1, <1>5, <2>1, <2>2, CharacterKeeps
  <2> QED
    BY <2>1, <2>3
<1>6. \A k \in 0 .. Len(text) : k \in Good
  <2> HIDE DEF Good
  <2> QED
    BY <1>1, <1>4, <1>5, PQ!IntervalInduction
<1>7. LexInv(lex)
  BY <1>1, <1>2, <1>6
<1>8. lexer(text) = IF lex.mode = "escape" THEN AddLetter(lex, NUL).cmds ELSE lex.cmds
  BY DEF lexer, lex
<1>9. LexInv(AddLetter(lex, NUL))
  BY <1>7, AddLetterKeeps DEF Char
<1> QED
  BY <1>7, <1>8, <1>9 DEF LexInv

(* FlattenSeq is the one that the lemmas of PQueueProofs are about.        *)
LEMMA FlattenSame ==
  \A seqs : FlattenSeq(seqs) = PQ!FlattenSeq(seqs)
  BY DEF FlattenSeq, PQ!FlattenSeq

LEMMA FlattenAppend ==
  ASSUME NEW S, NEW seqs \in Seq(Seq(S)), NEW s \in Seq(S)
  PROVE  /\ FlattenSeq(seqs) \in Seq(S)
         /\ FlattenSeq(Append(seqs, s)) = FlattenSeq(seqs) \o s
  BY FlattenSame, PQ!FlattenAppend

(* The letters of a text that grows by a character.                        *)
LEMMA LettersGrow ==
  /\ Letters(<<>>) = <<>>
  /\ \A str \in Seq(Char), cur \in Char :
        Letters(Append(str, cur)) =
            IF isvalid(cur) THEN Append(Letters(str), cur) ELSE Letters(str)
<1> DEFINE Kept(cur) == IF isvalid(cur) THEN <<cur>> ELSE <<>>
           All(str) == [k \in DOMAIN str |-> Kept(str[k])]
<1>1. Letters(<<>>) = <<>>
  <2>1. All(<<>>) = <<>> /\ FlattenSeq(<<>>) = <<>>
    BY FlattenSame, PQ!FlattenShort
  <2> QED
    BY <2>1 DEF Letters
<1>2. \A cur \in Char : Kept(cur) \in Seq(Char)
  BY EmptySeq
<1>3. ASSUME NEW str \in Seq(Char), NEW cur \in Char
      PROVE  Letters(Append(str, cur)) =
                IF isvalid(cur) THEN Append(Letters(str), cur) ELSE Letters(str)
  <2> DEFINE more == Append(str, cur)
             N == Len(str)
  <2>1. N \in Nat /\ DOMAIN str = 1 .. N /\ \A k \in 1 .. N : str[k] \in Char
    BY LenProperties, ElementOfSeq
  <2>2. /\ more \in Seq(Char) /\ DOMAIN more = 1 .. N + 1
        /\ \A k \in 1 .. N : more[k] = str[k]
        /\ more[N + 1] = cur
    BY AppendProperties, LenProperties
  <2>3. Letters(str) = FlattenSeq(All(str)) /\ Letters(more) = FlattenSeq(All(more))
    BY DEF Letters
  <2> HIDE DEF Kept, more, N
  <2>4. /\ All(str) \in Seq(Seq(Char)) /\ Len(All(str)) = N
        /\ \A k \in 1 .. N : All(str)[k] = Kept(str[k])
    BY <1>2, <2>1
  <2>5. All(more) = Append(All(str), Kept(cur))
    <3>1. /\ Append(All(str), Kept(cur)) \in Seq(Seq(Char))
          /\ Len(Append(All(str), Kept(cur))) = N + 1
          /\ \A k \in 1 .. N : Append(All(str), Kept(cur))[k] = All(str)[k]
          /\ Append(All(str), Kept(cur))[N + 1] = Kept(cur)
      BY <1>2, <2>4, AppendProperties
    <3>2. /\ All(more) \in Seq(Seq(Char)) /\ Len(All(more)) = N + 1
          /\ \A k \in 1 .. N : All(more)[k] = Kept(str[k])
          /\ All(more)[N + 1] = Kept(cur)
      BY <1>2, <2>1, <2>2
    <3> HIDE DEF All
    <3>3. \A k \in 1 .. N + 1 : All(more)[k] = Append(All(str), Kept(cur))[k]
      <4>1. \A k \in 1 .. N + 1 : k \in 1 .. N \/ k = N + 1
        BY <2>1
      <4> QED
        BY <2>4, <3>1, <3>2, <4>1
    <3> QED
      BY <3>1, <3>2, <3>3, SeqEqual
  <2>6. FlattenSeq(All(str)) \in Seq(Char)
        /\ FlattenSeq(All(more)) = FlattenSeq(All(str)) \o Kept(cur)
    <3> HIDE DEF All
    <3> QED
      BY <1>2, <2>4, <2>5, FlattenAppend
  <2>7. Kept(cur) = IF isvalid(cur) THEN <<cur>> ELSE <<>>
    BY DEF Kept
  <2> HIDE DEF All
  <2> DEFINE kept == FlattenSeq(All(str))
  <2>8. kept \in Seq(Char) /\ kept \o <<>> = kept /\ kept \o <<cur>> = Append(kept, cur)
    BY <2>6, ConcatEmptySeq, AppendIsConcat
  <2> QED
    BY <2>3, <2>6, <2>7, <2>8 DEF more
<1> QED
  BY <1>1, <1>3

(* A sequence is what is in front of its last element, and that element.   *)
LEMMA FrontAndLast ==
  ASSUME NEW S, NEW s \in Seq(S), s # <<>>
  PROVE  s = Append(Front(s), Last(s))
<1>1. /\ Len(s) \in Nat \ {0} /\ Last(s) = s[Len(s)] /\ Last(s) \in S
      /\ Front(s) \in Seq(S) /\ Len(Front(s)) = Len(s) - 1
      /\ \A k \in 1 .. Len(s) - 1 : Front(s)[k] = s[k]
  BY LastProperties
<1> DEFINE t == Append(Front(s), Last(s))
<1>2. /\ t \in Seq(S) /\ Len(t) = Len(Front(s)) + 1
      /\ \A k \in 1 .. Len(Front(s)) : t[k] = Front(s)[k]
      /\ t[Len(Front(s)) + 1] = Last(s)
  BY <1>1, AppendProperties
<1> HIDE DEF t
<1>3. Len(t) = Len(s) /\ \A k \in 1 .. Len(s) : t[k] = s[k]
  <2>1. \A k \in 1 .. Len(s) : k \in 1 .. Len(s) - 1 \/ k = Len(s)
    BY <1>1
  <2> QED
    BY <1>1, <1>2, <2>1
<1>4. t = s
  BY <1>2, <1>3, SeqEqual
<1> QED
  BY <1>4 DEF t

(* The last element replaced.                                              *)
LEMMA LastReplaced ==
  ASSUME NEW S, NEW s \in Seq(S), s # <<>>, NEW x \in S,
         NEW u, u = [s EXCEPT ![Len(s)] = x]
  PROVE  u = Append(Front(s), x)
<1>1. /\ Len(s) \in Nat \ {0}
      /\ Front(s) \in Seq(S) /\ Len(Front(s)) = Len(s) - 1
      /\ \A k \in 1 .. Len(s) - 1 : Front(s)[k] = s[k]
  BY LastProperties
<1> DEFINE t == Append(Front(s), x)
<1>2. /\ t \in Seq(S) /\ Len(t) = Len(Front(s)) + 1
      /\ \A k \in 1 .. Len(Front(s)) : t[k] = Front(s)[k]
      /\ t[Len(Front(s)) + 1] = x
  BY <1>1, AppendProperties
<1>3. /\ u \in Seq(S) /\ Len(u) = Len(s)
      /\ \A k \in 1 .. Len(s) : u[k] = IF k = Len(s) THEN x ELSE s[k]
  BY <1>1, ExceptSeq
<1> HIDE DEF t
<1>4. Len(t) = Len(u) /\ \A k \in 1 .. Len(t) : t[k] = u[k]
  <2>1. \A k \in 1 .. Len(s) : k \in 1 .. Len(s) - 1 \/ k = Len(s)
    BY <1>1
  <2> QED
    BY <1>1, <1>2, <1>3, <2>1
<1>5. t = u
  BY <1>2, <1>3, <1>4, SeqEqual
<1> QED
  BY <1>5 DEF t

(* The characters of the arguments of one command.                         *)
LEMMA FlattenArgs ==
  ASSUME NEW args \in Seq(Seq(Char))
  PROVE  /\ FlattenSeq(args) \in Seq(Char)
         /\ FlattenSeq(Append(args, <<>>)) = FlattenSeq(args)
         /\ args # <<>> => FlattenSeq(WithoutEmptyLast(args)) = FlattenSeq(args)
         /\ \A cur \in Char : args # <<>> =>
               FlattenSeq([args EXCEPT ![Len(args)] = Append(@, cur)])
                  = Append(FlattenSeq(args), cur)
<1> DEFINE Word == Seq(Char)
<1>1. <<>> \in Word /\ \A word \in Word : word \o <<>> = word
  BY EmptySeq, ConcatEmptySeq
<1>2. /\ FlattenSeq(args) \in Seq(Char)
      /\ \A word \in Word : FlattenSeq(Append(args, word)) = FlattenSeq(args) \o word
  BY FlattenAppend
<1>3. FlattenSeq(Append(args, <<>>)) = FlattenSeq(args)
  BY <1>1, <1>2
<1>4. ASSUME args # <<>>
      PROVE  /\ FlattenSeq(WithoutEmptyLast(args)) = FlattenSeq(args)
             /\ \A cur \in Char : FlattenSeq([args EXCEPT ![Len(args)] = Append(@, cur)])
                                     = Append(FlattenSeq(args), cur)
  <2> HIDE DEF Word
  <2>0. args \in Seq(Word)
    BY DEF Word
  <2>1. PICK front \in Seq(Word), last \in Word :
          front = Front(args) /\ last = Last(args) /\ last = args[Len(args)]
    BY <1>4, <2>0, LastProperties
  <2>2. args = Append(front, last)
    BY <1>4, <2>0, <2>1, FrontAndLast
  <2>3. /\ FlattenSeq(front) \in Seq(Char)
        /\ \A word \in Word : FlattenSeq(Append(front, word)) = FlattenSeq(front) \o word
    BY <2>1, FlattenAppend DEF Word
  <2>4. FlattenSeq(args) = FlattenSeq(front) \o last
    BY <2>1, <2>2, <2>3
  <2>5. FlattenSeq(WithoutEmptyLast(args)) = FlattenSeq(args)
    <3>1. CASE last = <<>>
      <4>1. FlattenSeq(args) = FlattenSeq(front)
        BY <1>1, <2>3, <2>4, <3>1 DEF Word
      <4> QED
        BY <2>1, <3>1, <4>1 DEF WithoutEmptyLast
    <3>2. CASE last # <<>>
      BY <2>1, <3>2 DEF WithoutEmptyLast
    <3> QED
      BY <3>1, <3>2
  <2>6. ASSUME NEW cur \in Char
        PROVE  FlattenSeq([args EXCEPT ![Len(args)] = Append(@, cur)])
                  = Append(FlattenSeq(args), cur)
    <3>1. Append(last, cur) \in Word
      BY <2>1, AppendProperties DEF Word
    <3>2. PICK u : u = [args EXCEPT ![Len(args)] = Append(last, cur)]
                   /\ u = [args EXCEPT ![Len(args)] = Append(@, cur)]
      BY <2>1
    <3>3. u = Append(front, Append(last, cur))
      BY <1>4, <2>0, <2>1, <3>1, <3>2, LastReplaced
    <3>4. FlattenSeq(Append(front, Append(last, cur))) = FlattenSeq(front) \o Append(last, cur)
      BY <2>3, <3>1
    <3>5. FlattenSeq(front) \o Append(last, cur) = Append(FlattenSeq(front) \o last, cur)
      <4>1. last \in Seq(Char)
        BY <2>1 DEF Word
      <4> QED
        BY <2>3, <4>1, PQ!ConcatAppend
    <3> QED
      BY <2>4, <3>2, <3>3, <3>4, <3>5
  <2> QED
    BY <2>5, <2>6
<1> QED
  BY <1>2, <1>3, <1>4

(* One more command.                                                       *)
LEMMA ArgsGrow ==
  /\ AllArgs(<<>>) = <<>>
  /\ \A f \in Seq(Command), cmd \in Command :
        /\ AllArgs(f) \in Seq(Char)
        /\ AllArgs(Append(f, cmd)) = AllArgs(f) \o FlattenSeq(cmd.args)
<1> DEFINE All(list) == [k \in DOMAIN list |-> FlattenSeq(list[k].args)]
<1>1. AllArgs(<<>>) = <<>>
  <2>1. All(<<>>) = <<>> /\ FlattenSeq(<<>>) = <<>>
    BY FlattenSame, PQ!FlattenShort
  <2> QED
    BY <2>1 DEF AllArgs
<1>2. \A cmd \in Command : FlattenSeq(cmd.args) \in Seq(Char)
  BY FlattenArgs DEF Command
<1> HIDE DEF Command
<1>3. ASSUME NEW f \in Seq(Command), NEW cmd \in Command
      PROVE  /\ AllArgs(f) \in Seq(Char)
             /\ AllArgs(Append(f, cmd)) = AllArgs(f) \o FlattenSeq(cmd.args)
  <2> DEFINE more == Append(f, cmd)
             N == Len(f)
  <2>1. N \in Nat /\ DOMAIN f = 1 .. N /\ \A k \in 1 .. N : f[k] \in Command
    BY LenProperties, ElementOfSeq
  <2>2. /\ more \in Seq(Command) /\ DOMAIN more = 1 .. N + 1
        /\ \A k \in 1 .. N : more[k] = f[k]
        /\ more[N + 1] = cmd
    BY AppendProperties, LenProperties
  <2>3. AllArgs(f) = FlattenSeq(All(f)) /\ AllArgs(more) = FlattenSeq(All(more))
    BY DEF AllArgs
  <2> HIDE DEF more, N
  <2>4. /\ All(f) \in Seq(Seq(Char)) /\ Len(All(f)) = N
        /\ \A k \in 1 .. N : All(f)[k] = FlattenSeq(f[k].args)
    BY <1>2, <2>1
  <2>5. All(more) = Append(All(f), FlattenSeq(cmd.args))
    <3> DEFINE last == FlattenSeq(cmd.args)
    <3>0. last \in Seq(Char)
      BY <1>2
    <3>1. /\ Append(All(f), last) \in Seq(Seq(Char))
          /\ Len(Append(All(f), last)) = N + 1
          /\ \A k \in 1 .. N : Append(All(f), last)[k] = All(f)[k]
          /\ Append(All(f), last)[N + 1] = last
      <4> HIDE DEF last, All
      <4> QED
        BY <2>4, <3>0, AppendProperties
    <3>2. /\ All(more) \in Seq(Seq(Char)) /\ Len(All(more)) = N + 1
          /\ \A k \in 1 .. N : All(more)[k] = FlattenSeq(f[k].args)
          /\ All(more)[N + 1] = last
      BY <1>2, <2>1, <2>2
    <3> HIDE DEF All, last
    <3>3. \A k \in 1 .. N + 1 : All(more)[k] = Append(All(f), last)[k]
      <4>1. \A k \in 1 .. N + 1 : k \in 1 .. N \/ k = N + 1
        BY <2>1
      <4> QED
        BY <2>4, <3>1, <3>2, <4>1
    <3>4. All(more) = Append(All(f), last)
      BY <3>1, <3>2, <3>3, SeqEqual
    <3> QED
      BY <3>4 DEF last
  <2> HIDE DEF All
  <2>6. FlattenSeq(All(f)) \in Seq(Char)
        /\ FlattenSeq(All(more)) = FlattenSeq(All(f)) \o FlattenSeq(cmd.args)
    BY <1>2, <2>4, <2>5, FlattenAppend
  <2> QED
    BY <2>3, <2>6 DEF more
<1> QED
  BY <1>1, <1>3

(* The arguments of all commands, by the command in hand.                  *)
LEMMA ArgsInHand ==
  ASSUME NEW lex, LexInv(lex)
  PROVE  /\ AllArgs(Front(lex.cmds)) \in Seq(Char) /\ AllArgs(lex.cmds) \in Seq(Char)
         /\ FlattenSeq(curCmd(lex).args) \in Seq(Char)
         /\ AllArgs(lex.cmds) = AllArgs(Front(lex.cmds)) \o FlattenSeq(curCmd(lex).args)
         /\ \A cmd \in Command : AllArgs(SetCommand(lex, cmd).cmds)
               = AllArgs(Front(lex.cmds)) \o FlattenSeq(cmd.args)
<1>1. /\ lex.cmds \in Seq(Command) /\ lex.cmds # <<>>
      /\ lex \in [cmds : Seq(Command), mode : Modes, ignorespace : BOOLEAN]
  BY DEF LexInv
<1>2. curCmd(lex) \in Command /\ FlattenSeq(curCmd(lex).args) \in Seq(Char)
  BY CommandInHand, FlattenArgs
<1> HIDE DEF Command
<1>3. PICK f \in Seq(Command) : f = Front(lex.cmds)
  BY <1>1, LastProperties
<1>4. lex.cmds = Append(f, curCmd(lex))
  BY <1>1, <1>3, FrontAndLast DEF curCmd
<1>5. ASSUME NEW cmd \in Command
      PROVE  AllArgs(SetCommand(lex, cmd).cmds) = AllArgs(f) \o FlattenSeq(cmd.args)
  <2>1. PICK u : u = SetCommand(lex, cmd).cmds /\ u = [lex.cmds EXCEPT ![Len(lex.cmds)] = cmd]
    BY <1>1 DEF SetCommand
  <2>2. u = Append(f, cmd)
    BY <1>1, <1>3, <2>1, LastReplaced
  <2> QED
    BY <1>3, <2>1, <2>2, ArgsGrow
<1>6. AllArgs(f) \in Seq(Char) /\ AllArgs(lex.cmds) \in Seq(Char)
      /\ AllArgs(lex.cmds) = AllArgs(f) \o FlattenSeq(curCmd(lex).args)
  BY <1>1, <1>2, <1>3, <1>4, ArgsGrow
<1> QED
  BY <1>2, <1>3, <1>5, <1>6

(* A letter is one more character; a space is none.                        *)
LEMMA AddLetterArgs ==
  ASSUME NEW lex, LexInv(lex), NEW cur \in Char
  PROVE  AllArgs(AddLetter(lex, cur).cmds) = Append(AllArgs(lex.cmds), cur)
<1> DEFINE f == AllArgs(Front(lex.cmds))
           own == FlattenSeq(curCmd(lex).args)
<1>1. /\ f \in Seq(Char) /\ own \in Seq(Char) /\ AllArgs(lex.cmds) = f \o own
      /\ \A cmd \in Command : AllArgs(SetCommand(lex, cmd).cmds) = f \o FlattenSeq(cmd.args)
  BY ArgsInHand
<1>2. PICK cmd \in Command : cmd = curCmd(lex) /\ cmd.args # <<>> /\ cmd.args \in Seq(Seq(Char))
  BY CommandInHand
<1>3. PICK args : args = [cmd.args EXCEPT ![Len(cmd.args)] = Append(@, cur)]
  OBVIOUS
<1>4. FlattenSeq(args) = Append(own, cur)
  BY <1>2, <1>3, FlattenArgs
<1>5. args \in Seq(Seq(Char))
  <2> DEFINE Word == Seq(Char)
  <2>1. \A word \in Word : Append(word, cur) \in Word
    BY AppendProperties
  <2> HIDE DEF Word
  <2>2. cmd.args \in Seq(Word)
    BY <1>2 DEF Word
  <2>3. Len(cmd.args) \in 1 .. Len(cmd.args) /\ cmd.args[Len(cmd.args)] \in Word
    BY <1>2, <2>2, LastProperties
  <2>4. args \in Seq(Word)
    BY <1>3, <2>1, <2>2, <2>3, ExceptProperties
  <2> QED
    BY <2>4 DEF Word
<1>6. PICK new : new = [cmd EXCEPT !.args = args] /\ new \in Command /\ new.args = args
  <2>1. [cmd EXCEPT !.args = args] \in Command /\ [cmd EXCEPT !.args = args].args = args
    BY <1>2, <1>5 DEF Command
  <2> QED
    BY <2>1
<1>7. AddLetter(lex, cur) = SetCommand(lex, new)
  BY <1>2, <1>3, <1>6 DEF AddLetter
<1> HIDE DEF f, own
<1>8. f \o Append(own, cur) = Append(f \o own, cur)
  BY <1>1, PQ!ConcatAppend
<1> QED
  BY <1>1, <1>4, <1>6, <1>7, <1>8

LEMMA AddArgumentArgs ==
  ASSUME NEW lex, LexInv(lex)
  PROVE  AllArgs(AddArgument(lex).cmds) = AllArgs(lex.cmds)
<1>1. PICK cmd \in Command : cmd = curCmd(lex) /\ cmd.args # <<>> /\ cmd.args \in Seq(Seq(Char))
  BY CommandInHand
<1>2. <<>> \in Seq(Char)
  BY EmptySeq
<1>3. PICK args \in Seq(Seq(Char)) :
        args = Append(cmd.args, <<>>) /\ FlattenSeq(args) = FlattenSeq(cmd.args)
  BY <1>1, <1>2, ArgumentsKept, FlattenArgs
<1>4. PICK new : new = [cmd EXCEPT !.args = args] /\ new \in Command /\ new.args = args
  <2>1. [cmd EXCEPT !.args = args] \in Command /\ [cmd EXCEPT !.args = args].args = args
    BY <1>1, <1>3 DEF Command
  <2> QED
    BY <2>1
<1>5. AddArgument(lex) = [SetCommand(lex, new) EXCEPT !.ignorespace = TRUE]
  BY <1>1, <1>3, <1>4 DEF AddArgument
<1>6. AddArgument(lex).cmds = SetCommand(lex, new).cmds
  BY <1>5 DEF SetCommand, LexInv
<1> QED
  <2>1. /\ AllArgs(lex.cmds) = AllArgs(Front(lex.cmds)) \o FlattenSeq(cmd.args)
        /\ AllArgs(SetCommand(lex, new).cmds) = AllArgs(Front(lex.cmds)) \o FlattenSeq(args)
    BY <1>1, <1>4, ArgsInHand, Zenon
  <2> QED
    BY <1>3, <1>6, <2>1

(* A command is begun without characters.                                  *)
LEMMA NoCommandArgs ==
  NoCommand \in Command /\ FlattenSeq(NoCommand.args) = <<>>
<1>1. << <<>> >> \in Seq(Seq(Char)) /\ <<>> \in Seq(Char)
  BY EmptySeq
<1>2. FlattenSeq(<< <<>> >>) = <<>>
  BY <1>1, FlattenSame, PQ!FlattenShort
<1> QED
  BY <1>1, <1>2 DEF NoCommand, Command, redirection

(* A separator loses no character of the command that it ends.             *)
LEMMA EndCommandArgs ==
  ASSUME NEW lex, LexInv(lex), NEW cur \in Char
  PROVE  AllArgs(EndCommand(lex, cur).cmds) = AllArgs(lex.cmds)
<1>1. PICK cmd \in Command : cmd = curCmd(lex) /\ cmd.args # <<>> /\ cmd.args \in Seq(Seq(Char))
  BY CommandInHand
<1>2. PICK args \in Seq(Seq(Char)) :
        args = WithoutEmptyLast(cmd.args) /\ FlattenSeq(args) = FlattenSeq(cmd.args)
  BY <1>1, ArgumentsKept, FlattenArgs
<1>3. RedirOf(cur) \in redirection
  BY DEF RedirOf, redirection
<1>4. PICK ended :
        /\ ended = [cmd EXCEPT !.args = args, !.redir = RedirOf(cur), !.background = (cur = "&")]
        /\ ended \in Command /\ ended.args = args
  <2> DEFINE e == [cmd EXCEPT !.args = args, !.redir = RedirOf(cur), !.background = (cur = "&")]
  <2>1. e \in Command /\ e.args = args
    BY <1>1, <1>2, <1>3 DEF Command
  <2> QED
    BY <2>1
<1>5. NoCommand \in Command /\ FlattenSeq(NoCommand.args) = <<>>
  BY NoCommandArgs
<1> HIDE DEF Command
<1>6. PICK f \in Seq(Command) : f = Front(lex.cmds)
  BY LastProperties DEF LexInv
<1>7. PICK t \in Seq(Command) : t = Append(f, ended)
  BY <1>4, <1>6, AppendProperties
<1>8. EndCommand(lex, cur).cmds = t \o <<NoCommand>>
  BY <1>1, <1>2, <1>4, <1>6, <1>7 DEF EndCommand
<1>9. t \o <<NoCommand>> = Append(t, NoCommand)
  BY <1>5, <1>7, AppendIsConcat
<1>10. AllArgs(t) = AllArgs(lex.cmds)
  <2>1. AllArgs(lex.cmds) = AllArgs(f) \o FlattenSeq(cmd.args)
    BY <1>1, <1>6, ArgsInHand, Zenon
  <2>2. AllArgs(t) = AllArgs(f) \o FlattenSeq(args)
    <3>1. ended \in Command /\ ended.args = args
      BY <1>4
    <3> QED
      BY <1>6, <1>7, <3>1, ArgsGrow
  <2> QED
    BY <1>2, <2>1, <2>2
<1>11. AllArgs(Append(t, NoCommand)) = AllArgs(t) \o <<>> /\ AllArgs(t) \in Seq(Char)
  BY <1>5, <1>7, ArgsGrow
<1> QED
  BY <1>8, <1>9, <1>10, <1>11, ConcatEmptySeq

(* Outside of a quotation a valid character is added, and no other.        *)
LEMMA PlainCharacterArgs ==
  ASSUME NEW lex, LexInv(lex), lex.mode \notin {"redirect", "comment"},
         NEW cur \in STRING \ {NUL}, cur # "#"
  PROVE  /\ PlainCharacter(lex, cur).mode # "comment"
         /\ AllArgs(PlainCharacter(lex, cur).cmds) =
              IF isvalid(cur) THEN Append(AllArgs(lex.cmds), cur) ELSE AllArgs(lex.cmds)
<1> USE DEF Char
<1>0. lex \in [cmds : Seq(Command), mode : Modes, ignorespace : BOOLEAN]
  BY DEF LexInv
<1> HIDE DEF Command
<1>1. CASE isvalid(cur)
  <2>1. PICK x : x = AddLetter(lex, cur) /\ x.mode = lex.mode
                 /\ x.cmds = AddLetter(lex, cur).cmds /\ LexInv(x)
    BY AddLetterKeeps
  <2>2. PlainCharacter(lex, cur) = [x EXCEPT !.ignorespace = FALSE]
    BY <1>1, <2>1 DEF PlainCharacter, isvalid
  <2>3. PlainCharacter(lex, cur).cmds = x.cmds /\ PlainCharacter(lex, cur).mode = x.mode
    BY <2>1, <2>2 DEF LexInv
  <2> QED
    BY <1>1, <2>1, <2>3, AddLetterArgs
<1>2. CASE cur = " "
  <2>1. ~isvalid(cur) /\ PlainCharacter(lex, cur) = IF lex.ignorespace THEN lex ELSE AddArgument(lex)
    BY <1>2 DEF PlainCharacter, isvalid, Separators, Quoting, Dropped
  <2>2. AddArgument(lex).mode = lex.mode
    BY <1>0 DEF AddArgument, SetCommand
  <2> QED
    BY <2>1, <2>2, AddArgumentArgs
<1>3. CASE cur \in Separators
  <2>1. ~isvalid(cur) /\ PlainCharacter(lex, cur) = EndCommand(lex, cur)
    BY <1>3 DEF PlainCharacter, isvalid, Separators, Quoting, Dropped
  <2>2. EndCommand(lex, cur).mode # "comment"
    BY DEF EndCommand
  <2> QED
    BY <2>1, <2>2, EndCommandArgs
<1>4. CASE cur \in Quoting
  <2>1. ~isvalid(cur) /\ PlainCharacter(lex, cur) = [lex EXCEPT !.mode = ModeAfter(cur)]
    BY <1>4 DEF PlainCharacter, isvalid, Separators, Quoting, Dropped
  <2>2. ModeAfter(cur) # "comment"
    BY <1>4 DEF ModeAfter, Quoting
  <2> QED
    BY <1>0, <2>1, <2>2
<1>5. CASE cur \in Dropped
  BY <1>5 DEF PlainCharacter, isvalid, Separators, Quoting, Dropped
<1> QED
  BY <1>1, <1>2, <1>3, <1>4, <1>5 DEF isvalid

(* The second `>` of `>>` changes no argument.                             *)
LEMMA RedirectedArgs ==
  ASSUME NEW lex, LexInv(lex), lex.mode = "redirect",
         NEW cur \in STRING \ {NUL}, cur # "#"
  PROVE  /\ Redirected(lex, cur).mode # "comment"
         /\ AllArgs(Redirected(lex, cur).cmds) =
              IF isvalid(cur) THEN Append(AllArgs(lex.cmds), cur) ELSE AllArgs(lex.cmds)
<1>0. lex \in [cmds : Seq(Command), mode : Modes, ignorespace : BOOLEAN]
  BY DEF LexInv
<1>1. CASE cur = ">"
  <2>1. PICK c \in Seq(Command) : c = lex.cmds /\ DOMAIN c = 1 .. Len(c)
    BY <1>0, LenProperties
  <2>2. PICK s : s = [c EXCEPT ![Len(c) - 1].redir = "append_output"]
    OBVIOUS
  <2>3. Redirected(lex, cur) = [lex EXCEPT !.mode = "plain", !.cmds = s]
    BY <1>1, <2>1, <2>2 DEF Redirected
  <2>4. Redirected(lex, cur).mode = "plain" /\ Redirected(lex, cur).cmds = s
    BY <1>0, <2>3
  <2>5. \A k \in 1 .. Len(c) : c[k] \in Command
    BY ElementOfSeq
  <2>6. DOMAIN s = DOMAIN c /\ \A k \in DOMAIN c : s[k].args = c[k].args
    BY <2>1, <2>2, <2>5 DEF Command
  <2>7. [k \in DOMAIN s |-> FlattenSeq(s[k].args)] = [k \in DOMAIN c |-> FlattenSeq(c[k].args)]
    BY <2>6, Zenon
  <2>8. AllArgs(s) = AllArgs(c)
    BY <2>7 DEF AllArgs
  <2>9. ~isvalid(cur)
    BY <1>1 DEF isvalid, Separators
  <2> QED
    BY <2>1, <2>4, <2>8, <2>9
<1>2. CASE cur # ">"
  <2>1. PICK x : x = [lex EXCEPT !.mode = "plain"] /\ LexInv(x)
    BY ModeKeeps DEF Modes
  <2>2. x.mode = "plain" /\ x.cmds = lex.cmds
    BY <1>0, <2>1
  <2>3. Redirected(lex, cur) = PlainCharacter(x, cur)
    BY <1>2, <2>1 DEF Redirected
  <2> QED
    BY <2>1, <2>2, <2>3, PlainCharacterArgs
<1> QED
  BY <1>1, <1>2

(* In any mode but that of a comment a character is added or passed over,  *)
(* and a valid one is added.                                               *)
LEMMA CharacterArgs ==
  ASSUME NEW lex, LexInv(lex), lex.mode # "comment", NEW cur \in STRING \ {NUL}, cur # "#"
  PROVE  /\ Character(lex, cur).mode # "comment"
         /\ AllArgs(Character(lex, cur).cmds) \in {AllArgs(lex.cmds), Append(AllArgs(lex.cmds), cur)}
         /\ isvalid(cur) => AllArgs(Character(lex, cur).cmds) = Append(AllArgs(lex.cmds), cur)
<1>0. lex \in [cmds : Seq(Command), mode : Modes, ignorespace : BOOLEAN]
  BY DEF LexInv
<1>1. PICK x : x = AddLetter(lex, cur) /\ x.cmds = AddLetter(lex, cur).cmds
               /\ x \in [cmds : Seq(Command), mode : Modes, ignorespace : BOOLEAN]
  BY AddLetterKeeps DEF LexInv, Char
<1>2. AllArgs(x.cmds) = Append(AllArgs(lex.cmds), cur)
  BY <1>1, AddLetterArgs DEF Char
<1> HIDE DEF Command
<1>3. CASE lex.mode = "plain"
  BY <1>3, PlainCharacterArgs DEF Character
<1>4. CASE lex.mode = "redirect"
  BY <1>4, RedirectedArgs DEF Character
<1>5. CASE lex.mode = "escape"
  <2>1. Character(lex, cur) = [x EXCEPT !.mode = "plain"]
    BY <1>1, <1>5 DEF Character
  <2>2. Character(lex, cur).mode = "plain" /\ Character(lex, cur).cmds = x.cmds
    BY <1>1, <2>1
  <2> QED
    BY <1>2, <2>2
<1>6. CASE lex.mode \in {"quote", "quoteEscape"}
  <2>1. Character(lex, cur) = QuotedCharacter(lex, cur)
    BY <1>6 DEF Character
  <2>2. CASE cur = "'" /\ lex.mode = "quote"
    <3>1. Character(lex, cur) = [lex EXCEPT !.mode = "plain"] /\ ~isvalid(cur)
      BY <2>1, <2>2 DEF QuotedCharacter, isvalid, Quoting
    <3> QED
      BY <1>0, <3>1
  <2>3. CASE cur = "\\"
    <3>1. PICK m \in {"quote", "quoteEscape"} : Character(lex, cur) = [lex EXCEPT !.mode = m]
      BY <2>1, <2>3 DEF QuotedCharacter
    <3>2. ~isvalid(cur)
      BY <2>3 DEF isvalid, Quoting
    <3> QED
      BY <1>0, <3>1, <3>2
  <2>4. CASE ~(cur = "'" /\ lex.mode = "quote") /\ cur # "\\"
    <3>1. Character(lex, cur) = [x EXCEPT !.mode = "quote"]
      BY <1>1, <2>1, <2>4 DEF QuotedCharacter
    <3>2. Character(lex, cur).mode = "quote" /\ Character(lex, cur).cmds = x.cmds
      BY <1>1, <3>1
    <3> QED
      BY <1>2, <3>2
  <2> QED
    BY <2>2, <2>3, <2>4
<1> QED
  BY <1>0, <1>3, <1>4, <1>5, <1>6 DEF Modes

(* No valid character of a line without a comment is lost, doubled or      *)
(* moved by the lexer, whatever the line: in order, the letters of all     *)
(* arguments are those of the line.                                        *)
THEOREM LettersAreKept ==
  ASSUME NEW text \in Seq(STRING \ {NUL})
  PROVE  KeepsLetters(text)
<1> DEFINE N == Len(text)
           First(k) == SubSeq(text, 1, k)
           lex == FoldLeft(Character, Begin, text)
<1>1. N \in Nat /\ DOMAIN text = 1 .. N /\ \A k \in 1 .. N : text[k] \in STRING \ {NUL}
  BY ElementOfSeq, LenProperties
<1>2. PICK g : /\ g[0] = Begin
               /\ \A k \in 1 .. N : g[k] = Character(g[k - 1], text[k])
               /\ lex = g[N]
  BY <1>1, LexerPass
<1>3. SUFFICES ASSUME "#" \notin ToSet(text)
               PROVE  Letters(AllArgs(lexer(text))) = Letters(text)
  BY DEF KeepsLetters
<1>4. \A k \in 1 .. N : text[k] # "#"
  BY <1>1, <1>3 DEF ToSet
<1>5. text \in Seq(Char) /\ First(0) = <<>> /\ First(N) = text
      /\ \A k \in 0 .. N : First(k) \in Seq(Char)
  <2>1. text \in Seq(Char)
    BY <1>1, SeqDef DEF Char
  <2>2. First(0) = <<>> /\ First(N) = text
    BY SubSeqEmpty, SubSeqFull
  <2>3. ASSUME NEW k \in 0 .. N PROVE First(k) \in Seq(Char)
    <3>1. \A j \in 1 .. k : text[j] \in Char
      BY <1>1 DEF Char
    <3> QED
      BY <1>1, <3>1, SubSeqProperties
  <2> QED
    BY <2>1, <2>2, <2>3
<1>6. ASSUME NEW k \in 0 .. N, k < N PROVE First(k + 1) = Append(First(k), text[k + 1])
  <2>1. k + 1 \in 1 .. N /\ (k + 1) - 1 = k
    BY <1>1, <1>6
  <2>2. First(k + 1) = SubSeq(text, 1, (k + 1) - 1) \o <<text[k + 1]>>
    BY <1>1, <1>6, <2>1, SubSeqRecursiveSecond
  <2>3. text[k + 1] \in Char
    BY <1>1, <2>1 DEF Char
  <2> HIDE DEF N
  <2> QED
    BY <1>5, <2>1, <2>2, <2>3, AppendIsConcat
<1> DEFINE Kept(x, k) == /\ LexInv(x) /\ x.mode # "comment"
                         /\ Letters(AllArgs(x.cmds)) = Letters(First(k))
           Good == {k \in 0 .. N : Kept(g[k], k)}
<1> HIDE DEF First, N, lex
<1>7. 0 \in Good
  <2>1. LexInv(Begin) /\ Begin.mode = "plain" /\ Begin.cmds = <<NoCommand>>
    BY BeginKeeps DEF Begin
  <2>2. NoCommand \in Command /\ FlattenSeq(NoCommand.args) = <<>>
    BY NoCommandArgs
  <2>3. AllArgs(<<NoCommand>>) = <<>>
    <3> HIDE DEF Command
    <3>1. <<>> \in Seq(Command) /\ <<>> \in Seq(Char) /\ Append(<<>>, NoCommand) = <<NoCommand>>
      BY EmptySeq
    <3>2. AllArgs(Append(<<>>, NoCommand)) = <<>> \o <<>>
      BY <2>2, <3>1, ArgsGrow
    <3> QED
      BY <3>1, <3>2, ConcatEmptySeq
  <2> QED
    BY <1>1, <1>2, <1>5, <2>1, <2>3
<1>8. ASSUME NEW k \in 0 .. N, k \in Good, k < N PROVE k + 1 \in Good
  <2>1. k + 1 \in 1 .. N /\ k + 1 \in 0 .. N /\ (k + 1) - 1 = k
    BY <1>1, <1>8
  <2>2. PICK x : x = g[k] /\ Kept(x, k)
    BY <1>8
  <2>3. PICK cur \in STRING \ {NUL} : cur = text[k + 1] /\ cur # "#"
    BY <1>1, <1>4, <2>1
  <2>4. PICK y : y = g[k + 1] /\ y = Character(x, cur)
    BY <1>2, <2>1, <2>2, <2>3
  <2>5. LexInv(y) /\ y.mode # "comment"
    BY <2>2, <2>3, <2>4, CharacterKeeps, CharacterArgs
  <2>6. /\ AllArgs(y.cmds) \in {AllArgs(x.cmds), Append(AllArgs(x.cmds), cur)}
        /\ isvalid(cur) => AllArgs(y.cmds) = Append(AllArgs(x.cmds), cur)
    BY <2>2, <2>3, <2>4, CharacterArgs
  <2>7. AllArgs(x.cmds) \in Seq(Char) /\ First(k) \in Seq(Char) /\ cur \in Char
    BY <1>5, <2>2, <2>3, ArgsInHand DEF Char
  <2>8. /\ Letters(Append(AllArgs(x.cmds), cur)) =
             IF isvalid(cur) THEN Append(Letters(AllArgs(x.cmds)), cur) ELSE Letters(AllArgs(x.cmds))
        /\ Letters(Append(First(k), cur)) =
             IF isvalid(cur) THEN Append(Letters(First(k)), cur) ELSE Letters(First(k))
    BY <2>7, LettersGrow
  <2>9. Letters(First(k + 1)) = Letters(Append(First(k), cur))
    BY <1>6, <1>8, <2>3
  <2>10. Letters(AllArgs(y.cmds)) = Letters(First(k + 1))
    BY <2>2, <2>6, <2>8, <2>9
  <2>11. Kept(g[k + 1], k + 1)
    BY <2>4, <2>5, <2>10
  <2> QED
    BY <2>1, <2>11
<1>9. \A k \in 0 .. N : k \in Good
  <2> HIDE DEF Good
  <2> QED
    BY <1>1, <1>7, <1>8, PQ!IntervalInduction
<1>10. LexInv(lex) /\ Letters(AllArgs(lex.cmds)) = Letters(text)
  <2>1. N \in Good
    BY <1>1, <1>9
  <2> QED
    BY <1>2, <1>5, <2>1
<1>11. CASE lex.mode # "escape"
  BY <1>10, <1>11 DEF lexer, lex
<1>12. CASE lex.mode = "escape"
  <2>1. lexer(text) = AddLetter(lex, NUL).cmds
    BY <1>12 DEF lexer, lex
  <2>2. AllArgs(lex.cmds) \in Seq(Char) /\ NUL \in Char /\ ~isvalid(NUL)
    BY <1>10, ArgsInHand DEF Char, isvalid
  <2>3. AllArgs(lexer(text)) = Append(AllArgs(lex.cmds), NUL)
    BY <1>10, <2>1, <2>2, AddLetterArgs
  <2>4. Letters(Append(AllArgs(lex.cmds), NUL)) = Letters(AllArgs(lex.cmds))
    BY <2>2, LettersGrow
  <2> QED
    BY <1>10, <2>3, <2>4
<1> QED
  BY <1>11, <1>12

(* The shell's commands of a line.                                         *)
LEMMA ParseResult ==
  ASSUME NEW text \in Seq(STRING \ {NUL})
  PROVE  Parse(text) \in Seq(Command)
<1>1. PICK c \in Seq(Command) : c = lexer(text) /\ c # <<>> /\ Last(c).args # <<>>
  BY LexerResult
<1>2. Last(c) \in Command /\ Last(c) = c[Len(c)] /\ Front(c) \in Seq(Command)
      /\ Len(c) \in 1 .. Len(c)
  BY <1>1, LastProperties
<1>3. PICK last \in Seq(Seq(Char)) : last = WithoutEmptyLast(Last(c).args)
  BY <1>1, <1>2, ArgumentsKept DEF Command
<1>4. [c[Len(c)] EXCEPT !.args = last] \in Command
  BY <1>2, <1>3 DEF Command
<1>5. [c EXCEPT ![Len(c)] = [c[Len(c)] EXCEPT !.args = last]] \in Seq(Command)
  BY <1>2, <1>4, ExceptProperties
<1>6. Parse(text) = IF last = <<>> THEN Front(c)
                    ELSE [c EXCEPT ![Len(c)] = [c[Len(c)] EXCEPT !.args = last]]
  BY <1>1, <1>3 DEF Parse
<1> QED
  BY <1>2, <1>5, <1>6

----------------------------------------------------------------------------
(* Pipes, processes and the loop over the commands.                        *)

(* The ends of two sets of pipes.                                          *)
LEMMA EndsOfUnion ==
  ASSUME NEW A, NEW B
  PROVE  /\ EndsOf(A \cup B) = EndsOf(A) \cup EndsOf(B) /\ EndsOf({}) = {}
         /\ A \subseteq B => EndsOf(A) \subseteq EndsOf(B)
         /\ A \cap B = {} => EndsOf(A \cup B) \ EndsOf(B) = EndsOf(A)
<1>1. \A C : \A e : e \in EndsOf(C) <=> \E pipe \in C : e = <<pipe, "read">> \/ e = <<pipe, "write">>
  BY DEF EndsOf, Ends
<1>2. EndsOf(A \cup B) = EndsOf(A) \cup EndsOf(B) /\ EndsOf({}) = {}
  BY <1>1
<1>3. ASSUME A \cap B = {} PROVE EndsOf(A) \cap EndsOf(B) = {}
  BY <1>1, <1>3
<1>4. ASSUME A \subseteq B PROVE EndsOf(A) \subseteq EndsOf(B)
  BY <1>1, <1>4
<1> QED
  BY <1>2, <1>3, <1>4

(* The command in hand and the names it gives.                             *)
LEMMA TurnFacts ==
  ASSUME TypeOK, NameInv, Turn
  PROVE  /\ i \in 1 .. Len(cmds) /\ i \in Nat /\ Len(cmds) \in Nat
         /\ cmds[i] \in Command /\ executable_path \in Seq(Char)
         /\ line \in Nat \ {0} /\ pipefd \in (1 .. line) \X Nat /\ pipefd \in Pipe
         /\ pipefd[1] = line /\ pipefd[2] = i
         /\ pipefd \notin DOMAIN child /\ pipefd \notin DOMAIN buffer
         /\ (Made = {} \/ Made = {pipefd})
<1>1. cmds \in Seq(Command) /\ i \in 1 .. Len(cmds) /\ i \in Nat /\ Len(cmds) \in Nat
  BY LenProperties DEF TypeOK, Turn
<1>2. cmds[i] \in Command /\ cmds[i].args # <<>>
  BY <1>1, ElementOfSeq DEF NameInv
<1>3. executable_path \in Seq(Char)
  <2>1. cmds[i].args \in Seq(Seq(Char))
    BY <1>2 DEF Command
  <2> QED
    BY <1>2, <2>1, LastProperties, ElementOfSeq DEF executable_path
<1>4. line \in Nat \ {0} /\ pc = "loop"
  BY ShellAssumption DEF TypeOK, NameInv, Turn
<1>5. pipefd \in (1 .. line) \X Nat /\ pipefd \in Pipe /\ pipefd[1] = line /\ pipefd[2] = i
  BY <1>1, <1>4 DEF pipefd, Pipe
<1>6. pipefd \notin DOMAIN child /\ pipefd \notin DOMAIN buffer
  BY <1>1, <1>4, <1>5 DEF NameInv
<1>7. Made = {} \/ Made = {pipefd}
  BY DEF Made
<1> QED
  BY <1>1, <1>2, <1>3, <1>4, <1>5, <1>6, <1>7

(* A sequence of one element, or of none.                                  *)
LEMMA ShortSetToSeq ==
  /\ SetToSeq({}) = <<>>
  /\ \A x : SetToSeq({x}) = <<x>>
<1>1. SetToSeq({}) = <<>>
  <2>1. Cardinality({}) = 0 /\ 1 .. 0 = {}
    BY FS_EmptySet
  <2>2. <<>> \in [1 .. 0 -> {}] /\ IsInjective(<<>>)
    BY DEF IsInjective
  <2>3. \A f \in [1 .. 0 -> {}] : f = <<>>
    BY <2>1
  <2> QED
    BY <2>1, <2>2, <2>3 DEF SetToSeq
<1>2. ASSUME NEW x PROVE SetToSeq({x}) = <<x>>
  <2>1. Cardinality({x}) = 1 /\ 1 .. 1 = {1}
    BY FS_Singleton
  <2>2. <<x>> \in [1 .. 1 -> {x}] /\ IsInjective(<<x>>)
    BY <2>1 DEF IsInjective
  <2>3. \A f \in [1 .. 1 -> {x}] : f = <<x>>
    BY <2>1
  <2> QED
    BY <2>1, <2>2, <2>3 DEF SetToSeq
<1> QED
  BY <1>1, <1>2

(* fork puts the pipe of the command behind those before it.               *)
LEMMA PrevPipe ==
  ASSUME NEW S, NEW s \in Seq(S), NEW p
  PROVE  /\ s \o SetToSeq({}) = s
         /\ s \o SetToSeq({p}) \in Seq(S \cup {p})
         /\ ToSet(s \o SetToSeq({p})) = ToSet(s) \cup {p}
         /\ s \o SetToSeq({p}) # <<>> /\ Last(s \o SetToSeq({p})) = p
<1>1. s \o SetToSeq({}) = s
  BY ShortSetToSeq, ConcatEmptySeq
<1>2. PICK T : T = S \cup {p}
  OBVIOUS
<1>3. s \in Seq(T) /\ p \in T
  <2>1. S \subseteq T
    BY <1>2
  <2> QED
    BY <1>2, <2>1, SeqDef
<1>4. PICK t : t = Append(s, p)
  OBVIOUS
<1>5. s \o SetToSeq({p}) = t
  <2>1. SetToSeq({p}) = <<p>>
    BY ShortSetToSeq
  <2>2. Append(s, p) = s \o <<p>>
    BY <1>3, AppendIsConcat
  <2> QED
    BY <1>4, <2>1, <2>2, Zenon
<1>6. /\ t \in Seq(T) /\ t # <<>> /\ Len(t) = Len(s) + 1 /\ Len(s) \in Nat
      /\ \A k \in 1 .. Len(s) : t[k] = s[k]
      /\ t[Len(s) + 1] = p /\ DOMAIN t = 1 .. Len(s) + 1 /\ DOMAIN s = 1 .. Len(s)
  BY <1>3, <1>4, AppendProperties, LenProperties
<1>7. Last(t) = p
  BY <1>6 DEF Last
<1>8. ToSet(t) = ToSet(s) \cup {p}
  <2>1. ASSUME NEW x PROVE x \in ToSet(t) <=> x \in ToSet(s) \cup {p}
    <3>1. x \in ToSet(t) <=> \E k \in 1 .. Len(s) + 1 : x = t[k]
      BY <1>6 DEF ToSet
    <3>2. x \in ToSet(s) <=> \E k \in 1 .. Len(s) : x = s[k]
      BY <1>6 DEF ToSet
    <3>3. \A k \in 1 .. Len(s) + 1 : k \in 1 .. Len(s) \/ k = Len(s) + 1
      BY <1>6
    <3> QED
      BY <1>6, <3>1, <3>2, <3>3
  <2> QED
    BY <2>1
<1> QED
  BY <1>1, <1>2, <1>5, <1>6, <1>7, <1>8, Zenon

----------------------------------------------------------------------------
(* The processes keep what the shell relies on.                            *)

(* What execv, Write, Read and Terminate do to the process and to the      *)
(* pipes.                                                                  *)
LEMMA ProcessSteps ==
  ASSUME TypeOK, NameInv, NEW c \in DOMAIN child, Process(c)
  PROVE  /\ \E new \in Proc :
              /\ child' = [child EXCEPT ![c] = new]
              /\ new.waited = child[c].waited /\ new.in = child[c].in /\ new.out = child[c].out
              /\ new.open \subseteq child[c].open /\ new.exe = child[c].exe
              /\ new.connected = child[c].connected /\ new.closes = child[c].closes
              /\ child[c].state \in {"forked", "running"} /\ new.state \in {"running", "zombie"}
         /\ DOMAIN buffer' = DOMAIN buffer /\ buffer' \in [DOMAIN buffer -> 0 .. PipeCapacity]
         /\ UNCHANGED shellVars
<1>1. /\ child[c] \in Proc /\ buffer \in [DOMAIN buffer -> 0 .. PipeCapacity]
      /\ PipeCapacity \in Nat
  <2>1. PipeCapacity \in Nat
    BY ShellAssumption
  <2> QED
    BY <2>1 DEF NameInv
<1>2. CASE execv(c)
  <2>1. PICK new : new = [child[c] EXCEPT !.state = "running", !.open = @ \ child[c].closes]
    OBVIOUS
  <2>2. child' = [child EXCEPT ![c] = new]
    BY <1>2, <2>1 DEF execv
  <2>3. new \in Proc
    BY <1>1, <2>1 DEF Proc
  <2> QED
    BY <1>1, <1>2, <2>1, <2>2, <2>3 DEF execv, Proc
<1>3. CASE Write(c)
  <2>1. PICK new : new = [child[c] EXCEPT !.put = @ + 1]
    OBVIOUS
  <2>2. child' = [child EXCEPT ![c] = new]
    BY <1>3, <2>1 DEF Write
  <2>3. new \in Proc
    <3>1. child[c].put \in Nat /\ child[c].put + 1 \in Nat
      BY <1>1 DEF Proc
    <3>2. PICK n \in Nat : n = child[c].put + 1
      BY <3>1
    <3>3. new = [child[c] EXCEPT !.put = n]
      BY <2>1, <3>2, Zenon
    <3> QED
      BY <1>1, <3>3 DEF Proc
  <2>4. DOMAIN buffer' = DOMAIN buffer /\ buffer' \in [DOMAIN buffer -> 0 .. PipeCapacity]
    BY <1>1, <1>3 DEF Write
  <2> QED
    BY <1>1, <1>3, <2>1, <2>2, <2>3, <2>4 DEF Write, Proc
<1>4. CASE Read(c)
  <2>1. PICK new : new = [child[c] EXCEPT !.got = @ + 1]
    OBVIOUS
  <2>2. child' = [child EXCEPT ![c] = new]
    BY <1>4, <2>1 DEF Read
  <2>3. new \in Proc
    <3>1. child[c].got \in Nat /\ child[c].got + 1 \in Nat
      BY <1>1 DEF Proc
    <3>2. PICK n \in Nat : n = child[c].got + 1
      BY <3>1
    <3>3. new = [child[c] EXCEPT !.got = n]
      BY <2>1, <3>2, Zenon
    <3> QED
      BY <1>1, <3>3 DEF Proc
  <2>4. DOMAIN buffer' = DOMAIN buffer /\ buffer' \in [DOMAIN buffer -> 0 .. PipeCapacity]
    BY <1>1, <1>4 DEF Read
  <2> QED
    BY <1>1, <1>4, <2>1, <2>2, <2>3, <2>4 DEF Read, Proc
<1>5. CASE Terminate(c)
  <2>1. PICK new : new = [child[c] EXCEPT !.state = "zombie", !.open = {}]
    OBVIOUS
  <2>2. child' = [child EXCEPT ![c] = new]
    BY <1>5, <2>1 DEF Terminate
  <2>3. new \in Proc
    BY <1>1, <2>1 DEF Proc
  <2> QED
    BY <1>1, <1>5, <2>1, <2>2, <2>3 DEF Terminate, Proc
<1> QED
  BY <1>2, <1>3, <1>4, <1>5 DEF Process

(* A step of a process keeps ShellInv.                                     *)
LEMMA ProcessKeeps ==
  ASSUME ShellInv, NEW c \in DOMAIN child, Process(c)
  PROVE  ShellInv'
<1>1. PICK new \in Proc :
        /\ child' = [child EXCEPT ![c] = new]
        /\ new.waited = child[c].waited /\ new.in = child[c].in /\ new.out = child[c].out
        /\ new.open \subseteq child[c].open
        /\ child[c].state \in {"forked", "running"} /\ new.state \in {"running", "zombie"}
  BY ProcessSteps DEF ShellInv
<1>2. /\ DOMAIN buffer' = DOMAIN buffer /\ buffer' \in [DOMAIN buffer -> 0 .. PipeCapacity]
      /\ UNCHANGED <<pc, line, cmds, i, prev_pipe, skip_cmd, held>>
  BY ProcessSteps DEF ShellInv, shellVars
<1>3. /\ DOMAIN child' = DOMAIN child /\ child' \in [DOMAIN child' -> Proc]
      /\ child'[c] = new /\ \A d \in DOMAIN child \ {c} : child'[d] = child[d]
  BY <1>1 DEF ShellInv, NameInv
<1>4. NameInv'
  BY <1>2, <1>3 DEF ShellInv, NameInv
<1>5. TypeOK'
  <2>1. \A pipe \in DOMAIN buffer' : buffer'[pipe] \in 0 .. PipeCapacity
    BY <1>2
  <2>2. \A d \in DOMAIN child' :
          /\ child'[d].state \in {"forked", "running", "zombie", "reaped"}
          /\ child'[d].in = child[d].in /\ child'[d].out = child[d].out
          /\ child'[d].open \subseteq child[d].open
    BY <1>1, <1>3 DEF ShellInv, TypeOK
  <2> QED
    BY <1>2, <1>3, <2>1, <2>2 DEF ShellInv, TypeOK
<1>6. HeldInv'
  BY <1>2, <1>3 DEF ShellInv, HeldInv, Lost
<1>7. Unreaped' = Unreaped /\ Unwaited' = Unwaited /\ \A a, b : Counted(a, b)' = Counted(a, b)
  <2>1. \A d \in DOMAIN child :
          (child'[d].state # "reaped" <=> child[d].state # "reaped")
          /\ child'[d].waited = child[d].waited
    BY <1>1, <1>3
  <2> QED
    BY <1>2, <1>3, <2>1 DEF Unreaped, Unwaited, Counted
<1>8. WaitInv' /\ ChildrenAtPrompt'
  BY <1>2, <1>7 DEF ShellInv, WaitInv, ChildrenAtPrompt, Unwaited
<1> QED
  BY <1>4, <1>5, <1>6, <1>8 DEF ShellInv

----------------------------------------------------------------------------
(* The steps of the shell keep ShellInv.                                   *)

(* Sets of commands and of processes that are counted.                     *)
LEMMA Counting ==
  ASSUME NameInv, NEW a \in Nat, NEW b \in Int
  PROVE  /\ IsFiniteSet(Unreaped) /\ IsFiniteSet(Unwaited) /\ IsFiniteSet(Counted(a, b))
         /\ Cardinality(Unreaped) \in Nat /\ Cardinality(Unwaited) \in Nat
         /\ Cardinality(Counted(a, b)) \in Nat
<1>1. Unreaped \subseteq DOMAIN child /\ Unwaited \subseteq DOMAIN child
  BY DEF Unreaped, Unwaited
<1>2. IsFiniteSet(a .. b) /\ Counted(a, b) \subseteq a .. b
  BY FS_Interval DEF Counted
<1>3. IsFiniteSet(Unreaped) /\ IsFiniteSet(Unwaited) /\ IsFiniteSet(Counted(a, b))
  BY <1>1, <1>2, FS_Subset DEF NameInv
<1> QED
  BY <1>3, FS_CardinalityType

(* The initial state. *)
LEMMA InitShell ==
  ASSUME Init
  PROVE  ShellInv
<1>1. /\ pc = "prompt" /\ line = 0 /\ cmds = <<>> /\ i = 1 /\ prev_pipe = <<>>
      /\ skip_cmd = FALSE /\ held = {} /\ child = <<>> /\ buffer = <<>>
  BY DEF Init
<1>2. DOMAIN child = {} /\ DOMAIN buffer = {} /\ Len(cmds) = 0 /\ ToSet(prev_pipe) = {}
  BY <1>1 DEF ToSet
<1>3. TypeOK
  <2>1. cmds \in Seq(Command) /\ i \in 1 .. Len(cmds) + 1 /\ line \in 0 .. MaxLines
    BY <1>1, <1>2, ShellAssumption
  <2>2. ToSet(prev_pipe) = {} /\ held = {} /\ DOMAIN child = {} /\ DOMAIN buffer = {}
    BY <1>1, <1>2
  <2> QED
    BY <1>1, <2>1, <2>2 DEF TypeOK
<1>4. IsFiniteSet(DOMAIN child)
  BY <1>2, FS_EmptySet
<1>5. child \in [DOMAIN child -> Proc] /\ buffer \in [DOMAIN buffer -> 0 .. PipeCapacity]
  BY <1>1
<1>6. NameInv
  BY <1>1, <1>2, <1>4, <1>5 DEF NameInv
<1>7. Lost = {} /\ EndsOf({}) = {}
  BY <1>2, EndsOfUnion DEF Lost
<1>8. HeldInv
  BY <1>1, <1>2, <1>7 DEF HeldInv
<1>9. Unreaped = {} /\ Unwaited = {} /\ Cardinality({}) = 0
  BY <1>2, FS_EmptySet DEF Unreaped, Unwaited
<1>10. WaitInv /\ ChildrenAtPrompt
  BY <1>1, <1>9 DEF WaitInv, ChildrenAtPrompt, Unwaited
<1> QED
  BY <1>3, <1>6, <1>8, <1>10 DEF ShellInv

(* A new line makes all names old.                                         *)
LEMMA ReadlineKeeps ==
  ASSUME ShellInv, NEW text \in Lines, readline(text)
  PROVE  ShellInv'
<1>1. /\ pc = "prompt" /\ line \in Nat /\ line < MaxLines /\ MaxLines \in Nat
      /\ pc' = "loop" /\ line' = line + 1 /\ cmds' = Parse(text) /\ i' = 1
      /\ prev_pipe' = <<>> /\ skip_cmd' = FALSE
      /\ UNCHANGED <<held, child, buffer>>
  BY ShellAssumption DEF readline, ShellInv, TypeOK
<1>2. cmds' \in Seq(Command) /\ Len(cmds') \in Nat
  BY <1>1, ParseResult, ShellAssumption, LenProperties
<1>3. \A k \in 1 .. Len(cmds') : cmds'[k].args # <<>>
  BY <1>1, <1>2, ShellAssumption, LenProperties
<1>4. ToSet(prev_pipe') = {} /\ prev_pipe' \in Seq(DOMAIN child')
  BY <1>1 DEF ToSet
<1>5. TypeOK'
  <2>1. cmds' \in Seq(Command) /\ i' \in 1 .. Len(cmds') + 1 /\ line' \in 0 .. MaxLines
    BY <1>1, <1>2
  <2> QED
    BY <1>1, <1>4, <2>1 DEF ShellInv, TypeOK
<1>6. NameInv'
  <2>1. \A c \in DOMAIN child' \cup DOMAIN buffer' :
           c \in (1 .. line') \X Nat /\ c[1] # line'
    BY <1>1 DEF ShellInv, NameInv
  <2> QED
    BY <1>1, <1>3, <2>1 DEF ShellInv, NameInv
<1>7. HeldInv'
  <2>1. Lost' = Lost /\ held' = EndsOf(Lost) /\ Lost \cup {} = Lost
    BY <1>1 DEF ShellInv, HeldInv, Lost
  <2> QED
    BY <1>1, <1>4, <2>1 DEF HeldInv
<1>8. WaitInv' /\ ChildrenAtPrompt'
  <2>1. Unreaped' = Unreaped /\ Unwaited' = Unwaited
    BY <1>1 DEF Unreaped, Unwaited
  <2>2. Cardinality(Unreaped) =< Cardinality(Unwaited)
    BY <1>1 DEF ShellInv, ChildrenAtPrompt, Unwaited
  <2>3. Counted(1, i - 1)' = {} /\ Cardinality({}) = 0
    BY <1>1, FS_EmptySet DEF Counted
  <2>4. Cardinality(Unwaited) \in Nat
    BY Counting DEF ShellInv
  <2>5. Cardinality(Unreaped)' =< Cardinality(Unwaited)' + Cardinality(Counted(1, i - 1))'
    <3>1. Cardinality(Unreaped)' = Cardinality(Unreaped) /\ Cardinality(Unwaited)' = Cardinality(Unwaited)
      BY <2>1, Zenon
    <3>2. Cardinality(Counted(1, i - 1))' = 0
      BY <2>3, Zenon
    <3> QED
      BY <2>2, <2>4, <3>1, <3>2
  <2> QED
    BY <1>1, <2>5 DEF WaitInv, ChildrenAtPrompt
<1> QED
  BY <1>5, <1>6, <1>7, <1>8 DEF ShellInv

(* quit, exit, the end of the input and the exception of cd.               *)
LEMMA ExitKeeps ==
  ASSUME ShellInv, NEW how \in {"exited", "aborted"}, Exit(how)
  PROVE  ShellInv'
<1>1. TypeOK'
  BY DEF ShellInv, TypeOK, Exit
<1>2. NameInv'
  BY DEF ShellInv, NameInv, Exit
<1>3. HeldInv'
  BY DEF ShellInv, HeldInv, Exit
<1> QED
  BY <1>1, <1>2, <1>3 DEF ShellInv, WaitInv, ChildrenAtPrompt, Exit

(* Counted loses what is left out of the interval and gains what enters.   *)
LEMMA CountedMore ==
  ASSUME NameInv, NEW k \in Nat
  PROVE  /\ Cardinality(Counted(1, k)) =< Cardinality(Counted(1, k + 1))
         /\ (\A m \in 1 .. k + 1 : ~cmds[m].background) =>
               Cardinality(Counted(1, k + 1)) = Cardinality(Counted(1, k)) + 1
<1>1. IsFiniteSet(Counted(1, k)) /\ IsFiniteSet(Counted(1, k + 1))
  BY Counting
<1>2. Counted(1, k) \subseteq Counted(1, k + 1)
  BY DEF Counted
<1>3. ASSUME \A m \in 1 .. k + 1 : ~cmds[m].background
      PROVE  Cardinality(Counted(1, k + 1)) = Cardinality(Counted(1, k)) + 1
  <2>1. Counted(1, k + 1) = Counted(1, k) \cup {k + 1} /\ k + 1 \notin Counted(1, k)
    BY <1>3 DEF Counted
  <2> QED
    BY <1>1, <2>1, FS_AddElement
<1> QED
  BY <1>1, <1>2, <1>3, FS_Subset

(* The name of a file is passed over.                                      *)
LEMMA SkipKeeps ==
  ASSUME ShellInv, skip
  PROVE  ShellInv'
<1>1. /\ pc = "loop" /\ i \in 1 .. Len(cmds) /\ i' = i + 1 /\ Len(cmds) \in Nat /\ i \in Nat
      /\ skip_cmd' = FALSE
      /\ UNCHANGED <<pc, line, cmds, prev_pipe, held, child, buffer>>
  BY TurnFacts DEF skip, ShellInv, Turn
<1>2. TypeOK'
  <2>1. i' \in 1 .. Len(cmds') + 1
    BY <1>1
  <2> QED
    BY <1>1, <2>1 DEF ShellInv, TypeOK
<1>3. NameInv'
  <2>1. \A c \in DOMAIN child \cup DOMAIN buffer : c \in (1 .. line) \X Nat /\ (c[1] = line => c[2] < i)
    BY <1>1 DEF ShellInv, NameInv
  <2>2. \A c \in DOMAIN child \cup DOMAIN buffer : c[2] \in Nat /\ (c[1] = line => c[2] < i + 1)
    BY <1>1, <2>1
  <2> QED
    BY <1>1, <2>1, <2>2 DEF ShellInv, NameInv
<1>4. HeldInv'
  BY <1>1 DEF ShellInv, HeldInv, Lost
<1>5. WaitInv' /\ ChildrenAtPrompt'
  <2>1. Unreaped' = Unreaped /\ Unwaited' = Unwaited /\ Counted(1, i - 1)' = Counted(1, i)
    BY <1>1 DEF Unreaped, Unwaited, Counted
  <2>2. Cardinality(Counted(1, i - 1)) =< Cardinality(Counted(1, i))
    BY <1>1, CountedMore DEF ShellInv
  <2>3. Cardinality(Unreaped) =< Cardinality(Unwaited) + Cardinality(Counted(1, i - 1))
    BY <1>1 DEF ShellInv, WaitInv
  <2>4. /\ Cardinality(Unreaped) \in Nat /\ Cardinality(Unwaited) \in Nat
        /\ Cardinality(Counted(1, i - 1)) \in Nat /\ Cardinality(Counted(1, i)) \in Nat
    <3>1. NameInv /\ 1 \in Nat /\ i \in Int /\ i - 1 \in Int
      BY <1>1 DEF ShellInv
    <3> QED
      BY <3>1, Counting
  <2>5. Cardinality(Unreaped) =< Cardinality(Unwaited) + Cardinality(Counted(1, i))
    BY <2>2, <2>3, <2>4
  <2>6. /\ Cardinality(Unreaped)' = Cardinality(Unreaped)
        /\ Cardinality(Unwaited)' = Cardinality(Unwaited)
        /\ Cardinality(Counted(1, i - 1))' = Cardinality(Counted(1, i))
    BY <2>1, Zenon
  <2> QED
    BY <1>1, <2>5, <2>6 DEF WaitInv, ChildrenAtPrompt
<1> QED
  BY <1>2, <1>3, <1>4, <1>5 DEF ShellInv

(* What MakePipe does, for a built-in and for a fork.                      *)
LEMMA MadePipe ==
  ASSUME TypeOK, NameInv, Turn, MakePipe
  PROVE  /\ held' = held \cup EndsOf(Made)
         /\ DOMAIN buffer' = DOMAIN buffer \cup Made
         /\ buffer' \in [DOMAIN buffer' -> 0 .. PipeCapacity]
         /\ \A pipe \in DOMAIN buffer : buffer'[pipe] = buffer[pipe]
         /\ \A pipe \in Made : buffer'[pipe] = 0
         /\ held' \subseteq EndsOf(DOMAIN buffer')
         /\ EndsOf(DOMAIN buffer) \subseteq EndsOf(DOMAIN buffer')
<1>1. PipeCapacity \in Nat /\ 0 \in 0 .. PipeCapacity
  <2>1. PipeCapacity \in Nat
    BY ShellAssumption
  <2> QED
    BY <2>1
<1>2. buffer' = [pipe \in DOMAIN buffer \cup Made |-> IF pipe \in Made THEN 0 ELSE buffer[pipe]]
  BY DEF MakePipe
<1>3. Made \cap DOMAIN buffer = {}
  BY TurnFacts
<1>4. \A pipe \in DOMAIN buffer : buffer[pipe] \in 0 .. PipeCapacity
  BY DEF TypeOK
<1>5. DOMAIN buffer' = DOMAIN buffer \cup Made
  BY <1>2
<1>6. buffer' \in [DOMAIN buffer' -> 0 .. PipeCapacity]
  BY <1>1, <1>2, <1>4, <1>5
<1>7. \A pipe \in DOMAIN buffer : buffer'[pipe] = buffer[pipe]
  BY <1>2, <1>3
<1>8. \A pipe \in Made : buffer'[pipe] = 0
  BY <1>2
<1>9. held' = held \cup EndsOf(Made) /\ held \subseteq EndsOf(DOMAIN buffer)
  BY DEF MakePipe, EndsOf, TypeOK
<1>10. EndsOf(DOMAIN buffer') = EndsOf(DOMAIN buffer) \cup EndsOf(Made)
  BY <1>5, EndsOfUnion
<1> QED
  BY <1>5, <1>6, <1>7, <1>8, <1>9, <1>10

(* A built-in of the shell: its pipe is lost.                              *)
LEMMA BuiltInKeeps ==
  ASSUME ShellInv, built_in_func
  PROVE  ShellInv'
<1>1. /\ pc = "loop" /\ i \in 1 .. Len(cmds) /\ i' = i + 1 /\ Len(cmds) \in Nat /\ i \in Nat
      /\ Turn /\ MakePipe /\ UNCHANGED <<pc, line, cmds, prev_pipe, skip_cmd, child>>
  BY TurnFacts DEF built_in_func, ShellInv, Turn
<1>2. /\ held' = held \cup EndsOf(Made)
      /\ DOMAIN buffer' = DOMAIN buffer \cup Made
      /\ buffer' \in [DOMAIN buffer' -> 0 .. PipeCapacity]
      /\ held' \subseteq EndsOf(DOMAIN buffer')
      /\ EndsOf(DOMAIN buffer) \subseteq EndsOf(DOMAIN buffer')
  BY <1>1, MadePipe DEF ShellInv
<1>3. /\ pipefd \in (1 .. line) \X Nat /\ pipefd[1] = line /\ pipefd[2] = i
      /\ pipefd \notin DOMAIN child /\ (Made = {} \/ Made = {pipefd})
  BY <1>1, TurnFacts DEF ShellInv
<1>4. TypeOK'
  <2>1. i' \in 1 .. Len(cmds') + 1
    BY <1>1
  <2>2. ToSet(prev_pipe') \subseteq {line'} \X (1 .. Len(cmds')) /\ ToSet(prev_pipe') \subseteq DOMAIN buffer'
    BY <1>1, <1>2 DEF ShellInv, TypeOK
  <2>3. \A pipe \in DOMAIN buffer' : buffer'[pipe] \in 0 .. PipeCapacity
    BY <1>2
  <2>4. \A c \in DOMAIN child' :
          /\ child'[c].state \in {"forked", "running", "zombie", "reaped"}
          /\ child'[c].in \in DOMAIN buffer' \cup {Terminal}
          /\ child'[c].out \in DOMAIN buffer' \cup {Terminal, File}
          /\ child'[c].open \subseteq EndsOf(DOMAIN buffer')
    BY <1>1, <1>2 DEF ShellInv, TypeOK, EndsOf
  <2>5. cmds' \in Seq(Command) /\ skip_cmd' \in BOOLEAN /\ pc' = "loop" /\ line' \in 0 .. MaxLines
    BY <1>1 DEF ShellInv, TypeOK
  <2> QED
    BY <1>2, <2>1, <2>2, <2>3, <2>4, <2>5 DEF TypeOK, EndsOf
<1>5. NameInv'
  <2>1. \A c \in DOMAIN child \cup DOMAIN buffer : c \in (1 .. line) \X Nat /\ (c[1] = line => c[2] < i)
    BY <1>1 DEF ShellInv, NameInv
  <2>2. \A c \in DOMAIN child \cup DOMAIN buffer : c[2] \in Nat /\ (c[1] = line => c[2] < i + 1)
    BY <1>1, <2>1
  <2>3. \A c \in DOMAIN child' \cup DOMAIN buffer' : c \in (1 .. line) \X Nat /\ (c[1] = line => c[2] < i + 1)
    BY <1>1, <1>2, <1>3, <2>1, <2>2
  <2> QED
    BY <1>1, <1>2, <2>3 DEF ShellInv, NameInv
<1>6. HeldInv'
  <2>1. Lost' = Lost \cup Made
    BY <1>1, <1>2, <1>3 DEF Lost
  <2>2. Lost' \cup ToSet(prev_pipe') = (Lost \cup ToSet(prev_pipe)) \cup Made
    BY <1>1, <2>1
  <2>3. held' = EndsOf(Lost' \cup ToSet(prev_pipe'))
    <3>1. held = EndsOf(Lost \cup ToSet(prev_pipe))
      BY <1>1 DEF ShellInv, HeldInv
    <3>2. EndsOf((Lost \cup ToSet(prev_pipe)) \cup Made) = EndsOf(Lost \cup ToSet(prev_pipe)) \cup EndsOf(Made)
      BY EndsOfUnion
    <3> QED
      BY <1>2, <2>2, <3>1, <3>2
  <2> QED
    BY <1>1, <2>3 DEF ShellInv, HeldInv
<1>7. WaitInv' /\ ChildrenAtPrompt'
  <2>1. Unreaped' = Unreaped /\ Unwaited' = Unwaited /\ Counted(1, i - 1)' = Counted(1, i)
    BY <1>1 DEF Unreaped, Unwaited, Counted
  <2>2. Cardinality(Counted(1, i - 1)) =< Cardinality(Counted(1, i))
    BY <1>1, CountedMore DEF ShellInv
  <2>3. Cardinality(Unreaped) =< Cardinality(Unwaited) + Cardinality(Counted(1, i - 1))
    BY <1>1 DEF ShellInv, WaitInv
  <2>4. /\ Cardinality(Unreaped) \in Nat /\ Cardinality(Unwaited) \in Nat
        /\ Cardinality(Counted(1, i - 1)) \in Nat /\ Cardinality(Counted(1, i)) \in Nat
    <3>1. NameInv /\ 1 \in Nat /\ i \in Int /\ i - 1 \in Int
      BY <1>1 DEF ShellInv
    <3> QED
      BY <3>1, Counting
  <2>5. Cardinality(Unreaped) =< Cardinality(Unwaited) + Cardinality(Counted(1, i))
    BY <2>2, <2>3, <2>4
  <2>6. /\ Cardinality(Unreaped)' = Cardinality(Unreaped)
        /\ Cardinality(Unwaited)' = Cardinality(Unwaited)
        /\ Cardinality(Counted(1, i - 1))' = Cardinality(Counted(1, i))
    BY <2>1, Zenon
  <2> QED
    BY <1>1, <2>5, <2>6 DEF WaitInv, ChildrenAtPrompt
<1> QED
  BY <1>4, <1>5, <1>6, <1>7 DEF ShellInv

(* The pipe that a command reads from is one of the line.                  *)
LEMMA StdinFacts ==
  ASSUME TypeOK, HeldInv
  PROVE  /\ Stdin = Terminal \/ Stdin \in ToSet(prev_pipe)
         /\ prev_pipe # <<>> => Last(prev_pipe) \in ToSet(prev_pipe)
<1>1. ASSUME prev_pipe # <<>> PROVE Last(prev_pipe) \in ToSet(prev_pipe)
  <2>1. Len(prev_pipe) \in Nat \ {0} /\ Last(prev_pipe) = prev_pipe[Len(prev_pipe)]
    BY <1>1, LastProperties DEF HeldInv
  <2>2. DOMAIN prev_pipe = 1 .. Len(prev_pipe)
    BY LenProperties DEF HeldInv
  <2> QED
    BY <2>1, <2>2 DEF ToSet
<1>2. CASE pipe_disconnected \/ prev_pipe = <<>>
  BY <1>1, <1>2 DEF Stdin
<1>3. CASE ~(pipe_disconnected \/ prev_pipe = <<>>)
  BY <1>1, <1>3 DEF Stdin
<1> QED
  BY <1>1, <1>2, <1>3

(* The process that a fork starts.                                         *)
LEMMA ForkedProc ==
  ASSUME ShellInv, fork
  PROVE  /\ Forked \in Proc
         /\ Forked.in \in DOMAIN buffer \cup {Terminal}
         /\ Forked.out \in DOMAIN buffer' \cup {Terminal, File}
         /\ Forked.open = held' /\ Forked.state = "forked" /\ Forked.got = 0 /\ Forked.put = 0
         /\ Forked.waited <=> \A k \in 1 .. i : ~cmds[k].background
         /\ Forked.in = Stdin /\ Forked.out = Stdout /\ Forked.connected = ~pipe_disconnected
         /\ Forked.closes = Closed /\ Forked.exe = executable_path
<1>1. TypeOK /\ NameInv /\ HeldInv /\ Turn /\ MakePipe
  BY DEF fork, ShellInv
<1>2. ToSet(prev_pipe) \subseteq DOMAIN buffer /\ DOMAIN buffer \subseteq Pipe
  <2>1. \A c \in DOMAIN buffer : c \in (1 .. line) \X Nat
    BY <1>1 DEF NameInv
  <2>2. line \in Nat
    BY <1>1, TurnFacts
  <2> QED
    BY <1>1, <2>1, <2>2 DEF TypeOK, Pipe
<1>3. Stdin \in DOMAIN buffer \cup {Terminal}
  BY <1>1, <1>2, StdinFacts
<1>4. /\ DOMAIN buffer' = DOMAIN buffer \cup Made /\ held' \subseteq EndsOf(DOMAIN buffer')
      /\ pipefd \in Pipe /\ (Made = {} \/ Made = {pipefd}) /\ executable_path \in Seq(Char)
  BY <1>1, MadePipe, TurnFacts
<1>5. Stdout \in DOMAIN buffer' \cup {Terminal, File}
  BY <1>4 DEF Stdout, Made
<1>6. Terminal \in Pipe /\ File \in Pipe
  BY DEF Terminal, File, Pipe
<1>7. DOMAIN buffer' \subseteq Pipe /\ Stdin \in Pipe /\ Stdout \in Pipe
  BY <1>2, <1>3, <1>4, <1>5, <1>6
<1>8. held' \in SUBSET End
  BY <1>4, <1>7 DEF EndsOf, Ends, End
<1>9. Closed \in SUBSET End
  BY <1>2 DEF Closed, End
<1>10. pipe_disconnected \in BOOLEAN
  BY DEF pipe_disconnected
<1>11. (\A k \in 1 .. i : ~cmds[k].background) \in BOOLEAN
  OBVIOUS
<1>12. /\ Forked.open = held' /\ Forked.state = "forked" /\ Forked.got = 0 /\ Forked.put = 0
       /\ Forked.in = Stdin /\ Forked.out = Stdout /\ Forked.connected = ~pipe_disconnected
       /\ Forked.closes = Closed /\ Forked.exe = executable_path
  BY DEF Forked
<1>13. Forked.waited <=> \A k \in 1 .. i : ~cmds[k].background
  BY DEF Forked
<1>14. Forked \in Proc
  BY <1>4, <1>7, <1>8, <1>9, <1>10, <1>11 DEF Forked, Proc
<1> QED
  BY <1>3, <1>5, <1>12, <1>13, <1>14

(* What a fork changes.                                                    *)
LEMMA ForkFacts ==
  ASSUME ShellInv, fork
  PROVE  /\ pc = "loop" /\ i \in 1 .. Len(cmds) /\ i' = i + 1 /\ Len(cmds) \in Nat /\ i \in Nat
         /\ UNCHANGED <<pc, line, cmds>> /\ skip_cmd' = (cmds[i].redir \in outputs)
         /\ DOMAIN child' = DOMAIN child \cup {pipefd} /\ pipefd \notin DOMAIN child
         /\ child' \in [DOMAIN child' -> Proc]
         /\ child'[pipefd] = Forked /\ \A c \in DOMAIN child : child'[c] = child[c]
         /\ prev_pipe' = prev_pipe \o SetToSeq(Made)
         /\ prev_pipe' \in Seq(DOMAIN child') /\ ToSet(prev_pipe') = ToSet(prev_pipe) \cup Made
<1>1. Turn /\ MakePipe /\ TypeOK /\ NameInv /\ HeldInv
  BY DEF fork, ShellInv
<1>2. /\ pc = "loop" /\ i \in 1 .. Len(cmds) /\ i' = i + 1 /\ Len(cmds) \in Nat /\ i \in Nat
      /\ UNCHANGED <<pc, line, cmds>> /\ skip_cmd' = (cmds[i].redir \in outputs)
      /\ prev_pipe' = prev_pipe \o SetToSeq(Made)
  BY <1>1, TurnFacts DEF fork, Turn
<1>3. pipefd \notin DOMAIN child /\ (Made = {} \/ Made = {pipefd})
  BY <1>1, TurnFacts
<1>4. child' = [c \in DOMAIN child \cup {pipefd} |-> IF c = pipefd THEN Forked ELSE child[c]]
  BY DEF fork, pipefd
<1>5. Forked \in Proc
  BY ForkedProc
<1>6. child \in [DOMAIN child -> Proc]
  BY <1>1 DEF NameInv
<1>7. DOMAIN child' = DOMAIN child \cup {pipefd} /\ child'[pipefd] = Forked
  BY <1>4
<1>8. \A c \in DOMAIN child : child'[c] = child[c]
  BY <1>3, <1>4
<1>9. child' \in [DOMAIN child' -> Proc]
  BY <1>4, <1>5, <1>6, <1>7
<1>10. prev_pipe' \in Seq(DOMAIN child \cup Made) /\ ToSet(prev_pipe') = ToSet(prev_pipe) \cup Made
  <2>1. prev_pipe \in Seq(DOMAIN child)
    BY <1>1 DEF HeldInv
  <2>2. /\ prev_pipe \o SetToSeq(Made) \in Seq(DOMAIN child \cup Made)
        /\ ToSet(prev_pipe \o SetToSeq(Made)) = ToSet(prev_pipe) \cup Made
    <3>1. CASE Made = {}
      <4>1. prev_pipe \o SetToSeq({}) = prev_pipe
        BY <2>1, PrevPipe
      <4>2. prev_pipe \o SetToSeq(Made) = prev_pipe
        BY <3>1, <4>1, Zenon
      <4> QED
        BY <2>1, <3>1, <4>2
    <3>2. CASE Made = {pipefd}
      <4>1. /\ prev_pipe \o SetToSeq({pipefd}) \in Seq(DOMAIN child \cup {pipefd})
            /\ ToSet(prev_pipe \o SetToSeq({pipefd})) = ToSet(prev_pipe) \cup {pipefd}
        BY <2>1, PrevPipe
      <4> QED
        BY <3>2, <4>1, Zenon
    <3> QED
      BY <1>3, <3>1, <3>2
  <2> QED
    BY <1>2, <2>2, Zenon
<1>11. DOMAIN child \cup Made \subseteq DOMAIN child'
  BY <1>3, <1>7
<1>12. prev_pipe' \in Seq(DOMAIN child')
  BY <1>10, <1>11, SeqDef
<1> QED
  BY <1>2, <1>3, <1>7, <1>8, <1>9, <1>10, <1>12

(* The sets of processes that a fork adds one to.                          *)
LEMMA ForkCounts ==
  ASSUME ShellInv, fork
  PROVE  Cardinality(Unreaped)' =< Cardinality(Unwaited)' + Cardinality(Counted(1, i - 1))'
<1>1. /\ pc = "loop" /\ i' = i + 1 /\ i \in Nat /\ cmds' = cmds
      /\ DOMAIN child' = DOMAIN child \cup {pipefd} /\ pipefd \notin DOMAIN child
      /\ child'[pipefd] = Forked /\ \A c \in DOMAIN child : child'[c] = child[c]
  BY ForkFacts
<1>2. /\ Forked.state = "forked"
      /\ Forked.waited <=> \A k \in 1 .. i : ~cmds[k].background
  BY ForkedProc
<1>3. /\ Cardinality(Unreaped) \in Nat /\ Cardinality(Unwaited) \in Nat
      /\ Cardinality(Counted(1, i - 1)) \in Nat /\ Cardinality(Counted(1, i)) \in Nat
      /\ IsFiniteSet(Unreaped) /\ IsFiniteSet(Unwaited)
  <2>1. NameInv /\ 1 \in Nat /\ i \in Int /\ i - 1 \in Int
    BY <1>1 DEF ShellInv
  <2> QED
    BY <2>1, Counting
<1>4. Cardinality(Unreaped) =< Cardinality(Unwaited) + Cardinality(Counted(1, i - 1))
  BY <1>1 DEF ShellInv, WaitInv
<1>5. Unreaped' = Unreaped \cup {pipefd} /\ pipefd \notin Unreaped /\ pipefd \notin Unwaited
  BY <1>1, <1>2 DEF Unreaped, Unwaited
<1>6. Cardinality(Unreaped)' = Cardinality(Unreaped) + 1
  <2>1. Cardinality(Unreaped \cup {pipefd}) = Cardinality(Unreaped) + 1
    BY <1>3, <1>5, FS_AddElement
  <2> QED
    BY <1>5, <2>1, Zenon
<1>7. Counted(1, i - 1)' = Counted(1, i)
  BY <1>1 DEF Counted
<1>8. Cardinality(Counted(1, i - 1))' = Cardinality(Counted(1, i))
  BY <1>7, Zenon
<1>9. PICK k \in Nat : k = i - 1
  <2>1. i - 1 \in Nat
    BY ForkFacts
  <2> QED
    BY <2>1
<1>10. k + 1 = i /\ NameInv
  BY <1>1, <1>9 DEF ShellInv
<1>11. CASE Forked.waited
  <2>1. Unwaited' = Unwaited
    BY <1>1, <1>11 DEF Unwaited
  <2>2. Cardinality(Counted(1, k + 1)) = Cardinality(Counted(1, k)) + 1
    BY <1>2, <1>10, <1>11, CountedMore
  <2>3. Cardinality(Unwaited)' = Cardinality(Unwaited)
    BY <2>1, Zenon
  <2> QED
    BY <1>3, <1>4, <1>6, <1>8, <1>9, <1>10, <2>2, <2>3
<1>12. CASE ~Forked.waited
  <2>1. Unwaited' = Unwaited \cup {pipefd}
    BY <1>1, <1>12 DEF Unwaited
  <2>2. Cardinality(Unwaited \cup {pipefd}) = Cardinality(Unwaited) + 1
    BY <1>3, <1>5, FS_AddElement
  <2>3. Cardinality(Unwaited)' = Cardinality(Unwaited) + 1
    BY <2>1, <2>2, Zenon
  <2>4. Cardinality(Counted(1, k)) =< Cardinality(Counted(1, k + 1))
    BY <1>10, CountedMore
  <2> QED
    BY <1>3, <1>4, <1>6, <1>8, <1>9, <1>10, <2>3, <2>4
<1> QED
  BY <1>11, <1>12

(* A fork. *)
LEMMA ForkKeeps ==
  ASSUME ShellInv, fork
  PROVE  ShellInv'
<1>1. /\ pc = "loop" /\ i \in 1 .. Len(cmds) /\ i' = i + 1 /\ Len(cmds) \in Nat /\ i \in Nat
      /\ UNCHANGED <<pc, line, cmds>> /\ skip_cmd' \in BOOLEAN
      /\ DOMAIN child' = DOMAIN child \cup {pipefd} /\ pipefd \notin DOMAIN child
      /\ child' \in [DOMAIN child' -> Proc]
      /\ child'[pipefd] = Forked /\ \A c \in DOMAIN child : child'[c] = child[c]
      /\ prev_pipe' \in Seq(DOMAIN child') /\ ToSet(prev_pipe') = ToSet(prev_pipe) \cup Made
  BY ForkFacts
<1>2. Turn /\ MakePipe /\ TypeOK /\ NameInv /\ HeldInv
  BY DEF fork, ShellInv
<1>3. /\ held' = held \cup EndsOf(Made)
      /\ DOMAIN buffer' = DOMAIN buffer \cup Made
      /\ buffer' \in [DOMAIN buffer' -> 0 .. PipeCapacity]
      /\ held' \subseteq EndsOf(DOMAIN buffer')
      /\ EndsOf(DOMAIN buffer) \subseteq EndsOf(DOMAIN buffer')
  BY <1>2, MadePipe
<1>4. /\ pipefd \in (1 .. line) \X Nat /\ pipefd[1] = line /\ pipefd[2] = i
      /\ pipefd \notin DOMAIN buffer /\ (Made = {} \/ Made = {pipefd})
  BY <1>2, TurnFacts
<1>5. /\ Forked.in \in DOMAIN buffer \cup {Terminal}
      /\ Forked.out \in DOMAIN buffer' \cup {Terminal, File}
      /\ Forked.open = held' /\ Forked.state = "forked"
  BY ForkedProc
<1>6. TypeOK'
  <2>1. i' \in 1 .. Len(cmds') + 1
    BY <1>1
  <2>2. pipefd \in {line} \X (1 .. Len(cmds))
    BY <1>1, <1>4 DEF pipefd
  <2>3. ToSet(prev_pipe') \subseteq {line'} \X (1 .. Len(cmds')) /\ ToSet(prev_pipe') \subseteq DOMAIN buffer'
    BY <1>1, <1>2, <1>3, <1>4, <2>2 DEF TypeOK
  <2>4. \A pipe \in DOMAIN buffer' : buffer'[pipe] \in 0 .. PipeCapacity
    BY <1>3
  <2>5. \A c \in DOMAIN child :
          /\ child'[c].state \in {"forked", "running", "zombie", "reaped"}
          /\ child'[c].in \in DOMAIN buffer' \cup {Terminal}
          /\ child'[c].out \in DOMAIN buffer' \cup {Terminal, File}
          /\ child'[c].open \subseteq EndsOf(DOMAIN buffer')
    BY <1>1, <1>2, <1>3 DEF TypeOK, EndsOf
  <2>6. \A c \in DOMAIN child' :
          /\ child'[c].state \in {"forked", "running", "zombie", "reaped"}
          /\ child'[c].in \in DOMAIN buffer' \cup {Terminal}
          /\ child'[c].out \in DOMAIN buffer' \cup {Terminal, File}
          /\ child'[c].open \subseteq EndsOf(DOMAIN buffer')
    BY <1>1, <1>3, <1>5, <2>5
  <2>7. cmds' \in Seq(Command) /\ pc' = "loop" /\ line' \in 0 .. MaxLines
    BY <1>1, <1>2 DEF TypeOK
  <2> QED
    BY <1>1, <1>3, <2>1, <2>3, <2>4, <2>6, <2>7 DEF TypeOK, EndsOf
<1>7. NameInv'
  <2>1. \A c \in DOMAIN child \cup DOMAIN buffer : c \in (1 .. line) \X Nat /\ (c[1] = line => c[2] < i)
    BY <1>1, <1>2 DEF NameInv
  <2>2. \A c \in DOMAIN child \cup DOMAIN buffer : c[2] \in Nat /\ (c[1] = line => c[2] < i + 1)
    BY <1>1, <2>1
  <2>3. \A c \in DOMAIN child' \cup DOMAIN buffer' : c \in (1 .. line) \X Nat /\ (c[1] = line => c[2] < i + 1)
    BY <1>1, <1>3, <1>4, <2>1, <2>2
  <2>4. IsFiniteSet(DOMAIN child')
    BY <1>1, <1>2, FS_AddElement DEF NameInv
  <2> QED
    BY <1>1, <1>2, <1>3, <2>3, <2>4 DEF NameInv
<1>8. HeldInv'
  <2>1. Lost' \cup ToSet(prev_pipe') = (Lost \cup ToSet(prev_pipe)) \cup Made
    BY <1>1, <1>3, <1>4 DEF Lost
  <2>2. held = EndsOf(Lost \cup ToSet(prev_pipe))
    BY <1>1, <1>2 DEF HeldInv
  <2>3. EndsOf((Lost \cup ToSet(prev_pipe)) \cup Made) = EndsOf(Lost \cup ToSet(prev_pipe)) \cup EndsOf(Made)
    BY EndsOfUnion
  <2>4. held' = EndsOf(Lost' \cup ToSet(prev_pipe'))
    BY <1>3, <2>1, <2>2, <2>3
  <2> QED
    BY <1>1, <2>4 DEF HeldInv
<1>9. WaitInv' /\ ChildrenAtPrompt'
  BY <1>1, ForkCounts DEF WaitInv, ChildrenAtPrompt
<1> QED
  BY <1>6, <1>7, <1>8, <1>9 DEF ShellInv

(* The shell closes the pipes of the line.                                 *)
LEMMA ClosePipesKeeps ==
  ASSUME ShellInv, closePipes
  PROVE  ShellInv'
<1>1. /\ pc = "loop" /\ pc' = "wait" /\ i > Len(cmds) /\ i' = 1 /\ Len(cmds) \in Nat
      /\ held' = held \ EndsOf(ToSet(prev_pipe))
      /\ UNCHANGED <<line, cmds, prev_pipe, skip_cmd, child, buffer>>
  <2>1. cmds \in Seq(Command)
    BY DEF ShellInv, TypeOK
  <2> QED
    BY <2>1, LenProperties DEF closePipes, EndsOf
<1>2. TypeOK'
  <2>1. i' \in 1 .. Len(cmds') + 1
    BY <1>1
  <2>2. held' \subseteq held
    BY <1>1
  <2> QED
    BY <1>1, <2>1, <2>2 DEF ShellInv, TypeOK
<1>3. NameInv'
  BY <1>1 DEF ShellInv, NameInv
<1>4. HeldInv'
  <2>1. prev_pipe \in Seq(DOMAIN child)
    BY DEF ShellInv, HeldInv
  <2>2. ToSet(prev_pipe) \subseteq DOMAIN child
    BY <2>1, LenProperties, ElementOfSeq DEF ToSet
  <2>3. Lost \cap ToSet(prev_pipe) = {}
    BY <2>2 DEF Lost
  <2>4. held = EndsOf(Lost \cup ToSet(prev_pipe))
    BY <1>1 DEF ShellInv, HeldInv
  <2>5. held' = EndsOf(Lost)
    BY <1>1, <2>3, <2>4, EndsOfUnion
  <2>6. Lost' = Lost
    BY <1>1 DEF Lost
  <2> QED
    BY <1>1, <2>1, <2>5, <2>6 DEF HeldInv
<1>5. WaitInv' /\ ChildrenAtPrompt'
  <2>1. i - 1 = Len(cmds)
    BY <1>1 DEF ShellInv, TypeOK
  <2>2. Unreaped' = Unreaped /\ Unwaited' = Unwaited /\ Counted(i, Len(cmds))' = Counted(1, i - 1)
    BY <1>1, <2>1 DEF Unreaped, Unwaited, Counted
  <2>3. Cardinality(Unreaped) =< Cardinality(Unwaited) + Cardinality(Counted(1, i - 1))
    BY <1>1 DEF ShellInv, WaitInv
  <2>4. Cardinality(Unreaped)' =< Cardinality(Unwaited)' + Cardinality(Counted(i, Len(cmds)))'
    BY <2>2, <2>3, Zenon
  <2>5. \A m \in 1 .. i' - 1 : FALSE
    BY <1>1
  <2> QED
    BY <1>1, <2>4, <2>5 DEF WaitInv, ChildrenAtPrompt
<1> QED
  BY <1>2, <1>3, <1>4, <1>5 DEF ShellInv

(* A wait takes one child, whichever, and is one wait less to come.        *)
LEMMA WaitpidKeeps ==
  ASSUME ShellInv, waitpid
  PROVE  ShellInv'
<1>1. /\ pc = "wait" /\ i \in 1 .. Len(cmds) /\ ~cmds[i].background /\ i' = i + 1
      /\ Len(cmds) \in Nat /\ i \in Nat
      /\ UNCHANGED <<pc, line, cmds, prev_pipe, skip_cmd, held, buffer>>
  <2>1. cmds \in Seq(Command) /\ i \in 1 .. Len(cmds) + 1
    BY DEF ShellInv, TypeOK
  <2> QED
    BY <2>1, LenProperties DEF waitpid, Waits
<1>2. /\ DOMAIN child' = DOMAIN child /\ child' \in [DOMAIN child -> Proc]
      /\ \A c \in DOMAIN child :
            /\ child'[c].state \in {"forked", "running", "zombie", "reaped"}
            /\ child'[c].waited = child[c].waited /\ child'[c].open = child[c].open
            /\ child'[c].in = child[c].in /\ child'[c].out = child[c].out
      /\ \/ Unreaped = {} /\ Unreaped' = {}
         \/ \E c \in Unreaped : Unreaped' = Unreaped \ {c}
  <2>1. child \in [DOMAIN child -> Proc]
    BY DEF ShellInv, NameInv
  <2>2. CASE Unreaped = {} /\ child' = child
    BY <2>1, <2>2 DEF Proc, Unreaped
  <2>3. CASE \E c \in Unreaped \ Running : child' = [child EXCEPT ![c].state = "reaped"]
    <3>0. PICK c \in Unreaped \ Running : child' = [child EXCEPT ![c].state = "reaped"]
      BY <2>3
    <3>1. c \in DOMAIN child /\ child[c] \in Proc
      BY <2>1, <3>0 DEF Unreaped
    <3>2. PICK new : new = [child[c] EXCEPT !.state = "reaped"]
      OBVIOUS
    <3>3. child' = [child EXCEPT ![c] = new]
      BY <3>0, <3>2
    <3>4. new \in Proc /\ new.state = "reaped" /\ new.waited = child[c].waited
          /\ new.open = child[c].open /\ new.in = child[c].in /\ new.out = child[c].out
      BY <3>1, <3>2 DEF Proc
    <3>5. /\ DOMAIN child' = DOMAIN child /\ child' \in [DOMAIN child -> Proc]
          /\ child'[c] = new /\ \A d \in DOMAIN child \ {c} : child'[d] = child[d]
      BY <2>1, <3>1, <3>3, <3>4
    <3>6. Unreaped' = Unreaped \ {c}
      BY <3>0, <3>4, <3>5 DEF Unreaped
    <3>7. \A d \in DOMAIN child :
            /\ child'[d].state \in {"forked", "running", "zombie", "reaped"}
            /\ child'[d].waited = child[d].waited /\ child'[d].open = child[d].open
            /\ child'[d].in = child[d].in /\ child'[d].out = child[d].out
      BY <2>1, <3>4, <3>5 DEF Proc
    <3> QED
      BY <3>0, <3>5, <3>6, <3>7
  <2> QED
    BY <2>2, <2>3 DEF waitpid
<1>3. TypeOK'
  <2>1. i' \in 1 .. Len(cmds') + 1
    BY <1>1
  <2>2. cmds' \in Seq(Command) /\ skip_cmd' \in BOOLEAN /\ pc' = "wait" /\ line' \in 0 .. MaxLines
    BY <1>1 DEF ShellInv, TypeOK
  <2>3. /\ ToSet(prev_pipe') \subseteq {line'} \X (1 .. Len(cmds')) /\ ToSet(prev_pipe') \subseteq DOMAIN buffer'
        /\ held' \subseteq EndsOf(DOMAIN buffer')
        /\ \A pipe \in DOMAIN buffer' : buffer'[pipe] \in 0 .. PipeCapacity
    BY <1>1 DEF ShellInv, TypeOK, EndsOf
  <2>4. \A c \in DOMAIN child' :
          /\ child'[c].state \in {"forked", "running", "zombie", "reaped"}
          /\ child'[c].in \in DOMAIN buffer' \cup {Terminal}
          /\ child'[c].out \in DOMAIN buffer' \cup {Terminal, File}
          /\ child'[c].open \subseteq EndsOf(DOMAIN buffer')
    BY <1>1, <1>2 DEF ShellInv, TypeOK, EndsOf
  <2> QED
    BY <2>1, <2>2, <2>3, <2>4 DEF TypeOK, EndsOf
<1>4. NameInv'
  BY <1>1, <1>2 DEF ShellInv, NameInv
<1>5. HeldInv'
  BY <1>1, <1>2 DEF ShellInv, HeldInv, Lost
<1>6. WaitInv' /\ ChildrenAtPrompt'
  <2>1. /\ Cardinality(Unreaped) \in Nat /\ Cardinality(Unwaited) \in Nat /\ IsFiniteSet(Unreaped)
        /\ Cardinality(Counted(i, Len(cmds))) \in Nat /\ IsFiniteSet(Counted(i, Len(cmds)))
        /\ Cardinality(Counted(i + 1, Len(cmds))) \in Nat /\ IsFiniteSet(Counted(i + 1, Len(cmds)))
    <3>1. NameInv /\ i \in Nat /\ i + 1 \in Nat /\ Len(cmds) \in Int
      BY <1>1 DEF ShellInv
    <3> QED
      BY <3>1, Counting
  <2>2. Unwaited' = Unwaited
    BY <1>2 DEF Unwaited
  <2>3. \A m \in 1 .. i : ~cmds[m].background
    BY <1>1 DEF ShellInv, WaitInv
  <2>4. Counted(i, Len(cmds)) = Counted(i + 1, Len(cmds)) \cup {i} /\ i \notin Counted(i + 1, Len(cmds))
    BY <1>1, <2>3 DEF Counted
  <2>5. Cardinality(Counted(i, Len(cmds))) = Cardinality(Counted(i + 1, Len(cmds))) + 1
    <3>1. Cardinality(Counted(i + 1, Len(cmds)) \cup {i}) = Cardinality(Counted(i + 1, Len(cmds))) + 1
      BY <2>1, <2>4, FS_AddElement
    <3> QED
      BY <2>4, <3>1, Zenon
  <2>6. Cardinality(Unreaped) =< Cardinality(Unwaited) + Cardinality(Counted(i, Len(cmds)))
    BY <1>1 DEF ShellInv, WaitInv
  <2>7. /\ Cardinality(Unwaited)' = Cardinality(Unwaited)
        /\ Cardinality(Counted(i, Len(cmds)))' = Cardinality(Counted(i + 1, Len(cmds)))
    <3>1. Counted(i, Len(cmds))' = Counted(i + 1, Len(cmds))
      BY <1>1 DEF Counted
    <3> QED
      BY <2>2, <3>1, Zenon
  <2>8. Cardinality(Unreaped)' =< Cardinality(Unwaited)' + Cardinality(Counted(i, Len(cmds)))'
    <3>1. CASE Unreaped' = {}
      <4>1. Cardinality(Unreaped)' = 0
        BY <3>1, FS_EmptySet, Zenon
      <4> QED
        BY <2>1, <2>7, <4>1
    <3>2. ASSUME NEW c \in Unreaped, Unreaped' = Unreaped \ {c}
          PROVE  Cardinality(Unreaped)' =< Cardinality(Unwaited)' + Cardinality(Counted(i, Len(cmds)))'
      <4>1. Cardinality(Unreaped \ {c}) = Cardinality(Unreaped) - 1
        BY <2>1, <3>2, FS_RemoveElement
      <4>2. Cardinality(Unreaped)' = Cardinality(Unreaped) - 1
        BY <3>2, <4>1, Zenon
      <4> QED
        BY <2>1, <2>5, <2>6, <2>7, <4>2
    <3> QED
      BY <1>2, <3>1, <3>2
  <2>9. \A m \in 1 .. i' - 1 : ~cmds'[m].background
    BY <1>1, <2>3
  <2> QED
    BY <1>1, <2>8, <2>9 DEF WaitInv, ChildrenAtPrompt
<1> QED
  BY <1>3, <1>4, <1>5, <1>6 DEF ShellInv

(* No wait is left when the shell prompts again.                           *)
LEMMA PromptKeeps ==
  ASSUME ShellInv, prompt
  PROVE  ShellInv'
<1>1. /\ pc = "wait" /\ pc' = "prompt" /\ (i > Len(cmds) \/ cmds[i].background)
      /\ Len(cmds) \in Nat /\ i \in Nat \ {0} /\ i =< Len(cmds) + 1
      /\ UNCHANGED <<line, cmds, i, prev_pipe, skip_cmd, held, child, buffer>>
  <2>1. cmds \in Seq(Command) /\ i \in 1 .. Len(cmds) + 1
    BY DEF ShellInv, TypeOK
  <2> QED
    BY <2>1, LenProperties DEF prompt, Waits
<1>2. TypeOK'
  BY <1>1 DEF ShellInv, TypeOK
<1>3. NameInv'
  BY <1>1 DEF ShellInv, NameInv
<1>4. HeldInv'
  BY <1>1 DEF ShellInv, HeldInv, Lost
<1>5. WaitInv' /\ ChildrenAtPrompt'
  <2>1. Counted(i, Len(cmds)) = {}
    BY <1>1 DEF Counted
  <2>2. Cardinality(Counted(i, Len(cmds))) = 0
    BY <2>1, FS_EmptySet, Zenon
  <2>3. Cardinality(Unreaped) =< Cardinality(Unwaited) + Cardinality(Counted(i, Len(cmds)))
    BY <1>1 DEF ShellInv, WaitInv
  <2>4. Cardinality(Unwaited) \in Nat
    BY Counting DEF ShellInv
  <2>5. Cardinality(Unreaped) =< Cardinality(Unwaited)
    BY <2>2, <2>3, <2>4
  <2>6. Unreaped' = Unreaped /\ Unwaited' = Unwaited
    BY <1>1 DEF Unreaped, Unwaited
  <2>7. Cardinality(Unreaped)' =< Cardinality(Unwaited)'
    BY <2>5, <2>6, Zenon
  <2> QED
    BY <1>1, <2>7 DEF WaitInv, ChildrenAtPrompt, Unwaited
<1> QED
  BY <1>2, <1>3, <1>4, <1>5 DEF ShellInv

(* Every step keeps ShellInv.                                              *)
LEMMA NextShell ==
  ASSUME ShellInv, [Next]_vars
  PROVE  ShellInv'
<1>1. ASSUME NEW text \in Lines, readline(text) PROVE ShellInv'
  BY <1>1, ReadlineKeeps
<1>2. CASE endOfInput
  BY <1>2, ExitKeeps DEF endOfInput
<1>3. CASE shell
  <2>1. CASE skip
    BY <2>1, SkipKeeps
  <2>2. CASE quit
    BY <2>2, ExitKeeps DEF quit
  <2>8. CASE abort
    BY <2>8, ExitKeeps DEF abort
  <2>3. CASE built_in_func
    BY <2>3, BuiltInKeeps
  <2>4. CASE fork
    BY <2>4, ForkKeeps
  <2>5. CASE closePipes
    BY <2>5, ClosePipesKeeps
  <2>6. CASE waitpid
    BY <2>6, WaitpidKeeps
  <2>7. CASE prompt
    BY <2>7, PromptKeeps
  <2> QED
    BY <1>3, <2>1, <2>2, <2>3, <2>4, <2>5, <2>6, <2>7, <2>8 DEF shell
<1>4. ASSUME NEW c \in DOMAIN child, Process(c) PROVE ShellInv'
  BY <1>4, ProcessKeeps
<1>5. CASE UNCHANGED vars
  BY <1>5 DEF vars, shellVars, ShellInv, TypeOK, NameInv, HeldInv, WaitInv, ChildrenAtPrompt,
              Lost, Counted, Unwaited, Unreaped
<1> QED
  BY <1>1, <1>2, <1>3, <1>4, <1>5 DEF Next

(* ShellInv is inductive.                                                  *)
THEOREM ShellInvariant == Spec => []ShellInv
<1>1. Init => ShellInv
  BY InitShell
<1>2. ShellInv /\ [Next]_vars => ShellInv'
  BY NextShell
<1> QED
  BY <1>1, <1>2, PTL DEF Spec

(* The variables of the shell have their types.                            *)
THEOREM TypeCorrect == Spec => []TypeOK
<1>1. ShellInv => TypeOK
  BY DEF ShellInv
<1> QED
  BY <1>1, ShellInvariant, PTL

(* At the prompt the shell holds no pipe but those of its own built-ins.   *)
THEOREM PipesAreClosed == Spec => []NoPipeLeft
<1>1. ShellInv => NoPipeLeft
  BY DEF ShellInv, HeldInv, NoPipeLeft, Lost, EndsOf
<1> QED
  BY <1>1, ShellInvariant, PTL

(* The loop of waits leaves no more children than it leaves out commands.  *)
THEOREM ChildrenAreReaped == Spec => []ChildrenAtPrompt
<1>1. ShellInv => ChildrenAtPrompt
  BY DEF ShellInv
<1> QED
  BY <1>1, ShellInvariant, PTL

----------------------------------------------------------------------------
(* The steps keep PipeInv.                                                 *)

(* Names of commands and of their neighbours.                              *)
LEMMA NameFacts ==
  ASSUME ShellInv
  PROVE  \A c \in DOMAIN child \cup DOMAIN buffer :
            /\ c[1] \in Nat \ {0} /\ c[2] \in Nat /\ c = <<c[1], c[2]>>
            /\ c # Terminal /\ c # File
            /\ left(right(c)) = c /\ right(left(c)) = c /\ left(c) # c /\ right(c) # c
            /\ left(c)[1] = c[1] /\ left(c)[2] = c[2] - 1
            /\ right(c)[1] = c[1] /\ right(c)[2] = c[2] + 1
<1>1. SUFFICES ASSUME NEW c \in DOMAIN child \cup DOMAIN buffer
      PROVE  /\ c[1] \in Nat \ {0} /\ c[2] \in Nat /\ c = <<c[1], c[2]>>
             /\ c # Terminal /\ c # File
             /\ left(right(c)) = c /\ right(left(c)) = c /\ left(c) # c /\ right(c) # c
             /\ left(c)[1] = c[1] /\ left(c)[2] = c[2] - 1
             /\ right(c)[1] = c[1] /\ right(c)[2] = c[2] + 1
  OBVIOUS
<1>2. c \in (1 .. line) \X Nat /\ line \in Nat
  BY ShellAssumption DEF ShellInv, NameInv, TypeOK
<1>3. PICK a \in Nat \ {0}, b \in Nat : c = <<a, b>>
  BY <1>2
<1>4. a + 0 = a /\ (b + 1) - 1 = b /\ (b - 1) + 1 = b
  BY <1>3
<1> QED
  BY <1>3, <1>4 DEF left, right, Terminal, File

(* The initial state. *)
LEMMA InitPipe ==
  ASSUME Init
  PROVE  PipeInv
<1>1. pc = "prompt" /\ cmds = <<>> /\ DOMAIN child = {}
  BY DEF Init
<1> QED
  BY <1>1 DEF PipeInv, LineInv, ConnectedInv, WriterInv, FlowInv, EndInv, Running, Ended

(* A step that changes neither the connections nor what was read and       *)
(* written. It may reap a child and it may make a pipe.                    *)
LEMMA FlowKept ==
  ASSUME ShellInv, PipeInv, UNCHANGED <<line, cmds>>,
         DOMAIN child' = DOMAIN child, Running' = Running,
         \A c \in DOMAIN child :
            /\ child'[c].in = child[c].in /\ child'[c].out = child[c].out
            /\ child'[c].connected = child[c].connected /\ child'[c].exe = child[c].exe
            /\ child'[c].got = child[c].got /\ child'[c].put = child[c].put
            /\ child'[c].open = child[c].open /\ child'[c].closes = child[c].closes,
         DOMAIN buffer \subseteq DOMAIN buffer',
         \A pipe \in DOMAIN buffer : buffer'[pipe] = buffer[pipe]
  PROVE  ConnectedInv' /\ WriterInv' /\ FlowInv' /\ EndInv'
<1>1. ConnectedInv'
  <2>1. SUFFICES ASSUME NEW c \in DOMAIN child
        PROVE  /\ c[2] # 0 /\ child'[c].out \in {c, Terminal, File}
               /\ child'[c].out = c => c \in DOMAIN buffer'
               /\ c[1] = line' =>
                     (child'[c].out = c <=> c[2] < Len(cmds') /\ cmds'[c[2]].redir = "pipe")
               /\ IF child'[c].connected /\ left(c) \in DOMAIN child'
                  THEN child'[c].in = left(c) /\ child'[left(c)].out = left(c)
                  ELSE child'[c].in = Terminal
               /\ child'[c].out = c /\ right(c) \in DOMAIN child' => child'[right(c)].connected
    BY DEF ConnectedInv, left, right
  <2>2. /\ c[2] # 0 /\ child[c].out \in {c, Terminal, File}
        /\ child[c].out = c => c \in DOMAIN buffer
        /\ c[1] = line =>
              (child[c].out = c <=> c[2] < Len(cmds) /\ cmds[c[2]].redir = "pipe")
        /\ IF child[c].connected /\ left(c) \in DOMAIN child
           THEN child[c].in = left(c) /\ child[left(c)].out = left(c)
           ELSE child[c].in = Terminal
        /\ child[c].out = c /\ right(c) \in DOMAIN child => child[right(c)].connected
    BY DEF PipeInv, ConnectedInv
  <2>3. child'[c].out = child[c].out /\ child'[c].in = child[c].in /\ child'[c].connected = child[c].connected
    OBVIOUS
  <2>4. left(c) \in DOMAIN child => child'[left(c)].out = child[left(c)].out
    OBVIOUS
  <2>5. right(c) \in DOMAIN child => child'[right(c)].connected = child[right(c)].connected
    OBVIOUS
  <2> QED
    BY <2>2, <2>3, <2>4, <2>5
<1>2. WriterInv'
  BY DEF PipeInv, WriterInv, Running
<1>3. FlowInv'
  <2>1. \A c \in DOMAIN child : child[c].out = c => c \in DOMAIN buffer
    BY DEF PipeInv, ConnectedInv
  <2> QED
    BY <2>1 DEF PipeInv, FlowInv, right
<1>4. EndInv'
  <2>1. \A c \in DOMAIN child :
          child[c].connected /\ left(c) \in DOMAIN child => left(c) \in DOMAIN buffer
    BY DEF PipeInv, ConnectedInv
  <2>2. Ended' = Ended /\ Ended \subseteq DOMAIN child
    BY DEF Ended
  <2>3. \A c \in DOMAIN child : Behaviour(c)' = Behaviour(c)
    BY DEF Behaviour
  <2> QED
    BY <2>1, <2>2, <2>3 DEF PipeInv, EndInv, left
<1> QED
  BY <1>1, <1>2, <1>3, <1>4

(* A step that leaves the loop over the commands, or is behind it.         *)
LEMMA BehindTheLoop ==
  ASSUME ShellInv, PipeInv, endOfInput \/ quit \/ abort \/ closePipes \/ waitpid \/ prompt
  PROVE  PipeInv'
<1>1. pc' # "loop" /\ UNCHANGED <<line, cmds, buffer>>
  BY DEF endOfInput, quit, abort, Exit, closePipes, waitpid, prompt
<1>2. LineInv'
  BY <1>1 DEF PipeInv, LineInv
<1>3. CASE UNCHANGED child
  <2>1. Running' = Running
    BY <1>3 DEF Running
  <2> QED
    BY <1>1, <1>2, <1>3, <2>1, FlowKept DEF PipeInv
<1>4. CASE \E c \in Unreaped \ Running : child' = [child EXCEPT ![c].state = "reaped"]
  <2>1. PICK c \in Unreaped \ Running : child' = [child EXCEPT ![c].state = "reaped"]
    BY <1>4
  <2>2. c \in DOMAIN child /\ child \in [DOMAIN child -> Proc] /\ child[c] \in Proc
    BY DEF ShellInv, NameInv, Unreaped
  <2>3. PICK new : new = [child[c] EXCEPT !.state = "reaped"]
    OBVIOUS
  <2>4. child' = [child EXCEPT ![c] = new]
    BY <2>1, <2>3
  <2>5. /\ new.state = "reaped" /\ new.in = child[c].in /\ new.out = child[c].out
        /\ new.connected = child[c].connected /\ new.exe = child[c].exe
        /\ new.got = child[c].got /\ new.put = child[c].put
        /\ new.open = child[c].open /\ new.closes = child[c].closes
    BY <2>2, <2>3 DEF Proc
  <2>6. /\ DOMAIN child' = DOMAIN child /\ child'[c] = new
        /\ \A d \in DOMAIN child \ {c} : child'[d] = child[d]
    BY <2>2, <2>4
  <2>7. Running' = Running
    BY <2>1, <2>5, <2>6 DEF Running
  <2>8. \A d \in DOMAIN child :
            /\ child'[d].in = child[d].in /\ child'[d].out = child[d].out
            /\ child'[d].connected = child[d].connected /\ child'[d].exe = child[d].exe
            /\ child'[d].got = child[d].got /\ child'[d].put = child[d].put
            /\ child'[d].open = child[d].open /\ child'[d].closes = child[d].closes
    BY <2>5, <2>6
  <2> QED
    BY <1>1, <1>2, <2>6, <2>7, <2>8, FlowKept DEF PipeInv
<1> QED
  BY <1>3, <1>4 DEF endOfInput, quit, abort, Exit, closePipes, waitpid, prompt

(* A new line begins without pipes.                                        *)
LEMMA ReadlinePipe ==
  ASSUME ShellInv, PipeInv, NEW text \in Lines, readline(text)
  PROVE  PipeInv'
<1>1. /\ line' = line + 1 /\ cmds' = Parse(text) /\ i' = 1 /\ prev_pipe' = <<>>
      /\ skip_cmd' = FALSE /\ UNCHANGED <<child, buffer>> /\ line \in Nat
  BY ShellAssumption DEF readline, ShellInv, TypeOK
<1>2. LineInv'
  <2>1. ToSet(prev_pipe') = {}
    BY <1>1 DEF ToSet
  <2> QED
    BY <1>1, <2>1 DEF LineInv
<1>3. ConnectedInv'
  <2>1. \A c \in DOMAIN child : c[1] # line'
    <3>1. \A c \in DOMAIN child : c \in (1 .. line) \X Nat
      BY DEF ShellInv, NameInv
    <3> QED
      BY <1>1, <3>1
  <2> QED
    BY <1>1, <2>1 DEF PipeInv, ConnectedInv, left, right
<1>4. WriterInv' /\ FlowInv'
  BY <1>1 DEF PipeInv, WriterInv, FlowInv, Running, right
<1>5. EndInv'
  BY <1>1 DEF PipeInv, EndInv, Ended, Running, Behaviour, left
<1> QED
  BY <1>2, <1>3, <1>4, <1>5 DEF PipeInv

(* A command that is not forked leaves prev_pipe as it is.                 *)
LEMMA NotForkedPipe ==
  ASSUME ShellInv, PipeInv, \A text \in Lines : ForksItsPipes(text), skip \/ built_in_func
  PROVE  PipeInv'
<1>1. /\ Turn /\ pc' = "loop" /\ pc = "loop" /\ i' = i + 1 /\ skip_cmd' = FALSE
      /\ UNCHANGED <<line, cmds, prev_pipe, child>>
      /\ skip_cmd \/ executable_path \in is_parent
  BY DEF skip, built_in_func, Turn
<1>2. TypeOK /\ NameInv /\ HeldInv
  BY DEF ShellInv
<1>3. /\ i \in 1 .. Len(cmds) /\ i \in Nat /\ Len(cmds) \in Nat
      /\ pipefd \notin DOMAIN child /\ cmds \in Seq(Command)
  BY <1>1, <1>2, TurnFacts DEF TypeOK
<1>4. \A pipe \in ToSet(prev_pipe) : pipe[2] \in 1 .. i - 1 /\ cmds[pipe[2]].redir = "pipe"
  <2>1. \A pipe \in ToSet(prev_pipe) : pipe[2] \in 1 .. Len(cmds)
    BY <1>2 DEF TypeOK
  <2>2. \A pipe \in ToSet(prev_pipe) : pipe[2] < i /\ cmds[pipe[2]].redir = "pipe"
    BY <1>1 DEF PipeInv, LineInv
  <2> QED
    BY <1>3, <2>1, <2>2
<1>5. cmds[i].redir = "pipe" => prev_pipe = <<>>
  <2>1. SUFFICES ASSUME cmds[i].redir = "pipe", prev_pipe # <<>> PROVE FALSE
    OBVIOUS
  <2>2. PICK text \in Lines : cmds = Parse(text)
    BY <1>3 DEF PipeInv, LineInv
  <2>3. PICK m \in 1 .. i - 1 : cmds[m].redir = "pipe"
    BY <1>2, <1>4, <2>1, StdinFacts
  <2>4. DOMAIN Parse(text) = 1 .. Len(cmds)
    BY <1>3, <2>2, LenProperties
  <2>5. cmds[i].args[1] \notin is_parent /\ cmds[i - 1].redir \notin outputs
    BY <1>3, <2>1, <2>2, <2>3, <2>4 DEF ForksItsPipes
  <2> QED
    BY <1>1, <2>5 DEF PipeInv, LineInv, executable_path
<1>6. LineInv'
  <2>1. \A pipe \in ToSet(prev_pipe) : pipe[2] < i + 1
    BY <1>3, <1>4
  <2>2. <<line', i' - 1>> \notin DOMAIN child' /\ i' - 1 = i
    BY <1>1, <1>3 DEF pipefd
  <2> QED
    BY <1>1, <1>4, <1>5, <2>1, <2>2 DEF PipeInv, LineInv
<1>7. DOMAIN buffer \subseteq DOMAIN buffer' /\ \A pipe \in DOMAIN buffer : buffer'[pipe] = buffer[pipe]
  <2>1. CASE skip
    BY <2>1 DEF skip
  <2>2. CASE built_in_func
    BY <1>1, <1>2, <2>2, MadePipe DEF built_in_func
  <2> QED
    BY <2>1, <2>2
<1>8. Running' = Running
  BY <1>1 DEF Running
<1> QED
  BY <1>1, <1>6, <1>7, <1>8, FlowKept DEF PipeInv

(* How a fork connects its process.                                        *)
LEMMA ForkConnects ==
  ASSUME ShellInv, PipeInv, fork
  PROVE  /\ Forked.out \in {pipefd, Terminal, File}
         /\ Forked.out = pipefd <=> i < Len(cmds) /\ cmds[i].redir = "pipe"
         /\ IF Forked.connected /\ left(pipefd) \in DOMAIN child
            THEN Forked.in = left(pipefd) /\ child[left(pipefd)].out = left(pipefd)
            ELSE Forked.in = Terminal
         /\ Forked.connected <=> i > 1 /\ cmds[i - 1].redir = "pipe"
         /\ left(pipefd) = <<line, i - 1>>
<1>1. Turn /\ TypeOK /\ NameInv /\ HeldInv /\ pc = "loop"
  BY DEF fork, ShellInv, Turn
<1>2. /\ i \in 1 .. Len(cmds) /\ i \in Nat /\ Len(cmds) \in Nat
      /\ pipefd[1] = line /\ pipefd[2] = i /\ line \in Nat \ {0}
  BY <1>1, TurnFacts
<1>3. /\ Forked.in = Stdin /\ Forked.out = Stdout /\ Forked.connected = ~pipe_disconnected
  BY ForkedProc
<1>4. pipefd # Terminal /\ pipefd # File /\ Terminal # File
  BY <1>2 DEF Terminal, File, pipefd
<1>5. "pipe" \notin outputs
  BY DEF outputs
<1>6. /\ Forked.out \in {pipefd, Terminal, File}
      /\ Forked.out = pipefd <=> i < Len(cmds) /\ cmds[i].redir = "pipe"
  BY <1>2, <1>3, <1>4, <1>5 DEF Stdout
<1>7. Forked.connected <=> i > 1 /\ cmds[i - 1].redir = "pipe"
  <2>1. ~(i = 1) <=> i > 1
    BY <1>2
  <2>2. ~pipe_disconnected <=> i > 1 /\ cmds[i - 1].redir = "pipe"
    BY <2>1, Zenon DEF pipe_disconnected
  <2> QED
    BY <1>3, <2>2
<1>8. left(pipefd) = <<line, i - 1>>
  BY <1>2 DEF left
<1>9. CASE Forked.connected /\ left(pipefd) \in DOMAIN child
  <2>1. prev_pipe # <<>> /\ Last(prev_pipe) = left(pipefd)
    BY <1>1, <1>7, <1>8, <1>9 DEF PipeInv, LineInv
  <2>2. Stdin = left(pipefd)
    BY <1>3, <1>9, <2>1 DEF Stdin
  <2>3. child[left(pipefd)].out = left(pipefd)
    <3>1. left(pipefd)[1] = line /\ left(pipefd)[2] = i - 1
      BY <1>8
    <3>2. i - 1 < Len(cmds)
      BY <1>2
    <3> QED
      BY <1>7, <1>9, <3>1, <3>2 DEF PipeInv, ConnectedInv
  <2> QED
    BY <1>3, <1>6, <1>7, <1>8, <1>9, <2>2, <2>3
<1>10. CASE ~(Forked.connected /\ left(pipefd) \in DOMAIN child)
  <2>1. CASE pipe_disconnected
    BY <1>3, <1>6, <1>7, <1>8, <1>10, <2>1 DEF Stdin
  <2>2. CASE ~pipe_disconnected
    <3>1. prev_pipe = <<>>
      BY <1>1, <1>3, <1>7, <1>8, <1>10, <2>2 DEF PipeInv, LineInv
    <3> QED
      BY <1>3, <1>6, <1>7, <1>8, <1>10, <3>1 DEF Stdin
  <2> QED
    BY <2>1, <2>2
<1> QED
  BY <1>9, <1>10

(* A fork adds a process and the pipe that it writes to.                   *)
LEMMA ForkPipe ==
  ASSUME ShellInv, PipeInv, fork
  PROVE  PipeInv'
<1>1. /\ pc = "loop" /\ i \in 1 .. Len(cmds) /\ i' = i + 1 /\ Len(cmds) \in Nat /\ i \in Nat
      /\ UNCHANGED <<pc, line, cmds>> /\ skip_cmd' = (cmds[i].redir \in outputs)
      /\ DOMAIN child' = DOMAIN child \cup {pipefd} /\ pipefd \notin DOMAIN child
      /\ child'[pipefd] = Forked /\ \A c \in DOMAIN child : child'[c] = child[c]
      /\ prev_pipe' = prev_pipe \o SetToSeq(Made)
      /\ ToSet(prev_pipe') = ToSet(prev_pipe) \cup Made
  BY ForkFacts
<1>2. Turn /\ MakePipe /\ TypeOK /\ NameInv /\ HeldInv
  BY DEF fork, ShellInv
<1>3. /\ DOMAIN buffer' = DOMAIN buffer \cup Made
      /\ \A pipe \in DOMAIN buffer : buffer'[pipe] = buffer[pipe]
      /\ \A pipe \in Made : buffer'[pipe] = 0
      /\ held' = held \cup EndsOf(Made)
  BY <1>2, MadePipe
<1>4. /\ pipefd[1] = line /\ pipefd[2] = i /\ pipefd \notin DOMAIN buffer
      /\ (Made = {} \/ Made = {pipefd}) /\ pipefd = <<line, i>>
  BY <1>2, TurnFacts DEF pipefd
<1>5. /\ Forked.state = "forked" /\ Forked.got = 0 /\ Forked.put = 0
      /\ Forked.open = held' /\ Forked.closes = Closed
  BY ForkedProc
<1>6. /\ Forked.out \in {pipefd, Terminal, File}
      /\ Forked.out = pipefd <=> i < Len(cmds) /\ cmds[i].redir = "pipe"
      /\ IF Forked.connected /\ left(pipefd) \in DOMAIN child
         THEN Forked.in = left(pipefd) /\ child[left(pipefd)].out = left(pipefd)
         ELSE Forked.in = Terminal
      /\ Forked.connected <=> i > 1 /\ cmds[i - 1].redir = "pipe"
      /\ left(pipefd) = <<line, i - 1>>
  BY ForkConnects
<1>7. cmds[i].redir = "pipe" <=> Made = {pipefd}
  BY <1>4 DEF Made
<1>8. \A c \in DOMAIN child : left(c) # pipefd /\ c[2] \in Nat /\ (c[1] = line => c[2] < i)
  <2>1. \A c \in DOMAIN child : c[2] \in Nat /\ (c[1] = line => c[2] < i)
    BY <1>1, <1>2, NameFacts DEF NameInv
  <2>2. \A c \in DOMAIN child : left(c)[1] = c[1] /\ left(c)[2] = c[2] - 1
    BY NameFacts
  <2>3. \A c \in DOMAIN child : c[1] = line => c[2] - 1 # i
    BY <1>1, <2>1
  <2> QED
    BY <1>4, <2>1, <2>2, <2>3
<1>9. right(pipefd) \notin DOMAIN child' /\ left(pipefd) # pipefd /\ right(pipefd) # pipefd
  <2>1. right(pipefd)[1] = line /\ right(pipefd)[2] = i + 1
    BY <1>4 DEF right
  <2>2. left(pipefd)[2] = i - 1
    BY <1>6
  <2>3. i + 1 # i /\ i - 1 # i /\ ~(i + 1 < i)
    BY <1>1
  <2> QED
    BY <1>1, <1>4, <1>8, <2>1, <2>2, <2>3
<1>10. \A c \in DOMAIN child : right(c) = pipefd => c = left(pipefd)
  BY NameFacts
<1>11. LineInv'
  <2>1. cmds' = <<>> \/ \E text \in Lines : cmds' = Parse(text)
    BY <1>1 DEF PipeInv, LineInv
  <2>2. pc' = "loop" /\ skip_cmd' => i' > 1 /\ cmds'[i' - 1].redir \in outputs
    <3>1. i' > 1 /\ i' - 1 = i
      BY <1>1
    <3> QED
      BY <1>1, <3>1
  <2>3. \A pipe \in ToSet(prev_pipe') : pipe[2] < i' /\ cmds'[pipe[2]].redir = "pipe"
    <3>1. \A pipe \in ToSet(prev_pipe) : pipe[2] \in Nat /\ pipe[2] < i /\ cmds[pipe[2]].redir = "pipe"
      BY <1>1, <1>2 DEF TypeOK, PipeInv, LineInv
    <3>2. \A pipe \in ToSet(prev_pipe) : pipe[2] < i + 1
      BY <1>1, <3>1
    <3>3. \A pipe \in Made : pipe[2] < i + 1 /\ cmds[pipe[2]].redir = "pipe"
      BY <1>1, <1>4, <1>7
    <3> QED
      BY <1>1, <3>1, <3>2, <3>3
  <2>4. cmds[i].redir = "pipe" => prev_pipe' # <<>> /\ Last(prev_pipe') = pipefd
    <3>1. ASSUME Made = {pipefd} PROVE prev_pipe' # <<>> /\ Last(prev_pipe') = pipefd
      <4>1. prev_pipe \o SetToSeq({pipefd}) # <<>> /\ Last(prev_pipe \o SetToSeq({pipefd})) = pipefd
        BY <1>2, PrevPipe DEF HeldInv
      <4> QED
        BY <1>1, <3>1, <4>1, Zenon
    <3> QED
      BY <1>7, <3>1
  <2>5. <<line', i' - 1>> = pipefd /\ cmds'[i' - 1] = cmds[i] /\ pipefd \in DOMAIN child'
    <3>1. i' - 1 = i
      BY <1>1
    <3> QED
      BY <1>1, <1>4, <3>1
  <2> QED
    BY <2>1, <2>2, <2>3, <2>4, <2>5 DEF LineInv
<1>12. ConnectedInv'
  <2>1. SUFFICES ASSUME NEW c \in DOMAIN child'
        PROVE  /\ c[2] # 0 /\ child'[c].out \in {c, Terminal, File}
               /\ child'[c].out = c => c \in DOMAIN buffer'
               /\ c[1] = line' =>
                     (child'[c].out = c <=> c[2] < Len(cmds') /\ cmds'[c[2]].redir = "pipe")
               /\ IF child'[c].connected /\ left(c) \in DOMAIN child'
                  THEN child'[c].in = left(c) /\ child'[left(c)].out = left(c)
                  ELSE child'[c].in = Terminal
               /\ child'[c].out = c /\ right(c) \in DOMAIN child' => child'[right(c)].connected
    BY DEF ConnectedInv, left, right
  <2>2. CASE c = pipefd
    <3>1. child'[c].out = c => c \in DOMAIN buffer'
      BY <1>1, <1>3, <1>6, <1>7, <2>2
    <3>2. left(c) \in DOMAIN child' <=> left(c) \in DOMAIN child
      BY <1>1, <1>9, <2>2
    <3>3. left(c) \in DOMAIN child => child'[left(c)].out = child[left(c)].out
      BY <1>1
    <3> QED
      BY <1>1, <1>4, <1>6, <1>9, <2>2, <3>1, <3>2, <3>3
  <2>3. CASE c \in DOMAIN child
    <3>1. /\ c[2] # 0 /\ child[c].out \in {c, Terminal, File}
          /\ child[c].out = c => c \in DOMAIN buffer
          /\ c[1] = line =>
                (child[c].out = c <=> c[2] < Len(cmds) /\ cmds[c[2]].redir = "pipe")
          /\ IF child[c].connected /\ left(c) \in DOMAIN child
             THEN child[c].in = left(c) /\ child[left(c)].out = left(c)
             ELSE child[c].in = Terminal
          /\ child[c].out = c /\ right(c) \in DOMAIN child => child[right(c)].connected
      BY <2>3 DEF PipeInv, ConnectedInv
    <3>2. child'[c] = child[c] /\ (left(c) \in DOMAIN child' <=> left(c) \in DOMAIN child)
      BY <1>1, <1>8, <2>3
    <3>3. left(c) \in DOMAIN child => child'[left(c)] = child[left(c)]
      BY <1>1
    <3>4. child'[c].out = c /\ right(c) \in DOMAIN child' => child'[right(c)].connected
      <4>1. CASE right(c) = pipefd
        <5>1. c = <<line, i - 1>> /\ c[1] = line /\ c[2] = i - 1 /\ c[2] \in Nat
          BY <1>6, <1>8, <1>10, <2>3, <4>1
        <5>2. child[c].out = c => Forked.connected
          <6>1. i > 1
            BY <1>1, <3>1, <5>1
          <6> QED
            BY <1>1, <1>6, <3>1, <5>1, <6>1
        <5> QED
          BY <1>1, <3>2, <4>1, <5>2
      <4>2. CASE right(c) # pipefd
        BY <1>1, <3>1, <3>2, <4>2
      <4> QED
        BY <4>1, <4>2
    <3> QED
      BY <1>1, <1>3, <3>1, <3>2, <3>3, <3>4
  <2> QED
    BY <1>1, <2>2, <2>3
<1>13. Running' = Running \cup {pipefd} /\ Ended' = Ended /\ Ended \subseteq DOMAIN child
  <2>1. Running' = Running \cup {pipefd}
    BY <1>1, <1>5 DEF Running
  <2> QED
    BY <1>1, <2>1 DEF Ended
<1>14. WriterInv'
  <2>1. \A c \in Running : c \in DOMAIN child /\ child'[c] = child[c]
    BY <1>1 DEF Running
  <2>2. Forked.out = pipefd => <<pipefd, "write">> \in Forked.open
    BY <1>3, <1>5, <1>6, <1>7 DEF EndsOf, Ends
  <2>3. <<pipefd, "write">> \notin Forked.closes
    <3>1. pipefd \notin ToSet(prev_pipe)
      BY <1>2, <1>4 DEF TypeOK
    <3> QED
      BY <1>5, <3>1 DEF Closed
  <2> QED
    BY <1>1, <1>13, <2>1, <2>2, <2>3 DEF PipeInv, WriterInv
<1>15. FlowInv'
  <2>1. SUFFICES ASSUME NEW c \in DOMAIN child', child'[c].out = c
        PROVE  child'[c].put = buffer'[c] + (IF right(c) \in DOMAIN child' THEN child'[right(c)].got ELSE 0)
    BY DEF FlowInv, right
  <2>2. CASE c = pipefd
    <3>1. buffer'[c] = 0
      BY <1>1, <1>3, <1>6, <1>7, <2>1, <2>2
    <3> QED
      BY <1>1, <1>5, <1>9, <2>2, <3>1
  <2>3. CASE c \in DOMAIN child
    <3>1. /\ child[c].put = buffer[c] + (IF right(c) \in DOMAIN child THEN child[right(c)].got ELSE 0)
          /\ child'[c] = child[c] /\ buffer'[c] = buffer[c]
      BY <1>1, <1>3, <2>1, <2>3 DEF PipeInv, FlowInv, ConnectedInv
    <3>2. CASE right(c) = pipefd
      BY <1>1, <1>5, <3>1, <3>2
    <3>3. CASE right(c) # pipefd
      <4>1. right(c) \in DOMAIN child' <=> right(c) \in DOMAIN child
        BY <1>1, <3>3
      <4>2. right(c) \in DOMAIN child => child'[right(c)] = child[right(c)]
        BY <1>1
      <4> QED
        BY <3>1, <4>1, <4>2
    <3> QED
      BY <3>2, <3>3
  <2> QED
    BY <1>1, <2>2, <2>3
<1>16. EndInv'
  <2>1. SUFFICES ASSUME NEW c \in Ended, child'[c].connected, left(c) \in DOMAIN child',
                        child'[c].got < Behaviour(c)'.takes
        PROVE  left(c) \in Ended' /\ buffer'[left(c)] = 0
    BY <1>13 DEF EndInv, left
  <2>2. c \in DOMAIN child /\ child'[c] = child[c] /\ left(c) \in DOMAIN child
    BY <1>1, <1>8, <1>13, <2>1
  <2>3. Behaviour(c)' = Behaviour(c)
    BY <2>2 DEF Behaviour
  <2>4. left(c) \in Ended /\ buffer[left(c)] = 0
    BY <2>1, <2>2, <2>3 DEF PipeInv, EndInv
  <2>5. left(c) \in DOMAIN buffer
    BY <2>1, <2>2 DEF PipeInv, ConnectedInv
  <2> QED
    BY <1>3, <1>13, <2>4, <2>5
<1> QED
  BY <1>11, <1>12, <1>14, <1>15, <1>16 DEF PipeInv

(* execv, Write, Read and Terminate: what they do to their own process.    *)
LEMMA OneProcess ==
  ASSUME ShellInv, NEW c \in DOMAIN child, Process(c)
  PROVE  \E new \in Proc :
            /\ child' = [child EXCEPT ![c] = new]
            /\ DOMAIN child' = DOMAIN child /\ child'[c] = new
            /\ \A d \in DOMAIN child \ {c} : child'[d] = child[d]
            /\ new.in = child[c].in /\ new.out = child[c].out /\ new.exe = child[c].exe
            /\ new.connected = child[c].connected /\ new.closes = child[c].closes
            /\ child[c].state \in {"forked", "running"}
            /\ \/ /\ execv(c) /\ new.state = "running" /\ new.open = child[c].open \ child[c].closes
                  /\ new.got = child[c].got /\ new.put = child[c].put
               \/ /\ Write(c) /\ new.state = "running" /\ new.open = child[c].open
                  /\ new.got = child[c].got /\ new.put = child[c].put + 1
               \/ /\ Read(c) /\ new.state = "running" /\ new.open = child[c].open
                  /\ new.got = child[c].got + 1 /\ new.put = child[c].put
               \/ /\ Terminate(c) /\ new.state = "zombie"
                  /\ new.got = child[c].got /\ new.put = child[c].put
<1>1. PICK new \in Proc :
          /\ child' = [child EXCEPT ![c] = new]
          /\ new.in = child[c].in /\ new.out = child[c].out /\ new.exe = child[c].exe
          /\ new.connected = child[c].connected /\ new.closes = child[c].closes
          /\ child[c].state \in {"forked", "running"}
  BY ProcessSteps DEF ShellInv
<1>2. /\ DOMAIN child' = DOMAIN child /\ child'[c] = new
      /\ \A d \in DOMAIN child \ {c} : child'[d] = child[d]
  BY <1>1 DEF ShellInv, NameInv
<1>3. child[c] \in Proc /\ child \in [DOMAIN child -> Proc]
  BY DEF ShellInv, NameInv
<1>4. CASE execv(c)
  <2>1. PICK n : n = [child[c] EXCEPT !.state = "running", !.open = @ \ child[c].closes]
    OBVIOUS
  <2>2. child' = [child EXCEPT ![c] = n]
    BY <1>4, <2>1 DEF execv
  <2>3. n = new
    BY <1>2, <1>3, <2>2
  <2>4. /\ n.state = "running" /\ n.open = child[c].open \ child[c].closes
        /\ n.got = child[c].got /\ n.put = child[c].put
    BY <1>3, <2>1 DEF Proc
  <2> QED
    BY <1>1, <1>2, <1>4, <2>3, <2>4
<1>5. CASE Write(c)
  <2>1. PICK n : n = [child[c] EXCEPT !.put = @ + 1]
    OBVIOUS
  <2>2. child' = [child EXCEPT ![c] = n] /\ child[c].state = "running"
    BY <1>5, <2>1 DEF Write
  <2>3. n = new
    BY <1>2, <1>3, <2>2
  <2>4. /\ n.state = "running" /\ n.open = child[c].open
        /\ n.got = child[c].got /\ n.put = child[c].put + 1
    BY <1>3, <2>1, <2>2 DEF Proc
  <2> QED
    BY <1>1, <1>2, <1>5, <2>3, <2>4
<1>6. CASE Read(c)
  <2>1. PICK n : n = [child[c] EXCEPT !.got = @ + 1]
    OBVIOUS
  <2>2. child' = [child EXCEPT ![c] = n] /\ child[c].state = "running"
    BY <1>6, <2>1 DEF Read
  <2>3. n = new
    BY <1>2, <1>3, <2>2
  <2>4. /\ n.state = "running" /\ n.open = child[c].open
        /\ n.got = child[c].got + 1 /\ n.put = child[c].put
    BY <1>3, <2>1, <2>2 DEF Proc
  <2> QED
    BY <1>1, <1>2, <1>6, <2>3, <2>4
<1>7. CASE Terminate(c)
  <2>1. PICK n : n = [child[c] EXCEPT !.state = "zombie", !.open = {}]
    OBVIOUS
  <2>2. child' = [child EXCEPT ![c] = n]
    BY <1>7, <2>1 DEF Terminate
  <2>3. n = new
    BY <1>2, <1>3, <2>2
  <2>4. n.state = "zombie" /\ n.got = child[c].got /\ n.put = child[c].put
    BY <1>3, <2>1 DEF Proc
  <2> QED
    BY <1>1, <1>2, <1>7, <2>3, <2>4
<1> QED
  BY <1>4, <1>5, <1>6, <1>7 DEF Process

(* A process does not change how the processes are connected.              *)
LEMMA ProcessConnected ==
  ASSUME ShellInv, PipeInv, NEW c \in DOMAIN child, Process(c)
  PROVE  LineInv' /\ ConnectedInv' /\ WriterInv'
<1>1. PICK new \in Proc :
          /\ DOMAIN child' = DOMAIN child /\ child'[c] = new
          /\ \A d \in DOMAIN child \ {c} : child'[d] = child[d]
          /\ new.in = child[c].in /\ new.out = child[c].out
          /\ new.connected = child[c].connected /\ new.closes = child[c].closes
          /\ child[c].state \in {"forked", "running"}
          /\ \/ new.open = child[c].open \ child[c].closes
             \/ new.open = child[c].open
             \/ new.state = "zombie"
  BY OneProcess
<1>2. /\ DOMAIN buffer' = DOMAIN buffer
      /\ UNCHANGED <<pc, line, cmds, i, prev_pipe, skip_cmd, held>>
  BY ProcessSteps DEF ShellInv, shellVars
<1>3. LineInv'
  BY <1>1, <1>2 DEF PipeInv, LineInv
<1>4. \A d \in DOMAIN child :
         /\ child'[d].in = child[d].in /\ child'[d].out = child[d].out
         /\ child'[d].connected = child[d].connected /\ child'[d].closes = child[d].closes
  BY <1>1
<1>5. ConnectedInv'
  <2>1. SUFFICES ASSUME NEW d \in DOMAIN child
        PROVE  /\ d[2] # 0 /\ child'[d].out \in {d, Terminal, File}
               /\ child'[d].out = d => d \in DOMAIN buffer'
               /\ d[1] = line' =>
                     (child'[d].out = d <=> d[2] < Len(cmds') /\ cmds'[d[2]].redir = "pipe")
               /\ IF child'[d].connected /\ left(d) \in DOMAIN child'
                  THEN child'[d].in = left(d) /\ child'[left(d)].out = left(d)
                  ELSE child'[d].in = Terminal
               /\ child'[d].out = d /\ right(d) \in DOMAIN child' => child'[right(d)].connected
    BY <1>1 DEF ConnectedInv, left, right
  <2>2. /\ d[2] # 0 /\ child[d].out \in {d, Terminal, File}
        /\ child[d].out = d => d \in DOMAIN buffer
        /\ d[1] = line =>
              (child[d].out = d <=> d[2] < Len(cmds) /\ cmds[d[2]].redir = "pipe")
        /\ IF child[d].connected /\ left(d) \in DOMAIN child
           THEN child[d].in = left(d) /\ child[left(d)].out = left(d)
           ELSE child[d].in = Terminal
        /\ child[d].out = d /\ right(d) \in DOMAIN child => child[right(d)].connected
    BY DEF PipeInv, ConnectedInv
  <2>3. left(d) \in DOMAIN child => child'[left(d)].out = child[left(d)].out
    BY <1>4
  <2>4. right(d) \in DOMAIN child => child'[right(d)].connected = child[right(d)].connected
    BY <1>4
  <2> QED
    BY <1>1, <1>2, <1>4, <2>2, <2>3, <2>4
<1>6. WriterInv'
  <2>1. SUFFICES ASSUME NEW d \in Running', child'[d].out = d
        PROVE  <<d, "write">> \in child'[d].open /\ <<d, "write">> \notin child'[d].closes
    BY DEF WriterInv
  <2>2. d \in DOMAIN child /\ child'[d].state \in {"forked", "running"}
    BY <1>1 DEF Running
  <2>3. d \in Running
    BY <1>1, <2>2 DEF Running
  <2>4. <<d, "write">> \in child[d].open /\ <<d, "write">> \notin child[d].closes
    BY <1>4, <2>1, <2>2, <2>3 DEF PipeInv, WriterInv
  <2>5. CASE d = c
    BY <1>1, <1>4, <2>2, <2>4, <2>5
  <2>6. CASE d # c
    BY <1>1, <2>2, <2>4, <2>6
  <2> QED
    BY <2>5, <2>6
<1> QED
  BY <1>3, <1>5, <1>6

(* What a process writes and reads moves through its pipes.                *)
LEMMA ProcessFlow ==
  ASSUME ShellInv, PipeInv, NEW c \in DOMAIN child, Process(c)
  PROVE  FlowInv'
<1>1. PICK new \in Proc :
          /\ DOMAIN child' = DOMAIN child /\ child'[c] = new
          /\ \A d \in DOMAIN child \ {c} : child'[d] = child[d]
          /\ new.in = child[c].in /\ new.out = child[c].out
          /\ \/ execv(c) /\ new.got = child[c].got /\ new.put = child[c].put
             \/ Write(c) /\ new.got = child[c].got /\ new.put = child[c].put + 1
             \/ Read(c) /\ new.got = child[c].got + 1 /\ new.put = child[c].put
             \/ Terminate(c) /\ new.got = child[c].got /\ new.put = child[c].put
  BY OneProcess
<1>2. SUFFICES ASSUME NEW d \in DOMAIN child, child'[d].out = d
      PROVE  child'[d].put = buffer'[d] + (IF right(d) \in DOMAIN child THEN child'[right(d)].got ELSE 0)
  BY <1>1 DEF FlowInv, right
<1>3. \A p \in DOMAIN child : child[p].got \in Nat /\ child[p].put \in Nat
  BY DEF ShellInv, NameInv, Proc
<1>4. PipeCapacity \in Nat /\ \A pipe \in DOMAIN buffer : buffer[pipe] \in Nat
  <2>1. PipeCapacity \in Nat
    BY ShellAssumption
  <2> QED
    BY <2>1 DEF ShellInv, TypeOK
<1>5. child[d].out = d /\ d \in DOMAIN buffer
  BY <1>1, <1>2 DEF PipeInv, ConnectedInv
<1>6. child[d].put = buffer[d] + (IF right(d) \in DOMAIN child THEN child[right(d)].got ELSE 0)
  BY <1>5 DEF PipeInv, FlowInv
<1>7. d # Terminal /\ d # File /\ right(d) # d /\ left(right(d)) = d /\ right(left(c)) = c /\ left(c) # c
  BY NameFacts
<1>8. CASE (execv(c) \/ Terminate(c)) /\ new.got = child[c].got /\ new.put = child[c].put
  <2>1. buffer' = buffer
    BY <1>8 DEF execv, Terminate
  <2>2. \A p \in DOMAIN child : child'[p].got = child[p].got /\ child'[p].put = child[p].put
    BY <1>1, <1>8
  <2> QED
    BY <1>6, <2>1, <2>2
<1>9. CASE Write(c) /\ new.got = child[c].got /\ new.put = child[c].put + 1
  <2>1. \A p \in DOMAIN child : child'[p].got = child[p].got
    BY <1>1, <1>9
  <2>2. /\ buffer' \in {buffer, [buffer EXCEPT ![child[c].out] = @ + 1]}
        /\ child[c].out \notin {Terminal, File} => buffer' = [buffer EXCEPT ![child[c].out] = @ + 1]
    BY <1>9 DEF Write
  <2>3. CASE d = c
    <3>1. buffer'[d] = buffer[d] + 1 /\ child'[d].put = child[d].put + 1
      BY <1>1, <1>5, <1>7, <1>9, <2>2, <2>3
    <3> QED
      BY <1>3, <1>4, <1>5, <1>6, <2>1, <3>1
  <2>4. CASE d # c
    <3>1. child[c].out # d
      BY <1>7, <2>4 DEF PipeInv, ConnectedInv
    <3>2. buffer'[d] = buffer[d] /\ child'[d].put = child[d].put
      BY <1>1, <1>5, <2>2, <2>4, <3>1
    <3> QED
      BY <1>6, <2>1, <3>2
  <2> QED
    BY <2>3, <2>4
<1>10. CASE Read(c) /\ new.got = child[c].got + 1 /\ new.put = child[c].put
  <2>1. child[c].in \in DOMAIN buffer /\ buffer' = [buffer EXCEPT ![child[c].in] = @ - 1]
    BY <1>10 DEF Read
  <2>2. child[c].in = left(c) /\ left(c) \in DOMAIN child
    BY <2>1, NameFacts DEF PipeInv, ConnectedInv
  <2>3. child'[d].put = child[d].put
    BY <1>1, <1>10
  <2>4. CASE d = left(c)
    <3>1. right(d) = c /\ child'[c].got = child[c].got + 1
      BY <1>1, <1>7, <1>10, <2>4
    <3>2. buffer'[d] = buffer[d] - 1
      BY <1>5, <2>1, <2>2, <2>4
    <3> QED
      BY <1>3, <1>4, <1>5, <1>6, <2>3, <3>1, <3>2
  <2>5. CASE d # left(c)
    <3>1. right(d) # c /\ buffer'[d] = buffer[d]
      BY <1>5, <1>7, <2>1, <2>2, <2>5
    <3>2. right(d) \in DOMAIN child => child'[right(d)] = child[right(d)]
      BY <1>1, <3>1
    <3> QED
      BY <1>6, <2>3, <3>1, <3>2
  <2> QED
    BY <2>4, <2>5
<1> QED
  BY <1>1, <1>8, <1>9, <1>10

(* A reader sees the end of its input when the writer has ended and the    *)
(* pipe is empty, and that stays so.                                       *)
LEMMA ProcessEnd ==
  ASSUME ShellInv, PipeInv, NEW c \in DOMAIN child, Process(c)
  PROVE  EndInv'
<1>1. PICK new \in Proc :
          /\ DOMAIN child' = DOMAIN child /\ child'[c] = new
          /\ \A d \in DOMAIN child \ {c} : child'[d] = child[d]
          /\ new.connected = child[c].connected /\ new.exe = child[c].exe
          /\ child[c].state \in {"forked", "running"}
          /\ \/ execv(c) /\ new.state = "running"
             \/ Write(c) /\ new.state = "running"
             \/ Read(c) /\ new.state = "running"
             \/ Terminate(c) /\ new.state = "zombie" /\ new.got = child[c].got
  BY OneProcess
<1>2. Ended = {d \in DOMAIN child : child[d].state \notin {"forked", "running"}}
  BY DEF Ended, Running
<1>3. Ended' = {d \in DOMAIN child : child'[d].state \notin {"forked", "running"}}
  BY <1>1 DEF Ended, Running
<1>4. SUFFICES ASSUME NEW d \in Ended', child'[d].connected, left(d) \in DOMAIN child,
                      child'[d].got < Behaviour(d)'.takes
      PROVE  left(d) \in Ended' /\ buffer'[left(d)] = 0
  BY <1>1 DEF EndInv, left
<1>5. d \in DOMAIN child /\ child'[d].exe = child[d].exe /\ child[d].connected
  BY <1>1, <1>3, <1>4
<1>6. Behaviour(d)' = Behaviour(d)
  BY <1>5 DEF Behaviour
<1>7. /\ child[d].in = left(d) /\ child[left(d)].out = left(d) /\ left(d) \in DOMAIN buffer
      /\ left(d) # d /\ left(d) # Terminal /\ left(d) # File
  BY <1>4, <1>5, NameFacts DEF PipeInv, ConnectedInv
<1>8. CASE d = c
  <2>1. Terminate(c) /\ child'[c].got = child[c].got
    BY <1>1, <1>3, <1>8
  <2>2. child[c].got \in Nat
    BY DEF ShellInv, NameInv, Proc
  <2>3. EndOfFile(c) /\ buffer' = buffer
    BY <1>4, <1>6, <1>8, <2>1, <2>2 DEF Terminate
  <2>4. buffer[left(d)] = 0 /\ \A p \in Running : <<left(d), "write">> \notin child[p].open
    BY <1>7, <1>8, <2>3 DEF EndOfFile
  <2>5. left(d) \in Ended
    BY <1>4, <1>7, <2>4 DEF PipeInv, WriterInv, Ended
  <2> QED
    BY <1>1, <1>2, <1>3, <1>4, <1>7, <1>8, <2>3, <2>4, <2>5
<1>9. CASE d # c
  <2>1. child'[d] = child[d] /\ d \in Ended
    BY <1>1, <1>2, <1>3, <1>5, <1>9
  <2>2. left(d) \in Ended /\ buffer[left(d)] = 0
    BY <1>4, <1>5, <1>6, <2>1 DEF PipeInv, EndInv
  <2>3. left(d) # c /\ left(d) \in Ended'
    BY <1>1, <1>2, <1>3, <1>4, <2>2
  <2>4. buffer'[left(d)] = buffer[left(d)]
    <3>1. CASE execv(c) \/ Terminate(c)
      BY <3>1 DEF execv, Terminate
    <3>2. CASE Write(c)
      <4>1. child[c].out # left(d)
        BY <1>7, <2>3 DEF PipeInv, ConnectedInv
      <4> QED
        BY <1>7, <3>2, <4>1 DEF Write
    <3>3. CASE Read(c)
      <4>1. child[c].in # left(d)
        BY <2>2, <3>3 DEF Read
      <4> QED
        BY <1>7, <3>3, <4>1 DEF Read
    <3> QED
      BY <1>1, <3>1, <3>2, <3>3
  <2> QED
    BY <2>2, <2>3, <2>4
<1> QED
  BY <1>8, <1>9

(* PipeInv is kept by every step.                                          *)
LEMMA NextPipe ==
  ASSUME ShellInv, PipeInv, \A text \in Lines : ForksItsPipes(text), [Next]_vars
  PROVE  PipeInv'
<1>1. ASSUME NEW text \in Lines, readline(text) PROVE PipeInv'
  BY <1>1, ReadlinePipe
<1>2. CASE skip \/ built_in_func
  BY <1>2, NotForkedPipe
<1>3. CASE fork
  BY <1>3, ForkPipe
<1>4. CASE endOfInput \/ quit \/ abort \/ closePipes \/ waitpid \/ prompt
  BY <1>4, BehindTheLoop
<1>5. ASSUME NEW c \in DOMAIN child, Process(c) PROVE PipeInv'
  BY <1>5, ProcessConnected, ProcessFlow, ProcessEnd DEF PipeInv
<1>6. CASE UNCHANGED vars
  BY <1>6 DEF vars, shellVars, PipeInv, LineInv, ConnectedInv, WriterInv, FlowInv, EndInv,
              Running, Ended, Behaviour
<1> QED
  BY <1>1, <1>2, <1>3, <1>4, <1>5, <1>6 DEF Next, shell

(* A command that read to the end of its input got all that its left       *)
(* neighbour wrote, and nothing else.                                      *)
THEOREM PipelinesDeliver ==
  ASSUME \A text \in Lines : ForksItsPipes(text)
  PROVE  Spec => []PipelineDelivers
<1>1. Init => ShellInv /\ PipeInv
  BY InitShell, InitPipe
<1>2. ShellInv /\ PipeInv /\ [Next]_vars => (ShellInv /\ PipeInv)'
  BY NextShell, NextPipe
<1>3. ShellInv /\ PipeInv => PipelineDelivers
  <2>1. SUFFICES ASSUME ShellInv, PipeInv, NEW c \in Ended,
                        child[c].connected, left(c) \in DOMAIN child,
                        child[c].got < Behaviour(c).takes
        PROVE  left(c) \in Ended /\ child[c].got = child[left(c)].put
    BY DEF PipelineDelivers, left
  <2>2. c \in DOMAIN child /\ right(left(c)) = c
    BY <2>1, NameFacts DEF Ended
  <2>3. left(c) \in Ended /\ buffer[left(c)] = 0
    BY <2>1 DEF PipeInv, EndInv
  <2>4. child[left(c)].put = 0 + child[c].got
    BY <2>1, <2>2, <2>3 DEF PipeInv, ConnectedInv, FlowInv
  <2>5. child[c].got \in Nat
    BY <2>1, <2>2 DEF ShellInv, NameInv, Proc
  <2> QED
    BY <2>3, <2>4, <2>5
<1> QED
  BY <1>1, <1>2, <1>3, PTL DEF Spec
=============================================================================
