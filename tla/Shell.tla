------------------------------- MODULE Shell -------------------------------
(***************************************************************************)
(* The shell of src/Project2/mufash.cpp: a line is parsed into commands,   *)
(* the commands are run in the shell or forked and connected by pipes, and *)
(* the shell waits for its children. The children are the programs that    *)
(* were executed; they are external and known by how much they read and    *)
(* write.                                                                  *)
(*                                                                         *)
(* A pipe has the name of the command it was made for, <<line, i>>. Its    *)
(* reader sees the end of the input when no process holds the write end    *)
(* any more, so the model keeps, for every process, the ends it holds. A   *)
(* writer always holds the read end of its own pipe as well (nothing       *)
(* closes it), so that no write raises SIGPIPE.                            *)
(***************************************************************************)
EXTENDS Lexer, FiniteSets

CONSTANTS
    Lines,         \* the lines the user may enter
    Programs,      \* what a program writes of its own and reads at most
    HOME,          \* the home directory in the environment, a word
    PipeCapacity,  \* how much a pipe holds
    MaxLines       \* bound: how many lines are entered

VARIABLES
    pc,         \* "prompt", "loop", "wait", "exited" or "aborted"
    line,       \* the number of lines read
    cmds,       \* the commands of the line
    i,          \* the index of both loops over cmds
    prev_pipe,  \* the pipes of the commands forked for the line
    skip_cmd,   \* the next command is the file of a redirection
    held,       \* the ends of pipes that the shell holds
    child,      \* the processes that were forked
    buffer      \* how much is in every pipe

shellVars == <<pc, line, cmds, i, prev_pipe, skip_cmd, held>>
vars == <<shellVars, child, buffer>>

outputs == {"redir_output", "append_output"}

(* Two separators in a row give a command without a name, whose args[0] is *)
(* undefined; such lines are excluded.                                     *)
ASSUME ShellAssumption ==
    /\ PipeCapacity \in Nat \ {0} /\ MaxLines \in Nat
    /\ \A n \in DOMAIN Programs : Programs[n] \in [gives : Nat, takes : Nat]
    /\ Lines \subseteq Seq(STRING \ {NUL})
    /\ \A text \in Lines : \A k \in DOMAIN Parse(text) : Parse(text)[k].args # <<>>

----------------------------------------------------------------------------
(* Pipes and processes                                                     *)

Terminal == <<0, 0>>
File == <<0, 1>>

Ends(pipe) == {<<pipe, "read">>, <<pipe, "write">>}

executable_path == cmds[i].args[1]

(* The built-ins that is_parent marks; the others run in a child.          *)
endsShell == {<<"quit">>, <<"exit">>}
is_parent == {<<"cd">>, <<"pause">>} \cup endsShell

(* cd replaces the first ~ of its path, by default HOME, without a look    *)
(* whether there is one: replace at npos throws, and nothing catches it.   *)
path(cmd) == IF Len(cmd.args) = 1 THEN HOME ELSE cmd.args[2]
Throws(cmd) == cmd.args[1] = <<"cd">> /\ "~" \notin ToSet(path(cmd))

(* The pipe of the command in hand.                                        *)
pipefd == <<line, i>>
Made == IF cmds[i].redir = "pipe" THEN {pipefd} ELSE {}

pipe_disconnected == i = 1 \/ cmds[i - 1].redir # "pipe"

Stdin_Front ==
    IF pipe_disconnected \/ prev_pipe = <<>> THEN Terminal ELSE Head(prev_pipe)
Stdin ==
    IF pipe_disconnected \/ prev_pipe = <<>> THEN Terminal ELSE Last(prev_pipe)

Stdout ==
    IF i = Len(cmds) THEN Terminal
    ELSE CASE cmds[i].redir = "pipe"      -> pipefd
           [] cmds[i].redir \in outputs   -> File
           [] OTHER                       -> Terminal

(* The ends a child closes before it executes its program.                 *)
Closed_None == {}
Closed ==
    IF Stdin = Terminal THEN {} ELSE {<<pipe, "write">> : pipe \in ToSet(prev_pipe)}

Running == {c \in DOMAIN child : child[c].state \in {"forked", "running"}}
Unreaped == {c \in DOMAIN child : child[c].state # "reaped"}
Ended == DOMAIN child \ Running

(* A program that cannot be executed reads and writes nothing.             *)
Behaviour(c) ==
    IF child[c].exe \in DOMAIN Programs THEN Programs[child[c].exe]
    ELSE [gives |-> 0, takes |-> 0]

Init ==
    /\ pc = "prompt" /\ line = 0 /\ cmds = <<>> /\ i = 1
    /\ prev_pipe = <<>> /\ skip_cmd = FALSE /\ held = {}
    /\ child = <<>> /\ buffer = <<>>

----------------------------------------------------------------------------
(* The shell                                                               *)

readline_KeepsPipes(text) ==
    /\ pc = "prompt" /\ line < MaxLines
    /\ pc' = "loop" /\ line' = line + 1
    /\ cmds' = Parse(text) /\ i' = 1 /\ skip_cmd' = FALSE
    /\ UNCHANGED <<prev_pipe, held, child, buffer>>

readline(text) ==
    /\ pc = "prompt" /\ line < MaxLines
    /\ pc' = "loop" /\ line' = line + 1
    /\ cmds' = Parse(text) /\ i' = 1 /\ prev_pipe' = <<>> /\ skip_cmd' = FALSE
    /\ UNCHANGED <<held, child, buffer>>

(* The shell is gone, and with it the ends of pipes it held.               *)
Exit(how) ==
    /\ pc' = how /\ held' = {}
    /\ UNCHANGED <<line, cmds, i, prev_pipe, skip_cmd, child, buffer>>

(* readline returns null at the end of the input.                          *)
endOfInput == pc = "prompt" /\ Exit("exited")

(* One turn of the loop over the commands begins.                          *)
Turn == pc = "loop" /\ i <= Len(cmds)

skip ==
    /\ Turn /\ skip_cmd
    /\ skip_cmd' = FALSE /\ i' = i + 1
    /\ UNCHANGED <<pc, line, cmds, prev_pipe, held, child, buffer>>

MakePipe ==
    /\ held' = held \cup UNION {Ends(pipe) : pipe \in Made}
    /\ buffer' = [pipe \in DOMAIN buffer \cup Made |->
                     IF pipe \in Made THEN 0 ELSE buffer[pipe]]

quit == Turn /\ ~skip_cmd /\ executable_path \in endsShell /\ Exit("exited")

(* The exception of cd ends the process; the children go on.               *)
abort == Turn /\ ~skip_cmd /\ Throws(cmds[i]) /\ Exit("aborted")

(* cd to a directory, or not if there is none, and pause, once the user    *)
(* presses enter. The `continue` passes over prev_pipe and skip_cmd.       *)
built_in_func ==
    /\ Turn /\ ~skip_cmd /\ executable_path \in is_parent \ endsShell
    /\ ~Throws(cmds[i])
    /\ MakePipe
    /\ i' = i + 1
    /\ UNCHANGED <<pc, line, cmds, prev_pipe, skip_cmd, child>>

(* The child starts with everything the shell holds.                       *)
Forked ==
    [state |-> "forked", exe |-> executable_path,
     connected |-> ~pipe_disconnected, in |-> Stdin, out |-> Stdout,
     open |-> held', closes |-> Closed, got |-> 0, put |-> 0,
     waited |-> \A k \in 1 .. i : ~cmds[k].background]

(* A fork that fails ends the shell and is left out.                       *)
fork ==
    /\ Turn /\ ~skip_cmd /\ executable_path \notin is_parent
    /\ MakePipe
    /\ child' = [c \in DOMAIN child \cup {<<line, i>>} |->
                    IF c = <<line, i>> THEN Forked ELSE child[c]]
    /\ prev_pipe' = prev_pipe \o SetToSeq(Made)
    /\ skip_cmd' = (cmds[i].redir \in outputs)
    /\ i' = i + 1
    /\ UNCHANGED <<pc, line, cmds>>

closePipes_WriteEnds ==
    /\ pc = "loop" /\ i > Len(cmds)
    /\ held' = held \ {<<pipe, "write">> : pipe \in ToSet(prev_pipe)}
    /\ pc' = "wait" /\ i' = 1
    /\ UNCHANGED <<line, cmds, prev_pipe, skip_cmd, child, buffer>>

closePipes_SkipsFirst ==
    /\ pc = "loop" /\ i > Len(cmds)
    /\ held' = held \ UNION {Ends(pipe) : pipe \in ToSet(prev_pipe)}
    /\ pc' = "wait" /\ i' = 2
    /\ UNCHANGED <<line, cmds, prev_pipe, skip_cmd, child, buffer>>

closePipes ==
    /\ pc = "loop" /\ i > Len(cmds)
    /\ held' = held \ UNION {Ends(pipe) : pipe \in ToSet(prev_pipe)}
    /\ pc' = "wait" /\ i' = 1
    /\ UNCHANGED <<line, cmds, prev_pipe, skip_cmd, child, buffer>>

(* The loop of waits ends at the first background command.                 *)
Waits == i <= Len(cmds) /\ ~cmds[i].background

(* The pid of the fork was stored in a copy of the command: what is passed *)
(* is 0, any child. Without children waitpid returns an error, which is    *)
(* ignored.                                                                *)
waitpid ==
    /\ pc = "wait" /\ Waits
    /\ \/ /\ Unreaped = {}
          /\ UNCHANGED child
       \/ \E c \in Unreaped \ Running : child' = [child EXCEPT ![c].state = "reaped"]
    /\ i' = i + 1
    /\ UNCHANGED <<pc, line, cmds, prev_pipe, skip_cmd, held, buffer>>

prompt ==
    /\ pc = "wait" /\ ~Waits
    /\ pc' = "prompt"
    /\ UNCHANGED <<line, cmds, i, prev_pipe, skip_cmd, held, child, buffer>>

shell == skip \/ quit \/ abort \/ built_in_func \/ fork \/ closePipes \/ waitpid \/ prompt

----------------------------------------------------------------------------
(* The children                                                            *)

(* From fork to execv.                                                     *)
execv(c) ==
    /\ child[c].state = "forked"
    /\ child' = [child EXCEPT ![c].state = "running", ![c].open = @ \ child[c].closes]
    /\ UNCHANGED <<shellVars, buffer>>

(* A program passes on what it reads, besides what it writes of its own.   *)
Due(c) == Behaviour(c).gives + child[c].got

Write(c) ==
    /\ child[c].state = "running" /\ child[c].put < Due(c)
    /\ child' = [child EXCEPT ![c].put = @ + 1]
    /\ \/ child[c].out \in {Terminal, File} /\ UNCHANGED buffer
       \/ /\ child[c].out \in DOMAIN buffer
          /\ buffer[child[c].out] < PipeCapacity
          /\ buffer' = [buffer EXCEPT ![child[c].out] = @ + 1]
    /\ UNCHANGED shellVars

Read(c) ==
    /\ child[c].state = "running" /\ child[c].put = Due(c)
    /\ child[c].got < Behaviour(c).takes
    /\ child[c].in \in DOMAIN buffer /\ buffer[child[c].in] > 0
    /\ child' = [child EXCEPT ![c].got = @ + 1]
    /\ buffer' = [buffer EXCEPT ![child[c].in] = @ - 1]
    /\ UNCHANGED shellVars

(* The user ends the input of the terminal.                                *)
EndOfFile(c) ==
    LET in == child[c].in IN
    \/ in = Terminal
    \/ /\ in \in DOMAIN buffer /\ buffer[in] = 0
       /\ \A p \in Running : <<in, "write">> \notin child[p].open
       /\ <<in, "write">> \notin held

Terminate(c) ==
    /\ child[c].state = "running" /\ child[c].put = Due(c)
    /\ child[c].got = Behaviour(c).takes \/ EndOfFile(c)
    /\ child' = [child EXCEPT ![c].state = "zombie", ![c].open = {}]
    /\ UNCHANGED <<shellVars, buffer>>

Process(c) == execv(c) \/ Write(c) \/ Read(c) \/ Terminate(c)

----------------------------------------------------------------------------
Next ==
    \/ \E text \in Lines : readline(text)
    \/ endOfInput
    \/ shell
    \/ \E c \in DOMAIN child : Process(c)

(* The operating system runs the shell and every child, a program that can *)
(* go on does, and the user ends the input of a program that reads from    *)
(* the terminal and presses enter for pause. The user need not enter a     *)
(* line.                                                                   *)
Children == (1 .. MaxLines) \X (1 .. Max({Len(Parse(text)) : text \in Lines}))

Fairness ==
    /\ WF_vars(shell)
    /\ \A c \in Children : WF_vars(c \in DOMAIN child /\ Process(c))

Spec == Init /\ [][Next]_vars /\ Fairness

----------------------------------------------------------------------------
(* Properties                                                              *)

(* The pipes of prev_pipe belong to the line in hand and a pipe is never   *)
(* above its capacity.                                                     *)
TypeOK ==
    /\ pc \in {"prompt", "loop", "wait", "exited", "aborted"}
    /\ line \in 0 .. MaxLines /\ i \in 1 .. Len(cmds) + 1
    /\ cmds \in Seq(Command) /\ skip_cmd \in BOOLEAN
    /\ ToSet(prev_pipe) \subseteq {line} \X (1 .. Len(cmds))
    /\ ToSet(prev_pipe) \subseteq DOMAIN buffer
    /\ held \subseteq UNION {Ends(pipe) : pipe \in DOMAIN buffer}
    /\ \A pipe \in DOMAIN buffer : buffer[pipe] \in 0 .. PipeCapacity
    /\ \A c \in DOMAIN child :
          /\ child[c].state \in {"forked", "running", "zombie", "reaped"}
          /\ child[c].in \in DOMAIN buffer \cup {Terminal}
          /\ child[c].out \in DOMAIN buffer \cup {Terminal, File}
          /\ child[c].open \subseteq UNION {Ends(pipe) : pipe \in DOMAIN buffer}

(* The loop of waits (line 510) counts commands and takes any child. At    *)
(* the prompt there are still no more children than commands the loop left *)
(* out: those from the first background command of a line on.              *)
ChildrenAtPrompt ==
    pc = "prompt" =>
        Cardinality(Unreaped)
            <= Cardinality({c \in DOMAIN child : ~child[c].waited})

(* At the prompt the shell has closed both ends of every pipe (line 505),  *)
(* but for the pipes it made for commands that it ran itself (line 455).   *)
NoPipeLeft ==
    pc = "prompt" =>
        held = UNION {Ends(pipe) : pipe \in DOMAIN buffer \ DOMAIN child}

(* A command that read until the end of its input got everything that the  *)
(* command on the left of the pipe wrote, and that one has ended: the read *)
(* ends are of the right pipe (line 461), nobody else reads from it, and   *)
(* no end of file comes before the writer has ended.                       *)
PipelineDelivers ==
    \A c \in Ended :
        LET left == <<c[1], c[2] - 1>> IN
        /\ child[c].connected /\ left \in DOMAIN child
        /\ child[c].got < Behaviour(c).takes
        => left \in Ended /\ child[c].got = child[left].put

(* Every line in which no cd throws leads back to the prompt, or to quit:  *)
(* each reader sees the end of its input since the shell and the children  *)
(* close the write ends (lines 463 and 507), and every wait finds a child  *)
(* that ends, or none (line 512).                                          *)
PromptReturns ==
    pc \in {"loop", "wait"} /\ (\A k \in DOMAIN cmds : ~Throws(cmds[k]))
        ~> pc \in {"prompt", "exited"}

----------------------------------------------------------------------------
(* What the readme says and the code does not do                           *)

(* "cd: change directory", and only "quit (exit): quit terminal": after a  *)
(* cd the shell goes on with the line. It does not when the path has no ~  *)
(* (built_in_func, line 138).                                              *)
CdReturns == [][Turn /\ executable_path = <<"cd">> => pc' = "loop"]_vars
=============================================================================
