# Specifications of the SysProg projects

The repository holds four course projects: a discrete event simulation
(`Project1`), a shell (`Project2`), a spell checking server (`Project3`) and a
file system in a file (`Project4`). They share no code. This directory holds
TLA+ specifications of them, configurations for TLC, and proofs for TLAPS.

`PROJECT.json` lists the components, the runs, the definitions with the source
lines they stand for, the hazards and the theorems.

## Inventory

### Project1: event simulation (`main.c`, `misc.c`, `misc.h`)

State: `simTime`; a CPU and two disks, each with a bounded queue, a
`currentJob` and a `Telemetry`; the `upcomingJob` and the counters of
`generateJob`; per job an `arrivalTime` and a `burstTime`.

Operations: `simulate()` runs one pass per unit of time: `userActivity` lets a
job in, `cpuDetermineJob` takes finished jobs back from the disks (or swaps one
with the job that blocks the CPU) and gives the CPU a job, the CPU works and
sends the finished job to a disk, kills it or leaves it waiting, `diskCompute`
lets the disks work, `recordCommonStats` samples the telemetry.

Interaction: by the shared structures only; the program is sequential. What is
hard is the order of the handlers. A job sits at the head of a list and in
`currentJob` at once, lists are changed in several places, a full queue sends a
job on another path, and the deadlock between a full CPU queue and full disks
is resolved by exceeding a limit for a moment.

What makes it correct: no job is lost, duplicated or overtaken; limits hold;
the job a removal drops is the one that was in service; a CPU that waits is
waiting for something that can happen; the statistics mean what they say.

`misc.c` reads `conf.txt` into the configuration (`readConf` splits it with
`str_split`, which counts tokens before it makes them), collects the log in one
growing buffer, and computes the final statistics (`finalizeStats`).

### Project1: priority queue (`pqueue.c`)

A linked list with `push_queue` (by priority), `push_queue_end` and
`pop_queue`. The simulation uses it as a FIFO queue: the priority is the time
of arrival, except that jobs that return get 0. Correct when a push keeps the
order of what is there and puts the new node at one place.

### Project3: queue and server

`consumer_producer_queue.hpp`: one mutex, one condition variable for both
"not full" and "not empty", a `std::queue`, `maxsize` (0 is unlimited).
`server.cpp`: an accept loop adds sockets to one queue; ten workers consume a
socket, answer its words in `respond` until the client leaves, and close it;
`respond` adds log text to a second queue that one logger thread writes to the
file. `semaphore.cpp` is constructed once and never used.
`client_benchmark.cpp` connects, sends a word, reads the response and closes, for
ever; `client.cpp` does so once. `utils.cpp` formats strings.

Hard here: the interleaving of all threads, wake-ups (lost, or for the wrong
thread), descriptors that the kernel gives out again after `close`, words that
TCP cuts or joins, a client that keeps a worker for as long as it likes.

What makes it correct: mutual exclusion, no underflow, no lost wake-up, FIFO,
one worker per connection, one answer per word, every event in the log once.

### Project4: file system (`mufa_fs/main.cpp`)

On the drive: a super block, a table of inodes, data blocks. In memory: a copy
of the inodes, a bitmap of the data blocks, a priority queue of inodes, the
working directory. Operations: `mkdir`, `touch`, `write`, `rm`, `cd`, `ls`,
`cat`, `reformat`, and mounting a drive. Hard here: memory, bitmap, directory
blocks and inode table are written at different times; the root directory is
marked by block number 0, which also means "no block"; a mount rebuilds the
bitmap from the drive. Correct when no two inodes share a block, the bitmap is
the set of the blocks in use, the directories form a tree, and a mount finds
what the last session left. `createDriveImage` computes where everything lies on
a drive of a given size; correct when no two areas overlap. The prompt uses a
copy of the shell's lexer.

### Project2: shell (`mufash.cpp`)

A lexer turns a line, one character after the other, into commands joined by
`;`, `|`, `>`, `>>` and `&`, with `\`, `'` and `#` to escape, quote and comment;
a loop runs built-ins in the shell and forks the rest, connecting them by
pipes; then the shell waits for the children. Hard here: who holds which end
of which pipe, what is waited for, what a background command leaves behind,
and a `cd` that ends the shell in the middle of a line.
Correct when every reader sees the end of its input, the shell waits for the
children of the line and only for them, every child is reaped, and the commands
are those that were written.
The built-ins are `built_in_func` of `mufash.cpp`; those of `built_in.cpp` are
linked and never called. `Project2/project 2 submission` is a copy.

### The rest

`misc.cpp`, `utils.cpp`: string and file helpers. `Project4/fat_tutorial1`,
`read_mbr2.c`, `playground.c`, `Project1/other`, `shell_old.cpp`: tutorials and
experiments no program uses.

## Modules

| module | models | built on |
|---|---|---|
| `PQueue` | `pqueue.c` as operators on sequences of nodes | |
| `Simulator` | `main.c` of Project1, with what it uses of `misc.c` | `PQueue` |
| `Conf` | `readConf`, `str_split`, `fillConf` of `misc.c` on texts of symbols | |
| `MCSimulator` | an instance for TLC, with its numbers read from a `conf.txt` | `Simulator`, `Conf` |
| `LogBuffer` | the log buffer of `misc.c`, with a theorem | |
| `PQueueProofs` | theorems on lists, on induction over numbers and on joined sequences | `PQueue` |
| `SimulatorProofs` | theorems on the places of the jobs | `Simulator`, `PQueueProofs` |
| `SimulatorStatsProofs` | theorems on the telemetry, Little's law, the waiting CPU and the order of the CPU's queue | `SimulatorProofs` |
| `FifoQueue` | what a shared queue promises: abstract specification | |
| `ConsumerProducerQueue` | the monitor of `consumer_producer_queue.hpp` | `FifoQueue` (refinement) |
| `MCConsumerProducerQueue` | instances for TLC | `ConsumerProducerQueue` |
| `ConsumerProducerQueueProofs` | theorems | |
| `SpellServer` | `server.cpp`: accept loop, workers, logger, with clients and sockets | the queues as `FifoQueue` promises them |
| `MCSpellServer` | instances for TLC | `SpellServer` |
| `SpellServerProofs` | theorems | `SpellServer`, `PQueueProofs` |
| `BenchmarkClient` | `client_benchmark.cpp` and `client.cpp` with the server | `SpellServer` |
| `MCBenchmarkClient` | an instance for TLC | `BenchmarkClient` |
| `DirectoryTree` | what the file system is meant to be: abstract specification | |
| `FileSystem` | `mufa_fs/main.cpp`: inodes, bitmap, drive, commands, mount | `DirectoryTree` (refinement) |
| `DriveLayout` | `createDriveImage`: the areas of a drive of a given size | |
| `MCFileSystem` | instances for TLC | `FileSystem`, `DriveLayout` |
| `FileSystemProofs` | theorems on a session, on what a start finds after it and on the layout of the drive | `FileSystem`, `DriveLayout`, `PQueueProofs` |
| `Lexer` | the lexer of `mufash.cpp` and `mufa_fs/main.cpp` | |
| `Shell` | `mufash.cpp`: forks, pipes and waits, with the programs it runs | `Lexer` |
| `MCShell` | instances for TLC | `Shell` |
| `ShellProofs` | theorems on the lexer and the shell | `Shell`, `PQueueProofs` |

### Simulator

`pc` names the next step of the pass and the actions are the steps in the order
of the code: `Tick` is the loop condition, `userActivity` the handler of that
name with `generateJob` and `arriveAtCPU` inside, `DiskReturns`,
`SwapWithDisk` and `NothingReturns` the three outcomes of one turn of
`cpuDetermineJob`'s loop over the disks, `cpuIdle`, `cpuCompute`, `cpuToDisk`,
`cpuBlocks` and `killJob` the outcomes of the CPU's part, then `diskCompute`
and `recordCommonStats`. One action is one handler with every call it makes.

Jobs are numbered as `generateJob` numbers them. A list is the sequence of its
nodes. Random draws are choices from the range `myrandom` can return;
`jobNeedsDisk` is the set of its possible results. Integers are unbounded: the
widths of the C types matter only where `ConfAssumption` excludes the values
(`*_MIN` of 0, a minimum above a maximum), and those are listed as hazards.
Nodes are not freed by the removals of the code; memory is not modelled.

`finalizeStats` gives a `double` as the pair of its numerator and denominator.

Definitions with a suffix (`Full_OffByOne`) are faulty variants: one plausible
bug each, used to show that a property notices it. The specifications do not
use them.

### Conf and LogBuffer

A text of `Conf` is a sequence of words, spaces and newlines. `str_split` counts
delimiters as the code does and is `Aborted` when `strtok` finds another number
of tokens, which the assertion of `misc.c:80` turns into the end of the program.
`ReadsConf` compares `readConf` with what the positions of the words say, and
`ConfIsRead` asks for it of every text of up to seven symbols, with room for a
key that is set twice, a line without a value and blanks everywhere. `Conf` has
no state: the check is made in the initial state of the simulation, whose
constants are the numbers read. `LogBuffer` keeps the length of the text and the
size of its memory.

### ConsumerProducerQueue

A thread is at `idle`, `lock`, `test`, `waiting`, `access`, `unlock` or
`notify`; every step between two of them is one action, so that any other
thread may come in between. `cond.wait` with a predicate is the loop
`test -> waiting -> lock -> test`; releasing the mutex and going to sleep is
one step, as the standard says. `SpuriousWakeup` is always possible. `CallAdd`
and `CallConsume` are the callers.

`FifoQueue` has one atomic step per call, `Put` or `Take`. The refinement
mapping keeps the queue and calls a thread "pending" until its push or pop and
"done" afterwards.

### SpellServer

`accept` and `addsocket` are the loop of `main`; `consume`, `recv`, `write`,
`logText` and `close` are the steps of a worker, `recvEnd` the case in which
`recv` returns 0 or -1; `logger` is the logger thread. An `add` or `consume` on
a queue is one atomic step, which the refinement of `FifoQueue` justifies. The
environment is external: `Connect`, `Send` and `Leave` are a client, which may
do all three before it is accepted. `stream` holds the bytes of a client that
were not received yet and `recv` takes any number of them, up to its buffer.
`accept` returns the lowest free descriptor, as the kernel does. A client that
left answers the first write by a reset, after which `SIGPIPE` may end the
process; nothing handles the signal. `Idle` is the state in which every thread
is blocked because no client is left.

### BenchmarkClient

The processes of the two client programs replace the environment of
`SpellServer`: its `Connect` is part of `connect`, and `send`, `read` and
`closeSocket` are the other steps of a round, each with what it does to the
connection. Every round is a `Client` of its own, so a process that comes back
meets what the server still holds of its earlier rounds. The threads of the
server are the actions of `SpellServer`, unchanged.

### FileSystem

A block holds `block_size` units; the unit of a text is a character and of a
directory an entry, so that the conversions between entries and bytes are left
out while blocks, their numbers and their order are kept. `fs` holds the
`inodes` and the `bitmap` in memory and the `table` of inodes and the `data` on
the drive, `pending` the slot whose write is still in the buffer of the stream
(every access starts with an `fseek`, which writes the buffer out), `flushed` the
table as it is without that write, and `stale` that the drive was formatted behind the Instance.
`write_file`, `purge_file_contents`, `write_inode` and
`insert_dir_entry` are operators from a state to the state after the call; an
action is a command of the prompt with all its calls. `rm` is recursive and
reads entries before it recurses: `calls` is its stack, `rmChild` the recursive
call, `rmReturn` the end of a call. `Remount` leaves the program and starts it
again (`init`). The comparison `comp` of the priority queue is modelled, so
`find_inode` takes the inode that the program takes.

There are three specifications. `Spec` allows every command at any time.
`SessionSpec` is the use that works: objects are made only while an inode is
free and `cd` names a directory. `MountSpec` is one such session followed by a
`Remount`, possibly with a `reformat` before it. What goes wrong
outside of them is listed under "Divergences".

`DirectoryTree` has objects with a kind, entries and a text. The refinement
mapping takes an inode as an object when entries lead to it from the root
(`InTree`), and the entries of a directory and the text of a file from their
blocks. An entry alone does not make an object: the inode of a removed directory
stays on the drive as it was, with its type and its blocks, and a start reads it
again. It can then name an inode that is in use again, but no entry leads to it.
So `ImplementsDirectoryTree` says that the blocks of an object hold exactly
what the commands put there, whatever was done to others, and that each return
of the recursive `rm` removes one empty object. A `reformat` is its `Format`.

`Mounted` is what a start finds on a drive with a given table. With `flushed` it
is what is left after the process was killed: `KillLosesOneObject` compares that
with the tree before, at every prompt of a session.

### DriveLayout

The numbers of the code (sizes of the structures, block size, one inode in
thirty blocks) for a drive of any size; the areas are those that `write_inode`
and `write_file` compute. The properties are stated for a size and proved for
every size in `FileSystemProofs`; `DriveIsSound` evaluates them on sizes around
the smallest drive. `DriveIsNeverFull` is why `FileSystem` may assume that a free
block is found.

### Lexer

`Character` is one turn of the loop over the characters. The inner loops over a
quotation and a comment, and the look at the character after `\` and `>`, are
modes between turns. `Parse` is what the shell makes of the result,
`parseCommands` what the file system makes of it. A character that needs no
distinction, or a name, is one symbol. `ReadsCommands` goes the other way: it
writes commands on a line, each letter plain, escaped or quoted, and says that
the lexer gives them back.

### Shell

`readline` takes `cmds` from `Parse` of `Lexer`. `skip`, `quit`, `abort`,
`built_in_func` and `fork` are the five things a turn of the loop over the
commands can do (`abort` is the exception of `cd` that nobody catches, with `HOME`
the path of a `cd` without one), `closePipes`, `waitpid` and `prompt` what follows it. A child
takes a copy of everything the shell holds at the fork; `execv` is its own code
up to the program, after which `Write`, `Read` and `Terminate` are the program,
known only by how much it writes of its own (`gives`) and how much it reads at
most (`takes`). A pipe is a count of what is in it, and `held` and `open` say
who holds which end, since that decides when a reader sees the end of its
input. The pid passed to `waitpid` is 0 in every call (the one of the fork goes
into a copy of the command), so any child that ended may be reaped.

## Runs

| run | shows |
|---|---|
| `simulation` | the properties below on `MCSimulator.cfg` |
| `queue` | two producers, two consumers, two slots, two different requests, with fairness: mutual exclusion, capacity, safe access, no lost wake-up, refinement of `FifoQueue` (requests leave in their order) with its liveness |
| `server` | two clients, two workers, two descriptors: ownership of descriptors, no letter lost or misplaced, order of the log |
| `server_live` | two clients, one worker, with fairness: every client is served, every event is logged |
| `server_words` | violated: one response per word of the readme |
| `benchmark` | a benchmark of two rounds and a client of one, one worker, with fairness: every round ends with a response to its word |
| `file_system` | every session on three free inodes: `NoSharedBlocks`, `BitmapInSync`, `ParentLinks`, `KillLosesOneObject`; and `DriveIsSound` |
| `mount` | a session implements `DirectoryTree`, and a mount after it finds the tree that was left, or an empty one after a `reformat` |
| `bitmap_after_mount` | violated: the bitmap in sync with the drive, of the readme |
| `cat_two_blocks` | violated: `cat` of the readme, for a file of two blocks |
| `shell` | the lexer on lines of up to two commands and on all short lines; two of fourteen lines, one after the other: the properties of the shell below, with fairness |
| `shell_cd` | violated: `cd` of the readme, for a path without `~` |

Bounds. `simulation` runs 7 units of time with a CPU queue of 2 and disk queues
of 2 and 1. Up to seven jobs enter; that fills every queue, blocks the CPU,
swaps on either disk and kills jobs in every order. The sizes of the program
(3, 4, 4) need far longer runs to fill and add no case: the code compares a
size with a limit only. Times of 1 or 2 units let jobs finish together and
apart. The violation runs use the smallest times that reach their case.
The clients of the server runs send two different words of one letter and a
newline (`Script`), or less. Two clients with two descriptors suffice for a
descriptor to be given out again while the other is in use, and a buffer of
three bytes lets `recv` cut inside a word and join two. One worker and two
clients make a client wait for another. In `benchmark` the second round begins
while the worker may still be busy with the end of the first.

The file system runs have the root and three inodes, blocks of two units and
two blocks for an inode: texts of less than a block, one block and two, a
directory in a directory with a file, two names (also twice in one directory,
which the program allows). The blocks suffice for every inode. `Room` keeps a
directory to its first block: the program reads entries that straddle two
blocks wrong, and that representation is not modelled. `MaxSessions` is 2 where
the drive is mounted again; `mount` says what the first session leaves.

`LinesAreRead` takes commands of one and two words with one or two letters, in
every way to write them, with every separator, spaces and a comment;
`NoLetterLost` takes every line of up to five characters of the kinds the lexer
tells apart. The lines of `shell` have pipelines of two and three commands, two pipelines, a
redirection in front of a pipe and behind one, a built-in that runs in the shell
inside a pipeline, a program that does not exist, a separator at the end, and
background commands at the end and in the middle, a `cd` that returns and two that end
the shell, one with children that run on. `src` writes more than a pipe
holds, so that a writer waits for its reader. With two lines a background
command, its zombie or a lost pipe of the first meets every kind of second
line. No line has two separators in a row (undefined behaviour), and none is of
the kinds listed for the shell under "Divergences" that hang. `one | pause | cat`
is a line in which `cat` reads from the pipe of `one`; `PipelineDelivers` says
nothing of it, because `pause` is no child.

In `queue` two slots and two different requests make the order visible; the two
producers fill the queue and wait, the two consumers empty it and wait, and both
kinds can be asleep when a notification comes. `Backlog` bounds how many requests
may be queued when another `add` is called on an unlimited queue; here it is above
`maxsize` and excludes nothing. The queues of the server have `maxsize` 0, which no
`add` waits for; the theorems hold for it as for every other.

Properties of the simulation:

- `JobsConserved`: every generated job is upcoming, terminated or at one place
  of one queue.
- `QueueBounds`: no queue is above its limit between handlers.
- `CurrentIsHead`: `currentJob` is the head of its list, which the removals
  assume. `FinishedDiskHeadIsCurrent`: a finished head is `currentJob`, so
  `removeJobFromDisk` has a job to read.
- `WaitingCpuHasBusyDisk`: the CPU never waits while both disks are without a
  job. This depends on the limits: the disks together must hold as many jobs as
  the CPU queue at least (8 and 3 in the program, 3 and 2 in the run); see
  "Proofs".
- `DiskLittlesLaw`: the sampled queue lengths and the response times of a disk
  count the same thing. `FlowBalance`: the responses of the CPU are the jobs
  that went to the disks.
- `CpuFIFO`: no step changes the order of the jobs in the CPU queue or lets a
  job in before another.
- `StatsAgree`: the printed statistics of a device are consistent with each other
  after every pass: no average is above its maximum, the throughput is at most
  1 and for a disk at most its utilization.
- `ConfIsRead`: see above.

Properties of the server:

- `DescriptorOwned`: an open descriptor is with `main`, in the queue or with a
  worker, once; a closed one nowhere; a worker's descriptor stays connected to
  the client it was accepted for.
- `StreamIntegrity`: the words answered to a client, the one in hand and the
  bytes not received are what it sent.
- `LogOrder`: the texts of a connection are logged in order, the end last.
- `EveryClientIsServed`, `EventsAreLogged`: under fairness, unless the process
  was killed by `SIGPIPE`.

- `RoundEnds`: a client that has connected gets a response to its own word, or to
  the first part of it, and comes to its `close`.

Properties of the shell:

- `LinesAreRead`: the commands are those that were written. `NoLetterLost`: every
  letter of a line without a comment ends up in one argument, in order, also on
  lines that mean nothing.

- `ChildrenAtPrompt`: at the prompt there are no more children than commands
  that the waits leave out, although a wait takes any child.
- `NoPipeLeft`: at the prompt the shell holds no end of a pipe but those it lost
  by running a command itself.
- `PipelineDelivers`: a command that read to the end of its input got all that
  its left neighbour wrote, and nothing else.
- `PromptReturns`: under fairness, every line in which no `cd` throws leads back to
  the prompt, or to `quit`.

Properties of the file system:

- `NoSharedBlocks`, `BitmapInSync`: blocks have one owner; the bitmap marks the
  blocks of the root and of what has an entry, no others.
- `ParentLinks`: an object has one entry, and `cd ..` leads to its directory.
- `ImplementsDirectoryTree`, `MountRestoresTree`: see above.
- `KillLosesOneObject`: a process killed at the prompt loses at most the object
  whose inode was written last.
- `DriveIsSound`: the areas of a drive do not overlap and it is never full.

## Divergences

Four runs end with a counterexample to a statement of the documentation;
`PROJECT.json` quotes the statements under "findings". Other disagreements were
met while the models were written and have no run:

- `pqueue.c:44`: of two jobs that arrive at a disk in one unit of time (one by
  the swap) the second goes first; `misc.h:25` calls every queue FIFO.
- `main.c:161`: a job that found all disks full leaves the CPU only by the swap,
  which also wants a full CPU queue; the README lets it wait "until one of the
  disks is available".
- `main.c:61`: `arriveAtDisk` overwrites the `arrivalTime` that
  `removeJobFromCPU` then reads, so the response of the CPU is 0 for a job that
  goes to a disk the normal way; `misc.h:77` calls it the "difference in time
  between the job arrival at a server and the completion".
- `main.c:295`: `killJob` records no response, so `responseCount` is not the
  "number of jobs completed" of `misc.h:70`.
- `main.c:273`: jobs held back by a full queue enter one per unit of time,
  whatever `ARRIVE_MIN`. `main.c:218`: disk 2 draws its service time up to
  `DISK1_MAX`.
- `mufa_fs/main.cpp:259`: when no inode is free `find_inode` returns one in use,
  the root's first; its comment says "returns an unallocated inode".
- `main.cpp:316`: `touch` does not put the inode back into the priority queue,
  which "holds all the inodes"; `main.cpp:350`: `rm` leaves the inode of what it
  removed in use, on the drive with its old blocks.
- `main.cpp:594`: after its message `cd` goes to a file all the same, and a
  `mkdir` there overwrites it.
- `misc.c:80`: a blank line, a line that begins with a space or two adjacent
  spaces in `conf.txt` end the program by an assertion; a line without a value
  is passed over, and the words after the second are ignored.
- `misc.c:158`: `appendLog` leaves no room for the terminating zero, which is
  written one byte behind the memory when the text fills it exactly.
- `misc.c:194`: the average of a device that recorded no response is 0/0. The
  CPU's `busyTime` misses the pass in which a burst ends (`main.c:84` samples
  after the job has left), so that its utilization is too low and its throughput
  may be above it.
- `mufa_fs/main.cpp:151`: the reserved block is not subtracted, so that the last
  block ends up to one block beyond the size of the drive; a size below 80 bytes
  (`reformat 0`) wraps around and is accepted.
- `main.cpp:690`: after `reformat` the session goes on with its old inodes and
  bitmap, and writes them to the new drive.
- `main.cpp:812`: only the first command of a line is run (the comment there says
  "no redirection stuff"); an unknown command, or an empty line, is `ls`, the
  first value of the map.
- `mufash.cpp:347` and `main.cpp:750`: `ignorespace` is reset by a plain letter
  only, so `a 'b' c` has the arguments `a` and `bc`. A leading space gives a
  command without a name, an empty quotation at the end of a line is dropped, a
  comment ends at the next `#`, and a backslash in a quotation is never kept.
  After a backslash at the end of a line the zero of the string is taken.
- `client_benchmark.cpp:53`: after a failed `connect` the loop begins anew without
  closing the socket. A word that `recv` cuts gets the verdict on its first part,
  and a response left unread may end the server by `SIGPIPE` (`server.cpp:195`); the
  liveness properties of the server end there.
- `mufash.cpp:352`: `<` is not among the characters the lexer looks for;
  `a < f` runs `a` with the argument `f`. The readme describes the redirection.
- `mufash.cpp:510`: the waits end at the first background command, so that the
  shell does not wait for `b` in `a & b`; and a wait takes any child, so that
  the one wait of `pause` blocks while `sleep &` runs, or one for `a` takes a
  background child that ended instead. The comment says "wait for children to
  finish".
- `mufash.cpp:466`: the writer keeps the read end of its pipe; when the reader
  leaves early (`yes | head`) no signal ends the writer, and the prompt never
  returns. The same holds for `a | pause`.
- `mufash.cpp:457`: in `a | b ; s &` the last command holds the write end of the
  pipe, and `b` reads until `s` ends.
- `mufash.cpp:461`: in `a | b ; c > f | d` and in `a | pause | d` the last command
  reads from the pipe of `a`.
- `mufash.cpp:455`: after `pause > f` the `continue` leaves `skip_cmd` unset and
  the file name is run as a command.

## Fairness

`ConsumerProducerQueue!Fairness` says that the operating system runs every
thread: a thread inside `add` or `consume` takes its next step, and one that
asks for the mutex gets it if the mutex is free again and again. A consumer's
loop calls `consume` again, as `worker_handler` and `logger_handler` do. Nobody
has to call `add`, and no spurious wake-up has to come. Strong fairness on
`Lock` is what a queueing or randomised mutex gives; with less, a thread could
lose the race for the mutex for ever. A particular `add` may still wait for
ever on a full queue when others take every slot: the code has no order among
waiters, and `FifoQueue` promises progress to some producer only.

`SpellServer!Fairness`: every thread runs, and a client leaves after a while. The
last is not something the code ensures: without it ten clients that stay keep
all others waiting for ever, which is how `respond` works.

`BenchmarkClient!BenchSpec`: the threads of the server and the processes of the
clients run. Here a client leaves because its program does, and what
`SpellServer` assumes of its clients follows.

`Shell!Fairness`: the shell and every child run, programs end when they have
nothing left to do, and the user ends the input of a program that reads the
terminal and presses enter for `pause`. The user need not enter a line. Without the assumption on programs a
foreground command that runs for ever keeps the prompt away, as it should.

The file system is sequential and its properties are safety properties.

## Proofs

All proofs are for every value of the constants that the assumptions allow.

`PQueueProofs`: what `push_queue` and `push_queue_end` do to a list. The place
where `push_queue` inserts is a `CHOOSE`, so its existence is proved first
(`PassedStops`, by the least position at which the loop stops). `PushInserts`
says the new list is the old one with one node added behind the head, unless
the head has a larger number.

`SimulatorProofs`: `SimulatorInv` is inductive. Its parts need each other. That
a removal drops the job in service (`CurrentIsHead`) needs that no push goes in
front of the head, hence that no priority in a queue is later than `simTime`
(`PastInv`). That a finished head is `currentJob` (`FinishedInv`) needs that
jobs enter a disk with work to do, hence `ConfAssumption`. That the ids suffice
(`TypeOK`) needs that one job at most is generated per unit of time
(`ClockInv`). `JobsConserved` is needed so that a change of one job's
`burstTime` does not touch another queue's jobs. There is one lemma per action;
the theorems `SimulatorInvariant`, `TypeCorrect`, `QueuesAreBounded`,
`NoJobIsLost`, `RemovalTakesCurrent` and `FinishedDiskHasCurrent` follow.
The only assumption is `ConfAssumption`.

`SimulatorStatsProofs`: `StatsInv` is inductive together with `SimulatorInv`. It
says of the telemetry what the handlers owe it: how many responses a device can
have recorded by the step of a pass that `pc` names (`FlowBalance`, `CountInv`: a
finished job that is still there counts as a response to come), that the sums
stay below the maxima (`SampleInv`), that a disk with a job works when it is
sampled (`BusyInv`), that the queues hold more jobs than the disks can while the
CPU waits (`WaitInv`), and that when a job is let in all others on the CPU came in
an earlier pass (`EarlierInv`). `FlowIsBalanced`, `StatisticsAgree`, `CpuIsFIFO` and
`WaitingCpuIsReleased` follow.

`DisksObeyLittlesLaw` rests on `SimulatorInv` alone. `TimeAt` is the sum over the jobs
of a disk of the time since their `arrivalTime`. The lemmas say how such a sum changes:
a job that `push_queue` inserts, at whatever place, has spent no time (`ArrivalTimes`);
the head takes along what its removal records (`TimesDropped`, `RemovalTime`, by
`CurrentIsHead`); a sample adds one for each job (`TimesLater`). That a handler sets
the `arrivalTime` of no other job on a disk is `JobsConserved`.

`WaitingCpuIsReleased` has an assumption of its own: the CPU's
queue is not larger than those of the disks together, as in the program
(`main.c:309`, `315` and `323`: 3, 4 and 4). It is needed. With a CPU queue of 5,
disk queues of 1 and disk bursts of 4, TLC finds a CPU that waits while both disks
are empty: nothing looks at the waiting job again until its queue is full.

`ConsumerProducerQueueProofs`: `QueueInv` is inductive, for any sets of threads
and any `maxsize`; `Refinement` proves that every step is a step of `FifoQueue`
or a stutter under the mapping. The assumption is `QueueAssumption`.

`SpellServerProofs`: for any clients, workers, descriptors, dictionary and size of
the buffer. `BaseInv` is inductive: an open descriptor is with `main`, in the
queue or with one worker, once (`OwnerInv`); the log of a worker is about the
client at the other end (`PeerInv`); a client has one connection (`OneConnection`);
a worker has a word in hand only between `recv` and `write` (`WordInv`).
`StreamIntegrity` needs that the texts answered to a client join to one text.
`FlattenSeq` is defined by a recursive function, so its equations are proved
first (`FlattenJoins` and `FlattenAppend` of `PQueueProofs`). The order of the log (`LogInv`) follows a text from the worker to the file.
The only assumption is `ServerAssumption`.

`ShellProofs`: for any lines, programs and size of a pipe. `LexerResult` says that
the lexer leaves well-formed commands, by an invariant of the pass over the
characters (`LexInv`). `LettersAreKept` says of every line without a comment what
`NoLetterLost` checks on short ones: in order, the valid characters of all arguments
are those of the line. The invariant of the pass is that this holds for the
characters read so far and that the mode is not that of a comment; what a step adds
to the arguments is the character or nothing, and it is the character when that is
valid (`CharacterArgs`). No step looks at what the arguments hold but
`WithoutEmptyLast`, which drops only an empty one (`FlattenArgs`). `ShellInv` is inductive. Names of commands are new
(`NameInv`). The shell holds both ends of the pipes in `prev_pipe` and of those it
made for built-ins, and of no others (`HeldInv`); this gives `NoPipeLeft`. A wait
takes any child, so which children are left says little: `WaitInv` counts them, and
every wait still to come takes one. `PipeInv` is about the pipes: what `prev_pipe`
holds (`LineInv`), that a reader has the pipe of its left neighbour and nobody else
reads from it (`ConnectedInv`), that a writer keeps its end open until it ends
(`WriterInv`), that what was written is in the pipe or was read (`FlowInv`), and
that an end of file was seen only behind a writer that ended (`EndInv`).
`PipelinesDeliver` is stated for lines that satisfy `ForksItsPipes`: behind the
first `|` of a line, a command in front of a `|` is neither a built-in of the shell
nor the file of a redirection. On other lines two commands read from one pipe
(`mufash.cpp:461` under "Divergences"), and the property may fail. The lines of
`shell` satisfy it but for `one | pause | cat`. The other assumption is
`ShellAssumption`.

`FileSystemProofs`: for a drive of any size, any names and texts and any depth of
directories, under `SessionSpec`. `SessionInv` is inductive. Its parts:

- `DriveInv`: no block has two owners, and the marked blocks are those with an
  owner. It is stated for a state of inodes and drive, because it has to hold
  between the writes of one command too: `FileWritten` says that `write_file` keeps
  it and what it leaves of every other inode, and `PurgedDrive` the same of
  `purge_file_contents`. That a free block is always found (`SpaceIsFree`) is counted
  from the owners and `FileSystemAssumption`. The root owns block 0 even when its
  `data_blocks` are all 0; that `write_file` gives it back to the root (`FirstFree`
  takes the smallest free block) is why `Holds` may treat the root apart.
- `TreeInv`: an object has one entry, and what owns a block has an entry. The
  number of an object is smaller than the number of its directory, so that there
  is no cycle and a recursive `rm` ends.
- `FreeInv`: the inodes that are free are in the queue and have smaller numbers
  than all in use, which keeps the order of `TreeInv` when `find_inode` gives the
  next one away (`FreeInode`: it is the largest free one).
- `CallsInv`: each active call of `rm` has read the entries its parent directory
  still has when the call writes them back. A call in between could make that stale;
  it does not, since a call writes the directory of the call above it only when the
  calls below it have returned, and that one has read its own entries from another
  directory (`CallOrder`: the nodes of the calls decrease, and none is the working
  directory). What a directory holds is still to do or the node of the next call, so
  that a directory is empty when its call returns: no object loses its entry without
  its blocks.

`TypeCorrect`, `BlocksAreNotShared`, `BitmapStaysInSync` and `ParentsAreLinked` follow.
The numbers that bound the depth of `rm` are those of `CallsInv`.

`ImplementsTree`: a session implements `DirectoryTree`. Each command, and each return
of the recursive `rm`, is one action of it or a stutter (`StepView`). Under `SessionInv` the
mapped tree depends only on the inodes that have an entry and on the blocks they
own (`LinkedFacts`, `FlushedView`), so that what a command does to one object is
enough. `MadeIn`, `WrittenIn` and `ErasedIn` say it: one entry more or less in one
directory, or one text, and what all other inodes own is as before; `MadeView`,
`WrittenView` and `ErasedView` are the same in the tree. That the text of
several blocks comes back whole is `TextStored`: `write_file` gives each of its chunks
a block no other has (`FirstFreeTakes`), and `Stored` joins them in the order
of `data_blocks` (`StoredJoins`). `rm` needs `CallsInv` here too: a directory whose call
returns has no entries left, as `DirectoryTree` demands.

`DriveFollows`: the drive follows the memory. `OnDrive` says that the inode of every
object is in `table`, and that all entries of the tree are also on the drive that a
killed process leaves (`flushed`). One conjunct needs the other. `write_inode` of an
object makes the write before it final, so that `flushed` is the table of a moment
ago; and the last write of a command takes no entry with it: it is of a file, of the
new and still empty directory of `mkdir` (`LastWriteHarmless`), or, in an `rm`, of the
directory that lost an entry, whose old inode has the same first block, where the
entries that are left have been written (`ErasedOnDrive`). `MadeOnDrive` and
`WrittenOnDrive` are the other changes of a tree. `KillLosesLastWrite` follows, with
`KilledTree`: what is reached from the root on the drive is at least what is reached
in memory.

`MountFindsTree` and `MountsImplementTree`: under `MountSpec`. `init` gives every inode of
type 0 its number and reads the others from the table; the entries are in the
blocks. So a path from the root is the same before and after (`TreeKept`), whatever
inodes of removed directories the table has. `MountInv` is inductive: the session's
invariant and `OnDrive` before the mount, or a formatted drive, on which nothing
but the root is reached (`EmptyDrive`), or, after the mount, inodes as a start reads
them, which a second mount does not change. A mount is a stutter of
`DirectoryTree` (`RemountStep`), and a `reformat` its `Format` (`ReformatStep`).
`BitmapInSync` does not hold after a mount, which the run `bitmap_after_mount` shows.

The module also proves the layout of the drive (`DriveLayout`), for every size that
`createDriveImage` accepts. `SuperBlock` gives the numbers of the super block as
linear facts about two quotients; the four theorems follow by arithmetic, with no
assumption on the size but that it is at least the overhead. `DriveIsNeverFull` is the
part of `FileSystemAssumption` that is about the layout.

`LogBuffer`: `LogAlwaysFits`, an inductive invariant for texts of any length.

The theorems of the library on induction take an operator, which the prover cannot
instantiate. Where induction over a text or a list is needed (`FlattenSeq`, the
fold of the lexer) it is done with a set of numbers, by `IntervalInduction` of
`PQueueProofs`.

Only model-checked: liveness (of the queue, the server, the clients and the shell),
which is beyond the prover, and with it `RoundEnds`; and `ConfIsRead` and
`LinesAreRead`, which compare a conversion with its reference on all short
inputs. `DriveIsSound` evaluates on a few sizes what the theorems on the layout prove
for all.

## Not modelled

Of the shell: what the built-ins do besides running where they run, a script as
input (`mufash.cpp:304` reads a pointer that was never set), a fork that fails.
Of the file system: commands after a `reformat` other than leaving the program, a
`reformat` to another size, directories of more than one block, texts beyond ten
blocks, entries that name the root (they appear when the inodes are used up), and
a process that is killed inside a command. A full drive cannot happen
(`DriveIsNeverFull`). `cd ..` in the root, an empty priority queue and the buffers that are
one byte short are undefined behaviour and left out. Of the server: memory (the zero behind the word at `server.cpp:182` is one byte
outside a full buffer), and the time cost in the log. Of the clients: a `connect`
that fails. Of the simulation: wrapping of 32 bit numbers, and `myrandom` with a
minimum above its maximum (`main.c:218`). The semaphore (nothing calls it), the
files of `readFile` and `writeLogToFile`, tutorials and scratch programs.

## Plan

What is not yet done, in this order:

1. `FileSystem`: directories of several blocks, commands after a `reformat`.
2. `Simulator`: an abstract flow of jobs between CPU and disks that it implements.
