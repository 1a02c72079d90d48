-------------------------- MODULE BenchmarkClient ---------------------------
(***************************************************************************)
(* The clients of Project3 with the server of SpellServer: processes of    *)
(* client_benchmark.cpp, which connect, send one word, read the response   *)
(* and close the connection, over and over, and of client.cpp, which do so *)
(* once.  Each round is a Client of SpellServer of its own.                *)
(***************************************************************************)
EXTENDS SpellServer

CONSTANTS
  Benchmark,    \* the processes of client_benchmark.cpp
  Once,         \* the processes of client.cpp
  hello, zubala, Abel,  \* the words they send, with their newlines
  MaxRounds     \* bound of the model: rounds of a benchmark

Process == Benchmark \cup Once

ASSUME BenchmarkAssumption ==
  /\ Client = Process \X (1..MaxRounds)
  /\ {hello, zubala, Abel} \subseteq Seq(Letter \cup {Newline})

VARIABLES
  step,     \* of each process: "connect", "write", "read" or "close"
  round,    \* of each process: the rounds begun
  response  \* of each process: what the read of the round returned

benchVars == <<step, round, response>>
allVars == <<vars, benchVars>>

BenchInit ==
  /\ Init
  /\ step = [p \in Process |-> "connect"]
  /\ round = [p \in Process |-> 0]
  /\ response = [p \in Process |-> <<>>]

(* The connection of the round. *)
sock(p) == <<p, round[p]>>

(* i = !i at the start of every round. *)
message(p) ==
  IF p \in Once THEN Abel ELSE IF round[p] % 2 = 1 THEN hello ELSE zubala

Rounds(p) == IF p \in Once THEN 1 ELSE MaxRounds

-----------------------------------------------------------------------------
Proceed(p, from, to) == step[p] = from /\ step' = [step EXCEPT ![p] = to]

connect(p) ==
  /\ Proceed(p, "connect", "write") /\ round[p] < Rounds(p)
  /\ round' = [round EXCEPT ![p] = @ + 1]
  /\ Connect(<<p, round[p] + 1>>)
  /\ UNCHANGED response

send(p) ==
  /\ running /\ Proceed(p, "write", "read")
  /\ sent' = [sent EXCEPT ![sock(p)] = Stripped(message(p))]
  /\ stream' = [stream EXCEPT ![sock(p)] = message(p)]
  /\ UNCHANGED <<running, client, responses, backlog, conn, accepted, sockets, pc,
                 socket, word, log_txt, log_queue, logFile, round, response>>

(* read returns what has come of the responses, and blocks until something *)
(* has.                                                                    *)
read(p) ==
  /\ running /\ Proceed(p, "read", "close")
  /\ responses[sock(p)] # <<>>
  /\ response' = [response EXCEPT ![p] = responses[sock(p)]]
  /\ UNCHANGED <<vars, round>>

(* Variant: the loop begins anew without a close. *)
closeSocket_Never(p) ==
  /\ running /\ Proceed(p, "close", "connect")
  /\ UNCHANGED <<vars, round, response>>

(* close resets the connection if a response is left unread. *)
closeSocket(p) ==
  /\ running /\ Proceed(p, "close", "connect")
  /\ client' = [client EXCEPT ![sock(p)] =
                  IF response[p] = responses[sock(p)] THEN "left" ELSE "reset"]
  /\ UNCHANGED <<running, sent, stream, responses, backlog, conn, accepted, sockets,
                 pc, socket, word, log_txt, log_queue, logFile, round, response>>

process(p) == connect(p) \/ send(p) \/ read(p) \/ closeSocket(p)

server ==
  \/ accept \/ addsocket \/ logger
  \/ \E w \in Worker : worker(w)

BenchNext ==
  \/ \E p \in Process : process(p)
  \/ server /\ UNCHANGED benchVars

(* The threads of the server and the processes of the clients are          *)
(* scheduled.  Nobody leaves before it has its response.                   *)
BenchSpec ==
  /\ BenchInit /\ [][BenchNext]_allVars
  /\ WF_allVars(accept /\ UNCHANGED benchVars)
  /\ WF_allVars(addsocket /\ UNCHANGED benchVars)
  /\ WF_allVars(logger /\ UNCHANGED benchVars)
  /\ \A w \in Worker : WF_allVars(worker(w) /\ UNCHANGED benchVars)
  /\ \A p \in Process : WF_allVars(process(p))

-----------------------------------------------------------------------------
(* A client that waits for its response gets one that is to its own word,  *)
(* or to the first part of it, and ends its round, also when other clients *)
(* keep all workers busy: respond answers before it reads again, and the   *)
(* clients close their connections.  Only the end of the server prevents   *)
(* it.                                                                     *)
RoundEnds ==
  \A p \in Process :
    step[p] \in {"write", "read"} ~>
      \/ ~running
      \/ /\ step[p] = "close"
         /\ response[p][1].word # <<>>
         /\ IsPrefix(response[p][1].word, Stripped(message(p)))
=============================================================================
