---------------------------- MODULE SpellServer ----------------------------
(***************************************************************************)
(* Project3/server.cpp: the accept loop of main, the worker threads, the   *)
(* logger thread and the two queues between them, with the clients and the *)
(* sockets of the kernel around them.                                      *)
(*                                                                         *)
(* An add or a consume on a ConsumerProducerQueue is one atomic step here, *)
(* which is what that module's refinement of FifoQueue allows.             *)
(*                                                                         *)
(* A client sends letters and newlines; a word of the dictionary is a      *)
(* sequence of letters.                                                    *)
(***************************************************************************)
EXTENDS Naturals, Sequences, FiniteSets, SequencesExt

CONSTANTS
  Client,
  Worker,       \* the worker_threads
  Fd,           \* the descriptors accept can return: numbers
  Letter, Newline,
  dict,         \* the dictionary: a set of sequences of letters
  BufferSize,   \* the 30 in recv(socket, buffer, 30, 0)
  Script,       \* bound of the model: the words of one letter a client may send
  NoFd, Nobody

ASSUME ServerAssumption ==
  /\ Fd \subseteq Nat /\ NoFd \notin Fd
  /\ Nobody \notin Client /\ Newline \notin Letter
  /\ dict \subseteq Seq(Letter) /\ Script \in Seq(Letter)
  /\ BufferSize \in Nat \ {0}

VARIABLES
  running,     \* FALSE: the process was killed
  client,      \* "away", "open", "left", or "reset": the peer answered a write with RST
  sent,        \* of each client: the letters it sent so far
  stream,      \* of each client: the bytes sent and not received
  responses,   \* of each client: the responses written to it
  backlog,     \* the connections not accepted yet
  conn,        \* of each descriptor: the client at the other end
  accepted,    \* main's client_socket between accept and addsocket
  sockets,     \* the queue of descriptors
  pc, socket,  \* of each worker: the next step, and the socket it serves
  word,        \* of each worker: the word just received
  log_txt,     \* of each worker: the events of this connection
  log_queue,
  logFile

clientVars == <<client, sent, backlog>>
logVars    == <<log_queue, logFile>>
vars == <<running, client, sent, stream, responses, backlog, conn, accepted,
          sockets, pc, socket, word, log_txt, log_queue, logFile>>

(* The text of one connection: the lookups and how it ended.               *)
NoText == [of |-> Nobody, found |-> <<>>, end |-> "open"]

Init ==
  /\ running = TRUE
  /\ client = [c \in Client |-> "away"]
  /\ sent = [c \in Client |-> <<>>]
  /\ stream = [c \in Client |-> <<>>]
  /\ responses = [c \in Client |-> <<>>]
  /\ backlog = <<>>
  /\ conn = [f \in Fd |-> Nobody]
  /\ accepted = NoFd
  /\ sockets = <<>>
  /\ pc = [w \in Worker |-> "consume"]
  /\ socket = [w \in Worker |-> NoFd]
  /\ word = [w \in Worker |-> <<>>]
  /\ log_txt = [w \in Worker |-> NoText]
  /\ log_queue = <<>>
  /\ logFile = <<>>

Goto(w, from, to) == running /\ pc[w] = from /\ pc' = [pc EXCEPT ![w] = to]

(* The client whose socket worker w serves. *)
Peer(w) == conn[socket[w]]

-----------------------------------------------------------------------------
(* Clients.  The kernel completes a connection before the server accepts   *)
(* it, so that a client may send, and leave, before that.                  *)

Connect(c) ==
  /\ running /\ client[c] = "away"
  /\ client' = [client EXCEPT ![c] = "open"]
  /\ backlog' = Append(backlog, c)
  /\ UNCHANGED <<running, sent, stream, responses, conn, accepted, sockets, pc,
                 socket, word, log_txt, log_queue, logFile>>

(* A client sends a beginning of Script, word by word. *)
Send(c) ==
  /\ running /\ client[c] = "open" /\ Len(sent[c]) < Len(Script)
  /\ LET l == Script[Len(sent[c]) + 1]
     IN  /\ sent' = [sent EXCEPT ![c] = Append(@, l)]
         /\ stream' = [stream EXCEPT ![c] = @ \o <<l, Newline>>]
  /\ UNCHANGED <<running, client, responses, backlog, conn, accepted, sockets, pc,
                 socket, word, log_txt, log_queue, logFile>>

Leave(c) ==
  /\ running /\ client[c] = "open"
  /\ client' = [client EXCEPT ![c] = "left"]
  /\ UNCHANGED <<running, sent, stream, responses, backlog, conn, accepted, sockets,
                 pc, socket, word, log_txt, log_queue, logFile>>

-----------------------------------------------------------------------------
(* main *)

(* accept returns the lowest free descriptor. *)
accept ==
  /\ running /\ accepted = NoFd /\ backlog # <<>>
  /\ \E f \in Fd :
       /\ conn[f] = Nobody
       /\ \A g \in Fd : g < f => conn[g] # Nobody
       /\ conn' = [conn EXCEPT ![f] = Head(backlog)]
       /\ accepted' = f
  /\ backlog' = Tail(backlog)
  /\ UNCHANGED <<running, client, sent, stream, responses, sockets, pc, socket,
                 word, log_txt, log_queue, logFile>>

addsocket ==
  /\ running /\ accepted # NoFd
  /\ sockets' = Append(sockets, accepted)
  /\ accepted' = NoFd
  /\ UNCHANGED <<running, clientVars, stream, responses, conn, pc, socket, word,
                 log_txt, logVars>>

-----------------------------------------------------------------------------
(* worker_handler and respond *)

(* Variant: front() without pop(). *)
consume_NoPop(w) ==
  /\ Goto(w, "consume", "recv") /\ sockets # <<>>
  /\ socket' = [socket EXCEPT ![w] = Head(sockets)]
  /\ log_txt' = [log_txt EXCEPT ![w] = [NoText EXCEPT !.of = conn[Head(sockets)]]]
  /\ UNCHANGED <<running, clientVars, stream, responses, conn, accepted, sockets,
                 word, logVars>>

(* sockets.consume(), and the locals of respond. *)
consume(w) ==
  /\ Goto(w, "consume", "recv") /\ sockets # <<>>
  /\ sockets' = Tail(sockets)
  /\ socket' = [socket EXCEPT ![w] = Head(sockets)]
  /\ log_txt' = [log_txt EXCEPT ![w] = [NoText EXCEPT !.of = conn[Head(sockets)]]]
  /\ UNCHANGED <<running, clientVars, stream, responses, conn, accepted, word,
                 logVars>>

(* Variant: the white space stays. *)
Stripped_None(bytes) == bytes

(* remove_if of the white space. *)
Stripped(bytes) ==
  FlattenSeq([n \in DOMAIN bytes |-> IF bytes[n] = Newline THEN <<>> ELSE <<bytes[n]>>])

(* Variant: buffer[read_size-1] = '\0'. *)
recv_OffByOne(w) ==
  /\ Goto(w, "recv", "write")
  /\ \E n \in 1..BufferSize :
       /\ n =< Len(stream[Peer(w)])
       /\ word' = [word EXCEPT ![w] = Stripped(SubSeq(stream[Peer(w)], 1, n - 1))]
       /\ stream' = [stream EXCEPT ![Peer(w)] = SubSeq(@, n + 1, Len(@))]
  /\ log_txt' = [log_txt EXCEPT ![w].found = Append(@, word'[w])]
  /\ UNCHANGED <<running, clientVars, responses, conn, accepted, sockets, socket,
                 logVars>>

(* recv returns the bytes that are there, at most as many as fit; they     *)
(* count as one word, which is looked up.                                  *)
recv(w) ==
  /\ Goto(w, "recv", "write")
  /\ \E n \in 1..BufferSize :
       /\ n =< Len(stream[Peer(w)])
       /\ word' = [word EXCEPT ![w] = Stripped(SubSeq(stream[Peer(w)], 1, n))]
       /\ stream' = [stream EXCEPT ![Peer(w)] = SubSeq(@, n + 1, Len(@))]
  /\ log_txt' = [log_txt EXCEPT ![w].found = Append(@, word'[w])]
  /\ UNCHANGED <<running, clientVars, responses, conn, accepted, sockets, socket,
                 logVars>>

(* Variant: respond closes the socket, and worker_handler closes it again. *)
recvEnd_Closes(w) ==
  /\ Goto(w, "recv", "log")
  /\ stream[Peer(w)] = <<>> /\ client[Peer(w)] # "open"
  /\ log_txt' = [log_txt EXCEPT ![w].end = "disconnected"]
  /\ conn' = [conn EXCEPT ![socket[w]] = Nobody]
  /\ UNCHANGED <<running, clientVars, stream, responses, accepted, sockets, socket,
                 word, logVars>>

(* recv returns 0, or -1 if the connection was reset. *)
recvEnd(w) ==
  /\ Goto(w, "recv", "log")
  /\ stream[Peer(w)] = <<>> /\ client[Peer(w)] # "open"
  /\ \E end \in {"disconnected"} \cup (IF client[Peer(w)] = "reset" THEN {"failed"} ELSE {}) :
       log_txt' = [log_txt EXCEPT ![w].end = end]
  /\ UNCHANGED <<running, clientVars, stream, responses, conn, accepted, sockets,
                 socket, word, logVars>>

(* write(socket, response): to a client that has left, the first one is    *)
(* answered by a reset.                                                    *)
write(w) ==
  /\ Goto(w, "write", "log")
  /\ responses' = [responses EXCEPT ![Peer(w)] =
                     Append(@, [word |-> word[w], ok |-> word[w] \in dict])]
  /\ client' = [client EXCEPT ![Peer(w)] = IF @ = "left" THEN "reset" ELSE @]
  /\ word' = [word EXCEPT ![w] = <<>>]
  /\ UNCHANGED <<running, sent, backlog, stream, conn, accepted, sockets, socket,
                 log_txt, logVars>>

(* A write to a connection that was reset raises SIGPIPE, which nobody     *)
(* handles.                                                                *)
SIGPIPE(w) ==
  /\ running /\ pc[w] = "write" /\ client[Peer(w)] = "reset"
  /\ running' = FALSE
  /\ UNCHANGED <<clientVars, stream, responses, conn, accepted, sockets, pc, socket,
                 word, log_txt, logVars>>

(* Variant: the text is added after a word only. *)
logText_WordsOnly(w) ==
  /\ Goto(w, "log", IF log_txt[w].end = "open" THEN "recv" ELSE "close")
  /\ log_queue' = IF log_txt[w].end = "open" THEN Append(log_queue, log_txt[w])
                  ELSE log_queue
  /\ UNCHANGED <<running, clientVars, stream, responses, conn, accepted, sockets,
                 socket, word, log_txt, logFile>>

(* log_queue.add(log_txt): the whole text so far, after every word and at  *)
(* the end.                                                                *)
logText(w) ==
  /\ Goto(w, "log", IF log_txt[w].end = "open" THEN "recv" ELSE "close")
  /\ log_queue' = Append(log_queue, log_txt[w])
  /\ UNCHANGED <<running, clientVars, stream, responses, conn, accepted, sockets,
                 socket, word, log_txt, logFile>>

(* Variant: the socket is not closed. *)
close_Never(w) ==
  /\ Goto(w, "close", "consume")
  /\ UNCHANGED <<running, clientVars, stream, responses, conn, accepted, sockets,
                 socket, word, log_txt, logVars>>

close(w) ==
  /\ Goto(w, "close", "consume")
  /\ conn' = [conn EXCEPT ![socket[w]] = Nobody]
  /\ UNCHANGED <<running, clientVars, stream, responses, accepted, sockets, socket,
                 word, log_txt, logVars>>

(* Variant: the youngest text is taken. *)
logger_Last ==
  /\ running /\ log_queue # <<>>
  /\ logFile' = Append(logFile, Last(log_queue))
  /\ log_queue' = Front(log_queue)
  /\ UNCHANGED <<running, clientVars, stream, responses, conn, accepted, sockets, pc,
                 socket, word, log_txt>>

(* logger_handler: log_queue.consume(), and the text goes to the file.     *)
logger ==
  /\ running /\ log_queue # <<>>
  /\ logFile' = Append(logFile, Head(log_queue))
  /\ log_queue' = Tail(log_queue)
  /\ UNCHANGED <<running, clientVars, stream, responses, conn, accepted, sockets, pc,
                 socket, word, log_txt>>

worker(w) ==
  \/ consume(w) \/ recv(w) \/ recvEnd(w) \/ write(w)
  \/ SIGPIPE(w) \/ logText(w) \/ close(w)

(* Nobody comes any more and every thread is blocked, or the process is    *)
(* gone: not a deadlock.                                                   *)
Idle ==
  /\ \/ ~running
     \/ /\ \A c \in Client : client[c] \in {"left", "reset"}
        /\ backlog = <<>> /\ accepted = NoFd /\ sockets = <<>> /\ log_queue = <<>>
        /\ \A w \in Worker : pc[w] = "consume"
  /\ UNCHANGED vars

Next ==
  \/ \E c \in Client : Connect(c) \/ Leave(c) \/ Send(c)
  \/ accept \/ addsocket \/ logger
  \/ \E w \in Worker : worker(w)
  \/ Idle

Spec == Init /\ [][Next]_vars

(* Every thread of the server is scheduled.  Clients do as they like, but  *)
(* do not stay for ever.                                                   *)
Fairness ==
  /\ WF_vars(accept) /\ WF_vars(addsocket) /\ WF_vars(logger)
  /\ \A w \in Worker : WF_vars(worker(w))
  /\ \A c \in Client : WF_vars(Leave(c))

LiveSpec == Spec /\ Fairness

-----------------------------------------------------------------------------
Text == [of : Client \cup {Nobody}, found : Seq(Seq(Letter)),
         end : {"open", "disconnected", "failed"}]

TypeOK ==
  /\ running \in BOOLEAN
  /\ client \in [Client -> {"away", "open", "left", "reset"}]
  /\ sent \in [Client -> Seq(Letter)]
  /\ stream \in [Client -> Seq(Letter \cup {Newline})]
  /\ responses \in [Client -> Seq([word : Seq(Letter), ok : BOOLEAN])]
  /\ backlog \in Seq(Client)
  /\ conn \in [Fd -> Client \cup {Nobody}]
  /\ accepted \in Fd \cup {NoFd}
  /\ sockets \in Seq(Fd)
  /\ pc \in [Worker -> {"consume", "recv", "write", "log", "close"}]
  /\ socket \in [Worker -> Fd \cup {NoFd}]
  /\ word \in [Worker -> Seq(Letter)]
  /\ log_txt \in [Worker -> Text]
  /\ log_queue \in Seq(Text) /\ logFile \in Seq(Text)

Serving(w) == pc[w] # "consume"

(* The places that hold descriptor f: main, the queue, the workers.        *)
Holders(f) ==
    (IF accepted = f THEN {<<"main">>} ELSE {})
  \cup {<<"queue", k>> : k \in {k \in DOMAIN sockets : sockets[k] = f}}
  \cup {<<"worker", w>> : w \in {w \in Worker : Serving(w) /\ socket[w] = f}}

(* An open descriptor is in the hands of one thread or at one place of the *)
(* queue, a closed one nowhere, although close makes its number available  *)
(* to the next accept at once.  A worker serves one client from the        *)
(* consume to the close.                                                   *)
DescriptorOwned ==
  /\ \A f \in Fd : Cardinality(Holders(f)) = IF conn[f] = Nobody THEN 0 ELSE 1
  /\ \A w \in Worker : Serving(w) => Peer(w) = log_txt[w].of

(* Every letter a client sent is answered to that client once and in       *)
(* order, is the word a worker has in hand for it, or is still to be       *)
(* received: nothing is lost, doubled or answered to someone else however  *)
(* recv cuts the stream.                                                   *)
InHand(c) ==
  FlattenSeq(SetToSeq({word[w] : w \in {w \in Worker : Serving(w) /\ Peer(w) = c}}))

StreamIntegrity ==
  \A c \in Client :
    FlattenSeq([k \in DOMAIN responses[c] |-> responses[c][k].word])
      \o InHand(c) \o Stripped(stream[c]) = sent[c]

(* The texts of a connection reach the log in the order respond added      *)
(* them: each is a continuation of the one before, and the one that says   *)
(* how the connection ended is the last.                                   *)
LogOrder ==
  LET log == logFile \o log_queue
  IN  \A k, m \in DOMAIN log :
        k < m /\ log[k].of = log[m].of =>
          IsPrefix(log[k].found, log[m].found) /\ log[k].end = "open"

Connected(c) == (\E k \in DOMAIN backlog : backlog[k] = c) \/ \E f \in Fd : conn[f] = c

(* Every connection is accepted, served and closed, also when there are    *)
(* more clients than workers.                                              *)
EveryClientIsServed == \A c \in Client : Connected(c) ~> ~Connected(c) \/ ~running

(* readme "logs all the events": the file gets the text of every           *)
(* connection, with every lookup and how it ended.                         *)
EventsAreLogged ==
  \A c \in Client :
    Connected(c) ~>
      \/ ~running
      \/ \E k \in DOMAIN logFile :
           /\ logFile[k].of = c /\ logFile[k].end # "open"
           /\ logFile[k].found = [n \in DOMAIN responses[c] |-> responses[c][n].word]

(* readme "Given that a word is sent to the server, the server will        *)
(* respond with" the word and OK or MISSPELLED: the responses are to the   *)
(* words, each the line of a client.  respond takes what one recv returns  *)
(* for a word.                                                             *)
OneResponsePerWord ==
  \A c \in Client : \A k \in DOMAIN responses[c] :
    k =< Len(sent[c]) /\ responses[c][k].word = <<sent[c][k]>>
=============================================================================
