------------------------------- MODULE PQueue -------------------------------
(***************************************************************************)
(* The singly linked list of Project1/pqueue.c.  A list is the sequence of *)
(* its nodes from the head; a node is the record of the two fields that    *)
(* hold data (the link "next" is the position in the sequence).  A smaller *)
(* number is a higher priority.                                            *)
(***************************************************************************)
EXTENDS Integers, Sequences

(* struct node without its link *)
pNode(Val) == [val : Val, priority : Int]

new_queue_node(v, p) == [val |-> v, priority |-> p]

(* pop_queue: the head leaves.  Called on a list that has a head.          *)
pop_queue(q) == Tail(q)

(* The number of nodes that stay in front of a node pushed with priority p *)
(* when the head stays first: the loop of push_queue advances while the    *)
(* next node has a strictly smaller number.                                *)
Passed(q, p) ==
  CHOOSE k \in 1..Len(q) :
    /\ \A i \in 2..k : q[i].priority < p
    /\ k < Len(q) => q[k+1].priority >= p

(* push_queue: in front of a head of lower priority, else after the nodes  *)
(* the loop passes.                                                        *)
push_queue(q, v, p) ==
  IF q = <<>> \/ q[1].priority > p
  THEN <<new_queue_node(v, p)>> \o q
  ELSE LET k == Passed(q, p)
       IN  SubSeq(q, 1, k) \o <<new_queue_node(v, p)>> \o SubSeq(q, k+1, Len(q))

(* Faulty variant of push_queue_end: the node is inserted by its priority. *)
push_queue_end_ByPriority(q, v) == push_queue(q, v, 0)

(* push_queue_end: at the end, and always with priority 0.                 *)
push_queue_end(q, v) == Append(q, new_queue_node(v, 0))

is_queue_empty(q) == q = <<>>

size_queue(q) == Len(q)
=============================================================================
