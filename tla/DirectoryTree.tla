--------------------------- MODULE DirectoryTree ---------------------------
(***************************************************************************)
(* What the file system of Project4 is meant to be, without blocks, bitmap *)
(* and drive: a set of objects, each a file with a text or a directory     *)
(* with entries, which are made, written and removed one at a time.        *)
(***************************************************************************)
EXTENDS Naturals, Sequences, SequencesExt

CONSTANTS Object, Root, Name, Text

VARIABLES
  kind,     \* of an object: "none", "file" or "dir"
  entries,  \* of an object: a sequence of pairs of a name and an object
  text      \* of an object

vars == <<kind, entries, text>>

Init ==
  /\ kind = [o \in Object |-> IF o = Root THEN "dir" ELSE "none"]
  /\ entries = [o \in Object |-> <<>>]
  /\ text = [o \in Object |-> <<>>]

(* A new object o gets an entry in the directory d; a new file has a text. *)
Make(d, o) ==
  /\ kind[d] = "dir" /\ kind[o] = "none"
  /\ \E k \in {"file", "dir"} : kind' = [kind EXCEPT ![o] = k]
  /\ \E n \in Name : entries' = [entries EXCEPT ![d] = Append(@, [name |-> n, index |-> o])]
  /\ \E t \in Text : /\ kind'[o] = "dir" => t = <<>>
                     /\ text' = [text EXCEPT ![o] = t]

SetText(o) ==
  /\ UNCHANGED <<kind, entries>>
  /\ kind[o] = "file"
  /\ \E t \in Text : text' = [text EXCEPT ![o] = t]

(* An empty directory, or a file, loses its entry and its text.            *)
Erase(d, k) ==
  LET o == entries[d][k].index
  IN  /\ entries[o] = <<>>
      /\ entries' = [entries EXCEPT ![d] = RemoveAt(@, k)]
      /\ text' = [text EXCEPT ![o] = <<>>]
      /\ kind' = [kind EXCEPT ![o] = "none"]

(* Everything is gone but the root. *)
Format ==
  /\ kind' = [o \in Object |-> IF o = Root THEN "dir" ELSE "none"]
  /\ entries' = [o \in Object |-> <<>>]
  /\ text' = [o \in Object |-> <<>>]

Next ==
  \/ Format
  \/ \E d, o \in Object : Make(d, o)
  \/ \E o \in Object : SetText(o)
  \/ \E d \in Object : \E k \in DOMAIN entries[d] : Erase(d, k)

Spec == Init /\ [][Next]_vars
=============================================================================
