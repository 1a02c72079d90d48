------------------------- MODULE MCBenchmarkClient --------------------------
(***************************************************************************)
(* A benchmark of two rounds and a client of one, with a single worker.    *)
(***************************************************************************)
EXTENDS BenchmarkClient

CONSTANTS a, b, w1, bench, once

MCBenchmark == {bench}
MCOnce      == {once}
MCWorker    == {w1}
MCFd        == {5, 6}
NoScript    == <<>>
MCClient    == {bench, once} \X (1..2)
MCLetter    == {a, b}

(* hello is in the dictionary, zubala is not. *)
MChello  == <<a, b, Newline>>
MCzubala == <<b, Newline>>
MCAbel   == <<a>>
MCdict   == {<<a, b>>}
=============================================================================
