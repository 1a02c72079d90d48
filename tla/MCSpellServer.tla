--------------------------- MODULE MCSpellServer ---------------------------
(***************************************************************************)
(* Instances of SpellServer for TLC.                                       *)
(***************************************************************************)
EXTENDS SpellServer, TLC

CONSTANTS a, b, c1, c2, w1, w2

TwoLetters   == {a, b}
OneClient    == {c1}
TwoClients   == {c1, c2}
OneWorker    == {w1}
TwoWorkers   == {w1, w2}
TwoFds       == {5, 6}

TwoWords == <<a, b>>

(* The words of one letter are in the dictionary, two joined are not. *)
MCdict == {<<a>>, <<b>>}

(* Clients are alike and so are workers; used for invariants only. *)
Alike == Permutations(TwoClients) \cup Permutations(TwoWorkers)
=============================================================================
