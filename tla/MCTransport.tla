---------------------------- MODULE MCTransport ----------------------------
(* A small instance of Transport: two tasks and three messages of up to     *)
(* three fragments, so that two sends interleave, one may follow another in *)
(* the same task and a message has a middle fragment to lose.               *)
EXTENDS Transport, TLC

CONSTANTS t1, t2

Tasks == {t1, t2}
Symmetry == Permutations(Tasks)
=============================================================================
