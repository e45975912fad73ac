----------------------------- MODULE MCCommands -----------------------------
(* Small instances of Commands: two paths besides enroll-voice's, so that   *)
(* one run's key may open what another captured; two keys, and two pages,   *)
(* one to be recorded under each.                                           *)
EXTENDS Commands, TLC

CONSTANTS today, later, enroll

Paths == {today, later, enroll}
Symmetry == Permutations({today, later})
Mishaps == {"kill", "write", "server"}
=============================================================================
