----------------------------- MODULE MCSession -----------------------------
(* Small instances of Session: two tasks, two kinds of content and three    *)
(* requests, so that a late answer, a live request of the same kind and one *)
(* of the other kind can meet.                                              *)
EXTENDS Session, TLC

CONSTANTS c1, c2, device_info, device_status

Callers == {c1, c2}
Oneofs == {device_info, device_status}
Symmetry == Permutations(Callers) \cup Permutations(Oneofs)
=============================================================================
