---------------------------- MODULE PageCustody ----------------------------
(***************************************************************************)
(* What a download promises about the flash pages of a pendant, without    *)
(* saying how: a page is recorded on the pendant, the host takes a copy,   *)
(* and the pendant frees only pages the host has a copy of.  Nothing ever  *)
(* takes a copy away again, so no page is lost.                            *)
(*                                                                         *)
(* Download.tla implements this specification.                             *)
(***************************************************************************)
CONSTANT Page

VARIABLES stored,   \* pages in the pendant's flash
          held      \* pages the host has a copy of

vars == <<stored, held>>

Init == stored = {} /\ held = {}

Record(p) ==
  /\ p \notin stored \cup held
  /\ stored' = stored \cup {p}
  /\ UNCHANGED held

Take(p) ==
  /\ p \in stored
  /\ held' = held \cup {p}
  /\ UNCHANGED stored

Free(S) ==
  /\ S \subseteq held
  /\ stored' = stored \ S
  /\ UNCHANGED held

Next == \/ \E p \in Page : Record(p) \/ Take(p)
        \/ \E S \in SUBSET Page : Free(S)

Spec == Init /\ [][Next]_vars
=============================================================================
