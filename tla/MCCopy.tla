------------------------------- MODULE MCCopy -------------------------------
(***************************************************************************)
(* Copy for TLC: a branch and a pull request's ref, two commits with LFS   *)
(* objects, and an artifact of two blocks or of more than there may be;    *)
(* the metadata and the sidecar take one.                                  *)
(***************************************************************************)
EXTENDS Copy

AllNames == {"main", "pull"}
At(main, pull) == [n \in AllNames |-> IF n = "main" THEN main ELSE pull]
Sources == {At(1, None), At(2, 1), At(None, None)}
WithLFS == [c \in {1, 2} |-> IF c = 1 THEN {"o1"} ELSE {"o1", "o2"}]
=============================================================================
