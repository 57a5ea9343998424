----------------------------- MODULE MCBackups -----------------------------
(* Instances of Backups for TLC. *)
EXTENDS Backups, TLC

\* S3 with Object Lock: the store confirms it and reports no period.
Confirmed == {[immutable |-> TRUE, period |-> 0]}

\* A GCS bucket or an Azure container whose policy's period, 4, is read.
PolicyRead == {[immutable |-> TRUE, period |-> 4]}

\* S3 with Object Lock, and a run whose question about it fails or is refused.
SometimesUnknown == Confirmed \cup {[immutable |-> FALSE, period |-> 0]}

\* The ref maps are only ever compared: which is which says nothing.
Symmetry == Permutations(RefMaps)

\* Nor does it matter which process makes a run.
OverlapSymmetry == Permutations(RefMaps) \cup Permutations(Runners)
=============================================================================
