------------------------------ MODULE MCS3Put ------------------------------
(***************************************************************************)
(* S3Put for TLC. On AWS three runs meet at one key: two hold the same     *)
(* bytes and ask for different retentions, so that one can take the        *)
(* other's object for its own, and the third writes in parts. Elsewhere    *)
(* two meet, one of them with more parts than go at once.                  *)
(***************************************************************************)
EXTENDS S3Put

Three == {"one", "two", "three"}
SameBytes == [one |-> "x", two |-> "x", three |-> "y"]
ThreeUntil == [one |-> 2, two |-> 1, three |-> 2]
OnePart == [one |-> 0, two |-> 0, three |-> 1]

Two == {"one", "three"}
TwoBytes == [one |-> "x", three |-> "y"]
TwoUntil == [one |-> 1, three |-> 2]
ThreeParts == [one |-> 0, three |-> 3]
=============================================================================
