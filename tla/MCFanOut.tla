------------------------------ MODULE MCFanOut ------------------------------
(***************************************************************************)
(* FanOut for TLC. One artifact tells apart a repository that has stored   *)
(* nothing, one with a request out and one that is done; two add the copy  *)
(* that is cut short between them. The repositories cannot be permuted:    *)
(* the loop starts them in order.                                          *)
(***************************************************************************)
EXTENDS FanOut

OneKind == {"bundle"}
TwoKinds == {"bundle", "sha256"}
=============================================================================
