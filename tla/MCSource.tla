----------------------------- MODULE MCSource ------------------------------
(***************************************************************************)
(* Source for TLC: one repository the filter drops and two it keeps, which *)
(* may wait for a limit together, on a host whose clock is ahead.          *)
(***************************************************************************)
EXTENDS Source, TLC

CONSTANTS a, b, c

Listing == a :> 1 @@ b :> 1 @@ c :> 2
Alike == Permutations({a, b})
TwoSections == <<1, 2>>
HostIsFast == -1
Named == {0, 2}

GitHubAPI == [scheme |-> "https", host |-> "api"]
Anywhere == {GitHubAPI, [scheme |-> "http", host |-> "api"], [scheme |-> "https", host |-> "other"]}
=============================================================================
