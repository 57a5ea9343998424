----------------------------- MODULE MCReading ------------------------------
(***************************************************************************)
(* Reading for TLC. Repository 1 uses LFS and 2 has no HEAD. Three runs    *)
(* are on record: the first copied 1, and in one history failed 2, whose   *)
(* bundle v it had stored; the second, of a wider namespace and filed at   *)
(* the host, copied 2 in the other history; the third, a day later, copied *)
(* both.                                                                   *)
(***************************************************************************)
EXTENDS Reading, TLC

Where == {[dir |-> 1, at |-> 1], [dir |-> 2, at |-> 2], [dir |-> 1, at |-> 3]}
At(dir, t) == [dir |-> dir, at |-> t]

Copied(date, b, a) == [status |-> "success", date |-> date, bundle |-> b, archive |-> a]
Failed(date, b) == [status |-> "failed", date |-> date, bundle |-> b, archive |-> None]
Skipped == [status |-> "skipped", date |-> 0, bundle |-> None, archive |-> None]
Manifest(t, e) == [schema |-> "manifest", large |-> FALSE, finished |-> t, entries |-> e]

First == Manifest(1, <<Copied(0, "x", "lfs"), Failed(0, "v")>>)
FirstWithout == Manifest(1, <<Copied(0, "x", "lfs")>>)
Second == Manifest(2, <<Skipped, Copied(0, "w", None)>>)
Third == Manifest(3, <<Copied(1, "y", None), Copied(1, "w", None)>>)
Report == [schema |-> "drill", large |-> FALSE, finished |-> 3, entries |-> <<>>]
Forged == Manifest(3, <<Copied(0, "y", None), Copied(1, "y", None)>>)
TooLarge == [Third EXCEPT !.large = TRUE]

AllDocs == {First, FirstWithout, Second, Third, Report, Forged, TooLarge}
OurDocs == {First, FirstWithout, Second, Third, Report}

Slot(d) == [doc |-> d, signed |-> d]
Artifacts(b) == [p \in Places |->
  IF p.repo = 2 THEN IF p.date = 0 THEN b ELSE "w" ELSE IF p.date = 0 THEN "x" ELSE "y"]
LFSFiles == [p \in Places |-> IF p = [repo |-> 1, date |-> 0] THEN "lfs" ELSE None]
Left(b, one, two) ==
  [bundle |-> Artifacts(b), archive |-> LFSFiles,
   filed |-> At(1, 1) :> one @@ At(2, 2) :> two @@ At(1, 3) :> Slot(Third)]
OnRecord == {Left("v", Slot(First), None), Left("w", Slot(FirstWithout), Slot(Second))}

Branch(b) == <<"heads", b>>
Headers ==
  "x" :> (HEAD :> 1 @@ Branch("main") :> 1 @@ Branch("dev") :> 2 @@ <<"tags", "v1">> :> 1 @@ <<"notes", "n">> :> 3)
  @@ "y" :> (HEAD :> 1 @@ Branch("main") :> 1)
  @@ "w" :> (Branch("main") :> 1)
  @@ "v" :> (Branch("main") :> 1)
  @@ "bad" :> (Branch("main") :> 1)
\* The copy of 2 was made when the source had another branch.
AtSource == "w" :> (Branch("main") :> 1) @@ "y" :> (Branch("main") :> 2)
            @@ "x" :> Headers["x"] @@ "v" :> <<>> @@ "bad" :> <<>>
Files == "x" :> {"o"} @@ "y" :> {} @@ "w" :> {} @@ "v" :> {} @@ "bad" :> {}
Contents == "lfs" :> {"o"} @@ "other" :> {} @@ "unsafe" :> {"o"}

Run(pub, sign, settles) == [pub |-> pub, sign |-> sign, settles |-> settles]
Keys == {Run(TRUE, TRUE, TRUE), Run(TRUE, TRUE, FALSE), Run(TRUE, FALSE, FALSE),
         Run(FALSE, FALSE, FALSE)}
=============================================================================
