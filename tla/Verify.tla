------------------------------- MODULE Verify -------------------------------
(***************************************************************************)
(* Verify of internal/pipeline: a manifest's signature is checked, and     *)
(* every artifact it lists is read back, several at once, each in a slot   *)
(* of its own.                                                             *)
(***************************************************************************)
EXTENDS Stored

CONSTANT Concurrency  \* backup.concurrency

ASSUME VerifyAssumption == Concurrency \in Int

VARIABLES
  step,      \* where Verify is
  asked,     \* the manifest's key
  manifest,  \* its document, as it was read
  check,     \* check[i]: how far the read of item i is
  read,      \* read[i]: what it read
  verdict    \* what Verify returned

verifyVars == <<step, asked, manifest, check, read, verdict>>

\* Item 2r-1 is repository r's bundle, 2r its LFS archive.
Items == 1 .. 2 * N
RepoOf(i) == (i + 1) \div 2

Sum(d, i) ==
  IF RepoOf(i) \notin DOMAIN d.entries THEN None
  ELSE IF i % 2 = 1 THEN d.entries[RepoOf(i)].bundle ELSE d.entries[RepoOf(i)].archive

\* The artifacts a manifest lists, those of a failed entry too.
Listing(d) == {i \in Items : Sum(d, i) # None}

Object(d, i) ==
  LET p == [repo |-> RepoOf(i), date |-> d.entries[RepoOf(i)].date] IN
  IF i % 2 = 1 THEN bundle[p] ELSE archive[p]

InState(state) == {i \in Items : check[i] = state}

\* The semaphore's size: one at least, and no more than there are artifacts.
Least(a, b) == IF a < b THEN a ELSE b
Limit == IF Least(Concurrency, Cardinality(Listing(manifest))) < 1 THEN 1
         ELSE Least(Concurrency, Cardinality(Listing(manifest)))

VerifyInit ==
  /\ step = "idle" /\ asked = None /\ manifest = None
  /\ check = [i \in Items |-> "none"]
  /\ read = [i \in Items |-> None]
  /\ verdict = "none"

\* The signature holds over the bytes read, and they are a manifest or name no
\* schema. The name is not asked.
ReadManifest ==
  /\ step = "load"
  /\ filed[asked] # None
  /\ LET d == filed[asked].doc IN
       /\ ~ d.large /\ filed[asked].signed = d /\ d.schema \in {"manifest", "none"}
       /\ manifest' = d
  /\ step' = "reading"
  /\ UNCHANGED <<asked, check, read, verdict>>

RefuseManifest ==
  /\ step = "load"
  /\ step' = "done" /\ verdict' = "failed"
  /\ UNCHANGED <<asked, manifest, check, read>>

\* Faulty: the semaphore is taken inside the goroutine's read, after it began.
FaultyStartRead(i) ==
  /\ step = "reading"
  /\ i \in Listing(manifest) /\ check[i] = "none"
  /\ \A j \in Listing(manifest) : j < i => check[j] # "none"
  /\ check' = [check EXCEPT ![i] = "reading"]
  /\ read' = [read EXCEPT ![i] = Object(manifest, i)]
  /\ UNCHANGED <<step, asked, manifest, verdict>>

\* readBack's loop: in order, each once there is a slot.
StartRead(i) ==
  /\ step = "reading"
  /\ i \in Listing(manifest) /\ check[i] = "none"
  /\ \A j \in Listing(manifest) : j < i => check[j] # "none"
  /\ Cardinality(InState("reading")) < Limit
  /\ check' = [check EXCEPT ![i] = "reading"]
  /\ read' = [read EXCEPT ![i] = Object(manifest, i)]
  /\ UNCHANGED <<step, asked, manifest, verdict>>

\* Faulty: what is seen goes to the slot of the read started last.
FaultyEndRead(i) ==
  /\ check[i] = "reading"
  /\ LET last == CHOOSE j \in Items : check[j] # "none" /\ \A k \in Items : k > j => check[k] = "none"
     IN \E seen \in {"failed"} \cup (IF read[i] = Sum(manifest, i) THEN {"ok"} ELSE {}) :
          check' = [check EXCEPT ![i] = "ok", ![last] = seen]
  /\ UNCHANGED <<step, asked, manifest, read, verdict>>

\* Faulty: a read that fails keeps its slot.
FaultyRelease(i) ==
  /\ check[i] = "reading"
  /\ read[i] = Sum(manifest, i)
  /\ check' = [check EXCEPT ![i] = "ok"]
  /\ UNCHANGED <<step, asked, manifest, read, verdict>>

\* A read that the store or a stop fails, or of other bytes than the manifest
\* records, has failed.
EndRead(i) ==
  /\ check[i] = "reading"
  /\ \E seen \in {"failed"} \cup (IF read[i] = Sum(manifest, i) THEN {"ok"} ELSE {}) :
       check' = [check EXCEPT ![i] = seen]
  /\ UNCHANGED <<step, asked, manifest, read, verdict>>

\* wg.Wait, and the slots are counted.
Count ==
  /\ step = "reading"
  /\ \A i \in Listing(manifest) : check[i] \notin {"none", "reading"}
  /\ step' = "done"
  /\ verdict' = IF Listing(manifest) = InState("ok") THEN "ok" ELSE "failed"
  /\ UNCHANGED <<asked, manifest, check, read>>

VerifyStep ==
  /\ \/ ReadManifest \/ RefuseManifest \/ Count
     \/ \E i \in Items : StartRead(i) \/ EndRead(i)
  /\ UNCHANGED <<stored, changes>>

-----------------------------------------------------------------------------
VerifyTypeOK ==
  /\ step \in {"idle", "load", "reading", "done"}
  /\ asked \in Names \cup {None} /\ manifest \in Docs \cup {None}
  /\ check \in [Items -> {"none", "reading", "ok", "failed"}]
  /\ read \in [Items -> Bundles \cup Archives \cup {None}]
  /\ verdict \in {"none", "ok", "failed"}
  /\ step = "reading" => Cardinality(InState("reading")) <= Limit

\* A verify that passes has read, whole, every artifact that a signed manifest
\* lists, and each was what the manifest records, whatever order they ended in.
VerifiedWasRead ==
  verdict = "ok" =>
    /\ manifest \in Signed
    /\ \A i \in Listing(manifest) : read[i] = Sum(manifest, i)
=============================================================================
