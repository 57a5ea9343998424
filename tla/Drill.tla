------------------------------- MODULE Drill --------------------------------
(***************************************************************************)
(* Drill of internal/pipeline: the copies one manifest records are         *)
(* restored one after the other and compared with what the source had, and *)
(* a signed report of it is stored at a create-only key, with its          *)
(* signature beside it. A put may take place and its answer be lost.       *)
(***************************************************************************)
EXTENDS Restore

CONSTANTS
  SourceRefs,  \* SourceRefs[b]: the refs the source had when b was made, as its
               \* entry records them; none for a copy of an old version
  Now          \* when the drill starts

ASSUME DrillAssumption ==
  /\ Now \in Nat
  /\ None \notin {"ours", "theirs"} /\ None \notin {0, 1, 3}

VARIABLES
  phase,     \* where Drill is
  key,       \* the manifest to drill
  sample,    \* how many repositories at most, 0 for all
  doc,       \* the manifest's document, as it was loaded
  todo,      \* the chosen repositories that are still to be restored
  outcome,   \* outcome[r]: what the report says of r
  came,      \* came[r]: what came back of r
  files,     \* whose report and whose signature the report's keys hold
  tries,     \* how often the put under way has been tried
  reportKey, \* whether Drill returned the report's key
  exit       \* the command's exit code

drillVars == <<phase, key, sample, doc, todo, outcome, came, files, tries, reportKey, exit>>

PutAttempts == 3

Min(s) == CHOOSE i \in s : \A j \in s : i <= j

\* What the report says of a repository it has not got to, or did not choose.
Untold == [r \in Repos |-> "none"]

DrillInit ==
  /\ phase = "idle"
  /\ key = None /\ sample = 0 /\ doc = None
  /\ todo = {} /\ outcome = Untold /\ came = [r \in Repos |-> None]
  /\ files = [report |-> None, signature |-> None]
  /\ tries = 0 /\ reportKey = FALSE /\ exit = None

\* A skipped repository's copy is an earlier run's.
Eligible(d) == {r \in DOMAIN d.entries : d.entries[r].status = "success"}

\* In slug order, so that a sample is the same every time.
Chosen(d) ==
  {r \in Eligible(d) :
     sample = 0 \/ Cardinality({q \in Eligible(d) : q < r}) < sample}

-----------------------------------------------------------------------------
PickManifest ==
  /\ phase = "pick"
  /\ Pick(1, Now) # {}
  /\ key' = Newest(Pick(1, Now))
  /\ phase' = "load"
  /\ UNCHANGED <<sample, doc, todo, outcome, came, files, tries, reportKey, exit>>

\* loadManifestForDrill: the document is read once, and all of the drill is
\* about it.
LoadManifest ==
  /\ phase = "load"
  /\ Loads(key, setting.pub)
  /\ doc' = filed[key].doc
  /\ todo' = Chosen(doc')
  /\ phase' = "next"
  /\ UNCHANGED <<key, sample, outcome, came, files, tries, reportKey, exit>>

\* There is no manifest, or the loader refuses it: there is no report.
NoManifest ==
  /\ phase \in {"pick", "load"}
  /\ phase' = "done" /\ exit' = 1
  /\ UNCHANGED <<key, sample, doc, todo, outcome, came, files, tries, reportKey>>

Entry(r) == doc.entries[r]

\* drillOne has nothing to restore: the entry names no artifact, or no bundle.
NothingRecorded ==
  /\ phase = "next" /\ todo # {}
  /\ LET r == Min(todo) IN
       /\ Entry(r).bundle = None
       /\ outcome' = [outcome EXCEPT ![r] = "failed"]
       /\ todo' = todo \ {r}
  /\ UNCHANGED <<phase, key, sample, doc, came, files, tries, reportKey, exit>>

\* What Restore is held to: the entry, when its signature has been checked.
Vouched(r) == IF setting.pub THEN Recorded(key, Entry(r)) ELSE None

DrillOne ==
  /\ phase = "next" /\ todo # {}
  /\ LET r == Min(todo) IN
       /\ Entry(r).bundle # None
       /\ Asked([repo |-> r, date |-> Entry(r).date, manifest |-> None], Vouched(r))
  /\ phase' = "restoring"
  /\ UNCHANGED <<key, sample, doc, todo, outcome, came, files, tries, reportKey, exit>>

\* CompareSourceRefs: what came back against what the source had, when the
\* manifest says it.
SourceMatch(r) ==
  LET refs == SourceRefs[Entry(r).bundle] IN DOMAIN refs # {} => RefsHold(refs, clone)

\* Faulty: what Restore returned is the verdict.
FaultyEndOne ==
  /\ phase = "restoring" /\ at = "returned"
  /\ at' = "idle"
  /\ LET r == Min(todo) IN
       /\ outcome' = [outcome EXCEPT ![r] = IF result = "restored" THEN "success" ELSE "failed"]
       /\ came' = [came EXCEPT ![r] = [bundle |-> got, archive |-> unpacked, clone |-> clone]]
       /\ todo' = todo \ {r}
  /\ phase' = "next"
  /\ UNCHANGED <<req, checks, search, got, clone, unpacked, result>>
  /\ UNCHANGED <<key, sample, doc, files, tries, reportKey, exit>>

\* One that fails does not end the drill.
EndOne ==
  /\ phase = "restoring" /\ at = "returned"
  /\ at' = "idle"
  /\ LET r == Min(todo) IN
       /\ outcome' = [outcome EXCEPT ![r] =
            IF result = "restored" /\ SourceMatch(r) THEN "success" ELSE "failed"]
       /\ came' = [came EXCEPT ![r] = [bundle |-> got, archive |-> unpacked, clone |-> clone]]
       /\ todo' = todo \ {r}
  /\ phase' = "next"
  /\ UNCHANGED <<req, checks, search, got, clone, unpacked, result>>
  /\ UNCHANGED <<key, sample, doc, files, tries, reportKey, exit>>

-----------------------------------------------------------------------------
(***************************************************************************)
(* The report.                                                             *)
(***************************************************************************)
AllCameBack == \A r \in Chosen(doc) : outcome[r] = "success"

\* drillExit: a copy that did not come back is told before a report that was
\* not stored.
ExitCode(notStored) == IF ~ AllCameBack THEN 1 ELSE IF notStored THEN 3 ELSE 0

End(stored_, notStored) ==
  /\ phase' = "done"
  /\ reportKey' = stored_
  /\ exit' = ExitCode(notStored)

\* Without a signing key nothing is stored.
CloseReport ==
  /\ phase = "next" /\ todo = {}
  /\ IF setting.sign THEN phase' = "report" /\ UNCHANGED <<reportKey, exit>>
     ELSE End(FALSE, FALSE)
  /\ UNCHANGED <<key, sample, doc, todo, outcome, came, files, tries>>

\* The put returns without an error: the key was free, or the destination
\* settles that its own bytes are there.
PutTold(file) ==
  /\ phase = file
  /\ files[file] = None \/ (setting.settles /\ files[file] = "ours")
  /\ files' = [files EXCEPT ![file] = "ours"]
  /\ tries' = 0
  /\ IF file = "report" THEN phase' = "signature" /\ UNCHANGED <<reportKey, exit>>
     ELSE End(TRUE, FALSE)
  /\ UNCHANGED <<key, sample, doc, todo, outcome, came>>

\* Faulty: the report has its key, so the drill returns it.
FaultyPutFails(file) ==
  /\ phase = file
  /\ \/ UNCHANGED files
     \/ files[file] = None /\ files' = [files EXCEPT ![file] = "ours"]
  /\ \/ tries + 1 < PutAttempts /\ tries' = tries + 1 /\ UNCHANGED <<phase, reportKey, exit>>
     \/ UNCHANGED tries /\ End(file = "signature", file = "report")
  /\ UNCHANGED <<key, sample, doc, todo, outcome, came>>

\* It returns an error, which may be all that is known of a put that took
\* place. It is retried, unless it was the last or the command is stopped.
PutFails(file) ==
  /\ phase = file
  /\ \/ UNCHANGED files
     \/ files[file] = None /\ files' = [files EXCEPT ![file] = "ours"]
  /\ \/ tries + 1 < PutAttempts /\ tries' = tries + 1 /\ UNCHANGED <<phase, reportKey, exit>>
     \/ UNCHANGED tries /\ End(FALSE, TRUE)
  /\ UNCHANGED <<key, sample, doc, todo, outcome, came>>

DrillOnly ==
  /\ \/ PickManifest \/ LoadManifest \/ NoManifest \/ NothingRecorded \/ CloseReport
     \/ \E file \in {"report", "signature"} : PutTold(file) \/ PutFails(file)
  /\ UNCHANGED work

DrillStep ==
  /\ \/ DrillOnly
     \/ DrillOne \/ EndOne
  /\ UNCHANGED <<setting, stored, changes, touched>>

\* A drill of other repositories of the namespace, finished in the same second.
OtherDrill ==
  /\ files.report = None
  /\ files' = [report |-> "theirs", signature |-> "theirs"]
  /\ UNCHANGED <<phase, key, sample, doc, todo, outcome, came, tries, reportKey, exit>>

-----------------------------------------------------------------------------
DrillTypeOK ==
  /\ phase \in {"idle", "pick", "load", "next", "restoring", "report", "signature", "done"}
  /\ key \in Names \cup {None} /\ sample \in 0 .. N
  /\ doc \in Docs \cup {None} /\ todo \subseteq Repos
  /\ outcome \in [Repos -> {"none", "success", "failed"}]
  /\ files \in [report : {None, "ours", "theirs"}, signature : {None, "ours", "theirs"}]
  /\ tries \in 0 .. PutAttempts - 1
  /\ reportKey \in BOOLEAN /\ exit \in {None, 0, 1, 3}
  /\ phase = "restoring" => todo # {}

\* VerifyDrill: the report's signature is the report's own.
VerifiesDrill == files.report # None /\ files.signature = files.report

\* A drill that exits 0, or 3 because its report was not stored, has restored
\* every repository it chose: the very artifacts of the manifest it loaded, if
\* it was verified, with every ref the source had, though the destination, that
\* manifest's key too, changed while it was at it.
DrillProves ==
  phase = "done" /\ exit \in {0, 3} =>
    /\ todo = {}
    /\ \A r \in Chosen(doc) :
         /\ setting.pub => came[r].bundle = Entry(r).bundle /\ came[r].archive = Entry(r).archive
         /\ Mismatched(SourceRefs[Entry(r).bundle], came[r].clone) = {}

\* A key that the drill returns holds its own report, and verifies: a lost
\* answer, a report another drill put there or a signature that could not be
\* stored never passes for it. With a signing key, no other drill exits 0.
ReportKeyVerifies ==
  /\ reportKey => files.report = "ours" /\ VerifiesDrill
  /\ exit = 0 /\ setting.sign => reportKey
=============================================================================
