---------------------------- MODULE Reading_proofs ---------------------------
(***************************************************************************)
(* Proofs about Reading: for any repositories, artifacts, documents and    *)
(* keys, and however often the destination changes, what a restore, a      *)
(* drill or a verify reports is so.                                        *)
(***************************************************************************)
EXTENDS Reading, FiniteSetTheorems, WellFoundedInduction, TLAPS

-----------------------------------------------------------------------------
(***************************************************************************)
(* The inductive invariant: the restore.                                   *)
(***************************************************************************)
Restored == result = "restored"

\* Restore has found what the copy is held to, if it is to be held to anything.
Settled == at \in {"bundle", "sums", "clone", "list", "archive", "tree"} \/ Restored

\* The bundle has passed CheckBundle.
Checked == at \in {"clone", "list", "archive", "tree"} \/ Restored

Compared == at \in {"list", "archive", "tree"} \/ Restored

Underway ==
  /\ at \in {"idle", "returned"} \/ (result = "none" /\ unpacked = None)
  /\ at = "start" => search = NoSearch
  /\ at = "search" => setting.pub /\ checks = None
  /\ at = "sums" \/ Checked => got \in Bundles

\* A verified manifest's entry is a copy its run made.
IsSigned(r, date, vouched) ==
  \E d \in Signed : r \in DOMAIN d.entries /\
    LET entry == d.entries[r] IN
      /\ entry.status \in Made /\ entry.date = date
      /\ entry.bundle = vouched.bundle
      /\ entry.archive = vouched.archive

ChecksAreSigned ==
  /\ checks # None => setting.pub /\ IsSigned(req.repo, req.date, checks)
  /\ Settled /\ setting.pub => checks # None

\* What was brought back so far is what they say.
ChecksHold ==
  checks # None =>
    /\ Checked => got = checks.bundle
    /\ at = "tree" => checks.archive = None
    /\ Restored => unpacked = checks.archive

RefsAreBack ==
  /\ Compared => RefsHold(Declares[got], clone)
  /\ Restored => Pointers(unpacked) = {}

Records(n) == Loads(n, TRUE) /\ RecordsCopy(EntryAt(n, req.repo), req.date)

\* Of what the search is past, nothing that stayed as it was records the copy.
SearchedSoFar ==
  /\ at = "search" \/ result = "unrecorded" =>
       \A w \in Listings : \A n \in Listed(w, req.date) \ touched :
         w < search.listing \/ (w = search.listing /\ n \notin search.left) => ~ Records(n)
  /\ result = "unrecorded" => search = [listing |-> 2 * Dirs, left |-> {}]

RestoreInv ==
  Underway /\ ChecksAreSigned /\ ChecksHold /\ RefsAreBack /\ SearchedSoFar

-----------------------------------------------------------------------------
(***************************************************************************)
(* The inductive invariant: the drill and the verify.                      *)
(***************************************************************************)
Unloaded == phase \in {"idle", "pick", "load"}
Loaded == phase \in {"next", "restoring", "report", "signature"} \/ exit \in {0, 3}

\* The document a drill is about.
DocIsChosen ==
  /\ Loaded => key \in Names /\ doc \in Docs /\ (setting.pub => doc \in Signed)
  /\ todo \subseteq (IF Loaded THEN Chosen(doc) ELSE Repos)
  /\ Unloaded => todo = {} /\ outcome = Untold
  /\ phase = "load" => key \in Names

\* The restore under way is of the first repository that is to be restored, and
\* is held to its entry.
OneAtATime ==
  phase = "restoring" =>
    /\ todo # {}
    /\ Entry(Min(todo)).bundle # None
    /\ checks = Vouched(Min(todo))

CameBack ==
  /\ came = [r \in Repos |-> came[r]]
  /\ \A r \in Repos : outcome[r] = "success" =>
       /\ setting.pub => came[r].bundle = Entry(r).bundle /\ came[r].archive = Entry(r).archive
       /\ Mismatched(SourceRefs[Entry(r).bundle], came[r].clone) = {}

Closing ==
  /\ phase \in {"report", "signature"} => todo = {}
  /\ phase \in {"report", "signature"} => setting.sign
  /\ exit # None \/ reportKey => phase = "done"
  /\ exit \in {0, 3} => todo = {} /\ AllCameBack

ReportIsOurs == phase = "signature" => files.report = "ours"

DrillInv ==
  DocIsChosen /\ OneAtATime /\ CameBack /\ Closing /\ ReportIsOurs /\ ReportKeyVerifies

\* What Verify reads by was signed, and what it found good is what it says.
ReadAsSigned ==
  /\ step = "load" => asked \in Names
  /\ step = "reading" => manifest \in Signed
  /\ step # "reading" => InState("reading") = {}
  /\ \A i \in Items :
       /\ check[i] # "none" => step \in {"reading", "done"} /\ i \in Listing(manifest)
       /\ check[i] = "ok" => read[i] = Sum(manifest, i)

Passed == verdict = "ok" => step = "done" /\ manifest \in Signed /\ Listing(manifest) = InState("ok")

VerifyInv == ReadAsSigned /\ Passed

IInv == TypeOK /\ RestoreInv /\ DrillInv /\ VerifyInv

-----------------------------------------------------------------------------
(***************************************************************************)
(* Lemmas.                                                                 *)
(***************************************************************************)

\* A set of naturals that is not empty has a least.
LEMMA LeastExists ==
  ASSUME NEW S \in SUBSET Nat, S # {}
  PROVE  \E i \in S : \A j \in S : i <= j
<1>1. OpToRel(<, Nat) = {ss \in Nat \X Nat : ss[1] < ss[2]}
  BY Zenon DEF OpToRel
<1>2. IsWellFoundedOn({ss \in Nat \X Nat : ss[1] < ss[2]}, Nat)
  BY <1>1, NatLessThanWellFounded, Zenon
<1>3. PICK i \in S : \A j \in S : ~ (<<j, i>> \in {ss \in Nat \X Nat : ss[1] < ss[2]})
  BY <1>2, WFMin
<1>4. ASSUME NEW j \in S
      PROVE  i <= j
  <2>1. i \in Nat /\ j \in Nat
    OBVIOUS
  <2>2. ~ (j < i)
    BY <1>3, <2>1
  <2>. QED BY <2>1, <2>2
<1>. QED BY <1>4

\* The next repository to restore is one of those that are left.
LEMMA MinIsIn ==
  ASSUME NEW S \in SUBSET Repos, S # {}
  PROVE  Min(S) \in S
<1>1. \E i \in S : \A j \in S : i <= j
  BY LeastExists, StoredAssumption DEF Repos
<1>. QED BY <1>1 DEF Min

\* Of manifests that are there, one is the newest.
LEMMA NewestIsIn ==
  ASSUME NEW S \in SUBSET Names, S # {}
  PROVE  Newest(S) \in S
<1>1. PICK last \in Names : \A n \in Names : n.at <= last.at
  BY StoredAssumption
<1>2. \A n \in Names : n.at \in Nat
  BY StoredAssumption
<1>. DEFINE ages == {last.at - n.at : n \in S}
<1>3. ages \in SUBSET Nat /\ ages # {}
  BY <1>1, <1>2
<1>. HIDE DEF ages
<1>4. PICK age \in ages : \A other \in ages : age <= other
  BY <1>3, LeastExists
<1>. USE DEF ages
<1>5. PICK n \in S : age = last.at - n.at
  BY <1>4
<1>6. ASSUME NEW m \in S
      PROVE  m.at <= n.at
  <2>1. last.at - n.at <= last.at - m.at
    BY <1>4, <1>5
  <2>2. last.at \in Nat /\ n.at \in Nat /\ m.at \in Nat
    BY <1>2
  <2>. QED BY <2>1, <2>2
<1>. QED BY <1>6 DEF Newest

\* What a signature holds over was signed.
LEMMA LoadedIsSigned ==
  ASSUME StoredTypeOK, NEW n \in Names, NEW pub \in BOOLEAN, Loads(n, pub)
  PROVE  filed[n].doc \in Docs /\ (pub => filed[n].doc \in Signed)
<1>1. filed[n] \in Slots
  BY DEF StoredTypeOK, Loads
<1>. QED BY <1>1, StoredAssumption DEF Loads, Slots

\* An entry of a document is an entry of one of the repositories.
LEMMA EntryType ==
  ASSUME NEW d \in Docs, NEW r \in DOMAIN d.entries
  PROVE  r \in Repos /\ d.entries[r] \in Entries
  BY StoredAssumption

\* An entry that names a bundle gives something to hold the copy to.
LEMMA RecordedType ==
  ASSUME NEW n \in Names, NEW entry \in Entries, entry.bundle # None
  PROVE  Recorded(n, entry) \in Vouchers /\ Recorded(n, entry) # None
<1>1. Recorded(n, entry) \in Vouchers
  BY DEF Entries, Recorded, Vouchers
<1>. QED BY <1>1, RestoreAssumption

LEMMA SettingType ==
  ASSUME RestoreTypeOK
  PROVE  setting.pub \in BOOLEAN /\ setting.sign \in BOOLEAN /\ setting.settles \in BOOLEAN
  BY RestoreAssumption DEF RestoreTypeOK

\* A manifest that records the copy gives signed checks for it.
LEMMA FoundIsSigned ==
  ASSUME StoredTypeOK, RestoreTypeOK, NEW n \in Names, Records(n)
  PROVE  LET found == Recorded(n, EntryAt(n, req.repo)) IN
           found \in Vouchers /\ found # None /\ IsSigned(req.repo, req.date, found)
<1>1. filed[n].doc \in Docs /\ filed[n].doc \in Signed
  BY LoadedIsSigned DEF Records
<1>2. /\ req.repo \in DOMAIN filed[n].doc.entries
      /\ EntryAt(n, req.repo) = filed[n].doc.entries[req.repo]
      /\ EntryAt(n, req.repo).bundle # None
      /\ EntryAt(n, req.repo).status \in Made /\ EntryAt(n, req.repo).date = req.date
  BY DEF Records, RecordsCopy, EntryAt
<1>3. EntryAt(n, req.repo) \in Entries
  BY <1>1, <1>2, EntryType
<1>. QED BY <1>1, <1>2, <1>3, RecordedType DEF IsSigned, Recorded

\* An entry that is chosen is a copy its run made.
LEMMA ChosenType ==
  ASSUME doc \in Docs, NEW r \in Chosen(doc)
  PROVE  /\ r \in DOMAIN doc.entries /\ r \in Repos
         /\ Entry(r) \in Entries /\ Entry(r).status = "success"
  BY EntryType DEF Chosen, Eligible, Entry

LEMMA Initially == Init => IInv
<1>. SUFFICES ASSUME Init
              PROVE  IInv
  OBVIOUS
<1>. USE DEF Init, StoredInit, RestoreInit, DrillInit, VerifyInit
<1>1. StoredTypeOK
  BY StoredAssumption DEF StoredTypeOK
<1>2. RestoreTypeOK
  <2>1. Idle \in [repo : Repos, date : Dates, manifest : Names \cup {None}]
    BY StoredAssumption DEF Idle, Repos
  <2>2. NoSearch \in [listing : 0 .. 2 * Dirs, left : SUBSET Names]
    BY StoredAssumption DEF NoSearch
  <2>. QED BY <2>1, <2>2 DEF RestoreTypeOK
<1>3. DrillTypeOK
  <2>1. sample \in 0 .. N /\ tries \in 0 .. PutAttempts - 1
    BY StoredAssumption DEF PutAttempts
  <2>2. outcome \in [Repos -> {"none", "success", "failed"}]
    BY DEF Untold
  <2>. QED BY <2>1, <2>2, Zenon DEF DrillTypeOK
<1>4. VerifyTypeOK
  BY DEF VerifyTypeOK
<1>5. RestoreInv
  BY DEF RestoreInv, Underway, ChecksAreSigned, ChecksHold, RefsAreBack, SearchedSoFar, Restored,
         Settled, Checked, Compared, NoSearch
<1>6. DrillInv
  BY DrillAssumption
     DEF DrillInv, DocIsChosen, OneAtATime, CameBack, Closing, ReportIsOurs, ReportKeyVerifies,
         Loaded, Unloaded, Untold
<1>7. VerifyInv
  BY DEF VerifyInv, ReadAsSigned, Passed, InState
<1>. QED BY <1>1, <1>2, <1>3, <1>4, <1>5, <1>6, <1>7 DEF IInv, TypeOK

-----------------------------------------------------------------------------
(***************************************************************************)
(* What a command leaves alone.                                            *)
(***************************************************************************)
LEMMA StoredKept ==
  ASSUME StoredTypeOK, UNCHANGED <<stored, changes>>
  PROVE  StoredTypeOK'
  BY DEF StoredTypeOK, stored

LEMMA RestoreKept ==
  ASSUME RestoreTypeOK, RestoreInv, UNCHANGED <<stored, setting, touched, work>>
  PROVE  RestoreTypeOK' /\ RestoreInv'
<1>1. RestoreTypeOK'
  BY DEF RestoreTypeOK, work
<1>2. /\ Underway' /\ ChecksAreSigned' /\ ChecksHold' /\ RefsAreBack'
  BY DEF RestoreInv, Underway, ChecksAreSigned, ChecksHold, RefsAreBack, work, Restored, Settled,
         Checked, Compared, IsSigned, RefsHold, MatchedRefs, Unreferenced, Mismatched, Pointers,
         CheckedOut
<1>3. SearchedSoFar'
  BY DEF RestoreInv, SearchedSoFar, work, stored, Listed, Filed, Records, Loads, EntryAt
<1>. QED BY <1>1, <1>2, <1>3 DEF RestoreInv

LEMMA DrillKept ==
  ASSUME DrillTypeOK, DrillInv, UNCHANGED <<setting, drillVars>>,
         phase = "restoring" => checks' = checks
  PROVE  DrillTypeOK' /\ DrillInv'
<1>. USE DEF drillVars
<1>1. DrillTypeOK'
  BY DEF DrillTypeOK
<1>2. DocIsChosen' /\ OneAtATime' /\ CameBack' /\ Closing' /\ ReportIsOurs' /\ ReportKeyVerifies'
  BY DEF DrillInv, DocIsChosen, OneAtATime, CameBack, Closing, ReportIsOurs, ReportKeyVerifies,
         Loaded, Unloaded, Chosen, Eligible, Entry, Vouched, AllCameBack, VerifiesDrill, Min
<1>. QED BY <1>1, <1>2 DEF DrillInv

LEMMA VerifyKept ==
  ASSUME VerifyTypeOK, VerifyInv, UNCHANGED verifyVars
  PROVE  VerifyTypeOK' /\ VerifyInv'
<1>. USE DEF verifyVars
<1>1. Limit' = Limit /\ InState("reading")' = InState("reading")
  BY DEF Limit, Listing, Sum, InState
<1>2. VerifyTypeOK'
  BY <1>1 DEF VerifyTypeOK
<1>3. VerifyInv'
  BY DEF VerifyInv, ReadAsSigned, Passed, Listing, Sum, InState
<1>. QED BY <1>2, <1>3

-----------------------------------------------------------------------------
(***************************************************************************)
(* A step of a restore.                                                    *)
(***************************************************************************)
LEMMA RestoreTypes ==
  ASSUME StoredTypeOK, RestoreTypeOK, RestoreInv, RestoreStep
  PROVE  RestoreTypeOK'
<1>. USE DEF RestoreTypeOK
<1>0. setting' = setting /\ touched' \subseteq Names
  BY DEF RestoreStep
<1>1. CASE GoOn
  BY <1>0, <1>1 DEF GoOn
<1>2. CASE FromManifest
  <2>1. filed[req.manifest].doc \in Docs
    BY <1>2, LoadedIsSigned DEF FromManifest
  <2>2. /\ EntryAt(req.manifest, req.repo) \in Entries
        /\ EntryAt(req.manifest, req.repo).bundle # None
    BY <1>2, <2>1, EntryType DEF FromManifest, EntryAt
  <2>3. checks' \in Vouchers /\ EntryAt(req.manifest, req.repo).date \in Dates
    BY <1>2, <2>2, RecordedType DEF FromManifest, Entries
  <2>. QED BY <1>0, <1>2, <2>3 DEF FromManifest
<1>3. CASE ListManifests
  <2>1. search.listing + 1 \in 0 .. 2 * Dirs
    BY <1>3, StoredAssumption DEF ListManifests, RestoreInv, Underway, NoSearch
  <2>2. Listed(search.listing + 1, req.date) \subseteq Names
    BY DEF Listed, Filed
  <2>. QED BY <1>0, <1>3, <2>1, <2>2 DEF ListManifests
<1>4. CASE ReadNext
  <2>1. Newest(search.left) \in Names
    BY <1>4, NewestIsIn DEF ReadNext
  <2>2. CASE Records(Newest(search.left))
    BY <1>0, <1>4, <2>1, <2>2, FoundIsSigned DEF ReadNext, Records
  <2>3. CASE ~ Records(Newest(search.left))
    BY <1>0, <1>4, <2>3 DEF ReadNext, Records
  <2>. QED BY <2>2, <2>3
<1>5. CASE Unrecorded \/ Refuse
  BY <1>0, <1>5 DEF Unrecorded, Refuse, Return
<1>6. CASE GetBundle
  <2>1. Place \in Places
    BY DEF Place, Places
  <2>. QED BY <1>0, <1>6, <2>1 DEF GetBundle, StoredTypeOK
<1>7. CASE CheckBundle
  BY <1>0, <1>7 DEF CheckBundle
<1>8. CASE CloneBundle
  BY <1>0, <1>8 DEF CloneBundle
<1>9. CASE ListArchive
  BY <1>0, <1>9 DEF ListArchive
<1>10. CASE Unpack
  <2>1. Place \in Places
    BY DEF Place, Places
  <2>. QED BY <1>0, <1>10, <2>1 DEF Unpack, Return, StoredTypeOK
<1>11. CASE ReadTree
  BY <1>0, <1>11 DEF ReadTree, Return
<1>. QED
  BY <1>1, <1>2, <1>3, <1>4, <1>5, <1>6, <1>7, <1>8, <1>9, <1>10, <1>11 DEF RestoreStep

LEMMA UnderwayStep ==
  ASSUME StoredTypeOK, RestoreTypeOK, RestoreInv, RestoreStep
  PROVE  Underway'
<1>. USE DEF Underway, Checked, Restored, Return
<1>0. Underway /\ setting' = setting
  BY DEF RestoreInv, RestoreStep
<1>1. CASE GoOn \/ FromManifest \/ ListManifests
  BY <1>0, <1>1 DEF GoOn, FromManifest, ListManifests
<1>2. CASE ReadNext
  BY <1>0, <1>2 DEF ReadNext
<1>3. CASE Unrecorded \/ Refuse
  BY <1>0, <1>3 DEF Unrecorded, Refuse
<1>4. CASE GetBundle
  <2>1. bundle[Place] \in Bundles
    BY <1>4 DEF GetBundle, Place, Places, StoredTypeOK, RestoreTypeOK
  <2>. QED BY <1>0, <1>4, <2>1 DEF GetBundle
<1>5. CASE CheckBundle
  BY <1>0, <1>5 DEF CheckBundle
<1>6. CASE CloneBundle \/ Unpack \/ ReadTree
  BY <1>0, <1>6 DEF CloneBundle, Unpack, ReadTree
<1>7. CASE ListArchive
  BY <1>0, <1>7 DEF ListArchive
<1>. QED BY <1>1, <1>2, <1>3, <1>4, <1>5, <1>6, <1>7 DEF RestoreStep

LEMMA ChecksAreSignedStep ==
  ASSUME StoredTypeOK, RestoreTypeOK, RestoreInv, RestoreStep
  PROVE  ChecksAreSigned'
<1>. USE DEF ChecksAreSigned, Settled, Restored, Return
<1>0. ChecksAreSigned /\ Underway /\ setting' = setting
  BY DEF RestoreInv, RestoreStep
<1>1. CASE GoOn
  BY <1>0, <1>1 DEF GoOn, IsSigned
<1>2. CASE FromManifest
  <2>. DEFINE entry == EntryAt(req.manifest, req.repo)
  <2>1. filed[req.manifest].doc \in Docs /\ filed[req.manifest].doc \in Signed
    BY <1>2, LoadedIsSigned DEF FromManifest, RestoreTypeOK
  <2>2. /\ req.repo \in DOMAIN filed[req.manifest].doc.entries
        /\ entry = filed[req.manifest].doc.entries[req.repo]
        /\ entry.status \in Made /\ entry.bundle # None
    BY <1>2 DEF FromManifest, EntryAt, Made
  <2>3. checks' = Recorded(req.manifest, entry) /\ req' = [req EXCEPT !.date = entry.date]
    BY <1>2 DEF FromManifest
  <2>4. req'.repo = req.repo /\ req'.date = entry.date
    BY <2>3 DEF RestoreTypeOK
  <2>5. IsSigned(req'.repo, req'.date, checks')
    <3>1. checks'.bundle = entry.bundle /\ checks'.archive = entry.archive
      BY <2>3 DEF Recorded
    <3>. HIDE DEF entry
    <3>. QED BY <2>1, <2>2, <2>4, <3>1 DEF IsSigned
  <2>6. checks' # None
    <3>1. entry \in Entries /\ entry.bundle # None
      BY <2>1, <2>2, EntryType
    <3>2. req.manifest \in Names
      BY <1>2 DEF FromManifest, RestoreTypeOK
    <3>. HIDE DEF entry
    <3>. QED BY <2>3, <3>1, <3>2, RecordedType
  <2>. QED BY <1>0, <1>2, <2>5, <2>6 DEF FromManifest, IsSigned
<1>3. CASE ListManifests
  BY <1>0, <1>3 DEF ListManifests, Underway, IsSigned
<1>4. CASE ReadNext
  <2>1. Newest(search.left) \in Names
    BY <1>4, NewestIsIn DEF ReadNext, RestoreTypeOK
  <2>2. CASE Records(Newest(search.left))
    <3>1. /\ checks' # None /\ IsSigned(req.repo, req.date, checks')
          /\ req' = req
      BY <1>4, <2>1, <2>2, FoundIsSigned DEF ReadNext, Records
    <3>. QED BY <1>0, <1>4, <3>1 DEF Underway, ReadNext, IsSigned
  <2>3. CASE ~ Records(Newest(search.left))
    BY <1>0, <1>4, <2>3 DEF ReadNext, Records, Underway, IsSigned
  <2>. QED BY <2>2, <2>3
<1>5. CASE Unrecorded \/ Refuse \/ GetBundle \/ CheckBundle \/ CloneBundle \/ ListArchive
           \/ Unpack \/ ReadTree
  <2>1. checks' = checks /\ req' = req /\ (Settled' => Settled)
    BY <1>0, <1>5 DEF Unrecorded, Refuse, GetBundle, CheckBundle, CloneBundle, ListArchive,
       Unpack, ReadTree, Underway
  <2>. QED BY <1>0, <2>1 DEF IsSigned
<1>. QED BY <1>1, <1>2, <1>3, <1>4, <1>5 DEF RestoreStep

LEMMA ChecksHoldStep ==
  ASSUME StoredTypeOK, RestoreTypeOK, RestoreInv, RestoreStep
  PROVE  ChecksHold'
<1>. USE DEF ChecksHold, Checked, Restored, Return
<1>0. ChecksHold /\ Underway
  BY DEF RestoreInv
<1>1. CASE GoOn \/ FromManifest \/ ListManifests \/ ReadNext \/ Unrecorded \/ Refuse \/ GetBundle
  BY <1>0, <1>1
     DEF GoOn, FromManifest, ListManifests, ReadNext, Unrecorded, Refuse, GetBundle, Underway
<1>2. CASE CheckBundle
  BY <1>0, <1>2 DEF CheckBundle, BundleHolds, Underway
<1>3. CASE CloneBundle
  BY <1>0, <1>3 DEF CloneBundle, Underway
<1>4. CASE ListArchive
  BY <1>0, <1>4 DEF ListArchive, Agreed, Underway
<1>5. CASE Unpack \/ ReadTree
  BY <1>0, <1>5 DEF Unpack, ReadTree, Underway
<1>. QED BY <1>1, <1>2, <1>3, <1>4, <1>5 DEF RestoreStep

LEMMA RefsAreBackStep ==
  ASSUME RestoreInv, RestoreStep
  PROVE  RefsAreBack'
<1>. USE DEF RefsAreBack, Compared, Restored, Return
<1>0. RefsAreBack /\ Underway
  BY DEF RestoreInv
<1>1. CASE GoOn \/ FromManifest \/ ListManifests \/ ReadNext \/ Unrecorded \/ Refuse \/ GetBundle
           \/ CheckBundle
  BY <1>0, <1>1
     DEF GoOn, FromManifest, ListManifests, ReadNext, Unrecorded, Refuse, GetBundle, CheckBundle,
         Underway
<1>2. CASE CloneBundle
  <2>1. RefsHold(Declares[got], clone') /\ got' = got /\ at' = "list" /\ result' = result
    BY <1>2 DEF CloneBundle
  <2>2. result' = "none"
    BY <1>0, <1>2, <2>1 DEF CloneBundle, Underway
  <2>. QED BY <2>1, <2>2 DEF RefsHold, Mismatched, MatchedRefs, Unreferenced
<1>3. CASE ListArchive \/ Unpack \/ ReadTree
  <2>1. /\ got' = got /\ clone' = clone /\ RefsHold(Declares[got], clone)
        /\ (Restored)' => Pointers(unpacked') = {}
    BY <1>0, <1>3 DEF ListArchive, Unpack, ReadTree, Underway
  <2>2. RefsHold(Declares[got], clone)' /\ (Pointers(unpacked)' = {} <=> Pointers(unpacked') = {})
    BY <2>1 DEF RefsHold, Mismatched, MatchedRefs, Unreferenced, Pointers, CheckedOut
  <2>. QED BY <2>1, <2>2
<1>. QED BY <1>1, <1>2, <1>3 DEF RestoreStep

\* Each manifest the search leaves behind was read as it still is, or is counted
\* as touched.
LEMMA SearchedSoFarStep ==
  ASSUME StoredTypeOK, RestoreTypeOK, RestoreInv, RestoreStep
  PROVE  SearchedSoFar'
<1>. USE DEF SearchedSoFar, Return
<1>0. SearchedSoFar /\ Underway /\ UNCHANGED <<setting, filed>>
  BY DEF RestoreInv, RestoreStep, stored
<1>1. CASE GoOn \/ FromManifest \/ GetBundle \/ CheckBundle \/ CloneBundle \/ ListArchive
           \/ Unpack \/ ReadTree \/ Refuse
  <2>1. at' # "search" /\ result' # "unrecorded"
    BY <1>0, <1>1 DEF GoOn, FromManifest, GetBundle, CheckBundle, CloneBundle, ListArchive,
       Unpack, ReadTree, Refuse, Underway
  <2>. QED BY <2>1
<1>2. ASSUME req' = req,
             \A w \in Listings : \A n \in Listed(w, req.date) \ touched' :
               w < search'.listing \/ (w = search'.listing /\ n \notin search'.left) => ~ Records(n),
             result' = "unrecorded" => search' = [listing |-> 2 * Dirs, left |-> {}]
      PROVE  SearchedSoFar'
  BY <1>0, <1>2 DEF Listed, Filed, Records, Loads, EntryAt
<1>3. CASE ListManifests
  <2>1. /\ req' = req /\ touched' = touched /\ at' = "search" /\ result' = "none"
        /\ search' = [listing |-> search.listing + 1,
                      left |-> Listed(search.listing + 1, req.date)]
    BY <1>0, <1>3 DEF ListManifests, RestoreStep, Underway
  <2>2. CASE at = "start"
    <3>1. search'.listing = 1 /\ search'.left = Listed(1, req.date)
      BY <1>0, <2>1, <2>2 DEF Underway, NoSearch
    <3>2. \A w \in Listings : w \in Nat /\ w >= 1
      BY StoredAssumption DEF Listings
    <3>. QED BY <1>2, <2>1, <3>1, <3>2
  <2>3. CASE at = "search"
    <3>1. /\ search.left = {} /\ search.listing \in Nat
          /\ search'.listing = search.listing + 1
          /\ search'.left = Listed(search'.listing, req.date)
      BY <1>3, <2>1, <2>3 DEF ListManifests, RestoreTypeOK
    <3>2. \A w \in Listings : w \in Int
      BY StoredAssumption DEF Listings
    <3>3. ASSUME NEW w \in Listings, NEW n \in Listed(w, req.date) \ touched,
                 w < search'.listing \/ (w = search'.listing /\ n \notin search'.left)
          PROVE  ~ Records(n)
      <4>1. w < search.listing \/ w = search.listing
        BY <3>1, <3>2, <3>3
      <4>. QED BY <1>0, <2>3, <3>1, <3>3, <4>1
    <3>. QED BY <1>2, <2>1, <3>3
  <2>. QED BY <1>3, <2>2, <2>3 DEF ListManifests
<1>4. CASE ReadNext
  <2>1. CASE Records(Newest(search.left))
    BY <1>0, <1>4, <2>1 DEF ReadNext, Records, Underway
  <2>2. CASE ~ Records(Newest(search.left))
    <3>1. /\ req' = req /\ touched' = touched /\ at = "search" /\ at' = "search"
          /\ result' = "none"
          /\ search'.listing = search.listing
          /\ search'.left = search.left \ {Newest(search.left)}
      BY <1>0, <1>4, <2>2 DEF ReadNext, Records, RestoreStep, Underway, RestoreTypeOK
    <3>2. ASSUME NEW w \in Listings, NEW n \in Listed(w, req.date) \ touched,
                 w < search'.listing \/ (w = search'.listing /\ n \notin search'.left)
          PROVE  ~ Records(n)
      BY <1>0, <2>2, <3>1, <3>2
    <3>. QED BY <1>2, <3>1, <3>2
  <2>. QED BY <2>1, <2>2
<1>5. CASE Unrecorded
  <2>1. /\ req' = req /\ touched' = touched /\ at = "search" /\ search' = search
        /\ search = [listing |-> 2 * Dirs, left |-> {}]
    BY <1>0, <1>5 DEF Unrecorded, RestoreStep, RestoreTypeOK
  <2>. QED BY <1>0, <1>2, <2>1
<1>. QED BY <1>1, <1>3, <1>4, <1>5 DEF RestoreStep

\* While a drill restores, what the restore is held to stays.
LEMMA ChecksStay ==
  ASSUME TypeOK, RestoreInv, DrillInv, RestoreStep, phase = "restoring"
  PROVE  checks' = checks
<1>. USE DEF TypeOK
<1>1. /\ todo # {} /\ checks = Vouched(Min(todo)) /\ Entry(Min(todo)).bundle # None
      /\ key \in Names /\ doc \in Docs /\ todo \subseteq Chosen(doc)
  BY DEF DrillInv, OneAtATime, DocIsChosen, Loaded
<1>2. Min(todo) \in todo
  BY <1>1, MinIsIn DEF DrillTypeOK
<1>3. Entry(Min(todo)) \in Entries
  BY <1>1, <1>2, ChosenType
<1>4. setting.pub => checks # None
  BY <1>1, <1>3, RecordedType DEF Vouched
<1>5. ~ FromManifest
  BY <1>4 DEF FromManifest
<1>6. ~ ReadNext
  BY <1>4 DEF ReadNext, RestoreInv, Underway
<1>. QED BY <1>5, <1>6
         DEF RestoreStep, GoOn, ListManifests, Unrecorded, Refuse, GetBundle, CheckBundle,
             CloneBundle, ListArchive, Unpack, ReadTree

LEMMA RestoreKeeps ==
  ASSUME IInv, RestoreStep, UNCHANGED <<drillVars, verifyVars>>
  PROVE  IInv'
<1>. USE DEF IInv, TypeOK
<1>1. UNCHANGED <<setting, stored, changes>>
  BY DEF RestoreStep
<1>2. RestoreTypeOK' /\ RestoreInv'
  BY RestoreTypes, UnderwayStep, ChecksAreSignedStep, ChecksHoldStep, RefsAreBackStep,
     SearchedSoFarStep
     DEF RestoreInv
<1>3. phase = "restoring" => checks' = checks
  BY ChecksStay
<1>. QED BY <1>1, <1>2, <1>3, StoredKept, DrillKept, VerifyKept

-----------------------------------------------------------------------------
(***************************************************************************)
(* A restore is asked for, by the command or by a drill.                   *)
(***************************************************************************)
LEMMA AskedStarts ==
  ASSUME StoredTypeOK, RestoreTypeOK, UNCHANGED <<stored, setting, touched>>,
         NEW request \in [repo : Repos, date : Dates, manifest : Names \cup {None}],
         NEW vouched \in Vouchers \cup {None}, Asked(request, vouched),
         vouched # None => setting.pub /\ IsSigned(request.repo, request.date, vouched)
  PROVE  RestoreTypeOK' /\ RestoreInv'
<1>. USE DEF Asked
<1>1. NoSearch \in [listing : 0 .. 2 * Dirs, left : SUBSET Names]
  BY StoredAssumption DEF NoSearch
<1>2. RestoreTypeOK'
  BY <1>1 DEF RestoreTypeOK
<1>4. RestoreInv'
  BY DEF RestoreInv, Underway, ChecksAreSigned, ChecksHold, RefsAreBack, SearchedSoFar, Restored,
         Settled, Checked, Compared, IsSigned
<1>. QED BY <1>2, <1>4

LEMMA AskKeeps ==
  ASSUME IInv, Ask
  PROVE  IInv'
<1>. USE DEF IInv, TypeOK
<1>0. /\ UNCHANGED <<stored, changes, touched, setting>> /\ StoredTypeOK'
      /\ phase = "idle" /\ step = "idle" /\ at = "idle"
  BY StoredKept DEF Ask, AskRestore, AskDrill, AskVerify, Idling
<1>1. CASE AskRestore
  <2>1. PICK r \in Repos, date \in Dates, n \in Names \cup {None} :
          Asked([repo |-> r, date |-> date, manifest |-> n], None)
    BY <1>1 DEF AskRestore
  <2>2. RestoreTypeOK' /\ RestoreInv'
    BY <1>0, <2>1, AskedStarts
  <2>. QED BY <1>0, <1>1, <2>2, DrillKept, VerifyKept DEF AskRestore
<1>2. CASE AskDrill
  <2>1. PICK n \in Names \cup {None}, s \in 0 .. N - 1 :
          /\ phase' = IF n = None THEN "pick" ELSE "load"
          /\ key' = n /\ sample' = s
    BY <1>2 DEF AskDrill
  <2>2. UNCHANGED <<doc, todo, outcome, came, files, tries, reportKey, exit>>
    BY <1>2 DEF AskDrill
  <2>3. DrillTypeOK'
    BY <2>1, <2>2, StoredAssumption DEF DrillTypeOK, PutAttempts
  <2>4. exit = None /\ ~ reportKey
    BY <1>0 DEF DrillInv, Closing, DrillTypeOK
  <2>5. DrillInv'
    BY <1>0, <2>1, <2>2, <2>4, DrillAssumption
       DEF DrillInv, DocIsChosen, OneAtATime, CameBack, Closing, ReportIsOurs, ReportKeyVerifies,
           Loaded, Unloaded, Untold, Entry
  <2>. QED BY <1>0, <1>2, <2>3, <2>5, RestoreKept, VerifyKept DEF AskDrill
<1>3. CASE AskVerify
  <2>1. /\ step' = "load" /\ asked' \in Names
        /\ UNCHANGED <<manifest, check, read, verdict, work, drillVars>>
    BY <1>3 DEF AskVerify
  <2>2. InState("reading")' = InState("reading")
    BY <2>1 DEF InState
  <2>3. VerifyTypeOK'
    BY <1>0, <2>1 DEF VerifyTypeOK
  <2>4. VerifyInv'
    BY <1>0, <2>1, <2>2 DEF VerifyInv, ReadAsSigned, Passed, Listing, Sum
  <2>5. checks' = checks
    BY <2>1 DEF work
  <2>. QED BY <1>0, <2>1, <2>3, <2>4, <2>5, RestoreKept, DrillKept
<1>. QED BY <1>1, <1>2, <1>3 DEF Ask

-----------------------------------------------------------------------------
(***************************************************************************)
(* A step of a drill.                                                      *)
(***************************************************************************)
\* What came back is judged against the drill's document, which stays.
LEMMA CameBackNext ==
  ASSUME came' = [q \in Repos |-> came'[q]], doc' = doc, setting' = setting,
         \A q \in Repos : outcome'[q] = "success" =>
           /\ setting.pub => came'[q].bundle = Entry(q).bundle /\ came'[q].archive = Entry(q).archive
           /\ Mismatched(SourceRefs[Entry(q).bundle], came'[q].clone) = {}
  PROVE  CameBack'
BY DEF CameBack, Entry, Mismatched, MatchedRefs, Unreferenced

LEMMA DrillOneKeeps ==
  ASSUME IInv, DrillOne, UNCHANGED <<setting, stored, changes, touched, verifyVars>>
  PROVE  IInv'
<1>. USE DEF IInv, TypeOK
<1>0. StoredTypeOK' /\ VerifyTypeOK' /\ VerifyInv'
  BY StoredKept, VerifyKept
<1>1. /\ phase = "next" /\ todo # {} /\ Entry(Min(todo)).bundle # None /\ phase' = "restoring"
      /\ Asked([repo |-> Min(todo), date |-> Entry(Min(todo)).date, manifest |-> None],
               Vouched(Min(todo)))
      /\ UNCHANGED <<key, sample, doc, todo, outcome, came, files, tries, reportKey, exit>>
  BY DEF DrillOne
<1>2. /\ key \in Names /\ doc \in Docs /\ (setting.pub => doc \in Signed)
      /\ todo \subseteq Chosen(doc)
  BY <1>1 DEF DrillInv, DocIsChosen, Loaded
<1>3. Min(todo) \in todo
  BY <1>1, MinIsIn DEF DrillTypeOK
<1>4. /\ Min(todo) \in DOMAIN doc.entries /\ Min(todo) \in Repos
      /\ Entry(Min(todo)) \in Entries /\ Entry(Min(todo)).status = "success"
  BY <1>2, <1>3, ChosenType
<1>5. /\ Recorded(key, Entry(Min(todo))) \in Vouchers
      /\ Recorded(key, Entry(Min(todo))) # None
  BY <1>1, <1>2, <1>4, RecordedType
<1>6. Vouched(Min(todo)) \in Vouchers \cup {None}
  BY <1>5 DEF Vouched
<1>7. Vouched(Min(todo)) # None =>
        setting.pub /\ IsSigned(Min(todo), Entry(Min(todo)).date, Vouched(Min(todo)))
  BY <1>2, <1>4 DEF Vouched, IsSigned, Made, Recorded, Entry
<1>8. Entry(Min(todo)).date \in Dates
  BY <1>4 DEF Entries
<1>9. RestoreTypeOK' /\ RestoreInv'
  <2>. DEFINE request == [repo |-> Min(todo), date |-> Entry(Min(todo)).date, manifest |-> None]
  <2>1. request \in [repo : Repos, date : Dates, manifest : Names \cup {None}]
    BY <1>4, <1>8
  <2>2. request.repo = Min(todo) /\ request.date = Entry(Min(todo)).date
    OBVIOUS
  <2>. HIDE DEF request
  <2>3. Asked(request, Vouched(Min(todo)))
    BY <1>1 DEF request
  <2>. QED BY <1>6, <1>7, <2>1, <2>2, <2>3, AskedStarts
<1>10. DrillTypeOK'
  BY <1>1 DEF DrillTypeOK
<1>11. checks' = Vouched(Min(todo))
  BY <1>1 DEF Asked
<1>12. DrillInv'
  <2>1. DocIsChosen' /\ Closing' /\ ReportIsOurs' /\ ReportKeyVerifies'
    BY <1>1 DEF DrillInv, DocIsChosen, Closing, ReportIsOurs, ReportKeyVerifies,
           Loaded, Unloaded, Chosen, Eligible, AllCameBack, VerifiesDrill
  <2>2. OneAtATime'
    BY <1>1, <1>11 DEF OneAtATime, Entry, Vouched, Min
  <2>3. CameBack'
    BY <1>1, CameBackNext DEF DrillInv, CameBack
  <2>. QED BY <2>1, <2>2, <2>3 DEF DrillInv
<1>. QED BY <1>0, <1>9, <1>10, <1>12

LEMMA EndOneKeeps ==
  ASSUME IInv, EndOne, UNCHANGED <<setting, stored, changes, touched, verifyVars>>
  PROVE  IInv'
<1>. USE DEF IInv, TypeOK
<1>0. StoredTypeOK' /\ VerifyTypeOK' /\ VerifyInv'
  BY StoredKept, VerifyKept
<1>. DEFINE r == Min(todo)
            back == [bundle |-> got, archive |-> unpacked, clone |-> clone]
<1>1. /\ phase = "restoring" /\ at = "returned" /\ phase' = "next" /\ at' = "idle"
      /\ outcome' = [outcome EXCEPT ![r] =
           IF result = "restored" /\ SourceMatch(r) THEN "success" ELSE "failed"]
      /\ came' = [came EXCEPT ![r] = back]
      /\ todo' = todo \ {r}
      /\ UNCHANGED <<req, checks, search, got, clone, unpacked, result>>
      /\ UNCHANGED <<key, sample, doc, files, tries, reportKey, exit>>
  BY DEF EndOne
<1>2. RestoreTypeOK' /\ RestoreInv'
  <2>1. RestoreTypeOK'
    BY <1>1 DEF RestoreTypeOK
  <2>2. Underway' /\ ChecksAreSigned' /\ ChecksHold' /\ RefsAreBack'
    BY <1>1 DEF RestoreInv, Underway, ChecksAreSigned, ChecksHold, RefsAreBack, Restored, Settled,
         Checked, Compared, IsSigned, RefsHold, MatchedRefs, Unreferenced, Mismatched, Pointers,
         CheckedOut
  <2>3. SearchedSoFar'
    BY <1>1 DEF RestoreInv, SearchedSoFar, stored, Listed, Filed, Records, Loads, EntryAt
  <2>. QED BY <2>1, <2>2, <2>3 DEF RestoreInv
<1>3. DrillTypeOK'
  BY <1>1 DEF DrillTypeOK
<1>4. /\ r \in Repos /\ r \in todo
  BY <1>1, MinIsIn DEF DrillInv, OneAtATime, DrillTypeOK
<1>5. ASSUME result = "restored", SourceMatch(r)
      PROVE  /\ setting.pub => back.bundle = Entry(r).bundle /\ back.archive = Entry(r).archive
             /\ Mismatched(SourceRefs[Entry(r).bundle], back.clone) = {}
  <2>1. Mismatched(SourceRefs[Entry(r).bundle], clone) = {}
    BY <1>5 DEF SourceMatch, RefsHold, Mismatched
  <2>2. setting.pub => checks = Recorded(key, Entry(r)) /\ checks # None
    BY <1>1, <1>5 DEF DrillInv, OneAtATime, Vouched, RestoreInv, ChecksAreSigned, Settled, Restored
  <2>3. setting.pub => got = Entry(r).bundle /\ unpacked = Entry(r).archive
    BY <1>5, <2>2 DEF RestoreInv, ChecksHold, Checked, Restored, Recorded
  <2>. QED BY <2>1, <2>3
<1>6. CameBack'
  <2>1. came = [q \in Repos |-> came[q]]
    BY DEF DrillInv, CameBack
  <2>. HIDE DEF r, back
  <2>2. came' = [q \in Repos |-> came'[q]] /\ came'[r] = back
    BY <1>1, <1>4, <2>1
  <2>3. ASSUME NEW q \in Repos, outcome'[q] = "success"
        PROVE  /\ setting.pub => came'[q].bundle = Entry(q).bundle /\ came'[q].archive = Entry(q).archive
               /\ Mismatched(SourceRefs[Entry(q).bundle], came'[q].clone) = {}
    <3>1. CASE q = r
      BY <1>1, <1>4, <1>5, <2>2, <2>3, <3>1 DEF DrillTypeOK
    <3>2. CASE q # r
      <4>1. outcome'[q] = outcome[q] /\ came'[q] = came[q]
        BY <1>1, <1>4, <2>1, <3>2 DEF DrillTypeOK
      <4>. QED BY <2>3, <4>1 DEF DrillInv, CameBack
    <3>. QED BY <3>1, <3>2
  <2>4. doc' = doc /\ setting' = setting
    BY <1>1
  <2>. QED BY <2>2, <2>3, <2>4, CameBackNext
<1>7. DocIsChosen' /\ OneAtATime' /\ Closing' /\ ReportIsOurs' /\ ReportKeyVerifies'
  BY <1>1 DEF DrillInv, DocIsChosen, OneAtATime, Closing, ReportIsOurs, ReportKeyVerifies,
         Loaded, Unloaded, Chosen, Eligible, VerifiesDrill
<1>. QED BY <1>0, <1>2, <1>3, <1>6, <1>7 DEF DrillInv

\* Writing the report, the drill's document and what came back stay.
LEMMA ReportStep ==
  ASSUME DrillInv, todo = {}, phase \in {"next", "report", "signature"},
         phase' \in {"report", "signature", "done"},
         UNCHANGED <<setting, key, sample, doc, todo, outcome, came>>
  PROVE  DocIsChosen' /\ OneAtATime' /\ CameBack'
<1>1. DocIsChosen'
  BY DEF DrillInv, DocIsChosen, Loaded, Unloaded, Chosen, Eligible
<1>2. OneAtATime'
  BY DEF OneAtATime
<1>3. CameBack'
  <2>1. CameBack
    BY DEF DrillInv
  <2>. QED BY <2>1, CameBackNext DEF CameBack
<1>. QED BY <1>1, <1>2, <1>3

LEMMA DrillOnlyKeeps ==
  ASSUME IInv, DrillOnly, UNCHANGED <<setting, stored, changes, touched, verifyVars>>
  PROVE  IInv'
<1>. USE DEF IInv, TypeOK
<1>0. /\ StoredTypeOK' /\ VerifyTypeOK' /\ VerifyInv' /\ RestoreTypeOK' /\ RestoreInv'
      /\ checks' = checks
  BY StoredKept, VerifyKept, RestoreKept DEF DrillOnly, work
<1>. SUFFICES DrillTypeOK' /\ DrillInv'
  BY <1>0
<1>. USE DEF DocIsChosen, OneAtATime, CameBack, Closing, ReportIsOurs, ReportKeyVerifies,
             Loaded, Unloaded
<1>1. CASE PickManifest
  <2>1. Newest(Pick(1, Now)) \in Names
    BY <1>1, NewestIsIn DEF PickManifest, Pick, Filed
  <2>2. /\ DrillTypeOK' /\ exit' = None /\ ~ reportKey' /\ phase' = "load" /\ key' \in Names
        /\ todo' = {} /\ outcome' = Untold
    BY <1>1, <2>1 DEF PickManifest, DrillTypeOK, DrillInv
  <2>. QED BY <1>1, <2>2, DrillAssumption DEF PickManifest, DrillInv, Untold, Entry
<1>2. CASE LoadManifest
  <2>1. filed[key].doc \in Docs /\ (setting.pub => filed[key].doc \in Signed)
    BY <1>2, SettingType, LoadedIsSigned DEF LoadManifest, DrillInv
  <2>2. todo' = Chosen(doc') /\ doc' \in Docs /\ sample' = sample
    BY <1>2, <2>1 DEF LoadManifest
  <2>3. todo' \subseteq Repos
    BY <2>2, EntryType DEF Chosen, Eligible
  <2>4. /\ phase' = "next" /\ exit' = None /\ ~ reportKey' /\ outcome' = Untold
        /\ key' \in Names
    BY <1>2 DEF LoadManifest, DrillInv
  <2>5. DrillTypeOK'
    BY <1>2, <2>2, <2>3, <2>4 DEF LoadManifest, DrillTypeOK
  <2>6. todo' \subseteq Chosen(doc)'
    BY <2>2 DEF Chosen, Eligible
  <2>. QED BY <1>2, <2>1, <2>2, <2>4, <2>5, <2>6, DrillAssumption DEF LoadManifest, DrillInv, Untold
<1>3. CASE NoManifest
  <2>1. DrillTypeOK' /\ exit' = 1 /\ ~ reportKey' /\ phase' = "done" /\ outcome' = Untold
    BY <1>3 DEF NoManifest, DrillTypeOK, DrillInv
  <2>. QED BY <1>3, <2>1 DEF NoManifest, DrillInv, Untold
<1>4. CASE NothingRecorded
  <2>1. /\ phase = "next" /\ phase' = "next" /\ todo' \subseteq todo
        /\ outcome' = [outcome EXCEPT ![Min(todo)] = "failed"]
        /\ UNCHANGED <<key, sample, doc, came, files, tries, reportKey, exit>>
    BY <1>4 DEF NothingRecorded
  <2>2. /\ DrillTypeOK' /\ \A r \in Repos : outcome'[r] = "success" => outcome[r] = "success"
    BY <2>1 DEF DrillTypeOK
  <2>3. exit = None /\ ~ reportKey
    BY <2>1 DEF DrillInv
  <2>4. DocIsChosen' /\ OneAtATime' /\ CameBack'
    BY <2>1, <2>2, <2>3 DEF DrillInv, Entry, Chosen, Eligible
  <2>. QED BY <2>1, <2>2, <2>3, <2>4, DrillAssumption DEF DrillInv
<1>5. CASE CloseReport
  <2>1. /\ phase = "next" /\ todo = {} /\ exit = None /\ ~ reportKey
        /\ UNCHANGED <<key, sample, doc, todo, outcome, came, files, tries>>
    BY <1>5 DEF CloseReport, DrillInv
  <2>2. \/ setting.sign /\ phase' = "report" /\ exit' = exit /\ reportKey' = reportKey
        \/ ~ setting.sign /\ phase' = "done" /\ reportKey' = FALSE
             /\ exit' = ExitCode(FALSE)
    BY <1>5, SettingType DEF CloseReport, End
  <2>3. exit' \in {0, 3} => AllCameBack'
    BY <2>1, <2>2, DrillAssumption DEF ExitCode, AllCameBack, Chosen, Eligible
  <2>4. DrillTypeOK'
    BY <2>1, <2>2 DEF DrillTypeOK, ExitCode
  <2>5. DocIsChosen' /\ OneAtATime' /\ CameBack'
    BY <2>1, <2>2, ReportStep
  <2>6. /\ todo' = {} /\ ~ reportKey' /\ setting' = setting /\ phase' # "signature"
        /\ phase' = "report" => setting.sign
        /\ exit' # None => phase' = "done"
        /\ exit' = 0 => ~ setting.sign
    <3>1. setting' = setting /\ todo' = {} /\ phase' # "signature"
      BY <2>1, <2>2
    <3>2. ~ reportKey'
      BY <2>1, <2>2
    <3>3. CASE setting.sign
      BY <2>1, <2>2, <3>1, <3>2, <3>3, DrillAssumption
    <3>4. CASE ~ setting.sign
      BY <2>1, <2>2, <3>1, <3>2, <3>4
    <3>. QED BY <3>3, <3>4
  <2>7. Closing' /\ ReportIsOurs'
    BY <2>3, <2>6
  <2>8. ReportKeyVerifies'
    BY <2>6
  <2>. QED BY <2>4, <2>5, <2>7, <2>8 DEF DrillInv
<1>6. ASSUME NEW file \in {"report", "signature"}, PutTold(file)
      PROVE  DrillTypeOK' /\ DrillInv'
  <2>1. /\ phase = file /\ todo = {} /\ exit = None /\ ~ reportKey /\ setting.sign
        /\ files' = [files EXCEPT ![file] = "ours"] /\ tries' = 0
        /\ UNCHANGED <<key, sample, doc, todo, outcome, came>>
    BY <1>6 DEF PutTold, DrillInv
  <2>2. \/ file = "report" /\ phase' = "signature" /\ exit' = exit /\ reportKey' = reportKey
        \/ file = "signature" /\ phase' = "done" /\ reportKey' = TRUE /\ exit' = ExitCode(FALSE)
    BY <1>6 DEF PutTold, End
  <2>3. files'.report = "ours" /\ (file = "signature" => files'.signature = "ours")
    BY <2>1, <2>2 DEF DrillTypeOK, DrillInv
  <2>4. exit' \in {0, 3} => AllCameBack'
    BY <2>1, <2>2, DrillAssumption DEF ExitCode, AllCameBack, Chosen, Eligible
  <2>5. tries' \in 0 .. PutAttempts - 1 /\ exit' \in {None, 0, 1, 3}
    BY <2>1, <2>2 DEF ExitCode, PutAttempts, DrillTypeOK
  <2>6. DrillTypeOK'
    BY <2>1, <2>2, <2>5 DEF DrillTypeOK
  <2>7. DocIsChosen' /\ OneAtATime' /\ CameBack'
    BY <2>1, <2>2, ReportStep
  <2>8. setting' = setting /\ exit \notin {0, 3}
    BY <2>1, DrillAssumption
  <2>9. CASE file = "report"
    <3>1. /\ phase' = "signature" /\ exit' = None /\ ~ reportKey' /\ todo' = {}
          /\ setting'.sign /\ exit' \notin {0, 3}
      BY <2>1, <2>2, <2>8, <2>9
    <3>. QED BY <2>3, <2>6, <2>7, <3>1 DEF DrillInv
  <2>10. CASE file = "signature"
    <3>1. phase' = "done" /\ reportKey' /\ todo' = {}
      BY <2>1, <2>2, <2>10
    <3>2. Closing' /\ ReportIsOurs'
      BY <2>4, <3>1
    <3>3. ReportKeyVerifies'
      BY <2>3, <2>10, <3>1, DrillAssumption DEF VerifiesDrill
    <3>. QED BY <2>6, <2>7, <3>2, <3>3 DEF DrillInv
  <2>. QED BY <2>9, <2>10
<1>7. ASSUME NEW file \in {"report", "signature"}, PutFails(file)
      PROVE  DrillTypeOK' /\ DrillInv'
  <2>1. /\ phase = file /\ todo = {} /\ exit = None /\ ~ reportKey /\ setting.sign
        /\ UNCHANGED <<key, sample, doc, todo, outcome, came>>
    BY <1>7 DEF PutFails, DrillInv
  <2>2. \/ tries + 1 < PutAttempts /\ tries' = tries + 1 /\ UNCHANGED <<phase, reportKey, exit>>
        \/ tries' = tries /\ phase' = "done" /\ reportKey' = FALSE /\ exit' = ExitCode(TRUE)
    BY <1>7 DEF PutFails, End
  <2>3. /\ files' \in [report : {None, "ours", "theirs"}, signature : {None, "ours", "theirs"}]
        /\ files.report = "ours" => files'.report = "ours"
    BY <1>7, DrillAssumption DEF PutFails, DrillTypeOK
  <2>4. exit' \in {0, 3} => AllCameBack' /\ exit' # 0
    BY <2>1, <2>2, DrillAssumption DEF ExitCode, AllCameBack, Chosen, Eligible
  <2>5. tries' \in 0 .. PutAttempts - 1 /\ exit' \in {None, 0, 1, 3}
    BY <2>1, <2>2 DEF ExitCode, PutAttempts, DrillTypeOK
  <2>6. DrillTypeOK'
    BY <2>1, <2>2, <2>3, <2>5 DEF DrillTypeOK
  <2>7. DocIsChosen' /\ OneAtATime' /\ CameBack'
    BY <2>1, <2>2, ReportStep DEF DrillInv
  <2>8. /\ setting'.sign /\ todo' = {} /\ ~ reportKey' /\ exit \notin {0, 3}
        /\ exit' # 0 /\ (exit' # None => phase' = "done")
        /\ phase' # "done" => phase' = phase
    <3>1. setting'.sign /\ todo' = {}
      BY <2>1
    <3>2. ~ reportKey'
      BY <2>1, <2>2
    <3>3. exit \notin {0, 3} /\ exit' # 0
      BY <2>1, <2>2, <2>4, DrillAssumption
    <3>4. (exit' # None => phase' = "done") /\ (phase' # "done" => phase' = phase)
      BY <2>1, <2>2
    <3>. QED BY <3>1, <3>2, <3>3, <3>4
  <2>9. Closing'
    BY <2>4, <2>8
  <2>10. ReportIsOurs'
    BY <2>3, <2>8 DEF DrillInv
  <2>11. ReportKeyVerifies'
    BY <2>8
  <2>. QED BY <2>6, <2>7, <2>9, <2>10, <2>11 DEF DrillInv
<1>. QED BY <1>1, <1>2, <1>3, <1>4, <1>5, <1>6, <1>7 DEF DrillOnly

LEMMA DrillKeeps ==
  ASSUME IInv, DrillStep, UNCHANGED verifyVars
  PROVE  IInv'
  BY DrillOneKeeps, EndOneKeeps, DrillOnlyKeeps DEF DrillStep

-----------------------------------------------------------------------------
(***************************************************************************)
(* A step of a verify.                                                     *)
(***************************************************************************)
LEMMA ItemsAreFinite == IsFiniteSet(Items)
<1>1. 1 \in Int /\ 2 * N \in Int
  BY StoredAssumption
<1>2. IsFiniteSet(1 .. 2 * N)
  BY <1>1, FS_Interval
<1>. QED BY <1>2 DEF Items

LEMMA LimitType == Limit \in Int /\ Limit >= 1
<1>1. IsFiniteSet(Items)
  BY ItemsAreFinite
<1>2. IsFiniteSet(Listing(manifest))
  BY <1>1, FS_Subset DEF Listing
<1>3. Cardinality(Listing(manifest)) \in Nat
  BY <1>2, FS_CardinalityType
<1>. QED BY <1>3, VerifyAssumption DEF Limit, Least

\* One more is read when a slot is taken, and no more when a read ends.
LEMMA ReadsCounted ==
  ASSUME check \in [Items -> {"none", "reading", "ok", "failed"}], NEW i \in Items
  PROVE  /\ InState("reading") \subseteq Items /\ Cardinality(InState("reading")) \in Nat
         /\ check' = [check EXCEPT ![i] = "reading"] =>
              Cardinality(InState("reading")') <= Cardinality(InState("reading")) + 1
         /\ \A seen \in {"ok", "failed"} : check' = [check EXCEPT ![i] = seen] =>
              Cardinality(InState("reading")') <= Cardinality(InState("reading"))
<1>1. IsFiniteSet(Items)
  BY ItemsAreFinite
<1>2. IsFiniteSet(InState("reading")) /\ Cardinality(InState("reading")) \in Nat
  BY <1>1, FS_Subset, FS_CardinalityType DEF InState
<1>3. ASSUME check' = [check EXCEPT ![i] = "reading"]
      PROVE  Cardinality(InState("reading")') <= Cardinality(InState("reading")) + 1
  <2>1. InState("reading")' = InState("reading") \cup {i}
    BY <1>3 DEF InState
  <2>. QED BY <1>2, <2>1, FS_AddElement
<1>4. ASSUME NEW seen \in {"ok", "failed"}, check' = [check EXCEPT ![i] = seen]
      PROVE  Cardinality(InState("reading")') <= Cardinality(InState("reading"))
  <2>1. InState("reading")' \in SUBSET InState("reading")
    BY <1>4 DEF InState
  <2>. QED BY <1>2, <2>1, FS_Subset
<1>5. InState("reading") \subseteq Items
  BY DEF InState
<1>. QED BY <1>2, <1>3, <1>4, <1>5

LEMMA VerifyTypes ==
  ASSUME StoredTypeOK, VerifyTypeOK, VerifyInv, VerifyStep
  PROVE  VerifyTypeOK'
<1>. USE DEF VerifyTypeOK
<1>0. Limit \in Int /\ Limit >= 1 /\ Limit' \in Int /\ Limit' >= 1
  <2>1. Limit' \in Int /\ Limit' >= 1
    <3>1. IsFiniteSet(Items)
      BY ItemsAreFinite
    <3>2. IsFiniteSet(Listing(manifest'))
      BY <3>1, FS_Subset DEF Listing
    <3>3. Cardinality(Listing(manifest')) \in Nat
      BY <3>2, FS_CardinalityType
    <3>. QED BY <3>3, VerifyAssumption DEF Limit, Least, Listing, Sum
  <2>. QED BY <2>1, LimitType
<1>1. CASE ReadManifest
  <2>1. manifest' \in Docs /\ step' = "reading" /\ UNCHANGED <<asked, check, read, verdict>>
    BY <1>1, StoredAssumption DEF ReadManifest, StoredTypeOK, Slots, VerifyInv, ReadAsSigned
  <2>2. InState("reading")' = {}
    BY <1>1, <2>1 DEF ReadManifest, VerifyInv, ReadAsSigned, InState
  <2>3. Cardinality(InState("reading")') <= Limit'
    BY <1>0, <2>2, FS_EmptySet
  <2>. QED BY <2>1, <2>3
<1>2. CASE RefuseManifest \/ Count
  BY <1>2 DEF RefuseManifest, Count
<1>3. ASSUME NEW i \in Items, StartRead(i)
      PROVE  VerifyTypeOK'
  <2>1. /\ check' = [check EXCEPT ![i] = "reading"]
        /\ read' = [read EXCEPT ![i] = Object(manifest, i)]
        /\ Cardinality(InState("reading")) < Limit /\ step = "reading"
        /\ UNCHANGED <<step, asked, manifest, verdict>>
    BY <1>3 DEF StartRead
  <2>2. Object(manifest, i) \in Bundles \cup Archives \cup {None}
    <3>1. manifest \in Docs /\ RepoOf(i) \in DOMAIN manifest.entries
      BY <1>3, StoredAssumption DEF StartRead, VerifyInv, ReadAsSigned, Listing, Sum
    <3>2. [repo |-> RepoOf(i), date |-> manifest.entries[RepoOf(i)].date] \in Places
      BY <3>1, EntryType DEF Places, Entries
    <3>. QED BY <3>2 DEF Object, StoredTypeOK
  <2>3. Limit' = Limit
    BY <2>1 DEF Limit, Listing, Sum
  <2>4. Cardinality(InState("reading")') <= Cardinality(InState("reading")) + 1
    BY <2>1, ReadsCounted
  <2>5. Cardinality(InState("reading")') <= Limit'
    <3>1. Cardinality(InState("reading")) \in Nat /\ Cardinality(InState("reading")') \in Nat
      <4>1. check' \in [Items -> {"none", "reading", "ok", "failed"}]
        BY <2>1
      <4>2. IsFiniteSet(Items)
        BY ItemsAreFinite
      <4>3. IsFiniteSet(InState("reading")')
        BY <4>1, <4>2, FS_Subset DEF InState
      <4>. QED BY <4>3, ReadsCounted, FS_CardinalityType
    <3>. QED BY <1>0, <2>1, <2>3, <2>4, <3>1
  <2>. QED BY <2>1, <2>2, <2>5
<1>4. ASSUME NEW i \in Items, EndRead(i)
      PROVE  VerifyTypeOK'
  <2>1. PICK seen \in {"ok", "failed"} : check' = [check EXCEPT ![i] = seen]
    BY <1>4 DEF EndRead
  <2>2. step = "reading" /\ UNCHANGED <<step, asked, manifest, read, verdict>>
    BY <1>4 DEF EndRead, VerifyInv, ReadAsSigned, InState
  <2>3. Limit' = Limit
    BY <2>2 DEF Limit, Listing, Sum
  <2>4. Cardinality(InState("reading")') <= Cardinality(InState("reading"))
    BY <2>1, ReadsCounted
  <2>5. Cardinality(InState("reading")') \in Nat /\ Cardinality(InState("reading")) \in Nat
    <3>1. IsFiniteSet(Items)
      BY ItemsAreFinite
    <3>2. IsFiniteSet(InState("reading")')
      BY <3>1, FS_Subset DEF InState
    <3>. QED BY <3>2, ReadsCounted, FS_CardinalityType
  <2>. QED BY <1>0, <2>1, <2>2, <2>3, <2>4, <2>5
<1>. QED BY <1>1, <1>2, <1>3, <1>4 DEF VerifyStep

LEMMA VerifyInvStep ==
  ASSUME StoredTypeOK, VerifyTypeOK, VerifyInv, VerifyStep
  PROVE  VerifyInv'
<1>. USE DEF VerifyInv, ReadAsSigned, Passed, InState
<1>1. CASE ReadManifest
  <2>1. manifest' \in Signed
    BY <1>1, StoredAssumption DEF ReadManifest, StoredTypeOK, Slots
  <2>2. \A i \in Items : check'[i] = "none"
    BY <1>1 DEF ReadManifest, VerifyTypeOK
  <2>. QED BY <1>1, <2>1, <2>2 DEF ReadManifest
<1>2. CASE RefuseManifest
  <2>1. \A i \in Items : check'[i] = "none"
    BY <1>2 DEF RefuseManifest, VerifyTypeOK
  <2>. QED BY <1>2, <2>1 DEF RefuseManifest
<1>3. CASE Count
  <2>1. /\ step = "reading" /\ step' = "done" /\ manifest \in Signed
        /\ UNCHANGED <<asked, manifest, check, read>>
        /\ \A i \in Listing(manifest) : check[i] \notin {"none", "reading"}
        /\ verdict' = IF Listing(manifest) = InState("ok") THEN "ok" ELSE "failed"
    BY <1>3 DEF Count
  <2>2. Listing(manifest)' = Listing(manifest)
    BY <2>1 DEF Listing, Sum
  <2>3. \A i \in Items : Sum(manifest, i)' = Sum(manifest, i)
    BY <2>1 DEF Sum
  <2>4. ReadAsSigned'
    BY <2>1, <2>2, <2>3
  <2>5. verdict' = "ok" => Listing(manifest) = InState("ok")
    BY <2>1
  <2>. QED BY <2>1, <2>2, <2>4, <2>5
<1>4. ASSUME NEW i \in Items, StartRead(i) \/ EndRead(i)
      PROVE  VerifyInv'
  <2>1. /\ step = "reading" /\ UNCHANGED <<step, asked, manifest, verdict>>
        /\ i \in Listing(manifest)
        /\ \A j \in Items \ {i} : check'[j] = check[j] /\ read'[j] = read[j]
        /\ check'[i] \in {"reading", "ok", "failed"}
        /\ check'[i] = "ok" => read'[i] = Sum(manifest, i)
    BY <1>4 DEF StartRead, EndRead, VerifyTypeOK
  <2>2. Listing(manifest)' = Listing(manifest)
    BY <2>1 DEF Listing, Sum
  <2>3. \A j \in Items : Sum(manifest, j)' = Sum(manifest, j)
    BY <2>1 DEF Sum
  <2>4. ASSUME NEW j \in Items
        PROVE  /\ check'[j] # "none" => j \in Listing(manifest)'
               /\ check'[j] = "ok" => read'[j] = Sum(manifest, j)'
    BY <2>1, <2>2, <2>3
  <2>5. verdict' # "ok"
    BY <2>1
  <2>. QED BY <2>1, <2>4, <2>5
<1>. QED BY <1>1, <1>2, <1>3, <1>4 DEF VerifyStep

LEMMA VerifyKeeps ==
  ASSUME IInv, VerifyStep, UNCHANGED <<setting, touched, work, drillVars>>
  PROVE  IInv'
<1>1. UNCHANGED <<stored, changes, checks>>
  BY DEF VerifyStep, work
<1>. QED BY <1>1, StoredKept, RestoreKept, DrillKept, VerifyTypes, VerifyInvStep DEF IInv, TypeOK

-----------------------------------------------------------------------------
(***************************************************************************)
(* The destination, and the theorems.                                      *)
(***************************************************************************)

\* Whatever is changed in the destination, a command does not believe it.
LEMMA ChangeKeeps ==
  ASSUME IInv, Change, UNCHANGED <<setting, work, drillVars, verifyVars>>,
         touched' = IF at = "search" \/ result = "unrecorded"
                    THEN touched \cup {n \in Names : filed'[n] # filed[n]} ELSE touched
  PROVE  IInv'
<1>. USE DEF IInv, TypeOK
<1>1. StoredTypeOK'
  <2>1. changes' \in 0 .. MaxChanges
    BY StoredAssumption DEF Change, StoredTypeOK
  <2>2. ASSUME NEW p \in Places, ChangeBundle(p) \/ ChangeArchive(p)
        PROVE  StoredTypeOK'
    <3>1. CASE ChangeBundle(p)
      <4>1. bundle' \in [Places -> Bundles \cup {None}]
        BY <3>1 DEF ChangeBundle, StoredTypeOK
      <4>2. sidecar' \in [Places -> Bundles \cup {None}]
        BY <3>1, <4>1 DEF ChangeBundle, StoredTypeOK
      <4>. QED BY <2>1, <3>1, <4>1, <4>2 DEF ChangeBundle, StoredTypeOK
    <3>2. CASE ChangeArchive(p)
      BY <2>1, <3>2 DEF ChangeArchive, StoredTypeOK
    <3>. QED BY <2>2, <3>1, <3>2
  <2>3. ASSUME NEW n \in Names, Refile(n)
        PROVE  StoredTypeOK'
    <3>1. filed' \in [Names -> Slots \cup {None}]
      BY <2>3 DEF Refile, StoredTypeOK, Slots
    <3>. QED BY <2>1, <2>3, <3>1 DEF Refile, StoredTypeOK
  <2>. QED BY <2>2, <2>3 DEF Change
<1>2. RestoreTypeOK'
  BY DEF RestoreTypeOK, work
<1>3. Underway' /\ ChecksAreSigned' /\ ChecksHold' /\ RefsAreBack'
  BY DEF RestoreInv, Underway, ChecksAreSigned, ChecksHold, RefsAreBack, work, Restored, Settled,
         Checked, Compared, IsSigned, RefsHold, MatchedRefs, Unreferenced, Mismatched, Pointers,
         CheckedOut
<1>4. SearchedSoFar'
  <2>1. UNCHANGED <<at, result, req, search>>
    BY DEF work
  <2>2. CASE at = "search" \/ result = "unrecorded"
    <3>1. touched' = touched \cup {n \in Names : filed'[n] # filed[n]}
      BY <2>2
    <3>. QED BY <2>1, <2>2, <3>1
             DEF RestoreInv, SearchedSoFar, Listed, Filed, Records, Loads, EntryAt
  <2>3. CASE ~ (at = "search" \/ result = "unrecorded")
    BY <2>1, <2>3 DEF SearchedSoFar
  <2>. QED BY <2>2, <2>3
<1>5. checks' = checks
  BY DEF work
<1>. QED BY <1>1, <1>2, <1>3, <1>4, <1>5, DrillKept, VerifyKept DEF RestoreInv

LEMMA OtherDrillKeeps ==
  ASSUME IInv, OtherDrill, UNCHANGED <<stored, changes, touched, setting, work, verifyVars>>
  PROVE  IInv'
<1>. USE DEF IInv, TypeOK
<1>1. /\ files.report = None
      /\ files' = [report |-> "theirs", signature |-> "theirs"]
      /\ UNCHANGED <<phase, key, sample, doc, todo, outcome, came, tries, reportKey, exit>>
  BY DEF OtherDrill
<1>2. phase # "signature" /\ ~ reportKey
  BY <1>1, DrillAssumption DEF DrillInv, ReportIsOurs, ReportKeyVerifies
<1>3. DrillTypeOK'
  BY <1>1 DEF DrillTypeOK
<1>4. checks' = checks
  BY DEF work
<1>5. DocIsChosen' /\ OneAtATime' /\ CameBack' /\ Closing'
  BY <1>1, <1>4
     DEF DrillInv, DocIsChosen, OneAtATime, CameBack, Closing, Loaded, Unloaded, Chosen, Eligible,
         Entry, Vouched, AllCameBack, Min
<1>6. ReportIsOurs' /\ ReportKeyVerifies'
  <2>1. ~ reportKey'
    BY <1>1, <1>2
  <2>2. exit' = exit /\ setting' = setting /\ phase' # "signature"
    BY <1>1, <1>2
  <2>3. exit = 0 /\ setting.sign => reportKey
    BY DEF DrillInv, ReportKeyVerifies
  <2>. QED BY <1>2, <2>1, <2>2, <2>3 DEF ReportIsOurs, ReportKeyVerifies
<1>. QED BY <1>3, <1>5, <1>6, StoredKept, RestoreKept, VerifyKept DEF DrillInv

\* The invariant holds in every state of every run.
THEOREM Invariance == Spec => []IInv
<1>1. ASSUME IInv, [Next]_vars
      PROVE  IInv'
  <2>1. CASE Ask
    BY <1>1, <2>1, AskKeeps
  <2>2. CASE RestoreStep /\ UNCHANGED <<drillVars, verifyVars>>
    BY <1>1, <2>2, RestoreKeeps
  <2>3. CASE DrillStep /\ UNCHANGED verifyVars
    BY <1>1, <2>3, DrillKeeps
  <2>4. CASE VerifyStep /\ UNCHANGED <<setting, touched, work, drillVars>>
    BY <1>1, <2>4, VerifyKeeps
  <2>5. CASE World
    BY <1>1, <2>5, ChangeKeeps, OtherDrillKeeps DEF World
  <2>6. CASE UNCHANGED vars
    BY <1>1, <2>6, StoredKept, RestoreKept, DrillKept, VerifyKept
       DEF vars, IInv, TypeOK, drillVars, work, verifyVars
  <2>. QED BY <1>1, <2>1, <2>2, <2>3, <2>4, <2>5, <2>6 DEF Next, Command
<1>. QED BY <1>1, Initially, PTL DEF Spec

\* Every variable keeps its type, and no more reads of a verify are under way
\* than the semaphore has slots.
THEOREM TypeCorrect == Spec => []TypeOK
  BY Invariance, PTL DEF IInv

\* With a public key, what a restore brings back is a copy that a run made and
\* signed, whatever is stored, replaced or deleted before and while it reads.
THEOREM RestoresWhatWasSigned == Spec => []SignedIsRestored
<1>1. IInv => SignedIsRestored
  <2>. SUFFICES ASSUME IInv, result = "restored", setting.pub
                PROVE  SignedIsRestored
    BY DEF SignedIsRestored
  <2>1. checks # None /\ IsSigned(req.repo, req.date, checks)
    BY DEF IInv, RestoreInv, ChecksAreSigned, Settled, Restored
  <2>2. got = checks.bundle /\ unpacked = checks.archive
    BY <2>1 DEF IInv, RestoreInv, ChecksHold, Checked, Restored
  <2>. QED BY <2>1, <2>2 DEF SignedIsRestored, IsSigned
<1>. QED BY <1>1, Invariance, PTL

\* A restore that is reported done has every ref a clone can have where the
\* bundle declares it, and no pointer in the place of a file.
THEOREM RestoresHistory == Spec => []HistoryIsBack
<1>1. IInv => HistoryIsBack
  <2>. SUFFICES ASSUME IInv, result = "restored"
                PROVE  HistoryIsBack
    BY DEF HistoryIsBack
  <2>1. got \in Bundles /\ RefsHold(Declares[got], clone) /\ Pointers(unpacked) = {}
    BY DEF IInv, RestoreInv, Underway, RefsAreBack, Checked, Compared, Restored
  <2>2. DOMAIN Declares[got] \subseteq
          MatchedRefs(Declares[got], clone) \cup Unreferenced(Declares[got], clone)
    BY <2>1 DEF RefsHold, Mismatched
  <2>3. ASSUME NEW ref \in DOMAIN Declares[got], Clonable(ref)
        PROVE  \E name \in {ref, <<"remotes", ref[2]>>} \cap DOMAIN clone.refs :
                 clone.refs[name] = Declares[got][ref]
    <3>1. ref \in MatchedRefs(Declares[got], clone)
      BY <2>2, <2>3 DEF Unreferenced
    <3>2. ref # HEAD
      <4>1. HEAD[1] = ""
        BY DEF HEAD
      <4>. QED BY <2>3, <4>1 DEF Clonable
    <3>3. PICK name \in Candidates(ref) \cap DOMAIN clone.refs :
            clone.refs[name] = Declares[got][ref]
      BY <3>1, <3>2 DEF MatchedRefs
    <3>4. name \in {ref, <<"remotes", ref[2]>>}
      BY <3>3 DEF Candidates
    <3>. QED BY <3>3, <3>4
  <2>4. ASSUME HEAD \in DOMAIN Declares[got]
        PROVE  /\ clone.head = Declares[got][HEAD]
               /\ Tree[got] \subseteq (IF unpacked = None THEN {} ELSE Holds[unpacked])
    <3>1. HEAD \in MatchedRefs(Declares[got], clone)
      BY <2>2, <2>4 DEF Unreferenced
    <3>2. clone.head = Declares[got][HEAD]
      BY <3>1 DEF MatchedRefs
    <3>3. CheckedOut
      BY <2>1, <2>4, <3>2, RestoreAssumption DEF CheckedOut
    <3>. QED BY <2>1, <3>2, <3>3 DEF Pointers
  <2>. QED BY <2>3, <2>4 DEF HistoryIsBack
<1>. QED BY <1>1, Invariance, PTL

\* A restore that says that no signed manifest records the copy is right about
\* every manifest it could reach and that stayed as it was.
THEOREM UnrecordedIsSo == Spec => []SearchFinds
<1>1. IInv => SearchFinds
  <2>. SUFFICES ASSUME IInv, result = "unrecorded",
                       NEW w \in Listings, NEW n \in Listed(w, req.date) \ touched
                PROVE  ~ Records(n)
    BY DEF SearchFinds, Records
  <2>1. search.listing = 2 * Dirs /\ search.left = {}
    BY DEF IInv, RestoreInv, SearchedSoFar
  <2>2. w < search.listing \/ w = search.listing
    BY <2>1, StoredAssumption DEF Listings
  <2>. QED BY <2>1, <2>2 DEF IInv, RestoreInv, SearchedSoFar
<1>. QED BY <1>1, Invariance, PTL

\* A drill that passes has restored every repository it chose, the artifacts of
\* the manifest it loaded, with every ref the source had.
THEOREM DrillIsAProof == Spec => []DrillProves
<1>1. IInv => DrillProves
  <2>. SUFFICES ASSUME IInv, exit \in {0, 3}
                PROVE  /\ todo = {}
                       /\ \A r \in Chosen(doc) : r \in Repos /\ outcome[r] = "success"
    BY DEF DrillProves, IInv, DrillInv, CameBack
  <2>1. todo = {} /\ AllCameBack /\ doc \in Docs
    BY DEF IInv, DrillInv, Closing, DocIsChosen, Loaded
  <2>. QED BY <2>1, ChosenType DEF AllCameBack
<1>. QED BY <1>1, Invariance, PTL

\* A report's key that a drill returns holds its own report and its signature.
THEOREM ReportIsStored == Spec => []ReportKeyVerifies
  BY Invariance, PTL DEF IInv, DrillInv

\* A verify that passes has read every artifact of a signed manifest, and each
\* was what the manifest says, whatever order the reads ended in.
THEOREM VerifyIsAProof == Spec => []VerifiedWasRead
<1>1. IInv => VerifiedWasRead
  <2>. SUFFICES ASSUME IInv, verdict = "ok"
                PROVE  VerifiedWasRead
    BY DEF VerifiedWasRead
  <2>1. manifest \in Signed /\ Listing(manifest) = InState("ok")
    BY DEF IInv, VerifyInv, Passed
  <2>2. \A i \in InState("ok") : read[i] = Sum(manifest, i)
    BY DEF IInv, VerifyInv, ReadAsSigned, InState
  <2>. QED BY <2>1, <2>2 DEF VerifiedWasRead
<1>. QED BY <1>1, Invariance, PTL
=============================================================================
