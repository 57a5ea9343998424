------------------------------ MODULE Restore -------------------------------
(***************************************************************************)
(* Restore of internal/pipeline: one repository's bundle and LFS archive   *)
(* are brought back from a date folder, held to the signed manifest that   *)
(* records them. The destination may change between any two steps.         *)
(***************************************************************************)
EXTENDS Stored

CONSTANTS
  Declares,  \* Declares[b]: the refs bundle b's header declares, a ref being a
             \* pair of a namespace and a name
  Intact,    \* the bundles git bundle verify passes
  Tree,      \* Tree[b]: the LFS objects the files at b's HEAD point at
  Holds,     \* Holds[a]: the LFS objects an archive has
  Safe,      \* the archives whose entries all stay under lfs/ when extracted
  Settings   \* what a command may be run with. pub: it has the public key. sign:
             \* it has the signing key. settles: a put whose answer was lost is
             \* settled by what the key then holds

HEAD == <<"", "HEAD">>

\* restoreChecks: what a manifest vouches for of a copy.
Vouchers == [manifest : Names, bundle : Bundles, archive : Archives \cup {None}]

ASSUME RestoreAssumption ==
  /\ Settings \subseteq [pub : BOOLEAN, sign : BOOLEAN, settles : BOOLEAN]
  /\ \A b \in Bundles : HEAD \in DOMAIN Declares[b] => Declares[b][HEAD] # None
  /\ None \notin Vouchers

VARIABLES
  setting,   \* what the command is run with; it never changes
  at,        \* where Restore is
  req,       \* the repository and the date asked for, or the manifest
  checks,    \* restoreChecks, or None
  search,    \* where a search for them is, and what it has still to read there
  got,       \* the bundle that was downloaded
  clone,     \* the refs and the HEAD of the clone made of it
  unpacked,  \* the LFS archive that was extracted into it
  result,    \* how Restore ended
  touched    \* the names whose slots were changed while it searches

work == <<at, req, checks, search, got, clone, unpacked, result>>

Place == [repo |-> req.repo, date |-> req.date]
NoSearch == [listing |-> 0, left |-> {}]
Idle == [repo |-> 1, date |-> CHOOSE d \in Dates : TRUE, manifest |-> None]

Asked(request, vouched) ==
  /\ at' = "start"
  /\ req' = request
  /\ checks' = vouched
  /\ search' = NoSearch
  /\ got' = None /\ clone' = None /\ unpacked' = None
  /\ result' = "none"

RestoreInit ==
  /\ setting \in Settings
  /\ at = "idle" /\ req = Idle /\ checks = None /\ search = NoSearch
  /\ got = None /\ clone = None /\ unpacked = None /\ result = "none" /\ touched = {}

Return(how) == at' = "returned" /\ result' = how

Recorded(n, entry) == [manifest |-> n, bundle |-> entry.bundle, archive |-> entry.archive]

-----------------------------------------------------------------------------
(***************************************************************************)
(* Which manifest vouches for the copy.                                    *)
(***************************************************************************)

\* A drill has verified the manifest; without a public key none is read.
GoOn ==
  /\ at = "start"
  /\ IF checks # None THEN setting.pub ELSE req.manifest = None /\ ~ setting.pub
  /\ at' = "bundle"
  /\ UNCHANGED <<req, checks, search, got, clone, unpacked, result>>

\* checksFromManifest: the entry is a copy its run made, and says where it is.
FromManifest ==
  /\ at = "start" /\ checks = None /\ req.manifest # None
  /\ setting.pub /\ Loads(req.manifest, TRUE)
  /\ LET entry == EntryAt(req.manifest, req.repo) IN
       /\ entry # None /\ entry.status = "success" /\ entry.bundle # None
       /\ checks' = Recorded(req.manifest, entry)
       /\ req' = [req EXCEPT !.date = entry.date]
  /\ at' = "bundle"
  /\ UNCHANGED <<search, got, clone, unpacked, result>>

\* findRestoreChecks lists a directory for a day.
ListManifests ==
  /\ \/ at = "start" /\ checks = None /\ req.manifest = None /\ setting.pub
     \/ at = "search" /\ search.left = {} /\ search.listing < 2 * Dirs
  /\ LET w == search.listing + 1 IN
       search' = [listing |-> w, left |-> Listed(w, req.date)]
  /\ at' = "search"
  /\ UNCHANGED <<req, checks, got, clone, unpacked, result>>

\* Faulty: a manifest that cannot be relied on ends the search.
FaultyReadNext ==
  /\ at = "search" /\ search.left # {}
  /\ LET n == Newest(search.left) IN
       IF Loads(n, TRUE) /\ RecordsCopy(EntryAt(n, req.repo), req.date)
       THEN /\ checks' = Recorded(n, EntryAt(n, req.repo))
            /\ at' = "bundle" /\ UNCHANGED search
       ELSE /\ search' = IF Loads(n, TRUE) THEN [search EXCEPT !.left = @ \ {n}]
                         ELSE [listing |-> 2 * Dirs, left |-> {}]
            /\ UNCHANGED <<at, checks>>
  /\ UNCHANGED <<req, got, clone, unpacked, result>>

\* It reads the newest it has not read. The first that records the copy is
\* gone by; one that cannot be relied on is passed over.
ReadNext ==
  /\ at = "search" /\ search.left # {}
  /\ LET n == Newest(search.left) IN
       IF Loads(n, TRUE) /\ RecordsCopy(EntryAt(n, req.repo), req.date)
       THEN /\ checks' = Recorded(n, EntryAt(n, req.repo))
            /\ at' = "bundle" /\ UNCHANGED search
       ELSE /\ search' = [search EXCEPT !.left = @ \ {n}]
            /\ UNCHANGED <<at, checks>>
  /\ UNCHANGED <<req, got, clone, unpacked, result>>

\* Nothing it read records the copy.
Unrecorded ==
  /\ at = "search" /\ search.left = {} /\ search.listing = 2 * Dirs
  /\ Return("unrecorded")
  /\ UNCHANGED <<req, checks, search, got, clone, unpacked>>

-----------------------------------------------------------------------------
(***************************************************************************)
(* The bundle.                                                             *)
(***************************************************************************)
GetBundle ==
  /\ at = "bundle"
  /\ bundle[Place] # None
  /\ got' = bundle[Place]
  /\ at' = "sums"
  /\ UNCHANGED <<req, checks, search, clone, unpacked, result>>

BundleHolds == sidecar[Place] = got /\ (checks # None => checks.bundle = got)

\* The sidecar and the manifest have its sum, and git finds it whole. A key that
\* does not decrypt it is among what Refuse stands for.
CheckBundle ==
  /\ at = "sums"
  /\ BundleHolds
  /\ got \in Intact
  /\ at' = "clone"
  /\ UNCHANGED <<req, checks, search, got, clone, unpacked, result>>

\* Where git clone may have put a declared ref.
Candidates(ref) ==
  IF ref[1] = "heads" THEN {ref, <<"remotes", ref[2]>>} ELSE {ref}
Clonable(ref) == ref[1] \in {"heads", "tags"}

\* compareRefs: HEAD by what the clone's resolves to, a branch wherever a clone
\* puts it, and a ref that git clone makes none of is counted apart.
MatchedRefs(declared, c) ==
  {ref \in DOMAIN declared :
     IF ref = HEAD THEN c.head = declared[ref]
     ELSE \E name \in Candidates(ref) \cap DOMAIN c.refs : c.refs[name] = declared[ref]}
Unreferenced(declared, c) ==
  {ref \in DOMAIN declared \ {HEAD} :
     ~ Clonable(ref) /\ Candidates(ref) \cap DOMAIN c.refs = {}}
Mismatched(declared, c) ==
  DOMAIN declared \ (MatchedRefs(declared, c) \cup Unreferenced(declared, c))

\* What git clone makes of a bundle: its branches as origin's, its tags, and
\* a HEAD. It may leave a ref behind.
Cloned(declared, lost, head) ==
  LET kept == DOMAIN declared \ lost
      tags == {ref \in kept : ref[1] = "tags"}
      heads == {ref \in kept : ref[1] = "heads"}
      names == tags \cup {<<"remotes", ref[2]>> : ref \in heads}
  IN [refs |-> [name \in names |->
                  IF name[1] = "tags" THEN declared[name] ELSE declared[<<"heads", name[2]>>]],
      head |-> head]

\* A bundle without a HEAD has none checked out, or a branch git chooses.
Heads(declared) ==
  IF HEAD \in DOMAIN declared THEN {None, declared[HEAD]}
  ELSE {None} \cup {declared[ref] : ref \in {ref \in DOMAIN declared : ref[1] = "heads"}}

\* Faulty: what is missing is never looked for.
FaultyRefsHold(declared, c) ==
  \A ref \in DOMAIN declared : ref \in DOMAIN c.refs => c.refs[ref] = declared[ref]

\* CompareRestoredRefs: a bundle that declares nothing has proved nothing.
RefsHold(declared, c) == DOMAIN declared # {} /\ Mismatched(declared, c) = {}

\* CloneFromBundle, and what it made is compared with what the bundle declares.
CloneBundle ==
  /\ at = "clone"
  /\ LET declared == Declares[got] IN
     \E lost \in {{}} \cup {{ref} : ref \in DOMAIN declared}, head \in Heads(declared) :
       /\ clone' = Cloned(declared, lost, head)
       /\ RefsHold(declared, clone')
  /\ at' = "list"
  /\ UNCHANGED <<req, checks, search, got, unpacked, result>>

-----------------------------------------------------------------------------
(***************************************************************************)
(* The LFS archive and the tree.                                           *)
(***************************************************************************)
CheckedOut == clone.head # None

\* The files of the tree that are still pointers with an archive extracted.
Pointers(a) ==
  IF CheckedOut THEN Tree[got] \ (IF a = None THEN {} ELSE Holds[a]) ELSE {}

\* The manifest and the listing agree on whether there is an archive.
Agreed(seen) == checks # None => seen = (checks.archive # None)

\* A listing that fails has found none.
ListArchive ==
  /\ at = "list"
  /\ \E seen \in {FALSE, archive[Place] # None} :
       /\ Agreed(seen)
       /\ at' = IF seen THEN "archive" ELSE "tree"
  /\ UNCHANGED <<req, checks, search, got, clone, unpacked, result>>

\* git lfs checkout fills in what the archive has, and the tree is read back.
Unpack ==
  /\ at = "archive"
  /\ archive[Place] \in Safe
  /\ checks # None => checks.archive = archive[Place]
  /\ unpacked' = archive[Place]
  /\ Pointers(archive[Place]) = {}
  /\ Return("restored")
  /\ UNCHANGED <<req, checks, search, got, clone>>

ReadTree ==
  /\ at = "tree"
  /\ Pointers(None) = {}
  /\ Return("restored")
  /\ UNCHANGED <<req, checks, search, got, clone, unpacked>>

\* A check above does not hold, the store or git fails, the encryption key or
\* git-lfs is missing, or the command is stopped.
Refuse ==
  /\ at \notin {"idle", "returned"}
  /\ Return("failed")
  /\ UNCHANGED <<req, checks, search, got, clone, unpacked>>

RestoreStep ==
  /\ \/ GoOn \/ FromManifest \/ ListManifests \/ ReadNext \/ Unrecorded
     \/ GetBundle \/ CheckBundle \/ CloneBundle \/ ListArchive \/ Unpack \/ ReadTree
     \/ Refuse
  /\ touched' = IF at' = "search" \/ result' = "unrecorded" THEN touched ELSE {}
  /\ UNCHANGED <<setting, stored, changes>>

-----------------------------------------------------------------------------
RestoreTypeOK ==
  /\ setting \in Settings
  /\ at \in {"idle", "start", "search", "bundle", "sums", "clone", "list", "archive",
             "tree", "returned"}
  /\ req \in [repo : Repos, date : Dates, manifest : Names \cup {None}]
  /\ checks \in Vouchers \cup {None}
  /\ search \in [listing : 0 .. 2 * Dirs, left : SUBSET Names]
  /\ got \in Bundles \cup {None}
  /\ unpacked \in Archives \cup {None}
  /\ result \in {"none", "restored", "unrecorded", "failed"}
  /\ touched \subseteq Names

\* With a public key, whatever the destination does while it is read, what is
\* restored is a copy that a run made and signed: its bundle, and its archive
\* when and only when that run recorded one.
SignedIsRestored ==
  result = "restored" /\ setting.pub =>
    \E doc \in Signed : req.repo \in DOMAIN doc.entries /\
      LET entry == doc.entries[req.repo] IN
        /\ entry.status \in Made /\ entry.date = req.date
        /\ entry.bundle = got
        /\ entry.archive = unpacked

\* A restore that is reported done has every ref a clone can have at the commit
\* the bundle declares, and no pointer in the place of a file, with or without
\* a key to verify it by.
HistoryIsBack ==
  result = "restored" =>
    /\ \A ref \in DOMAIN Declares[got] : Clonable(ref) =>
         \E name \in {ref, <<"remotes", ref[2]>>} \cap DOMAIN clone.refs :
           clone.refs[name] = Declares[got][ref]
    /\ HEAD \in DOMAIN Declares[got] =>
         /\ clone.head = Declares[got][HEAD]
         /\ Tree[got] \subseteq (IF unpacked = None THEN {} ELSE Holds[unpacked])

\* A restore by date that says no signed manifest records the copy is right: no
\* manifest that the search reaches, and that stayed as it was, records it,
\* whatever lies beside it that cannot be relied on.
SearchFinds ==
  result = "unrecorded" =>
    \A w \in Listings : \A n \in Listed(w, req.date) \ touched :
      ~ (Loads(n, TRUE) /\ RecordsCopy(EntryAt(n, req.repo), req.date))
=============================================================================
