------------------------------- MODULE Stored -------------------------------
(***************************************************************************)
(* What restore, drill and verify find in a destination: the dated         *)
(* artifacts of some repositories and the manifests filed about them, with *)
(* the rules by which a manifest is found and believed (internal/pipeline, *)
(* manifests.go and recorded.go). Nothing here is locked: what a key holds *)
(* may change at any time, up to MaxChanges times.                         *)
(*                                                                         *)
(* An artifact stands for its own SHA-256, and one that is encrypted for   *)
(* its ciphertext.                                                         *)
(***************************************************************************)
EXTENDS Integers, Sequences, FiniteSets

CONSTANTS
  N,           \* the repositories are 1 .. N, in the order of their slugs
  Dates,       \* the dates of their copies
  DayLength,   \* seconds in a day
  Dirs,        \* the directories manifests are searched in: 1 is a repository's
               \* namespace, the last is the host
  Names,       \* where a manifest may be filed: a directory and a time
  Bundles,     \* contents a bundle may have
  Archives,    \* contents an LFS archive may have
  Docs,        \* documents that may be filed as manifests
  Signed,      \* those among them that the signing key has signed
  Histories,   \* what runs may have left in the destination
  MaxChanges,  \* how often what is stored is changed
  None         \* nothing

Repos == 1 .. N
Places == [repo : Repos, date : Dates]

\* An entry of a manifest: "empty" is a skip for a repository without refs, whose metadata its
\* run stored. One that names no bundle has None for it.
Entries == [status : {"success", "empty", "skipped", "failed"}, date : Dates,
            bundle : Bundles \cup {None}, archive : Archives \cup {None}]

\* A slot holds a document and the document its signature was made over.
Slots == [doc : Docs, signed : Signed \cup {None}]

ASSUME StoredAssumption ==
  /\ N \in Nat \ {0} /\ Dirs \in Nat \ {0} /\ DayLength \in Nat \ {0} /\ MaxChanges \in Nat
  /\ Dates \subseteq Nat /\ Dates # {}
  /\ Names \subseteq [dir : 1 .. Dirs, at : Nat]
  /\ \E last \in Names : \A n \in Names : n.at <= last.at
  /\ Signed \subseteq Docs
  /\ \A doc \in Docs :
       /\ doc.schema \in {"manifest", "drill", "none"} /\ doc.large \in BOOLEAN
       /\ doc.finished \in Nat
       /\ DOMAIN doc.entries \subseteq Repos
       /\ \A r \in DOMAIN doc.entries : doc.entries[r] \in Entries
  /\ \A h \in Histories :
       /\ h.bundle \in [Places -> Bundles \cup {None}]
       /\ h.archive \in [Places -> Archives \cup {None}]
       /\ h.filed \in [Names -> Slots \cup {None}]
  /\ None \notin Bundles \cup Archives /\ None \notin Docs /\ None \notin Slots

VARIABLES
  bundle,    \* bundle[p]: the bundle in a date folder
  sidecar,   \* sidecar[p]: the bundle whose sum its sidecar has
  archive,   \* archive[p]: the LFS archive beside it
  filed,     \* filed[n]: the manifest and its signature filed at n
  changes    \* how often something was changed

stored == <<bundle, sidecar, archive, filed>>

StoredInit ==
  /\ \E h \in Histories :
       /\ bundle = h.bundle /\ archive = h.archive /\ sidecar = h.bundle
       /\ filed = h.filed
  /\ changes = 0

-----------------------------------------------------------------------------
(***************************************************************************)
(* Manifests.                                                              *)
(***************************************************************************)

\* checkManifestHead: it is a manifest, named for its own finish.
HeadHolds(n, doc) == doc.schema = "manifest" /\ doc.finished = n.at

\* loadManifest: what is read is at most the cap, and with a public key the
\* signature holds over exactly that.
Loads(n, pub) ==
  /\ filed[n] # None
  /\ ~ filed[n].doc.large
  /\ pub => filed[n].signed = filed[n].doc
  /\ HeadHolds(n, filed[n].doc)

EntryAt(n, r) ==
  IF r \in DOMAIN filed[n].doc.entries THEN filed[n].doc.entries[r] ELSE None

\* Faulty: any entry that names the bundle.
FaultyRecordsCopy(entry, date) ==
  entry # None /\ entry.bundle # None /\ entry.date = date

\* The statuses of an entry whose run made what it names.
Made == {"success", "empty"}

\* recordsCopy: the entry's run finished the copy whose bundle it names.
RecordsCopy(entry, date) ==
  entry # None /\ entry.status \in Made /\ entry.bundle # None /\ entry.date = date

\* The listings a search goes through: each directory from the namespace up to
\* the host, for the date and then for the day after.
Listings == 1 .. 2 * Dirs
DirOf(w) == (w + 1) \div 2
DayOf(w, date) == date + ((w + 1) % 2)
Filed(dir) == {n \in Names : n.dir = dir /\ filed[n] # None}
Listed(w, date) == {n \in Filed(DirOf(w)) : n.at \div DayLength = DayOf(w, date)}

Newest(names) == CHOOSE n \in names : \A m \in names : m.at <= n.at

\* newestManifest: the newest in a directory that is not in the future.
Pick(dir, now) == {n \in Filed(dir) : n.at <= now}

-----------------------------------------------------------------------------
(***************************************************************************)
(* Changes: another run's manifest or artifact, one that is overwritten,   *)
(* damaged or deleted, a document copied under another name.               *)
(***************************************************************************)
ChangeBundle(p) ==
  /\ bundle' \in {[bundle EXCEPT ![p] = b] : b \in Bundles \cup {None}}
  /\ sidecar' \in {sidecar, [sidecar EXCEPT ![p] = bundle'[p]]}
  /\ UNCHANGED <<archive, filed>>

ChangeArchive(p) ==
  /\ archive' \in {[archive EXCEPT ![p] = a] : a \in Archives \cup {None}}
  /\ UNCHANGED <<bundle, sidecar, filed>>

\* Nothing but the signing key makes a signature, and one may be copied.
Refile(n) ==
  /\ \/ filed' = [filed EXCEPT ![n] = None]
     \/ \E doc \in Docs, by \in {None} \cup {d \in Signed : \E m \in Names :
                                              filed[m] # None /\ filed[m].signed = d} :
          filed' = [filed EXCEPT ![n] = [doc |-> doc, signed |-> by]]
  /\ UNCHANGED <<bundle, sidecar, archive>>

Change ==
  /\ changes < MaxChanges
  /\ changes' = changes + 1
  /\ \/ \E p \in Places : ChangeBundle(p) \/ ChangeArchive(p)
     \/ \E n \in Names : Refile(n)
  /\ stored' # stored

StoredTypeOK ==
  /\ bundle \in [Places -> Bundles \cup {None}]
  /\ sidecar \in [Places -> Bundles \cup {None}]
  /\ archive \in [Places -> Archives \cup {None}]
  /\ filed \in [Names -> Slots \cup {None}]
  /\ changes \in 0 .. MaxChanges
=============================================================================
