-------------------------------- MODULE Copy --------------------------------
(***************************************************************************)
(* backupRepo of internal/pipeline: one repository is cloned from a source *)
(* that goes on being pushed to, what came is held to what the source      *)
(* advertised and the bundle to what came, and only then is any of it      *)
(* uploaded, the largest first and the checksum sidecar last.              *)
(***************************************************************************)
EXTENDS CloudPut, Sequences

CONSTANTS
  Names,      \* the names of refs
  Clonable,   \* those that are branches and tags
  Commits,    \* what a ref may point at
  Objects,    \* Objects[c]: the LFS objects commit c points at
  Remotes,    \* what the source may have when it is listed
  MaxPushes   \* how often the source is pushed to while the copy is made

KindsOf == {"lfs", "bundle", "meta", "sha256"}
Refs == [Names -> Commits \cup {None}]

AllObjects == UNION {Objects[c] : c \in Commits}

ASSUME CopyAssumption ==
  /\ Kinds = KindsOf
  /\ Clonable \subseteq Names
  /\ Remotes \subseteq Refs
  /\ MaxPushes \in Nat
  /\ "log" \notin AllObjects
  /\ None \notin Commits /\ None \notin Refs /\ \A s \in SUBSET AllObjects : s # None

VARIABLES
  remote,      \* the source's refs
  pushes,      \* how often they were changed
  advertised,  \* what it listed before the clone, or None
  gone,        \* the refs it lacked at some time since then
  seen,        \* seen[n]: what ref n has pointed at since then
  lfs,         \* LFS is on and git-lfs is installed
  step,        \* where backupRepo is
  tries,       \* clones that failed
  metaFails,   \* the metadata cannot be had, for good
  mirror,      \* the refs the clone received
  fetched,     \* the LFS objects in the mirror
  log,         \* a failed fetch has left its log among them
  archive,     \* what the LFS archive holds, or None
  declared,    \* the refs the bundle declares, or None
  size,        \* size[k]: the staged size of artifact k
  staged,      \* the artifacts still to be uploaded, in order
  listed,      \* the artifacts the entry lists
  status       \* the entry's status

sourceVars == <<remote, pushes, advertised, gone, seen, lfs>>
copyVars == <<step, tries, metaFails, mirror, fetched, log, archive, declared, size, staged,
              listed, status>>
vars == <<cloudVars, sourceVars, copyVars>>

CloneAttempts == 3
NoRefs == [n \in Names |-> None]
Held(refs) == {n \in Names : refs[n] # None}
Pointed(refs) == UNION {Objects[refs[n]] : n \in Held(refs)}

Init ==
  /\ CloudInit
  /\ remote \in Remotes /\ pushes = 0
  /\ advertised \in {remote, None}
  /\ gone = Names \ Held(remote)
  /\ seen = [n \in Names |-> {remote[n]}]
  /\ lfs \in BOOLEAN
  /\ step = "metadata" /\ tries = 0 /\ metaFails = FALSE
  /\ mirror = NoRefs /\ fetched = {} /\ log = FALSE /\ archive = None /\ declared = None
  /\ size = [k \in Kinds |-> 0] /\ staged = <<>> /\ listed = {}
  /\ status = "none"

-----------------------------------------------------------------------------
(***************************************************************************)
(* The source.                                                             *)
(***************************************************************************)
Push ==
  /\ pushes < MaxPushes /\ step \in {"metadata", "clone", "compare"}
  /\ \E n \in Names, c \in Commits \cup {None} :
       /\ c # remote[n]
       /\ remote' = [remote EXCEPT ![n] = c]
       /\ seen' = [seen EXCEPT ![n] = @ \cup {c}]
  /\ gone' = gone \cup (Names \ Held(remote'))
  /\ pushes' = pushes + 1
  /\ UNCHANGED <<cloudVars, advertised, lfs, copyVars>>

-----------------------------------------------------------------------------
(***************************************************************************)
(* Everything that reads the source or can fail here.                      *)
(***************************************************************************)
FetchMetadata ==
  /\ step = "metadata"
  /\ metaFails' \in BOOLEAN
  /\ step' = "clone"
  /\ UNCHANGED <<tries, mirror, fetched, log, archive, declared, size, staged, listed, status>>

\* git clone --mirror, which has received less than the source has before now.
CloneMirror ==
  /\ step = "clone"
  /\ \E lost \in {{}} \cup {{n} : n \in Names} :
       mirror' = [n \in Names |-> IF n \in lost THEN None ELSE remote[n]]
  /\ step' = "compare" /\ tries' = 0
  /\ UNCHANGED <<metaFails, fetched, log, archive, declared, size, staged, listed, status>>

CloneFails ==
  /\ step = "clone" /\ tries + 1 < CloneAttempts
  /\ tries' = tries + 1
  /\ UNCHANGED <<step, metaFails, mirror, fetched, log, archive, declared, size, staged, listed,
                 status>>

\* Faulty: what the clone lacks was deleted while it ran.
FaultyCloneHolds(now) == TRUE

\* cloneHolds: nothing the clone lacks is still advertised when the source is
\* asked again.
Lacking == IF advertised = None THEN {}
           ELSE {n \in Clonable : advertised[n] # None /\ mirror[n] = None}
CloneHolds(now) == \A n \in Lacking : now[n] = None

\* An empty repository has nothing to fetch and nothing to bundle.
HoldClone ==
  /\ step = "compare"
  /\ CloneHolds(remote)
  /\ IF Held(mirror) = {}
     THEN step' = "stage" /\ status' = "skipped"
     ELSE step' = (IF lfs THEN "fetch" ELSE "bundle") /\ UNCHANGED status
  /\ UNCHANGED <<tries, metaFails, mirror, fetched, log, archive, declared, size, staged, listed>>

\* fetchLFS asks for the credential anew and starts git lfs fetch.
StartFetch ==
  /\ step = "fetch"
  /\ step' = "fetching"
  /\ UNCHANGED <<tries, metaFails, mirror, fetched, log, archive, declared, size, staged, listed,
                 status>>

FetchAll ==
  /\ step = "fetching"
  /\ fetched' = Pointed(mirror)
  /\ step' = "archive"
  /\ UNCHANGED <<tries, metaFails, mirror, log, archive, declared, size, staged, listed, status>>

\* Faulty: a fetch that failed is run again.
FaultyFetchPart ==
  /\ step = "fetching"
  /\ fetched' \in {f \in SUBSET Pointed(mirror) : fetched \subseteq f}
  /\ log' \in {log, TRUE}
  /\ step' = "fetch"
  /\ UNCHANGED <<tries, metaFails, mirror, archive, declared, size, staged, listed, status>>

\* An attempt that failed is followed by another when it has added an object.
FetchPart ==
  /\ step = "fetching"
  /\ fetched' \in {f \in SUBSET Pointed(mirror) : fetched \subseteq f /\ f # fetched}
  /\ log' \in {log, TRUE}
  /\ step' = "fetch"
  /\ UNCHANGED <<tries, metaFails, mirror, archive, declared, size, staged, listed, status>>

\* keepOnlyObjects: what a fetch that failed left beside the objects goes.
LfsDir == fetched \cup (IF log THEN {"log"} ELSE {})
KeepOnlyObjects(dir) == dir \ {"log"}

\* The archive is made of what is left, and none is made of nothing.
Archive ==
  /\ step = "archive"
  /\ log' = FALSE
  /\ archive' = IF KeepOnlyObjects(LfsDir) = {} THEN None ELSE KeepOnlyObjects(LfsDir)
  /\ step' = "bundle"
  /\ UNCHANGED <<tries, metaFails, mirror, fetched, declared, size, staged, listed, status>>

\* sameRefs: the bundle declares what the clone holds and nothing else.
BundleHolds(d) == d = mirror

\* BundleAll, and git has not always written what it was asked to.
Bundle ==
  /\ step = "bundle"
  /\ \E left \in {{}} \cup {{n} : n \in Names} :
       declared' = [n \in Names |-> IF n \in left THEN None ELSE mirror[n]]
  /\ BundleHolds(declared')
  /\ step' = "stage"
  /\ UNCHANGED <<tries, metaFails, mirror, fetched, log, archive, size, staged, listed, status>>

Files == (IF archive # None THEN {"lfs"} ELSE {}) \cup (IF declared # None THEN {"bundle"} ELSE {})
Staging == Files \cup (IF metaFails THEN {} ELSE {"meta"})

\* The uploads, the largest first, and in the order they were made in when they
\* are of one size.
Made == [k \in {"lfs", "bundle", "meta"} |-> CASE k = "lfs" -> 1 [] k = "bundle" -> 2 [] k = "meta" -> 3]
Before(k, l, sizes) == sizes[k] > sizes[l] \/ (sizes[k] = sizes[l] /\ Made[k] < Made[l])
Orders(sizes) ==
  {s \in [1 .. Cardinality(Staging) -> Staging] :
     /\ \A k \in Staging : \E i \in DOMAIN s : s[i] = k
     /\ \A i, j \in DOMAIN s : i < j => Before(s[i], s[j], sizes)}

\* stageFile and stageBytes: the artifacts are encrypted and checksummed, and
\* the sidecar of a bundle is written when its checksum is known.
Stage ==
  /\ step = "stage"
  /\ \E sizes \in [Files -> Sizes] :
       size' = [k \in Kinds |-> IF k \in Files THEN sizes[k]
                                ELSE IF k \in Staging \/ declared # None THEN 1 ELSE 0]
  /\ staged' \in {s \o (IF declared # None THEN <<"sha256">> ELSE <<>>) : s \in Orders(size')}
  /\ step' = "upload"
  /\ UNCHANGED <<tries, metaFails, mirror, fetched, log, archive, declared, listed, status>>

\* A step above fails for good: nothing has been written.
FailBefore ==
  /\ step \notin {"upload", "done"}
  /\ step' = "done" /\ status' = "failed"
  /\ UNCHANGED <<tries, metaFails, mirror, fetched, log, archive, declared, size, staged, listed>>

Prepare ==
  \/ FetchMetadata \/ CloneMirror \/ CloneFails \/ HoldClone \/ StartFetch \/ FetchAll \/ FetchPart
  \/ Archive \/ Bundle \/ Stage \/ FailBefore

-----------------------------------------------------------------------------
(***************************************************************************)
(* The uploads.                                                            *)
(***************************************************************************)
\* putStaged. A file is read from the disk again, and may be shorter or longer
\* by now than it was when it was checksummed.
Holds(k) == IF k \in Files THEN {size[k] - 1, size[k], size[k] + 1} ELSE {size[k]}

Upload ==
  /\ step = "upload" /\ staged # <<>> /\ put.at \in {"none", "stored"}
  /\ put.at = "stored" => put.kind # Head(staged)
  /\ \E holds \in Holds(Head(staged)) : OpenPut(Head(staged), size[Head(staged)], holds)
  /\ UNCHANGED copyVars

\* progress.wrote
Uploaded ==
  /\ step = "upload" /\ staged # <<>> /\ put.at = "stored" /\ put.kind = Head(staged)
  /\ listed' = listed \cup {put.kind}
  /\ staged' = Tail(staged)
  /\ UNCHANGED <<cloudVars, step, tries, metaFails, mirror, fetched, log, archive, declared,
                 size, status>>

\* The entry that fails lists what was written before.
UploadFails ==
  /\ step = "upload" /\ put.at = "failed"
  /\ step' = "done" /\ status' = "failed"
  /\ UNCHANGED <<cloudVars, tries, metaFails, mirror, fetched, log, archive, declared, size,
                 staged, listed>>

\* The code is stored, and the repository fails on metadata it could not have.
Finish ==
  /\ step = "upload" /\ staged = <<>>
  /\ step' = "done"
  /\ status' = IF metaFails THEN "failed" ELSE IF status = "skipped" THEN status ELSE "success"
  /\ UNCHANGED <<cloudVars, tries, metaFails, mirror, fetched, log, archive, declared, size,
                 staged, listed>>

Work ==
  /\ \/ Prepare /\ UNCHANGED cloudVars
     \/ Upload \/ Uploaded \/ UploadFails \/ Finish
     \/ PutStep /\ UNCHANGED copyVars
  /\ UNCHANGED sourceVars

Next == Work \/ Push \/ (OtherPut /\ UNCHANGED <<sourceVars, copyVars>>)

\* The goroutine of a copy is never held up: each git command and each request
\* ends by itself, by its time limit or by the stop of the run.
Spec == Init /\ [][Next]_vars /\ WF_vars(Work)

-----------------------------------------------------------------------------
TypeOK ==
  /\ CloudTypeOK
  /\ remote \in Refs /\ pushes \in 0 .. MaxPushes /\ advertised \in Refs \cup {None}
  /\ gone \subseteq Names /\ seen \in [Names -> SUBSET (Commits \cup {None})]
  /\ lfs \in BOOLEAN /\ metaFails \in BOOLEAN /\ log \in BOOLEAN
  /\ step \in {"metadata", "clone", "compare", "fetch", "fetching", "archive", "bundle", "stage",
               "upload", "done"}
  /\ tries \in 0 .. CloneAttempts - 1
  /\ mirror \in Refs /\ declared \in Refs \cup {None}
  /\ fetched \subseteq Pointed(mirror) /\ (archive = None \/ archive \subseteq AllObjects)
  /\ size \in [Kinds -> Sizes \cup {0, 1}] /\ staged \in Seq(Kinds)
  /\ listed \subseteq Kinds
  /\ status \in {"none", "success", "skipped", "failed"}

\* A copy that succeeds is the source's: its bundle has every branch and tag
\* that was advertised before the clone, save one the source did not have for
\* some time since, each at a commit it had there, and its entry's refs are the
\* bundle's, however the source was pushed to and whatever git left out.
CopyIsTheSources ==
  status = "success" =>
    /\ declared = mirror
    /\ \A n \in Names : declared[n] # None => declared[n] \in seen[n]
    /\ advertised # None =>
         \A n \in Clonable \ gone : advertised[n] # None => declared[n] # None

\* A sidecar stands only beside a whole copy: its bundle, with LFS on every LFS
\* object its refs point at and none of git-lfs's logs, and the metadata when
\* there was any, each written by this copy, at the size it was checksummed at.
\* Nothing of another size is ever left at a key, whatever is read from the
\* disk, and no entry lists what the copy did not store.
CopyIsWhole ==
  /\ Ours("sha256") =>
       /\ Ours("bundle")
       /\ lfs /\ Pointed(declared) # {} => Ours("lfs") /\ archive = Pointed(declared)
       /\ ~ metaFails => Ours("meta")
  /\ \A k \in Kinds : Ours(k) => object[k].length = size[k]
  /\ \A k \in listed : Ours(k)

\* A copy ends: the clone's attempts are few, and a fetch of LFS objects is run
\* again only as often as there are objects.
CopyEnds == <>(step = "done")

\* The key of artifact k as its readers see it, and what backupRepo makes of its
\* own put there: "us" is this copy's, of the size it was checksummed at. What
\* another run is told is not asked here.
KeyHolds(k) ==
  IF object[k] = None THEN None
  ELSE [bytes |-> IF Ours(k) /\ object[k].length # size[k] THEN "neither" ELSE object[k].by,
        until |-> 0]

Told(k) == IF k \in listed THEN "stored"
           ELSE IF put.kind = k /\ put.at = "failed" THEN "failed" ELSE "pending"

Promise(k) == INSTANCE CreateOnly WITH
  Writers <- {"us", "others"},
  Bytes <- [w \in {"us", "others"} |-> w],
  Until <- [w \in {"us", "others"} |-> 0],
  object <- KeyHolds(k),
  result <- [w \in {"us", "others"} |->
               [outcome |-> IF w = "us" THEN Told(k) ELSE "pending", until |-> 0]]

\* Every key is what Destination promises of it, though GCS and Azure settle no
\* lost answer: the first write stays, and the entry lists an artifact only when
\* the key holds this copy's.
KeysAreCreateOnly ==
  /\ \A k \in Kinds : Promise(k)!Init
  /\ [][\A k \in Kinds : UNCHANGED Promise(k)!vars \/ Promise(k)!Next]_vars
=============================================================================
