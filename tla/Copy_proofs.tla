----------------------------- MODULE Copy_proofs -----------------------------
(***************************************************************************)
(* Proofs about Copy: for any refs, commits and LFS objects, any sizes and *)
(* any number of pushes, a copy that succeeds is the source's, and a       *)
(* checksum sidecar vouches for a copy that is whole.                      *)
(***************************************************************************)
EXTENDS Copy, FiniteSetTheorems, SequenceTheorems, TLAPS

-----------------------------------------------------------------------------
(***************************************************************************)
(* The inductive invariant.                                                *)
(***************************************************************************)
BeforeHold == {"metadata", "clone", "compare"}
OfLfs == {"fetch", "fetching", "archive"}

\* TypeOK but for the blocks, and that a file that is staged is not empty.
Shapes ==
  /\ store \in {"gcs", "azure"}
  /\ object \in [Kinds -> [by : {"us", "others"}, length : Nat] \cup {None}]
  /\ put \in PutType
  /\ remote \in Refs /\ pushes \in 0 .. MaxPushes /\ advertised \in Refs \cup {None}
  /\ gone \subseteq Names /\ seen \in [Names -> SUBSET (Commits \cup {None})]
  /\ lfs \in BOOLEAN /\ metaFails \in BOOLEAN /\ log \in BOOLEAN
  /\ step \in BeforeHold \cup OfLfs \cup {"bundle", "stage", "upload", "done"}
  /\ tries \in 0 .. CloneAttempts - 1
  /\ mirror \in Refs /\ declared \in Refs \cup {None}
  /\ fetched \subseteq Pointed(mirror) /\ (archive = None \/ archive \subseteq AllObjects)
  /\ size \in [Kinds -> Sizes \cup {0, 1}] /\ staged \in Seq(Kinds)
  /\ step = "upload" => \A k \in Files : size[k] \in Sizes
  /\ listed \subseteq Kinds
  /\ status \in {"none", "success", "skipped", "failed"}

\* What the source is seen to have had since it was listed.
SourceSeen ==
  /\ \A n \in Names : remote[n] \in seen[n]
  /\ Names \ Held(remote) \subseteq gone
  /\ \A n \in Names : mirror[n] # None => mirror[n] \in seen[n]

\* Once the clone is held to the listing, it lacks nothing the source never did.
Complete ==
  advertised # None => \A n \in Clonable \ gone : advertised[n] # None => mirror[n] # None

CloneIsHeld == step \in OfLfs \cup {"bundle"} \/ declared # None => Complete

\* The bundle is the clone's, and a copy that goes on without one is of an empty
\* repository.
BundleIsClone ==
  /\ declared # None => declared = mirror
  /\ step \in BeforeHold \cup OfLfs \cup {"bundle"} => declared = None /\ status = "none"
  /\ step \in {"stage", "upload"} => status = IF declared = None THEN "skipped" ELSE "none"
  /\ status = "success" => declared # None

\* What is fetched before the archive is made, and what is in it.
ArchiveIsWhole ==
  /\ step \in BeforeHold => fetched = {}
  /\ step = "archive" => fetched = Pointed(mirror)
  /\ lfs /\ (step = "bundle" \/ declared # None) /\ Pointed(mirror) # {} =>
       archive = Pointed(mirror)

\* Nothing is at a key before the first upload.
NothingUploaded ==
  step \notin {"upload", "done"} => put = NoPut /\ staged = <<>> /\ listed = {} /\ \A k \in Kinds : ~ Ours(k)

\* The PutImmutable under way, of the artifact it is told, at its size.
PutIsHead ==
  /\ put.at # "none" => put.kind \in Kinds /\ put.size = size[put.kind]
  /\ put.at = "sending" => put.sent <= Passes
  /\ put.at = "committing" => put.sent = put.size
  /\ put.at = "stored" => Ours(put.kind)

ObjectsHold ==
  /\ \A k \in Kinds : Ours(k) => object[k].length = size[k]
  /\ \A k \in listed : Ours(k)

\* The sidecar is the last to be staged and the last to be sent.
SidecarLast ==
  /\ \A i \in DOMAIN staged : staged[i] = "sha256" => i = Len(staged) /\ declared # None
  /\ step = "upload" => \A k \in Staging : k \in listed \/ \E i \in DOMAIN staged : staged[i] = k
  /\ Ours("sha256") \/ (put.at # "none" /\ put.kind = "sha256") =>
       declared # None /\ Staging \subseteq listed

IInv ==
  /\ Shapes
  /\ SourceSeen
  /\ CloneIsHeld
  /\ BundleIsClone
  /\ ArchiveIsWhole
  /\ NothingUploaded
  /\ PutIsHead
  /\ ObjectsHold
  /\ SidecarLast

-----------------------------------------------------------------------------
(***************************************************************************)
(* What the operators give.                                                *)
(***************************************************************************)
LEMMA PointedIsObjects ==
  ASSUME NEW refs \in Refs
  PROVE  Pointed(refs) \subseteq AllObjects
<1>1. \A n \in Held(refs) : refs[n] \in Commits
  BY DEF Held, Refs
<1>. QED BY <1>1 DEF Pointed, AllObjects

LEMMA StagingKinds == Staging \subseteq {"lfs", "bundle", "meta"} /\ Files \subseteq Staging
BY DEF Staging, Files

LEMMA KindsAre == Kinds = {"lfs", "bundle", "meta", "sha256"} /\ None \notin Kinds
BY CopyAssumption, CloudAssumption DEF KindsOf

LEMMA NoneIs == None \notin Commits /\ None \notin Refs /\ None \notin Kinds
                 /\ None \notin [by : {"us", "others"}, length : Nat]
BY CopyAssumption, CloudAssumption

LEMMA SizesAre == Sizes \subseteq Nat \ {0} /\ Sizes \cup {0, 1} \subseteq Nat
<1>1. Sizes \subseteq Nat \ {0}
  BY CloudAssumption
<1>2. \A s \in Sizes \cup {0, 1} : s \in Nat
  <2>. TAKE s \in Sizes \cup {0, 1}
  <2>1. CASE s \in Sizes
    BY <1>1, <2>1
  <2>2. CASE s \in {0, 1}
    BY <2>2
  <2>. QED BY <2>1, <2>2
<1>. QED BY <1>1, <1>2

\* The order of the uploads is one of every artifact that is staged.
LEMMA OrdersAreSequences ==
  ASSUME NEW sizes, NEW s \in Orders(sizes)
  PROVE  /\ s \in Seq(Staging)
         /\ \A k \in Staging : \E i \in DOMAIN s : s[i] = k
<1>1. Cardinality(Staging) \in Nat
  <2>1. IsFiniteSet(Staging)
    <3>1. IsFiniteSet({"lfs", "bundle", "meta"})
      <4>1. IsFiniteSet({} \cup {"lfs"})
        BY FS_EmptySet, FS_AddElement
      <4>2. IsFiniteSet(({} \cup {"lfs"}) \cup {"bundle"})
        BY <4>1, FS_AddElement
      <4>3. IsFiniteSet((({} \cup {"lfs"}) \cup {"bundle"}) \cup {"meta"})
        BY <4>2, FS_AddElement
      <4>4. (({} \cup {"lfs"}) \cup {"bundle"}) \cup {"meta"} = {"lfs", "bundle", "meta"}
        OBVIOUS
      <4>. QED BY <4>3, <4>4
    <3>2. Staging \subseteq {"lfs", "bundle", "meta"}
      BY StagingKinds
    <3>. HIDE DEF Staging
    <3>. QED BY <3>1, <3>2, FS_Subset, Zenon
  <2>. QED BY <2>1, FS_CardinalityType
<1>. QED BY <1>1 DEF Orders

-----------------------------------------------------------------------------
(***************************************************************************)
(* Each part of the invariant is preserved.                                *)
(***************************************************************************)
LEMMA InitInv == Init => IInv
<1>. SUFFICES ASSUME Init PROVE IInv
  OBVIOUS
<1>. USE NoneIs DEF Init, CloudInit, NoPut
<1>1. NoRefs \in Refs /\ Held(NoRefs) = {} /\ Pointed(NoRefs) = {}
  BY DEF NoRefs, Refs, Held, Pointed
<1>2. Shapes
  <2>1. put \in PutType
    BY DEF PutType
  <2>2. remote \in Refs
    BY CopyAssumption
  <2>3. tries \in 0 .. CloneAttempts - 1 /\ pushes \in 0 .. MaxPushes
    BY CopyAssumption DEF CloneAttempts
  <2>4. seen \in [Names -> SUBSET (Commits \cup {None})]
    BY <2>2 DEF Refs
  <2>5. size \in [Kinds -> Sizes \cup {0, 1}] /\ staged \in Seq(Kinds)
    OBVIOUS
  <2>6. object \in [Kinds -> [by : {"us", "others"}, length : Nat] \cup {None}]
    OBVIOUS
  <2>. QED BY <1>1, <2>1, <2>2, <2>3, <2>4, <2>5, <2>6 DEF Shapes, BeforeHold
<1>3. SourceSeen
  BY <1>1 DEF SourceSeen, NoRefs
<1>4. CloneIsHeld /\ BundleIsClone /\ ArchiveIsWhole
  BY DEF CloneIsHeld, BundleIsClone, ArchiveIsWhole, BeforeHold, OfLfs
<1>5. NothingUploaded /\ PutIsHead /\ ObjectsHold
  BY KindsAre DEF NothingUploaded, PutIsHead, ObjectsHold, Ours
<1>6. SidecarLast
  BY KindsAre DEF SidecarLast, Ours
<1>. QED BY <1>2, <1>3, <1>4, <1>5, <1>6 DEF IInv

\* What is put keeps its shape, whatever the store does.
LEMMA PutStepShape ==
  ASSUME Shapes, PutStep
  PROVE  /\ object' \in [Kinds -> [by : {"us", "others"}, length : Nat] \cup {None}]
         /\ put' \in PutType /\ store' = store
<1>. USE DEF Shapes, PutType
<1>1. CASE SendBlock
  <2>1. put.block \in Nat /\ put.sent \in Nat /\ put.size \in Nat /\ put.holds \in Nat
    OBVIOUS
  <2>2. Least(put.sent + put.block, Passes) \in Nat /\ put.blocks + 1 \in Nat
    BY <2>1 DEF Least, Passes
  <2>. QED BY <1>1, <2>2 DEF SendBlock
<1>2. CASE EndStream
  BY <1>2 DEF EndStream
<1>3. CASE Commit
  BY <1>3 DEF Commit
<1>4. CASE KeyTaken
  BY <1>4 DEF KeyTaken
<1>5. CASE BreakPut
  BY <1>5 DEF BreakPut
<1>. QED BY <1>1, <1>2, <1>3, <1>4, <1>5 DEF PutStep

LEMMA BlockIsNat ==
  ASSUME NEW k \in Nat
  PROVE  PerBlock(k) \in Nat /\ BlockSizeFor(k) \in Nat
<1>1. MiB \in Nat \ {0} /\ MaxBlocks \in Nat \ {0}
  BY CloudAssumption
<1>2. PerBlock(k) \in Nat
  BY <1>1 DEF PerBlock
<1>3. PerBlock(k) + MiB - 1 \in Nat
  BY <1>1, <1>2
<1>4. (PerBlock(k) + MiB - 1) \div MiB \in Nat
  BY <1>1, <1>3
<1>. QED BY <1>1, <1>2, <1>4 DEF BlockSizeFor, Greatest

LEMMA OpenPutShape ==
  ASSUME Shapes, NEW k \in Kinds, NEW holds \in Nat, size[k] \in Nat, OpenPut(k, size[k], holds)
  PROVE  put' \in PutType /\ object' = object /\ store' = store
<1>1. BlockSizeFor(size[k]) \in Nat /\ Chunk \in Nat
  BY BlockIsNat, CloudAssumption
<1>. HIDE DEF BlockSizeFor
<1>. QED BY <1>1 DEF OpenPut, NoPut, PutType

LEMMA ShapesStep ==
  ASSUME IInv, [Next]_vars
  PROVE  Shapes'
<1>. USE NoneIs, CopyAssumption DEF IInv, Shapes, BeforeHold, OfLfs, CloneAttempts
<1>1. CASE Push
  <2>1. PICK n \in Names, c \in Commits \cup {None} :
          remote' = [remote EXCEPT ![n] = c] /\ seen' = [seen EXCEPT ![n] = @ \cup {c}]
    BY <1>1 DEF Push
  <2>2. remote' \in Refs /\ seen' \in [Names -> SUBSET (Commits \cup {None})]
    BY <2>1 DEF Refs
  <2>3. pushes' \in 0 .. MaxPushes
    BY <1>1 DEF Push
  <2>. QED BY <1>1, <2>2, <2>3 DEF Push, cloudVars, copyVars, Files
<1>2. CASE FetchMetadata /\ UNCHANGED cloudVars /\ UNCHANGED sourceVars
  BY <1>2 DEF FetchMetadata, cloudVars, sourceVars
<1>3. CASE CloneMirror /\ UNCHANGED cloudVars /\ UNCHANGED sourceVars
  <2>1. mirror' \in Refs
    BY <1>3 DEF CloneMirror, Refs
  <2>2. fetched = {}
    BY <1>3 DEF CloneMirror, ArchiveIsWhole
  <2>. QED BY <1>3, <2>1, <2>2 DEF CloneMirror, cloudVars, sourceVars
<1>4. CASE CloneFails /\ UNCHANGED cloudVars /\ UNCHANGED sourceVars
  BY <1>4 DEF CloneFails, cloudVars, sourceVars
<1>5. CASE HoldClone /\ UNCHANGED cloudVars /\ UNCHANGED sourceVars
  BY <1>5 DEF HoldClone, cloudVars, sourceVars
<1>6. CASE StartFetch /\ UNCHANGED cloudVars /\ UNCHANGED sourceVars
  BY <1>6 DEF StartFetch, cloudVars, sourceVars
<1>7. CASE FetchAll /\ UNCHANGED cloudVars /\ UNCHANGED sourceVars
  <2>1. fetched' \subseteq Pointed(mirror)'
    BY <1>7 DEF FetchAll, Pointed, Held
  <2>. QED BY <1>7, <2>1 DEF FetchAll, cloudVars, sourceVars
<1>8. CASE FetchPart /\ UNCHANGED cloudVars /\ UNCHANGED sourceVars
  <2>1. fetched' \subseteq Pointed(mirror)'
    BY <1>8 DEF FetchPart, Pointed, Held
  <2>. QED BY <1>8, <2>1, ZenonT(60) DEF FetchPart, cloudVars, sourceVars
<1>9. CASE Archive /\ UNCHANGED cloudVars /\ UNCHANGED sourceVars
  <2>1. Pointed(mirror) \subseteq AllObjects
    BY PointedIsObjects
  <2>2. KeepOnlyObjects(LfsDir) \subseteq AllObjects
    BY <2>1 DEF KeepOnlyObjects, LfsDir
  <2>3. archive' = None \/ archive' \subseteq AllObjects
    BY <1>9, <2>2 DEF Archive
  <2>. QED BY <1>9, <2>3 DEF Archive, cloudVars, sourceVars
<1>10. CASE Bundle /\ UNCHANGED cloudVars /\ UNCHANGED sourceVars
  <2>1. declared' = mirror
    BY <1>10 DEF Bundle, BundleHolds
  <2>. QED BY <1>10, <2>1 DEF Bundle, cloudVars, sourceVars
<1>11. CASE Stage /\ UNCHANGED cloudVars /\ UNCHANGED sourceVars
  <2>1. PICK sizes \in [Files -> Sizes] :
          size' = [k \in Kinds |-> IF k \in Files THEN sizes[k]
                                   ELSE IF k \in Staging \/ declared # None THEN 1 ELSE 0]
    BY <1>11 DEF Stage
  <2>2. Files \subseteq Kinds /\ Files' = Files /\ Staging \subseteq Kinds
    BY <1>11, StagingKinds, KindsAre DEF Stage, Files
  <2>3. size' \in [Kinds -> Sizes \cup {0, 1}] /\ \A k \in Files : size'[k] \in Sizes
    <3>. HIDE DEF Files, Staging
    <3>. QED BY <2>1, <2>2
  <2>4. PICK s \in Orders(size') :
          staged' = s \o (IF declared # None THEN <<"sha256">> ELSE <<>>)
    BY <1>11 DEF Stage
  <2>5. s \in Seq(Kinds)
    <3>1. s \in Seq(Staging)
      BY OrdersAreSequences
    <3>. HIDE DEF Staging
    <3>. QED BY <2>2, <3>1
  <2>6. staged' \in Seq(Kinds)
    <3>1. <<"sha256">> \in Seq(Kinds) /\ <<>> \in Seq(Kinds)
      BY KindsAre
    <3>. QED BY <2>4, <2>5, <3>1, ConcatProperties
  <2>. QED BY <1>11, <2>2, <2>3, <2>6 DEF Stage, cloudVars, sourceVars
<1>12. CASE FailBefore /\ UNCHANGED cloudVars /\ UNCHANGED sourceVars
  BY <1>12 DEF FailBefore, cloudVars, sourceVars
<1>13. CASE Upload /\ UNCHANGED sourceVars
  <2>1. PICK holds \in Holds(Head(staged)) : OpenPut(Head(staged), size[Head(staged)], holds)
    BY <1>13 DEF Upload
  <2>2. Head(staged) \in Kinds
    BY <1>13 DEF Upload
  <2>3. size[Head(staged)] \in Nat
    <3>1. size[Head(staged)] \in Sizes \cup {0, 1}
      BY <2>2
    <3>. QED BY <3>1, SizesAre
  <2>3a. Head(staged) \in Files => size[Head(staged)] \in Nat \ {0}
    BY <1>13, SizesAre DEF Upload
  <2>3b. holds \in Nat
    <3>. HIDE DEF Files
    <3>. QED BY <2>3, <2>3a DEF Holds
  <2>4. put' \in PutType /\ object' = object /\ store' = store
    BY <2>1, <2>2, <2>3, <2>3b, OpenPutShape
  <2>. QED BY <1>13, <2>4 DEF Upload, copyVars, sourceVars, Files
<1>14. CASE Uploaded /\ UNCHANGED sourceVars
  BY <1>14 DEF Uploaded, cloudVars, sourceVars, Files
<1>15. CASE UploadFails /\ UNCHANGED sourceVars
  BY <1>15 DEF UploadFails, cloudVars, sourceVars
<1>16. CASE Finish /\ UNCHANGED sourceVars
  BY <1>16 DEF Finish, cloudVars, sourceVars
<1>17. CASE PutStep /\ UNCHANGED copyVars /\ UNCHANGED sourceVars
  BY <1>17, PutStepShape DEF copyVars, sourceVars, Files, Pointed, Held
<1>18. CASE OtherPut /\ UNCHANGED <<sourceVars, copyVars>>
  <2>1. object' \in [Kinds -> [by : {"us", "others"}, length : Nat] \cup {None}]
    BY <1>18 DEF OtherPut
  <2>. QED BY <1>18, <2>1 DEF OtherPut, copyVars, sourceVars, Files, Pointed, Held
<1>19. CASE UNCHANGED vars
  BY <1>19 DEF vars, cloudVars, copyVars, sourceVars, Files, Pointed, Held
<1>. QED BY <1>1, <1>2, <1>3, <1>4, <1>5, <1>6, <1>7, <1>8, <1>9, <1>10, <1>11, <1>12, <1>13,
            <1>14, <1>15, <1>16, <1>17, <1>18, <1>19 DEF Next, Work, Prepare

\* The refs the source has had, and what the clone received of them.
LEMMA SourceSeenStep ==
  ASSUME IInv, [Next]_vars
  PROVE  SourceSeen'
<1>. USE NoneIs DEF IInv, SourceSeen, Held
<1>1. CASE Push
  <2>1. PICK n \in Names, c \in Commits \cup {None} :
          remote' = [remote EXCEPT ![n] = c] /\ seen' = [seen EXCEPT ![n] = @ \cup {c}]
    BY <1>1 DEF Push
  <2>2. \A q \in Names : remote'[q] \in seen'[q] /\ seen[q] \subseteq seen'[q]
    BY <2>1 DEF Shapes, Refs
  <2>. QED BY <1>1, <2>2 DEF Push, copyVars
<1>2. CASE CloneMirror /\ UNCHANGED sourceVars
  BY <1>2 DEF CloneMirror, sourceVars
<1>3. CASE UNCHANGED <<remote, seen, gone, mirror>>
  BY <1>3
<1>. QED BY <1>1, <1>2, <1>3
         DEF Next, Work, Prepare, FetchMetadata, CloneFails, HoldClone, StartFetch, FetchAll,
             FetchPart, Archive, Bundle, Stage, FailBefore, Upload, Uploaded, UploadFails, Finish,
             copyVars, sourceVars, vars

\* The clone is held to the listing before anything is made of it.
LEMMA CloneIsHeldStep ==
  ASSUME IInv, [Next]_vars
  PROVE  CloneIsHeld'
<1>. USE NoneIs DEF IInv, CloneIsHeld, Complete, BeforeHold, OfLfs
<1>1. CASE Push
  <2>1. step \in BeforeHold /\ declared = None
    BY <1>1 DEF Push, BundleIsClone
  <2>. QED BY <1>1, <2>1 DEF Push, copyVars
<1>2. CASE CloneMirror /\ UNCHANGED sourceVars
  BY <1>2 DEF CloneMirror, sourceVars, BundleIsClone
<1>3. CASE HoldClone /\ UNCHANGED sourceVars
  <2>1. ASSUME advertised # None, NEW n \in Clonable \ gone, advertised[n] # None
        PROVE  mirror[n] # None
    <3>1. n \in Names /\ remote[n] # None
      BY CopyAssumption DEF SourceSeen, Held
    <3>2. ~ (n \in Lacking)
      BY <1>3, <3>1 DEF HoldClone, CloneHolds
    <3>. QED BY <2>1, <3>2 DEF Lacking
  <2>. QED BY <1>3, <2>1 DEF HoldClone, sourceVars
<1>4. CASE (FetchMetadata \/ CloneFails \/ StartFetch \/ FetchAll \/ FetchPart \/ Archive
               \/ Stage \/ FailBefore) /\ UNCHANGED sourceVars
  BY <1>4 DEF FetchMetadata, CloneFails, StartFetch, FetchAll, FetchPart, Archive, Stage,
              FailBefore, sourceVars
<1>7. CASE Bundle /\ UNCHANGED sourceVars
  BY <1>7 DEF Bundle, sourceVars
<1>5. CASE (Uploaded \/ UploadFails \/ Finish) /\ UNCHANGED sourceVars
  BY <1>5 DEF Uploaded, UploadFails, Finish, sourceVars
<1>6. CASE UNCHANGED <<sourceVars, copyVars>>
  BY <1>6 DEF sourceVars, copyVars
<1>. QED BY <1>1, <1>2, <1>3, <1>4, <1>5, <1>6, <1>7 DEF Next, Work, Prepare, Upload, vars

\* The bundle's refs are the clone's, and success is only of a copy with one.
LEMMA BundleIsCloneStep ==
  ASSUME IInv, [Next]_vars
  PROVE  BundleIsClone'
<1>. USE NoneIs DEF IInv, BundleIsClone, BeforeHold, OfLfs
<1>1. CASE FetchMetadata \/ CloneMirror \/ CloneFails
  BY <1>1 DEF FetchMetadata, CloneMirror, CloneFails
<1>2. CASE HoldClone
  BY <1>2 DEF HoldClone
<1>3. CASE StartFetch \/ FetchAll \/ FetchPart \/ Archive
  BY <1>3 DEF StartFetch, FetchAll, FetchPart, Archive
<1>4. CASE Bundle
  BY <1>4 DEF Bundle, BundleHolds, Shapes
<1>5. CASE Stage \/ FailBefore
  BY <1>5 DEF Stage, FailBefore
<1>6. CASE Uploaded \/ UploadFails \/ Finish
  BY <1>6 DEF Uploaded, UploadFails, Finish
<1>7. CASE UNCHANGED copyVars
  BY <1>7 DEF copyVars
<1>. QED BY <1>1, <1>2, <1>3, <1>4, <1>5, <1>6, <1>7 DEF Next, Work, Prepare, Push, Upload, vars

\* The archive is made when every object is there, and of nothing else.
LEMMA ArchiveIsWholeStep ==
  ASSUME IInv, [Next]_vars
  PROVE  ArchiveIsWhole'
<1>. USE DEF IInv, ArchiveIsWhole, BeforeHold, OfLfs, Pointed, Held
<1>1. CASE (FetchMetadata \/ CloneMirror \/ CloneFails) /\ UNCHANGED sourceVars
  <2>1. step' \in BeforeHold /\ fetched' = {} /\ declared' = None
    BY <1>1, NoneIs DEF FetchMetadata, CloneMirror, CloneFails, BundleIsClone
  <2>. QED BY <2>1
<1>2. CASE HoldClone /\ UNCHANGED sourceVars
  BY <1>2 DEF HoldClone, sourceVars, BundleIsClone
<1>3. CASE (StartFetch \/ FetchAll \/ FetchPart) /\ UNCHANGED sourceVars
  BY <1>3 DEF StartFetch, FetchAll, FetchPart, sourceVars
<1>4. CASE Archive /\ UNCHANGED sourceVars
  <2>1. Pointed(mirror) \subseteq AllObjects
    BY PointedIsObjects DEF Shapes
  <2>2. KeepOnlyObjects(LfsDir) = Pointed(mirror)
    <3>. HIDE DEF Pointed
    <3>. QED BY <1>4, <2>1, CopyAssumption DEF Archive, KeepOnlyObjects, LfsDir
  <2>. QED BY <1>4, <2>2 DEF Archive, sourceVars
<1>5. CASE (Bundle \/ Stage \/ FailBefore) /\ UNCHANGED sourceVars
  BY <1>5 DEF Bundle, Stage, FailBefore, sourceVars
<1>6. CASE (Uploaded \/ UploadFails \/ Finish) /\ UNCHANGED sourceVars
  BY <1>6 DEF Uploaded, UploadFails, Finish, sourceVars
<1>7. CASE UNCHANGED copyVars /\ lfs' = lfs
  BY <1>7 DEF copyVars
<1>. QED BY <1>1, <1>2, <1>3, <1>4, <1>5, <1>6, <1>7
         DEF Next, Work, Prepare, Push, Upload, sourceVars, vars

\* The first key is written when everything is staged.
LEMMA NothingUploadedStep ==
  ASSUME IInv, [Next]_vars
  PROVE  NothingUploaded'
<1>. USE NoneIs DEF IInv, NothingUploaded, Ours
<1>1. CASE Prepare /\ UNCHANGED cloudVars
  BY <1>1 DEF Prepare, FetchMetadata, CloneMirror, CloneFails, HoldClone, StartFetch, FetchAll,
              FetchPart, Archive, Bundle, Stage, FailBefore, cloudVars
<1>2. CASE Upload \/ Uploaded \/ UploadFails \/ Finish
  BY <1>2 DEF Upload, Uploaded, UploadFails, Finish, copyVars
<1>3. CASE PutStep /\ UNCHANGED copyVars
  <2>1. put.at # "none"
    BY <1>3 DEF PutStep, SendBlock, EndStream, Commit, KeyTaken, BreakPut
  <2>2. step \in {"upload", "done"}
    BY <2>1 DEF NoPut
  <2>. QED BY <1>3, <2>2 DEF copyVars
<1>4. CASE OtherPut /\ UNCHANGED copyVars
  <2>1. \A k \in Kinds : Ours(k)' => Ours(k)
    BY <1>4 DEF OtherPut, Shapes
  <2>. QED BY <1>4, <2>1 DEF OtherPut, copyVars
<1>5. CASE UNCHANGED <<cloudVars, copyVars>>
  BY <1>5 DEF cloudVars, copyVars
<1>. QED BY <1>1, <1>2, <1>3, <1>4, <1>5 DEF Next, Work, Push, vars

\* Nothing but the copy's own commit makes an object of the copy's.
LEMMA OursMade ==
  ASSUME IInv, [Next]_vars, NEW k \in Kinds
  PROVE  /\ Ours(k) => Ours(k)' /\ object'[k] = object[k]
         /\ Ours(k)' => Ours(k) \/ (Commit /\ put.kind = k /\ object'[k].length = put.sent)
<1>. USE NoneIs DEF Ours
<1>0. object \in [Kinds -> [by : {"us", "others"}, length : Nat] \cup {None}]
  BY DEF IInv, Shapes
<1>1. CASE Commit
  <2>1. put.kind \in Kinds
    BY <1>1 DEF Commit, IInv, PutIsHead
  <2>2. [by |-> "us", length |-> put.sent] # None
    <3>1. put.sent \in Nat
      BY DEF IInv, Shapes, PutType
    <3>. QED BY <3>1
  <2>. QED BY <1>0, <1>1, <2>1, <2>2 DEF Commit
<1>2. CASE OtherPut
  <2>1. PICK q \in Kinds : /\ object[q] = None
                           /\ object' = [object EXCEPT ![q] = [by |-> "others", length |-> 1]]
    BY <1>2 DEF OtherPut
  <2>. QED BY <1>0, <2>1
<1>3. CASE object' = object
  BY <1>3
<1>. QED BY <1>1, <1>2, <1>3
         DEF Next, Work, Prepare, Push, Upload, OpenPut, Uploaded, UploadFails, Finish, PutStep,
             SendBlock, EndStream, KeyTaken, BreakPut, cloudVars, vars

\* The put under way has the artifact's size, and commits when it is all sent.
LEMMA PutIsHeadStep ==
  ASSUME IInv, [Next]_vars
  PROVE  PutIsHead'
<1>. USE NoneIs DEF IInv, PutIsHead
<1>0. put.size \in Nat /\ put.holds \in Nat /\ put.sent \in Nat /\ put.block \in Nat
  BY DEF Shapes, PutType
<1>1. CASE Prepare /\ UNCHANGED cloudVars
  <2>1. put.at = "none" \/ size' = size
    <3>1. CASE Stage
      BY <3>1 DEF Stage, NothingUploaded, NoPut
    <3>2. CASE ~ Stage
      BY <1>1, <3>2 DEF Prepare, FetchMetadata, CloneMirror, CloneFails, HoldClone, StartFetch,
                FetchAll, FetchPart, Archive, Bundle, FailBefore
    <3>. QED BY <3>1, <3>2
  <2>2. put' = put /\ object' = object
    BY <1>1 DEF cloudVars
  <2>. QED BY <2>1, <2>2 DEF Ours, Passes
<1>2. CASE Upload
  <2>1. PICK holds \in Holds(Head(staged)) : OpenPut(Head(staged), size[Head(staged)], holds)
    BY <1>2 DEF Upload
  <2>2. Head(staged) \in Kinds /\ size' = size
    BY <1>2 DEF Upload, Shapes, copyVars
  <2>3. size[Head(staged)] \in Nat /\ holds \in Nat
    <3>1. size[Head(staged)] \in Sizes \cup {0, 1}
      BY <2>2 DEF Shapes
    <3>2. Head(staged) \in Files => size[Head(staged)] \in Nat \ {0}
      BY <1>2, SizesAre DEF Upload, Shapes
    <3>3. size[Head(staged)] \in Nat
      BY <3>1, SizesAre
    <3>. QED BY <3>2, <3>3 DEF Holds
  <2>4. /\ put'.at \in {"sending", "failed"} /\ put'.kind = Head(staged)
        /\ put'.size = size[Head(staged)] /\ put'.sent = 0
        /\ put'.at = "sending" => put'.holds = holds
    BY <2>1 DEF OpenPut, NoPut
  <2>. QED BY <2>2, <2>3, <2>4 DEF Passes, Least
<1>3. CASE SendBlock /\ UNCHANGED copyVars
  BY <1>0, <1>3 DEF SendBlock, Passes, Least, copyVars
<1>4. CASE EndStream /\ UNCHANGED copyVars
  BY <1>0, <1>4 DEF EndStream, Passes, Least, copyVars
<1>5. CASE Commit /\ UNCHANGED copyVars
  <2>1. put.kind \in Kinds /\ put'.kind = put.kind /\ put'.size = put.size /\ put'.sent = put.sent
        /\ put'.at \in {"committing", "stored"}
    BY <1>5 DEF Commit, Shapes, PutType
  <2>2. object'[put.kind] = [by |-> "us", length |-> put.sent]
    BY <1>5, <2>1 DEF Commit, Shapes
  <2>3. [by |-> "us", length |-> put.sent] \in [by : {"us", "others"}, length : Nat]
    BY <1>0
  <2>4. object'[put.kind] # None /\ object'[put.kind].by = "us"
    BY <2>2, <2>3
  <2>. QED BY <1>5, <2>1, <2>4 DEF Commit, copyVars, Ours
<1>6. CASE (KeyTaken \/ BreakPut) /\ UNCHANGED copyVars
  BY <1>6 DEF KeyTaken, BreakPut, copyVars, Shapes, PutType
<1>7. CASE UNCHANGED <<put, size>>
  BY <1>7, OursMade DEF Passes
<1>. QED BY <1>1, <1>2, <1>3, <1>4, <1>5, <1>6, <1>7
         DEF Next, Work, Push, Uploaded, UploadFails, Finish, PutStep, OtherPut, cloudVars, copyVars,
             vars

\* What is at a key of the copy's has the artifact's size.
LEMMA ObjectsHoldStep ==
  ASSUME IInv, [Next]_vars
  PROVE  ObjectsHold'
<1>. USE DEF IInv, ObjectsHold
<1>1. CASE size' = size
  <2>1. ASSUME NEW k \in Kinds, Ours(k)'
        PROVE  object'[k].length = size'[k]
    <3>1. CASE Ours(k)
      BY <1>1, <3>1, OursMade
    <3>2. CASE Commit /\ put.kind = k /\ object'[k].length = put.sent
      BY <1>1, <3>2 DEF Commit, PutIsHead
    <3>. QED BY <2>1, <3>1, <3>2, OursMade
  <2>2. \A k \in listed' : k \in Kinds /\ (k \in listed \/ (k = put.kind /\ put.at = "stored"))
    BY PutIsHeadStep DEF Next, Work, Prepare, FetchMetadata, CloneMirror, CloneFails, HoldClone, StartFetch,
       FetchAll, FetchPart, Archive, Bundle, Stage, FailBefore, Upload, Uploaded, UploadFails,
       Finish, Push, copyVars, vars, Shapes, PutIsHead
  <2>3. \A k \in listed' : Ours(k)
    BY <2>2 DEF PutIsHead
  <2>. QED BY <2>1, <2>2, <2>3, OursMade
<1>2. CASE Stage /\ UNCHANGED cloudVars
  BY <1>2 DEF Stage, cloudVars, NothingUploaded, Ours
<1>. QED BY <1>1, <1>2 DEF Next, Work, Prepare, FetchMetadata, CloneMirror, CloneFails, HoldClone,
       StartFetch, FetchAll, FetchPart, Archive, Bundle, FailBefore, Upload, Uploaded, UploadFails,
       Finish, Push, copyVars, vars

\* Until the next upload the put is of the same object.
LEMMA PutStays ==
  ASSUME put \in PutType, PutStep \/ OtherPut \/ UNCHANGED cloudVars
  PROVE  put'.kind = put.kind /\ (put'.at # "none" => put.at # "none")
<1>. USE DEF PutType
<1>1. CASE SendBlock
  BY <1>1 DEF SendBlock
<1>2. CASE EndStream
  BY <1>2 DEF EndStream
<1>3. CASE Commit
  BY <1>3 DEF Commit
<1>4. CASE KeyTaken \/ BreakPut
  BY <1>4 DEF KeyTaken, BreakPut
<1>5. CASE OtherPut \/ UNCHANGED cloudVars
  BY <1>5 DEF OtherPut, cloudVars
<1>. QED BY <1>1, <1>2, <1>3, <1>4, <1>5, Zenon DEF PutStep

\* What is staged and what is listed are settled before the first upload.
LEMMA SidecarLastStep ==
  ASSUME IInv, [Next]_vars
  PROVE  SidecarLast'
<1>. USE NoneIs, KindsAre, StagingKinds DEF IInv, SidecarLast
<1>0. staged \in Seq(Kinds)
  BY DEF Shapes
<1>1. CASE Prepare /\ UNCHANGED cloudVars /\ ~ Stage
  <2>1. staged' = <<>> /\ step' # "upload" /\ put' = NoPut /\ ~ Ours("sha256")'
    BY <1>1 DEF Prepare, FetchMetadata, CloneMirror, CloneFails, HoldClone, StartFetch, FetchAll,
              FetchPart, Archive, Bundle, FailBefore, cloudVars, NothingUploaded, Ours
  <2>. QED BY <2>1 DEF NoPut
<1>2. CASE Stage /\ UNCHANGED cloudVars
  <2>1. PICK s \in Orders(size') :
          staged' = s \o (IF declared # None THEN <<"sha256">> ELSE <<>>)
    BY <1>2 DEF Stage
  <2>2. s \in Seq(Staging) /\ \A k \in Staging : \E i \in DOMAIN s : s[i] = k
    BY OrdersAreSequences
  <2>3. Staging' = Staging /\ declared' = declared
    BY <1>2 DEF Stage, Staging, Files
  <2>4. put' = NoPut /\ ~ Ours("sha256")'
    BY <1>2 DEF Stage, cloudVars, NothingUploaded, Ours
  <2>. HIDE DEF Staging
  <2>5. \A i \in DOMAIN s : s[i] \in Staging /\ s[i] # "sha256" /\ staged'[i] = s[i]
    BY <2>1, <2>2
  <2>6. CASE declared # None
    <3>1. staged' = s \o <<"sha256">>
      BY <2>1, <2>6
    <3>2. Len(staged') = Len(s) + 1 /\ DOMAIN staged' = 1 .. Len(s) + 1 /\ staged'[Len(s) + 1] = "sha256"
      BY <2>2, <3>1
    <3>3. DOMAIN s = 1 .. Len(s) /\ Len(s) \in Nat
      BY <2>2
    <3>4. \A i \in DOMAIN staged' : staged'[i] = "sha256" => i = Len(staged') /\ declared' # None
      BY <2>3, <2>5, <2>6, <3>2, <3>3
    <3>5. \A k \in Staging' : \E i \in DOMAIN staged' : staged'[i] = k
      <4>1. \A i \in DOMAIN s : i \in DOMAIN staged' /\ staged'[i] = s[i]
        BY <2>5, <3>2, <3>3
      <4>. QED BY <2>2, <2>3, <4>1
    <3>. QED BY <2>3, <2>4, <3>4, <3>5 DEF NoPut
  <2>7. CASE declared = None
    BY <2>1, <2>2, <2>3, <2>4, <2>5, <2>7 DEF NoPut
  <2>. QED BY <2>6, <2>7
<1>3. CASE Upload
  <2>1. /\ staged' = staged /\ listed' = listed /\ step' = step /\ declared' = declared
        /\ Staging' = Staging /\ object' = object
    BY <1>3 DEF Upload, OpenPut, copyVars, Staging, Files
  <2>2. put'.kind = Head(staged) /\ Head(staged) = staged[1] /\ 1 \in DOMAIN staged
    BY <1>0, <1>3 DEF Upload, OpenPut, NoPut
  <2>3. ASSUME staged[1] = "sha256"
        PROVE  declared # None /\ Staging \subseteq listed
    <3>1. Len(staged) = 1 /\ declared # None
      BY <2>2, <2>3
    <3>2. \A k \in Staging : \A i \in DOMAIN staged : staged[i] # k
      BY <1>0, <2>3, <3>1
    <3>. QED BY <1>3, <3>1, <3>2 DEF Upload
  <2>. HIDE DEF Staging
  <2>. QED BY <2>1, <2>2, <2>3 DEF Ours
<1>4. CASE Uploaded
  <2>1. /\ listed' = listed \cup {put.kind} /\ staged' = Tail(staged) /\ put.kind = Head(staged)
        /\ step' = step /\ declared' = declared /\ put' = put /\ object' = object /\ staged # <<>>
    BY <1>4 DEF Uploaded, cloudVars
  <2>2. Staging' = Staging
    BY <1>4 DEF Uploaded, Staging, Files
  <2>3. /\ \A i \in DOMAIN Tail(staged) : i + 1 \in DOMAIN staged /\ Tail(staged)[i] = staged[i + 1]
        /\ Len(Tail(staged)) = Len(staged) - 1 /\ DOMAIN Tail(staged) = 1 .. Len(staged) - 1
    BY <1>0, <2>1
  <2>4. \A i \in DOMAIN Tail(staged) : Tail(staged)[i] = "sha256" =>
          i = Len(Tail(staged)) /\ declared # None
    BY <1>0, <2>3
  <2>5. ASSUME step = "upload", NEW k \in Staging, k # Head(staged), k \notin listed
        PROVE  \E i \in DOMAIN Tail(staged) : Tail(staged)[i] = k
    <3>1. PICK i \in DOMAIN staged : staged[i] = k
      BY <2>5
    <3>2. i # 1 /\ i \in 1 .. Len(staged)
      BY <1>0, <2>1, <2>5, <3>1
    <3>3. i - 1 \in DOMAIN Tail(staged) /\ Tail(staged)[i - 1] = staged[(i - 1) + 1]
      BY <1>0, <2>3, <3>2
    <3>4. (i - 1) + 1 = i
      BY <3>2
    <3>. QED BY <3>1, <3>3, <3>4
  <2>. HIDE DEF Staging
  <2>. QED BY <2>1, <2>2, <2>4, <2>5 DEF Ours
<1>5. CASE UploadFails \/ Finish
  <2>1. /\ staged' = staged /\ listed' = listed /\ step' = "done" /\ declared' = declared
        /\ Staging' = Staging /\ put' = put /\ object' = object
    BY <1>5 DEF UploadFails, Finish, cloudVars, Staging, Files
  <2>. HIDE DEF Staging
  <2>. QED BY <2>1 DEF Ours
<1>6. CASE (PutStep \/ OtherPut \/ UNCHANGED cloudVars) /\ UNCHANGED copyVars
  <2>1. /\ staged' = staged /\ listed' = listed /\ step' = step /\ declared' = declared
        /\ Staging' = Staging
    BY <1>6 DEF copyVars, Staging, Files
  <2>2. put'.kind = put.kind /\ (put'.at # "none" => put.at # "none")
    BY <1>6, PutStays DEF Shapes
  <2>3. Ours("sha256")' => Ours("sha256") \/ (put.at # "none" /\ put.kind = "sha256")
    BY OursMade DEF Commit
  <2>. HIDE DEF Staging
  <2>. QED BY <2>1, <2>2, <2>3
<1>. QED BY <1>1, <1>2, <1>3, <1>4, <1>5, <1>6 DEF Next, Work, Push, Prepare, vars

-----------------------------------------------------------------------------
(***************************************************************************)
(* The theorems.                                                           *)
(***************************************************************************)
LEMMA Invariance == Spec => []IInv
<1>1. IInv /\ [Next]_vars => IInv'
  BY ShapesStep, SourceSeenStep, CloneIsHeldStep, BundleIsCloneStep, ArchiveIsWholeStep,
     NothingUploadedStep, PutIsHeadStep, ObjectsHoldStep, SidecarLastStep DEF IInv
<1>. QED BY <1>1, InitInv, PTL DEF Spec

\* A copy that succeeds is the source's: its refs are the bundle's, each was the
\* source's while the copy was made, and none that the source had all that time
\* is missing.
THEOREM CopyIsAlwaysTheSources == Spec => []CopyIsTheSources
<1>1. IInv => CopyIsTheSources
  <2>. SUFFICES ASSUME IInv, status = "success"
                PROVE  /\ declared = mirror
                       /\ \A n \in Names : declared[n] # None => declared[n] \in seen[n]
                       /\ advertised # None =>
                            \A n \in Clonable \ gone : advertised[n] # None => declared[n] # None
    BY DEF CopyIsTheSources
  <2>. QED BY DEF IInv, BundleIsClone, CloneIsHeld, Complete, SourceSeen
<1>. QED BY <1>1, Invariance, PTL

\* A sidecar stands only beside a whole copy, of this run's own objects, each at
\* the size it was checksummed at.
THEOREM CopyIsAlwaysWhole == Spec => []CopyIsWhole
<1>1. IInv => CopyIsWhole
  <2>. SUFFICES ASSUME IInv PROVE CopyIsWhole
    OBVIOUS
  <2>. USE NoneIs, KindsAre DEF IInv
  <2>1. ASSUME Ours("sha256")
        PROVE  /\ Ours("bundle")
               /\ lfs /\ Pointed(declared) # {} => Ours("lfs") /\ archive = Pointed(declared)
               /\ ~ metaFails => Ours("meta")
    <3>1. declared # None /\ declared = mirror /\ \A k \in Staging : Ours(k)
      BY <2>1 DEF SidecarLast, BundleIsClone, ObjectsHold
    <3>2. "bundle" \in Staging /\ (~ metaFails => "meta" \in Staging)
      BY <3>1 DEF Staging, Files
    <3>3. ASSUME lfs, Pointed(mirror) # {}
          PROVE  archive = Pointed(mirror) /\ "lfs" \in Staging
      <4>1. archive = Pointed(mirror)
        BY <3>1, <3>3 DEF ArchiveIsWhole
      <4>2. Pointed(mirror) \in SUBSET AllObjects
        BY PointedIsObjects DEF Shapes
      <4>3. archive # None
        BY <4>1, <4>2, CopyAssumption
      <4>. QED BY <4>1, <4>3 DEF Staging, Files
    <3>. HIDE DEF Staging
    <3>. QED BY <3>1, <3>2, <3>3
  <2>. QED BY <2>1 DEF CopyIsWhole, ObjectsHold
<1>. QED BY <1>1, Invariance, PTL

-----------------------------------------------------------------------------
(***************************************************************************)
(* The blocks of an upload to Azure.                                       *)
(***************************************************************************)

LEMMA Division ==
  ASSUME NEW a \in Nat, NEW m \in Nat \ {0}
  PROVE  /\ a \div m \in Nat
         /\ m * (a \div m) <= a /\ a < m * (a \div m) + m
         /\ a % m = 0 => a = m * (a \div m)
<1>1. m * (a \div m) <= a
  OBVIOUS
<1>2. a < m * (a \div m) + m
  OBVIOUS
<1>3. a % m = 0 => a = m * (a \div m)
  OBVIOUS
<1>. QED BY <1>1, <1>2, <1>3

LEMMA Products ==
  ASSUME NEW a \in Nat, NEW b \in Nat, NEW c \in Nat
  PROVE  /\ a <= b => c * a <= c * b
         /\ c * a < c * b => a < b
         /\ c * (a + 1) = c * a + c
<1>1. ASSUME NEW x \in Nat, NEW y \in Nat, x <= y PROVE c * x <= c * y
  BY <1>1
<1>2. c * a < c * b => a < b
  BY <1>1
<1>. QED BY <1>1, <1>2

LEMMA RoundedUp ==
  ASSUME NEW a \in Nat, NEW m \in Nat \ {0}
  PROVE  /\ (a + m - 1) \div m \in Nat
         /\ a <= m * ((a + m - 1) \div m)
         /\ \A s \in Nat : s % m = 0 /\ a <= s => m * ((a + m - 1) \div m) <= s
<1>. DEFINE t == (a + m - 1) \div m
<1>1. /\ t \in Nat /\ m * t <= a + m - 1 /\ a + m - 1 < m * t + m
  <2>1. a + m - 1 \in Nat
    OBVIOUS
  <2>. QED BY <2>1, Division
<1>2. m * t \in Nat
  BY <1>1
<1>3. a <= m * t
  BY <1>1, <1>2
<1>4. ASSUME NEW s \in Nat, s % m = 0, a <= s
      PROVE  m * t <= s
  <2>. DEFINE k == s \div m
  <2>1. k \in Nat /\ s = m * k
    BY <1>4, Division
  <2>2. m * (k + 1) = s + m
    BY <2>1, Products
  <2>. HIDE DEF t, k
  <2>3. m * t < m * (k + 1)
    BY <1>1, <1>2, <1>4, <2>2
  <2>4. t < k + 1
    BY <1>1, <2>1, <2>3, Products
  <2>. QED BY <1>1, <2>1, <2>4, Products
<1>. QED BY <1>1, <1>3, <1>4

\* A blob of any size that fits is sent in blocks that Azure takes, and in no
\* more of them than it commits.
LEMMA BlocksHold ==
  ASSUME NEW n \in Nat, PerBlock(n) <= MaxStageBlock
  PROVE  /\ BlockSizeFor(n) \in Nat /\ BlockSizeFor(n) <= MaxStageBlock
         /\ n <= BlockSizeFor(n) * MaxBlocks
<1>. DEFINE p == PerBlock(n)
            up == (p + MiB - 1) \div MiB
<1>1. /\ MiB \in Nat \ {0} /\ MaxBlocks \in Nat \ {0} /\ MaxStageBlock \in Nat \ {0}
      /\ MaxStageBlock % MiB = 0
  BY CloudAssumption
<1>2. p \in Nat /\ n <= MaxBlocks * p
  <2>1. CASE n % MaxBlocks = 0
    BY <1>1, <2>1, Division DEF PerBlock
  <2>2. CASE n % MaxBlocks # 0
    <3>1. p = n \div MaxBlocks + 1 /\ n \div MaxBlocks \in Nat
      BY <1>1, <2>2, Division DEF PerBlock
    <3>2. n < MaxBlocks * (n \div MaxBlocks) + MaxBlocks
      BY <1>1, Division
    <3>3. MaxBlocks * p = MaxBlocks * (n \div MaxBlocks) + MaxBlocks
      BY <1>1, <3>1, Products
    <3>. HIDE DEF p
    <3>. QED BY <1>1, <3>1, <3>2, <3>3
  <2>. QED BY <2>1, <2>2
<1>3. p <= MaxStageBlock
  OBVIOUS
<1>. HIDE DEF p
<1>4. up \in Nat /\ p <= MiB * up /\ MiB * up <= MaxStageBlock
  BY <1>1, <1>2, <1>3, RoundedUp
<1>5. MiB <= MaxStageBlock
  <2>1. MaxStageBlock = MiB * (MaxStageBlock \div MiB) /\ MaxStageBlock \div MiB \in Nat
    BY <1>1, Division
  <2>2. MaxStageBlock \div MiB # 0
    BY <1>1, <2>1
  <2>3. MiB * 1 <= MiB * (MaxStageBlock \div MiB)
    BY <1>1, <2>1, <2>2, Products
  <2>. QED BY <1>1, <2>1, <2>3
<1>. HIDE DEF up
<1>6. /\ BlockSizeFor(n) \in Nat /\ p <= BlockSizeFor(n) /\ BlockSizeFor(n) <= MaxStageBlock
  <2>1. BlockSizeFor(n) = Greatest(1, up) * MiB
    BY DEF BlockSizeFor, p, up
  <2>2. CASE up < 1
    <3>1. up = 0 /\ p = 0
      BY <1>1, <1>2, <1>4, <2>2
    <3>. QED BY <1>1, <1>5, <2>1, <3>1 DEF Greatest
  <2>3. CASE ~ (up < 1)
    <3>1. up >= 1 /\ Greatest(1, up) = up
      BY <1>4, <2>3 DEF Greatest
    <3>. QED BY <1>1, <1>4, <2>1, <3>1
  <2>. QED BY <2>2, <2>3
<1>7. MaxBlocks * p <= MaxBlocks * BlockSizeFor(n)
  BY <1>1, <1>2, <1>6, Products
<1>. HIDE DEF BlockSizeFor
<1>8. MaxBlocks * BlockSizeFor(n) = BlockSizeFor(n) * MaxBlocks /\ MaxBlocks * p \in Nat
  BY <1>1, <1>2, <1>6
<1>. QED BY <1>1, <1>2, <1>6, <1>7, <1>8

\* As many bytes are sent as the blocks hold, until the stream ends.
BlocksCounted ==
  store = "azure" =>
    /\ put.block <= MaxStageBlock /\ put.blocks <= MaxBlocks
    /\ put.at = "sending" =>
         /\ put.size <= put.block * MaxBlocks
         /\ put.sent < Passes => put.sent = put.block * put.blocks

LEMMA BlocksCountedStep ==
  ASSUME IInv, BlocksCounted, [Next]_vars
  PROVE  BlocksCounted'
<1>. USE DEF BlocksCounted
<1>0. /\ put.size \in Nat /\ put.holds \in Nat /\ put.sent \in Nat /\ put.block \in Nat
      /\ put.blocks \in Nat /\ put \in PutType
      /\ MaxBlocks \in Nat \ {0} /\ MaxStageBlock \in Nat \ {0}
  BY CloudAssumption DEF IInv, Shapes, PutType
<1>1. CASE Upload
  <2>1. PICK holds \in Holds(Head(staged)) : OpenPut(Head(staged), size[Head(staged)], holds)
    BY <1>1 DEF Upload
  <2>2. size[Head(staged)] \in Nat
    <3>1. size[Head(staged)] \in Sizes \cup {0, 1}
      BY <1>1 DEF Upload, IInv, Shapes
    <3>. QED BY <3>1, SizesAre
  <2>3. store' = store
    BY <2>1 DEF OpenPut
  <2>4. CASE store = "azure" /\ Fits(size[Head(staged)])
    <3>1. /\ put'.block = BlockSizeFor(size[Head(staged)]) /\ put'.size = size[Head(staged)]
          /\ put'.sent = 0 /\ put'.blocks = 0
      BY <2>1, <2>4 DEF OpenPut, NoPut
    <3>2. PerBlock(size[Head(staged)]) <= MaxStageBlock
      BY <2>4 DEF Fits
    <3>3. /\ put'.block \in Nat /\ put'.block <= MaxStageBlock
          /\ put'.size <= put'.block * MaxBlocks
      BY <2>2, <3>1, <3>2, BlocksHold
    <3>. QED BY <1>0, <3>1, <3>3
  <2>5. CASE ~ Fits(size[Head(staged)])
    BY <1>0, <2>1, <2>5 DEF OpenPut, NoPut
  <2>. QED BY <2>3, <2>4, <2>5
<1>2. CASE SendBlock
  <2>1. /\ put'.sent = Least(put.sent + put.block, Passes) /\ put'.blocks = put.blocks + 1
        /\ put'.block = put.block /\ put'.size = put.size /\ put'.at = "sending"
        /\ put.sent < Passes /\ store' = store /\ Passes' = Passes /\ put.at = "sending"
    BY <1>0, <1>2 DEF SendBlock, PutType, Passes, Least
  <2>2. Passes \in Nat /\ Passes <= put.size
    BY <1>0 DEF Passes, Least
  <2>. HIDE DEF Passes
  <2>3. ASSUME store = "azure"
        PROVE  /\ put.blocks + 1 <= MaxBlocks
               /\ put'.sent < Passes => put'.sent = put.block * (put.blocks + 1)
    <3>1. put.sent = put.block * put.blocks /\ put.size <= put.block * MaxBlocks
      BY <2>1, <2>3
    <3>2. put.block * put.blocks < put.block * MaxBlocks
      BY <1>0, <2>1, <2>2, <3>1
    <3>3. put.blocks < MaxBlocks
      BY <1>0, <3>2, Products
    <3>4. put.block * (put.blocks + 1) = put.block * put.blocks + put.block
      BY <1>0, Products
    <3>. QED BY <1>0, <2>1, <2>2, <3>1, <3>3, <3>4 DEF Least
  <2>. QED BY <2>1, <2>3
<1>3. CASE EndStream \/ Commit \/ KeyTaken \/ BreakPut
  <2>1. put'.at # "sending" /\ put'.block = put.block /\ put'.blocks = put.blocks /\ store' = store
    BY <1>0, <1>3 DEF EndStream, Commit, KeyTaken, BreakPut, PutType
  <2>. QED BY <2>1
<1>4. CASE UNCHANGED <<put, store>>
  BY <1>4 DEF Passes
<1>. QED BY <1>1, <1>2, <1>3, <1>4
         DEF Next, Work, Prepare, Push, Uploaded, UploadFails, Finish, PutStep, OtherPut, cloudVars,
             vars

\* Every variable keeps its shape, and an upload to Azure keeps to the blocks a
\* blob may have, whatever the size of the artifact and whatever the limits are.
THEOREM TypeCorrect == Spec => []TypeOK
<1>1. Init => BlocksCounted
  BY CloudAssumption DEF Init, CloudInit, NoPut, BlocksCounted
<1>2. IInv /\ BlocksCounted => TypeOK
  BY DEF IInv, Shapes, BlocksCounted, TypeOK, CloudTypeOK, BlocksFit, BeforeHold, OfLfs
<1>3. IInv /\ BlocksCounted /\ [Next]_vars => BlocksCounted'
  BY BlocksCountedStep
<1>. QED BY <1>1, <1>2, <1>3, Invariance, PTL DEF Spec

-----------------------------------------------------------------------------
(***************************************************************************)
(* Refinement: every key of the copy implements CreateOnly.                *)
(***************************************************************************)
Callers == {"us", "others"}
Results(k) == [w \in Callers |->
                 [outcome |-> IF w = "us" THEN Told(k) ELSE "pending", until |-> 0]]

LEMMA TwoCallers == "us" # "others"
OBVIOUS

\* A key that holds something does not look empty.
LEMMA KeyIsNone ==
  ASSUME Shapes, NEW k \in Kinds
  PROVE  KeyHolds(k) = None <=> object[k] = None
<1>1. ASSUME object[k] # None
      PROVE  KeyHolds(k) \in [bytes : {"us", "others", "neither"}, until : {0}]
  <2>1. object[k].by \in {"us", "others"}
    BY <1>1 DEF Shapes
  <2> QED BY <1>1, <2>1 DEF KeyHolds
<1> QED BY <1>1, CloudAssumption DEF KeyHolds

\* What readers find at a key, and what the copy is told of it, change only with
\* these.
LEMMA KeyStays ==
  ASSUME NEW k, object'[k] = object[k], ~ Ours(k) \/ size' = size, Told(k)' = Told(k)
  PROVE  UNCHANGED Promise(k)!vars
<1>1. KeyHolds(k)' = KeyHolds(k)
  BY DEF KeyHolds, Ours
<1> QED BY <1>1 DEF Promise!vars

\* The copy is told of a key it has heard nothing of yet.
LEMMA ToldOnce ==
  ASSUME NEW k, Told(k) = "pending"
  PROVE  Results(k)["us"] = Promise(k)!Pending
BY DEF Results, Callers, Promise!Pending

LEMMA ToldNext ==
  ASSUME NEW k, NEW outcome, Told(k)' = outcome
  PROVE  Results(k)' = [Results(k) EXCEPT !["us"] = [outcome |-> outcome, until |-> 0]]
BY TwoCallers DEF Results, Callers

\* Nothing is at a key, and nothing is told, before the uploads.
LEMMA PrepareKeeps ==
  ASSUME IInv, Prepare, UNCHANGED cloudVars, NEW k \in Kinds
  PROVE  UNCHANGED Promise(k)!vars
<1>1. put' = put /\ object' = object
  BY DEF cloudVars
<1>2. listed' = listed /\ (size' = size \/ Stage)
  BY DEF Prepare, FetchMetadata, CloneMirror, CloneFails, HoldClone, StartFetch, FetchAll,
         FetchPart, Archive, Bundle, Stage, FailBefore
<1>3. Stage => ~ Ours(k)
  BY DEF Stage, IInv, NothingUploaded
<1> QED BY <1>1, <1>2, <1>3, KeyStays DEF Told

\* A copy that is told of a failure.
LEMMA FailureIsTold ==
  ASSUME Shapes, NEW k \in Kinds, object' = object, size' = size, listed' = listed,
         put'.kind = k /\ put'.at = "failed", ~ (put.kind = k /\ put.at = "failed")
  PROVE  UNCHANGED Promise(k)!vars \/ Promise(k)!Next
<1>1. CASE k \in listed
  BY <1>1, KeyStays DEF Told
<1>2. CASE k \notin listed
  <2>1. Told(k) = "pending" /\ Told(k)' = "failed"
    BY <1>2 DEF Told
  <2>2. Results(k)["us"] = Promise(k)!Pending
    BY <2>1, ToldOnce
  <2>3. Results(k)' = [Results(k) EXCEPT !["us"] = Promise(k)!Failed]
    BY <2>1, ToldNext DEF Promise!Failed
  <2>4. KeyHolds(k)' = KeyHolds(k)
    BY DEF KeyHolds, Ours
  <2>5. Promise(k)!TellFailed("us")
    BY <2>2, <2>3, <2>4 DEF Promise!TellFailed, Promise!Tell, Results, Callers
  <2> QED BY <2>5 DEF Promise!Next
<1> QED BY <1>1, <1>2

\* A put of one artifact that breaks off or goes on, and tells nothing else.
LEMMA PutTells ==
  ASSUME IInv, NEW k \in Kinds, object' = object, size' = size, listed' = listed,
         put.at = "failed" => put' = put
  PROVE  UNCHANGED Promise(k)!vars \/ Promise(k)!Next
<1>1. CASE put'.kind = k /\ put'.at = "failed" /\ ~ (put.kind = k /\ put.at = "failed")
  BY <1>1, FailureIsTold DEF IInv
<1>2. CASE ~ (put'.kind = k /\ put'.at = "failed" /\ ~ (put.kind = k /\ put.at = "failed"))
  BY <1>2, KeyStays DEF Told
<1> QED BY <1>1, <1>2

\* The first write that reaches a key is the copy's, whole, or another run's.
LEMMA FirstWrite ==
  ASSUME Shapes, NEW k \in Kinds, NEW by \in Callers, NEW length \in Nat,
         object[k] = None, object' = [object EXCEPT ![k] = [by |-> by, length |-> length]],
         by = "us" => length = size[k],
         size' = size, Told(k)' = Told(k)
  PROVE  Promise(k)!Next
<1>1. object'[k] = [by |-> by, length |-> length] /\ object'[k] # None
  BY CloudAssumption DEF Shapes, Callers
<1>2. KeyHolds(k)' = [bytes |-> by, until |-> 0]
  BY <1>1 DEF KeyHolds, Ours
<1>3. KeyHolds(k) = None
  BY DEF KeyHolds
<1>4. Promise(k)!Write(by)
  BY <1>2, <1>3 DEF Promise!Write, Callers
<1> QED BY <1>4 DEF Promise!Next, Callers

LEMMA CommitWrites ==
  ASSUME IInv, Commit, size' = size, listed' = listed, NEW k \in Kinds
  PROVE  UNCHANGED Promise(k)!vars \/ Promise(k)!Next
<1>1. put.at = "committing" /\ put'.at # "failed" /\ Told(k)' = Told(k)
  BY DEF Commit, Told, IInv, Shapes, PutType
<1>2. put.kind \in Kinds /\ put.sent = size[put.kind] /\ put.sent \in Nat
  BY <1>1 DEF IInv, PutIsHead, Shapes, PutType
<1>3. CASE k = put.kind
  BY <1>1, <1>2, <1>3, FirstWrite DEF Commit, IInv, Callers
<1>4. CASE k # put.kind
  <2>1. object'[k] = object[k]
    BY <1>4 DEF Commit, IInv, Shapes
  <2> QED BY <1>1, <2>1, KeyStays
<1> QED BY <1>3, <1>4

LEMMA OthersWrite ==
  ASSUME IInv, OtherPut, size' = size, listed' = listed, NEW k \in Kinds
  PROVE  UNCHANGED Promise(k)!vars \/ Promise(k)!Next
<1>1. PICK l \in Kinds : /\ object[l] = None
                         /\ object' = [object EXCEPT ![l] = [by |-> "others", length |-> 1]]
  BY DEF OtherPut
<1>2. Told(k)' = Told(k)
  BY DEF OtherPut, Told
<1>3. CASE k = l
  BY <1>1, <1>2, <1>3, TwoCallers, FirstWrite DEF IInv, Callers
<1>4. CASE k # l
  <2>1. object'[k] = object[k]
    BY <1>1, <1>4 DEF IInv, Shapes
  <2> QED BY <1>2, <2>1, KeyStays
<1> QED BY <1>3, <1>4

\* The entry lists an artifact whose put came back: its key holds it.
LEMMA UploadedTells ==
  ASSUME IInv, Uploaded, NEW k \in Kinds
  PROVE  UNCHANGED Promise(k)!vars \/ Promise(k)!Next
<1>1. /\ put.at = "stored" /\ listed' = listed \cup {put.kind}
      /\ put' = put /\ object' = object /\ size' = size
  BY DEF Uploaded, cloudVars
<1>2. CASE k # put.kind \/ k \in listed
  BY <1>1, <1>2, KeyStays DEF Told
<1>3. CASE k = put.kind /\ k \notin listed
  <2>1. Told(k) = "pending" /\ Told(k)' = "stored"
    BY <1>1, <1>3 DEF Told
  <2>2. Results(k)["us"] = Promise(k)!Pending
    BY <2>1, ToldOnce
  <2>3. Results(k)' = [Results(k) EXCEPT !["us"] = Promise(k)!Stored(0)]
    BY <2>1, ToldNext DEF Promise!Stored
  <2>4. KeyHolds(k) = [bytes |-> "us", until |-> 0] /\ KeyHolds(k)' = KeyHolds(k)
    <3>1. Ours(k) /\ object[k].length = size[k]
      BY <1>1, <1>3 DEF IInv, PutIsHead, ObjectsHold
    <3> QED BY <1>1, <3>1 DEF KeyHolds, Ours
  <2>5. KeyHolds(k) # None
    BY <2>4, CloudAssumption
  <2>6. Promise(k)!TellStored("us", 0)
    BY <2>2, <2>3, <2>4, <2>5
       DEF Promise!TellStored, Promise!Tell, Results, Callers
  <2> QED BY <2>6 DEF Promise!Next
<1> QED BY <1>2, <1>3

LEMMA KeyRefines ==
  ASSUME IInv, [Next]_vars, NEW k \in Kinds
  PROVE  UNCHANGED Promise(k)!vars \/ Promise(k)!Next
<1>1. CASE Prepare /\ UNCHANGED cloudVars
  BY <1>1, PrepareKeeps
<1>2. CASE Upload
  <2>1. object' = object /\ size' = size /\ listed' = listed /\ put.at # "failed"
    BY <1>2 DEF Upload, OpenPut, copyVars
  <2> QED BY <2>1, PutTells
<1>3. CASE Uploaded
  BY <1>3, UploadedTells
<1>4. CASE (SendBlock \/ EndStream \/ KeyTaken \/ BreakPut) /\ UNCHANGED copyVars
  <2>1. object' = object /\ put.at # "failed" /\ size' = size /\ listed' = listed
    BY <1>4 DEF SendBlock, EndStream, KeyTaken, BreakPut, copyVars
  <2> QED BY <2>1, PutTells
<1>5. CASE Commit /\ UNCHANGED copyVars
  BY <1>5, CommitWrites DEF copyVars
<1>6. CASE OtherPut /\ UNCHANGED <<sourceVars, copyVars>>
  BY <1>6, OthersWrite DEF copyVars
<1>7. CASE UploadFails \/ Finish \/ Push \/ UNCHANGED vars
  <2>1. object' = object /\ put' = put /\ size' = size /\ listed' = listed
    BY <1>7 DEF UploadFails, Finish, Push, vars, cloudVars, copyVars
  <2> QED BY <2>1, PutTells
<1> QED BY <1>1, <1>2, <1>3, <1>4, <1>5, <1>6, <1>7 DEF Next, Work, PutStep

\* Every key of a copy to GCS or Azure is what Destination promises: written
\* once, whatever is asked for again, and listed only for the copy's own object.
THEOREM CopyKeysAreCreateOnly == Spec => KeysAreCreateOnly
<1>1. Init => \A k \in Kinds : Promise(k)!Init
  <2> SUFFICES ASSUME Init, NEW k \in Kinds
               PROVE  Promise(k)!Init
    OBVIOUS
  <2>1. object[k] = None /\ listed = {} /\ put.at = "none"
    BY DEF Init, CloudInit, NoPut
  <2>2. KeyHolds(k) = None /\ Told(k) = "pending"
    BY <2>1 DEF KeyHolds, Told
  <2> QED BY <2>2 DEF Promise!Init, Promise!Pending
<1>2. IInv /\ [Next]_vars => \A k \in Kinds : UNCHANGED Promise(k)!vars \/ Promise(k)!Next
  BY KeyRefines
<1> QED BY <1>1, <1>2, Invariance, PTL DEF Spec, KeysAreCreateOnly
=============================================================================
