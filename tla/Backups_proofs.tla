--------------------------- MODULE Backups_proofs ---------------------------
(***************************************************************************)
(* Theorems about Backups, for every value of its constants.               *)
(***************************************************************************)
EXTENDS Backups, WellFoundedInduction, TLAPS

-----------------------------------------------------------------------------
(***************************************************************************)
(* The operators the runs are made of return what their names say.         *)
(***************************************************************************)

LEMMA DateOfType == \A t \in Nat : DateOf(t) \in Nat
BY ConstantsAssumption DEF DateOf

LEMMA EntryType ==
  /\ \A artifacts \in SUBSET Kinds : Failed(artifacts) \in Entry
  /\ NoEntry \in Entry
  /\ \A reason \in {"resume", "empty", "unchanged"}, refs \in Refs, at \in Nat \cup {NoTime} :
       Skipped(reason, refs, at) \in Entry
BY DEF Failed, NoEntry, Skipped, Entry, Refs, NoTime

LEMMA TaskType ==
  /\ \A step \in {"none", "waiting", "cloning", "uploading", "settled"} : At(step) \in Task
  /\ \A entry \in Entry : Settled(entry) \in Task
<1>1. ASSUME NEW step \in {"none", "waiting", "cloning", "uploading", "settled"}
      PROVE  At(step) \in Task
  BY EntryType DEF At, Task, Refs
<1>2. ASSUME NEW entry \in Entry
      PROVE  Settled(entry) \in Task
  BY <1>1 DEF Settled, Task
<1> QED BY <1>1, <1>2

\* Of some times, one is the first.
LEMMA LeastExists ==
  ASSUME NEW S \in SUBSET Nat, S # {}
  PROVE  \E least \in S : \A other \in S : least <= other
<1>1. OpToRel(<, Nat) = {ss \in Nat \X Nat : ss[1] < ss[2]}
  BY Zenon DEF OpToRel
<1>2. IsWellFoundedOn({ss \in Nat \X Nat : ss[1] < ss[2]}, Nat)
  BY <1>1, NatLessThanWellFounded, Zenon
<1>3. PICK least \in S :
        \A other \in S : ~ (<<other, least>> \in {ss \in Nat \X Nat : ss[1] < ss[2]})
  BY <1>2, WFMin
<1>4. ASSUME NEW other \in S
      PROVE  least <= other
  <2>1. other \in Nat /\ least \in Nat
    OBVIOUS
  <2>2. ~ (other < least)
    BY <1>3, <2>1
  <2> QED BY <2>1, <2>2
<1> QED BY <1>4

\* Of manifests that have all finished by now, one finished last.
LEMMA NewestExists ==
  ASSUME NEW S, S # {}, now \in Nat,
         \A m \in S : m.finished \in Nat /\ m.finished <= now
  PROVE  \E m \in S : \A n \in S : n.finished <= m.finished
<1> DEFINE ages == {now - m.finished : m \in S}
<1>1. ages \in SUBSET Nat /\ ages # {}
  OBVIOUS
<1> HIDE DEF ages
<1>2. PICK age \in ages : \A other \in ages : age <= other
  BY <1>1, LeastExists
<1> USE DEF ages
<1>3. PICK m \in S : age = now - m.finished
  OBVIOUS
<1>4. ASSUME NEW n \in S
      PROVE  n.finished <= m.finished
  <2>1. now - n.finished \in ages
    OBVIOUS
  <2>2. now - m.finished <= now - n.finished
    BY <1>2, <1>3, <2>1
  <2> QED BY <2>2
<1> QED BY <1>4

\* Each repository's deciding manifest is one of the destination's, and what
\* the previous copies are made of is its entry.
LEMMA PreviousFrom ==
  ASSUME TypeOK, NEW selected \in SUBSET Repos, NEW worm \in Answers,
         NEW unread \in SUBSET manifests, NEW r \in Repos
  PROVE  \/ Previous(selected, worm, unread)[r] = NoCopy
         \/ \E m \in manifests : Previous(selected, worm, unread)[r] = PreviousCopy(m, r)
<1> DEFINE deciding == {m \in Recent(worm) \ unread : m.signed /\ Decides(m, r)}
           newest == CHOOSE m \in deciding : \A n \in deciding : n.finished <= m.finished
<1>1. Previous(selected, worm, unread)[r] =
        IF r \in selected /\ deciding # {} THEN PreviousCopy(newest, r) ELSE NoCopy
  BY DEF Previous
<1>2. ASSUME deciding # {}
      PROVE  newest \in manifests
  <2>1. /\ deciding \subseteq manifests
        /\ \A m \in deciding : m.finished \in Nat /\ m.finished <= now
    BY DEF TypeOK, Manifest, Recent
  <2>2. now \in Nat
    BY DEF TypeOK
  <2> HIDE DEF deciding
  <2>3. \E m \in deciding : \A n \in deciding : n.finished <= m.finished
    BY <1>2, <2>1, <2>2, NewestExists
  <2> QED BY <2>1, <2>3
<1> QED BY <1>1, <1>2

LEMMA PreviousCopyType ==
  ASSUME TypeOK, NEW m \in manifests, NEW r \in Repos
  PROVE  PreviousCopy(m, r) \in Copy
<1>1. m \in Manifest /\ m.entries[r] \in Entry
  BY DEF TypeOK, Manifest
<1>2. NoCopy \in Copy
  BY DEF NoCopy, Copy, Refs, NoTime
<1> QED BY <1>1, <1>2 DEF PreviousCopy, Copy, Entry, Manifest

LEMMA PreviousType ==
  ASSUME TypeOK, NEW selected \in SUBSET Repos, NEW worm \in Answers,
         NEW unread \in SUBSET manifests
  PROVE  Previous(selected, worm, unread) \in [Repos -> Copy]
<1>1. NoCopy \in Copy
  BY DEF NoCopy, Copy, Refs, NoTime
<1>2. \A r \in Repos : Previous(selected, worm, unread)[r] \in Copy
  BY <1>1, PreviousFrom, PreviousCopyType
<1> QED BY <1>2 DEF Previous

\* The manifest the search finds is one of those that record the copy.
LEMMA FirstFoundIn ==
  ASSUME TypeOK, NEW r \in Repos, NEW date \in Nat, NEW unread \in SUBSET manifests,
         Recording(r, date, unread) # {}
  PROVE  FirstFound(Recording(r, date, unread), date) \in Recording(r, date, unread)
<1> DEFINE found == Recording(r, date, unread)
           sameDay == {m \in found : DateOf(m.finished) = date}
           pool == IF sameDay # {} THEN sameDay ELSE found
<1>1. \A m \in found : m.finished \in Nat /\ m.finished <= now
  BY DEF TypeOK, Manifest, Recording
<1>2. pool # {} /\ pool \subseteq found
  OBVIOUS
<1>3. now \in Nat
  BY DEF TypeOK
<1>4. FirstFound(found, date) = CHOOSE m \in pool : \A n \in pool : n.finished <= m.finished
  BY DEF FirstFound
<1> HIDE DEF pool, found
<1>5. \E m \in pool : \A n \in pool : n.finished <= m.finished
  BY <1>1, <1>2, <1>3, NewestExists
<1>6. FirstFound(found, date) \in found
  BY <1>2, <1>4, <1>5
<1> QED BY <1>6 DEF found

\* What a rerun makes of what is under its date: nothing, or a skip that
\* repeats the entry of a manifest that records a copy for that date.
LEMMA ResumedEntryFrom ==
  ASSUME TypeOK, NEW w \in Runners, NEW r \in Repos, NEW unread \in SUBSET manifests
  PROVE  \/ ResumedEntry(w, r, unread) = Failed({})
         \/ \E m \in manifests :
              /\ RecordsCopy(m, r, DateOf(run[w].start))
              /\ ResumedEntry(w, r, unread) =
                   Skipped("resume", m.entries[r].refs,
                           IF m.entries[r].copiedAt = NoTime /\ m.entries[r].refs # NoRefs
                           THEN m.finished ELSE m.entries[r].copiedAt)
<1> DEFINE date == DateOf(run[w].start)
           found == Recording(r, date, unread)
<1>1. date \in Nat
  BY DateOfType DEF TypeOK, Run
<1>2. found \subseteq manifests /\ \A m \in found : RecordsCopy(m, r, date)
  BY DEF Recording
<1>3. found # {} => FirstFound(found, date) \in found
  <2> HIDE DEF date
  <2> QED BY <1>1, FirstFoundIn
<1> QED BY <1>2, <1>3 DEF ResumedEntry

LEMMA ResumedEntryType ==
  ASSUME TypeOK, NEW w \in Runners, NEW r \in Repos, NEW unread \in SUBSET manifests
  PROVE  ResumedEntry(w, r, unread) \in Entry
<1>1. CASE ResumedEntry(w, r, unread) = Failed({})
  BY <1>1, EntryType
<1>2. ASSUME NEW m \in manifests
      PROVE  Skipped("resume", m.entries[r].refs,
                     IF m.entries[r].copiedAt = NoTime /\ m.entries[r].refs # NoRefs
                     THEN m.finished ELSE m.entries[r].copiedAt) \in Entry
  <2>1. m.finished \in Nat /\ m.entries[r] \in Entry
    BY DEF TypeOK, Manifest
  <2>2. m.entries[r].refs \in Refs /\ m.entries[r].copiedAt \in Nat \cup {NoTime}
    BY <2>1 DEF Entry
  <2> QED BY <2>1, <2>2, EntryType
<1> QED BY <1>1, <1>2, ResumedEntryFrom

-----------------------------------------------------------------------------
(***************************************************************************)
(* Type correctness.                                                       *)
(***************************************************************************)

LEMMA SettleType ==
  ASSUME TypeOK, NEW w \in Runners, NEW r \in Repos, NEW entry \in Entry,
         Settle(w, r, entry), UNCHANGED <<now, source, started, run, manifests>>,
         \A o \in objects' : o \in Object
  PROVE  TypeOK'
<1>1. Settled(entry) \in Task
  BY TaskType
<1> QED BY <1>1 DEF TypeOK, Settle

LEMMA StoredType ==
  ASSUME TypeOK, NEW w \in Runners, NEW r \in Repos, NEW kind \in Kinds
  PROVE  \A o \in Stored(w, r, kind) : o \in Object
<1>1. run[w] \in Run /\ task[w][r] \in Task
  BY DEF TypeOK
<1>2. LockedUntil(w) \in Nat
  BY <1>1, ConstantsAssumption DEF LockedUntil, TypeOK, Run
<1>3. DateOf(run[w].start) \in Nat
  BY <1>1, DateOfType DEF Run
<1> QED BY <1>1, <1>2, <1>3 DEF Stored, Object, TypeOK, Run, Task

LEMMA EndType ==
  ASSUME TypeOK, NEW w \in Runners, End(w), UNCHANGED <<now, source, started, objects>>,
         \A m \in manifests' : m \in Manifest
  PROVE  TypeOK'
<1>1. Idle \in Run
  BY ConstantsAssumption DEF Idle, Run, Answer, Copy, NoCopy, Refs, NoTime
<1>2. NoTasks \in [Repos -> Task]
  BY TaskType DEF NoTasks
<1> QED BY <1>1, <1>2 DEF TypeOK, End

LEMMA TypeInit == Init => TypeOK
<1>1. Idle \in Run
  BY DEF Idle, Run, Answer, Copy, NoCopy, Refs, NoTime
<1>2. NoTasks \in [Repos -> Task]
  BY TaskType DEF NoTasks
<1> QED BY <1>1, <1>2 DEF Init, TypeOK

LEMMA TypeStep == TypeOK /\ [Next]_vars => TypeOK'
<1> SUFFICES ASSUME TypeOK, [Next]_vars
             PROVE  TypeOK'
  OBVIOUS
<1>1. ASSUME NEW w \in Runners, NEW selected \in SUBSET Repos, NEW worm \in Answers,
             NEW unread \in SUBSET manifests, Start(w, selected, worm, unread)
      PROVE  TypeOK'
  <2>1. Previous(selected, worm, unread) \in [Repos -> Copy]
    BY PreviousType
  <2>2. worm \in Answer
    BY ConstantsAssumption
  <2>3. [r \in Repos |-> At(IF r \in selected THEN "waiting" ELSE "none")] \in [Repos -> Task]
    BY TaskType
  <2>4. run' \in [Runners -> Run]
    BY <1>1, <2>1, <2>2 DEF Start, TypeOK, Run
  <2> QED BY <1>1, <2>3, <2>4 DEF Start, TypeOK
<1>2. ASSUME NEW w \in Runners, NEW r \in Repos, NEW unread \in SUBSET manifests,
             Resumed(w, r, unread)
      PROVE  TypeOK'
  <2>1. ResumedEntry(w, r, unread) \in Entry
    BY ResumedEntryType
  <2> QED BY <1>2, <2>1, SettleType DEF Resumed, TypeOK
<1>3. ASSUME NEW w \in Runners, NEW r \in Repos, NEW current, NEW listed,
             SkipUnchanged(w, r, current, listed)
      PROVE  TypeOK'
  <2>1. run[w].previous[r] \in Copy
    BY DEF TypeOK, Run
  <2>2. Skipped("unchanged", run[w].previous[r].refs, run[w].previous[r].copiedAt) \in Entry
    BY <2>1, EntryType DEF Copy
  <2> QED BY <1>3, <2>2, SettleType DEF SkipUnchanged, TypeOK
<1>4. ASSUME NEW w \in Runners, NEW r \in Repos, NEW current, NEW listed,
             BeginCopy(w, r, current, listed)
      PROVE  TypeOK'
  BY <1>4, TaskType DEF BeginCopy, TypeOK
<1>5. ASSUME NEW w \in Runners, NEW r \in Repos, CloneFails(w, r)
      PROVE  TypeOK'
  <2>1. Failed({}) \in Entry
    BY EntryType
  <2> QED BY <1>5, <2>1, SettleType DEF CloneFails, TypeOK
<1>6. ASSUME NEW w \in Runners, NEW r \in Repos, Clone(w, r)
      PROVE  TypeOK'
  <2>1. [At("uploading") EXCEPT !.copied = source[r]] \in Task
    BY TaskType DEF TypeOK, Task
  <2> QED BY <1>6, <2>1 DEF Clone, TypeOK
<1>7. ASSUME NEW w \in Runners, NEW r \in Repos, NEW kind \in Kinds, Upload(w, r, kind)
      PROVE  TypeOK'
  <2>1. \A o \in objects' : o \in Object
    BY <1>7, StoredType DEF Upload
  <2>2. [task[w][r] EXCEPT !.written = @ \cup {kind}] \in Task
    <3>1. task[w][r] \in Task
      BY DEF TypeOK
    <3>2. task[w][r].written \cup {kind} \in SUBSET Kinds
      BY <3>1 DEF Task
    <3> QED BY <3>1, <3>2 DEF Task
  <2>3. task' = [task EXCEPT ![w][r] = [task[w][r] EXCEPT !.written = @ \cup {kind}]]
    BY <1>7 DEF Upload, TypeOK
  <2> QED BY <1>7, <2>1, <2>2, <2>3 DEF Upload, TypeOK
<1>8. ASSUME NEW w \in Runners, NEW r \in Repos, NEW kind \in Kinds, NEW landed \in BOOLEAN,
             UploadFails(w, r, kind, landed)
      PROVE  TypeOK'
  <2>1. \A o \in objects' : o \in Object
    BY <1>8, StoredType DEF UploadFails, TypeOK
  <2>2. Failed(task[w][r].written) \in Entry
    BY EntryType DEF TypeOK, Task
  <2> QED BY <1>8, <2>1, <2>2, SettleType DEF UploadFails
<1>9. ASSUME NEW w \in Runners, NEW r \in Repos, FinishCopy(w, r)
      PROVE  TypeOK'
  <2> DEFINE t == task[w][r]
             entry == IF t.copied = NoRefs
                      THEN [Skipped("empty", NoRefs, NoTime) EXCEPT !.artifacts = t.written]
                      ELSE [status |-> "success", reason |-> "", artifacts |-> t.written,
                            refs |-> t.copied, copiedAt |-> now]
  <2>1. t.written \in SUBSET Kinds /\ t.copied \in Refs /\ now \in Nat
    BY DEF TypeOK, Task
  <2>2. Failed(t.written) \in Entry
    BY <2>1, EntryType
  <2>3. [Skipped("empty", NoRefs, NoTime) EXCEPT !.artifacts = t.written] \in Entry
    BY <2>1 DEF Skipped, Entry, Refs, NoTime
  <2>4. [status |-> "success", reason |-> "", artifacts |-> t.written,
         refs |-> t.copied, copiedAt |-> now] \in Entry
    BY <2>1 DEF Entry
  <2>5. (IF r \in NoMetadata THEN Failed(t.written) ELSE entry) \in Entry
    BY <2>2, <2>3, <2>4
  <2> QED BY <1>9, <2>5, SettleType DEF FinishCopy, CopyEntry, TypeOK
<1>10. ASSUME NEW w \in Runners, Stop(w)
       PROVE  TypeOK'
  <2>1. \A r \in Repos : Settled(Failed(task[w][r].written)) \in Task
    BY EntryType, TaskType DEF TypeOK, Task
  <2>2. [r \in Repos |-> IF r \in Selected(w) /\ task[w][r].step # "settled"
                         THEN Settled(Failed(task[w][r].written))
                         ELSE task[w][r]] \in [Repos -> Task]
    BY <2>1 DEF TypeOK
  <2> QED BY <1>10, <2>2 DEF Stop, TypeOK
<1>11. ASSUME NEW w \in Runners, FileManifest(w)
       PROVE  TypeOK'
  <2>1. FiledManifest(w) \in Manifest
    BY DateOfType DEF FiledManifest, Manifest, TypeOK, Run, Task
  <2> QED BY <1>11, <2>1 DEF FileManifest, TypeOK, Run
<1>12. ASSUME NEW w \in Runners, Sign(w)
       PROVE  TypeOK'
  <2>1. \A m \in manifests' : m \in Manifest
    BY <1>12 DEF Sign, TypeOK, Manifest
  <2> QED BY <1>12, <2>1, EndType DEF Sign
<1>13. ASSUME NEW w \in Runners, Crash(w)
       PROVE  TypeOK'
  BY <1>13, EndType DEF Crash, TypeOK
<1>14. ASSUME NEW r \in Repos, NEW refs \in RefMaps, Push(r, refs)
       PROVE  TypeOK'
  BY <1>14 DEF Push, TypeOK, Refs
<1>15. CASE Tick
  BY <1>15 DEF Tick, TypeOK
<1>16. CASE Lifecycle
  BY <1>16 DEF Lifecycle, TypeOK
<1>17. CASE UNCHANGED vars
  BY <1>17 DEF vars, TypeOK
<1> QED
  BY <1>1, <1>2, <1>3, <1>4, <1>5, <1>6, <1>7, <1>8, <1>9, <1>10, <1>11, <1>12, <1>13,
     <1>14, <1>15, <1>16, <1>17 DEF Next, RunStep

\* Every state a backup can reach is of the shapes TypeOK names.
THEOREM TypeCorrect == Spec => []TypeOK
BY TypeInit, TypeStep, PTL DEF Spec

-----------------------------------------------------------------------------
(***************************************************************************)
(* The recorded copies exist.                                              *)
(*                                                                         *)
(* RecordedCopiesExist is about manifests alone and is not inductive: what *)
(* a manifest will say is in the entries of the run that files it, what    *)
(* those rest on is in the objects written so far or in the copies the run *)
(* read from earlier manifests, and how long an object is locked counts    *)
(* from the start of its run, which is at most MaxRun ago. The inductive   *)
(* invariant says of each of these that it is honest.                      *)
(***************************************************************************)

\* Every run writes locked objects: the bucket's policy holds them, or no run
\* goes on without a confirmed lock.
AlwaysLocked == Policy > 0 \/ \A answer \in Answers : answer.immutable

\* A record of a copy that says when it was made, and is true.
Honest(r, copy) ==
  /\ copy.refs # NoRefs => copy.copiedAt \in Nat
  /\ Backed(r, copy)

\* The destination holds this one object of a copy, until its lock has ended.
Held(r, date, kind, id, refs, until) ==
  \/ now >= until
  \/ \E o \in objects : /\ o.repo = r /\ o.date = date /\ o.kind = kind
                        /\ o.run = id /\ o.refs = refs /\ o.until >= until

RunsInTime == \A w \in Runners : run[w].phase # "idle" =>
  /\ run[w].start <= now
  /\ now <= run[w].start + MaxRun
  /\ run[w].worm \in Answers

IdleHasNoTasks == \A w \in Runners : run[w].phase = "idle" => task[w] = NoTasks

WrittenHeld == \A w \in Runners, r \in Repos : task[w][r].step = "uploading" =>
  \A kind \in task[w][r].written :
    Held(r, DateOf(run[w].start), kind, run[w].id, task[w][r].copied,
         run[w].start + LockPeriod)

EntriesHonest == \A w \in Runners, r \in Repos : Honest(r, task[w][r].entry)
PreviousHonest == \A w \in Runners, r \in Repos : Honest(r, run[w].previous[r])
ManifestsHonest == \A m \in manifests : \A r \in Repos : Honest(r, m.entries[r])

IInv ==
  /\ TypeOK
  /\ RunsInTime
  /\ IdleHasNoTasks
  /\ WrittenHeld
  /\ EntriesHonest
  /\ PreviousHonest
  /\ ManifestsHonest

\* What a step may take from a record of a copy: time passes, and an object
\* goes only when its lock has ended.
Kept ==
  /\ now \in Nat /\ now' \in Nat /\ now <= now'
  /\ \A o \in objects : o \in Object
  /\ \A o \in objects : o \in objects' \/ o.until <= now'

LEMMA LockIsInt == LockPeriod \in Nat /\ LockSpan \in Int
BY ConstantsAssumption DEF LockPeriod, LockSpan

LEMMA HonestKept ==
  ASSUME Kept, NEW r \in Repos, NEW copy, Honest(r, copy)
  PROVE  Honest(r, copy)'
<1>1. CASE copy.refs = NoRefs
  BY <1>1 DEF Honest, Backed
<1>2. CASE copy.refs # NoRefs
  <2> DEFINE until == copy.copiedAt + LockSpan
  <2>1. copy.copiedAt \in Nat /\ until \in Int
    BY <1>2, LockIsInt DEF Honest
  <2>2. CASE now' >= until
    BY <2>1, <2>2 DEF Honest, Backed
  <2>3. CASE ~ (now' >= until)
    <3>1. HoldsCopy(r, copy.refs, until)
      BY <1>2, <2>1, <2>3 DEF Kept, Honest, Backed
    <3>2. PICK o \in objects : \A kind \in CopyKinds(r) : \E q \in objects :
            /\ q.repo = r /\ q.date = o.date /\ q.kind = kind /\ q.run = o.run
            /\ q.refs = copy.refs /\ q.until >= until
      BY <3>1 DEF HoldsCopy
    <3>3. \A q \in objects : q.until >= until => q \in objects'
      BY <2>1, <2>3 DEF Kept, Object
    <3>4. PICK b \in objects' : b.date = o.date /\ b.run = o.run
      BY <3>2, <3>3 DEF CopyKinds
    <3>5. \A kind \in CopyKinds(r) : \E q \in objects' :
            /\ q.repo = r /\ q.date = b.date /\ q.kind = kind /\ q.run = b.run
            /\ q.refs = copy.refs /\ q.until >= until
      BY <3>2, <3>3, <3>4
    <3>6. HoldsCopy(r, copy.refs, until)'
      BY <3>5 DEF HoldsCopy
    <3> QED BY <2>1, <3>6 DEF Honest, Backed
  <2> QED BY <2>2, <2>3
<1> QED BY <1>1, <1>2

LEMMA HeldKept ==
  ASSUME Kept, NEW r \in Repos, NEW date, NEW kind, NEW id, NEW refs, NEW until \in Int,
         Held(r, date, kind, id, refs, until)
  PROVE  Held(r, date, kind, id, refs, until)'
BY DEF Kept, Held, Object

LEMMA StepKeeps == TypeOK /\ [Next]_vars => Kept
<1> SUFFICES ASSUME TypeOK, [Next]_vars
             PROVE  Kept
  OBVIOUS
<1>1. TypeOK'
  BY TypeStep
<1>2. now \in Nat /\ now' \in Nat /\ \A o \in objects : o \in Object
  BY <1>1 DEF TypeOK
<1>3. CASE Tick
  BY <1>2, <1>3 DEF Tick, Kept
<1>4. CASE Lifecycle
  BY <1>2, <1>4 DEF Lifecycle, Kept, Object
<1>5. ASSUME now' = now, objects \subseteq objects'
      PROVE  Kept
  BY <1>2, <1>5 DEF Kept
<1>6. ASSUME NEW w \in Runners, RunStep(w)
      PROVE  now' = now /\ objects \subseteq objects'
  <2>1. \A selected \in SUBSET Repos, worm \in Answers, unread \in SUBSET manifests :
          Start(w, selected, worm, unread) => now' = now /\ objects' = objects
    BY DEF Start
  <2>2. \A r \in Repos, unread \in SUBSET manifests :
          Resumed(w, r, unread) => now' = now /\ objects' = objects
    BY DEF Resumed
  <2>3. \A r \in Repos : \A current \in {source[r], NoRefs}, listed \in BOOLEAN :
          SkipUnchanged(w, r, current, listed) \/ BeginCopy(w, r, current, listed)
          => now' = now /\ objects' = objects
    BY DEF SkipUnchanged, BeginCopy
  <2>4. \A r \in Repos : CloneFails(w, r) \/ Clone(w, r) \/ FinishCopy(w, r)
                         => now' = now /\ objects' = objects
    BY DEF CloneFails, Clone, FinishCopy
  <2>5. \A r \in Repos, kind \in Kinds :
          Upload(w, r, kind) \/ (\E landed \in BOOLEAN : UploadFails(w, r, kind, landed))
          => now' = now /\ objects \subseteq objects'
    BY DEF Upload, UploadFails, Stored
  <2>6. Stop(w) \/ FileManifest(w) \/ Sign(w) \/ Crash(w) => now' = now /\ objects' = objects
    BY DEF Stop, FileManifest, Sign, Crash
  <2> QED BY <1>6, <2>1, <2>2, <2>3, <2>4, <2>5, <2>6, Zenon DEF RunStep
<1>7. ASSUME NEW r \in Repos, NEW refs \in RefMaps, Push(r, refs)
      PROVE  now' = now /\ objects \subseteq objects'
  BY <1>7 DEF Push
<1> QED BY <1>3, <1>4, <1>5, <1>6, <1>7 DEF Next, vars

\* What a run writes is locked for the whole period from the run's start.
LEMMA WritesAreLocked ==
  ASSUME AlwaysLocked, TypeOK, RunsInTime, NEW w \in Runners, run[w].phase # "idle"
  PROVE  LockedUntil(w) >= run[w].start + LockPeriod
<1>1. run[w].start \in Nat /\ now \in Nat /\ run[w].start <= now /\ run[w].worm \in Answers
  BY DEF TypeOK, Run, RunsInTime
<1> QED BY <1>1, ConstantsAssumption DEF AlwaysLocked, LockedUntil, LockPeriod

LEMMA SettledHas ==
  \A entry : Settled(entry).entry = entry /\ Settled(entry).step = "settled"
BY DEF Settled, At

\* A record without refs relies on no copy.
LEMMA NothingRecorded ==
  ASSUME NEW r \in Repos
  PROVE  /\ \A artifacts : Honest(r, Failed(artifacts))
         /\ Honest(r, NoEntry) /\ Honest(r, NoCopy)
         /\ \A step : Honest(r, At(step).entry)
BY DEF Honest, Backed, Failed, NoEntry, NoCopy, At

\* What a run takes from an honest manifest, for a skip today or tomorrow.
LEMMA PreviousIsHonest ==
  ASSUME TypeOK, ManifestsHonest, NEW selected \in SUBSET Repos, NEW worm \in Answers,
         NEW unread \in SUBSET manifests, NEW r \in Repos
  PROVE  Honest(r, Previous(selected, worm, unread)[r])
<1>1. ASSUME NEW m \in manifests
      PROVE  Honest(r, PreviousCopy(m, r))
  <2>1. m.entries[r] \in Entry /\ Honest(r, m.entries[r])
    BY DEF TypeOK, Manifest, ManifestsHonest
  <2>2. m.entries[r].refs # NoRefs => m.entries[r].copiedAt # NoTime
    BY <2>1 DEF Honest, NoTime
  <2> QED BY <2>1, <2>2 DEF PreviousCopy, NoCopy, Honest, Backed
<1> QED BY <1>1, NothingRecorded, PreviousFrom

LEMMA ResumedIsHonest ==
  ASSUME TypeOK, ManifestsHonest, NEW w \in Runners, NEW r \in Repos,
         NEW unread \in SUBSET manifests
  PROVE  Honest(r, ResumedEntry(w, r, unread))
<1>1. CASE ResumedEntry(w, r, unread) = Failed({})
  BY <1>1, NothingRecorded
<1>2. ASSUME NEW m \in manifests
      PROVE  Honest(r, Skipped("resume", m.entries[r].refs,
                       IF m.entries[r].copiedAt = NoTime /\ m.entries[r].refs # NoRefs
                       THEN m.finished ELSE m.entries[r].copiedAt))
  <2>1. m.entries[r] \in Entry /\ Honest(r, m.entries[r])
    BY DEF TypeOK, Manifest, ManifestsHonest
  <2>2. m.entries[r].refs # NoRefs => m.entries[r].copiedAt # NoTime
    BY <2>1 DEF Honest, NoTime
  <2> QED BY <2>1, <2>2 DEF Skipped, Honest, Backed
<1> QED BY <1>1, <1>2, ResumedEntryFrom

\* A copy all of whose objects were written is recorded truthfully, from now
\* on: the run began at most MaxRun ago, and the locks count from then.
LEMMA FinishedIsHonest ==
  ASSUME IInv, NEW w \in Runners, NEW r \in Repos, task[w][r].step = "uploading",
         Remaining(w, r) = {}, r \notin NoMetadata, task[w][r].copied # NoRefs,
         NEW entry, entry.refs = task[w][r].copied, entry.copiedAt = now
  PROVE  Honest(r, entry)
<1> DEFINE end == run[w].start + LockPeriod
           date == DateOf(run[w].start)
<1>1. run[w].phase # "idle"
  BY DEF IInv, IdleHasNoTasks, NoTasks, At, TypeOK
<1>2. run[w].start \in Nat /\ now \in Nat /\ now <= run[w].start + MaxRun
  BY <1>1 DEF IInv, RunsInTime, TypeOK, Run
<1>3. now + LockSpan <= end /\ end \in Nat
  BY <1>2, ConstantsAssumption, LockIsInt DEF LockSpan
<1>4. CASE now >= end
  BY <1>2, <1>3, <1>4, LockIsInt DEF Honest, Backed
<1>5. CASE ~ (now >= end)
  <2>1. CopyKinds(r) \subseteq task[w][r].written
    BY DEF Remaining, Staged, CopyKinds
  <2>2. \A kind \in CopyKinds(r) : \E o \in objects :
          /\ o.repo = r /\ o.date = date /\ o.kind = kind
          /\ o.run = run[w].id /\ o.refs = entry.refs /\ o.until >= end
    BY <1>5, <2>1 DEF IInv, WrittenHeld, Held
  <2>3. \A o \in objects : o.until >= end => o.until >= now + LockSpan
    BY <1>2, <1>3, LockIsInt DEF IInv, TypeOK, Object
  <2>4. \A kind \in CopyKinds(r) : \E o \in objects :
          /\ o.repo = r /\ o.date = date /\ o.kind = kind
          /\ o.run = run[w].id /\ o.refs = entry.refs /\ o.until >= now + LockSpan
    BY <2>2, <2>3
  <2>5. PICK b \in objects : b.date = date /\ b.run = run[w].id
    BY <2>2 DEF CopyKinds
  <2>6. HoldsCopy(r, entry.refs, now + LockSpan)
    BY <2>4, <2>5 DEF HoldsCopy
  <2> QED BY <1>2, <2>6 DEF Honest, Backed
<1> QED BY <1>4, <1>5

-----------------------------------------------------------------------------
(***************************************************************************)
(* The steps, by what they change.                                         *)
(***************************************************************************)

\* Records that do not change stay honest.
LEMMA RecordsKept ==
  ASSUME Kept
  PROVE  /\ EntriesHonest /\ UNCHANGED task => EntriesHonest'
         /\ PreviousHonest /\ UNCHANGED run => PreviousHonest'
         /\ ManifestsHonest /\ UNCHANGED manifests => ManifestsHonest'
<1>1. ASSUME EntriesHonest, UNCHANGED task
      PROVE  EntriesHonest'
  <2> SUFFICES ASSUME NEW w \in Runners, NEW r \in Repos
               PROVE  Honest(r, task[w][r].entry)'
    BY DEF EntriesHonest
  <2>1. PICK copy : copy = task[w][r].entry
    OBVIOUS
  <2>2. Honest(r, copy)'
    BY <1>1, <2>1, HonestKept DEF EntriesHonest
  <2>3. copy = task'[w][r].entry
    BY <1>1, <2>1
  <2> QED BY <2>2, <2>3, ZenonT(60) DEF Honest, Backed, HoldsCopy
<1>2. ASSUME PreviousHonest, UNCHANGED run
      PROVE  PreviousHonest'
  <2> SUFFICES ASSUME NEW w \in Runners, NEW r \in Repos
               PROVE  Honest(r, run[w].previous[r])'
    BY DEF PreviousHonest
  <2>1. PICK copy : copy = run[w].previous[r]
    OBVIOUS
  <2>2. Honest(r, copy)'
    BY <1>2, <2>1, HonestKept DEF PreviousHonest
  <2>3. copy = run'[w].previous[r]
    BY <1>2, <2>1
  <2> QED BY <2>2, <2>3, ZenonT(60) DEF Honest, Backed, HoldsCopy
<1>3. ASSUME ManifestsHonest, UNCHANGED manifests
      PROVE  ManifestsHonest'
  BY <1>3, HonestKept DEF ManifestsHonest
<1> QED BY <1>1, <1>2, <1>3

\* What is written stays held, while its task goes on.
LEMMA WrittenKept ==
  ASSUME Kept, TypeOK, WrittenHeld, NEW w \in Runners, NEW r \in Repos,
         task[w][r].step = "uploading", NEW kind \in task[w][r].written,
         run'[w] = run[w], task'[w][r].copied = task[w][r].copied
  PROVE  Held(r, DateOf(run[w].start), kind, run[w].id, task[w][r].copied,
              run[w].start + LockPeriod)'
<1>1. PICK date, id, refs, until :
        /\ date = DateOf(run[w].start) /\ id = run[w].id /\ refs = task[w][r].copied
        /\ until = run[w].start + LockPeriod
  OBVIOUS
<1>2. until \in Int
  BY <1>1, LockIsInt DEF TypeOK, Run
<1>3. Held(r, date, kind, id, refs, until)'
  BY <1>1, <1>2, HeldKept DEF WrittenHeld
<1>4. /\ date = DateOf(run'[w].start) /\ id = run'[w].id /\ refs = task'[w][r].copied
      /\ until = run'[w].start + LockPeriod
  BY <1>1
<1> QED BY <1>3, <1>4 DEF Held, DateOf

\* The entry of one task changes, to an honest one.
LEMMA EntriesStep ==
  ASSUME EntriesHonest, Kept, NEW w \in Runners, NEW r \in Repos, NEW t, task'[w][r] = t,
         \A v \in Runners, q \in Repos : ~ (v = w /\ q = r) => task'[v][q] = task[v][q],
         Honest(r, t.entry)
  PROVE  EntriesHonest'
<1> SUFFICES ASSUME NEW v \in Runners, NEW q \in Repos
             PROVE  Honest(q, task[v][q].entry)'
  BY DEF EntriesHonest
<1>1. PICK copy : copy = IF v = w /\ q = r THEN t.entry ELSE task[v][q].entry
  OBVIOUS
<1>2. Honest(q, copy)'
  BY <1>1, HonestKept DEF EntriesHonest
<1>3. copy = task'[v][q].entry
  BY <1>1
<1> QED BY <1>2, <1>3, SMTT(60) DEF Honest, Backed, HoldsCopy

\* A run goes on with one repository: its entry is honest, and what it wrote
\* is held.
LEMMA TaskStep ==
  ASSUME IInv, TypeOK', Kept, NEW w \in Runners, NEW r \in Repos, NEW t,
         task' = [task EXCEPT ![w][r] = t], task[w][r].step # "none",
         Honest(r, t.entry),
         t.step = "uploading" => \A kind \in t.written :
           Held(r, DateOf(run[w].start), kind, run[w].id, t.copied,
                run[w].start + LockPeriod)',
         UNCHANGED <<now, run, manifests>>
  PROVE  IInv'
<1>1. RunsInTime'
  BY DEF IInv, RunsInTime
<1>2. run[w].phase # "idle"
  BY DEF IInv, IdleHasNoTasks, NoTasks, At, TypeOK
<1>3. \A v \in Runners : v # w => task'[v] = task[v]
  BY DEF IInv, TypeOK
<1>4. \A v \in Runners, q \in Repos : ~ (v = w /\ q = r) => task'[v][q] = task[v][q]
  BY DEF IInv, TypeOK
<1>5. task'[w][r] = t
  BY DEF IInv, TypeOK
<1>6. IdleHasNoTasks'
  BY <1>2, <1>3 DEF IInv, IdleHasNoTasks
<1>7. WrittenHeld'
  <2> SUFFICES ASSUME NEW v \in Runners, NEW q \in Repos, (task[v][q].step = "uploading")',
                      NEW kind \in task'[v][q].written
               PROVE  Held(q, DateOf(run[v].start), kind, run[v].id, task[v][q].copied,
                           run[v].start + LockPeriod)'
    BY DEF WrittenHeld
  <2>1. CASE v = w /\ q = r
    BY <1>5, <2>1 DEF Held, DateOf
  <2>2. CASE ~ (v = w /\ q = r)
    <3>1. task'[v][q] = task[v][q]
      BY <1>4, <2>2
    <3> QED BY <3>1, WrittenKept DEF IInv
  <2> QED BY <2>1, <2>2
<1>8. EntriesHonest'
  BY <1>4, <1>5, EntriesStep DEF IInv
<1>9. PreviousHonest' /\ ManifestsHonest'
  BY RecordsKept DEF IInv
<1> QED BY <1>1, <1>6, <1>7, <1>8, <1>9 DEF IInv

\* A repository is settled with an honest entry.
LEMMA SettleStep ==
  ASSUME IInv, TypeOK', Kept, NEW w \in Runners, NEW r \in Repos, NEW entry,
         Settle(w, r, entry), Honest(r, entry), task[w][r].step # "none",
         UNCHANGED <<now, run, manifests>>
  PROVE  IInv'
<1>1. task' = [task EXCEPT ![w][r] = Settled(entry)]
  BY Zenon DEF Settle
<1>2. Settled(entry).entry = entry /\ Settled(entry).step # "uploading"
  BY SettledHas
<1>3. Honest(r, Settled(entry).entry)
  BY <1>2, Zenon
<1> QED BY <1>1, <1>2, <1>3, TaskStep

\* The run of one process is over, or a new one begins in it: its tasks hold
\* no entry and nothing written, and what it read before is honest.
LEMMA BoundaryStep ==
  ASSUME IInv, TypeOK', Kept, NEW w \in Runners, RunsInTime', IdleHasNoTasks',
         \A r \in Repos : task'[w][r].step # "uploading" /\ task'[w][r].entry = NoEntry,
         \A r \in Repos : Honest(r, run[w].previous[r])',
         \A v \in Runners : v # w => task'[v] = task[v] /\ run'[v] = run[v],
         ManifestsHonest'
  PROVE  IInv'
<1>1. WrittenHeld'
  <2> SUFFICES ASSUME NEW v \in Runners, NEW q \in Repos, (task[v][q].step = "uploading")',
                      NEW kind \in task'[v][q].written
               PROVE  Held(q, DateOf(run[v].start), kind, run[v].id, task[v][q].copied,
                           run[v].start + LockPeriod)'
    BY DEF WrittenHeld
  <2>1. v # w /\ task'[v] = task[v] /\ run'[v] = run[v]
    OBVIOUS
  <2> QED BY <2>1, WrittenKept DEF IInv
<1>2. EntriesHonest'
  <2> SUFFICES ASSUME NEW v \in Runners, NEW q \in Repos
               PROVE  Honest(q, task[v][q].entry)'
    BY DEF EntriesHonest
  <2>1. PICK copy : copy = IF v = w THEN NoEntry ELSE task[v][q].entry
    OBVIOUS
  <2>2. Honest(q, copy)'
    BY <2>1, HonestKept, NothingRecorded DEF IInv, EntriesHonest
  <2>3. copy = task'[v][q].entry
    BY <2>1
  <2> QED BY <2>2, <2>3, SMTT(60) DEF Honest, Backed, HoldsCopy
<1>3. PreviousHonest'
  <2> SUFFICES ASSUME NEW v \in Runners, NEW q \in Repos, v # w
               PROVE  Honest(q, run[v].previous[q])'
    BY DEF PreviousHonest
  <2>1. PICK copy : copy = run[v].previous[q]
    OBVIOUS
  <2>2. Honest(q, copy)'
    BY <2>1, HonestKept DEF IInv, PreviousHonest
  <2>3. copy = run'[v].previous[q]
    BY <2>1
  <2> QED BY <2>2, <2>3, SMTT(60) DEF Honest, Backed, HoldsCopy
<1> QED BY <1>1, <1>2, <1>3 DEF IInv

LEMMA InvInit == Init => IInv
<1> SUFFICES ASSUME Init
             PROVE  IInv
  OBVIOUS
<1>1. TypeOK
  BY TypeInit
<1>2. RunsInTime /\ IdleHasNoTasks /\ WrittenHeld /\ ManifestsHonest
  BY DEF Init, RunsInTime, IdleHasNoTasks, WrittenHeld, ManifestsHonest, Idle, NoTasks, At
<1>3. EntriesHonest
  BY NothingRecorded DEF Init, EntriesHonest, NoTasks
<1>4. PreviousHonest
  BY NothingRecorded DEF Init, PreviousHonest, Idle
<1> QED BY <1>1, <1>2, <1>3, <1>4 DEF IInv

LEMMA InvStep ==
  ASSUME AlwaysLocked
  PROVE  IInv /\ [Next]_vars => IInv'
<1> SUFFICES ASSUME IInv, [Next]_vars
             PROVE  IInv'
  OBVIOUS
<1>a. TypeOK /\ TypeOK' /\ Kept
  BY TypeStep, StepKeeps DEF IInv
<1>b. ASSUME NEW w \in Runners, NEW r \in Repos, task[w][r].step = "uploading"
      PROVE  run[w].phase # "idle"
  BY <1>b DEF IInv, IdleHasNoTasks, NoTasks, At
<1>1. ASSUME NEW w \in Runners, NEW selected \in SUBSET Repos, NEW worm \in Answers,
             NEW unread \in SUBSET manifests, Start(w, selected, worm, unread)
      PROVE  IInv'
  <2>1. run' = [run EXCEPT ![w] =
          [phase |-> "copying", id |-> started + 1, start |-> now, worm |-> worm,
           previous |-> Previous(selected, worm, unread)]]
    BY <1>1 DEF Start
  <2>2. \A v \in Runners : v # w => task'[v] = task[v] /\ run'[v] = run[v]
    BY <1>1, <2>1 DEF Start, IInv, TypeOK
  <2>3. /\ run'[w].phase = "copying" /\ run'[w].start = now /\ run'[w].worm = worm
        /\ run'[w].previous = Previous(selected, worm, unread)
        /\ now' = now /\ objects' = objects /\ manifests' = manifests
    BY <1>1, <2>1 DEF Start, IInv, TypeOK
  <2>4. RunsInTime' /\ IdleHasNoTasks'
    BY <2>2, <2>3, ConstantsAssumption DEF IInv, RunsInTime, IdleHasNoTasks, TypeOK
  <2>5. \A r \in Repos : task'[w][r].step # "uploading" /\ task'[w][r].entry = NoEntry
    BY <1>1 DEF Start, At, IInv, TypeOK
  <2>6. ASSUME NEW r \in Repos
        PROVE  Honest(r, run[w].previous[r])'
    <3>1. PICK copy : copy = Previous(selected, worm, unread)[r]
      OBVIOUS
    <3>2. Honest(r, copy)'
      BY <1>a, <3>1, PreviousIsHonest, HonestKept DEF IInv
    <3>3. copy = run'[w].previous[r]
      BY <2>3, <3>1
    <3> QED BY <3>2, <3>3, SMTT(60) DEF Honest, Backed, HoldsCopy
  <2>7. ManifestsHonest'
    BY <1>a, <2>3, RecordsKept DEF IInv
  <2> QED BY <1>a, <2>2, <2>4, <2>5, <2>6, <2>7, BoundaryStep
<1>2. ASSUME NEW w \in Runners, NEW r \in Repos, NEW unread \in SUBSET manifests,
             Resumed(w, r, unread)
      PROVE  IInv'
  BY <1>2, <1>a, ResumedIsHonest, SettleStep DEF Resumed, IInv
<1>3. ASSUME NEW w \in Runners, NEW r \in Repos, NEW current, NEW listed,
             SkipUnchanged(w, r, current, listed)
      PROVE  IInv'
  <2> DEFINE copy == run[w].previous[r]
             entry == Skipped("unchanged", copy.refs, copy.copiedAt)
  <2>1. Honest(r, entry)
    BY DEF IInv, PreviousHonest, Skipped, Honest, Backed
  <2>2. Settle(w, r, entry) /\ task[w][r].step # "none" /\ UNCHANGED <<now, run, manifests>>
    BY <1>3 DEF SkipUnchanged, Compared
  <2> HIDE DEF entry
  <2> QED BY <1>a, <2>1, <2>2, SettleStep
<1>4. ASSUME NEW w \in Runners, NEW r \in Repos, NEW current, NEW listed,
             BeginCopy(w, r, current, listed)
      PROVE  IInv'
  <2>1. At("cloning").step = "cloning" /\ Honest(r, At("cloning").entry)
    BY NothingRecorded DEF At
  <2> QED BY <1>4, <1>a, <2>1, TaskStep DEF BeginCopy, Compared
<1>5. ASSUME NEW w \in Runners, NEW r \in Repos, CloneFails(w, r)
      PROVE  IInv'
  BY <1>5, <1>a, NothingRecorded, SettleStep DEF CloneFails
<1>6. ASSUME NEW w \in Runners, NEW r \in Repos, Clone(w, r)
      PROVE  IInv'
  <2>0. PICK t : t = [At("uploading") EXCEPT !.copied = source[r]]
    OBVIOUS
  <2>1. t.entry = NoEntry /\ t.written = {}
    BY <2>0 DEF At
  <2>2. task' = [task EXCEPT ![w][r] = t] /\ task[w][r].step # "none"
        /\ UNCHANGED <<now, run, manifests>>
    BY <1>6, <2>0 DEF Clone
  <2> QED BY <1>a, <2>1, <2>2, NothingRecorded, TaskStep
<1>7. ASSUME NEW w \in Runners, NEW r \in Repos, NEW kind \in Kinds, Upload(w, r, kind)
      PROVE  IInv'
  <2>0. PICK t : t = [task[w][r] EXCEPT !.written = @ \cup {kind}]
    OBVIOUS
  <2>1. task[w][r] \in Task /\ run[w] \in Run
    BY <1>a DEF TypeOK
  <2>2. task' = [task EXCEPT ![w][r] = t] /\ task[w][r].step = "uploading"
        /\ UNCHANGED <<now, run, manifests>>
    BY <1>7, <1>a, <2>0 DEF Upload, NextUpload, TypeOK
  <2>3. t.entry = task[w][r].entry /\ t.copied = task[w][r].copied
        /\ t.written = task[w][r].written \cup {kind}
    BY <2>0, <2>1 DEF Task
  <2>4. Honest(r, t.entry)
    BY <2>3 DEF IInv, EntriesHonest
  <2>5. task'[w][r] = t
    BY <1>a, <2>2 DEF TypeOK
  <2>6. ASSUME NEW k \in t.written
        PROVE  Held(r, DateOf(run[w].start), k, run[w].id, t.copied,
                    run[w].start + LockPeriod)'
    <3>1. CASE k \in task[w][r].written
      <4>1. Held(r, DateOf(run[w].start), k, run[w].id, task[w][r].copied,
                 run[w].start + LockPeriod)'
        BY <1>a, <2>2, <2>3, <2>5, <3>1, WrittenKept DEF IInv
      <4> QED BY <2>2, <2>3, <2>5, <4>1 DEF Held, DateOf
    <3>2. CASE k = kind
      <4> DEFINE o == [repo |-> r, date |-> DateOf(run[w].start), kind |-> kind,
                       run |-> run[w].id, refs |-> task[w][r].copied,
                       written |-> now, until |-> LockedUntil(w)]
      <4>1. o \in objects'
        BY <1>7 DEF Upload, Stored
      <4>2. o.until >= run[w].start + LockPeriod
        BY <1>b, <2>2, WritesAreLocked DEF IInv
      <4> QED BY <2>2, <2>3, <2>5, <3>2, <4>1, <4>2 DEF Held, DateOf
    <3> QED BY <2>3, <3>1, <3>2
  <2> QED BY <1>a, <2>2, <2>4, <2>6, TaskStep
<1>8. ASSUME NEW w \in Runners, NEW r \in Repos, NEW kind \in Kinds, NEW landed \in BOOLEAN,
             UploadFails(w, r, kind, landed)
      PROVE  IInv'
  BY <1>8, <1>a, NothingRecorded, SettleStep DEF UploadFails, NextUpload
<1>9. ASSUME NEW w \in Runners, NEW r \in Repos, FinishCopy(w, r)
      PROVE  IInv'
  <2> DEFINE t == task[w][r]
             copy == [status |-> "success", reason |-> "", artifacts |-> t.written,
                      refs |-> t.copied, copiedAt |-> now]
             empty == [Skipped("empty", NoRefs, NoTime) EXCEPT !.artifacts = t.written]
             entry == IF r \in NoMetadata THEN Failed(t.written)
                      ELSE IF t.copied = NoRefs THEN empty ELSE copy
  <2>1. t.step = "uploading" /\ Remaining(w, r) = {} /\ Settle(w, r, entry)
        /\ UNCHANGED <<now, run, manifests>>
    BY <1>9 DEF FinishCopy, CopyEntry
  <2>2. r \notin NoMetadata /\ t.copied # NoRefs => Honest(r, copy)
    <3>1. copy.refs = t.copied /\ copy.copiedAt = now
      OBVIOUS
    <3> HIDE DEF copy
    <3> QED BY <2>1, <3>1, FinishedIsHonest
  <2>3. Honest(r, empty)
    BY DEF Skipped, Honest, Backed
  <2>4. Honest(r, entry)
    BY <2>2, <2>3, NothingRecorded
  <2> HIDE DEF entry
  <2> QED BY <1>a, <2>1, <2>4, SettleStep
<1>10. ASSUME NEW w \in Runners, Stop(w)
       PROVE  IInv'
  <2>1. \A v \in Runners, q \in Repos :
          \/ task'[v][q] = task[v][q]
          \/ task'[v][q] = Settled(Failed(task[v][q].written))
    BY <1>10, <1>a DEF Stop, TypeOK
  <2>2. \A v \in Runners : v # w => task'[v] = task[v]
    BY <1>10, <1>a DEF Stop, TypeOK
  <2>3. UNCHANGED <<now, run, manifests>> /\ run[w].phase # "idle"
    BY <1>10 DEF Stop
  <2>4. RunsInTime' /\ IdleHasNoTasks'
    BY <2>2, <2>3 DEF IInv, RunsInTime, IdleHasNoTasks
  <2>5. WrittenHeld'
    <3> SUFFICES ASSUME NEW v \in Runners, NEW q \in Repos, (task[v][q].step = "uploading")',
                        NEW kind \in task'[v][q].written
                 PROVE  Held(q, DateOf(run[v].start), kind, run[v].id, task[v][q].copied,
                             run[v].start + LockPeriod)'
      BY DEF WrittenHeld
    <3>1. task'[v][q] = task[v][q]
      BY <2>1, SettledHas
    <3> QED BY <1>a, <2>3, <3>1, WrittenKept DEF IInv
  <2>6. EntriesHonest'
    <3> SUFFICES ASSUME NEW v \in Runners, NEW q \in Repos
                 PROVE  Honest(q, task[v][q].entry)'
      BY DEF EntriesHonest
    <3>1. PICK copy : copy = task'[v][q].entry
      OBVIOUS
    <3>2. Honest(q, copy)
      BY <2>1, <3>1, NothingRecorded, SettledHas DEF IInv, EntriesHonest
    <3>3. Honest(q, copy)'
      BY <1>a, <3>2, HonestKept
    <3> QED BY <3>1, <3>3 DEF Honest, Backed, HoldsCopy
  <2>7. PreviousHonest' /\ ManifestsHonest'
    BY <1>a, <2>3, RecordsKept DEF IInv
  <2> QED BY <1>a, <2>4, <2>5, <2>6, <2>7 DEF IInv
<1>11. ASSUME NEW w \in Runners, FileManifest(w)
       PROVE  IInv'
  <2>1. UNCHANGED <<now, objects, task>> /\ run' = [run EXCEPT ![w].phase = "signing"]
        /\ run[w].phase = "copying" /\ manifests' = manifests \cup {FiledManifest(w)}
    BY <1>11 DEF FileManifest, AllSettled
  <2>2. \A v \in Runners :
          /\ run'[v].start = run[v].start /\ run'[v].id = run[v].id
          /\ run'[v].worm = run[v].worm /\ run'[v].previous = run[v].previous
          /\ run'[v].phase = "idle" <=> run[v].phase = "idle"
    BY <1>a, <2>1 DEF TypeOK, Run
  <2>3. RunsInTime' /\ IdleHasNoTasks'
    BY <2>1, <2>2 DEF IInv, RunsInTime, IdleHasNoTasks
  <2>4. WrittenHeld'
    BY <2>1, <2>2 DEF IInv, WrittenHeld, Held, DateOf
  <2>5. EntriesHonest'
    BY <1>a, <2>1, RecordsKept DEF IInv
  <2>6. PreviousHonest'
    BY <2>1, <2>2 DEF IInv, PreviousHonest, Honest, Backed, HoldsCopy
  <2>7. ASSUME NEW m \in manifests', NEW r \in Repos
        PROVE  Honest(r, m.entries[r])'
    <3>1. Honest(r, m.entries[r])
      BY <2>1 DEF IInv, ManifestsHonest, EntriesHonest, FiledManifest
    <3> QED BY <1>a, <3>1, HonestKept
  <2> QED BY <1>a, <2>3, <2>4, <2>5, <2>6, <2>7 DEF IInv, ManifestsHonest
<1>c. ASSUME NEW w \in Runners, End(w), UNCHANGED now, ManifestsHonest'
      PROVE  IInv'
  <2>1. run'[w] = Idle /\ task'[w] = NoTasks
        /\ \A v \in Runners : v # w => task'[v] = task[v] /\ run'[v] = run[v]
    BY <1>c, <1>a DEF End, TypeOK
  <2>2. RunsInTime' /\ IdleHasNoTasks'
    BY <1>c, <2>1 DEF IInv, RunsInTime, IdleHasNoTasks, Idle
  <2>3. \A r \in Repos : task'[w][r].step # "uploading" /\ task'[w][r].entry = NoEntry
    BY <2>1 DEF NoTasks, At
  <2>4. ASSUME NEW r \in Repos
        PROVE  Honest(r, run[w].previous[r])'
    <3>1. run'[w].previous[r] = NoCopy
      BY <2>1 DEF Idle
    <3> QED BY <3>1 DEF Honest, Backed, NoCopy
  <2> QED BY <1>c, <1>a, <2>1, <2>2, <2>3, <2>4, BoundaryStep
<1>12. ASSUME NEW w \in Runners, Sign(w)
       PROVE  IInv'
  <2>1. ASSUME NEW m \in manifests', NEW r \in Repos
        PROVE  Honest(r, m.entries[r])'
    <3>1. \A n \in manifests : n \in Manifest
      BY <1>a DEF TypeOK
    <3>2. PICK n \in manifests : m.entries = n.entries
      BY <1>12, <3>1 DEF Sign, Manifest
    <3>3. Honest(r, n.entries[r])
      BY DEF IInv, ManifestsHonest
    <3> QED BY <1>a, <3>2, <3>3, HonestKept
  <2> QED BY <1>12, <1>c, <2>1 DEF Sign, ManifestsHonest
<1>13. ASSUME NEW w \in Runners, Crash(w)
       PROVE  IInv'
  <2>1. ManifestsHonest'
    BY <1>13, <1>a, RecordsKept DEF Crash, IInv
  <2> QED BY <1>13, <1>c, <2>1 DEF Crash
<1>d. ASSUME UNCHANGED <<run, task, manifests>>, RunsInTime'
      PROVE  IInv'
  <2>1. WrittenHeld'
    BY <1>a, <1>d, WrittenKept DEF IInv, WrittenHeld
  <2>2. IdleHasNoTasks'
    BY <1>d DEF IInv, IdleHasNoTasks
  <2> QED BY <1>a, <1>d, <2>1, <2>2, RecordsKept DEF IInv
<1>14. ASSUME NEW r \in Repos, NEW refs \in RefMaps, Push(r, refs)
       PROVE  IInv'
  BY <1>14, <1>d DEF Push, IInv, RunsInTime
<1>15. CASE Tick
  <2>1. RunsInTime'
    BY <1>15, <1>a, ConstantsAssumption DEF Tick, IInv, RunsInTime, TypeOK, Run
  <2> QED BY <1>15, <1>d, <2>1 DEF Tick
<1>16. CASE Lifecycle
  BY <1>16, <1>d DEF Lifecycle, IInv, RunsInTime
<1>17. CASE UNCHANGED vars
  BY <1>17, <1>d DEF vars, IInv, RunsInTime
<1> QED
  BY <1>1, <1>2, <1>3, <1>4, <1>5, <1>6, <1>7, <1>8, <1>9, <1>10, <1>11, <1>12, <1>13,
     <1>14, <1>15, <1>16, <1>17 DEF Next, RunStep

\* Every manifest tells the truth about the copies it relies on, in every
\* order of runs, crashes, lost answers, pushes and expiries, when no run goes
\* on without a lock on what it writes.
THEOREM RecordedCopiesAlwaysExist ==
  ASSUME AlwaysLocked
  PROVE  Spec => []RecordedCopiesExist
<1>1. Init => IInv
  BY InvInit
<1>2. IInv /\ [Next]_vars => IInv'
  BY InvStep
<1>3. IInv => RecordedCopiesExist
  BY DEF IInv, ManifestsHonest, RecordedCopiesExist, Honest
<1> QED BY <1>1, <1>2, <1>3, PTL DEF Spec

-----------------------------------------------------------------------------
(***************************************************************************)
(* The destination is create-only.                                         *)
(***************************************************************************)

KeysUnique == \A o, p \in objects :
  o.repo = p.repo /\ o.date = p.date /\ o.kind = p.kind => o = p

\* The action CreateOnly boxes.
NothingOverwritten ==
  /\ \A o \in objects : o \in objects' \/ o.until <= now
  /\ \A o, p \in objects' :
       o.repo = p.repo /\ o.date = p.date /\ o.kind = p.kind => o = p

\* A write to a free key leaves every key with one object.
LEMMA StoredUnique ==
  ASSUME KeysUnique, NEW w \in Runners, NEW r \in Repos, NEW kind \in Kinds,
         ~ Taken(w, r, kind), objects' = Stored(w, r, kind)
  PROVE  NothingOverwritten
BY DEF KeysUnique, NothingOverwritten, Taken, Under, Stored

LEMMA CreateStep == TypeOK /\ KeysUnique /\ [Next]_vars => NothingOverwritten
<1> SUFFICES ASSUME TypeOK, KeysUnique, [Next]_vars
             PROVE  NothingOverwritten
  OBVIOUS
<1>1. ASSUME UNCHANGED objects
      PROVE  NothingOverwritten
  BY <1>1 DEF KeysUnique, NothingOverwritten
<1>2. ASSUME NEW w \in Runners, NEW r \in Repos, NEW kind \in Kinds, Upload(w, r, kind)
      PROVE  NothingOverwritten
  BY <1>2, StoredUnique DEF Upload
<1>3. ASSUME NEW w \in Runners, NEW r \in Repos, NEW kind \in Kinds, NEW landed \in BOOLEAN,
             UploadFails(w, r, kind, landed)
      PROVE  NothingOverwritten
  BY <1>1, <1>3, StoredUnique DEF UploadFails
<1>4. CASE Lifecycle
  <2>1. \A o \in objects : o.until \in Nat /\ now \in Nat
    BY DEF TypeOK, Object
  <2> QED BY <1>4, <2>1 DEF Lifecycle, KeysUnique, NothingOverwritten
<1>5. ASSUME NEW w \in Runners, RunStep(w),
             ~ \E r \in Repos, kind \in Kinds :
                 Upload(w, r, kind) \/ \E landed \in BOOLEAN : UploadFails(w, r, kind, landed)
      PROVE  UNCHANGED objects
  BY <1>5 DEF RunStep, Start, Resumed, SkipUnchanged, BeginCopy, CloneFails, Clone,
     FinishCopy, Stop, FileManifest, Sign, Crash
<1>6. ASSUME NEW r \in Repos, NEW refs \in RefMaps, Push(r, refs)
      PROVE  UNCHANGED objects
  BY <1>6 DEF Push
<1>7. CASE Tick
  BY <1>1, <1>7 DEF Tick
<1>8. CASE UNCHANGED vars
  BY <1>1, <1>8 DEF vars
<1> QED BY <1>1, <1>2, <1>3, <1>4, <1>5, <1>6, <1>7, <1>8 DEF Next

\* Nothing in the destination is ever overwritten, and an object goes only
\* when its lock has ended.
THEOREM DestinationIsCreateOnly == Spec => CreateOnly
<1>1. Init => KeysUnique
  BY DEF Init, KeysUnique
<1>2. TypeOK /\ KeysUnique /\ [Next]_vars => KeysUnique'
  BY CreateStep DEF NothingOverwritten, KeysUnique
<1>3. TypeOK /\ KeysUnique /\ [Next]_vars => [NothingOverwritten]_vars
  BY CreateStep
<1>4. Spec => [][NothingOverwritten]_vars
  BY <1>1, <1>2, <1>3, TypeCorrect, PTL DEF Spec
<1> QED BY <1>4, PTL DEF CreateOnly, NothingOverwritten
=============================================================================
