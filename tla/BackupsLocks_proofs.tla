------------------------ MODULE BackupsLocks_proofs ------------------------
(***************************************************************************)
(* More theorems about Backups: what a skip rests on is locked, and what   *)
(* an entry lists is its own run's. Both follow the entries, from the step *)
(* that settles a repository to the manifests of later runs.               *)
(***************************************************************************)
EXTENDS Backups_proofs

-----------------------------------------------------------------------------
(***************************************************************************)
(* The invariants.                                                         *)
(***************************************************************************)

\* The run wrote an object of this kind, and it is there until its lock ends.
WroteOne(r, kind, id, until) ==
  \/ now >= until
  \/ \E o \in objects : o.repo = r /\ o.kind = kind /\ o.run = id /\ o.until >= until

\* A copy recorded as made was made on the date of its run or later, of
\* objects of that run, and an empty repository has no refs.
Own(r, entry, id, date) ==
  /\ entry.status = "success" =>
       /\ entry.copiedAt \in Nat
       /\ DateOf(entry.copiedAt) >= date
       /\ \A kind \in entry.artifacts : WroteOne(r, kind, id, entry.copiedAt + LockSpan)
  /\ entry.status = "skipped" /\ entry.reason = "empty" => entry.refs = NoRefs

EntriesOwn == \A w \in Runners, r \in Repos :
  Own(r, task[w][r].entry, run[w].id, DateOf(run[w].start))

ManifestsOwn == \A m \in manifests : \A r \in Repos : Own(r, m.entries[r], m.run, m.date)

\* How old a copy may be that a run rests a skip on: a third of its lock when
\* the repository is unchanged, and of the run's own date when it resumes.
Fresh(entry, start, immutable) ==
  entry.status = "skipped" /\ entry.refs # NoRefs =>
    /\ entry.reason \in {"unchanged", "resume"}
    /\ entry.reason = "unchanged" /\ immutable => 3 * (start - entry.copiedAt) < LockPeriod
    /\ entry.reason = "resume" => DateOf(entry.copiedAt) >= DateOf(start)

SkipsFresh == \A w \in Runners, r \in Repos :
  Fresh(task[w][r].entry, run[w].start, run[w].worm.immutable)

-----------------------------------------------------------------------------
(***************************************************************************)
(* Dates.                                                                  *)
(***************************************************************************)

LEMMA DateBounds ==
  ASSUME NEW t \in Nat
  PROVE  DateOf(t) \in Nat /\ DayLength * DateOf(t) <= t /\ t < DayLength * DateOf(t) + DayLength
BY ConstantsAssumption DEF DateOf

LEMMA Times ==
  ASSUME NEW a \in Nat, NEW b \in Nat, a <= b
  PROVE  DayLength * a <= DayLength * b
BY ConstantsAssumption

\* A later time is of the same date or a later one, and a time of the same
\* date or an earlier one is not a whole day later.
LEMMA DatesOrdered ==
  ASSUME NEW t \in Nat, NEW s \in Nat
  PROVE  /\ t <= s => DateOf(t) <= DateOf(s)
         /\ DateOf(t) <= DateOf(s) => t < s + DayLength
<1>1. /\ DateOf(t) \in Nat /\ DayLength * DateOf(t) <= t /\ t < DayLength * DateOf(t) + DayLength
      /\ DateOf(s) \in Nat /\ DayLength * DateOf(s) <= s /\ s < DayLength * DateOf(s) + DayLength
  BY DateBounds
<1>2. DayLength \in Nat
  BY ConstantsAssumption
<1>3. \A n \in Nat : DayLength * n \in Nat
  BY <1>2
<1>4. ASSUME t <= s
      PROVE  DateOf(t) <= DateOf(s)
  <2>1. SUFFICES ASSUME DateOf(s) + 1 <= DateOf(t)
                 PROVE  FALSE
    BY <1>1
  <2>2. DateOf(s) + 1 \in Nat /\ DayLength * (DateOf(s) + 1) = DayLength * DateOf(s) + DayLength
    BY <1>1, <1>2
  <2>3. DayLength * (DateOf(s) + 1) <= DayLength * DateOf(t)
    BY <1>1, <2>1, <2>2, Times
  <2> QED BY <1>1, <1>2, <1>3, <1>4, <2>2, <2>3
<1>5. ASSUME DateOf(t) <= DateOf(s)
      PROVE  t < s + DayLength
  <2>1. DayLength * DateOf(t) <= DayLength * DateOf(s)
    BY <1>1, <1>5, Times
  <2> QED BY <1>1, <1>2, <1>3, <2>1
<1> QED BY <1>4, <1>5

-----------------------------------------------------------------------------
(***************************************************************************)
(* What a step does to an entry: it leaves it to its run, drops it or      *)
(* fails it, or settles it in one of the three ways a skip or a copy does. *)
(***************************************************************************)
EntryStays(w, r) ==
  /\ task'[w][r].entry = task[w][r].entry
  /\ run'[w].id = run[w].id /\ run'[w].start = run[w].start /\ run'[w].worm = run[w].worm

Blank(entry) == entry.status \in {"none", "failed"}

EntryIsMade(w, r) ==
  /\ UNCHANGED <<now, objects, run>>
  /\ task[w][r].step # "none"
  /\ \/ \E unread \in SUBSET manifests : task'[w][r].entry = ResumedEntry(w, r, unread)
     \/ LET copy == run[w].previous[r]
        IN  /\ \E current : Unchanged(copy, current, run[w].worm)
            /\ task'[w][r].entry = Skipped("unchanged", copy.refs, copy.copiedAt)
     \/ /\ task[w][r].step = "uploading"
        /\ task'[w][r].entry = CopyEntry(r, task[w][r])

LEMMA BlankEntries ==
  /\ Blank(NoEntry)
  /\ \A artifacts : Blank(Failed(artifacts))
  /\ \A step : Blank(At(step).entry)
BY DEF Blank, NoEntry, Failed, At

\* A run goes on with one repository, and every other stays.
LEMMA OneMoves ==
  ASSUME TypeOK, NEW v \in Runners, NEW q \in Repos, NEW t, task' = [task EXCEPT ![v][q] = t],
         UNCHANGED run, NEW w \in Runners, NEW r \in Repos
  PROVE  (w = v /\ r = q /\ task'[w][r] = t) \/ EntryStays(w, r)
BY DEF TypeOK, EntryStays

LEMMA OneSettles ==
  ASSUME TypeOK, NEW v \in Runners, NEW q \in Repos, NEW entry, Settle(v, q, entry),
         UNCHANGED run, NEW w \in Runners, NEW r \in Repos
  PROVE  (w = v /\ r = q /\ task'[w][r].entry = entry) \/ EntryStays(w, r)
<1>1. task' = [task EXCEPT ![v][q] = Settled(entry)]
  BY Zenon DEF Settle
<1>2. (w = v /\ r = q /\ task'[w][r] = Settled(entry)) \/ EntryStays(w, r)
  BY <1>1, OneMoves
<1> QED BY <1>2, SettledHas

LEMMA EntryMoves ==
  ASSUME TypeOK, [Next]_vars, NEW w \in Runners, NEW r \in Repos
  PROVE  EntryStays(w, r) \/ Blank(task'[w][r].entry) \/ EntryIsMade(w, r)
<1> DEFINE Moves == EntryStays(w, r) \/ Blank(task'[w][r].entry) \/ EntryIsMade(w, r)
<1>1. ASSUME NEW v \in Runners, NEW selected \in SUBSET Repos, NEW worm \in Answers,
             NEW unread \in SUBSET manifests, Start(v, selected, worm, unread)
      PROVE  Moves
  <2>1. CASE w = v
    <3>1. \E step : task'[w][r] = At(step)
      BY <1>1, <2>1 DEF Start, TypeOK
    <3> QED BY <3>1, BlankEntries
  <2>2. CASE w # v
    BY <1>1, <2>2 DEF Start, EntryStays, TypeOK
  <2> QED BY <2>1, <2>2
<1>2. ASSUME NEW v \in Runners, NEW q \in Repos, NEW unread \in SUBSET manifests,
             Resumed(v, q, unread)
      PROVE  Moves
  <2>1. Settle(v, q, ResumedEntry(v, q, unread)) /\ UNCHANGED <<now, objects, run>>
        /\ task[v][q].step # "none"
    BY <1>2 DEF Resumed
  <2>2. (w = v /\ r = q /\ task'[w][r].entry = ResumedEntry(v, q, unread)) \/ EntryStays(w, r)
    BY <2>1, OneSettles
  <2> QED BY <2>1, <2>2 DEF EntryIsMade
<1>3. ASSUME NEW v \in Runners, NEW q \in Repos, NEW current, NEW listed,
             SkipUnchanged(v, q, current, listed)
      PROVE  Moves
  <2> DEFINE copy == run[v].previous[q]
             entry == Skipped("unchanged", copy.refs, copy.copiedAt)
  <2>1. Settle(v, q, entry) /\ UNCHANGED <<now, objects, run>> /\ task[v][q].step # "none"
        /\ Unchanged(copy, current, run[v].worm)
    BY <1>3 DEF SkipUnchanged, Compared
  <2>2. (w = v /\ r = q /\ task'[w][r].entry = entry) \/ EntryStays(w, r)
    <3> HIDE DEF entry
    <3> QED BY <2>1, OneSettles
  <2> QED BY <2>1, <2>2, Zenon DEF EntryIsMade
<1>4. ASSUME NEW v \in Runners, NEW q \in Repos, NEW current, NEW listed,
             BeginCopy(v, q, current, listed)
      PROVE  Moves
  <2>1. PICK t : t = At("cloning")
    OBVIOUS
  <2>2. task' = [task EXCEPT ![v][q] = t] /\ UNCHANGED run
    BY <1>4, <2>1 DEF BeginCopy
  <2>3. Blank(t.entry)
    BY <2>1, BlankEntries
  <2> QED BY <2>2, <2>3, OneMoves
<1>5. ASSUME NEW v \in Runners, NEW q \in Repos, CloneFails(v, q)
      PROVE  Moves
  <2>1. Settle(v, q, Failed({})) /\ UNCHANGED run
    BY <1>5 DEF CloneFails
  <2> QED BY <2>1, OneSettles, BlankEntries
<1>6. ASSUME NEW v \in Runners, NEW q \in Repos, Clone(v, q)
      PROVE  Moves
  <2>1. PICK t : t = [At("uploading") EXCEPT !.copied = source[q]]
    OBVIOUS
  <2>2. task' = [task EXCEPT ![v][q] = t] /\ UNCHANGED run
    BY <1>6, <2>1 DEF Clone
  <2>3. t.entry = At("uploading").entry
    BY <2>1 DEF At
  <2> QED BY <2>2, <2>3, OneMoves, BlankEntries
<1>7. ASSUME NEW v \in Runners, NEW q \in Repos, NEW kind \in Kinds, Upload(v, q, kind)
      PROVE  Moves
  <2>1. task' = [task EXCEPT ![v][q].written = @ \cup {kind}] /\ UNCHANGED run
    BY <1>7 DEF Upload
  <2> QED BY <2>1 DEF EntryStays, TypeOK, Task
<1>8. ASSUME NEW v \in Runners, NEW q \in Repos, NEW kind \in Kinds, NEW landed \in BOOLEAN,
             UploadFails(v, q, kind, landed)
      PROVE  Moves
  <2>1. Settle(v, q, Failed(task[v][q].written)) /\ UNCHANGED run
    BY <1>8 DEF UploadFails
  <2> QED BY <2>1, OneSettles, BlankEntries
<1>9. ASSUME NEW v \in Runners, NEW q \in Repos, FinishCopy(v, q)
      PROVE  Moves
  <2>1. Settle(v, q, CopyEntry(q, task[v][q])) /\ UNCHANGED <<now, objects, run>>
        /\ task[v][q].step = "uploading"
    BY <1>9 DEF FinishCopy
  <2>2. (w = v /\ r = q /\ task'[w][r].entry = CopyEntry(q, task[v][q])) \/ EntryStays(w, r)
    BY <2>1, OneSettles
  <2> QED BY <2>1, <2>2 DEF EntryIsMade
<1>10. ASSUME NEW v \in Runners, Stop(v)
       PROVE  Moves
  <2>1. \/ task'[w][r] = task[w][r]
        \/ task'[w][r] = Settled(Failed(task[w][r].written))
    BY <1>10 DEF Stop, TypeOK
  <2>2. UNCHANGED run
    BY <1>10 DEF Stop
  <2> QED BY <2>1, <2>2, SettledHas, BlankEntries DEF EntryStays
<1>11. ASSUME NEW v \in Runners, FileManifest(v)
       PROVE  Moves
  <2>1. run' = [run EXCEPT ![v].phase = "signing"] /\ UNCHANGED task
    BY <1>11 DEF FileManifest
  <2> QED BY <2>1 DEF EntryStays, TypeOK, Run
<1>12. ASSUME NEW v \in Runners, End(v)
       PROVE  Moves
  <2>1. CASE w = v
    <3>1. task'[w][r] = At("none")
      BY <1>12, <2>1 DEF End, TypeOK, NoTasks
    <3> QED BY <3>1, BlankEntries
  <2>2. CASE w # v
    BY <1>12, <2>2 DEF End, EntryStays, TypeOK
  <2> QED BY <2>1, <2>2
<1>13. ASSUME UNCHANGED <<run, task>>
       PROVE  Moves
  BY <1>13 DEF EntryStays
<1> HIDE DEF Moves
<1>14. ASSUME NEW v \in Runners, RunStep(v)
       PROVE  Moves
  BY <1>1, <1>2, <1>3, <1>4, <1>5, <1>6, <1>7, <1>8, <1>9, <1>10, <1>11, <1>12, <1>14
     DEF RunStep, Sign, Crash
<1>15. Moves
  BY <1>13, <1>14 DEF Next, Push, Tick, Lifecycle, vars
<1> QED BY <1>15 DEF Moves

\* A manifest is filed by a run that has settled, with its entries, and keeps
\* them when it is signed.
LEMMA ManifestFrom ==
  ASSUME TypeOK, [Next]_vars, NEW m \in manifests'
  PROVE  \/ \E n \in manifests : m.entries = n.entries /\ m.run = n.run /\ m.date = n.date
         \/ \E w \in Runners : m = FiledManifest(w)
<1> DEFINE From == \/ \E n \in manifests : m.entries = n.entries /\ m.run = n.run /\ m.date = n.date
                   \/ \E w \in Runners : m = FiledManifest(w)
<1>1. ASSUME UNCHANGED manifests
      PROVE  From
  BY <1>1
<1>2. ASSUME NEW w \in Runners, FileManifest(w)
      PROVE  From
  BY <1>2 DEF FileManifest
<1>3. ASSUME NEW w \in Runners, Sign(w)
      PROVE  From
  <2>1. \A n \in manifests : n \in Manifest
    BY DEF TypeOK
  <2>2. PICK n \in manifests : m = n \/ m = [n EXCEPT !.signed = TRUE]
    BY <1>3 DEF Sign
  <2> QED BY <2>1, <2>2 DEF Manifest
<1> HIDE DEF From
<1>4. ASSUME NEW w \in Runners, RunStep(w), ~ FileManifest(w), ~ Sign(w)
      PROVE  UNCHANGED manifests
  <2>1. \A selected \in SUBSET Repos, worm \in Answers, unread \in SUBSET manifests :
          Start(w, selected, worm, unread) => UNCHANGED manifests
    BY DEF Start
  <2>2. \A r \in Repos, unread \in SUBSET manifests : Resumed(w, r, unread) => UNCHANGED manifests
    BY DEF Resumed
  <2>3. \A r \in Repos : \A current \in {source[r], NoRefs}, listed \in BOOLEAN :
          SkipUnchanged(w, r, current, listed) \/ BeginCopy(w, r, current, listed)
          => UNCHANGED manifests
    BY DEF SkipUnchanged, BeginCopy
  <2>4. \A r \in Repos : CloneFails(w, r) \/ Clone(w, r) \/ FinishCopy(w, r) => UNCHANGED manifests
    BY DEF CloneFails, Clone, FinishCopy
  <2>5. \A r \in Repos, kind \in Kinds :
          Upload(w, r, kind) \/ (\E landed \in BOOLEAN : UploadFails(w, r, kind, landed))
          => UNCHANGED manifests
    BY DEF Upload, UploadFails
  <2>6. Stop(w) \/ Crash(w) => UNCHANGED manifests
    BY DEF Stop, Crash
  <2> QED BY <1>4, <2>1, <2>2, <2>3, <2>4, <2>5, <2>6, Zenon DEF RunStep
<1>5. From
  BY <1>1, <1>2, <1>3, <1>4 DEF Next, Push, Tick, Lifecycle, vars
<1> QED BY <1>5 DEF From

-----------------------------------------------------------------------------
(***************************************************************************)
(* What an entry lists is its own run's.                                   *)
(***************************************************************************)

LEMMA BlankIsOwn ==
  ASSUME NEW r, NEW entry, NEW id, NEW date, Blank(entry)
  PROVE  Own(r, entry, id, date)
BY DEF Blank, Own

LEMMA OwnKept ==
  ASSUME Kept, NEW r, NEW entry, NEW id, NEW date, Own(r, entry, id, date)
  PROVE  Own(r, entry, id, date)'
<1>1. ASSUME NEW kind, NEW until \in Int, WroteOne(r, kind, id, until)
      PROVE  WroteOne(r, kind, id, until)'
  BY <1>1 DEF Kept, WroteOne, Object
<1>2. \A at \in Nat : at + LockSpan \in Int
  BY LockIsInt
<1>3. ASSUME entry.status = "success", NEW kind \in entry.artifacts
      PROVE  WroteOne(r, kind, id, entry.copiedAt + LockSpan)'
  BY <1>1, <1>2, <1>3 DEF Own
<1>4. entry.status = "success" => entry.copiedAt \in Nat /\ DateOf(entry.copiedAt) >= date
  BY DEF Own
<1>5. entry.status = "skipped" /\ entry.reason = "empty" => entry.refs = NoRefs
  BY DEF Own
<1> QED BY <1>3, <1>4, <1>5 DEF Own, DateOf

\* A skip that repeats the entry of a manifest is not a copy made, nor an
\* empty repository's.
LEMMA ResumedIsOwn ==
  ASSUME TypeOK, NEW w \in Runners, NEW r \in Repos, NEW unread \in SUBSET manifests,
         NEW id, NEW date
  PROVE  Own(r, ResumedEntry(w, r, unread), id, date)
<1>1. \A refs, at : Own(r, Skipped("resume", refs, at), id, date)
  BY DEF Own, Skipped
<1>2. Own(r, Failed({}), id, date)
  BY BlankIsOwn, BlankEntries
<1> QED BY <1>1, <1>2, ResumedEntryFrom

\* A copy is settled with the objects its run wrote, at most MaxRun after the
\* run began, and their locks count from then.
LEMMA CopyIsOwn ==
  ASSUME IInv, NEW w \in Runners, NEW r \in Repos, task[w][r].step = "uploading"
  PROVE  Own(r, CopyEntry(r, task[w][r]), run[w].id, DateOf(run[w].start))
<1> DEFINE t == task[w][r]
           end == run[w].start + LockPeriod
           made == [status |-> "success", reason |-> "", artifacts |-> t.written,
                    refs |-> t.copied, copiedAt |-> now]
           empty == [Skipped("empty", NoRefs, NoTime) EXCEPT !.artifacts = t.written]
<1>1. run[w].phase # "idle"
  BY DEF IInv, IdleHasNoTasks, NoTasks, At, TypeOK
<1>2. /\ run[w].start \in Nat /\ now \in Nat
      /\ run[w].start <= now /\ now <= run[w].start + MaxRun
  BY <1>1 DEF IInv, RunsInTime, TypeOK, Run
<1>3. now + LockSpan <= end /\ end \in Nat /\ now + LockSpan \in Int
  BY <1>2, ConstantsAssumption, LockIsInt DEF LockSpan
<1>4. DateOf(now) >= DateOf(run[w].start)
  BY <1>2, DatesOrdered, DateBounds
<1>5. ASSUME NEW kind \in t.written
      PROVE  WroteOne(r, kind, run[w].id, now + LockSpan)
  <2>1. Held(r, DateOf(run[w].start), kind, run[w].id, t.copied, end)
    BY DEF IInv, WrittenHeld
  <2>2. \A o \in objects : o.until \in Nat
    BY DEF IInv, TypeOK, Object
  <2> HIDE DEF end
  <2> QED BY <1>2, <1>3, <2>1, <2>2 DEF Held, WroteOne
<1>6. Own(r, made, run[w].id, DateOf(run[w].start))
  BY <1>2, <1>4, <1>5 DEF Own
<1>7. Own(r, empty, run[w].id, DateOf(run[w].start))
  BY DEF Own, Skipped
<1>8. Own(r, Failed(t.written), run[w].id, DateOf(run[w].start))
  BY BlankIsOwn, BlankEntries
<1> QED BY <1>6, <1>7, <1>8, Zenon DEF CopyEntry

LEMMA OwnStep ==
  ASSUME IInv, EntriesOwn, ManifestsOwn, [Next]_vars
  PROVE  EntriesOwn' /\ ManifestsOwn'
<1>1. TypeOK /\ Kept
  BY StepKeeps DEF IInv
<1>2. EntriesOwn'
  <2> SUFFICES ASSUME NEW w \in Runners, NEW r \in Repos
               PROVE  Own(r, task[w][r].entry, run[w].id, DateOf(run[w].start))'
    BY DEF EntriesOwn
  <2>1. PICK entry, id, date :
          entry = task'[w][r].entry /\ id = run'[w].id /\ date = DateOf(run'[w].start)
    OBVIOUS
  <2>2. Own(r, entry, id, date)
    <3>1. CASE EntryStays(w, r)
      BY <2>1, <3>1 DEF EntryStays, EntriesOwn
    <3>2. CASE Blank(task'[w][r].entry)
      BY <2>1, <3>2, BlankIsOwn
    <3>3. CASE EntryIsMade(w, r)
      <4>1. id = run[w].id /\ date = DateOf(run[w].start)
        BY <2>1, <3>3 DEF EntryIsMade
      <4>2. ASSUME NEW unread \in SUBSET manifests, entry = ResumedEntry(w, r, unread)
            PROVE  Own(r, entry, id, date)
        BY <1>1, <4>2, ResumedIsOwn
      <4>3. \A refs, at : Own(r, Skipped("unchanged", refs, at), id, date)
        BY DEF Own, Skipped
      <4>4. ASSUME task[w][r].step = "uploading", entry = CopyEntry(r, task[w][r])
            PROVE  Own(r, entry, id, date)
        BY <4>1, <4>4, CopyIsOwn
      <4> QED BY <2>1, <3>3, <4>2, <4>3, <4>4 DEF EntryIsMade
    <3> QED BY <1>1, <3>1, <3>2, <3>3, EntryMoves
  <2>3. Own(r, entry, id, date)'
    BY <1>1, <2>2, OwnKept
  <2> QED BY <2>1, <2>3 DEF Own, WroteOne, DateOf
<1>3. ASSUME NEW m \in manifests', NEW r \in Repos
      PROVE  Own(r, m.entries[r], m.run, m.date)'
  <2>1. Own(r, m.entries[r], m.run, m.date)
    <3>1. ASSUME NEW n \in manifests, m.entries = n.entries, m.run = n.run, m.date = n.date
          PROVE  Own(r, m.entries[r], m.run, m.date)
      BY <3>1 DEF ManifestsOwn
    <3>2. ASSUME NEW w \in Runners, m = FiledManifest(w)
          PROVE  Own(r, m.entries[r], m.run, m.date)
      BY <3>2 DEF EntriesOwn, FiledManifest
    <3> QED BY <1>1, <3>1, <3>2, ManifestFrom
  <2> QED BY <1>1, <2>1, OwnKept
<1> QED BY <1>2, <1>3 DEF ManifestsOwn

LEMMA OwnInit == Init => EntriesOwn /\ ManifestsOwn
<1> SUFFICES ASSUME Init
             PROVE  EntriesOwn /\ ManifestsOwn
  OBVIOUS
<1>1. \A w \in Runners, r \in Repos : task[w][r] = At("none")
  BY DEF Init, NoTasks
<1> QED BY <1>1, BlankEntries, BlankIsOwn DEF Init, EntriesOwn, ManifestsOwn

\* Every artifact a recorded copy lists is an object the very run wrote that
\* recorded it, while the lock lasts: no leftover of another attempt at the
\* same date passes for it.
THEOREM CopiesAreOneRuns ==
  ASSUME AlwaysLocked
  PROVE  Spec => []CopyIsOneRuns
<1>1. Init => IInv /\ EntriesOwn /\ ManifestsOwn
  BY InvInit, OwnInit
<1>2. IInv /\ EntriesOwn /\ ManifestsOwn /\ [Next]_vars => (IInv /\ EntriesOwn /\ ManifestsOwn)'
  BY InvStep, OwnStep
<1>3. IInv /\ ManifestsOwn => CopyIsOneRuns
  <2> SUFFICES ASSUME IInv, ManifestsOwn, NEW m \in manifests, NEW r \in Repos,
                      m.entries[r].status = "success",
                      now < m.entries[r].copiedAt + LockSpan,
                      NEW kind \in m.entries[r].artifacts
               PROVE  \E o \in objects : o.repo = r /\ o.kind = kind /\ o.run = m.run
    BY DEF CopyIsOneRuns
  <2>1. /\ m.entries[r].copiedAt \in Nat
        /\ WroteOne(r, kind, m.run, m.entries[r].copiedAt + LockSpan)
    BY DEF ManifestsOwn, Own
  <2>2. now \in Nat /\ m.entries[r].copiedAt + LockSpan \in Int
    BY <2>1, LockIsInt DEF IInv, TypeOK
  <2> QED BY <2>1, <2>2 DEF WroteOne
<1> QED BY <1>1, <1>2, <1>3, PTL DEF Spec

-----------------------------------------------------------------------------
(***************************************************************************)
(* What a skip rests on is locked.                                         *)
(*                                                                         *)
(* A skip is settled once and its run goes on: the copy it rests on must   *)
(* stay locked until the run is over, though another may not touch the     *)
(* repository again before that. Its age is bounded at the start of the    *)
(* run, by which the run's length bounds it at any moment after.           *)
(***************************************************************************)

\* The window a run counts with is known, and no longer than the lock.
WindowKnown == \A answer \in Answers :
  answer.immutable => Window(answer) > 0 /\ Window(answer) <= LockPeriod

\* A lock outlives the day of the copy, and the two runs that make the copy
\* and skip on it.
LockOutlivesRuns ==
  /\ LockPeriod >= DayLength + 2 * MaxRun
  /\ LockPeriod >= 3 * MaxRun

LEMMA WindowType ==
  ASSUME NEW worm \in Answers
  PROVE  Window(worm) \in Nat
BY ConstantsAssumption DEF Window, Answer

LEMMA BlankIsFresh ==
  ASSUME NEW entry, NEW start, NEW immutable, Blank(entry)
  PROVE  Fresh(entry, start, immutable)
BY DEF Blank, Fresh

\* A rerun finds a copy that was made on its date or after.
LEMMA ResumedIsFresh ==
  ASSUME TypeOK, ManifestsOwn, NEW w \in Runners, NEW r \in Repos,
         NEW unread \in SUBSET manifests, NEW immutable
  PROVE  Fresh(ResumedEntry(w, r, unread), run[w].start, immutable)
<1>1. CASE ResumedEntry(w, r, unread) = Failed({})
  BY <1>1, BlankIsFresh, BlankEntries
<1>2. ASSUME NEW m \in manifests, RecordsCopy(m, r, DateOf(run[w].start)),
             NEW at, at = IF m.entries[r].copiedAt = NoTime /\ m.entries[r].refs # NoRefs
                          THEN m.finished ELSE m.entries[r].copiedAt
      PROVE  Fresh(Skipped("resume", m.entries[r].refs, at), run[w].start, immutable)
  <2>1. Own(r, m.entries[r], m.run, m.date)
    BY DEF ManifestsOwn
  <2>2. m.date = DateOf(run[w].start)
    BY <1>2 DEF RecordsCopy
  <2>3. CASE m.entries[r].status = "success"
    <3>1. m.entries[r].copiedAt \in Nat /\ DateOf(m.entries[r].copiedAt) >= m.date
      BY <2>1, <2>3 DEF Own
    <3>2. at = m.entries[r].copiedAt
      BY <1>2, <3>1 DEF NoTime
    <3> QED BY <2>2, <3>1, <3>2 DEF Fresh, Skipped
  <2>4. CASE m.entries[r].refs = NoRefs
    BY <2>4 DEF Fresh, Skipped
  <2> QED BY <1>2, <2>1, <2>3, <2>4 DEF RecordsCopy, Own
<1> QED BY <1>1, <1>2, ResumedEntryFrom

\* An unchanged repository is skipped before a third of the window has
\* passed, and was so when the run began.
LEMMA UnchangedIsFresh ==
  ASSUME WindowKnown, IInv, NEW w \in Runners, NEW r \in Repos, task[w][r].step # "none",
         NEW current, Unchanged(run[w].previous[r], current, run[w].worm)
  PROVE  Fresh(Skipped("unchanged", run[w].previous[r].refs, run[w].previous[r].copiedAt),
               run[w].start, run[w].worm.immutable)
<1> DEFINE copy == run[w].previous[r]
           window == Window(run[w].worm)
<1>1. run[w].phase # "idle"
  BY DEF IInv, IdleHasNoTasks, NoTasks, At, TypeOK
<1>2. run[w].start \in Nat /\ now \in Nat /\ run[w].start <= now /\ run[w].worm \in Answers
  BY <1>1 DEF IInv, RunsInTime, TypeOK, Run
<1>3. copy.refs # NoRefs /\ ~ RefreshDue(now - copy.copiedAt, run[w].worm)
  BY DEF Unchanged
<1>4. copy.copiedAt \in Nat
  BY <1>3 DEF IInv, PreviousHonest, Honest
<1>5. window \in Nat /\ LockPeriod \in Nat
  BY <1>2, WindowType, LockIsInt
<1>6. ~ (window > 0 /\ 3 * (now - copy.copiedAt) >= window)
  BY <1>3 DEF RefreshDue
<1>7. run[w].worm.immutable => window > 0 /\ window <= LockPeriod
  BY <1>2 DEF WindowKnown
<1> HIDE DEF window
<1>8. run[w].worm.immutable => 3 * (run[w].start - copy.copiedAt) < LockPeriod
  BY <1>2, <1>4, <1>5, <1>6, <1>7
<1> QED BY <1>8 DEF Fresh, Skipped

LEMMA FreshStep ==
  ASSUME WindowKnown, IInv, SkipsFresh, ManifestsOwn, [Next]_vars
  PROVE  SkipsFresh'
<1> SUFFICES ASSUME NEW w \in Runners, NEW r \in Repos
             PROVE  Fresh(task[w][r].entry, run[w].start, run[w].worm.immutable)'
  BY DEF SkipsFresh
<1>1. PICK entry, start, immutable :
        entry = task'[w][r].entry /\ start = run'[w].start /\ immutable = run'[w].worm.immutable
  OBVIOUS
<1>2. Fresh(entry, start, immutable)
  <2>1. CASE EntryStays(w, r)
    BY <1>1, <2>1 DEF EntryStays, SkipsFresh
  <2>2. CASE Blank(task'[w][r].entry)
    BY <1>1, <2>2, BlankIsFresh
  <2>3. CASE EntryIsMade(w, r)
    <3>1. start = run[w].start /\ immutable = run[w].worm.immutable /\ task[w][r].step # "none"
      BY <1>1, <2>3 DEF EntryIsMade
    <3>2. ASSUME NEW unread \in SUBSET manifests, entry = ResumedEntry(w, r, unread)
          PROVE  Fresh(entry, start, immutable)
      BY <3>1, <3>2, ResumedIsFresh DEF IInv
    <3>3. ASSUME NEW current, Unchanged(run[w].previous[r], current, run[w].worm),
                 entry = Skipped("unchanged", run[w].previous[r].refs, run[w].previous[r].copiedAt)
          PROVE  Fresh(entry, start, immutable)
      BY <3>1, <3>3, UnchangedIsFresh
    <3>4. Fresh(CopyEntry(r, task[w][r]), start, immutable)
      BY DEF CopyEntry, Failed, Skipped, Fresh
    <3> QED BY <1>1, <2>3, <3>2, <3>3, <3>4 DEF EntryIsMade
  <2> QED BY <2>1, <2>2, <2>3, EntryMoves DEF IInv
<1> QED BY <1>1, <1>2 DEF Fresh, DateOf

LEMMA FreshInit == Init => SkipsFresh
<1> SUFFICES ASSUME Init
             PROVE  SkipsFresh
  OBVIOUS
<1>1. \A w \in Runners, r \in Repos : task[w][r] = At("none")
  BY DEF Init, NoTasks
<1> QED BY <1>1, BlankEntries, BlankIsFresh DEF SkipsFresh

\* The objects of a copy have one whose lock ends first, and until then the
\* destination holds the copy.
LEMMA HeldTogether ==
  ASSUME TypeOK, NEW r \in Repos, NEW refs, NEW from \in Int, HoldsCopy(r, refs, from)
  PROVE  \E until \in {o.until : o \in objects} : until >= from /\ HoldsCopy(r, refs, until)
<1>1. PICK b \in objects : \A kind \in CopyKinds(r) : \E p \in objects :
        /\ p.repo = r /\ p.date = b.date /\ p.kind = kind /\ p.run = b.run
        /\ p.refs = refs /\ p.until >= from
  BY DEF HoldsCopy
<1> DEFINE S == {p \in objects : p.repo = r /\ p.date = b.date /\ p.run = b.run
                                 /\ p.refs = refs /\ p.until >= from}
           ends == {p.until : p \in S}
<1>2. ends \in SUBSET Nat
  BY DEF TypeOK, Object
<1>3. ends # {}
  BY <1>1 DEF CopyKinds
<1> HIDE DEF ends
<1>4. PICK least \in ends : \A other \in ends : least <= other
  BY <1>2, <1>3, LeastExists
<1> USE DEF ends
<1>5. \A p \in S : p.until \in ends
  OBVIOUS
<1>6. \A kind \in CopyKinds(r) : \E p \in objects :
        /\ p.repo = r /\ p.date = b.date /\ p.kind = kind /\ p.run = b.run
        /\ p.refs = refs /\ p.until >= least
  <2> SUFFICES ASSUME NEW kind \in CopyKinds(r)
               PROVE  \E p \in S : p.kind = kind /\ p.until >= least
    OBVIOUS
  <2>1. PICK p \in S : p.kind = kind
    BY <1>1
  <2>2. p.until \in Nat /\ least \in Nat /\ least <= p.until
    BY <1>2, <1>4, <1>5
  <2> QED BY <2>1, <2>2
<1>7. HoldsCopy(r, refs, least)
  BY <1>6 DEF HoldsCopy
<1> QED BY <1>4, <1>7

\* The age a copy has at the start of the run that skips on it leaves, at any
\* moment of the run, so much of the lock.
LEMMA LockIsLeft ==
  ASSUME LockOutlivesRuns, NEW start \in Nat, start <= now, now \in Nat, now <= start + MaxRun,
         NEW copiedAt \in Nat, NEW until \in Int, until >= copiedAt + LockSpan
  PROVE  /\ 3 * (start - copiedAt) < LockPeriod =>
              until > now /\ 3 * (until - now) >= 2 * LockPeriod - 6 * MaxRun
         /\ DateOf(copiedAt) >= DateOf(start) => until > now
<1>1. LockPeriod \in Nat /\ MaxRun \in Nat /\ DayLength \in Nat
  BY LockIsInt, ConstantsAssumption
<1>2. until >= copiedAt + LockPeriod - MaxRun
  BY <1>1 DEF LockSpan
<1>3. /\ LockPeriod >= DayLength + 2 * MaxRun
      /\ LockPeriod >= 3 * MaxRun
  BY DEF LockOutlivesRuns
<1>4. ASSUME 3 * (start - copiedAt) < LockPeriod
      PROVE  until > now /\ 3 * (until - now) >= 2 * LockPeriod - 6 * MaxRun
  BY <1>1, <1>2, <1>3, <1>4
<1>5. ASSUME DateOf(copiedAt) >= DateOf(start)
      PROVE  until > now
  <2>1. start < copiedAt + DayLength
    <3>1. DateOf(start) \in Nat /\ DateOf(copiedAt) \in Nat
      BY DateBounds
    <3> QED BY <1>5, <3>1, DatesOrdered
  <2> QED BY <1>1, <1>2, <1>3, <2>1
<1> QED BY <1>4, <1>5

\* A run whose destination confirmed its lock skips a repository only on a
\* copy that is there, whole and locked, for as long as the run goes on, and
\* for two thirds of the lock when the repository is unchanged; through any
\* number of runs that carried the record of the copy forward.
THEOREM SkipsRestOnLockedCopies ==
  ASSUME AlwaysLocked, WindowKnown, LockOutlivesRuns
  PROVE  Spec => []SkipRestsOnLockedCopy
<1> DEFINE Inv == IInv /\ EntriesOwn /\ ManifestsOwn /\ SkipsFresh
<1>1. Init => Inv
  BY InvInit, OwnInit, FreshInit
<1>2. Inv /\ [Next]_vars => Inv'
  BY InvStep, OwnStep, FreshStep
<1>3. Inv => SkipRestsOnLockedCopy
  <2> DEFINE entry(w, r) == task[w][r].entry
  <2> SUFFICES ASSUME IInv, SkipsFresh, NEW w \in Runners, NEW r \in Repos,
                      run[w].worm.immutable, task[w][r].step = "settled",
                      entry(w, r).status = "skipped", entry(w, r).refs # NoRefs
               PROVE  \E until \in {o.until : o \in objects} :
                        /\ until > now
                        /\ entry(w, r).reason = "unchanged" =>
                             3 * (until - now) >= 2 * LockPeriod - 6 * MaxRun
                        /\ HoldsCopy(r, entry(w, r).refs, until)
    BY DEF SkipRestsOnLockedCopy
  <2>1. PICK e : e = entry(w, r)
    OBVIOUS
  <2>2. run[w].phase # "idle"
    BY DEF IInv, IdleHasNoTasks, NoTasks, At, TypeOK
  <2>3. /\ run[w].start \in Nat /\ now \in Nat
        /\ run[w].start <= now /\ now <= run[w].start + MaxRun
    BY <2>2 DEF IInv, RunsInTime, TypeOK, Run
  <2>4. e.copiedAt \in Nat /\ e.copiedAt + LockSpan \in Int /\ Backed(r, e)
    BY <2>1, LockIsInt DEF IInv, EntriesHonest, Honest
  <2>5. \/ e.reason = "unchanged" /\ 3 * (run[w].start - e.copiedAt) < LockPeriod
        \/ e.reason = "resume" /\ DateOf(e.copiedAt) >= DateOf(run[w].start)
    <3>1. Fresh(e, run[w].start, run[w].worm.immutable)
      BY <2>1 DEF SkipsFresh
    <3>2. e.status = "skipped" /\ e.refs # NoRefs
      BY <2>1
    <3> QED BY <3>1, <3>2 DEF Fresh
  <2>6. ASSUME NEW until \in Int, until >= e.copiedAt + LockSpan
        PROVE  /\ until > now
               /\ e.reason = "unchanged" => 3 * (until - now) >= 2 * LockPeriod - 6 * MaxRun
    BY <2>3, <2>4, <2>5, <2>6, LockIsLeft
  <2>7. HoldsCopy(r, e.refs, e.copiedAt + LockSpan)
    <3>1. e.copiedAt + LockSpan > now
      BY <2>4, <2>6
    <3> QED BY <2>1, <2>3, <2>4, <3>1 DEF Backed
  <2>8. PICK until \in {o.until : o \in objects} :
          until >= e.copiedAt + LockSpan /\ HoldsCopy(r, e.refs, until)
    BY <2>4, <2>7, HeldTogether DEF IInv
  <2>9. until \in Int
    BY DEF IInv, TypeOK, Object
  <2> QED BY <2>1, <2>6, <2>8, <2>9
<1> QED BY <1>1, <1>2, <1>3, PTL DEF Spec
=============================================================================
