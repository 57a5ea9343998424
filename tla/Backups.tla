------------------------------ MODULE Backups ------------------------------
(***************************************************************************)
(* The backups of an organisation over many days, as internal/pipeline     *)
(* makes them: runs that start, copy or skip each repository, and file a   *)
(* manifest the next runs decide by, against a create-only destination     *)
(* whose object locks expire.                                              *)
(*                                                                         *)
(* What a run relies on when it skips a repository is spread over three    *)
(* things nothing keeps consistent but the order of the writes: the        *)
(* objects under a date, the manifest that records them, and the manifest  *)
(* of every later run that carried the record forward.                     *)
(*                                                                         *)
(* A tick is an abstract unit of time and a date is DayLength of them.     *)
(* Manifests are named by the second they finished in and a tick is no     *)
(* shorter, so a tick has one manifest at most.                            *)
(* Every run files its manifest in one directory: the runs are over        *)
(* repositories of one namespace, or subsets of them.                      *)
(*                                                                         *)
(* A definition named Faulty... is a bug this code could have had; no      *)
(* action uses it, and it shows that the properties would notice.          *)
(***************************************************************************)
EXTENDS Integers, FiniteSets

CONSTANTS
  Repos,        \* the repositories the source lists
  RefMaps,      \* the ref maps a repository with commits can advertise
  NoRefs,       \* an empty ref map: no commits, or a listing that failed
  LFSRepos,     \* the repositories whose commits point at LFS objects
  NoMetadata,   \* the repositories whose metadata the credential may not read
  Runners,      \* the gitdr backup processes that may run at once
  Days,         \* destination.retention.days, in ticks
  Policy,       \* how long the bucket's own policy holds an object; 0 on S3
  Answers,      \* what VerifyWorm may answer a run
  MaxSkip,      \* maxSkipDays, in ticks
  MaxPrevious,  \* maxPreviousManifests
  Resume,       \* backup.resume
  Recopy,       \* backup.recopy
  RequireWORM,  \* worm.require
  DayLength,    \* ticks in a UTC date
  MaxRun,       \* the longest a run lasts, in ticks: its deadline and grace
  MaxTime,      \* bound: the last tick
  MaxRuns       \* bound: how many runs are started

(***************************************************************************)
(* An answer of VerifyWorm is a verdict, immutable or not, and the period  *)
(* the store says its policy holds objects for, 0 when it does not say.    *)
(***************************************************************************)
Answer == [immutable : BOOLEAN, period : Nat]

ASSUME ConstantsAssumption ==
  /\ NoRefs \notin RefMaps
  /\ Days \in Nat /\ Policy \in Nat /\ MaxSkip \in Nat /\ MaxPrevious \in Nat
  /\ DayLength \in Nat \ {0} /\ MaxRun \in Nat
  /\ MaxTime \in Nat /\ MaxRuns \in Nat
  /\ Answers \subseteq Answer
  /\ LFSRepos \subseteq Repos /\ NoMetadata \subseteq Repos /\ Recopy \subseteq Repos
  /\ Resume \in BOOLEAN /\ RequireWORM \in BOOLEAN

VARIABLES
  now,        \* the clock of the runs and of the store
  source,     \* source[r]: the refs repository r has now
  objects,    \* the copies' objects in the destination
  manifests,  \* the manifests in the destination
  started,    \* how many runs have started: the newest run's id
  run,        \* run[w]: the run process w is making
  task        \* task[w][r]: how far that run is with repository r

vars == <<now, source, objects, manifests, started, run, task>>

Kinds == {"bundle", "meta", "sha256", "lfs"}
Refs == RefMaps \cup {NoRefs}
NoTime == -1

DateOf(t) == t \div DayLength

(***************************************************************************)
(* What a manifest records of a repository. An artifact is named by its    *)
(* kind: its key is the repository, the run's date and the kind. A         *)
(* repository the run did not select has no entry, status "none".          *)
(***************************************************************************)
Entry == [status : {"none", "success", "skipped", "failed"},
          reason : {"", "resume", "empty", "unchanged"},
          artifacts : SUBSET Kinds,
          refs : Refs,
          copiedAt : Nat \cup {NoTime}]

Failed(artifacts) ==
  [status |-> "failed", reason |-> "", artifacts |-> artifacts,
   refs |-> NoRefs, copiedAt |-> NoTime]

NoEntry == [Failed({}) EXCEPT !.status = "none"]

Skipped(reason, refs, copiedAt) ==
  [status |-> "skipped", reason |-> reason, artifacts |-> {},
   refs |-> refs, copiedAt |-> copiedAt]

Object == [repo : Repos, date : Nat, kind : Kinds, run : Nat, refs : Refs,
           written : Nat, until : Nat]

(***************************************************************************)
(* signed is whether the detached signature is stored beside the manifest. *)
(***************************************************************************)
Manifest == [run : Nat, date : Nat, finished : Nat, signed : BOOLEAN,
             entries : [Repos -> Entry]]

Copy == [refs : Refs, copiedAt : Nat \cup {NoTime}]
NoCopy == [refs |-> NoRefs, copiedAt |-> NoTime]

Run == [phase : {"idle", "copying", "signing"}, id : Nat, start : Nat,
        worm : Answer, previous : [Repos -> Copy]]

Idle == [phase |-> "idle", id |-> 0, start |-> 0,
         worm |-> [immutable |-> FALSE, period |-> 0],
         previous |-> [r \in Repos |-> NoCopy]]

Task == [step : {"none", "waiting", "cloning", "uploading", "settled"},
         copied : Refs, written : SUBSET Kinds,
         entry : Entry]

At(step) ==
  [step |-> step, copied |-> NoRefs, written |-> {},
   entry |-> NoEntry]

Settled(entry) == [At("settled") EXCEPT !.entry = entry]

NoTasks == [r \in Repos |-> At("none")]

Selected(w) == {r \in Repos : task[w][r].step # "none"}

-----------------------------------------------------------------------------
(***************************************************************************)
(* How long a copy is kept, and how old it may get before it is rewritten. *)
(***************************************************************************)

FaultyWindow(worm) == Days  \* up to v0.1.20: the store's own period ignored

\* retentionWindow: the configured days, or the period the store reported
\* when that is shorter.
Window(worm) ==
  IF worm.period > 0 /\ (Days = 0 \/ worm.period < Days)
  THEN worm.period
  ELSE Days

\* The copy is relied on for as long as its lock lasts.
FaultyRefreshDue(age, worm) ==
  \/ age >= MaxSkip
  \/ Window(worm) > 0 /\ age >= Window(worm)

\* refreshBound: a third of the window, capped at maxSkipDays, and
\* maxSkipDays when the window is unknown. Whether age has reached it.
RefreshDue(age, worm) ==
  \/ age >= MaxSkip
  \/ Window(worm) > 0 /\ 3 * age >= Window(worm)

\* When the lock of an object written now ends. gitdr asks for the days from
\* the start of the run, and only of a store that confirmed it is immutable;
\* a bucket policy holds every object for its own period from the write.
LockedUntil(w) ==
  IF Policy > 0 THEN now + Policy
  ELSE IF run[w].worm.immutable THEN run[w].start + Days
  ELSE 0

\* plausibleCopiedAt: no later than the manifest's finish, nor than now.
Plausible(copiedAt, finished) == copiedAt <= finished /\ copiedAt <= now

-----------------------------------------------------------------------------
(***************************************************************************)
(* loadPrevious: per repository, what the newest recent manifest that      *)
(* mentions it recorded. unread is the manifests this run could not read;  *)
(* one without its signature is passed over as they are. Both count        *)
(* towards MaxPrevious.                                                    *)
(***************************************************************************)

\* The manifests the run looks at: of those not named later than now and
\* younger than the refresh bound, the MaxPrevious newest.
Recent(worm) ==
  LET young == {m \in manifests :
                  m.finished <= now /\ ~RefreshDue(now - m.finished, worm)}
  IN  {m \in young :
         Cardinality({n \in young : n.finished > m.finished}) < MaxPrevious}

\* A failed entry that lists no artifacts is passed over, as if it were not
\* there: nothing was written, so an older manifest decides.
Decides(m, r) ==
  /\ m.entries[r].status # "none"
  /\ ~ (m.entries[r].status = "failed" /\ m.entries[r].artifacts = {})

\* previousCopy: what one entry gives a skip.
PreviousCopy(m, r) ==
  LET e == m.entries[r]
      at == IF e.copiedAt = NoTime THEN m.finished ELSE e.copiedAt
  IN  IF e.status # "failed" /\ e.refs # NoRefs /\ Plausible(at, m.finished)
      THEN [refs |-> e.refs, copiedAt |-> at]
      ELSE NoCopy

Previous(selected, worm, unread) ==
  LET deciding(r) == {m \in Recent(worm) \ unread : m.signed /\ Decides(m, r)}
      newest(r) == CHOOSE m \in deciding(r) :
                     \A n \in deciding(r) : n.finished <= m.finished
  IN  [r \in Repos |-> IF r \in selected /\ deciding(r) # {}
                       THEN PreviousCopy(newest(r), r)
                       ELSE NoCopy]

\* decideUnchanged: a repository is skipped when the source advertises
\* exactly the refs of the previous copy, and the copy is not due a refresh.
Unchanged(previous, current, worm) ==
  /\ previous.refs # NoRefs
  /\ current # NoRefs
  /\ previous.refs = current
  /\ now >= previous.copiedAt
  /\ ~RefreshDue(now - previous.copiedAt, worm)

-----------------------------------------------------------------------------
(***************************************************************************)
(* The same-day rerun: resumed, and the search for the manifest that       *)
(* records a copy (copySearch.find).                                       *)
(***************************************************************************)

\* What the destination has for r under the date run w files its copies by.
Under(w, r) == {o \in objects : o.repo = r /\ o.date = DateOf(run[w].start)}

\* recordsCopy, for the date's bundle or metadata: a success that lists it,
\* or an empty repository's skip that lists its metadata. The keys a manifest
\* lists are those of its own run's date.
RecordsCopy(m, r, date) ==
  /\ m.date = date
  /\ \/ m.entries[r].status = "success"
     \/ m.entries[r].status = "skipped" /\ m.entries[r].reason = "empty"
  /\ m.entries[r].artifacts \cap {"bundle", "meta"} # {}

\* The manifests that record a copy of r for the date, among those named for
\* the date or the day after and not later than now.
Recording(r, date, unread) ==
  {m \in manifests \ unread :
     /\ m.signed
     /\ m.finished <= now
     /\ DateOf(m.finished) \in {date, date + 1}
     /\ RecordsCopy(m, r, date)}

\* The search reads the date's manifests before the next day's, newest first.
FirstFound(found, date) ==
  LET sameDay == {m \in found : DateOf(m.finished) = date}
      pool == IF sameDay # {} THEN sameDay ELSE found
  IN  CHOOSE m \in pool : \A n \in pool : n.finished <= m.finished

\* The entry of a repository that has objects under the run's date already.
ResumedEntry(w, r, unread) ==
  LET date == DateOf(run[w].start)
      found == Recording(r, date, unread)
      m == FirstFound(found, date)
      e == m.entries[r]
      stored == {o.kind : o \in Under(w, r)}
      at == IF e.copiedAt = NoTime /\ e.refs # NoRefs
            THEN m.finished ELSE e.copiedAt
  IN  IF /\ \A o \in Under(w, r) : DateOf(o.written) = date
         /\ found # {}
         /\ e.artifacts = stored
         /\ Plausible(at, m.finished)
      THEN Skipped("resume", e.refs, at)
      ELSE Failed({})

-----------------------------------------------------------------------------
(***************************************************************************)
(* A run.                                                                  *)
(***************************************************************************)

Init ==
  /\ now = 0
  /\ source \in [Repos -> Refs]
  /\ objects = {}
  /\ manifests = {}
  /\ started = 0
  /\ run = [w \in Runners |-> Idle]
  /\ task = [w \in Runners |-> NoTasks]

\* The run starts: the WORM check, the listing of the source, and the recent
\* manifests, read once. With worm.require only a confirmed lock passes.
Start(w, selected, worm, unread) ==
  /\ run[w].phase = "idle"
  /\ started < MaxRuns
  /\ RequireWORM => worm.immutable
  /\ selected # {}
  /\ started' = started + 1
  /\ run' = [run EXCEPT ![w] =
       [phase |-> "copying", id |-> started + 1, start |-> now, worm |-> worm,
        previous |-> Previous(selected, worm, unread)]]
  /\ task' = [task EXCEPT ![w] =
       [r \in Repos |-> At(IF r \in selected THEN "waiting" ELSE "none")]]
  /\ UNCHANGED <<now, source, objects, manifests>>

\* The run's tasks are left in place.
FaultyEnd(w) ==
  /\ run' = [run EXCEPT ![w] = [Idle EXCEPT !.phase = "done"]]
  /\ UNCHANGED task

\* The run is over and its process gone.
End(w) ==
  /\ run' = [run EXCEPT ![w] = Idle]
  /\ task' = [task EXCEPT ![w] = NoTasks]

Settle(w, r, entry) == task' = [task EXCEPT ![w][r] = Settled(entry)]

\* backupOne, for a repository with objects under the date and a run that
\* resumes: skipped on a recorded copy, failed by name otherwise.
Resumed(w, r, unread) ==
  /\ Resume
  /\ task[w][r].step = "waiting"
  /\ Under(w, r) # {}
  /\ Settle(w, r, ResumedEntry(w, r, unread))
  /\ UNCHANGED <<now, source, objects, manifests, started, run>>

\* backupOne past the resume: nothing is under the date, or resume is off, or
\* the listing failed. current is what the source's listing answered.
Compared(w, r, listed) ==
  /\ task[w][r].step = "waiting"
  /\ ~Resume \/ ~listed \/ Under(w, r) = {}

SkipUnchanged(w, r, current, listed) ==
  /\ Compared(w, r, listed)
  /\ r \notin Recopy
  /\ LET previous == run[w].previous[r]
     IN  /\ Unchanged(previous, current, run[w].worm)
         /\ Settle(w, r, Skipped("unchanged", previous.refs, previous.copiedAt))
  /\ UNCHANGED <<now, source, objects, manifests, started, run>>

BeginCopy(w, r, current, listed) ==
  /\ Compared(w, r, listed)
  /\ r \in Recopy \/ ~Unchanged(run[w].previous[r], current, run[w].worm)
  /\ task' = [task EXCEPT ![w][r] = At("cloning")]
  /\ UNCHANGED <<now, source, objects, manifests, started, run>>

(***************************************************************************)
(* backupRepo. Everything that reads the source or can fail locally comes  *)
(* first and writes nothing; the copy records the refs of the clone.       *)
(* Metadata the credential may not read fails the repository as well, but  *)
(* only after its code is stored; a transient failure fails it here.       *)
(***************************************************************************)
CloneFails(w, r) ==
  /\ task[w][r].step = "cloning"
  /\ Settle(w, r, Failed({}))
  /\ UNCHANGED <<now, source, objects, manifests, started, run>>

Clone(w, r) ==
  /\ task[w][r].step = "cloning"
  /\ task' = [task EXCEPT ![w][r] =
       [At("uploading") EXCEPT !.copied = source[r]]]
  /\ UNCHANGED <<now, source, objects, manifests, started, run>>

\* What a copy of r is made of. The sidecar and the LFS archive need commits.
Staged(r, copied) ==
  (IF r \in NoMetadata THEN {} ELSE {"meta"})
    \cup (IF copied = NoRefs THEN {} ELSE {"bundle", "sha256"})
    \cup (IF copied # NoRefs /\ r \in LFSRepos THEN {"lfs"} ELSE {})

Remaining(w, r) ==
  LET t == task[w][r]
  IN  Staged(r, t.copied) \ t.written

\* The uploads go largest first, in whatever order the sizes give, and the
\* checksum sidecar goes last.
NextUpload(w, r, kind) ==
  /\ task[w][r].step = "uploading"
  /\ kind \in Remaining(w, r)
  /\ kind = "sha256" => Remaining(w, r) = {"sha256"}

Taken(w, r, kind) == \E o \in Under(w, r) : o.kind = kind

Stored(w, r, kind) ==
  objects \cup {[repo |-> r, date |-> DateOf(run[w].start), kind |-> kind,
                 run |-> run[w].id, refs |-> task[w][r].copied,
                 written |-> now, until |-> LockedUntil(w)]}

\* An object that is there already is taken for this run's own.
FaultyUpload(w, r, kind) ==
  /\ NextUpload(w, r, kind)
  /\ objects' = IF Taken(w, r, kind) THEN objects ELSE Stored(w, r, kind)
  /\ task' = [task EXCEPT ![w][r].written = @ \cup {kind}]
  /\ UNCHANGED <<now, source, manifests, started, run>>

\* The destination overwrites.
FaultyOverwrite(w, r, kind) ==
  /\ NextUpload(w, r, kind)
  /\ objects' = Stored(w, r, kind) \ {o \in Under(w, r) : o.kind = kind}
  /\ task' = [task EXCEPT ![w][r].written = @ \cup {kind}]
  /\ UNCHANGED <<now, source, manifests, started, run>>

\* PutImmutable stores the object: the key was free.
Upload(w, r, kind) ==
  /\ NextUpload(w, r, kind)
  /\ ~Taken(w, r, kind)
  /\ objects' = Stored(w, r, kind)
  /\ task' = [task EXCEPT ![w][r].written = @ \cup {kind}]
  /\ UNCHANGED <<now, source, manifests, started, run>>

\* PutImmutable fails: the key is taken, or the store refused the write, or
\* it took the write and its answer never came (landed). The entry lists
\* what was written before it.
UploadFails(w, r, kind, landed) ==
  /\ NextUpload(w, r, kind)
  /\ landed => ~Taken(w, r, kind)
  /\ objects' = IF landed THEN Stored(w, r, kind) ELSE objects
  /\ Settle(w, r, Failed(task[w][r].written))
  /\ UNCHANGED <<now, source, manifests, started, run>>

\* The copy records what the source has by now, and not what was cloned.
FaultyFinishCopy(w, r) ==
  LET t == task[w][r]
  IN  /\ t.step = "uploading"
      /\ Remaining(w, r) = {}
      /\ Settle(w, r, [status |-> "success", reason |-> "", artifacts |-> t.written,
                       refs |-> source[r], copiedAt |-> now])
      /\ UNCHANGED <<now, source, objects, manifests, started, run>>

\* What backupRepo and backupOne make of a copy that is all stored. A repository
\* with no commits is a skip that lists its metadata, and only a success has
\* refs and copiedAt, which is this moment.
CopyEntry(r, t) ==
  IF r \in NoMetadata THEN Failed(t.written)
  ELSE IF t.copied = NoRefs
       THEN [Skipped("empty", NoRefs, NoTime) EXCEPT !.artifacts = t.written]
       ELSE [status |-> "success", reason |-> "", artifacts |-> t.written,
             refs |-> t.copied, copiedAt |-> now]

FinishCopy(w, r) ==
  /\ task[w][r].step = "uploading"
  /\ Remaining(w, r) = {}
  /\ Settle(w, r, CopyEntry(r, task[w][r]))
  /\ UNCHANGED <<now, source, objects, manifests, started, run>>

\* The run is stopped, by a signal or its deadline: what is not settled is
\* recorded as failed, with what it had written.
Stop(w) ==
  /\ run[w].phase = "copying"
  /\ \E r \in Selected(w) : task[w][r].step # "settled"
  /\ task' = [task EXCEPT ![w] =
       [r \in Repos |-> IF r \in Selected(w) /\ task[w][r].step # "settled"
                        THEN Settled(Failed(task[w][r].written))
                        ELSE task[w][r]]]
  /\ UNCHANGED <<now, source, objects, manifests, started, run>>

(***************************************************************************)
(* uploadManifest: the manifest, named for the moment the run finished,    *)
(* and then its signature, two writes to the create-only destination.      *)
(***************************************************************************)
AllSettled(w) ==
  /\ run[w].phase = "copying"
  /\ \A r \in Selected(w) : task[w][r].step = "settled"

FiledManifest(w) ==
  [run |-> run[w].id, date |-> DateOf(run[w].start), finished |-> now,
   signed |-> FALSE, entries |-> [r \in Repos |-> task[w][r].entry]]

FileManifest(w) ==
  /\ AllSettled(w)
  /\ \A m \in manifests : m.finished # now
  /\ manifests' = manifests \cup {FiledManifest(w)}
  /\ run' = [run EXCEPT ![w].phase = "signing"]
  /\ UNCHANGED <<now, source, objects, started, task>>

Sign(w) ==
  /\ run[w].phase = "signing"
  /\ manifests' = {IF m.run = run[w].id THEN [m EXCEPT !.signed = TRUE] ELSE m :
                     m \in manifests}
  /\ End(w)
  /\ UNCHANGED <<now, source, objects, started>>

\* The process dies, or a write of the manifest or its signature fails: what
\* is stored stays, and nothing more of this run comes.
Crash(w) ==
  /\ run[w].phase # "idle"
  /\ End(w)
  /\ UNCHANGED <<now, source, objects, manifests, started>>

-----------------------------------------------------------------------------
(***************************************************************************)
(* What is not gitdr: pushes, time, and the bucket's lifecycle rule.       *)
(***************************************************************************)
Push(r, refs) ==
  /\ refs # source[r]
  /\ source' = [source EXCEPT ![r] = refs]
  /\ UNCHANGED <<now, objects, manifests, started, run, task>>

\* A run ends within MaxRun ticks of its start.
Tick ==
  /\ now < MaxTime
  /\ \A w \in Runners : run[w].phase # "idle" => now < run[w].start + MaxRun
  /\ now' = now + 1
  /\ UNCHANGED <<source, objects, manifests, started, run, task>>

\* A lifecycle rule deletes the copies whose lock has ended.
Lifecycle ==
  /\ \E o \in objects : o.until <= now
  /\ objects' = {o \in objects : o.until > now}
  /\ UNCHANGED <<now, source, manifests, started, run, task>>

RunStep(w) ==
  \/ \E selected \in SUBSET Repos, worm \in Answers, unread \in SUBSET manifests :
       Start(w, selected, worm, unread)
  \/ \E r \in Repos :
       \/ \E unread \in SUBSET manifests : Resumed(w, r, unread)
       \/ \E current \in {source[r], NoRefs}, listed \in BOOLEAN :
            SkipUnchanged(w, r, current, listed) \/ BeginCopy(w, r, current, listed)
       \/ CloneFails(w, r)
       \/ Clone(w, r)
       \/ \E kind \in Kinds :
            Upload(w, r, kind) \/ \E landed \in BOOLEAN : UploadFails(w, r, kind, landed)
       \/ FinishCopy(w, r)
  \/ Stop(w)
  \/ FileManifest(w)
  \/ Sign(w)
  \/ Crash(w)

Next ==
  \/ \E w \in Runners : RunStep(w)
  \/ \E r \in Repos, refs \in RefMaps : Push(r, refs)
  \/ Tick
  \/ Lifecycle

Spec == Init /\ [][Next]_vars

-----------------------------------------------------------------------------
(***************************************************************************)
(* Properties.                                                             *)
(***************************************************************************)

\* Type correctness, of the shapes every other property relies on.
TypeOK ==
  /\ now \in Nat
  /\ source \in [Repos -> Refs]
  /\ \A o \in objects : o \in Object
  /\ \A m \in manifests : m \in Manifest
  /\ started \in Nat
  /\ run \in [Runners -> Run]
  /\ task \in [Runners -> [Repos -> Task]]

\* How long a copy is locked: from its write by the bucket's policy, else from
\* the start of the run that wrote it. LockSpan is what is left of that, at
\* least, when the run records the copy.
LockPeriod == IF Policy > 0 THEN Policy ELSE Days
LockSpan == LockPeriod - MaxRun

\* The kinds every copy of a repository with commits is made of.
CopyKinds(r) == {"bundle", "meta", "sha256"} \cup (IF r \in LFSRepos THEN {"lfs"} ELSE {})

\* The destination holds, written by one run under one date, a complete copy
\* of r at exactly these refs, all of it locked until then.
HoldsCopy(r, refs, until) ==
  \E o \in objects : \A kind \in CopyKinds(r) : \E p \in objects :
    /\ p.repo = r /\ p.date = o.date /\ p.kind = kind /\ p.run = o.run
    /\ p.refs = refs
    /\ p.until >= until

\* An entry's record of a copy is true: until the lock the copy was written
\* under has ended, the destination holds that copy, whole.
Backed(r, entry) ==
  \/ entry.refs = NoRefs
  \/ now >= entry.copiedAt + LockSpan
  \/ HoldsCopy(r, entry.refs, entry.copiedAt + LockSpan)

\* Every manifest in the destination tells the truth about the copies it
\* relies on, the ones carried forward through skips among them: as long as
\* a copy of the age it records is still locked, that very copy is there and
\* is complete (backup.go resumed and backupOne, previous.go).
RecordedCopiesExist ==
  \A m \in manifests : \A r \in Repos : Backed(r, m.entries[r])

\* A repository skipped by a run whose destination confirmed its lock has a
\* complete copy of the refs recorded for it that is locked now, and for an
\* unchanged repository at least two thirds of the lock remain, less the
\* lengths of two runs (unchanged.go refreshBound).
SkipRestsOnLockedCopy ==
  \A w \in Runners, r \in Repos :
    LET e == task[w][r].entry
    IN  /\ run[w].worm.immutable
        /\ task[w][r].step = "settled" /\ e.status = "skipped" /\ e.refs # NoRefs
        => \E until \in {o.until : o \in objects} :
             /\ until > now
             /\ e.reason = "unchanged" =>
                  3 * (until - now) >= 2 * LockPeriod - 6 * MaxRun
             /\ HoldsCopy(r, e.refs, until)

\* A copy recorded as made is one run's: every artifact the entry lists is an
\* object that very run wrote, never a leftover of another attempt at the
\* same date, for as long as the lock holds it (the create-only keys of
\* backup.go backupRepo).
CopyIsOneRuns ==
  \A m \in manifests : \A r \in Repos :
    LET e == m.entries[r]
    IN  e.status = "success" /\ now < e.copiedAt + LockSpan =>
          \A kind \in e.artifacts :
            \E o \in objects : o.repo = r /\ o.kind = kind /\ o.run = m.run

\* Nothing is ever overwritten: an object stays as it was written until the
\* lifecycle rule takes it, after its lock, and no key holds two objects
\* (dest.go, PutImmutable).
CreateOnly ==
  [][/\ \A o \in objects : o \in objects' \/ o.until <= now
     /\ \A o, p \in objects' :
          o.repo = p.repo /\ o.date = p.date /\ o.kind = p.kind => o = p]_vars
=============================================================================
