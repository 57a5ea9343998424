# A verification development of gitdr

gitdr backs up the repositories of a GitHub or GitLab organisation into object storage whose
objects are locked against deletion and overwriting for a time (WORM). This directory holds TLA+
models of it, what TLC checks of them and what TLAPS proves. Paths below are relative to the
repository.

## The system

| Component | Where | State | Operations |
|---|---|---|---|
| A run's decisions and its copies | `internal/pipeline/backup.go`, `previous.go`, `unchanged.go`, `recorded.go`, `manifest.go` | the run: its date, the verdict on the destination, the previous copies, its entries; in the bucket: the artifacts of a date and the signed manifests | start, resume, skip, copy, record, file, sign |
| Fan-out | `internal/pipeline/backup.go` (`fanOut`, `copyProgress`, `manifestContext`) | semaphore, settled flags, wait group, timers, progress | start a goroutine, settle, stop, give up waiting |
| Manifest files | `internal/pipeline/manifests.go` | none; keys named by a second | where to file, where to look, read and verify |
| Refs | `internal/pipeline/copiedrefs.go`, `refs.go`, `internal/gitexec` | none | clone, list, bundle, compare ref maps |
| Archives, encryption, checksums | `internal/pipeline/archive.go`, `lfspointers.go`, `internal/crypto` | streams | write, read, refuse |
| Restore, verify, drill | `internal/pipeline/restore.go`, `verify.go`, `drill.go` | reports | find a copy and what vouches for it, read back, restore and compare, file a report |
| Destinations | `internal/dest`, `s3`, `gcs`, `azure` | the store's | verify the lock, put create-only, multipart, list, get, read retention back |
| Sources | `internal/source`, `github`, `gitlab` | tokens, a wait budget | list, credentials, metadata, wait out a limit |
| Command line, configuration, logging, doctor | `internal/cli`, `config`, `logging`, `metrics`, `redact`, `cmd/gitdr` | none | parse, validate, report |

How they meet: the command line builds a run with a source and a destination. A run asks the
destination for its verdict once, the source for the repositories, and the recent manifests for
what the earlier runs recorded; then a goroutine per repository decides whether to skip or copy,
puts the artifacts create-only, and settles an entry; then the run files the entries in a manifest
and its signature. No run talks to another. What one run knows of another is what it reads in the
bucket, and that is objects and manifests, written one at a time by processes that may die between
any two writes. Restore, verify and drill read the same bucket.

What is hard:

- a skip relies on a copy an earlier run made, known through a chain of manifests that carried the
  record of it forward, while its lock runs down;
- the objects of a copy, the manifest that records them and its signature are separate writes;
- two runs of one date race for the same keys;
- the source moves between its listing and its clone;
- a put may be stored and its answer lost;
- a run is stopped while its repositories are in steps that do not stop, and has to file its
  manifest within a bounded time all the same;
- requests in flight together wait for the same rate limit, on another machine's clock, with a
  budget they share and a token that is replaced while they wait;
- whoever restores reads several objects one after the other, and any of them may be changed,
  damaged, deleted or replayed between two reads;
- a failed LFS fetch is worth running again as long as it adds something, and only then.

## Modules at a glance

| Module | Models | Composes | Proofs |
|---|---|---|---|
| `Backups` | runs over days on one bucket | | `Backups_proofs`, `BackupsLocks_proofs` |
| `Settling`, `FanOut` | the goroutines of one run and its stop; FanOut implements Settling | | `FanOut_proofs` |
| `CreateOnly`, `S3Put` | one key and the calls of `PutImmutable` on it; S3Put implements CreateOnly on AWS | | `S3Put_proofs` |
| `CloudPut`, `Copy` | the copy of one repository, from its clone to its sidecar on GCS or Azure; each key implements CreateOnly | Copy extends CloudPut | `Copy_proofs` |
| `Source` | the requests of one run to GitHub or GitLab | | `Source_proofs` |
| `Stored` | what restore, drill and verify find, and when they believe it | | |
| `Restore`, `Drill`, `Verify` | the three commands that read | each extends Stored; Drill extends Restore | |
| `Reading` | one of the three on a destination that changes | Drill and Verify | `Reading_proofs` |

Each `MC...` module gives TLC an instance. They were written in this order, the behaviour that loses
backups first. What is left is under Not modelled and at the end of Theorems.

## Modules

### Backups

One bucket, any number of runs over several dates, any number at once. Variables: `now`, the
clock; `source`, each repository's refs; `objects` and `manifests`, the bucket; `run[w]` and
`task[w]`, the run a process makes and how far it is with each repository.

| Action | Code |
|---|---|
| `Start` | `run`: the verdict, the selection, `loadPrevious` (operators `Recent`, `Decides`, `PreviousCopy`, `Previous`) |
| `Resumed` | `resumed`, `copySearch.find`, `recordsCopy` (`ResumedEntry`, `Recording`, `FirstFound`) |
| `SkipUnchanged`, `BeginCopy` | `backupOne`, `decideUnchanged` (`Unchanged`, `RefreshDue`, `Window`), `backup.recopy` |
| `CloneFails`, `Clone` | the first half of `backupRepo` |
| `Upload`, `UploadFails`, `FinishCopy` | its uploads, largest first, the sidecar last |
| `Stop` | a stopped run's entries |
| `FileManifest`, `Sign` | `uploadManifest`, two writes |
| `Crash` | the process dies, or the run ends with an error and files nothing |
| `Push`, `Tick`, `Lifecycle` | the source, time, the bucket's lifecycle rule |

The model decides non-deterministically what the code cannot know: which manifests cannot be read,
whether a listing fails, which upload fails and whether the store took it, and in which order
sizes put the uploads.

What it abstracts. A ref map is a value. A manifest's name is the tick it finished in; it is named
by the second in the code, so a tick has at most one. All runs file in one directory. Keys are a
repository, a date and a kind. Manifests are not taken by the lifecycle rule: they are locked as
the copies are, and one that is gone can only be not read, which `unread` covers. No push empties
a repository that had commits. A request does not outlive its process here; `FanOut` has that.
`MaxRun` is the longest a run takes, `--deadline` and the 45 seconds of the manifest; without a
deadline nothing bounds it.

### Settling and FanOut

`FanOut` is one run's fan-out. The main goroutine is `phase` with `next`, the loop's index; a
repository's goroutine is `worker[i]`, with `sent`, `stored`, `progress`, `result` beside it;
`entry` and `told` are what it is settled with and the `repo finished` events written. `Signal`
and `Deadline` stop it at any time, and a deadline may be followed by a signal. Time is three
countdowns: `graceLeft`, the 30 seconds of the repositories in flight; `finalLeft`, the 45 seconds
of the manifest's context; and `filingLeft`, how long filing takes. `Tick` happens only while the
main goroutine has nothing to do but wait, that is, its own steps take no time. Nothing is assumed
of the other goroutines: one may hang for ever, and the store may take its request at any later
time (`Land`).

`Settling` is the promise: each repository gets one outcome, which never changes, and the fan-out
is over only when all have theirs. `FanOut` maps `outcome` to `entry` and `closed` to the phases
after the manifest is composed.

A run with `worm.require` whose destination turns out to have put no retention on an object it
read back ends with an error instead of a manifest. That is a `Crash` in Backups and is left out
of FanOut.

### S3Put and CreateOnly

One key of a bucket and any number of calls of `PutImmutable` on it, by one run or several.
`at[w]` is where a call is, `part[w]` its upload's parts, `out[w]` the sends of the request that
makes the object which the store has not dealt with, and `reply[w]` the answer to the last one;
`versions` is what the key holds. The settings are constants: `Conditional` (AWS, `If-None-Match`),
`FullObject` (whether the store takes a full-object checksum), `Parts` (0 for one PUT).

| Action | Code |
|---|---|
| `Begin`, `Look`, `RefuseTaken`, `Checksum`, `Fail` | `PutImmutable` and `putParts` before they send; `objectExists`, `crc32Of`, `checksumParts` |
| `CreateUpload`, `StartPart`, `EndPart`, `PartsSent`, `PartsFail` | `createUpload`, `sendParts`, `endsAt` |
| `Send`, `SendAgain`, `Answered`, `GiveUp` | `PutObject` with the SDK's retries; `complete`, sent once |
| `SettleOurs`, `SettleOther`, `SettleAbsent` | `settle`, `settledResult`, the second upload after a 409 |
| `Commit`, `Deny` | the store, at any time after a send; the answer may be lost |

`versions` keeps what was overwritten, as a bucket with Object Lock does; in a bucket without
versions the older ones are gone. A send either carries the whole object or is not sent; that the
body is never whole unless the stream is the object is the exact reader's part. A send with a bad
stream is a `Fail`, a `PartsFail` or a send the store answers with an error. That a store may drop
the lock on completing an upload is left out: `observeRetention` reads some retention back for that.

`CreateOnly` is what Backups' `Upload` and `UploadFails` take for granted: the first write that
reaches a key is the only one, and a caller told `stored` can rely on the bytes and the retention
it is told of. It says also what Backups leaves out, a write that lands after its caller was told
of a failure. Off AWS `S3Put` does not implement it, see Findings; there `NothingOverEarlier` is
what two runs that do not overlap can rely on.

### CloudPut and Copy

`Copy` is `backupRepo` of one repository, and `CloudPut` the destination it uploads to when that is
GCS or Azure. `step` is where `backupRepo` is, `remote` the source, which goes on being pushed to;
`advertised`, `mirror` and `declared` are the three ref maps that are held to one another;
`fetched`, `log` and `archive` are the LFS side; `staged` and `listed` the uploads to come and
done; `put` the `PutImmutable` under way and `object` what the keys hold. `gone` and `seen` are
history: which refs the source lacked, and what each pointed at, at some time since the listing.

| Action | Code |
|---|---|
| `FetchMetadata`, `CloneMirror`, `CloneFails` | `backupRepo`, `Git.CloneMirror`, `retry`; the clone may have received less |
| `HoldClone` | `cloneHolds` (`Lacking`, `CloneHolds`) and the empty repository |
| `StartFetch`, `FetchAll`, `FetchPart`, `Archive` | `fetchLFS`'s loop; `keepOnlyObjects`, `moveIntoTar` |
| `Bundle` | `BundleAll` and `bundleHolds`; git may have left a ref out |
| `Stage` | encrypting, checksumming and sorting the artifacts (`Orders`) |
| `Upload`, `Uploaded`, `UploadFails`, `Finish`, `FailBefore` | `putStaged`, `copyProgress`, the entry |
| `OpenPut`, `SendBlock`, `EndStream` | `PutImmutable` of gcs and azure, `blockSizeFor`, `exactReader` |
| `Commit`, `KeyTaken`, `BreakPut`, `OtherPut` | the store, a lost answer, another run's object |
| `Push` | whoever pushes to the source |

`CopyIsTheSources` is what `cloneHolds` and `bundleHolds` are for: a ref the clone lacks is a
deletion or a loss, and only the first may pass. `CopyIsWhole` is about what a crash leaves: the
sidecar, which a restore goes by, is last, so it never stands beside half a copy, and a stream of
another length than was checksummed never becomes a locked object. `TypeOK` includes that an Azure
upload stays within the blocks a blob may have (`BlocksFit`).

`KeysAreCreateOnly` maps every key of the copy to `CreateOnly`: `KeyHolds` is what its readers find,
and `Told` what `backupRepo` makes of its put, stored once the entry lists the artifact and failed
once `PutImmutable` has returned an error. A lost answer ends in a failure beside an object of
ours, as CreateOnly allows; the next attempt of the date then meets that object and is refused. TLC
takes no temporal formula with a quantifier around it, so the property says of every step that it
is, at every key, one of CreateOnly's or none.

What it abstracts. A file's bytes are a number, and only its length changes between checksum and
upload: a change of content under the same length is what a restore's checks are for. Wiki, issues
and other metadata are one artifact, `meta`, which may fail for good. A commit is made whole or not
at all, which both stores promise. A copy to S3 has the same `Copy` and the `PutImmutable` of
`S3Put`, which has its own module because it settles lost answers and these two do not.

### Source

The requests a run makes to its source: `reader[r]` is the request of the list (`Lister`) or of one
repository's metadata. `limits`, `known`, `secondary` and `token` are the network's side: when GitHub's
primary limits lift, on GitHub's clock, what go-github remembers of the primary and the secondary
limit, and until when GitHub takes the token in the token file. `budget` is the `waitBudget` all
requests share, and `covered`, history, the ticks some wait was charged for.

A request is three steps and not one: it is sent with the token read just before (`Send`), GitHub
judges it at some time after that (`Judged`), and its answer is taken later still, within the
client's timeout. Between them the file is replaced, the token it carries may end, a limit is
spent or lifts, and other answers come.

| Action | Code |
|---|---|
| `Start`, `Page`, `EndSection`, `Return` | `ListRepos`, `FetchMetadata`, `collect`, `keep` |
| `Send`, `Unreadable` | `tokenTransport.RoundTrip`: the token file is read (`TokenSent`), or the read fails |
| `RefuseLocally`, `AnswerLimited`, `AnswerSecondary` | a limit: `limitLifts`, `waitBudget.reserve`, `call`'s waits (`Limited`, `ResetHere`, `Unnamed`, `Reserve`, `Charge`) |
| `AnswerServerError` | the tries of a 5xx (`ServerError`) |
| `Wake`, `StopWaiting` | `sleepContext`, by its timer or the end of the run |
| `AnswerPage`, `AnswerOff`, `GitLabPage` | a page, or a section that is turned off (`section`, `turnedOff`) |
| `Redirect` | `KeepTLS` and `StayOnAPI` refuse a hop off the API; one within it reads the token file again |
| `Fail`, `GitLabFail`, `Unauthorized` | every other end: a refusal, the client's timeout, a 401 |
| `GitLabSend`, `GitLabRetry` | a request to GitLab, which client-go sends again after a 429 or a 5xx |
| `Tick`, `Stop`, `SpendLimit`, `ReplaceToken` | time, the stop, GitHub's other users and whoever mints |

Which clock a wait is measured on is the refusal's to say (`limitLifts`). A primary limit's refusal
with a Date gives how long is left, and the wait ends by GitHub's clock. One without a Date, one that
go-github makes itself, and a secondary limit go by the host's clock, so that with the clocks apart
a retry may come before GitHub's reset and be refused again; `LimitWaitedOut` says of each kind what
the code gives. The token is the token file's; the one an App mints for itself is a library's. What
git and git-lfs send is the header they were started with, which is not one of these requests:
`TokenOutlastsRequest` is about the API alone, and on the condition that whoever mints replaces
the file before its token has less to go than a request may take (`token.late`, history). GitLab's
source has neither gitdr's waits nor a token file, which the guards on `provider` say; client-go's own
retries are bounded by nothing here but the end of the run.

### Stored, Restore, Drill, Verify and Reading

`Stored` is a destination of repositories `1..N`: `bundle`, `archive` and `sidecar` by repository and
date, and `filed`, what lies at each manifest's name and what its signature was made over. An
artifact stands for its own SHA-256. Nothing is assumed locked here: `Change` replaces, damages,
deletes or replays one object or one manifest at any time, up to `MaxChanges` times. It may copy a
signature and not make one.

| Module | Action | Code |
|---|---|---|
| Restore | `GoOn`, `FromManifest`, `ListManifests`, `ReadNext`, `Unrecorded` | `recordedChecks`, `checksFromManifest`, `findRestoreChecks`, `copySearch` (`Listings`, `Loads`, `RecordsCopy`) |
| | `GetBundle`, `CheckBundle`, `CloneBundle` | the download, the sidecar's and the manifest's sums, `git bundle verify`, `CompareRestoredRefs` |
| | `ListArchive`, `Unpack`, `ReadTree`, `Refuse` | the LFS archive, `lfsPointers`, and every error on the way |
| Drill | `PickManifest`, `LoadManifest`, `NoManifest` | `loadManifestForDrill`, `newestManifest` |
| | `NothingRecorded`, `DrillOne`, `EndOne` | `drillOne`, which runs Restore, and `CompareSourceRefs` |
| | `CloseReport`, `PutTold`, `PutFails`, `OtherDrill` | `uploadDrill` with its retries, `drillExit`; a drill elsewhere with the same key |
| Verify | `ReadManifest`, `RefuseManifest`, `StartRead`, `EndRead`, `Count` | `Verify`, `readBack` |
| Reading | `AskRestore`, `AskDrill`, `AskVerify`, `World` | the command line's request; the destination changing |

`Reading` runs one command, on any of the destinations in `Histories`, with any of the `Settings`:
whether it has the public and the signing key, and whether the destination settles a put whose
answer was lost. `touched`, history, is which manifests changed during a search.

What it abstracts. Refs are pairs of a namespace and a name, so that `candidates` and `clonable` can
be told apart. The records in a manifest are the fields these commands look at. Encryption is not
seen: an artifact that does not decrypt is one of the errors `Refuse` stands for, and a manifest's
sum is of the ciphertext. Without a public key a restore goes by the sidecar, which an adverse store
could rewrite; `SignedIsRestored` claims nothing then, `HistoryIsBack` does.

Definitions named `Faulty...` are bugs the code could have had. No action uses them; each is
substituted for the definition it follows to see that a property notices.

## Runs

| Run | Instance | Shows |
|---|---|---|
| `backups_days` | one repository, two ref maps, a lock of 4 ticks, 2 ticks a date, 3 runs, 4 ticks | through any chain of skips and reruns, a skip rests on a locked copy |
| `backups_overlap` | two processes, an LFS repository named for recopy, runs of up to a tick | two runs racing for a date's keys leave every recorded copy there and one run's; both copy, and neither skips |
| `backups_policy` | two repositories, one without readable metadata; a bucket that locks for 4 ticks, a configuration that says 30; 5 ticks | an entry speaks only for its own repository, a copy that failed on its metadata is none, and the skip window follows the bucket |
| `backups_verdict` | a bucket whose verdict may once be unknown | a violation, see Findings |
| `fanout` | 3 repositories, 2 slots, 1 artifact, a store that may be too slow for the grace | one outcome, one event, nothing recorded that is not stored; a run that nothing stops files its manifest |
| `fanout_stop` | concurrency 0, taken as 1; 2 artifacts; graces of 1 and 3; goroutines that may hang | a stopped run files its manifest in time; FanOut implements Settling |
| `s3_aws` | 3 calls, conditional writes, 2 sends a PUT, 1 part | S3Put implements CreateOnly on AWS |
| `s3_portable` | 2 calls, one of 3 parts, 2 at a time | told stored means stored; a later call writes nothing; every call returns |
| `s3_race` | the same | a violation, see Findings |
| `copy` | a branch and a pull request's ref, 2 commits with LFS objects, 2 pushes, sizes of 2 blocks and of more than fit, 1 object of another run | a copy is the source's and whole, whatever fails, its keys implement CreateOnly, and it ends |
| `source` | a list of 2 pages, 2 repositories read together and one filtered out, sections of 1 and 2 pages, 3 ticks with 2 to wait, 1 primary limit of 2 ticks, GitHub's clock one behind, requests of up to 1 tick, tokens that live 2 and are replaced at any time | the shared budget, limits on either clock and remembered ones, whole answers, tokens that last as long as their request |
| `reading` | 2 repositories, 2 dates, 2 directories, 3 manifests, 7 documents of which 5 are signed, 1 change, 2 slots | restore, drill and verify pass on nothing but a signed run's own copy; every command ends |

The bounds. A wrong record takes two runs to make and a third to rely on it; three dates give a rerun
of the same date and a chain of skips over the next ones; a lock of four ticks has a refresh bound (two)
with ages before, at and after it. Three repositories behind two slots leave one waiting in the
loop. For a settle to take an object for its own that is not, one other call with the same bytes is enough,
and a third call is what both of them may meet. Three parts behind two slots leave one for the loop
to start after a failure, and two sends of a PUT are one that is late and one that meets it.
A ref may be deleted and come back in two pushes, and of two refs one is a branch, which has to come
back, and one is not. Sizes 5 and 9, with two blocks of at most 4 bytes in whole MiB of 2, are an
artifact that just takes a second block and one that does not fit. Two readers are enough to wait
together, to begin at different times and to have the budget run out under one of them; two ticks
of budget against a limit of two lets a wait be paid for and the next refused, and three ticks let
a request that waited be refused and wait again. A request of up to one tick has its token replaced,
or a limit lifted, between its sending and its answer, and a token of two ticks may be replaced
early, in time or late. A restore reads
a handful of objects one by one; one change is enough to come between any two of them, and the
documents hold what a change may put there: a forged one, one too large, a report in the place of a
manifest, a signed one under another name. Three manifests put the one that records a copy before,
after and beside others in a search, and in both directories.

`MaxTime`, `MaxRuns`, `MaxPushes`, `MaxOthers`, `MaxLimits` and `MaxChanges` bound what
the environment does, and are only in the guards of its actions and of `Start`. Things that play the
same part are permuted (`Symmetry`, `Alike`); the runs of liveness properties use no symmetry.
Deadlock is not checked: the bounds stop Backups and Source, and a fan-out, a put, a copy and a
command end.

Fairness, for the liveness properties. `StoppableSpec`: the main goroutine and the clock go on
(`WF` of `Main` and `Tick`), as nothing in its own code blocks but what `MainWaits` lists. It is
all `StoppedIsFiled` needs, so goroutines may hang. `WorkingSpec` adds that each goroutine comes to
an end (`WF` of its returns), which git's, the source's and the store's answers or timeouts give;
`EventuallyFiled` needs it, and no stop.
`FairSpec` of S3Put is `WF` of a call's own steps: the connection's end or the run's deadline ends
every wait for the store, a part has a deadline of its own, and nothing is assumed of the store.
`Spec` of Copy is `WF` of the copy's own steps together (`Work`), not of any one: no git command is
assumed to succeed, and the LFS fetch may fail every time; `CopyEnds` rests on `FetchPart` being taken
again only when it has added an object. `Spec` of Reading is `WF` of the command's steps together, and the
store may answer each of them with an error; `CommandEnds` rests on the searches and retries being
finite and on every reader giving its slot back.

## Findings

`backups_verdict`. A run whose `VerifyWorm` did not confirm the lock, because the probe failed
once, say, sends no retention with its objects (`backup.go:142-147`), which is right for a bucket
that has no lock. Its manifest then counts like any other: `previousCopy` (`previous.go:145`) does
not look at the manifest's destination verdict, nor at the artifacts' `retainUntil`. The next run,
its verdict immutable, skips the repository as unchanged and relies on an object with no lock on
it, where SPEC.md:704-705 says "at least two thirds of its lock remain". The passing runs and the theorems
assume a destination that always confirms (`Confirmed`, `AlwaysLocked`), or one whose own policy
locks whatever gitdr sends (`Policy`).

`s3_race`. Off AWS `PutImmutable` asks with HeadObject whether the key is free and writes it in a
request of its own that the store has no reason to refuse (`s3.go:282-298`; `multipart.go:339-347`).
Two calls that look before either writes both write, both are told so, and the key reads as the
later one. `dest.go:168-169` says "implementations MUST refuse to overwrite an existing key
(fail-closed)", and `s3.go:210` "create-only, never overwriting or deleting". Two runs of one date
at once are what it takes, the case of `backups_overlap`, whose `CopyIsOneRuns` therefore holds of
stores with conditional writes. On a bucket with Object Lock the earlier object stays, as an older
version.

## Theorems

`Backups_proofs`, for any sets, runners, clocks and bounds:

- `TypeCorrect`.
- `RecordedCopiesAlwaysExist`, assuming `AlwaysLocked` (every write is locked, see Findings). `RecordedCopiesExist`
  is about manifests, and a manifest is made of entries, which are made of previous copies or of
  the run's own writes, so the invariant says the same of all four: `WrittenHeld` (what a task has
  written is there, locked), `EntriesHonest`, `PreviousHonest` and `ManifestsHonest`.
  `RunsInTime` bounds the age of a run, which turns a lock from the run's start into one from
  `copiedAt`, and `IdleHasNoTasks` ties tasks to their runs. `NewestExists` (a finite choice made
  by well-foundedness) gives `Previous` and `FirstFound` the manifest they choose.
- `DestinationIsCreateOnly`, from type correctness alone.

`BackupsLocks_proofs` goes on from that invariant, and follows an entry from the step that settles it
to the manifests of later runs:

- `CopiesAreOneRuns`, assuming `AlwaysLocked`. An entry of a copy says its own run wrote the kinds it
  lists, on the run's date or later (`EntriesOwn`), and so does every manifest (`ManifestsOwn`), of
  which those entries are made (`ManifestFrom`). Two runs of one date may be under way at once: a
  key the other took fails the upload, and the entry with it, so that what a task has
  written is its own run's (`WrittenHeld`) when the entry is made of it (`CopyIsOwn`).
- `SkipsRestOnLockedCopies`, assuming `AlwaysLocked`, `WindowKnown` and `LockOutlivesRuns`. How old a
  copy may be is decided when the repository is settled, and the skip stands until the run is over, so
  the invariant bounds the age at the start of the run (`SkipsFresh`): a third of the lock for an
  unchanged repository, the run's own date for a resumed one. `RunsInTime` bounds the rest
  (`LockIsLeft`). A resumed copy is of the run's date because the manifest it is found in is, which
  `ManifestsOwn` says; an unchanged one may have been carried forward by any number of manifests, along
  which `copiedAt` stays that of the copy. `HeldTogether` (a finite choice, the least of the copy's
  locks) gives the one time until which the whole copy is locked.

  The two hypotheses on the lock are what the property needs and the code does not check.
  `WindowKnown`: the window a run counts with is known, and not longer than the lock; a run that
  knows neither days nor a period has no third to count. `LockOutlivesRuns`: the lock is at least a
  date and two runs long, and three runs. A copy resumed late in its date by a long run is otherwise
  skipped on when its lock has ended: with `retention.days` at 1 and runs of hours, say. The
  documented examples lock for 30 days (QUICKSTART.md:35, 193). The constants of `backups_days` and
  `backups_policy` satisfy all three hypotheses, so those runs check what the theorem says.

`FanOut_proofs`, for any number of repositories, concurrency and graces:

- `Invariance`, and from it `TypeCorrect`, `EachToldOnce`, `LimitHeld`, `RecordedAreStored`,
  `ProgressThere`. The invariant adds to them where the loop is (`StartedInOrder`), that a
  goroutine past its settle left an entry (`ReturnedWithResult`), that the loop settled what it did
  not start (`SettledOrStarted`) and that nothing is open once the fan-out returns
  (`ClosedIsSettled`).
- `ManifestNeverLost`, assuming `GraceFits`: filing takes less than the manifest's own part of the
  grace. `Budget` says phase by phase what must be left of the manifest's context.
- `FanOutSettlesAll`: every step of FanOut is a step of Settling or none.

`S3Put_proofs`, for any number of calls, parts, sends and retentions, on a store of either sort:

- `Invariance`, and from it `TypeCorrect`, `StoredStaysThere`, `LaterCallsWriteNothing`,
  `UploadCommitsOnce` and `UploadIsWhole`. The invariant says that an answer of success is for a
  write that took place (`OkIsThere`), that a call has nothing out before it sends (`NothingOut`),
  that a completion is answered when it is not out (`CompleteOut`, `CommittedEnds`), and that a call
  that met a taken key gets no further than its look, or is refused by the store (`TakenStops`).
- `ConditionalKeyIsCreateOnly`, assuming `Conditional`: every step is a step of CreateOnly or none.

`Copy_proofs`, for any refs, commits, pushes, sizes and block limits:

- `CopyIsAlwaysTheSources` and `CopyIsAlwaysWhole`. The invariant goes along the copy: what the source
  was seen to have (`SourceSeen`), that a clone once held lacks nothing it should have
  (`CloneIsHeld`), that the bundle is the clone (`BundleIsClone`) and the archive has what its refs
  point at (`ArchiveIsWhole`), that nothing is at a key before the first upload (`NothingUploaded`),
  that the put under way is of its artifact at its size (`PutIsHead`), that what is stored is whole
  (`ObjectsHold`), and that the sidecar is staged and sent last (`SidecarLast`).
- `TypeCorrect`, with the limits of an Azure blob: `BlocksCounted` says how many blocks carry the
  bytes sent so far, and the lemmas on `\div` before it (`Division`, `Products`, `RoundedUp`) that
  the rounded-up block size times the blocks a blob may have is no less than the artifact.
- `CopyKeysAreCreateOnly`: at every key, every step is one of CreateOnly's or none. Only three kinds
  of step are one: a commit or another run's put is the first write (`FirstWrite`, for which the commit's
  length must be the artifact's, `PutIsHead`), an entry that lists the artifact is told of it
  (`UploadedTells`, by `ObjectsHold`), and a put that fails tells of a failure (`FailureIsTold`).

`Source_proofs`, for any repositories, pages, waits, clocks and number of requests:

- `Invariance`, and from it `TypeCorrect`, `ChargedOnce`, `ResetWaitedOut`, `AskedInBetween`, `WholeOrAnError` and
  `TokenOutlasts`. `NoGap` is what makes the budget exact: from now to the end of the latest wait
  charged every tick is charged, so that only the part of a wait after that end is new
  (`ChargeIsNew`). `Waits` says of a request in each phase what it waited for and whom it asked,
  `ReadSoFar` that a document has every page up to its reader's and nothing later, `List` the same
  of the list, `Returned` that a result is given once. `Lasts` says of a request under way that it is
  over within the client's timeout, and that the token it carries lasts until then if the file was
  replaced in time; `NetworkInv` says the second of the file's own token, which is what a request is
  sent with.

`Reading_proofs`, for any repositories, dates, directories, documents and destinations, any number
of changes, and any concurrency:

- `Invariance`, and from it `TypeCorrect`, `RestoresWhatWasSigned`, `RestoresHistory`, `UnrecordedIsSo`,
  `DrillIsAProof`, `ReportIsStored` and `VerifyIsAProof`. Of a restore the invariant says that what vouches was signed
  (`ChecksAreSigned`), that what came back so far is what it says (`ChecksHold`, `RefsAreBack`), and
  that nothing the search is past records the copy, unless it changed meanwhile (`SearchedSoFar`).
  Of a drill, that it is about one document (`DocIsChosen`), that the restore under way is of the
  entry it is counted for (`OneAtATime`), that what the report calls a success came back
  (`CameBack`), and which report the keys hold (`Closing`, `ReportIsOurs`). Of a verify, that it reads what was
  signed and keeps each result at its own artifact (`ReadAsSigned`, `Passed`). `Underway` ties the
  phases of the parts together.

The assumptions on constants are named in the modules that declare them. They say that a value
for "nothing" is none of the things it stands beside, that numbers are natural, and that there is something to
choose (a date, a newest manifest, a last page). `PowersAssumption` of Source says that the powers of two a wait doubles by are
natural numbers, which is so, and of which the prover, to which `^` is uninterpreted, knows nothing. TLC evaluates
all of them on every run.

Every invariant and action property that a passing run checks is a theorem, on the hypotheses named
above. Only model-checked: the liveness properties `StoppedIsFiled`, `EventuallyFiled`,
`EveryCallReturns`, `CopyEnds` and `CommandEnds`, which rest on fairness and ENABLED and are out of the
prover's reach.

## Not modelled

- The probes of a destination's lock (`VerifyWorm` of s3, gcs and azure) and the read-back of
  retention: sequential reads of provider settings. Their answer is `Answers` in Backups.
- Listings, downloads and their pagination, at the destinations.
- The encrypted envelope's chunks and the cryptographic primitives; the tar format and the checks on
  its paths, which are `Safe` in Restore.
- git's processes, environment, credentials and the parsing of what they print (`internal/gitexec`);
  what each command gives back is in Copy and Restore.
- The minting of App tokens, a library's; the header git and git-lfs are started with, which they go
  on sending after its token has ended; how often client-go tries a request again.
- Flags, configuration and doctor, which parse, validate and report; logging, metrics, redaction and
  context I/O; the measuring programs under `scale/`. They are sequential and keep no state that a
  property here would be about.

`PROJECT.json`, `components`, says the same part by part.
