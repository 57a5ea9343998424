------------------------------- MODULE FanOut -------------------------------
(***************************************************************************)
(* One run's fan-out and the manifest that follows it, as fanOut and run   *)
(* of internal/pipeline/backup.go do them: a goroutine per repository      *)
(* behind a semaphore, a stop that no goroutine need heed, and two graces  *)
(* counted from the stop, one for the repositories in flight and a longer  *)
(* one for the manifest.                                                   *)
(*                                                                         *)
(* Nothing here assumes that a repository's goroutine ever returns: it may *)
(* hang in a step that does not look at its context. The main goroutine    *)
(* does not: it takes no time over a step it is able to take.              *)
(***************************************************************************)
EXTENDS Integers, FiniteSets, Sequences

CONSTANTS
  N,              \* how many repositories the run selected
  Concurrency,    \* backup.concurrency
  Kinds,          \* the artifacts a copy is made of
  InFlightGrace,  \* what a stopped run gives the repositories in flight
  ManifestGrace,  \* how long the manifest's context outlives a signal
  FilingTime,     \* the longest that reading the retention back and storing the
                  \* manifest and its signature take
  None            \* no entry, and no upload in flight

Repos == 1 .. N

\* cut is whether the error says the run was stopped before it finished.
Entry == [status : {"success", "skipped", "failed"}, cut : BOOLEAN,
          artifacts : SUBSET Kinds]

Cut(artifacts) == [status |-> "failed", cut |-> TRUE, artifacts |-> artifacts]

ASSUME ConstantsAssumption ==
  /\ N \in Nat \ {0}
  /\ Concurrency \in Int
  /\ IsFiniteSet(Kinds)
  /\ FilingTime \in Nat
  /\ ManifestGrace \in Nat
  /\ InFlightGrace \in 0 .. ManifestGrace
  /\ None \notin Kinds /\ None \notin Entry

\* What the two graces are chosen for: the manifest's own part of its grace is
\* more than filing it takes.
GraceFits == InFlightGrace + FilingTime < ManifestGrace

VARIABLES
  phase,     \* where the main goroutine is
  next,      \* the next repository the loop starts
  slots,     \* how many hold the semaphore
  stopped,   \* the work's context is done: a signal came or the deadline passed
  graceLeft, \* what is left of the in-flight grace
  finalLeft, \* what is left of the manifest's context; it lasts until a signal
  filingLeft,\* what is left of FilingTime
  worker,    \* worker[i]: where repository i's goroutine is
  sent,      \* sent[i]: the artifact its request to the store carries
  stored,    \* stored[i]: the artifacts the store has of it
  progress,  \* progress[i]: copyProgress, the artifacts whose upload returned
  result,    \* result[i]: the entry backupOne returned
  entry,     \* entry[i]: the entry i is settled with
  told       \* told[i]: the repo finished events written for i

mainVars == <<phase, next, graceLeft, filingLeft>>
workVars == <<sent, stored, progress>>
vars == <<phase, next, slots, stopped, graceLeft, finalLeft, filingLeft,
          worker, sent, stored, progress, result, entry, told>>

Phases == {"starting", "waiting", "grace", "returning", "filing", "filed", "lost"}
Steps == {"none", "running", "returned", "settled", "gone"}

Unlimited == ManifestGrace + 1  \* finalLeft before a signal

Limit == IF Concurrency < 1 THEN 1 ELSE Concurrency

Init ==
  /\ phase = "starting"
  /\ next = 1
  /\ slots = 0
  /\ stopped = FALSE
  /\ graceLeft = InFlightGrace
  /\ finalLeft = Unlimited
  /\ filingLeft = FilingTime
  /\ worker = [i \in Repos |-> "none"]
  /\ sent = [i \in Repos |-> None]
  /\ stored = [i \in Repos |-> {}]
  /\ progress = [i \in Repos |-> {}]
  /\ result = [i \in Repos |-> None]
  /\ entry = [i \in Repos |-> None]
  /\ told = [i \in Repos |-> <<>>]

-----------------------------------------------------------------------------
(***************************************************************************)
(* Settling, under the fan-out's mutex.                                    *)
(***************************************************************************)

\* Faulty: an entry settled before is settled again.
FaultySettleAll(entries) ==
  /\ entry' = [i \in Repos |-> IF i \in DOMAIN entries THEN entries[i] ELSE entry[i]]
  /\ told' = [i \in Repos |-> IF i \in DOMAIN entries
                              THEN Append(told[i], entries[i]) ELSE told[i]]

\* settle, for each of the repositories entries maps: the first entry stands
\* and its event is written; any later one is dropped.
SettleAll(entries) ==
  LET fresh == {i \in DOMAIN entries : entry[i] = None}
  IN  /\ entry' = [i \in Repos |-> IF i \in fresh THEN entries[i] ELSE entry[i]]
      /\ told' = [i \in Repos |-> IF i \in fresh THEN Append(told[i], entries[i]) ELSE told[i]]

-----------------------------------------------------------------------------
(***************************************************************************)
(* The main goroutine.                                                     *)
(***************************************************************************)

\* Faulty: one more than the limit.
FaultySpawn ==
  /\ phase = "starting" /\ next <= N
  /\ slots <= Limit /\ ~ stopped
  /\ slots' = slots + 1
  /\ worker' = [worker EXCEPT ![next] = "running"]
  /\ next' = next + 1
  /\ UNCHANGED <<phase, stopped, graceLeft, finalLeft, filingLeft, workVars, result, entry, told>>

\* The loop takes the semaphore, finds the context live and starts the next.
Spawn ==
  /\ phase = "starting" /\ next <= N
  /\ slots < Limit /\ ~ stopped
  /\ slots' = slots + 1
  /\ worker' = [worker EXCEPT ![next] = "running"]
  /\ next' = next + 1
  /\ UNCHANGED <<phase, stopped, graceLeft, finalLeft, filingLeft, workVars, result, entry, told>>

\* Faulty: the loop looks at the context only once it holds the semaphore.
FaultyStopLoop ==
  /\ phase = "starting" /\ next <= N
  /\ stopped /\ slots < Limit
  /\ SettleAll([i \in next .. N |-> Cut({})])
  /\ phase' = "waiting"
  /\ UNCHANGED <<next, graceLeft, filingLeft, slots, stopped, finalLeft, worker, workVars, result>>

\* Faulty: the repository the loop had reached is forgotten.
FaultyStopLoopAfter ==
  /\ phase = "starting" /\ next <= N
  /\ stopped
  /\ SettleAll([i \in next + 1 .. N |-> Cut({})])
  /\ phase' = "waiting"
  /\ UNCHANGED <<next, graceLeft, filingLeft, slots, stopped, finalLeft, worker, workVars, result>>

\* Faulty: the semaphore is given back whether or not it was taken.
FaultyRelease ==
  /\ phase = "starting" /\ next <= N
  /\ stopped
  /\ SettleAll([i \in next .. N |-> Cut({})])
  /\ phase' = "waiting"
  /\ slots' = slots - 1
  /\ UNCHANGED <<next, graceLeft, filingLeft, stopped, finalLeft, worker, workVars, result>>

\* The loop finds the context done, gives back the semaphore if it took it,
\* and settles every repository it had not started.
StopLoop ==
  /\ phase = "starting" /\ next <= N
  /\ stopped
  /\ SettleAll([i \in next .. N |-> Cut({})])
  /\ phase' = "waiting"
  /\ UNCHANGED <<next, graceLeft, filingLeft, slots, stopped, finalLeft, worker, workVars, result>>

EndLoop ==
  /\ phase = "starting" /\ next = N + 1
  /\ phase' = "waiting"
  /\ UNCHANGED <<next, graceLeft, filingLeft, slots, stopped, finalLeft, worker, workVars,
                 result, entry, told>>

\* The wait group: no goroutine that was started is still there.
AllGone == \A i \in Repos : worker[i] \in {"none", "gone"}

\* Every goroutine has returned, within the grace or without a stop.
Return ==
  /\ phase \in {"waiting", "grace"}
  /\ AllGone
  /\ phase' = "returning"
  /\ UNCHANGED <<next, graceLeft, filingLeft, slots, stopped, finalLeft, worker, workVars,
                 result, entry, told>>

\* Faulty: the repositories in flight are given what the manifest has.
FaultyBeginGrace ==
  /\ phase = "waiting" /\ stopped
  /\ phase' = "grace"
  /\ graceLeft' = ManifestGrace
  /\ UNCHANGED <<next, filingLeft, slots, stopped, finalLeft, worker, workVars, result, entry, told>>

BeginGrace ==
  /\ phase = "waiting" /\ stopped
  /\ phase' = "grace"
  /\ graceLeft' = InFlightGrace
  /\ UNCHANGED <<next, filingLeft, slots, stopped, finalLeft, worker, workVars, result, entry, told>>

\* The grace is over: what is not settled is recorded as cut short, with what
\* it had written, and the run goes on without it.
Abandon ==
  /\ phase = "grace" /\ graceLeft = 0
  /\ SettleAll([i \in {j \in Repos : entry[j] = None} |-> Cut(progress[i])])
  /\ phase' = "returning"
  /\ UNCHANGED <<next, graceLeft, filingLeft, slots, stopped, finalLeft, worker, workVars, result>>

\* The entries are what the manifest lists; reading the retention back and
\* storing the manifest and its signature begin.
Compose ==
  /\ phase = "returning"
  /\ phase' = "filing"
  /\ filingLeft' = FilingTime
  /\ UNCHANGED <<next, graceLeft, slots, stopped, finalLeft, worker, workVars, result, entry, told>>

File ==
  /\ phase = "filing" /\ finalLeft > 0
  /\ phase' = "filed"
  /\ UNCHANGED <<next, graceLeft, filingLeft, slots, stopped, finalLeft, worker, workVars,
                 result, entry, told>>

\* The manifest's context ends first, and the run files nothing.
Lose ==
  /\ phase = "filing" /\ finalLeft = 0
  /\ phase' = "lost"
  /\ UNCHANGED <<next, graceLeft, filingLeft, slots, stopped, finalLeft, worker, workVars,
                 result, entry, told>>

Main ==
  Spawn \/ StopLoop \/ EndLoop \/ Return \/ BeginGrace \/ Abandon \/ Compose \/ File \/ Lose

-----------------------------------------------------------------------------
(***************************************************************************)
(* A repository's goroutine. Its uploads go one by one; a request that was *)
(* sent may reach the store long after, or after the client gave it up,    *)
(* and none is sent on a context that is done.                             *)
(***************************************************************************)
Send(i, kind) ==
  /\ worker[i] = "running" /\ sent[i] = None /\ ~ stopped
  /\ kind \notin stored[i]
  /\ sent' = [sent EXCEPT ![i] = kind]
  /\ UNCHANGED <<mainVars, slots, stopped, finalLeft, worker, stored, progress, result, entry, told>>

Land(i) ==
  /\ sent[i] # None
  /\ stored' = [stored EXCEPT ![i] = @ \cup {sent[i]}]
  /\ UNCHANGED <<mainVars, slots, stopped, finalLeft, worker, sent, progress, result, entry, told>>

\* Faulty: an upload counts when it is sent.
FaultyPut(i) ==
  /\ worker[i] = "running" /\ sent[i] # None
  /\ progress' = [progress EXCEPT ![i] = @ \cup {sent[i]}]
  /\ sent' = [sent EXCEPT ![i] = None]
  /\ UNCHANGED <<mainVars, slots, stopped, finalLeft, worker, stored, result, entry, told>>

\* putStaged returns, and the artifact goes into progress.
Put(i) ==
  /\ worker[i] = "running" /\ sent[i] # None /\ sent[i] \in stored[i]
  /\ progress' = [progress EXCEPT ![i] = @ \cup {sent[i]}]
  /\ sent' = [sent EXCEPT ![i] = None]
  /\ UNCHANGED <<mainVars, slots, stopped, finalLeft, worker, stored, result, entry, told>>

\* backupOne returns. It can fail at any point, with an upload unanswered; the
\* failure is put down to the stop when there has been one. A skip has written
\* nothing, or the part of the kinds that an empty repository has.
Finish(i, status) ==
  /\ worker[i] = "running"
  /\ status # "failed" => sent[i] = None
  /\ status = "success" => progress[i] = Kinds
  /\ status = "skipped" => progress[i] # Kinds
  /\ result' = [result EXCEPT ![i] =
       [status |-> status, cut |-> status = "failed" /\ stopped, artifacts |-> progress[i]]]
  /\ worker' = [worker EXCEPT ![i] = "returned"]
  /\ UNCHANGED <<mainVars, slots, stopped, finalLeft, workVars, entry, told>>

Settle(i) ==
  /\ worker[i] = "returned"
  /\ SettleAll([j \in {i} |-> result[j]])
  /\ worker' = [worker EXCEPT ![i] = "settled"]
  /\ UNCHANGED <<mainVars, slots, stopped, finalLeft, workVars, result>>

\* Faulty: a repository that failed keeps the semaphore.
FaultyLeave(i) ==
  /\ worker[i] = "settled"
  /\ slots' = IF result[i].status = "failed" THEN slots ELSE slots - 1
  /\ worker' = [worker EXCEPT ![i] = "gone"]
  /\ UNCHANGED <<mainVars, stopped, finalLeft, workVars, result, entry, told>>

\* The deferred calls: the semaphore is given back, and the wait group told.
Leave(i) ==
  /\ worker[i] = "settled"
  /\ slots' = slots - 1
  /\ worker' = [worker EXCEPT ![i] = "gone"]
  /\ UNCHANGED <<mainVars, stopped, finalLeft, workVars, result, entry, told>>

Work(i) ==
  \/ \E kind \in Kinds : Send(i, kind)
  \/ Land(i)
  \/ Put(i)
  \/ \E status \in {"success", "skipped", "failed"} : Finish(i, status)
  \/ Settle(i)
  \/ Leave(i)

-----------------------------------------------------------------------------
(***************************************************************************)
(* The stop, and time.                                                     *)
(***************************************************************************)
Deadline ==
  /\ ~ stopped
  /\ stopped' = TRUE
  /\ UNCHANGED <<mainVars, slots, finalLeft, worker, workVars, result, entry, told>>

\* A signal stops the work, and the manifest's context a grace later. A
\* deadline leaves that context alone.
Signal ==
  /\ finalLeft = Unlimited
  /\ stopped' = TRUE
  /\ finalLeft' = ManifestGrace
  /\ UNCHANGED <<mainVars, slots, worker, workVars, result, entry, told>>

\* The main goroutine can only wait: for a slot, for the repositories, for the
\* timer, or for the store.
MainWaits ==
  \/ phase = "starting" /\ next <= N /\ ~ stopped /\ slots >= Limit
  \/ phase = "waiting" /\ ~ stopped /\ ~ AllGone
  \/ phase = "grace" /\ ~ AllGone /\ graceLeft > 0
  \/ phase = "filing" /\ filingLeft > 0 /\ finalLeft > 0

Tick ==
  /\ MainWaits
  /\ graceLeft' = IF phase = "grace" THEN graceLeft - 1 ELSE graceLeft
  /\ filingLeft' = IF phase = "filing" THEN filingLeft - 1 ELSE filingLeft
  /\ finalLeft' = IF finalLeft \in {0, Unlimited} THEN finalLeft ELSE finalLeft - 1
  /\ UNCHANGED <<phase, next, slots, stopped, worker, workVars, result, entry, told>>

Next ==
  \/ Main
  \/ \E i \in Repos : Work(i)
  \/ Deadline
  \/ Signal
  \/ Tick

Spec == Init /\ [][Next]_vars

\* The main goroutine and the clock go on. Of a repository's goroutine this
\* promises nothing.
MainFair == WF_vars(Main) /\ WF_vars(Tick)
StoppableSpec == Spec /\ MainFair

\* Every repository's goroutine comes to an end of its own, as git, the source
\* and the store answer it.
Returns(i) ==
  Land(i) \/ Put(i) \/ (\E status \in {"success", "skipped", "failed"} : Finish(i, status))
    \/ Settle(i) \/ Leave(i)
WorkingSpec == Spec /\ MainFair /\ \A i \in Repos : WF_vars(Returns(i))

-----------------------------------------------------------------------------
TypeOK ==
  /\ phase \in Phases
  /\ next \in 1 .. N + 1
  /\ slots \in 0 .. Limit
  /\ stopped \in BOOLEAN
  /\ graceLeft \in 0 .. InFlightGrace
  /\ finalLeft \in 0 .. Unlimited
  /\ filingLeft \in 0 .. FilingTime
  /\ worker \in [Repos -> Steps]
  /\ sent \in [Repos -> Kinds \cup {None}]
  /\ stored \in [Repos -> SUBSET Kinds]
  /\ progress \in [Repos -> SUBSET Kinds]
  /\ result \in [Repos -> Entry \cup {None}]
  /\ entry \in [Repos -> Entry \cup {None}]
  /\ told \in [Repos -> Seq(Entry)]

\* A repository that is settled has had exactly one repo finished event, and
\* the event says what the manifest will: whether the repository's goroutine,
\* the loop or the end of the grace settled it, in whatever order they came.
ToldOnce ==
  \A i \in Repos : told[i] = IF entry[i] = None THEN <<>> ELSE <<entry[i]>>

\* The semaphore counts the goroutines that have not left, so there are never
\* more of them than backup.concurrency, whatever a stop interrupts.
InFlightLimit ==
  /\ slots = Cardinality({i \in Repos : worker[i] \in {"running", "returned", "settled"}})
  /\ slots <= Limit

\* An entry lists no artifact the store does not have, though it can be written
\* while the repository's goroutine is still uploading.
RecordedWereStored ==
  \A i \in Repos : entry[i] # None => entry[i].artifacts \subseteq stored[i]

\* When the grace ends, every repository still open is one whose goroutine was
\* started, and so has the progress that is read for it.
OpenWasStarted ==
  phase = "grace" => \A i \in Repos : entry[i] = None => worker[i] # "none"

\* The time to file the manifest never runs out: a signal leaves the manifest
\* its own part of the grace whatever the repositories in flight do.
NeverLost ==
  /\ phase # "lost"
  /\ phase = "filing" => finalLeft > 0

\* A run that is stopped files its manifest, though the goroutines in flight
\* may never return.
StoppedIsFiled == stopped ~> phase = "filed"

\* A run that nothing stops files its manifest too, when each repository's
\* goroutine comes to an end: the loop is never left waiting for a slot.
EventuallyFiled == []~stopped => <>(phase = "filed")

\* The fan-out keeps its promise to the run: one outcome for each repository,
\* which does not change, and all of them when it returns.
Promise == INSTANCE Settling WITH
  Outcomes <- Entry,
  outcome <- entry,
  closed <- phase \in {"filing", "filed", "lost"}

SettlesAll == Promise!Spec
=============================================================================
