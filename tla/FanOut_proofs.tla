---------------------------- MODULE FanOut_proofs ----------------------------
(***************************************************************************)
(* Proofs about FanOut, for every number of repositories, every            *)
(* concurrency and every pair of graces.                                   *)
(***************************************************************************)
EXTENDS FanOut, FiniteSetTheorems, TLAPS

-----------------------------------------------------------------------------
(***************************************************************************)
(* The inductive invariant.                                                *)
(***************************************************************************)
Active == {i \in Repos : worker[i] \in {"running", "returned", "settled"}}

\* The loop starts the repositories in order, and has started those it passed.
StartedInOrder ==
  \A i \in Repos : worker[i] = "none" <=> i >= next

\* A goroutine that has returned has a result, and one that has got past settle
\* left its repository settled.
ReturnedWithResult ==
  \A i \in Repos :
    /\ worker[i] \in {"returned", "settled", "gone"} => result[i] # None
    /\ worker[i] \in {"settled", "gone"} => entry[i] # None

\* Once the loop is over, whatever it did not start is settled.
SettledOrStarted ==
  phase # "starting" => \A i \in Repos : worker[i] = "none" => entry[i] # None

Closed == phase \in {"returning", "filing", "filed", "lost"}

ClosedIsSettled == Closed => \A i \in Repos : entry[i] # None

\* The store has what a goroutine's progress and its result list.
ProgressStored ==
  \A i \in Repos :
    /\ progress[i] \subseteq stored[i]
    /\ result[i] # None => result[i].artifacts \subseteq stored[i]

IInv ==
  /\ TypeOK
  /\ ToldOnce
  /\ InFlightLimit
  /\ StartedInOrder
  /\ ReturnedWithResult
  /\ SettledOrStarted
  /\ ClosedIsSettled
  /\ ProgressStored
  /\ RecordedWereStored

-----------------------------------------------------------------------------
(***************************************************************************)
(* Lemmas.                                                                 *)
(***************************************************************************)

\* Limit is at least one, whatever backup.concurrency says.
LEMMA LimitType == Limit \in Nat \ {0}
  BY ConstantsAssumption DEF Limit

\* An entry cut short is an entry.
LEMMA CutType == \A artifacts \in SUBSET Kinds : Cut(artifacts) \in Entry
  BY DEF Cut, Entry

\* The first event is the only one.
LEMMA AppendToEmpty == \A e : Append(<<>>, e) = <<e>>
  OBVIOUS

\* What settling does: the first entry stands, every repository named is
\* settled after it, and each has the one event.
LEMMA SettleAllStep ==
  ASSUME TypeOK, ToldOnce, NEW entries,
         DOMAIN entries \subseteq Repos,
         \A i \in DOMAIN entries : entries[i] \in Entry,
         SettleAll(entries)
  PROVE  /\ entry' \in [Repos -> Entry \cup {None}]
         /\ told' \in [Repos -> Seq(Entry)]
         /\ ToldOnce'
         /\ \A i \in Repos : entry[i] # None => entry'[i] = entry[i]
         /\ \A i \in DOMAIN entries : entry'[i] # None
         /\ \A i \in Repos : \/ entry'[i] = entry[i]
                             \/ i \in DOMAIN entries /\ entry'[i] = entries[i]
<1>0. None \notin Entry
  BY ConstantsAssumption
<1> DEFINE fresh == {i \in DOMAIN entries : entry[i] = None}
<1>1. entry' = [i \in Repos |-> IF i \in fresh THEN entries[i] ELSE entry[i]]
  BY DEF SettleAll
<1>2. told' = [i \in Repos |-> IF i \in fresh THEN Append(told[i], entries[i]) ELSE told[i]]
  BY DEF SettleAll
<1>3. \A i \in fresh : i \in Repos /\ entries[i] \in Entry /\ entries[i] # None /\ told[i] = <<>>
  BY <1>0 DEF ToldOnce
<1>4. \A i \in fresh : told'[i] = <<entries[i]>>
  <2> SUFFICES ASSUME NEW i \in fresh PROVE told'[i] = <<entries[i]>>
    OBVIOUS
  <2>1. told'[i] = Append(<<>>, entries[i])
    BY <1>2, <1>3
  <2> QED
    BY <2>1, AppendToEmpty
<1> HIDE DEF fresh
<1>5. entry' \in [Repos -> Entry \cup {None}]
  BY <1>1, <1>3 DEF TypeOK
<1>6. ToldOnce'
  BY <1>1, <1>2, <1>3, <1>4 DEF ToldOnce
<1>7. told' \in [Repos -> Seq(Entry)]
  BY <1>2, <1>3, <1>4 DEF TypeOK
<1>8. /\ \A i \in Repos : entry[i] # None => entry'[i] = entry[i]
      /\ \A i \in DOMAIN entries : entry'[i] # None
      /\ \A i \in Repos : \/ entry'[i] = entry[i]
                          \/ i \in DOMAIN entries /\ entry'[i] = entries[i]
  BY <1>1, <1>3 DEF fresh
<1> QED
  BY <1>5, <1>6, <1>7, <1>8

\* The goroutines the semaphore counts are finitely many.
LEMMA ActiveIsFinite == IsFiniteSet(Active) /\ Cardinality(Active) \in Nat
<1>1. IsFiniteSet(Repos)
  BY FS_Interval, ConstantsAssumption DEF Repos
<1> QED
  BY <1>1, FS_Subset, FS_CardinalityType DEF Active

\* One more when one is started, one less when one leaves.
LEMMA ActiveGrows ==
  ASSUME TypeOK, NEW i \in Repos, worker[i] = "none",
         worker' = [worker EXCEPT ![i] = "running"]
  PROVE  Cardinality(Active') = Cardinality(Active) + 1
<1>1. Active' = Active \cup {i} /\ i \notin Active
  BY DEF Active, TypeOK
<1> QED
  BY <1>1, ActiveIsFinite, FS_AddElement

LEMMA ActiveShrinks ==
  ASSUME TypeOK, NEW i \in Repos, worker[i] = "settled",
         worker' = [worker EXCEPT ![i] = "gone"]
  PROVE  Cardinality(Active') = Cardinality(Active) - 1
<1>1. Active' = Active \ {i} /\ i \in Active
  BY DEF Active, TypeOK
<1> QED
  BY <1>1, ActiveIsFinite, FS_RemoveElement

-----------------------------------------------------------------------------
(***************************************************************************)
(* Every step keeps the invariant.                                         *)
(***************************************************************************)
\* What an action changes is typed; what it leaves alone needs no argument.
USE DEF Repos, Phases, Steps, Unlimited, mainVars, workVars

LEMMA InitIInv == Init => IInv
<1> SUFFICES ASSUME Init PROVE IInv
  OBVIOUS
<1>1. TypeOK
  <2>1. told \in [Repos -> Seq(Entry)]
    BY DEF Init
  <2>2. /\ next \in 1 .. N + 1 /\ slots \in 0 .. Limit
        /\ graceLeft \in 0 .. InFlightGrace /\ finalLeft \in 0 .. Unlimited
        /\ filingLeft \in 0 .. FilingTime
    BY ConstantsAssumption, LimitType DEF Init
  <2> QED
    BY <2>1, <2>2 DEF Init, TypeOK
<1>2. InFlightLimit
  <2>1. Active = {}
    BY DEF Init, Active
  <2>2. Cardinality(Active) = 0
    BY <2>1, FS_EmptySet, Zenon
  <2>3. slots = 0
    BY Zenon DEF Init
  <2>4. 0 <= Limit
    BY LimitType
  <2> QED
    BY <2>2, <2>3, <2>4, Zenon DEF InFlightLimit, Active
<1> QED
  BY <1>1, <1>2, ConstantsAssumption
  DEF Init, IInv, ToldOnce, StartedInOrder, ReturnedWithResult, SettledOrStarted,
      ClosedIsSettled, Closed, ProgressStored, RecordedWereStored

LEMMA SpawnIInv == IInv /\ Spawn => IInv'
<1> SUFFICES ASSUME IInv, Spawn PROVE IInv'
  OBVIOUS
<1>1. next \in Repos /\ worker[next] = "none"
  BY ConstantsAssumption DEF IInv, TypeOK, Spawn, StartedInOrder
<1>2. TypeOK'
  BY <1>1, LimitType, ConstantsAssumption DEF IInv, TypeOK, Spawn
<1>3. InFlightLimit'
  <2>1. Cardinality(Active') = Cardinality(Active) + 1
    BY <1>1, ActiveGrows DEF IInv, Spawn
  <2>2. slots = Cardinality(Active)
    BY DEF IInv, InFlightLimit, Active
  <2>3. slots' = Cardinality(Active')
    BY <2>1, <2>2 DEF Spawn
  <2>4. slots' <= Limit
    BY LimitType DEF IInv, TypeOK, Spawn
  <2> QED
    BY <2>3, <2>4 DEF InFlightLimit, Active
<1>4. StartedInOrder'
  BY <1>1, ConstantsAssumption DEF IInv, TypeOK, Spawn, StartedInOrder
<1> QED
  BY <1>1, <1>2, <1>3, <1>4
  DEF IInv, TypeOK, Spawn, ToldOnce, ReturnedWithResult, SettledOrStarted,
      ClosedIsSettled, Closed, ProgressStored, RecordedWereStored

\* What the main goroutine settles, when the loop stops short and when the grace
\* is over.
LEMMA MainSettles ==
  ASSUME IInv, NEW entries,
         DOMAIN entries \subseteq Repos,
         \A i \in DOMAIN entries :
           entries[i] \in Entry /\ entries[i].artifacts \subseteq stored[i],
         SettleAll(entries),
         UNCHANGED <<slots, worker, next, stored, progress, result>>
  PROVE  /\ entry' \in [Repos -> Entry \cup {None}]
         /\ told' \in [Repos -> Seq(Entry)]
         /\ ToldOnce' /\ InFlightLimit' /\ StartedInOrder'
         /\ ReturnedWithResult' /\ ProgressStored' /\ RecordedWereStored'
         /\ \A i \in Repos : entry[i] # None => entry'[i] # None
         /\ \A i \in DOMAIN entries : entry'[i] # None
<1>1. /\ entry' \in [Repos -> Entry \cup {None}]
      /\ told' \in [Repos -> Seq(Entry)]
      /\ ToldOnce'
      /\ \A i \in Repos : entry[i] # None => entry'[i] = entry[i]
      /\ \A i \in DOMAIN entries : entry'[i] # None
      /\ \A i \in Repos : \/ entry'[i] = entry[i]
                          \/ i \in DOMAIN entries /\ entry'[i] = entries[i]
  BY SettleAllStep DEF IInv
<1>2. InFlightLimit' /\ StartedInOrder' /\ ProgressStored'
  BY DEF IInv, InFlightLimit, StartedInOrder, ProgressStored
<1>3. ReturnedWithResult'
  BY <1>1 DEF IInv, ReturnedWithResult
<1>4. RecordedWereStored'
  BY <1>1 DEF IInv, RecordedWereStored
<1> QED
  BY <1>1, <1>2, <1>3, <1>4

LEMMA StopLoopIInv == IInv /\ StopLoop => IInv'
<1> SUFFICES ASSUME IInv, StopLoop PROVE IInv'
  OBVIOUS
<1> DEFINE entries == [i \in next .. N |-> Cut({})]
<1>1. /\ DOMAIN entries \subseteq Repos
      /\ \A i \in DOMAIN entries :
           entries[i] \in Entry /\ entries[i].artifacts \subseteq stored[i]
  BY CutType, ConstantsAssumption DEF IInv, TypeOK, Cut
<1>2. SettleAll(entries) /\ UNCHANGED <<slots, worker, next, stored, progress, result>>
  BY DEF StopLoop
<1>3. DOMAIN entries = next .. N
  OBVIOUS
<1> HIDE DEF entries
<1>4. /\ entry' \in [Repos -> Entry \cup {None}]
      /\ told' \in [Repos -> Seq(Entry)]
      /\ ToldOnce' /\ InFlightLimit' /\ StartedInOrder'
      /\ ReturnedWithResult' /\ ProgressStored' /\ RecordedWereStored'
      /\ \A i \in Repos : entry[i] # None => entry'[i] # None
      /\ \A i \in DOMAIN entries : entry'[i] # None
  BY <1>1, <1>2, MainSettles
<1>5. TypeOK'
  BY <1>4 DEF IInv, TypeOK, StopLoop
<1>6. SettledOrStarted'
  <2>1. ASSUME NEW i \in Repos, worker[i] = "none" PROVE i \in next .. N
    BY <2>1, ConstantsAssumption DEF IInv, TypeOK, StartedInOrder
  <2> QED
    BY <1>2, <1>3, <1>4, <2>1 DEF SettledOrStarted
<1>7. ClosedIsSettled'
  BY DEF StopLoop, ClosedIsSettled, Closed
<1> QED
  BY <1>4, <1>5, <1>6, <1>7 DEF IInv

LEMMA AbandonIInv == IInv /\ Abandon => IInv'
<1> SUFFICES ASSUME IInv, Abandon PROVE IInv'
  OBVIOUS
<1> DEFINE entries == [i \in {j \in Repos : entry[j] = None} |-> Cut(progress[i])]
<1>1. /\ DOMAIN entries \subseteq Repos
      /\ \A i \in DOMAIN entries :
           entries[i] \in Entry /\ entries[i].artifacts \subseteq stored[i]
  BY CutType DEF IInv, TypeOK, Cut, ProgressStored
<1>2. SettleAll(entries) /\ UNCHANGED <<slots, worker, next, stored, progress, result>>
  BY DEF Abandon
<1>3. DOMAIN entries = {j \in Repos : entry[j] = None}
  OBVIOUS
<1> HIDE DEF entries
<1>4. /\ entry' \in [Repos -> Entry \cup {None}]
      /\ told' \in [Repos -> Seq(Entry)]
      /\ ToldOnce' /\ InFlightLimit' /\ StartedInOrder'
      /\ ReturnedWithResult' /\ ProgressStored' /\ RecordedWereStored'
      /\ \A i \in Repos : entry[i] # None => entry'[i] # None
      /\ \A i \in DOMAIN entries : entry'[i] # None
  BY <1>1, <1>2, MainSettles
<1>5. TypeOK'
  BY <1>4 DEF IInv, TypeOK, Abandon
<1>6. \A i \in Repos : entry'[i] # None
  BY <1>3, <1>4
<1>7. SettledOrStarted' /\ ClosedIsSettled'
  BY <1>6 DEF SettledOrStarted, ClosedIsSettled
<1> QED
  BY <1>4, <1>5, <1>7 DEF IInv

\* The steps that change nothing but where the main goroutine is and its clocks.
MainMoves ==
  UNCHANGED <<next, slots, worker, sent, stored, progress, result, entry, told>>

LEMMA MainMovesIInv ==
  ASSUME IInv, MainMoves, TypeOK', SettledOrStarted', ClosedIsSettled'
  PROVE  IInv'
BY DEF IInv, MainMoves, ToldOnce, InFlightLimit, StartedInOrder, ReturnedWithResult,
       ProgressStored, RecordedWereStored

LEMMA EndLoopIInv == IInv /\ EndLoop => IInv'
<1> SUFFICES ASSUME IInv, EndLoop PROVE IInv'
  OBVIOUS
<1>1. MainMoves
  BY DEF EndLoop, MainMoves
<1>2. TypeOK'
  BY DEF IInv, TypeOK, EndLoop
<1>3. SettledOrStarted'
  <2>1. \A i \in Repos : worker[i] # "none"
    BY ConstantsAssumption DEF IInv, TypeOK, EndLoop, StartedInOrder
  <2> QED
    BY <2>1 DEF EndLoop, SettledOrStarted
<1>4. ClosedIsSettled'
  BY DEF EndLoop, ClosedIsSettled, Closed
<1> QED
  BY <1>1, <1>2, <1>3, <1>4, MainMovesIInv

LEMMA ReturnIInv == IInv /\ Return => IInv'
<1> SUFFICES ASSUME IInv, Return PROVE IInv'
  OBVIOUS
<1>1. MainMoves
  BY DEF Return, MainMoves
<1>2. TypeOK'
  BY DEF IInv, TypeOK, Return
<1>3. \A i \in Repos : entry[i] # None
  BY DEF IInv, Return, AllGone, SettledOrStarted, ReturnedWithResult
<1>4. SettledOrStarted' /\ ClosedIsSettled'
  BY <1>1, <1>3 DEF MainMoves, SettledOrStarted, ClosedIsSettled
<1> QED
  BY <1>1, <1>2, <1>4, MainMovesIInv

LEMMA BeginGraceIInv == IInv /\ BeginGrace => IInv'
<1> SUFFICES ASSUME IInv, BeginGrace PROVE IInv'
  OBVIOUS
<1>1. MainMoves
  BY DEF BeginGrace, MainMoves
<1>2. TypeOK'
  BY ConstantsAssumption DEF IInv, TypeOK, BeginGrace
<1>3. SettledOrStarted' /\ ClosedIsSettled'
  BY DEF IInv, BeginGrace, SettledOrStarted, ClosedIsSettled, Closed
<1> QED
  BY <1>1, <1>2, <1>3, MainMovesIInv

LEMMA ComposeIInv == IInv /\ Compose => IInv'
<1> SUFFICES ASSUME IInv, Compose PROVE IInv'
  OBVIOUS
<1>1. MainMoves
  BY DEF Compose, MainMoves
<1>2. TypeOK'
  BY ConstantsAssumption DEF IInv, TypeOK, Compose
<1>3. SettledOrStarted' /\ ClosedIsSettled'
  BY DEF IInv, Compose, SettledOrStarted, ClosedIsSettled, Closed
<1> QED
  BY <1>1, <1>2, <1>3, MainMovesIInv

LEMMA FileOrLoseIInv == IInv /\ (File \/ Lose) => IInv'
<1> SUFFICES ASSUME IInv, File \/ Lose PROVE IInv'
  OBVIOUS
<1>1. MainMoves
  BY DEF File, Lose, MainMoves
<1>2. TypeOK'
  BY DEF IInv, TypeOK, File, Lose
<1>3. SettledOrStarted' /\ ClosedIsSettled'
  BY DEF IInv, File, Lose, SettledOrStarted, ClosedIsSettled, Closed
<1> QED
  BY <1>1, <1>2, <1>3, MainMovesIInv

LEMMA StopsAndTimeIInv == IInv /\ (Deadline \/ Signal \/ Tick) => IInv'
<1> SUFFICES ASSUME IInv, Deadline \/ Signal \/ Tick PROVE IInv'
  OBVIOUS
<1>1. MainMoves /\ UNCHANGED phase
  BY DEF Deadline, Signal, Tick, MainMoves
<1>2. TypeOK'
  <2>1. CASE Deadline
    BY <2>1 DEF IInv, TypeOK, Deadline
  <2>2. CASE Signal
    BY <2>2, ConstantsAssumption DEF IInv, TypeOK, Signal
  <2>3. CASE Tick
    <3>1. /\ graceLeft' \in 0 .. InFlightGrace
          /\ finalLeft' \in 0 .. Unlimited
          /\ filingLeft' \in 0 .. FilingTime
      BY <2>3, ConstantsAssumption DEF IInv, TypeOK, Tick, MainWaits
    <3> QED
      BY <2>3, <3>1 DEF IInv, TypeOK, Tick
  <2> QED
    BY <2>1, <2>2, <2>3
<1>3. SettledOrStarted' /\ ClosedIsSettled'
  BY <1>1 DEF IInv, MainMoves, SettledOrStarted, ClosedIsSettled, Closed
<1> QED
  BY <1>1, <1>2, <1>3, MainMovesIInv

\* A repository's uploads: nothing but what is sent, stored and in progress.
LEMMA UploadsIInv ==
  ASSUME IInv, NEW i \in Repos,
         (\E kind \in Kinds : Send(i, kind)) \/ Land(i) \/ Put(i)
  PROVE  IInv'
<1>1. UNCHANGED <<mainVars, slots, stopped, finalLeft, worker, result, entry, told>>
  BY DEF Send, Land, Put
<1>2. /\ sent' \in [Repos -> Kinds \cup {None}]
      /\ stored' \in [Repos -> SUBSET Kinds]
      /\ progress' \in [Repos -> SUBSET Kinds]
  BY DEF IInv, TypeOK, Send, Land, Put
<1>3. /\ \A j \in Repos : stored[j] \subseteq stored'[j]
      /\ \A j \in Repos : progress'[j] \subseteq stored'[j]
  <2>1. CASE \E kind \in Kinds : Send(i, kind)
    BY <2>1 DEF IInv, ProgressStored, Send
  <2>2. CASE Land(i)
    BY <2>2 DEF IInv, TypeOK, ProgressStored, Land
  <2>3. CASE Put(i)
    BY <2>3 DEF IInv, TypeOK, ProgressStored, Put
  <2> QED
    BY <2>1, <2>2, <2>3
<1>4. TypeOK'
  BY <1>1, <1>2 DEF IInv, TypeOK
<1>5. ProgressStored' /\ RecordedWereStored'
  BY <1>1, <1>3 DEF IInv, ProgressStored, RecordedWereStored
<1> QED
  BY <1>1, <1>4, <1>5
  DEF IInv, ToldOnce, InFlightLimit, StartedInOrder, ReturnedWithResult,
      SettledOrStarted, ClosedIsSettled, Closed

\* A goroutine that moves on without leaving is counted as it was.
LEMMA StillActive ==
  ASSUME IInv, NEW i \in Repos, NEW step \in {"returned", "settled"},
         worker[i] \in {"running", "returned"},
         worker' = [worker EXCEPT ![i] = step],
         UNCHANGED <<slots, next>>
  PROVE  InFlightLimit' /\ StartedInOrder'
<1>1. \A j \in Repos :
        /\ worker'[j] = IF j = i THEN step ELSE worker[j]
        /\ worker'[j] \in {"running", "returned", "settled"}
             <=> worker[j] \in {"running", "returned", "settled"}
        /\ worker'[j] = "none" <=> worker[j] = "none"
  BY DEF IInv, TypeOK
<1> QED
  BY <1>1 DEF IInv, InFlightLimit, StartedInOrder

LEMMA FinishIInv ==
  ASSUME IInv, NEW i \in Repos, NEW status \in {"success", "skipped", "failed"},
         Finish(i, status)
  PROVE  IInv'
<1>0. None \notin Entry
  BY ConstantsAssumption
<1> DEFINE made == [status |-> status, cut |-> status = "failed" /\ stopped,
                    artifacts |-> progress[i]]
<1>1. made \in Entry /\ made.artifacts = progress[i]
  BY DEF IInv, TypeOK, Entry
<1>2. result' = [result EXCEPT ![i] = made] /\ worker' = [worker EXCEPT ![i] = "returned"]
  BY DEF Finish
<1> HIDE DEF made
<1>3. UNCHANGED <<mainVars, slots, stopped, finalLeft, workVars, entry, told>>
  BY DEF Finish
<1>4. worker[i] = "running"
  BY DEF Finish
<1>5. TypeOK'
  BY <1>1, <1>2, <1>3 DEF IInv, TypeOK
<1>6. InFlightLimit' /\ StartedInOrder'
  BY <1>2, <1>3, <1>4, StillActive
<1>7. ReturnedWithResult'
  BY <1>0, <1>1, <1>2, <1>3, <1>4 DEF IInv, TypeOK, ReturnedWithResult
<1>8. SettledOrStarted' /\ ClosedIsSettled' /\ ToldOnce' /\ RecordedWereStored'
  BY <1>2, <1>3, <1>4 DEF IInv, TypeOK, SettledOrStarted, ClosedIsSettled, Closed, ToldOnce,
                          RecordedWereStored
<1>9. ProgressStored'
  BY <1>1, <1>2, <1>3 DEF IInv, TypeOK, ProgressStored
<1> QED
  BY <1>5, <1>6, <1>7, <1>8, <1>9 DEF IInv

LEMMA SettleIInv ==
  ASSUME IInv, NEW i \in Repos, Settle(i)
  PROVE  IInv'
<1> DEFINE entries == [j \in {i} |-> result[j]]
<1>1. worker[i] = "returned" /\ result[i] \in Entry
  BY DEF IInv, TypeOK, ReturnedWithResult, Settle
<1>2. /\ DOMAIN entries = {i} /\ entries[i] = result[i]
      /\ SettleAll(entries)
      /\ worker' = [worker EXCEPT ![i] = "settled"]
      /\ UNCHANGED <<mainVars, slots, stopped, finalLeft, workVars, result>>
  BY DEF Settle
<1> HIDE DEF entries
<1>3. /\ entry' \in [Repos -> Entry \cup {None}]
      /\ told' \in [Repos -> Seq(Entry)]
      /\ ToldOnce'
      /\ \A j \in Repos : entry[j] # None => entry'[j] = entry[j]
      /\ entry'[i] # None
      /\ \A j \in Repos : j # i => entry'[j] = entry[j]
      /\ entry'[i] \in {entry[i], result[i]}
  <2>1. /\ DOMAIN entries \subseteq Repos
        /\ \A j \in DOMAIN entries : entries[j] \in Entry
    BY <1>1, <1>2
  <2>2. /\ entry' \in [Repos -> Entry \cup {None}]
        /\ told' \in [Repos -> Seq(Entry)]
        /\ ToldOnce'
        /\ \A j \in Repos : entry[j] # None => entry'[j] = entry[j]
        /\ \A j \in DOMAIN entries : entry'[j] # None
        /\ \A j \in Repos : \/ entry'[j] = entry[j]
                            \/ j \in DOMAIN entries /\ entry'[j] = entries[j]
    BY <1>2, <2>1, SettleAllStep DEF IInv
  <2>3. \A j \in Repos : j # i => entry'[j] = entry[j]
    BY <1>2, <2>2
  <2>4. entry'[i] # None /\ entry'[i] \in {entry[i], result[i]}
    BY <1>2, <2>2
  <2> QED
    BY <2>2, <2>3, <2>4
<1>4. TypeOK'
  BY <1>2, <1>3 DEF IInv, TypeOK
<1>5. InFlightLimit' /\ StartedInOrder'
  BY <1>1, <1>2, StillActive
<1>6. ReturnedWithResult'
  BY <1>1, <1>2, <1>3 DEF IInv, TypeOK, ReturnedWithResult
<1>7. SettledOrStarted' /\ ClosedIsSettled'
  BY <1>1, <1>2, <1>3 DEF IInv, TypeOK, SettledOrStarted, ClosedIsSettled, Closed
<1>8. ProgressStored'
  BY <1>2 DEF IInv, ProgressStored
<1>9. RecordedWereStored'
  BY <1>1, <1>2, <1>3, ConstantsAssumption DEF IInv, RecordedWereStored, ProgressStored
<1> QED
  BY <1>3, <1>4, <1>5, <1>6, <1>7, <1>8, <1>9 DEF IInv

LEMMA LeaveIInv ==
  ASSUME IInv, NEW i \in Repos, Leave(i)
  PROVE  IInv'
<1>1. /\ worker[i] = "settled"
      /\ worker' = [worker EXCEPT ![i] = "gone"]
      /\ slots' = slots - 1
      /\ UNCHANGED <<mainVars, stopped, finalLeft, workVars, result, entry, told>>
  BY DEF Leave
<1>2. InFlightLimit' /\ slots' \in 0 .. Limit
  <2>1. Cardinality(Active') = Cardinality(Active) - 1
    BY <1>1, ActiveShrinks DEF IInv
  <2>2. slots = Cardinality(Active) /\ slots <= Limit
    BY DEF IInv, InFlightLimit, Active
  <2>3. IsFiniteSet(Active')
    <3>1. Active' \subseteq Active
      BY <1>1 DEF IInv, TypeOK, Active
    <3> QED
      BY <3>1, ActiveIsFinite, FS_Subset
  <2>4. Cardinality(Active') \in Nat
    BY <2>3, FS_CardinalityType
  <2>5. slots' = Cardinality(Active') /\ slots' \in 0 .. Limit
    BY <1>1, <2>1, <2>2, <2>4, LimitType DEF IInv, TypeOK
  <2> QED
    BY <2>5, LimitType DEF InFlightLimit, Active
<1>3. TypeOK'
  BY <1>1, <1>2 DEF IInv, TypeOK
<1>4. StartedInOrder' /\ ReturnedWithResult' /\ SettledOrStarted'
  BY <1>1 DEF IInv, TypeOK, StartedInOrder, ReturnedWithResult, SettledOrStarted
<1>5. ClosedIsSettled' /\ ToldOnce' /\ ProgressStored' /\ RecordedWereStored'
  BY <1>1 DEF IInv, ClosedIsSettled, Closed, ToldOnce, ProgressStored, RecordedWereStored
<1> QED
  BY <1>2, <1>3, <1>4, <1>5 DEF IInv

LEMMA NextIInv == IInv /\ [Next]_vars => IInv'
<1> SUFFICES ASSUME IInv, [Next]_vars PROVE IInv'
  OBVIOUS
<1>1. CASE Main
  BY <1>1, SpawnIInv, StopLoopIInv, EndLoopIInv, ReturnIInv, BeginGraceIInv, AbandonIInv,
     ComposeIInv, FileOrLoseIInv DEF Main
<1>2. ASSUME NEW i \in Repos, Work(i) PROVE IInv'
  <2>1. ASSUME NEW status \in {"success", "skipped", "failed"}, Finish(i, status)
        PROVE  IInv'
    BY <2>1, FinishIInv
  <2> QED
    BY <1>2, <2>1, UploadsIInv, SettleIInv, LeaveIInv DEF Work
<1>3. CASE Deadline \/ Signal \/ Tick
  BY <1>3, StopsAndTimeIInv
<1>4. CASE UNCHANGED vars
  BY <1>4 DEF vars, IInv, TypeOK, ToldOnce, InFlightLimit, StartedInOrder, ReturnedWithResult,
              SettledOrStarted, ClosedIsSettled, Closed, ProgressStored, RecordedWereStored
<1> QED
  BY <1>1, <1>2, <1>3, <1>4 DEF Next

-----------------------------------------------------------------------------
(***************************************************************************)
(* Theorems.                                                               *)
(***************************************************************************)

\* The fan-out keeps its inductive invariant.
THEOREM Invariance == Spec => []IInv
<1>1. Init => IInv
  BY InitIInv
<1>2. IInv /\ [Next]_vars => IInv'
  BY NextIInv
<1> QED
  BY <1>1, <1>2, PTL DEF Spec

\* Every variable stays in its type: the semaphore never counts below zero or
\* above its limit, and no clock runs below zero.
THEOREM TypeCorrect == Spec => []TypeOK
<1>1. IInv => TypeOK
  BY DEF IInv
<1> QED
  BY <1>1, Invariance, PTL

\* Each repository is settled once and told once, for any number of them, by
\* whichever of its goroutine, the loop and the end of the grace comes first.
THEOREM EachToldOnce == Spec => []ToldOnce
<1>1. IInv => ToldOnce
  BY DEF IInv
<1> QED
  BY <1>1, Invariance, PTL

\* There are never more goroutines than the semaphore lets in, and it counts
\* them exactly, whatever a stop interrupts.
THEOREM LimitHeld == Spec => []InFlightLimit
<1>1. IInv => InFlightLimit
  BY DEF IInv
<1> QED
  BY <1>1, Invariance, PTL

\* No entry lists an artifact the store does not have, even one composed while
\* its repository's goroutine was still uploading.
THEOREM RecordedAreStored == Spec => []RecordedWereStored
<1>1. IInv => RecordedWereStored
  BY DEF IInv
<1> QED
  BY <1>1, Invariance, PTL

\* The progress read at the end of the grace is always there to be read.
THEOREM ProgressThere == Spec => []OpenWasStarted
<1>1. IInv => OpenWasStarted
  BY DEF IInv, SettledOrStarted, OpenWasStarted
<1> QED
  BY <1>1, Invariance, PTL

-----------------------------------------------------------------------------
(***************************************************************************)
(* The manifest's part of the grace.                                       *)
(***************************************************************************)

\* What is left of the manifest's context covers what is still to be waited for.
\* Time passes with a signal behind it only in the grace and in filing.
Budget ==
  /\ ~ stopped => finalLeft = Unlimited
  /\ phase \in {"starting", "waiting"} => finalLeft >= ManifestGrace
  /\ phase = "grace" => finalLeft >= ManifestGrace - InFlightGrace + graceLeft
  /\ phase = "returning" => finalLeft >= ManifestGrace - InFlightGrace
  /\ phase = "filing" => finalLeft >= ManifestGrace - InFlightGrace - FilingTime + filingLeft
  /\ phase # "lost"

LEMMA NextBudget ==
  ASSUME GraceFits, TypeOK, Budget, [Next]_vars
  PROVE  Budget'
<1> USE ConstantsAssumption DEF TypeOK, Budget
<1>1. CASE Spawn \/ StopLoop \/ EndLoop
  BY <1>1 DEF Spawn, StopLoop, EndLoop
<1>2. CASE Return
  BY <1>2 DEF Return
<1>3. CASE BeginGrace
  BY <1>3 DEF BeginGrace
<1>4. CASE Abandon
  BY <1>4 DEF Abandon
<1>5. CASE Compose
  BY <1>5 DEF Compose
<1>6. CASE File \/ Lose
  <2>1. CASE File
    BY <2>1 DEF File
  <2>2. CASE Lose
    <3>1. /\ finalLeft = 0
          /\ finalLeft >= ManifestGrace - InFlightGrace - FilingTime + filingLeft
          /\ filingLeft >= 0
      BY <2>2 DEF Lose
    <3> QED
      BY <3>1 DEF GraceFits
  <2> QED
    BY <1>6, <2>1, <2>2
<1>7. ASSUME NEW i \in Repos, Work(i) PROVE Budget'
  <2>1. UNCHANGED <<phase, graceLeft, filingLeft, finalLeft, stopped>>
    BY <1>7 DEF Work, Send, Land, Put, Finish, Settle, Leave
  <2> QED
    BY <2>1
<1>8. CASE Deadline \/ Signal
  BY <1>8 DEF Deadline, Signal
<1>9. CASE Tick
  <2>1. CASE phase \in {"starting", "waiting"}
    BY <1>9, <2>1 DEF Tick, MainWaits
  <2>2. CASE phase = "grace"
    BY <1>9, <2>2 DEF Tick, MainWaits
  <2>3. CASE phase = "filing"
    BY <1>9, <2>3 DEF Tick, MainWaits
  <2> QED
    BY <1>9, <2>1, <2>2, <2>3 DEF Tick, MainWaits
<1>10. CASE UNCHANGED vars
  BY <1>10 DEF vars
<1> QED
  BY <1>1, <1>2, <1>3, <1>4, <1>5, <1>6, <1>7, <1>8, <1>9, <1>10 DEF Next, Main

\* When the manifest's part of the grace is longer than filing takes, a signal
\* never costs the run its manifest, whatever the repositories in flight do and
\* whenever the signal comes.
THEOREM ManifestNeverLost ==
  ASSUME GraceFits
  PROVE  Spec => []NeverLost
<1>1. Init => Budget
  BY ConstantsAssumption DEF Init, Budget
<1>2. TypeOK /\ Budget /\ [Next]_vars => Budget'
  BY NextBudget
<1>3. TypeOK /\ Budget => NeverLost
  BY ConstantsAssumption DEF TypeOK, Budget, NeverLost, GraceFits
<1> QED
  BY <1>1, <1>2, <1>3, TypeCorrect, PTL DEF Spec

-----------------------------------------------------------------------------
(***************************************************************************)
(* The fan-out implements Settling.                                        *)
(***************************************************************************)

\* Settling keeps every entry there was.
LEMMA EntriesKept ==
  ASSUME TypeOK, [Next]_vars
  PROVE  \A i \in Repos : entry[i] # None => entry'[i] = entry[i]
<1>1. ASSUME NEW entries, SettleAll(entries)
      PROVE  \A i \in Repos : entry[i] # None => entry'[i] = entry[i]
  BY <1>1 DEF SettleAll
<1>2. CASE StopLoop
  BY <1>1, <1>2 DEF StopLoop
<1>3. CASE Abandon
  BY <1>1, <1>3 DEF Abandon
<1>4. ASSUME NEW i \in Repos, Settle(i)
      PROVE  \A j \in Repos : entry[j] # None => entry'[j] = entry[j]
  BY <1>1, <1>4 DEF Settle
<1>5. \/ UNCHANGED entry
      \/ StopLoop \/ Abandon \/ \E i \in Repos : Settle(i)
  BY DEF Next, Main, Work, Spawn, EndLoop, Return, BeginGrace, Compose, File, Lose, Send, Land,
         Put, Finish, Leave, Deadline, Signal, Tick, vars
<1> QED
  BY <1>2, <1>3, <1>4, <1>5

\* The fan-out closes by composing its entries, and never opens again.
LEMMA ClosesOnce ==
  ASSUME TypeOK, [Next]_vars
  PROVE  LET over == phase \in {"filing", "filed", "lost"}
         IN  \/ UNCHANGED over
             \/ Compose /\ over'
<1> DEFINE over == phase \in {"filing", "filed", "lost"}
<1>1. CASE Spawn \/ StopLoop \/ EndLoop \/ Return \/ BeginGrace \/ Abandon
  BY <1>1 DEF Spawn, StopLoop, EndLoop, Return, BeginGrace, Abandon
<1>2. CASE Compose
  BY <1>2 DEF Compose
<1>3. CASE File \/ Lose
  BY <1>3 DEF File, Lose
<1>4. ASSUME NEW i \in Repos, Work(i) PROVE UNCHANGED phase
  BY <1>4 DEF Work, Send, Land, Put, Finish, Settle, Leave
<1>5. CASE Deadline \/ Signal \/ Tick \/ UNCHANGED vars
  BY <1>5 DEF Deadline, Signal, Tick, vars
<1> QED
  BY <1>1, <1>2, <1>3, <1>4, <1>5 DEF Next, Main

\* Every step of the fan-out is a step of Settling or none.
LEMMA StepRefines ==
  ASSUME IInv, IInv', [Next]_vars
  PROVE  [Promise!Next]_(Promise!vars)
<1> DEFINE over == phase \in {"filing", "filed", "lost"}
<1>1. \A i \in Repos : entry[i] # None => entry'[i] = entry[i]
  BY EntriesKept DEF IInv
<1>2. entry \in [Repos -> Entry \cup {None}] /\ entry' \in [Repos -> Entry \cup {None}]
  BY DEF IInv, TypeOK
<1>3. over => UNCHANGED entry
  <2> SUFFICES ASSUME over PROVE entry' = entry
    OBVIOUS
  <2>1. \A i \in Repos : entry'[i] = entry[i]
    BY <1>1 DEF IInv, ClosedIsSettled, Closed
  <2>2. entry' = [i \in Repos |-> entry'[i]] /\ entry = [i \in Repos |-> entry[i]]
    BY <1>2
  <2> QED
    BY <2>1, <2>2
<1>4. CASE UNCHANGED over
  <2>1. CASE over
    BY <1>3, <1>4, <2>1 DEF Promise!vars
  <2>2. CASE ~ over
    BY <1>1, <1>2, <1>4, <2>2 DEF Promise!Next, Promise!Settle
  <2> QED
    BY <2>1, <2>2
<1>5. CASE Compose /\ over'
  <2>1. \A i \in Repos : entry[i] # None
    BY <1>5 DEF Compose, IInv, ClosedIsSettled, Closed
  <2>2. UNCHANGED entry
    BY <1>5 DEF Compose
  <2> QED
    BY <1>5, <2>1, <2>2 DEF Promise!Next, Promise!Close
<1> QED
  BY <1>4, <1>5, ClosesOnce DEF IInv

\* Every repository the run selected comes to one outcome that does not change,
\* and the manifest is composed only when every one has.
THEOREM FanOutSettlesAll == Spec => SettlesAll
<1>1. Init => Promise!Init
  BY DEF Init, Promise!Init
<1>2. IInv /\ IInv' /\ [Next]_vars => [Promise!Next]_(Promise!vars)
  BY StepRefines
<1> QED
  BY <1>1, <1>2, Invariance, PTL DEF Spec, SettlesAll, Promise!Spec
=============================================================================
