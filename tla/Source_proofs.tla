---------------------------- MODULE Source_proofs ----------------------------
(***************************************************************************)
(* Proofs about Source: for any repositories, pages, waits and clocks, and *)
(* any number of requests that wait together, the budget is the time the   *)
(* run waited, and what it takes for the source's answer is whole.         *)
(***************************************************************************)
EXTENDS Source, FiniteSetTheorems, TLAPS

-----------------------------------------------------------------------------
(***************************************************************************)
(* The inductive invariant.                                                *)
(***************************************************************************)
Phases == {"idle", "ready", "sent", "waiting", "backoff", "returned"}
ReaderType ==
  [phase : Phases, section : Nat, page : Nat, waits : 0..RateLimitWaits,
   errors : 0..ServerErrorAttempts - 1, wake : Nat, token : Nat, bypass : BOOLEAN,
   named : Int, asked : BOOLEAN]
DocType == [pages : [Sections -> SUBSET Nat], off : SUBSET Sections]

Shapes ==
  /\ now \in 0..Deadline
  /\ budget \in [spent : 0..MaxWait, until : 0..Deadline]
  /\ reader \in [Readers -> ReaderType]
  /\ result \in [Readers -> {"none", "ok", "transient", "failed", "unauthorized"}]
  /\ doc \in [Repos -> DocType]
  /\ listed \subseteq Repos
  /\ covered \subseteq 0..Deadline

\* The waits charged have no gap between now and the end of the latest.
NoGap ==
  /\ \A t \in covered : t < budget.until
  /\ now .. budget.until - 1 \subseteq covered

Waits(r) ==
  /\ reader[r].phase = "waiting" => /\ now .. reader[r].wake - 1 \subseteq covered
                                    /\ reader[r].wake >= reader[r].named
                                    /\ reader[r].waits > 1 => reader[r].asked
  /\ reader[r].phase # "waiting" => now >= reader[r].named
  /\ ~ reader[r].bypass => reader[r].waits = 0

Whole(r, s) == doc[r].pages[s] = (IF s \in doc[r].off THEN {} ELSE 1..Pages[s])

\* A document has every page up to the one its reader is at, and no other.
ReadSoFar(r) ==
  /\ reader[r].section \in Sections
  /\ reader[r].page \in 1..Pages[reader[r].section]
  /\ \A s \in Sections : s < reader[r].section => Whole(r, s)
  /\ doc[r].pages[reader[r].section] = 1..reader[r].page - 1
  /\ \A s \in Sections : s > reader[r].section => doc[r].pages[s] = {}
  /\ \A s \in doc[r].off : s < reader[r].section

Documents(r) ==
  /\ result[r] = "none" => ReadSoFar(r)
  /\ result[r] = "ok" => \A s \in Sections : Whole(r, s)

Kept == {s \in Repos : Keep(s)}
List ==
  /\ result[Lister] = "none" =>
       /\ reader[Lister].page \in Nat \ {0}
       /\ listed = {s \in Kept : PageOf[s] < reader[Lister].page}
  /\ result[Lister] = "ok" => listed = Kept

Returned(r) == result[r] = "none" <=> reader[r].phase # "returned"

\* What the readers have.
ReadersInv ==
  /\ Shapes
  /\ budget.spent = Cardinality(covered)
  /\ NoGap
  /\ \A r \in Readers : Waits(r) /\ Returned(r)
  /\ \A r \in Repos : Documents(r)
  /\ List

\* A request to GitHub is over within the time the client gives it, and if the file was always
\* replaced in time its token lasts that long.
Lasts(r) ==
  reader[r].phase = "sent" /\ provider = "github" =>
    /\ now <= reader[r].wake /\ reader[r].wake <= now + RequestTimeout
    /\ reader[r].token >= reader[r].wake \/ token.late

\* What the network has, and the token.
NetworkInv ==
  /\ provider \in Providers
  /\ stopped \in BOOLEAN
  /\ limits \subseteq Int /\ known \in Int /\ secondary \in Nat
  /\ token \in [until : Nat, late : BOOLEAN]
  /\ token.until >= now + RequestTimeout \/ token.late
  /\ \A r \in Readers : Lasts(r)
  /\ (\E r \in Readers : result[r] = "unauthorized") => token.late

IInv == ReadersInv /\ NetworkInv

-----------------------------------------------------------------------------
(***************************************************************************)
(* Lemmas.                                                                 *)
(***************************************************************************)

\* The constants that are numbers, one by one.
LEMMA ConstantTypes ==
  /\ Deadline \in Nat /\ MaxWait \in Nat /\ RateLimitWaits \in Nat
  /\ Slack \in Nat /\ Jitter \in Nat /\ UnnamedWait \in Nat /\ Backoff \in Nat
  /\ Skew \in Int /\ Window \in Nat /\ RequestTimeout \in Nat /\ TokenLife \in Nat
  /\ TokenLife >= RequestTimeout /\ RetryAfter \subseteq Nat
BY SourceAssumption, Zenon

\* A wait of a number of units ends at a tick.
LEMMA WaitType ==
  ASSUME NEW start \in Nat, NEW unit \in Nat, NEW power \in Nat
  PROVE  start + unit * power \in Nat
<1>1. unit * power \in Nat
  OBVIOUS
<1>. QED BY <1>1

LEMMA OneWritten ==
  ASSUME NEW S, NEW T, NEW f \in [S -> T], NEW s \in S, NEW t \in T
  PROVE  /\ [f EXCEPT ![s] = t] \in [S -> T] /\ [f EXCEPT ![s] = t][s] = t
         /\ \A q \in S \ {s} : [f EXCEPT ![s] = t][q] = f[q]
OBVIOUS

\* Of what is charged only the part after every wait already charged is new,
\* and that is how many ticks it adds.
LEMMA ChargeIsNew ==
  ASSUME Shapes, budget.spent = Cardinality(covered), NoGap, NEW resume \in Nat, resume >= now,
         resume <= Deadline, Reserve(resume), now' = now
  PROVE  /\ budget' \in [spent : 0..MaxWait, until : 0..Deadline]
         /\ covered' \subseteq 0..Deadline
         /\ budget'.spent = Cardinality(covered')
         /\ NoGap'
         /\ covered \subseteq covered' /\ now .. resume - 1 \subseteq covered'
<1>. DEFINE after == Later(now, budget.until)
<1>1. /\ now \in Nat /\ budget.until \in Nat /\ budget.spent \in Nat /\ after \in Nat
      /\ budget.until <= Deadline /\ Deadline \in Nat /\ MaxWait \in Nat
      /\ after >= now /\ after >= budget.until
      /\ after = now \/ after = budget.until
  BY SourceAssumption DEF Shapes, Later
<1>2. /\ budget.spent + Charge(resume) <= MaxWait
      /\ budget' = [spent |-> budget.spent + Charge(resume), until |-> Later(resume, budget.until)]
      /\ covered' = covered \cup (now .. resume - 1)
  BY DEF Reserve
<1>3. Charge(resume) = IF resume > after THEN resume - after ELSE 0
  BY <1>1 DEF Charge, Later
<1>4. Charge(resume) \in Nat
  BY <1>1, <1>3
<1>5. budget' \in [spent : 0..MaxWait, until : 0..Deadline]
  BY <1>1, <1>2, <1>4 DEF Later
<1>6. covered' \subseteq 0..Deadline
  BY <1>1, <1>2 DEF Shapes
<1>. HIDE DEF after
<1>7. NoGap'
  <2>1. budget'.until = IF resume > budget.until THEN resume ELSE budget.until
    BY <1>2 DEF Later
  <2>2. \A t \in covered' : t < budget'.until
    BY <1>1, <1>2, <2>1 DEF NoGap, Shapes
  <2>4. now .. budget'.until - 1 \subseteq covered'
    BY <1>1, <1>2, <2>1 DEF NoGap
  <2>. QED BY <2>2, <2>4 DEF NoGap
<1>8. IsFiniteSet(covered)
  <2>1. IsFiniteSet(0..Deadline)
    BY <1>1, FS_Interval
  <2>. QED BY <2>1, FS_Subset DEF Shapes
<1>9. budget'.spent = Cardinality(covered')
  <2>1. CASE resume <= after
    <3>1. now .. resume - 1 \subseteq covered
      BY <1>1, <2>1 DEF NoGap
    <3>2. covered' = covered
      BY <1>2, <3>1
    <3>3. budget'.spent = budget.spent
      BY <1>1, <1>2, <1>3, <2>1
    <3>. QED BY <3>2, <3>3
  <2>2. CASE resume > after
    <3>1. covered' = covered \cup (after .. resume - 1)
      BY <1>1, <1>2, <2>2 DEF NoGap
    <3>2. covered \cap (after .. resume - 1) = {}
      BY <1>1 DEF NoGap, Shapes
    <3>3. IsFiniteSet(after .. resume - 1) /\ Cardinality(after .. resume - 1) = resume - after
      <4>1. after \in Int /\ resume - 1 \in Int
        BY <1>1
      <4>2. /\ IsFiniteSet(after .. resume - 1)
            /\ Cardinality(after .. resume - 1) =
                 IF after > resume - 1 THEN 0 ELSE (resume - 1) - after + 1
        BY <4>1, FS_Interval
      <4>. QED BY <1>1, <2>2, <4>2
    <3>4. Cardinality(covered \cup (after .. resume - 1)) =
            Cardinality(covered) + Cardinality(after .. resume - 1)
              - Cardinality(covered \cap (after .. resume - 1))
      BY <1>8, <3>3, FS_Union
    <3>5. Cardinality(covered \cap (after .. resume - 1)) = 0
      BY <3>2, FS_EmptySet
    <3>6. Cardinality(covered \cup (after .. resume - 1)) = budget.spent + (resume - after)
      BY <1>1, <3>3, <3>4, <3>5
    <3>. QED BY <1>2, <1>3, <2>2, <3>1, <3>6
  <2>. QED BY <1>1, <2>1, <2>2
<1>. QED BY <1>1, <1>2, <1>5, <1>6, <1>7, <1>9

\* Sections are numbered from one.
LEMMA SectionsType ==
  /\ Sections = 1..Len(Pages) /\ Len(Pages) \in Nat /\ Len(Pages) >= 1
  /\ \A s \in Sections : Pages[s] \in Nat \ {0}
  BY SourceAssumption DEF Sections

\* The last page of the list has the last of the repositories.
LEMMA LastPageType ==
  /\ LastPage(Lister) \in Nat \ {0}
  /\ \A r \in Repos : PageOf[r] <= LastPage(Lister)
<1>. DEFINE S == {PageOf[s] : s \in Repos}
<1>1. S \subseteq Nat \ {0} /\ \A r \in Repos : PageOf[r] \in S
  BY SourceAssumption
<1>2. PICK last \in Repos : \A r \in Repos : PageOf[r] <= PageOf[last]
  BY SourceAssumption
<1>3. \E x \in S : \A y \in S : x >= y
  BY <1>1, <1>2
<1>4. LastPage(Lister) = Max(S)
  BY DEF LastPage
<1>. HIDE DEF S
<1>5. Max(S) \in S /\ \A y \in S : Max(S) >= y
  BY <1>3 DEF Max
<1>6. Max(S) \in Nat \ {0}
  BY <1>1, <1>5
<1>7. ASSUME NEW r \in Repos
      PROVE  PageOf[r] <= Max(S)
  <2>1. PageOf[r] \in Nat /\ Max(S) >= PageOf[r]
    BY <1>1, <1>5
  <2>. QED BY <1>6, <2>1
<1>. QED BY <1>4, <1>6, <1>7

\* A request at its start.
LEMMA RequestType ==
  ASSUME NEW section \in Nat, NEW page \in Nat, NEW phase \in Phases
  PROVE  /\ Request(section, page) \in ReaderType
         /\ [Request(section, page) EXCEPT !.phase = phase] \in ReaderType
<1>1. 0 \in 0..RateLimitWaits /\ 0 \in 0..ServerErrorAttempts - 1 /\ Skew \in Int
  BY SourceAssumption
<1>2. Request(section, page) \in ReaderType
  BY <1>1 DEF Request, ReaderType, Phases
<1>. QED BY <1>2 DEF ReaderType

\* What one reader does leaves the others as they are: more ticks may be
\* covered, and the list is the lister's.
LEMMA OtherReaders ==
  ASSUME ReadersInv, NEW r \in Readers, now' = now, covered \subseteq covered',
         \A q \in Readers \ {r} : reader'[q] = reader[q] /\ result'[q] = result[q],
         \A q \in Repos \ {r} : doc'[q] = doc[q],
         r # Lister => listed' = listed
  PROVE  /\ \A q \in Readers \ {r} : Waits(q)' /\ Returned(q)'
         /\ \A q \in Repos \ {r} : Documents(q)'
         /\ r # Lister => List'
<1>1. ASSUME NEW q \in Readers \ {r}
      PROVE  Waits(q)' /\ Returned(q)'
  BY DEF ReadersInv, Waits, Returned
<1>2. ASSUME NEW q \in Repos \ {r}
      PROVE  Documents(q)'
  <2>1. q \in Readers /\ Documents(q) /\ doc'[q] = doc[q] /\ reader'[q] = reader[q] /\ result'[q] = result[q]
    BY DEF ReadersInv, Readers
  <2>. QED BY <2>1 DEF Documents, ReadSoFar, Whole
<1>3. r # Lister => List'
  BY DEF ReadersInv, List, Kept, Keep, Readers
<1>. QED BY <1>1, <1>2, <1>3

\* An error: what was read of the document is dropped.
LEMMA ReturnErrorKeeps ==
  ASSUME ReadersInv, NEW r \in Readers,
         NEW outcome \in {"transient", "failed", "unauthorized"},
         ReturnError(r, outcome), UNCHANGED <<now, budget, listed, covered>>
  PROVE  ReadersInv'
<1>1. /\ reader' = [reader EXCEPT ![r] = [Request(1, 1) EXCEPT !.phase = "returned"]]
      /\ result' = [result EXCEPT ![r] = outcome]
      /\ doc' = [s \in Repos |-> IF s = r THEN Nothing ELSE doc[s]]
  BY DEF ReturnError, Return
<1>2. [Request(1, 1) EXCEPT !.phase = "returned"] \in ReaderType
  BY RequestType DEF Phases
<1>3. Nothing \in DocType
  BY DEF Nothing, DocType
<1>4. Shapes /\ Shapes'
  <2>1. Shapes
    BY DEF ReadersInv
  <2>2. doc' \in [Repos -> DocType]
    BY <1>1, <1>3, <2>1 DEF Shapes
  <2>. QED BY <1>1, <1>2, <2>1, <2>2 DEF Shapes
<1>5. /\ \A q \in Readers \ {r} : reader'[q] = reader[q] /\ result'[q] = result[q]
      /\ \A q \in Repos \ {r} : doc'[q] = doc[q]
      /\ result'[r] = outcome /\ reader'[r] = [Request(1, 1) EXCEPT !.phase = "returned"]
  BY <1>1, <1>4 DEF Shapes
<1>6. /\ \A q \in Readers \ {r} : Waits(q)' /\ Returned(q)'
      /\ \A q \in Repos \ {r} : Documents(q)'
      /\ r # Lister => List'
  BY <1>5, OtherReaders
<1>7. Waits(r)' /\ Returned(r)'
  <2>1. /\ reader'[r].phase = "returned" /\ reader'[r].waits = 0 /\ reader'[r].named = 0
        /\ result'[r] # "none"
    BY <1>5 DEF Request
  <2>2. now' >= 0
    <3>1. now' \in Nat
      BY <1>4, ConstantTypes DEF Shapes
    <3>. QED BY <3>1
  <2>. QED BY <2>1, <2>2 DEF Waits, Returned
<1>8. (r \in Repos => Documents(r)') /\ (r = Lister => List')
  BY <1>5 DEF Documents, List
<1>9. budget'.spent = Cardinality(covered') /\ NoGap'
  BY DEF ReadersInv, NoGap
<1>. QED BY <1>4, <1>6, <1>7, <1>8, <1>9 DEF ReadersInv

\* A change of a request within its section and page: the document stays.
LEMMA RequestKeeps ==
  ASSUME ReadersInv, NEW r \in Readers, NEW q \in ReaderType, reader' = [reader EXCEPT ![r] = q],
         q.section = reader[r].section, q.page = reader[r].page,
         q.phase # "returned", reader[r].phase # "returned",
         UNCHANGED <<now, result, doc, listed>>,
         budget' \in [spent : 0..MaxWait, until : 0..Deadline], covered' \subseteq 0..Deadline,
         budget'.spent = Cardinality(covered'), NoGap', covered \subseteq covered',
         Waits(r)'
  PROVE  ReadersInv'
<1>1. Shapes /\ Shapes'
  BY DEF ReadersInv, Shapes
<1>2. reader'[r] = q /\ \A p \in Readers \ {r} : reader'[p] = reader[p]
  BY <1>1 DEF Shapes
<1>3. /\ \A p \in Readers \ {r} : Waits(p)' /\ Returned(p)'
      /\ \A p \in Repos \ {r} : Documents(p)'
      /\ r # Lister => List'
  BY <1>2, OtherReaders
<1>4. Returned(r)'
  BY <1>2 DEF ReadersInv, Returned
<1>5. r \in Repos => Documents(r)'
  BY <1>2 DEF ReadersInv, Documents, ReadSoFar, Whole
<1>6. r = Lister => List'
  BY <1>2 DEF ReadersInv, List, Kept, Keep
<1>. QED BY <1>1, <1>3, <1>4, <1>5, <1>6 DEF ReadersInv

\* A limit: it is waited for on the budget, or the request fails.
LEMMA LimitedKeeps ==
  ASSUME ReadersInv, NEW r \in Readers, NEW reset \in Int, NEW named \in Int, NEW asked \in BOOLEAN,
         reader[r].phase \in {"ready", "sent"}, Limited(r, reset, named, asked),
         named <= Later(reset, now), asked \/ ~ reader[r].bypass,
         UNCHANGED <<now, listed>>
  PROVE  ReadersInv'
<1>1. CASE Transient(r)
  BY <1>1, ReturnErrorKeeps DEF Transient
<1>2. ASSUME NEW j \in 0..Jitter, reader[r].waits # RateLimitWaits,
             Later(reset, now) + Slack + j <= Deadline,
             Reserve(Later(reset, now) + Slack + j),
             reader' = [reader EXCEPT ![r].phase = "waiting", ![r].waits = @ + 1,
                                      ![r].wake = Later(reset, now) + Slack + j,
                                      ![r].token = 0, ![r].bypass = TRUE, ![r].named = named,
                                      ![r].asked = asked],
             UNCHANGED <<result, doc>>
      PROVE  ReadersInv'
  <2>. DEFINE resume == Later(reset, now) + Slack + j
              q == [reader[r] EXCEPT !.phase = "waiting", !.waits = @ + 1, !.wake = resume,
                                     !.token = 0, !.bypass = TRUE, !.named = named, !.asked = asked]
  <2>1. now \in Nat /\ reader[r] \in ReaderType /\ reader \in [Readers -> ReaderType] /\ Shapes
    <3>1. Shapes
      BY DEF ReadersInv
    <3>2. now \in 0..Deadline /\ reader \in [Readers -> ReaderType]
      BY <3>1 DEF Shapes
    <3>3. Deadline \in Nat
      BY SourceAssumption
    <3>4. now \in Nat
      BY <3>2, <3>3
    <3> QED BY <3>1, <3>2, <3>4
  <2>2. resume \in Nat /\ resume >= now /\ resume <= Deadline /\ Reserve(resume)
        /\ resume >= named
    <3>1. Later(reset, now) \in Nat /\ Later(reset, now) >= now
      BY <2>1 DEF Later
    <3>2. Slack \in Nat /\ j \in Nat /\ Skew \in Int
      BY SourceAssumption
    <3>3. resume <= Deadline /\ Reserve(resume)
      BY <1>2, Zenon
    <3>4. Later(reset, now) >= named /\ named \in Int
      OBVIOUS
    <3>. HIDE DEF resume
    <3>5. resume = Later(reset, now) + Slack + j
      BY DEF resume
    <3>6. now \in Nat
      BY <2>1
    <3>7. resume \in Nat /\ resume >= now
      BY <3>1, <3>2, <3>5, <3>6
    <3>8. resume >= named
      BY <3>1, <3>2, <3>4, <3>5
    <3>. QED BY <3>3, <3>7, <3>8
  <2>3. reader' = [reader EXCEPT ![r] = q]
    BY <1>2, <2>1
  <2>. HIDE DEF resume
  <2>4. reader[r].waits + 1 \in 0..RateLimitWaits
    <3>1. reader[r].waits \in 0..RateLimitWaits
      BY <2>1, Zenon DEF ReaderType
    <3>2. RateLimitWaits \in Nat /\ reader[r].waits # RateLimitWaits
      BY <1>2, ConstantTypes, Zenon
    <3>. QED BY <3>1, <3>2
  <2>5. /\ q \in ReaderType /\ q.section = reader[r].section /\ q.page = reader[r].page
        /\ q.phase = "waiting" /\ q.wake = resume /\ q.named = named /\ q.asked = asked
        /\ q.waits = reader[r].waits + 1 /\ q.bypass
    BY <2>1, <2>2, <2>4 DEF ReaderType, Phases
  <2>. HIDE DEF q
  <2>6. /\ budget' \in [spent : 0..MaxWait, until : 0..Deadline]
        /\ covered' \subseteq 0..Deadline
        /\ budget'.spent = Cardinality(covered')
        /\ NoGap'
        /\ covered \subseteq covered' /\ now .. resume - 1 \subseteq covered'
    BY <2>1, <2>2, ChargeIsNew DEF ReadersInv
  <2>7. reader'[r] = q
    BY <2>1, <2>3
  <2>8. q.waits > 1 => asked
    BY <2>1, <2>5 DEF ReadersInv, Waits, ReaderType
  <2>9. Waits(r)'
    BY <2>2, <2>5, <2>6, <2>7, <2>8 DEF Waits
  <2>. QED BY <1>2, <2>3, <2>5, <2>6, <2>9, RequestKeeps
<1>. QED BY <1>1, <1>2 DEF Limited

\* What a reader has been told and read stays while only its phase, its wake or
\* its count of errors change.
LEMMA ServerErrorKeeps ==
  ASSUME ReadersInv, NEW r \in Readers, reader[r].phase = "sent", ServerError(r),
         UNCHANGED <<now, budget, listed, covered>>
  PROVE  ReadersInv'
<1>1. CASE ReturnError(r, "transient")
  BY <1>1, ReturnErrorKeeps
<1>2. ASSUME NEW j \in 0..Jitter, reader[r].errors + 1 # ServerErrorAttempts,
             reader' = [reader EXCEPT ![r].phase = "backoff", ![r].errors = @ + 1,
                                      ![r].wake = now + Backoff * 2^reader[r].errors + j,
                                      ![r].token = 0],
             UNCHANGED <<result, doc>>
      PROVE  ReadersInv'
  <2>. DEFINE wake == now + Backoff * 2^reader[r].errors + j
              q == [reader[r] EXCEPT !.phase = "backoff", !.errors = @ + 1, !.wake = wake, !.token = 0]
  <2>1. /\ now \in Nat /\ reader[r] \in ReaderType /\ reader \in [Readers -> ReaderType] /\ Shapes
        /\ reader[r].errors \in 0..ServerErrorAttempts - 1
    <3>1. now \in Nat /\ reader[r] \in ReaderType /\ reader \in [Readers -> ReaderType] /\ Shapes
      BY SourceAssumption DEF ReadersInv, Shapes
    <3>. QED BY <3>1 DEF ReaderType
  <2>2. wake \in Nat
    <3>1. reader[r].errors \in 0..(RateLimitWaits + ServerErrorAttempts)
      BY <2>1, SourceAssumption
    <3>2. 2^reader[r].errors \in Nat
      BY <3>1, PowersAssumption
    <3>. HIDE DEF wake
    <3>3. now \in Nat /\ Backoff \in Nat /\ j \in Nat
      BY <2>1, ConstantTypes
    <3>4. now + Backoff * 2^reader[r].errors \in Nat
      BY <3>2, <3>3, WaitType
    <3>. QED BY <3>3, <3>4 DEF wake
  <2>3. reader' = [reader EXCEPT ![r] = q]
    BY <1>2, <2>1
  <2>. HIDE DEF wake
  <2>4. reader[r].errors + 1 \in 0..ServerErrorAttempts - 1
    <3>1. ServerErrorAttempts \in Nat
      BY SourceAssumption
    <3>. QED BY <1>2, <2>1, <3>1
  <2>5. /\ q \in ReaderType /\ q.section = reader[r].section /\ q.page = reader[r].page
        /\ q.phase = "backoff" /\ q.named = reader[r].named
        /\ q.waits = reader[r].waits /\ q.bypass = reader[r].bypass
    BY <2>1, <2>2, <2>4 DEF ReaderType, Phases
  <2>. HIDE DEF q
  <2>6. reader'[r] = q
    BY <2>1, <2>3
  <2>7. Waits(r)'
    BY <2>5, <2>6 DEF ReadersInv, Waits
  <2>8. NoGap' /\ budget' \in [spent : 0..MaxWait, until : 0..Deadline] /\ covered' \subseteq 0..Deadline
    BY <2>1 DEF ReadersInv, Shapes, NoGap
  <2>9. budget'.spent = Cardinality(covered')
    BY DEF ReadersInv
  <2>. QED BY <1>2, <2>3, <2>5, <2>7, <2>8, <2>9, RequestKeeps
<1>. QED BY <1>1, <1>2 DEF ServerError

\* A wait that is over was as long as was named, and what the reader read stays.
LEMMA PhaseKeeps ==
  ASSUME ReadersInv, NEW r \in Readers, NEW q \in ReaderType, reader' = [reader EXCEPT ![r] = q],
         UNCHANGED <<now, budget, result, doc, listed, covered>>,
         reader[r].phase # "returned", reader[r].phase = "waiting" => now >= reader[r].wake,
         q.phase \in {"ready", "sent"}, q.section = reader[r].section, q.page = reader[r].page,
         q.waits = reader[r].waits, q.bypass = reader[r].bypass, q.named \in {reader[r].named, 0}
  PROVE  ReadersInv'
<1>1. now \in Nat /\ reader[r] \in ReaderType /\ reader \in [Readers -> ReaderType] /\ Shapes
  BY SourceAssumption DEF ReadersInv, Shapes
<1>2. reader'[r] = q
  BY <1>1
<1>3. now >= q.named
  <2>1. reader[r].named \in Int /\ reader[r].wake \in Nat
    BY <1>1 DEF ReaderType
  <2>2. Waits(r)
    BY DEF ReadersInv
  <2>3. now >= reader[r].named
    BY <1>1, <2>1, <2>2 DEF Waits
  <2>. QED BY <1>1, <2>3
<1>4. Waits(r)'
  BY <1>2, <1>3 DEF ReadersInv, Waits
<1>5. NoGap' /\ budget' \in [spent : 0..MaxWait, until : 0..Deadline] /\ covered' \subseteq 0..Deadline
  BY <1>1 DEF ReadersInv, Shapes, NoGap
<1>6. budget'.spent = Cardinality(covered')
  BY DEF ReadersInv
<1>. QED BY <1>4, <1>5, <1>6, RequestKeeps

\* The kinds of what a step reads.
LEMMA Kinds ==
  ASSUME IInv
  PROVE  /\ ReadersInv /\ NetworkInv /\ Shapes
         /\ now \in Nat /\ reader \in [Readers -> ReaderType]
         /\ limits \subseteq Int /\ known \in Int /\ secondary \in Nat
         /\ token \in [until : Nat, late : BOOLEAN] /\ token.until \in Nat
         /\ \A r \in Readers : /\ reader[r] \in ReaderType
                               /\ reader[r].wake \in Nat /\ reader[r].token \in Nat
                               /\ reader[r].named \in Int /\ reader[r].waits \in 0..RateLimitWaits
<1>1. ReadersInv /\ NetworkInv /\ Shapes
  BY DEF IInv, ReadersInv
<1>2. now \in Nat /\ reader \in [Readers -> ReaderType]
  BY <1>1, ConstantTypes DEF Shapes
<1>3. /\ limits \subseteq Int /\ known \in Int /\ secondary \in Nat
      /\ token \in [until : Nat, late : BOOLEAN] /\ token.until \in Nat
  BY <1>1 DEF NetworkInv
<1>4. ASSUME NEW r \in Readers
      PROVE  /\ reader[r] \in ReaderType
             /\ reader[r].wake \in Nat /\ reader[r].token \in Nat
             /\ reader[r].named \in Int /\ reader[r].waits \in 0..RateLimitWaits
  BY <1>2 DEF ReaderType
<1>. QED BY <1>1, <1>2, <1>3, <1>4

\* When GitHub judged a request, and when the limit that was in force then lifts.
LEMMA JudgedType ==
  ASSUME IInv, NEW r \in Readers, NEW at \in Judged(r)
  PROVE  /\ at \in Int /\ at <= now
         /\ InForce(at) \subseteq Int
         /\ \A lifts \in InForce(at) :
              ResetHere(lifts, at) \in Int /\ lifts - Skew \in Int /\ lifts - Skew <= ResetHere(lifts, at)
<1>1. at \in Int /\ at <= now
  <2>1. now \in Nat /\ reader[r].wake \in Nat /\ RequestTimeout \in Nat
    BY Kinds, ConstantTypes
  <2>. QED BY <2>1 DEF Judged
<1>2. InForce(at) \subseteq Int
  BY Kinds DEF InForce
<1>3. ASSUME NEW lifts \in InForce(at)
      PROVE  /\ ResetHere(lifts, at) \in Int /\ lifts - Skew \in Int
             /\ lifts - Skew <= ResetHere(lifts, at)
  <2>1. lifts \in Int /\ Skew \in Int /\ now \in Nat
    BY <1>2, Kinds, ConstantTypes
  <2>. QED BY <1>1, <2>1 DEF ResetHere
<1>. QED BY <1>1, <1>2, <1>3

\* A request begins, its sleep is over, it is sent, sent again or sent on.
LEMMA PhasesKeep ==
  ASSUME IInv, NEW r \in Readers,
         \/ Start(r) \/ Wake(r) \/ Send(r) \/ GitLabSend(r) \/ GitLabRetry(r)
         \/ Redirect(r) /\ UNCHANGED <<result, doc>>
            /\ reader' = [reader EXCEPT ![r].token = TokenSent]
  PROVE  ReadersInv'
<1>1. /\ ReadersInv /\ now \in Nat /\ reader[r] \in ReaderType /\ reader \in [Readers -> ReaderType]
      /\ TokenSent \in Nat /\ RequestTimeout \in Nat
  BY Kinds, ConstantTypes DEF TokenSent
<1>2. CASE Start(r)
  <2>. DEFINE q == [reader[r] EXCEPT !.phase = "ready"]
  <2>1. reader' = [reader EXCEPT ![r] = q] /\ q \in ReaderType
    BY <1>1, <1>2 DEF Start, ReaderType, Phases
  <2>2. /\ q.phase = "ready" /\ q.section = reader[r].section /\ q.page = reader[r].page
        /\ q.waits = reader[r].waits /\ q.bypass = reader[r].bypass /\ q.named = reader[r].named
    BY <1>1 DEF ReaderType
  <2>. QED BY <1>1, <1>2, <2>1, <2>2, PhaseKeeps DEF Start
<1>3. CASE Wake(r)
  <2>. DEFINE q == [reader[r] EXCEPT !.phase = "ready", !.wake = 0, !.asked = TRUE]
  <2>1. reader' = [reader EXCEPT ![r] = q] /\ q \in ReaderType
    BY <1>1, <1>3 DEF Wake, ReaderType, Phases
  <2>2. /\ q.phase = "ready" /\ q.section = reader[r].section /\ q.page = reader[r].page
        /\ q.waits = reader[r].waits /\ q.bypass = reader[r].bypass /\ q.named = reader[r].named
    BY <1>1 DEF ReaderType
  <2>3. /\ reader[r].phase # "returned" /\ now >= reader[r].wake
        /\ UNCHANGED <<now, budget, result, doc, listed, covered>>
    BY <1>3 DEF Wake
  <2>. HIDE DEF q
  <2>. QED BY <1>1, <2>1, <2>2, <2>3, PhaseKeeps
<1>4. CASE Send(r)
  <2>. DEFINE q == [reader[r] EXCEPT !.phase = "sent", !.wake = now + RequestTimeout,
                                     !.token = TokenSent, !.named = 0]
  <2>1. reader' = [reader EXCEPT ![r] = q] /\ q \in ReaderType
    <3>1. reader' = [reader EXCEPT ![r] = q]
      BY <1>1, <1>4 DEF Send
    <3>2. now + RequestTimeout \in Nat /\ 0 \in Int
      BY <1>1
    <3>. QED BY <1>1, <3>1, <3>2 DEF ReaderType, Phases
  <2>2. /\ q.phase = "sent" /\ q.section = reader[r].section /\ q.page = reader[r].page
        /\ q.waits = reader[r].waits /\ q.bypass = reader[r].bypass /\ q.named = 0
    BY <1>1 DEF ReaderType
  <2>3. /\ reader[r].phase = "ready"
        /\ UNCHANGED <<now, budget, result, doc, listed, covered>>
    BY <1>4 DEF Send, Ready
  <2>. HIDE DEF q
  <2>. QED BY <1>1, <2>1, <2>2, <2>3, PhaseKeeps
<1>5. CASE GitLabSend(r)
  <2>. DEFINE q == [reader[r] EXCEPT !.phase = "sent"]
  <2>1. reader' = [reader EXCEPT ![r] = q] /\ q \in ReaderType
    BY <1>1, <1>5 DEF GitLabSend, ReaderType, Phases
  <2>2. /\ q.phase = "sent" /\ q.section = reader[r].section /\ q.page = reader[r].page
        /\ q.waits = reader[r].waits /\ q.bypass = reader[r].bypass /\ q.named = reader[r].named
    BY <1>1 DEF ReaderType
  <2>. QED BY <1>1, <1>5, <2>1, <2>2, PhaseKeeps DEF GitLabSend, Ready
<1>6. CASE GitLabRetry(r)
  <2>. DEFINE q == [reader[r] EXCEPT !.phase = "ready"]
  <2>1. reader' = [reader EXCEPT ![r] = q] /\ q \in ReaderType
    BY <1>1, <1>6 DEF GitLabRetry, ReaderType, Phases
  <2>2. /\ q.phase = "ready" /\ q.section = reader[r].section /\ q.page = reader[r].page
        /\ q.waits = reader[r].waits /\ q.bypass = reader[r].bypass /\ q.named = reader[r].named
    BY <1>1 DEF ReaderType
  <2>. QED BY <1>1, <1>6, <2>1, <2>2, PhaseKeeps DEF GitLabRetry
<1>7. CASE /\ Redirect(r) /\ UNCHANGED <<result, doc>>
           /\ reader' = [reader EXCEPT ![r].token = TokenSent]
  <2>. DEFINE q == [reader[r] EXCEPT !.token = TokenSent]
  <2>1. reader' = [reader EXCEPT ![r] = q] /\ q \in ReaderType
    BY <1>1, <1>7 DEF ReaderType, Phases
  <2>2. /\ q.phase = "sent" /\ q.section = reader[r].section /\ q.page = reader[r].page
        /\ q.waits = reader[r].waits /\ q.bypass = reader[r].bypass /\ q.named = reader[r].named
    BY <1>1, <1>7 DEF ReaderType, Redirect, UnderWay
  <2>. QED BY <1>1, <1>7, <2>1, <2>2, PhaseKeeps DEF Redirect, UnderWay
<1>. QED BY <1>2, <1>3, <1>4, <1>5, <1>6, <1>7

\* The clock: of a wait less is left.
LEMMA TickKeeps ==
  ASSUME ReadersInv, Tick
  PROVE  ReadersInv'
<1>1. /\ now \in Nat /\ now < Deadline /\ now' = now + 1 /\ Deadline \in Nat /\ Skew \in Int
      /\ UNCHANGED <<budget, reader, result, doc, listed, covered>> /\ Shapes
  <2>1. Shapes
    BY DEF ReadersInv
  <2>2. Deadline \in Nat /\ Skew \in Int
    BY SourceAssumption
  <2>3. now \in 0..Deadline
    BY <2>1 DEF Shapes
  <2>4. ~ (now >= Deadline) /\ now' = now + 1
    BY DEF Tick, Done
  <2>5. UNCHANGED <<budget, reader, result, doc, listed, covered>>
    BY DEF Tick
  <2>. QED BY <2>1, <2>2, <2>3, <2>4, <2>5
<1>2. Shapes'
  BY <1>1 DEF Shapes
<1>3. NoGap'
  BY <1>1 DEF ReadersInv, NoGap, Shapes
<1>4. ASSUME NEW r \in Readers
      PROVE  Waits(r)' /\ Returned(r)'
  <2>1. Waits(r) /\ Returned(r) /\ reader[r].named \in Int /\ reader[r].wake \in Nat
    BY <1>1 DEF ReadersInv, Shapes, ReaderType
  <2>. QED BY <1>1, <2>1 DEF Waits, Returned
<1>5. \A r \in Repos : Documents(r)'
  BY <1>1 DEF ReadersInv, Documents, ReadSoFar, Whole
<1>6. List'
  BY <1>1 DEF ReadersInv, List, Kept, Keep
<1>7. budget'.spent = Cardinality(covered')
  BY <1>1 DEF ReadersInv
<1>. QED BY <1>2, <1>3, <1>4, <1>5, <1>6, <1>7 DEF ReadersInv

\* A section is over, and what it came to is in the document.
LEMMA EndSectionKeeps ==
  ASSUME ReadersInv, NEW r \in Repos, reader[r].phase = "sent", EndSection(r),
         UNCHANGED <<now, budget, listed, covered>>,
         doc' \in [Repos -> DocType], \A q \in Repos \ {r} : doc'[q] = doc[q],
         \A s \in Sections : s <= reader[r].section =>
           doc'[r].pages[s] = (IF s \in doc'[r].off THEN {} ELSE 1..Pages[s]),
         \A s \in Sections : s > reader[r].section => doc'[r].pages[s] = {},
         \A s \in doc'[r].off : s <= reader[r].section
  PROVE  ReadersInv'
<1>1. /\ Shapes /\ ReadSoFar(r) /\ r \in Readers /\ r # Lister /\ result[r] = "none"
      /\ reader \in [Readers -> ReaderType] /\ now \in Nat /\ Skew \in Int
  BY SourceAssumption DEF ReadersInv, Shapes, Readers, Documents, Returned
<1>2. NoGap' /\ budget'.spent = Cardinality(covered')
  BY DEF ReadersInv, NoGap
<1>3. CASE reader[r].section < Len(Pages)
  <2>. DEFINE next == reader[r].section + 1
  <2>1. /\ reader' = [reader EXCEPT ![r] = Request(next, 1)] /\ result' = result
    BY <1>1, <1>3 DEF EndSection
  <2>2. next \in Sections /\ next \in Nat /\ reader[r].section \in Nat
    BY <1>1, <1>3, SectionsType DEF ReadSoFar
  <2>3. Request(next, 1) \in ReaderType
    <3>. HIDE DEF next
    <3>1. "ready" \in Phases
      BY DEF Phases
    <3>. QED BY <2>2, <3>1, RequestType
  <2>4. /\ reader'[r] = Request(next, 1) /\ \A q \in Readers \ {r} : reader'[q] = reader[q]
        /\ Shapes'
    BY <1>1, <2>1, <2>3 DEF Shapes
  <2>5. /\ reader'[r].section = next /\ reader'[r].page = 1 /\ reader'[r].phase = "ready"
        /\ reader'[r].named = 0 /\ reader'[r].waits = 0
    BY <2>4 DEF Request
  <2>6. /\ \A q \in Readers \ {r} : Waits(q)' /\ Returned(q)'
        /\ \A q \in Repos \ {r} : Documents(q)'
        /\ List'
    BY <1>1, <2>1, <2>4, OtherReaders
  <2>7. Waits(r)' /\ Returned(r)'
    BY <1>1, <2>1, <2>5 DEF Waits, Returned
  <2>8. ReadSoFar(r)'
    <3>1. \A s \in Sections : (s < next <=> s <= reader[r].section) /\ (s > next => s > reader[r].section)
      BY <2>2, SectionsType
    <3>2. \A s \in doc'[r].off : s \in Sections
      BY DEF DocType
    <3>3. reader'[r].page \in 1..Pages[reader'[r].section]
      BY <2>2, <2>5, SectionsType
    <3>4. doc'[r].pages[next] = {} /\ 1..reader'[r].page - 1 = {}
      BY <2>2, <2>5
    <3>5. \A s \in Sections : s < next => Whole(r, s)'
      BY <3>1 DEF Whole
    <3>. HIDE DEF next
    <3>. QED BY <2>2, <2>5, <3>1, <3>2, <3>3, <3>4, <3>5 DEF ReadSoFar
  <2>. QED BY <1>2, <2>1, <2>4, <2>6, <2>7, <2>8, <1>1 DEF ReadersInv, Documents
<1>4. CASE ~ (reader[r].section < Len(Pages))
  <2>1. /\ reader' = [reader EXCEPT ![r] = [Request(1, 1) EXCEPT !.phase = "returned"]]
        /\ result' = [result EXCEPT ![r] = "ok"]
    BY <1>4 DEF EndSection, Return
  <2>2. [Request(1, 1) EXCEPT !.phase = "returned"] \in ReaderType
    BY RequestType DEF Phases
  <2>3. /\ Shapes' /\ result'[r] = "ok"
        /\ reader'[r] = [Request(1, 1) EXCEPT !.phase = "returned"]
        /\ \A q \in Readers \ {r} : reader'[q] = reader[q] /\ result'[q] = result[q]
    BY <1>1, <2>1, <2>2 DEF Shapes
  <2>4. reader'[r].phase = "returned" /\ reader'[r].named = 0 /\ reader'[r].waits = 0
    BY <2>3 DEF Request
  <2>5. /\ \A q \in Readers \ {r} : Waits(q)' /\ Returned(q)'
        /\ \A q \in Repos \ {r} : Documents(q)'
        /\ List'
    BY <1>1, <2>3, OtherReaders
  <2>6. Waits(r)' /\ Returned(r)'
    BY <1>1, <2>3, <2>4 DEF Waits, Returned
  <2>7. \A s \in Sections : Whole(r, s)'
    <3>1. \A s \in Sections : s <= reader[r].section
      BY <1>1, <1>4, SectionsType DEF ReadSoFar
    <3>. QED BY <3>1 DEF Whole
  <2>. QED BY <1>1, <1>2, <2>3, <2>5, <2>6, <2>7 DEF ReadersInv, Documents
<1>. QED BY <1>3, <1>4

\* A page of a repository's section.
LEMMA PageKeeps ==
  ASSUME ReadersInv, NEW r \in Repos, reader[r].phase = "sent", Page(r),
         UNCHANGED <<now, budget, covered>>
  PROVE  ReadersInv'
<1>. DEFINE section == reader[r].section
            page == reader[r].page
<1>1. /\ Shapes /\ ReadSoFar(r) /\ r \in Readers /\ r # Lister /\ result[r] = "none"
      /\ reader \in [Readers -> ReaderType] /\ now \in Nat /\ Skew \in Int
      /\ doc \in [Repos -> DocType]
  BY SourceAssumption DEF ReadersInv, Shapes, Readers, Documents, Returned
<1>2. /\ doc' = [doc EXCEPT ![r].pages[section] = @ \cup {page}] /\ listed' = listed
      /\ LastPage(r) = Pages[section]
  BY <1>1 DEF Page, LastPage
<1>3. section \in Sections /\ section \in Nat /\ page \in 1..Pages[section] /\ Pages[section] \in Nat \ {0}
  BY <1>1, SectionsType DEF ReadSoFar
<1>. HIDE DEF section, page
<1>4. /\ doc' \in [Repos -> DocType] /\ \A q \in Repos \ {r} : doc'[q] = doc[q]
      /\ doc'[r].off = doc[r].off
      /\ \A s \in Sections \ {section} : doc'[r].pages[s] = doc[r].pages[s]
      /\ doc'[r].pages[section] = doc[r].pages[section] \cup {page}
  <2>1. doc[r] \in DocType
    BY <1>1
  <2>. DEFINE new == [doc[r] EXCEPT !.pages[section] = @ \cup {page}]
  <2>2. doc' = [doc EXCEPT ![r] = new]
    BY <1>1, <1>2
  <2>3. /\ new \in DocType /\ new.off = doc[r].off
        /\ \A s \in Sections \ {section} : new.pages[s] = doc[r].pages[s]
        /\ new.pages[section] = doc[r].pages[section] \cup {page}
    BY <1>3, <2>1 DEF DocType
  <2>. HIDE DEF new
  <2>. QED BY <1>1, <2>2, <2>3
<1>5. /\ doc[r].pages[section] = 1..page - 1 /\ section \notin doc[r].off
      /\ \A s \in Sections : s < section => doc[r].pages[s] = IF s \in doc[r].off THEN {} ELSE 1..Pages[s]
      /\ \A s \in Sections : s > section => doc[r].pages[s] = {}
      /\ \A s \in doc[r].off : s < section /\ s \in Sections
  BY <1>1, <1>3 DEF ReadSoFar, Whole, section, page, DocType
<1>6. doc'[r].pages[section] = 1..page
  BY <1>3, <1>4, <1>5
<1>7. CASE page < LastPage(r)
  <2>1. reader' = [reader EXCEPT ![r] = Request(section, page + 1)] /\ result' = result
    BY <1>7 DEF Page, section, page
  <2>2. Request(section, page + 1) \in ReaderType
    <3>1. "ready" \in Phases /\ page + 1 \in Nat
      BY <1>3 DEF Phases
    <3>. QED BY <1>3, <3>1, RequestType
  <2>3. /\ reader'[r] = Request(section, page + 1) /\ \A q \in Readers \ {r} : reader'[q] = reader[q]
        /\ Shapes'
    BY <1>1, <1>2, <1>4, <2>1, <2>2 DEF Shapes
  <2>4. /\ reader'[r].section = section /\ reader'[r].page = page + 1 /\ reader'[r].phase = "ready"
        /\ reader'[r].named = 0 /\ reader'[r].waits = 0
    BY <2>3 DEF Request
  <2>5. /\ \A q \in Readers \ {r} : Waits(q)' /\ Returned(q)'
        /\ \A q \in Repos \ {r} : Documents(q)'
        /\ List'
    BY <1>1, <1>2, <1>4, <2>1, <2>3, OtherReaders
  <2>6. Waits(r)' /\ Returned(r)'
    BY <1>1, <2>1, <2>4 DEF Waits, Returned
  <2>7. ReadSoFar(r)'
    <3>1. page + 1 \in 1..Pages[section] /\ 1..(page + 1) - 1 = 1..page
      BY <1>2, <1>3, <1>7
    <3>2. \A s \in Sections : s < section => Whole(r, s)'
      BY <1>3, <1>4, <1>5, SectionsType DEF Whole
    <3>3. \A s \in Sections : s > section => doc'[r].pages[s] = {}
      BY <1>3, <1>4, <1>5, SectionsType
    <3>. QED BY <1>3, <1>4, <1>5, <1>6, <2>4, <3>1, <3>2, <3>3 DEF ReadSoFar
  <2>8. NoGap' /\ budget'.spent = Cardinality(covered')
    BY DEF ReadersInv, NoGap
  <2>. QED BY <1>1, <2>1, <2>3, <2>5, <2>6, <2>7, <2>8 DEF ReadersInv, Documents
<1>8. CASE ~ (page < LastPage(r))
  <2>1. EndSection(r)
    BY <1>8 DEF Page, page
  <2>2. page = Pages[section]
    BY <1>2, <1>3, <1>8
  <2>3. \A s \in Sections : s <= section =>
          doc'[r].pages[s] = (IF s \in doc'[r].off THEN {} ELSE 1..Pages[s])
    BY <1>3, <1>4, <1>5, <1>6, <2>2, SectionsType
  <2>4. \A s \in Sections : s > section => doc'[r].pages[s] = {}
    BY <1>3, <1>4, <1>5, SectionsType
  <2>5. \A s \in doc'[r].off : s <= section
    BY <1>3, <1>4, <1>5, SectionsType
  <2>. QED BY <1>2, <1>4, <2>1, <2>3, <2>4, <2>5, EndSectionKeeps DEF section
<1>. QED BY <1>7, <1>8

\* A page of the list: with the last one the list is whole.
LEMMA ListPageKeeps ==
  ASSUME ReadersInv, reader[Lister].phase = "sent", Page(Lister), UNCHANGED <<now, budget, covered>>
  PROVE  ReadersInv'
<1>. DEFINE page == reader[Lister].page
<1>1. /\ Shapes /\ List /\ Lister \in Readers /\ Lister \notin Repos /\ result[Lister] = "none"
      /\ reader \in [Readers -> ReaderType] /\ now \in Nat /\ Skew \in Int
      /\ \A s \in Repos : PageOf[s] \in Nat
  BY SourceAssumption DEF ReadersInv, Shapes, Readers, Returned
<1>2. /\ listed' = listed \cup {s \in Repos : PageOf[s] = page /\ Keep(s)} /\ doc' = doc
      /\ page \in Nat \ {0} /\ listed = {s \in Kept : PageOf[s] < page}
      /\ reader[Lister].section \in Nat
  BY <1>1 DEF Page, List, ReaderType
<1>. HIDE DEF page
<1>3. listed' = {s \in Kept : PageOf[s] < page + 1} /\ listed' \subseteq Repos
  BY <1>1, <1>2 DEF Kept
<1>4. /\ NoGap' /\ budget'.spent = Cardinality(covered') /\ Kept' = Kept
  BY DEF ReadersInv, NoGap, Kept, Keep
<1>5. CASE page < LastPage(Lister)
  <2>. DEFINE q == Request(reader[Lister].section, page + 1)
  <2>1. reader' = [reader EXCEPT ![Lister] = q] /\ result' = result
    BY <1>5 DEF Page, page
  <2>2. q \in ReaderType
    <3>1. "ready" \in Phases /\ page + 1 \in Nat
      BY <1>2 DEF Phases
    <3>. QED BY <1>2, <3>1, RequestType
  <2>3. q.phase = "ready" /\ q.named = 0 /\ q.waits = 0 /\ q.page = page + 1
    BY DEF Request
  <2>. HIDE DEF q
  <2>4. reader'[Lister] = q /\ (\A r \in Readers \ {Lister} : reader'[r] = reader[r]) /\ Shapes'
    BY <1>1, <1>2, <1>3, <2>1, <2>2 DEF Shapes
  <2>5. /\ \A r \in Readers \ {Lister} : Waits(r)' /\ Returned(r)'
        /\ \A r \in Repos \ {Lister} : Documents(r)'
    BY <1>1, <1>2, <2>1, <2>4, OtherReaders
  <2>6. Waits(Lister)' /\ Returned(Lister)'
    BY <1>1, <2>1, <2>3, <2>4 DEF Waits, Returned
  <2>7. List'
    BY <1>1, <1>2, <1>3, <1>4, <2>1, <2>3, <2>4 DEF List
  <2>. QED BY <1>1, <1>4, <2>4, <2>5, <2>6, <2>7 DEF ReadersInv
<1>6. CASE ~ (page < LastPage(Lister))
  <2>. DEFINE q == [Request(1, 1) EXCEPT !.phase = "returned"]
  <2>1. /\ reader' = [reader EXCEPT ![Lister] = q] /\ result' = [result EXCEPT ![Lister] = "ok"]
    BY <1>6 DEF Page, EndSection, Return, page
  <2>2. q \in ReaderType
    BY RequestType DEF Phases
  <2>3. q.phase = "returned" /\ q.named = 0 /\ q.waits = 0
    BY DEF Request
  <2>. HIDE DEF q
  <2>4. /\ reader'[Lister] = q /\ result'[Lister] = "ok" /\ Shapes'
        /\ \A r \in Readers \ {Lister} : reader'[r] = reader[r] /\ result'[r] = result[r]
    BY <1>1, <1>2, <1>3, <2>1, <2>2 DEF Shapes
  <2>5. /\ \A r \in Readers \ {Lister} : Waits(r)' /\ Returned(r)'
        /\ \A r \in Repos \ {Lister} : Documents(r)'
    BY <1>1, <1>2, <2>4, OtherReaders
  <2>6. Waits(Lister)' /\ Returned(Lister)'
    BY <1>1, <2>3, <2>4 DEF Waits, Returned
  <2>7. listed' = Kept
    <3>1. page >= LastPage(Lister)
      BY <1>2, <1>6, LastPageType
    <3>2. \A s \in Repos : PageOf[s] <= page
      BY <1>1, <1>2, <3>1, LastPageType
    <3>. QED BY <1>1, <1>2, <1>3, <3>2 DEF Kept
  <2>8. List'
    BY <1>4, <2>4, <2>7 DEF List
  <2>. QED BY <1>1, <1>4, <2>4, <2>5, <2>6, <2>8 DEF ReadersInv
<1>. QED BY <1>5, <1>6

\* A section that is off is stored empty and named.
LEMMA OffKeeps ==
  ASSUME ReadersInv, NEW r \in Readers, AnswerOff(r)
  PROVE  ReadersInv'
<1>. DEFINE section == reader[r].section
            new == [doc[r] EXCEPT !.pages[section] = {}, !.off = @ \cup {section}]
<1>1. /\ r \in Repos /\ reader[r].phase = "sent" /\ EndSection(r)
      /\ doc' = [doc EXCEPT ![r].pages[reader[r].section] = {}, ![r].off = @ \cup {reader[r].section}]
      /\ UNCHANGED <<now, budget, listed, covered>>
  BY DEF AnswerOff, UnderWay, Readers
<1>2. ReadSoFar(r) /\ doc \in [Repos -> DocType] /\ doc[r] \in DocType
  BY <1>1 DEF ReadersInv, Shapes, Documents, Returned, Readers
<1>3. section \in Sections
  BY <1>2 DEF ReadSoFar
<1>4. doc' = [doc EXCEPT ![r] = new]
  BY <1>1, <1>2
<1>5. /\ new \in DocType /\ new.off = doc[r].off \cup {section}
      /\ \A s \in Sections \ {section} : new.pages[s] = doc[r].pages[s]
      /\ new.pages[section] = {}
  BY <1>2, <1>3 DEF DocType
<1>. HIDE DEF section, new
<1>6. /\ \A s \in Sections : s < section => doc[r].pages[s] = IF s \in doc[r].off THEN {} ELSE 1..Pages[s]
      /\ \A s \in Sections : s > section => doc[r].pages[s] = {}
      /\ \A s \in doc[r].off : s < section /\ s \in Sections
  BY <1>2 DEF ReadSoFar, Whole, section, DocType
<1>7. doc' \in [Repos -> DocType] /\ doc'[r] = new /\ \A q \in Repos \ {r} : doc'[q] = doc[q]
  <2>1. r \in Repos /\ doc \in [Repos -> DocType] /\ new \in DocType
    BY <1>1, <1>2, <1>5
  <2>2. /\ [doc EXCEPT ![r] = new] \in [Repos -> DocType] /\ [doc EXCEPT ![r] = new][r] = new
        /\ \A q \in Repos \ {r} : [doc EXCEPT ![r] = new][q] = doc[q]
    BY <2>1, OneWritten
  <2>. QED BY <1>4, <2>2, Zenon
<1>8. /\ \A s \in Sections : s <= section =>
           doc'[r].pages[s] = (IF s \in doc'[r].off THEN {} ELSE 1..Pages[s])
      /\ \A s \in Sections : s > section => doc'[r].pages[s] = {}
      /\ \A s \in doc'[r].off : s <= section
  <2>1. section \in Nat /\ \A s \in Sections : s \in Nat
    BY <1>3, SectionsType
  <2>2. ASSUME NEW s \in Sections, s <= section
        PROVE  doc'[r].pages[s] = (IF s \in doc'[r].off THEN {} ELSE 1..Pages[s])
    <3>1. CASE s = section
      BY <1>5, <1>7, <3>1
    <3>2. CASE s # section
      <4>1. s < section
        BY <2>1, <2>2, <3>2
      <4>. QED BY <1>5, <1>6, <1>7, <3>2, <4>1
    <3>. QED BY <3>1, <3>2
  <2>3. ASSUME NEW s \in Sections, s > section
        PROVE  doc'[r].pages[s] = {}
    <3>1. s # section
      BY <2>1, <2>3
    <3>. QED BY <1>5, <1>6, <1>7, <2>3, <3>1
  <2>4. \A s \in doc'[r].off : s <= section
    BY <1>5, <1>6, <1>7, <2>1
  <2>. QED BY <2>2, <2>3, <2>4
<1>. QED BY <1>1, <1>7, <1>8, EndSectionKeeps DEF section

-----------------------------------------------------------------------------
(***************************************************************************)
(* Every step.                                                             *)
(***************************************************************************)
LEMMA Initially == Init => IInv
<1>. SUFFICES ASSUME Init
              PROVE  IInv
  OBVIOUS
<1>. USE DEF Init
<1>1. [Request(1, 1) EXCEPT !.phase = "idle"] \in ReaderType
  BY RequestType DEF Phases
<1>2. Nothing \in DocType
  BY DEF Nothing, DocType
<1>3. Shapes
  BY <1>1, <1>2, SourceAssumption DEF Shapes
<1>4. budget.spent = Cardinality(covered) /\ NoGap
  BY FS_EmptySet DEF NoGap
<1>5. ASSUME NEW r \in Readers
      PROVE  /\ reader[r].phase = "idle" /\ reader[r].section = 1 /\ reader[r].page = 1
             /\ reader[r].named = 0 /\ reader[r].waits = 0
  BY DEF Request
<1>6. \A r \in Readers : Waits(r) /\ Returned(r)
  <2>1. now >= 0
    OBVIOUS
  <2>2. \A r \in Readers : result[r] = "none"
    OBVIOUS
  <2>. QED BY <1>5, <2>1, <2>2 DEF Waits, Returned
<1>7. ASSUME NEW r \in Repos
      PROVE  Documents(r)
  <2>1. /\ r \in Readers /\ doc[r].off = {} /\ \A s \in Sections : doc[r].pages[s] = {}
    BY DEF Readers, Nothing
  <2>2. 1 \in Sections /\ 1 \in 1..Pages[1] /\ \A s \in Sections : ~ (s < 1)
    BY SectionsType
  <2>3. 1..1 - 1 = {}
    OBVIOUS
  <2>. QED BY <1>5, <2>1, <2>2, <2>3 DEF Documents, ReadSoFar, Readers
<1>8. List
  <2>1. \A r \in Repos : ~ (PageOf[r] < 1)
    <3>1. PageOf \in [Repos -> Nat \ {0}]
      BY SourceAssumption
    <3>2. \A r \in Repos : PageOf[r] \in Nat \ {0}
      BY <3>1
    <3> QED BY <3>2
  <2>2. /\ Lister \in Readers /\ result[Lister] = "none" /\ listed = {}
        /\ reader[Lister].page = 1
    BY <1>5 DEF Readers
  <2>3. {s \in Kept : PageOf[s] < 1} = {}
    BY <2>1 DEF Kept
  <2>. QED BY <2>2, <2>3 DEF List
<1>9. NetworkInv
  <2>1. PICK until \in RequestTimeout..TokenLife : token = [until |-> until, late |-> FALSE]
    OBVIOUS
  <2>2. token \in [until : Nat, late : BOOLEAN] /\ token.until >= now + RequestTimeout
    BY <2>1, ConstantTypes
  <2>3. \A r \in Readers : result[r] # "unauthorized"
    OBVIOUS
  <2>4. provider \in Providers /\ known \in Int /\ secondary \in Nat /\ limits \subseteq Int
    OBVIOUS
  <2>5. stopped \in BOOLEAN
    BY Zenon
  <2>6. \A r \in Readers : Lasts(r)
    BY <1>5 DEF Lasts
  <2>. QED BY <2>2, <2>3, <2>4, <2>5, <2>6, Zenon DEF NetworkInv
<1>. QED BY <1>3, <1>4, <1>6, <1>7, <1>8, <1>9 DEF IInv, ReadersInv

\* A limit with no time named is waited for a whole number of ticks.
LEMMA UnnamedType ==
  ASSUME Shapes, NEW r \in Readers
  PROVE  Unnamed(r) \in Int
<1>1. now \in Nat /\ reader[r].waits \in 0..(RateLimitWaits + ServerErrorAttempts)
  <2>1. reader[r].waits \in 0..RateLimitWaits
    BY DEF Shapes, ReaderType
  <2>. QED BY <2>1, SourceAssumption DEF Shapes
<1>2. 2^reader[r].waits \in Nat
  BY <1>1, PowersAssumption
<1>3. \A power \in Nat : now + UnnamedWait * power \in Int
  <2>1. now \in Nat /\ UnnamedWait \in Nat
    BY <1>1, ConstantTypes
  <2>. QED BY <2>1, WaitType
<1>. QED BY <1>2, <1>3 DEF Unnamed

LEMMA SameReaders ==
  ASSUME ReadersInv, UNCHANGED <<now, budget, reader, result, doc, listed, covered>>
  PROVE  ReadersInv'
<1>1. Shapes' /\ NoGap' /\ List'
  BY DEF ReadersInv, Shapes, NoGap, List, Kept, Keep
<1>2. (\A r \in Readers : Waits(r)' /\ Returned(r)') /\ \A r \in Repos : Documents(r)'
  BY DEF ReadersInv, Waits, Returned, Documents, ReadSoFar, Whole
<1>. QED BY <1>1, <1>2 DEF ReadersInv

LEMMA ReadKeepsReaders ==
  ASSUME IInv, NEW r \in Readers, Read(r)
  PROVE  ReadersInv'
<1>0. /\ ReadersInv /\ now \in Nat /\ Skew \in Int /\ reader[r] \in ReaderType
      /\ reader[r].named \in Int /\ reader[r].waits \in 0..RateLimitWaits /\ reader[r].wake \in Nat
      /\ known \in Int /\ secondary \in Nat /\ limits \subseteq Int
      /\ Unnamed(r) \in Int /\ RequestTimeout \in Nat
  BY Kinds, UnnamedType, ConstantTypes
<1>1. CASE Start(r) \/ Wake(r) \/ Send(r) \/ GitLabSend(r) \/ GitLabRetry(r)
  BY <1>1, PhasesKeep
<1>2. CASE StopWaiting(r)
  BY <1>0, <1>2, ReturnErrorKeeps DEF StopWaiting, Transient
<1>3. CASE RefuseLocally(r)
  <2>. DEFINE lifts == IF now < known THEN known ELSE secondary
  <2>1. lifts \in Int /\ lifts <= Later(lifts, now)
    BY <1>0 DEF Later
  <2>2. /\ reader[r].phase = "ready" /\ ~ reader[r].bypass /\ UNCHANGED <<now, listed>>
        /\ Limited(r, lifts, lifts, FALSE)
    BY <1>3 DEF RefuseLocally, Forgotten
  <2>. HIDE DEF lifts
  <2>. QED BY <1>0, <2>1, <2>2, LimitedKeeps
<1>4. CASE AnswerLimited(r)
  <2>0. PICK at \in Judged(r) : \E lifts \in InForce(at) :
          \/ Limited(r, ResetHere(lifts, at), lifts - Skew, TRUE)
          \/ Limited(r, lifts, lifts, TRUE)
          \/ Limited(r, Unnamed(r), 0, TRUE)
    BY <1>4 DEF AnswerLimited
  <2>1. PICK lifts \in InForce(at) :
          \/ Limited(r, ResetHere(lifts, at), lifts - Skew, TRUE)
          \/ Limited(r, lifts, lifts, TRUE)
          \/ Limited(r, Unnamed(r), 0, TRUE)
    BY <2>0
  <2>2. reader[r].phase = "sent" /\ UNCHANGED <<now, listed>>
    BY <1>4 DEF AnswerLimited, UnderWay
  <2>3. /\ lifts \in Int /\ ResetHere(lifts, at) \in Int /\ lifts - Skew \in Int
        /\ lifts - Skew <= ResetHere(lifts, at)
    BY JudgedType
  <2>4. lifts - Skew <= Later(ResetHere(lifts, at), now)
    BY <1>0, <2>3 DEF Later
  <2>5. lifts <= Later(lifts, now) /\ 0 <= Later(Unnamed(r), now) /\ 0 \in Int
    BY <1>0, <2>3 DEF Later
  <2>6. CASE Limited(r, ResetHere(lifts, at), lifts - Skew, TRUE)
    BY <1>0, <2>2, <2>3, <2>4, <2>6, LimitedKeeps
  <2>7. CASE Limited(r, lifts, lifts, TRUE)
    BY <1>0, <2>2, <2>3, <2>5, <2>7, LimitedKeeps
  <2>8. CASE Limited(r, Unnamed(r), 0, TRUE)
    BY <1>0, <2>2, <2>5, <2>8, LimitedKeeps
  <2>. QED BY <2>1, <2>6, <2>7, <2>8
<1>5. CASE AnswerSecondary(r)
  <2>1. PICK wait \in RetryAfter :
          \/ Limited(r, now + wait, now + wait, TRUE)
          \/ Limited(r, Unnamed(r), 0, TRUE)
    BY <1>5 DEF AnswerSecondary
  <2>2. reader[r].phase = "sent" /\ UNCHANGED <<now, listed>>
    BY <1>5 DEF AnswerSecondary, UnderWay
  <2>3. now + wait \in Int /\ now + wait <= Later(now + wait, now)
    BY <1>0, ConstantTypes DEF Later
  <2>4. 0 \in Int /\ 0 <= Later(Unnamed(r), now)
    BY <1>0 DEF Later
  <2>5. CASE Limited(r, now + wait, now + wait, TRUE)
    BY <1>0, <2>2, <2>3, <2>5, LimitedKeeps
  <2>6. CASE Limited(r, Unnamed(r), 0, TRUE)
    BY <1>0, <2>2, <2>4, <2>6, LimitedKeeps
  <2>. QED BY <2>1, <2>5, <2>6
<1>6. CASE AnswerServerError(r)
  BY <1>0, <1>6, ServerErrorKeeps DEF AnswerServerError, UnderWay
<1>7. CASE Fail(r) \/ GitLabFail(r) \/ Unreadable(r) \/ Unauthorized(r)
  BY <1>0, <1>7, ReturnErrorKeeps DEF Fail, GitLabFail, Unreadable, Unauthorized
<1>8. CASE AnswerPage(r) \/ GitLabPage(r)
  <2>1. /\ reader[r].phase = "sent" /\ Page(r) /\ UNCHANGED <<now, budget, covered>>
    BY <1>8 DEF AnswerPage, GitLabPage, UnderWay
  <2>. QED BY <1>0, <2>1, PageKeeps, ListPageKeeps DEF Readers
<1>9. CASE AnswerOff(r)
  BY <1>0, <1>9, OffKeeps
<1>10. CASE Redirect(r)
  <2>1. UNCHANGED <<now, budget, listed, covered>>
    BY <1>10 DEF Redirect
  <2>2. \/ ReturnError(r, "failed")
        \/ reader' = [reader EXCEPT ![r].token = TokenSent] /\ UNCHANGED <<result, doc>>
    BY <1>10 DEF Redirect
  <2>3. CASE ReturnError(r, "failed")
    BY <1>0, <2>1, <2>3, ReturnErrorKeeps
  <2>4. CASE reader' = [reader EXCEPT ![r].token = TokenSent] /\ UNCHANGED <<result, doc>>
    BY <1>10, <2>4, PhasesKeep
  <2>. QED BY <2>2, <2>3, <2>4
<1>. QED BY <1>1, <1>2, <1>3, <1>4, <1>5, <1>6, <1>7, <1>8, <1>9, <1>10 DEF Read

\* An answer that is dealt with leaves no request under way, and the others as they are.
LEMMA AnsweredType ==
  ASSUME reader \in [Readers -> ReaderType], NEW r \in Readers,
         \/ \E outcome \in {"transient", "failed", "unauthorized"} : ReturnError(r, outcome)
         \/ \E reset \in Int, named \in Int, asked \in BOOLEAN : Limited(r, reset, named, asked)
         \/ ServerError(r) \/ Page(r) \/ EndSection(r)
         \/ Start(r) \/ Wake(r) \/ GitLabRetry(r)
  PROVE  reader'[r].phase # "sent" /\ \A q \in Readers \ {r} : reader'[q] = reader[q]
<1>1. reader[r] \in ReaderType /\ \A section, page : Request(section, page).phase = "ready"
  BY DEF Request
<1>2. [Request(1, 1) EXCEPT !.phase = "returned"].phase = "returned"
  BY DEF Request
<1>3. ASSUME NEW outcome, Return(r, outcome)
      PROVE  reader'[r].phase # "sent" /\ \A q \in Readers \ {r} : reader'[q] = reader[q]
  BY <1>2, <1>3 DEF Return
<1>4. CASE \E outcome \in {"transient", "failed", "unauthorized"} : ReturnError(r, outcome)
  BY <1>3, <1>4 DEF ReturnError
<1>5. CASE \E reset \in Int, named \in Int, asked \in BOOLEAN : Limited(r, reset, named, asked)
  <2>1. PICK reset \in Int, named \in Int, asked \in BOOLEAN : Limited(r, reset, named, asked)
    BY <1>5
  <2>2. CASE Transient(r)
    BY <1>3, <2>2 DEF Transient, ReturnError
  <2>3. CASE ~ Transient(r)
    <3>1. PICK resume :
            reader' = [reader EXCEPT ![r].phase = "waiting", ![r].waits = @ + 1,
                                     ![r].wake = resume, ![r].token = 0, ![r].bypass = TRUE,
                                     ![r].named = named, ![r].asked = asked]
      BY <2>1, <2>3 DEF Limited
    <3>. QED BY <1>1, <3>1 DEF ReaderType
  <2>. QED BY <2>2, <2>3
<1>6. CASE ServerError(r)
  <2>1. CASE ReturnError(r, "transient")
    BY <1>3, <2>1 DEF ReturnError
  <2>2. CASE ~ ReturnError(r, "transient")
    <3>1. PICK wake : reader' = [reader EXCEPT ![r].phase = "backoff", ![r].errors = @ + 1,
                                               ![r].wake = wake, ![r].token = 0]
      BY <1>6, <2>2 DEF ServerError
    <3>. QED BY <1>1, <3>1 DEF ReaderType
  <2>. QED BY <2>1, <2>2
<1>7. CASE EndSection(r)
  BY <1>1, <1>3, <1>7 DEF EndSection
<1>8. CASE Page(r)
  BY <1>1, <1>7, <1>8 DEF Page
<1>9. CASE Start(r) \/ Wake(r) \/ GitLabRetry(r)
  BY <1>1, <1>9 DEF Start, Wake, GitLabRetry, ReaderType
<1>. QED BY <1>4, <1>5, <1>6, <1>7, <1>8, <1>9

\* Every request lasts no longer than its token does: of those under way only the one that is
\* sent, or sent on, is new.
LEMMA ReadKeepsLasts ==
  ASSUME IInv, NEW r \in Readers, Read(r), NEW q \in Readers
  PROVE  Lasts(q)'
<1>0. /\ reader \in [Readers -> ReaderType] /\ Lasts(q) /\ reader[r] \in ReaderType
      /\ now \in Nat /\ RequestTimeout \in Nat /\ token.until \in Nat /\ Unnamed(r) \in Int
      /\ token.until >= now + RequestTimeout \/ token.late
      /\ known \in Int /\ secondary \in Nat /\ limits \subseteq Int /\ Skew \in Int
      /\ reader[r].wake \in Nat
  BY Kinds, UnnamedType, ConstantTypes DEF NetworkInv
<1>1. UNCHANGED <<now, provider, token>>
  BY DEF Read, Start, Wake, StopWaiting, RefuseLocally, Send, AnswerLimited, AnswerSecondary,
         AnswerServerError, Redirect, Fail, GitLabSend, GitLabRetry, GitLabFail, Unreadable,
         Unauthorized, AnswerPage, GitLabPage, AnswerOff, network
<1>2. ASSUME reader'[r].phase # "sent" /\ \A p \in Readers \ {r} : reader'[p] = reader[p]
      PROVE  Lasts(q)'
  BY <1>0, <1>1, <1>2 DEF Lasts
<1>3. CASE Start(r) \/ Wake(r) \/ GitLabRetry(r)
  BY <1>0, <1>2, <1>3, AnsweredType
<1>4. CASE StopWaiting(r)
  BY <1>0, <1>2, <1>4, AnsweredType DEF StopWaiting, Transient
<1>5. CASE RefuseLocally(r)
  <2>. DEFINE lifts == IF now < known THEN known ELSE secondary
  <2>1. lifts \in Int
    BY <1>0
  <2>2. Limited(r, lifts, lifts, FALSE)
    BY <1>5 DEF RefuseLocally
  <2>. HIDE DEF lifts
  <2>. QED BY <1>0, <1>2, <2>1, <2>2, AnsweredType
<1>6. CASE AnswerLimited(r) \/ AnswerSecondary(r)
  <2>1. \E reset \in Int, named \in Int : Limited(r, reset, named, TRUE)
    <3>1. CASE AnswerLimited(r)
      <4>0. PICK at \in Judged(r) : \E lifts \in InForce(at) :
              \/ Limited(r, ResetHere(lifts, at), lifts - Skew, TRUE)
              \/ Limited(r, lifts, lifts, TRUE)
              \/ Limited(r, Unnamed(r), 0, TRUE)
        BY <3>1 DEF AnswerLimited
      <4>1. PICK lifts \in InForce(at) :
              \/ Limited(r, ResetHere(lifts, at), lifts - Skew, TRUE)
              \/ Limited(r, lifts, lifts, TRUE)
              \/ Limited(r, Unnamed(r), 0, TRUE)
        BY <4>0
      <4>2. lifts \in Int /\ ResetHere(lifts, at) \in Int /\ lifts - Skew \in Int /\ 0 \in Int
        BY JudgedType
      <4>. QED BY <1>0, <4>1, <4>2
    <3>2. CASE AnswerSecondary(r)
      <4>1. PICK wait \in RetryAfter :
              \/ Limited(r, now + wait, now + wait, TRUE)
              \/ Limited(r, Unnamed(r), 0, TRUE)
        BY <3>2 DEF AnswerSecondary
      <4>2. now + wait \in Int /\ 0 \in Int
        BY <1>0, ConstantTypes
      <4>. QED BY <1>0, <4>1, <4>2
    <3>. QED BY <1>6, <3>1, <3>2
  <2>. QED BY <1>0, <1>2, <2>1, AnsweredType
<1>7. CASE AnswerServerError(r)
  BY <1>0, <1>2, <1>7, AnsweredType DEF AnswerServerError
<1>8. CASE Fail(r) \/ GitLabFail(r) \/ Unreadable(r) \/ Unauthorized(r)
  BY <1>0, <1>2, <1>8, AnsweredType DEF Fail, GitLabFail, Unreadable, Unauthorized
<1>9. CASE AnswerPage(r) \/ GitLabPage(r) \/ AnswerOff(r)
  BY <1>0, <1>2, <1>9, AnsweredType DEF AnswerPage, GitLabPage, AnswerOff
<1>10. CASE Send(r)
  <2>1. /\ reader'[r].wake = now + RequestTimeout /\ reader'[r].token = token.until
        /\ \A p \in Readers \ {r} : reader'[p] = reader[p]
    BY <1>0, <1>10 DEF Send, TokenSent, ReaderType
  <2>. QED BY <1>0, <1>1, <2>1 DEF Lasts
<1>11. CASE GitLabSend(r)
  <2>1. provider # "github"
    BY <1>11 DEF GitLabSend
  <2>. QED BY <1>1, <2>1 DEF Lasts
<1>12. CASE Redirect(r)
  <2>1. CASE ReturnError(r, "failed")
    BY <1>0, <1>2, <2>1, AnsweredType
  <2>2. CASE reader' = [reader EXCEPT ![r].token = TokenSent]
    <3>1. /\ reader'[r].wake = reader[r].wake /\ reader'[r].token = token.until
          /\ \A p \in Readers \ {r} : reader'[p] = reader[p]
      BY <1>0, <2>2 DEF TokenSent, ReaderType
    <3>. QED BY <1>0, <1>1, <1>12, <3>1 DEF Lasts, Redirect, UnderWay
  <2>. QED BY <1>12, <2>1, <2>2 DEF Redirect
<1>. QED BY <1>3, <1>4, <1>5, <1>6, <1>7, <1>8, <1>9, <1>10, <1>11, <1>12 DEF Read

\* What a reader may return.
LEMMA ResultsLeft ==
  ASSUME NEW r \in Readers, Read(r), ~ Unauthorized(r)
  PROVE  \/ result' = result
         \/ \E outcome \in {"ok", "transient", "failed"} : result' = [result EXCEPT ![r] = outcome]
<1>1. ASSUME NEW outcome \in {"ok", "transient", "failed"}, Return(r, outcome)
      PROVE  \E o \in {"ok", "transient", "failed"} : result' = [result EXCEPT ![r] = o]
  BY <1>1 DEF Return
<1>2. ASSUME NEW outcome \in {"transient", "failed"}, ReturnError(r, outcome)
      PROVE  \E o \in {"ok", "transient", "failed"} : result' = [result EXCEPT ![r] = o]
  BY <1>1, <1>2 DEF ReturnError
<1>3. ASSUME NEW reset, NEW named, NEW asked, Limited(r, reset, named, asked)
      PROVE  result' = result \/ \E o \in {"ok", "transient", "failed"} : result' = [result EXCEPT ![r] = o]
  BY <1>2, <1>3 DEF Limited, Transient
<1>4. CASE Start(r) \/ Wake(r) \/ Send(r) \/ GitLabSend(r) \/ GitLabRetry(r)
  BY <1>4 DEF Start, Wake, Send, GitLabSend, GitLabRetry
<1>5. CASE StopWaiting(r) \/ Fail(r) \/ GitLabFail(r) \/ Unreadable(r) \/ Redirect(r)
  BY <1>2, <1>5 DEF StopWaiting, Fail, GitLabFail, Unreadable, Redirect, Transient
<1>6. CASE RefuseLocally(r)
  BY <1>3, <1>6 DEF RefuseLocally
<1>7. CASE AnswerLimited(r) \/ AnswerSecondary(r)
  BY <1>3, <1>7 DEF AnswerLimited, AnswerSecondary
<1>8. CASE AnswerServerError(r)
  BY <1>2, <1>8 DEF AnswerServerError, ServerError
<1>9. CASE AnswerPage(r) \/ GitLabPage(r) \/ AnswerOff(r)
  BY <1>1, <1>9 DEF AnswerPage, GitLabPage, AnswerOff, Page, EndSection
<1>. QED BY <1>4, <1>5, <1>6, <1>7, <1>8, <1>9 DEF Read

\* A reader returns "unauthorized" only for a token that had not long to go in the file.
LEMMA ReadKeepsNetwork ==
  ASSUME IInv, NEW r \in Readers, Read(r)
  PROVE  NetworkInv'
<1>0. /\ NetworkInv /\ result \in [Readers -> {"none", "ok", "transient", "failed", "unauthorized"}]
      /\ reader \in [Readers -> ReaderType] /\ reader[r] \in ReaderType
      /\ now \in Nat /\ Skew \in Int /\ Window \in Nat /\ RequestTimeout \in Nat
      /\ limits \subseteq Int /\ known \in Int /\ secondary \in Nat
  BY Kinds, ConstantTypes DEF Shapes
<1>1. UNCHANGED <<now, provider, stopped, token>>
  BY DEF Read, Start, Wake, StopWaiting, RefuseLocally, Send, AnswerLimited, AnswerSecondary,
         AnswerServerError, Redirect, Fail, GitLabSend, GitLabRetry, GitLabFail, Unreadable,
         Unauthorized, AnswerPage, GitLabPage, AnswerOff, network
<1>2. limits' \subseteq Int /\ known' \in Int /\ secondary' \in Nat
  <2>1. CASE UNCHANGED <<limits, known, secondary>>
    BY <1>0, <2>1
  <2>2. CASE AnswerLimited(r)
    <3>1. PICK at \in Judged(r) : \E lifts \in InForce(at) : known' = lifts \/ known' = 0
      BY <2>2 DEF AnswerLimited
    <3>2. known' \in Int
      BY <3>1, JudgedType
    <3>3. limits' = limits /\ secondary' = secondary
      BY <2>2 DEF AnswerLimited
    <3>. QED BY <1>0, <3>2, <3>3
  <2>3. CASE AnswerSecondary(r)
    <3>1. \A wait \in RetryAfter : now + wait \in Nat
      BY <1>0, ConstantTypes
    <3>2. limits' = limits /\ known' = 0
      BY <2>3 DEF AnswerSecondary
    <3>3. secondary' = secondary \/ \E wait \in RetryAfter : secondary' = now + wait
      BY <2>3 DEF AnswerSecondary
    <3>. QED BY <1>0, <3>1, <3>2, <3>3
  <2>4. CASE AnswerServerError(r) \/ Fail(r) \/ Unauthorized(r)
    <3>1. known' \in {known, 0} /\ limits' = limits /\ secondary' = secondary
      BY <2>4 DEF AnswerServerError, Fail, Unauthorized
    <3>. QED BY <1>0, <3>1
  <2>5. CASE AnswerPage(r) \/ AnswerOff(r)
    <3>1. Rate /\ secondary' = secondary
      BY <2>5 DEF AnswerPage, AnswerOff
    <3>2. now + Skew + Window \in Int
      BY <1>0
    <3>3. (known' = 0 \/ known' = now + Skew + Window)
          /\ (limits' = limits \/ limits' = limits \cup {now + Skew + Window})
      BY <3>1 DEF Rate, SpendLast
    <3>4. known' \in Int
      BY <3>2, <3>3
    <3>5. limits' \subseteq Int
      BY <1>0, <3>2, <3>3
    <3>. QED BY <1>0, <3>1, <3>4, <3>5
  <2>. QED BY <2>1, <2>2, <2>3, <2>4, <2>5 DEF Read, Start, Wake, StopWaiting, RefuseLocally,
         Send, Redirect, GitLabSend, GitLabRetry, GitLabFail, Unreadable, GitLabPage, network
<1>3. \A q \in Readers : Lasts(q)'
  BY ReadKeepsLasts
<1>4. (\E q \in Readers : result'[q] = "unauthorized") => token.late
  <2>1. CASE Unauthorized(r)
    <3>1. PICK at \in Judged(r) : at > reader[r].token
      BY <2>1 DEF Unauthorized
    <3>2. reader[r].wake \in Nat /\ reader[r].token \in Nat /\ at \in Int /\ at <= now
      BY <1>0, <3>1 DEF ReaderType, Judged
    <3>3. Lasts(r) /\ reader[r].phase = "sent" /\ provider = "github"
      BY <1>0, <2>1 DEF NetworkInv, Unauthorized, UnderWay
    <3>. QED BY <1>0, <3>1, <3>2, <3>3 DEF Lasts
  <2>2. CASE ~ Unauthorized(r)
    <3>1. \/ result' = result
          \/ \E outcome \in {"ok", "transient", "failed"} : result' = [result EXCEPT ![r] = outcome]
      BY <2>2, ResultsLeft
    <3>2. \A q \in Readers : result'[q] = "unauthorized" => result[q] = "unauthorized"
      BY <1>0, <3>1
    <3>. QED BY <1>0, <3>2 DEF NetworkInv
  <2>. QED BY <2>1, <2>2
<1>. QED BY <1>0, <1>1, <1>2, <1>3, <1>4 DEF NetworkInv

\* The clock: a token in the file and the requests under way have less to go.
LEMMA TickKeepsNetwork ==
  ASSUME IInv, Tick
  PROVE  NetworkInv'
<1>1. /\ NetworkInv /\ now \in Nat /\ RequestTimeout \in Nat /\ now' = now + 1
      /\ reader \in [Readers -> ReaderType]
      /\ UNCHANGED <<provider, stopped, limits, known, secondary, reader, result>>
  BY Kinds, ConstantTypes DEF Tick
<1>2. /\ token' = [until |-> token.until, late |-> token'.late] /\ token'.late \in BOOLEAN
      /\ token'.late <=> token.late \/ token.until < now' + RequestTimeout
  <2>1. token \in [until : Nat, late : BOOLEAN]
    BY <1>1 DEF NetworkInv
  <2>2. token' = [token EXCEPT !.late = @ \/ token.until < now' + RequestTimeout]
    BY DEF Tick
  <2>. QED BY <2>1, <2>2, Zenon
<1>3. token'.until = token.until /\ token.until \in Nat
  BY <1>1, <1>2 DEF NetworkInv
<1>4. ASSUME NEW r \in Readers
      PROVE  Lasts(r)'
  <2>1. Lasts(r) /\ reader[r].wake \in Nat
    BY <1>1 DEF NetworkInv, ReaderType
  <2>2. provider = "github" /\ reader[r].phase = "sent" => now < reader[r].wake
    BY DEF Tick
  <2>. QED BY <1>1, <1>2, <2>1, <2>2 DEF Lasts
<1>5. token' \in [until : Nat, late : BOOLEAN]
  BY <1>2, <1>3
<1>6. token'.until >= now' + RequestTimeout \/ token'.late
  BY <1>1, <1>2, <1>3
<1>7. (\E r \in Readers : result'[r] = "unauthorized") => token'.late
  BY <1>1, <1>2 DEF NetworkInv
<1>. QED BY <1>1, <1>4, <1>5, <1>6, <1>7 DEF NetworkInv

\* A token is replaced by one that lasts longer.
LEMMA ReplaceKeepsNetwork ==
  ASSUME IInv, ReplaceToken
  PROVE  NetworkInv'
<1>1. /\ NetworkInv /\ now \in Nat /\ TokenLife \in Nat /\ RequestTimeout \in Nat
      /\ TokenLife >= RequestTimeout
      /\ UNCHANGED <<provider, stopped, now, limits, known, secondary, reader, result>>
  BY SourceAssumption DEF IInv, NetworkInv, ReadersInv, Shapes, ReplaceToken
<1>2. /\ token' = [token EXCEPT !.until = now + TokenLife]
      /\ token \in [until : Nat, late : BOOLEAN]
  BY <1>1 DEF ReplaceToken, NetworkInv
<1>3. token'.until = now + TokenLife /\ token'.late = token.late
  BY <1>2
<1>4. now + TokenLife \in Nat /\ now + TokenLife >= now + RequestTimeout
  BY <1>1
<1>5. token' \in [until : Nat, late : BOOLEAN]
  BY <1>2, <1>4
<1>6. \A r \in Readers : Lasts(r)'
  BY <1>1, <1>3 DEF NetworkInv, Lasts
<1>. QED BY <1>1, <1>3, <1>4, <1>5, <1>6 DEF NetworkInv

\* The invariant holds in every state of every run.
THEOREM Invariance == Spec => []IInv
<1>1. ASSUME IInv, Next
      PROVE  IInv'
  <2>. USE <1>1
  <2>1. ASSUME NEW r \in Readers, Read(r)
        PROVE  IInv'
    BY <2>1, ReadKeepsReaders, ReadKeepsNetwork DEF IInv
  <2>2. CASE Tick
    BY <2>2, TickKeeps, TickKeepsNetwork DEF IInv
  <2>3. CASE Stop \/ SpendLimit \/ ReplaceToken
    <3>1. UNCHANGED <<now, budget, reader, result, doc, listed, covered>>
      BY <2>3 DEF Stop, SpendLimit, ReplaceToken
    <3>2. ReadersInv'
      BY <3>1, SameReaders DEF IInv
    <3>3. CASE Stop
      BY <3>2, <3>3 DEF IInv, NetworkInv, Lasts, Stop, network
    <3>4. CASE SpendLimit
      <4>1. limits' \subseteq Int
        <5>1. now + Skew + Window \in Int /\ limits \subseteq Int
          BY SourceAssumption DEF IInv, NetworkInv, ReadersInv, Shapes
        <5>. QED BY <3>4, <5>1 DEF SpendLimit, SpendLast
      <4>. QED BY <3>2, <3>4, <4>1 DEF IInv, NetworkInv, Lasts, SpendLimit
    <3>5. CASE ReplaceToken
      BY <3>2, <3>5, ReplaceKeepsNetwork DEF IInv
    <3>. QED BY <2>3, <3>3, <3>4, <3>5
  <2>. QED BY <2>1, <2>2, <2>3 DEF Next
<1>2. ASSUME IInv, UNCHANGED vars
      PROVE  IInv'
  BY <1>2, SameReaders DEF vars, IInv, NetworkInv, Lasts
<1>. QED BY <1>1, <1>2, Initially, PTL DEF Spec

\* Each property follows from the invariant.
THEOREM TypeCorrect == Spec => []TypeOK
<1>1. IInv => TypeOK
  BY DEF IInv, ReadersInv, Shapes, NetworkInv, TypeOK, ReaderType, Phases, DocType
<1>. QED BY <1>1, Invariance, PTL

\* The budget is the time the run had something waiting, counted once however
\* many requests waited through it.
THEOREM ChargedOnce == Spec => []BudgetIsTimeWaited
<1>1. IInv => BudgetIsTimeWaited
  <2>. SUFFICES ASSUME IInv
                PROVE  BudgetIsTimeWaited
    OBVIOUS
  <2>1. budget.spent \in 0..MaxWait /\ MaxWait \in Nat
    BY SourceAssumption DEF IInv, ReadersInv, Shapes
  <2>2. budget.spent <= MaxWait
    BY <2>1
  <2>. QED BY <2>2 DEF IInv, ReadersInv, Waits, BudgetIsTimeWaited
<1>. QED BY <1>1, Invariance, PTL

\* No request that waited is sent again before what it waited for is over, by the clock it was
\* named on: GitHub's for a refusal with a Date, the host's for any other.
THEOREM ResetWaitedOut == Spec => []LimitWaitedOut
<1>1. IInv => LimitWaitedOut
  BY DEF IInv, ReadersInv, Waits, LimitWaitedOut
<1>. QED BY <1>1, Invariance, PTL

\* Between two waits of a request GitHub was asked.
THEOREM AskedInBetween == Spec => []AsksBetweenWaits
<1>1. IInv => AsksBetweenWaits
  BY DEF IInv, ReadersInv, Waits, AsksBetweenWaits
<1>. QED BY <1>1, Invariance, PTL

\* A list or a document that comes without an error is whole.
THEOREM WholeOrAnError == Spec => []AnswersAreWhole
<1>1. IInv => AnswersAreWhole
  BY DEF IInv, ReadersInv, List, Kept, Documents, Whole, AnswersAreWhole
<1>. QED BY <1>1, Invariance, PTL

\* No request to the API is refused for its token, with a file that is replaced in time.
THEOREM TokenOutlasts == Spec => []TokenOutlastsRequest
<1>1. IInv => TokenOutlastsRequest
  BY DEF IInv, NetworkInv, TokenOutlastsRequest
<1>. QED BY <1>1, Invariance, PTL
=============================================================================
