------------------------------- MODULE Source -------------------------------
(***************************************************************************)
(* How a run reads its source, internal/source: the list of repositories,  *)
(* page by page, and then the metadata of each repository the filter       *)
(* keeps, several at a time, section by section.                           *)
(*                                                                         *)
(* GitHub's source waits out rate limits on a budget and a deadline that   *)
(* all its requests share, and tries a 5xx again. GitLab's client sends a  *)
(* request again by itself. A GitHub request carries the token that was in *)
(* the token file when it was sent, which somebody else replaces during    *)
(* the run, and is judged by GitHub some time later.                       *)
(*                                                                         *)
(* Time is the host's clock in ticks of a second; GitHub's runs Skew ahead *)
(* of it.                                                                  *)
(***************************************************************************)
EXTENDS Integers, Sequences, FiniteSets, FiniteSetsExt

CONSTANTS
  Repos,               \* the repositories the credential can see
  PageOf,              \* PageOf[r]: the page of the list r is on
  Include, Exclude,    \* the filter
  Providers,           \* the sources a run may be configured with
  Pages,               \* Pages[s]: how many pages section s of a repository has
  API, Origins,        \* the scheme and host requests go to, and those a redirect may name
  Lister,              \* the request that lists, beside one per repository
  Deadline,            \* when the run's context ends
  MaxWait,             \* waitBudget.max
  RateLimitWaits, ServerErrorAttempts, Slack, Jitter, UnnamedWait, Backoff,
  RequestTimeout,      \* how long the client lets a request to GitHub take
  TokenLife,           \* how long GitHub takes a token that was just minted
  Window,              \* how long GitHub's primary limit lasts once it is spent
  RetryAfter,          \* what a secondary limit may name, 0 for nothing
  Skew,                \* GitHub's clock less the host's
  MaxLimits            \* bound: primary limits spent

Readers == Repos \cup {Lister}
Sections == DOMAIN Pages

ASSUME SourceAssumption ==
  /\ Lister \notin Repos
  /\ Providers \subseteq {"github", "gitlab"}
  /\ Deadline \in Nat /\ MaxWait \in Nat
  /\ RateLimitWaits \in Nat /\ ServerErrorAttempts \in Nat \ {0}
  /\ Slack \in Nat /\ Jitter \in Nat /\ UnnamedWait \in Nat /\ Backoff \in Nat
  /\ RequestTimeout \in Nat /\ TokenLife \in Nat /\ TokenLife >= RequestTimeout
  /\ Window \in Nat \ {0} /\ RetryAfter \subseteq Nat /\ Skew \in Int
  /\ MaxLimits \in Nat
  /\ Pages \in Seq(Nat \ {0}) /\ Pages # <<>>
  /\ PageOf \in [Repos -> Nat \ {0}]
  /\ \E last \in Repos : \A r \in Repos : PageOf[r] <= PageOf[last]

\* The waits that double are whole: of the operator ^ the prover knows nothing.
ASSUME PowersAssumption == \A k \in 0..(RateLimitWaits + ServerErrorAttempts) : 2^k \in Nat

VARIABLES
  provider, \* the configured source
  now,
  stopped,  \* the run was told to stop
  limits,   \* when GitHub's primary limits lift, on its clock: those spent so far
  known,    \* go-github's memory of a primary limit: it refuses requests until this clock says so
  secondary,\* its memory of a secondary limit
  token,    \* until when GitHub takes the token in the token file, and whether the file was ever
            \* left with a token that had less to go than a request may take
  budget,   \* waitBudget: what is spent, and when the latest wait charged ends
  reader,   \* the request each reader is at
  result,   \* what each reader returned
  doc,      \* doc[r]: the pages r's document holds of each section, and the sections marked off
  listed,   \* the repositories the list came to
  covered   \* history: the ticks some wait was charged for

vars == <<provider, now, stopped, limits, known, secondary, token, budget, reader, result,
          doc, listed, covered>>
network == <<limits, known, secondary, token>>

Later(s, t) == IF s > t THEN s ELSE t

\* keep: exclude wins, and an empty include keeps all.
Keep(r) ==
  /\ r \notin Exclude
  /\ Include = {} \/ r \in Include

\* How many pages the reader's current list has: the repositories', or its section's.
LastPage(r) ==
  IF r = Lister
  THEN Max({PageOf[s] : s \in Repos})
  ELSE Pages[reader[r].section]

Done == stopped \/ now >= Deadline

----------------------------------------------------------------------------
(* call: one request through its waits and its retries.                    *)

\* wake: when its sleep ends or, once it is sent, the time the client gives it. token: until
\* when GitHub takes the token it was sent with. History: named, until when what it last waited
\* for was named to last, and asked, whether it was GitHub that named it.
Request(section, page) ==
  [phase |-> "ready", section |-> section, page |-> page, waits |-> 0, errors |-> 0,
   wake |-> 0, token |-> 0, bypass |-> FALSE, named |-> 0, asked |-> TRUE]

\* A document before anything is read of it, and after it failed.
Nothing == [pages |-> [s \in Sections |-> {}], off |-> {}]

Init ==
  /\ provider \in Providers
  /\ now = 0
  /\ stopped = FALSE
  /\ limits = {}
  /\ known = 0 /\ secondary = 0
  /\ \E until \in RequestTimeout..TokenLife : token = [until |-> until, late |-> FALSE]
  /\ budget = [spent |-> 0, until |-> 0]
  /\ reader = [r \in Readers |-> [Request(1, 1) EXCEPT !.phase = "idle"]]
  /\ result = [r \in Readers |-> "none"]
  /\ doc = [r \in Repos |-> Nothing]
  /\ listed = {}
  /\ covered = {}

\* A repository is read once the list is whole and names it.
Start(r) ==
  /\ reader[r].phase = "idle"
  /\ ~Done
  /\ r # Lister => result[Lister] = "ok" /\ r \in listed
  /\ reader' = [reader EXCEPT ![r].phase = "ready"]
  /\ UNCHANGED <<provider, now, stopped, network, budget, result, doc, listed, covered>>

Return(r, outcome) ==
  /\ reader' = [reader EXCEPT ![r] = [Request(1, 1) EXCEPT !.phase = "returned"]]
  /\ result' = [result EXCEPT ![r] = outcome]

\* What was read of a document is dropped with the error.
ReturnError(r, outcome) ==
  /\ Return(r, outcome)
  /\ doc' = [s \in Repos |-> IF s = r THEN Nothing ELSE doc[s]]

Transient(r) == ReturnError(r, "transient") /\ UNCHANGED <<budget, covered>>

\* Mutant: every request's wait is charged in full.
FaultyCharge(resume) == resume - now

\* waitBudget.reserve: only the part of a wait after every wait already charged is new.
Charge(resume) == Later(resume - Later(now, budget.until), 0)

\* Mutant: the budget is charged and not looked at.
FaultyReserve(resume) ==
  /\ budget' = [spent |-> budget.spent + Charge(resume), until |-> Later(resume, budget.until)]
  /\ covered' = covered \cup (now .. resume - 1)

Reserve(resume) ==
  /\ budget.spent + Charge(resume) <= MaxWait
  /\ budget' = [spent |-> budget.spent + Charge(resume), until |-> Later(resume, budget.until)]
  /\ covered' = covered \cup (now .. resume - 1)

\* A refusal for a limit that lifts at reset, on the host's clock: wait for it, or fail.
\* History: when, by this clock, it was named to lift, and whether it was GitHub that named it.
Limited(r, reset, named, asked) ==
  IF reader[r].waits = RateLimitWaits
  THEN Transient(r)
  ELSE \E j \in 0..Jitter :
         LET resume == Later(reset, now) + Slack + j IN
         \/ /\ resume <= Deadline
            /\ Reserve(resume)
            /\ reader' = [reader EXCEPT ![r].phase = "waiting", ![r].waits = @ + 1,
                                        ![r].wake = resume, ![r].token = 0, ![r].bypass = TRUE,
                                        ![r].named = named, ![r].asked = asked]
            /\ UNCHANGED <<result, doc>>
         \/ /\ resume > Deadline \/ budget.spent + Charge(resume) > MaxWait
            /\ Transient(r)

\* limitLifts, for a limit with no time named: longer each time it is met.
Unnamed(r) == now + UnnamedWait * 2^reader[r].waits

\* A server error: tried again after a while, ServerErrorAttempts times in all.
ServerError(r) ==
  IF reader[r].errors + 1 = ServerErrorAttempts
  THEN ReturnError(r, "transient")
  ELSE /\ \E j \in 0..Jitter :
            reader' = [reader EXCEPT ![r].phase = "backoff", ![r].errors = @ + 1,
                                     ![r].wake = now + Backoff * 2^reader[r].errors + j,
                                     ![r].token = 0]
       /\ UNCHANGED <<result, doc>>

\* Mutant: the retry goes by the client's memory of the limit.
FaultyWake(r) ==
  /\ reader[r].phase \in {"waiting", "backoff"}
  /\ now >= reader[r].wake
  /\ reader' = [reader EXCEPT ![r].phase = "ready", ![r].wake = 0, ![r].bypass = FALSE,
                              ![r].asked = TRUE]
  /\ UNCHANGED <<provider, now, stopped, network, budget, result, doc, listed, covered>>

\* sleepContext ends by the timer.
Wake(r) ==
  /\ reader[r].phase \in {"waiting", "backoff"}
  /\ now >= reader[r].wake
  /\ reader' = [reader EXCEPT ![r].phase = "ready", ![r].wake = 0, ![r].asked = TRUE]
  /\ UNCHANGED <<provider, now, stopped, network, budget, result, doc, listed, covered>>

\* sleepContext ends because the run is over.
StopWaiting(r) ==
  /\ reader[r].phase \in {"waiting", "backoff"}
  /\ Done
  /\ Transient(r)
  /\ UNCHANGED <<provider, now, stopped, network, listed>>

----------------------------------------------------------------------------
(* A request is sent and, some time later, answered. Whoever sends reads   *)
(* the token file first, and go-github sends nothing while it remembers a  *)
(* limit. GitHub judges a request at some time while it is under way.      *)

Ready(r) == reader[r].phase = "ready" /\ ~Done

\* The client remembers no limit, or is told not to go by what it remembers.
Forgotten(r) == reader[r].bypass \/ now >= Later(known, secondary)

\* A refusal without asking: it has no Date, and the reset is taken on the host's clock.
RefuseLocally(r) ==
  /\ reader[r].phase = "ready"
  /\ provider = "github"
  /\ ~Forgotten(r)
  /\ LET lifts == IF now < known THEN known ELSE secondary IN
       Limited(r, lifts, lifts, FALSE)
  /\ UNCHANGED <<provider, now, stopped, network, listed>>

\* Mutant: the token a source was started with, when that was the oldest it may be.
FaultyTokenSent == RequestTimeout

\* tokenTransport: the token that is in the file now.
TokenSent == token.until

Send(r) ==
  /\ Ready(r)
  /\ provider = "github" /\ Forgotten(r)
  /\ reader' = [reader EXCEPT ![r].phase = "sent", ![r].wake = now + RequestTimeout,
                              ![r].token = TokenSent, ![r].named = 0]
  /\ UNCHANGED <<provider, now, stopped, network, budget, result, doc, listed, covered>>

\* tokenFile.read: the file is gone, no regular file, too large, empty, or holds what is no token.
Unreadable(r) ==
  /\ Ready(r)
  /\ provider = "github" /\ Forgotten(r)
  /\ ReturnError(r, "failed")
  /\ UNCHANGED <<provider, now, stopped, network, budget, listed, covered>>

UnderWay(r) == reader[r].phase = "sent" /\ provider = "github" /\ ~Done

\* When GitHub may have judged a request that is answered now.
Judged(r) == reader[r].wake - RequestTimeout .. now

\* The primary limit that refuses requests at a time of the host's clock, if one does.
InForce(at) == {lifts \in limits : lifts - Window <= at + Skew /\ at + Skew < lifts}

\* What is left of the primary limit is spent.
SpendLast ==
  /\ InForce(now) = {}
  /\ Cardinality(limits) < MaxLimits
  /\ limits' = limits \cup {now + Skew + Window}

\* go-github remembers the rate of the answer it had last: nothing, as after a 5xx and a 401, or
\* a limit that is spent.
Rate ==
  \/ known' = 0 /\ UNCHANGED limits
  \/ SpendLast /\ known' = now + Skew + Window

\* Mutant: GitHub's reset, taken as a time on this clock.
FaultyResetHere(lifts, at) == lifts

\* limitLifts, for a reset in a refusal with a Date, which says when GitHub judged it, on its
\* clock: the wait is what was left by then.
ResetHere(lifts, at) ==
  LET date == at + Skew IN now + (lifts - date)

\* GitHub's primary limit: the refusal names the reset, with a Date or without, or names nothing.
AnswerLimited(r) ==
  /\ UnderWay(r)
  /\ \E at \in Judged(r) :
       /\ at <= reader[r].token
       /\ \E lifts \in InForce(at) :
            \/ known' = lifts /\ Limited(r, ResetHere(lifts, at), lifts - Skew, TRUE)
            \/ known' = lifts /\ Limited(r, lifts, lifts, TRUE)
            \/ known' = 0 /\ Limited(r, Unnamed(r), 0, TRUE)
  /\ UNCHANGED <<provider, now, stopped, limits, secondary, token, listed>>

\* A secondary limit, whose refusal names how long to wait, or a reset that go-github takes on
\* the host's clock, or nothing. go-github remembers it as long.
AnswerSecondary(r) ==
  /\ UnderWay(r)
  /\ known' = 0
  /\ \E wait \in RetryAfter :
       IF wait > 0
       THEN secondary' = now + wait /\ Limited(r, now + wait, now + wait, TRUE)
       ELSE UNCHANGED secondary /\ Limited(r, Unnamed(r), 0, TRUE)
  /\ UNCHANGED <<provider, now, stopped, limits, token, listed>>

AnswerServerError(r) ==
  /\ UnderWay(r)
  /\ known' = 0
  /\ ServerError(r)
  /\ UNCHANGED <<provider, now, stopped, limits, secondary, token, budget, listed, covered>>

\* Anything else is not waited for: another refusal, a list that is no list, no answer in the
\* time the client gives it, the end of the run.
Fail(r) ==
  /\ provider = "github"
  /\ reader[r].phase = "sent" \/ (reader[r].phase = "ready" /\ Done /\ Forgotten(r))
  /\ known' \in {known, 0}
  /\ ReturnError(r, "failed")
  /\ UNCHANGED <<provider, now, stopped, limits, secondary, token, budget, listed, covered>>

\* 401, for a token that is no longer taken.
Unauthorized(r) ==
  /\ UnderWay(r)
  /\ \E at \in Judged(r) : at > reader[r].token
  /\ known' = 0
  /\ ReturnError(r, "unauthorized")
  /\ UNCHANGED <<provider, now, stopped, limits, secondary, token, budget, listed, covered>>

\* KeepTLS, StayOnAPI: a hop of a redirect that is refused before anything is sent.
RefusedHop(to) ==
  \/ API.scheme = "https" /\ to.scheme # "https"
  \/ to # API

\* A redirect off the API ends the request at once. One within it is followed, in the time the
\* request has left, and the token file is read again for it.
Redirect(r) ==
  /\ UnderWay(r)
  /\ \E to \in Origins :
       IF RefusedHop(to)
       THEN ReturnError(r, "failed")
       ELSE reader' = [reader EXCEPT ![r].token = TokenSent] /\ UNCHANGED <<result, doc>>
  /\ UNCHANGED <<provider, now, stopped, network, budget, listed, covered>>

GitLabSend(r) ==
  /\ Ready(r)
  /\ provider = "gitlab"
  /\ reader' = [reader EXCEPT ![r].phase = "sent"]
  /\ UNCHANGED <<provider, now, stopped, network, budget, result, doc, listed, covered>>

\* client-go sends a request that came back with a 429 or a 5xx again, after a pause.
GitLabRetry(r) ==
  /\ reader[r].phase = "sent"
  /\ provider = "gitlab" /\ ~Done
  /\ reader' = [reader EXCEPT ![r].phase = "ready"]
  /\ UNCHANGED <<provider, now, stopped, network, budget, result, doc, listed, covered>>

\* Any error client-go returns ends the list or the document, a redirect off the API at once.
GitLabFail(r) ==
  /\ provider = "gitlab"
  /\ reader[r].phase = "sent" \/ (reader[r].phase = "ready" /\ Done)
  /\ ReturnError(r, "failed")
  /\ UNCHANGED <<provider, now, stopped, network, budget, listed, covered>>

EndSection(r) ==
  IF r # Lister /\ reader[r].section < Len(Pages)
  THEN reader' = [reader EXCEPT ![r] = Request(reader[r].section + 1, 1)] /\ UNCHANGED result
  ELSE Return(r, "ok")

\* collect: a page, and with the last one the list is whole.
Page(r) ==
  LET q == reader[r] IN
  /\ IF q.page < LastPage(r)
     THEN reader' = [reader EXCEPT ![r] = Request(q.section, q.page + 1)] /\ UNCHANGED result
     ELSE EndSection(r)
  /\ IF r = Lister
     THEN /\ listed' = listed \cup {s \in Repos : PageOf[s] = q.page /\ Keep(s)}
          /\ UNCHANGED doc
     ELSE /\ doc' = [doc EXCEPT ![r].pages[q.section] = @ \cup {q.page}]
          /\ UNCHANGED listed

\* GitHub answers with a page while the limit is not spent, and perhaps spends the last of it.
AnswerPage(r) ==
  /\ UnderWay(r)
  /\ \E at \in Judged(r) : at <= reader[r].token /\ InForce(at) = {}
  /\ Rate
  /\ Page(r)
  /\ UNCHANGED <<provider, now, stopped, secondary, token, budget, covered>>

\* GitLab's source reads the same way, with no section that may be off.
GitLabPage(r) ==
  /\ reader[r].phase = "sent" /\ ~Done
  /\ provider = "gitlab"
  /\ Page(r)
  /\ UNCHANGED <<provider, now, stopped, network, budget, covered>>

\* Mutant: a section that turns out to be off keeps the pages already read.
FaultyAnswerOff(r) ==
  /\ UnderWay(r)
  /\ r # Lister /\ reader[r].section > 1
  /\ Rate
  /\ doc' = [doc EXCEPT ![r].off = @ \cup {reader[r].section}]
  /\ EndSection(r)
  /\ UNCHANGED <<provider, now, stopped, secondary, token, budget, listed, covered>>

\* section, turnedOff: a 404 or 410 is a section turned off, stored empty and named. The
\* first section is the repository itself, whose 404 is a failure.
AnswerOff(r) ==
  /\ UnderWay(r)
  /\ r # Lister /\ reader[r].section > 1
  /\ Rate
  /\ doc' = [doc EXCEPT ![r].pages[reader[r].section] = {}, ![r].off = @ \cup {reader[r].section}]
  /\ EndSection(r)
  /\ UNCHANGED <<provider, now, stopped, secondary, token, budget, listed, covered>>

----------------------------------------------------------------------------
(* Around the run, until it is over.                                       *)

\* The client ends a request to GitHub that has taken its time (Fail), so no time passes over
\* one. With it a token comes nearer to its end.
Tick ==
  /\ ~Done
  /\ \A r \in Readers : provider = "github" /\ reader[r].phase = "sent" => now < reader[r].wake
  /\ now' = now + 1
  /\ token' = [token EXCEPT !.late = @ \/ token.until < now' + RequestTimeout]
  /\ UNCHANGED <<provider, stopped, limits, known, secondary, budget, reader, result, doc,
                 listed, covered>>

Stop ==
  /\ ~Done
  /\ stopped' = TRUE
  /\ UNCHANGED <<provider, now, network, budget, reader, result, doc, listed, covered>>

\* The installation's other requests, another run's among them, spend GitHub's primary limit.
SpendLimit ==
  /\ provider = "github" /\ ~Done
  /\ SpendLast
  /\ UNCHANGED <<provider, now, stopped, known, secondary, token, budget, reader, result, doc,
                 listed, covered>>

\* Whoever mints replaces the token in the file. GitHub takes the old one until its own end.
ReplaceToken ==
  /\ provider = "github" /\ ~Done
  /\ token.until < now + TokenLife
  /\ token' = [token EXCEPT !.until = now + TokenLife]
  /\ UNCHANGED <<provider, now, stopped, limits, known, secondary, budget, reader, result, doc,
                 listed, covered>>

Read(r) ==
  \/ Start(r) \/ Wake(r) \/ StopWaiting(r)
  \/ RefuseLocally(r) \/ Send(r) \/ Unreadable(r)
  \/ AnswerLimited(r) \/ AnswerSecondary(r) \/ AnswerServerError(r) \/ Redirect(r)
  \/ Fail(r) \/ Unauthorized(r) \/ AnswerPage(r) \/ AnswerOff(r)
  \/ GitLabSend(r) \/ GitLabRetry(r) \/ GitLabFail(r) \/ GitLabPage(r)

Next ==
  \/ \E r \in Readers : Read(r)
  \/ Tick \/ Stop \/ SpendLimit \/ ReplaceToken

Spec == Init /\ [][Next]_vars

----------------------------------------------------------------------------
(* Properties.                                                             *)

\* Every field holds a value of its kind.
TypeOK ==
  /\ provider \in Providers
  /\ now \in 0..Deadline /\ stopped \in BOOLEAN
  /\ limits \subseteq Int /\ known \in Int /\ secondary \in Nat
  /\ token \in [until : Nat, late : BOOLEAN]
  /\ budget \in [spent : 0..MaxWait, until : 0..Deadline]
  /\ reader \in [Readers -> [phase : {"idle", "ready", "sent", "waiting", "backoff", "returned"},
                             section : Nat, page : Nat, waits : 0..RateLimitWaits,
                             errors : 0..ServerErrorAttempts - 1, wake : Nat, token : Nat,
                             bypass : BOOLEAN, named : Int, asked : BOOLEAN]]
  /\ result \in [Readers -> {"none", "ok", "transient", "failed", "unauthorized"}]
  /\ doc \in [Repos -> [pages : [Sections -> SUBSET Nat], off : SUBSET Sections]]
  /\ listed \subseteq Repos
  /\ covered \subseteq 0..Deadline

\* waitBudget: what is spent is the time the run had something waiting, counted once however
\* many requests waited through it, and no request waits at a time that was not charged.
BudgetIsTimeWaited ==
  /\ budget.spent = Cardinality(covered)
  /\ budget.spent <= MaxWait
  /\ \A r \in Readers :
       reader[r].phase = "waiting" => now .. reader[r].wake - 1 \subseteq covered

\* limitLifts: a request that waited is not sent again before what it waited for is over: a
\* reset GitHub named in a refusal with a Date, by GitHub's clock, whichever of the two clocks
\* is ahead; a reset named without one, or remembered by go-github, and a secondary limit, by
\* the host's.
LimitWaitedOut ==
  \A r \in Readers : reader[r].phase = "ready" => now >= reader[r].named

\* call, BypassRateLimitCheck: after a wait the client's memory of the limit no longer answers,
\* so that every wait but the first is for something GitHub said to this request.
AsksBetweenWaits ==
  \A r \in Readers : reader[r].phase = "waiting" /\ reader[r].waits > 1 => reader[r].asked

\* FetchMetadata, ListRepos: an answer without an error is whole: each section with all its
\* pages or named as off and empty, and the list with every repository the filter keeps.
AnswersAreWhole ==
  /\ result[Lister] = "ok" => listed = {r \in Repos : Keep(r)}
  /\ \A r \in Repos : result[r] = "ok" =>
       \A s \in Sections :
         doc[r].pages[s] = (IF s \in doc[r].off THEN {} ELSE 1..Pages[s])

\* tokenTransport and the client's Timeout: while whoever mints replaces the file before its
\* token has less to go than a request may take, GitHub refuses no request to the API for its
\* token, however long that waited and whatever the file was replaced with while it was under
\* way. What git and git-lfs send with the token they began with is not among these requests.
TokenOutlastsRequest == (\E r \in Readers : result[r] = "unauthorized") => token.late
=============================================================================
