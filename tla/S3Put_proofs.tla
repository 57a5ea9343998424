---------------------------- MODULE S3Put_proofs ----------------------------
(***************************************************************************)
(* Proofs about S3Put, for any number of calls on a key, of any sizes and  *)
(* retentions, on a store of either sort.                                  *)
(***************************************************************************)
EXTENDS S3Put, TLAPS

-----------------------------------------------------------------------------
(***************************************************************************)
(* The inductive invariant.                                                *)
(***************************************************************************)
BeforeSend == {"idle", "look", "checksum", "create", "parts", "look again", "send"}

Wrote(w) == \E i \in DOMAIN versions : versions[i].by = w

\* A call has returned when, and only when, it has a result.
PendingUntilDone == \A w \in Writers : at[w] # "done" => result[w] = Pending

\* An answer of success is for a write that took place.
OkIsThere ==
  \A w \in Writers : at[w] = "wait" /\ reply[w] = "ok" =>
    \E i \in DOMAIN versions : versions[i].bytes = Bytes[w] /\ versions[i].until = Until[w]

\* Before a call sends, it has written nothing, nothing is on its way to the
\* store, and no answer has come but the one that has an upload made again.
NothingOut ==
  \A w \in Writers : at[w] \in BeforeSend =>
    /\ ~ Wrote(w) /\ out[w] = {}
    /\ at[w] # "create" => reply[w] = "none"

\* The completion of an upload is out once, and is answered when it is not.
CompleteOut ==
  \A w \in Writers : InParts(w) =>
    /\ out[w] \subseteq {1}
    /\ reply[w] # "none" => out[w] = {}

\* A key that was taken when a call began stays taken, and the call sends
\* nothing, unless the store itself will refuse it.
TakenStops ==
  \A w \in Writers :
    /\ at[w] = "idle" => ~ taken[w]
    /\ taken[w] => ~ Free /\ ~ Wrote(w)
    /\ taken[w] /\ (InParts(w) \/ ~ Conditional) => at[w] \in {"look", "done"} /\ out[w] = {}

\* An upload that made its object has nothing out any more.
CommittedEnds == \A w \in Writers : InParts(w) /\ Wrote(w) => out[w] = {}

OneVersion == Conditional => Len(versions) <= 1

IInv ==
  /\ TypeOK
  /\ PendingUntilDone
  /\ OkIsThere
  /\ StoredIsThere
  /\ NothingOut
  /\ CompleteOut
  /\ TakenStops
  /\ CommittedEnds
  /\ PartsCommitOnce
  /\ CompletedWhole
  /\ OneVersion

-----------------------------------------------------------------------------
(***************************************************************************)
(* Lemmas.                                                                 *)
(***************************************************************************)

\* What w writes is a version.
LEMMA VersionType == ASSUME NEW w \in Writers PROVE Version(w) \in Versions
  BY ConstantsAssumption DEF Version, Versions, Sum, Contents, Dates

\* What a call is told is a result.
LEMMA ResultType ==
  /\ Pending \in Results /\ Failed \in Results /\ Refused \in Results
  /\ \A until \in Dates : Stored(until) \in Results
  BY DEF Results

\* The four sorts of result differ, and only one says that an object is there.
LEMMA Outcomes ==
  /\ Pending.outcome # "stored" /\ Failed.outcome # "stored" /\ Refused.outcome # "stored"
  /\ \A until : Stored(until).outcome = "stored" /\ Stored(until).until = until
  BY DEF Pending, Failed, Refused, Stored

\* The one index of a sequence that has one element at most.
LEMMA OnlyIndex == ASSUME NEW n \in Nat, NEW i \in 1 .. n, n <= 1 PROVE n = 1 /\ i = 1
  OBVIOUS

\* The current version of a key that holds something is one of its versions.
LEMMA CurrentIsThere ==
  ASSUME TypeOK, ~ Free
  PROVE  Current \in Versions /\ Len(versions) \in DOMAIN versions /\ Current.until \in Dates
<1>1. Len(versions) \in 1 .. Len(versions) /\ versions \in [1 .. Len(versions) -> Versions]
  BY DEF TypeOK, Free
<1>2. Current \in Versions
  BY <1>1 DEF Current
<1> QED
  BY <1>1, <1>2 DEF Versions

-----------------------------------------------------------------------------
(***************************************************************************)
(* The steps.                                                              *)
(***************************************************************************)
LEMMA InitInvariant == Init => IInv
<1> SUFFICES ASSUME Init PROVE IInv
  OBVIOUS
<1>1. TypeOK
  BY ConstantsAssumption, ResultType
     DEF Init, TypeOK, Steps, Replies
<1>2. PendingUntilDone /\ OkIsThere /\ NothingOut /\ CompleteOut /\ CompletedWhole
  BY DEF Init, PendingUntilDone, OkIsThere, NothingOut, Wrote, CompleteOut, CompletedWhole
<1>3. StoredIsThere
  BY Outcomes DEF Init, StoredIsThere
<1>4. TakenStops /\ CommittedEnds /\ PartsCommitOnce /\ OneVersion
  BY DEF Init, TakenStops, CommittedEnds, PartsCommitOnce, OneVersion, Wrote
<1> QED
  BY <1>1, <1>2, <1>3, <1>4 DEF IInv

\* A step of w that writes nothing leaves what is said of the sends and answers
\* of the others as it was, and it holds of w where it holds of its next step.
LEMMA OnlyOneMoves ==
  ASSUME IInv, NEW w \in Writers, UNCHANGED versions,
         \A v \in Writers : v # w => at'[v] = at[v] /\ out'[v] = out[v] /\ reply'[v] = reply[v],
         at'[w] = "wait" => reply'[w] # "ok",
         at'[w] \in BeforeSend =>
           ~ Wrote(w) /\ out'[w] = {} /\ (at'[w] # "create" => reply'[w] = "none"),
         InParts(w) => out'[w] \subseteq {1} /\ (reply'[w] # "none" => out'[w] = {})
  PROVE  OkIsThere' /\ NothingOut' /\ CompleteOut'
<1>1. OkIsThere'
  BY DEF IInv, OkIsThere
<1>2. NothingOut'
  BY DEF IInv, NothingOut, Wrote
<1>3. CompleteOut'
  BY DEF IInv, CompleteOut, InParts
<1> QED
  BY <1>1, <1>2, <1>3

\* A call that returns keeps the invariant, if it may say what it says.
LEMMA ReturnInvariant ==
  ASSUME IInv, NEW w \in Writers, NEW told \in Results, Return(w, told), at[w] # "idle",
         told.outcome = "stored" =>
           \E i \in DOMAIN versions : versions[i].bytes = Bytes[w] /\ told.until <= versions[i].until
  PROVE  IInv'
<1> USE DEF IInv, Return, InParts, upload, request
<1>1. TypeOK'
  BY DEF TypeOK, Steps
<1>2. PendingUntilDone'
  BY DEF PendingUntilDone, TypeOK
<1>7. OkIsThere' /\ NothingOut' /\ CompleteOut'
  <2>1. \A v \in Writers : v # w => at'[v] = at[v] /\ out'[v] = out[v] /\ reply'[v] = reply[v]
    BY DEF TypeOK
  <2>2. at'[w] = "wait" => reply'[w] # "ok"
    BY DEF TypeOK, BeforeSend
  <2>3. at'[w] \in BeforeSend =>
           ~ Wrote(w) /\ out'[w] = {} /\ (at'[w] # "create" => reply'[w] = "none")
    BY DEF TypeOK, BeforeSend
  <2>4. InParts(w) => out'[w] \subseteq {1} /\ (reply'[w] # "none" => out'[w] = {})
    BY DEF TypeOK, CompleteOut, NothingOut, BeforeSend
  <2> QED
    BY <2>1, <2>2, <2>3, <2>4, OnlyOneMoves
<1>3. CompletedWhole'
  BY DEF CompletedWhole, AllSent, InState, TypeOK
<1>4. StoredIsThere'
  <2> SUFFICES ASSUME NEW v \in Writers, result'[v].outcome = "stored"
               PROVE  \E i \in DOMAIN versions :
                        versions[i].bytes = Bytes[v] /\ result'[v].until <= versions[i].until
    BY DEF StoredIsThere
  <2>1. CASE v = w
    BY <2>1 DEF TypeOK
  <2>2. CASE v # w
    BY <2>2 DEF StoredIsThere, TypeOK
  <2> QED
    BY <2>1, <2>2
<1>5. TakenStops'
  BY DEF TakenStops, TypeOK, Free, Wrote
<1>6. CommittedEnds' /\ PartsCommitOnce' /\ OneVersion'
  BY DEF CommittedEnds, PartsCommitOnce, OneVersion, TypeOK, Wrote
<1> QED
  BY <1>1, <1>2, <1>3, <1>4, <1>5, <1>6, <1>7

\* What a step that writes nothing and tells nobody leaves as it is.
LEMMA QuietStep ==
  ASSUME IInv, UNCHANGED <<versions, result>>
  PROVE  StoredIsThere' /\ PartsCommitOnce' /\ OneVersion'
  BY DEF IInv, StoredIsThere, PartsCommitOnce, OneVersion, InParts

LEMMA BeginInvariant ==
  ASSUME IInv, NEW w \in Writers, Begin(w)
  PROVE  IInv'
<1> USE DEF IInv, Begin, Move, InParts, upload, request
<1>1. TypeOK' /\ PendingUntilDone'
  BY ConstantsAssumption DEF TypeOK, Steps, Replies, PendingUntilDone
<1>2. OkIsThere' /\ NothingOut' /\ CompleteOut'
  <2>1. \A v \in Writers : v # w => at'[v] = at[v] /\ out'[v] = out[v] /\ reply'[v] = reply[v]
    BY DEF TypeOK
  <2>2. at'[w] = "wait" => reply'[w] # "ok"
    BY DEF TypeOK, NothingOut, BeforeSend
  <2>3. at'[w] \in BeforeSend =>
           ~ Wrote(w) /\ out'[w] = {} /\ (at'[w] # "create" => reply'[w] = "none")
    BY DEF TypeOK, NothingOut, BeforeSend
  <2>4. InParts(w) => out'[w] \subseteq {1} /\ (reply'[w] # "none" => out'[w] = {})
    BY DEF TypeOK, CompleteOut, NothingOut, BeforeSend
  <2> QED
    BY <2>1, <2>2, <2>3, <2>4, OnlyOneMoves
<1>3. CompletedWhole'
  BY DEF CompletedWhole, AllSent, InState, TypeOK
<1>4. TakenStops' /\ CommittedEnds'
  BY ZenonT(60) DEF TakenStops, CommittedEnds, NothingOut, BeforeSend, Wrote, Free, TypeOK
<1> QED
  BY QuietStep, <1>1, <1>2, <1>3, <1>4

LEMMA LookInvariant ==
  ASSUME IInv, NEW w \in Writers, Look(w)
  PROVE  IInv'
<1> USE DEF IInv, Look, Move, InParts, upload, request
<1>1. TypeOK' /\ PendingUntilDone'
  BY ConstantsAssumption DEF TypeOK, Steps, Replies, PendingUntilDone
<1>2. OkIsThere' /\ NothingOut' /\ CompleteOut'
  <2>1. \A v \in Writers : v # w => at'[v] = at[v] /\ out'[v] = out[v] /\ reply'[v] = reply[v]
    BY DEF TypeOK
  <2>2. at'[w] = "wait" => reply'[w] # "ok"
    BY DEF TypeOK, NothingOut, BeforeSend
  <2>3. at'[w] \in BeforeSend =>
           ~ Wrote(w) /\ out'[w] = {} /\ (at'[w] # "create" => reply'[w] = "none")
    BY DEF TypeOK, NothingOut, BeforeSend
  <2>4. InParts(w) => out'[w] \subseteq {1} /\ (reply'[w] # "none" => out'[w] = {})
    BY DEF TypeOK, CompleteOut, NothingOut, BeforeSend
  <2> QED
    BY <2>1, <2>2, <2>3, <2>4, OnlyOneMoves
<1>3. CompletedWhole'
  BY DEF CompletedWhole, AllSent, InState, TypeOK
<1>4. TakenStops' /\ CommittedEnds'
  BY ZenonT(60) DEF TakenStops, CommittedEnds, NothingOut, BeforeSend, Wrote, Free, TypeOK
<1> QED
  BY QuietStep, <1>1, <1>2, <1>3, <1>4

LEMMA ChecksumInvariant ==
  ASSUME IInv, NEW w \in Writers, Checksum(w)
  PROVE  IInv'
<1> USE DEF IInv, Checksum, Move, InParts, upload, request
<1>1. TypeOK' /\ PendingUntilDone'
  BY ConstantsAssumption DEF TypeOK, Steps, Replies, PendingUntilDone
<1>2. OkIsThere' /\ NothingOut' /\ CompleteOut'
  <2>1. \A v \in Writers : v # w => at'[v] = at[v] /\ out'[v] = out[v] /\ reply'[v] = reply[v]
    BY DEF TypeOK
  <2>2. at'[w] = "wait" => reply'[w] # "ok"
    BY DEF TypeOK, NothingOut, BeforeSend
  <2>3. at'[w] \in BeforeSend =>
           ~ Wrote(w) /\ out'[w] = {} /\ (at'[w] # "create" => reply'[w] = "none")
    BY DEF TypeOK, NothingOut, BeforeSend
  <2>4. InParts(w) => out'[w] \subseteq {1} /\ (reply'[w] # "none" => out'[w] = {})
    BY DEF TypeOK, CompleteOut, NothingOut, BeforeSend
  <2> QED
    BY <2>1, <2>2, <2>3, <2>4, OnlyOneMoves
<1>3. CompletedWhole'
  BY DEF CompletedWhole, AllSent, InState, TypeOK
<1>4. TakenStops' /\ CommittedEnds'
  BY ZenonT(60) DEF TakenStops, CommittedEnds, NothingOut, BeforeSend, Wrote, Free, TypeOK
<1> QED
  BY QuietStep, <1>1, <1>2, <1>3, <1>4

LEMMA CreateUploadInvariant ==
  ASSUME IInv, NEW w \in Writers, CreateUpload(w)
  PROVE  IInv'
<1> USE DEF IInv, CreateUpload, Move, InParts, upload, request
<1>1. TypeOK' /\ PendingUntilDone'
  <2>1. /\ part' = [v \in Writers |-> part'[v]]
        /\ \A v \in Writers : part'[v] \in [1 .. Parts[v] -> {"todo", "sending", "sent", "failed"}]
    BY DEF TypeOK
  <2>2. composite' \in [Writers -> BOOLEAN] /\ tries' \in [Writers -> 0 .. Attempts]
    BY ConstantsAssumption DEF TypeOK
  <2>3. reply' \in [Writers -> Replies] /\ at' \in [Writers -> Steps]
    BY DEF TypeOK, Replies, Steps
  <2>4. PendingUntilDone'
    BY DEF TypeOK, PendingUntilDone
  <2> QED
    BY <2>1, <2>2, <2>3, <2>4 DEF TypeOK
<1>2. OkIsThere' /\ NothingOut' /\ CompleteOut'
  <2>1. \A v \in Writers : v # w => at'[v] = at[v] /\ out'[v] = out[v] /\ reply'[v] = reply[v]
    BY DEF TypeOK
  <2>2. at'[w] = "wait" => reply'[w] # "ok"
    BY DEF TypeOK, NothingOut, BeforeSend
  <2>3. at'[w] \in BeforeSend =>
           ~ Wrote(w) /\ out'[w] = {} /\ (at'[w] # "create" => reply'[w] = "none")
    BY DEF TypeOK, NothingOut, BeforeSend
  <2>4. InParts(w) => out'[w] \subseteq {1} /\ (reply'[w] # "none" => out'[w] = {})
    BY DEF TypeOK, CompleteOut, NothingOut, BeforeSend
  <2> QED
    BY <2>1, <2>2, <2>3, <2>4, OnlyOneMoves
<1>3. CompletedWhole'
  BY DEF CompletedWhole, AllSent, InState, TypeOK
<1>4. TakenStops' /\ CommittedEnds'
  BY ZenonT(60) DEF TakenStops, CommittedEnds, NothingOut, BeforeSend, Wrote, Free, TypeOK
<1> QED
  BY QuietStep, <1>1, <1>2, <1>3, <1>4

LEMMA PartsSentInvariant ==
  ASSUME IInv, NEW w \in Writers, PartsSent(w)
  PROVE  IInv'
<1> USE DEF IInv, PartsSent, Move, InParts, upload, request
<1>1. TypeOK' /\ PendingUntilDone'
  BY ConstantsAssumption DEF TypeOK, Steps, Replies, PendingUntilDone
<1>2. OkIsThere' /\ NothingOut' /\ CompleteOut'
  <2>1. \A v \in Writers : v # w => at'[v] = at[v] /\ out'[v] = out[v] /\ reply'[v] = reply[v]
    BY DEF TypeOK
  <2>2. at'[w] = "wait" => reply'[w] # "ok"
    BY DEF TypeOK, NothingOut, BeforeSend
  <2>3. at'[w] \in BeforeSend =>
           ~ Wrote(w) /\ out'[w] = {} /\ (at'[w] # "create" => reply'[w] = "none")
    BY DEF TypeOK, NothingOut, BeforeSend
  <2>4. InParts(w) => out'[w] \subseteq {1} /\ (reply'[w] # "none" => out'[w] = {})
    BY DEF TypeOK, CompleteOut, NothingOut, BeforeSend
  <2> QED
    BY <2>1, <2>2, <2>3, <2>4, OnlyOneMoves
<1>3. CompletedWhole'
  BY DEF CompletedWhole, AllSent, InState, TypeOK
<1>4. TakenStops' /\ CommittedEnds'
  BY ZenonT(60) DEF TakenStops, CommittedEnds, NothingOut, BeforeSend, Wrote, Free, TypeOK
<1> QED
  BY QuietStep, <1>1, <1>2, <1>3, <1>4

LEMMA SendInvariant ==
  ASSUME IInv, NEW w \in Writers, Send(w)
  PROVE  IInv'
<1> USE DEF IInv, Send, Move, InParts, upload, request
<1>1. TypeOK' /\ PendingUntilDone'
  <2>1. 1 \in 1 .. Attempts /\ 1 \in 0 .. Attempts
    BY ConstantsAssumption
  <2>2. tries' \in [Writers -> 0 .. Attempts] /\ out' \in [Writers -> SUBSET (1 .. Attempts)]
    BY <2>1 DEF TypeOK
  <2>3. at' \in [Writers -> Steps] /\ PendingUntilDone'
    BY DEF TypeOK, Steps, PendingUntilDone
  <2> QED
    BY <2>2, <2>3 DEF TypeOK
<1>2. OkIsThere' /\ NothingOut' /\ CompleteOut'
  <2>1. \A v \in Writers : v # w => at'[v] = at[v] /\ out'[v] = out[v] /\ reply'[v] = reply[v]
    BY DEF TypeOK
  <2>2. at'[w] = "wait" => reply'[w] # "ok"
    BY DEF TypeOK, NothingOut, BeforeSend
  <2>3. at'[w] \in BeforeSend =>
           ~ Wrote(w) /\ out'[w] = {} /\ (at'[w] # "create" => reply'[w] = "none")
    BY DEF TypeOK, NothingOut, BeforeSend
  <2>4. InParts(w) => out'[w] \subseteq {1} /\ (reply'[w] # "none" => out'[w] = {})
    BY DEF TypeOK, CompleteOut, NothingOut, BeforeSend
  <2> QED
    BY <2>1, <2>2, <2>3, <2>4, OnlyOneMoves
<1>3. CompletedWhole'
  BY DEF CompletedWhole, AllSent, InState, TypeOK
<1>4. TakenStops' /\ CommittedEnds'
  BY ZenonT(60) DEF TakenStops, CommittedEnds, NothingOut, BeforeSend, Wrote, Free, TypeOK
<1> QED
  BY QuietStep, <1>1, <1>2, <1>3, <1>4

LEMMA SendAgainInvariant ==
  ASSUME IInv, NEW w \in Writers, SendAgain(w)
  PROVE  IInv'
<1> USE DEF IInv, SendAgain, Move, InParts, upload, request
<1>1. TypeOK' /\ PendingUntilDone'
  <2>1. tries[w] + 1 \in 1 .. Attempts /\ tries[w] + 1 \in 0 .. Attempts
    BY ConstantsAssumption DEF TypeOK
  <2>2. tries' \in [Writers -> 0 .. Attempts] /\ out' \in [Writers -> SUBSET (1 .. Attempts)]
    BY <2>1 DEF TypeOK
  <2>3. reply' \in [Writers -> Replies] /\ PendingUntilDone'
    BY DEF TypeOK, Replies, PendingUntilDone
  <2> QED
    BY <2>2, <2>3 DEF TypeOK
<1>2. OkIsThere' /\ NothingOut' /\ CompleteOut'
  <2>1. \A v \in Writers : v # w => at'[v] = at[v] /\ out'[v] = out[v] /\ reply'[v] = reply[v]
    BY DEF TypeOK
  <2>2. at'[w] = "wait" => reply'[w] # "ok"
    BY DEF TypeOK, NothingOut, BeforeSend
  <2>3. at'[w] \in BeforeSend =>
           ~ Wrote(w) /\ out'[w] = {} /\ (at'[w] # "create" => reply'[w] = "none")
    BY DEF TypeOK, NothingOut, BeforeSend
  <2>4. InParts(w) => out'[w] \subseteq {1} /\ (reply'[w] # "none" => out'[w] = {})
    BY DEF TypeOK, CompleteOut, NothingOut, BeforeSend
  <2> QED
    BY <2>1, <2>2, <2>3, <2>4, OnlyOneMoves
<1>3. CompletedWhole'
  BY DEF CompletedWhole, AllSent, InState, TypeOK
<1>4. TakenStops' /\ CommittedEnds'
  BY ZenonT(60) DEF TakenStops, CommittedEnds, NothingOut, BeforeSend, Wrote, Free, TypeOK
<1> QED
  BY QuietStep, <1>1, <1>2, <1>3, <1>4

LEMMA GiveUpInvariant ==
  ASSUME IInv, NEW w \in Writers, GiveUp(w)
  PROVE  IInv'
<1> USE DEF IInv, GiveUp, Move, InParts, upload, request
<1>1. TypeOK' /\ PendingUntilDone'
  BY ConstantsAssumption DEF TypeOK, Steps, Replies, PendingUntilDone
<1>2. OkIsThere' /\ NothingOut' /\ CompleteOut'
  <2>1. \A v \in Writers : v # w => at'[v] = at[v] /\ out'[v] = out[v] /\ reply'[v] = reply[v]
    BY DEF TypeOK
  <2>2. at'[w] = "wait" => reply'[w] # "ok"
    BY DEF TypeOK, NothingOut, BeforeSend
  <2>3. at'[w] \in BeforeSend =>
           ~ Wrote(w) /\ out'[w] = {} /\ (at'[w] # "create" => reply'[w] = "none")
    BY DEF TypeOK, NothingOut, BeforeSend
  <2>4. InParts(w) => out'[w] \subseteq {1} /\ (reply'[w] # "none" => out'[w] = {})
    BY DEF TypeOK, CompleteOut, NothingOut, BeforeSend
  <2> QED
    BY <2>1, <2>2, <2>3, <2>4, OnlyOneMoves
<1>3. CompletedWhole'
  BY DEF CompletedWhole, AllSent, InState, TypeOK
<1>4. TakenStops' /\ CommittedEnds'
  BY ZenonT(60) DEF TakenStops, CommittedEnds, NothingOut, BeforeSend, Wrote, Free, TypeOK
<1> QED
  BY QuietStep, <1>1, <1>2, <1>3, <1>4

LEMMA PartInvariant ==
  ASSUME IInv, NEW w \in Writers, NEW i \in 1 .. Parts[w], StartPart(w, i) \/ EndPart(w, i)
  PROVE  IInv'
<1>1. /\ at[w] = "parts"
      /\ \E state \in {"sending", "sent", "failed"} :
           part' = [part EXCEPT ![w] = [part[w] EXCEPT ![i] = state]]
      /\ UNCHANGED <<versions, at, taken, composite, again, request, result>>
  BY DEF StartPart, EndPart
<1> USE <1>1 DEF IInv, request, InParts
<1>2. TypeOK' /\ PendingUntilDone'
  <2>1. /\ part' = [v \in Writers |-> part'[v]]
        /\ \A v \in Writers : part'[v] \in [1 .. Parts[v] -> {"todo", "sending", "sent", "failed"}]
    <3> PICK state \in {"sending", "sent", "failed"} :
           part' = [part EXCEPT ![w] = [part[w] EXCEPT ![i] = state]]
      OBVIOUS
    <3>1. [part[w] EXCEPT ![i] = state] \in [1 .. Parts[w] -> {"todo", "sending", "sent", "failed"}]
      BY DEF TypeOK
    <3> QED
      BY <3>1 DEF TypeOK
  <2> QED
    BY <2>1 DEF TypeOK, PendingUntilDone
<1>3. OkIsThere' /\ NothingOut' /\ CompleteOut'
  BY DEF OkIsThere, NothingOut, CompleteOut, BeforeSend, Wrote
<1>4. CompletedWhole'
  BY DEF CompletedWhole, AllSent, InState, TypeOK
<1>5. TakenStops' /\ CommittedEnds'
  BY DEF TakenStops, CommittedEnds, Wrote, Free
<1> QED
  BY QuietStep, <1>2, <1>3, <1>4, <1>5

LEMMA AgainInvariant ==
  ASSUME IInv, NEW w \in Writers, Free, Move(w, "settle", "create"), InParts(w),
         reply[w] = "conflict", again' = [again EXCEPT ![w] = TRUE],
         UNCHANGED <<versions, taken, part, composite, request, result>>
  PROVE  IInv'
<1> USE DEF IInv, Move, InParts, upload, request
<1>1. TypeOK' /\ PendingUntilDone'
  BY ConstantsAssumption DEF TypeOK, Steps, Replies, PendingUntilDone
<1>2. OkIsThere' /\ NothingOut' /\ CompleteOut'
  <2>1. OkIsThere'
    BY DEF OkIsThere, TypeOK
  <2>2. NothingOut'
    <3>1. ~ Wrote(w) /\ out[w] = {}
      BY DEF Wrote, Free, CompleteOut
    <3>2. \A v \in Writers : Wrote(v)' <=> Wrote(v)
      BY DEF Wrote
    <3> QED
      BY <3>1, <3>2 DEF NothingOut, TypeOK, BeforeSend
  <2>3. CompleteOut'
    BY DEF CompleteOut
  <2> QED
    BY <2>1, <2>2, <2>3
<1>3. CompletedWhole'
  BY DEF CompletedWhole, AllSent, InState, TypeOK
<1>4. TakenStops' /\ CommittedEnds'
  BY ZenonT(60) DEF TakenStops, CommittedEnds, NothingOut, BeforeSend, Wrote, Free, TypeOK
<1> QED
  BY QuietStep, <1>1, <1>2, <1>3, <1>4

\* The store takes a send and makes the object.
LEMMA CommitInvariant ==
  ASSUME IInv, NEW w \in Writers, NEW n \in out[w], Commit(w, n)
  PROVE  IInv'
<1> USE DEF IInv, Commit, Answer, InParts, upload
<1> DEFINE last == Len(versions) + 1
<1>0. /\ versions \in Seq(Versions) /\ Version(w) \in Versions
      /\ Version(w).by = w /\ Version(w).bytes = Bytes[w] /\ Version(w).until = Until[w]
  BY VersionType DEF TypeOK, Version
<1>1. /\ versions' \in Seq(Versions)
      /\ DOMAIN versions' = DOMAIN versions \cup {last} /\ last \notin DOMAIN versions
      /\ \A i \in DOMAIN versions : versions'[i] = versions[i]
      /\ versions'[last] = Version(w)
      /\ Len(versions') = Len(versions) + 1
  BY <1>0
<1> HIDE DEF last
<1>2. at[w] \in {"wait", "settle", "done"}
  BY DEF NothingOut, BeforeSend, TypeOK, Steps
<1>3. /\ \A v \in Writers : Wrote(v)' <=> Wrote(v) \/ v = w
      /\ ~ Free'
  BY <1>0, <1>1 DEF Wrote, Free
<1>4. TypeOK' /\ PendingUntilDone'
  BY <1>1 DEF TypeOK, PendingUntilDone, Replies
<1>5. OkIsThere'
  <2> SUFFICES ASSUME NEW v \in Writers, at[v] = "wait", reply'[v] = "ok"
               PROVE  \E i \in DOMAIN versions' :
                        versions'[i].bytes = Bytes[v] /\ versions'[i].until = Until[v]
    BY DEF OkIsThere
  <2>1. CASE v = w
    BY <1>0, <1>1, <2>1
  <2>2. CASE v # w
    <3>1. reply[v] = "ok"
      BY <2>2 DEF TypeOK
    <3> QED
      BY <3>1, <1>1 DEF OkIsThere
  <2> QED
    BY <2>1, <2>2
<1>6. StoredIsThere'
  BY <1>1 DEF StoredIsThere
<1>7. NothingOut'
  BY <1>2, <1>3 DEF NothingOut, TypeOK, BeforeSend
<1>8. CompleteOut'
  BY DEF CompleteOut, TypeOK
<1>9. ~ taken[w]
  BY DEF TakenStops, Free
<1>10. TakenStops'
  BY <1>3, <1>9 DEF TakenStops, TypeOK
<1>11. InParts(w) => ~ Wrote(w) /\ out'[w] = {}
  BY DEF CommittedEnds, CompleteOut, TypeOK
<1>12. CommittedEnds'
  BY <1>3, <1>11 DEF CommittedEnds, TypeOK
<1>13. PartsCommitOnce'
  BY <1>0, <1>1, <1>11 DEF PartsCommitOnce, Wrote
<1>14. CompletedWhole'
  BY DEF CompletedWhole, AllSent, InState
<1>15. OneVersion'
  BY <1>1 DEF OneVersion, Free
<1> QED
  BY <1>4, <1>5, <1>6, <1>7, <1>8, <1>10, <1>12, <1>13, <1>14, <1>15

\* The store takes a send and makes nothing of it.
LEMMA DenyInvariant ==
  ASSUME IInv, NEW w \in Writers, NEW n \in out[w], Deny(w, n)
  PROVE  IInv'
<1>1. /\ out' = [out EXCEPT ![w] = @ \ {n}]
      /\ \/ /\ at[w] = "wait"
            /\ \E said \in {"refused", "conflict", "error"} : reply' = [reply EXCEPT ![w] = said]
         \/ UNCHANGED reply
      /\ UNCHANGED <<versions, at, taken, upload, tries, result>>
  BY DEF Deny, Answer
<1> USE <1>1 DEF IInv, upload, InParts
<1>2. TypeOK' /\ PendingUntilDone'
  BY DEF TypeOK, PendingUntilDone, Replies
<1>3. OkIsThere'
  BY DEF OkIsThere, TypeOK
<1>4. NothingOut'
  BY DEF NothingOut, TypeOK, BeforeSend, Wrote
<1>5. CompleteOut'
  BY DEF CompleteOut, TypeOK
<1>6. CompletedWhole'
  BY DEF CompletedWhole, AllSent, InState
<1>7. TakenStops' /\ CommittedEnds'
  BY DEF TakenStops, CommittedEnds, Wrote, Free, TypeOK
<1> QED
  BY QuietStep, <1>2, <1>3, <1>4, <1>5, <1>6, <1>7
\* A call takes a step.
LEMMA CallInvariant ==
  ASSUME IInv, NEW w \in Writers, Call(w)
  PROVE  IInv'
<1>1. CASE Begin(w) \/ Look(w) \/ Checksum(w)
  BY <1>1, BeginInvariant, LookInvariant, ChecksumInvariant
<1>2. CASE RefuseTaken(w)
  BY <1>2, ReturnInvariant, ResultType, Outcomes DEF RefuseTaken
<1>3. CASE Fail(w)
  BY <1>3, ReturnInvariant, ResultType, Outcomes DEF Fail
<1>4. CASE CreateUpload(w) \/ PartsSent(w)
  BY <1>4, CreateUploadInvariant, PartsSentInvariant
<1>5. CASE PartsFail(w)
  BY <1>5, ReturnInvariant, ResultType, Outcomes DEF PartsFail
<1>6. CASE \E i \in 1 .. Parts[w] : StartPart(w, i) \/ EndPart(w, i)
  BY <1>6, PartInvariant
<1>7. CASE Send(w) \/ SendAgain(w) \/ GiveUp(w)
  BY <1>7, SendInvariant, SendAgainInvariant, GiveUpInvariant
<1>8. CASE Answered(w)
  <2>1. Stored(Until[w]) \in Results
    BY ResultType, ConstantsAssumption DEF Dates
  <2>2. \E i \in DOMAIN versions : versions[i].bytes = Bytes[w] /\ versions[i].until = Until[w]
    BY <1>8 DEF Answered, IInv, OkIsThere
  <2>3. Until[w] \in Nat
    BY ConstantsAssumption
  <2> QED
    BY <1>8, <2>1, <2>2, <2>3, ReturnInvariant, Outcomes DEF Answered
<1>9. CASE SettleOurs(w)
  <2>1. PICK until \in {0, Current.until} : Return(w, Stored(until))
    BY <1>9 DEF SettleOurs
  <2>2. /\ Len(versions) \in DOMAIN versions
        /\ Current.until \in Dates /\ Dates \subseteq Nat
    BY <1>9, CurrentIsThere, ConstantsAssumption DEF SettleOurs, IInv, Dates
  <2>3. /\ Stored(until) \in Results
        /\ Current.bytes = Bytes[w] /\ until <= Current.until /\ at[w] = "settle"
    BY <1>9, <2>2, ResultType DEF SettleOurs, Ours, Dates
  <2> QED
    BY <2>1, <2>2, <2>3, ReturnInvariant, Outcomes DEF Current
<1>10. CASE SettleOther(w)
  BY <1>10, ReturnInvariant, ResultType, Outcomes DEF SettleOther
<1>11. CASE SettleAbsent(w)
  BY <1>11, ReturnInvariant, AgainInvariant, ResultType, Outcomes DEF SettleAbsent
<1> QED
  BY <1>1, <1>2, <1>3, <1>4, <1>5, <1>6, <1>7, <1>8, <1>9, <1>10, <1>11 DEF Call

LEMMA NextInvariant == IInv /\ [Next]_vars => IInv'
<1> SUFFICES ASSUME IInv, [Next]_vars PROVE IInv'
  OBVIOUS
<1>1. CASE Next
  BY <1>1, CallInvariant, CommitInvariant, DenyInvariant DEF Next, Store
<1>2. CASE UNCHANGED vars
  <2> USE <1>2 DEF vars, upload, request, IInv, InParts
  <2>1. TypeOK' /\ PendingUntilDone'
    BY DEF TypeOK, PendingUntilDone
  <2>2. OkIsThere' /\ NothingOut' /\ CompleteOut'
    BY DEF OkIsThere, NothingOut, CompleteOut, Wrote
  <2>3. TakenStops' /\ CommittedEnds' /\ CompletedWhole'
    BY DEF TakenStops, CommittedEnds, CompletedWhole, AllSent, InState, Wrote, Free
  <2> QED
    BY <2>1, <2>2, <2>3, QuietStep
<1> QED
  BY <1>1, <1>2

-----------------------------------------------------------------------------
(***************************************************************************)
(* The theorems.                                                           *)
(***************************************************************************)

\* The invariant holds of every behaviour.
THEOREM Invariance == Spec => []IInv
<1> QED
  BY InitInvariant, NextInvariant, PTL DEF Spec

\* Type correctness.
THEOREM TypeCorrect == Spec => []TypeOK
<1>1. IInv => TypeOK
  BY DEF IInv
<1> QED
  BY <1>1, Invariance, PTL

\* What PutImmutable reports stored is at the key with the retention it reports,
\* on AWS and elsewhere, whatever answers were lost.
THEOREM StoredStaysThere == Spec => []StoredIsThere
<1>1. IInv => StoredIsThere
  BY DEF IInv
<1> QED
  BY <1>1, Invariance, PTL

\* A call that begins with the key taken never writes, with or without
\* conditional writes.
THEOREM LaterCallsWriteNothing == Spec => []NothingOverEarlier
<1>1. IInv => NothingOverEarlier
  BY DEF IInv, TakenStops, NothingOverEarlier, Wrote
<1> QED
  BY <1>1, Invariance, PTL

\* An upload in parts makes at most one object, made again after a 409 or not.
THEOREM UploadCommitsOnce == Spec => []PartsCommitOnce
<1>1. IInv => PartsCommitOnce
  BY DEF IInv
<1> QED
  BY <1>1, Invariance, PTL

\* No upload is completed with a part missing.
THEOREM UploadIsWhole == Spec => []CompletedWhole
<1>1. IInv => CompletedWhole
  BY DEF IInv
<1> QED
  BY <1>1, Invariance, PTL
-----------------------------------------------------------------------------
(***************************************************************************)
(* Refinement, on a store with conditional writes.                         *)
(***************************************************************************)
Object == IF Free THEN None ELSE [bytes |-> Current.bytes, until |-> Current.until]

\* The results are those of CreateOnly.
LEMMA SameResults ==
  /\ Pending = Promise!Pending /\ Failed = Promise!Failed /\ Refused = Promise!Refused
  /\ \A until : Stored(until) = Promise!Stored(until)
  BY DEF Pending, Failed, Refused, Stored, Promise!Pending, Promise!Failed, Promise!Refused,
         Promise!Stored

\* A key that holds something does not look empty.
LEMMA ObjectIsNone == ASSUME TypeOK PROVE Object = None <=> Free
<1>1. CASE ~ Free
  <2>1. Current \in Versions
    BY <1>1, CurrentIsThere
  <2>2. Current.bytes \in Contents /\ Current.until \in Nat
    BY <2>1, ConstantsAssumption DEF Versions, Dates
  <2>3. [bytes |-> Current.bytes, until |-> Current.until]
          \in [bytes : {Bytes[w] : w \in Writers}, until : Nat]
    BY <2>2 DEF Contents
  <2> QED
    BY <1>1, <2>3, ConstantsAssumption DEF Object
<1>2. CASE Free
  BY <1>2 DEF Object
<1> QED
  BY <1>1, <1>2

\* A step that leaves the key and tells one call something is a step of Tell.
LEMMA ReturnTells ==
  ASSUME IInv, NEW w \in Writers, NEW told, Return(w, told), at[w] # "done"
  PROVE  /\ result[w] = Pending
         /\ result' = [result EXCEPT ![w] = told]
         /\ Object' = Object
  BY DEF IInv, PendingUntilDone, Return, Object, Free, Current

\* A call that is told of a failure, or that it was refused by a key that
\* holds something.
LEMMA FailureRefines ==
  ASSUME IInv, NEW w \in Writers, at[w] # "done",
         Return(w, Failed) \/ (~ Free /\ Return(w, Refused))
  PROVE  Promise!Next
<1>1. CASE Return(w, Failed)
  <2>1. Promise!TellFailed(w)
    BY <1>1, ReturnTells, SameResults DEF Promise!TellFailed, Promise!Tell, Object
  <2> QED
    BY <2>1 DEF Promise!Next
<1>2. CASE ~ Free /\ Return(w, Refused)
  <2>1. Promise!TellRefused(w)
    BY <1>2, ReturnTells, SameResults, ObjectIsNone
       DEF Promise!TellRefused, Promise!Tell, Object, IInv
  <2> QED
    BY <2>1 DEF Promise!Next
<1> QED
  BY <1>1, <1>2

\* A call that is told its object is stored.
LEMMA StoredRefines ==
  ASSUME IInv, NEW w \in Writers, at[w] # "done", NEW until \in Dates, ~ Free,
         Current.bytes = Bytes[w], until <= Current.until, Return(w, Stored(until))
  PROVE  Promise!Next
<1>1. Promise!TellStored(w, until)
  BY ReturnTells, SameResults, ObjectIsNone DEF Promise!TellStored, Promise!Tell, Object, IInv
<1> QED
  BY <1>1 DEF Promise!Next, Dates

LEMMA StepRefines ==
  ASSUME Conditional, IInv, [Next]_vars
  PROVE  [Promise!Next]_(Promise!vars)
<1>1. CASE UNCHANGED <<versions, result>>
  BY <1>1 DEF Promise!vars, Free, Current
<1>2. ASSUME NEW w \in Writers, NEW n \in out[w], Commit(w, n)
      PROVE  Promise!Write(w)
  <2>1. Free /\ versions' = Append(versions, Version(w)) /\ UNCHANGED result
    BY <1>2 DEF Commit, Answer
  <2>2. versions' = <<Version(w)>>
    BY <2>1 DEF Free
  <2>3. ~ Free' /\ Current' = Version(w)
    BY <2>2 DEF Free, Current
  <2> QED
    BY <2>1, <2>3 DEF Promise!Write, Version, Free
<1>3. ASSUME NEW w \in Writers, Answered(w)
      PROVE  Promise!Next
  <2>1. /\ Until[w] \in Dates /\ Until[w] \in Nat
        /\ at[w] = "wait" /\ reply[w] = "ok" /\ Return(w, Stored(Until[w]))
    BY <1>3, ConstantsAssumption DEF Answered, Dates
  <2>2. PICK i \in DOMAIN versions : versions[i].bytes = Bytes[w] /\ versions[i].until = Until[w]
    BY <2>1 DEF IInv, OkIsThere
  <2>3. Len(versions) = 1 /\ i = 1 /\ ~ Free
    <3>1. Len(versions) \in Nat /\ i \in 1 .. Len(versions) /\ Len(versions) <= 1
      <4>1. versions \in Seq(Versions) /\ Len(versions) <= 1
        BY DEF IInv, TypeOK, OneVersion
      <4> QED
        BY <4>1, <2>2
    <3>2. Len(versions) = 1 /\ i = 1
      BY <3>1, OnlyIndex
    <3> QED
      BY <3>1, <3>2 DEF Free
  <2> QED
    BY <2>1, <2>2, <2>3, StoredRefines DEF Current
<1>4. ASSUME NEW w \in Writers, SettleOurs(w)
      PROVE  Promise!Next
  <2>1. /\ ~ Free /\ at[w] = "settle" /\ Current.bytes = Bytes[w]
        /\ \E until \in {0, Current.until} : Return(w, Stored(until))
    BY <1>4 DEF SettleOurs, Ours
  <2>2. Current.until \in Dates /\ Current.until \in Nat /\ 0 \in Dates
    BY <2>1, CurrentIsThere, ConstantsAssumption DEF IInv, Dates
  <2> QED
    BY <2>1, <2>2, StoredRefines
<1>5. ASSUME NEW w \in Writers, Call(w), ~ UNCHANGED <<versions, result>>
      PROVE  Promise!Next
  <2>1. CASE Answered(w) \/ SettleOurs(w)
    BY <1>3, <1>4, <2>1
  <2>2. CASE RefuseTaken(w) \/ Fail(w) \/ PartsFail(w) \/ SettleOther(w)
    BY <2>2, FailureRefines DEF RefuseTaken, Fail, PartsFail, SettleOther
  <2>3. CASE SettleAbsent(w)
    BY <1>5, <2>3, FailureRefines DEF SettleAbsent
  <2>4. CASE Begin(w) \/ Look(w) \/ Checksum(w) \/ CreateUpload(w) \/ PartsSent(w)
    BY <1>5, <2>4 DEF Begin, Look, Checksum, CreateUpload, PartsSent
  <2>5. CASE \E i \in 1 .. Parts[w] : StartPart(w, i) \/ EndPart(w, i)
    BY <1>5, <2>5 DEF StartPart, EndPart
  <2>6. CASE Send(w) \/ SendAgain(w) \/ GiveUp(w)
    BY <1>5, <2>6 DEF Send, SendAgain, GiveUp
  <2> QED
    BY <1>5, <2>1, <2>2, <2>3, <2>4, <2>5, <2>6 DEF Call
<1>6. ASSUME NEW w \in Writers, NEW n \in out[w], Deny(w, n)
      PROVE  UNCHANGED <<versions, result>>
  BY <1>6 DEF Deny, Answer
<1>7. CASE Next
  <2>1. PICK w \in Writers : Call(w) \/ Store(w)
    BY <1>7 DEF Next
  <2>2. CASE Call(w)
    BY <1>1, <1>5, <2>2
  <2>3. CASE Store(w)
    BY <1>1, <1>2, <1>6, <2>3 DEF Store, Promise!Next
  <2> QED
    BY <2>1, <2>2, <2>3
<1> QED
  BY <1>1, <1>7 DEF vars

\* On AWS the key is what Destination promises: written once, and each caller
\* that is told of its object can rely on it.
THEOREM ConditionalKeyIsCreateOnly ==
  ASSUME Conditional
  PROVE  Spec => KeyIsCreateOnly
<1>1. Init => Promise!Init
  BY SameResults DEF Init, Promise!Init, Free
<1>2. IInv /\ [Next]_vars => [Promise!Next]_(Promise!vars)
  BY StepRefines
<1> QED
  BY <1>1, <1>2, Invariance, PTL DEF Spec, KeyIsCreateOnly, Promise!Spec
=============================================================================
