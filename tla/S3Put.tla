------------------------------- MODULE S3Put -------------------------------
(***************************************************************************)
(* PutImmutable of internal/dest/s3: several writers put one key of a      *)
(* bucket, each in one PUT or in parts. Requests and their answers may be  *)
(* lost, and a request may reach the store long after its writer gave it   *)
(* up. On AWS a write is conditional on the key being free; a store that   *)
(* has no conditional write has the key looked at before it, and keeps     *)
(* what was overwritten as an older version.                               *)
(*                                                                         *)
(* A write commits only whole and only the bytes its checksum was made of, *)
(* so Bytes[w] stands for w's object, its size and its CRC32 alike.        *)
(***************************************************************************)
EXTENDS Naturals, Sequences, FiniteSets

CONSTANTS
  Writers,      \* calls of PutImmutable on this key, by any number of runs
  Bytes,        \* Bytes[w]: what w writes
  Until,        \* Until[w]: the retention w asks for, 0 for none
  Parts,        \* Parts[w]: how many parts w's object is cut into, 0 for one PUT
  PartsInFlight,\* how many parts are sent at once
  Attempts,     \* how often the SDK sends a request that gets no answer
  Conditional,  \* conditionalWrite: the store is AWS and takes If-None-Match
  FullObject,   \* whether the store takes a full-object checksum for parts
  None          \* nothing at the key

ASSUME ConstantsAssumption ==
  /\ Until \in [Writers -> Nat]
  /\ Parts \in [Writers -> Nat]
  /\ PartsInFlight \in Nat \ {0}
  /\ Attempts \in Nat \ {0}
  /\ Conditional \in BOOLEAN /\ FullObject \in BOOLEAN
  /\ None \notin [bytes : {Bytes[w] : w \in Writers}, until : Nat]

Contents == {Bytes[w] : w \in Writers}
Dates == {0} \cup {Until[w] : w \in Writers}

VARIABLES
  versions,   \* what the key holds, oldest first; the last is the one read
  at,         \* at[w]: where w's call is
  taken,      \* taken[w]: the key held something when w's call began
  part,       \* part[w]: how far each part of w's upload is
  composite,  \* composite[w]: Backend.composite, as w last read it
  tries,      \* tries[w]: how often the request that commits has been sent
  out,        \* out[w]: the sends of it the store has not dealt with
  reply,      \* reply[w]: the answer to the last of them
  again,      \* again[w]: the upload is being made a second time
  result      \* result[w]: what PutImmutable returned

request == <<tries, out, reply>>
upload == <<part, composite, again>>
vars == <<versions, at, taken, upload, request, result>>

Steps == {"idle", "look", "checksum", "create", "parts", "look again", "send",
          "wait", "settle", "done"}
Replies == {"none", "ok", "refused", "conflict", "error"}
Pending == [outcome |-> "pending", until |-> 0]
Failed  == [outcome |-> "failed", until |-> 0]
Refused == [outcome |-> "refused", until |-> 0]
Stored(until) == [outcome |-> "stored", until |-> until]
Results == {Pending, Failed, Refused} \cup {Stored(until) : until \in Dates}

InParts(w) == Parts[w] > 0

\* The kind of CRC32 the store keeps with what w writes.
Sum(w) == IF InParts(w) /\ composite[w] THEN "composite" ELSE "full"

Version(w) == [by |-> w, bytes |-> Bytes[w], until |-> Until[w], sum |-> Sum(w)]
Versions == [by : Writers, bytes : Contents, until : Dates, sum : {"full", "composite"}]

Free == versions = <<>>
Current == versions[Len(versions)]

\* Faulty: whatever is at the key is taken for the write that got no answer.
FaultyOurs(w) == at[w] = "settle"

\* The object at the key has w's bytes, and a checksum that can be compared.
Ours(w) == Current.bytes = Bytes[w] /\ Current.sum = Sum(w)

Init ==
  /\ versions = <<>>
  /\ at = [w \in Writers |-> "idle"]
  /\ taken = [w \in Writers |-> FALSE]
  /\ part = [w \in Writers |-> [i \in 1 .. Parts[w] |-> "todo"]]
  /\ \E refused \in BOOLEAN :
       composite = [w \in Writers |-> refused /\ InParts(w) /\ ~ FullObject]
  /\ tries = [w \in Writers |-> 0]
  /\ out = [w \in Writers |-> {}]
  /\ reply = [w \in Writers |-> "none"]
  /\ again = [w \in Writers |-> FALSE]
  /\ result = [w \in Writers |-> Pending]

Move(w, from, to) == at[w] = from /\ at' = [at EXCEPT ![w] = to]

Return(w, told) ==
  /\ at' = [at EXCEPT ![w] = "done"]
  /\ result' = [result EXCEPT ![w] = told]
  /\ UNCHANGED <<versions, taken, upload, request>>

-----------------------------------------------------------------------------
(***************************************************************************)
(* Before anything is sent.                                                *)
(***************************************************************************)

\* Faulty: the key of a small object is not looked at.
FaultyBegin(w) ==
  /\ Move(w, "idle", IF InParts(w) THEN "look" ELSE "checksum")
  /\ taken' = [taken EXCEPT ![w] = ~ Free]
  /\ UNCHANGED <<versions, upload, request, result>>

Begin(w) ==
  /\ Move(w, "idle", IF Conditional /\ ~ InParts(w) THEN "checksum" ELSE "look")
  /\ taken' = [taken EXCEPT ![w] = ~ Free]
  /\ UNCHANGED <<versions, upload, request, result>>

\* objectExists, before the object is read and again before it is completed.
Look(w) ==
  /\ Free
  /\ Move(w, "look", "checksum") \/ Move(w, "look again", "send")
  /\ UNCHANGED <<versions, taken, upload, request, result>>

RefuseTaken(w) ==
  /\ ~ Free
  /\ at[w] \in {"look", "look again"}
  /\ Return(w, Refused)

Checksum(w) ==
  /\ Move(w, "checksum", IF InParts(w) THEN "create" ELSE "send")
  /\ UNCHANGED <<versions, taken, upload, request, result>>

\* The store does not answer, refuses, or the stream is not the object.
Fail(w) ==
  /\ at[w] \in {"look", "checksum", "create", "look again", "settle"}
  /\ Return(w, Failed)

-----------------------------------------------------------------------------
(***************************************************************************)
(* The parts.                                                              *)
(***************************************************************************)

\* A store that refuses a full-object checksum is asked for a composite one,
\* here and from then on.
CreateUpload(w) ==
  /\ Move(w, "create", "parts")
  /\ composite' = [composite EXCEPT ![w] = @ \/ ~ FullObject]
  /\ part' = [part EXCEPT ![w] = [i \in 1 .. Parts[w] |-> "todo"]]
  /\ tries' = [tries EXCEPT ![w] = 0]
  /\ reply' = [reply EXCEPT ![w] = "none"]
  /\ UNCHANGED <<versions, taken, again, out, result>>

InState(w, state) == {i \in 1 .. Parts[w] : part[w][i] = state}

\* The loop of sendParts: in order, while there is a slot and none has failed.
StartPart(w, i) ==
  /\ at[w] = "parts"
  /\ InState(w, "failed") = {}
  /\ Cardinality(InState(w, "sending")) < PartsInFlight
  /\ part[w][i] = "todo" /\ \A j \in 1 .. i - 1 : part[w][j] # "todo"
  /\ part' = [part EXCEPT ![w][i] = "sending"]
  /\ UNCHANGED <<versions, at, taken, composite, again, request, result>>

EndPart(w, i) ==
  /\ at[w] = "parts"
  /\ part[w][i] = "sending"
  /\ \E end \in {"sent", "failed"} : part' = [part EXCEPT ![w][i] = end]
  /\ UNCHANGED <<versions, at, taken, composite, again, request, result>>

AllSent(w) == InState(w, "sent") = 1 .. Parts[w]

\* Faulty: the parts are waited for, and no failure is looked at.
FaultyPartsSent(w) ==
  /\ InState(w, "sending") = {} /\ InState(w, "todo") = {}
  /\ Move(w, "parts", IF Conditional THEN "send" ELSE "look again")
  /\ UNCHANGED <<versions, taken, upload, request, result>>

\* wg.Wait, and then endsAt, which finds the stream at its end.
PartsSent(w) ==
  /\ AllSent(w)
  /\ Move(w, "parts", IF Conditional THEN "send" ELSE "look again")
  /\ UNCHANGED <<versions, taken, upload, request, result>>

\* A part failed, the stream does not end where the object does, or the run's
\* context is done. The upload is left to the bucket's lifecycle rule.
PartsFail(w) ==
  /\ at[w] = "parts"
  /\ InState(w, "sending") = {}
  /\ Return(w, Failed)

-----------------------------------------------------------------------------
(***************************************************************************)
(* The request that makes the object, and its answer. The SDK sends a PUT  *)
(* again when it gets no answer or one that may pass; the completion of an *)
(* upload is sent once.                                                    *)
(***************************************************************************)
Send(w) ==
  /\ Move(w, "send", "wait")
  /\ tries' = [tries EXCEPT ![w] = 1]
  /\ out' = [out EXCEPT ![w] = {1}]
  /\ UNCHANGED <<versions, taken, upload, reply, result>>

\* Faulty: the completion of an upload is sent again like any request.
FaultyCompleteAgain(w) ==
  /\ at[w] = "wait"
  /\ reply[w] \in {"none", "error"}
  /\ tries[w] < Attempts
  /\ tries' = [tries EXCEPT ![w] = @ + 1]
  /\ out' = [out EXCEPT ![w] = @ \cup {tries[w] + 1}]
  /\ reply' = [reply EXCEPT ![w] = "none"]
  /\ UNCHANGED <<versions, at, taken, upload, result>>

SendAgain(w) ==
  /\ at[w] = "wait"
  /\ reply[w] \in {"none", "error"}
  /\ ~ InParts(w) /\ tries[w] < Attempts
  /\ tries' = [tries EXCEPT ![w] = @ + 1]
  /\ out' = [out EXCEPT ![w] = @ \cup {tries[w] + 1}]
  /\ reply' = [reply EXCEPT ![w] = "none"]
  /\ UNCHANGED <<versions, at, taken, upload, result>>

Answered(w) ==
  /\ at[w] = "wait" /\ reply[w] = "ok"
  /\ Return(w, Stored(Until[w]))

\* The call returns an error: the store's, or that it gave no answer.
GiveUp(w) ==
  /\ reply[w] # "ok"
  /\ Move(w, "wait", "settle")
  /\ UNCHANGED <<versions, taken, upload, request, result>>

\* Faulty: the retention asked for is told of, whatever the store shows.
FaultySettleOurs(w) ==
  /\ at[w] = "settle" /\ ~ Free /\ Ours(w)
  /\ Return(w, Stored(Until[w]))

\* settle found the writer's own object: HeadObject shows its retention, or
\* shows none.
SettleOurs(w) ==
  /\ at[w] = "settle" /\ ~ Free /\ Ours(w)
  /\ \E until \in {0, Current.until} : Return(w, Stored(until))

\* settle found another object, or one whose checksum the store does not show.
SettleOther(w) ==
  /\ at[w] = "settle" /\ ~ Free
  /\ Return(w, Refused)

\* Faulty: every 409 has the upload made again.
FaultySettleAbsent(w) ==
  /\ Free
  /\ IF InParts(w) /\ reply[w] = "conflict"
     THEN /\ Move(w, "settle", "create")
          /\ again' = [again EXCEPT ![w] = TRUE]
          /\ UNCHANGED <<versions, taken, part, composite, request, result>>
     ELSE at[w] = "settle" /\ Return(w, Failed)

\* settle found nothing. A 409 at the completion has the upload made once more.
SettleAbsent(w) ==
  /\ Free
  /\ IF InParts(w) /\ reply[w] = "conflict" /\ ~ again[w]
     THEN /\ Move(w, "settle", "create")
          /\ again' = [again EXCEPT ![w] = TRUE]
          /\ UNCHANGED <<versions, taken, part, composite, request, result>>
     ELSE at[w] = "settle" /\ Return(w, Failed)

Call(w) ==
  \/ Begin(w) \/ Look(w) \/ RefuseTaken(w) \/ Checksum(w) \/ Fail(w)
  \/ CreateUpload(w) \/ PartsSent(w) \/ PartsFail(w)
  \/ \E i \in 1 .. Parts[w] : StartPart(w, i) \/ EndPart(w, i)
  \/ Send(w) \/ SendAgain(w) \/ Answered(w) \/ GiveUp(w)
  \/ SettleOurs(w) \/ SettleOther(w) \/ SettleAbsent(w)

-----------------------------------------------------------------------------
(***************************************************************************)
(* The store deals with the sends in any order and at any later time, and  *)
(* the answer to the last may be lost. That to an earlier one always is.   *)
(***************************************************************************)
Answer(w, n, said) ==
  /\ out' = [out EXCEPT ![w] = @ \ {n}]
  /\ \/ at[w] = "wait" /\ n = tries[w] /\ reply' = [reply EXCEPT ![w] = said]
     \/ UNCHANGED reply
  /\ UNCHANGED <<at, taken, upload, tries, result>>

Commit(w, n) ==
  /\ Conditional => Free
  /\ versions' = Append(versions, Version(w))
  /\ Answer(w, n, "ok")

Deny(w, n) ==
  /\ \/ Conditional /\ ~ Free /\ Answer(w, n, "refused")
     \/ Answer(w, n, "conflict")
     \/ Answer(w, n, "error")
  /\ UNCHANGED versions

Store(w) == \E n \in out[w] : Commit(w, n) \/ Deny(w, n)

Next == \E w \in Writers : Call(w) \/ Store(w)

Spec == Init /\ [][Next]_vars

\* A call goes on: the connection or the run's deadline ends every wait.
FairSpec == Spec /\ \A w \in Writers : WF_vars(Call(w))

-----------------------------------------------------------------------------
TypeOK ==
  /\ versions \in Seq(Versions)
  /\ at \in [Writers -> Steps]
  /\ taken \in [Writers -> BOOLEAN]
  /\ part = [w \in Writers |-> part[w]]
  /\ \A w \in Writers : part[w] \in [1 .. Parts[w] -> {"todo", "sending", "sent", "failed"}]
  /\ composite \in [Writers -> BOOLEAN]
  /\ tries \in [Writers -> 0 .. Attempts]
  /\ out \in [Writers -> SUBSET (1 .. Attempts)]
  /\ reply \in [Writers -> Replies]
  /\ again \in [Writers -> BOOLEAN]
  /\ result \in [Writers -> Results]

\* A caller that is told its object is stored can record it: the key holds, in
\* some version, exactly its bytes, and at least the retention it is told of,
\* though a 412 for its own earlier send may be all the answer it got.
StoredIsThere ==
  \A w \in Writers : result[w].outcome = "stored" =>
    \E i \in DOMAIN versions :
      /\ versions[i].bytes = Bytes[w]
      /\ result[w].until <= versions[i].until

\* A call that begins when the key holds something writes nothing, on any
\* store, whatever is lost or late.
NothingOverEarlier ==
  \A w \in Writers : taken[w] => \A i \in DOMAIN versions : versions[i].by # w

\* An upload in parts makes one object at most: it is completed again only
\* when the first completion is known to have made none.
PartsCommitOnce ==
  \A w \in Writers : InParts(w) =>
    \A i, j \in DOMAIN versions : versions[i].by = w /\ versions[j].by = w => i = j

\* No upload is completed with a part missing, though parts end in any order
\* and the loop stops at the first failure.
CompletedWhole ==
  \A w \in Writers : InParts(w) /\ at[w] \in {"look again", "send", "wait"} => AllSent(w)

\* Every call returns: two writers that meet cannot keep each other going.
EveryCallReturns == \A w \in Writers : at[w] # "idle" ~> at[w] = "done"

\* What the comment on PutImmutable says, create-only, never overwriting: no
\* call writes over another's object.
NeverOverwrites == [][Free \/ versions' = versions \/ Current'.by = Current.by]_vars

\* The key as its readers see it, and what the callers are told.
Promise == INSTANCE CreateOnly WITH
  object <- IF Free THEN None ELSE [bytes |-> Current.bytes, until |-> Current.until],
  result <- result

KeyIsCreateOnly == Promise!Spec
=============================================================================
