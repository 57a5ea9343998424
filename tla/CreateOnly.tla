----------------------------- MODULE CreateOnly -----------------------------
(***************************************************************************)
(* What a destination promises about one key (internal/dest,               *)
(* Destination.PutImmutable): the first write that reaches it is the only  *)
(* one, and a writer that is told its object is there can rely on the      *)
(* bytes and on the retention it is told of. A writer may be told of a     *)
(* failure, and its write take place all the same.                         *)
(***************************************************************************)
EXTENDS Naturals

CONSTANTS
  Writers,  \* calls of PutImmutable on this key
  Bytes,    \* Bytes[w]: what w writes
  Until,    \* Until[w]: the retention w asks for
  None      \* nothing at the key

VARIABLES
  object,   \* what the key holds
  result    \* result[w]: what w's caller has been told

vars == <<object, result>>

Pending == [outcome |-> "pending", until |-> 0]
Failed  == [outcome |-> "failed", until |-> 0]
Refused == [outcome |-> "refused", until |-> 0]
Stored(until) == [outcome |-> "stored", until |-> until]

Init ==
  /\ object = None
  /\ result = [w \in Writers |-> Pending]

Write(w) ==
  /\ object = None
  /\ object' = [bytes |-> Bytes[w], until |-> Until[w]]
  /\ UNCHANGED result

Tell(w, told) ==
  /\ result[w] = Pending
  /\ result' = [result EXCEPT ![w] = told]
  /\ UNCHANGED object

\* The object may be an earlier write's, if it holds the same bytes.
TellStored(w, until) ==
  /\ object # None
  /\ object.bytes = Bytes[w]
  /\ until <= object.until
  /\ Tell(w, Stored(until))

TellRefused(w) == object # None /\ Tell(w, Refused)

TellFailed(w) == Tell(w, Failed)

Next ==
  \E w \in Writers :
    \/ Write(w)
    \/ \E until \in {0} \cup {Until[v] : v \in Writers} : TellStored(w, until)
    \/ TellRefused(w)
    \/ TellFailed(w)

Spec == Init /\ [][Next]_vars
=============================================================================
