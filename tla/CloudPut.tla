------------------------------ MODULE CloudPut ------------------------------
(***************************************************************************)
(* PutImmutable of internal/dest/gcs and internal/dest/azure: a stream is  *)
(* read through exactReader, sent in blocks, and committed create-only     *)
(* once it has ended at exactly the artifact's size. Neither settles a     *)
(* lost answer: the library asks again, and the key is then taken.         *)
(*                                                                         *)
(* One byte of the model stands for as many of the program's as suits its  *)
(* block sizes; MiB, MaxBlocks and MaxStageBlock keep their relations.     *)
(***************************************************************************)
EXTENDS Naturals, FiniteSets

CONSTANTS
  Kinds,          \* the artifacts of a copy, each with its key
  Sizes,          \* sizes an artifact may have
  MiB,            \* bytes in a MiB
  MaxBlocks,      \* blocks Azure commits into a blob at most
  MaxStageBlock,  \* bytes Azure takes in a block at most
  Chunk,          \* bytes the GCS library sends in a request
  MaxOthers,      \* objects another run may put at the copy's keys
  None            \* nothing

ASSUME CloudAssumption ==
  /\ Sizes \subseteq Nat \ {0} /\ MaxOthers \in Nat
  /\ {MiB, MaxBlocks, MaxStageBlock, Chunk} \subseteq Nat \ {0}
  /\ MaxStageBlock % MiB = 0
  /\ None \notin Kinds /\ None \notin [by : {"us", "others"}, length : Nat]
  /\ None \notin [bytes : {"us", "others", "neither"}, until : {0}]

VARIABLES
  store,   \* the destination: "gcs" or "azure"
  object,  \* object[k]: who wrote the object at artifact k's key, and its length
  put      \* the PutImmutable under way, or how the last one ended

cloudVars == <<store, object, put>>

NoPut == [at |-> "none", kind |-> None, size |-> 0, holds |-> 0, block |-> 0,
          sent |-> 0, blocks |-> 0]

CloudInit ==
  /\ store \in {"gcs", "azure"}
  /\ object = [k \in Kinds |-> None]
  /\ put = NoPut

Least(a, b) == IF a < b THEN a ELSE b
Greatest(a, b) == IF a < b THEN b ELSE a

\* Faulty: a last block that is not full is not counted.
FaultyPerBlock(size) == size \div MaxBlocks

\* A blob's bytes over the blocks it may have, rounded up.
PerBlock(size) == size \div MaxBlocks + (IF size % MaxBlocks = 0 THEN 0 ELSE 1)

\* blockSizeFor: whole MiB, one at least.
BlockSizeFor(size) == Greatest(1, (PerBlock(size) + MiB - 1) \div MiB) * MiB

Fits(size) == store = "azure" => PerBlock(size) <= MaxStageBlock

-----------------------------------------------------------------------------
\* PutImmutable is called with artifact k, of that size, and a reader that holds
\* so many bytes.
OpenPut(k, size, holds) ==
  /\ put' = IF Fits(size)
            THEN [NoPut EXCEPT !.at = "sending", !.kind = k, !.size = size, !.holds = holds,
                    !.block = IF store = "azure" THEN BlockSizeFor(size) ELSE Chunk]
            ELSE [NoPut EXCEPT !.at = "failed", !.kind = k, !.size = size]
  /\ UNCHANGED <<store, object>>

\* What exactReader passes on: nothing past the size.
Passes == Least(put.size, put.holds)

SendBlock ==
  /\ put.at = "sending" /\ put.sent < Passes
  /\ put' = [put EXCEPT !.sent = Least(put.sent + put.block, Passes), !.blocks = @ + 1]
  /\ UNCHANGED <<store, object>>

\* Faulty: any end of the stream is its end.
FaultyEndStream ==
  /\ put.at = "sending" /\ put.sent = Passes
  /\ put' = [put EXCEPT !.at = "committing"]
  /\ UNCHANGED <<store, object>>

\* It says io.EOF only at the size. At any other end the upload is abandoned.
EndStream ==
  /\ put.at = "sending" /\ put.sent = Passes
  /\ put' = [put EXCEPT !.at = IF put.holds = put.size THEN "committing" ELSE "failed"]
  /\ UNCHANGED <<store, object>>

\* Faulty: written without a precondition.
FaultyCommit ==
  /\ put.at = "committing"
  /\ object' = [object EXCEPT ![put.kind] = [by |-> "us", length |-> put.sent]]
  /\ put' \in {[put EXCEPT !.at = "stored"], put}
  /\ UNCHANGED store

\* The object is made whole at its key, and the answer comes or is lost.
Commit ==
  /\ put.at = "committing"
  /\ object[put.kind] = None
  /\ object' = [object EXCEPT ![put.kind] = [by |-> "us", length |-> put.sent]]
  /\ put' \in {[put EXCEPT !.at = "stored"], put}
  /\ UNCHANGED store

\* The precondition fails, on another run's object or on our own.
KeyTaken ==
  /\ put.at = "committing"
  /\ object[put.kind] # None
  /\ put' = [put EXCEPT !.at = "failed"]
  /\ UNCHANGED <<store, object>>

\* The store or the disk fails, or the run is stopped.
BreakPut ==
  /\ put.at \in {"sending", "committing"}
  /\ put' = [put EXCEPT !.at = "failed"]
  /\ UNCHANGED <<store, object>>

PutStep == SendBlock \/ EndStream \/ Commit \/ KeyTaken \/ BreakPut

\* Another run of the same date has the same keys.
OtherPut ==
  /\ Cardinality({k \in Kinds : object[k] # None /\ object[k].by = "others"}) < MaxOthers
  /\ \E k \in Kinds :
       /\ object[k] = None
       /\ object' = [object EXCEPT ![k] = [by |-> "others", length |-> 1]]
  /\ UNCHANGED <<store, put>>

-----------------------------------------------------------------------------
PutType == [at : {"none", "sending", "committing", "stored", "failed"}, kind : Kinds \cup {None},
            size : Nat, holds : Nat, block : Nat, sent : Nat, blocks : Nat]

\* An Azure upload stays within the blocks a blob may have and the bytes of one.
BlocksFit == store = "azure" => put.blocks <= MaxBlocks /\ put.block <= MaxStageBlock

CloudTypeOK ==
  /\ store \in {"gcs", "azure"}
  /\ object \in [Kinds -> [by : {"us", "others"}, length : Nat] \cup {None}]
  /\ put \in PutType
  /\ BlocksFit

Ours(k) == object[k] # None /\ object[k].by = "us"
=============================================================================
