----------------------------- MODULE Settlement -----------------------------
(***************************************************************************)
(* What a worker promises about the batches it settles, whatever thread    *)
(* does it: the outcome of a batch reaches the live block tracker in one   *)
(* step and before ownership moves on to the next batch, and the rank that *)
(* answers the engine answers for a batch only after that.                 *)
(*                                                                         *)
(* AsyncOutput implements it with two threads, a lock and an event.        *)
(* KVarNServing relies on it: its Settle and Dispatch are the steps below. *)
(***************************************************************************)
EXTENDS Naturals

CONSTANTS
    Req,         \* requests
    MaxBatch,    \* bound on the batches
    Depth        \* batches the engine has in flight at most

VARIABLES
    outputRank,  \* whether this rank answers the engine
    owner,       \* the batch the ownership of the tracker belongs to; 0: none
    unsettled,   \* the requests of that batch whose epoch is still open
    answered     \* the number of batches the engine has an answer for

vars == <<outputRank, owner, unsettled, answered>>

Init ==
    /\ outputRank \in BOOLEAN
    /\ owner = 0 /\ unsettled = {} /\ answered = 0

\* Ownership moves on; the batch may be one of no tokens.
MoveOn(scheduled) ==
    /\ unsettled = {}
    /\ owner < MaxBatch /\ owner - answered < Depth
    /\ owner' = owner + 1
    /\ unsettled' = scheduled
    /\ UNCHANGED <<outputRank, answered>>

\* The accepted tokens of the whole batch are reported.
Settle ==
    /\ unsettled # {}
    /\ unsettled' = {}
    /\ UNCHANGED <<outputRank, owner, answered>>

\* The engine learns of the oldest batch it waits for.
AnswerNext ==
    /\ answered < owner
    /\ outputRank /\ answered + 1 = owner => unsettled = {}
    /\ answered' = answered + 1
    /\ UNCHANGED <<outputRank, owner, unsettled>>

Next == (\E scheduled \in SUBSET Req : MoveOn(scheduled)) \/ Settle \/ AnswerNext

Spec == Init /\ [][Next]_vars

\* The rank that answers settles without waiting for the next batch.
Fairness == WF_vars(AnswerNext) /\ WF_vars(outputRank /\ Settle)

FairSpec == Spec /\ Fairness
=============================================================================
