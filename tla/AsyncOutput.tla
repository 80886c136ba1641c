---------------------------- MODULE AsyncOutput ----------------------------
(***************************************************************************)
(* Who settles a batch: the worker's main thread, which executes batches   *)
(* one after the other, and its output thread, which hands their results   *)
(* to the engine (AsyncOutput of async_utils.py, async_output_busy_loop of *)
(* multiproc_executor.py, and the ownership callback of model_runner.py).  *)
(*                                                                         *)
(* Each sampled batch has one completion callback, which reports accepted  *)
(* ends to the live block tracker.  Both threads may run it: the output    *)
(* thread in get_output, the main thread in resolve_completion before it   *)
(* moves ownership on.  The batch's lock decides which one does, but no    *)
(* lock protects the tracker or _kvarn_mla_pending_resolution.             *)
(*                                                                         *)
(* KVarNServing treats settling as one atomic step that always happens     *)
(* before the next ownership update; this module shows why it may.         *)
(*                                                                         *)
(* Only the rank that answers the engine gives its outputs to the output   *)
(* thread.  Batches are numbered in order; a request's ownership_step is   *)
(* the number of its last batch, so that the two guards of the callback    *)
(* (tracker_key and ownership_step) are one comparison.                    *)
(***************************************************************************)
EXTENDS Naturals, Sequences, FiniteSets

CONSTANTS
    Req,         \* requests
    MaxBatch,    \* bound on the batches that are executed
    Depth        \* max_concurrent_batches of the engine's batch queue

ASSUME AsyncAssumption ==
    /\ IsFiniteSet(Req)
    /\ MaxBatch \in Nat /\ Depth \in Nat \ {0}

VARIABLES
    outputRank, \* whether this rank answers the engine (rank = output_rank)
    at,        \* where each thread is
    on,        \* the batch it is there for
    todo,      \* the requests its running callback still has to settle
    executed,  \* the number of batches the main thread has taken
    members,   \* per batch, the requests its callback will settle
    step,      \* per request, its ownership_step; 0 when the runner forgot it
    open,      \* requests with pending blocks in the tracker
    pending,   \* _kvarn_mla_pending_resolution: a batch, or 0
    callback,  \* batches whose completion_callback is set
    locked,    \* batches whose completion_lock is held
    copied,    \* batches whose copy_event has fired
    queue,     \* async_output_queue
    answered,  \* the number of batches the engine has an answer for
    error      \* "none", or the RuntimeError the main thread raised

vars == <<outputRank, at, on, todo, executed, members, step, open, pending,
          callback, locked, copied, queue, answered, error>>

Thread == {"main", "output"}
Batch  == 1 .. MaxBatch

Place == {"idle", "check", "synchronize", "claim", "callback", "clear", "done",
          "update", "sample", "answer", "dead"}

Goto(t, place)          == at' = [at EXCEPT ![t] = place]
Handle(t, place, batch) == Goto(t, place) /\ on' = [on EXCEPT ![t] = batch]

-----------------------------------------------------------------------------
(* _run_completion_callback, on either thread. *)

\* Slip: the callback is claimed under the lock and run after giving it back.
ClaimThenUnlock(t) ==
    LET n == on[t]
    IN  /\ at[t] = "claim" /\ n \notin locked
        /\ callback' = callback \ {n}
        /\ IF n \in callback
           THEN todo' = [todo EXCEPT ![t] = members[n]] /\ Goto(t, "callback")
           ELSE UNCHANGED todo /\ Goto(t, "done")
        /\ UNCHANGED <<outputRank, on, executed, members, step, open, pending,
                       locked, copied, queue, answered, error>>

\* Claim the callback under the lock, or find it gone.
Claim(t) ==
    LET n == on[t]
    IN  /\ at[t] = "claim" /\ n \notin locked
        /\ callback' = callback \ {n}
        /\ IF n \in callback
           THEN /\ locked' = locked \cup {n}
                /\ todo' = [todo EXCEPT ![t] = members[n]]
                /\ Goto(t, "callback")
           ELSE UNCHANGED <<locked, todo>> /\ Goto(t, "done")
        /\ UNCHANGED <<outputRank, on, executed, members, step, open, pending,
                       copied, queue, answered, error>>

\* One request of the callback: resolve_async, unless it moved on.
SettleRequest(t) ==
    /\ at[t] = "callback"
    /\ \E r \in todo[t] :
        /\ todo' = [todo EXCEPT ![t] = @ \ {r}]
        /\ open' = IF step[r] = on[t] THEN open \ {r} ELSE open
    /\ UNCHANGED <<outputRank, at, on, executed, members, step, pending, callback,
                   locked, copied, queue, answered, error>>

\* Slip: the lock is given back before the pending resolution is cleared.
ClearUnlocked(t) ==
    /\ at[t] \in {"callback", "clear"} /\ todo[t] = {}
    /\ IF at[t] = "callback"
       THEN locked' = locked \ {on[t]} /\ UNCHANGED pending /\ Goto(t, "clear")
       ELSE pending' = 0 /\ UNCHANGED locked /\ Goto(t, "done")
    /\ UNCHANGED <<outputRank, on, todo, executed, members, step, open, callback,
                   copied, queue, answered, error>>

\* Slip: the lock is never given back.
ClearKeepsLock(t) ==
    /\ at[t] = "callback" /\ todo[t] = {}
    /\ pending' = 0
    /\ Goto(t, "done")
    /\ UNCHANGED <<outputRank, on, todo, executed, members, step, open, callback,
                   locked, copied, queue, answered, error>>

\* The last statement of the callback, and the end of the locked region.
Clear(t) ==
    /\ at[t] = "callback" /\ todo[t] = {}
    /\ pending' = 0
    /\ locked' = locked \ {on[t]}
    /\ Goto(t, "done")
    /\ UNCHANGED <<outputRank, on, todo, executed, members, step, open, callback,
                   copied, queue, answered, error>>

\* Slip: the event is queried instead of waited for.
SynchronizeQuery(t) ==
    /\ at[t] = "synchronize"
    /\ Goto(t, IF on[t] \in copied THEN "claim" ELSE "done")
    /\ UNCHANGED <<outputRank, on, todo, executed, members, step, open, pending,
                   callback, locked, copied, queue, answered, error>>

\* copy_event.synchronize().
Synchronize(t) ==
    /\ at[t] = "synchronize" /\ on[t] \in copied
    /\ Goto(t, "claim")
    /\ UNCHANGED <<outputRank, on, todo, executed, members, step, open, pending,
                   callback, locked, copied, queue, answered, error>>

-----------------------------------------------------------------------------
(* The main thread: execute_model and sample_tokens. *)

\* The engine sends the next batch while its queue has room.
Take ==
    /\ at["main"] = "idle" /\ executed < MaxBatch
    /\ executed - answered < Depth
    /\ executed' = executed + 1
    /\ IF pending = 0 THEN Handle("main", "update", executed + 1)
       ELSE Handle("main", "check", pending)
    /\ pending' = 0
    /\ UNCHANGED <<outputRank, todo, members, step, open, callback, locked, copied,
                   queue, answered, error>>

\* Slip: the callback is looked at without the lock.
CheckUnlocked ==
    /\ at["main"] = "check"
    /\ Goto("main", IF on["main"] \in callback THEN "synchronize" ELSE "done")
    /\ UNCHANGED <<outputRank, on, todo, executed, members, step, open, pending,
                   callback, locked, copied, queue, answered, error>>

\* resolve_completion: is the callback still there?  Waits for the lock, hence
\* for a callback that the output thread is running.
Check ==
    /\ at["main"] = "check" /\ on["main"] \notin locked
    /\ Goto("main", IF on["main"] \in callback THEN "synchronize" ELSE "done")
    /\ UNCHANGED <<outputRank, on, todo, executed, members, step, open, pending,
                   callback, locked, copied, queue, answered, error>>

Resolved ==
    /\ at["main"] = "done"
    /\ Handle("main", "update", executed)
    /\ UNCHANGED <<outputRank, todo, executed, members, step, open, pending,
                   callback, locked, copied, queue, answered, error>>

\* finish_requests and _update_kvarn_mla_ownership: some requests leave, the
\* scheduled ones open an epoch.  A batch of no tokens is answered at once.
Update ==
    /\ at["main"] = "update"
    /\ \E gone, scheduled \in SUBSET Req :
        IF scheduled \cap (open \ gone) # {}
        THEN /\ error' = "unresolved"
             /\ Goto("main", "dead")
             /\ UNCHANGED <<members, step, open>>
        ELSE /\ members' = [members EXCEPT ![executed] = scheduled]
             /\ step' = [r \in Req |-> IF r \in scheduled THEN executed
                                       ELSE IF r \in gone THEN 0 ELSE step[r]]
             /\ open' = (open \ gone) \cup scheduled
             /\ Goto("main", IF scheduled = {} THEN "answer" ELSE "sample")
             /\ UNCHANGED error
    /\ UNCHANGED <<outputRank, on, todo, executed, pending, callback, locked,
                   copied, queue, answered>>

\* The output object is made and its callback remembered.
Stash ==
    /\ at["main"] = "sample"
    /\ IF pending # 0
       THEN /\ error' = "overwritten"
            /\ Goto("main", "dead")
            /\ UNCHANGED <<pending, callback>>
       ELSE /\ pending' = executed
            /\ callback' = callback \cup {executed}
            /\ Goto("main", "answer")
            /\ UNCHANGED error
    /\ UNCHANGED <<outputRank, on, todo, executed, members, step, open, locked,
                   copied, queue, answered>>

\* Slip: the output that is remembered is handed over, not the batch's own.
AnswerPending ==
    /\ at["main"] = "answer"
    /\ queue' = IF outputRank THEN Append(queue, pending) ELSE queue
    /\ Handle("main", "idle", 0)
    /\ UNCHANGED <<outputRank, todo, executed, members, step, open, pending,
                   callback, locked, copied, answered, error>>

\* handle_output, on the rank that answers.
Answer ==
    /\ at["main"] = "answer"
    /\ queue' = IF outputRank THEN Append(queue, executed) ELSE queue
    /\ Handle("main", "idle", 0)
    /\ UNCHANGED <<outputRank, todo, executed, members, step, open, pending,
                   callback, locked, copied, answered, error>>

\* The GPU finishes the copies of the batches in order.
Copy ==
    /\ \E n \in Batch \ copied :
        /\ n <= executed
        /\ n = executed => at["main"] \in {"answer", "idle"}
        /\ 1 .. n - 1 \subseteq copied
        /\ copied' = copied \cup {n}
    /\ UNCHANGED <<outputRank, at, on, todo, executed, members, step, open, pending,
                   callback, locked, queue, answered, error>>

-----------------------------------------------------------------------------
(* The output thread. *)

\* The output of a batch of no tokens has nothing to wait for.
Dequeue ==
    /\ at["output"] = "idle" /\ queue # << >>
    /\ queue' = Tail(queue)
    /\ Handle("output", IF members[Head(queue)] = {} THEN "done" ELSE "synchronize", Head(queue))
    /\ UNCHANGED <<outputRank, todo, executed, members, step, open, pending,
                   callback, locked, copied, answered, error>>

Deliver ==
    /\ at["output"] = "done"
    /\ answered' = on["output"]
    /\ Handle("output", "idle", 0)
    /\ UNCHANGED <<outputRank, todo, executed, members, step, open, pending,
                   callback, locked, copied, queue, error>>

\* On any other rank: the answer of the output rank, which has finished the
\* same batch, lets the engine go on.
AnsweredElsewhere ==
    /\ ~outputRank
    /\ answered < executed /\ answered + 1 \in copied
    /\ answered' = answered + 1
    /\ UNCHANGED <<outputRank, at, on, todo, executed, members, step, open, pending,
                   callback, locked, copied, queue, error>>

Init ==
    /\ outputRank \in BOOLEAN
    /\ at = [t \in Thread |-> "idle"] /\ on = [t \in Thread |-> 0]
    /\ todo = [t \in Thread |-> {}]
    /\ executed = 0
    /\ members = [n \in Batch |-> {}]
    /\ step = [r \in Req |-> 0]
    /\ open = {} /\ pending = 0
    /\ callback = {} /\ locked = {} /\ copied = {}
    /\ queue = << >> /\ answered = 0
    /\ error = "none"

Run(t)     == Synchronize(t) \/ Claim(t) \/ SettleRequest(t) \/ Clear(t)
MainStep   == Check \/ Resolved \/ Update \/ Stash \/ Answer \/ Run("main")
OutputStep == Dequeue \/ Deliver \/ Run("output")

Next == Take \/ MainStep \/ OutputStep \/ Copy \/ AnsweredElsewhere

Spec == Init /\ [][Next]_vars

\* Both threads run, the GPU finishes the copies it was given and the output
\* rank answers.  Nothing obliges the engine to send another batch (Take).
Fairness ==
    /\ WF_vars(MainStep) /\ WF_vars(OutputStep)
    /\ WF_vars(Copy) /\ WF_vars(AnsweredElsewhere)

FairSpec == Spec /\ Fairness

-----------------------------------------------------------------------------
(* Properties. *)

\* Threads are at places of their code, batches are numbers already given out,
\* and only outputs of such batches are queued.
TypeOK ==
    /\ outputRank \in BOOLEAN
    /\ at \in [Thread -> Place]
    /\ at["output"] \notin {"check", "update", "sample", "answer", "dead"}
    /\ on \in [Thread -> 0 .. MaxBatch]
    /\ todo \in [Thread -> SUBSET Req]
    /\ executed \in 0 .. MaxBatch /\ answered \in 0 .. executed
    /\ members \in [Batch -> SUBSET Req]
    /\ step \in [Req -> 0 .. executed]
    /\ open \subseteq Req
    /\ pending \in 0 .. executed
    /\ callback \subseteq 1 .. executed
    /\ locked \subseteq 1 .. executed
    /\ copied \subseteq 1 .. executed
    /\ queue \in Seq(1 .. executed)
    /\ error \in {"none", "unresolved", "overwritten"}

\* Neither RuntimeError of the ownership update ("was not resolved before the
\* next scheduler step", "settlement was overwritten") is ever raised: however
\* the two threads interleave, the batch before is settled when ownership moves.
NeverFails == error = "none"

\* The live block trackers have no lock of their own.  While the main thread
\* moves ownership on, the output thread is not inside a callback.
TrackerExclusive == at["main"] = "update" => at["output"] # "callback"

\* A callback that nobody has claimed can still be reached by the main thread:
\* only the latest batch has one, and either its pending resolution is
\* remembered or the main thread is about to run it.
PendingKept ==
    \A n \in callback : pending = n \/ (on["main"] = n /\ at["main"] # "update")

\* What a callback reports is about the epoch that is open: the main thread
\* has not moved the ownership of a request while its callback runs.
CurrentEpochOnly ==
    \A t \in Thread : \A r \in todo[t] : step[r] = on[t]

\* Every batch is answered in the end, so that the engine's queue drains and
\* no thread waits for a lock or an event for ever.
EveryBatchAnswered == \A n \in Batch : executed = n ~> answered >= n

\* The last batch that ownership has moved on to.
Owner ==
    IF at["main"] \in {"check", "synchronize", "claim", "callback", "done", "update"}
    THEN executed - 1 ELSE executed

\* However the threads interleave, they do no more than settle each batch in one
\* step (its last epoch is closed), before ownership moves on, and on the rank
\* that answers before the engine hears of the batch; and they get there.
Promise == INSTANCE Settlement WITH
    owner <- Owner,
    unsettled <- IF open = {} THEN {} ELSE members[Owner]

ImplementsSettlement == Promise!FairSpec
=============================================================================
