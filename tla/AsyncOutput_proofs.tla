------------------------- MODULE AsyncOutput_proofs -------------------------
(***************************************************************************)
(* Proofs about AsyncOutput for any requests, any number of batches and    *)
(* any depth of the engine's queue: no thread fails, the tracker is used   *)
(* by one thread at a time, and what the two threads do is the atomic      *)
(* settlement of module Settlement.                                        *)
(***************************************************************************)
EXTENDS AsyncOutput, SequenceTheorems, TLAPS

(***************************************************************************)
(* The inductive invariant.                                                *)
(***************************************************************************)

\* The batch that is being settled, or waits for it: none, or Owner.
Live == callback \cup locked

\* A lock is held by the thread that runs the callback, and by one thread only.
\* No slip of the code occurs.
LockInv ==
    /\ error = "none"
    /\ at["main"] # "dead"
    /\ \A t \in Thread : at[t] # "clear"
    /\ \A t \in Thread : at[t] = "callback" => on[t] \in locked
    /\ \A n \in locked : \E t \in Thread : at[t] = "callback" /\ on[t] = n
    /\ ~ (at["main"] = "callback" /\ at["output"] = "callback")

\* Only the last batch can be live.  The main thread makes it live in Stash and
\* finds it settled before it moves ownership on.
LiveInv ==
    /\ Owner \in Nat
    /\ Live \subseteq {Owner}
    /\ callback \cap locked = {}
    /\ at["main"] \in {"done", "update", "sample"} => Live = {}
    /\ at["main"] # "idle" => executed > 0
    /\ at["main"] \in {"check", "synchronize", "claim", "callback", "done"}
         => on["main"] = Owner /\ Owner > 0
    /\ Live # {} => members[Owner] # {}

\* The pending resolution is the live batch as long as the main thread is not
\* settling it itself.
PendingInv ==
    /\ pending # 0 => pending = Owner /\ at["main"] \in {"idle", "answer"}
                      /\ Live # {}
    /\ at["main"] \in {"idle", "answer"} /\ Live # {} => pending = Owner

\* Open epochs are epochs of the last batch, and a callback that runs will
\* close those that are left.
EpochInv ==
    /\ open # {} => at["main"] = "sample" \/ Live # {}
    /\ open # {} => open \subseteq members[Owner]
    /\ at["main"] = "sample" => members[Owner] # {}
    /\ at["main"] = "sample" \/ Live # {}
         => \A r \in members[Owner] : step[r] = Owner
    /\ \A t \in Thread :
         /\ at[t] # "callback" => todo[t] = {}
         /\ at[t] = "callback" => open \subseteq todo[t] /\ todo[t] \subseteq members[on[t]]

\* Batches are handed over, taken up and answered in order.
Handed == IF at["main"] = "idle" THEN executed ELSE executed - 1
Held   == IF at["output"] = "idle" THEN 0 ELSE 1

QueueInv ==
    /\ outputRank =>
         /\ answered + Held + Len(queue) = Handed
         /\ \A i \in 1 .. Len(queue) : queue[i] = answered + Held + i
         /\ Held = 1 => on["output"] = answered + 1
    /\ ~ outputRank => queue = << >> /\ at["output"] = "idle"
    /\ at["output"] = "done" => on["output"] \notin Live
    /\ executed \in copied => at["main"] \in {"idle", "answer"}
    /\ at["main"] # "idle" => executed - 1 - answered < Depth

IInv == TypeOK /\ LockInv /\ LiveInv /\ PendingInv /\ EpochInv /\ QueueInv

LEMMA InitInv == Init => IInv
BY AsyncAssumption
   DEF Init, IInv, TypeOK, LockInv, LiveInv, PendingInv, EpochInv, QueueInv, Owner, Live,
       Handed, Held, Thread, Place, Batch

LEMMA SynchronizeInv ==
    ASSUME IInv, NEW t \in Thread, Synchronize(t)
    PROVE  IInv'
<1> USE AsyncAssumption DEF Synchronize, Goto, IInv, Thread
<1>1. TypeOK'
  BY DEF TypeOK, Place
<1>2. LockInv'
  BY DEF LockInv, TypeOK
<1>3. LiveInv'
  BY DEF LiveInv, TypeOK, Live, Owner
<1>4. PendingInv'
  BY DEF PendingInv, TypeOK, Live, Owner
<1>5. EpochInv'
  BY DEF EpochInv, TypeOK, Live, Owner
<1>6. QueueInv'
  BY DEF QueueInv, TypeOK, Live, Owner, Handed, Held
<1> QED
  BY <1>1, <1>2, <1>3, <1>4, <1>5, <1>6

LEMMA ClaimInv ==
    ASSUME IInv, NEW t \in Thread, Claim(t)
    PROVE  IInv'
<1> USE DEF Claim, Goto, IInv
<1>1. CASE on[t] \in callback
  <2>1. callback = {Owner} /\ on[t] = Owner /\ Owner # 0 /\ locked = {}
    <3>1. callback \subseteq {Owner} /\ locked \subseteq {Owner}
      BY DEF LiveInv, Live
    <3>2. on[t] \notin locked
      OBVIOUS
    <3>3. on[t] # 0
      BY <1>1 DEF TypeOK
    <3> QED
      BY <1>1, <3>1, <3>2, <3>3
  <2>2. /\ callback' = {} /\ locked' = {Owner} /\ at' = [at EXCEPT ![t] = "callback"]
        /\ todo' = [todo EXCEPT ![t] = members[Owner]]
        /\ UNCHANGED <<outputRank, on, executed, members, step, open, pending, copied,
                       queue, answered, error>>
    BY <1>1, <2>1
  <2>3. Owner' = Owner /\ Live' = Live /\ Owner \in 1 .. executed
    BY <2>1, <2>2 DEF Owner, Live, Thread, TypeOK
  <2>4. TypeOK'
    <3>1. Owner \in Batch /\ members[Owner] \subseteq Req
      BY <2>3, AsyncAssumption DEF TypeOK, Batch
    <3>2. at' \in [Thread -> Place] /\ todo' \in [Thread -> SUBSET Req]
      BY <2>2, <3>1 DEF TypeOK, Place, Thread
    <3>3. at'["output"] \notin {"check", "update", "sample", "answer", "dead"}
      BY <2>2 DEF TypeOK, Thread
    <3> QED
      BY <2>2, <2>3, <3>2, <3>3 DEF TypeOK
  <2>5. \A u \in Thread : at[u] # "callback"
    BY <2>1 DEF LockInv
  <2>6. LockInv'
    BY <2>1, <2>2, <2>3, <2>5 DEF LockInv, Thread, TypeOK
  <2>7. LiveInv'
    BY <2>1, <2>2, <2>3 DEF LiveInv, Live, TypeOK, Thread
  <2>8. PendingInv'
    BY <2>2, <2>3 DEF PendingInv, TypeOK, Thread
  <2>9. EpochInv'
    BY <2>1, <2>2, <2>3, <2>5 DEF EpochInv, TypeOK, Thread, Live
  <2>10. QueueInv'
    BY <2>1, <2>2, <2>3 DEF QueueInv, TypeOK, Thread, Handed, Held
  <2> QED
    BY <2>4, <2>6, <2>7, <2>8, <2>9, <2>10
<1>2. CASE on[t] \notin callback
  <2>1. /\ at' = [at EXCEPT ![t] = "done"]
        /\ UNCHANGED <<outputRank, on, todo, executed, members, step, open, pending,
                       callback, locked, copied, queue, answered, error>>
    BY <1>2
  <2>2. Owner' = Owner /\ Live' = Live
    BY <2>1 DEF Owner, Live, Thread, TypeOK
  <2>3. on[t] \notin Live
    BY <1>2 DEF Live
  <2>4. TypeOK'
    BY <2>1 DEF TypeOK, Place, Thread
  <2>5. LockInv'
    BY <2>1 DEF LockInv, Thread, TypeOK
  <2>6. LiveInv'
    <3>1. CASE t = "main"
      <4>1. at["main"] = "claim" /\ on["main"] = Owner /\ Owner > 0 /\ executed > 0
        BY <3>1 DEF LiveInv
      <4>2. Live = {}
        BY <2>3, <3>1, <4>1 DEF LiveInv
      <4> QED
        BY <2>1, <2>2, <3>1, <4>1, <4>2 DEF LiveInv, TypeOK, Thread
    <3>2. CASE t = "output"
      BY <2>1, <2>2, <3>2 DEF LiveInv, TypeOK, Thread
    <3> QED
      BY <3>1, <3>2 DEF Thread
  <2>7. PendingInv'
    BY <2>1, <2>2 DEF PendingInv, TypeOK, Thread
  <2>8. EpochInv'
    BY <2>1, <2>2 DEF EpochInv, TypeOK, Thread
  <2>9. QueueInv'
    BY <2>1, <2>2, <2>3 DEF QueueInv, TypeOK, Thread, Handed, Held
  <2> QED
    BY <2>4, <2>5, <2>6, <2>7, <2>8, <2>9
<1> QED
  BY <1>1, <1>2

LEMMA SettleRequestInv ==
    ASSUME IInv, NEW t \in Thread, SettleRequest(t)
    PROVE  IInv'
<1> USE AsyncAssumption DEF SettleRequest, IInv, Thread
<1>1. TypeOK'
  BY DEF TypeOK, Place, Batch, LockInv, LiveInv, Live, Owner
<1>2. LockInv'
  BY DEF LockInv, TypeOK, LiveInv, Live, Owner, PendingInv
<1>3. LiveInv'
  BY DEF LiveInv, TypeOK, Live, Owner, LockInv, PendingInv, EpochInv
<1>4. PendingInv'
  BY DEF PendingInv, TypeOK, Live, Owner, LiveInv, LockInv
<1>5. EpochInv'
  BY DEF EpochInv, TypeOK, Live, Owner, LiveInv, LockInv
<1>6. QueueInv'
  BY DEF QueueInv, TypeOK, Live, Owner, Handed, Held, LiveInv, LockInv, EpochInv, PendingInv
<1> QED
  BY <1>1, <1>2, <1>3, <1>4, <1>5, <1>6

LEMMA ClearInv ==
    ASSUME IInv, NEW t \in Thread, Clear(t)
    PROVE  IInv'
<1> USE DEF IInv
<1>1. /\ at[t] = "callback" /\ todo[t] = {}
      /\ pending' = 0 /\ locked' = locked \ {on[t]}
      /\ at' = [at EXCEPT ![t] = "done"]
      /\ UNCHANGED <<outputRank, on, todo, executed, members, step, open, callback,
                     copied, queue, answered, error>>
  BY DEF Clear, Goto
<1>2. locked = {Owner} /\ on[t] = Owner /\ callback = {}
  BY <1>1 DEF LockInv, LiveInv, Live
<1>3. Owner' = Owner /\ locked' = {} /\ Live' = {}
  BY <1>1, <1>2 DEF Owner, Live, Thread, TypeOK
<1>4. open = {}
  BY <1>1 DEF EpochInv
<1>5. at["main"] \notin {"done", "update", "sample"}
  BY <1>2 DEF LiveInv, Live
<1>6. TypeOK'
  <2>1. executed \in Nat /\ at' \in [Thread -> Place]
    BY <1>1, AsyncAssumption DEF TypeOK, Place, Thread
  <2>2. at'["output"] \notin {"check", "update", "sample", "answer", "dead"}
    BY <1>1 DEF TypeOK, Thread
  <2> QED
    BY <1>1, <1>3, <2>1, <2>2 DEF TypeOK
<1>7. LockInv'
  BY <1>1, <1>2, <1>3 DEF LockInv, Thread, TypeOK
<1>8. LiveInv'
  BY <1>1, <1>2, <1>3 DEF LiveInv, Thread, TypeOK
<1>9. PendingInv'
  BY <1>1, <1>3 DEF PendingInv
<1>10. EpochInv'
  BY <1>1, <1>3, <1>4, <1>5 DEF EpochInv, Thread, TypeOK
<1>11. QueueInv'
  BY <1>1, <1>3 DEF QueueInv, Thread, TypeOK, Handed, Held
<1> QED
  BY <1>6, <1>7, <1>8, <1>9, <1>10, <1>11

LEMMA TakeInv ==
    ASSUME IInv, Take
    PROVE  IInv'
<1> USE AsyncAssumption DEF Take, Goto, Handle, IInv, Thread
<1>1. TypeOK'
  BY DEF TypeOK, Place, Batch, LockInv, LiveInv, Live, Owner
<1>2. LockInv'
  BY DEF LockInv, TypeOK, LiveInv, Live, Owner, PendingInv
<1>3. LiveInv'
  BY DEF LiveInv, TypeOK, Live, Owner, LockInv, PendingInv, EpochInv
<1>4. PendingInv'
  BY DEF PendingInv, TypeOK, Live, Owner, LiveInv, LockInv
<1>5. EpochInv'
  BY DEF EpochInv, TypeOK, Live, Owner, LiveInv, LockInv
<1>6. QueueInv'
  BY DEF QueueInv, TypeOK, Live, Owner, Handed, Held, LiveInv, LockInv, EpochInv, PendingInv
<1> QED
  BY <1>1, <1>2, <1>3, <1>4, <1>5, <1>6

LEMMA CheckInv ==
    ASSUME IInv, Check
    PROVE  IInv'
<1> USE AsyncAssumption DEF Check, Goto, IInv, Thread
<1>1. TypeOK'
  BY DEF TypeOK, Place, Batch, LockInv, LiveInv, Live, Owner
<1>2. LockInv'
  BY DEF LockInv, TypeOK, LiveInv, Live, Owner, PendingInv
<1>3. LiveInv'
  BY DEF LiveInv, TypeOK, Live, Owner, LockInv, PendingInv, EpochInv
<1>4. PendingInv'
  BY DEF PendingInv, TypeOK, Live, Owner, LiveInv, LockInv
<1>5. EpochInv'
  BY DEF EpochInv, TypeOK, Live, Owner, LiveInv, LockInv
<1>6. QueueInv'
  BY DEF QueueInv, TypeOK, Live, Owner, Handed, Held, LiveInv, LockInv, EpochInv, PendingInv
<1> QED
  BY <1>1, <1>2, <1>3, <1>4, <1>5, <1>6

LEMMA ResolvedInv ==
    ASSUME IInv, Resolved
    PROVE  IInv'
<1> USE AsyncAssumption DEF Resolved, Goto, Handle, IInv, Thread
<1>1. TypeOK'
  BY DEF TypeOK, Place, Batch, LockInv, LiveInv, Live, Owner
<1>2. LockInv'
  BY DEF LockInv, TypeOK, LiveInv, Live, Owner, PendingInv
<1>3. LiveInv'
  BY DEF LiveInv, TypeOK, Live, Owner, LockInv, PendingInv, EpochInv
<1>4. PendingInv'
  BY DEF PendingInv, TypeOK, Live, Owner, LiveInv, LockInv
<1>5. EpochInv'
  BY DEF EpochInv, TypeOK, Live, Owner, LiveInv, LockInv
<1>6. QueueInv'
  BY DEF QueueInv, TypeOK, Live, Owner, Handed, Held, LiveInv, LockInv, EpochInv, PendingInv
<1> QED
  BY <1>1, <1>2, <1>3, <1>4, <1>5, <1>6

LEMMA UpdateInv ==
    ASSUME IInv, Update
    PROVE  IInv'
<1> USE DEF IInv
<1>1. /\ at["main"] = "update"
      /\ UNCHANGED <<outputRank, on, todo, executed, pending, callback, locked, copied,
                     queue, answered>>
  BY DEF Update
<1>2. Live = {} /\ open = {} /\ pending = 0 /\ Owner = executed - 1
      /\ executed \in Batch
  <2>1. Live = {} /\ open = {} /\ pending = 0
    BY <1>1 DEF LiveInv, EpochInv, PendingInv
  <2>2. executed \in Batch
    BY <1>1, AsyncAssumption DEF LiveInv, TypeOK, Batch
  <2> QED
    BY <1>1, <2>1, <2>2 DEF Owner
<1>3. PICK scheduled \in SUBSET Req, gone \in SUBSET Req :
        /\ error' = error
        /\ members' = [members EXCEPT ![executed] = scheduled]
        /\ step' = [r \in Req |-> IF r \in scheduled THEN executed
                                  ELSE IF r \in gone THEN 0 ELSE step[r]]
        /\ open' = scheduled
        /\ at' = [at EXCEPT !["main"] = IF scheduled = {} THEN "answer" ELSE "sample"]
  BY <1>2 DEF Update, Goto
<1>4. Owner' = executed /\ Live' = {} /\ members'[executed] = scheduled
  BY <1>1, <1>2, <1>3 DEF Owner, Live, TypeOK, Thread
<1>5. TypeOK'
  <2>1. at' \in [Thread -> Place] /\ at'["output"] = at["output"]
    BY <1>3 DEF TypeOK, Place, Thread
  <2>2. members' \in [Batch -> SUBSET Req] /\ step' \in [Req -> 0 .. executed]
    BY <1>2, <1>3 DEF TypeOK, Batch
  <2> QED
    BY <1>1, <1>3, <2>1, <2>2 DEF TypeOK
<1>6. LockInv'
  BY <1>1, <1>3 DEF LockInv, Thread, TypeOK
<1>7. LiveInv'
  <2>1. executed \in Nat /\ executed > 0 /\ at'["main"] \in {"answer", "sample"}
    BY <1>2, <1>3, AsyncAssumption DEF Batch, TypeOK, Thread
  <2>2. callback' = callback /\ locked' = locked /\ executed' = executed
    BY <1>1
  <2> QED
    BY <1>4, <2>1, <2>2 DEF LiveInv
<1>8. PendingInv'
  BY <1>1, <1>2, <1>4 DEF PendingInv
<1>9. EpochInv'
  <2>1. \A u \in Thread : at[u] # "callback" /\ at'[u] # "callback" /\ todo[u] = {}
    BY <1>1, <1>2, <1>3 DEF LockInv, Live, EpochInv, Thread, TypeOK
  <2>2. open' # {} => at'["main"] = "sample"
    BY <1>3 DEF TypeOK, Thread
  <2>3. \A r \in scheduled : step'[r] = executed
    BY <1>3
  <2>4. at'["main"] = "sample" => scheduled # {}
    BY <1>3 DEF TypeOK, Thread
  <2> QED
    BY <1>1, <1>3, <1>4, <2>1, <2>2, <2>3, <2>4 DEF EpochInv
<1>10. QueueInv'
  BY <1>1, <1>3, <1>4 DEF QueueInv, Thread, TypeOK, Handed, Held
<1> QED
  BY <1>5, <1>6, <1>7, <1>8, <1>9, <1>10

LEMMA StashInv ==
    ASSUME IInv, Stash
    PROVE  IInv'
<1> USE DEF IInv
<1>1. at["main"] = "sample" /\ pending = 0 /\ Live = {} /\ Owner = executed
      /\ executed \in Batch
  BY DEF Stash, PendingInv, LiveInv, Owner, TypeOK, Batch
<1>2. /\ pending' = executed /\ callback' = {executed} /\ locked' = {}
      /\ at' = [at EXCEPT !["main"] = "answer"]
      /\ UNCHANGED <<outputRank, on, todo, executed, members, step, open, copied, queue,
                     answered, error>>
  BY <1>1 DEF Stash, Goto, Live
<1>3. Owner' = executed /\ Live' = {executed}
  BY <1>1, <1>2 DEF Owner, Live, TypeOK, Thread
<1>4. TypeOK'
  BY <1>1, <1>2 DEF TypeOK, Place, Thread, Batch
<1>5. LockInv'
  BY <1>1, <1>2 DEF LockInv, Thread, TypeOK, Live
<1>6. LiveInv'
  BY <1>1, <1>2, <1>3 DEF LiveInv, EpochInv, Thread, TypeOK, Batch
<1>7. PendingInv'
  BY <1>2, <1>3 DEF PendingInv, Thread, TypeOK
<1>8. EpochInv'
  BY <1>1, <1>2, <1>3 DEF EpochInv, Thread, TypeOK
<1>9. QueueInv'
  <2>1. at["output"] # "idle" => on["output"] # executed
    BY <1>1 DEF QueueInv, Handed, Held, TypeOK, Batch
  <2> QED
    BY <1>1, <1>2, <1>3, <2>1 DEF QueueInv, Thread, TypeOK, Handed, Held
<1> QED
  BY <1>4, <1>5, <1>6, <1>7, <1>8, <1>9

LEMMA AnswerInv ==
    ASSUME IInv, Answer
    PROVE  IInv'
<1> USE DEF IInv
<1>1. /\ at["main"] = "answer"
      /\ queue' = IF outputRank THEN Append(queue, executed) ELSE queue
      /\ at' = [at EXCEPT !["main"] = "idle"] /\ on' = [on EXCEPT !["main"] = 0]
      /\ UNCHANGED <<outputRank, todo, executed, members, step, open, pending, callback,
                     locked, copied, answered, error>>
  BY DEF Answer, Handle, Goto
<1>2. executed > 0 /\ executed \in Nat /\ queue \in Seq(1 .. executed)
  BY <1>1 DEF LiveInv, TypeOK
<1>3. Owner' = Owner /\ Live' = Live
  BY <1>1 DEF Owner, Live, TypeOK, Thread
<1>4. TypeOK'
  <2>1. queue' \in Seq(1 .. executed)
    <3>1. executed \in 1 .. executed
      BY <1>2
    <3>2. Append(queue, executed) \in Seq(1 .. executed)
      BY <1>2, <3>1
    <3> QED
      BY <1>1, <1>2, <3>2
  <2>2. at' \in [Thread -> Place] /\ at'["output"] = at["output"]
        /\ on' \in [Thread -> 0 .. MaxBatch]
    BY <1>1, AsyncAssumption DEF TypeOK, Place, Thread
  <2> QED
    BY <1>1, <2>1, <2>2 DEF TypeOK
<1>5. LockInv'
  BY <1>1 DEF LockInv, Thread, TypeOK
<1>6. LiveInv'
  BY <1>1, <1>3 DEF LiveInv, Thread, TypeOK
<1>7. PendingInv'
  BY <1>1, <1>3 DEF PendingInv, Thread, TypeOK
<1>8. EpochInv'
  BY <1>1, <1>3 DEF EpochInv, Thread, TypeOK
<1>9. QueueInv'
  <2>1. CASE outputRank
    <3>1. Len(queue') = Len(queue) + 1 /\ queue'[Len(queue) + 1] = executed
          /\ \A i \in 1 .. Len(queue) : queue'[i] = queue[i]
      BY <1>1, <1>2, <2>1
    <3>2. Handed' = Handed + 1 /\ Held' = Held /\ on'["output"] = on["output"]
          /\ Handed' = executed
      BY <1>1, <1>2 DEF Handed, Held, TypeOK, Thread
    <3>3. answered + Held + Len(queue) = Handed
          /\ Len(queue) \in Nat /\ Held \in {0, 1} /\ answered \in Nat
      BY <1>2, <2>1 DEF QueueInv, Held, TypeOK
    <3>4. answered' = answered
      BY <1>1
    <3>5. answered' + Held' + Len(queue') = Handed'
      BY <3>1, <3>2, <3>3, <3>4
    <3>6. \A i \in 1 .. Len(queue) : queue[i] = answered + Held + i
      BY <2>1 DEF QueueInv
    <3>7. executed = answered + Held + (Len(queue) + 1)
      BY <3>1, <3>2, <3>3
    <3>8. ASSUME NEW i \in 1 .. Len(queue')
          PROVE  queue'[i] = answered + Held + i
      <4>1. i \in 1 .. Len(queue) \/ i = Len(queue) + 1
        BY <3>1, <3>3
      <4> QED
        BY <3>1, <3>6, <3>7, <4>1
    <3>9. \A i \in 1 .. Len(queue') : queue'[i] = answered' + Held' + i
      BY <3>2, <3>4, <3>8
    <3> QED
      BY <1>1, <1>3, <2>1, <3>2, <3>5, <3>9 DEF QueueInv, TypeOK, Thread, Held
  <2>2. CASE ~ outputRank
    BY <1>1, <1>3, <2>2 DEF QueueInv, TypeOK, Thread
  <2> QED
    BY <2>1, <2>2
<1> QED
  BY <1>4, <1>5, <1>6, <1>7, <1>8, <1>9

LEMMA CopyInv ==
    ASSUME IInv, Copy
    PROVE  IInv'
<1> USE AsyncAssumption DEF Copy, IInv, Thread
<1>1. TypeOK'
  BY DEF TypeOK, Place, Batch, LockInv, LiveInv, Live, Owner
<1>2. LockInv'
  BY DEF LockInv, TypeOK, LiveInv, Live, Owner, PendingInv
<1>3. LiveInv'
  BY DEF LiveInv, TypeOK, Live, Owner, LockInv, PendingInv, EpochInv
<1>4. PendingInv'
  BY DEF PendingInv, TypeOK, Live, Owner, LiveInv, LockInv
<1>5. EpochInv'
  BY DEF EpochInv, TypeOK, Live, Owner, LiveInv, LockInv
<1>6. QueueInv'
  BY DEF QueueInv, TypeOK, Live, Owner, Handed, Held, LiveInv, LockInv, EpochInv, PendingInv
<1> QED
  BY <1>1, <1>2, <1>3, <1>4, <1>5, <1>6

LEMMA DequeueInv ==
    ASSUME IInv, Dequeue
    PROVE  IInv'
<1> USE DEF IInv
<1> DEFINE n == Head(queue)
<1>1. /\ at["output"] = "idle" /\ queue # << >> /\ queue' = Tail(queue)
      /\ at' = [at EXCEPT !["output"] = IF members[n] = {} THEN "done" ELSE "synchronize"]
      /\ on' = [on EXCEPT !["output"] = n]
      /\ UNCHANGED <<outputRank, todo, executed, members, step, open, pending, callback,
                     locked, copied, answered, error>>
  BY DEF Dequeue, Handle, Goto
<1>2. queue \in Seq(1 .. executed) /\ executed \in Nat /\ executed <= MaxBatch
      /\ MaxBatch \in Nat
  BY AsyncAssumption DEF TypeOK
<1>3. n \in 1 .. executed /\ n = queue[1] /\ Len(queue) > 0 /\ Len(queue) \in Nat
      /\ queue' \in Seq(1 .. executed) /\ Len(queue') = Len(queue) - 1
      /\ \A i \in 1 .. Len(queue') : queue'[i] = queue[i + 1]
  BY <1>1, <1>2
<1>4. Owner' = Owner /\ Live' = Live /\ Handed' = Handed /\ Held = 0 /\ Held' = 1
      /\ at'["main"] = at["main"] /\ on'["main"] = on["main"] /\ on'["output"] = n
      /\ at'["output"] \in {"done", "synchronize"}
  BY <1>1 DEF Owner, Live, Handed, Held, TypeOK, Thread
<1>5. TypeOK'
  <2>1. at' \in [Thread -> Place] /\ on' \in [Thread -> 0 .. MaxBatch]
    BY <1>1, <1>2, <1>3 DEF TypeOK, Place, Thread
  <2> QED
    BY <1>1, <1>3, <1>4, <2>1 DEF TypeOK
<1>6. LockInv'
  BY <1>1, <1>4 DEF LockInv, Thread, TypeOK
<1>7. LiveInv'
  BY <1>1, <1>4 DEF LiveInv
<1>8. PendingInv'
  BY <1>1, <1>4 DEF PendingInv
<1>9. EpochInv'
  BY <1>1, <1>4 DEF EpochInv, Thread, TypeOK
<1>10. QueueInv'
  <2>1. outputRank
    BY <1>1 DEF QueueInv
  <2>2. answered + Len(queue) = Handed /\ answered \in Nat /\ n = answered + 1
    BY <1>2, <1>3, <1>4, <2>1 DEF QueueInv, TypeOK
  <2>3. answered' + Held' + Len(queue') = Handed'
    BY <1>1, <1>3, <1>4, <2>2
  <2>4. \A i \in 1 .. Len(queue') : queue'[i] = answered' + Held' + i
    BY <1>1, <1>3, <1>4, <2>1, <2>2 DEF QueueInv
  <2>5. at'["output"] = "done" => n \notin Live
    <3>1. members[n] = {} => n \notin Live
      BY DEF LiveInv
    <3> QED
      BY <1>1, <3>1 DEF TypeOK, Thread
  <2> QED
    BY <1>1, <1>4, <2>1, <2>2, <2>3, <2>4, <2>5 DEF QueueInv
<1> QED
  BY <1>5, <1>6, <1>7, <1>8, <1>9, <1>10

LEMMA DeliverInv ==
    ASSUME IInv, Deliver
    PROVE  IInv'
<1> USE DEF IInv
<1>1. /\ at["output"] = "done" /\ answered' = on["output"]
      /\ at' = [at EXCEPT !["output"] = "idle"] /\ on' = [on EXCEPT !["output"] = 0]
      /\ UNCHANGED <<outputRank, todo, executed, members, step, open, pending, callback,
                     locked, copied, queue, error>>
  BY DEF Deliver, Handle, Goto
<1>2. /\ outputRank /\ on["output"] = answered + 1 /\ Held = 1
      /\ answered \in Nat /\ executed \in Nat /\ Len(queue) \in Nat
      /\ answered + 1 + Len(queue) = Handed
  BY <1>1 DEF QueueInv, Held, TypeOK
<1>3. Owner' = Owner /\ Live' = Live /\ Handed' = Handed /\ Held' = 0
      /\ at'["main"] = at["main"] /\ on'["main"] = on["main"] /\ at'["output"] = "idle"
  BY <1>1 DEF Owner, Live, Handed, Held, TypeOK, Thread
<1>4. TypeOK'
  <2>1. answered' \in 0 .. executed
    BY <1>1, <1>2 DEF Handed
  <2>2. at' \in [Thread -> Place] /\ on' \in [Thread -> 0 .. MaxBatch]
    BY <1>1, AsyncAssumption DEF TypeOK, Place, Thread
  <2> QED
    BY <1>1, <1>3, <2>1, <2>2 DEF TypeOK
<1>5. LockInv'
  BY <1>1, <1>3 DEF LockInv, Thread, TypeOK
<1>6. LiveInv'
  BY <1>1, <1>3 DEF LiveInv
<1>7. PendingInv'
  BY <1>1, <1>3 DEF PendingInv
<1>8. EpochInv'
  BY <1>1, <1>3 DEF EpochInv, Thread, TypeOK
<1>9. QueueInv'
  <2>1. answered' + Held' + Len(queue') = Handed'
    BY <1>1, <1>2, <1>3
  <2>2. \A i \in 1 .. Len(queue') : queue'[i] = answered' + Held' + i
    BY <1>1, <1>2, <1>3 DEF QueueInv
  <2>3. at'["main"] # "idle" => executed' - 1 - answered' < Depth
    BY <1>1, <1>2, <1>3, AsyncAssumption DEF QueueInv
  <2> QED
    BY <1>1, <1>2, <1>3, <2>1, <2>2, <2>3 DEF QueueInv
<1> QED
  BY <1>4, <1>5, <1>6, <1>7, <1>8, <1>9

LEMMA AnsweredElsewhereInv ==
    ASSUME IInv, AnsweredElsewhere
    PROVE  IInv'
<1> USE AsyncAssumption DEF AnsweredElsewhere, IInv, Thread
<1>1. TypeOK'
  BY DEF TypeOK, Place, Batch, LockInv, LiveInv, Live, Owner
<1>2. LockInv'
  BY DEF LockInv, TypeOK, LiveInv, Live, Owner, PendingInv
<1>3. LiveInv'
  BY DEF LiveInv, TypeOK, Live, Owner, LockInv, PendingInv, EpochInv
<1>4. PendingInv'
  BY DEF PendingInv, TypeOK, Live, Owner, LiveInv, LockInv
<1>5. EpochInv'
  BY DEF EpochInv, TypeOK, Live, Owner, LiveInv, LockInv
<1>6. QueueInv'
  BY DEF QueueInv, TypeOK, Live, Owner, Handed, Held, LiveInv, LockInv, EpochInv, PendingInv
<1> QED
  BY <1>1, <1>2, <1>3, <1>4, <1>5, <1>6

\* One lemma per action.
LEMMA NextInv ==
    ASSUME IInv, [Next]_vars
    PROVE  IInv'
<1>1. CASE Take
  BY <1>1, TakeInv
<1>2. CASE MainStep
  <2>1. "main" \in Thread
    BY DEF Thread
  <2> QED
    BY <1>2, <2>1, CheckInv, ResolvedInv, UpdateInv, StashInv, AnswerInv, SynchronizeInv,
       ClaimInv, SettleRequestInv, ClearInv DEF MainStep, Run
<1>3. CASE OutputStep
  <2>1. "output" \in Thread
    BY DEF Thread
  <2> QED
    BY <1>3, <2>1, DequeueInv, DeliverInv, SynchronizeInv, ClaimInv, SettleRequestInv,
       ClearInv DEF OutputStep, Run
<1>4. CASE Copy
  BY <1>4, CopyInv
<1>5. CASE AnsweredElsewhere
  BY <1>5, AnsweredElsewhereInv
<1>6. CASE UNCHANGED vars
  BY <1>6 DEF vars, IInv, TypeOK, LockInv, LiveInv, PendingInv, EpochInv, QueueInv,
              Owner, Live, Handed, Held
<1> QED
  BY <1>1, <1>2, <1>3, <1>4, <1>5, <1>6 DEF Next

LEMMA AlwaysInv == Spec => []IInv
<1>1. Init => IInv
  BY InitInv
<1>2. IInv /\ [Next]_vars => IInv'
  BY NextInv
<1> QED
  BY <1>1, <1>2, PTL DEF Spec

-----------------------------------------------------------------------------
(* What the invariant gives. *)

\* Threads stay in their code and batches are numbers already given out.
THEOREM TypeTheorem == Spec => []TypeOK
<1>1. IInv => TypeOK
  BY DEF IInv
<1> QED
  BY <1>1, AlwaysInv, PTL

\* Neither RuntimeError of the ownership update is ever raised.
THEOREM NeverFailsTheorem == Spec => []NeverFails
<1>1. IInv => NeverFails
  BY DEF IInv, LockInv, NeverFails
<1> QED
  BY <1>1, AlwaysInv, PTL

\* The unlocked trackers are never in the hands of both threads.
THEOREM TrackerTheorem == Spec => []TrackerExclusive
<1>1. IInv => TrackerExclusive
  BY DEF IInv, LockInv, LiveInv, Live, Thread, TrackerExclusive
<1> QED
  BY <1>1, AlwaysInv, PTL

\* A callback nobody has claimed is never lost for the main thread.
THEOREM PendingTheorem == Spec => []PendingKept
<1>1. ASSUME IInv, NEW n \in callback
      PROVE  pending = n \/ (on["main"] = n /\ at["main"] # "update")
  <2>1. n = Owner /\ Live # {}
    BY <1>1 DEF IInv, LiveInv, Live
  <2>2. at["main"] \in Place \ {"clear", "dead", "done", "update", "sample"}
    BY <1>1, <2>1 DEF IInv, TypeOK, LockInv, LiveInv, Thread
  <2>3. CASE at["main"] \in {"idle", "answer"}
    BY <1>1, <2>1, <2>3 DEF IInv, PendingInv
  <2>4. CASE at["main"] \in {"check", "synchronize", "claim", "callback"}
    BY <1>1, <2>1, <2>4 DEF IInv, LiveInv
  <2> QED
    BY <2>2, <2>3, <2>4 DEF Place
<1>2. IInv => PendingKept
  BY <1>1 DEF PendingKept
<1> QED
  BY <1>2, AlwaysInv, PTL

\* A callback only ever settles epochs that are open.
THEOREM EpochTheorem == Spec => []CurrentEpochOnly
<1>1. ASSUME IInv, NEW t \in Thread, NEW r \in todo[t]
      PROVE  step[r] = on[t]
  <2>1. at[t] = "callback" /\ r \in members[on[t]]
    BY <1>1 DEF IInv, EpochInv
  <2>2. on[t] = Owner /\ Live # {}
    BY <1>1, <2>1 DEF IInv, LockInv, LiveInv, Live
  <2> QED
    BY <1>1, <2>1, <2>2 DEF IInv, EpochInv
<1>2. IInv => CurrentEpochOnly
  BY <1>1 DEF CurrentEpochOnly
<1> QED
  BY <1>2, AlwaysInv, PTL

-----------------------------------------------------------------------------
(* The two threads implement the atomic settlement. *)

Unsettled == IF open = {} THEN {} ELSE members[Owner]

LEMMA PromiseInit == Init => Promise!Init
BY DEF Init, Promise!Init, Owner, Thread

\* Whatever leaves the epochs and the answers alone is a stutter.
LEMMA PromiseStutter ==
    ASSUME Owner' = Owner,
           UNCHANGED <<outputRank, open, members, answered>>
    PROVE  UNCHANGED Promise!vars
BY DEF Promise!vars

\* The step that closes the last epoch is the settlement.
LEMMA PromiseSettle ==
    ASSUME IInv, NEW t \in Thread, SettleRequest(t)
    PROVE  Promise!Next \/ UNCHANGED Promise!vars
<1>1. /\ open' \subseteq open
      /\ UNCHANGED <<outputRank, at, executed, members, answered>>
  BY DEF SettleRequest
<1>2. Owner' = Owner
  BY <1>1 DEF Owner
<1>3. CASE open # {} /\ open' = {}
  <2>1. Unsettled # {} /\ Unsettled' = {}
    BY <1>3 DEF IInv, EpochInv, Unsettled
  <2> QED
    BY <1>1, <1>2, <2>1 DEF Promise!Next, Promise!Settle, Unsettled
<1>4. CASE ~ (open # {} /\ open' = {})
  <2>1. Unsettled' = Unsettled
    BY <1>1, <1>2, <1>4 DEF Unsettled
  <2> QED
    BY <1>1, <1>2, <2>1 DEF Promise!vars, Unsettled
<1> QED
  BY <1>3, <1>4

\* Ownership moves on when nothing is left to settle.
LEMMA PromiseMoveOn ==
    ASSUME IInv, Update
    PROVE  Promise!Next
<1>1. /\ at["main"] = "update"
      /\ UNCHANGED <<outputRank, executed, answered>>
  BY DEF Update
<1>2. open = {} /\ Owner = executed - 1 /\ executed \in Batch /\ error = "none"
      /\ answered \in Nat /\ executed - 1 - answered < Depth
  <2>1. open = {} /\ error = "none" /\ executed - 1 - answered < Depth
    BY <1>1 DEF IInv, LiveInv, EpochInv, LockInv, QueueInv
  <2>2. executed \in Batch /\ answered \in Nat
    BY <1>1, AsyncAssumption DEF IInv, LiveInv, TypeOK, Batch
  <2> QED
    BY <1>1, <2>1, <2>2 DEF Owner
<1>3. PICK scheduled \in SUBSET Req :
        /\ members' = [members EXCEPT ![executed] = scheduled]
        /\ open' = scheduled
        /\ at' = [at EXCEPT !["main"] = IF scheduled = {} THEN "answer" ELSE "sample"]
  BY <1>2 DEF Update, Goto
<1>4. Owner' = executed /\ members'[executed] = scheduled
  BY <1>1, <1>2, <1>3 DEF Owner, IInv, TypeOK, Thread
<1>5. Unsettled = {} /\ Unsettled' = scheduled
  BY <1>2, <1>3, <1>4 DEF Unsettled
<1>6. Owner < MaxBatch /\ Owner - answered < Depth /\ Owner' = Owner + 1
  BY <1>2, <1>4, AsyncAssumption DEF Batch
<1>7. Promise!MoveOn(scheduled)
  BY <1>1, <1>5, <1>6 DEF Promise!MoveOn, Unsettled
<1> QED
  BY <1>7 DEF Promise!Next

\* An answer of this rank comes after the settlement of its batch.
LEMMA PromiseDeliver ==
    ASSUME IInv, Deliver
    PROVE  Promise!Next
<1>1. /\ at["output"] = "done" /\ answered' = on["output"]
      /\ at' = [at EXCEPT !["output"] = "idle"]
      /\ UNCHANGED <<outputRank, executed, members, open>>
  BY DEF Deliver, Handle, Goto
<1>2. /\ on["output"] = answered + 1 /\ on["output"] \notin Live
      /\ answered \in Nat /\ executed \in Nat /\ Len(queue) \in Nat
      /\ answered + 1 + Len(queue) = Handed
  BY <1>1, AsyncAssumption DEF IInv, QueueInv, Held, TypeOK
<1>3. Owner' = Owner
  BY <1>1 DEF Owner, IInv, TypeOK, Thread
<1>4. answered < Owner
  BY <1>2 DEF Handed, Owner
<1>5. answered + 1 = Owner => open = {}
  <2>1. at["main"] = "sample" => answered + 1 # Owner
    BY <1>2 DEF Handed, Owner
  <2>2. answered + 1 = Owner => Live = {}
    BY <1>2 DEF IInv, LiveInv
  <2>3. open # {} => at["main"] = "sample" \/ Live # {}
    BY DEF IInv, EpochInv
  <2> QED
    BY <2>1, <2>2, <2>3
<1> QED
  BY <1>1, <1>2, <1>3, <1>4, <1>5 DEF Promise!Next, Promise!AnswerNext

\* An answer of another rank is about a batch this one has begun.
LEMMA PromiseAnsweredElsewhere ==
    ASSUME IInv, AnsweredElsewhere
    PROVE  Promise!Next
<1>1. /\ ~ outputRank /\ answered < executed /\ answered + 1 \in copied
      /\ answered' = answered + 1
      /\ UNCHANGED <<outputRank, at, executed, members, open>>
  BY DEF AnsweredElsewhere
<1>2. Owner' = Owner
  BY <1>1 DEF Owner
<1>3. answered < Owner
  <2>1. answered \in Nat /\ executed \in Nat
    BY AsyncAssumption DEF IInv, TypeOK
  <2>2. CASE answered + 1 = executed
    BY <1>1, <2>1, <2>2 DEF IInv, QueueInv, Owner
  <2>3. CASE answered + 1 # executed
    BY <1>1, <2>1, <2>3 DEF Owner
  <2> QED
    BY <2>2, <2>3
<1> QED
  BY <1>1, <1>2, <1>3 DEF Promise!Next, Promise!AnswerNext

LEMMA PromiseStep ==
    ASSUME IInv, [Next]_vars
    PROVE  [Promise!Next]_Promise!vars
<1> USE DEF IInv, TypeOK
<1>1. CASE Take
  <2>1. at["main"] = "idle" /\ executed' = executed + 1 /\ executed \in Nat
        /\ at'["main"] \in {"update", "check"}
    BY <1>1, AsyncAssumption DEF Take, Handle, Goto, Thread
  <2>2. Owner' = Owner
    BY <2>1 DEF Owner
  <2> QED
    BY <1>1, <2>2, PromiseStutter DEF Take
<1>2. CASE Check \/ Resolved \/ Stash \/ Answer
  <2>1. UNCHANGED <<outputRank, open, members, answered>> /\ executed' = executed
    BY <1>2 DEF Check, Resolved, Stash, Answer
  <2>2. Owner' = Owner
    BY <1>2 DEF Check, Resolved, Stash, Answer, Owner, Handle, Goto, Thread, LockInv
  <2> QED
    BY <2>1, <2>2, PromiseStutter
<1>3. CASE Update
  BY <1>3, PromiseMoveOn
<1>4. ASSUME NEW t \in Thread, Synchronize(t) \/ Claim(t) \/ Clear(t)
      PROVE  [Promise!Next]_Promise!vars
  <2>1. UNCHANGED <<outputRank, open, members, answered>> /\ executed' = executed
    BY <1>4 DEF Synchronize, Claim, Clear
  <2>2. Owner' = Owner
    BY <1>4 DEF Synchronize, Claim, Clear, Owner, Goto, Thread
  <2> QED
    BY <2>1, <2>2, PromiseStutter
<1>5. ASSUME NEW t \in Thread, SettleRequest(t)
      PROVE  [Promise!Next]_Promise!vars
  BY <1>5, PromiseSettle
<1>6. CASE Dequeue \/ Copy
  <2>1. UNCHANGED <<outputRank, open, members, answered>> /\ executed' = executed
        /\ at'["main"] = at["main"]
    BY <1>6 DEF Dequeue, Copy, Handle, Goto, Thread
  <2>2. Owner' = Owner
    BY <2>1 DEF Owner
  <2> QED
    BY <2>1, <2>2, PromiseStutter
<1>7. CASE Deliver
  BY <1>7, PromiseDeliver
<1>8. CASE AnsweredElsewhere
  BY <1>8, PromiseAnsweredElsewhere
<1>9. CASE UNCHANGED vars
  <2>1. UNCHANGED <<outputRank, open, members, answered, executed, at>>
    BY <1>9 DEF vars
  <2> QED
    BY <2>1, PromiseStutter DEF Owner
<1>10. "main" \in Thread /\ "output" \in Thread
  BY DEF Thread
<1> QED
  BY <1>1, <1>2, <1>3, <1>4, <1>5, <1>6, <1>7, <1>8, <1>9, <1>10
     DEF Next, MainStep, OutputStep, Run

\* However main and output thread interleave, what the tracker and the engine
\* see of them is a settlement of each batch in one step, before ownership moves
\* on, and before the answer of the rank that answers.
THEOREM SettlementTheorem == Spec => Promise!Spec
<1>1. Init => Promise!Init
  BY PromiseInit
<1>2. IInv /\ [Next]_vars => [Promise!Next]_Promise!vars
  BY PromiseStep
<1> QED
  BY <1>1, <1>2, AlwaysInv, PTL DEF Spec, Promise!Spec
=============================================================================
