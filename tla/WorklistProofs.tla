--------------------------- MODULE WorklistProofs ---------------------------
(***************************************************************************)
(* Proofs about Worklist, for every number of workers, targets, tiers and   *)
(* hosts and every budget.                                                  *)
(*                                                                          *)
(* The backbone is Outstanding: the per-tier counters that Pop's barrier    *)
(* and its drain test read equal the targets queued plus the workers        *)
(* holding one.  The barrier, the drained exit and the absence of lost      *)
(* wakeups follow from it.                                                  *)
(***************************************************************************)
EXTENDS Worklist, FiniteSetTheorems, TLAPS

-----------------------------------------------------------------------------
(* Small facts about sets of workers and about Broadcast and Signal.        *)

LEMMA WorkerSets ==
  ASSUME NEW S \in SUBSET Workers
  PROVE  /\ IsFiniteSet(S)
         /\ Cardinality(S) \in Nat
         /\ (Cardinality(S) = 0 <=> S = {})
<1>1. IsFiniteSet(S)
  BY FS_Subset, ConstantsAssumption
<1>2. QED
  BY <1>1, FS_CardinalityType, FS_EmptySet

\* Adding or removing one worker changes the count by one.
LEMMA OneWorkerMore ==
  ASSUME NEW S \in SUBSET Workers, NEW w \in Workers
  PROVE  /\ w \notin S => Cardinality(S \cup {w}) = Cardinality(S) + 1
         /\ w \in S => Cardinality(S \ {w}) = Cardinality(S) - 1
<1>1. IsFiniteSet(S)
  BY WorkerSets
<1>2. QED
  BY <1>1, FS_AddElement, FS_RemoveElement

\* Waking sleepers moves nobody into or out of work.
LEMMA WakingKeepsWork ==
  ASSUME TypeOK, Signal \/ BroadcastAnd({}) \/ UNCHANGED pc
  PROVE  /\ pc' \in [Workers -> {"ready", "waiting", "work", "exit"}]
         /\ \A w \in Workers : pc'[w] = "work" <=> pc[w] = "work"
         /\ \A w \in Workers : pc'[w] = "exit" <=> pc[w] = "exit"
BY DEF TypeOK, Signal, BroadcastAnd, Waiting

\* If nobody starts or stops working, the workers in flight stay the same.
LEMMA SameHeld ==
  ASSUME \A w \in Workers : pc'[w] = "work" <=> pc[w] = "work", job' = job
  PROVE  \A n \in Tiers : Held(n)' = Held(n)
BY DEF Held

-----------------------------------------------------------------------------
(* Outstanding is inductive: one lemma per operation of the queue.          *)

LEMMA InitOutstanding == Init => Outstanding
<1> SUFFICES ASSUME Init PROVE Outstanding
  OBVIOUS
<1>a. <<>> \in Seq(Targets) /\ Len(<<>>) = 0
  OBVIOUS
<1>1. TypeOK
  <2>1. items \in [Tiers -> Seq(Targets)]
    BY <1>a DEF Init
  <2>2. QED
    BY <2>1 DEF Init, TypeOK
<1>2. \A n \in Tiers : Held(n) = {}
  BY DEF Init, Held
<1>3. PendingIsOutstanding
  <2> SUFFICES ASSUME NEW n \in Tiers
               PROVE  pendingByTier[n] = Len(items[n]) + Cardinality(Held(n))
    BY DEF PendingIsOutstanding
  <2>1. pendingByTier[n] = 0 /\ items[n] = <<>>
    BY DEF Init
  <2>2. Cardinality(Held(n)) = 0
    BY <1>2, FS_EmptySet
  <2>3. QED
    BY <1>a, <2>1, <2>2
<1>4. WorkingHoldsJob /\ PushersActive
  BY DEF Init, WorkingHoldsJob, PushersActive
<1>5. QED
  BY <1>1, <1>3, <1>4 DEF Outstanding

LEMMA PushBeginOutstanding ==
  ASSUME Outstanding, NEW a \in Actors, NEW j \in Job, MayPush(a),
         PushBegin(a, j)
  PROVE  Outstanding'
<1> USE DEF Outstanding
<1>1. TypeOK'
  BY DEF TypeOK, PushBegin
<1>2. PendingIsOutstanding'
  BY DEF PendingIsOutstanding, PushBegin, Held
<1>3. WorkingHoldsJob' /\ PushersActive'
  BY DEF PushBegin, WorkingHoldsJob, PushersActive, MayPush, TypeOK
<1>4. QED
  BY <1>1, <1>2, <1>3

LEMMA PushRefuseOutstanding ==
  ASSUME Outstanding, NEW a \in Actors, PushRefuse(a)
  PROVE  Outstanding'
<1> USE DEF Outstanding
<1>1. TypeOK'
  BY DEF TypeOK, PushRefuse
<1>2. PendingIsOutstanding'
  BY DEF PendingIsOutstanding, PushRefuse, Held
<1>3. WorkingHoldsJob' /\ PushersActive'
  BY DEF PushRefuse, WorkingHoldsJob, PushersActive, MayPush, TypeOK
<1>4. QED
  BY <1>1, <1>2, <1>3

LEMMA PushAcceptOutstanding ==
  ASSUME Outstanding, NEW a \in Actors, PushAccept(a)
  PROVE  Outstanding'
<1> USE DEF Outstanding
<1> DEFINE j == call[a]
<1>1. /\ j \in Job
      /\ j.target \in Targets
      /\ j.tier \in Tiers
      /\ KeyOf[j.target] \in Keys
  BY ConstantsAssumption DEF TypeOK, PushAccept, Job
<1>2. /\ items' = [items EXCEPT ![j.tier] = Append(@, j.target)]
      /\ pendingByTier' = [pendingByTier EXCEPT ![j.tier] = @ + 1]
      /\ seen' = seen \cup {<<KeyOf[j.target], j.tier>>}
      /\ call' = [call EXCEPT ![a] = None]
      /\ UNCHANGED <<sourceDone, closer, ctxDone, job>>
      /\ Signal
      /\ CountHost(KeyOf[j.target])
  BY DEF PushAccept, Enqueue
<1> HIDE DEF j
<1>3. /\ pc' \in [Workers -> {"ready", "waiting", "work", "exit"}]
      /\ \A w \in Workers : pc'[w] = "work" <=> pc[w] = "work"
  BY <1>2, WakingKeepsWork
<1>4. hostCount' \in [Hosts -> Nat]
  BY <1>1, <1>2 DEF TypeOK, CountHost
<1>5. items' \in [Tiers -> Seq(Targets)] /\ pendingByTier' \in [Tiers -> Nat]
  BY <1>1, <1>2 DEF TypeOK
<1>6. seen' \subseteq Keys \X Tiers
  BY <1>1, <1>2 DEF TypeOK
<1>7. TypeOK'
  BY <1>2, <1>3, <1>4, <1>5, <1>6 DEF TypeOK
<1>8. PendingIsOutstanding'
  <2> SUFFICES ASSUME NEW n \in Tiers
               PROVE  pendingByTier'[n] = Len(items'[n]) + Cardinality(Held(n)')
    BY DEF PendingIsOutstanding
  <2>1. Held(n)' = Held(n)
    BY <1>2, <1>3, SameHeld
  <2>2. Cardinality(Held(n)) \in Nat
    BY WorkerSets DEF Held
  <2>3. pendingByTier[n] = Len(items[n]) + Cardinality(Held(n))
    BY DEF PendingIsOutstanding
  <2>4. items[n] \in Seq(Targets) /\ pendingByTier[n] \in Nat
    BY DEF TypeOK
  <2>5. CASE n = j.tier
    <3>1. items'[n] = Append(items[n], j.target)
      BY <1>1, <1>2, <2>5 DEF TypeOK
    <3>2. pendingByTier'[n] = pendingByTier[n] + 1
      BY <1>1, <1>2, <2>5 DEF TypeOK
    <3>3. Len(items'[n]) = Len(items[n]) + 1 /\ Len(items[n]) \in Nat
      BY <3>1, <2>4, <1>1
    <3>4. QED
      BY <3>2, <3>3, <2>1, <2>2, <2>3
  <2>6. CASE n # j.tier
    BY <1>1, <1>2, <2>1, <2>3, <2>6 DEF TypeOK
  <2>7. QED
    BY <2>5, <2>6
<1>9. WorkingHoldsJob'
  BY <1>2, <1>3 DEF WorkingHoldsJob, TypeOK
<1>10. PushersActive'
  BY <1>2, <1>3 DEF PushersActive, MayPush, TypeOK, Actors
<1>11. QED
  BY <1>7, <1>8, <1>9, <1>10

LEMMA PopTakeOutstanding ==
  ASSUME Outstanding, NEW w \in Workers, PopTake(w)
  PROVE  Outstanding'
<1> USE DEF Outstanding
<1>1. PICK n \in Tiers :
        /\ Dispatchable(n)
        /\ items' = [items EXCEPT ![n] = Tail(@)]
        /\ job' = [job EXCEPT ![w] = [target |-> Head(items[n]), tier |-> n]]
  BY DEF PopTake
<1>2. /\ pc[w] = "ready"
      /\ pc' = [pc EXCEPT ![w] = "work"]
      /\ UNCHANGED <<seen, pendingByTier, hostCount, sourceDone, closer, ctxDone,
                     call>>
  BY DEF PopTake
<1>3. /\ items[n] \in Seq(Targets) /\ items[n] # <<>>
      /\ Head(items[n]) \in Targets
      /\ Tail(items[n]) \in Seq(Targets)
      /\ Len(items[n]) \in Nat
      /\ Len(Tail(items[n])) = Len(items[n]) - 1
  BY <1>1 DEF Dispatchable, TypeOK
<1>4. [target |-> Head(items[n]), tier |-> n] \in Job
  BY <1>3 DEF Job
<1>5. TypeOK'
  BY <1>1, <1>2, <1>3, <1>4 DEF TypeOK
<1>6. PendingIsOutstanding'
  <2> SUFFICES ASSUME NEW m \in Tiers
               PROVE  pendingByTier'[m] = Len(items'[m]) + Cardinality(Held(m)')
    BY DEF PendingIsOutstanding
  <2>1. w \notin Held(m) /\ Held(m) \in SUBSET Workers
    BY <1>2 DEF Held
  <2>2. pendingByTier[m] = Len(items[m]) + Cardinality(Held(m))
    BY DEF PendingIsOutstanding
  <2>3. CASE m = n
    <3>1. Held(m)' = Held(m) \cup {w}
      BY <1>1, <1>2, <2>3 DEF Held, TypeOK
    <3>2. Cardinality(Held(m)') = Cardinality(Held(m)) + 1
      BY <3>1, <2>1, OneWorkerMore
    <3>3. Len(items'[m]) = Len(items[m]) - 1
      BY <1>1, <1>3, <2>3 DEF TypeOK
    <3>4. Cardinality(Held(m)) \in Nat
      BY <2>1, WorkerSets
    <3>5. QED
      BY <3>2, <3>3, <3>4, <2>2, <2>3, <1>2, <1>3
  <2>4. CASE m # n
    <3>1. Held(m)' = Held(m)
      BY <1>1, <1>2, <2>4 DEF Held, TypeOK
    <3>2. QED
      BY <3>1, <2>2, <2>4, <1>1, <1>2 DEF TypeOK
  <2>5. QED
    BY <2>3, <2>4
<1>7. WorkingHoldsJob'
  BY <1>1, <1>2, <1>4 DEF WorkingHoldsJob, TypeOK
<1>8. PushersActive'
  BY <1>2 DEF PushersActive, MayPush, TypeOK, Actors
<1>9. QED
  BY <1>5, <1>6, <1>7, <1>8

\* The operations that move workers between ready, waiting and exit, or set a
\* flag, leave the outstanding work alone.
LEMMA IdleMovesOutstanding ==
  ASSUME Outstanding,
         UNCHANGED <<items, pendingByTier, job, call, seen, hostCount>>,
         pc' \in [Workers -> {"ready", "waiting", "work", "exit"}],
         \A w \in Workers : pc'[w] = "work" <=> pc[w] = "work",
         sourceDone' \in BOOLEAN, closer' \in {"open", "closed", "done"},
         ctxDone' \in BOOLEAN,
         sourceDone' => sourceDone \/ call[Source] = None
  PROVE  Outstanding'
<1> USE DEF Outstanding
<1>1. TypeOK'
  BY DEF TypeOK
<1>2. PendingIsOutstanding'
  BY SameHeld DEF PendingIsOutstanding
<1>3. WorkingHoldsJob' /\ PushersActive'
  BY ConstantsAssumption DEF WorkingHoldsJob, PushersActive, MayPush, Actors, TypeOK
<1>4. QED
  BY <1>1, <1>2, <1>3

LEMMA DoneOutstanding ==
  ASSUME Outstanding, NEW w \in Workers, Done(w)
  PROVE  Outstanding'
<1> USE DEF Outstanding
<1>0. pc[w] = "work" /\ call[w] = None /\ job[w] \in Job
  BY DEF Done, WorkingHoldsJob
<1>1. PICK n \in Tiers : n = job[w].tier
  BY <1>0 DEF Job
<1>2. /\ pendingByTier' = [pendingByTier EXCEPT ![n] = @ - 1]
      /\ job' = [job EXCEPT ![w] = None]
      /\ pc' = [v \in Workers |->
                  IF v \in Waiting \cup {w} THEN "ready" ELSE pc[v]]
      /\ UNCHANGED <<items, seen, hostCount, sourceDone, closer, ctxDone, call>>
  BY <1>1 DEF Done, Release, BroadcastAnd
<1>3. \A v \in Workers : pc'[v] = "work" <=> pc[v] = "work" /\ v # w
  BY <1>2 DEF Waiting
<1>4. \A m \in Tiers : Held(m) \in SUBSET Workers
  BY DEF Held
<1>5. Held(n)' = Held(n) \ {w} /\ w \in Held(n)
  BY <1>0, <1>1, <1>2, <1>3 DEF Held, TypeOK
<1>6. Cardinality(Held(n)') = Cardinality(Held(n)) - 1
  BY <1>4, <1>5, <1>1, OneWorkerMore
<1>7. Cardinality(Held(n)) \in Nat \ {0}
  BY <1>1, <1>4, <1>5, WorkerSets
<1>8. pendingByTier[n] = Len(items[n]) + Cardinality(Held(n))
  BY <1>1 DEF PendingIsOutstanding
<1>9. Len(items[n]) \in Nat
  BY <1>1 DEF TypeOK
<1>10. pendingByTier' \in [Tiers -> Nat]
  BY <1>1, <1>2, <1>7, <1>8, <1>9 DEF TypeOK
<1>11. TypeOK'
  BY <1>2, <1>10 DEF TypeOK
<1>12. PendingIsOutstanding'
  <2> SUFFICES ASSUME NEW m \in Tiers
               PROVE  pendingByTier'[m] = Len(items'[m]) + Cardinality(Held(m)')
    BY DEF PendingIsOutstanding
  <2>1. CASE m = n
    <3>1. Held(m)' = Held(n)'
      BY <2>1 DEF Held
    <3>2. pendingByTier'[n] = pendingByTier[n] - 1 /\ items'[n] = items[n]
      BY <1>1, <1>2 DEF TypeOK
    <3>3. QED
      BY <2>1, <3>1, <3>2, <1>6, <1>7, <1>8, <1>9
  <2>2. CASE m # n
    <3>1. Held(m)' = Held(m)
      BY <2>2, <1>1, <1>2, <1>3 DEF Held, TypeOK
    <3>2. QED
      BY <2>2, <3>1, <1>1, <1>2 DEF PendingIsOutstanding, TypeOK
  <2>3. QED
    BY <2>1, <2>2
<1>13. WorkingHoldsJob'
  BY <1>2, <1>3 DEF WorkingHoldsJob, TypeOK
<1>14. PushersActive'
  BY <1>0, <1>2, <1>3, ConstantsAssumption DEF PushersActive, MayPush, Actors
<1>15. QED
  BY <1>11, <1>12, <1>13, <1>14

LEMMA NextOutstanding == Outstanding /\ [Next]_vars => Outstanding'
<1> SUFFICES ASSUME Outstanding, [Next]_vars
             PROVE  Outstanding'
  OBVIOUS
<1>1. ASSUME NEW a \in Actors, NEW j \in Job, MayPush(a), PushBegin(a, j)
      PROVE  Outstanding'
  BY <1>1, PushBeginOutstanding
<1>2. ASSUME NEW a \in Actors, Push(a)
      PROVE  Outstanding'
  BY <1>2, PushRefuseOutstanding, PushAcceptOutstanding DEF Push
<1>3. ASSUME NEW w \in Workers, Pop(w)
      PROVE  Outstanding'
  <2>1. CASE PopTake(w)
    BY <2>1, PopTakeOutstanding
  <2>2. CASE PopExit(w)
    <3>1. TypeOK
      BY DEF Outstanding
    <3>2. QED
      BY <2>2, <3>1, IdleMovesOutstanding DEF PopExit, TypeOK
  <2>3. CASE PopWait(w)
    <3>1. TypeOK
      BY DEF Outstanding
    <3>2. QED
      BY <2>3, <3>1, IdleMovesOutstanding DEF PopWait, TypeOK
  <2>4. QED
    BY <1>3, <2>1, <2>2, <2>3 DEF Pop
<1>4. ASSUME NEW w \in Workers, Done(w)
      PROVE  Outstanding'
  BY <1>4, DoneOutstanding
<1>5. CASE SourceDone
  <2>1. TypeOK
    BY DEF Outstanding
  <2>2. BroadcastAnd({}) \/ UNCHANGED pc
    BY <1>5 DEF SourceDone, WakeIfIdle
  <2>3. QED
    BY <1>5, <2>1, <2>2, WakingKeepsWork, IdleMovesOutstanding DEF SourceDone, TypeOK
<1>6. CASE CloseSet
  <2>1. TypeOK
    BY DEF Outstanding
  <2>2. QED
    BY <1>6, <2>1, IdleMovesOutstanding DEF CloseSet, TypeOK
<1>7. CASE CloseBroadcast
  <2>1. TypeOK
    BY DEF Outstanding
  <2>2. QED
    BY <1>7, <2>1, WakingKeepsWork, IdleMovesOutstanding DEF CloseBroadcast, TypeOK
<1>8. CASE Cancel
  <2>1. TypeOK
    BY DEF Outstanding
  <2>2. QED
    BY <1>8, <2>1, IdleMovesOutstanding DEF Cancel, TypeOK
<1>9. CASE CancelWaiting
  <2>1. TypeOK
    BY DEF Outstanding
  <2>2. QED
    BY <1>9, <2>1, WakingKeepsWork, IdleMovesOutstanding DEF CancelWaiting, TypeOK
<1>10. CASE UNCHANGED vars
  <2>1. TypeOK
    BY DEF Outstanding
  <2>2. QED
    BY <1>10, <2>1, IdleMovesOutstanding DEF vars, TypeOK
<1>11. QED
  BY <1>1, <1>2, <1>3, <1>4, <1>5, <1>6, <1>7, <1>8, <1>9, <1>10 DEF Next

\* The counters are never negative and every variable keeps its type.
THEOREM TypeCorrect == Spec => []TypeOK
<1>1. Outstanding => TypeOK
  BY DEF Outstanding
<1>2. QED
  BY <1>1, InitOutstanding, NextOutstanding, PTL DEF Spec

\* What the barrier and the drain test count is the work that is outstanding.
THEOREM CountersAreExact == Spec => []PendingIsOutstanding
<1>1. Outstanding => PendingIsOutstanding
  BY DEF Outstanding
<1>2. QED
  BY <1>1, InitOutstanding, NextOutstanding, PTL DEF Spec

-----------------------------------------------------------------------------
(* The cross-target barrier.                                                *)

\* When a worker is handed a target of tier n, no target of a lower tier is
\* queued and no worker is busy with one, on whatever host or target.
THEOREM BarrierHolds == Spec => CrossTargetBarrier
<1> DEFINE Step == \A w \in Workers :
              pc[w] = "ready" /\ pc'[w] = "work" => LowerTiersIdle(job'[w].tier)
<1>1. Outstanding /\ [Next]_vars => [Step]_vars
  <2> SUFFICES ASSUME Outstanding, Next, NEW w \in Workers,
                      pc[w] = "ready", pc'[w] = "work"
               PROVE  LowerTiersIdle(job'[w].tier)
    OBVIOUS
  <2>1. TypeOK /\ PendingIsOutstanding
    BY DEF Outstanding
  <2>2. PopTake(w)
    <3>1. ~(Signal \/ BroadcastAnd({}) \/ UNCHANGED pc)
      BY <2>1, WakingKeepsWork
    <3>2. ASSUME NEW v \in Workers, Pop(v) \/ Done(v)
          PROVE  v = w /\ PopTake(w)
      BY <3>2, <2>1 DEF Pop, PopTake, PopExit, PopWait, Done, BroadcastAnd,
                        Waiting, TypeOK
    <3>3. QED
      BY <3>1, <3>2 DEF Next, PushBegin, Push, PushRefuse, PushAccept, SourceDone,
                        WakeIfIdle, CloseSet, CloseBroadcast, Cancel, CancelWaiting
  <2>3. PICK n \in Tiers :
          /\ \A m \in 1..(n - 1) : pendingByTier[m] = 0
          /\ job' = [job EXCEPT ![w] = [target |-> Head(items[n]), tier |-> n]]
    BY <2>2 DEF PopTake, Dispatchable
  <2>4. job'[w].tier = n
    BY <2>1, <2>3 DEF TypeOK
  <2>5. ASSUME NEW m \in 1..(n - 1)
        PROVE  items[m] = <<>> /\ Held(m) = {}
    <3>1. m \in Tiers
      BY <2>5, ConstantsAssumption DEF Tiers
    <3>2. Len(items[m]) + Cardinality(Held(m)) = 0
      BY <2>1, <2>3, <3>1 DEF PendingIsOutstanding
    <3>3. Cardinality(Held(m)) \in Nat /\ (Cardinality(Held(m)) = 0 <=> Held(m) = {})
      BY WorkerSets DEF Held
    <3>4. items[m] \in Seq(Targets)
      BY <2>1, <3>1 DEF TypeOK
    <3>5. Len(items[m]) \in Nat /\ (Len(items[m]) = 0 => items[m] = <<>>)
      BY <3>4
    <3>6. QED
      BY <3>2, <3>3, <3>5
  <2>6. QED
    BY <2>4, <2>5 DEF LowerTiersIdle
<1>2. QED
  BY <1>1, InitOutstanding, NextOutstanding, PTL DEF Spec, CrossTargetBarrier

-----------------------------------------------------------------------------
(* The per-host budget.                                                     *)

LEMMA KeySets ==
  ASSUME NEW S \in SUBSET Keys
  PROVE  /\ IsFiniteSet(S)
         /\ Cardinality(S) \in Nat
         /\ \A k \in Keys : k \notin S => Cardinality(S \cup {k}) = Cardinality(S) + 1
<1>1. IsFiniteSet(S)
  BY FS_Subset, ConstantsAssumption
<1>2. QED
  BY <1>1, FS_CardinalityType, FS_AddElement

LEMMA InitHostCount == Init => HostCountIsUnique
<1> SUFFICES ASSUME Init, NEW h \in Hosts
             PROVE  /\ hostCount[h] = Cardinality(KeysOfHost(h))
                    /\ HostBudget > 0 => hostCount[h] <= HostBudget
  BY DEF HostCountIsUnique
<1>1. KeysOfHost(h) = {}
  BY DEF Init, KeysOfHost, SeenAnyTier
<1>2. hostCount[h] = 0
  BY DEF Init
<1>3. QED
  BY <1>1, <1>2, FS_EmptySet, ConstantsAssumption

LEMMA NextHostCount ==
  Outstanding /\ HostCountIsUnique /\ [Next]_vars => HostCountIsUnique'
<1> SUFFICES ASSUME Outstanding, HostCountIsUnique, [Next]_vars
             PROVE  HostCountIsUnique'
  OBVIOUS
<1>1. TypeOK
  BY DEF Outstanding
<1>2. CASE UNCHANGED <<seen, hostCount>>
  BY <1>2 DEF HostCountIsUnique, KeysOfHost, SeenAnyTier
<1>3. ASSUME NEW a \in Actors, PushAccept(a)
      PROVE  HostCountIsUnique'
  <2>1. PICK j \in Job : j = call[a]
    BY <1>1, <1>3 DEF PushAccept, TypeOK
  <2>2. PICK k \in Keys : k = KeyOf[j.target]
    BY <2>1, ConstantsAssumption DEF Job
  <2>3. /\ seen' = seen \cup {<<k, j.tier>>}
        /\ CountHost(k)
        /\ ~(~SeenAnyTier(k) /\ OverBudget(k))
        /\ j.tier \in Tiers
    BY <1>3, <2>1, <2>2 DEF PushAccept, Refused, Job
  <2>4. \A i \in Keys : SeenAnyTier(i)' <=> SeenAnyTier(i) \/ i = k
    BY <2>3 DEF SeenAnyTier
  <2> SUFFICES ASSUME NEW h \in Hosts
               PROVE  /\ hostCount'[h] = Cardinality(KeysOfHost(h)')
                      /\ HostBudget > 0 => hostCount'[h] <= HostBudget
    BY DEF HostCountIsUnique
  <2>5. /\ hostCount[h] = Cardinality(KeysOfHost(h))
        /\ HostBudget > 0 => hostCount[h] <= HostBudget
        /\ hostCount[h] \in Nat
    BY <1>1 DEF HostCountIsUnique, TypeOK
  <2>6. CASE SeenAnyTier(k) \/ HostOf[k] # h
    <3>1. KeysOfHost(h)' = KeysOfHost(h)
      BY <2>4, <2>6 DEF KeysOfHost
    <3>2. hostCount'[h] = hostCount[h]
      BY <1>1, <2>3, <2>6, ConstantsAssumption DEF CountHost, TypeOK
    <3>3. QED
      BY <2>5, <3>1, <3>2
  <2>7. CASE ~SeenAnyTier(k) /\ HostOf[k] = h
    <3>1. KeysOfHost(h)' = KeysOfHost(h) \cup {k} /\ k \notin KeysOfHost(h)
      BY <2>4, <2>7 DEF KeysOfHost
    <3>2. h # NoHost
      BY ConstantsAssumption
    <3>3. hostCount'[h] = hostCount[h] + 1
      BY <1>1, <2>3, <2>7, <3>2 DEF CountHost, TypeOK
    <3>4. KeysOfHost(h) \in SUBSET Keys
      BY DEF KeysOfHost
    <3>5. Cardinality(KeysOfHost(h)') = Cardinality(KeysOfHost(h)) + 1
      BY <3>1, <3>4, KeySets
    <3>6. HostBudget > 0 => ~(hostCount[h] >= HostBudget)
      BY <2>3, <2>7, <3>2 DEF OverBudget
    <3>7. QED
      BY <2>5, <3>3, <3>5, <3>6, ConstantsAssumption
  <2>8. QED
    BY <2>6, <2>7
<1>4. (\E a \in Actors : PushAccept(a)) \/ UNCHANGED <<seen, hostCount>>
  BY DEF Next, vars, PushBegin, Push, PushRefuse, Pop, PopTake, PopExit, PopWait,
         Done, SourceDone, CloseSet, CloseBroadcast, Cancel, CancelWaiting
<1>5. QED
  BY <1>2, <1>3, <1>4

\* No host gets more unique targets than its budget, at however many tiers and
\* from however many actors they are pushed.
THEOREM BudgetHolds == Spec => []HostBudgetHolds
<1>1. HostCountIsUnique => HostBudgetHolds
  <2> SUFFICES ASSUME HostCountIsUnique, HostBudget > 0, NEW h \in Hosts
               PROVE  Cardinality(KeysOfHost(h)) <= HostBudget
    BY DEF HostBudgetHolds
  <2>1. QED
    BY DEF HostCountIsUnique
<1>2. QED
  BY <1>1, InitOutstanding, NextOutstanding, InitHostCount, NextHostCount, PTL
     DEF Spec

-----------------------------------------------------------------------------
(* Quiescence: the drained exit.                                            *)

\* Counters that are all zero mean that nothing is queued and nobody works.
LEMMA ZeroMeansIdle ==
  ASSUME Outstanding, \A n \in Tiers : pendingByTier[n] = 0
  PROVE  /\ \A n \in Tiers : items[n] = <<>>
         /\ \A w \in Workers : pc[w] # "work"
<1> USE DEF Outstanding
<1>1. ASSUME NEW n \in Tiers
      PROVE  items[n] = <<>> /\ Held(n) = {}
  <2>1. Len(items[n]) + Cardinality(Held(n)) = 0
    BY DEF PendingIsOutstanding
  <2>2. Cardinality(Held(n)) \in Nat /\ (Cardinality(Held(n)) = 0 <=> Held(n) = {})
    BY WorkerSets DEF Held
  <2>3. items[n] \in Seq(Targets)
    BY DEF TypeOK
  <2>4. Len(items[n]) \in Nat /\ (Len(items[n]) = 0 => items[n] = <<>>)
    BY <2>3
  <2>5. QED
    BY <2>1, <2>2, <2>4
<1>2. ASSUME NEW w \in Workers, pc[w] = "work"
      PROVE  FALSE
  <2>1. job[w].tier \in Tiers
    BY <1>2 DEF WorkingHoldsJob, Job
  <2>2. w \in Held(job[w].tier)
    BY <1>2 DEF Held
  <2>3. QED
    BY <1>1, <2>1, <2>2
<1>3. QED
  BY <1>1, <1>2

LEMMA InitNothingLeft == Init => NothingLeftBehind
BY DEF Init, NothingLeftBehind

LEMMA NextNothingLeft ==
  Outstanding /\ NothingLeftBehind /\ [Next]_vars => NothingLeftBehind'
<1> DEFINE Clear == /\ sourceDone
                    /\ \A n \in Tiers : items[n] = <<>>
                    /\ \A w \in Workers : pc[w] # "work"
<1> SUFFICES ASSUME Outstanding, NothingLeftBehind, [Next]_vars,
                    NEW x \in Workers, pc'[x] = "exit", ~Stopped'
             PROVE  Clear'
  BY DEF NothingLeftBehind
<1>1. TypeOK /\ WorkingHoldsJob /\ PushersActive
  BY DEF Outstanding
<1>2. ~Stopped
  BY DEF Next, vars, PushBegin, Push, PushRefuse, PushAccept, Pop, PopTake, PopExit,
         PopWait, Done, SourceDone, CloseSet, CloseBroadcast, Cancel, CancelWaiting,
         Stopped, Closed
<1>3. CASE pc[x] = "exit"
  <2>1. Clear
    BY <1>2, <1>3 DEF NothingLeftBehind
  <2>2. \A a \in Actors : call[a] = None
    BY <1>1, <2>1 DEF PushersActive, MayPush, Actors
  <2>3. ASSUME NEW a \in Actors, Push(a)
        PROVE  Clear'
    BY <2>2, <2>3 DEF Push, PushRefuse, PushAccept
  <2>4. ASSUME NEW a \in Actors, NEW j \in Job, PushBegin(a, j)
        PROVE  Clear'
    BY <2>1, <2>4 DEF PushBegin
  <2>5. ASSUME NEW w \in Workers, Pop(w)
        PROVE  Clear'
    BY <2>1, <2>5, <1>1 DEF Pop, PopTake, PopExit, PopWait, Dispatchable, TypeOK
  <2>6. ASSUME NEW w \in Workers, Done(w)
        PROVE  Clear'
    BY <2>1, <2>6 DEF Done
  <2>7. CASE UNCHANGED <<items, sourceDone>> /\ (BroadcastAnd({}) \/ UNCHANGED pc)
    BY <2>1, <2>7 DEF BroadcastAnd
  <2>8. CASE SourceDone
    BY <2>1, <2>8 DEF SourceDone
  <2>9. QED
    BY <2>3, <2>4, <2>5, <2>6, <2>7, <2>8
       DEF Next, vars, CloseSet, CloseBroadcast, Cancel, CancelWaiting
<1>4. CASE pc[x] # "exit"
  <2>1. PopExit(x)
    <3>1. ~(Signal \/ BroadcastAnd({}) \/ UNCHANGED pc)
      BY <1>1, <1>4, WakingKeepsWork
    <3>2. ASSUME NEW w \in Workers, Pop(w) \/ Done(w)
          PROVE  PopExit(x)
      BY <3>2, <1>1, <1>4 DEF Pop, PopTake, PopExit, PopWait, Done, BroadcastAnd,
                              Waiting, TypeOK
    <3>3. QED
      BY <3>1, <3>2 DEF Next, vars, PushBegin, Push, PushRefuse, PushAccept, SourceDone,
                        WakeIfIdle, CloseSet, CloseBroadcast, Cancel, CancelWaiting
  <2>2. Drained
    BY <1>2, <2>1 DEF PopExit
  <2>3. Clear
    BY <2>2, ZeroMeansIdle DEF Drained
  <2>4. QED
    BY <2>1, <2>3, <1>1 DEF PopExit, TypeOK
<1>5. QED
  BY <1>3, <1>4

\* A worker that leaves a scan nobody stopped leaves nothing queued, nobody at
\* work and a source that has ended: no drained exit is premature.
THEOREM NoPrematureExit == Spec => []NothingLeftBehind
BY InitOutstanding, NextOutstanding, InitNothingLeft, NextNothingLeft, PTL DEF Spec

-----------------------------------------------------------------------------
(* No lost wakeup.                                                          *)

\* Two tiers cannot be open at once: the queue of the lower one is counted.
LEMMA OneOpenTier ==
  ASSUME Outstanding, NEW m \in Tiers, NEW n \in Tiers,
         Dispatchable(m), Dispatchable(n)
  PROVE  m = n
<1>1. ASSUME NEW k \in Tiers, items[k] # <<>>
      PROVE  pendingByTier[k] # 0
  <2>1. pendingByTier[k] = Len(items[k]) + Cardinality(Held(k))
    BY DEF Outstanding, PendingIsOutstanding
  <2>2. Cardinality(Held(k)) \in Nat
    BY WorkerSets DEF Held
  <2>3. items[k] \in Seq(Targets)
    BY DEF Outstanding, TypeOK
  <2>4. Len(items[k]) \in Nat \ {0}
    BY <2>3, <1>1
  <2>5. QED
    BY <2>1, <2>2, <2>4
<1>2. m \in Nat /\ n \in Nat /\ m >= 1 /\ n >= 1
  BY ConstantsAssumption DEF Tiers
<1>3. ~(m < n) /\ ~(n < m)
  BY <1>1, <1>2 DEF Dispatchable
<1>4. QED
  BY <1>2, <1>3

LEMMA InitConserving == Init => WorkConserving
BY DEF Init, WorkConserving, Waiting

LEMMA NextConserving ==
  Outstanding /\ WorkConserving /\ [Next]_vars => WorkConserving'
<1> SUFFICES ASSUME Outstanding, WorkConserving, [Next]_vars,
                    Waiting' # {}, ~Stopped', NEW n \in Tiers, Dispatchable(n)'
             PROVE  Len(items'[n]) <= Cardinality(Ready')
  BY DEF WorkConserving
<1>1. TypeOK
  BY DEF Outstanding
<1>2. ~Stopped
  BY DEF Next, vars, PushBegin, Push, PushRefuse, PushAccept, Pop, PopTake, PopExit,
         PopWait, Done, SourceDone, CloseSet, CloseBroadcast, Cancel, CancelWaiting,
         Stopped, Closed
<1>3. Ready \in SUBSET Workers /\ Cardinality(Ready) \in Nat
  BY WorkerSets DEF Ready
<1>4. items[n] \in Seq(Targets) /\ Len(items[n]) \in Nat
  BY <1>1 DEF TypeOK
<1>5. Waiting # {} /\ Dispatchable(n) => Len(items[n]) <= Cardinality(Ready)
  BY <1>2 DEF WorkConserving
<1>6. CASE UNCHANGED <<items, pendingByTier, pc>>
  BY <1>5, <1>6 DEF Dispatchable, Waiting, Ready
<1>7. ASSUME NEW S, BroadcastAnd(S)
      PROVE  FALSE
  BY <1>7 DEF BroadcastAnd, Waiting
<1>8. ASSUME NEW a \in Actors, PushAccept(a)
      PROVE  Len(items'[n]) <= Cardinality(Ready')
  <2>1. PICK j \in Job : j = call[a]
    BY <1>1, <1>8 DEF PushAccept, TypeOK
  <2>2. /\ items' = [items EXCEPT ![j.tier] = Append(@, j.target)]
        /\ pendingByTier' = [pendingByTier EXCEPT ![j.tier] = @ + 1]
        /\ Signal
        /\ j.tier \in Tiers /\ j.target \in Targets
    BY <1>8, <2>1 DEF PushAccept, Enqueue, Job
  <2>3. Waiting # {}
    BY <2>2 DEF Signal, Waiting
  <2>4. PICK w \in Waiting : pc' = [pc EXCEPT ![w] = "ready"]
    BY <2>2, <2>3 DEF Signal
  <2>5. Ready' = Ready \cup {w} /\ w \notin Ready /\ w \in Workers
    BY <2>4, <1>1 DEF Ready, Waiting, TypeOK
  <2>6. Cardinality(Ready') = Cardinality(Ready) + 1
    BY <2>5, <1>3, OneWorkerMore
  <2>7. \A m \in Tiers : pendingByTier'[m] = 0 => pendingByTier[m] = 0
    BY <1>1, <2>2 DEF TypeOK
  <2>8. \A m \in 1..(n - 1) : m \in Tiers
    BY ConstantsAssumption DEF Tiers
  <2>9. \A m \in 1..(n - 1) : pendingByTier[m] = 0
    BY <2>7, <2>8 DEF Dispatchable
  <2>10. CASE n = j.tier
    <3>1. Len(items'[n]) = Len(items[n]) + 1
      BY <1>1, <1>4, <2>2, <2>10 DEF TypeOK
    <3>2. CASE items[n] = <<>>
      BY <3>1, <3>2, <2>6, <1>3
    <3>3. CASE items[n] # <<>>
      BY <3>1, <3>3, <2>3, <2>6, <2>9, <1>3, <1>4, <1>5 DEF Dispatchable
    <3>4. QED
      BY <3>2, <3>3
  <2>11. CASE n # j.tier
    <3>1. items'[n] = items[n]
      BY <2>2, <2>11, <1>1 DEF TypeOK
    <3>2. Dispatchable(n)
      BY <2>9, <3>1 DEF Dispatchable
    <3>3. QED
      BY <3>1, <3>2, <2>3, <2>6, <1>3, <1>4, <1>5
  <2>12. QED
    BY <2>10, <2>11
<1>9. ASSUME NEW w \in Workers, PopTake(w)
      PROVE  Len(items'[n]) <= Cardinality(Ready')
  <2>1. PICK m \in Tiers :
          /\ Dispatchable(m)
          /\ items' = [items EXCEPT ![m] = Tail(@)]
    BY <1>9 DEF PopTake
  <2>2. /\ pc[w] = "ready" /\ pc' = [pc EXCEPT ![w] = "work"]
        /\ UNCHANGED pendingByTier
    BY <1>9 DEF PopTake
  <2>3. Waiting # {}
    BY <2>2, <1>1 DEF Waiting, TypeOK
  <2>4. Ready' = Ready \ {w} /\ w \in Ready
    BY <2>2, <1>1 DEF Ready, TypeOK
  <2>5. Cardinality(Ready') = Cardinality(Ready) - 1
    BY <2>4, <1>3, OneWorkerMore
  <2>6. items[n] # <<>>
    <3>1. CASE m = n
      BY <2>1, <3>1 DEF Dispatchable
    <3>2. CASE m # n
      BY <2>1, <3>2, <1>1 DEF Dispatchable, TypeOK
    <3>3. QED
      BY <3>1, <3>2
  <2>7. Dispatchable(n)
    BY <2>2, <2>6 DEF Dispatchable
  <2>8. m = n
    BY <2>1, <2>7, OneOpenTier
  <2>9. Len(items'[n]) = Len(items[n]) - 1
    BY <2>1, <2>6, <2>8, <1>1, <1>4 DEF TypeOK
  <2>10. QED
    BY <2>3, <2>5, <2>7, <2>9, <1>3, <1>4, <1>5
<1>10. ASSUME NEW w \in Workers, PopExit(w) \/ PopWait(w)
       PROVE  FALSE
  BY <1>10, <1>2 DEF PopExit, PopWait, NothingDispatchable, Dispatchable
<1>11. QED
  BY <1>6, <1>7, <1>8, <1>9, <1>10
     DEF Next, vars, PushBegin, Push, PushRefuse, Pop, Done, SourceDone, WakeIfIdle,
         CloseSet, CloseBroadcast, Cancel, CancelWaiting

\* While a worker sleeps in Pop, every target that could be handed out has an
\* awake worker coming for it: the single Signal of Push never loses one.
THEOREM NoLostWakeup == Spec => []WorkConserving
BY InitOutstanding, NextOutstanding, InitConserving, NextConserving, PTL DEF Spec

-----------------------------------------------------------------------------
(* The queue keeps the promise of TierQueue, as far as safety goes.         *)

\* A target waits at a tier at most once, under a key that has been accepted
\* there: the set of jobs that TierQueue speaks of loses nothing.
QueuedOnce ==
  \A n \in Tiers :
    /\ \A i \in DOMAIN items[n] : <<KeyOf[items[n][i]], n>> \in seen
    /\ \A i, j \in DOMAIN items[n] : i # j => KeyOf[items[n][i]] # KeyOf[items[n][j]]

\* What Append and Tail do to the entries of a queue.
LEMMA QueueAppend ==
  ASSUME NEW s \in Seq(Targets), NEW t \in Targets
  PROVE  /\ Len(s) \in Nat /\ DOMAIN s = 1..Len(s)
         /\ DOMAIN Append(s, t) = 1..(Len(s) + 1)
         /\ \A i \in 1..Len(s) : Append(s, t)[i] = s[i]
         /\ Append(s, t)[Len(s) + 1] = t
OBVIOUS

LEMMA QueueTail ==
  ASSUME NEW s \in Seq(Targets), s # <<>>
  PROVE  /\ Len(s) \in Nat \ {0} /\ DOMAIN s = 1..Len(s) /\ 1 \in DOMAIN s
         /\ DOMAIN Tail(s) = 1..(Len(s) - 1)
         /\ \A i \in 1..(Len(s) - 1) : Tail(s)[i] = s[i + 1]
         /\ Head(s) = s[1] /\ Head(s) \in Targets
OBVIOUS

LEMMA InitQueuedOnce == Init => QueuedOnce
<1>1. DOMAIN <<>> = {}
  OBVIOUS
<1>2. QED
  BY <1>1 DEF Init, QueuedOnce

LEMMA NextQueuedOnce ==
  ASSUME Outstanding, QueuedOnce, [Next]_vars
  PROVE  QueuedOnce'
<1>0. TypeOK /\ QueuedOnce /\ items \in [Tiers -> Seq(Targets)]
  BY DEF Outstanding, TypeOK
<1>1. CASE items' = items /\ seen' = seen
  BY <1>0, <1>1 DEF QueuedOnce
<1>2. ASSUME NEW a \in Actors, PushAccept(a)
      PROVE  QueuedOnce'
  <2> DEFINE j == call[a]
             s == items[j.tier]
             k == KeyOf[j.target]
  <2>1. j \in Job
    BY <1>0, <1>2 DEF TypeOK, PushAccept
  <2>2. j.target \in Targets /\ j.tier \in Tiers /\ s \in Seq(Targets)
    BY <1>0, <2>1 DEF Job
  <2>3. /\ <<k, j.tier>> \notin seen
        /\ seen' = seen \cup {<<k, j.tier>>}
        /\ items' = [items EXCEPT ![j.tier] = Append(@, j.target)]
    BY <1>2 DEF PushAccept, Refused, Enqueue
  <2> HIDE DEF j
  <2>4. SUFFICES ASSUME NEW n \in Tiers
                 PROVE  /\ \A i \in DOMAIN items'[n] : <<KeyOf[items'[n][i]], n>> \in seen'
                        /\ \A i, l \in DOMAIN items'[n] :
                             i # l => KeyOf[items'[n][i]] # KeyOf[items'[n][l]]
    BY DEF QueuedOnce
  <2>5. CASE n # j.tier
    BY <1>0, <2>2, <2>3, <2>5 DEF QueuedOnce
  <2>6. CASE n = j.tier
    <3> DEFINE t == items'[n]
    <3>1. t = Append(s, j.target)
      BY <1>0, <2>2, <2>3, <2>6
    <3>2. /\ Len(s) \in Nat /\ DOMAIN s = 1..Len(s) /\ DOMAIN t = 1..(Len(s) + 1)
          /\ \A i \in 1..Len(s) : t[i] = s[i]
          /\ t[Len(s) + 1] = j.target
      BY <2>2, <3>1, QueueAppend
    <3>3. /\ \A i \in DOMAIN s : <<KeyOf[s[i]], n>> \in seen
          /\ \A i, l \in DOMAIN s : i # l => KeyOf[s[i]] # KeyOf[s[l]]
      BY <1>0, <2>2, <2>6 DEF QueuedOnce
    <3> HIDE DEF s, t
    <3>4. \A i \in DOMAIN t : i \in DOMAIN s \/ i = Len(s) + 1
      BY <3>2
    <3>5. \A i \in DOMAIN t : <<KeyOf[t[i]], n>> \in seen'
      BY <2>3, <2>6, <3>2, <3>3, <3>4
    <3>6. \A i \in DOMAIN s : KeyOf[s[i]] # k
      BY <2>3, <2>6, <3>3
    <3>7. ASSUME NEW i \in DOMAIN t, NEW l \in DOMAIN t, i # l
          PROVE  KeyOf[t[i]] # KeyOf[t[l]]
      BY <3>2, <3>3, <3>4, <3>6, <3>7
    <3>8. QED
      BY <3>5, <3>7 DEF t
  <2>7. QED
    BY <2>5, <2>6
<1>3. ASSUME NEW w \in Workers, PopTake(w)
      PROVE  QueuedOnce'
  <2>1. seen' = seen
    BY <1>3 DEF PopTake
  <2>2. PICK n \in Tiers : items[n] # <<>> /\ items' = [items EXCEPT ![n] = Tail(@)]
    BY <1>3 DEF PopTake, Dispatchable
  <2> DEFINE s == items[n]
             t == items'[n]
  <2>3. t = Tail(s) /\ s \in Seq(Targets) /\ s # <<>>
    BY <1>0, <2>2
  <2>4. /\ Len(s) \in Nat \ {0} /\ DOMAIN s = 1..Len(s) /\ DOMAIN t = 1..(Len(s) - 1)
        /\ \A i \in 1..(Len(s) - 1) : t[i] = s[i + 1]
    BY <2>3, QueueTail
  <2>5. /\ \A i \in DOMAIN s : <<KeyOf[s[i]], n>> \in seen
        /\ \A i, l \in DOMAIN s : i # l => KeyOf[s[i]] # KeyOf[s[l]]
    BY <1>0 DEF QueuedOnce
  <2>6. \A m \in Tiers : m # n => items'[m] = items[m]
    BY <1>0, <2>2
  <2> HIDE DEF s, t
  <2>7. \A i \in DOMAIN t : i + 1 \in DOMAIN s /\ t[i] = s[i + 1]
    BY <2>4
  <2>8. \A i, l \in DOMAIN t : i # l => i + 1 # l + 1
    BY <2>4
  <2>9. /\ \A i \in DOMAIN t : <<KeyOf[t[i]], n>> \in seen
        /\ \A i, l \in DOMAIN t : i # l => KeyOf[t[i]] # KeyOf[t[l]]
    BY <2>5, <2>7, <2>8
  <2>10. ASSUME NEW m \in Tiers
         PROVE  /\ \A i \in DOMAIN items'[m] : <<KeyOf[items'[m][i]], m>> \in seen'
                /\ \A i, l \in DOMAIN items'[m] :
                     i # l => KeyOf[items'[m][i]] # KeyOf[items'[m][l]]
    <3>1. CASE m = n
      BY <2>1, <2>9, <3>1 DEF t
    <3>2. CASE m # n
      BY <1>0, <2>1, <2>6, <3>2 DEF QueuedOnce
    <3>3. QED
      BY <3>1, <3>2
  <2>11. QED
    BY <2>10 DEF QueuedOnce
<1>4. QED
  BY <1>1, <1>2, <1>3
     DEF Next, vars, PushBegin, Push, PushRefuse, Pop, PopExit, PopWait, Done, SourceDone,
         CloseSet, CloseBroadcast, Cancel, CancelWaiting

\* The abstract queue: the set of the jobs that wait.
QueuedJobs == {j \in Job : Queued(j.target, j.tier)}

LEMMA AcceptQueues ==
  ASSUME TypeOK, NEW j \in Job, Enqueue(j)
  PROVE  QueuedJobs' = QueuedJobs \cup {j}
<1>1. /\ items \in [Tiers -> Seq(Targets)]
      /\ items' = [items EXCEPT ![j.tier] = Append(@, j.target)]
      /\ j.tier \in Tiers /\ j.target \in Targets
  BY DEF TypeOK, Enqueue, Job
<1> DEFINE s == items[j.tier]
           t == items'[j.tier]
<1>2. t = Append(s, j.target) /\ s \in Seq(Targets)
  BY <1>1
<1>3. /\ Len(s) \in Nat /\ DOMAIN s = 1..Len(s) /\ DOMAIN t = 1..(Len(s) + 1)
      /\ \A i \in 1..Len(s) : t[i] = s[i]
      /\ t[Len(s) + 1] = j.target
  BY <1>1, <1>2, QueueAppend
<1>4. \A n \in Tiers : n # j.tier => items'[n] = items[n]
  BY <1>1
<1> HIDE DEF s, t
<1>5. /\ \A i \in DOMAIN t : i \in DOMAIN s \/ i = Len(s) + 1
      /\ \A i \in DOMAIN s : i \in DOMAIN t
      /\ Len(s) + 1 \in DOMAIN t
  BY <1>3
<1>6. \A x : (\E i \in DOMAIN t : t[i] = x) <=> (\E i \in DOMAIN s : s[i] = x) \/ x = j.target
  BY <1>3, <1>5
<1>7. ASSUME NEW q \in Job
      PROVE  Queued(q.target, q.tier)' <=> Queued(q.target, q.tier) \/ q = j
  <2>1. q.tier \in Tiers /\ (q = j <=> q.target = j.target /\ q.tier = j.tier)
    BY DEF Job
  <2>2. CASE q.tier = j.tier
    BY <1>6, <2>1, <2>2 DEF Queued, s, t
  <2>3. CASE q.tier # j.tier
    BY <1>4, <2>1, <2>3 DEF Queued
  <2>4. QED
    BY <2>2, <2>3
<1>8. QED
  BY <1>7 DEF QueuedJobs

LEMMA TakeDequeues ==
  ASSUME TypeOK, QueuedOnce, NEW n \in Tiers, items[n] # <<>>,
         items' = [items EXCEPT ![n] = Tail(@)]
  PROVE  /\ [target |-> Head(items[n]), tier |-> n] \in QueuedJobs
         /\ QueuedJobs' = QueuedJobs \ {[target |-> Head(items[n]), tier |-> n]}
<1> DEFINE s == items[n]
           t == items'[n]
           j == [target |-> Head(s), tier |-> n]
<1>1. items \in [Tiers -> Seq(Targets)] /\ s \in Seq(Targets) /\ t = Tail(s)
  BY DEF TypeOK
<1>2. /\ Len(s) \in Nat \ {0} /\ DOMAIN s = 1..Len(s) /\ 1 \in DOMAIN s
      /\ DOMAIN t = 1..(Len(s) - 1)
      /\ \A i \in 1..(Len(s) - 1) : t[i] = s[i + 1]
      /\ Head(s) = s[1] /\ Head(s) \in Targets
  BY <1>1, QueueTail
<1>3. \A m \in Tiers : m # n => items'[m] = items[m]
  BY <1>1
<1>4. j \in Job /\ j.target = s[1] /\ j.tier = n
  BY <1>2 DEF Job
<1>5. j \in QueuedJobs
  BY <1>2, <1>4 DEF QueuedJobs, Queued
<1>6. \A i \in DOMAIN s : i # 1 => s[i] # s[1]
  BY <1>2 DEF QueuedOnce
<1> HIDE DEF s, t, j
<1>7. /\ \A i \in DOMAIN t : i + 1 \in DOMAIN s /\ t[i] = s[i + 1] /\ i + 1 # 1
      /\ \A i \in DOMAIN s : i # 1 => i - 1 \in DOMAIN t /\ t[i - 1] = s[i]
  BY <1>2
<1>8. \A x : (\E i \in DOMAIN t : t[i] = x) <=> (\E i \in DOMAIN s : s[i] = x) /\ x # s[1]
  BY <1>6, <1>7
<1>9. ASSUME NEW q \in Job
      PROVE  Queued(q.target, q.tier)' <=> Queued(q.target, q.tier) /\ q # j
  <2>1. q.tier \in Tiers /\ (q = j <=> q.target = s[1] /\ q.tier = n)
    BY <1>4 DEF Job
  <2>2. CASE q.tier = n
    <3>1. Queued(q.target, q.tier)' <=> \E i \in DOMAIN t : t[i] = q.target
      BY <2>2 DEF Queued, t
    <3>2. Queued(q.target, q.tier) <=> \E i \in DOMAIN s : s[i] = q.target
      BY <2>2 DEF Queued, s
    <3>3. q = j <=> q.target = s[1]
      BY <2>1, <2>2
    <3>4. (\E i \in DOMAIN t : t[i] = q.target)
            <=> (\E i \in DOMAIN s : s[i] = q.target) /\ q.target # s[1]
      BY <1>8
    <3>5. QED
      BY <3>1, <3>2, <3>3, <3>4
  <2>3. CASE q.tier # n
    BY <1>3, <2>1, <2>3 DEF Queued
  <2>4. QED
    BY <2>2, <2>3
<1>10. QueuedJobs' = QueuedJobs \ {j}
  BY <1>9 DEF QueuedJobs
<1>11. QED
  BY <1>5, <1>10 DEF j, s

LEMMA PromiseInit == Init => Promise!Init
<1> SUFFICES ASSUME Init PROVE Promise!Init
  OBVIOUS
<1>1. DOMAIN <<>> = {}
  OBVIOUS
<1>2. {j \in Job : Queued(j.target, j.tier)} = {}
  BY <1>1 DEF Init, Queued, Job
<1>3. {w \in Workers : pc[w] = "exit"} = {}
  BY DEF Init
<1>4. ~Stopped /\ ~sourceDone /\ seen = {} /\ job = [w \in Workers |-> None]
  BY DEF Init, Stopped, Closed
<1>5. QED
  BY <1>2, <1>3, <1>4 DEF Promise!Init

\* A worker at work holds a job, in TierQueue's eyes too, and nobody else does.
LEMMA PromiseHeld ==
  ASSUME Outstanding
  PROVE  /\ \A w \in Workers : pc[w] = "work" <=> job[w] # None
         /\ \A w \in Workers : pc[w] = "work" => job[w] \in Promise!Held
         /\ \A j \in Promise!Held : \E w \in Workers : pc[w] = "work" /\ j = job[w]
BY ConstantsAssumption DEF Outstanding, WorkingHoldsJob, Promise!Held

LEMMA PromiseAccept ==
  ASSUME Outstanding, NEW a \in Actors, PushAccept(a)
  PROVE  \E j \in Job : Promise!Accept(j)
<1> DEFINE j == call[a]
<1>1. j \in Job /\ TypeOK
  BY DEF Outstanding, TypeOK, PushAccept
<1>2. /\ <<KeyOf[j.target], j.tier>> \notin seen
      /\ seen' = seen \cup {<<KeyOf[j.target], j.tier>>}
      /\ Enqueue(j) /\ Signal
      /\ UNCHANGED <<sourceDone, closer, ctxDone, job>>
  BY DEF PushAccept, Refused
<1>3. ~sourceDone \/ Promise!Held # {}
  <2>1. MayPush(a)
    BY DEF Outstanding, PushersActive, PushAccept
  <2>2. QED
    BY <2>1, PromiseHeld DEF MayPush, Actors
<1>4. {w \in Workers : pc'[w] = "exit"} = {w \in Workers : pc[w] = "exit"}
  BY <1>1, <1>2, WakingKeepsWork
<1>5. Stopped' = Stopped
  BY <1>2 DEF Stopped, Closed
<1> HIDE DEF j
<1>6. QueuedJobs' = QueuedJobs \cup {j}
  BY <1>1, <1>2, AcceptQueues
<1>7. Promise!Accept(j)
  BY <1>2, <1>3, <1>4, <1>5, <1>6 DEF Promise!Accept, QueuedJobs
<1>8. QED
  BY <1>1, <1>7

LEMMA PromiseTake ==
  ASSUME Outstanding, QueuedOnce, NEW w \in Workers, PopTake(w)
  PROVE  Promise!Take(w)
<1>1. TypeOK /\ WorkingHoldsJob
  BY DEF Outstanding
<1>2. /\ pc[w] = "ready" /\ ~Stopped
      /\ pc' = [pc EXCEPT ![w] = "work"]
      /\ UNCHANGED <<seen, pendingByTier, hostCount, sourceDone, closer, ctxDone, call>>
  BY DEF PopTake
<1>3. PICK n \in Tiers :
        /\ Dispatchable(n)
        /\ items' = [items EXCEPT ![n] = Tail(@)]
        /\ job' = [job EXCEPT ![w] = [target |-> Head(items[n]), tier |-> n]]
  BY DEF PopTake
<1> DEFINE j == [target |-> Head(items[n]), tier |-> n]
<1>4. j \in QueuedJobs /\ QueuedJobs' = QueuedJobs \ {j}
  BY <1>1, <1>3, TakeDequeues DEF Dispatchable
<1>5. {v \in Workers : pc'[v] = "exit"} = {v \in Workers : pc[v] = "exit"}
  BY <1>1, <1>2 DEF TypeOK
<1>6. job[w] = None
  BY <1>1, <1>2 DEF WorkingHoldsJob
<1>7. Stopped' = Stopped
  BY <1>2 DEF Stopped, Closed
<1>8. ASSUME NEW m \in 1..(n - 1)
      PROVE  items[m] = <<>> /\ Held(m) = {}
  <2>1. m \in Tiers
    BY ConstantsAssumption DEF Tiers
  <2>2. Len(items[m]) + Cardinality(Held(m)) = 0
    BY <1>3, <2>1 DEF Outstanding, PendingIsOutstanding, Dispatchable
  <2>3. Cardinality(Held(m)) \in Nat /\ (Cardinality(Held(m)) = 0 <=> Held(m) = {})
    BY WorkerSets DEF Held
  <2>4. items[m] \in Seq(Targets)
    BY <1>1, <2>1 DEF TypeOK
  <2>5. Len(items[m]) \in Nat /\ (Len(items[m]) = 0 => items[m] = <<>>)
    BY <2>4
  <2>6. QED
    BY <2>2, <2>3, <2>5
<1>9. ASSUME NEW m \in Tiers, m < n
      PROVE  DOMAIN items[m] = {} /\ Held(m) = {}
  <2>1. m \in 1..(n - 1)
    BY <1>9, ConstantsAssumption DEF Tiers
  <2>2. DOMAIN <<>> = {}
    OBVIOUS
  <2>3. QED
    BY <1>8, <2>1, <2>2
<1>10. ASSUME NEW i \in QueuedJobs \cup Promise!Held
       PROVE  j.tier <= i.tier
  <2>1. CASE i \in QueuedJobs
    <3>1. i.tier \in Tiers /\ DOMAIN items[i.tier] # {}
      BY <2>1 DEF QueuedJobs, Queued, Job
    <3>2. ~(i.tier < n)
      BY <1>9, <3>1
    <3>3. QED
      BY <3>1, <3>2, ConstantsAssumption DEF Tiers
  <2>2. CASE i \in Promise!Held
    <3>1. PICK v \in Workers : pc[v] = "work" /\ i = job[v]
      BY <2>2, PromiseHeld
    <3>2. i.tier \in Tiers /\ v \in Held(i.tier)
      BY <1>1, <3>1 DEF WorkingHoldsJob, Held, Job
    <3>3. ~(i.tier < n)
      BY <1>9, <3>2
    <3>4. QED
      BY <3>2, <3>3, ConstantsAssumption DEF Tiers
  <2>3. QED
    BY <2>1, <2>2
<1>11. w \notin {v \in Workers : pc[v] = "exit"}
  BY <1>2
<1>12. QED
  BY <1>2, <1>3, <1>4, <1>5, <1>6, <1>7, <1>10, <1>11 DEF Promise!Take, QueuedJobs

\* A worker stops when the scan is stopped, or when TierQueue is quiescent.
LEMMA PromiseRetire ==
  ASSUME Outstanding, NEW w \in Workers, PopExit(w)
  PROVE  Promise!Retire(w)
<1>1. TypeOK /\ WorkingHoldsJob
  BY DEF Outstanding
<1>2. /\ pc[w] = "ready" /\ job[w] = None
      /\ pc' = [pc EXCEPT ![w] = "exit"]
      /\ UNCHANGED <<items, seen, sourceDone, closer, ctxDone, job>>
  BY <1>1 DEF PopExit, WorkingHoldsJob
<1>3. Stopped \/ Promise!Quiescent
  <2> SUFFICES ASSUME Drained PROVE Promise!Quiescent
    BY DEF PopExit
  <2>1. /\ \A n \in Tiers : items[n] = <<>>
        /\ \A v \in Workers : pc[v] # "work"
    BY ZeroMeansIdle DEF Drained
  <2>2. DOMAIN <<>> = {}
    OBVIOUS
  <2>3. {j \in Job : Queued(j.target, j.tier)} = {}
    BY <2>1, <2>2 DEF Queued, Job
  <2>4. Promise!Held = {}
    BY <2>1, PromiseHeld
  <2>5. QED
    BY <2>3, <2>4 DEF Promise!Quiescent, Drained
<1>4. {v \in Workers : pc'[v] = "exit"} = {v \in Workers : pc[v] = "exit"} \cup {w}
  BY <1>1, <1>2 DEF TypeOK
<1>5. Stopped' = Stopped /\ QueuedJobs' = QueuedJobs
  BY <1>2 DEF Stopped, Closed, QueuedJobs, Queued
<1>6. QED
  BY <1>2, <1>3, <1>4, <1>5 DEF Promise!Retire, QueuedJobs

LEMMA PromiseFinish ==
  ASSUME Outstanding, NEW w \in Workers, Done(w)
  PROVE  Promise!Finish(w)
<1>1. TypeOK
  BY DEF Outstanding
<1>2. /\ job[w] # None /\ job' = [job EXCEPT ![w] = None]
      /\ pc[w] = "work" /\ BroadcastAnd({w})
      /\ UNCHANGED <<items, seen, sourceDone, closer, ctxDone>>
  BY PromiseHeld DEF Done
<1>3. {v \in Workers : pc'[v] = "exit"} = {v \in Workers : pc[v] = "exit"}
  BY <1>1, <1>2 DEF BroadcastAnd, Waiting, TypeOK
<1>4. Stopped' = Stopped /\ QueuedJobs' = QueuedJobs
  BY <1>2 DEF Stopped, Closed, QueuedJobs, Queued
<1>5. QED
  BY <1>2, <1>3, <1>4 DEF Promise!Finish, QueuedJobs

\* The steps that TierQueue does not see, and those that only end the source
\* or the scan.
LEMMA PromiseRest ==
  ASSUME Outstanding,
         \/ \E a \in Actors, j \in Job : PushBegin(a, j)
         \/ \E a \in Actors : PushRefuse(a)
         \/ \E w \in Workers : PopWait(w)
         \/ SourceDone \/ CloseSet \/ CloseBroadcast \/ Cancel \/ CancelWaiting
         \/ UNCHANGED vars
  PROVE  [Promise!Next]_(Promise!vars)
<1>1. TypeOK
  BY DEF Outstanding
<1>2. items' = items /\ seen' = seen /\ job' = job
  BY DEF PushBegin, PushRefuse, PopWait, SourceDone, CloseSet, CloseBroadcast, Cancel,
         CancelWaiting, vars
<1>3. {v \in Workers : pc'[v] = "exit"} = {v \in Workers : pc[v] = "exit"}
  <2>1. \/ \E w \in Workers : pc[w] = "ready" /\ pc' = [pc EXCEPT ![w] = "waiting"]
        \/ BroadcastAnd({}) \/ UNCHANGED pc
    BY DEF PushBegin, PushRefuse, PopWait, SourceDone, WakeIfIdle, CloseSet, CloseBroadcast,
           Cancel, CancelWaiting, vars
  <2>2. QED
    BY <1>1, <2>1, WakingKeepsWork DEF TypeOK
<1>4. QueuedJobs' = QueuedJobs
  BY <1>2 DEF QueuedJobs, Queued
<1>5. CASE SourceDone
  <2>1. ~sourceDone /\ sourceDone' = TRUE /\ closer' = closer /\ ctxDone' = ctxDone
    BY <1>5 DEF SourceDone
  <2>2. Promise!EndSource
    BY <1>2, <1>3, <1>4, <2>1 DEF Promise!EndSource, QueuedJobs, Stopped, Closed
  <2>3. QED
    BY <2>2 DEF Promise!Next
<1>6. CASE ~SourceDone
  <2>1. sourceDone' = sourceDone
    BY <1>6 DEF PushBegin, PushRefuse, PopWait, CloseSet, CloseBroadcast, Cancel,
                CancelWaiting, vars
  <2>2. Stopped => Stopped'
    BY <1>6 DEF PushBegin, PushRefuse, PopWait, CloseSet, CloseBroadcast, Cancel,
                CancelWaiting, vars, Stopped, Closed
  <2>3. CASE Stopped' = Stopped
    BY <1>2, <1>3, <1>4, <2>1, <2>3 DEF Promise!vars, QueuedJobs
  <2>4. CASE ~Stopped /\ Stopped'
    <3>1. Promise!Halt
      BY <1>2, <1>3, <1>4, <2>1, <2>4, Zenon DEF Promise!Halt, QueuedJobs
    <3>2. QED
      BY <3>1 DEF Promise!Next
  <2>5. Stopped \in BOOLEAN /\ Stopped' \in BOOLEAN
    BY DEF Stopped
  <2>6. QED
    BY <2>2, <2>3, <2>4, <2>5, Zenon
<1>7. QED
  BY <1>5, <1>6

\* Every step of the queue is a step of TierQueue, or one that it does not see:
\* the mutex, the condition variable, the counters and the flags keep what the
\* header comment of worklist.go promises.
THEOREM KeepsPromise == Spec => Promise!Spec
<1>1. Outstanding /\ QueuedOnce /\ [Next]_vars => [Promise!Next]_(Promise!vars)
  <2> SUFFICES ASSUME Outstanding, QueuedOnce, [Next]_vars
               PROVE  [Promise!Next]_(Promise!vars)
    OBVIOUS
  <2>1. ASSUME NEW a \in Actors, PushAccept(a)
        PROVE  Promise!Next
    BY <2>1, PromiseAccept DEF Promise!Next, Promise!Job, Promise!Tiers, Job, Tiers
  <2>2. ASSUME NEW w \in Workers, PopTake(w) \/ PopExit(w) \/ Done(w)
        PROVE  Promise!Next
    BY <2>2, PromiseTake, PromiseRetire, PromiseFinish DEF Promise!Next
  <2>3. QED
    BY <2>1, <2>2, PromiseRest DEF Next, Push, Pop
<1>2. QED
  BY <1>1, PromiseInit, InitOutstanding, NextOutstanding, InitQueuedOnce, NextQueuedOnce, PTL
     DEF Spec, Promise!Spec

=============================================================================
