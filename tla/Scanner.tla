------------------------------- MODULE Scanner -------------------------------
(***************************************************************************)
(* One scan: Scanner.ScanAll (internal/scanner/scanner.go) on top of the    *)
(* tiered work queue of module Worklist.                                    *)
(*                                                                          *)
(* A source goroutine stores each crawled page in pageByKey and pushes its  *)
(* target at the first tier.  Every worker pops a target, obtains its page  *)
(* from pageByKey or by fetching it, runs the checks of that tier on it in  *)
(* parallel, and pushes the target at the next tier before it reports Done. *)
(* A running check may push targets it discovered, at the first tier        *)
(* (core.Discover) or at one it names (core.DiscoverAt).  A two-phase check *)
(* plants at its own tier and detects at the last one, on a page fetched    *)
(* anew.  When all workers have returned, the out-of-band checks are        *)
(* drained and the findings channel is closed.                              *)
(***************************************************************************)
EXTENDS Worklist

CONSTANTS
  Crawled,           \* the targets the crawler delivers
  Checks,            \* the registered checks
  CheckTier,         \* check -> tier (checkTier)
  TwoPhase,          \* the checks with Plant and Detect
  OOBChecks,         \* the checks to Drain; empty without an OOB server
  Consumers,         \* target -> the checks that take its kind and whose
                     \*   stack gate passes
  OriginOf,          \* target -> the check that emits it, or None
  Emits,             \* what checks may discover: [check, on : key, job]
  Fetched,           \* the targets (page, param) materialized with a GET
  CheckConcurrency   \* the cap on the checks of one dispatch; 0: none

VARIABLES
  feed,       \* the pages the crawler has yet to deliver
  feeding,    \* the target of the page the source holds
  pageByKey,  \* the keys that have a page in the cache
  stage,      \* per actor, where it is between two queue operations
  todo,       \* per worker, the checks it has yet to launch
  running,    \* per worker, the checks in Run, Plant or Detect
  sending,    \* per worker, the checks blocked on sending a finding
  owed,       \* the findings returned by checks and not yet received
  scanned,    \* the (key, tier) pairs whose dispatch completed
  failed,     \* the keys whose fetch failed at some tier
  main,       \* ScanAll itself: "join", "oobwait", "drain", "returned"
  undrained   \* the out-of-band checks runOOBDrain has yet to ask

scanVars == <<feed, feeding, pageByKey, stage, todo, running, sending,
              owed, scanned, failed, main, undrained>>
allVars  == <<vars, scanVars>>

Deferred == NumTiers
LastTier == IF TwoPhase # {} THEN Deferred ELSE Deferred - 1

ASSUME ScannerAssumption ==
  /\ IsFiniteSet(Checks)
  /\ Crawled \subseteq Targets
  /\ CheckTier \in [Checks -> Tiers]
  /\ TwoPhase \subseteq Checks
  /\ OOBChecks \subseteq Checks
  /\ Consumers \in [Targets -> SUBSET Checks]
  /\ OriginOf \in [Targets -> Checks \cup {None}]
  /\ Emits \subseteq [check : Checks, on : Keys, job : Job]
  /\ Fetched \subseteq Targets
  /\ CheckConcurrency \in Nat
  /\ NumTiers > 1
  /\ Workers # {}  \* New: eight, and WithConcurrency ignores zero
  \* Only stored_xss.lua, which is two-phase, discovers at the last tier.
  /\ \A e \in Emits : e.job.tier = Deferred => e.check \in TwoPhase

SourceStages == {"idle", "push", "pushing", "evict"}
WorkerStages == {"idle", "refresh", "load", "fetch", "scan", "advance",
                 "advancing", "evict", "done"}

ScanTypeOK ==
  /\ TypeOK
  /\ feed \subseteq Crawled
  /\ feeding \in Crawled \cup {None}
  /\ pageByKey \subseteq Keys
  /\ stage \in [Actors -> SourceStages \cup WorkerStages]
  /\ todo \in [Workers -> SUBSET Checks]
  /\ running \in [Workers -> SUBSET Checks]
  /\ sending \in [Workers -> SUBSET Checks]
  /\ owed \in Nat
  /\ scanned \subseteq Keys \X Tiers
  /\ failed \subseteq Keys
  /\ main \in {"join", "oobwait", "drain", "returned"}
  /\ undrained \subseteq OOBChecks

ScanInit ==
  /\ Init
  /\ feed = Crawled
  /\ feeding = None
  /\ pageByKey = {}
  /\ stage = [a \in Actors |-> "idle"]
  /\ todo = [w \in Workers |-> {}]
  /\ running = [w \in Workers |-> {}]
  /\ sending = [w \in Workers |-> {}]
  /\ owed = 0
  /\ scanned = {}
  /\ failed = {}
  /\ main = "join"
  /\ undrained = OOBChecks

Goto(a, s) == stage' = [stage EXCEPT ![a] = s]

-----------------------------------------------------------------------------
(* The source goroutine.                                                    *)

\* The page is cached before its target is pushed.
Receive(t) ==
  /\ stage[Source] = "idle"
  /\ ~sourceDone
  /\ t \in feed
  /\ feed' = feed \ {t}
  /\ feeding' = t
  /\ pageByKey' = pageByKey \cup {KeyOf[t]}
  /\ Goto(Source, "push")
  /\ UNCHANGED <<vars, todo, running, sending, owed, scanned,
                 failed, main, undrained>>

PushPage ==
  /\ stage[Source] = "push"
  /\ PushBegin(Source, [target |-> feeding, tier |-> 1])
  /\ Goto(Source, "pushing")
  /\ UNCHANGED <<feed, feeding, pageByKey, todo, running, sending, owed,
                 scanned, failed, main, undrained>>

\* Push returned false before it took the mutex.
PushPageDenied ==
  /\ stage[Source] = "push"
  /\ ctxDone \/ feeding \notin InScope
  /\ Goto(Source, "evict")
  /\ UNCHANGED <<vars, feed, feeding, pageByKey, todo, running,
                 sending, owed, scanned, failed, main, undrained>>

PagePushed ==
  /\ stage[Source] = "pushing"
  /\ \/ PushAccept(Source) /\ Goto(Source, "idle")
     \/ PushRefuse(Source) /\ Goto(Source, "evict")
  /\ UNCHANGED <<feed, feeding, pageByKey, todo, running, sending, owed,
                 scanned, failed, main, undrained>>

EvictRefusedPage ==
  /\ stage[Source] = "evict"
  /\ pageByKey' = pageByKey \ {KeyOf[feeding]}
  /\ Goto(Source, "idle")
  /\ UNCHANGED <<vars, feed, feeding, todo, running, sending, owed,
                 scanned, failed, main, undrained>>

\* Mutant: the source is declared done while a page is still to be pushed.
EndOfPagesTooEarly ==
  /\ feed = {} \/ ctxDone
  /\ SourceDone
  /\ UNCHANGED scanVars

\* The pages channel is closed, or the context is cancelled.
EndOfPages ==
  /\ stage[Source] = "idle"
  /\ feed = {} \/ ctxDone
  /\ SourceDone
  /\ UNCHANGED scanVars

-----------------------------------------------------------------------------
(* A worker: pop, obtain the page.                                          *)

KeyAt(w)  == KeyOf[job[w].target]
TierAt(w) == job[w].tier

Take(w) ==
  /\ PopTake(w)
  /\ Goto(w, IF job'[w].tier = Deferred THEN "refresh" ELSE "load")
  /\ UNCHANGED <<feed, feeding, pageByKey, todo, running, sending, owed,
                 scanned, failed, main, undrained>>

RestOfPop(w) ==
  /\ PopWait(w) \/ PopExit(w)
  /\ UNCHANGED scanVars

\* "force a re-fetch for Detect by evicting the cache on TierDeferred entry"
Refresh(w) ==
  /\ stage[w] = "refresh"
  /\ pageByKey' = pageByKey \ {KeyAt(w)}
  /\ Goto(w, "load")
  /\ UNCHANGED <<vars, feed, feeding, todo, running, sending, owed,
                 scanned, failed, main, undrained>>

\* checkMatchesTier, consumesKind and the stack gate, isSelfLoop
Matching(t, n) ==
  {c \in Consumers[t] :
     /\ CheckTier[c] = n \/ (n = Deferred /\ c \in TwoPhase)
     /\ n # Deferred => OriginOf[t] # c}

BeginScan(w) ==
  /\ Goto(w, "scan")
  /\ todo' = [todo EXCEPT ![w] = Matching(job[w].target, TierAt(w))]

LoadHit(w) ==
  /\ stage[w] = "load"
  /\ KeyAt(w) \in pageByKey
  /\ BeginScan(w)
  /\ UNCHANGED <<vars, feed, feeding, pageByKey, running, sending, owed,
                 scanned, failed, main, undrained>>

LoadMiss(w) ==
  /\ stage[w] = "load"
  /\ KeyAt(w) \notin pageByKey
  /\ Goto(w, "fetch")
  /\ UNCHANGED <<vars, feed, feeding, pageByKey, todo, running,
                 sending, owed, scanned, failed, main, undrained>>

\* A GET that succeeds, or the bare page of an endpoint or a host.
Materialize(w) ==
  /\ stage[w] = "fetch"
  /\ pageByKey' = pageByKey \cup {KeyAt(w)}
  /\ BeginScan(w)
  /\ UNCHANGED <<vars, feed, feeding, running, sending, owed, scanned,
                 failed, main, undrained>>

FetchFails(w) ==
  /\ stage[w] = "fetch"
  /\ job[w].target \in Fetched
  /\ failed' = failed \cup {KeyAt(w)}
  /\ Goto(w, "evict")
  /\ UNCHANGED <<vars, feed, feeding, pageByKey, todo, running,
                 sending, owed, scanned, main, undrained>>

-----------------------------------------------------------------------------
(* A worker: scanTier, runTier and runCheck.                                *)

SlotFree(w) ==
  CheckConcurrency > 0 => Cardinality(running[w] \cup sending[w]) < CheckConcurrency

Launch(w, c) ==
  /\ stage[w] = "scan"
  /\ c \in todo[w]
  /\ ~ctxDone
  /\ SlotFree(w)
  /\ todo' = [todo EXCEPT ![w] = @ \ {c}]
  /\ running' = [running EXCEPT ![w] = @ \cup {c}]
  /\ UNCHANGED <<vars, feed, feeding, pageByKey, stage, sending,
                 owed, scanned, failed, main, undrained>>

\* A cancelled scan launches no more checks.
Abandon(w) ==
  /\ ctxDone
  /\ todo[w] # {}
  /\ todo' = [todo EXCEPT ![w] = {}]
  /\ UNCHANGED <<vars, feed, feeding, pageByKey, stage, running,
                 sending, owed, scanned, failed, main, undrained>>

\* The Discoverer of a running check pushes what the check found.
Discover(w, c) ==
  /\ stage[w] = "scan"
  /\ c \in running[w]
  /\ \E e \in Emits :
       /\ e.check = c
       /\ e.on = KeyAt(w)
       /\ PushBegin(w, e.job)
  /\ UNCHANGED scanVars

Discovered(w) ==
  /\ stage[w] = "scan"
  /\ Push(w)
  /\ UNCHANGED scanVars

\* The check returns, with a finding to send or with none (or an error).
CheckReturns(w, c) ==
  /\ c \in running[w]
  /\ call[w] = None
  /\ running' = [running EXCEPT ![w] = @ \ {c}]
  /\ \/ UNCHANGED <<sending, owed>>
     \/ /\ sending' = [sending EXCEPT ![w] = @ \cup {c}]
        /\ owed' = owed + 1
  /\ UNCHANGED <<vars, feed, feeding, pageByKey, stage, todo,
                 scanned, failed, main, undrained>>

\* The send does not select on the context: the reader drains to the end.
Send(w, c) ==
  /\ c \in sending[w]
  /\ sending' = [sending EXCEPT ![w] = @ \ {c}]
  /\ owed' = owed - 1
  /\ UNCHANGED <<vars, feed, feeding, pageByKey, stage, todo,
                 running, scanned, failed, main, undrained>>

\* Mutant: the page is dropped with the tier that has just ended.
NextStageAlwaysEvict(w) == "evict"

\* "materialized && tier < lastTier"
NextStage(w) == IF TierAt(w) < LastTier THEN "advance" ELSE "evict"

ScanReturns(w) ==
  /\ stage[w] = "scan"
  /\ todo[w] \cup running[w] \cup sending[w] = {}
  /\ scanned' = scanned \cup {<<KeyAt(w), TierAt(w)>>}
  /\ Goto(w, NextStage(w))
  /\ UNCHANGED <<vars, feed, feeding, pageByKey, todo, running,
                 sending, owed, failed, main, undrained>>

-----------------------------------------------------------------------------
(* A worker: advance the target, then report Done.                          *)

Advance(w) ==
  /\ stage[w] = "advance"
  /\ PushBegin(w, [target |-> job[w].target, tier |-> TierAt(w) + 1])
  /\ Goto(w, "advancing")
  /\ UNCHANGED <<feed, feeding, pageByKey, todo, running, sending, owed,
                 scanned, failed, main, undrained>>

AdvanceDenied(w) ==
  /\ stage[w] = "advance"
  /\ ctxDone
  /\ Goto(w, "evict")
  /\ UNCHANGED <<vars, feed, feeding, pageByKey, todo, running,
                 sending, owed, scanned, failed, main, undrained>>

\* Mutant: a refused advance leaves its page in the cache.
AdvancedNoEvict(w) ==
  /\ stage[w] = "advancing"
  /\ Push(w)
  /\ Goto(w, "done")
  /\ UNCHANGED <<feed, feeding, pageByKey, todo, running, sending, owed,
                 scanned, failed, main, undrained>>

Advanced(w) ==
  /\ stage[w] = "advancing"
  /\ \/ PushAccept(w) /\ Goto(w, "done")
     \/ PushRefuse(w) /\ Goto(w, "evict")
  /\ UNCHANGED <<feed, feeding, pageByKey, todo, running, sending, owed,
                 scanned, failed, main, undrained>>

Evict(w) ==
  /\ stage[w] = "evict"
  /\ pageByKey' = pageByKey \ {KeyAt(w)}
  /\ Goto(w, "done")
  /\ UNCHANGED <<vars, feed, feeding, todo, running, sending, owed,
                 scanned, failed, main, undrained>>

Finish(w) ==
  /\ stage[w] = "done"
  /\ Done(w)
  /\ Goto(w, "idle")
  /\ UNCHANGED <<feed, feeding, pageByKey, todo, running, sending, owed,
                 scanned, failed, main, undrained>>

-----------------------------------------------------------------------------
(* ScanAll after its workers: runOOBDrain, and the return that closes out.  *)

\* Mutant: the drain is reached when the queue is empty, not when the workers
\* have returned.
JoinedWhenDequeued == sourceDone /\ \A n \in Tiers : items[n] = <<>>

Joined == \A w \in Workers : pc[w] = "exit"

Join ==
  /\ main = "join"
  /\ Joined
  /\ main' = IF ctxDone \/ OOBChecks = {} THEN "returned" ELSE "oobwait"
  /\ UNCHANGED <<vars, feed, feeding, pageByKey, stage, todo,
                 running, sending, owed, scanned, failed, undrained>>

\* The wait ends with its timer or with the context, whichever is chosen.
OOBWait ==
  /\ main = "oobwait"
  /\ \/ main' = "drain"
     \/ ctxDone /\ main' = "returned"
  /\ UNCHANGED <<vars, feed, feeding, pageByKey, stage, todo,
                 running, sending, owed, scanned, failed, undrained>>

\* Drain returns the check's findings, which are sent before the next check.
Drain(c) ==
  /\ main = "drain"
  /\ ~ctxDone
  /\ c \in undrained
  /\ undrained' = undrained \ {c}
  /\ UNCHANGED <<vars, feed, feeding, pageByKey, stage, todo,
                 running, sending, owed, scanned, failed, main>>

Return ==
  /\ main = "drain"
  /\ ctxDone \/ undrained = {}
  /\ main' = "returned"
  /\ UNCHANGED <<vars, feed, feeding, pageByKey, stage, todo,
                 running, sending, owed, scanned, failed, undrained>>

CancelScan    == Cancel /\ UNCHANGED scanVars
WakeCancelled == CancelWaiting /\ UNCHANGED scanVars

-----------------------------------------------------------------------------
SourceStep ==
  \/ PushPage \/ PushPageDenied \/ PagePushed \/ EvictRefusedPage
  \/ EndOfPages
  \/ \E t \in Crawled : Receive(t)

ObtainPage(w) == Refresh(w) \/ LoadHit(w) \/ LoadMiss(w) \/ Materialize(w)
                 \/ FetchFails(w)
CheckStep(w, c) == Launch(w, c) \/ CheckReturns(w, c) \/ Send(w, c)
Retire(w) == Advance(w) \/ AdvanceDenied(w) \/ Advanced(w) \/ Evict(w)
             \/ Finish(w)

WorkerStep(w) ==
  \/ Take(w) \/ RestOfPop(w)
  \/ ObtainPage(w)
  \/ Abandon(w) \/ Discovered(w) \/ ScanReturns(w)
  \/ Retire(w)

MainStep == Join \/ OOBWait \/ (\E c \in OOBChecks : Drain(c)) \/ Return

ScanNext ==
  \/ SourceStep
  \/ \E w \in Workers : WorkerStep(w)
  \/ \E w \in Workers, c \in Checks : CheckStep(w, c) \/ Discover(w, c)
  \/ MainStep
  \/ CancelScan
  \/ WakeCancelled

\* Every goroutine runs.  A check may be refused any number of discoveries
\* before it returns, but its deadline makes it return (strong fairness).
ScanFairness ==
  /\ WF_allVars(SourceStep)
  /\ \A w \in Workers : WF_allVars(WorkerStep(w))
  /\ \A w \in Workers, c \in Checks :
       WF_allVars(Launch(w, c)) /\ SF_allVars(CheckReturns(w, c)) /\ WF_allVars(Send(w, c))
  /\ WF_allVars(MainStep)
  /\ WF_allVars(WakeCancelled)

ScanSpec == ScanInit /\ [][ScanNext]_allVars

FairScanSpec == ScanSpec /\ ScanFairness

-----------------------------------------------------------------------------
(* Correctness.                                                             *)

\* ScanAll is a client the queue was built for: it pushes only from the source
\* before SourceDone and from a worker between its Pop and its Done, so what
\* is shown of Worklist holds of the queue inside a scan.
ObeysWorklist == Spec

\* Accepted work that has yet to be dispatched, or to fail for want of a page.
Unwalked(k, n) ==
  /\ <<k, n>> \in seen
  /\ <<k, n>> \notin scanned
  /\ k \notin failed

\* What the two-phase barrier is worth: when a worker is handed a target to
\* detect on, every target accepted so far at a lower tier has been through
\* that tier and, below the last tier, has already been pushed at the next
\* one.  No target is between two tiers.
BarrierCoversAccepted ==
  [][\A w \in Workers :
       stage[w] = "idle" /\ stage'[w] = "refresh" =>
         \A k \in Keys, n \in 1..(Deferred - 1) :
           /\ ~Unwalked(k, n)
           /\ <<k, n>> \in scanned => <<k, n + 1>> \in seen]_allVars

\* A scan that ends by itself has walked every accepted target through every
\* tier from the one it entered at, except where no page could be had; this
\* holds before the out-of-band drain starts, so nothing can still register a
\* callback once the drain has looked.
EveryTargetWalked ==
  main # "join" /\ ~ctxDone =>
    \A k \in Keys, n \in Tiers : <<k, n>> \in seen =>
      \A m \in n..LastTier : <<k, m>> \in scanned \/ k \in failed

\* "any check whose Run has already returned will have its findings flushed"
\* and "dropped advances do not leak map slots": when ScanAll closes the
\* findings channel, cancelled or not, no finding is lost and no check is left
\* that could send on the closed channel; a scan that ends by itself leaves no
\* page in the cache, although source and workers store and delete entries of
\* the same key concurrently.
NothingLeftOver ==
  /\ main = "returned" =>
       /\ owed = 0
       /\ \A w \in Workers : running[w] = {} /\ sending[w] = {}
  /\ main # "join" /\ ~ctxDone => pageByKey = {}

\* ScanAll returns, cancelled or not.
ScanReturnsAtLast == <>(main = "returned")

==============================================================================
