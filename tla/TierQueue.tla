------------------------------ MODULE TierQueue ------------------------------
(***************************************************************************)
(* What the scanner's work queue promises (the header comment of            *)
(* internal/scanner/worklist.go), with no mutex, no condition variable and  *)
(* no counters: a set of jobs accepted at most once each, handed out lowest *)
(* tier first with a barrier between tiers, and workers that retire when    *)
(* the queue is halted or when nothing can ever arrive again.               *)
(***************************************************************************)
EXTENDS Naturals

CONSTANTS Workers, Targets, Keys, KeyOf, NumTiers, None

Tiers == 1..NumTiers
Job   == [target : Targets, tier : Tiers]

VARIABLES
  accepted,  \* the (key, tier) pairs ever accepted
  queued,    \* the jobs not yet handed out
  held,      \* per worker, the job it works on
  open,      \* the source may still push
  halted,    \* the scan is cancelled or the queue closed
  retired    \* the workers that were told to stop

vars == <<accepted, queued, held, open, halted, retired>>

Init ==
  /\ accepted = {}
  /\ queued = {}
  /\ held = [w \in Workers |-> None]
  /\ open = TRUE
  /\ halted = FALSE
  /\ retired = {}

Held == {held[w] : w \in Workers} \ {None}

\* Only the source and a worker with a job in hand bring new work.
Accept(j) ==
  /\ open \/ Held # {}
  /\ <<KeyOf[j.target], j.tier>> \notin accepted
  /\ accepted' = accepted \cup {<<KeyOf[j.target], j.tier>>}
  /\ queued' = queued \cup {j}
  /\ UNCHANGED <<held, open, halted, retired>>

Take(w) ==
  /\ w \notin retired
  /\ held[w] = None
  /\ ~halted
  /\ \E j \in queued :
       /\ \A i \in queued \cup Held : j.tier <= i.tier
       /\ queued' = queued \ {j}
       /\ held' = [held EXCEPT ![w] = j]
  /\ UNCHANGED <<accepted, open, halted, retired>>

Finish(w) ==
  /\ held[w] # None
  /\ held' = [held EXCEPT ![w] = None]
  /\ UNCHANGED <<accepted, queued, open, halted, retired>>

EndSource ==
  /\ open
  /\ open' = FALSE
  /\ UNCHANGED <<accepted, queued, held, halted, retired>>

Halt ==
  /\ ~halted
  /\ halted' = TRUE
  /\ UNCHANGED <<accepted, queued, held, open, retired>>

Quiescent == ~open /\ queued = {} /\ Held = {}

Retire(w) ==
  /\ w \notin retired
  /\ held[w] = None
  /\ halted \/ Quiescent
  /\ retired' = retired \cup {w}
  /\ UNCHANGED <<accepted, queued, held, open, halted>>

Next ==
  \/ \E j \in Job : Accept(j)
  \/ \E w \in Workers : Take(w) \/ Finish(w) \/ Retire(w)
  \/ EndSource
  \/ Halt

Spec == Init /\ [][Next]_vars

FairSpec ==
  /\ Spec
  /\ WF_vars(\E w \in Workers : Take(w))
  /\ \A w \in Workers : WF_vars(Finish(w)) /\ WF_vars(Retire(w))
  /\ WF_vars(EndSource)
=============================================================================
