---------------------------- MODULE BrowserPool ----------------------------
(***************************************************************************)
(* The headless browser, internal/browser/browser.go.  A Visit takes one   *)
(* of a fixed number of slots, opens a tab, installs the binding, loads    *)
(* the page, and waits for the first call of the binding, the settle time  *)
(* or the end of its context.  A page may run the payload this visit       *)
(* planted, and also one that an earlier probe left behind on the site:    *)
(* only the first call is kept, and its token is compared with the         *)
(* visit's own.                                                            *)
(***************************************************************************)
EXTENDS Naturals, FiniteSets

CONSTANTS Visitors,    \* who may visit: the dispatches of checks
          MaxTabs      \* maxConcurrent, the capacity of the semaphore

ASSUME TabsAssumption == MaxTabs \in Nat \ {0}

VARIABLES slots,       \* visitors that hold a slot of the semaphore
          first        \* the binding call a visit has kept

tabVars == <<slots, first>>

\* No call yet, a call with the visit's token, a call with another token.
Calls == {"none", "own", "other"}

TabTypeOK ==
    /\ slots \subseteq Visitors
    /\ first \in [Visitors -> Calls]

TabInit ==
    /\ slots = {}
    /\ first = [v \in Visitors |-> "none"]

\* Visit gets its slot, opens the tab and installs the binding.
OpenTab(v) ==
    /\ v \notin slots
    /\ Cardinality(slots) < MaxTabs
    /\ slots' = slots \cup {v}
    /\ first' = [first EXCEPT ![v] = "none"]

\* The page calls the binding; the listener keeps the first call and drops
\* the others.
BindingCalled(v, call) ==
    /\ v \in slots
    /\ call \in {"own", "other"}
    /\ first[v] = "none"
    /\ first' = [first EXCEPT ![v] = call]
    /\ UNCHANGED slots

\* An error of the navigation returns before the slot is given back.
SlotIsKept(v) ==
    /\ v \in slots
    /\ slots' = IF first[v] = "none" THEN slots ELSE slots \ {v}
    /\ first' = [first EXCEPT ![v] = "none"]

\* Visit returns: on a kept call, after the settle time, on an error of the
\* navigation, or when its context ends.  The slot is given back on each path.
CloseTab(v) ==
    /\ v \in slots
    /\ slots' = slots \ {v}
    /\ first' = [first EXCEPT ![v] = "none"]

\* What Visit reports: fired.
Fired(v) == first[v] = "own"
=============================================================================
