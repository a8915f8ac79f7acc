----------------------------- MODULE ProbeProofs -----------------------------
(***************************************************************************)
(* Proofs about the checks that share state between the pages of a scan    *)
(* (the modules that MCChecks puts together), for every set of pages and   *)
(* whatever stands behind them: none of them oversteps its bounds.         *)
(*                                                                         *)
(* Each check has a section of its own: its inductive invariant, that it   *)
(* begins with it (...Initially), that each of its actions keeps it        *)
(* (...Keeps), and that it implies the bounds (...KeepsBounds).  The last  *)
(* section puts them together.                                             *)
(***************************************************************************)
EXTENDS MCChecks, FiniteSetTheorems, WellFoundedInduction, TLAPS

-----------------------------------------------------------------------------
(* Induction, and the greatest member of a set, which a fold takes first.  *)

\* A set of naturals that holds 0, and with a number the next, holds them all.
LEMMA Induction ==
  ASSUME NEW T \in SUBSET Nat, 0 \in T, \A n \in T : n + 1 \in T
  PROVE  \A n \in Nat : n \in T
<1> DEFINE R == OpToRel(<, Nat)
           U == Nat \ T
<1>1. IsWellFoundedOn(R, Nat)
  BY NatLessThanWellFounded
<1>2. \A x, y \in Nat : <<y, x>> \in R <=> y < x
  BY DEF OpToRel
<1> HIDE DEF R
<1>3. SUFFICES ASSUME U # {} PROVE FALSE
  OBVIOUS
<1>4. U \subseteq Nat
  OBVIOUS
<1>5. PICK x \in U : \A y \in U : ~ (<<y, x>> \in R)
  <2> HIDE DEF U
  <2>1. QED
    BY <1>1, <1>3, <1>4, WFMin
<1>6. x \in Nat /\ x # 0 /\ x - 1 \in Nat /\ x - 1 < x
  OBVIOUS
<1>7. x - 1 \in U
  BY <1>6
<1>8. QED
  BY <1>2, <1>5, <1>6, <1>7

\* A set of some of the first naturals has a greatest member; without it, the others
\* lie below it.
LEMMA GreatestMember ==
  ASSUME NEW n \in Nat, NEW u \in SUBSET (1 .. n), u # {}
  PROVE  Max(u) \in u /\ \A y \in u : Max(u) >= y
<1> DEFINE T == {k \in Nat : \A v \in SUBSET (1 .. k) : v # {} => \E x \in v : \A y \in v : x >= y}
<1>1. 0 \in T
  <2>1. 1 .. 0 = {}
    OBVIOUS
  <2>2. \A v \in SUBSET (1 .. 0) : v = {}
    BY <2>1
  <2>3. QED
    BY <2>2
<1>2. ASSUME NEW k \in T PROVE k + 1 \in T
  <2>1. ASSUME NEW v \in SUBSET (1 .. k + 1), v # {} PROVE \E x \in v : \A y \in v : x >= y
    <3>1. CASE k + 1 \in v
      BY <3>1
    <3>2. CASE k + 1 \notin v
      <4>1. v \in SUBSET (1 .. k)
        BY <3>2
      <4>2. QED
        BY <2>1, <4>1
    <3>3. QED
      BY <3>1, <3>2
  <2>2. QED
    BY <2>1
<1>3. \A k \in Nat : k \in T
  <2> HIDE DEF T
  <2>1. T \in SUBSET Nat
    BY DEF T
  <2>2. QED
    BY <1>1, <1>2, <2>1, Induction
<1>4. PICK x \in u : \A y \in u : x >= y
  BY <1>3
<1>5. QED
  BY <1>4 DEF Max

LEMMA WithoutGreatest ==
  ASSUME NEW n \in Nat, NEW u \in SUBSET (1 .. n + 1), u # {}
  PROVE  Max(u) \in u /\ u \ {Max(u)} \in SUBSET (1 .. n)
<1>1. n + 1 \in Nat
  OBVIOUS
<1>2. Max(u) \in u /\ \A y \in u : Max(u) >= y
  BY <1>1, GreatestMember
<1>3. ASSUME NEW y \in u \ {Max(u)} PROVE y \in 1 .. n
  <2>1. Max(u) \in 1 .. n + 1 /\ y \in 1 .. n + 1 /\ Max(u) >= y /\ y # Max(u)
    BY <1>2
  <2> DEFINE m == Max(u)
  <2> HIDE DEF m
  <2>2. m \in 1 .. n + 1 /\ m >= y /\ y # m
    BY <2>1 DEF m
  <2>3. QED
    BY <2>1, <2>2
<1>4. QED
  BY <1>2, <1>3
-----------------------------------------------------------------------------
(* The race-condition check.                                               *)

RaceTargets == UNION { Candidates(p) : p \in RacePages }
RaceUrls == { f.url : f \in RaceTargets }
ConnStates == {"unused", "dialing", "holding", "sent", "answered", "out"}
Codes == {0, 200, 409}
Bursts == [target : RaceTargets, conn : [Conns -> ConnStates], status : [Conns -> Codes]]
RaceRuns ==
  [at : {"choosing", "alone", "burst", "over"}, todo : SUBSET RaceTargets, target : RaceTargets \cup {NoTarget},
   probed : Nat, conn : [Conns -> ConnStates], status : [Conns -> Codes], signals : Nat, survivors : Nat,
   failed : Nat, open : BOOLEAN, early : BOOLEAN, facts : SUBSET Bursts, cut : BOOLEAN]

RaceTypeOK ==
  /\ race \in [RacePages -> RaceRuns]
  /\ behind \in [RaceUrls -> {"steady", "oneshot", "racy"}]
  /\ raced \subseteq RaceTargets

\* What a run bursts, burst, or is about to burst.
Owned(r) == { f.target : f \in r.facts } \cup (IF r.at \in {"alone", "burst"} THEN {r.target} ELSE {})
Dialing(r) == { c \in Conns : r.conn[c] = "dialing" }

\* The barrier.  Whoever dialled holds, dropped out, or is counted as one of the two;
\* it opens in time only when all are.
AtRest(r) == r.conn = Unused /\ ~r.open /\ r.signals = 0 /\ r.survivors = 0 /\ r.failed = 0
Barrier(r) ==
  /\ r.at # "burst" => AtRest(r)
  /\ r.at = "burst" => \A c \in Conns : r.conn[c] # "unused"
  /\ ~r.open => \A c \in Conns : r.conn[c] \in {"unused", "dialing", "holding", "out"}
  /\ r.open => r.early \/ Dialing(r) = {}
  /\ r.at = "burst" => Cardinality(Dialing(r)) + r.signals + r.survivors + r.failed = Cardinality(Conns)

\* A run has a target to burst, and no more than it counted.
Within(r) ==
  /\ r.at \in {"alone", "burst"} => r.target \in RaceTargets
  /\ r.probed <= TargetsPerPage
  /\ IsFiniteSet(Owned(r)) /\ Cardinality(Owned(r)) <= TargetsPerPage
  /\ r.at # "over" => Cardinality(Owned(r)) <= r.probed

RaceRunsOK == \A p \in RacePages : Barrier(race[p]) /\ Within(race[p])

\* What is taken is taken by one page.
RaceApart ==
  /\ \A p \in RacePages : Owned(race[p]) \subseteq taken
  /\ \A p, q \in RacePages : p # q => Owned(race[p]) \cap Owned(race[q]) = {}

RaceInv == RaceTypeOK /\ RaceRunsOK /\ RaceApart

LEMMA UnbegunIsARun ==
  ASSUME NEW todo \in SUBSET RaceTargets
  PROVE  /\ Unbegun(todo) \in RaceRuns /\ Barrier(Unbegun(todo)) /\ Within(Unbegun(todo))
         /\ Owned(Unbegun(todo)) = {}
<1>1. Unused \in [Conns -> ConnStates] /\ Silent \in [Conns -> Codes]
  BY DEF Unused, Silent, ConnStates, Codes
<1>2. Unbegun(todo) \in RaceRuns
  BY <1>1 DEF Unbegun, RaceRuns
<1>3. Owned(Unbegun(todo)) = {}
  BY DEF Owned, Unbegun
<1>4. Barrier(Unbegun(todo))
  BY DEF Barrier, AtRest, Unbegun, Unused
<1>5. Within(Unbegun(todo))
  <2>1. Unbegun(todo).at = "choosing" /\ Unbegun(todo).probed = 0
    BY DEF Unbegun
  <2>2. IsFiniteSet({}) /\ Cardinality({}) = 0
    BY FS_EmptySet
  <2>3. QED
    BY <1>3, <2>1, <2>2, RaceAssumption DEF Within
<1>6. QED
  BY <1>2, <1>3, <1>4, <1>5

LEMMA RaceInitially == RaceInit => RaceInv
<1> SUFFICES ASSUME RaceInit PROVE RaceInv
  OBVIOUS
<1>1. \A p \in RacePages : Candidates(p) \in SUBSET RaceTargets /\ race[p] = Unbegun(Candidates(p))
  BY DEF RaceInit, RaceTargets
<1>2. RaceTypeOK
  BY <1>1, UnbegunIsARun DEF RaceInit, RaceTypeOK, RaceUrls, RaceTargets
<1>3. RaceRunsOK
  BY <1>1, UnbegunIsARun DEF RaceRunsOK
<1>4. RaceApart
  BY <1>1, UnbegunIsARun DEF RaceApart
<1>5. QED
  BY <1>2, <1>3, <1>4 DEF RaceInv

\* A step of one run, from r to s, that takes the targets more.
RunStep(p, r, s, more) ==
  /\ r = race[p] /\ race' = [race EXCEPT ![p] = s]
  /\ s \in RaceRuns /\ Barrier(s) /\ Within(s)
  /\ Owned(s) \subseteq Owned(r) \cup more /\ more \cap taken = {} /\ taken' = taken \cup more
  /\ behind' = behind

LEMMA RunStepKeeps ==
  ASSUME RaceInv, NEW p \in RacePages, NEW r, NEW s, NEW more, RunStep(p, r, s, more), raced' \subseteq RaceTargets
  PROVE  RaceInv'
<1>1. \A q \in RacePages : race'[q] = IF q = p THEN s ELSE race[q]
  BY DEF RunStep, RaceInv, RaceTypeOK
<1>2. RaceTypeOK'
  BY <1>1 DEF RunStep, RaceInv, RaceTypeOK
<1>3. RaceRunsOK'
  BY <1>1 DEF RunStep, RaceInv, RaceRunsOK
<1>4. RaceApart'
  <2>1. ASSUME NEW q \in RacePages PROVE Owned(race'[q]) \subseteq taken'
    BY <1>1 DEF RunStep, RaceInv, RaceApart
  <2>2. ASSUME NEW q \in RacePages, q # p PROVE Owned(race'[p]) \cap Owned(race'[q]) = {}
    BY <1>1, <2>2 DEF RunStep, RaceInv, RaceApart
  <2>3. ASSUME NEW q \in RacePages, NEW u \in RacePages, q # u PROVE Owned(race'[u]) \cap Owned(race'[q]) = {}
    BY <1>1, <2>2, <2>3 DEF RaceInv, RaceApart
  <2>4. QED
    BY <2>1, <2>3 DEF RaceApart
<1>5. QED
  BY <1>2, <1>3, <1>4 DEF RaceInv

\* What a server says is one of three codes.
LEMMA CodesOnly ==
  ASSUME RaceTypeOK, NEW url \in RaceUrls PROVE Answers(url) \subseteq Codes
BY DEF RaceTypeOK, Answers, Codes

\* The steps within a run change the connections and the counts and own no more.
SameOwned(r, s) ==
  /\ s.at = r.at /\ s.target = r.target /\ s.facts = r.facts /\ s.probed = r.probed
LEMMA SameOwnedIsWithin ==
  ASSUME NEW r, NEW s, SameOwned(r, s), Within(r)
  PROVE  Within(s) /\ Owned(s) = Owned(r)
<1>1. Owned(s) = Owned(r)
  BY DEF SameOwned, Owned
<1>2. QED
  BY <1>1 DEF SameOwned, Within

LEMMA ChooseKeeps ==
  ASSUME RaceInv, NEW p \in RacePages, Choose(p) PROVE RaceInv'
<1> DEFINE r == race[p]
<1>1. r \in RaceRuns /\ Barrier(r) /\ Within(r) /\ r.at = "choosing" /\ r.probed < TargetsPerPage /\ raced' = raced
  BY DEF RaceInv, RaceTypeOK, RaceRunsOK, Choose
<1>2. PICK t \in Foremost(r.todo) :
         IF Seen(p, t)
         THEN race' = [race EXCEPT ![p].todo = @ \ {t}] /\ taken' = taken
         ELSE /\ taken' = taken \cup {t}
              /\ race' = [race EXCEPT ![p].todo = @ \ {t}, ![p].probed = @ + 1, ![p].target = t, ![p].at = "alone"]
  BY DEF Choose
<1>3. t \in r.todo /\ t \in RaceTargets /\ r.todo \in SUBSET RaceTargets
  BY <1>1 DEF Foremost, RaceRuns
<1>4. race \in [RacePages -> RaceRuns]
  BY DEF RaceInv, RaceTypeOK
<1>5. CASE Seen(p, t)
  <2> DEFINE s == [r EXCEPT !.todo = @ \ {t}]
  <2>1. race' = [race EXCEPT ![p] = s]
    BY <1>2, <1>4, <1>5
  <2>2. s \in RaceRuns
    BY <1>1, <1>3 DEF RaceRuns
  <2>3. /\ SameOwned(r, s) /\ s.conn = r.conn /\ s.open = r.open /\ s.early = r.early
        /\ s.signals = r.signals /\ s.survivors = r.survivors /\ s.failed = r.failed
    BY <1>1 DEF SameOwned, RaceRuns
  <2>4. s.at = "choosing"
    BY <1>1 DEF RaceRuns
  <2> HIDE DEF s
  <2>5. Barrier(s)
    BY <1>1, <2>3, <2>4 DEF Barrier, Dialing, AtRest
  <2>6. RunStep(p, r, s, {})
    BY <1>1, <1>2, <1>5, <2>1, <2>2, <2>3, <2>5, SameOwnedIsWithin DEF RunStep, Choose
  <2>7. QED
    BY <1>1, <2>6, RunStepKeeps DEF RaceInv, RaceTypeOK
<1>6. CASE ~Seen(p, t)
  <2> DEFINE s == [r EXCEPT !.todo = @ \ {t}, !.probed = @ + 1, !.target = t, !.at = "alone"]
  <2>1. race' = [race EXCEPT ![p] = s]
    BY <1>2, <1>4, <1>6
  <2>2. s \in RaceRuns
    <3>1. PICK n \in Nat : n = r.probed + 1
      BY <1>1 DEF RaceRuns
    <3>2. PICK left \in SUBSET RaceTargets : left = r.todo \ {t}
      BY <1>3
    <3>3. [r EXCEPT !.todo = left, !.probed = n, !.target = t, !.at = "alone"] \in RaceRuns
      BY <1>1, <1>3 DEF RaceRuns
    <3>4. QED
      BY <3>1, <3>2, <3>3
  <2>3. /\ s.at = "alone" /\ s.target = t /\ s.facts = r.facts /\ s.conn = r.conn /\ s.open = r.open /\ s.early = r.early
        /\ s.signals = r.signals /\ s.survivors = r.survivors /\ s.failed = r.failed
    BY <1>1 DEF RaceRuns
  <2>4. s.probed = r.probed + 1 /\ r.probed \in Nat
    BY <1>1 DEF RaceRuns
  <2> HIDE DEF s
  <2>5. Barrier(s)
    BY <1>1, <2>3 DEF Barrier, Dialing, AtRest
  <2>6. Owned(s) = Owned(r) \cup {t}
    BY <1>1, <2>3 DEF Owned
  <2>7. IsFiniteSet(Owned(s)) /\ Cardinality(Owned(s)) <= s.probed
    <3>1. IsFiniteSet(Owned(r)) /\ Cardinality(Owned(r)) <= r.probed /\ Cardinality(Owned(r)) \in Nat
      BY <1>1, FS_CardinalityType DEF Within
    <3>2. /\ IsFiniteSet(Owned(r) \cup {t})
          /\ Cardinality(Owned(r) \cup {t}) \in {Cardinality(Owned(r)), Cardinality(Owned(r)) + 1}
      BY <3>1, FS_AddElement
    <3>3. QED
      BY <2>4, <2>6, <3>1, <3>2
  <2>8. Within(s)
    <3>1. s.probed <= TargetsPerPage /\ Cardinality(Owned(s)) \in Nat
      BY <1>1, <2>4, <2>7, RaceAssumption, FS_CardinalityType
    <3>2. Cardinality(Owned(s)) <= TargetsPerPage
      BY <2>4, <2>7, <3>1, RaceAssumption
    <3>3. QED
      BY <1>3, <2>3, <2>7, <3>1, <3>2 DEF Within
  <2>9. t \notin taken
    BY <1>6 DEF Seen
  <2>10. RunStep(p, r, s, {t})
    BY <1>2, <1>6, <2>1, <2>2, <2>5, <2>6, <2>8, <2>9 DEF RunStep, Choose
  <2>11. QED
    BY <1>1, <2>10, RunStepKeeps DEF RaceInv, RaceTypeOK
<1>7. QED
  BY <1>5, <1>6

LEMMA SendOneKeeps ==
  ASSUME RaceInv, NEW p \in RacePages, SendOne(p) PROVE RaceInv'
<1> DEFINE r == race[p]
<1>1. /\ r \in RaceRuns /\ Barrier(r) /\ Within(r) /\ r.at = "alone" /\ raced' = raced /\ taken' = taken /\ behind' = behind
      /\ race \in [RacePages -> RaceRuns]
  BY DEF RaceInv, RaceTypeOK, RaceRunsOK, SendOne
<1>2. CASE race' = [race EXCEPT ![p].at = "burst", ![p].conn = [c \in Conns |-> "dialing"]]
  <2> DEFINE s == [r EXCEPT !.at = "burst", !.conn = [c \in Conns |-> "dialing"]]
  <2>1. race' = [race EXCEPT ![p] = s]
    BY <1>1, <1>2
  <2>2. s \in RaceRuns
    BY <1>1 DEF RaceRuns, ConnStates
  <2>3. /\ s.at = "burst" /\ s.target = r.target /\ s.facts = r.facts /\ s.probed = r.probed
        /\ s.conn = [c \in Conns |-> "dialing"] /\ s.open = r.open /\ s.early = r.early
        /\ s.signals = r.signals /\ s.survivors = r.survivors /\ s.failed = r.failed
    BY <1>1 DEF RaceRuns
  <2>4. AtRest(r)
    BY <1>1 DEF RaceInv, RaceRunsOK, Barrier
  <2> HIDE DEF s
  <2>5. Barrier(s)
    <3>1. Dialing(s) = Conns
      BY <2>3 DEF Dialing
    <3>2. Cardinality(Conns) \in Nat
      BY RaceAssumption, FS_CardinalityType
    <3>3. QED
      BY <2>3, <2>4, <3>1, <3>2 DEF Barrier, AtRest
  <2>6. Owned(s) = Owned(r)
    BY <1>1, <2>3 DEF Owned
  <2>7. Within(s)
    BY <1>1, <2>3, <2>6 DEF Within
  <2>8. RunStep(p, r, s, {})
    BY <1>1, <2>1, <2>2, <2>5, <2>6, <2>7 DEF RunStep
  <2>9. QED
    BY <1>1, <2>8, RunStepKeeps DEF RaceInv, RaceTypeOK
<1>3. CASE race' = [race EXCEPT ![p].at = "choosing"]
  <2> DEFINE s == [r EXCEPT !.at = "choosing"]
  <2>1. race' = [race EXCEPT ![p] = s]
    BY <1>1, <1>3
  <2>2. s \in RaceRuns
    BY <1>1 DEF RaceRuns
  <2>3. /\ s.at = "choosing" /\ s.facts = r.facts /\ s.probed = r.probed
        /\ s.conn = r.conn /\ s.open = r.open /\ s.early = r.early
        /\ s.signals = r.signals /\ s.survivors = r.survivors /\ s.failed = r.failed
    BY <1>1 DEF RaceRuns
  <2> HIDE DEF s
  <2>4. Barrier(s)
    BY <1>1, <2>3 DEF Barrier, Dialing, AtRest
  <2>5. Owned(s) \subseteq Owned(r)
    BY <1>1, <2>3 DEF Owned
  <2>6. Within(s)
    <3>1. IsFiniteSet(Owned(r)) /\ Cardinality(Owned(r)) <= r.probed
      BY <1>1 DEF Within
    <3>2. /\ IsFiniteSet(Owned(s)) /\ Cardinality(Owned(s)) <= Cardinality(Owned(r))
          /\ Cardinality(Owned(s)) \in Nat /\ Cardinality(Owned(r)) \in Nat
      BY <2>5, <3>1, FS_Subset, FS_CardinalityType
    <3>3. r.probed \in Nat /\ r.probed <= TargetsPerPage /\ TargetsPerPage \in Nat
      BY <1>1, RaceAssumption DEF RaceRuns, Within
    <3>4. QED
      BY <2>3, <3>1, <3>2, <3>3 DEF Within
  <2>7. RunStep(p, r, s, {})
    BY <1>1, <2>1, <2>2, <2>4, <2>5, <2>6 DEF RunStep
  <2>8. QED
    BY <1>1, <2>7, RunStepKeeps DEF RaceInv, RaceTypeOK
<1>4. QED
  BY <1>2, <1>3 DEF SendOne

LEMMA HoldKeeps ==
  ASSUME RaceInv, NEW p \in RacePages, NEW c \in Conns, Hold(p, c) PROVE RaceInv'
<1> DEFINE r == race[p]
<1>1. /\ r \in RaceRuns /\ Barrier(r) /\ Within(r) /\ r.conn[c] = "dialing" /\ raced' = raced /\ taken' = taken
      /\ behind' = behind /\ race \in [RacePages -> RaceRuns]
  BY DEF RaceInv, RaceTypeOK, RaceRunsOK, Hold
<1>2. r.at = "burst"
  BY <1>1 DEF Barrier, AtRest, Unused
\* One connection less dials, and one more holds or dropped out.
<1>3. ASSUME NEW s, race' = [race EXCEPT ![p] = s], s \in RaceRuns, SameOwned(r, s), s.open = r.open, s.early = r.early,
             NEW x \in {"holding", "out"}, s.conn = [r.conn EXCEPT ![c] = x],
             s.survivors = r.survivors, s.signals + s.failed = r.signals + r.failed + 1
      PROVE  RaceInv'
  <2>1. Dialing(s) = Dialing(r) \ {c} /\ c \in Dialing(r)
    BY <1>1, <1>3 DEF Dialing, RaceRuns
  <2>2. Cardinality(Dialing(s)) = Cardinality(Dialing(r)) - 1 /\ Cardinality(Dialing(r)) \in Nat
    <3>1. IsFiniteSet(Dialing(r))
      BY RaceAssumption, FS_Subset DEF Dialing
    <3>2. QED
      BY <2>1, <3>1, FS_RemoveElement, FS_CardinalityType
  <2>3. \A d \in Conns : s.conn[d] = IF d = c THEN x ELSE r.conn[d]
    BY <1>1, <1>3 DEF RaceRuns
  <2>4. /\ r.signals \in Nat /\ r.survivors \in Nat /\ r.failed \in Nat
        /\ s.signals \in Nat /\ s.survivors \in Nat /\ s.failed \in Nat
    BY <1>1, <1>3 DEF RaceRuns
  <2>5. Cardinality(Dialing(s)) + s.signals + s.survivors + s.failed = Cardinality(Conns)
    <3>1. Cardinality(Dialing(r)) + r.signals + r.survivors + r.failed = Cardinality(Conns)
      BY <1>1, <1>2 DEF Barrier
    <3>2. QED
      BY <1>3, <2>2, <2>4, <3>1
  <2>6. Barrier(s)
    <3>1. s.at = "burst"
      BY <1>2, <1>3 DEF SameOwned
    <3>2. \A d \in Conns : s.conn[d] # "unused"
      BY <1>1, <1>2, <2>3 DEF Barrier
    <3>3. ~s.open => \A d \in Conns : s.conn[d] \in {"unused", "dialing", "holding", "out"}
      BY <1>1, <1>3, <2>3 DEF Barrier
    <3>4. s.open => s.early \/ Dialing(s) = {}
      BY <1>1, <1>3, <2>1 DEF Barrier
    <3>5. QED
      BY <2>5, <3>1, <3>2, <3>3, <3>4 DEF Barrier
  <2>7. RunStep(p, r, s, {})
    BY <1>1, <1>3, <2>6, SameOwnedIsWithin DEF RunStep
  <2>8. QED
    BY <1>1, <2>7, RunStepKeeps DEF RaceInv, RaceTypeOK
<1>4. CASE race' = [race EXCEPT ![p].conn[c] = "holding", ![p].signals = @ + 1]
  <2> DEFINE s == [r EXCEPT !.conn[c] = "holding", !.signals = @ + 1]
  <2>1. race' = [race EXCEPT ![p] = s]
    BY <1>1, <1>4
  <2>2. s \in RaceRuns
    <3>1. PICK n \in Nat : n = r.signals + 1
      BY <1>1 DEF RaceRuns
    <3>2. PICK k \in [Conns -> ConnStates] : k = [r.conn EXCEPT ![c] = "holding"]
      BY <1>1 DEF RaceRuns, ConnStates
    <3>3. [r EXCEPT !.conn = k, !.signals = n] \in RaceRuns
      BY <1>1 DEF RaceRuns
    <3>4. QED
      BY <1>1, <3>1, <3>2, <3>3
  <2>3. /\ SameOwned(r, s) /\ s.open = r.open /\ s.early = r.early /\ s.conn = [r.conn EXCEPT ![c] = "holding"]
        /\ s.survivors = r.survivors /\ s.failed = r.failed
    BY <1>1 DEF RaceRuns, SameOwned
  <2>4. s.signals = r.signals + 1 /\ r.signals \in Nat /\ r.failed \in Nat
    BY <1>1 DEF RaceRuns
  <2>5. s.signals + s.failed = r.signals + r.failed + 1
    BY <2>3, <2>4
  <2> HIDE DEF s
  <2>6. QED
    BY <1>3, <2>1, <2>2, <2>3, <2>5
<1>5. CASE race' = [race EXCEPT ![p].conn[c] = "out", ![p].failed = @ + 1]
  <2> DEFINE s == [r EXCEPT !.conn[c] = "out", !.failed = @ + 1]
  <2>1. race' = [race EXCEPT ![p] = s]
    BY <1>1, <1>5
  <2>2. s \in RaceRuns
    <3>1. PICK n \in Nat : n = r.failed + 1
      BY <1>1 DEF RaceRuns
    <3>2. PICK k \in [Conns -> ConnStates] : k = [r.conn EXCEPT ![c] = "out"]
      BY <1>1 DEF RaceRuns, ConnStates
    <3>3. [r EXCEPT !.conn = k, !.failed = n] \in RaceRuns
      BY <1>1 DEF RaceRuns
    <3>4. QED
      BY <1>1, <3>1, <3>2, <3>3
  <2>3. /\ SameOwned(r, s) /\ s.open = r.open /\ s.early = r.early /\ s.conn = [r.conn EXCEPT ![c] = "out"]
        /\ s.survivors = r.survivors /\ s.signals = r.signals
    BY <1>1 DEF RaceRuns, SameOwned
  <2>4. s.failed = r.failed + 1 /\ r.signals \in Nat /\ r.failed \in Nat
    BY <1>1 DEF RaceRuns
  <2>5. s.signals + s.failed = r.signals + r.failed + 1
    BY <2>3, <2>4
  <2> HIDE DEF s
  <2>6. QED
    BY <1>3, <2>1, <2>2, <2>3, <2>5
<1>6. QED
  BY <1>4, <1>5 DEF Hold

LEMMA CollectKeeps ==
  ASSUME RaceInv, NEW p \in RacePages, Collect(p) PROVE RaceInv'
<1> DEFINE r == race[p]
           opens == Enough(r.survivors + 1 + r.failed)
           s == [r EXCEPT !.signals = @ - 1, !.survivors = @ + 1, !.open = opens]
<1>1. /\ r \in RaceRuns /\ Barrier(r) /\ Within(r) /\ r.at = "burst" /\ ~r.open /\ r.signals > 0
      /\ raced' = raced /\ taken' = taken /\ behind' = behind /\ race \in [RacePages -> RaceRuns]
  BY DEF RaceInv, RaceTypeOK, RaceRunsOK, Collect
<1>2. race' = [race EXCEPT ![p] = s]
  BY <1>1 DEF Collect
<1>3. r.signals \in Nat /\ r.survivors \in Nat /\ r.failed \in Nat
  BY <1>1 DEF RaceRuns
<1>4. opens \in BOOLEAN /\ (opens <=> r.survivors + 1 + r.failed >= Cardinality(Conns))
  BY DEF Enough
<1>5. s \in RaceRuns
  <2>1. PICK n \in Nat : n = r.signals - 1
    BY <1>1, <1>3
  <2>2. PICK m \in Nat : m = r.survivors + 1
    BY <1>3
  <2>3. PICK b \in BOOLEAN : b = opens
    BY <1>4
  <2> HIDE DEF opens
  <2>4. [r EXCEPT !.signals = n, !.survivors = m, !.open = b] \in RaceRuns
    BY <1>1 DEF RaceRuns
  <2>5. QED
    BY <2>1, <2>2, <2>3, <2>4
<1>6. SameOwned(r, s) /\ s.conn = r.conn /\ s.failed = r.failed /\ s.open = opens /\ s.early = r.early
  BY <1>1 DEF SameOwned, RaceRuns
<1>7. s.signals = r.signals - 1 /\ s.survivors = r.survivors + 1
  BY <1>1 DEF RaceRuns
<1> HIDE DEF s
<1>8. Dialing(s) = Dialing(r) /\ IsFiniteSet(Dialing(r)) /\ Cardinality(Dialing(r)) \in Nat
  BY <1>6, RaceAssumption, FS_Subset, FS_CardinalityType DEF Dialing
<1>9. Cardinality(Dialing(r)) + r.signals + r.survivors + r.failed = Cardinality(Conns)
  BY <1>1 DEF Barrier
<1>10. Cardinality(Dialing(s)) + s.signals + s.survivors + s.failed = Cardinality(Conns)
  BY <1>3, <1>6, <1>7, <1>8, <1>9
<1>11. s.open => Dialing(s) = {}
  <2>1. SUFFICES ASSUME s.open PROVE Dialing(s) = {}
    OBVIOUS
  <2>2. r.survivors + 1 + r.failed >= Cardinality(Conns)
    BY <1>4, <1>6, <2>1
  <2>3. Cardinality(Dialing(r)) = 0
    <3>1. r.signals >= 1
      BY <1>1, <1>3
    <3>2. Cardinality(Conns) \in Nat
      BY RaceAssumption, FS_CardinalityType
    <3>3. QED
      BY <1>3, <1>8, <1>9, <2>2, <3>1, <3>2
  <2>4. QED
    BY <1>8, <2>3, FS_EmptySet
<1>12. Barrier(s)
  <2>1. s.at = "burst"
    BY <1>1, <1>6 DEF SameOwned
  <2>2. \A d \in Conns : s.conn[d] # "unused" /\ s.conn[d] \in {"unused", "dialing", "holding", "out"}
    BY <1>1, <1>6 DEF Barrier
  <2>3. QED
    BY <1>10, <1>11, <2>1, <2>2 DEF Barrier
<1>13. RunStep(p, r, s, {})
  BY <1>1, <1>2, <1>5, <1>6, <1>12, SameOwnedIsWithin DEF RunStep
<1>14. QED
  BY <1>1, <1>13, RunStepKeeps DEF RaceInv, RaceTypeOK

LEMMA GiveUpKeeps ==
  ASSUME RaceInv, NEW p \in RacePages, GiveUp(p) PROVE RaceInv'
<1> DEFINE r == race[p]
           s == [r EXCEPT !.open = TRUE, !.early = TRUE]
<1>1. /\ r \in RaceRuns /\ Barrier(r) /\ Within(r) /\ r.at = "burst" /\ ~r.open
      /\ raced' = raced /\ taken' = taken /\ behind' = behind /\ race \in [RacePages -> RaceRuns]
  BY DEF RaceInv, RaceTypeOK, RaceRunsOK, GiveUp
<1>2. race' = [race EXCEPT ![p] = s]
  BY <1>1 DEF GiveUp
<1>3. s \in RaceRuns
  BY <1>1 DEF RaceRuns
<1>4. /\ SameOwned(r, s) /\ s.conn = r.conn /\ s.failed = r.failed /\ s.signals = r.signals /\ s.survivors = r.survivors
      /\ s.open /\ s.early
  BY <1>1 DEF SameOwned, RaceRuns
<1> HIDE DEF s
<1>5. Barrier(s)
  BY <1>1, <1>4 DEF Barrier, Dialing, SameOwned
<1>6. RunStep(p, r, s, {})
  BY <1>1, <1>2, <1>3, <1>4, <1>5, SameOwnedIsWithin DEF RunStep
<1>7. QED
  BY <1>1, <1>6, RunStepKeeps DEF RaceInv, RaceTypeOK

\* What a run does with its open connections keeps the barrier.
LEMMA AfterTheBarrier ==
  ASSUME RaceInv, NEW p \in RacePages, NEW s, race' = [race EXCEPT ![p] = s], s \in RaceRuns,
         SameOwned(race[p], s), NEW c \in Conns, NEW x \in {"sent", "answered", "out"},
         race[p].open, race[p].at = "burst", race[p].conn[c] # "dialing", s.conn = [race[p].conn EXCEPT ![c] = x],
         s.open = race[p].open, s.early = race[p].early, s.signals = race[p].signals,
         s.survivors = race[p].survivors, s.failed = race[p].failed,
         raced' = raced, taken' = taken, behind' = behind
  PROVE  RaceInv'
<1> DEFINE r == race[p]
<1>1. r \in RaceRuns /\ Barrier(r) /\ Within(r) /\ r.open
  BY DEF RaceInv, RaceTypeOK, RaceRunsOK
<1>2. \A d \in Conns : s.conn[d] = IF d = c THEN x ELSE r.conn[d]
  BY <1>1 DEF RaceRuns
<1>3. Dialing(s) = Dialing(r)
  BY <1>2 DEF Dialing
<1>4. Barrier(s)
  <2>1. s.at = "burst" /\ s.open
    BY <1>1 DEF SameOwned
  <2>2. \A d \in Conns : s.conn[d] # "unused"
    BY <1>1, <1>2 DEF Barrier
  <2>3. s.early \/ Dialing(s) = {}
    BY <1>1, <1>3 DEF Barrier
  <2>4. Cardinality(Dialing(s)) + s.signals + s.survivors + s.failed = Cardinality(Conns)
    BY <1>1, <1>3 DEF Barrier
  <2>5. QED
    BY <2>1, <2>2, <2>3, <2>4 DEF Barrier
<1>5. RunStep(p, r, s, {})
  BY <1>1, <1>4, SameOwnedIsWithin DEF RunStep
<1>6. QED
  BY <1>5, RunStepKeeps DEF RaceInv, RaceTypeOK

LEMMA LastByteKeeps ==
  ASSUME RaceInv, NEW p \in RacePages, NEW c \in Conns, LastByte(p, c) PROVE RaceInv'
<1> DEFINE r == race[p]
           s == [r EXCEPT !.conn[c] = "sent"]
<1>1. /\ r \in RaceRuns /\ Barrier(r) /\ r.open /\ r.conn[c] = "holding"
      /\ raced' = raced /\ taken' = taken /\ behind' = behind /\ race \in [RacePages -> RaceRuns]
  BY DEF RaceInv, RaceTypeOK, RaceRunsOK, LastByte
<1>2. race' = [race EXCEPT ![p] = s]
  BY <1>1 DEF LastByte
<1>3. s \in RaceRuns
  BY <1>1 DEF RaceRuns, ConnStates
<1>4. r.at = "burst"
  BY <1>1 DEF Barrier, AtRest
<1>5. /\ SameOwned(r, s) /\ s.conn = [r.conn EXCEPT ![c] = "sent"] /\ s.failed = r.failed /\ s.signals = r.signals
      /\ s.survivors = r.survivors /\ s.open = r.open /\ s.early = r.early
  BY <1>1 DEF SameOwned, RaceRuns
<1> HIDE DEF s
<1>6. QED
  BY <1>1, <1>2, <1>3, <1>4, <1>5, AfterTheBarrier

LEMMA AnswerKeeps ==
  ASSUME RaceInv, NEW p \in RacePages, NEW c \in Conns, Answer(p, c) PROVE RaceInv'
<1> DEFINE r == race[p]
<1>1. /\ r \in RaceRuns /\ Barrier(r) /\ Within(r) /\ r.conn[c] = "sent"
      /\ raced' = raced /\ taken' = taken /\ behind' = behind /\ race \in [RacePages -> RaceRuns]
  BY DEF RaceInv, RaceTypeOK, RaceRunsOK, Answer
<1>2. r.at = "burst" /\ r.open
  BY <1>1 DEF Barrier, AtRest, Unused
<1>3. ASSUME NEW code \in Answers(r.target.url),
             race' = [race EXCEPT ![p].conn[c] = "answered", ![p].status[c] = code]
      PROVE  RaceInv'
  <2> DEFINE s == [r EXCEPT !.conn[c] = "answered", !.status[c] = code]
  <2>1. race' = [race EXCEPT ![p] = s]
    BY <1>1, <1>3
  <2>2. code \in Codes
    <3>1. r.target \in RaceTargets
      BY <1>1, <1>2 DEF Within
    <3>2. r.target.url \in RaceUrls
      BY <3>1 DEF RaceUrls
    <3>3. QED
      BY <1>3, <3>2, CodesOnly DEF RaceInv
  <2>3. s \in RaceRuns
    BY <1>1, <2>2 DEF RaceRuns, ConnStates
  <2>4. /\ SameOwned(r, s) /\ s.conn = [r.conn EXCEPT ![c] = "answered"] /\ s.failed = r.failed
        /\ s.signals = r.signals /\ s.survivors = r.survivors /\ s.open = r.open /\ s.early = r.early
    BY <1>1 DEF SameOwned, RaceRuns
  <2> HIDE DEF s
  <2>5. QED
    BY <1>1, <1>2, <2>1, <2>3, <2>4, AfterTheBarrier
<1>4. CASE race' = [race EXCEPT ![p].conn[c] = "out"]
  <2> DEFINE s == [r EXCEPT !.conn[c] = "out"]
  <2>1. race' = [race EXCEPT ![p] = s]
    BY <1>1, <1>4
  <2>2. s \in RaceRuns
    BY <1>1 DEF RaceRuns, ConnStates
  <2>3. /\ SameOwned(r, s) /\ s.conn = [r.conn EXCEPT ![c] = "out"] /\ s.failed = r.failed
        /\ s.signals = r.signals /\ s.survivors = r.survivors /\ s.open = r.open /\ s.early = r.early
    BY <1>1 DEF SameOwned, RaceRuns
  <2> HIDE DEF s
  <2>4. QED
    BY <1>1, <1>2, <2>1, <2>2, <2>3, AfterTheBarrier
<1>5. QED
  BY <1>3, <1>4 DEF Answer

LEMMA BurstEndsKeeps ==
  ASSUME RaceInv, NEW p \in RacePages, BurstEnds(p) PROVE RaceInv'
<1> DEFINE r == race[p]
           fact == [target |-> r.target, conn |-> r.conn, status |-> r.status]
           u == Unbegun(r.todo)
           s == [u EXCEPT !.probed = r.probed, !.cut = r.cut, !.facts = r.facts \cup {fact}]
<1>1. /\ r \in RaceRuns /\ Barrier(r) /\ Within(r) /\ r.at = "burst"
      /\ raced' = raced /\ taken' = taken /\ behind' = behind /\ race \in [RacePages -> RaceRuns]
  BY DEF RaceInv, RaceTypeOK, RaceRunsOK, BurstEnds
<1>2. race' = [race EXCEPT ![p] = s]
  BY DEF BurstEnds
<1>3. r.target \in RaceTargets /\ r.todo \in SUBSET RaceTargets /\ r.probed \in Nat
  BY <1>1 DEF Within, RaceRuns
<1>4. fact \in Bursts
  BY <1>1, <1>3 DEF RaceRuns, Bursts
<1>5. u \in RaceRuns /\ Barrier(u) /\ u.at = "choosing"
  BY <1>3, UnbegunIsARun DEF Unbegun
<1> HIDE DEF u
<1>6. s \in RaceRuns
  <2>1. r.facts \cup {fact} \in SUBSET Bursts /\ r.cut \in BOOLEAN
    BY <1>1, <1>4 DEF RaceRuns
  <2> HIDE DEF fact
  <2>2. QED
    BY <1>3, <1>5, <2>1 DEF RaceRuns
<1>7. /\ s.at = u.at /\ s.conn = u.conn /\ s.open = u.open /\ s.early = u.early /\ s.signals = u.signals
      /\ s.survivors = u.survivors /\ s.failed = u.failed /\ s.facts = r.facts \cup {fact} /\ s.probed = r.probed
  BY <1>5 DEF RaceRuns
<1> HIDE DEF s
<1>8. Owned(s) = Owned(r)
  <2>1. fact.target = r.target
    OBVIOUS
  <2>2. { f.target : f \in r.facts \cup {fact} } = { f.target : f \in r.facts } \cup {r.target}
    BY <2>1
  <2>3. Owned(s) = { f.target : f \in r.facts \cup {fact} }
    BY <1>5, <1>7 DEF Owned
  <2>4. QED
    BY <1>1, <2>2, <2>3 DEF Owned
<1>9. Barrier(s)
  BY <1>5, <1>7 DEF Barrier, Dialing, AtRest
<1>10. Within(s)
  BY <1>1, <1>5, <1>7, <1>8 DEF Within
<1>11. RunStep(p, r, s, {})
  BY <1>1, <1>2, <1>6, <1>8, <1>9, <1>10 DEF RunStep
<1>12. QED
  BY <1>1, <1>11, RunStepKeeps DEF RaceInv, RaceTypeOK

LEMMA ReportRacesKeeps ==
  ASSUME RaceInv, NEW p \in RacePages, ReportRaces(p) PROVE RaceInv'
<1> DEFINE r == race[p]
           told == IF r.cut THEN {} ELSE r.facts
           u == Unbegun({})
           s == [u EXCEPT !.at = "over", !.cut = r.cut, !.facts = told]
<1>1. /\ r \in RaceRuns /\ Barrier(r) /\ Within(r) /\ taken' = taken /\ behind' = behind
      /\ race \in [RacePages -> RaceRuns] /\ raced \subseteq RaceTargets
  BY DEF RaceInv, RaceTypeOK, RaceRunsOK, ReportRaces
<1>2. race' = [race EXCEPT ![p] = s]
  BY DEF ReportRaces
<1>3. u \in RaceRuns /\ Barrier(u) /\ u.at = "choosing"
  BY UnbegunIsARun DEF Unbegun
<1>4. AtRest(u)
  BY <1>3 DEF Barrier
<1>5. told \in SUBSET Bursts /\ told \subseteq r.facts /\ r.cut \in BOOLEAN /\ r.probed \in Nat
  BY <1>1 DEF RaceRuns
<1> HIDE DEF u, told
<1>6. s \in RaceRuns
  BY <1>3, <1>5 DEF RaceRuns
<1>7. /\ s.at = "over" /\ s.conn = u.conn /\ s.open = u.open /\ s.early = u.early /\ s.signals = u.signals
      /\ s.survivors = u.survivors /\ s.failed = u.failed /\ s.facts = told /\ s.probed = u.probed
  BY <1>3 DEF RaceRuns
<1> HIDE DEF s
<1>8. Owned(s) \subseteq Owned(r)
  BY <1>5, <1>7 DEF Owned
<1>9. Barrier(s)
  BY <1>4, <1>7 DEF Barrier, Dialing, AtRest, Unused
<1>10. Within(s)
  <2>1. IsFiniteSet(Owned(r)) /\ Cardinality(Owned(r)) <= TargetsPerPage /\ TargetsPerPage \in Nat
    BY <1>1, RaceAssumption DEF Within
  <2>2. /\ IsFiniteSet(Owned(s)) /\ Cardinality(Owned(s)) <= Cardinality(Owned(r))
        /\ Cardinality(Owned(s)) \in Nat /\ Cardinality(Owned(r)) \in Nat
    BY <1>8, <2>1, FS_Subset, FS_CardinalityType
  <2>3. Cardinality(Owned(s)) <= TargetsPerPage
    BY <2>1, <2>2
  <2>4. s.probed = 0
    BY <1>7 DEF u, Unbegun
  <2>5. QED
    BY <1>7, <2>1, <2>2, <2>3, <2>4 DEF Within
<1>11. RunStep(p, r, s, {})
  BY <1>1, <1>2, <1>6, <1>8, <1>9, <1>10 DEF RunStep
<1>12. raced' \subseteq RaceTargets
  <2>1. \A f \in r.facts : f.target \in RaceTargets
    BY <1>1 DEF RaceRuns, Bursts
  <2>2. raced' \subseteq raced \cup { f.target : f \in r.facts }
    BY DEF ReportRaces
  <2>3. QED
    BY <1>1, <2>1, <2>2
<1>13. QED
  BY <1>11, <1>12, RunStepKeeps

LEMMA CutShortKeeps ==
  ASSUME RaceInv, NEW p \in RacePages, CutShort(p) PROVE RaceInv'
<1> DEFINE r == race[p]
           s == [r EXCEPT !.cut = TRUE]
<1>1. /\ r \in RaceRuns /\ Barrier(r) /\ Within(r)
      /\ raced' = raced /\ taken' = taken /\ behind' = behind /\ race \in [RacePages -> RaceRuns]
  BY DEF RaceInv, RaceTypeOK, RaceRunsOK, CutShort
<1>2. race' = [race EXCEPT ![p] = s]
  BY <1>1 DEF CutShort
<1>3. s \in RaceRuns
  BY <1>1 DEF RaceRuns
<1>4. /\ SameOwned(r, s) /\ s.conn = r.conn /\ s.failed = r.failed /\ s.signals = r.signals /\ s.survivors = r.survivors
      /\ s.open = r.open /\ s.early = r.early
  BY <1>1 DEF SameOwned, RaceRuns
<1> HIDE DEF s
<1>5. Barrier(s)
  BY <1>1, <1>4 DEF Barrier, Dialing, SameOwned, AtRest
<1>6. RunStep(p, r, s, {})
  BY <1>1, <1>2, <1>3, <1>4, <1>5, SameOwnedIsWithin DEF RunStep
<1>7. QED
  BY <1>1, <1>6, RunStepKeeps DEF RaceInv, RaceTypeOK

LEMMA RaceStepKeeps == RaceInv /\ [RaceNext]_raceVars => RaceInv'
<1> SUFFICES ASSUME RaceInv, [RaceNext]_raceVars PROVE RaceInv'
  OBVIOUS
<1>1. CASE UNCHANGED raceVars
  BY <1>1 DEF raceVars, RaceInv, RaceTypeOK, RaceRunsOK, RaceApart
<1>2. ASSUME NEW p \in RacePages, RaceStep(p) \/ CutShort(p) PROVE RaceInv'
  BY <1>2, ChooseKeeps, SendOneKeeps, HoldKeeps, CollectKeeps, GiveUpKeeps, LastByteKeeps, AnswerKeeps, BurstEndsKeeps,
     ReportRacesKeeps, CutShortKeeps DEF RaceStep
<1>3. QED
  BY <1>1, <1>2 DEF RaceNext

LEMMA RaceInvKeepsBounds == RaceInv => RaceKeepsBounds
<1> SUFFICES ASSUME RaceInv PROVE RaceKeepsBounds
  OBVIOUS
<1>1. \A p \in RacePages : Probed(p) \subseteq Owned(race[p])
  BY DEF Probed, Owned
<1>2. ASSUME NEW p \in RacePages, NEW q \in RacePages, p # q PROVE Probed(p) \cap Probed(q) = {}
  BY <1>1, <1>2 DEF RaceInv, RaceApart
<1>3. ASSUME NEW p \in RacePages PROVE Cardinality(Probed(p)) <= TargetsPerPage
  <2>1. IsFiniteSet(Owned(race[p])) /\ Cardinality(Owned(race[p])) <= TargetsPerPage /\ TargetsPerPage \in Nat
    BY RaceAssumption DEF RaceInv, RaceRunsOK, Within
  <2>2. /\ Cardinality(Probed(p)) <= Cardinality(Owned(race[p])) /\ IsFiniteSet(Probed(p))
    BY <1>1, <2>1, FS_Subset
  <2>3. Cardinality(Probed(p)) \in Nat /\ Cardinality(Owned(race[p])) \in Nat
    BY <2>1, <2>2, FS_CardinalityType
  <2>4. QED
    BY <2>1, <2>2, <2>3
<1>4. ASSUME NEW p \in RacePages, NEW c \in Conns, race[p].conn[c] = "dialing", ~race[p].early
      PROVE  \A d \in Conns : race[p].conn[d] \in {"dialing", "holding", "out"}
  <2>1. Barrier(race[p])
    BY DEF RaceInv, RaceRunsOK
  <2>2. c \in Dialing(race[p])
    BY <1>4 DEF Dialing
  <2>3. ~race[p].open
    BY <1>4, <2>1, <2>2 DEF Barrier
  <2>4. race[p].at = "burst"
    BY <1>4, <2>1 DEF Barrier, AtRest, Unused
  <2>5. QED
    BY <2>1, <2>3, <2>4 DEF Barrier
<1>5. QED
  BY <1>2, <1>3, <1>4 DEF RaceKeepsBounds
-----------------------------------------------------------------------------
(* The stored-xss check.                                                   *)

PlantRuns == [at : {"choosing", "planting", "over"}, todo : SUBSET AllSinks, sink : AllSinks \cup {NoSink},
              left : SUBSET PlantPayloads]

\* An input is in the hands of one run: that which marked it plants it, and what the
\* server stored for it came from there.
StoredInv ==
  /\ plant \in [FormPages -> PlantRuns]
  /\ \A p \in FormPages : plant[p].at = "planting" => plant[p].sink \in plantedSinks /\ SinkAllowed(plant[p].sink)
  /\ \A p, q \in FormPages :
        p # q /\ plant[p].at = "planting" /\ plant[q].at = "planting" => plant[p].sink # plant[q].sink
  /\ \A t \in kept : t[2] \in plantedSinks /\ SinkAllowed(t[2])
  /\ \A t \in kept : \A p \in FormPages : plant[p].at = "planting" /\ plant[p].sink = t[2] => t[1] = p
  /\ \A t, u \in kept : t[2] = u[2] => t[1] = u[1]
  /\ laterPages \subseteq Crawled \cup UNION { Harvested(t[2]) : t \in kept }

LEMMA StoredInitially == StoredInit => StoredInv
<1> SUFFICES ASSUME StoredInit PROVE StoredInv
  OBVIOUS
<1>1. \A p \in FormPages : SinksOn(p) \in SUBSET AllSinks
  BY DEF AllSinks
<1>2. plant \in [FormPages -> PlantRuns] /\ \A p \in FormPages : plant[p].at = "choosing"
  BY <1>1 DEF StoredInit, PlantRuns
<1>3. QED
  BY <1>2 DEF StoredInit, StoredInv

LEMMA ChooseSinkKeeps ==
  ASSUME StoredInv, NEW p \in FormPages, ChooseSink(p) PROVE StoredInv'
<1>1. /\ plant \in [FormPages -> PlantRuns] /\ plant[p].at = "choosing" /\ kept' = kept /\ laterPages' = laterPages
      /\ plant[p] \in PlantRuns
  BY DEF StoredInv, ChooseSink
<1>2. PICK s \in plant[p].todo :
         \/ /\ SinkAllowed(s) /\ PlantOnce(p, s)
            /\ plant' = [plant EXCEPT ![p].todo = @ \ {s}, ![p].at = "planting", ![p].sink = s, ![p].left = PlantPayloads]
         \/ plant' = [plant EXCEPT ![p].todo = @ \ {s}] /\ UNCHANGED plantedSinks
  BY DEF ChooseSink
<1>3. s \in AllSinks /\ plant[p].todo \ {s} \in SUBSET AllSinks
  BY <1>1, <1>2 DEF PlantRuns
<1>4. CASE /\ SinkAllowed(s) /\ PlantOnce(p, s)
           /\ plant' = [plant EXCEPT ![p].todo = @ \ {s}, ![p].at = "planting", ![p].sink = s, ![p].left = PlantPayloads]
  <2>1. s \notin plantedSinks /\ plantedSinks' = plantedSinks \cup {s}
    BY <1>4 DEF PlantOnce
  <2>2. /\ plant' \in [FormPages -> PlantRuns] /\ plant'[p].at = "planting" /\ plant'[p].sink = s
        /\ \A q \in FormPages : q # p => plant'[q] = plant[q]
    BY <1>1, <1>3, <1>4 DEF PlantRuns
  <2>3. QED
    BY <1>1, <1>4, <2>1, <2>2 DEF StoredInv
<1>5. CASE plant' = [plant EXCEPT ![p].todo = @ \ {s}] /\ UNCHANGED plantedSinks
  <2>1. /\ plant' \in [FormPages -> PlantRuns]
        /\ \A q \in FormPages : plant'[q].at = plant[q].at /\ plant'[q].sink = plant[q].sink
    BY <1>1, <1>3, <1>5 DEF PlantRuns
  <2>2. QED
    BY <1>1, <1>5, <2>1 DEF StoredInv
<1>6. QED
  BY <1>2, <1>4, <1>5

LEMMA SendPayloadKeeps ==
  ASSUME StoredInv, NEW p \in FormPages, SendPayload(p) PROVE StoredInv'
<1> DEFINE i == CHOOSE n \in plant[p].left : \A m \in plant[p].left : n <= m
           token == <<p, plant[p].sink, i>>
<1>1. /\ plant \in [FormPages -> PlantRuns] /\ plant[p].at = "planting" /\ plantedSinks' = plantedSinks
      /\ plant[p] \in PlantRuns /\ plant' = [plant EXCEPT ![p].left = @ \ {i}]
      /\ plant[p].sink \in plantedSinks /\ SinkAllowed(plant[p].sink)
  BY DEF StoredInv, SendPayload
<1>2. \/ kept' = kept \cup {token} /\ laterPages' = laterPages \cup Harvested(plant[p].sink)
      \/ kept' \in {kept, kept \cup {token}} /\ laterPages' = laterPages
  BY DEF SendPayload
<1>3. token[1] = p /\ token[2] = plant[p].sink
  OBVIOUS
<1> HIDE DEF i, token
<1>4. kept' \in {kept, kept \cup {token}}
  BY <1>2
<1>5. /\ plant' \in [FormPages -> PlantRuns]
      /\ \A q \in FormPages : plant'[q].at = plant[q].at /\ plant'[q].sink = plant[q].sink
  BY <1>1 DEF PlantRuns
<1>6. laterPages' \subseteq Crawled \cup UNION { Harvested(t[2]) : t \in kept' }
  <2>1. laterPages \subseteq Crawled \cup UNION { Harvested(t[2]) : t \in kept }
    BY DEF StoredInv
  <2>2. kept \subseteq kept'
    BY <1>4
  <2>3. CASE kept' = kept \cup {token} /\ laterPages' = laterPages \cup Harvested(plant[p].sink)
    <3>1. token \in kept' /\ Harvested(token[2]) = Harvested(plant[p].sink)
      BY <1>3, <2>3
    <3>2. QED
      BY <2>1, <2>2, <2>3, <3>1
  <2>4. CASE laterPages' = laterPages
    BY <2>1, <2>2, <2>4
  <2>5. QED
    BY <1>2, <2>3, <2>4
<1>7. ASSUME NEW t \in kept, t[2] = token[2] PROVE t[1] = token[1]
  BY <1>1, <1>3, <1>7 DEF StoredInv
<1>8. \A q \in FormPages : plant[q].at = "planting" /\ plant[q].sink = token[2] => token[1] = q
  BY <1>1, <1>3 DEF StoredInv
<1>9. QED
  BY <1>1, <1>3, <1>4, <1>5, <1>6, <1>7, <1>8 DEF StoredInv

LEMMA PlantEndsKeeps ==
  ASSUME StoredInv, NEW p \in FormPages, SinkPlanted(p) \/ PlantReturns(p) PROVE StoredInv'
<1>1. plant \in [FormPages -> PlantRuns] /\ kept' = kept /\ laterPages' = laterPages /\ plantedSinks' = plantedSinks
  BY DEF StoredInv, SinkPlanted, PlantReturns
<1>2. /\ plant' \in [FormPages -> PlantRuns] /\ plant'[p].at # "planting"
      /\ \A q \in FormPages : q # p => plant'[q] = plant[q]
  BY <1>1 DEF SinkPlanted, PlantReturns, PlantRuns
<1>3. QED
  BY <1>1, <1>2 DEF StoredInv

\* What the other half of the check reads it leaves alone.
LEMMA DetectLeavesAlone ==
  ASSUME NEW v \in ViewPages, BeginDetect(v) \/ LookAt(v) \/ DetectReturns(v) \/ CutDetect(v)
  PROVE  UNCHANGED <<plant, plantedSinks, kept, laterPages>>
BY DEF BeginDetect, LookAt, DetectReturns, CutDetect

LEMMA StoredStepKeeps == StoredInv /\ [StoredNext]_storedVars => StoredInv'
<1> SUFFICES ASSUME StoredInv, [StoredNext]_storedVars PROVE StoredInv'
  OBVIOUS
<1>1. ASSUME UNCHANGED <<plant, plantedSinks, kept, laterPages>> PROVE StoredInv'
  BY <1>1 DEF StoredInv
<1>2. QED
  BY <1>1, ChooseSinkKeeps, SendPayloadKeeps, PlantEndsKeeps, DetectLeavesAlone DEF StoredNext, storedVars

LEMMA StoredInvKeepsBounds == StoredInv => StoredKeepsBounds
<1> SUFFICES ASSUME StoredInv PROVE StoredKeepsBounds
  OBVIOUS
<1>1. UNION { Harvested(t[2]) : t \in kept } = UNION { Harvested(s) : s \in { t[2] : t \in kept } }
  OBVIOUS
<1>2. QED
  BY <1>1 DEF StoredInv, StoredKeepsBounds
-----------------------------------------------------------------------------
(* The content-discovery check.                                            *)

IsSweep(r) == {"at", "base", "wave", "todo", "probed", "hits", "clean"} \subseteq DOMAIN r

\* A run that holds the claim of its root, or held it while it asked for something.
Sweeper(p) == sweep[p].at \in {"first", "second", "sweeping"} \/ sweep[p].probed # {}

SweepInv ==
  /\ sweep = [p \in SweptPages |-> sweep[p]]
  /\ \A p \in SweptPages : IsSweep(sweep[p])
  /\ \A p \in SweptPages : sweep[p].at = "claiming" => sweep[p].probed = {}
  /\ \A p \in SweptPages : Sweeper(p) => RootOfPage(p) \in rootsClaimed
  /\ \A p, q \in SweptPages : p # q /\ RootOfPage(p) = RootOfPage(q) => ~Sweeper(p) \/ ~Sweeper(q)
  /\ \A p \in SweptPages : \A h \in sweep[p].hits : PathInScope(h.path)
  /\ \A e \in pagesEmitted : \E p \in SweptPages :
        RootOfPage(p) = e.root /\ \E h \in sweep[p].hits : h.path = e.path

LEMMA SweepInitially == SweepInit => SweepInv
<1> SUFFICES ASSUME SweepInit PROVE SweepInv
  OBVIOUS
<1>1. \A p \in SweptPages : /\ IsSweep(sweep[p]) /\ sweep[p].at = "claiming" /\ sweep[p].probed = {}
                            /\ sweep[p].hits = {}
  BY DEF SweepInit, IsSweep
<1>2. sweep = [p \in SweptPages |-> sweep[p]] /\ pagesEmitted = {}
  BY DEF SweepInit
<1>3. QED
  BY <1>1, <1>2 DEF SweepInv, Sweeper

\* A run goes on from r to s without a new claim, at most to ask for more.
SweepGoes(p, s) ==
  /\ sweep' = [sweep EXCEPT ![p] = s] /\ IsSweep(s) /\ s.at # "claiming"
  /\ s.at \in {"first", "second", "sweeping"} \/ s.probed # {} => Sweeper(p)
  /\ sweep[p].hits \subseteq s.hits /\ \A h \in s.hits : PathInScope(h.path)
  /\ rootsClaimed' = rootsClaimed

LEMMA SweepGoesOn ==
  ASSUME SweepInv, NEW p \in SweptPages, NEW s, SweepGoes(p, s),
         \A e \in pagesEmitted' \ pagesEmitted : RootOfPage(p) = e.root /\ \E h \in s.hits : h.path = e.path
  PROVE  SweepInv'
<1>1. sweep' = [q \in SweptPages |-> sweep'[q]] /\ \A q \in SweptPages : sweep'[q] = IF q = p THEN s ELSE sweep[q]
  BY DEF SweepInv, SweepGoes
<1>2. \A q \in SweptPages : Sweeper(q)' => Sweeper(q)
  BY <1>1 DEF Sweeper, SweepGoes
<1>3. \A q \in SweptPages : /\ IsSweep(sweep'[q]) /\ (sweep'[q].at = "claiming" => sweep'[q].probed = {})
                            /\ sweep[q].hits \subseteq sweep'[q].hits /\ \A h \in sweep'[q].hits : PathInScope(h.path)
  BY <1>1 DEF SweepInv, SweepGoes
<1>4. ASSUME NEW e \in pagesEmitted'
      PROVE  \E q \in SweptPages : RootOfPage(q) = e.root /\ \E h \in sweep'[q].hits : h.path = e.path
  <2>1. CASE e \in pagesEmitted
    BY <1>3, <2>1 DEF SweepInv
  <2>2. CASE e \notin pagesEmitted
    BY <1>1, <2>2
  <2>3. QED
    BY <2>1, <2>2
<1>5. QED
  BY <1>1, <1>2, <1>3, <1>4 DEF SweepInv, SweepGoes

LEMMA ClaimRootKeeps ==
  ASSUME SweepInv, NEW p \in SweptPages, ClaimRoot(p) PROVE SweepInv'
<1>1. /\ sweep = [q \in SweptPages |-> sweep[q]] /\ IsSweep(sweep[p]) /\ sweep[p].at = "claiming" /\ sweep[p].probed = {}
      /\ pagesEmitted' = pagesEmitted /\ \A h \in sweep[p].hits : PathInScope(h.path)
  BY DEF SweepInv, ClaimRoot
<1>2. CASE PathInScope(<<>>) /\ Free(p)
  <2> DEFINE s == [sweep[p] EXCEPT !.at = "first"]
  <2>1. sweep' = [sweep EXCEPT ![p] = s] /\ rootsClaimed' = rootsClaimed \cup {RootOfPage(p)}
    BY <1>1, <1>2 DEF ClaimRoot
  <2>2. IsSweep(s) /\ s.at = "first" /\ s.probed = {} /\ s.hits = sweep[p].hits
    BY <1>1 DEF IsSweep
  <2> HIDE DEF s
  <2>3. sweep' = [q \in SweptPages |-> sweep'[q]] /\ \A q \in SweptPages : sweep'[q] = IF q = p THEN s ELSE sweep[q]
    BY <1>1, <2>1
  <2>4. \A q \in SweptPages : q # p => (Sweeper(q)' <=> Sweeper(q))
    BY <2>3 DEF Sweeper
  <2>5. \A q \in SweptPages : q # p /\ RootOfPage(q) = RootOfPage(p) => ~Sweeper(q)'
    BY <1>2, <2>4 DEF SweepInv, Free
  <2>6. \A q \in SweptPages : Sweeper(q)' => RootOfPage(q) \in rootsClaimed'
    BY <2>1, <2>4 DEF SweepInv
  <2>7. \A u, q \in SweptPages : u # q /\ RootOfPage(u) = RootOfPage(q) => ~Sweeper(u)' \/ ~Sweeper(q)'
    BY <2>4, <2>5 DEF SweepInv
  <2>8. \A q \in SweptPages : /\ IsSweep(sweep'[q]) /\ (sweep'[q].at = "claiming" => sweep'[q].probed = {})
                              /\ sweep'[q].hits = sweep[q].hits
    BY <2>2, <2>3 DEF SweepInv
  <2>9. QED
    BY <1>1, <2>3, <2>6, <2>7, <2>8 DEF SweepInv
<1>3. CASE ~(PathInScope(<<>>) /\ Free(p))
  <2> DEFINE s == [sweep[p] EXCEPT !.at = "over"]
  <2>1. sweep' = [sweep EXCEPT ![p] = s] /\ rootsClaimed' = rootsClaimed
    BY <1>1, <1>3 DEF ClaimRoot
  <2>2. IsSweep(s) /\ s.at = "over" /\ s.probed = {} /\ s.hits = sweep[p].hits
    BY <1>1 DEF IsSweep
  <2> HIDE DEF s
  <2>3. SweepGoes(p, s)
    BY <1>1, <2>1, <2>2 DEF SweepGoes
  <2>4. QED
    BY <1>1, <2>3, SweepGoesOn
<1>4. QED
  BY <1>2, <1>3

LEMMA LearnBaselineKeeps ==
  ASSUME SweepInv, NEW p \in SweptPages, LearnBaseline(p) PROVE SweepInv'
<1> DEFINE r == sweep[p]
           main == MainEntries(RootOfPage(p))
<1>1. /\ sweep = [q \in SweptPages |-> sweep[q]] /\ IsSweep(r) /\ Sweeper(p) /\ r.at # "claiming"
      /\ pagesEmitted' = pagesEmitted /\ rootsClaimed' = rootsClaimed /\ \A h \in r.hits : PathInScope(h.path)
  BY DEF SweepInv, LearnBaseline, Sweeper
<1>2. ASSUME NEW base, NEW todo, NEW at, NEW clean, at # "claiming",
             sweep' = [sweep EXCEPT ![p] = [r EXCEPT !.at = at, !.base = base, !.todo = todo, !.clean = clean]]
      PROVE  SweepInv'
  <2> DEFINE s == [r EXCEPT !.at = at, !.base = base, !.todo = todo, !.clean = clean]
  <2>1. IsSweep(s) /\ s.at = at /\ s.probed = r.probed /\ s.hits = r.hits
    BY <1>1 DEF IsSweep
  <2>2. SweepGoes(p, s)
    <3> HIDE DEF s
    <3>1. QED
      BY <1>1, <1>2, <2>1 DEF SweepGoes, s
  <2>3. QED
    BY <1>1, <2>2, SweepGoesOn
<1>3. ASSUME NEW base, sweep' = [sweep EXCEPT ![p].at = "sweeping", ![p].base = base, ![p].todo = main]
      PROVE  SweepInv'
  <2>1. sweep' = [sweep EXCEPT ![p] = [r EXCEPT !.at = "sweeping", !.base = base, !.todo = main, !.clean = r.clean]]
    BY <1>1, <1>3 DEF IsSweep
  <2>2. QED
    BY <1>2, <2>1
<1>4. ASSUME NEW base, sweep' = [sweep EXCEPT ![p].at = "second", ![p].base = base] PROVE SweepInv'
  <2>1. sweep' = [sweep EXCEPT ![p] = [r EXCEPT !.at = "second", !.base = base, !.todo = r.todo, !.clean = r.clean]]
    BY <1>1, <1>4 DEF IsSweep
  <2>2. QED
    BY <1>2, <2>1
<1>5. ASSUME sweep' = [sweep EXCEPT ![p].at = "over", ![p].clean = FALSE] PROVE SweepInv'
  <2>1. sweep' = [sweep EXCEPT ![p] = [r EXCEPT !.at = "over", !.base = r.base, !.todo = r.todo, !.clean = FALSE]]
    BY <1>1, <1>5 DEF IsSweep
  <2>2. QED
    BY <1>2, <2>1
<1>6. \/ \E base : sweep' = [sweep EXCEPT ![p].at = "sweeping", ![p].base = base, ![p].todo = main]
      \/ \E base : sweep' = [sweep EXCEPT ![p].at = "second", ![p].base = base]
      \/ sweep' = [sweep EXCEPT ![p].at = "over", ![p].clean = FALSE]
  BY DEF LearnBaseline
<1>7. QED
  BY <1>3, <1>4, <1>5, <1>6

LEMMA ProbePathKeeps ==
  ASSUME SweepInv, NEW p \in SweptPages, ProbePath(p) PROVE SweepInv'
<1> DEFINE r == sweep[p]
           entry == Head(r.todo)
           rest == [sweep EXCEPT ![p].todo = Tail(@), ![p].probed = @ \cup {entry.path}]
<1>1. /\ sweep = [q \in SweptPages |-> sweep[q]] /\ IsSweep(r) /\ Sweeper(p) /\ r.at = "sweeping"
      /\ rootsClaimed' = rootsClaimed /\ \A h \in r.hits : PathInScope(h.path)
  BY DEF SweepInv, ProbePath, Sweeper
<1>2. ASSUME NEW clean, NEW hits, sweep' = [rest EXCEPT ![p].clean = clean, ![p].hits = hits], r.hits \subseteq hits,
             \A h \in hits : PathInScope(h.path),
             \A e \in pagesEmitted' \ pagesEmitted : RootOfPage(p) = e.root /\ \E h \in hits : h.path = e.path
      PROVE  SweepInv'
  <2> DEFINE s == [r EXCEPT !.todo = Tail(@), !.probed = @ \cup {entry.path}, !.clean = clean, !.hits = hits]
  <2>1. sweep' = [sweep EXCEPT ![p] = s]
    BY <1>1, <1>2 DEF IsSweep
  <2>2. IsSweep(s) /\ s.at = "sweeping" /\ s.hits = hits
    BY <1>1 DEF IsSweep
  <2> HIDE DEF s
  <2>3. SweepGoes(p, s)
    BY <1>1, <1>2, <2>1, <2>2 DEF SweepGoes
  <2>4. QED
    BY <1>2, <2>2, <2>3, SweepGoesOn
<1>3. CASE sweep' = rest /\ pagesEmitted' = pagesEmitted
  <2>1. rest = [rest EXCEPT ![p].clean = r.clean, ![p].hits = r.hits]
    BY <1>1 DEF IsSweep
  <2> HIDE DEF rest, r
  <2>2. QED
    BY <1>1, <1>2, <1>3, <2>1
<1>4. CASE sweep' = [rest EXCEPT ![p].clean = FALSE] /\ pagesEmitted' = pagesEmitted
  <2>1. [rest EXCEPT ![p].clean = FALSE] = [rest EXCEPT ![p].clean = FALSE, ![p].hits = r.hits]
    BY <1>1 DEF IsSweep
  <2> HIDE DEF rest, r
  <2>2. QED
    BY <1>1, <1>2, <1>4, <2>1
<1>5. ASSUME NEW verdict, PathInScope(entry.path),
             sweep' = [rest EXCEPT ![p].hits = @ \cup { [path |-> entry.path, verdict |-> verdict] }],
             pagesEmitted' = IF entry.emit THEN pagesEmitted \cup { [root |-> RootOfPage(p), path |-> entry.path] }
                             ELSE pagesEmitted
      PROVE  SweepInv'
  <2> DEFINE hit == [path |-> entry.path, verdict |-> verdict]
             hits == r.hits \cup {hit}
  <2>1. [rest EXCEPT ![p].hits = @ \cup {hit}] = [rest EXCEPT ![p].clean = r.clean, ![p].hits = hits]
    BY <1>1 DEF IsSweep
  <2>2. \A e \in pagesEmitted' \ pagesEmitted : RootOfPage(p) = e.root /\ \E h \in hits : h.path = e.path
    <3>1. ASSUME NEW e \in pagesEmitted' \ pagesEmitted PROVE RootOfPage(p) = e.root /\ \E h \in hits : h.path = e.path
      <4>1. e = [root |-> RootOfPage(p), path |-> entry.path]
        BY <1>5
      <4>2. hit \in hits /\ hit.path = entry.path
        OBVIOUS
      <4>3. e.root = RootOfPage(p) /\ e.path = entry.path
        BY <4>1
      <4>4. QED
        BY <4>2, <4>3
    <3>2. QED
      BY <3>1
  <2>3. \A h \in hits : PathInScope(h.path)
    <3>1. hit.path = entry.path
      OBVIOUS
    <3> HIDE DEF hit
    <3>2. QED
      BY <1>1, <1>5, <3>1
  <2>4. sweep' = [rest EXCEPT ![p].clean = r.clean, ![p].hits = hits]
    BY <1>5, <2>1
  <2>5. r.hits \subseteq hits
    OBVIOUS
  <2> HIDE DEF rest, r, hits
  <2>6. QED
    BY <1>2, <2>2, <2>3, <2>4, <2>5
<1>6. QED
  <2>1. \/ sweep' = rest /\ pagesEmitted' = pagesEmitted
        \/ sweep' = [rest EXCEPT ![p].clean = FALSE] /\ pagesEmitted' = pagesEmitted
        \/ \E verdict : /\ PathInScope(entry.path)
                        /\ sweep' = [rest EXCEPT ![p].hits = @ \cup { [path |-> entry.path, verdict |-> verdict] }]
                        /\ pagesEmitted' = IF entry.emit
                                           THEN pagesEmitted \cup { [root |-> RootOfPage(p), path |-> entry.path] }
                                           ELSE pagesEmitted
    BY DEF ProbePath
  <2> HIDE DEF rest, entry
  <2>2. QED
    BY <1>3, <1>4, <1>5, <2>1

LEMMA SweepEndsKeeps ==
  ASSUME SweepInv, NEW p \in SweptPages, EndWave(p) \/ CutSweep(p) PROVE SweepInv'
<1> DEFINE r == sweep[p]
<1>1. /\ sweep = [q \in SweptPages |-> sweep[q]] /\ IsSweep(r) /\ \A h \in r.hits : PathInScope(h.path)
      /\ pagesEmitted' = pagesEmitted /\ rootsClaimed' = rootsClaimed
  BY DEF SweepInv, EndWave, CutSweep
<1>2. CASE EndWave(p)
  <2>1. r.at = "sweeping" /\ Sweeper(p)
    BY <1>2 DEF EndWave, Sweeper
  <2>2. ASSUME NEW at, NEW wave, NEW todo, at # "claiming",
               sweep' = [sweep EXCEPT ![p] = [r EXCEPT !.at = at, !.wave = wave, !.todo = todo]]
        PROVE  SweepInv'
    <3> DEFINE s == [r EXCEPT !.at = at, !.wave = wave, !.todo = todo]
    <3>1. IsSweep(s) /\ s.at = at /\ s.probed = r.probed /\ s.hits = r.hits
      BY <1>1 DEF IsSweep
    <3> HIDE DEF s
    <3>2. SweepGoes(p, s)
      BY <1>1, <2>1, <2>2, <3>1 DEF SweepGoes, s
    <3>3. QED
      BY <1>1, <3>2, SweepGoesOn
  <2>3. ASSUME NEW more, sweep' = [sweep EXCEPT ![p].wave = 2, ![p].todo = more] PROVE SweepInv'
    <3>1. sweep' = [sweep EXCEPT ![p] = [r EXCEPT !.at = "sweeping", !.wave = 2, !.todo = more]]
      BY <1>1, <2>1, <2>3 DEF IsSweep
    <3>2. QED
      BY <2>2, <3>1
  <2>4. ASSUME sweep' = [sweep EXCEPT ![p].at = "over"] PROVE SweepInv'
    <3>1. sweep' = [sweep EXCEPT ![p] = [r EXCEPT !.at = "over", !.wave = r.wave, !.todo = r.todo]]
      BY <1>1, <2>4 DEF IsSweep
    <3>2. QED
      BY <2>2, <3>1
  <2>5. QED
    BY <1>2, <2>3, <2>4 DEF EndWave
<1>3. CASE CutSweep(p)
  <2> DEFINE s == [r EXCEPT !.at = "over", !.clean = FALSE]
  <2>1. sweep' = [sweep EXCEPT ![p] = s]
    BY <1>1, <1>3 DEF CutSweep
  <2>2. IsSweep(s) /\ s.at = "over" /\ s.probed = r.probed /\ s.hits = r.hits
    BY <1>1 DEF IsSweep
  <2> HIDE DEF s
  <2>3. SweepGoes(p, s)
    BY <1>1, <2>1, <2>2 DEF SweepGoes, Sweeper
  <2>4. QED
    BY <1>1, <2>3, SweepGoesOn
<1>4. QED
  BY <1>2, <1>3

LEMMA SweepStepKeeps == SweepInv /\ [SweepNext]_sweepVars => SweepInv'
<1> SUFFICES ASSUME SweepInv, [SweepNext]_sweepVars PROVE SweepInv'
  OBVIOUS
<1>1. CASE UNCHANGED sweepVars
  BY <1>1 DEF sweepVars, SweepInv, Sweeper
<1>2. QED
  BY <1>1, ClaimRootKeeps, LearnBaselineKeeps, ProbePathKeeps, SweepEndsKeeps DEF SweepNext, SweepStep

LEMMA SweepInvKeepsBounds == SweepInv => SweepKeepsBounds
BY DEF SweepInv, SweepKeepsBounds, Sweeper
-----------------------------------------------------------------------------
(* The jwt-vulns check.                                                    *)

IsTokenRun(r) ==
  {"at", "todo", "token", "via", "field", "weak", "none", "urls", "asked", "keys", "part", "next", "got", "told", "clean"}
    \subseteq DOMAIN r

\* The tokens that a run told apart, and the one in its hands.
Handled(r) ==
  { t.id : t \in r.told } \cup (IF r.at \in {"luring", "asking", "forging", "fetching"} THEN {r.token.id} ELSE {})

TokenInv ==
  /\ jwt = [p \in TokenPages |-> jwt[p]]
  /\ \A p \in TokenPages : IsTokenRun(jwt[p]) /\ Handled(jwt[p]) \subseteq tokensProbed
  /\ \A p, q \in TokenPages : p # q => Handled(jwt[p]) \cap Handled(jwt[q]) = {}
  /\ \A p \in TokenPages : \A u \in jwt[p].asked : SameOrigin(u)

LEMMA BetweenTokensIsARun ==
  ASSUME NEW todo, NEW got, NEW told, NEW clean
  PROVE  /\ IsTokenRun(BetweenTokens(todo, got, told, clean)) /\ BetweenTokens(todo, got, told, clean).at = "taking"
         /\ BetweenTokens(todo, got, told, clean).told = told /\ BetweenTokens(todo, got, told, clean).asked = {}
BY Zenon DEF BetweenTokens, IsTokenRun

LEMMA FollowedIsOfTheHost ==
  ASSUME NEW u, NEW asked, Follow(u, asked) PROVE SameOrigin(u)
BY Zenon DEF Follow

LEMMA TokenInitially == TokenInit => TokenInv
<1> SUFFICES ASSUME TokenInit PROVE TokenInv
  OBVIOUS
<1>1. ASSUME NEW p \in TokenPages
      PROVE  IsTokenRun(jwt[p]) /\ jwt[p].at = "taking" /\ jwt[p].told = {} /\ jwt[p].asked = {}
  <2>1. PICK clean : jwt[p] = BetweenTokens(TokensOn(p), {}, {}, clean)
    BY DEF TokenInit
  <2>2. QED
    BY <2>1, BetweenTokensIsARun
<1>2. \A p \in TokenPages : Handled(jwt[p]) = {}
  BY <1>1 DEF Handled
<1>3. jwt = [p \in TokenPages |-> jwt[p]]
  BY DEF TokenInit
<1>4. QED
  BY <1>1, <1>2, <1>3 DEF TokenInv

\* A run goes on from jwt[p] to s and marks the ids more.
TokenGoes(p, s, more) ==
  /\ jwt' = [jwt EXCEPT ![p] = s] /\ IsTokenRun(s) /\ Handled(s) \subseteq Handled(jwt[p]) \cup more
  /\ more \cap tokensProbed = {} /\ tokensProbed' = tokensProbed \cup more
  /\ \A u \in s.asked : SameOrigin(u)

LEMMA TokenGoesOn ==
  ASSUME TokenInv, NEW p \in TokenPages, NEW s, NEW more, TokenGoes(p, s, more) PROVE TokenInv'
<1>1. jwt' = [q \in TokenPages |-> jwt'[q]] /\ \A q \in TokenPages : jwt'[q] = IF q = p THEN s ELSE jwt[q]
  BY DEF TokenInv, TokenGoes
<1>2. \A q \in TokenPages : /\ IsTokenRun(jwt'[q]) /\ \A u \in jwt'[q].asked : SameOrigin(u)
                            /\ Handled(jwt'[q]) \subseteq tokensProbed'
  BY <1>1 DEF TokenInv, TokenGoes
<1>3. ASSUME NEW q \in TokenPages, q # p PROVE Handled(jwt'[p]) \cap Handled(jwt'[q]) = {}
  BY <1>1, <1>3 DEF TokenInv, TokenGoes
<1>4. \A q, u \in TokenPages : q # u => Handled(jwt'[q]) \cap Handled(jwt'[u]) = {}
  BY <1>1, <1>3 DEF TokenInv
<1>5. QED
  BY <1>1, <1>2, <1>4 DEF TokenInv

\* A step that leaves what the run handled and asked for as it was.
LEMMA TokenRunsOn ==
  ASSUME TokenInv, NEW p \in TokenPages, NEW s, jwt' = [jwt EXCEPT ![p] = s], tokensProbed' = tokensProbed,
         IsTokenRun(s), Handled(s) \subseteq Handled(jwt[p]), \A u \in s.asked : SameOrigin(u)
  PROVE  TokenInv'
<1>1. TokenGoes(p, s, {})
  BY DEF TokenGoes
<1>2. QED
  BY <1>1, TokenGoesOn

LEMMA TakeTokenKeeps ==
  ASSUME TokenInv, NEW p \in TokenPages, TakeToken(p) PROVE TokenInv'
<1> DEFINE r == jwt[p]
           token == Head(r.todo).token
           rest == [jwt EXCEPT ![p].todo = Tail(@)]
<1>1. /\ jwt = [q \in TokenPages |-> jwt[q]] /\ IsTokenRun(r) /\ r.at = "taking" /\ \A u \in r.asked : SameOrigin(u)
  BY DEF TokenInv, TakeToken
<1>2. CASE jwt' = rest
  <2> DEFINE s == [r EXCEPT !.todo = Tail(@)]
  <2>1. jwt' = [jwt EXCEPT ![p] = s] /\ IsTokenRun(s) /\ s.at = r.at /\ s.told = r.told /\ s.asked = r.asked
    BY <1>1, <1>2 DEF IsTokenRun
  <2>2. Handled(s) = Handled(r)
    BY <1>1, <2>1 DEF Handled
  <2>3. \/ tokensProbed' = tokensProbed
        \/ token.id \notin tokensProbed /\ tokensProbed' = tokensProbed \cup {token.id}
    BY DEF TakeToken, Taken
  <2> HIDE DEF s
  <2>4. \E more : TokenGoes(p, s, more)
    <3>1. CASE tokensProbed' = tokensProbed
      <4>1. TokenGoes(p, s, {})
        BY <1>1, <2>1, <2>2, <3>1 DEF TokenGoes
      <4>2. QED
        BY <4>1
    <3>2. CASE token.id \notin tokensProbed /\ tokensProbed' = tokensProbed \cup {token.id}
      <4>1. TokenGoes(p, s, {token.id})
        BY <1>1, <2>1, <2>2, <3>2 DEF TokenGoes
      <4>2. QED
        BY <4>1
    <3>3. QED
      BY <2>3, <3>1, <3>2
  <2>5. QED
    BY <2>4, TokenGoesOn
<1>3. ASSUME NEW at, NEW via, NEW weak, NEW none, NEW more, token.id \notin tokensProbed, tokensProbed' = tokensProbed \cup {token.id},
             jwt' = [rest EXCEPT ![p].at = at, ![p].token = token, ![p].via = via, ![p].field = "jku",
                                 ![p].weak = weak, ![p].none = none, ![p].keys = <<>>, ![p].got = @ \cup more]
      PROVE  TokenInv'
  <2> DEFINE s == [r EXCEPT !.todo = Tail(@), !.at = at, !.token = token, !.via = via, !.field = "jku",
                            !.weak = weak, !.none = none, !.keys = <<>>, !.got = @ \cup more]
  <2>1. jwt' = [jwt EXCEPT ![p] = s]
    BY <1>1, <1>3 DEF IsTokenRun
  <2>2. IsTokenRun(s) /\ s.token = token /\ s.told = r.told /\ s.asked = r.asked
    BY <1>1 DEF IsTokenRun
  <2> HIDE DEF s, token
  <2>3. Handled(s) \subseteq Handled(r) \cup {token.id}
    BY <2>2 DEF Handled
  <2>4. token.id \notin tokensProbed /\ tokensProbed' = tokensProbed \cup {token.id} /\ \A u \in s.asked : SameOrigin(u)
    BY <1>1, <1>3, <2>2
  <2>5. TokenGoes(p, s, {token.id})
    BY <2>1, <2>2, <2>3, <2>4 DEF TokenGoes
  <2>6. QED
    BY <2>5, TokenGoesOn
<1>4. QED
  <2> DEFINE at == IF Listener THEN "luring" ELSE "asking"
             via == Head(r.todo).via
             weak == Weak(token)
             none == FALSE
             more == Offline(p, token)
             taken1 == [rest EXCEPT ![p].at = at, ![p].token = token, ![p].via = via, ![p].field = "jku",
                                    ![p].weak = weak, ![p].none = none, ![p].keys = <<>>, ![p].got = @ \cup more]
  <2>1. \/ jwt' = rest
        \/ token.id \notin tokensProbed /\ tokensProbed' = tokensProbed \cup {token.id} /\ jwt' = taken1
    BY Zenon DEF TakeToken, Taken
  <2> HIDE DEF rest, token, at, via, weak, none, more, r
  <2>2. CASE jwt' = rest
    BY <1>2, <2>2
  <2>3. CASE token.id \notin tokensProbed /\ tokensProbed' = tokensProbed \cup {token.id} /\ jwt' = taken1
    BY Zenon, <1>3, <2>3
  <2>4. QED
    BY <2>1, <2>2, <2>3

\* A step of a run that has its token in its hands and keeps it, or lays it down.
LEMMA HandsFull ==
  ASSUME TokenInv, NEW p \in TokenPages, jwt[p].at \in {"luring", "asking", "forging", "fetching"}, NEW s,
         jwt' = [jwt EXCEPT ![p] = s], tokensProbed' = tokensProbed, IsTokenRun(s),
         s.token = jwt[p].token, s.told = jwt[p].told \/ s.told = jwt[p].told \cup {jwt[p].token},
         \A u \in s.asked : SameOrigin(u)
  PROVE  TokenInv'
<1>1. Handled(s) \subseteq Handled(jwt[p])
  BY DEF Handled
<1>2. QED
  BY <1>1, TokenRunsOn

LEMMA LureKeeps ==
  ASSUME TokenInv, NEW p \in TokenPages, Lure(p) PROVE TokenInv'
<1> DEFINE r == jwt[p]
<1>1. /\ jwt = [q \in TokenPages |-> jwt[q]] /\ IsTokenRun(r) /\ r.at = "luring" /\ \A u \in r.asked : SameOrigin(u)
      /\ tokensProbed' = tokensProbed
  BY DEF TokenInv, Lure
<1>2. ASSUME NEW at, NEW field, NEW clean,
             jwt' = [jwt EXCEPT ![p] = [r EXCEPT !.at = at, !.field = field, !.clean = clean]]
      PROVE  TokenInv'
  <2> DEFINE s == [r EXCEPT !.at = at, !.field = field, !.clean = clean]
  <2>1. IsTokenRun(s) /\ s.token = r.token /\ s.told = r.told /\ s.asked = r.asked
    BY <1>1 DEF IsTokenRun
  <2> HIDE DEF s
  <2>2. QED
    BY <1>1, <2>1, <1>2, HandsFull DEF s
<1>3. ASSUME NEW at, jwt' = [jwt EXCEPT ![p].at = at, ![p].field = "x5u"] PROVE TokenInv'
  <2>1. jwt' = [jwt EXCEPT ![p] = [r EXCEPT !.at = at, !.field = "x5u", !.clean = r.clean]]
    BY <1>1, <1>3 DEF IsTokenRun
  <2>2. QED
    BY <1>2, <2>1
<1>4. ASSUME NEW clean, jwt' = [jwt EXCEPT ![p].at = "asking", ![p].clean = clean] PROVE TokenInv'
  <2>1. jwt' = [jwt EXCEPT ![p] = [r EXCEPT !.at = "asking", !.field = r.field, !.clean = clean]]
    BY <1>1, <1>4 DEF IsTokenRun
  <2>2. QED
    BY <1>2, <2>1
<1>5. QED
  BY <1>3, <1>4 DEF Lure

\* A run that lays its token down goes between tokens.
LEMMA PutDownKeeps ==
  ASSUME TokenInv, NEW p \in TokenPages, NEW s, jwt' = [jwt EXCEPT ![p] = s], tokensProbed' = tokensProbed,
         IsTokenRun(s), s.at \in {"taking", "over"}, s.told = jwt[p].told, s.asked = {}
  PROVE  TokenInv'
<1>1. Handled(s) \subseteq Handled(jwt[p])
  BY DEF Handled
<1>2. QED
  BY <1>1, TokenRunsOn

LEMMA PutDownIsARun ==
  ASSUME NEW r
  PROVE  IsTokenRun(PutDown(r)) /\ PutDown(r).at = "taking" /\ PutDown(r).told = r.told /\ PutDown(r).asked = {}
<1>1. PutDown(r) = BetweenTokens(r.todo, r.got, r.told, r.clean)
  BY DEF PutDown
<1>2. QED
  BY <1>1, BetweenTokensIsARun

LEMMA AskPageKeeps ==
  ASSUME TokenInv, NEW p \in TokenPages, AskPage(p) PROVE TokenInv'
<1> DEFINE r == jwt[p]
           down == PutDown(r)
<1>1. /\ jwt = [q \in TokenPages |-> jwt[q]] /\ IsTokenRun(r) /\ r.at = "asking" /\ \A u \in r.asked : SameOrigin(u)
      /\ tokensProbed' = tokensProbed
  BY DEF TokenInv, AskPage
<1>2. CASE jwt' = [jwt EXCEPT ![p].at = "forging", ![p].told = @ \cup {jwt[p].token}]
  <2> DEFINE s == [r EXCEPT !.at = "forging", !.told = @ \cup {r.token}]
  <2>1. jwt' = [jwt EXCEPT ![p] = s] /\ IsTokenRun(s) /\ s.token = r.token /\ s.told = r.told \cup {r.token} /\ s.asked = r.asked
    BY <1>1, <1>2 DEF IsTokenRun
  <2> HIDE DEF s
  <2>2. QED
    BY <1>1, <2>1, HandsFull
<1>3. CASE jwt' = [jwt EXCEPT ![p] = PutDown(@)]
  <2>1. jwt' = [jwt EXCEPT ![p] = down]
    BY <1>3
  <2>2. QED
    BY <1>1, <2>1, PutDownKeeps, PutDownIsARun
<1>4. ASSUME NEW clean, jwt' = [jwt EXCEPT ![p] = [PutDown(@) EXCEPT !.clean = clean]] PROVE TokenInv'
  <2> DEFINE s == [down EXCEPT !.clean = clean]
  <2>1. jwt' = [jwt EXCEPT ![p] = s]
    BY <1>4
  <2>2. IsTokenRun(down) /\ down.at = "taking" /\ down.told = r.told /\ down.asked = {}
    BY PutDownIsARun
  <2> HIDE DEF down
  <2>3. IsTokenRun(s) /\ s.at = "taking" /\ s.told = r.told /\ s.asked = {}
    BY <2>2 DEF IsTokenRun
  <2> HIDE DEF s
  <2>4. QED
    BY <1>1, <2>1, <2>3, PutDownKeeps
<1>5. QED
  BY <1>2, <1>3, <1>4 DEF AskPage

LEMMA ForgeKeeps ==
  ASSUME TokenInv, NEW p \in TokenPages, Forge(p) PROVE TokenInv'
<1> DEFINE r == jwt[p]
           goOn == [jwt EXCEPT ![p].next = @ + 1]
<1>1. /\ jwt = [q \in TokenPages |-> jwt[q]] /\ IsTokenRun(r) /\ r.at = "forging" /\ \A u \in r.asked : SameOrigin(u)
      /\ tokensProbed' = tokensProbed
  BY DEF TokenInv, Forge
<1>2. ASSUME NEW next, NEW none, NEW got, NEW clean,
             jwt' = [jwt EXCEPT ![p] = [r EXCEPT !.next = next, !.none = none, !.got = got, !.clean = clean]]
      PROVE  TokenInv'
  <2> DEFINE s == [r EXCEPT !.next = next, !.none = none, !.got = got, !.clean = clean]
  <2>1. IsTokenRun(s) /\ s.token = r.token /\ s.told = r.told /\ s.asked = r.asked
    BY <1>1 DEF IsTokenRun
  <2> HIDE DEF s
  <2>2. QED
    BY <1>1, <2>1, <1>2, HandsFull DEF s
<1>3. ASSUME NEW next, NEW none, NEW got, jwt' = [jwt EXCEPT ![p].next = next, ![p].none = none, ![p].got = got]
      PROVE  TokenInv'
  <2>1. jwt' = [jwt EXCEPT ![p] = [r EXCEPT !.next = next, !.none = none, !.got = got, !.clean = r.clean]]
    BY <1>1, <1>3 DEF IsTokenRun
  <2>2. QED
    BY <1>2, <2>1
<1>4. CASE jwt' = goOn
  <2>1. jwt' = [jwt EXCEPT ![p] = [r EXCEPT !.next = r.next + 1, !.none = r.none, !.got = r.got, !.clean = r.clean]]
    BY <1>1, <1>4 DEF IsTokenRun
  <2>2. QED
    BY <1>2, <2>1
<1>5. ASSUME NEW clean, jwt' = [goOn EXCEPT ![p].clean = clean] PROVE TokenInv'
  <2>1. jwt' = [jwt EXCEPT ![p] = [r EXCEPT !.next = r.next + 1, !.none = r.none, !.got = r.got, !.clean = clean]]
    BY <1>1, <1>5 DEF IsTokenRun
  <2>2. QED
    BY <1>2, <2>1
<1>6. QED
  <2> DEFINE kind == Parts[r.part]
             end == Len(Plan(r)) + 1
             none == r.none \/ kind = "alg-none"
             got == r.got \cup { [token |-> r.token.id, kind |-> kind, page |-> p] }
             clean == FALSE
  <2>1. \/ jwt' = [jwt EXCEPT ![p].next = end, ![p].none = none, ![p].got = got]
        \/ jwt' = goOn
        \/ jwt' = [goOn EXCEPT ![p].clean = clean]
    BY <1>1 DEF Forge, IsTokenRun
  <2> HIDE DEF end, none, got, clean, goOn
  <2>2. QED
    BY <1>3, <1>4, <1>5, <2>1

LEMMA NextPartKeeps ==
  ASSUME TokenInv, NEW p \in TokenPages, NextPart(p) PROVE TokenInv'
<1> DEFINE r == jwt[p]
           down == PutDown(r)
<1>1. /\ jwt = [q \in TokenPages |-> jwt[q]] /\ IsTokenRun(r) /\ r.at = "forging" /\ tokensProbed' = tokensProbed
  BY DEF TokenInv, NextPart
<1>2. CASE jwt' = [jwt EXCEPT ![p] = PutDown(@)]
  <2>1. jwt' = [jwt EXCEPT ![p] = down]
    BY <1>2
  <2>2. QED
    BY <1>1, <2>1, PutDownKeeps, PutDownIsARun
<1>3. ASSUME NEW part, NEW at, NEW urls,
             jwt' = [jwt EXCEPT ![p].part = part, ![p].next = 1, ![p].at = at, ![p].urls = urls, ![p].asked = {}]
      PROVE  TokenInv'
  <2> DEFINE s == [r EXCEPT !.part = part, !.next = 1, !.at = at, !.urls = urls, !.asked = {}]
  <2>1. jwt' = [jwt EXCEPT ![p] = s]
    BY <1>1, <1>3 DEF IsTokenRun
  <2>2. IsTokenRun(s) /\ s.token = r.token /\ s.told = r.told /\ s.asked = {}
    BY <1>1 DEF IsTokenRun
  <2> HIDE DEF s
  <2>3. QED
    BY <1>1, <2>1, <2>2, HandsFull
<1>4. QED
  <2> DEFINE part == r.part + 1
             at == IF Parts[part] = "alg-confusion" /\ r.token.alg \in Asymmetric THEN "fetching" ELSE r.at
             urls == KeyUrls(r.token)
  <2>1. \/ jwt' = [jwt EXCEPT ![p] = PutDown(@)]
        \/ jwt' = [jwt EXCEPT ![p].part = part, ![p].next = 1, ![p].at = at, ![p].urls = urls, ![p].asked = {}]
    BY <1>1 DEF NextPart, IsTokenRun
  <2> HIDE DEF part, at, urls
  <2>2. CASE jwt' = [jwt EXCEPT ![p].part = part, ![p].next = 1, ![p].at = at, ![p].urls = urls, ![p].asked = {}]
    BY Zenon, <1>3, <2>2
  <2>3. QED
    BY <1>2, <2>1, <2>2

LEMMA FetchKeysKeeps ==
  ASSUME TokenInv, NEW p \in TokenPages, FetchKeys(p) PROVE TokenInv'
<1> DEFINE r == jwt[p]
           url == Head(r.urls)
           doc == KeyDoc(url)
           on == IF Usable(doc.keys) = <<>> THEN doc.uri ELSE ""
           rest == [jwt EXCEPT ![p].urls = Tail(@)]
           once == [rest EXCEPT ![p].asked = @ \cup {url}]
<1>1. /\ jwt = [q \in TokenPages |-> jwt[q]] /\ IsTokenRun(r) /\ r.at = "fetching" /\ \A u \in r.asked : SameOrigin(u)
      /\ tokensProbed' = tokensProbed
  BY DEF TokenInv, FetchKeys
<1>2. ASSUME NEW asked, NEW keys, NEW clean, \A u \in asked : SameOrigin(u),
             jwt' = [jwt EXCEPT ![p] = [r EXCEPT !.urls = Tail(@), !.asked = asked, !.keys = keys, !.clean = clean]]
      PROVE  TokenInv'
  <2> DEFINE s == [r EXCEPT !.urls = Tail(@), !.asked = asked, !.keys = keys, !.clean = clean]
  <2>1. IsTokenRun(s) /\ s.token = r.token /\ s.told = r.told /\ s.asked = asked
    BY <1>1 DEF IsTokenRun
  <2> HIDE DEF s
  <2>2. QED
    BY <1>1, <2>1, <1>2, HandsFull DEF s
<1>3. CASE jwt' = rest
  <2>1. jwt' = [jwt EXCEPT ![p] = [r EXCEPT !.urls = Tail(@), !.asked = r.asked, !.keys = r.keys, !.clean = r.clean]]
    BY <1>1, <1>3 DEF IsTokenRun
  <2>2. QED
    BY <1>1, <1>2, <2>1
<1>4. ASSUME NEW clean, SameOrigin(url), jwt' = [once EXCEPT ![p].clean = clean] PROVE TokenInv'
  <2>1. jwt' = [jwt EXCEPT ![p] = [r EXCEPT !.urls = Tail(@), !.asked = r.asked \cup {url}, !.keys = r.keys, !.clean = clean]]
    BY <1>1, <1>4 DEF IsTokenRun
  <2>2. \A u \in r.asked \cup {url} : SameOrigin(u)
    BY <1>1, <1>4
  <2>3. QED
    BY <1>2, <2>1, <2>2
<1>5. ASSUME NEW keys, SameOrigin(url), jwt' = [once EXCEPT ![p].keys = keys] PROVE TokenInv'
  <2>1. jwt' = [jwt EXCEPT ![p] = [r EXCEPT !.urls = Tail(@), !.asked = r.asked \cup {url}, !.keys = keys, !.clean = r.clean]]
    BY <1>1, <1>5 DEF IsTokenRun
  <2>2. \A u \in r.asked \cup {url} : SameOrigin(u)
    BY <1>1, <1>5
  <2>3. QED
    BY <1>2, <2>1, <2>2
<1>6. ASSUME NEW keys, NEW further, SameOrigin(url), SameOrigin(further),
             jwt' = [once EXCEPT ![p].asked = @ \cup {further}, ![p].keys = keys]
      PROVE  TokenInv'
  <2>1. jwt' = [jwt EXCEPT ![p] = [r EXCEPT !.urls = Tail(@), !.asked = (r.asked \cup {url}) \cup {further},
                                            !.keys = keys, !.clean = r.clean]]
    BY <1>1, <1>6 DEF IsTokenRun
  <2>2. \A u \in (r.asked \cup {url}) \cup {further} : SameOrigin(u)
    BY <1>1, <1>6
  <2>3. QED
    BY <1>2, <2>1, <2>2
<1>7. QED
  <2> DEFINE asked == r.asked
             asked1 == once[p].asked
             clean == FALSE
             keys == once[p].keys \o Usable(doc.keys)
             more == once[p].keys \o Usable(KeyDoc(on).keys)
  <2>1. \/ jwt' = rest
        \/ Follow(url, asked) /\ jwt' = [once EXCEPT ![p].clean = clean]
        \/ Follow(url, asked) /\ jwt' = [once EXCEPT ![p].keys = keys]
        \/ /\ Follow(url, asked) /\ Follow(on, asked1)
           /\ jwt' = [once EXCEPT ![p].asked = @ \cup {on}, ![p].keys = more]
    BY Zenon DEF FetchKeys
  <2>2. /\ Follow(url, asked) => SameOrigin(url)
        /\ Follow(on, asked1) => SameOrigin(on)
    BY Zenon, FollowedIsOfTheHost
  <2> HIDE DEF once, on, doc, url, asked, asked1, clean, keys, more, rest
  <2>3. QED
    BY <1>3, <1>4, <1>5, <1>6, <2>1, <2>2

LEMMA KeysFetchedKeeps ==
  ASSUME TokenInv, NEW p \in TokenPages, KeysFetched(p) PROVE TokenInv'
<1> DEFINE r == jwt[p]
           s == [r EXCEPT !.at = "forging"]
<1>1. /\ jwt = [q \in TokenPages |-> jwt[q]] /\ IsTokenRun(r) /\ r.at = "fetching" /\ \A u \in r.asked : SameOrigin(u)
      /\ tokensProbed' = tokensProbed
  BY DEF TokenInv, KeysFetched
<1>2. jwt' = [jwt EXCEPT ![p] = s]
  BY DEF KeysFetched
<1>3. IsTokenRun(s) /\ s.token = r.token /\ s.told = r.told /\ s.asked = r.asked
  BY <1>1 DEF IsTokenRun
<1> HIDE DEF s
<1>4. QED
  BY <1>1, <1>2, <1>3, HandsFull

LEMMA TokensEndKeeps ==
  ASSUME TokenInv, NEW p \in TokenPages, TokenReturns(p) \/ CutTokens(p) PROVE TokenInv'
<1> DEFINE r == jwt[p]
<1>1. jwt = [q \in TokenPages |-> jwt[q]] /\ tokensProbed' = tokensProbed
  BY DEF TokenInv, TokenReturns, CutTokens
<1>2. CASE TokenReturns(p)
  <2> DEFINE down == PutDown(r)
             s == [down EXCEPT !.at = "over", !.got = {}]
  <2>1. jwt' = [jwt EXCEPT ![p] = s]
    BY <1>2 DEF TokenReturns
  <2>2. IsTokenRun(down) /\ down.told = r.told /\ down.asked = {}
    BY PutDownIsARun
  <2> HIDE DEF down
  <2>3. IsTokenRun(s) /\ s.at = "over" /\ s.told = r.told /\ s.asked = {}
    BY <2>2 DEF IsTokenRun
  <2> HIDE DEF s
  <2>4. QED
    BY <1>1, <2>1, <2>3, PutDownKeeps
<1>3. CASE CutTokens(p)
  <2> DEFINE clean == FALSE
             down == BetweenTokens(<<>>, {}, r.told, clean)
             s == [down EXCEPT !.at = "over"]
  <2>1. jwt' = [jwt EXCEPT ![p] = s]
    BY <1>3 DEF CutTokens
  <2> HIDE DEF clean
  <2>2. IsTokenRun(down) /\ down.told = r.told /\ down.asked = {}
    BY BetweenTokensIsARun
  <2> HIDE DEF down
  <2>3. IsTokenRun(s) /\ s.at = "over" /\ s.told = r.told /\ s.asked = {}
    BY <2>2 DEF IsTokenRun
  <2> HIDE DEF s
  <2>4. QED
    BY <1>1, <2>1, <2>3, PutDownKeeps
<1>4. QED
  BY <1>2, <1>3

LEMMA TokenStepKeeps == TokenInv /\ [TokenNext]_tokenVars => TokenInv'
<1> SUFFICES ASSUME TokenInv, [TokenNext]_tokenVars PROVE TokenInv'
  OBVIOUS
<1>1. ASSUME UNCHANGED <<jwt, tokensProbed>> PROVE TokenInv'
  BY <1>1 DEF TokenInv
<1>2. CanaryCalled \/ DrainTokens \/ UNCHANGED tokenVars => UNCHANGED <<jwt, tokensProbed>>
  BY DEF CanaryCalled, DrainTokens, tokenVars
<1>3. QED
  BY <1>1, <1>2, TakeTokenKeeps, LureKeeps, AskPageKeeps, ForgeKeeps, NextPartKeeps, FetchKeysKeeps, KeysFetchedKeeps,
     TokensEndKeeps DEF TokenNext, TokenStep

LEMMA TokenInvKeepsBounds == TokenInv => TokenKeepsBounds
<1> SUFFICES ASSUME TokenInv PROVE TokenKeepsBounds
  OBVIOUS
<1>1. ASSUME NEW p \in TokenPages, NEW q \in TokenPages, p # q PROVE jwt[p].told \cap jwt[q].told = {}
  <2>1. \A t \in jwt[p].told \cap jwt[q].told : t.id \in Handled(jwt[p]) /\ t.id \in Handled(jwt[q])
    BY DEF Handled
  <2>2. QED
    BY <1>1, <2>1 DEF TokenInv
<1>2. QED
  BY <1>1 DEF TokenInv, TokenKeepsBounds
-----------------------------------------------------------------------------
(* The subdomain-takeover check.                                           *)

IsLook(r) == {"at", "fact", "clean"} \subseteq DOMAIN r

\* The runs on a host that have had their first chance to ask it, and their second.
HadOne(h) == { p \in TakeoverPages : HostOfPage(p) = h /\ look[p].at \in {"blind", "storing", "over"} }
HadTwo(h) == { p \in TakeoverPages : HostOfPage(p) = h /\ look[p].at \in {"storing", "over"} }
MayAsk(h) == RootInScope(h) /\ ProviderOf(h) = <<>>

TakeoverInv ==
  /\ look = [p \in TakeoverPages |-> look[p]] /\ probes \in [Hosts -> Nat]
  /\ \A p \in TakeoverPages : IsLook(look[p])
  /\ \A p \in TakeoverPages : look[p].at \in {"resolving", "chained", "blind"} => ProviderOf(HostOfPage(p)) = <<>>
  /\ \A p \in TakeoverPages : look[p].at = "chained" => RootInScope(HostOfPage(p))
  /\ \A h \in Hosts : ~MayAsk(h) => probes[h] = 0
  /\ \A h \in Hosts : probes[h] <= Cardinality(HadOne(h)) + Cardinality(HadTwo(h))

LEMMA ChancesAreFinite ==
  ASSUME NEW h PROVE /\ IsFiniteSet(HadOne(h)) /\ Cardinality(HadOne(h)) \in Nat
                     /\ IsFiniteSet(HadTwo(h)) /\ Cardinality(HadTwo(h)) \in Nat
BY TakeoverAssumption, FS_Subset, FS_CardinalityType DEF HadOne, HadTwo

LEMMA TakeoverInitially == TakeoverInit => TakeoverInv
<1> SUFFICES ASSUME TakeoverInit PROVE TakeoverInv
  OBVIOUS
<1>1. \A p \in TakeoverPages : IsLook(look[p]) /\ look[p].at = "asked"
  BY Zenon DEF TakeoverInit, IsLook
<1>2. look = [p \in TakeoverPages |-> look[p]]
  BY Zenon DEF TakeoverInit
<1>3. probes \in [Hosts -> Nat] /\ \A h \in Hosts : probes[h] = 0
  BY DEF TakeoverInit
<1>4. \A h \in Hosts : probes[h] <= Cardinality(HadOne(h)) + Cardinality(HadTwo(h))
  BY <1>3, ChancesAreFinite
<1>5. QED
  BY <1>1, <1>2, <1>3, <1>4 DEF TakeoverInv

\* A run goes on to s; what it asks, it has a chance less to ask again.
Later(at, than) ==
  /\ at \in {"blind", "storing", "over"} => than \in {"blind", "storing", "over"}
  /\ at \in {"storing", "over"} => than \in {"storing", "over"}
LookGoes(p, s) ==
  /\ look' = [look EXCEPT ![p] = s] /\ IsLook(s) /\ Later(look[p].at, s.at)
  /\ s.at \in {"resolving", "chained", "blind"} => ProviderOf(HostOfPage(p)) = <<>>
  /\ s.at = "chained" => RootInScope(HostOfPage(p))
  /\ \/ probes' = probes
     \/ /\ probes' = [probes EXCEPT ![HostOfPage(p)] = @ + 1] /\ MayAsk(HostOfPage(p))
        /\ \/ look[p].at = "chained" /\ s.at \in {"blind", "storing"}
           \/ look[p].at = "blind" /\ s.at = "storing"

LEMMA LookGoesOn ==
  ASSUME TakeoverInv, NEW p \in TakeoverPages, NEW s, LookGoes(p, s) PROVE TakeoverInv'
<1> DEFINE host == HostOfPage(p)
<1>1. look' = [q \in TakeoverPages |-> look'[q]] /\ \A q \in TakeoverPages : look'[q] = IF q = p THEN s ELSE look[q]
  BY DEF TakeoverInv, LookGoes
<1>2. host \in Hosts
  BY DEF Hosts
<1>3. probes' \in [Hosts -> Nat]
  BY <1>2 DEF TakeoverInv, LookGoes
<1>4. \A q \in TakeoverPages : /\ IsLook(look'[q])
                               /\ look'[q].at \in {"resolving", "chained", "blind"} => ProviderOf(HostOfPage(q)) = <<>>
                               /\ look'[q].at = "chained" => RootInScope(HostOfPage(q))
  BY <1>1 DEF TakeoverInv, LookGoes
<1>5. \A h \in Hosts : HadOne(h) \subseteq HadOne(h)' /\ HadTwo(h) \subseteq HadTwo(h)'
  BY <1>1 DEF HadOne, HadTwo, LookGoes, Later
<1>6. \A h \in Hosts : /\ Cardinality(HadOne(h)) \in Nat /\ Cardinality(HadTwo(h)) \in Nat
                       /\ Cardinality(HadOne(h)') \in Nat /\ Cardinality(HadTwo(h)') \in Nat
                       /\ IsFiniteSet(HadOne(h)) /\ IsFiniteSet(HadTwo(h)) /\ IsFiniteSet(HadOne(h)') /\ IsFiniteSet(HadTwo(h)')
  BY TakeoverAssumption, FS_Subset, FS_CardinalityType, ChancesAreFinite DEF HadOne, HadTwo
<1>7. \A h \in Hosts : /\ Cardinality(HadOne(h)) <= Cardinality(HadOne(h)')
                       /\ Cardinality(HadTwo(h)) <= Cardinality(HadTwo(h)')
  BY <1>5, <1>6, FS_Subset
<1>8. \A h \in Hosts : probes[h] \in Nat /\ probes[h] <= Cardinality(HadOne(h)) + Cardinality(HadTwo(h))
  BY DEF TakeoverInv
<1>9. CASE probes' = probes
  <2>1. \A h \in Hosts : probes'[h] <= Cardinality(HadOne(h)') + Cardinality(HadTwo(h)')
    BY <1>6, <1>7, <1>8, <1>9
  <2>2. QED
    BY <1>1, <1>3, <1>4, <1>9, <2>1 DEF TakeoverInv, HadOne, HadTwo
<1>10. CASE /\ probes' = [probes EXCEPT ![host] = @ + 1] /\ MayAsk(host)
            /\ \/ look[p].at = "chained" /\ s.at \in {"blind", "storing"}
               \/ look[p].at = "blind" /\ s.at = "storing"
  <2>1. \A h \in Hosts : h # host => probes'[h] = probes[h]
    BY <1>10 DEF TakeoverInv
  <2>2. probes'[host] = probes[host] + 1
    BY <1>2, <1>10 DEF TakeoverInv
  <2>3. \/ p \notin HadOne(host) /\ p \in HadOne(host)'
        \/ p \notin HadTwo(host) /\ p \in HadTwo(host)'
    BY <1>1, <1>10 DEF HadOne, HadTwo
  <2>4. ASSUME NEW a, NEW b, a \subseteq b, p \notin a, p \in b, IsFiniteSet(a), IsFiniteSet(b)
        PROVE  Cardinality(a) + 1 <= Cardinality(b)
    <3>1. a \cup {p} \subseteq b
      BY <2>4
    <3>2. IsFiniteSet(a \cup {p}) /\ Cardinality(a \cup {p}) = Cardinality(a) + 1
      BY <2>4, FS_AddElement
    <3>3. QED
      BY <2>4, <3>1, <3>2, FS_Subset
  <2>5. \/ Cardinality(HadOne(host)) + 1 <= Cardinality(HadOne(host)')
        \/ Cardinality(HadTwo(host)) + 1 <= Cardinality(HadTwo(host)')
    BY <1>2, <1>5, <1>6, <2>3, <2>4
  <2>6. probes'[host] <= Cardinality(HadOne(host)') + Cardinality(HadTwo(host)')
    BY <1>2, <1>6, <1>7, <1>8, <2>2, <2>5
  <2>7. \A h \in Hosts : probes'[h] <= Cardinality(HadOne(h)') + Cardinality(HadTwo(h)')
    BY <1>6, <1>7, <1>8, <2>1, <2>6
  <2>8. \A h \in Hosts : ~MayAsk(h) => probes'[h] = 0
    BY <1>10, <2>1 DEF TakeoverInv
  <2>9. QED
    BY <1>1, <1>3, <1>4, <2>7, <2>8 DEF TakeoverInv, HadOne, HadTwo
<1>11. QED
  BY <1>9, <1>10 DEF LookGoes

\* The ways in which the steps write down where a run goes.
Turns(p, at) == \E s : look' = [look EXCEPT ![p] = s] /\ IsLook(s) /\ s.at = at
LEMMA Writes ==
  ASSUME TakeoverInv, NEW p \in TakeoverPages, NEW at
  PROVE  /\ Goes(p, at) => Turns(p, at)
         /\ Fails(p, at) => Turns(p, at)
         /\ \A fact : Concludes(p, fact) => Turns(p, "storing")
<1>1. p \in DOMAIN look /\ IsLook(look[p])
  BY DEF TakeoverInv
<1>2. ASSUME NEW clean, look' = [look EXCEPT ![p].at = at, ![p].clean = clean]
      PROVE  Turns(p, at)
  <2> DEFINE s == [look[p] EXCEPT !.at = at, !.clean = clean]
  <2>1. look' = [look EXCEPT ![p] = s] /\ IsLook(s) /\ s.at = at
    BY <1>1, <1>2 DEF IsLook
  <2>2. QED
    BY <2>1 DEF Turns
<1>3. ASSUME NEW fact, look' = [look EXCEPT ![p].at = "storing", ![p].fact = fact]
      PROVE  Turns(p, "storing")
  <2> DEFINE s == [look[p] EXCEPT !.at = "storing", !.fact = fact]
  <2>1. look' = [look EXCEPT ![p] = s] /\ IsLook(s) /\ s.at = "storing"
    BY <1>1, <1>3 DEF IsLook
  <2>2. QED
    BY <2>1 DEF Turns
<1>4. ASSUME look' = [look EXCEPT ![p].at = at]
      PROVE  Turns(p, at)
  <2> DEFINE s == [look[p] EXCEPT !.at = at]
  <2>1. look' = [look EXCEPT ![p] = s] /\ IsLook(s) /\ s.at = at
    BY <1>1, <1>4 DEF IsLook
  <2>2. QED
    BY <2>1 DEF Turns
<1>5. QED
  BY <1>2, <1>3, <1>4 DEF Goes, Fails, Concludes

LEMMA TurnKeeps ==
  ASSUME TakeoverInv, NEW p \in TakeoverPages, NEW at, Turns(p, at), Later(look[p].at, at),
         at \in {"resolving", "chained", "blind"} => ProviderOf(HostOfPage(p)) = <<>>,
         at = "chained" => RootInScope(HostOfPage(p)),
         \/ probes' = probes
         \/ /\ Asks(p) /\ MayAsk(HostOfPage(p))
            /\ \/ look[p].at = "chained" /\ at \in {"blind", "storing"}
               \/ look[p].at = "blind" /\ at = "storing"
  PROVE  TakeoverInv'
<1>1. PICK s : look' = [look EXCEPT ![p] = s] /\ IsLook(s) /\ s.at = at
  BY DEF Turns
<1>2. LookGoes(p, s)
  BY <1>1 DEF LookGoes, Asks
<1>3. QED
  BY <1>2, LookGoesOn

LEMMA RecallKeeps ==
  ASSUME TakeoverInv, NEW p \in TakeoverPages, Recall(p) PROVE TakeoverInv'
<1>1. look[p].at = "asked" /\ probes' = probes
  BY DEF Recall
<1>2. \/ Goes(p, "over")
      \/ Goes(p, "resolving") /\ ProviderOf(HostOfPage(p)) = <<>>
  BY DEF Recall
<1>3. Later("asked", "over") /\ Later("asked", "resolving")
  BY DEF Later
<1>4. QED
  BY <1>1, <1>2, <1>3, Writes, TurnKeeps

LEMMA ResolveAliasKeeps ==
  ASSUME TakeoverInv, NEW p \in TakeoverPages, ResolveAlias(p) PROVE TakeoverInv'
<1>1. look[p].at = "resolving" /\ probes' = probes /\ ProviderOf(HostOfPage(p)) = <<>>
  BY DEF ResolveAlias, TakeoverInv
<1>2. \/ Turns(p, "blind") \/ Turns(p, "storing")
      \/ Turns(p, "chained") /\ RootInScope(HostOfPage(p))
  BY Writes DEF ResolveAlias
<1>3. Later("resolving", "blind") /\ Later("resolving", "storing") /\ Later("resolving", "chained")
  BY DEF Later
<1>4. QED
  BY <1>1, <1>2, <1>3, TurnKeeps

LEMMA ProbeChainKeeps ==
  ASSUME TakeoverInv, NEW p \in TakeoverPages, ProbeChain(p) PROVE TakeoverInv'
<1>1. /\ look[p].at = "chained" /\ Asks(p) /\ MayAsk(HostOfPage(p)) /\ ProviderOf(HostOfPage(p)) = <<>>
      /\ IsLook(look[p]) /\ look = [q \in TakeoverPages |-> look[q]]
  BY DEF ProbeChain, TakeoverInv, MayAsk
<1>2. ASSUME NEW clean, look' = [look EXCEPT ![p].at = "storing", ![p].clean = clean] PROVE Turns(p, "storing")
  <2> DEFINE s == [look[p] EXCEPT !.at = "storing", !.clean = clean]
  <2>1. look' = [look EXCEPT ![p] = s] /\ IsLook(s) /\ s.at = "storing"
    BY <1>1, <1>2 DEF IsLook
  <2>2. QED
    BY <2>1 DEF Turns
<1>3. Turns(p, "blind") \/ Turns(p, "storing")
  BY <1>2, Writes DEF ProbeChain
<1>4. Later("chained", "blind") /\ Later("chained", "storing")
  BY DEF Later
<1>5. QED
  BY <1>1, <1>3, <1>4, TurnKeeps

LEMMA ProbeBlindKeeps ==
  ASSUME TakeoverInv, NEW p \in TakeoverPages, ProbeBlind(p) PROVE TakeoverInv'
<1>1. look[p].at = "blind" /\ ProviderOf(HostOfPage(p)) = <<>>
  BY DEF ProbeBlind, TakeoverInv
<1>2. /\ Turns(p, "storing")
      /\ probes' = probes \/ (Asks(p) /\ MayAsk(HostOfPage(p)))
  BY <1>1, Writes DEF ProbeBlind, MayAsk
<1>3. Later("blind", "storing")
  BY DEF Later
<1>4. QED
  BY <1>1, <1>2, <1>3, TurnKeeps

LEMMA StoreVerdictKeeps ==
  ASSUME TakeoverInv, NEW p \in TakeoverPages, StoreVerdict(p) PROVE TakeoverInv'
<1>1. look[p].at = "storing" /\ probes' = probes /\ Turns(p, "over")
  BY Writes DEF StoreVerdict
<1>2. Later("storing", "over")
  BY DEF Later
<1>3. QED
  BY <1>1, <1>2, TurnKeeps

LEMMA TakeoverStepKeeps == TakeoverInv /\ [TakeoverNext]_takeoverVars => TakeoverInv'
<1> SUFFICES ASSUME TakeoverInv, [TakeoverNext]_takeoverVars PROVE TakeoverInv'
  OBVIOUS
<1>1. CASE UNCHANGED takeoverVars
  BY <1>1 DEF takeoverVars, TakeoverInv, HadOne, HadTwo
<1>2. QED
  BY <1>1, RecallKeeps, ResolveAliasKeeps, ProbeChainKeeps, ProbeBlindKeeps, StoreVerdictKeeps DEF TakeoverNext, TakeoverStep

LEMMA TakeoverInvKeepsBounds == TakeoverInv => TakeoverKeepsBounds
<1> SUFFICES ASSUME TakeoverInv, NEW h \in Hosts
             PROVE  /\ ~RootInScope(h) \/ ProviderOf(h) # <<>> => probes[h] = 0
                    /\ probes[h] <= 2 * Cardinality({ p \in TakeoverPages : HostOfPage(p) = h /\ look[p].at # "asked" })
  BY DEF TakeoverKeepsBounds
<1> DEFINE begun == { p \in TakeoverPages : HostOfPage(p) = h /\ look[p].at # "asked" }
<1>1. IsFiniteSet(begun) /\ Cardinality(begun) \in Nat
  BY TakeoverAssumption, FS_Subset, FS_CardinalityType
<1>2. HadOne(h) \subseteq begun /\ HadTwo(h) \subseteq begun
  BY DEF HadOne, HadTwo
<1> HIDE DEF begun
<1>3. Cardinality(HadOne(h)) <= Cardinality(begun) /\ Cardinality(HadTwo(h)) <= Cardinality(begun)
  BY <1>1, <1>2, FS_Subset
<1>4. probes[h] \in Nat /\ probes[h] <= Cardinality(HadOne(h)) + Cardinality(HadTwo(h))
  BY DEF TakeoverInv
<1>5. probes[h] <= 2 * Cardinality(begun)
  BY <1>1, <1>3, <1>4, ChancesAreFinite
<1>6. ~RootInScope(h) \/ ProviderOf(h) # <<>> => probes[h] = 0
  BY DEF TakeoverInv, MayAsk
<1>7. QED
  BY <1>5, <1>6 DEF begun
-----------------------------------------------------------------------------
(* The checks of well-known documents.                                     *)

IsWalk(r) == {"at", "i", "known", "asked", "lost", "after", "cut"} \subseteq DOMAIN r
HostAllowed(h) == AuditAllowed(h, "")
WalkedPaths(kind) == { KnownPaths(kind)[k] : k \in DOMAIN KnownPaths(kind) }
HitsOf(p) == { x \in WalkedPaths(auditing) : Recognised(Document(p, x)) }

\* A walk asks what is before its place, in scope; while it goes on it has found nothing,
\* and afterwards nothing before the last path it asked.
Walk(host, r, paths, hits) ==
  /\ IsWalk(r) /\ r.i \in Nat \ {0} /\ r.after = {}
  /\ r.at = "looking" => r.asked = {}
  /\ r.at = "walking" => \A x \in r.asked \ r.lost : x \notin hits
  /\ \A x \in r.asked : AuditAllowed(host, x) /\ \E k \in DOMAIN paths : k < r.i /\ x = paths[k]
  /\ \A k, j \in DOMAIN paths :
        k < j /\ paths[k] \in r.asked /\ paths[j] \in r.asked /\ paths[k] \notin r.lost => paths[k] \notin hits

KnownInv ==
  /\ auditing \in AuditKinds /\ audit = [p \in AuditPages |-> audit[p]]
  /\ \A p \in AuditPages : Walk(AuditHost(p), audit[p], KnownPaths(auditing), HitsOf(p))
  /\ \A p \in AuditPages : audit[p].at = "over" /\ HostAllowed(AuditHost(p)) => AuditHost(p) \in DOMAIN facts

LEMMA KnownInitially == KnownInit => KnownInv
<1> SUFFICES ASSUME KnownInit PROVE KnownInv
  OBVIOUS
<1>1. auditing \in AuditKinds /\ audit = [p \in AuditPages |-> audit[p]]
  BY Zenon DEF KnownInit
<1>2. ASSUME NEW p \in AuditPages
      PROVE  IsWalk(audit[p]) /\ audit[p].at = "looking" /\ audit[p].asked = {} /\ audit[p].after = {} /\ audit[p].i = 1
  BY Zenon DEF KnownInit, IsWalk
<1>3. \A p \in AuditPages : Walk(AuditHost(p), audit[p], KnownPaths(auditing), HitsOf(p))
  BY <1>2 DEF Walk
<1>4. QED
  BY <1>1, <1>2, <1>3 DEF KnownInv

LEMMA KnownGoesOn ==
  ASSUME KnownInv, NEW p \in AuditPages, NEW s, auditing' = auditing, published' = published,
         audit' = [audit EXCEPT ![p] = s], Walk(AuditHost(p), s, KnownPaths(auditing), HitsOf(p)),
         DOMAIN facts \subseteq DOMAIN facts',
         s.at = "over" /\ HostAllowed(AuditHost(p)) => AuditHost(p) \in DOMAIN facts'
  PROVE  KnownInv'
<1>1. audit' = [q \in AuditPages |-> audit'[q]] /\ \A q \in AuditPages : audit'[q] = IF q = p THEN s ELSE audit[q]
  BY DEF KnownInv
<1>2. \A q \in AuditPages : HitsOf(q)' = HitsOf(q)
  BY DEF HitsOf, Recognised, Document
<1>3. \A q \in AuditPages : Walk(AuditHost(q), audit'[q], KnownPaths(auditing), HitsOf(q)')
  BY <1>1, <1>2 DEF KnownInv
<1>4. \A q \in AuditPages : audit'[q].at = "over" /\ HostAllowed(AuditHost(q)) => AuditHost(q) \in DOMAIN facts'
  BY <1>1 DEF KnownInv
<1>5. QED
  BY <1>1, <1>3, <1>4 DEF KnownInv

\* A run that ends, or waits to be stored, keeps what it asked.
LEMMA WalkEnds ==
  ASSUME NEW host, NEW r, NEW s, NEW paths, NEW hits, Walk(host, r, paths, hits), IsWalk(s), s.i = r.i, s.after = r.after,
         s.asked = r.asked, s.lost = r.lost, s.at = "over"
  PROVE  Walk(host, s, paths, hits)
BY DEF Walk

LEMMA LookUpKeeps ==
  ASSUME KnownInv, NEW p \in AuditPages, LookUp(p) PROVE KnownInv'
<1> DEFINE r == audit[p]
<1>1. /\ auditing' = auditing /\ published' = published /\ facts' = facts /\ r.at = "looking"
      /\ audit = [q \in AuditPages |-> audit[q]] /\ Walk(AuditHost(p), r, KnownPaths(auditing), HitsOf(p)) /\ IsWalk(r)
  BY DEF KnownInv, LookUp, Walk
<1>2. \/ /\ ~HostAllowed(AuditHost(p)) \/ AuditHost(p) \in DOMAIN facts
         /\ \E known : audit' = [audit EXCEPT ![p].at = "over", ![p].known = known]
      \/ /\ HostAllowed(AuditHost(p)) /\ AuditHost(p) \notin DOMAIN facts
         /\ audit' = [audit EXCEPT ![p].at = "walking",
                                   ![p].after = { q \in AuditPages : audit[q].at = "over" /\ AuditHost(q) = AuditHost(p) }]
  BY Zenon DEF LookUp, Finish, HostAllowed, HostKey
<1>3. ASSUME NEW known, ~HostAllowed(AuditHost(p)) \/ AuditHost(p) \in DOMAIN facts,
             audit' = [audit EXCEPT ![p].at = "over", ![p].known = known]
      PROVE  KnownInv'
  <2> DEFINE s == [r EXCEPT !.at = "over", !.known = known]
  <2>1. /\ audit' = [audit EXCEPT ![p] = s] /\ IsWalk(s) /\ s.at = "over" /\ s.asked = r.asked /\ s.lost = r.lost
        /\ s.i = r.i /\ s.after = r.after
    BY <1>1, <1>3 DEF IsWalk
  <2> HIDE DEF s
  <2>2. Walk(AuditHost(p), s, KnownPaths(auditing), HitsOf(p))
    BY <1>1, <2>1, WalkEnds
  <2>3. QED
    BY <1>1, <1>3, <2>1, <2>2, KnownGoesOn
<1>4. CASE /\ HostAllowed(AuditHost(p)) /\ AuditHost(p) \notin DOMAIN facts
           /\ audit' = [audit EXCEPT ![p].at = "walking",
                                     ![p].after = { q \in AuditPages : audit[q].at = "over" /\ AuditHost(q) = AuditHost(p) }]
  <2> DEFINE s == [r EXCEPT !.at = "walking", !.after = {}]
  <2>1. \A q \in AuditPages : ~(audit[q].at = "over" /\ AuditHost(q) = AuditHost(p))
    BY <1>4 DEF KnownInv
  <2>2. { q \in AuditPages : audit[q].at = "over" /\ AuditHost(q) = AuditHost(p) } = {}
    BY <2>1
  <2>3. /\ audit' = [audit EXCEPT ![p] = s] /\ IsWalk(s) /\ s.at = "walking" /\ s.asked = r.asked /\ s.lost = r.lost
        /\ s.i = r.i /\ s.after = {}
    BY <1>1, <1>4, <2>2 DEF IsWalk
  <2> HIDE DEF s
  <2>4. Walk(AuditHost(p), s, KnownPaths(auditing), HitsOf(p))
    BY <1>1, <2>3 DEF Walk
  <2>5. QED
    BY <1>1, <2>3, <2>4, KnownGoesOn
<1>5. QED
  BY <1>2, <1>3, <1>4

PathList(paths) ==
  paths \in Seq({ paths[i] : i \in DOMAIN paths }) /\ \A i, j \in DOMAIN paths : paths[i] = paths[j] => i = j

LEMMA WalkAsks ==
  ASSUME NEW host, NEW r, NEW s, NEW paths, NEW hits, NEW path, PathList(paths), Walk(host, r, paths, hits), IsWalk(s),
         r.at = "walking", r.i \in DOMAIN paths, path = paths[r.i], AuditAllowed(host, path), r.i + 1 = s.i,
         s.after = r.after, s.asked = r.asked \cup {path}, s.lost = r.lost \/ s.lost = r.lost \cup {path},
         s.at \in {"walking", "storing"}, s.at = "walking" => path \notin hits \/ path \in s.lost
  PROVE  Walk(host, s, paths, hits)
<1>1. DOMAIN paths \subseteq Nat /\ r.i \in Nat \ {0} /\ s.i \in Nat \ {0}
  BY DEF PathList, Walk
<1>2. \A x \in r.asked : AuditAllowed(host, x) /\ \E k \in DOMAIN paths : k < r.i /\ x = paths[k]
  BY DEF Walk
<1>3. \A x \in r.asked \ r.lost : x \notin hits
  BY DEF Walk
<1>4. \A x \in s.asked : AuditAllowed(host, x) /\ \E k \in DOMAIN paths : k < s.i /\ x = paths[k]
  <2>1. ASSUME NEW x \in r.asked PROVE AuditAllowed(host, x) /\ \E k \in DOMAIN paths : k < s.i /\ x = paths[k]
    <3>1. PICK k \in DOMAIN paths : k < r.i /\ x = paths[k]
      BY <1>2
    <3>2. k < s.i
      BY <1>1, <3>1
    <3>3. QED
      BY <1>2, <3>1, <3>2
  <2>2. r.i < s.i
    BY <1>1
  <2>3. QED
    BY <2>1, <2>2
<1>5. ASSUME NEW k \in DOMAIN paths, NEW j \in DOMAIN paths, k < j, paths[k] \in s.asked, paths[j] \in s.asked,
             paths[k] \notin s.lost
      PROVE  paths[k] \notin hits
  <2>1. CASE paths[k] \in r.asked
    BY <1>3, <1>5, <2>1
  <2>2. CASE paths[k] = path
    <3>1. k = r.i
      BY <2>2 DEF PathList
    <3>2. ASSUME paths[j] \in r.asked PROVE FALSE
      <4>1. PICK m \in DOMAIN paths : m < r.i /\ paths[j] = paths[m]
        BY <1>2, <3>2
      <4>2. m = j
        BY <4>1 DEF PathList
      <4>3. QED
        BY <1>1, <1>5, <3>1, <4>1, <4>2
    <3>3. paths[j] = path
      BY <1>5, <3>2
    <3>4. j = r.i
      BY <3>3 DEF PathList
    <3>5. QED
      BY <1>1, <1>5, <3>1, <3>4
  <2>3. QED
    BY <1>5, <2>1, <2>2
<1>6. s.at = "walking" => \A x \in s.asked \ s.lost : x \notin hits
  BY <1>3
<1>7. s.after = {}
  BY DEF Walk
<1>8. QED
  BY <1>1, <1>4, <1>5, <1>6, <1>7 DEF Walk

\* A walk that passes over paths.
LEMMA WalkGoesBy ==
  ASSUME NEW host, NEW r, NEW s, NEW paths, NEW hits, PathList(paths), Walk(host, r, paths, hits), IsWalk(s),
         r.at = "walking", s.at = "walking", s.i \in Nat, r.i <= s.i, s.after = r.after, s.asked = r.asked, s.lost = r.lost
  PROVE  Walk(host, s, paths, hits)
<1>1. DOMAIN paths \subseteq Nat /\ r.i \in Nat \ {0} /\ s.i \in Nat \ {0}
  BY DEF PathList, Walk
<1>2. ASSUME NEW x \in s.asked PROVE AuditAllowed(host, x) /\ \E k \in DOMAIN paths : k < s.i /\ x = paths[k]
  <2>1. PICK k \in DOMAIN paths : k < r.i /\ x = paths[k]
    BY <1>2 DEF Walk
  <2>2. k < s.i
    BY <1>1, <2>1
  <2>3. QED
    BY <1>2, <2>1, <2>2 DEF Walk
<1>3. QED
  BY <1>1, <1>2 DEF Walk

LEMMA AskPathKeeps ==
  ASSUME KnownInv, NEW p \in AuditPages, AskPath(p) PROVE KnownInv'
<1> DEFINE r == audit[p]
           paths == KnownPaths(auditing)
           path == paths[r.i]
           next == [audit EXCEPT ![p].i = @ + 1, ![p].asked = @ \cup {path}]
<1>1. /\ auditing' = auditing /\ published' = published /\ facts' = facts /\ r.at = "walking" /\ r.i <= Len(paths)
      /\ audit = [q \in AuditPages |-> audit[q]] /\ Walk(AuditHost(p), r, paths, HitsOf(p)) /\ IsWalk(r) /\ r.i \in Nat \ {0}
  BY DEF KnownInv, AskPath, Walk
<1>2. PathList(paths)
  BY KnownAssumption DEF KnownInv, PathList
<1>3. r.i \in DOMAIN paths
  <2>1. paths \in Seq({ paths[i] : i \in DOMAIN paths })
    BY <1>2 DEF PathList
  <2>2. PICK pathsOf : paths \in Seq(pathsOf)
    BY <2>1
  <2> HIDE DEF paths
  <2>3. QED
    BY <1>1, <2>2
<1>4. path \in WalkedPaths(auditing)
  BY <1>3 DEF WalkedPaths
<1>5. PICK n \in Nat : r.i + 1 = n
  BY <1>1
<1>6. ASSUME NEW s, audit' = [audit EXCEPT ![p] = s], Walk(AuditHost(p), s, paths, HitsOf(p)), s.at \in {"walking", "storing"}
      PROVE  KnownInv'
  BY <1>1, <1>6, KnownGoesOn
<1>7. CASE audit' = [audit EXCEPT ![p].i = @ + 1]
  <2> DEFINE s == [r EXCEPT !.i = n]
  <2>1. audit' = [audit EXCEPT ![p] = s]
    BY <1>1, <1>5, <1>7
  <2>2. IsWalk(s) /\ s.i = n /\ s.at = r.at /\ s.asked = r.asked /\ s.lost = r.lost /\ s.after = r.after
    BY <1>1 DEF IsWalk
  <2>3. r.i <= n
    BY <1>1, <1>5
  <2> HIDE DEF s, paths
  <2>4. Walk(AuditHost(p), s, paths, HitsOf(p))
    BY <1>1, <1>2, <2>2, <2>3, WalkGoesBy
  <2>5. QED
    BY <1>1, <1>6, <2>1, <2>2, <2>4
<1>8. ASSUME NEW at \in {"walking", "storing"}, NEW known, NEW gone, AuditAllowed(AuditHost(p), path),
             gone = r.lost \/ gone = r.lost \cup {path},
             at = "walking" => path \notin HitsOf(p) \/ path \in gone,
             audit' = [audit EXCEPT ![p] = [r EXCEPT !.i = n, !.asked = @ \cup {path}, !.at = at, !.known = known, !.lost = gone]]
      PROVE  KnownInv'
  <2> DEFINE s == [r EXCEPT !.i = n, !.asked = @ \cup {path}, !.at = at, !.known = known, !.lost = gone]
  <2>1. IsWalk(s) /\ s.i = n /\ s.at = at /\ s.asked = r.asked \cup {path} /\ s.lost = gone /\ s.after = r.after
    BY <1>1 DEF IsWalk
  <2>2. audit' = [audit EXCEPT ![p] = s]
    BY <1>8
  <2>3. path = paths[r.i]
    OBVIOUS
  <2> HIDE DEF s, path, paths
  <2>4. Walk(AuditHost(p), s, paths, HitsOf(p))
    BY <1>1, <1>2, <1>3, <1>5, <1>8, <2>1, <2>3, WalkAsks
  <2>5. QED
    BY <1>6, <2>1, <2>2, <2>4
<1>9. CASE AuditAllowed(AuditHost(p), path) /\ Recognised(Document(p, path))
           /\ audit' = [next EXCEPT ![p].at = "storing", ![p].known = <<Document(p, path)>>]
  <2>1. audit' = [audit EXCEPT ![p] = [r EXCEPT !.i = n, !.asked = @ \cup {path}, !.at = "storing",
                                                 !.known = <<Document(p, path)>>, !.lost = r.lost]]
    BY <1>1, <1>5, <1>9 DEF IsWalk
  <2>2. QED
    BY <1>8, <1>9, <2>1
<1>10. CASE AuditAllowed(AuditHost(p), path) /\ ~Recognised(Document(p, path)) /\ audit' = next
  <2>1. audit' = [audit EXCEPT ![p] = [r EXCEPT !.i = n, !.asked = @ \cup {path}, !.at = "walking",
                                                 !.known = r.known, !.lost = r.lost]]
    BY <1>1, <1>5, <1>10 DEF IsWalk
  <2>2. path \notin HitsOf(p)
    BY <1>10 DEF HitsOf
  <2>3. QED
    BY <1>8, <1>10, <2>1, <2>2
<1>11. CASE AuditAllowed(AuditHost(p), path) /\ audit' = [next EXCEPT ![p].lost = @ \cup {path}]
  <2>1. audit' = [audit EXCEPT ![p] = [r EXCEPT !.i = n, !.asked = @ \cup {path}, !.at = "walking",
                                                 !.known = r.known, !.lost = r.lost \cup {path}]]
    BY ZenonT(60), <1>1, <1>5, <1>11 DEF IsWalk
  <2>2. path \in r.lost \cup {path}
    OBVIOUS
  <2>3. QED
    BY <1>8, <1>11, <2>1, <2>2
<1>12. QED
  BY <1>7, <1>9, <1>10, <1>11 DEF AskPath

LEMMA WalkExpiresKeeps ==
  ASSUME KnownInv, NEW p \in AuditPages, WalkExpires(p) PROVE KnownInv'
<1> DEFINE r == audit[p]
           paths == KnownPaths(auditing)
<1>1. /\ auditing' = auditing /\ published' = published /\ facts' = facts /\ r.at = "walking" /\ r.i <= Len(paths)
      /\ audit = [q \in AuditPages |-> audit[q]] /\ Walk(AuditHost(p), r, paths, HitsOf(p)) /\ IsWalk(r) /\ r.i \in Nat \ {0}
  BY DEF KnownInv, WalkExpires, Walk
<1>2. PathList(paths)
  BY KnownAssumption DEF KnownInv, PathList
<1>3. PICK n \in Nat : Len(paths) + 1 = n /\ r.i <= n
  <2>1. paths \in Seq({ paths[i] : i \in DOMAIN paths })
    BY <1>2 DEF PathList
  <2>2. PICK pathsOf : paths \in Seq(pathsOf)
    BY <2>1
  <2> HIDE DEF paths
  <2>3. QED
    BY <1>1, <2>2
<1>4. ASSUME NEW cut, audit' = [audit EXCEPT ![p].i = n, ![p].cut = cut] PROVE KnownInv'
  <2> DEFINE s == [r EXCEPT !.i = n, !.cut = cut]
  <2>1. audit' = [audit EXCEPT ![p] = s]
    BY <1>1, <1>4
  <2>2. IsWalk(s) /\ s.i = n /\ s.at = r.at /\ s.asked = r.asked /\ s.lost = r.lost /\ s.after = r.after
    BY <1>1 DEF IsWalk
  <2> HIDE DEF s, paths
  <2>3. Walk(AuditHost(p), s, paths, HitsOf(p))
    BY <1>1, <1>2, <1>3, <2>2, WalkGoesBy
  <2>4. QED
    BY <1>1, <2>1, <2>2, <2>3, KnownGoesOn DEF paths
<1>5. QED
  BY <1>3, <1>4 DEF WalkExpires

LEMMA RememberKeeps ==
  ASSUME KnownInv, NEW p \in AuditPages, Remember(p) PROVE KnownInv'
<1> DEFINE r == audit[p]
           s == [r EXCEPT !.at = "over", !.known = r.known]
<1>1. /\ auditing' = auditing /\ published' = published
      /\ audit = [q \in AuditPages |-> audit[q]] /\ Walk(AuditHost(p), r, KnownPaths(auditing), HitsOf(p)) /\ IsWalk(r)
  BY DEF KnownInv, Remember, Walk
<1>2. DOMAIN facts' = DOMAIN facts \cup {AuditHost(p)}
  BY DEF Remember, HostKey
<1>3. audit' = [audit EXCEPT ![p].at = "over", ![p].known = r.known]
  BY DEF Remember, Finish
<1>4. /\ audit' = [audit EXCEPT ![p] = s] /\ IsWalk(s) /\ s.at = "over" /\ s.asked = r.asked /\ s.lost = r.lost
      /\ s.i = r.i /\ s.after = r.after
  BY <1>1, <1>3 DEF IsWalk
<1> HIDE DEF s
<1>5. Walk(AuditHost(p), s, KnownPaths(auditing), HitsOf(p))
  BY <1>1, <1>4, WalkEnds
<1>6. QED
  BY <1>1, <1>2, <1>4, <1>5, KnownGoesOn

LEMMA KnownStepKeeps == KnownInv /\ [KnownNext]_knownVars => KnownInv'
<1> SUFFICES ASSUME KnownInv, [KnownNext]_knownVars PROVE KnownInv'
  OBVIOUS
<1>1. CASE UNCHANGED knownVars
  <2>1. \A p \in AuditPages : HitsOf(p)' = HitsOf(p)
    BY <1>1 DEF knownVars, HitsOf, Recognised, Document
  <2>2. QED
    BY <1>1, <2>1 DEF knownVars, KnownInv
<1>2. QED
  BY <1>1, LookUpKeeps, AskPathKeeps, WalkExpiresKeeps, RememberKeeps DEF KnownNext, DiscoverSpec, DiscoverIssuer

LEMMA KnownInvKeepsBounds == KnownInv => KnownKeepsBounds
<1> SUFFICES ASSUME KnownInv, NEW p \in AuditPages
             PROVE  LET paths == KnownPaths(auditing) IN
                    /\ audit[p].asked # {} => audit[p].after = {}
                    /\ \A path \in audit[p].asked : AuditAllowed(AuditHost(p), path)
                    /\ \A i, j \in DOMAIN paths :
                           i < j /\ {paths[i], paths[j]} \subseteq audit[p].asked /\ paths[i] \notin audit[p].lost
                           => ~Recognised(Document(p, paths[i]))
  BY DEF KnownKeepsBounds
<1> DEFINE paths == KnownPaths(auditing)
<1>1. Walk(AuditHost(p), audit[p], paths, HitsOf(p))
  BY DEF KnownInv
<1>2. audit[p].after = {} /\ \A path \in audit[p].asked : AuditAllowed(AuditHost(p), path)
  BY <1>1 DEF Walk
<1>3. ASSUME NEW i \in DOMAIN paths, NEW j \in DOMAIN paths, i < j, {paths[i], paths[j]} \subseteq audit[p].asked,
             paths[i] \notin audit[p].lost
      PROVE  ~Recognised(Document(p, paths[i]))
  <2>1. paths[i] \notin HitsOf(p)
    BY <1>1, <1>3 DEF Walk
  <2>2. paths[i] \in WalkedPaths(auditing)
    BY DEF WalkedPaths
  <2>3. QED
    BY <2>1, <2>2 DEF HitsOf
<1>4. QED
  BY <1>2, <1>3
-----------------------------------------------------------------------------
(* The cache-poisoning check.                                              *)

\* What the pages show whoever asks, and what an entry of the cache may give away.
ShownAnyway == UNION { a.shows \cup a.echoes : a \in origin.page }
Harmless(e) ==
  /\ origin.keysQuery => \A p \in CachedPages : e.key = PageKey(p) => e.answer.shows \cup e.answer.echoes \subseteq ShownAnyway
  /\ \A p \in CachedPages : e.key = SuffixKey(p) =>
        \E q \in CachedPages : SuffixKey(q) = e.key /\ (Address(q).auth \/ Boldly)

CacheInv ==
  /\ origin \in CachedSites
  /\ \A e \in shelf : Harmless(e)
  /\ origin.keysQuery => tainted \subseteq ShownAnyway

LEMMA CacheInitially == CacheInit => CacheInv
BY DEF CacheInit, CacheInv

\* Without an extra header the application adds nothing.
LEMMA PlainAnswers ==
  ASSUME CacheInv, NEW p \in CachedPages, NEW a \in AppAnswers(p, Nothing, FALSE)
  PROVE  a.shows \cup a.echoes \subseteq ShownAnyway
<1> DEFINE marked(b) == [b EXCEPT !.shows = @ \cup {}, !.echoes = @ \cup {}]
           astray(b) == [marked(b) EXCEPT !.status = 404]
<1>1. PICK b \in origin.page : a = marked(b) \/ a = astray(b)
  BY DEF AppAnswers
<1>2. {"shows", "echoes"} \subseteq DOMAIN b
  BY CacheAssumption DEF CacheInv
<1>3. marked(b).shows = b.shows /\ marked(b).echoes = b.echoes
  BY <1>2
<1>4. astray(b).shows = marked(b).shows /\ astray(b).echoes = marked(b).echoes
  BY <1>2
<1> HIDE DEF marked, astray
<1>5. a.shows = b.shows /\ a.echoes = b.echoes
  BY <1>1, <1>3, <1>4
<1>6. QED
  BY <1>5 DEF ShownAnyway

\* The keys of pages, probes and pages with the suffix are apart.
LEMMA KeysApart ==
  ASSUME NEW p \in CachedPages, NEW q \in CachedPages, NEW header
  PROVE  /\ SuffixKey(p) # PageKey(q) /\ SuffixKey(p) # ProbeKey(q, header)
         /\ origin.keysQuery => PageKey(p) # ProbeKey(q, header)
<1>1. /\ SuffixKey(p).path = Append(Address(p).path, "css") /\ PageKey(q).path = Address(q).path
      /\ ProbeKey(q, header).path = Address(q).path
  BY DEF SuffixKey, PageKey, ProbeKey, ShelfKey
<1>2. ASSUME origin.keysQuery PROVE PageKey(p) # ProbeKey(q, header)
  <2>1. PageKey(p).query = <<Address(p).query>> /\ ProbeKey(q, header).query = <<Address(q).query, q, header>>
    BY <1>2 DEF PageKey, ProbeKey, ShelfKey, ProbeUrl
  <2>2. Len(PageKey(p).query) = 1 /\ Len(ProbeKey(q, header).query) = 3
    BY <2>1
  <2>3. QED
    BY <2>2
<1>3. QED
  BY <1>1, <1>2, CacheAssumption

LEMMA ShelfKeeps ==
  ASSUME CacheInv, origin' = origin, tainted' = tainted \/ (origin.keysQuery => tainted' \subseteq ShownAnyway),
         \A e \in shelf' : e \in shelf \/ Harmless(e)
  PROVE  CacheInv'
<1>1. /\ ShownAnyway' = ShownAnyway /\ \A p \in CachedPages : PageKey(p)' = PageKey(p) /\ SuffixKey(p)' = SuffixKey(p)
  BY DEF ShownAnyway, PageKey, SuffixKey, ShelfKey
<1>2. \A e \in shelf' : Harmless(e)
  BY DEF CacheInv
<1>3. \A e \in shelf' : Harmless(e)'
  BY <1>1, <1>2 DEF Harmless
<1>4. QED
  BY <1>1, <1>3 DEF CacheInv

\* What an exchange puts on the shelf.
LEMMA Shelved ==
  ASSUME NEW key, NEW fresh, NEW storable, NEW a, Exchange(key, fresh, storable, a), NEW e \in shelf'
  PROVE  e \in shelf \/ (a \in fresh /\ e = [key |-> key, answer |-> a])
BY DEF Exchange

LEMMA PlainExchange ==
  ASSUME CacheInv, NEW p \in CachedPages, NEW a, Exchange(PageKey(p), AppAnswers(p, Nothing, FALSE), Stores, a)
  PROVE  /\ \A e \in shelf' : e \in shelf \/ Harmless(e)
         /\ origin.keysQuery => a.shows \cup a.echoes \subseteq ShownAnyway
<1>1. ASSUME NEW e \in shelf' PROVE e \in shelf \/ Harmless(e)
  <2>1. CASE a \in AppAnswers(p, Nothing, FALSE) /\ e = [key |-> PageKey(p), answer |-> a]
    <3>1. a.shows \cup a.echoes \subseteq ShownAnyway
      BY <2>1, PlainAnswers
    <3>2. e.key = PageKey(p) /\ e.answer = a
      BY <2>1
    <3>3. \A q \in CachedPages : e.key # SuffixKey(q)
      BY <3>2, KeysApart
    <3>4. QED
      BY <3>1, <3>2, <3>3 DEF Harmless
  <2>2. QED
    BY <2>1, Shelved
<1>2. a \in AppAnswers(p, Nothing, FALSE) \/ \E e \in shelf : e.key = PageKey(p) /\ e.answer = a
  BY DEF Exchange, OnShelf
<1>3. ASSUME origin.keysQuery, NEW e \in shelf, e.key = PageKey(p), e.answer = a
      PROVE  a.shows \cup a.echoes \subseteq ShownAnyway
  BY <1>3 DEF CacheInv, Harmless
<1>4. QED
  BY <1>1, <1>2, <1>3, PlainAnswers

LEMMA ReadBaselineKeeps ==
  ASSUME CacheInv, NEW p \in CachedPages, ReadBaseline(p) PROVE CacheInv'
<1>1. PICK a : Exchange(PageKey(p), AppAnswers(p, Nothing, FALSE), Stores, a)
  BY DEF ReadBaseline
<1>2. QED
  BY <1>1, PlainExchange, ShelfKeeps DEF ReadBaseline

LEMMA VisitKeeps ==
  ASSUME CacheInv, NEW p \in CachedPages, Visit(p) PROVE CacheInv'
<1>1. PICK a : /\ Exchange(PageKey(p), AppAnswers(p, Nothing, FALSE), Stores, a)
               /\ tainted' = tainted \cup (a.shows \cup a.echoes)
  BY DEF Visit
<1>2. origin.keysQuery => tainted' \subseteq ShownAnyway
  BY <1>1, PlainExchange DEF CacheInv
<1>3. QED
  BY <1>1, <1>2, PlainExchange, ShelfKeeps DEF Visit

LEMMA ProbeHeaderKeeps ==
  ASSUME CacheInv, NEW p \in CachedPages, ProbeHeader(p) PROVE CacheInv'
<1> DEFINE header == Head(poison[p].todo).header
           extra == TRUE
<1>1. shelf' = shelf \/ \E a : Exchange(ProbeKey(p, header), AppAnswers(p, header, extra), Stores, a)
  BY Zenon DEF ProbeHeader
<1> HIDE DEF header, extra
<1>2. ASSUME NEW e \in shelf' PROVE e \in shelf \/ Harmless(e)
  <2>1. CASE shelf' = shelf
    BY <2>1
  <2>2. ASSUME NEW a, Exchange(ProbeKey(p, header), AppAnswers(p, header, extra), Stores, a), e \notin shelf
        PROVE  Harmless(e)
    <3>1. e = [key |-> ProbeKey(p, header), answer |-> a]
      BY <2>2, Shelved
    <3>2. e.key = ProbeKey(p, header)
      BY <3>1
    <3>3. \A q \in CachedPages : e.key # SuffixKey(q) /\ (origin.keysQuery => e.key # PageKey(q))
      BY <3>2, KeysApart
    <3>4. QED
      BY <3>3 DEF Harmless
  <2>3. QED
    BY <1>1, <2>1, <2>2
<1>3. QED
  BY <1>2, ShelfKeeps DEF ProbeHeader

LEMMA ProbeSuffixKeeps ==
  ASSUME CacheInv, NEW p \in CachedPages, ProbeSuffix(p) PROVE CacheInv'
<1>1. shelf' = shelf \/ \E a : Exchange(SuffixKey(p), origin.suffix, origin.stores, a)
  BY Zenon DEF ProbeSuffix
<1>2. Address(p).auth \/ Boldly
  BY DEF ProbeSuffix, Deceives
<1>3. ASSUME NEW e \in shelf' PROVE e \in shelf \/ Harmless(e)
  <2>1. CASE shelf' = shelf
    BY <2>1
  <2>2. ASSUME NEW a, Exchange(SuffixKey(p), origin.suffix, origin.stores, a), e \notin shelf PROVE Harmless(e)
    <3>1. e = [key |-> SuffixKey(p), answer |-> a]
      BY <2>2, Shelved
    <3>2. e.key = SuffixKey(p)
      BY <3>1
    <3>3. \A q \in CachedPages : e.key # PageKey(q)
      BY <3>2, KeysApart
    <3>4. QED
      BY <1>2, <3>2, <3>3 DEF Harmless
  <2>3. QED
    BY <1>1, <2>1, <2>2
<1>4. QED
  BY <1>3, ShelfKeeps DEF ProbeSuffix

LEMMA CacheStepKeeps == CacheInv /\ [CacheNext]_cacheVars => CacheInv'
<1> SUFFICES ASSUME CacheInv, [CacheNext]_cacheVars PROVE CacheInv'
  OBVIOUS
<1>1. ASSUME origin' = origin, tainted' = tainted, shelf' \subseteq shelf PROVE CacheInv'
  BY <1>1, ShelfKeeps
<1>2. ASSUME NEW p \in CachedPages, LeaveAlone(p) \/ SkipSuffix(p) \/ ReturnFindings(p) \/ Expire(p) \/ CutPoison(p)
      PROVE  CacheInv'
  BY <1>1, <1>2 DEF LeaveAlone, SkipSuffix, ReturnFindings, Expire, CutPoison
<1>3. QED
  BY <1>1, <1>2, ReadBaselineKeeps, ProbeHeaderKeeps, ProbeSuffixKeeps, VisitKeeps DEF CacheNext, CacheStep, cacheVars

LEMMA CacheInvKeepsBounds == CacheInv => CacheKeepsBounds
BY DEF CacheInv, CacheKeepsBounds, Harmless, ShownAnyway
-----------------------------------------------------------------------------
(* The checks that infer a flaw.                                           *)

ScopedSinks == {s \in AllBlindSinks : SinkInScope(s.url)}

\* What a run probes is what its page has, within the scope.
LEMMA ProbedSinksAreScoped ==
  ASSUME NEW p \in BlindPages PROVE ProbedSinks(p) \in Seq(ScopedSinks)
<1> DEFINE Q == BlindSinks(p)
           D == DOMAIN Q
           Value(h, u) == IF u = {} THEN <<>> ELSE Admit(h[u \ {Max(u)}], Q[Max(u)])
           R(h) == [u \in SUBSET D |-> Value(h, u)]
           it == CHOOSE h : h = R(h)
<1>1. ProbedSinks(p) = it[D]
  BY DEF ProbedSinks, FoldLeft, MapThenFoldSet
<1>2. Len(Q) \in Nat /\ D = 1 .. Len(Q) /\ \A i \in D : Q[i] \in AllBlindSinks
  BY BlindAssumption DEF AllBlindSinks, ToSet
<1> HIDE DEF Q
<1>3. \E h : h = R(h)
  <2> DEFINE T == {n \in Nat : \E g : \A u \in SUBSET D : u \subseteq 1 .. n => g[u] = Value(g, u)}
  <2>1. 0 \in T
    <3> DEFINE g == [u \in SUBSET D |-> <<>>]
    <3>1. \A u \in SUBSET D : u \subseteq 1 .. 0 => u = {}
      OBVIOUS
    <3>2. Value(g, {}) = <<>> /\ g[{}] = <<>>
      OBVIOUS
    <3> HIDE DEF g, Value
    <3>3. \A u \in SUBSET D : u \subseteq 1 .. 0 => g[u] = Value(g, u)
      BY <3>1, <3>2
    <3>4. QED
      BY <3>3
  <2>2. ASSUME NEW n \in T PROVE n + 1 \in T
    <3>1. PICK g : \A u \in SUBSET D : u \subseteq 1 .. n => g[u] = Value(g, u)
      OBVIOUS
    <3> DEFINE f == [u \in SUBSET D |-> Value(g, u)]
    <3>2. ASSUME NEW u \in SUBSET D, u \subseteq 1 .. n PROVE f[u] = g[u]
      BY <3>1, <3>2
    <3>3. ASSUME NEW u \in SUBSET D, u \subseteq 1 .. n + 1 PROVE f[u] = Value(f, u)
      <4>1. CASE u = {}
        BY <4>1
      <4>2. CASE u # {}
        <5>1. Max(u) \in u /\ u \ {Max(u)} \in SUBSET (1 .. n)
          BY <3>3, <4>2, WithoutGreatest
        <5>2. u \ {Max(u)} \in SUBSET D /\ u \ {Max(u)} \subseteq 1 .. n
          BY <5>1
        <5>3. f[u \ {Max(u)}] = g[u \ {Max(u)}]
          BY <3>2, <5>2
        <5>4. f[u] = Value(g, u)
          OBVIOUS
        <5> HIDE DEF f
        <5>5. QED
          BY <5>3, <5>4
      <4>3. QED
        BY <4>1, <4>2
    <3> HIDE DEF f, Value
    <3>4. \E h : \A u \in SUBSET D : u \subseteq 1 .. n + 1 => h[u] = Value(h, u)
      BY <3>3
    <3>5. QED
      BY <3>4
  <2>3. \A n \in Nat : n \in T
    <3> HIDE DEF T
    <3>1. T \in SUBSET Nat
      BY DEF T
    <3>2. QED
      BY <2>1, <2>2, <3>1, Induction
  <2>4. PICK g : \A u \in SUBSET D : u \subseteq 1 .. Len(Q) => g[u] = Value(g, u)
    BY <1>2, <2>3
  <2> DEFINE f == [u \in SUBSET D |-> Value(g, u)]
  <2>5. ASSUME NEW u \in SUBSET D PROVE Value(f, u) = Value(g, u)
    <3>1. CASE u = {}
      BY <3>1
    <3>2. CASE u # {}
      <4>1. u \ {Max(u)} \in SUBSET D /\ u \ {Max(u)} \subseteq 1 .. Len(Q)
        BY <1>2
      <4>2. f[u \ {Max(u)}] = g[u \ {Max(u)}]
        BY <2>4, <4>1
      <4> HIDE DEF f
      <4>3. QED
        BY <4>2
    <3>3. QED
      BY <3>1, <3>2
  <2>6. f = R(f)
    BY <2>5
  <2> HIDE DEF f, R
  <2>7. QED
    BY <2>6
<1>4. it = R(it)
  <2> HIDE DEF R
  <2>1. QED
    BY <1>3
<1>5. \A u \in SUBSET D : it[u] = Value(it, u)
  BY <1>4
<1> HIDE DEF it
<1> DEFINE T == {n \in Nat : \A u \in SUBSET D : u \subseteq 1 .. n => it[u] \in Seq(ScopedSinks)}
<1>6. 0 \in T
  <2>1. 1 .. 0 = {}
    OBVIOUS
  <2>2. \A u \in SUBSET D : u \subseteq 1 .. 0 => u = {}
    BY <2>1
  <2>3. it[{}] = <<>>
    <3>1. {} \in SUBSET D
      OBVIOUS
    <3>2. it[{}] = Value(it, {})
      BY <1>5, <3>1
    <3>3. QED
      BY <3>2
  <2>4. <<>> \in Seq(ScopedSinks)
    OBVIOUS
  <2>5. QED
    BY <2>2, <2>3, <2>4
<1>7. ASSUME NEW n \in T PROVE n + 1 \in T
  <2>1. ASSUME NEW u \in SUBSET D, u \subseteq 1 .. n + 1 PROVE it[u] \in Seq(ScopedSinks)
    <3>1. CASE u = {}
      BY <1>5, <3>1
    <3>2. CASE u # {}
      <4>1. Max(u) \in u /\ u \ {Max(u)} \in SUBSET (1 .. n)
        BY <2>1, <3>2, WithoutGreatest
      <4>2. it[u \ {Max(u)}] \in Seq(ScopedSinks) /\ Q[Max(u)] \in AllBlindSinks
        BY <1>2, <4>1
      <4>3. it[u] = Admit(it[u \ {Max(u)}], Q[Max(u)])
        BY <1>5, <3>2
      <4>4. QED
        BY <4>2, <4>3 DEF Admit, ScopedSinks
    <3>3. QED
      BY <3>1, <3>2
  <2>2. QED
    BY <2>1
<1>8. \A n \in Nat : n \in T
  <2> HIDE DEF T
  <2>1. T \in SUBSET Nat
    BY DEF T
  <2>2. QED
    BY <1>6, <1>7, <2>1, Induction
<1>9. QED
  BY <1>1, <1>2, <1>8

\* A run has its fields and sinks left to probe; no payload was registered for a sink out
\* of scope.
IsBlindRun(r) ==
  /\ {"at", "todo", "next", "base", "truthy", "wires", "found", "clean"} \subseteq DOMAIN r
  /\ r.todo \in Seq(ScopedSinks)
BlindInv ==
  /\ DOMAIN blind = BlindPages /\ \A p \in BlindPages : IsBlindRun(blind[p])
  /\ \A r \in registered : SinkInScope(r.sink.url)

LEMMA BlindInitially == BlindInit => BlindInv
<1> SUFFICES ASSUME BlindInit PROVE BlindInv
  OBVIOUS
<1>1. registered = {} /\ DOMAIN blind = BlindPages
  BY DEF BlindInit
<1>2. ASSUME NEW p \in BlindPages PROVE IsBlindRun(blind[p])
  <2> DEFINE clean == TRUE
  <2> HIDE DEF clean
  <2>1. blind[p] = [at |-> "base", todo |-> ProbedSinks(p), next |-> 1, base |-> <<>>, truthy |-> <<>>,
                    wires |-> {}, found |-> {}, clean |-> clean]
    BY DEF BlindInit, clean
  <2>2. QED
    BY <2>1, ProbedSinksAreScoped DEF IsBlindRun
<1>3. QED
  BY <1>1, <1>2 DEF BlindInv

\* What is done to a run leaves it one.
LEMMA BlindRunGoesOn ==
  ASSUME NEW r, IsBlindRun(r), NEW at, NEW n, NEW v
  PROVE  /\ IsBlindRun([r EXCEPT !.at = at]) /\ IsBlindRun([r EXCEPT !.next = n])
         /\ IsBlindRun([r EXCEPT !.at = at, !.next = n]) /\ IsBlindRun([r EXCEPT !.at = at, !.base = v])
         /\ IsBlindRun([r EXCEPT !.at = at, !.truthy = v]) /\ IsBlindRun([r EXCEPT !.wires = v])
         /\ IsBlindRun([r EXCEPT !.clean = v]) /\ IsBlindRun([r EXCEPT !.found = v])
         /\ [r EXCEPT !.wires = v].todo = r.todo /\ [r EXCEPT !.found = v].todo = r.todo
BY DEF IsBlindRun

LEMMA UncleanIsARun ==
  ASSUME NEW r, IsBlindRun(r) PROVE IsBlindRun(Unclean(r))
<1> DEFINE clean == FALSE
<1> HIDE DEF clean
<1>1. IsBlindRun([r EXCEPT !.clean = clean])
  BY BlindRunGoesOn
<1>2. QED
  BY <1>1 DEF Unclean, clean

LEMMA NextSinkIsARun ==
  ASSUME NEW r, IsBlindRun(r), r.todo # <<>> PROVE IsBlindRun(ToNextSink(r))
<1>1. Tail(r.todo) \in Seq(ScopedSinks)
  BY DEF IsBlindRun
<1>2. QED
  BY <1>1 DEF IsBlindRun, ToNextSink

LEMMA NextPayloadIsARun ==
  ASSUME NEW r, IsBlindRun(r), r.todo # <<>> PROVE IsBlindRun(ToNextPayload(r))
BY NextSinkIsARun, BlindRunGoesOn DEF ToNextPayload

LEMMA AddsIsARun ==
  ASSUME NEW r, IsBlindRun(r), NEW how PROVE IsBlindRun(Adds(r, how)) /\ Adds(r, how).todo = r.todo
BY BlindRunGoesOn DEF Adds

\* A step on a page gives it another run, and registers at most a payload for the sink
\* at hand.
BlindTurn(p) ==
  /\ \E run : IsBlindRun(run) /\ Sets(p, run)
  /\ \A r \in registered' \ registered : r.sink \in ScopedSinks

LEMMA MissedIsATurn ==
  ASSUME NEW p, NEW run, IsBlindRun(run), Missed(p, run), registered' = registered PROVE BlindTurn(p)
<1>1. IsBlindRun(Unclean(run)) /\ Sets(p, Unclean(run))
  BY UncleanIsARun DEF Missed
<1>2. QED
  BY <1>1 DEF BlindTurn

LEMMA SetsIsATurn ==
  ASSUME NEW p, NEW run, IsBlindRun(run), Sets(p, run), registered' = registered PROVE BlindTurn(p)
BY DEF BlindTurn

LEMMA TakeBaselineTurns ==
  ASSUME BlindInv, NEW p \in BlindPages, TakeBaseline(p) PROVE BlindTurn(p)
<1>1. IsBlindRun(blind[p]) /\ blind[p].todo # <<>> /\ registered' = registered
  BY DEF BlindInv, TakeBaseline, Stands
<1>2. CASE Sets(p, [blind[p] EXCEPT !.at = "first"])
  BY <1>1, <1>2, BlindRunGoesOn, SetsIsATurn
<1>3. CASE Missed(p, ToNextSink(blind[p]))
  BY <1>1, <1>3, NextSinkIsARun, MissedIsATurn
<1>4. ASSUME NEW t,
             Sets(p, IF Tardy(t) THEN Unclean([blind[p] EXCEPT !.at = "first", !.base = <<t>>])
                     ELSE [blind[p] EXCEPT !.at = "first", !.base = <<t>>])
      PROVE  BlindTurn(p)
  <2> DEFINE run == [blind[p] EXCEPT !.at = "first", !.base = <<t>>]
  <2>1. IsBlindRun(run)
    BY <1>1, BlindRunGoesOn
  <2> HIDE DEF run
  <2>2. IsBlindRun(Unclean(run))
    BY <2>1, UncleanIsARun
  <2>3. Sets(p, IF Tardy(t) THEN Unclean(run) ELSE run)
    BY <1>4 DEF run
  <2>4. CASE Tardy(t)
    BY <1>1, <2>2, <2>3, <2>4, SetsIsATurn
  <2>5. CASE ~Tardy(t)
    BY <1>1, <2>1, <2>3, <2>5, SetsIsATurn
  <2>6. QED
    BY <2>4, <2>5
<1>5. ASSUME NEW b, Sets(p, [blind[p] EXCEPT !.at = "first", !.base = <<b>>]) PROVE BlindTurn(p)
  BY <1>1, <1>5, BlindRunGoesOn, SetsIsATurn
<1>6. \/ Sets(p, [blind[p] EXCEPT !.at = "first"]) \/ Missed(p, ToNextSink(blind[p]))
      \/ \E t : Sets(p, IF Tardy(t) THEN Unclean([blind[p] EXCEPT !.at = "first", !.base = <<t>>])
                        ELSE [blind[p] EXCEPT !.at = "first", !.base = <<t>>])
      \/ \E b : Sets(p, [blind[p] EXCEPT !.at = "first", !.base = <<b>>])
  BY Zenon DEF TakeBaseline
<1>7. QED
  BY <1>2, <1>3, <1>4, <1>5, <1>6

LEMMA TimePayloadTurns ==
  ASSUME BlindInv, NEW p \in BlindPages, TimePayload(p) PROVE BlindTurn(p)
<1> DEFINE wire == Wire(blind[p].next, Cardinality(blind[p].wires) + 1)
           seen == [blind[p] EXCEPT !.wires = @ \cup {wire}]
<1>1. IsBlindRun(blind[p]) /\ blind[p].todo # <<>> /\ registered' = registered
  BY DEF BlindInv, TimePayload, Stands
<1>2. IsBlindRun(seen) /\ seen.todo # <<>>
  BY <1>1, BlindRunGoesOn
<1>3. \/ Missed(p, ToNextPayload(blind[p]))
      \/ Sets(p, ToNextPayload(seen)) \/ Sets(p, ToNextSink(Adds(seen, "time"))) \/ Sets(p, [seen EXCEPT !.at = "again"])
  BY DEF TimePayload
<1> HIDE DEF seen
<1>4. IsBlindRun(Adds(seen, "time")) /\ Adds(seen, "time").todo # <<>>
  BY <1>2, AddsIsARun
<1>5. IsBlindRun(ToNextPayload(seen)) /\ IsBlindRun(ToNextSink(Adds(seen, "time"))) /\ IsBlindRun([seen EXCEPT !.at = "again"])
  BY <1>2, <1>4, NextSinkIsARun, NextPayloadIsARun, BlindRunGoesOn
<1>6. QED
  BY <1>1, <1>3, <1>5, NextPayloadIsARun, SetsIsATurn, MissedIsATurn

LEMMA BooleanPairTurns ==
  ASSUME BlindInv, NEW p \in BlindPages, BooleanPair(p) PROVE BlindTurn(p)
<1>1. IsBlindRun(blind[p]) /\ blind[p].todo # <<>> /\ registered' = registered
  BY DEF BlindInv, BooleanPair, Stands
<1>2. ASSUME NEW b, Sets(p, [blind[p] EXCEPT !.at = "again", !.truthy = <<b>>]) PROVE BlindTurn(p)
  BY <1>1, <1>2, BlindRunGoesOn, SetsIsATurn
<1>3. \/ Missed(p, ToNextPayload(blind[p])) \/ Sets(p, ToNextPayload(blind[p])) \/ Sets(p, ToNextSink(Adds(blind[p], "boolean")))
      \/ \E b : Sets(p, [blind[p] EXCEPT !.at = "again", !.truthy = <<b>>])
  BY DEF BooleanPair
<1>4. IsBlindRun(Adds(blind[p], "boolean")) /\ Adds(blind[p], "boolean").todo # <<>>
  BY <1>1, AddsIsARun
<1>5. IsBlindRun(ToNextPayload(blind[p])) /\ IsBlindRun(ToNextSink(Adds(blind[p], "boolean")))
  BY <1>1, <1>4, NextSinkIsARun, NextPayloadIsARun
<1>6. QED
  BY <1>1, <1>2, <1>3, <1>5, SetsIsATurn, MissedIsATurn

LEMMA ShellPayloadTurns ==
  ASSUME BlindInv, NEW p \in BlindPages, ShellPayload(p) PROVE BlindTurn(p)
<1> DEFINE onward == [blind[p] EXCEPT !.next = @ + 1]
           done == [blind[p] EXCEPT !.at = "oob", !.next = 1]
           hit == [Adds(blind[p], "shell") EXCEPT !.at = "oob", !.next = 1]
<1>1. IsBlindRun(blind[p]) /\ blind[p].todo # <<>> /\ registered' = registered
  BY DEF BlindInv, ShellPayload, Stands
<1>2. \/ Missed(p, onward) \/ Missed(p, done) \/ Sets(p, hit) \/ Sets(p, onward) \/ Sets(p, done)
  BY DEF ShellPayload
<1>3. IsBlindRun(onward) /\ IsBlindRun(done) /\ IsBlindRun(hit)
  BY <1>1, BlindRunGoesOn, AddsIsARun
<1> HIDE DEF onward, done, hit
<1>4. QED
  BY <1>1, <1>2, <1>3, SetsIsATurn, MissedIsATurn

LEMMA RegisterPayloadTurns ==
  ASSUME BlindInv, NEW p \in BlindPages, RegisterPayload(p) PROVE BlindTurn(p)
<1> DEFINE onward == [blind[p] EXCEPT !.next = @ + 1]
<1>1. IsBlindRun(blind[p]) /\ blind[p].todo # <<>>
  BY DEF BlindInv, RegisterPayload, Stands
<1>2. IsBlindRun(onward) /\ IsBlindRun(ToNextSink(blind[p]))
  BY <1>1, BlindRunGoesOn, NextSinkIsARun
<1>3. IsBlindRun(Unclean(onward)) /\ IsBlindRun(Unclean(ToNextSink(blind[p])))
  BY <1>2, UncleanIsARun
<1>4. \/ Sets(p, onward) \/ Sets(p, Unclean(onward))
      \/ Sets(p, ToNextSink(blind[p])) \/ Sets(p, Unclean(ToNextSink(blind[p])))
  BY DEF RegisterPayload, Missed
<1>5. CurrentSink(p) \in ScopedSinks
  BY <1>1 DEF IsBlindRun, CurrentSink
<1>6. registered' = registered \cup { [page |-> p, sink |-> CurrentSink(p), payload |-> blind[p].next] }
  BY DEF RegisterPayload
<1>7. \A r \in registered' \ registered : r.sink \in ScopedSinks
  BY <1>5, <1>6
<1> HIDE DEF onward
<1>8. QED
  BY <1>2, <1>3, <1>4, <1>7 DEF BlindTurn

LEMMA BlindStepTurns ==
  ASSUME BlindInv, NEW p \in BlindPages, BlindStep(p) PROVE BlindTurn(p)
<1>1. IsBlindRun(blind[p])
  BY DEF BlindInv
<1> DEFINE over == [blind[p] EXCEPT !.at = "over"]
<1>2. IsBlindRun(over)
  BY <1>1, BlindRunGoesOn
<1>3. CASE ReturnBlind(p)
  <2>1. Sets(p, over) /\ registered' = registered
    BY <1>3 DEF ReturnBlind
  <2>2. QED
    BY <1>2, <2>1, SetsIsATurn
<1>4. CASE CutBlind(p)
  <2>1. Missed(p, over) /\ registered' = registered
    BY <1>4 DEF CutBlind
  <2>2. QED
    BY <1>2, <2>1, MissedIsATurn
<1>5. QED
  BY <1>3, <1>4, TakeBaselineTurns, TimePayloadTurns, BooleanPairTurns, ShellPayloadTurns, RegisterPayloadTurns DEF BlindStep

LEMMA BlindStepKeeps ==
  ASSUME BlindInv, [BlindNext]_blindVars PROVE BlindInv'
<1>1. ASSUME UNCHANGED <<blind, registered>> PROVE BlindInv'
  BY <1>1 DEF BlindInv
<1>2. ASSUME NEW p \in BlindPages, BlindTurn(p) PROVE BlindInv'
  <2>1. PICK run : IsBlindRun(run) /\ blind' = [blind EXCEPT ![p] = run]
    BY <1>2 DEF BlindTurn, Sets
  <2>2. DOMAIN blind' = BlindPages /\ \A q \in BlindPages : IsBlindRun(blind'[q])
    BY <2>1 DEF BlindInv
  <2>3. ASSUME NEW r \in registered' PROVE SinkInScope(r.sink.url)
    BY <1>2 DEF BlindTurn, BlindInv, ScopedSinks
  <2>4. QED
    BY <2>2, <2>3 DEF BlindInv
<1>3. QED
  BY <1>1, <1>2, BlindStepTurns DEF BlindNext, CallBack, DrainBlind, blindVars

LEMMA BlindInvKeepsBounds == BlindInv => BlindKeepsBounds
<1> SUFFICES ASSUME BlindInv PROVE BlindKeepsBounds
  OBVIOUS
<1>1. ASSUME NEW p \in BlindPages, blind[p].todo # <<>> PROVE SinkInScope(CurrentSink(p).url)
  <2>1. blind[p].todo \in Seq(ScopedSinks)
    BY DEF BlindInv, IsBlindRun
  <2>2. CurrentSink(p) \in ScopedSinks
    BY <1>1, <2>1 DEF CurrentSink
  <2>3. QED
    BY <2>2 DEF ScopedSinks
<1>2. QED
  BY <1>1 DEF BlindInv, BlindKeepsBounds
-----------------------------------------------------------------------------
(* The idor check.                                                         *)

IdValues == { in.value : in \in UNION { Range(IdInputs(p)) : p \in IdPages } }

\* A ring holds a value once and no more of them than it may.
IsRing(ring, cap) ==
  /\ ring \in Seq(IdValues) /\ Len(ring) <= cap
  /\ \A i, j \in 1 .. Len(ring) : ring[i] = ring[j] => i = j

AreRings(map, cap) == \A k \in DOMAIN map : IsRing(map[k], cap)

\* What is counted of a shape: how often it came, and under which names.
Counted(c) ==
  /\ DOMAIN c.count = DOMAIN c.sources
  /\ \A s \in DOMAIN c.count : c.count[s] \in Nat /\ IsFiniteSet(c.sources[s])

IsCorpus(c) ==
  /\ {"params", "patterns", "shapes", "count", "sources", "learned"} \subseteq DOMAIN c
  /\ AreRings(c.params, ParamCap) /\ AreRings(c.patterns, PatternCap) /\ AreRings(c.shapes, ShapeCap)
  /\ Counted(c)
  /\ c.learned \subseteq DOMAIN c.count
  /\ \A s \in c.learned : c.count[s] >= LearnSamples /\ Cardinality(c.sources[s]) >= LearnParams

\* push keeps a ring one.
LEMMA PushIsARing ==
  ASSUME NEW cap \in Nat \ {0}, NEW ring, IsRing(ring, cap), NEW v \in IdValues
  PROVE  IsRing(Push(ring, v, cap), cap)
<1>1. CASE Contains(ring, v)
  BY <1>1 DEF Push
<1>2. CASE ~Contains(ring, v)
  <2> DEFINE room == IF Len(ring) >= cap THEN Tail(ring) ELSE ring
  <2>1. ring \in Seq(IdValues) /\ Len(ring) \in Nat /\ Len(ring) <= cap
    BY DEF IsRing
  <2>2. \A i \in 1 .. Len(ring) : ring[i] # v
    BY <1>2 DEF Contains
  <2>3. room \in Seq(IdValues) /\ Len(room) + 1 <= cap /\ (\A i \in 1 .. Len(room) : room[i] # v)
        /\ \A i, j \in 1 .. Len(room) : room[i] = room[j] => i = j
    <3>1. CASE Len(ring) >= cap
      <4>1. ring # <<>> /\ room = Tail(ring)
        BY <2>1, <3>1
      <4>2. room \in Seq(IdValues) /\ Len(room) = Len(ring) - 1 /\ \A i \in 1 .. Len(room) : room[i] = ring[i + 1]
        BY <2>1, <4>1
      <4> HIDE DEF room
      <4>3. \A i, j \in 1 .. Len(room) : room[i] = room[j] => i = j
        <5>1. SUFFICES ASSUME NEW i \in 1 .. Len(room), NEW j \in 1 .. Len(room), room[i] = room[j] PROVE i = j
          OBVIOUS
        <5>2. i + 1 \in 1 .. Len(ring) /\ j + 1 \in 1 .. Len(ring) /\ ring[i + 1] = ring[j + 1]
          BY <2>1, <4>2, <5>1
        <5>3. i + 1 = j + 1
          BY <5>2 DEF IsRing
        <5>4. QED
          BY <5>3
      <4>4. \A i \in 1 .. Len(room) : room[i] # v
        <5>1. SUFFICES ASSUME NEW i \in 1 .. Len(room) PROVE room[i] # v
          OBVIOUS
        <5>2. i + 1 \in 1 .. Len(ring) /\ room[i] = ring[i + 1]
          BY <2>1, <4>2
        <5>3. QED
          BY <2>2, <5>2
      <4>5. Len(room) + 1 <= cap
        BY <2>1, <4>2
      <4>6. QED
        BY <4>2, <4>3, <4>4, <4>5
    <3>2. CASE ~(Len(ring) >= cap)
      <4>1. room = ring /\ Len(ring) + 1 <= cap
        BY <2>1, <3>2
      <4> HIDE DEF room
      <4>2. QED
        BY <2>1, <2>2, <4>1 DEF IsRing
    <3>3. QED
      BY <3>1, <3>2
  <2>4. Push(ring, v, cap) = Append(room, v)
    BY <1>2 DEF Push
  <2> HIDE DEF room
  <2>5. /\ Append(room, v) \in Seq(IdValues) /\ Len(Append(room, v)) = Len(room) + 1
        /\ \A i \in 1 .. Len(room) : Append(room, v)[i] = room[i]
        /\ Append(room, v)[Len(room) + 1] = v
    BY <2>3
  <2> DEFINE out == Append(room, v)
             n == Len(room)
  <2> HIDE DEF out, n
  <2>6. n \in Nat /\ Len(out) = n + 1 /\ out \in Seq(IdValues) /\ n + 1 <= cap /\ out[n + 1] = v
        /\ (\A i \in 1 .. n : out[i] # v) /\ \A i, j \in 1 .. n : out[i] = out[j] => i = j
    BY <2>3, <2>5 DEF out, n
  <2>7. \A i, j \in 1 .. n + 1 : out[i] = out[j] => i = j
    <3>1. SUFFICES ASSUME NEW i \in 1 .. n + 1, NEW j \in 1 .. n + 1, out[i] = out[j] PROVE i = j
      OBVIOUS
    <3>2. (i \in 1 .. n \/ i = n + 1) /\ (j \in 1 .. n \/ j = n + 1)
      BY <2>6
    <3>3. QED
      BY <2>6, <3>1, <3>2
  <2>8. IsRing(out, cap)
    BY <2>6, <2>7 DEF IsRing
  <2>9. QED
    BY <2>4, <2>8 DEF out
<1>3. QED
  BY <1>1, <1>2

\* And so does a push into one of several rings, an empty one if there was none.
LEMMA PushAtKeepsRings ==
  ASSUME NEW cap \in Nat \ {0}, NEW map, AreRings(map, cap), NEW k, NEW v \in IdValues
  PROVE  AreRings(PushAt(map, k, v, cap), cap)
<1>1. IsRing(<<>>, cap)
  BY DEF IsRing
<1>2. IsRing(At(map, k, <<>>), cap)
  BY <1>1 DEF At, AreRings
<1> DEFINE ring == Push(At(map, k, <<>>), v, cap)
<1>3. IsRing(ring, cap)
  BY <1>2, PushIsARing
<1> HIDE DEF ring
<1>4. PushAt(map, k, v, cap) = [l \in DOMAIN map \cup {k} |-> IF l = k THEN ring ELSE map[l]]
  BY DEF PushAt, Put, ring
<1>5. QED
  BY <1>3, <1>4 DEF AreRings

\* A sample more of a shape, under one more name at most.
LEMMA CountsGrow ==
  ASSUME NEW count, NEW sources, NEW s, NEW name,
         DOMAIN count = DOMAIN sources, \A t \in DOMAIN count : count[t] \in Nat /\ IsFiniteSet(sources[t])
  PROVE  LET more == Put(count, s, At(count, s, 0) + 1)
             from == Put(sources, s, At(sources, s, {}) \cup {name})
         IN  /\ DOMAIN more = DOMAIN count \cup {s} /\ DOMAIN from = DOMAIN more
             /\ \A t \in DOMAIN more : more[t] \in Nat /\ IsFiniteSet(from[t])
             /\ \A t \in DOMAIN count : more[t] >= count[t] /\ Cardinality(from[t]) >= Cardinality(sources[t])
<1> DEFINE more == Put(count, s, At(count, s, 0) + 1)
           from == Put(sources, s, At(sources, s, {}) \cup {name})
<1>1. At(count, s, 0) \in Nat /\ IsFiniteSet(At(sources, s, {}))
  BY FS_EmptySet DEF At
<1>2. IsFiniteSet(At(sources, s, {}) \cup {name})
  BY <1>1, FS_AddElement
<1>3. ASSUME s \in DOMAIN count
      PROVE  At(count, s, 0) = count[s] /\ At(sources, s, {}) = sources[s]
             /\ Cardinality(sources[s]) <= Cardinality(sources[s] \cup {name})
             /\ Cardinality(sources[s]) \in Nat /\ Cardinality(sources[s] \cup {name}) \in Nat
  <2>1. At(count, s, 0) = count[s] /\ At(sources, s, {}) = sources[s]
    BY <1>3 DEF At
  <2>2. IsFiniteSet(sources[s]) /\ IsFiniteSet(sources[s] \cup {name}) /\ sources[s] \subseteq sources[s] \cup {name}
    BY <1>2, <1>3, <2>1
  <2>3. QED
    BY <2>1, <2>2, FS_Subset, FS_CardinalityType
<1>4. /\ more = [t \in DOMAIN count \cup {s} |-> IF t = s THEN At(count, s, 0) + 1 ELSE count[t]]
      /\ from = [t \in DOMAIN count \cup {s} |-> IF t = s THEN At(sources, s, {}) \cup {name} ELSE sources[t]]
  BY DEF Put
<1> HIDE DEF more, from
<1>5. DOMAIN more = DOMAIN count \cup {s} /\ DOMAIN from = DOMAIN more
  BY <1>4
<1>6. ASSUME NEW t \in DOMAIN more PROVE more[t] \in Nat /\ IsFiniteSet(from[t])
  BY <1>1, <1>2, <1>4, <1>5
<1>7. ASSUME NEW t \in DOMAIN count PROVE more[t] >= count[t] /\ Cardinality(from[t]) >= Cardinality(sources[t])
  <2>1. CASE t = s
    <3>1. more[t] = count[t] + 1 /\ from[t] = sources[t] \cup {name}
      BY <1>3, <1>4, <2>1
    <3>2. QED
      BY <1>3, <2>1, <3>1
  <2>2. CASE t # s
    <3>1. more[t] = count[t] /\ from[t] = sources[t]
      BY <1>4, <2>2
    <3>2. Cardinality(sources[t]) \in Nat /\ count[t] \in Nat
      BY FS_CardinalityType
    <3>3. QED
      BY <3>1, <3>2
  <2>3. QED
    BY <2>1, <2>2
<1>8. QED
  BY <1>5, <1>6, <1>7 DEF more, from

\* A value more leaves the corpus one.
LEMMA IngestKeeps ==
  ASSUME NEW c, IsCorpus(c), NEW name, NEW v \in IdValues
  PROVE  IsCorpus(Ingest(c, name, v))
<1> DEFINE family == Classify(name, v, c.learned)
           params == PushAt(c.params, name, v, ParamCap)
           patterns == IF family = "none" THEN c.patterns ELSE PushAt(c.patterns, PatternKey(family, v), v, PatternCap)
           first == [c EXCEPT !.params = params, !.patterns = patterns]
           count == Put(c.count, v.shape, At(c.count, v.shape, 0) + 1)
           from == Put(c.sources, v.shape, At(c.sources, v.shape, {}) \cup {name})
           shapes == PushAt(c.shapes, v.shape, v, ShapeCap)
           grown == [first EXCEPT !.count = count, !.sources = from, !.shapes = shapes]
           taught == [grown EXCEPT !.learned = @ \cup {v.shape}]
<1>1. ParamCap \in Nat \ {0} /\ PatternCap \in Nat \ {0} /\ ShapeCap \in Nat \ {0}
  BY IdAssumption
<1>2. AreRings(params, ParamCap) /\ AreRings(patterns, PatternCap) /\ AreRings(shapes, ShapeCap)
  BY <1>1, PushAtKeepsRings DEF IsCorpus
<1>3. /\ DOMAIN count = DOMAIN c.count \cup {v.shape} /\ DOMAIN from = DOMAIN count
      /\ \A t \in DOMAIN count : count[t] \in Nat /\ IsFiniteSet(from[t])
      /\ \A t \in DOMAIN c.count : count[t] >= c.count[t] /\ Cardinality(from[t]) >= Cardinality(c.sources[t])
  BY CountsGrow DEF IsCorpus, Counted
<1>4. Ingest(c, name, v) = IF family \notin {"none", "learned"} THEN first
                           ELSE IF Promotes(grown, v.shape) THEN taught ELSE grown
  <2>1. /\ first = [c EXCEPT !.params = PushAt(@, name, v, ParamCap),
                             !.patterns = IF family = "none" THEN @ ELSE PushAt(@, PatternKey(family, v), v, PatternCap)]
        /\ grown = [first EXCEPT !.count = Put(@, v.shape, At(@, v.shape, 0) + 1),
                                 !.sources = Put(@, v.shape, At(@, v.shape, {}) \cup {name}),
                                 !.shapes = PushAt(@, v.shape, v, ShapeCap)]
    <3> HIDE DEF family
    <3>1. first.count = c.count /\ first.sources = c.sources /\ first.shapes = c.shapes
      OBVIOUS
    <3>2. QED
      BY <3>1
  <2> HIDE DEF family, grown, first
  <2>2. QED
    BY <2>1 DEF Ingest, family
<1> HIDE DEF family, params, patterns, count, from, shapes
<1>5. {"params", "patterns", "shapes", "count", "sources", "learned"} \subseteq DOMAIN c /\ c.learned \subseteq DOMAIN c.count
      /\ \A s \in c.learned : c.count[s] >= LearnSamples /\ Cardinality(c.sources[s]) >= LearnParams
  BY DEF IsCorpus
<1>6. IsCorpus(first)
  BY <1>2 DEF IsCorpus, Counted
<1>7. /\ DOMAIN first = DOMAIN c /\ first.params = params /\ first.patterns = patterns /\ first.learned = c.learned
  BY <1>5
<1> HIDE DEF first
<1>8. /\ DOMAIN grown = DOMAIN c /\ grown.params = params /\ grown.patterns = patterns /\ grown.learned = c.learned
      /\ grown.count = count /\ grown.sources = from /\ grown.shapes = shapes
  BY <1>5, <1>7
<1>9. /\ DOMAIN taught = DOMAIN c /\ taught.params = params /\ taught.patterns = patterns
      /\ taught.learned = c.learned \cup {v.shape}
      /\ taught.count = count /\ taught.sources = from /\ taught.shapes = shapes
  BY <1>5, <1>8
<1> HIDE DEF grown, taught
<1>10. ASSUME NEW s \in c.learned PROVE count[s] >= LearnSamples /\ Cardinality(from[s]) >= LearnParams
  <2>1. s \in DOMAIN c.count /\ c.count[s] \in Nat /\ IsFiniteSet(c.sources[s]) /\ count[s] \in Nat /\ IsFiniteSet(from[s])
    BY <1>3, <1>5 DEF IsCorpus, Counted
  <2>2. Cardinality(c.sources[s]) \in Nat /\ Cardinality(from[s]) \in Nat
    BY <2>1, FS_CardinalityType
  <2>3. /\ count[s] >= c.count[s] /\ Cardinality(from[s]) >= Cardinality(c.sources[s])
        /\ c.count[s] >= LearnSamples /\ Cardinality(c.sources[s]) >= LearnParams
    BY <1>3, <1>5, <2>1
  <2>4. QED
    BY <2>1, <2>2, <2>3 DEF LearnSamples, LearnParams
<1>11. IsCorpus(grown)
  BY <1>2, <1>3, <1>5, <1>8, <1>10 DEF IsCorpus, Counted
<1>12. ASSUME Promotes(grown, v.shape) PROVE IsCorpus(taught)
  <2>1. count[v.shape] >= LearnSamples /\ Cardinality(from[v.shape]) >= LearnParams
    BY <1>8, <1>12 DEF Promotes
  <2>2. \A s \in taught.learned : taught.count[s] >= LearnSamples /\ Cardinality(taught.sources[s]) >= LearnParams
    BY <1>9, <1>10, <2>1
  <2>3. taught.learned \subseteq DOMAIN taught.count
    BY <1>3, <1>5, <1>9
  <2>4. QED
    BY <1>2, <1>3, <1>5, <1>9, <2>2, <2>3 DEF IsCorpus, Counted
<1>13. QED
  BY <1>4, <1>6, <1>11, <1>12

\* A whole page leaves the corpus one.
Take(c, in) == Ingest(c, CorpusName(in), in.value)
LEMMA IngestPageKeeps ==
  ASSUME NEW p \in IdPages, NEW c, IsCorpus(c)
  PROVE  IsCorpus(FoldLeft(LAMBDA d, in : Ingest(d, CorpusName(in), in.value), c, IdInputs(p)))
<1> DEFINE Q == IdInputs(p)
           D == DOMAIN Q
           Value(h, u) == IF u = {} THEN c ELSE Take(h[u \ {Max(u)}], Q[Max(u)])
           R(h) == [u \in SUBSET D |-> Value(h, u)]
           it == CHOOSE h : h = R(h)
<1>1. FoldLeft(LAMBDA d, in : Ingest(d, CorpusName(in), in.value), c, IdInputs(p)) = it[D]
  BY DEF FoldLeft, MapThenFoldSet, Take
<1>2. Len(Q) \in Nat /\ D = 1 .. Len(Q) /\ \A i \in D : Q[i].value \in IdValues
  BY IdAssumption DEF IdValues, Range
<1> HIDE DEF Q
<1>3. \E h : h = R(h)
  <2> DEFINE T == {n \in Nat : \E g : \A u \in SUBSET D : u \subseteq 1 .. n => g[u] = Value(g, u)}
  <2>1. 0 \in T
    <3> DEFINE g == [u \in SUBSET D |-> c]
    <3>1. \A u \in SUBSET D : u \subseteq 1 .. 0 => u = {}
      OBVIOUS
    <3>2. Value(g, {}) = c /\ g[{}] = c
      OBVIOUS
    <3> HIDE DEF g, Value
    <3>3. \A u \in SUBSET D : u \subseteq 1 .. 0 => g[u] = Value(g, u)
      BY <3>1, <3>2
    <3>4. QED
      BY <3>3
  <2>2. ASSUME NEW n \in T PROVE n + 1 \in T
    <3>1. PICK g : \A u \in SUBSET D : u \subseteq 1 .. n => g[u] = Value(g, u)
      OBVIOUS
    <3> DEFINE f == [u \in SUBSET D |-> Value(g, u)]
    <3>2. ASSUME NEW u \in SUBSET D, u \subseteq 1 .. n PROVE f[u] = g[u]
      BY <3>1, <3>2
    <3>3. ASSUME NEW u \in SUBSET D, u \subseteq 1 .. n + 1 PROVE f[u] = Value(f, u)
      <4>1. CASE u = {}
        BY <4>1
      <4>2. CASE u # {}
        <5>1. Max(u) \in u /\ u \ {Max(u)} \in SUBSET (1 .. n)
          BY <3>3, <4>2, WithoutGreatest
        <5>2. u \ {Max(u)} \in SUBSET D /\ u \ {Max(u)} \subseteq 1 .. n
          BY <5>1
        <5>3. f[u \ {Max(u)}] = g[u \ {Max(u)}]
          BY <3>2, <5>2
        <5>4. f[u] = Value(g, u)
          OBVIOUS
        <5> HIDE DEF f
        <5>5. QED
          BY <5>3, <5>4
      <4>3. QED
        BY <4>1, <4>2
    <3> HIDE DEF f, Value
    <3>4. \E h : \A u \in SUBSET D : u \subseteq 1 .. n + 1 => h[u] = Value(h, u)
      BY <3>3
    <3>5. QED
      BY <3>4
  <2>3. \A n \in Nat : n \in T
    <3> HIDE DEF T
    <3>1. T \in SUBSET Nat
      BY DEF T
    <3>2. QED
      BY <2>1, <2>2, <3>1, Induction
  <2>4. PICK g : \A u \in SUBSET D : u \subseteq 1 .. Len(Q) => g[u] = Value(g, u)
    BY <1>2, <2>3
  <2> DEFINE f == [u \in SUBSET D |-> Value(g, u)]
  <2>5. ASSUME NEW u \in SUBSET D PROVE Value(f, u) = Value(g, u)
    <3>1. CASE u = {}
      BY <3>1
    <3>2. CASE u # {}
      <4>1. u \ {Max(u)} \in SUBSET D /\ u \ {Max(u)} \subseteq 1 .. Len(Q)
        BY <1>2
      <4>2. f[u \ {Max(u)}] = g[u \ {Max(u)}]
        BY <2>4, <4>1
      <4> HIDE DEF f
      <4>3. QED
        BY <4>2
    <3>3. QED
      BY <3>1, <3>2
  <2>6. f = R(f)
    BY <2>5
  <2> HIDE DEF f, R
  <2>7. QED
    BY <2>6
<1>4. it = R(it)
  <2> HIDE DEF R
  <2>1. QED
    BY <1>3
<1>5. \A u \in SUBSET D : it[u] = Value(it, u)
  BY <1>4
<1> HIDE DEF it
<1> DEFINE T == {n \in Nat : \A u \in SUBSET D : u \subseteq 1 .. n => IsCorpus(it[u])}
<1>6. 0 \in T
  <2>1. 1 .. 0 = {}
    OBVIOUS
  <2>2. \A u \in SUBSET D : u \subseteq 1 .. 0 => u = {}
    BY <2>1
  <2>3. it[{}] = c
    <3>1. {} \in SUBSET D
      OBVIOUS
    <3>2. it[{}] = Value(it, {})
      BY <1>5, <3>1
    <3>3. QED
      BY <3>2
  <2>4. QED
    BY <2>2, <2>3
<1>7. ASSUME NEW n \in T PROVE n + 1 \in T
  <2>1. ASSUME NEW u \in SUBSET D, u \subseteq 1 .. n + 1 PROVE IsCorpus(it[u])
    <3>1. CASE u = {}
      BY <1>5, <3>1
    <3>2. CASE u # {}
      <4>1. Max(u) \in u /\ u \ {Max(u)} \in SUBSET (1 .. n)
        BY <2>1, <3>2, WithoutGreatest
      <4>2. IsCorpus(it[u \ {Max(u)}]) /\ Q[Max(u)].value \in IdValues
        BY <1>2, <4>1
      <4>3. it[u] = Take(it[u \ {Max(u)}], Q[Max(u)])
        BY <1>5, <3>2
      <4>4. QED
        BY <4>2, <4>3, IngestKeeps DEF Take
    <3>3. QED
      BY <3>1, <3>2
  <2>2. QED
    BY <2>1
<1>8. \A n \in Nat : n \in T
  <2> HIDE DEF T
  <2>1. T \in SUBSET Nat
    BY DEF T
  <2>2. QED
    BY <1>6, <1>7, <2>1, Induction
<1>9. QED
  BY <1>1, <1>2, <1>8

\* Only a page that is ingested changes the corpus.
LEMMA IdInitially == IdInit => IsCorpus(corpus)
<1> SUFFICES ASSUME IdInit PROVE IsCorpus(corpus)
  OBVIOUS
<1>1. corpus = NoCorpus
  BY DEF IdInit
<1>2. DOMAIN <<>> = {}
  OBVIOUS
<1>3. QED
  BY <1>1, <1>2 DEF NoCorpus, IsCorpus, AreRings, Counted

LEMMA IdStepKeeps ==
  ASSUME IsCorpus(corpus), [IdNext]_idVars PROVE IsCorpus(corpus)'
<1>1. ASSUME NEW p \in IdPages, IngestPage(p) PROVE IsCorpus(corpus')
  BY <1>1, IngestPageKeeps DEF IngestPage
<1>2. corpus' = corpus \/ \E p \in IdPages : IngestPage(p)
  BY ZenonT(60) DEF IdNext, IdStep, Collect1, Control, Generate, RenderOne, Tamper, IdReturns, CutIds, idVars
<1>3. IsCorpus(corpus')
  BY <1>1, <1>2
<1>4. QED
  BY <1>3

LEMMA RingIsKept ==
  ASSUME NEW ring, NEW cap \in Nat \ {0}, IsRing(ring, cap) PROVE RingKept(ring, cap)
<1>1. ring \in Seq(IdValues) /\ Len(ring) \in Nat /\ DOMAIN ring = 1 .. Len(ring) /\ Len(ring) <= cap
  BY DEF IsRing
<1> DEFINE n == Len(ring)
<1>2. ring \in [1 .. n -> Range(ring)] /\ (\A x \in Range(ring) : \E i \in 1 .. n : ring[i] = x)
  BY <1>1 DEF Range
<1>3. \A i, j \in 1 .. n : ring[i] = ring[j] => i = j
  BY DEF IsRing
<1> HIDE DEF n
<1>4. ring \in Bijection(1 .. n, Range(ring))
  BY Zenon, <1>2, <1>3 DEF Bijection, Injection, Surjection, IsInjective
<1>5. ExistsBijection(1 .. n, Range(ring))
  BY <1>4 DEF ExistsBijection
<1>6. Cardinality(Range(ring)) = n
  BY <1>1, <1>5, FS_CountingElements DEF n
<1>7. QED
  BY <1>1, <1>6 DEF RingKept, n

LEMMA CorpusStaysInBounds == IsCorpus(corpus) => CorpusKeepsBounds
<1> SUFFICES ASSUME IsCorpus(corpus) PROVE CorpusKeepsBounds
  OBVIOUS
<1>1. ParamCap \in Nat \ {0} /\ PatternCap \in Nat \ {0} /\ ShapeCap \in Nat \ {0}
  BY IdAssumption
<1>2. /\ \A n \in DOMAIN corpus.params : RingKept(corpus.params[n], ParamCap)
      /\ \A f \in DOMAIN corpus.patterns : RingKept(corpus.patterns[f], PatternCap)
      /\ \A s \in DOMAIN corpus.shapes : RingKept(corpus.shapes[s], ShapeCap)
  BY <1>1, RingIsKept DEF IsCorpus, AreRings
<1>3. QED
  BY <1>2 DEF IsCorpus, CorpusKeepsBounds, LearnSamples, LearnParams
-----------------------------------------------------------------------------
(* All of them.                                                            *)

\* What holds of the checks in a run of any of them.
ProbesInv ==
  RaceInv /\ StoredInv /\ SweepInv /\ TokenInv /\ TakeoverInv /\ KnownInv /\ CacheInv /\ BlindInv /\ IsCorpus(corpus)

LEMMA ProbesInitially == Init => ProbesInv
BY RaceInitially, StoredInitially, SweepInitially, TokenInitially, TakeoverInitially, KnownInitially, CacheInitially,
   BlindInitially, IdInitially DEF Init, ProbesInv

\* A step is one of the check that runs, and leaves the state of the others alone.
ProbesStep ==
  /\ [RaceNext]_raceVars /\ [StoredNext]_storedVars /\ [SweepNext]_sweepVars /\ [TokenNext]_tokenVars
  /\ [TakeoverNext]_takeoverVars /\ [KnownNext]_knownVars /\ [CacheNext]_cacheVars /\ [BlindNext]_blindVars
  /\ [IdNext]_idVars

LEMMA StepIsOfOneProbe == [Next]_allVars => ProbesStep
<1> SUFFICES ASSUME [Next]_allVars PROVE ProbesStep
  OBVIOUS
<1>1. CASE UNCHANGED allVars
  BY Zenon, <1>1 DEF allVars, ProbesStep
<1>2. CASE Parsing \/ Racing \/ Framing \/ Planting \/ Swapping
  BY Zenon, <1>2 DEF Parsing, Racing, Framing, Planting, Swapping, ProbesStep
<1>3. CASE Forging \/ Resolving \/ Sweeping \/ Caching \/ Inferring
  BY Zenon, <1>3 DEF Forging, Resolving, Sweeping, Caching, Inferring, ProbesStep
<1>4. CASE Auditing \/ Consulting \/ Reflecting \/ Submitting
  BY Zenon, <1>4 DEF Auditing, Consulting, Reflecting, Submitting, ProbesStep
<1>5. QED
  BY Zenon, <1>1, <1>2, <1>3, <1>4 DEF Next

LEMMA ProbesStepKeeps == ProbesInv /\ [Next]_allVars => ProbesInv'
<1> SUFFICES ASSUME ProbesInv, ProbesStep PROVE ProbesInv'
  BY StepIsOfOneProbe
<1>1. RaceInv' /\ StoredInv' /\ SweepInv'
  BY RaceStepKeeps, StoredStepKeeps, SweepStepKeeps DEF ProbesInv, ProbesStep
<1>2. TokenInv' /\ TakeoverInv' /\ KnownInv'
  BY TokenStepKeeps, TakeoverStepKeeps, KnownStepKeeps DEF ProbesInv, ProbesStep
<1>3. CacheInv' /\ BlindInv' /\ IsCorpus(corpus)'
  BY CacheStepKeeps, BlindStepKeeps, IdStepKeeps DEF ProbesInv, ProbesStep
<1>4. QED
  BY <1>1, <1>2, <1>3 DEF ProbesInv

\* No check oversteps its bounds on its way: a target is burst from one page, and no last
\* byte goes before all are held (race-condition); an input is planted from one page, in
\* scope (stored-xss); the corpus keeps to its caps and learns a shape only from enough
\* samples (idor); a token is judged on one page, and asked about at its own origin
\* (jwt-vulns); a host out of scope or of a provider is not asked, any other at most twice
\* by each run that found no verdict (subdomain-takeover); a root is swept from one page, in
\* scope (content-discovery); a cache that tells queries apart serves nobody a canary, and
\* only paths of accounts get the suffix (cache-poisoning); no payload is registered for a
\* sink out of scope (the blind checks); and a walk ends at the first document it
\* recognises, and is not begun once another of the host is done (the well-known
\* documents).
THEOREM ProbesKeepTheirBounds == Spec => []ProbesKeepBounds
<1>1. Init => ProbesInv
  BY ProbesInitially
<1>2. ProbesInv /\ [Next]_allVars => ProbesInv'
  BY ProbesStepKeeps
<1>3. ProbesInv => ProbesKeepBounds
  BY RaceInvKeepsBounds, StoredInvKeepsBounds, SweepInvKeepsBounds, TokenInvKeepsBounds, TakeoverInvKeepsBounds,
     KnownInvKeepsBounds, CacheInvKeepsBounds, BlindInvKeepsBounds, CorpusStaysInBounds DEF ProbesInv, ProbesKeepBounds, During
<1>4. QED
  BY <1>1, <1>2, <1>3, PTL DEF Spec
-----------------------------------------------------------------------------
(* A burst that differs is of a target that is racy.                       *)

\* What the connections of a burst were told, as far as they were answered.
Told(x) ==
  \A c \in Conns : x.conn[c] = "answered" =>
    /\ behind[x.target.url] = "steady" => x.status[c] = 200
    /\ behind[x.target.url] = "oneshot" => x.status[c] = 409

\* The one shot of a target is gone before its burst.
RaceTrue ==
  /\ \A p \in RacePages :
        /\ race[p].at = "burst" => Told(race[p]) /\ race[p].target.url \in served
        /\ \A f \in race[p].facts : Told(f)
  /\ RaceEarned

LEMMA RaceTrueAtFirst == RaceInit => RaceTrue
BY DEF RaceInit, RaceTrue, Unbegun, RaceEarned

LEMMA RaceTrueGoesOn ==
  ASSUME RaceInv, RaceTrue, NEW p \in RacePages, \A q \in RacePages : q # p => race'[q] = race[q],
         behind' = behind, served \subseteq served', raced' = raced,
         race'[p].at = "burst" => Told(race'[p]) /\ race'[p].target.url \in served',
         \A f \in race'[p].facts : Told(f)
  PROVE  RaceTrue'
<1>1. \A x : Told(x)' <=> Told(x)
  BY DEF Told
<1>2. ASSUME NEW q \in RacePages, race'[q].at = "burst" PROVE Told(race'[q]) /\ race'[q].target.url \in served'
  BY <1>2 DEF RaceTrue
<1>3. ASSUME NEW q \in RacePages, NEW f \in race'[q].facts PROVE Told(f)
  BY <1>3 DEF RaceTrue
<1>4. RaceEarned'
  BY DEF RaceTrue, RaceEarned
<1>5. ASSUME NEW q \in RacePages, race'[q].at = "burst" PROVE Told(race[q])'
  BY <1>2, <1>5 DEF Told
<1>6. ASSUME NEW q \in RacePages, NEW f \in race'[q].facts PROVE Told(f)'
  BY <1>3, <1>6 DEF Told
<1>7. QED
  BY <1>2, <1>4, <1>5, <1>6 DEF RaceTrue

\* A step after which the run stands as it stood, but for its connections, none of which
\* was answered now.
LEMMA NobodyIsTold ==
  ASSUME RaceInv, RaceTrue, NEW p \in RacePages, \A q \in RacePages : q # p => race'[q] = race[q],
         behind' = behind, served \subseteq served', raced' = raced,
         race'[p].at = "burst" => race[p].at = "burst",
         race'[p].at = "burst" => race'[p].target = race[p].target /\ race'[p].status = race[p].status,
         \A c \in Conns : race'[p].conn[c] = "answered" => race[p].conn[c] = "answered",
         race'[p].facts = race[p].facts
  PROVE  RaceTrue'
<1>1. ASSUME race'[p].at = "burst" PROVE Told(race'[p]) /\ race'[p].target.url \in served'
  <2>1. Told(race[p]) /\ race[p].target.url \in served
    BY <1>1 DEF RaceTrue
  <2>2. QED
    BY <1>1, <2>1 DEF Told
<1>2. \A f \in race'[p].facts : Told(f)
  BY DEF RaceTrue
<1>3. QED
  BY <1>1, <1>2, RaceTrueGoesOn

LEMMA BeforeTheBurstIsTrue ==
  ASSUME RaceInv, RaceTrue, NEW p \in RacePages, Choose(p) \/ SendOne(p) PROVE RaceTrue'
<1>1. race \in [RacePages -> RaceRuns] /\ race[p] \in RaceRuns
  BY DEF RaceInv, RaceTypeOK
<1>2. CASE Choose(p)
  <2>1. PICK t : \/ race' = [race EXCEPT ![p].todo = @ \ {t}]
                 \/ race' = [race EXCEPT ![p].todo = @ \ {t}, ![p].probed = @ + 1, ![p].target = t, ![p].at = "alone"]
    BY <1>2 DEF Choose
  <2>2. /\ \A q \in RacePages : q # p => race'[q] = race[q]
        /\ race'[p].at \in {"alone", race[p].at} /\ race'[p].conn = race[p].conn /\ race'[p].facts = race[p].facts
    BY <1>1, <2>1 DEF RaceRuns
  <2>3. race[p].at = "choosing" /\ behind' = behind /\ served' = served /\ raced' = raced
    BY <1>2 DEF Choose
  <2>4. QED
    BY <2>2, <2>3, NobodyIsTold
<1>3. CASE SendOne(p)
  <2>1. /\ behind' = behind /\ served \subseteq served' /\ raced' = raced /\ \A f \in race[p].facts : Told(f)
    BY <1>3 DEF SendOne, RaceTrue
  <2>2. CASE /\ race' = [race EXCEPT ![p].at = "burst", ![p].conn = [c \in Conns |-> "dialing"]]
             /\ served' = served \cup {race[p].target.url}
    <3>1. /\ \A q \in RacePages : q # p => race'[q] = race[q]
          /\ race'[p].conn = [c \in Conns |-> "dialing"] /\ race'[p].facts = race[p].facts
          /\ race'[p].target = race[p].target
      BY <1>1, <2>2 DEF RaceRuns
    <3>2. Told(race'[p])
      BY <3>1 DEF Told
    <3>3. race'[p].target.url \in served'
      BY <2>2, <3>1
    <3>4. QED
      BY <2>1, <3>1, <3>2, <3>3, RaceTrueGoesOn
  <2>3. CASE race' = [race EXCEPT ![p].at = "choosing"]
    <3>1. /\ \A q \in RacePages : q # p => race'[q] = race[q]
          /\ race'[p].at = "choosing" /\ race'[p].facts = race[p].facts
      BY <1>1, <2>3 DEF RaceRuns
    <3>2. QED
      BY <2>1, <3>1, RaceTrueGoesOn
  <2>4. QED
    BY <1>3, <2>2, <2>3 DEF SendOne
<1>4. QED
  BY <1>2, <1>3

LEMMA AtTheBarrierIsTrue ==
  ASSUME RaceInv, RaceTrue, NEW p \in RacePages, NEW c,
         (c \in Conns /\ (Hold(p, c) \/ LastByte(p, c))) \/ Collect(p) \/ GiveUp(p) \/ CutShort(p)
  PROVE  RaceTrue'
<1>1. race \in [RacePages -> RaceRuns] /\ race[p] \in RaceRuns
  BY DEF RaceInv, RaceTypeOK
<1>2. /\ \A q \in RacePages : q # p => race'[q] = race[q]
      /\ race'[p].at = race[p].at /\ race'[p].target = race[p].target /\ race'[p].status = race[p].status
      /\ race'[p].facts = race[p].facts
  BY <1>1 DEF Hold, LastByte, Collect, GiveUp, CutShort, RaceRuns
<1>3. \A d \in Conns : race'[p].conn[d] = "answered" => race[p].conn[d] = "answered"
  <2>1. CASE c \in Conns /\ (Hold(p, c) \/ LastByte(p, c))
    <3>1. \/ race'[p].conn = [race[p].conn EXCEPT ![c] = "holding"]
          \/ race'[p].conn = [race[p].conn EXCEPT ![c] = "out"]
          \/ race'[p].conn = [race[p].conn EXCEPT ![c] = "sent"]
      <4>1. CASE Hold(p, c)
        BY <1>1, <4>1 DEF Hold, RaceRuns
      <4>2. CASE LastByte(p, c)
        BY <1>1, <4>2 DEF LastByte, RaceRuns
      <4>3. QED
        BY <2>1, <4>1, <4>2
    <3>2. QED
      BY <1>1, <2>1, <3>1 DEF RaceRuns
  <2>2. CASE Collect(p) \/ GiveUp(p) \/ CutShort(p)
    BY <1>1, <2>2 DEF Collect, GiveUp, CutShort, RaceRuns
  <2>3. QED
    BY <2>1, <2>2
<1>4. behind' = behind /\ served' = served /\ raced' = raced
  BY DEF Hold, LastByte, Collect, GiveUp, CutShort
<1>5. QED
  BY <1>2, <1>3, <1>4, NobodyIsTold

LEMMA AnswerIsTrue ==
  ASSUME RaceInv, RaceTrue, NEW p \in RacePages, NEW c \in Conns, Answer(p, c) PROVE RaceTrue'
<1>1. race \in [RacePages -> RaceRuns] /\ race[p] \in RaceRuns /\ race[p].conn \in [Conns -> ConnStates]
      /\ race[p].status \in [Conns -> Codes]
  BY DEF RaceInv, RaceTypeOK, RaceRuns
<1>2. /\ behind' = behind /\ served \subseteq served' /\ raced' = raced /\ race[p].conn[c] = "sent"
      /\ \A f \in race[p].facts : Told(f)
  BY DEF Answer, RaceTrue
<1>3. Told(race[p]) /\ race[p].target.url \in served
  <2>1. Barrier(race[p])
    BY DEF RaceInv, RaceRunsOK
  <2>2. race[p].at = "burst"
    BY <1>2, <2>1 DEF Barrier, AtRest, Unused
  <2>3. QED
    BY <2>2 DEF RaceTrue
<1>4. ASSUME NEW s \in Answers(race[p].target.url), race' = [race EXCEPT ![p].conn[c] = "answered", ![p].status[c] = s]
      PROVE  RaceTrue'
  <2>1. /\ \A q \in RacePages : q # p => race'[q] = race[q]
        /\ race'[p].conn = [race[p].conn EXCEPT ![c] = "answered"] /\ race'[p].status = [race[p].status EXCEPT ![c] = s]
        /\ race'[p].target = race[p].target /\ race'[p].facts = race[p].facts
    BY <1>1, <1>4 DEF RaceRuns
  <2>2. /\ behind[race[p].target.url] = "steady" => s = 200
        /\ behind[race[p].target.url] = "oneshot" => s = 409
    BY <1>3, <1>4 DEF Answers
  <2>3. Told(race'[p])
    BY <1>1, <1>3, <2>1, <2>2 DEF Told
  <2>4. QED
    BY <1>2, <1>3, <2>1, <2>3, RaceTrueGoesOn
<1>5. CASE race' = [race EXCEPT ![p].conn[c] = "out"]
  <2>1. /\ \A q \in RacePages : q # p => race'[q] = race[q]
        /\ race'[p].at = race[p].at /\ race'[p].target = race[p].target /\ race'[p].status = race[p].status
        /\ race'[p].facts = race[p].facts /\ race'[p].conn = [race[p].conn EXCEPT ![c] = "out"]
    BY <1>1, <1>5 DEF RaceRuns
  <2>2. \A d \in Conns : race'[p].conn[d] = "answered" => race[p].conn[d] = "answered"
    BY <1>1, <2>1
  <2>3. QED
    BY <1>2, <2>1, <2>2, NobodyIsTold
<1>6. QED
  BY <1>4, <1>5 DEF Answer

LEMMA BurstEndsTrue ==
  ASSUME RaceInv, RaceTrue, NEW p \in RacePages, BurstEnds(p) PROVE RaceTrue'
<1> DEFINE fact == [target |-> race[p].target, conn |-> race[p].conn, status |-> race[p].status]
<1>1. race \in [RacePages -> RaceRuns]
  BY DEF RaceInv, RaceTypeOK
<1>2. Told(fact)
  BY DEF BurstEnds, RaceTrue, Told
<1>3. /\ \A q \in RacePages : q # p => race'[q] = race[q]
      /\ race'[p].at = "choosing" /\ race'[p].facts = race[p].facts \cup {fact}
  BY <1>1 DEF BurstEnds, Unbegun
<1>4. \A f \in race[p].facts : Told(f)
  BY DEF RaceTrue
<1> HIDE DEF fact
<1>5. QED
  BY <1>2, <1>3, <1>4, RaceTrueGoesOn DEF BurstEnds

\* Answers that are all alike do not differ.
LEMMA DifferingIsRacy ==
  ASSUME RaceTypeOK, NEW fact \in Bursts, Told(fact), Varies(fact) PROVE behind[fact.target.url] = "racy"
<1>1. behind[fact.target.url] \in {"steady", "oneshot", "racy"}
  BY DEF RaceTypeOK, Bursts, RaceUrls
<1>2. ASSUME NEW code, Statuses(fact) \subseteq {code} PROVE FALSE
  <2>1. IsFiniteSet({code}) /\ Cardinality({code}) = 1
    BY FS_Singleton
  <2>2. Cardinality(Statuses(fact)) <= 1 /\ Cardinality(Statuses(fact)) \in Nat
    BY <1>2, <2>1, FS_Subset, FS_CardinalityType
  <2>3. QED
    BY <2>2 DEF Varies
<1>3. behind[fact.target.url] = "steady" => Statuses(fact) \subseteq {200}
  BY DEF Told, Statuses, Complete
<1>4. behind[fact.target.url] = "oneshot" => Statuses(fact) \subseteq {409}
  BY DEF Told, Statuses, Complete
<1>5. QED
  BY <1>1, <1>2, <1>3, <1>4

LEMMA ReportsAreTrue ==
  ASSUME RaceInv, RaceTrue, NEW p \in RacePages, ReportRaces(p) PROVE RaceTrue'
<1>1. race \in [RacePages -> RaceRuns] /\ RaceTypeOK /\ race[p].facts \in SUBSET Bursts
  BY DEF RaceInv, RaceTypeOK, RaceRuns
<1>2. /\ \A q \in RacePages : q # p => race'[q] = race[q]
      /\ race'[p].at = "over" /\ race'[p].facts \subseteq race[p].facts /\ behind' = behind /\ served' = served
  BY <1>1 DEF ReportRaces, Unbegun
<1>3. \A f \in race[p].facts : Told(f)
  BY DEF RaceTrue
<1>4. ASSUME NEW t \in raced' PROVE behind[t.url] = "racy"
  <2>1. CASE t \in raced
    BY <2>1 DEF RaceTrue, RaceEarned
  <2>2. CASE t \notin raced
    <3>1. PICK f \in race[p].facts : Varies(f) /\ t = f.target
      BY <2>2 DEF ReportRaces
    <3>2. QED
      BY <1>1, <1>3, <3>1, DifferingIsRacy
  <2>3. QED
    BY <2>1, <2>2
<1>5. RaceEarned'
  BY <1>2, <1>4 DEF RaceEarned
<1>6. \A q \in RacePages : race'[q].at = "burst" => race'[q] = race[q]
  BY <1>2
<1>7. \A q \in RacePages : race'[q].facts \subseteq race[q].facts
  BY <1>2
<1>8. QED
  BY <1>2, <1>5, <1>6, <1>7 DEF RaceTrue, Told

LEMMA RaceStaysTrue == RaceInv /\ RaceTrue /\ [RaceNext]_raceVars => RaceTrue'
<1> SUFFICES ASSUME RaceInv, RaceTrue, [RaceNext]_raceVars PROVE RaceTrue'
  OBVIOUS
<1>1. CASE UNCHANGED raceVars
  BY <1>1 DEF raceVars, RaceTrue, RaceEarned, Told
<1>2. ASSUME NEW p \in RacePages, Choose(p) \/ SendOne(p) \/ BurstEnds(p) \/ ReportRaces(p) PROVE RaceTrue'
  BY <1>2, BeforeTheBurstIsTrue, BurstEndsTrue, ReportsAreTrue
<1>3. ASSUME NEW p \in RacePages, NEW c \in Conns, Hold(p, c) \/ LastByte(p, c) \/ Answer(p, c) PROVE RaceTrue'
  BY <1>3, AtTheBarrierIsTrue, AnswerIsTrue
<1>4. ASSUME NEW p \in RacePages, Collect(p) \/ GiveUp(p) \/ CutShort(p) PROVE RaceTrue'
  <2>1. \A c : RaceTrue'
    BY <1>4, AtTheBarrierIsTrue
  <2>2. QED
    BY <2>1
<1>5. QED
  BY <1>1, <1>2, <1>3, <1>4 DEF RaceNext, RaceStep

-----------------------------------------------------------------------------
(* An input is reported once, where one of its payloads came through.      *)

IsDetect(r) == {"at", "look", "due", "found", "cut"} \subseteq DOMAIN r

\* What is reported, or about to be.
StoredClaims == storedFound \cup UNION { detect[v].found : v \in ViewPages }

StoredTrue ==
  /\ detect = [v \in ViewPages |-> detect[v]] /\ \A v \in ViewPages : IsDetect(detect[v])
  /\ \A v \in ViewPages : \A t \in detect[v].look : v \in ShownOn(t[2])
  /\ \A f \in StoredClaims : f[1] \in detectFired /\ f[2] \in ShownOn(f[1]) /\ intact[f[1]] # {}
  /\ \A f, g \in StoredClaims : f[1] = g[1] => f = g

LEMMA StoredTrueAtFirst == StoredInit => StoredTrue
<1> SUFFICES ASSUME StoredInit PROVE StoredTrue
  OBVIOUS
<1>1. StoredClaims = {}
  BY DEF StoredInit, StoredClaims
<1>2. QED
  BY <1>1 DEF StoredInit, StoredTrue, IsDetect

\* A step that reports nothing new.
LEMMA NothingIsClaimed ==
  ASSUME StoredTrue, NEW v \in ViewPages, IsDetect(detect'[v]), \A w \in ViewPages : w # v => detect'[w] = detect[w],
         detect' = [w \in ViewPages |-> detect'[w]], \A t \in detect'[v].look : v \in ShownOn(t[2]),
         detectFired' = detectFired, intact' = intact, StoredClaims' \subseteq StoredClaims
  PROVE  StoredTrue'
BY DEF StoredTrue

LEMMA LookAtIsTrue == ASSUME StoredTrue, NEW v \in ViewPages, LookAt(v) PROVE StoredTrue'
<1>1. PICK t \in detect[v].look :
        LET fires == t \in canaries /\ RoundTripped(t) /\ t[2] \notin detectFired
        IN  /\ detect' = [detect EXCEPT ![v].look = @ \ {t},
                             ![v].found = IF fires THEN @ \cup { <<t[2], v>> } ELSE @]
            /\ detectFired' = IF fires THEN detectFired \cup {t[2]} ELSE detectFired
  BY DEF LookAt
<1>2. /\ intact' = intact /\ storedFound' = storedFound /\ v \in ShownOn(t[2]) /\ IsDetect(detect[v])
      /\ detect = [w \in ViewPages |-> detect[w]]
  BY DEF LookAt, StoredTrue
<1>3. /\ \A w \in ViewPages : w # v => detect'[w] = detect[w]
      /\ detect' = [w \in ViewPages |-> detect'[w]] /\ IsDetect(detect'[v]) /\ detect'[v].look = detect[v].look \ {t}
  BY <1>1, <1>2 DEF IsDetect
<1>4. \A u \in detect'[v].look : v \in ShownOn(u[2])
  BY <1>3 DEF StoredTrue
<1>5. CASE RoundTripped(t) /\ t[2] \notin detectFired /\ detectFired' = detectFired \cup {t[2]}
           /\ detect' = [detect EXCEPT ![v].look = @ \ {t}, ![v].found = @ \cup { <<t[2], v>> }]
  <2> DEFINE new == <<t[2], v>>
  <2>4. new[1] = t[2] /\ new[2] = v
    OBVIOUS
  <2> HIDE DEF new
  <2>1. detect'[v].found = detect[v].found \cup {new}
    BY <1>2, <1>5 DEF IsDetect, new
  <2>2. StoredClaims' \subseteq StoredClaims \cup {new}
    BY <1>2, <1>3, <2>1 DEF StoredClaims
  <2>3. intact[t[2]] # {}
    BY <1>5 DEF RoundTripped, Intact
  <2>5. ASSUME NEW f \in StoredClaims' PROVE f[1] \in detectFired' /\ f[2] \in ShownOn(f[1]) /\ intact'[f[1]] # {}
    BY <1>2, <1>5, <2>2, <2>3, <2>4, <2>5 DEF StoredTrue
  <2>6. ASSUME NEW f \in StoredClaims', NEW g \in StoredClaims', f[1] = g[1] PROVE f = g
    BY <1>5, <2>2, <2>4, <2>6 DEF StoredTrue
  <2>7. \A w \in ViewPages : IsDetect(detect'[w]) /\ \A u \in detect'[w].look : w \in ShownOn(u[2])
    BY <1>3, <1>4 DEF StoredTrue
  <2>8. QED
    BY <1>3, <2>5, <2>6, <2>7 DEF StoredTrue
<1>6. CASE detectFired' = detectFired /\ detect' = [detect EXCEPT ![v].look = @ \ {t}, ![v].found = @]
  <2>1. detect'[v].found = detect[v].found
    BY <1>2, <1>6 DEF IsDetect
  <2>2. StoredClaims' \subseteq StoredClaims
    BY <1>2, <1>3, <2>1 DEF StoredClaims
  <2>3. QED
    BY <1>2, <1>3, <1>4, <1>6, <2>2, NothingIsClaimed
<1>7. QED
  BY Zenon, <1>1, <1>5, <1>6

LEMMA DetectIsTrue ==
  ASSUME StoredTrue, NEW v \in ViewPages, BeginDetect(v) \/ DetectReturns(v) \/ CutDetect(v) PROVE StoredTrue'
<1>1. /\ detectFired' = detectFired /\ intact' = intact /\ detect = [w \in ViewPages |-> detect[w]] /\ IsDetect(detect[v])
      /\ \A t \in detect[v].look : v \in ShownOn(t[2])
  BY DEF BeginDetect, DetectReturns, CutDetect, StoredTrue
<1>2. /\ \A w \in ViewPages : w # v => detect'[w] = detect[w]
      /\ detect' = [w \in ViewPages |-> detect'[w]] /\ IsDetect(detect'[v])
  BY <1>1 DEF BeginDetect, DetectReturns, CutDetect, IsDetect
<1>3. CASE BeginDetect(v)
  <2>1. detect'[v].look = Body(v) /\ detect'[v].found = detect[v].found /\ storedFound' = storedFound
    BY <1>1, <1>3 DEF BeginDetect, IsDetect
  <2>2. StoredClaims' \subseteq StoredClaims
    BY <1>2, <2>1 DEF StoredClaims
  <2>3. \A t \in detect'[v].look : v \in ShownOn(t[2])
    BY <2>1 DEF Body
  <2>4. QED
    BY <1>1, <1>2, <2>2, <2>3, NothingIsClaimed
<1>4. CASE DetectReturns(v)
  <2>1. detect'[v].look = {} /\ detect'[v].found = {} /\ storedFound' \subseteq storedFound \cup detect[v].found
    BY <1>1, <1>4 DEF DetectReturns, IsDetect
  <2>2. StoredClaims' \subseteq StoredClaims
    BY <1>2, <2>1 DEF StoredClaims
  <2>3. QED
    BY <1>1, <1>2, <2>1, <2>2, NothingIsClaimed
<1>5. CASE CutDetect(v)
  <2>1. detect'[v].look = detect[v].look /\ detect'[v].found = detect[v].found /\ storedFound' = storedFound
    BY <1>1, <1>5 DEF CutDetect, IsDetect
  <2>2. StoredClaims' \subseteq StoredClaims
    BY <1>2, <2>1 DEF StoredClaims
  <2>3. QED
    BY <1>1, <1>2, <2>1, <2>2, NothingIsClaimed
<1>6. QED
  BY <1>3, <1>4, <1>5

LEMMA StoredStaysTrue == StoredTrue /\ [StoredNext]_storedVars => StoredTrue'
<1> SUFFICES ASSUME StoredTrue, [StoredNext]_storedVars PROVE StoredTrue'
  OBVIOUS
<1>1. ASSUME UNCHANGED <<detect, detectFired, intact, storedFound>> PROVE StoredTrue'
  <2>1. StoredClaims' = StoredClaims
    BY <1>1 DEF StoredClaims
  <2>2. QED
    BY <1>1, <2>1 DEF StoredTrue
<1>2. ASSUME NEW p \in FormPages, ChooseSink(p) \/ SendPayload(p) \/ SinkPlanted(p) \/ PlantReturns(p)
      PROVE  UNCHANGED <<detect, detectFired, intact, storedFound>>
  BY <1>2 DEF ChooseSink, SendPayload, SinkPlanted, PlantReturns
<1>3. QED
  BY <1>1, <1>2, LookAtIsTrue, DetectIsTrue DEF StoredNext, storedVars

LEMMA StoredTrueIsEarned == StoredTrue => StoredEarned
BY DEF StoredTrue, StoredEarned, StoredClaims

-----------------------------------------------------------------------------
(* What is told of a host is what its document says.                       *)

AreOffered(host, known) == \A i \in DOMAIN known : known[i] \in Offered(host)

KnownTrue ==
  /\ \A p \in AuditPages : AreOffered(AuditHost(p), audit[p].known)
  /\ \A h \in DOMAIN facts : AreOffered(h, facts[h])
  /\ KnownEarned

LEMMA KnownTrueAtFirst == KnownInit => KnownTrue
<1> SUFFICES ASSUME KnownInit PROVE KnownTrue
  OBVIOUS
<1>1. DOMAIN <<>> = {}
  OBVIOUS
<1>2. facts = <<>> /\ audited = {} /\ \A p \in AuditPages : audit[p].known = <<>>
  BY Zenon DEF KnownInit
<1>3. QED
  BY <1>1, <1>2 DEF KnownTrue, AreOffered, KnownEarned

\* What a walk recognises in scope is offered.
LEMMA RecognisedIsOffered ==
  ASSUME NEW p, NEW path, AuditAllowed(AuditHost(p), path), Recognised(Document(p, path))
  PROVE  Document(p, path) \in Offered(AuditHost(p))
<1> DEFINE has == published[AuditHost(p)]
<1>1. Document(p, path).status = 200
  BY DEF Recognised, LooksLikeOpenAPIDoc, IsMetadata
<1>2. Nowhere.status # 200
  BY DEF Nowhere
<1>3. path \in DOMAIN has /\ Document(p, path) = has[path]
  BY <1>1, <1>2 DEF Document
<1>4. IF auditing = "openapi" THEN has[path].marked ELSE has[path].issuer
  BY <1>3 DEF Recognised, LooksLikeOpenAPIDoc, IsMetadata
<1>5. QED
  BY <1>1, <1>3, <1>4 DEF Offered

\* An operation without a duty to authenticate is open, and the types that the check looks
\* for come in the fragment.
LEMMA SaidIsSo ==
  ASSUME NEW p, NEW known, AreOffered(AuditHost(p), known), NEW f \in SaidOf(p, known)
  PROVE  \E doc \in Offered(AuditHost(f.page)) :
           IF auditing = "openapi"
           THEN f.what \in { <<h>> : h \in doc.holds }
                \/ (doc.schemes /\ \E op \in doc.ops : f.what = <<op.method, op.path>> /\ OpenTo(doc, op))
           ELSE f.what = <<"implicit-flow">> => InFragment(doc.types) # {}
<1>1. PICK i \in DOMAIN known :
        \E w \in IF auditing = "openapi" THEN AuditSpec(known[i]) ELSE AuditMetadata(known[i]) : f = [page |-> p, what |-> w]
  BY DEF SaidOf
<1> DEFINE doc == known[i]
<1>2. doc \in Offered(AuditHost(p))
  BY DEF AreOffered
<1>3. PICK w : w \in (IF auditing = "openapi" THEN AuditSpec(doc) ELSE AuditMetadata(doc)) /\ f = [page |-> p, what |-> w]
  BY <1>1
<1>4. f.page = p /\ f.what = w
  BY <1>3
<1> HIDE DEF doc
<1>5. ASSUME auditing = "openapi", w \notin { <<h>> : h \in doc.holds }
      PROVE  doc.schemes /\ \E op \in doc.ops : w = <<op.method, op.path>> /\ OpenTo(doc, op)
  <2>1. w \in { <<op.method, op.path>> : op \in AuthlessOperations(doc) }
    BY <1>3, <1>5 DEF AuditSpec
  <2>2. PICK op \in AuthlessOperations(doc) : w = <<op.method, op.path>>
    BY <2>1
  <2>3. doc.schemes /\ op \in doc.ops /\ ~Authed(doc, op)
    BY <2>2 DEF AuthlessOperations
  <2>4. ASSUME NEW duties, ~RequirementIsAuthenticated(duties) PROVE duties = {} \/ {} \in duties
    BY <2>4 DEF RequirementIsAuthenticated
  <2>5. OpenTo(doc, op)
    BY <2>3, <2>4 DEF OpenTo, Authed
  <2>6. QED
    BY <2>2, <2>3, <2>5
<1>6. ASSUME auditing # "openapi", w = <<"implicit-flow">> PROVE InFragment(doc.types) # {}
  <2>1. w \in AuditMetadata(doc)
    BY <1>3, <1>6
  <2>2. ImplicitFlowTypes(doc.types) # {}
    BY <1>6, <2>1 DEF AuditMetadata
  <2>3. PICK t \in doc.types : t = {"token"} \/ t = {"id_token"} \/ t = {"token", "id_token"}
    BY <2>2 DEF ImplicitFlowTypes
  <2>4. "code" \notin t /\ t \cap {"token", "id_token"} # {}
    BY <2>3
  <2>5. QED
    BY <2>4 DEF InFragment
<1>7. QED
  BY <1>2, <1>4, <1>5, <1>6

LEMMA FinishIsTrue ==
  ASSUME KnownInv, KnownTrue, NEW p \in AuditPages, NEW known, AreOffered(AuditHost(p), known), Finish(p, known),
         auditing' = auditing, published' = published, \A h \in DOMAIN facts' : AreOffered(h, facts'[h])
  PROVE  KnownTrue'
<1>1. \A h, k : AreOffered(h, k)' <=> \A i \in DOMAIN k : k[i] \in Offered(h)
  BY DEF AreOffered, Offered
<1>2. \A h, k : AreOffered(h, k)' <=> AreOffered(h, k)
  BY <1>1 DEF AreOffered
<1>3. \A q \in AuditPages : audit'[q].known = IF q = p THEN known ELSE audit[q].known
  BY DEF Finish, KnownInv, Walk, IsWalk
<1>4. \A q \in AuditPages : AreOffered(AuditHost(q), audit'[q].known)
  BY <1>3 DEF KnownTrue
<1>5. audited' = audited \cup SaidOf(p, known)
  BY DEF Finish
<1>6. \A h : Offered(h)' = Offered(h)
  BY DEF Offered
<1>7. \A doc, op : OpenTo(doc, op)' <=> OpenTo(doc, op)
  BY DEF OpenTo
<1>8. KnownEarned'
  <2>1. ASSUME NEW f \in audited'
        PROVE \E doc \in Offered(AuditHost(f.page)) :
                IF auditing = "openapi"
                THEN f.what \in { <<h>> : h \in doc.holds }
                     \/ (doc.schemes /\ \E op \in doc.ops : f.what = <<op.method, op.path>> /\ OpenTo(doc, op))
                ELSE f.what = <<"implicit-flow">> => InFragment(doc.types) # {}
    <3>1. CASE f \in audited
      BY <3>1 DEF KnownTrue, KnownEarned
    <3>2. CASE f \in SaidOf(p, known)
      BY <3>2, SaidIsSo
    <3>3. QED
      BY <1>5, <3>1, <3>2
  <2>2. QED
    BY <1>6, <2>1 DEF KnownEarned
<1>9. ASSUME NEW q \in AuditPages PROVE AreOffered(AuditHost(q), audit[q].known)'
  BY <1>1, <1>4, <1>6 DEF AreOffered
<1>10. ASSUME NEW h \in DOMAIN facts' PROVE AreOffered(h, facts[h])'
  BY <1>6, <1>10 DEF AreOffered
<1>11. QED
  BY <1>8, <1>9, <1>10 DEF KnownTrue

\* A step of a walk.
LEMMA WalkIsTrue ==
  ASSUME KnownInv, KnownTrue, NEW p \in AuditPages, \A q \in AuditPages : q # p => audit'[q] = audit[q],
         UNCHANGED <<auditing, facts, published, audited>>, AreOffered(AuditHost(p), audit'[p].known)
  PROVE  KnownTrue'
<1>1. \A h : Offered(h)' = Offered(h)
  BY DEF Offered
<1>2. KnownEarned'
  BY <1>1 DEF KnownTrue, KnownEarned
<1>3. ASSUME NEW q \in AuditPages PROVE AreOffered(AuditHost(q), audit'[q].known)
  BY DEF KnownTrue
<1>4. ASSUME NEW q \in AuditPages PROVE AreOffered(AuditHost(q), audit[q].known)'
  BY <1>1, <1>3 DEF AreOffered
<1>5. ASSUME NEW h \in DOMAIN facts' PROVE AreOffered(h, facts[h])'
  BY <1>1, <1>5 DEF AreOffered, KnownTrue
<1>6. QED
  BY <1>2, <1>4, <1>5 DEF KnownTrue

LEMMA KnownStaysTrue == KnownInv /\ KnownTrue /\ [KnownNext]_knownVars => KnownTrue'
<1> SUFFICES ASSUME KnownInv, KnownTrue, [KnownNext]_knownVars PROVE KnownTrue'
  OBVIOUS
<1>1. audit = [q \in AuditPages |-> audit[q]] /\ \A p \in AuditPages : IsWalk(audit[p])
  BY DEF KnownInv, Walk
<1>2. \A p \in AuditPages : AreOffered(AuditHost(p), audit[p].known)
  BY DEF KnownTrue
<1>3. ASSUME UNCHANGED knownVars PROVE KnownTrue'
  <2>1. UNCHANGED <<auditing, audit, facts, published, audited>>
    BY <1>3 DEF knownVars
  <2>2. QED
    BY <2>1 DEF KnownTrue, AreOffered, KnownEarned, Offered
<1>4. ASSUME NEW p \in AuditPages, LookUp(p) PROVE KnownTrue'
  <2>1. \A k \in DOMAIN facts : AreOffered(k, facts[k])
    BY DEF KnownTrue
  <2>2. auditing' = auditing /\ published' = published /\ facts' = facts
    BY <1>4 DEF LookUp
  <2>3. AreOffered(AuditHost(p), <<>>)
    BY DEF AreOffered
  <2>4. CASE Finish(p, <<>>)
    BY <2>1, <2>2, <2>3, <2>4, FinishIsTrue
  <2>5. CASE HostKey(p) \in DOMAIN facts /\ Finish(p, facts[HostKey(p)])
    BY <2>1, <2>2, <2>5, FinishIsTrue DEF HostKey
  <2>6. CASE /\ audit' = [audit EXCEPT ![p].at = "walking", ![p].after =
                            { q \in AuditPages : audit[q].at = "over" /\ AuditHost(q) = AuditHost(p) }]
             /\ UNCHANGED audited
    <3>1. /\ \A q \in AuditPages : q # p => audit'[q] = audit[q]
          /\ audit'[p].known = audit[p].known
      BY <1>1, <2>6 DEF IsWalk
    <3>2. QED
      BY <1>2, <2>2, <2>6, <3>1, WalkIsTrue
  <2>7. QED
    BY <1>4, <2>4, <2>5, <2>6 DEF LookUp
<1>5. ASSUME NEW p \in AuditPages, AskPath(p) PROVE KnownTrue'
  <2> DEFINE path == KnownPaths(auditing)[audit[p].i]
             next == [audit EXCEPT ![p].i = @ + 1, ![p].asked = @ \cup {path}]
  <2>1. UNCHANGED <<auditing, facts, published, audited>>
    BY <1>5 DEF AskPath
  <2>2. \/ audit' = [audit EXCEPT ![p].i = @ + 1]
        \/ audit' = next
        \/ audit' = [next EXCEPT ![p].lost = @ \cup {path}]
        \/ /\ AuditAllowed(AuditHost(p), path) /\ Recognised(Document(p, path))
           /\ audit' = [next EXCEPT ![p].at = "storing", ![p].known = <<Document(p, path)>>]
    BY <1>5 DEF AskPath
  <2>3. \A q \in AuditPages : q # p => audit'[q] = audit[q]
    BY <1>1, <2>2 DEF IsWalk
  <2>4. CASE audit'[p].known = audit[p].known
    BY <1>2, <2>1, <2>3, <2>4, WalkIsTrue
  <2>5. CASE /\ AuditAllowed(AuditHost(p), path) /\ Recognised(Document(p, path))
             /\ audit'[p].known = <<Document(p, path)>>
    <3>1. Document(p, path) \in Offered(AuditHost(p))
      BY <2>5, RecognisedIsOffered
    <3>2. AreOffered(AuditHost(p), audit'[p].known)
      BY <2>5, <3>1 DEF AreOffered
    <3>3. QED
      BY <2>1, <2>3, <3>2, WalkIsTrue
  <2>6. QED
    BY <1>1, <2>2, <2>4, <2>5 DEF IsWalk
<1>6. ASSUME NEW p \in AuditPages, WalkExpires(p) PROVE KnownTrue'
  <2>1. /\ \A q \in AuditPages : q # p => audit'[q] = audit[q]
        /\ audit'[p].known = audit[p].known
    BY <1>1, <1>6 DEF WalkExpires, IsWalk
  <2>2. QED
    BY <1>2, <1>6, <2>1, WalkIsTrue DEF WalkExpires
<1>7. ASSUME NEW p \in AuditPages, Remember(p) PROVE KnownTrue'
  <2>1. \A h \in DOMAIN facts' : AreOffered(h, facts'[h])
    BY <1>2, <1>7 DEF Remember, KnownTrue, HostKey
  <2>2. QED
    BY <1>2, <1>7, <2>1, FinishIsTrue DEF Remember
<1>8. QED
  BY <1>3, <1>4, <1>5, <1>6, <1>7 DEF KnownNext, DiscoverSpec, DiscoverIssuer

-----------------------------------------------------------------------------
(* What is reported of an identifier was handed out.                       *)

IsIdRun(r) ==
  {"at", "read", "todo", "probed", "in", "family", "control", "payloads", "tried", "due", "got", "clean"} \subseteq DOMAIN r

\* A finding is of a program that shows other records, beside its confidence.
Exposed(f) ==
  /\ app[f.in.name] \in {"exposes", "lenient", "echoes"}
  /\ f.how # "low" => app[f.in.name] = "exposes" /\ f.by \in RecordsOnServer \ {f.in.value}
  /\ f.how = "high" => f.by \in Personal

IdRunTrue(p, r) ==
  /\ IsIdRun(r) /\ r.read \in 0 .. Len(IdInputs(p))
  /\ \A c \in r.todo : c.in \in Range(IdInputs(p))
  /\ r.at \in {"generating", "rendering", "probing"} => r.in \in Range(IdInputs(p))
  /\ \A f \in r.got : Exposed(f)

IdTrue ==
  /\ \A n \in Names : app[n] \in AppsBehind(n)
  /\ ids = [p \in IdPages |-> ids[p]] /\ \A p \in IdPages : IdRunTrue(p, ids[p])
  /\ IdorEarned

LEMMA NoRunIsTrue == ASSUME NEW p \in IdPages PROVE IdRunTrue(p, NoRun) /\ IsIdRun(NoRun)
<1>1. Len(IdInputs(p)) \in Nat
  BY IdAssumption
<1>2. /\ IsIdRun(NoRun) /\ NoRun.read = 0 /\ NoRun.todo = {} /\ NoRun.got = {} /\ NoRun.at = "ingesting"
  BY Zenon DEF NoRun, IsIdRun
<1>3. QED
  BY <1>1, <1>2 DEF IdRunTrue

LEMMA OverIsTrue ==
  ASSUME NEW p \in IdPages, NEW tried, NEW clean
  PROVE  /\ IdRunTrue(p, [NoRun EXCEPT !.at = "over", !.tried = tried, !.clean = clean])
         /\ IdRunTrue(p, [NoRun EXCEPT !.at = "over", !.clean = clean])
BY NoRunIsTrue DEF IdRunTrue, IsIdRun

LEMMA IdTrueAtFirst == IdInit => IdTrue
<1> SUFFICES ASSUME IdInit PROVE IdTrue
  OBVIOUS
<1>1. \A p \in IdPages : IdRunTrue(p, NoRun)
  BY NoRunIsTrue
<1>2. QED
  BY <1>1 DEF IdInit, IdTrue, IdorEarned

IsAVerdict(v) == v # ""

\* A verdict is not that of a program that enforces, ignores or generalises.
LEMMA VerdictIsSound ==
  ASSUME NEW kind \in {"ignores", "echoes", "enforces", "exposes", "lenient", "generic"},
         NEW own, NEW v, NEW control, NEW how, v # own, v # control,
         how = Verdict(Serves(kind, own, own), Serves(kind, own, v), Serves(kind, own, control)), IsAVerdict(how)
  PROVE  /\ kind \in {"exposes", "lenient", "echoes"}
         /\ how # "low" => kind = "exposes" /\ v \in RecordsOnServer
         /\ how = "high" => v \in Personal
<1> DEFINE b == Serves(kind, own, own)
           t == Serves(kind, own, v)
           c == Serves(kind, own, control)
<1>1. /\ b.ok /\ t.ok /\ t.body # b.body /\ ~ControlLikeOthers(b, t, c)
      /\ (how = IF c.ok THEN "low" ELSE IF t.body \in Personal THEN "high" ELSE "medium")
  BY Zenon DEF Verdict, IsAVerdict
<1>2. \A ok, what : Show(ok, what).ok = ok /\ Show(ok, what).body = what
  BY DEF Show
<1>3. ~c.ok \/ c.body \notin {b.body, t.body}
  BY <1>1 DEF ControlLikeOthers
<1>4. kind # "ignores"
  BY <1>1, <1>2 DEF Serves
<1>5. kind # "enforces"
  BY <1>1, <1>2 DEF Serves
<1>6. ASSUME kind = "generic" PROVE FALSE
  <2>1. /\ c.ok /\ (c.body = IF control = own THEN control ELSE [own EXCEPT !.key = "none"])
        /\ t.body = [own EXCEPT !.key = "none"] /\ b.body = own
    BY <1>2, <1>6 DEF Serves
  <2>2. QED
    BY <1>3, <2>1
<1>7. kind \in {"echoes", "lenient"} => c.ok
  BY <1>2 DEF Serves
<1>8. kind = "exposes" => v \in RecordsOnServer /\ t.body = v
  <2>1. ASSUME kind = "exposes" PROVE v \in RecordsOnServer
    <3>1. t = [ok |-> v \in RecordsOnServer, body |-> v]
      BY <2>1 DEF Serves, Show
    <3> HIDE DEF t
    <3>2. t.ok <=> v \in RecordsOnServer
      BY <3>1
    <3>3. QED
      BY <1>1, <3>2
  <2>2. ASSUME kind = "exposes" PROVE t.body = v
    BY <1>2, <2>2 DEF Serves
  <2>3. QED
    BY <2>1, <2>2
<1> HIDE DEF b, t, c
<1>9. how # "low" => kind \notin {"echoes", "lenient"}
  BY <1>1, <1>7
<1>10. how = "high" => t.body \in Personal
  BY <1>1
<1>11. how = "high" => kind = "exposes"
  BY <1>4, <1>5, <1>6, <1>9
<1>12. QED
  BY <1>4, <1>5, <1>6, <1>8, <1>9, <1>10, <1>11

LEMMA InputsHaveNames == ASSUME NEW p \in IdPages, NEW in \in Range(IdInputs(p)) PROVE in.name \in Names
BY DEF Names

\* A step that changes the run of one page and may report what it has.
LEMMA IdGoesOn ==
  ASSUME IdTrue, NEW p \in IdPages, app' = app, exposed' \subseteq exposed \cup ids[p].got,
         ids' = [q \in IdPages |-> ids'[q]], \A q \in IdPages : q # p => ids'[q] = ids[q], IdRunTrue(p, ids'[p])
  PROVE  IdTrue'
<1>1. \A f : Exposed(f)' <=> Exposed(f)
  BY DEF Exposed
<1>2. \A q \in IdPages : IdRunTrue(q, ids'[q])
  BY DEF IdTrue
<1>3. \A q \in IdPages : IdRunTrue(q, ids[q])'
  BY <1>1, <1>2 DEF IdRunTrue
<1>4. ASSUME NEW f \in exposed' PROVE Exposed(f)
  BY <1>4 DEF IdTrue, IdRunTrue, IdorEarned, Exposed
<1>5. IdorEarned'
  BY <1>4 DEF IdorEarned, Exposed
<1>6. QED
  BY <1>3, <1>5 DEF IdTrue

LEMMA CollectIsTrue == ASSUME IdTrue, NEW p \in IdPages, IngestPage(p) \/ Collect1(p) PROVE IdTrue'
<1>0. Len(IdInputs(p)) \in Nat
  BY IdAssumption
<1> DEFINE in == IdInputs(p)[ids[p].read + 1]
<1>1. /\ app' = app /\ exposed' = exposed /\ ids = [q \in IdPages |-> ids[q]] /\ IdRunTrue(p, ids[p])
      /\ Len(IdInputs(p)) \in Nat
  BY <1>0 DEF IngestPage, Collect1, IdTrue
<1>2. ASSUME NEW at, at \in {"collecting", "choosing"}, ids' = [ids EXCEPT ![p].at = at] PROVE IdTrue'
  <2>1. /\ \A q \in IdPages : q # p => ids'[q] = ids[q]
        /\ ids' = [q \in IdPages |-> ids'[q]] /\ ids'[p] = [ids[p] EXCEPT !.at = at]
    BY <1>1, <1>2
  <2>2. IdRunTrue(p, ids'[p])
    BY <1>1, <1>2, <2>1 DEF IdRunTrue, IsIdRun
  <2>3. QED
    BY <1>1, <2>1, <2>2, IdGoesOn
<1>3. ASSUME ids[p].read # Len(IdInputs(p)), NEW todo, todo \subseteq ids[p].todo \cup { [in |-> in, family |-> Classify(CorpusName(in), in.value, corpus.learned)] },
             ids[p].at = "collecting", ids' = [ids EXCEPT ![p].read = @ + 1, ![p].todo = todo]
      PROVE  IdTrue'
  <2>1. ids[p].read + 1 \in 0 .. Len(IdInputs(p)) /\ ids[p].read + 1 \in DOMAIN IdInputs(p)
    BY <1>1, <1>3, IdAssumption DEF IdRunTrue
  <2>2. in \in Range(IdInputs(p))
    BY <2>1 DEF Range
  <2>3. \A c \in todo : c.in \in Range(IdInputs(p))
    BY <1>1, <1>3, <2>2 DEF IdRunTrue
  <2>4. /\ \A q \in IdPages : q # p => ids'[q] = ids[q]
        /\ ids' = [q \in IdPages |-> ids'[q]] /\ ids'[p] = [ids[p] EXCEPT !.read = @ + 1, !.todo = todo]
    BY <1>1, <1>3
  <2>5. IdRunTrue(p, ids'[p])
    BY <1>1, <1>3, <2>1, <2>3, <2>4 DEF IdRunTrue, IsIdRun
  <2>6. QED
    BY <1>1, <2>4, <2>5, IdGoesOn
<1>4. CASE IngestPage(p)
  BY <1>2, <1>4 DEF IngestPage
<1>5. CASE Collect1(p)
  <2>1. \/ ids' = [ids EXCEPT ![p].at = "choosing"]
        \/ /\ ids[p].read # Len(IdInputs(p))
           /\ \E todo : /\ todo \subseteq ids[p].todo \cup { [in |-> in, family |-> Classify(CorpusName(in), in.value, corpus.learned)] }
                        /\ ids' = [ids EXCEPT ![p].read = @ + 1, ![p].todo = todo]
    BY Zenon, <1>5 DEF Collect1
  <2>2. QED
    BY <1>2, <1>3, <1>5, <2>1 DEF Collect1
<1>6. QED
  BY <1>4, <1>5

LEMMA ControlIsTrue == ASSUME IdTrue, NEW p \in IdPages, Control(p) PROVE IdTrue'
<1>1. /\ app' = app /\ exposed' = exposed /\ ids = [q \in IdPages |-> ids[q]] /\ IdRunTrue(p, ids[p])
  BY DEF Control, IdTrue
<1>2. PICK c \in ids[p].todo :
        LET next == [ids EXCEPT ![p].todo = @ \ {c}, ![p].probed = @ + 1] IN
        \/ \E control, at : at \in {"generating", "choosing"}
              /\ ids' = [next EXCEPT ![p].at = at, ![p].in = c.in, ![p].family = c.family, ![p].control = control]
        \/ ids' = [next EXCEPT ![p].clean = FALSE]
  BY Zenon DEF Control, Leading
<1>3. c.in \in Range(IdInputs(p))
  BY <1>1 DEF IdRunTrue
<1>4. CASE ids' = [[ids EXCEPT ![p].todo = @ \ {c}, ![p].probed = @ + 1] EXCEPT ![p].clean = FALSE]
  <2>1. /\ \A q \in IdPages : q # p => ids'[q] = ids[q]
        /\ ids' = [q \in IdPages |-> ids'[q]]
        /\ ids'[p] = [[ids[p] EXCEPT !.todo = @ \ {c}, !.probed = @ + 1] EXCEPT !.clean = FALSE]
    BY <1>1, <1>4
  <2>2. IdRunTrue(p, ids'[p])
    BY <1>1, <2>1 DEF IdRunTrue, IsIdRun
  <2>3. QED
    BY <1>1, <2>1, <2>2, IdGoesOn
<1>5. ASSUME NEW control, NEW at \in {"generating", "choosing"},
             ids' = [[ids EXCEPT ![p].todo = @ \ {c}, ![p].probed = @ + 1]
                       EXCEPT ![p].at = at, ![p].in = c.in, ![p].family = c.family, ![p].control = control]
      PROVE  IdTrue'
  <2>1. /\ \A q \in IdPages : q # p => ids'[q] = ids[q]
        /\ ids' = [q \in IdPages |-> ids'[q]]
        /\ ids'[p] = [[ids[p] EXCEPT !.todo = @ \ {c}, !.probed = @ + 1]
                        EXCEPT !.at = at, !.in = c.in, !.family = c.family, !.control = control]
    BY <1>1, <1>5
  <2>2. IdRunTrue(p, ids'[p])
    BY <1>1, <1>3, <2>1 DEF IdRunTrue, IsIdRun
  <2>3. QED
    BY <1>1, <2>1, <2>2, IdGoesOn
<1>6. QED
  BY Zenon, <1>2, <1>4, <1>5

\* What a step may do to a run while it probes.
LEMMA ProbeGoesOn ==
  ASSUME IdTrue, NEW p \in IdPages, app' = app, exposed' = exposed, IsIdRun(ids'[p]),
         ids' = [q \in IdPages |-> ids'[q]], \A q \in IdPages : q # p => ids'[q] = ids[q],
         ids'[p].read = ids[p].read, ids'[p].todo = ids[p].todo, \A f \in ids'[p].got : Exposed(f),
         ids'[p].at = "choosing" \/ (ids[p].at \in {"generating", "rendering", "probing"} /\ ids'[p].in = ids[p].in)
  PROVE  IdTrue'
<1>1. IdRunTrue(p, ids[p])
  BY DEF IdTrue
<1>2. IdRunTrue(p, ids'[p])
  BY <1>1 DEF IdRunTrue
<1>3. QED
  BY <1>2, IdGoesOn

LEMMA GenerateIsTrue == ASSUME IdTrue, NEW p \in IdPages, Generate(p) \/ RenderOne(p) PROVE IdTrue'
<1>1. /\ app' = app /\ exposed' = exposed /\ ids = [q \in IdPages |-> ids[q]] /\ IsIdRun(ids[p])
      /\ \A f \in ids[p].got : Exposed(f)
  BY DEF Generate, RenderOne, IdTrue, IdRunTrue
<1>2. \/ ids[p].at = "generating" /\ \E at, out, due : ids' = [ids EXCEPT ![p].at = at, ![p].payloads = out, ![p].due = due]
      \/ ids[p].at = "rendering" /\ \E at, out : ids' = [ids EXCEPT ![p].payloads = out, ![p].at = at]
  <2>1. CASE Generate(p)
    BY Zenon, <2>1 DEF Generate
  <2>2. CASE RenderOne(p)
    <3>1. PICK out : ids' = [ids EXCEPT ![p].payloads = out, ![p].at = IF Len(out) < Want THEN @ ELSE "probing"]
      BY Zenon, <2>2 DEF RenderOne
    <3>2. ids[p].at = "rendering"
      BY <2>2 DEF RenderOne
    <3>3. QED
      BY <3>1, <3>2
  <2>3. QED
    BY <2>1, <2>2
<1> DEFINE Moved ==
             /\ \A q \in IdPages : q # p => ids'[q] = ids[q]
             /\ ids' = [q \in IdPages |-> ids'[q]] /\ IsIdRun(ids'[p])
             /\ ids'[p].read = ids[p].read /\ ids'[p].todo = ids[p].todo /\ ids'[p].got = ids[p].got
             /\ ids'[p].in = ids[p].in
<1>3. Moved
  <2>1. ASSUME NEW at, NEW out, NEW due, ids' = [ids EXCEPT ![p].at = at, ![p].payloads = out, ![p].due = due]
        PROVE  Moved
    BY <1>1, <2>1 DEF IsIdRun
  <2>2. ASSUME NEW at, NEW out, ids' = [ids EXCEPT ![p].payloads = out, ![p].at = at]
        PROVE  Moved
    BY <1>1, <2>2 DEF IsIdRun
  <2> HIDE DEF Moved
  <2>3. CASE \E at, out, due : ids' = [ids EXCEPT ![p].at = at, ![p].payloads = out, ![p].due = due]
    BY <2>1, <2>3
  <2>4. CASE \E at, out : ids' = [ids EXCEPT ![p].payloads = out, ![p].at = at]
    BY <2>2, <2>4
  <2>5. QED
    BY Zenon, <1>2, <2>3, <2>4
<1>4. ids[p].at \in {"generating", "rendering", "probing"}
  BY <1>2
<1>5. QED
  BY <1>1, <1>3, <1>4, ProbeGoesOn

\* A settled run is back to choose, with what it has got.
LEMMA SettledRun ==
  ASSUME NEW run, IsIdRun(run)
  PROVE  /\ IsIdRun(Settle(run)) /\ Settle(run).at = "choosing" /\ Settle(run).read = run.read
         /\ Settle(run).todo = run.todo /\ Settle(run).got = run.got
<1> DEFINE no == NoInput
           zero == Number(0)
           settled == [in |-> run.in, due |-> run.due \ {run.control}]
<1>1. Settle(run) = [run EXCEPT !.at = "choosing", !.payloads = <<>>, !.due = {}, !.in = no, !.family = "none",
                                !.control = zero, !.tried = @ \cup { settled }]
  BY DEF Settle
<1> HIDE DEF no, zero, settled
<1>2. QED
  BY <1>1 DEF IsIdRun

LEMMA TamperIsTrue == ASSUME IdTrue, NEW p \in IdPages, Tamper(p) PROVE IdTrue'
<1> DEFINE in == ids[p].in
           v == Head(ids[p].payloads)
           kind == app[in.name]
           verdict == Verdict(Serves(kind, in.value, in.value), Serves(kind, in.value, v),
                              Serves(kind, in.value, ids[p].control))
           rest == [ids EXCEPT ![p].payloads = Tail(@)]
           new == [page |-> p, in |-> in, by |-> v, how |-> verdict]
<1>1. /\ app' = app /\ exposed' = exposed /\ ids = [q \in IdPages |-> ids[q]] /\ IsIdRun(ids[p]) /\ ids[p].at = "probing"
      /\ \A f \in ids[p].got : Exposed(f)
  BY DEF Tamper, IdTrue, IdRunTrue
<1>2. kind \in {"ignores", "echoes", "enforces", "exposes", "lenient", "generic"}
  <2>1. in \in Range(IdInputs(p))
    BY <1>1 DEF IdTrue, IdRunTrue
  <2>2. QED
    BY <2>1, InputsHaveNames, AppAssumption DEF IdTrue
<1>3. \/ ids' = [ids EXCEPT ![p] = Settle(@)]
      \/ ids' = rest
      \/ ids' = [rest EXCEPT ![p].clean = FALSE]
      \/ /\ v \notin {in.value, ids[p].control} /\ verdict # ""
         /\ ids' = [ids EXCEPT ![p] = [Settle(ids[p]) EXCEPT !.got = @ \cup { new }]]
  BY Zenon DEF Tamper
<1>4. /\ IsIdRun(Settle(ids[p])) /\ Settle(ids[p]).at = "choosing" /\ Settle(ids[p]).read = ids[p].read
      /\ Settle(ids[p]).todo = ids[p].todo /\ Settle(ids[p]).got = ids[p].got
  BY <1>1, SettledRun
<1>5. ASSUME v \notin {in.value, ids[p].control}, verdict # "" PROVE Exposed(new)
  <2>1. PICK how : how = verdict /\ IsAVerdict(how)
    BY Zenon, <1>5 DEF IsAVerdict
  <2>2. new.in = in /\ new.by = v /\ new.how = verdict
    OBVIOUS
  <2>3. /\ kind \in {"exposes", "lenient", "echoes"}
        /\ how # "low" => kind = "exposes" /\ v \in RecordsOnServer
        /\ how = "high" => v \in Personal
    <3>1. v # in.value /\ v # ids[p].control
      BY <1>5
    <3>2. how = Verdict(Serves(kind, in.value, in.value), Serves(kind, in.value, v), Serves(kind, in.value, ids[p].control))
      BY Zenon, <2>1
    <3> HIDE DEF verdict, kind, v, in
    <3>3. QED
      BY <1>2, <2>1, <3>1, <3>2, VerdictIsSound
  <2> HIDE DEF new, verdict, kind, v, in
  <2>4. app[new.in.name] = kind
    BY <2>2 DEF kind
  <2>5. v # in.value /\ new.in.value = in.value
    BY <1>5, <2>2
  <2>6. QED
    BY <2>1, <2>2, <2>3, <2>4, <2>5 DEF Exposed
<1> HIDE DEF new, verdict, kind, v, in
<1>6. CASE ids' = [ids EXCEPT ![p] = Settle(@)]
  <2>1. ids'[p] = Settle(ids[p]) /\ (\A q \in IdPages : q # p => ids'[q] = ids[q]) /\ ids' = [q \in IdPages |-> ids'[q]]
    BY <1>1, <1>6
  <2>2. QED
    BY <1>1, <1>4, <2>1, ProbeGoesOn
<1>7. CASE ids' = rest
  <2>1. /\ ids'[p] = [ids[p] EXCEPT !.payloads = Tail(@)] /\ (\A q \in IdPages : q # p => ids'[q] = ids[q])
        /\ ids' = [q \in IdPages |-> ids'[q]]
    BY <1>1, <1>7
  <2>2. /\ IsIdRun(ids'[p]) /\ ids'[p].read = ids[p].read /\ ids'[p].todo = ids[p].todo /\ ids'[p].got = ids[p].got
        /\ ids'[p].in = ids[p].in
    BY <1>1, <2>1 DEF IsIdRun
  <2>3. QED
    BY <1>1, <2>1, <2>2, ProbeGoesOn
<1>8. CASE ids' = [rest EXCEPT ![p].clean = FALSE]
  <2>1. /\ ids'[p] = [[ids[p] EXCEPT !.payloads = Tail(@)] EXCEPT !.clean = FALSE]
        /\ (\A q \in IdPages : q # p => ids'[q] = ids[q]) /\ ids' = [q \in IdPages |-> ids'[q]]
    BY <1>1, <1>8
  <2>2. /\ IsIdRun(ids'[p]) /\ ids'[p].read = ids[p].read /\ ids'[p].todo = ids[p].todo /\ ids'[p].got = ids[p].got
        /\ ids'[p].in = ids[p].in
    BY <1>1, <2>1 DEF IsIdRun
  <2>3. QED
    BY <1>1, <2>1, <2>2, ProbeGoesOn
<1>9. CASE Exposed(new) /\ ids' = [ids EXCEPT ![p] = [Settle(ids[p]) EXCEPT !.got = @ \cup { new }]]
  <2> DEFINE s == Settle(ids[p])
  <2>1. /\ ids'[p] = [s EXCEPT !.got = @ \cup { new }]
        /\ (\A q \in IdPages : q # p => ids'[q] = ids[q]) /\ ids' = [q \in IdPages |-> ids'[q]]
    <3>1. ids' = [ids EXCEPT ![p] = [s EXCEPT !.got = @ \cup { new }]]
      BY Zenon, <1>9
    <3> HIDE DEF s
    <3>2. QED
      BY <1>1, <3>1
  <2>2. /\ IsIdRun(ids'[p]) /\ ids'[p].read = ids[p].read /\ ids'[p].todo = ids[p].todo
        /\ ids'[p].got = ids[p].got \cup {new} /\ ids'[p].at = "choosing"
    BY <1>4, <2>1 DEF IsIdRun
  <2>3. \A f \in ids'[p].got : Exposed(f)
    BY <1>1, <1>9, <2>2
  <2>4. QED
    BY <1>1, <2>1, <2>2, <2>3, ProbeGoesOn
<1>10. QED
  BY Zenon, <1>3, <1>5, <1>6, <1>7, <1>8, <1>9

LEMMA IdEndsTrue == ASSUME IdTrue, NEW p \in IdPages, IdReturns(p) \/ CutIds(p) PROVE IdTrue'
<1>1. /\ app' = app /\ exposed' \subseteq exposed \cup ids[p].got /\ ids = [q \in IdPages |-> ids[q]]
  BY DEF IdReturns, CutIds, IdTrue
<1>2. \/ \E tried, clean : ids' = [ids EXCEPT ![p] = [NoRun EXCEPT !.at = "over", !.tried = tried, !.clean = clean]]
      \/ \E clean : ids' = [ids EXCEPT ![p] = [NoRun EXCEPT !.at = "over", !.clean = clean]]
  BY Zenon DEF IdReturns, CutIds
<1>3. \E r : IdRunTrue(p, r) /\ ids' = [ids EXCEPT ![p] = r]
  <2>1. \A tried, clean : /\ IdRunTrue(p, [NoRun EXCEPT !.at = "over", !.tried = tried, !.clean = clean])
                          /\ IdRunTrue(p, [NoRun EXCEPT !.at = "over", !.clean = clean])
    BY OverIsTrue
  <2>2. QED
    BY Zenon, <1>2, <2>1
<1>4. PICK r : IdRunTrue(p, r) /\ ids' = [ids EXCEPT ![p] = r]
  BY <1>3
<1>5. ids'[p] = r /\ (\A q \in IdPages : q # p => ids'[q] = ids[q]) /\ ids' = [q \in IdPages |-> ids'[q]]
  BY <1>1, <1>4
<1>6. QED
  BY <1>1, <1>4, <1>5, IdGoesOn

LEMMA IdStaysTrue == IdTrue /\ [IdNext]_idVars => IdTrue'
<1> SUFFICES ASSUME IdTrue, [IdNext]_idVars PROVE IdTrue'
  OBVIOUS
<1>1. CASE UNCHANGED idVars
  BY <1>1 DEF idVars, IdTrue, IdRunTrue, IdorEarned, Exposed
<1>2. CASE IdNext
  BY <1>2, CollectIsTrue, ControlIsTrue, GenerateIsTrue, TamperIsTrue, IdEndsTrue DEF IdNext, IdStep
<1>3. QED
  BY <1>1, <1>2

-----------------------------------------------------------------------------
(* Where missing paths look alike, what is disclosed is served or refused. *)

\* What two canaries taught, or one of them: an answer to a missing path.
Learned(b, absent) ==
  \E m \in absent : m.status \in b.statuses /\ m.size \in b.sizes /\ b.type = m.type /\ b.location = m.location

SweptTrue(r, where) ==
  Alike(where.missing) =>
    /\ r.at \in {"claiming", "first"} => r.base = NoBaseline
    /\ r.at \in {"second", "sweeping"} => Learned(r.base, where.missing)
    /\ \A h \in r.hits : h.verdict = "auth-gated" \/ h.path \in DOMAIN where.served

SweepTrue == (\A p \in SweptPages : SweptTrue(sweep[p], Site(p))) /\ SweepEarned

LEMMA SweepTrueAtFirst == SweepInit => SweepTrue
<1> SUFFICES ASSUME SweepInit PROVE SweepTrue
  OBVIOUS
<1>1. \A p \in SweptPages : sweep[p].at = "claiming" /\ sweep[p].base = NoBaseline /\ sweep[p].hits = {}
  BY Zenon DEF SweepInit
<1>2. disclosed = {}
  BY DEF SweepInit
<1>3. QED
  BY <1>1, <1>2 DEF SweepTrue, SweptTrue, SweepEarned

LEMMA FirstCanaryTeaches ==
  ASSUME NEW absent, NEW a \in absent PROVE Learned(Learn(NoBaseline, a), absent)
<1> DEFINE b == Learn(NoBaseline, a)
<1>1. b.statuses = {a.status} /\ b.sizes = {a.size}
  BY DEF Learn, NoBaseline
<1>2. b.type = a.type /\ b.location = a.location
  BY Zenon DEF Learn, NoBaseline
<1> SUFFICES Learned(b, absent)
  OBVIOUS
<1> HIDE DEF b
<1>3. QED
  BY <1>1, <1>2 DEF Learned

LEMMA SecondCanaryTeaches ==
  ASSUME NEW absent, Alike(absent), NEW b, Learned(b, absent), NEW a \in absent PROVE Learned(Learn(b, a), absent)
<1> DEFINE c == Learn(b, a)
<1>1. PICK m \in absent : m.status \in b.statuses /\ m.size \in b.sizes /\ b.type = m.type /\ b.location = m.location
  BY DEF Learned
<1>2. a.type = m.type /\ a.location = m.location
  BY DEF Alike
<1>3. m.status \in c.statuses /\ m.size \in c.sizes
  BY <1>1 DEF Learn
<1>4. c.type = m.type
  BY Zenon, <1>1, <1>2 DEF Learn
<1>5. c.location = m.location
  BY Zenon, <1>1, <1>2 DEF Learn
<1> SUFFICES Learned(c, absent)
  OBVIOUS
<1> HIDE DEF c
<1>6. QED
  BY <1>3, <1>4, <1>5 DEF Learned

LEMMA UnmarkedIsNoHit ==
  ASSUME NEW entry, NEW b, NEW a, a.status \notin {401, 403}, a.status \in 200 .. 299, ~(a.status \in 300 .. 399),
         entry.marker \notin a.shows, LooksLikeMiss(b, a)
  PROVE  ~IsAVerdict(ClassifyResponse(entry, b, a))
<1>1. CASE entry.marker # ""
  BY ZenonT(60), <1>1 DEF ClassifyResponse, IsAVerdict
<1>2. CASE entry.marker = ""
  BY ZenonT(60), <1>2 DEF ClassifyResponse, IsAVerdict
<1>3. QED
  BY Zenon, <1>1, <1>2

LEMMA UnservedIsNoHit ==
  ASSUME NEW entry, NEW b, NEW a, a.status \notin {401, 403}, ~(a.status \in 200 .. 299), a.status \in 300 .. 399 => LooksLikeMiss(b, a)
  PROVE  ClassifyResponse(entry, b, a) = ""
<1>1. CASE a.status \in 300 .. 399
  BY ZenonT(60), <1>1 DEF ClassifyResponse
<1>2. CASE ~(a.status \in 300 .. 399)
  BY ZenonT(60), <1>2 DEF ClassifyResponse
<1>3. QED
  BY Zenon, <1>1, <1>2

\* A missing path that is not refused is no hit.
LEMMA MissIsNoHit ==
  ASSUME NEW absent, Alike(absent), NEW b, Learned(b, absent), NEW a \in absent, NEW entry
  PROVE  ClassifyResponse(entry, b, a) \in {"", "auth-gated"}
<1>1. PICK m \in absent : m.status \in b.statuses /\ m.size \in b.sizes /\ b.type = m.type /\ b.location = m.location
  BY DEF Learned
<1>2. /\ a.status = m.status /\ a.location = m.location /\ a.type = m.type /\ a.shows = {}
      /\ a.status \in 200 .. 299 => LengthCloseTo(a.size, m.size)
  BY DEF Alike
<1>3. a.status \in 200 .. 299 => a.type # ""
  BY Zenon DEF Alike
<1>4. a.status \in 300 .. 399 => a.location # ""
  BY Zenon DEF Alike
<1>5. ~(a.status \in 200 .. 299 /\ a.status \in 300 .. 399)
  OBVIOUS
<1>6. LooksLikeMiss(b, a)
  BY Zenon, <1>1, <1>2, <1>3, <1>4 DEF LooksLikeMiss
<1>7. CASE a.status \in {401, 403}
  <2>1. a.status \notin 200 .. 299 /\ a.status \notin 300 .. 399
    BY <1>7
  <2>2. ClassifyResponse(entry, b, a) = "auth-gated"
    BY Zenon, <1>7, <2>1 DEF ClassifyResponse
  <2>3. QED
    BY Zenon, <2>2
<1>8. CASE a.status \notin {401, 403}
  <2>1. entry.marker \notin a.shows
    BY <1>2
  <2>2. CASE a.status \in 200 .. 299
    <3>1. ~(a.status \in 300 .. 399)
      BY Zenon, <1>5, <2>2
    <3>2. ~IsAVerdict(ClassifyResponse(entry, b, a))
      BY <1>6, <1>8, <2>1, <2>2, <3>1, UnmarkedIsNoHit
    <3>3. QED
      BY Zenon, <3>2 DEF IsAVerdict
  <2>3. CASE ~(a.status \in 200 .. 299)
    BY Zenon, <1>6, <1>8, <2>3, UnservedIsNoHit
  <2>4. QED
    BY Zenon, <2>2, <2>3
<1>9. QED
  BY <1>7, <1>8

\* A run goes on from sweep[p] to s, and may disclose what it hit.
LEMMA SweepTrueGoesOn ==
  ASSUME SweepInv, SweepTrue, NEW p \in SweptPages, NEW s, sweep' = [sweep EXCEPT ![p] = s], standing' = standing,
         SweptTrue(s, Site(p)),
         \A f \in disclosed' \ disclosed :
            f.root = RootOfPage(p) /\ \E h \in sweep[p].hits : f.path = h.path /\ f.verdict = h.verdict
  PROVE  SweepTrue'
<1>1. \A q \in SweptPages : sweep'[q] = IF q = p THEN s ELSE sweep[q]
  BY DEF SweepInv
<1>2. \A q : Site(q)' = Site(q)
  BY DEF Site
<1>3. \A q \in SweptPages : SweptTrue(sweep'[q], Site(q))
  BY <1>1 DEF SweepTrue
<1>4. \A q \in SweptPages : SweptTrue(sweep[q], Site(q))'
  BY <1>2, <1>3 DEF SweptTrue
<1>5. ASSUME NEW f \in disclosed', Alike(standing[f.root].missing)
      PROVE  f.verdict = "auth-gated" \/ f.path \in DOMAIN standing[f.root].served
  <2>1. CASE f \in disclosed
    BY <1>5, <2>1 DEF SweepTrue, SweepEarned
  <2>2. CASE f \notin disclosed
    <3>1. PICK h \in sweep[p].hits : f.root = RootOfPage(p) /\ f.path = h.path /\ f.verdict = h.verdict
      BY <2>2
    <3>2. SweptTrue(sweep[p], standing[f.root])
      BY <3>1 DEF SweepTrue, Site
    <3>3. QED
      BY <1>5, <3>1, <3>2 DEF SweptTrue
  <2>3. QED
    BY <2>1, <2>2
<1>6. SweepEarned'
  BY <1>5 DEF SweepEarned
<1>7. QED
  BY <1>4, <1>6 DEF SweepTrue

\* What was learned and hit stays as it is.
LEMMA SweepTrueStands ==
  ASSUME SweepInv, SweepTrue, NEW p \in SweptPages, NEW s, sweep' = [sweep EXCEPT ![p] = s], standing' = standing,
         s.base = sweep[p].base, s.hits = sweep[p].hits,
         s.at \in {sweep[p].at, "over"} \/ (s.at = "first" /\ sweep[p].at = "claiming"),
         \A f \in disclosed' \ disclosed :
            f.root = RootOfPage(p) /\ \E h \in sweep[p].hits : f.path = h.path /\ f.verdict = h.verdict
  PROVE  SweepTrue'
<1>1. SweptTrue(sweep[p], Site(p))
  BY DEF SweepTrue
<1>2. SweptTrue(s, Site(p))
  BY <1>1 DEF SweptTrue
<1>3. QED
  BY <1>2, SweepTrueGoesOn

LEMMA LearningIsTrue ==
  ASSUME SweepInv, SweepTrue, NEW p \in SweptPages, ClaimRoot(p) \/ LearnBaseline(p) PROVE SweepTrue'
<1> DEFINE r == sweep[p]
           main == MainEntries(RootOfPage(p))
<1>1. /\ sweep = [q \in SweptPages |-> sweep[q]] /\ IsSweep(r) /\ SweptTrue(r, Site(p))
      /\ standing' = standing /\ disclosed' = disclosed
  BY DEF SweepInv, SweepTrue, ClaimRoot, LearnBaseline
<1>2. ASSUME sweep' = [sweep EXCEPT ![p].at = "over", ![p].clean = FALSE]
      PROVE  SweepTrue'
  <2> DEFINE s == [r EXCEPT !.at = "over", !.clean = FALSE]
  <2>1. sweep' = [sweep EXCEPT ![p] = s] /\ s.at = "over" /\ s.base = r.base /\ s.hits = r.hits
    BY <1>1, <1>2 DEF IsSweep
  <2> HIDE DEF s
  <2>2. QED
    BY <1>1, <2>1, SweepTrueStands
<1>3. ASSUME NEW at \in {"second", "sweeping"}, NEW base, NEW todo, Alike(Site(p).missing) => Learned(base, Site(p).missing),
             sweep' = [sweep EXCEPT ![p].at = at, ![p].base = base, ![p].todo = todo]
      PROVE  SweepTrue'
  <2> DEFINE s == [r EXCEPT !.at = at, !.base = base, !.todo = todo]
  <2>1. sweep' = [sweep EXCEPT ![p] = s]
    BY <1>1, <1>3
  <2>2. s.at = at /\ s.base = base /\ s.hits = r.hits
    BY <1>1 DEF IsSweep
  <2> HIDE DEF s
  <2>3. SweptTrue(s, Site(p))
    BY <1>1, <1>3, <2>2 DEF SweptTrue
  <2>4. QED
    BY <1>1, <2>1, <2>3, SweepTrueGoesOn
<1>4. CASE ClaimRoot(p)
  <2> DEFINE s(at) == [r EXCEPT !.at = at]
  <2>1. \A at \in {"first", "over"} : s(at).at = at /\ s(at).base = r.base /\ s(at).hits = r.hits
    BY <1>1 DEF IsSweep
  <2>2. r.at = "claiming" /\ \E at \in {"first", "over"} : sweep' = [sweep EXCEPT ![p] = s(at)]
    BY <1>1, <1>4 DEF ClaimRoot
  <2> HIDE DEF s
  <2>3. QED
    BY <1>1, <2>1, <2>2, SweepTrueStands
<1>5. CASE LearnBaseline(p)
  <2>1. ASSUME NEW a \in Site(p).missing, r.at \in {"first", "second"}, Alike(Site(p).missing)
        PROVE  Learned(Learn(r.base, a), Site(p).missing)
    <3>1. CASE r.at = "first"
      BY <1>1, <2>1, <3>1, FirstCanaryTeaches DEF SweptTrue
    <3>2. CASE r.at = "second"
      BY <1>1, <2>1, <3>2, SecondCanaryTeaches DEF SweptTrue
    <3>3. QED
      BY <2>1, <3>1, <3>2
  <2>2. r.at = "second" => (Alike(Site(p).missing) => Learned(r.base, Site(p).missing))
    BY <1>1 DEF SweptTrue
  <2>3. \/ \E a \in Site(p).missing :
             \/ sweep' = [sweep EXCEPT ![p].at = "sweeping", ![p].base = Learn(r.base, a), ![p].todo = main]
             \/ sweep' = [sweep EXCEPT ![p].at = "second", ![p].base = Learn(r.base, a)]
        \/ r.at = "second" /\ sweep' = [sweep EXCEPT ![p].at = "sweeping", ![p].base = r.base, ![p].todo = main]
        \/ sweep' = [sweep EXCEPT ![p].at = "over", ![p].clean = FALSE]
    BY <1>5 DEF LearnBaseline
  <2>4. r.at \in {"first", "second"}
    BY <1>5 DEF LearnBaseline
  <2> HIDE DEF main
  <2>5. ASSUME NEW a \in Site(p).missing, sweep' = [sweep EXCEPT ![p].at = "sweeping", ![p].base = Learn(r.base, a), ![p].todo = main]
        PROVE  SweepTrue'
    BY <1>3, <2>1, <2>4, <2>5
  <2>6. ASSUME NEW a \in Site(p).missing, sweep' = [sweep EXCEPT ![p].at = "second", ![p].base = Learn(r.base, a)]
        PROVE  SweepTrue'
    <3>1. sweep' = [sweep EXCEPT ![p].at = "second", ![p].base = Learn(r.base, a), ![p].todo = r.todo]
      BY <1>1, <2>6 DEF IsSweep
    <3>2. QED
      BY <1>3, <2>1, <2>4, <3>1
  <2>7. CASE r.at = "second" /\ sweep' = [sweep EXCEPT ![p].at = "sweeping", ![p].base = r.base, ![p].todo = main]
    BY <1>3, <2>2, <2>7
  <2>8. CASE sweep' = [sweep EXCEPT ![p].at = "over", ![p].clean = FALSE]
    BY <1>2, <2>8
  <2>9. QED
    BY <2>3, <2>5, <2>6, <2>7, <2>8
<1>6. QED
  BY <1>4, <1>5

LEMMA ProbingIsTrue ==
  ASSUME SweepInv, SweepTrue, NEW p \in SweptPages, ProbePath(p) PROVE SweepTrue'
<1> DEFINE r == sweep[p]
           entry == Head(r.todo)
           rest == [sweep EXCEPT ![p].todo = Tail(@), ![p].probed = @ \cup {entry.path}]
<1>1. /\ sweep = [q \in SweptPages |-> sweep[q]] /\ IsSweep(r) /\ SweptTrue(r, Site(p)) /\ r.at = "sweeping"
      /\ standing' = standing /\ disclosed' = disclosed
  BY DEF SweepInv, SweepTrue, ProbePath
<1>2. ASSUME NEW clean, NEW hits, sweep' = [rest EXCEPT ![p].clean = clean, ![p].hits = hits],
             Alike(Site(p).missing) => \A h \in hits \ r.hits : h.verdict = "auth-gated" \/ h.path \in DOMAIN Site(p).served
      PROVE  SweepTrue'
  <2> DEFINE s == [r EXCEPT !.todo = Tail(@), !.probed = @ \cup {entry.path}, !.clean = clean, !.hits = hits]
  <2>1. sweep' = [sweep EXCEPT ![p] = s]
    BY <1>1, <1>2 DEF IsSweep
  <2>2. s.at = r.at /\ s.base = r.base /\ s.hits = hits
    BY <1>1 DEF IsSweep
  <2> HIDE DEF s
  <2>3. SweptTrue(s, Site(p))
    BY <1>1, <1>2, <2>2 DEF SweptTrue
  <2>4. QED
    BY <1>1, <2>1, <2>3, SweepTrueGoesOn
<1>3. CASE sweep' = rest
  <2>1. rest = [rest EXCEPT ![p].clean = r.clean, ![p].hits = r.hits]
    BY <1>1 DEF IsSweep
  <2> HIDE DEF rest, r
  <2>2. QED
    BY Zenon, <1>2, <1>3, <2>1
<1>4. CASE sweep' = [rest EXCEPT ![p].clean = FALSE]
  <2>1. [rest EXCEPT ![p].clean = FALSE] = [rest EXCEPT ![p].clean = FALSE, ![p].hits = r.hits]
    BY <1>1 DEF IsSweep
  <2> HIDE DEF rest, r
  <2>2. QED
    BY <1>2, <1>4, <2>1
<1>5. ASSUME NEW a \in Replies(p, entry.path), NEW verdict, verdict = ClassifyResponse(entry, r.base, a), IsAVerdict(verdict),
             sweep' = [rest EXCEPT ![p].hits = @ \cup { [path |-> entry.path, verdict |-> verdict] }]
      PROVE  SweepTrue'
  <2> DEFINE hit == [path |-> entry.path, verdict |-> verdict]
             hits == r.hits \cup {hit}
  <2>1. [rest EXCEPT ![p].hits = @ \cup {hit}] = [rest EXCEPT ![p].clean = r.clean, ![p].hits = hits]
    BY <1>1 DEF IsSweep
  <2>2. ASSUME Alike(Site(p).missing), entry.path \notin DOMAIN Site(p).served PROVE verdict = "auth-gated"
    <3>1. a \in Site(p).missing
      BY <1>5, <2>2 DEF Replies
    <3>2. Learned(r.base, Site(p).missing)
      BY <1>1, <2>2 DEF SweptTrue
    <3>3. verdict \in {"", "auth-gated"}
      BY Zenon, <1>5, <2>2, <3>1, <3>2, MissIsNoHit
    <3>4. QED
      BY Zenon, <1>5, <3>3 DEF IsAVerdict
  <2>3. hit.path = entry.path /\ hit.verdict = verdict
    OBVIOUS
  <2>4. sweep' = [rest EXCEPT ![p].clean = r.clean, ![p].hits = hits]
    BY <1>5, <2>1
  <2> HIDE DEF hit
  <2>5. Alike(Site(p).missing) => \A h \in hits \ r.hits : h.verdict = "auth-gated" \/ h.path \in DOMAIN Site(p).served
    BY <2>2, <2>3
  <2> HIDE DEF rest, r, hits
  <2>6. QED
    BY <1>2, <2>4, <2>5
<1>6. QED
  <2>1. \/ sweep' = rest
        \/ sweep' = [rest EXCEPT ![p].clean = FALSE]
        \/ \E a \in Replies(p, entry.path) : \E verdict :
             /\ verdict = ClassifyResponse(entry, r.base, a) /\ IsAVerdict(verdict)
             /\ sweep' = [rest EXCEPT ![p].hits = @ \cup { [path |-> entry.path, verdict |-> verdict] }]
    BY Zenon DEF ProbePath, IsAVerdict
  <2> HIDE DEF rest, entry
  <2>2. QED
    BY Zenon, <1>3, <1>4, <1>5, <2>1

LEMMA SweepEndsTrue ==
  ASSUME SweepInv, SweepTrue, NEW p \in SweptPages, EndWave(p) \/ CutSweep(p) PROVE SweepTrue'
<1> DEFINE r == sweep[p]
<1>1. /\ sweep = [q \in SweptPages |-> sweep[q]] /\ IsSweep(r) /\ SweptTrue(r, Site(p)) /\ standing' = standing
      /\ \A f \in disclosed' \ disclosed :
            f.root = RootOfPage(p) /\ \E h \in r.hits : f.path = h.path /\ f.verdict = h.verdict
  BY DEF SweepInv, SweepTrue, EndWave, CutSweep
<1>2. ASSUME NEW s, sweep' = [sweep EXCEPT ![p] = s], s.base = r.base, s.hits = r.hits, s.at \in {r.at, "over"}
      PROVE  SweepTrue'
  BY <1>1, <1>2, SweepTrueStands
<1>3. ASSUME NEW more, sweep' = [sweep EXCEPT ![p].wave = 2, ![p].todo = more]
      PROVE  SweepTrue'
  <2> DEFINE s == [r EXCEPT !.wave = 2, !.todo = more]
  <2>1. sweep' = [sweep EXCEPT ![p] = s] /\ s.at = r.at /\ s.base = r.base /\ s.hits = r.hits
    BY <1>1, <1>3 DEF IsSweep
  <2> HIDE DEF s, r
  <2>2. QED
    BY <1>2, <2>1
<1>4. ASSUME sweep' = [sweep EXCEPT ![p].at = "over", ![p].clean = FALSE]
      PROVE  SweepTrue'
  <2> DEFINE s == [r EXCEPT !.at = "over", !.clean = FALSE]
  <2>1. sweep' = [sweep EXCEPT ![p] = s] /\ s.at = "over" /\ s.base = r.base /\ s.hits = r.hits
    BY <1>1, <1>4 DEF IsSweep
  <2> HIDE DEF s, r
  <2>2. QED
    BY <1>2, <2>1
<1>5. ASSUME sweep' = [sweep EXCEPT ![p].at = "over"]
      PROVE  SweepTrue'
  <2> DEFINE s == [r EXCEPT !.at = "over"]
  <2>1. sweep' = [sweep EXCEPT ![p] = s] /\ s.at = "over" /\ s.base = r.base /\ s.hits = r.hits
    BY <1>1, <1>5 DEF IsSweep
  <2> HIDE DEF s, r
  <2>2. QED
    BY <1>2, <2>1
<1>6. CASE EndWave(p)
  <2>1. \/ \E more : sweep' = [sweep EXCEPT ![p].wave = 2, ![p].todo = more]
        \/ sweep' = [sweep EXCEPT ![p].at = "over"]
    BY <1>6 DEF EndWave
  <2>2. QED
    BY <1>3, <1>5, <2>1
<1>7. CASE CutSweep(p)
  BY <1>4, <1>7 DEF CutSweep
<1>8. QED
  BY <1>6, <1>7

LEMMA SweepStaysTrue == SweepInv /\ SweepTrue /\ [SweepNext]_sweepVars => SweepTrue'
<1> SUFFICES ASSUME SweepInv, SweepTrue, [SweepNext]_sweepVars PROVE SweepTrue'
  OBVIOUS
<1>1. CASE UNCHANGED sweepVars
  BY <1>1 DEF sweepVars, SweepTrue, SweptTrue, SweepEarned, Site
<1>2. QED
  BY <1>1, LearningIsTrue, ProbingIsTrue, SweepEndsTrue DEF SweepNext, SweepStep

-----------------------------------------------------------------------------
GroundsInv == ProbesInv /\ RaceTrue /\ StoredTrue /\ KnownTrue /\ IdTrue /\ SweepTrue

LEMMA GroundsInitially == Init => GroundsInv
BY ProbesInitially, RaceTrueAtFirst, StoredTrueAtFirst, KnownTrueAtFirst, IdTrueAtFirst, SweepTrueAtFirst
   DEF Init, GroundsInv

LEMMA GroundsStay == GroundsInv /\ [Next]_allVars => GroundsInv'
<1> SUFFICES ASSUME GroundsInv, [Next]_allVars PROVE GroundsInv'
  OBVIOUS
<1>1. ProbesInv' /\ ProbesStep
  BY StepIsOfOneProbe, ProbesStepKeeps DEF GroundsInv
<1>2. RaceTrue' /\ StoredTrue' /\ KnownTrue'
  BY <1>1, RaceStaysTrue, StoredStaysTrue, KnownStaysTrue DEF GroundsInv, ProbesInv, ProbesStep
<1>3. IdTrue' /\ SweepTrue'
  BY <1>1, IdStaysTrue, SweepStaysTrue DEF GroundsInv, ProbesInv, ProbesStep
<1>4. QED
  BY <1>1, <1>2, <1>3 DEF GroundsInv

\* What a check reports of a server is so, on any pages and whatever stands behind them: the
\* target of a race answers the requests of a burst differently, and did not merely spend
\* on the first what the second asked for (race-condition); an input is reported once, and
\* one of its payloads came through as it was sent, on the page that showed it
\* (stored-xss); the identifier is answered without a look at whose it is, with more than
\* low confidence only by a record that is somebody else's (idor); the path is served, or
\* answers 401 or 403, where all missing ones look alike (content-discovery); and a
\* document of the host, in scope, says so (the well-known documents).
THEOREM ReportsHaveTheirGrounds == Spec => []ReportsHaveGrounds
<1>1. Init => GroundsInv
  BY GroundsInitially
<1>2. GroundsInv /\ [Next]_allVars => GroundsInv'
  BY GroundsStay
<1>3. GroundsInv => ReportsHaveGrounds
  BY StoredTrueIsEarned DEF GroundsInv, ReportsHaveGrounds, During, RaceTrue, KnownTrue, IdTrue, SweepTrue
<1>4. QED
  BY <1>1, <1>2, <1>3, PTL DEF Spec
=============================================================================
