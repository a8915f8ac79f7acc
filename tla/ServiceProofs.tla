---------------------------- MODULE ServiceProofs ----------------------------
(***************************************************************************)
(* Proofs about what a scan stands on: the stack detector (module          *)
(* Fingerprint) and the proxy pool (module ProxyPool), for every number of *)
(* callers, hosts, probes, sources and requests, and the set-up of a run   *)
(* (module Setup), for every command line, file and build.                 *)
(***************************************************************************)
EXTENDS Fingerprint, ProxyPool, Setup, FiniteSetTheorems, WellFoundedInduction, TLAPS

-----------------------------------------------------------------------------
(* Induction and iteration.  The induction theorems of the library take a   *)
(* predicate; here a set of naturals and a function stand for it, and what  *)
(* is used of the library is that the naturals are well founded.            *)

\* A set of naturals that holds 0, and with a number the next, holds them all.
LEMMA Induction ==
  ASSUME NEW T \in SUBSET Nat, 0 \in T, \A n \in T : n + 1 \in T
  PROVE  \A n \in Nat : n \in T
<1> DEFINE R == OpToRel(<, Nat)
           U == Nat \ T
<1>1. IsWellFoundedOn(R, Nat)
  BY NatLessThanWellFounded
<1>2. \A x, y \in Nat : <<y, x>> \in R <=> y < x
  BY DEF OpToRel
<1> HIDE DEF R
<1>3. SUFFICES ASSUME U # {} PROVE FALSE
  OBVIOUS
<1>4. U \subseteq Nat
  OBVIOUS
<1>5. PICK x \in U : \A y \in U : ~ (<<y, x>> \in R)
  <2> HIDE DEF U
  <2>1. QED
    BY <1>1, <1>3, <1>4, WFMin
<1>6. x \in Nat /\ x # 0 /\ x - 1 \in Nat /\ x - 1 < x
  OBVIOUS
<1>7. x - 1 \in U
  BY <1>6
<1>8. QED
  BY <1>2, <1>5, <1>6, <1>7

\* The first n steps of an iteration.
Begun(n, h, S, base, F) ==
  /\ h \in [0..n -> S] /\ h[0] = base
  /\ \A i \in 0..(n - 1) : h[i + 1] = F[<<i + 1, h[i]>>]

\* An infinite one.
Steps(S) == [Nat \X S -> S]
Iterates(g, S, base, F) ==
  g \in [Nat -> S] /\ g[0] = base /\ \A n \in Nat : g[n + 1] = F[<<n + 1, g[n]>>]

\* A first element and a function that gives the next have an infinite iteration.
LEMMA Iteration ==
  ASSUME NEW S, NEW base \in S, NEW F \in Steps(S)
  PROVE  \E g : Iterates(g, S, base, F)
<1> USE DEF Steps
<1>1. \A n \in Nat : \E h : Begun(n, h, S, base, F)
  <2> DEFINE T == {n \in Nat : \E h : Begun(n, h, S, base, F)}
  <2>1. 0 \in T
    <3>1. Begun(0, [i \in 0..0 |-> base], S, base, F)
      BY DEF Begun
    <3>2. QED
      BY <3>1
  <2>2. ASSUME NEW n \in T PROVE n + 1 \in T
    <3>1. PICK h : Begun(n, h, S, base, F)
      OBVIOUS
    <3>2. n \in Nat
      OBVIOUS
    <3> HIDE DEF T
    <3> DEFINE k == [i \in 0..(n + 1) |-> IF i = n + 1 THEN F[<<n + 1, h[n]>>] ELSE h[i]]
    <3>3. h[n] \in S
      BY <3>1, <3>2 DEF Begun
    <3>4. k \in [0..(n + 1) -> S]
      <4>1. ASSUME NEW i \in 0..(n + 1)
            PROVE  (IF i = n + 1 THEN F[<<n + 1, h[n]>>] ELSE h[i]) \in S
        <5>1. CASE i = n + 1
          BY <3>2, <3>3, <5>1
        <5>2. CASE i # n + 1
          <6>1. i \in 0..n
            BY <3>2, <5>2
          <6>2. QED
            BY <3>1, <5>2, <6>1 DEF Begun
        <5>3. QED
          BY <5>1, <5>2
      <4>2. QED
        BY <4>1
    <3>5. k[0] = base
      BY <3>1, <3>2 DEF Begun
    <3>6. ASSUME NEW i \in 0..n PROVE k[i + 1] = F[<<i + 1, k[i]>>]
      <4>1. i \in 0..(n + 1) /\ i + 1 \in 0..(n + 1) /\ i # n + 1
        BY <3>2
      <4>2. k[i] = h[i]
        BY <4>1
      <4>3. CASE i = n
        BY <4>1, <4>2, <4>3
      <4>4. CASE i # n
        <5>1. i \in 0..(n - 1) /\ i + 1 # n + 1
          BY <3>2, <4>4
        <5>2. h[i + 1] = F[<<i + 1, h[i]>>]
          BY <3>1, <5>1 DEF Begun
        <5>3. QED
          BY <4>1, <4>2, <5>1, <5>2
      <4>5. QED
        BY <4>3, <4>4
    <3>7. Begun(n + 1, k, S, base, F)
      <4> HIDE DEF k
      <4>1. 0..((n + 1) - 1) = 0..n
        BY <3>2
      <4>2. QED
        BY <3>4, <3>5, <3>6, <4>1 DEF Begun
    <3>8. QED
      BY <3>2, <3>7 DEF T
  <2>3. \A n \in Nat : n \in T
    <3> HIDE DEF T
    <3>1. T \in SUBSET Nat
      BY DEF T
    <3>2. QED
      BY <2>1, <2>2, <3>1, Induction
  <2>4. QED
    BY <2>3
\* Two beginnings agree as far as both go.
<1>2. ASSUME NEW n \in Nat, NEW m \in Nat, NEW h, NEW k, n <= m,
             Begun(n, h, S, base, F), Begun(m, k, S, base, F)
      PROVE  \A i \in 0..n : h[i] = k[i]
  <2> DEFINE T == {i \in Nat : i <= n => h[i] = k[i]}
  <2>1. 0 \in T
    BY <1>2 DEF Begun
  <2>2. ASSUME NEW i \in T PROVE i + 1 \in T
    <3>1. i \in Nat /\ i + 1 \in Nat
      OBVIOUS
    <3>2. SUFFICES ASSUME i + 1 <= n PROVE h[i + 1] = k[i + 1]
      BY <3>1
    <3>3. i \in 0..(n - 1) /\ i \in 0..(m - 1) /\ i <= n
      BY <1>2, <3>1, <3>2
    <3>4. h[i] = k[i]
      BY <3>3
    <3>5. QED
      BY <1>2, <3>3, <3>4 DEF Begun
  <2>3. \A i \in Nat : i \in T
    <3> HIDE DEF T
    <3>1. T \in SUBSET Nat
      BY DEF T
    <3>2. QED
      BY <2>1, <2>2, <3>1, Induction
  <2>4. QED
    BY <2>3
<1> DEFINE H == [n \in Nat |-> CHOOSE h : Begun(n, h, S, base, F)]
           g == [n \in Nat |-> H[n][n]]
<1>3. \A n \in Nat : Begun(n, H[n], S, base, F)
  BY <1>1
<1> HIDE DEF H
<1>4. \A n \in Nat : H[n][n] \in S
  BY <1>3 DEF Begun
<1>5. g \in [Nat -> S]
  BY <1>4
<1>6. g[0] = base
  BY <1>3 DEF Begun
<1>7. ASSUME NEW n \in Nat PROVE g[n + 1] = F[<<n + 1, g[n]>>]
  <2>1. n + 1 \in Nat /\ n \in 0..((n + 1) - 1) /\ n \in 0..n /\ n <= n + 1
    OBVIOUS
  <2>2. H[n + 1][n + 1] = F[<<n + 1, H[n + 1][n]>>]
    BY <1>3, <2>1 DEF Begun
  <2>3. H[n][n] = H[n + 1][n]
    BY <1>2, <1>3, <2>1
  <2>4. QED
    BY <2>1, <2>2, <2>3
<1>8. QED
  <2> HIDE DEF g
  <2>1. Iterates(g, S, base, F)
    BY <1>5, <1>6, <1>7 DEF Iterates
  <2>2. QED
    BY <2>1

-----------------------------------------------------------------------------
(* Classification.                                                         *)

\* What the rules can name, and the stacks that can be made of it.
Values ==
  {Unknown} \cup { (RulesFor(a, b)[n].hard @@ RulesFor(a, b)[n].soft)[f] :
                     a \in Answers, b \in BOOLEAN, n \in Nat, f \in Fields }
Stacks == [field : [Fields -> Values], version : [Fields -> Seq(Nat)]]

LEMMA BlankIsAStack == Blank \in Stacks
BY DEF Blank, Stacks, Values

\* A response is put through finitely many rules.
LEMMA RulesAreCounted ==
  ASSUME NEW ans \in Answers, NEW anyBody
  PROVE  Len(RulesFor(ans, anyBody)) \in Nat
<1> DEFINE Found == [i \in DOMAIN ans.cookies |-> CookieRule(ans.cookies[i])]
           A == {HeaderRules[i] : i \in 1..30}
           B == {CookieRule(ans.cookies[i]) : i \in DOMAIN ans.cookies}
           C == {BodyRules[i] : i \in 1..10}
           X == A \cup B \cup C
<1>1. HeaderRules \in Seq(A) /\ Found \in Seq(B) /\ BodyRules \in Seq(C)
  <2>1. HeaderRules = [i \in 1..30 |-> HeaderRules[i]]
    BY DEF HeaderRules
  <2>2. Len(ans.cookies) \in Nat /\ DOMAIN ans.cookies = 1..Len(ans.cookies)
    BY FingerprintAssumption
  <2>3. BodyRules = [i \in 1..10 |-> BodyRules[i]]
    BY DEF BodyRules
  <2>4. HeaderRules \in Seq(A)
    BY <2>1
  <2>5. Found \in Seq(B)
    BY <2>2
  <2>6. BodyRules \in Seq(C)
    BY <2>3
  <2>7. QED
    BY <2>4, <2>5, <2>6
<1> HIDE DEF A, B, C, Found
<1>2. RulesFor(ans, anyBody) \in Seq(X)
  <2>1. HeaderRules \in Seq(X) /\ Found \in Seq(X) /\ BodyRules \in Seq(X) /\ <<>> \in Seq(X)
    BY <1>1
  <2>2. QED
    BY <2>1 DEF RulesFor, Found
<1>3. QED
  BY <1>2

\* A rule makes a stack of a stack.
LEMMA ApplyMakesAStack ==
  ASSUME NEW s \in Stacks, NEW ans \in Answers, NEW b \in BOOLEAN, NEW n \in Nat
  PROVE  Apply(s, RulesFor(ans, b)[n], ans) \in Stacks
<1> DEFINE r == RulesFor(ans, b)[n]
<1>1. CASE r.sign \notin ans.signs \/ (r.guarded /\ s.field["framework"] # Unknown)
  BY <1>1 DEF Apply
<1>2. CASE ~(r.sign \notin ans.signs \/ (r.guarded /\ s.field["framework"] # Unknown))
  <2>1. \A f \in Fields : (r.hard @@ r.soft)[f] \in Values
    BY DEF Values
  <2>2. ans.version[r.sign] \in Seq(Nat)
    BY <1>2, FingerprintAssumption
  <2>3. s.field \in [Fields -> Values] /\ s.version \in [Fields -> Seq(Nat)]
    BY DEF Stacks
  <2> HIDE DEF r
  <2>4. Apply(s, r, ans) \in Stacks
    BY <1>2, <2>1, <2>2, <2>3 DEF Apply, Stacks
  <2>5. QED
    BY <2>4 DEF r
<1>3. QED
  BY <1>1, <1>2

\* What a response is classified as is a stack.
LEMMA ClassifyMakesAStack ==
  ASSUME NEW ans \in Answers, NEW b \in BOOLEAN
  PROVE  Classify(ans, b) \in Stacks
<1> DEFINE F == [p \in Nat \X Stacks |-> Apply(p[2], RulesFor(ans, b)[p[1]], ans)]
<1>1. F \in Steps(Stacks)
  BY ApplyMakesAStack DEF Steps
<1>2. PICK g : Iterates(g, Stacks, Blank, F)
  <2> HIDE DEF F
  <2>1. QED
    BY <1>1, BlankIsAStack, Iteration
<1>3. ASSUME NEW n \in Nat PROVE g[n + 1] = Apply(g[n], RulesFor(ans, b)[n + 1], ans)
  <2>1. <<n + 1, g[n]>> \in Nat \X Stacks
    BY <1>2 DEF Iterates
  <2>2. F[<<n + 1, g[n]>>] = Apply(g[n], RulesFor(ans, b)[n + 1], ans)
    BY <2>1
  <2>3. QED
    BY <1>2, <2>2 DEF Iterates
<1> DEFINE R(h) == [n \in Nat |-> IF n = 0 THEN Blank
                                  ELSE Apply(h[n - 1], RulesFor(ans, b)[n], ans)]
<1>4. g = R(g)
  <2>1. ASSUME NEW n \in Nat PROVE g[n] = R(g)[n]
    <3>1. CASE n = 0
      BY <1>2, <3>1 DEF Iterates
    <3>2. CASE n # 0
      <4>1. n - 1 \in Nat /\ (n - 1) + 1 = n
        BY <3>2
      <4>2. QED
        BY <1>3, <3>2, <4>1
    <3>3. QED
      BY <3>1, <3>2
  <2>2. g = [n \in Nat |-> g[n]]
    BY <1>2 DEF Iterates
  <2>3. QED
    BY <2>1, <2>2
<1>5. Sifted(ans, b) = CHOOSE h : h = R(h)
  BY DEF Sifted
<1>6. Sifted(ans, b) = R(Sifted(ans, b))
  <2> HIDE DEF R
  <2>1. QED
    BY <1>4, <1>5
<1> DEFINE k == Sifted(ans, b)
           T == {n \in Nat : k[n] \in Stacks}
<1>7. \A n \in Nat : k[n] = IF n = 0 THEN Blank ELSE Apply(k[n - 1], RulesFor(ans, b)[n], ans)
  BY <1>6
<1> HIDE DEF k
<1>8. 0 \in T
  BY <1>7, BlankIsAStack
<1>9. ASSUME NEW n \in T PROVE n + 1 \in T
  <2>1. n \in Nat /\ n + 1 \in Nat /\ n + 1 # 0 /\ (n + 1) - 1 = n
    OBVIOUS
  <2>2. k[n + 1] = Apply(k[n], RulesFor(ans, b)[n + 1], ans)
    BY <1>7, <2>1
  <2>3. k[n + 1] \in Stacks
    BY <2>1, <2>2, ApplyMakesAStack
  <2>4. QED
    BY <2>1, <2>3
<1>10. \A n \in Nat : n \in T
  <2> HIDE DEF T
  <2>1. T \in SUBSET Nat
    BY DEF T
  <2>2. QED
    BY <1>8, <1>9, <2>1, Induction
<1>11. QED
  BY <1>10, RulesAreCounted DEF Classify, k

-----------------------------------------------------------------------------
(* The invariant of the detector.                                          *)

DetectTypeOK ==
  /\ phase \in [Asks -> {"idle", "filling", "blocked", "done"}]
  /\ cell \in [Sites -> {"absent", "filling", "full"}]
  /\ stack \in [Sites -> Stacks]
  /\ failed \subseteq Sites
  /\ probe \in [Sites -> Nat]
  /\ given \in [Asks -> Stacks \cup {NoStack}]
  /\ ended \subseteq Asks
  /\ told \in [Sites -> SUBSET Stacks]

\* sync.Once: a host has one filler at most, and none once its cell is full.
OneFiller ==
  \A a \in Asks : phase[a] = "filling" =>
     /\ cell[SiteOf(a)] = "filling"
     /\ \A b \in Asks : phase[b] = "filling" /\ SiteOf(b) = SiteOf(a) => b = a

\* Until the page itself has answered, nothing was said and nothing is known.
NothingYet ==
  \A h \in Sites : cell[h] # "full" /\ probe[h] = 0 => told[h] = {} /\ stack[h] = Blank

\* What is known of a field some response said; a version is not known only if
\* no response gave one.
Said(s, said) ==
  \A f \in Fields :
     /\ s.field[f] # Unknown => \E t \in said : t.field[f] = s.field[f]
     /\ s.version[f] = <<>> => \A t \in said : t.version[f] = <<>>
     /\ s.version[f] # <<>> => \E t \in said : t.version[f] = s.version[f]
StackIsSaid == \A h \in Sites : Said(stack[h], told[h])

\* Who was answered was given what the cell holds.
AnswersAgree ==
  \A a \in Asks : phase[a] = "done" => /\ cell[SiteOf(a)] = "full"
                                       /\ given[a] = stack[SiteOf(a)]

DetectInv == DetectTypeOK /\ OneFiller /\ NothingYet /\ StackIsSaid /\ AnswersAgree

LEMMA DetectInitially == DetectInit => DetectInv
<1> SUFFICES ASSUME DetectInit PROVE DetectInv
  OBVIOUS
<1>1. DetectTypeOK
  BY BlankIsAStack DEF DetectInit, DetectTypeOK
<1>2. OneFiller /\ NothingYet /\ AnswersAgree
  BY FingerprintAssumption DEF DetectInit, OneFiller, NothingYet, AnswersAgree
<1>3. StackIsSaid
  BY DEF DetectInit, StackIsSaid, Said, Blank
<1>4. QED
  BY <1>1, <1>2, <1>3 DEF DetectInv

\* mergeStack makes a stack of two, and what it knows one of them knew.
LEMMA Merging ==
  ASSUME NEW s \in Stacks, NEW t \in Stacks, NEW said, Said(s, said)
  PROVE  /\ MergeStack(s, t) \in Stacks
         /\ Said(MergeStack(s, t), said \cup {t})
<1> DEFINE m == MergeStack(s, t)
<1>1. m \in Stacks
  BY DEF MergeStack, Stacks
<1>2. ASSUME NEW f \in Fields
      PROVE  /\ m.field[f] = IF s.field[f] # Unknown THEN s.field[f] ELSE t.field[f]
             /\ m.version[f] = IF s.version[f] # <<>> THEN s.version[f] ELSE t.version[f]
  BY DEF MergeStack
<1> HIDE DEF m
<1>3. ASSUME NEW f \in Fields
      PROVE  m.field[f] # Unknown => \E u \in said \cup {t} : u.field[f] = m.field[f]
  BY <1>2 DEF Said
<1>4. ASSUME NEW f \in Fields, m.version[f] = <<>>
      PROVE  \A u \in said \cup {t} : u.version[f] = <<>>
  BY <1>2, <1>4 DEF Said
<1>5. ASSUME NEW f \in Fields, m.version[f] # <<>>
      PROVE  \E u \in said \cup {t} : u.version[f] = m.version[f]
  BY <1>2, <1>5 DEF Said
<1>6. Said(m, said \cup {t})
  BY <1>3, <1>4, <1>5 DEF Said
<1>7. QED
  BY <1>1, <1>6 DEF m

\* What the filler of a cell may do: know s of its host after what responses
\* have said, and go on, or leave the cell full.
Goes(a, s, said) ==
  LET h == SiteOf(a) IN
  /\ phase[a] = "filling" /\ s \in Stacks /\ said \in SUBSET Stacks /\ Said(s, said)
  /\ stack' = [stack EXCEPT ![h] = s]
  /\ told' = [told EXCEPT ![h] = said]
  /\ \E n \in Nat :
       /\ probe' = [probe EXCEPT ![h] = n]
       /\ \/ cell' = [cell EXCEPT ![h] = "full"] /\ phase' = [phase EXCEPT ![a] = "blocked"]
          \/ UNCHANGED <<phase, cell, failed>> /\ n > 0
  /\ failed' \in SUBSET (failed \cup {h})
  /\ UNCHANGED <<given, ended>>

LEMMA FillerSteps ==
  ASSUME DetectInv, NEW a \in Asks, Seed(a) \/ SeedFails(a) \/ Probe(a) \/ ProbesEnd(a)
  PROVE  \E s, said : Goes(a, s, said)
<1> DEFINE h == SiteOf(a)
<1>1. h \in Sites /\ stack[h] \in Stacks /\ told[h] \in SUBSET Stacks /\ probe[h] \in Nat /\ Said(stack[h], told[h])
  BY FingerprintAssumption DEF DetectInv, DetectTypeOK, StackIsSaid
<1>2. phase[a] = "filling" /\ cell[h] # "full"
  BY DEF Seed, SeedFails, Probe, ProbesEnd, DetectInv, OneFiller
<1>3. /\ probe[h] = 0 => told[h] = {} /\ stack[h] = Blank
  BY <1>1, <1>2 DEF DetectInv, NothingYet
<1>4. /\ probe = [probe EXCEPT ![h] = probe[h]] /\ told = [told EXCEPT ![h] = told[h]]
      /\ stack = [stack EXCEPT ![h] = stack[h]]
  BY <1>1 DEF DetectInv, DetectTypeOK
<1>5. CASE Seed(a)
  <2>1. PICK ans \in Answers :
          LET s == Classify(ans, FALSE) IN
          /\ told' = [told EXCEPT ![h] = @ \cup {s}]
          /\ IF ShouldFallback(s)
             THEN /\ probe' = [probe EXCEPT ![h] = 1]
                  /\ stack' = [stack EXCEPT ![h] = s]
                  /\ UNCHANGED <<phase, cell, failed>>
             ELSE Fill(a, s, FALSE) /\ UNCHANGED probe
    BY <1>5 DEF Seed
  <2>2. probe[h] = 0 /\ UNCHANGED <<given, ended>>
    BY <1>5 DEF Seed
  <2> DEFINE s == Classify(ans, FALSE)
  <2>3. s \in Stacks
    BY ClassifyMakesAStack
  <2>4. Said(s, {s})
    BY DEF Said
  <2>5. told' = [told EXCEPT ![h] = {s}]
    BY <1>3, <2>1, <2>2
  <2> HIDE DEF s
  <2>6. CASE ShouldFallback(s)
    <3>1. probe' = [probe EXCEPT ![h] = 1] /\ stack' = [stack EXCEPT ![h] = s] /\ UNCHANGED <<phase, cell, failed>>
      BY <2>1, <2>6 DEF s
    <3>2. 1 \in Nat /\ 1 > 0 /\ {s} \in SUBSET Stacks /\ failed' \in SUBSET (failed \cup {h})
      BY <2>3, <3>1
    <3>3. \E n \in Nat :
            /\ probe' = [probe EXCEPT ![h] = n]
            /\ \/ cell' = [cell EXCEPT ![h] = "full"] /\ phase' = [phase EXCEPT ![a] = "blocked"]
               \/ UNCHANGED <<phase, cell, failed>> /\ n > 0
      BY <3>1, <3>2
    <3>4. Goes(a, s, {s})
      BY <1>2, <2>2, <2>3, <2>4, <2>5, <3>1, <3>2, <3>3 DEF Goes
    <3>5. QED
      BY <3>4
  <2>7. CASE ~ShouldFallback(s)
    <3>1. Fill(a, s, FALSE) /\ UNCHANGED probe
      BY <2>1, <2>7 DEF s
    <3>2. Goes(a, s, {s})
      BY <1>1, <1>2, <1>4, <2>2, <2>3, <2>4, <2>5, <3>1 DEF Goes, Fill
    <3>3. QED
      BY <3>2
  <2>8. QED
    BY <2>6, <2>7
<1>6. CASE SeedFails(a)
  <2>1. Said(Blank, {})
    BY DEF Said, Blank
  <2>2. probe[h] = 0 /\ Fill(a, Blank, TRUE) /\ UNCHANGED <<probe, given, ended, told>>
    BY <1>6 DEF SeedFails
  <2>3. Goes(a, Blank, {})
    BY <1>1, <1>2, <1>3, <1>4, <2>1, <2>2, BlankIsAStack DEF Goes, Fill
  <2>4. QED
    BY <2>3
<1>7. CASE Probe(a)
  <2>1. probe[h] \in 1..Probes /\ probe' = [probe EXCEPT ![h] = @ + 1] /\ UNCHANGED <<given, ended>>
    BY <1>7 DEF Probe
  <2>2. /\ probe[h] + 1 \in Nat /\ probe[h] + 1 > 0
        /\ probe' = [probe EXCEPT ![h] = probe[h] + 1]
    BY <1>1, <2>1
  <2>3. CASE UNCHANGED <<phase, cell, stack, failed, told>>
    <3>1. Goes(a, stack[h], told[h])
      BY <1>1, <1>2, <1>4, <2>1, <2>2, <2>3 DEF Goes
    <3>2. QED
      BY <3>1
  <2>4. CASE \E ans \in Answers :
               LET said == Classify(ans, TRUE)
                   s == MergeStack(stack[h], said) IN
               /\ told' = [told EXCEPT ![h] = @ \cup {said}]
               /\ IF ShouldFallback(s)
                  THEN stack' = [stack EXCEPT ![h] = s] /\ UNCHANGED <<phase, cell, failed>>
                  ELSE Fill(a, s, FALSE)
    <3>1. PICK ans \in Answers :
               LET said == Classify(ans, TRUE)
                   s == MergeStack(stack[h], said) IN
               /\ told' = [told EXCEPT ![h] = @ \cup {said}]
               /\ IF ShouldFallback(s)
                  THEN stack' = [stack EXCEPT ![h] = s] /\ UNCHANGED <<phase, cell, failed>>
                  ELSE Fill(a, s, FALSE)
      BY <2>4
    <3> DEFINE t == Classify(ans, TRUE)
               s == MergeStack(stack[h], t)
               u == told[h] \cup {t}
    <3>2. t \in Stacks
      BY ClassifyMakesAStack
    <3>3. s \in Stacks /\ Said(s, u) /\ u \in SUBSET Stacks
      <4> HIDE DEF t
      <4>1. QED
        BY <1>1, <3>2, Merging
    <3>4. told' = [told EXCEPT ![h] = u]
      BY <3>1
    <3>5. CASE ShouldFallback(s)
      <4>1. stack' = [stack EXCEPT ![h] = s] /\ UNCHANGED <<phase, cell, failed>>
        BY <3>1, <3>5
      <4> HIDE DEF s, u
      <4>2. Goes(a, s, u)
        BY <1>2, <2>1, <2>2, <3>3, <3>4, <4>1 DEF Goes
      <4>3. QED
        BY <4>2
    <3>6. CASE ~ShouldFallback(s)
      <4>1. Fill(a, s, FALSE)
        BY <3>1, <3>6
      <4> HIDE DEF s, u
      <4>2. Goes(a, s, u)
        BY <1>1, <1>2, <2>1, <2>2, <3>3, <3>4, <4>1 DEF Goes, Fill
      <4>3. QED
        BY <4>2
    <3>7. QED
      BY <3>5, <3>6
  <2>5. QED
    BY <1>7, <2>3, <2>4 DEF Probe
<1>8. CASE ProbesEnd(a)
  <2>1. Fill(a, stack[h], FALSE) /\ UNCHANGED <<probe, given, ended, told>>
    BY <1>8 DEF ProbesEnd
  <2>2. Goes(a, stack[h], told[h])
    BY <1>1, <1>2, <1>4, <2>1 DEF Goes, Fill
  <2>3. QED
    BY <2>2
<1>9. QED
  BY <1>5, <1>6, <1>7, <1>8

LEMMA GoingOn ==
  ASSUME DetectInv, NEW a \in Asks, NEW s, NEW said, Goes(a, s, said)
  PROVE  DetectInv'
<1> DEFINE h == SiteOf(a)
<1>1. h \in Sites /\ cell[h] = "filling"
  BY FingerprintAssumption DEF DetectInv, OneFiller, Goes
<1>2. PICK n \in Nat :
         /\ probe' = [probe EXCEPT ![h] = n]
         /\ \/ cell' = [cell EXCEPT ![h] = "full"] /\ phase' = [phase EXCEPT ![a] = "blocked"]
            \/ UNCHANGED <<phase, cell, failed>> /\ n > 0
  BY DEF Goes
<1>3. /\ phase[a] = "filling" /\ s \in Stacks /\ said \in SUBSET Stacks /\ Said(s, said)
      /\ stack' = [stack EXCEPT ![h] = s] /\ told' = [told EXCEPT ![h] = said]
      /\ failed' \in SUBSET (failed \cup {h}) /\ given' = given /\ ended' = ended
  BY DEF Goes
<1>4. \/ cell' = [cell EXCEPT ![h] = "full"] /\ phase' = [phase EXCEPT ![a] = "blocked"]
      \/ cell' = cell /\ phase' = phase
  BY <1>2
<1>5. DetectTypeOK'
  BY <1>1, <1>2, <1>3, <1>4 DEF DetectInv, DetectTypeOK
<1>6. ASSUME NEW k \in Sites, k # h
      PROVE  /\ stack'[k] = stack[k] /\ told'[k] = told[k] /\ probe'[k] = probe[k]
             /\ cell'[k] = cell[k]
  BY <1>1, <1>2, <1>3, <1>4, <1>6 DEF DetectInv, DetectTypeOK
<1>7. stack'[h] = s /\ told'[h] = said /\ probe'[h] = n
  BY <1>1, <1>2, <1>3 DEF DetectInv, DetectTypeOK
<1>8. ASSUME NEW b \in Asks, b # a PROVE phase'[b] = phase[b]
  BY <1>4, <1>8 DEF DetectInv, DetectTypeOK
<1>9. OneFiller'
  <2>1. SUFFICES ASSUME NEW b \in Asks, phase'[b] = "filling"
                 PROVE  /\ cell'[SiteOf(b)] = "filling"
                        /\ \A c \in Asks : phase'[c] = "filling" /\ SiteOf(c) = SiteOf(b) => c = b
    BY DEF OneFiller
  <2>2. ASSUME NEW c \in Asks, phase'[c] = "filling" PROVE phase[c] = "filling"
    BY <1>3, <1>8, <2>2
  <2>3. cell[SiteOf(b)] = "filling" /\ SiteOf(b) \in Sites
    BY <2>1, <2>2, FingerprintAssumption DEF DetectInv, OneFiller
  <2>4. cell'[SiteOf(b)] = "filling"
    <3>1. CASE b = a
      <4>1. phase' # [phase EXCEPT ![a] = "blocked"]
        BY <2>1, <3>1 DEF DetectInv, DetectTypeOK
      <4>2. QED
        BY <1>4, <2>3, <4>1
    <3>2. CASE b # a
      <4>1. SiteOf(b) # h
        BY <1>3, <2>1, <2>2, <3>2 DEF DetectInv, OneFiller
      <4>2. QED
        BY <1>6, <2>3, <4>1
    <3>3. QED
      BY <3>1, <3>2
  <2>5. QED
    BY <2>1, <2>2, <2>4 DEF DetectInv, OneFiller
<1>10. NothingYet'
  <2>1. SUFFICES ASSUME NEW k \in Sites, cell'[k] # "full", probe'[k] = 0
                 PROVE  told'[k] = {} /\ stack'[k] = Blank
    BY DEF NothingYet
  <2>2. CASE k = h
    <3>1. cell' # [cell EXCEPT ![h] = "full"]
      BY <1>1, <2>1, <2>2 DEF DetectInv, DetectTypeOK
    <3>2. n > 0
      BY <1>2, <3>1
    <3>3. QED
      BY <1>7, <2>1, <2>2, <3>2
  <2>3. CASE k # h
    BY <1>6, <2>1, <2>3 DEF DetectInv, NothingYet
  <2>4. QED
    BY <2>2, <2>3
<1>11. StackIsSaid'
  <2>1. SUFFICES ASSUME NEW k \in Sites PROVE Said(stack'[k], told'[k])
    BY DEF StackIsSaid
  <2>2. QED
    BY <1>3, <1>6, <1>7 DEF DetectInv, StackIsSaid
<1>12. AnswersAgree'
  <2>1. SUFFICES ASSUME NEW b \in Asks, phase'[b] = "done"
                 PROVE  cell'[SiteOf(b)] = "full" /\ given'[b] = stack'[SiteOf(b)]
    BY DEF AnswersAgree
  <2>2. b # a
    BY <1>3, <1>4, <2>1 DEF DetectInv, DetectTypeOK
  <2>3. phase[b] = "done" /\ cell[SiteOf(b)] = "full" /\ given[b] = stack[SiteOf(b)] /\ SiteOf(b) \in Sites
    BY <1>8, <2>1, <2>2, FingerprintAssumption DEF DetectInv, AnswersAgree
  <2>4. SiteOf(b) # h
    BY <1>1, <2>3
  <2>5. QED
    BY <1>3, <1>6, <2>3, <2>4
<1>13. QED
  BY <1>5, <1>9, <1>10, <1>11, <1>12 DEF DetectInv

LEMMA Asking ==
  ASSUME DetectInv, NEW a \in Asks, Ask(a)
  PROVE  DetectInv'
<1> DEFINE h == SiteOf(a)
<1>1. h \in Sites /\ phase[a] = "idle"
  BY FingerprintAssumption DEF Ask
<1>2. /\ phase' = [phase EXCEPT ![a] = IF cell[h] = "absent" THEN "filling" ELSE "blocked"]
      /\ cell' = [cell EXCEPT ![h] = IF cell[h] = "absent" THEN "filling" ELSE cell[h]]
  BY DEF Ask
<1>3. UNCHANGED <<stack, failed, probe, given, ended, told>>
  BY DEF Ask
<1>4. DetectTypeOK'
  BY <1>1, <1>2, <1>3 DEF DetectInv, DetectTypeOK
<1>5. ASSUME NEW k \in Sites
      PROVE  cell'[k] = cell[k] \/ (k = h /\ cell[k] = "absent" /\ cell'[k] = "filling")
  BY <1>1, <1>2 DEF DetectInv, DetectTypeOK
<1>6. ASSUME NEW b \in Asks
      PROVE  \/ phase'[b] = phase[b] /\ b # a
             \/ b = a /\ phase'[b] = "filling" /\ cell[h] = "absent" /\ cell'[h] = "filling"
             \/ b = a /\ phase'[b] = "blocked"
  BY <1>1, <1>2 DEF DetectInv, DetectTypeOK
<1>7. \A b \in Asks : SiteOf(b) \in Sites
  BY FingerprintAssumption
<1>8. OneFiller'
  <2>1. SUFFICES ASSUME NEW b \in Asks, phase'[b] = "filling"
                 PROVE  /\ cell'[SiteOf(b)] = "filling"
                        /\ \A c \in Asks : phase'[c] = "filling" /\ SiteOf(c) = SiteOf(b) => c = b
    BY DEF OneFiller
  <2>2. \A c \in Asks : phase[c] = "filling" => cell[SiteOf(c)] = "filling"
    BY DEF DetectInv, OneFiller
  <2>3. cell'[SiteOf(b)] = "filling"
    BY <1>5, <1>6, <1>7, <2>1, <2>2
  <2>4. ASSUME NEW c \in Asks, phase'[c] = "filling", SiteOf(c) = SiteOf(b) PROVE c = b
    <3>1. CASE b = a
      BY <1>6, <2>1, <2>2, <2>4, <3>1
    <3>2. CASE c = a
      BY <1>6, <2>1, <2>2, <2>4, <3>2
    <3>3. CASE b # a /\ c # a
      BY <1>6, <2>1, <2>4, <3>3 DEF DetectInv, OneFiller
    <3>4. QED
      BY <3>1, <3>2, <3>3
  <2>5. QED
    BY <2>3, <2>4
<1>9. NothingYet'
  BY <1>3, <1>5 DEF DetectInv, NothingYet
<1>10. StackIsSaid'
  BY <1>3 DEF DetectInv, StackIsSaid
<1>11. AnswersAgree'
  BY <1>3, <1>5, <1>6, <1>7 DEF DetectInv, AnswersAgree
<1>12. QED
  BY <1>4, <1>8, <1>9, <1>10, <1>11 DEF DetectInv

LEMMA Returning ==
  ASSUME DetectInv, NEW a \in Asks, Return(a)
  PROVE  DetectInv'
<1>1. /\ phase[a] = "blocked" /\ cell[SiteOf(a)] = "full" /\ SiteOf(a) \in Sites
      /\ given' = [given EXCEPT ![a] = stack[SiteOf(a)]]
      /\ phase' = [phase EXCEPT ![a] = "done"]
      /\ UNCHANGED <<cell, stack, failed, probe, ended, told>>
  BY FingerprintAssumption DEF Return
<1>2. DetectTypeOK'
  BY <1>1 DEF DetectInv, DetectTypeOK
<1>3. ASSUME NEW b \in Asks
      PROVE  \/ b # a /\ phase'[b] = phase[b] /\ given'[b] = given[b]
             \/ b = a /\ phase'[b] = "done" /\ given'[b] = stack[SiteOf(b)]
  BY <1>1 DEF DetectInv, DetectTypeOK
<1>4. OneFiller'
  BY <1>1, <1>3 DEF DetectInv, OneFiller
<1>5. NothingYet' /\ StackIsSaid'
  BY <1>1 DEF DetectInv, NothingYet, StackIsSaid
<1>6. AnswersAgree'
  BY <1>1, <1>3 DEF DetectInv, AnswersAgree
<1>7. QED
  BY <1>2, <1>4, <1>5, <1>6 DEF DetectInv

LEMMA DetectStep == DetectInv /\ [DetectNext]_detectVars => DetectInv'
<1> SUFFICES ASSUME DetectInv, [DetectNext]_detectVars PROVE DetectInv'
  OBVIOUS
<1>1. ASSUME NEW a \in Asks, Seed(a) \/ SeedFails(a) \/ Probe(a) \/ ProbesEnd(a)
      PROVE  DetectInv'
  <2>1. PICK s, said : Goes(a, s, said)
    BY <1>1, FillerSteps
  <2>2. QED
    BY <2>1, GoingOn
<1>2. ASSUME NEW a \in Asks, ContextEnds(a) PROVE DetectInv'
  BY <1>2 DEF ContextEnds, DetectInv, DetectTypeOK, OneFiller, NothingYet, StackIsSaid, AnswersAgree
<1>3. CASE UNCHANGED detectVars
  BY <1>3 DEF detectVars, DetectInv, DetectTypeOK, OneFiller, NothingYet, StackIsSaid, AnswersAgree
<1>4. QED
  BY <1>1, <1>2, <1>3, Asking, Returning DEF DetectNext

LEMMA DetectInvariant == DetectSpec => []DetectInv
BY DetectInitially, DetectStep, PTL DEF DetectSpec

\* The workers that meet on a host are all told the same, and none before the
\* detection has ended: every step of a detection is a step of the cells that
\* are filled once, or none at all (Detector.Detect, detector.go).
THEOREM DetectorImplements == DetectSpec => ImplementsOnceCell
<1> DEFINE shown == [h \in Sites |-> IF cell[h] = "full" THEN <<stack[h]>> ELSE <<>>]
           had == [a \in Asks |-> IF phase[a] = "done" THEN <<given[a]>> ELSE <<>>]
<1>1. DetectInit => Once!Init
  BY FingerprintAssumption DEF DetectInit, Once!Init
<1>2. ASSUME DetectInv, DetectInv', [DetectNext]_detectVars
      PROVE  [Once!Next]_<<shown, had>>
  <2>1. ASSUME NEW a \in Asks, Seed(a) \/ SeedFails(a) \/ Probe(a) \/ ProbesEnd(a)
        PROVE  [Once!Next]_<<shown, had>>
    <3> DEFINE h == SiteOf(a)
    <3>1. PICK s, said : Goes(a, s, said)
      BY <1>2, <2>1, FillerSteps
    <3>2. h \in Sites /\ cell[h] = "filling" /\ phase[a] = "filling"
      BY <1>2, <3>1, FingerprintAssumption DEF DetectInv, OneFiller, Goes
    <3>3. stack' = [stack EXCEPT ![h] = s] /\ given' = given
      BY <3>1 DEF Goes
    <3>4. \/ cell' = [cell EXCEPT ![h] = "full"] /\ phase' = [phase EXCEPT ![a] = "blocked"]
          \/ cell' = cell /\ phase' = phase
      BY <3>1 DEF Goes
    <3>5. had' = had
      <4>1. \A b \in Asks : phase'[b] = "done" <=> phase[b] = "done"
        BY <1>2, <3>2, <3>4 DEF DetectInv, DetectTypeOK
      <4>2. QED
        BY <3>3, <4>1
    <3>6. \A k \in Sites \ {h} : stack'[k] = stack[k] /\ cell'[k] = cell[k]
      BY <1>2, <3>2, <3>3, <3>4 DEF DetectInv, DetectTypeOK
    <3>7. \A k \in Sites \ {h} : shown'[k] = shown[k]
      BY <3>6
    <3>8. shown[h] = <<>>
      BY <3>2
    <3>9. CASE cell' = [cell EXCEPT ![h] = "full"]
      <4>1. cell'[h] = "full"
        BY <1>2, <3>2, <3>9 DEF DetectInv, DetectTypeOK
      <4>2. shown'[h] = <<stack'[h]>>
        BY <3>2, <4>1
      <4>3. shown'[h] # <<>>
        BY <4>2
      <4>4. shown' = [shown EXCEPT ![h] = shown'[h]]
        BY <3>2, <3>7
      <4>5. Once!Fill(h)
        BY <3>5, <3>8, <4>3, <4>4 DEF Once!Fill
      <4>6. QED
        BY <3>2, <4>5 DEF Once!Next
    <3>10. CASE cell' = cell
      <4>1. shown'[h] = <<>>
        BY <3>2, <3>10
      <4>2. shown' = shown
        BY <3>7, <3>8, <4>1
      <4>3. QED
        BY <3>5, <4>2
    <3>11. QED
      BY <3>4, <3>9, <3>10
  <2>2. ASSUME NEW a \in Asks, Ask(a) PROVE [Once!Next]_<<shown, had>>
    <3>1. \A k \in Sites : cell'[k] = "full" <=> cell[k] = "full"
      BY <1>2, <2>2 DEF Ask, DetectInv, DetectTypeOK
    <3>2. \A b \in Asks : phase'[b] = "done" <=> phase[b] = "done"
      BY <1>2, <2>2 DEF Ask, DetectInv, DetectTypeOK
    <3>3. stack' = stack /\ given' = given
      BY <2>2 DEF Ask
    <3>4. shown' = shown /\ had' = had
      BY <3>1, <3>2, <3>3
    <3>5. QED
      BY <3>4
  <2>3. ASSUME NEW a \in Asks, Return(a) PROVE [Once!Next]_<<shown, had>>
    <3>1. /\ phase[a] = "blocked" /\ cell[SiteOf(a)] = "full" /\ SiteOf(a) \in Sites
          /\ given' = [given EXCEPT ![a] = stack[SiteOf(a)]]
          /\ phase' = [phase EXCEPT ![a] = "done"] /\ cell' = cell /\ stack' = stack
      BY <2>3, FingerprintAssumption DEF Return
    <3>2. shown' = shown
      BY <3>1
    <3>3. shown[SiteOf(a)] = <<stack[SiteOf(a)]>> /\ shown[SiteOf(a)] # <<>>
      BY <3>1
    <3>4. had[a] = <<>>
      BY <3>1
    <3>5. \A b \in Asks \ {a} : phase'[b] = phase[b] /\ given'[b] = given[b]
      BY <1>2, <3>1 DEF DetectInv, DetectTypeOK
    <3>6. phase'[a] = "done" /\ given'[a] = stack[SiteOf(a)]
      BY <1>2, <3>1 DEF DetectInv, DetectTypeOK
    <3>7. had' = [had EXCEPT ![a] = shown[SiteOf(a)]]
      BY <3>3, <3>5, <3>6
    <3>8. Once!Read(a)
      BY <3>2, <3>3, <3>4, <3>7 DEF Once!Read
    <3>9. QED
      BY <3>8 DEF Once!Next
  <2>4. ASSUME NEW a \in Asks, ContextEnds(a) PROVE [Once!Next]_<<shown, had>>
    BY <2>4 DEF ContextEnds
  <2>5. CASE UNCHANGED detectVars
    BY <2>5 DEF detectVars
  <2>6. QED
    BY <1>2, <2>1, <2>2, <2>3, <2>4, <2>5 DEF DetectNext
<1>3. QED
  BY <1>1, <1>2, DetectInvariant, PTL DEF DetectSpec, ImplementsOnceCell, Once!Spec

-----------------------------------------------------------------------------
(* Verdicts.                                                               *)

\* A version that compareVersions puts no lower than another is not below it.
LEMMA ComparisonDecides ==
  ASSUME NEW v \in Seq(Nat), NEW w \in Seq(Nat), CompareVersions(v, w) >= 0
  PROVE  ~Below(v, w)
<1> DEFINE n == IF Len(v) > Len(w) THEN Len(v) ELSE Len(w)
           at(u, i) == IF i <= Len(u) THEN u[i] ELSE 0
           differ == {i \in 1..n : at(v, i) # at(w, i)}
           lowest(i) == \A j \in differ : i <= j
           first == CHOOSE i \in differ : lowest(i)
<1>1. CompareVersions(v, w) = IF differ = {} THEN 0 ELSE IF at(v, first) < at(w, first) THEN -1 ELSE 1
  BY DEF CompareVersions
<1>2. /\ Len(v) \in Nat /\ Len(w) \in Nat /\ DOMAIN v = 1..Len(v) /\ DOMAIN w = 1..Len(w)
      /\ n \in Nat /\ n >= Len(v) /\ n >= Len(w)
  OBVIOUS
<1>3. \A i \in Nat \ {0} : /\ at(v, i) = IF i \in DOMAIN v THEN v[i] ELSE 0
                           /\ at(w, i) = IF i \in DOMAIN w THEN w[i] ELSE 0
  BY <1>2
<1>4. SUFFICES ASSUME Below(v, w) PROVE FALSE
  OBVIOUS
<1> HIDE DEF at, n
<1>5. PICK i \in DOMAIN v \cup DOMAIN w :
        /\ (IF i \in DOMAIN v THEN v[i] ELSE 0) < (IF i \in DOMAIN w THEN w[i] ELSE 0)
        /\ \A j \in 1..(i - 1) : (IF j \in DOMAIN v THEN v[j] ELSE 0) = (IF j \in DOMAIN w THEN w[j] ELSE 0)
  BY <1>4 DEF Below
<1>6. i \in Nat \ {0} /\ i \in 1..n
  BY <1>2
<1>7. at(v, i) < at(w, i) /\ \A j \in 1..(i - 1) : at(v, j) = at(w, j)
  BY <1>3, <1>5, <1>6
<1>8. at(v, i) \in Nat /\ at(w, i) \in Nat
  BY <1>2, <1>3, <1>6
<1>9. i \in differ
  BY <1>6, <1>7, <1>8
<1>10. lowest(i)
  <2>1. SUFFICES ASSUME NEW j \in differ PROVE i <= j
    OBVIOUS
  <2>2. j \in 1..n /\ j \in Nat /\ at(v, j) # at(w, j)
    BY <1>2
  <2>3. j \notin 1..(i - 1)
    BY <1>7, <2>2
  <2>4. QED
    BY <1>6, <2>2, <2>3
<1>11. \A j \in differ : j \in Nat
  BY <1>2
<1> HIDE DEF differ
<1>12. \A j \in differ : lowest(j) => j = i
  <2>1. SUFFICES ASSUME NEW j \in differ, lowest(j) PROVE j = i
    OBVIOUS
  <2>2. j <= i /\ i <= j
    BY <1>9, <1>10, <2>1
  <2>3. QED
    BY <1>6, <1>11, <2>2
<1> HIDE DEF lowest
<1>13. first = i
  BY <1>9, <1>10, <1>12
<1>14. CompareVersions(v, w) = -1
  BY <1>1, <1>7, <1>9, <1>13
<1>15. QED
  BY <1>14

\* What the engine concludes from a stack is grounded in what the host said: a
\* check is kept from it only for a product that some response named, a version
\* is called unknown only if no response gave one, and patched only if one gave
\* a version as high (AppliesSpec.Matches, PatchedIn.Infer).
THEOREM VerdictsHold == DetectSpec => []VerdictsAreGrounded
<1>1. ASSUME DetectInv PROVE VerdictsAreGrounded
  <2>1. SUFFICES ASSUME NEW a \in Asks, phase[a] = "done"
        PROVE  /\ \A g \in Gates : ~Matches(g, a) =>
                     \E f \in Fields, t \in told[SiteOf(a)] :
                        t.field[f] \notin g[f] \cup {Unknown} /\ g[f] # {}
               /\ \A f \in Fields :
                     /\ Infer(given[a], f) = "inferred" =>
                           \A t \in told[SiteOf(a)] : t.version[f] = <<>>
                     /\ Infer(given[a], f) = "patched_but_fired" =>
                           \E t \in told[SiteOf(a)] : t.version[f] # <<>> /\ ~Below(t.version[f], Patched)
    BY DEF VerdictsAreGrounded
  <2> DEFINE h == SiteOf(a)
             s == given[a]
  <2>2. h \in Sites /\ s = stack[h] /\ s \in Stacks /\ Said(s, told[h])
    BY <1>1, <2>1, FingerprintAssumption DEF DetectInv, AnswersAgree, DetectTypeOK, StackIsSaid
  <2> HIDE DEF s
  <2>3. ASSUME NEW g \in Gates, ~Matches(g, a)
        PROVE  \E f \in Fields, t \in told[h] : t.field[f] \notin g[f] \cup {Unknown} /\ g[f] # {}
    <3>1. PICK f \in Fields : ~Pass(s.field[f], g[f])
      BY <2>3 DEF Matches, s
    <3>2. g[f] # {} /\ s.field[f] # Unknown /\ s.field[f] \notin g[f]
      BY <3>1 DEF Pass
    <3>3. PICK t \in told[h] : t.field[f] = s.field[f]
      BY <2>2, <3>2 DEF Said
    <3>4. QED
      BY <3>2, <3>3
  <2>4. ASSUME NEW f \in Fields, Infer(s, f) = "inferred"
        PROVE  \A t \in told[h] : t.version[f] = <<>>
    <3>1. s.version[f] = <<>>
      BY <2>4 DEF Infer
    <3>2. QED
      BY <2>2, <3>1 DEF Said
  <2>5. ASSUME NEW f \in Fields, Infer(s, f) = "patched_but_fired"
        PROVE  \E t \in told[h] : t.version[f] # <<>> /\ ~Below(t.version[f], Patched)
    <3>1. s.version[f] # <<>> /\ CompareVersions(s.version[f], Patched) >= 0
      BY <2>5 DEF Infer
    <3>2. PICK t \in told[h] : t.version[f] = s.version[f]
      BY <2>2, <3>1 DEF Said
    <3>3. s.version[f] \in Seq(Nat)
      BY <2>2 DEF Stacks
    <3>4. ~Below(s.version[f], Patched)
      BY <3>1, <3>3, ComparisonDecides, FingerprintAssumption
    <3>5. QED
      BY <3>1, <3>2, <3>4
  <2>6. QED
    BY <2>3, <2>4, <2>5 DEF s
<1>2. QED
  BY <1>1, DetectInvariant, PTL

-----------------------------------------------------------------------------
(* The list of proxies.                                                    *)

\* Lists without repetition.
Lists(X) == {s \in Seq(X) : \A i, j \in 1..Len(s) : s[i] = s[j] => i = j}

\* One more url, if the list does not hold it.
LEMMA Listing ==
  ASSUME NEW X, NEW s \in Lists(X), NEW u \in X, ~Contains(s, u)
  PROVE  Append(s, u) \in Lists(X)
<1> DEFINE r == Append(s, u)
<1>1. /\ s \in Seq(X) /\ Len(s) \in Nat /\ \A i \in 1..Len(s) : s[i] # u
      /\ \A i, j \in 1..Len(s) : s[i] = s[j] => i = j
  BY DEF Lists, Contains
<1>2. /\ r \in Seq(X) /\ Len(r) = Len(s) + 1 /\ r[Len(s) + 1] = u
      /\ \A i \in 1..Len(s) : r[i] = s[i]
  BY <1>1
<1> HIDE DEF r
<1>3. ASSUME NEW i \in 1..Len(r), NEW j \in 1..Len(r), r[i] = r[j] PROVE i = j
  <2>1. i \in 1..Len(s) \/ i = Len(s) + 1
    BY <1>1, <1>2
  <2>2. j \in 1..Len(s) \/ j = Len(s) + 1
    BY <1>1, <1>2
  <2>3. QED
    BY <1>1, <1>2, <1>3, <2>1, <2>2
<1>4. r \in Lists(X)
  BY <1>2, <1>3 DEF Lists
<1>5. QED
  BY <1>4 DEF r

\* What is put together from urls of X is a list of X, after every one of them.
LEMMA FirstsAreListed ==
  ASSUME NEW X, NEW urls, NEW places, \A n \in places : urls[n] \in X
  PROVE  \A n \in Nat : Firsts(urls, places)[n] \in Lists(X)
<1> DEFINE S == Lists(X)
           next(s, n) == IF n \notin places \/ Contains(s, urls[n]) THEN s ELSE Append(s, urls[n])
           F == [p \in Nat \X S |-> next(p[2], p[1])]
           R(h) == [n \in Nat |-> IF n = 0 THEN <<>>
                                  ELSE IF n \notin places \/ Contains(h[n - 1], urls[n]) THEN h[n - 1]
                                  ELSE Append(h[n - 1], urls[n])]
<1>1. <<>> \in S
  BY DEF Lists
<1>2. ASSUME NEW s \in S, NEW n \in Nat PROVE next(s, n) \in S
  BY <1>2, Listing
<1> HIDE DEF S
<1>3. F \in Steps(S)
  <2> HIDE DEF next
  <2>1. QED
    BY <1>2 DEF Steps
<1>4. PICK g : Iterates(g, S, <<>>, F)
  <2> HIDE DEF F
  <2>1. QED
    BY <1>1, <1>3, Iteration
<1>5. g = [n \in Nat |-> g[n]] /\ g[0] = <<>> /\ \A n \in Nat : g[n] \in S
  BY <1>4 DEF Iterates
<1>6. ASSUME NEW n \in Nat PROVE g[n + 1] = next(g[n], n + 1)
  <2>1. <<n + 1, g[n]>> \in Nat \X S
    BY <1>5
  <2>2. F[<<n + 1, g[n]>>] = next(g[n], n + 1)
    <3> HIDE DEF next
    <3>1. QED
      BY <2>1
  <2>3. QED
    BY <1>4, <2>2 DEF Iterates
<1> HIDE DEF F
<1>7. g = R(g)
  <2>1. ASSUME NEW n \in Nat PROVE g[n] = R(g)[n]
    <3>1. CASE n = 0
      BY <1>5, <3>1
    <3>2. CASE n # 0
      <4>1. n - 1 \in Nat /\ (n - 1) + 1 = n
        BY <3>2
      <4>2. g[n] = next(g[n - 1], n)
        BY <1>6, <4>1
      <4>3. QED
        BY <3>2, <4>2
    <3>3. QED
      BY <3>1, <3>2
  <2>2. R(g) = [n \in Nat |-> R(g)[n]]
    OBVIOUS
  <2> HIDE DEF R
  <2>3. QED
    BY <1>5, <2>1, <2>2
<1> DEFINE k == Firsts(urls, places)
           T == {n \in Nat : k[n] \in S}
<1>8. k = CHOOSE h : h = R(h)
  BY DEF Firsts
<1>9. k = R(k)
  <2> HIDE DEF R, k
  <2>1. QED
    BY <1>7, <1>8
<1> HIDE DEF k
<1>10. k[0] = <<>> /\ \A n \in Nat : k[n + 1] = next(k[n], n + 1)
  <2>1. \A n \in Nat : k[n] = R(k)[n]
    BY <1>9
  <2>2. k[0] = <<>>
    BY <2>1
  <2>3. ASSUME NEW n \in Nat PROVE k[n + 1] = next(k[n], n + 1)
    <3>1. n + 1 \in Nat /\ n + 1 # 0 /\ (n + 1) - 1 = n
      OBVIOUS
    <3>2. k[n + 1] = R(k)[n + 1]
      BY <2>1, <3>1
    <3>3. QED
      BY <3>1, <3>2
  <2>4. QED
    BY <2>2, <2>3
<1>11. 0 \in T
  BY <1>1, <1>10
<1>12. ASSUME NEW n \in T PROVE n + 1 \in T
  <2>1. n \in Nat /\ n + 1 \in Nat /\ k[n] \in S
    OBVIOUS
  <2> HIDE DEF next
  <2>2. next(k[n], n + 1) \in S
    BY <1>2, <2>1
  <2>3. QED
    BY <1>10, <2>1, <2>2
<1>13. \A n \in Nat : n \in T
  <2> HIDE DEF T
  <2>1. T \in SUBSET Nat
    BY DEF T
  <2>2. QED
    BY <1>11, <1>12, <2>1, Induction
<1>14. QED
  BY <1>13 DEF S, k

\* Deduped and Urls make lists of sequences.
LEMMA DedupedIsAList ==
  ASSUME NEW X, NEW urls \in Seq(X)
  PROVE  Deduped(urls) \in Lists(X)
<1>1. Len(urls) \in Nat /\ \A n \in DOMAIN urls : urls[n] \in X
  OBVIOUS
<1>2. QED
  BY <1>1, FirstsAreListed DEF Deduped

LEMMA UrlsAreAList ==
  ASSUME NEW X, NEW lines \in Seq(Lines), \A l \in Lines : LineOf(l).url \in X
  PROVE  Urls(lines) \in Lists(X)
<1> DEFINE urls == [i \in DOMAIN lines |-> LineOf(lines[i]).url]
<1>1. Len(lines) \in Nat /\ \A n \in DOMAIN lines : lines[n] \in Lines
  OBVIOUS
<1>2. \A n \in Read(lines) : urls[n] \in X
  BY <1>1 DEF Read
<1> HIDE DEF urls
<1>3. Firsts(urls, Read(lines))[Len(lines)] \in Lists(X)
  BY <1>1, <1>2, FirstsAreListed
<1>4. QED
  BY <1>3 DEF Urls, urls

-----------------------------------------------------------------------------
(* The invariant of the pool.                                              *)

Named == {LineOf(l).url : l \in Lines} \cup UNION {Range(Listed[s]) : s \in Sources}

PoolTypeOK ==
  /\ pool \in {"loading", "scraping", "ready", "refused"}
  /\ entries \in Lists(Named) /\ scraped \in Lists(Named)
  /\ waiting \subseteq Sources
  /\ pool = "ready" => count \in [Entries -> [requests : Nat, successes : Nat, blocks : Nat, errors : Nat]]
  /\ DOMAIN trip = Trips

\* Where a request can be: one that chooses has compared the entries before the
\* next one, of two or more, and one that was sent went through an entry.
Fits(x) ==
  \/ x = Idle
  \/ /\ x.at = "scoring"
     /\ x = [at |-> "scoring", next |-> x.next, best |-> x.best, score |-> x.score,
             n |-> x.n, calm |-> x.calm]
     /\ Len(entries) > 1
     /\ x.next \in 1..(Len(entries) + 1)
     /\ x.next > 1 => x.best \in 1..(x.next - 1)
     /\ x.n = -1 \/ (x.n \in Nat /\ x.next \in Entries)
     /\ x.score \in Nat \X (Nat \ {0})
  \/ /\ x.at = "sent"
     /\ x = [at |-> "sent", entry |-> x.entry, calm |-> x.calm] /\ x.entry \in Entries
  \/ x = [at |-> "done", entry |-> 0]
  \/ /\ x.at \in {"recording", "done"} /\ x.entry \in Entries /\ x.result \in Results
     /\ x = [at |-> x.at, entry |-> x.entry, result |-> x.result]

\* While no counter moves, what a request has loaded is still so, and no entry
\* it has passed beats the best it has seen.
Merit(x) ==
  x.at = "scoring" /\ x.calm =>
     /\ x.n # -1 => x.n = count[x.next].requests
     /\ x.next > 1 => x.score = ScoreOf(x.best)
     /\ \A i \in 1..(x.next - 1) : ~Better(ScoreOf(i), x.score)

TripsFit == \A t \in Trips : Fits(trip[t])
TripsMerit == \A t \in Trips : Merit(trip[t])
BeforeTrips == pool # "ready" => \A t \in Trips : trip[t] = Idle

\* A proxy has been counted for the requests that went through it, and has an
\* outcome for each but those whose outcome is still to be recorded.
Tally ==
  pool = "ready" => \A i \in Entries :
     LET c == count[i] IN
     /\ IsFiniteSet(Recorded(i))
     /\ c.requests = Cardinality(Recorded(i))
     /\ c.requests = c.successes + c.blocks + c.errors + Cardinality(Recorded(i) \cap Midway)

PoolInv == PoolTypeOK /\ TripsFit /\ TripsMerit /\ BeforeTrips /\ Tally

LEMMA PoolInitially == PoolInit => PoolInv
<1> SUFFICES ASSUME PoolInit PROVE PoolInv
  OBVIOUS
<1>1. PoolTypeOK
  BY DEF PoolInit, PoolTypeOK, Lists
<1>2. \A t \in Trips : trip[t] = Idle
  BY DEF PoolInit
<1>3. TripsFit /\ TripsMerit /\ BeforeTrips
  BY <1>2 DEF TripsFit, TripsMerit, BeforeTrips, Fits, Merit, Idle
<1>4. Tally
  BY DEF PoolInit, Tally
<1>5. QED
  BY <1>1, <1>3, <1>4 DEF PoolInv

\* A step before the requests leaves the pool as it should be.
LEMMA PoolLoads ==
  ASSUME PoolInv, LoadProxies \/ MergeProxies \/ \E s \in Sources : SourceAnswers(s)
  PROVE  PoolInv'
<1>1. pool # "ready" /\ trip' = trip
  BY DEF LoadProxies, MergeProxies, SourceAnswers
<1>2. \A t \in Trips : trip[t] = Idle /\ trip'[t] = Idle
  BY <1>1 DEF PoolInv, BeforeTrips
<1>3. TripsFit' /\ TripsMerit' /\ BeforeTrips'
  BY <1>2 DEF TripsFit, TripsMerit, BeforeTrips, Fits, Merit, Idle
<1>4. \A i : Recorded(i)' = {}
  BY <1>2 DEF Recorded, Idle
<1>5. ASSUME NEW urls \in Lists(Named), Stock(urls), scraped' = scraped, waiting' \subseteq Sources
      PROVE  PoolInv'
  <2>1. /\ pool' = "ready" /\ entries' = urls /\ count' = [i \in 1..Len(urls) |-> NoCount]
        /\ DOMAIN urls = 1..Len(urls)
    BY <1>5 DEF Stock, Lists
  <2>2. NoCount \in [requests : Nat, successes : Nat, blocks : Nat, errors : Nat]
    BY DEF NoCount
  <2>3. PoolTypeOK'
    BY <1>1, <1>5, <2>1, <2>2 DEF PoolInv, PoolTypeOK, Entries
  <2>4. Cardinality({}) = 0 /\ IsFiniteSet({})
    BY FS_EmptySet
  <2>5. Tally'
    <3>1. \A i : (Recorded(i) \cap Midway)' = {}
      BY <1>4
    <3>2. \A i \in Entries' : count'[i] = NoCount
      BY <2>1 DEF Entries
    <3>3. QED
      BY <1>4, <2>4, <3>1, <3>2 DEF Tally, NoCount
  <2>6. QED
    BY <1>3, <2>3, <2>5 DEF PoolInv
<1>6. ASSUME pool' # "ready", entries' \in Lists(Named), scraped' \in Lists(Named),
             waiting' \subseteq Sources, pool' \in {"scraping", "refused"}
      PROVE  PoolInv'
  <2>1. PoolTypeOK'
    BY <1>1, <1>6 DEF PoolInv, PoolTypeOK
  <2>2. Tally'
    BY <1>6 DEF Tally
  <2>3. QED
    BY <1>3, <2>1, <2>2 DEF PoolInv
<1>7. entries \in Lists(Named) /\ scraped \in Lists(Named) /\ waiting \subseteq Sources
  BY DEF PoolInv, PoolTypeOK
<1>8. CASE LoadProxies
  <2>1. PICK lines \in Manuals :
          \/ /\ Refused(lines)
             /\ pool' = "refused" /\ UNCHANGED <<entries, count, waiting>>
          \/ /\ ~Refused(lines)
             /\ Stock(Urls(lines)) /\ UNCHANGED waiting
          \/ /\ ~Refused(lines)
             /\ pool' = "scraping" /\ entries' = Urls(lines) /\ waiting' = Sources
             /\ UNCHANGED count
    BY <1>8 DEF LoadProxies
  <2>2. scraped' = scraped
    BY <1>8 DEF LoadProxies
  <2>3. Urls(lines) \in Lists(Named)
    <3>1. lines \in Seq(Lines) /\ \A l \in Lines : LineOf(l).url \in Named
      BY ProxyPoolAssumption DEF Named
    <3>2. QED
      BY <3>1, UrlsAreAList
  <2>4. CASE pool' = "refused" /\ UNCHANGED <<entries, count, waiting>>
    BY <1>6, <1>7, <2>2, <2>4
  <2>5. CASE Stock(Urls(lines)) /\ UNCHANGED waiting
    BY <1>5, <1>7, <2>2, <2>3, <2>5
  <2>6. CASE pool' = "scraping" /\ entries' = Urls(lines) /\ waiting' = Sources
    BY <1>6, <1>7, <2>2, <2>3, <2>6
  <2>7. QED
    BY <2>1, <2>4, <2>5, <2>6
<1>9. CASE MergeProxies
  <2>1. Stock(Deduped(entries \o scraped)) /\ scraped' = scraped /\ waiting' = waiting
    BY <1>9 DEF MergeProxies
  <2>2. entries \o scraped \in Seq(Named)
    BY <1>7 DEF Lists
  <2>3. QED
    BY <1>5, <1>7, <2>1, <2>2, DedupedIsAList
<1>10. ASSUME NEW s \in Sources, SourceAnswers(s) PROVE PoolInv'
  <2>1. /\ pool' = pool /\ pool = "scraping" /\ entries' = entries /\ waiting' = waiting \ {s}
        /\ scraped' = Deduped(scraped \o Listed[s]) \/ scraped' = scraped
    BY <1>10 DEF SourceAnswers
  <2>2. Range(Listed[s]) \subseteq Named
    BY DEF Named
  <2>3. Listed[s] \in Seq(Named)
    <3>1. Listed[s] \in Seq(Range(Listed[s]))
      BY ProxyPoolAssumption
    <3>2. QED
      BY <2>2, <3>1
  <2>4. scraped \o Listed[s] \in Seq(Named)
    BY <1>7, <2>3 DEF Lists
  <2>5. scraped' \in Lists(Named)
    BY <1>7, <2>1, <2>4, DedupedIsAList
  <2>6. QED
    BY <1>6, <1>7, <2>1, <2>5
<1>11. QED
  BY <1>8, <1>9, <1>10

\* Of three scores: what does not beat one that is beaten does not beat the winner.
LEMMA Beaten ==
  ASSUME NEW x \in Nat \X (Nat \ {0}), NEW y \in Nat \X (Nat \ {0}), NEW z \in Nat \X (Nat \ {0}),
         ~Better(x, y), Better(z, y)
  PROVE  ~Better(x, z)
<1> DEFINE a == x[1] b == x[2] c == y[1] d == y[2] e == z[1] f == z[2]
<1>1. a \in Nat /\ b \in Nat \ {0} /\ c \in Nat /\ d \in Nat \ {0} /\ e \in Nat /\ f \in Nat \ {0}
  OBVIOUS
<1>2. a * d <= c * b /\ e * d > c * f
  <2>1. ~(a * d > c * b) /\ e * d > c * f
    BY DEF Better
  <2> HIDE DEF a, b, c, d, e, f
  <2>2. a * d \in Int /\ c * b \in Int
    BY <1>1
  <2>3. QED
    BY <2>1, <2>2
<1> HIDE DEF a, b, c, d, e, f
<1>3. \A m, n \in Int, k \in Nat : m <= n => m * k <= n * k
  OBVIOUS
<1>4. \A m, n \in Int, k \in Nat \ {0} : m < n => m * k < n * k
  OBVIOUS
<1>5. (a * d) * f <= (c * b) * f
  BY <1>1, <1>2, <1>3
<1>6. (c * f) * b < (e * d) * b
  BY <1>1, <1>2, <1>4
<1>7. /\ (a * d) * f = (a * f) * d /\ (c * b) * f = (c * f) * b /\ (e * d) * b = (e * b) * d
      /\ a * f \in Int /\ e * b \in Int /\ (a * f) * d \in Int /\ (e * b) * d \in Int
      /\ (c * f) * b \in Int
  BY <1>1
<1>8. (a * f) * d < (e * b) * d
  BY <1>5, <1>6, <1>7
<1>9. ~(a * f > e * b)
  <2>1. SUFFICES ASSUME a * f > e * b PROVE FALSE
    OBVIOUS
  <2>2. (e * b) * d < (a * f) * d
    BY <1>1, <1>4, <1>7, <2>1
  <2>3. QED
    BY <1>7, <1>8, <2>2
<1>10. QED
  BY <1>9 DEF Better, a, b, e, f

\* A step by which a request looks for its entry: it moves, and nothing else does.
Looks(t, x) ==
  /\ trip[t].at \in {"idle", "scoring"} /\ pool = "ready"
  /\ trip' = [trip EXCEPT ![t] = x]
  /\ Fits(x) /\ Merit(x)
  /\ x.at \in {"scoring", "sent"} \/ (x.at = "done" /\ x.entry = 0)
  /\ UNCHANGED <<pool, entries, scraped, waiting, count>>

LEMMA Looking ==
  ASSUME PoolInv, NEW t \in Trips, NEW x, Looks(t, x)
  PROVE  PoolInv'
<1>1. /\ trip' = [trip EXCEPT ![t] = x] /\ pool' = pool /\ pool = "ready" /\ entries' = entries
      /\ scraped' = scraped /\ waiting' = waiting /\ count' = count /\ Fits(x) /\ Merit(x)
  BY DEF Looks
<1>2. DOMAIN trip = Trips
  BY DEF PoolInv, PoolTypeOK
<1>3. trip'[t] = x /\ \A u \in Trips \ {t} : trip'[u] = trip[u]
  BY <1>1, <1>2
<1>4. PoolTypeOK'
  BY <1>1, <1>2 DEF PoolInv, PoolTypeOK, Entries
<1>5. \A y : (Fits(y) => Fits(y)') /\ (Merit(y) => Merit(y)')
  BY <1>1 DEF Fits, Merit, Entries, ScoreOf
<1>6. TripsFit'
  BY <1>1, <1>3, <1>5 DEF PoolInv, TripsFit
<1>7. TripsMerit'
  BY <1>1, <1>3, <1>5 DEF PoolInv, TripsMerit
<1>8. BeforeTrips'
  BY <1>1 DEF BeforeTrips
<1>9. Tally'
  <2>1. x.at \in {"scoring", "sent"} \/ (x.at = "done" /\ x.entry = 0)
    BY DEF Looks
  <2>2. trip[t].at \in {"idle", "scoring"}
    BY DEF Looks
  <2>3. Len(entries) \in Nat /\ Entries = 1..Len(entries)
    BY DEF PoolInv, PoolTypeOK, Lists, Entries
  <2>4. \A i \in Entries : Recorded(i)' = Recorded(i)
    BY <1>3, <2>1, <2>2, <2>3 DEF Recorded
  <2>5. Midway' = Midway
    BY <1>3, <2>1, <2>2 DEF Midway
  <2>6. \A i \in Entries : (Recorded(i) \cap Midway)' = Recorded(i) \cap Midway
    BY <2>4, <2>5
  <2>7. Entries' = Entries
    BY <1>1 DEF Entries
  <2>8. QED
    BY <1>1, <2>4, <2>6, <2>7 DEF PoolInv, Tally
<1>10. QED
  BY <1>4, <1>6, <1>7, <1>8, <1>9 DEF PoolInv

LEMMA CountsAreNaturals ==
  ASSUME PoolInv, pool = "ready", NEW i \in Entries
  PROVE  /\ count[i].requests \in Nat /\ count[i].successes \in Nat
         /\ count[i].blocks \in Nat /\ count[i].errors \in Nat
         /\ ScoreOf(i) \in Nat \X (Nat \ {0})
<1>1. count[i] \in [requests : Nat, successes : Nat, blocks : Nat, errors : Nat]
  BY DEF PoolInv, PoolTypeOK
<1>2. QED
  BY <1>1 DEF ScoreOf, Score

\* The steps of next().
LEMMA LookingSteps ==
  ASSUME PoolInv, NEW t \in Trips,
         Select(t) \/ LoadRequests(t) \/ LoadSuccesses(t) \/ Choose(t) \/ GoDirect(t)
  PROVE  \E x : Looks(t, x)
<1> DEFINE y == trip[t]
<1>1. Fits(y) /\ Merit(y)
  BY DEF PoolInv, TripsFit, TripsMerit
<1>2. Len(entries) \in Nat /\ Entries = 1..Len(entries)
  BY DEF PoolInv, PoolTypeOK, Lists, Entries
<1>3. pool = "ready"
  <2>1. CASE y.at = "scoring"
    BY <2>1 DEF PoolInv, BeforeTrips, Idle
  <2>2. CASE y.at # "scoring"
    BY <2>2 DEF Select, LoadRequests, LoadSuccesses, Choose, GoDirect
  <2>3. QED
    BY <2>1, <2>2
<1>4. ASSUME NEW i \in Entries, NEW calm, SendThrough(t, i, calm), y.at \in {"idle", "scoring"},
             UNCHANGED <<pool, entries, scraped, waiting, count>>
      PROVE  \E x : Looks(t, x)
  <2> DEFINE x == [at |-> "sent", entry |-> i, calm |-> calm]
  <2>1. x.at = "sent" /\ x.entry = i /\ x = [at |-> "sent", entry |-> x.entry, calm |-> x.calm]
    OBVIOUS
  <2>2. trip' = [trip EXCEPT ![t] = x]
    BY <1>4 DEF SendThrough
  <2> HIDE DEF x
  <2>3. Fits(x) /\ Merit(x)
    BY <2>1 DEF Fits, Merit
  <2>4. Looks(t, x)
    BY <1>3, <1>4, <2>1, <2>2, <2>3 DEF Looks
  <2>5. QED
    BY <2>4
<1>5. CASE Select(t)
  <2>1. /\ y.at = "idle" /\ Entries # {} /\ UNCHANGED <<pool, entries, scraped, waiting, count>>
        /\ \/ Len(entries) = 1 /\ SendThrough(t, 1, FALSE)
           \/ Len(entries) > 1 /\ \E i \in Entries : SendThrough(t, i, FALSE)
           \/ /\ Len(entries) > 1
              /\ trip' = [trip EXCEPT ![t] = [at |-> "scoring", next |-> 1, best |-> 0,
                                              score |-> <<0, 1>>, n |-> -1, calm |-> TRUE]]
    BY <1>5 DEF Select
  <2>2. CASE Len(entries) = 1 /\ SendThrough(t, 1, FALSE)
    <3>1. 1 \in Entries
      BY <1>2, <2>2
    <3>2. QED
      BY <1>4, <2>1, <2>2, <3>1
  <2>3. CASE \E i \in Entries : SendThrough(t, i, FALSE)
    BY <1>4, <2>1, <2>3
  <2>4. CASE /\ Len(entries) > 1
             /\ trip' = [trip EXCEPT ![t] = [at |-> "scoring", next |-> 1, best |-> 0,
                                             score |-> <<0, 1>>, n |-> -1, calm |-> TRUE]]
    <3> DEFINE x == [at |-> "scoring", next |-> 1, best |-> 0,
                     score |-> <<0, 1>>, n |-> -1, calm |-> TRUE]
    <3>1. /\ x.at = "scoring" /\ x.next = 1 /\ x.score = <<0, 1>> /\ x.n = -1
          /\ x = [at |-> "scoring", next |-> x.next, best |-> x.best, score |-> x.score,
                  n |-> x.n, calm |-> x.calm]
      OBVIOUS
    <3>2. trip' = [trip EXCEPT ![t] = x]
      BY <2>4
    <3> HIDE DEF x
    <3>3. x.score \in Nat \X (Nat \ {0}) /\ x.next \in 1..(Len(entries) + 1) /\ ~(x.next > 1)
          /\ 1..(x.next - 1) = {}
      BY <1>2, <2>4, <3>1
    <3>4. Fits(x)
      BY <2>4, <3>1, <3>3 DEF Fits
    <3>5. Merit(x)
      BY <3>1, <3>3 DEF Merit
    <3>6. Looks(t, x)
      BY <1>3, <2>1, <3>1, <3>2, <3>4, <3>5 DEF Looks
    <3>7. QED
      BY <3>6
  <2>5. QED
    BY <2>1, <2>2, <2>3, <2>4
<1>6. ASSUME y.at = "scoring"
      PROVE  /\ y = [at |-> "scoring", next |-> y.next, best |-> y.best, score |-> y.score,
                     n |-> y.n, calm |-> y.calm]
             /\ Len(entries) > 1
             /\ y.next \in 1..(Len(entries) + 1)
             /\ y.next > 1 => y.best \in 1..(y.next - 1)
             /\ y.n = -1 \/ (y.n \in Nat /\ y.next \in Entries)
             /\ y.score \in Nat \X (Nat \ {0})
  BY <1>1, <1>6 DEF Fits, Idle
<1>7. CASE LoadRequests(t)
  <2>1. /\ y.at = "scoring" /\ y.n = -1 /\ y.next \in Entries
        /\ trip' = [trip EXCEPT ![t].n = count[y.next].requests]
        /\ UNCHANGED <<pool, entries, scraped, waiting, count>>
    BY <1>7 DEF LoadRequests
  <2> DEFINE m == count[y.next].requests
             x == [y EXCEPT !.n = m]
  <2>2. trip' = [trip EXCEPT ![t] = x]
    BY <2>1
  <2>3. m \in Nat
    BY <1>3, <2>1, CountsAreNaturals
  <2> HIDE DEF m
  <2>4. x = [at |-> "scoring", next |-> y.next, best |-> y.best, score |-> y.score,
             n |-> m, calm |-> y.calm]
    BY <1>6, <2>1
  <2> HIDE DEF x
  <2>5. /\ x.at = "scoring" /\ x.next = y.next /\ x.best = y.best /\ x.score = y.score
        /\ x.n = m /\ x.calm = y.calm
    BY <2>4
  <2> HIDE DEF y
  <2>6. Fits(x)
    BY <1>6, <2>1, <2>3, <2>4, <2>5 DEF Fits
  <2>7. Merit(x)
    BY <1>1, <2>1, <2>5 DEF Merit, m
  <2>8. Looks(t, x)
    BY <1>3, <2>1, <2>2, <2>5, <2>6, <2>7 DEF Looks, y
  <2>9. QED
    BY <2>8
<1>8. CASE LoadSuccesses(t)
  <2> DEFINE i == y.next
             s == Score(y.n, count[i].successes)
             wins == i = 1 \/ Better(s, y.score)
             x == IF wins THEN [y EXCEPT !.next = i + 1, !.n = -1, !.best = i, !.score = s]
                  ELSE [y EXCEPT !.next = i + 1, !.n = -1]
  <2>1. /\ y.at = "scoring" /\ y.n >= 0 /\ trip' = [trip EXCEPT ![t] = x]
        /\ UNCHANGED <<pool, entries, scraped, waiting, count>>
    BY <1>8 DEF LoadSuccesses
  <2>2. y.n \in Nat /\ i \in Entries
    BY <1>6, <2>1
  <2>3. s \in Nat \X (Nat \ {0})
    BY <1>3, <2>2, CountsAreNaturals DEF Score
  <2>4. y.calm => s = ScoreOf(i)
    BY <1>1, <2>1, <2>2 DEF Merit, ScoreOf
  <2>5. /\ x.at = "scoring" /\ x.next = i + 1 /\ x.n = -1
        /\ x = [at |-> "scoring", next |-> x.next, best |-> x.best, score |-> x.score,
                n |-> x.n, calm |-> x.calm]
    BY <1>6, <2>1
  <2>6. /\ x.best = IF wins THEN i ELSE y.best
        /\ x.score = IF wins THEN s ELSE y.score
    BY <1>6, <2>1
  <2>7. x.calm = y.calm
    BY <1>6, <2>1
  <2> HIDE DEF x, s, wins
  <2>8. i \in Nat \ {0} /\ i + 1 \in 1..(Len(entries) + 1) /\ (i + 1) - 1 = i
    BY <1>2, <2>2
  <2>9. ~wins => i > 1 /\ ~Better(s, y.score)
    BY <2>8 DEF wins
  <2> HIDE DEF y
  <2>10. Fits(x)
    <3>1. x.best \in 1..i
      BY <1>6, <2>1, <2>6, <2>8, <2>9
    <3>2. x.score \in Nat \X (Nat \ {0})
      BY <1>6, <2>1, <2>3, <2>6
    <3>3. QED
      BY <1>6, <2>1, <2>5, <2>8, <3>1, <3>2 DEF Fits
  <2>11. Merit(x)
    <3>1. SUFFICES ASSUME y.calm
                   PROVE  /\ x.score = ScoreOf(x.best)
                          /\ \A j \in 1..i : ~Better(ScoreOf(j), x.score)
      BY <2>5, <2>7, <2>8 DEF Merit
    <3>2. s = ScoreOf(i)
      BY <2>4, <3>1
    <3>3. i > 1 => y.score = ScoreOf(y.best)
      BY <1>1, <2>1, <3>1 DEF Merit
    <3>4. \A j \in 1..(i - 1) : ~Better(ScoreOf(j), y.score)
      BY <1>1, <2>1, <3>1 DEF Merit
    <3>5. x.score = ScoreOf(x.best)
      BY <2>6, <2>9, <3>2, <3>3
    <3>6. ASSUME NEW j \in 1..i PROVE ~Better(ScoreOf(j), x.score)
      <4>1. j \in Entries /\ ScoreOf(j) \in Nat \X (Nat \ {0})
        BY <1>2, <1>3, <2>2, CountsAreNaturals
      <4>2. \A z \in Nat \X (Nat \ {0}) : ~Better(z, z)
        BY DEF Better
      <4>3. CASE j = i /\ wins
        BY <2>3, <2>6, <3>2, <4>2, <4>3
      <4>4. CASE j = i /\ ~wins
        BY <2>6, <2>9, <3>2, <4>4
      <4>5. CASE j # i /\ ~wins
        <5>1. j \in 1..(i - 1)
          BY <2>8, <4>5
        <5>2. QED
          BY <2>6, <3>4, <4>5, <5>1
      <4>6. CASE j # i /\ wins
        <5>1. j \in 1..(i - 1) /\ i # 1
          BY <2>8, <4>6
        <5>2. Better(s, y.score) /\ ~Better(ScoreOf(j), y.score) /\ y.score \in Nat \X (Nat \ {0})
          BY <1>6, <2>1, <3>4, <4>6, <5>1 DEF wins
        <5>3. ~Better(ScoreOf(j), s)
          BY <2>3, <4>1, <5>2, Beaten
        <5>4. QED
          BY <2>6, <4>6, <5>3
      <4>7. QED
        BY <4>3, <4>4, <4>5, <4>6
    <3>7. QED
      BY <3>5, <3>6
  <2>12. Looks(t, x)
    BY <1>3, <2>1, <2>5, <2>10, <2>11 DEF Looks, y
  <2>13. QED
    BY <2>12
<1>9. CASE Choose(t)
  <2>1. /\ y.at = "scoring" /\ y.next \notin Entries /\ SendThrough(t, y.best, y.calm)
        /\ UNCHANGED <<pool, entries, scraped, waiting, count>>
    BY <1>9 DEF Choose
  <2>2. y.best \in Entries
    BY <1>2, <1>6, <2>1
  <2>3. QED
    BY <1>4, <2>1, <2>2
<1>10. CASE GoDirect(t)
  <2> DEFINE x == [at |-> "done", entry |-> 0]
  <2>1. y.at = "idle" /\ trip' = [trip EXCEPT ![t] = x] /\ UNCHANGED <<pool, entries, scraped, waiting, count>>
    BY <1>10 DEF GoDirect
  <2>2. Fits(x) /\ Merit(x)
    BY DEF Fits, Merit
  <2>3. Looks(t, x)
    BY <1>3, <2>1, <2>2 DEF Looks
  <2>4. QED
    BY <2>3
<1>11. QED
  BY <1>5, <1>7, <1>8, <1>9, <1>10

\* A counter moves with a request that goes on from t to z: the others stay
\* where they are, and whoever is choosing has been disturbed.
LEMMA Disturbing ==
  ASSUME PoolInv, NEW t \in Trips, NEW z, Fits(z), z.at # "scoring", pool = "ready",
         pool' = pool, entries' = entries, trip' = Disturb([trip EXCEPT ![t] = z])
  PROVE  /\ DOMAIN trip' = Trips /\ trip'[t] = z
         /\ \A u \in Trips \ {t} : trip[u].at # "scoring" => trip'[u] = trip[u]
         /\ \A u \in Trips \ {t} : trip[u].at = "scoring" => trip'[u].at = "scoring"
         /\ TripsFit' /\ TripsMerit'
<1>1. DOMAIN trip = Trips
  BY DEF PoolInv, PoolTypeOK
<1>2. /\ DOMAIN trip' = Trips
      /\ \A u \in Trips : trip'[u] = LET y == [trip EXCEPT ![t] = z][u]
                                     IN IF y.at = "scoring" THEN [y EXCEPT !.calm = FALSE] ELSE y
  BY <1>1 DEF Disturb
<1>3. trip'[t] = z
  BY <1>1, <1>2
<1>4. ASSUME NEW u \in Trips \ {t}, trip[u].at # "scoring" PROVE trip'[u] = trip[u]
  BY <1>1, <1>2, <1>4
<1>5. ASSUME NEW u \in Trips \ {t}, trip[u].at = "scoring"
      PROVE  trip'[u].at = "scoring" /\ Fits(trip'[u]) /\ trip'[u].calm = FALSE
  <2> DEFINE y == trip[u]
             x == [y EXCEPT !.calm = FALSE]
  <2>1. trip'[u] = x
    BY <1>1, <1>2, <1>5
  <2>2. Fits(y)
    BY DEF PoolInv, TripsFit
  <2>3. /\ y = [at |-> "scoring", next |-> y.next, best |-> y.best, score |-> y.score,
                n |-> y.n, calm |-> y.calm]
        /\ Len(entries) > 1
        /\ y.next \in 1..(Len(entries) + 1)
        /\ y.next > 1 => y.best \in 1..(y.next - 1)
        /\ y.n = -1 \/ (y.n \in Nat /\ y.next \in Entries)
        /\ y.score \in Nat \X (Nat \ {0})
    BY <1>5, <2>2 DEF Fits, Idle
  <2>4. x = [at |-> "scoring", next |-> y.next, best |-> y.best, score |-> y.score,
             n |-> y.n, calm |-> FALSE]
    <3>1. \A c : [y EXCEPT !.calm = c]
                = [at |-> "scoring", next |-> y.next, best |-> y.best, score |-> y.score,
                   n |-> y.n, calm |-> c]
      <4> HIDE DEF x, y
      <4>1. QED
        BY <2>3
    <3>2. QED
      BY <3>1
  <2> HIDE DEF x
  <2>5. /\ x.at = "scoring" /\ x.next = y.next /\ x.best = y.best /\ x.score = y.score
        /\ x.n = y.n /\ x.calm = FALSE
    BY <2>4
  <2> HIDE DEF y
  <2>6. Fits(x)
    <3>1. x = [at |-> "scoring", next |-> x.next, best |-> x.best, score |-> x.score,
               n |-> x.n, calm |-> x.calm]
      BY <2>4, <2>5
    <3>2. QED
      BY <2>3, <2>5, <3>1 DEF Fits
  <2>7. QED
    BY <2>1, <2>5, <2>6
<1>6. \A x : Fits(x) => Fits(x)'
  BY DEF Fits, Entries
<1>7. TripsFit'
  <2>1. SUFFICES ASSUME NEW u \in Trips PROVE Fits(trip'[u])
    BY <1>6 DEF TripsFit
  <2>2. QED
    BY <1>3, <1>4, <1>5 DEF PoolInv, TripsFit
<1>8. TripsMerit'
  <2>1. SUFFICES ASSUME NEW u \in Trips, trip'[u].at = "scoring", trip'[u].calm PROVE FALSE
    BY DEF TripsMerit, Merit
  <2>2. u # t
    BY <1>3, <2>1
  <2>3. trip[u].at = "scoring"
    BY <1>4, <2>1, <2>2
  <2>4. trip'[u].calm = FALSE
    BY <1>5, <2>2, <2>3
  <2>5. QED
    BY <2>1, <2>4
<1>9. QED
  BY <1>2, <1>3, <1>4, <1>5, <1>7, <1>8

LEMMA RecordingRequest ==
  ASSUME PoolInv, NEW t \in Trips, RecordRequest(t)
  PROVE  PoolInv'
<1>1. trip[t].at = "sent" /\ Fits(trip[t])
  BY DEF RecordRequest, PoolInv, TripsFit
<1>2. PICK e \in Entries : e = trip[t].entry
  BY <1>1 DEF Fits, Idle
<1>3. PICK r \in Results :
        trip' = Disturb([trip EXCEPT ![t] = [at |-> "recording", entry |-> @.entry, result |-> r]])
  BY DEF RecordRequest
<1> DEFINE z == [at |-> "recording", entry |-> e, result |-> r]
<1>4. trip' = Disturb([trip EXCEPT ![t] = z])
  BY <1>2, <1>3
<1>5. /\ pool' = pool /\ entries' = entries /\ scraped' = scraped /\ waiting' = waiting
      /\ count' = [count EXCEPT ![e].requests = @ + 1]
  BY <1>2 DEF RecordRequest
<1>6. pool = "ready"
  BY <1>1 DEF PoolInv, BeforeTrips, Idle
<1>7. z.at = "recording" /\ z.entry = e /\ z.at # "scoring" /\ Fits(z)
  BY <1>2 DEF Fits
<1> HIDE DEF z
<1>8. /\ DOMAIN trip' = Trips /\ trip'[t] = z
      /\ \A u \in Trips \ {t} : trip[u].at # "scoring" => trip'[u] = trip[u]
      /\ \A u \in Trips \ {t} : trip[u].at = "scoring" => trip'[u].at = "scoring"
      /\ TripsFit' /\ TripsMerit'
  BY <1>4, <1>5, <1>6, <1>7, Disturbing
<1>9. count \in [Entries -> [requests : Nat, successes : Nat, blocks : Nat, errors : Nat]]
  BY <1>6 DEF PoolInv, PoolTypeOK
<1>10. \A i \in Entries \ {e} : count'[i] = count[i]
  BY <1>5, <1>9
<1>11. /\ count'[e].requests = count[e].requests + 1 /\ count'[e].successes = count[e].successes
       /\ count'[e].blocks = count[e].blocks /\ count'[e].errors = count[e].errors
  BY <1>2, <1>5, <1>9
<1>12. PoolTypeOK'
  <2>1. count' \in [Entries -> [requests : Nat, successes : Nat, blocks : Nat, errors : Nat]]
    BY <1>2, <1>5, <1>9
  <2>2. QED
    BY <1>5, <1>8, <2>1 DEF PoolInv, PoolTypeOK, Entries
<1>13. BeforeTrips'
  BY <1>5, <1>6 DEF BeforeTrips
<1>14. Tally'
  <2>1. \A u \in Trips \ {t} : /\ trip'[u].at \in {"recording", "done"} <=> trip[u].at \in {"recording", "done"}
                               /\ trip'[u].at = "recording" <=> trip[u].at = "recording"
                               /\ trip'[u].at \in {"recording", "done"} => trip'[u].entry = trip[u].entry
    BY <1>8
  <2>2. Recorded(e)' = Recorded(e) \cup {t} /\ t \notin Recorded(e)
    BY <1>1, <1>7, <1>8, <2>1 DEF Recorded
  <2>3. \A i \in Entries \ {e} : Recorded(i)' = Recorded(i) /\ t \notin Recorded(i)
    BY <1>1, <1>7, <1>8, <2>1 DEF Recorded
  <2>4. Midway' = Midway \cup {t} /\ t \notin Midway
    BY <1>1, <1>7, <1>8, <2>1 DEF Midway
  <2>5. (Recorded(e) \cap Midway)' = (Recorded(e) \cap Midway) \cup {t} /\ t \notin Recorded(e) \cap Midway
    BY <2>2, <2>4
  <2>6. \A i \in Entries \ {e} : (Recorded(i) \cap Midway)' = Recorded(i) \cap Midway
    BY <2>3, <2>4
  <2>7. Entries' = Entries
    BY <1>5 DEF Entries
  <2>8. ASSUME NEW i \in Entries
        PROVE  /\ IsFiniteSet(Recorded(i)) /\ count[i].requests = Cardinality(Recorded(i))
               /\ count[i].requests = count[i].successes + count[i].blocks + count[i].errors
                                      + Cardinality(Recorded(i) \cap Midway)
    BY <1>6 DEF PoolInv, Tally
  <2>9. ASSUME NEW i \in Entries
        PROVE  /\ IsFiniteSet(Recorded(i)') /\ count'[i].requests = Cardinality(Recorded(i)')
               /\ count'[i].requests = count'[i].successes + count'[i].blocks + count'[i].errors
                                      + Cardinality((Recorded(i) \cap Midway)')
    <3>1. CASE i # e
      BY <1>10, <2>3, <2>6, <2>8, <3>1
    <3>2. CASE i = e
      <4>1. IsFiniteSet(Recorded(e)) /\ IsFiniteSet(Recorded(e) \cap Midway)
        BY <1>2, <2>8, FS_Intersection
      <4>2. /\ IsFiniteSet(Recorded(e)') /\ Cardinality(Recorded(e)') = Cardinality(Recorded(e)) + 1
        BY <2>2, <4>1, FS_AddElement
      <4>3. Cardinality((Recorded(e) \cap Midway)') = Cardinality(Recorded(e) \cap Midway) + 1
        BY <2>5, <4>1, FS_AddElement
      <4>4. Cardinality(Recorded(e) \cap Midway) \in Nat
        BY <4>1, FS_CardinalityType
      <4>5. /\ count[e].requests \in Nat /\ count[e].successes \in Nat
            /\ count[e].blocks \in Nat /\ count[e].errors \in Nat
        BY <1>2, <1>6, CountsAreNaturals
      <4>6. count'[e].requests = Cardinality(Recorded(e)')
        BY <1>2, <1>11, <2>8, <4>2
      <4>7. count'[e].requests = count'[e].successes + count'[e].blocks + count'[e].errors
                                 + Cardinality((Recorded(e) \cap Midway)')
        BY <1>2, <1>11, <2>8, <4>3, <4>4, <4>5
      <4>8. QED
        BY <3>2, <4>2, <4>6, <4>7
    <3>3. QED
      BY <3>1, <3>2
  <2>10. QED
    BY <2>7, <2>9 DEF Tally
<1>15. QED
  BY <1>8, <1>12, <1>13, <1>14 DEF PoolInv

LEMMA RecordingOutcome ==
  ASSUME PoolInv, NEW t \in Trips, RecordOutcome(t)
  PROVE  PoolInv'
<1> DEFINE k == OutcomeOf(trip[t].result)
           z == [trip[t] EXCEPT !.at = "done"]
<1>1. trip[t].at = "recording" /\ Fits(trip[t])
  BY DEF RecordOutcome, PoolInv, TripsFit
<1>2. PICK e \in Entries :
         /\ e = trip[t].entry /\ trip[t].result \in Results
         /\ trip[t] = [at |-> "recording", entry |-> e, result |-> trip[t].result]
  BY <1>1 DEF Fits, Idle
<1>3. k \in Outcomes
  BY <1>2 DEF OutcomeOf, Results, Outcomes
<1>4. trip' = Disturb([trip EXCEPT ![t] = z])
  BY DEF RecordOutcome
<1>5. /\ pool' = pool /\ entries' = entries /\ scraped' = scraped /\ waiting' = waiting
      /\ count' = [count EXCEPT ![e][k] = @ + 1]
  BY <1>2 DEF RecordOutcome
<1>6. pool = "ready"
  BY <1>1 DEF PoolInv, BeforeTrips, Idle
<1>7. z = [at |-> "done", entry |-> e, result |-> trip[t].result]
  BY <1>2
<1>8. z.at = "done" /\ z.entry = e /\ z.at # "scoring" /\ Fits(z)
  <2> HIDE DEF z
  <2>1. z.at = "done" /\ z.entry = e /\ z.result = trip[t].result
    BY <1>7
  <2>2. Fits(z)
    BY <1>2, <1>7, <2>1 DEF Fits
  <2>3. QED
    BY <2>1, <2>2
<1> HIDE DEF z, k
<1>9. /\ DOMAIN trip' = Trips /\ trip'[t] = z
      /\ \A u \in Trips \ {t} : trip[u].at # "scoring" => trip'[u] = trip[u]
      /\ \A u \in Trips \ {t} : trip[u].at = "scoring" => trip'[u].at = "scoring"
      /\ TripsFit' /\ TripsMerit'
  BY <1>4, <1>5, <1>6, <1>8, Disturbing
<1>10. count \in [Entries -> [requests : Nat, successes : Nat, blocks : Nat, errors : Nat]]
  BY <1>6 DEF PoolInv, PoolTypeOK
<1>11. \A i \in Entries \ {e} : count'[i] = count[i]
  BY <1>5, <1>10
<1>12. /\ count'[e] = [count[e] EXCEPT ![k] = @ + 1]
       /\ count[e] \in [requests : Nat, successes : Nat, blocks : Nat, errors : Nat]
  BY <1>2, <1>5, <1>10
<1>13. /\ count'[e] \in [requests : Nat, successes : Nat, blocks : Nat, errors : Nat]
       /\ count'[e].requests = count[e].requests
       /\ count'[e].successes + count'[e].blocks + count'[e].errors
            = count[e].successes + count[e].blocks + count[e].errors + 1
  <2>1. k = "successes" \/ k = "blocks" \/ k = "errors"
    BY <1>3 DEF Outcomes
  <2>2. CASE k = "successes"
    BY <1>12, <2>2
  <2>3. CASE k = "blocks"
    BY <1>12, <2>3
  <2>4. CASE k = "errors"
    BY <1>12, <2>4
  <2>5. QED
    BY <2>1, <2>2, <2>3, <2>4
<1>14. PoolTypeOK'
  <2>1. count' \in [Entries -> [requests : Nat, successes : Nat, blocks : Nat, errors : Nat]]
    BY <1>2, <1>5, <1>10, <1>11, <1>13
  <2>2. QED
    BY <1>5, <1>9, <2>1 DEF PoolInv, PoolTypeOK, Entries
<1>15. BeforeTrips'
  BY <1>5, <1>6 DEF BeforeTrips
<1>16. Tally'
  <2>1. \A u \in Trips \ {t} : /\ trip'[u].at \in {"recording", "done"} <=> trip[u].at \in {"recording", "done"}
                               /\ trip'[u].at = "recording" <=> trip[u].at = "recording"
                               /\ trip'[u].at \in {"recording", "done"} => trip'[u].entry = trip[u].entry
    BY <1>9
  <2>2. \A i \in Entries : Recorded(i)' = Recorded(i)
    BY <1>1, <1>2, <1>8, <1>9, <2>1 DEF Recorded
  <2>3. Midway' = Midway \ {t} /\ t \in Midway
    BY <1>1, <1>8, <1>9, <2>1 DEF Midway
  <2>4. t \in Recorded(e) /\ \A i \in Entries \ {e} : t \notin Recorded(i)
    BY <1>1, <1>2 DEF Recorded
  <2>5. (Recorded(e) \cap Midway)' = (Recorded(e) \cap Midway) \ {t} /\ t \in Recorded(e) \cap Midway
    BY <1>2, <2>2, <2>3, <2>4
  <2>6. \A i \in Entries \ {e} : (Recorded(i) \cap Midway)' = Recorded(i) \cap Midway
    BY <2>2, <2>3, <2>4
  <2>7. Entries' = Entries
    BY <1>5 DEF Entries
  <2>8. ASSUME NEW i \in Entries
        PROVE  /\ IsFiniteSet(Recorded(i)) /\ count[i].requests = Cardinality(Recorded(i))
               /\ count[i].requests = count[i].successes + count[i].blocks + count[i].errors
                                      + Cardinality(Recorded(i) \cap Midway)
    BY <1>6 DEF PoolInv, Tally
  <2>9. ASSUME NEW i \in Entries
        PROVE  /\ IsFiniteSet(Recorded(i)') /\ count'[i].requests = Cardinality(Recorded(i)')
               /\ count'[i].requests = count'[i].successes + count'[i].blocks + count'[i].errors
                                      + Cardinality((Recorded(i) \cap Midway)')
    <3>1. CASE i # e
      BY <1>11, <2>2, <2>6, <2>8, <3>1
    <3>2. CASE i = e
      <4>1. IsFiniteSet(Recorded(e)) /\ IsFiniteSet(Recorded(e) \cap Midway)
        BY <1>2, <2>8, FS_Intersection
      <4>2. Cardinality((Recorded(e) \cap Midway)') = Cardinality(Recorded(e) \cap Midway) - 1
        BY <2>5, <4>1, FS_RemoveElement
      <4>3. Cardinality(Recorded(e) \cap Midway) \in Nat
        BY <4>1, FS_CardinalityType
      <4>4. /\ count[e].requests \in Nat /\ count[e].successes \in Nat
            /\ count[e].blocks \in Nat /\ count[e].errors \in Nat
        BY <1>2, <1>6, CountsAreNaturals
      <4>5. /\ count'[e].successes \in Nat /\ count'[e].blocks \in Nat /\ count'[e].errors \in Nat
        BY <1>13
      <4>6. count'[e].requests = Cardinality(Recorded(e)') /\ IsFiniteSet(Recorded(e)')
        BY <1>2, <1>13, <2>2, <2>8
      <4>7. count'[e].requests = count'[e].successes + count'[e].blocks + count'[e].errors
                                 + Cardinality((Recorded(e) \cap Midway)')
        <5>1. count[e].requests = count[e].successes + count[e].blocks + count[e].errors
                                  + Cardinality(Recorded(e) \cap Midway)
          BY <1>2, <2>8
        <5>2. \A s, m, a \in Int : s + m = (s + 1) + (m - 1) /\ (a = s + 1 => s + m = a + (m - 1))
          OBVIOUS
        <5>3. /\ count[e].successes + count[e].blocks + count[e].errors \in Int
              /\ count'[e].successes + count'[e].blocks + count'[e].errors \in Int
          BY <4>4, <4>5
        <5>4. QED
          BY <1>13, <4>2, <4>3, <5>1, <5>2, <5>3
      <4>8. QED
        BY <3>2, <4>6, <4>7
    <3>3. QED
      BY <3>1, <3>2
  <2>10. QED
    BY <2>7, <2>9 DEF Tally
<1>17. QED
  BY <1>9, <1>14, <1>15, <1>16 DEF PoolInv

LEMMA PoolStep == PoolInv /\ [PoolNext]_poolVars => PoolInv'
<1> SUFFICES ASSUME PoolInv, [PoolNext]_poolVars PROVE PoolInv'
  OBVIOUS
<1>1. ASSUME NEW t \in Trips,
             Select(t) \/ LoadRequests(t) \/ LoadSuccesses(t) \/ Choose(t) \/ GoDirect(t)
      PROVE  PoolInv'
  <2>1. PICK x : Looks(t, x)
    BY <1>1, LookingSteps
  <2>2. QED
    BY <2>1, Looking
<1>2. CASE UNCHANGED poolVars
  <2>1. /\ pool' = pool /\ entries' = entries /\ scraped' = scraped /\ waiting' = waiting
        /\ count' = count /\ trip' = trip
    BY <1>2 DEF poolVars
  <2>2. PoolTypeOK' /\ BeforeTrips'
    BY <2>1 DEF PoolInv, PoolTypeOK, BeforeTrips, Entries
  <2>3. TripsFit' /\ TripsMerit'
    BY <2>1 DEF PoolInv, TripsFit, TripsMerit, Fits, Merit, Entries, ScoreOf
  <2>4. Tally'
    BY <2>1 DEF PoolInv, Tally, Recorded, Midway, Entries
  <2>5. QED
    BY <2>2, <2>3, <2>4 DEF PoolInv
<1>3. QED
  BY <1>1, <1>2, PoolLoads, RecordingRequest, RecordingOutcome DEF PoolNext

LEMMA PoolInvariant == PoolSpec => []PoolInv
BY PoolInitially, PoolStep, PTL DEF PoolSpec

\* Once no request is under way the counters add up, for a list that names no
\* proxy twice.
AddsUp ==
  pool = "ready" /\ Midway = {} => \A i \in Entries :
     LET c == count[i] IN
     /\ c.requests = Cardinality(Recorded(i))
     /\ c.requests = c.successes + c.blocks + c.errors
     /\ \A j \in Entries \ {i} : entries[i] # entries[j]

LEMMA ReadyAddsUp == PoolInv => AddsUp
<1> SUFFICES ASSUME PoolInv, pool = "ready", Midway = {}, NEW i \in Entries
             PROVE  /\ count[i].requests = Cardinality(Recorded(i))
                    /\ count[i].requests = count[i].successes + count[i].blocks + count[i].errors
                    /\ \A j \in Entries \ {i} : entries[i] # entries[j]
  BY DEF AddsUp
<1>1. /\ count[i].requests = Cardinality(Recorded(i))
      /\ count[i].requests = count[i].successes + count[i].blocks + count[i].errors
                             + Cardinality(Recorded(i) \cap Midway)
  BY DEF PoolInv, Tally
<1>2. Cardinality(Recorded(i) \cap Midway) = 0
  BY FS_EmptySet
<1>3. /\ count[i].successes \in Nat /\ count[i].blocks \in Nat /\ count[i].errors \in Nat
  BY CountsAreNaturals
<1>4. /\ entries \in Seq(Named) /\ Entries = 1..Len(entries)
      /\ \A k, j \in 1..Len(entries) : entries[k] = entries[j] => k = j
  BY DEF PoolInv, PoolTypeOK, Lists, Entries
<1>5. \A j \in Entries \ {i} : entries[i] # entries[j]
  BY <1>4
<1>6. QED
  BY <1>1, <1>2, <1>3, <1>5

\* A request that chooses by merit while no counter moves goes through a proxy
\* that no other beats; and once no outcome is left to record every proxy has
\* been counted for the requests that went through it, each with one outcome,
\* and none is listed twice (SmartPool.next, SmartPool.Record, loadProxies).
THEOREM PoolHolds == PoolSpec => PoolIsHonest
<1> DEFINE Honest ==
      /\ \A t \in Trips :
            trip[t].at = "scoring" /\ trip'[t].at = "sent" /\ trip[t].calm /\ Midway = {} =>
               \A i \in Entries : ~Better(ScoreOf(i), ScoreOf(trip'[t].entry))
      /\ pool' = "ready" /\ Midway' = {} => \A i \in Entries' :
            LET c == count'[i] IN
            /\ c.requests = Cardinality(Recorded(i)')
            /\ c.requests = c.successes + c.blocks + c.errors
            /\ \A j \in Entries' \ {i} : entries'[i] # entries'[j]
<1>1. ASSUME PoolInv, AddsUp', PoolNext PROVE Honest
  <2>1. ASSUME NEW t \in Trips, trip[t].at = "scoring", trip'[t].at = "sent", trip[t].calm,
               NEW i \in Entries
        PROVE  ~Better(ScoreOf(i), ScoreOf(trip'[t].entry))
    <3> DEFINE y == trip[t]
    <3>1. /\ Fits(y) /\ Merit(y) /\ DOMAIN trip = Trips /\ pool = "ready"
          /\ Len(entries) \in Nat /\ Entries = 1..Len(entries)
      BY <1>1, <2>1 DEF PoolInv, PoolTypeOK, TripsFit, TripsMerit, BeforeTrips, Idle, Lists, Entries
    <3>2. Choose(t)
      <4>1. ASSUME NEW u \in Trips, Choose(u) PROVE Choose(t)
        <5>1. CASE u = t
          BY <4>1, <5>1
        <5>2. CASE u # t
          <6>1. trip'[t] = trip[t]
            BY <3>1, <4>1, <5>2 DEF Choose, SendThrough
          <6>2. QED
            BY <2>1, <6>1
        <5>3. QED
          BY <5>1, <5>2
      <4>2. ASSUME NEW u \in Trips, Select(u) \/ GoDirect(u) PROVE FALSE
        <5>1. u # t /\ \E x : trip' = [trip EXCEPT ![u] = x]
          BY <2>1, <4>2 DEF Select, GoDirect, SendThrough
        <5>2. trip'[t] = trip[t]
          BY <3>1, <5>1
        <5>3. QED
          BY <2>1, <5>2
      <4>3. ASSUME NEW u \in Trips, LoadRequests(u) \/ LoadSuccesses(u) PROVE FALSE
        <5>1. PICK x : trip' = [trip EXCEPT ![u] = x] /\ x.at = trip[u].at
          <6>1. Fits(trip[u]) /\ trip[u].at = "scoring"
            BY <1>1, <4>3 DEF PoolInv, TripsFit, LoadRequests, LoadSuccesses
          <6>2. trip[u] = [at |-> "scoring", next |-> trip[u].next, best |-> trip[u].best,
                           score |-> trip[u].score, n |-> trip[u].n, calm |-> trip[u].calm]
            BY <6>1 DEF Fits, Idle
          <6>3. CASE LoadRequests(u)
            <7> DEFINE x == [trip[u] EXCEPT !.n = count[trip[u].next].requests]
            <7>1. trip' = [trip EXCEPT ![u] = x]
              BY <6>3 DEF LoadRequests
            <7>2. x.at = trip[u].at
              BY <6>2
            <7>3. QED
              BY <7>1, <7>2
          <6>4. CASE LoadSuccesses(u)
            <7> DEFINE k == trip[u].next
                       s == Score(trip[u].n, count[k].successes)
                       x == IF k = 1 \/ Better(s, trip[u].score)
                            THEN [trip[u] EXCEPT !.next = k + 1, !.n = -1, !.best = k, !.score = s]
                            ELSE [trip[u] EXCEPT !.next = k + 1, !.n = -1]
            <7>1. trip' = [trip EXCEPT ![u] = x]
              BY <6>4 DEF LoadSuccesses
            <7>2. x.at = trip[u].at
              BY <6>2
            <7>3. QED
              BY <7>1, <7>2
          <6>5. QED
            BY <4>3, <6>3, <6>4
        <5>2. trip'[t].at = trip[t].at
          BY <3>1, <5>1
        <5>3. QED
          BY <2>1, <5>2
      <4>4. ASSUME NEW u \in Trips, RecordRequest(u) \/ RecordOutcome(u) PROVE FALSE
        <5>1. PICK x : trip' = Disturb([trip EXCEPT ![u] = x])
          BY <4>4 DEF RecordRequest, RecordOutcome
        <5>2. u # t
          BY <2>1, <4>4 DEF RecordRequest, RecordOutcome
        <5>3. trip'[t] = [trip[t] EXCEPT !.calm = FALSE]
          BY <2>1, <3>1, <5>1, <5>2 DEF Disturb
        <5>4. trip[t] = [at |-> "scoring", next |-> trip[t].next, best |-> trip[t].best,
                         score |-> trip[t].score, n |-> trip[t].n, calm |-> trip[t].calm]
          BY <2>1, <3>1 DEF Fits, Idle
        <5>5. trip'[t].at = "scoring"
          BY <5>3, <5>4
        <5>6. QED
          BY <2>1, <5>5
      <4>5. ~(LoadProxies \/ MergeProxies \/ \E s \in Sources : SourceAnswers(s))
        BY <3>1 DEF LoadProxies, MergeProxies, SourceAnswers
      <4>6. QED
        BY <1>1, <4>1, <4>2, <4>3, <4>4, <4>5 DEF PoolNext
    <3>3. /\ y.next \notin Entries
          /\ trip' = [trip EXCEPT ![t] = [at |-> "sent", entry |-> y.best, calm |-> y.calm]]
      BY <3>2 DEF Choose, SendThrough
    <3>4. trip'[t].entry = y.best
      BY <3>1, <3>3
    <3>5. y.next \in 1..(Len(entries) + 1) /\ Len(entries) > 1
      BY <2>1, <3>1 DEF Fits, Idle
    <3>6. y.next = Len(entries) + 1
      BY <3>1, <3>3, <3>5
    <3>7. i \in 1..(y.next - 1) /\ y.next > 1
      BY <3>1, <3>5, <3>6
    <3>8. y.score = ScoreOf(y.best) /\ ~Better(ScoreOf(i), y.score)
      BY <2>1, <3>1, <3>7 DEF Merit
    <3>9. QED
      BY <3>4, <3>8
  <2>2. pool' = "ready" /\ Midway' = {} => \A i \in Entries' :
          LET c == count'[i] IN
          /\ c.requests = Cardinality(Recorded(i)')
          /\ c.requests = c.successes + c.blocks + c.errors
          /\ \A j \in Entries' \ {i} : entries'[i] # entries'[j]
    BY <1>1 DEF AddsUp
  <2>3. QED
    BY <2>1, <2>2
<1>2. QED
  BY <1>1, ReadyAddsUp, PoolInvariant, PTL DEF PoolSpec, PoolIsHonest

-----------------------------------------------------------------------------
(* The set-up of a run.                                                    *)

\* The stages behind which something has been found good.
Running     == {"oob", "browser", "catalog", "scan", "done"}
AfterWatch  == {"scope"} \cup Running
AfterAuth   == {"session"} \cup AfterWatch
AfterInputs == {"auth"} \cup AfterAuth
AfterOutput == {"inputs"} \cup AfterInputs
AfterFormat == {"output"} \cup AfterOutput
AfterGate   == {"baseline", "format"} \cup AfterFormat
AfterLogger == {"gate"} \cup AfterGate
AfterUrls   == {"logger"} \cup AfterLogger
Ended       == {"failed", "exited"}

\* The order of the steps, as long as none fails.
Order == {<<"urls", "logger">>, <<"logger", "gate">>, <<"gate", "baseline">>,
          <<"baseline", "format">>, <<"format", "output">>, <<"output", "inputs">>,
          <<"inputs", "auth">>, <<"auth", "session">>, <<"session", "scope">>,
          <<"scope", "oob">>, <<"oob", "browser">>, <<"browser", "catalog">>,
          <<"catalog", "scan">>, <<"scan", "done">>}

Compared == IsSet("baseline") => compared = "old"

SetupTypeOK ==
  /\ stage \in {"parse", "urls"} \cup AfterUrls \cup Ended
  /\ held \in Seq({"output", "listener", "browser"})
  /\ disk \in {"old", "empty", "new"}

\* What lies behind a run was found good.
FoundGood ==
  /\ stage \in AfterUrls => TargetIsGiven
  /\ stage \in AfterLogger => LogIsGood
  /\ stage \in AfterGate => GateIsGood
  /\ stage \in AfterFormat => Legible("format")
  /\ stage \in AfterInputs => InputsAreGood
  /\ stage \in AfterAuth => AuthIsGood
  /\ stage \in AfterWatch => SessionIsGood
  /\ stage \in Running => ScopeIsGood
  /\ stage \in Running \ {"oob"} => CallbackIsGood

\* What is yet to come has left no trace.
Untouched ==
  /\ stage \in {"format"} \cup AfterFormat => Compared
  /\ stage \notin AfterOutput \cup Ended => disk = "old" /\ held = <<>>
  /\ stage \in AfterOutput \ Running => \A i \in DOMAIN held : held[i] = "output"

\* What has been spent was spent on a run whose options are good.
WellSpent ==
  /\ disk # "old" \/ held # <<>> => ReportIsDue
  /\ (\E i \in DOMAIN held : held[i] # "output") => ScanIsDue

\* A report that was emptied is filled when the output is closed, unless the run
\* has failed.
Emptied ==
  /\ disk = "empty" /\ stage \notin Ended =>
       Opt("output") = "report.json" /\ \E i \in DOMAIN held : held[i] = "output"
  /\ stage = "failed" => exit = 2
  /\ stage = "done" => exit \in {0, 1, 2, 130}
  /\ stage = "exited" => held = <<>> /\ exit # -1 /\ (disk = "empty" => exit = 2)

SetupInv == SetupTypeOK /\ FoundGood /\ Untouched /\ WellSpent /\ Emptied

LEMMA Stages ==
  /\ AfterUrls = {"logger", "gate", "baseline", "format", "output", "inputs", "auth",
                  "session", "scope", "oob", "browser", "catalog", "scan", "done"}
  /\ AfterLogger = {"gate", "baseline", "format", "output", "inputs", "auth",
                    "session", "scope", "oob", "browser", "catalog", "scan", "done"}
  /\ AfterGate = {"baseline", "format", "output", "inputs", "auth",
                  "session", "scope", "oob", "browser", "catalog", "scan", "done"}
  /\ AfterFormat = {"output", "inputs", "auth", "session", "scope", "oob", "browser",
                    "catalog", "scan", "done"}
  /\ AfterOutput = {"inputs", "auth", "session", "scope", "oob", "browser", "catalog",
                    "scan", "done"}
  /\ AfterInputs = {"auth", "session", "scope", "oob", "browser", "catalog", "scan", "done"}
  /\ AfterAuth = {"session", "scope", "oob", "browser", "catalog", "scan", "done"}
  /\ AfterWatch = {"scope", "oob", "browser", "catalog", "scan", "done"}
  /\ Running = {"oob", "browser", "catalog", "scan", "done"}
  /\ Ended = {"failed", "exited"}
BY DEF AfterUrls, AfterLogger, AfterGate, AfterFormat, AfterOutput, AfterInputs, AfterAuth,
       AfterWatch, Running, Ended

LEMMA SetupInitially == SetupInit => SetupInv
<1> SUFFICES ASSUME SetupInit PROVE SetupInv
  OBVIOUS
<1>1. stage = "parse" /\ disk = "old" /\ held = <<>>
  BY DEF SetupInit
<1>2. held \in Seq({"output", "listener", "browser"}) /\ DOMAIN held = {}
  BY <1>1
<1>3. QED
  BY <1>1, <1>2, Stages DEF SetupInv, SetupTypeOK, FoundGood, Untouched, WellSpent, Emptied

\* What is asked of the options changes only with them and with the outside.
LEMMA SameOptions ==
  ASSUME UNCHANGED <<options, broken>>
  PROVE  /\ TargetIsGiven' <=> TargetIsGiven
         /\ LogIsGood' <=> LogIsGood
         /\ GateIsGood' <=> GateIsGood
         /\ Legible("format")' <=> Legible("format")
         /\ InputsAreGood' <=> InputsAreGood
         /\ AuthIsGood' <=> AuthIsGood
         /\ SessionIsGood' <=> SessionIsGood
         /\ ScopeIsGood' <=> ScopeIsGood
         /\ CallbackIsGood' <=> CallbackIsGood
         /\ ScanIsDue' <=> ScanIsDue
         /\ Opt("output")' = Opt("output")
         /\ IsSet("baseline")' <=> IsSet("baseline")
<1>1. \A f : Opt(f)' = Opt(f)
  BY DEF Opt
<1>2. \A f : /\ IsSet(f)' <=> IsSet(f)
             /\ Legible(f)' <=> Legible(f)
             /\ AllLegible(f)' <=> AllLegible(f)
             /\ AnyIllegible(f)' <=> AnyIllegible(f)
  BY <1>1 DEF IsSet, Legible, AllLegible, AnyIllegible
<1>3. /\ TargetIsGiven' <=> TargetIsGiven
      /\ LogIsGood' <=> LogIsGood
      /\ GateIsGood' <=> GateIsGood
  BY <1>1, <1>2 DEF TargetIsGiven, LogIsGood, GateIsGood
<1>4. InputsAreGood' <=> InputsAreGood
  BY <1>2 DEF InputsAreGood
<1>5. AuthIsGood' <=> AuthIsGood
  BY <1>2 DEF AuthIsGood
<1>6. SessionIsGood' <=> SessionIsGood
  BY <1>1, <1>2 DEF SessionIsGood
<1>7. /\ ScopeIsGood' <=> ScopeIsGood
      /\ CallbackIsGood' <=> CallbackIsGood
  BY <1>1, <1>2 DEF ScopeIsGood, CallbackIsGood
<1>8. QED
  BY <1>1, <1>2, <1>3, <1>4, <1>5, <1>6, <1>7 DEF ScanIsDue

LEMMA SameComparison ==
  ASSUME UNCHANGED <<options, broken, compared>>
  PROVE  (Compared' <=> Compared) /\ (ReportIsDue' <=> ReportIsDue)
BY SameOptions DEF Compared, ReportIsDue

\* A step that fails leaves what there was, and the exit code is 2.
LEMMA Failing ==
  ASSUME SetupInv, NEW from, Fail(from), from \notin Ended \cup {"done"}
  PROVE  SetupInv'
<1>0. /\ stage = from /\ stage' = "failed" /\ exit' = 2
      /\ UNCHANGED <<options, broken, held, disk, compared>>
  BY DEF Fail
<1>1. SetupTypeOK'
  BY <1>0, Stages DEF SetupInv, SetupTypeOK
<1>2. FoundGood' /\ Untouched'
  BY <1>0, Stages DEF FoundGood, Untouched
<1>3. WellSpent'
  BY <1>0, SameOptions, SameComparison DEF SetupInv, WellSpent
<1>4. Emptied'
  BY <1>0, Stages DEF Emptied
<1>5. QED
  BY <1>1, <1>2, <1>3, <1>4 DEF SetupInv

\* What the stage ahead asks for beyond the one that is left.
Asked(to) ==
  /\ to = "logger" => TargetIsGiven
  /\ to = "gate" => LogIsGood
  /\ to = "baseline" => GateIsGood
  /\ to = "output" => Legible("format")
  /\ to = "auth" => InputsAreGood
  /\ to = "session" => AuthIsGood
  /\ to = "scope" => SessionIsGood
  /\ to = "oob" => ScopeIsGood
  /\ to = "browser" => CallbackIsGood

LEMMA GoodStays ==
  ASSUME FoundGood, UNCHANGED <<options, broken>>, <<stage, stage'>> \in Order, Asked(stage')
  PROVE  FoundGood'
<1>1. /\ stage' \in AfterUrls => TargetIsGiven
      /\ stage' \in AfterLogger => LogIsGood
      /\ stage' \in AfterGate => GateIsGood
      /\ stage' \in AfterFormat => Legible("format")
  BY Stages DEF FoundGood, Order, Asked
<1>2. /\ stage' \in AfterInputs => InputsAreGood
      /\ stage' \in AfterAuth => AuthIsGood
      /\ stage' \in AfterWatch => SessionIsGood
  BY Stages DEF FoundGood, Order, Asked
<1>3. /\ stage' \in Running => ScopeIsGood
      /\ stage' \in Running \ {"oob"} => CallbackIsGood
  BY Stages DEF FoundGood, Order, Asked
<1>4. QED
  BY <1>1, <1>2, <1>3, SameOptions DEF FoundGood

\* A step that goes on opens nothing, or something that its stage allows.
LEMMA GoingAhead ==
  ASSUME SetupInv, UNCHANGED <<options, broken, held, disk, compared>>,
         <<stage, stage'>> \in Order, Asked(stage'), stage' = "format" => Compared,
         IF stage' = "done" THEN exit' \in {0, 1, 2, 130} ELSE exit' = exit
  PROVE  SetupInv'
<1>1. SetupTypeOK'
  BY Stages DEF SetupInv, SetupTypeOK, Order
<1>2. FoundGood'
  BY GoodStays DEF SetupInv
<1>3. Untouched'
  <2>1. stage' \in {"format"} \cup AfterFormat => Compared
    BY Stages DEF SetupInv, Untouched, Order
  <2>2. /\ stage' \notin AfterOutput \cup Ended => disk = "old" /\ held = <<>>
        /\ stage' \in AfterOutput \ Running => \A i \in DOMAIN held : held[i] = "output"
    BY Stages DEF SetupInv, Untouched, Order
  <2>3. QED
    BY <2>1, <2>2, SameComparison DEF Untouched
<1>4. WellSpent'
  BY SameOptions, SameComparison DEF SetupInv, WellSpent
<1>5. Emptied'
  <2>1. stage \notin Ended /\ stage' \notin Ended
    BY Stages DEF Order
  <2>2. QED
    BY <2>1, SameOptions, Stages DEF SetupInv, Emptied
<1>6. QED
  BY <1>1, <1>2, <1>3, <1>4, <1>5 DEF SetupInv

LEMMA Checking ==
  ASSUME SetupInv, NEW from, NEW to, NEW ok, Check(from, to, ok),
         <<from, to>> \in Order, to # "done",
         ok => Asked(to), to = "format" => Compared
  PROVE  SetupInv'
<1>1. from \notin Ended \cup {"done"}
  BY Stages DEF Order
<1>2. CASE Fail(from)
  BY <1>1, <1>2, Failing
<1>3. CASE ok /\ Advance(from, to) /\ UNCHANGED <<run, broken, options, held, disk, compared, jar, exit>>
  <2>1. stage = from /\ stage' = to /\ UNCHANGED <<options, broken, held, disk, compared, exit>>
    BY <1>3 DEF Advance
  <2>2. QED
    BY <1>3, <2>1, GoingAhead
<1>4. QED
  BY <1>2, <1>3 DEF Check

LEMMA ChecksKeep ==
  ASSUME SetupInv,
         Validate \/ ChooseFormat \/ ReadInputs \/ WatchSession \/ BuildScope \/ LoadCatalog
  PROVE  SetupInv'
<1>1. CASE Check("urls", "logger", TargetIsGiven)
  BY <1>1, Checking DEF Order, Asked
<1>2. CASE Check("logger", "gate", LogIsGood)
  BY <1>2, Checking DEF Order, Asked
<1>3. CASE Check("gate", "baseline", GateIsGood)
  BY <1>3, Checking DEF Order, Asked
<1>4. CASE ChooseFormat
  BY <1>4, Checking DEF ChooseFormat, Order, Asked
<1>5. CASE ReadInputs
  BY <1>5, Checking DEF ReadInputs, Order, Asked
<1>6. CASE WatchSession
  BY <1>6, Checking DEF WatchSession, Order, Asked
<1>7. CASE BuildScope
  BY <1>7, Checking DEF BuildScope, Order, Asked
<1>8. CASE LoadCatalog
  BY <1>8, Checking DEF LoadCatalog, Order, Asked
<1>9. QED
  BY <1>1, <1>2, <1>3, <1>4, <1>5, <1>6, <1>7, <1>8 DEF Validate

LEMMA ReadConfigKeeps == ASSUME SetupInv, ReadConfig PROVE SetupInv'
<1>1. /\ stage = "parse" /\ UNCHANGED <<held, disk, compared>>
      /\ stage' = "urls" \/ (stage' = "failed" /\ exit' = 2)
  BY DEF ReadConfig
<1>2. disk = "old" /\ held = <<>>
  BY <1>1, Stages DEF SetupInv, Untouched
<1>3. DOMAIN held = {}
  BY <1>2
<1>4. QED
  BY <1>1, <1>2, <1>3, Stages
     DEF SetupInv, SetupTypeOK, FoundGood, Untouched, WellSpent, Emptied

LEMMA ReadBaselineKeeps == ASSUME SetupInv, ReadBaseline PROVE SetupInv'
<1>1. CASE ~IsSet("baseline") /\ Check("baseline", "format", TRUE)
  <2>1. Asked("format") /\ Compared
    BY <1>1 DEF Asked, Compared
  <2>2. QED
    BY <1>1, <2>1, Checking DEF Order
<1>2. CASE IsSet("baseline") /\ "baseline" \in broken /\ Fail("baseline")
  BY <1>2, Failing, Stages
<1>3. CASE /\ Advance("baseline", "format") /\ compared' = disk
           /\ UNCHANGED <<run, broken, options, held, disk, jar, exit>>
  <2>1. stage = "baseline" /\ stage' = "format"
    BY <1>3 DEF Advance
  <2>2. disk = "old" /\ held = <<>> /\ DOMAIN held = {}
    BY <2>1, Stages DEF SetupInv, Untouched
  <2>3. FoundGood'
    BY <1>3, <2>1, GoodStays DEF SetupInv, Order, Asked
  <2>4. SetupTypeOK'
    BY <1>3, <2>1, Stages DEF SetupInv, SetupTypeOK
  <2>5. Compared'
    BY <1>3, <2>2 DEF Compared
  <2>6. Untouched' /\ WellSpent' /\ Emptied'
    BY <1>3, <2>1, <2>2, <2>5, Stages DEF Untouched, WellSpent, Emptied
  <2>7. QED
    BY <2>3, <2>4, <2>6 DEF SetupInv
<1>4. QED
  BY <1>1, <1>2, <1>3 DEF ReadBaseline

LEMMA OpenOutputKeeps == ASSUME SetupInv, OpenOutput PROVE SetupInv'
<1>1. CASE ~IsSet("output") /\ Check("output", "inputs", TRUE)
  BY <1>1, Checking DEF Order, Asked
<1>2. CASE Fail("output")
  BY <1>2, Failing, Stages
<1>3. CASE /\ Advance("output", "inputs") /\ held' = <<"output">> \o held
           /\ disk' = IF Opt("output") = "report.json" THEN "empty" ELSE disk
           /\ UNCHANGED <<run, broken, options, compared, jar, exit>>
  <2>1. stage = "output" /\ stage' = "inputs"
    BY <1>3 DEF Advance
  <2>2. disk = "old" /\ held = <<>> /\ Compared /\ ReportIsDue
    BY <2>1, Stages DEF SetupInv, Untouched, FoundGood, ReportIsDue, Compared
  <2>3. /\ held' \in Seq({"output", "listener", "browser"})
        /\ \E i \in DOMAIN held' : held'[i] = "output"
        /\ \A i \in DOMAIN held' : held'[i] = "output"
    <3>1. held' = <<"output">>
      BY <1>3, <2>2
    <3>2. QED
      BY <3>1
  <2>4. FoundGood'
    BY <1>3, <2>1, GoodStays DEF SetupInv, Order, Asked
  <2>5. SetupTypeOK'
    BY <1>3, <2>1, <2>2, <2>3, Stages DEF SetupTypeOK
  <2>6. Untouched'
    BY <1>3, <2>1, <2>2, <2>3, SameComparison, Stages DEF Untouched
  <2>7. WellSpent'
    BY <1>3, <2>2, <2>3, SameComparison, SameOptions DEF WellSpent
  <2>8. Emptied'
    BY <1>3, <2>1, <2>2, <2>3, SameOptions, Stages DEF Emptied
  <2>9. QED
    BY <2>4, <2>5, <2>6, <2>7, <2>8 DEF SetupInv
<1>4. QED
  BY <1>1, <1>2, <1>3 DEF OpenOutput

LEMMA AuthenticateKeeps == ASSUME SetupInv, Authenticate PROVE SetupInv'
<1>1. CASE Fail("auth")
  BY <1>1, Failing, Stages
<1>2. CASE /\ AuthIsGood /\ Advance("auth", "session")
           /\ UNCHANGED <<options, broken, held, disk, compared, exit>>
  BY <1>2, GoingAhead DEF Advance, Order, Asked
<1>3. QED
  BY <1>1, <1>2 DEF Authenticate

\* The listener and the browser are opened when all options have been read.
LEMMA AcquireKeeps ==
  ASSUME SetupInv, NEW from, NEW to, NEW wanted, NEW what \in {"listener", "browser"}, NEW ok,
         <<from, to>> \in {<<"oob", "browser">>, <<"browser", "catalog">>},
         ~wanted \/ ok => Asked(to),
         Acquire(from, to, wanted, what, ok)
  PROVE  SetupInv'
<1>0. <<from, to>> \in Order /\ to # "done" /\ to # "format"
      /\ from \in Running \ {"done"} /\ to \in Running \ {"done"}
  BY Stages DEF Order
<1>1. CASE ~wanted /\ Check(from, to, TRUE)
  BY <1>0, <1>1, Checking
<1>2. CASE Fail(from)
  BY <1>0, <1>2, Failing, Stages
<1>3. CASE /\ wanted /\ ok /\ Advance(from, to) /\ held' = <<what>> \o held
           /\ UNCHANGED <<run, broken, options, disk, compared, jar, exit>>
  <2>1. /\ stage = from /\ stage' = to /\ Asked(to)
        /\ UNCHANGED <<options, broken, disk, compared, exit>>
    BY <1>3 DEF Advance
  <2>2. /\ held' \in Seq({"output", "listener", "browser"})
        /\ \A j \in DOMAIN held : \E i \in DOMAIN held' : held'[i] = held[j]
    <3>1. held \in Seq({"output", "listener", "browser"}) /\ held' = <<what>> \o held
      BY <1>3 DEF SetupInv, SetupTypeOK
    <3>2. /\ held' \in Seq({"output", "listener", "browser"})
          /\ DOMAIN held = 1..Len(held) /\ DOMAIN held' = 1..(Len(held) + 1)
          /\ Len(held) \in Nat /\ \A j \in 1..Len(held) : held'[j + 1] = held[j]
      BY <3>1
    <3>3. \A j \in DOMAIN held : j + 1 \in DOMAIN held' /\ held'[j + 1] = held[j]
      BY <3>2
    <3>4. QED
      BY <3>2, <3>3
  <2>3. FoundGood'
    BY <1>0, <2>1, GoodStays DEF SetupInv
  <2>4. SetupTypeOK'
    BY <1>0, <2>1, <2>2, Stages DEF SetupInv, SetupTypeOK
  <2>5. Compared /\ ReportIsDue /\ ScanIsDue
    <3>1. FoundGood /\ Compared
      BY <1>0, <2>1, Stages DEF SetupInv, Untouched
    <3>2. CallbackIsGood
      BY <2>1, <3>1, Stages DEF FoundGood, Asked
    <3>3. QED
      BY <1>0, <2>1, <3>1, <3>2, Stages DEF FoundGood, ReportIsDue, ScanIsDue, Compared
  <2>6. Untouched'
    BY <1>0, <2>1, <2>5, SameComparison, Stages DEF Untouched
  <2>7. WellSpent'
    BY <2>1, <2>5, SameComparison, SameOptions DEF SetupInv, WellSpent
  <2>8. Emptied'
    BY <1>0, <2>1, <2>2, SameOptions, Stages DEF SetupInv, Emptied
  <2>9. QED
    BY <2>3, <2>4, <2>6, <2>7, <2>8 DEF SetupInv
<1>4. QED
  BY <1>1, <1>2, <1>3 DEF Acquire

LEMMA CloseKeeps == ASSUME SetupInv, Close PROVE SetupInv'
<1>0. stage \in {"failed", "done"} /\ UNCHANGED <<options, broken, compared, exit>>
  BY DEF Close
<1>1. CASE held = <<>>
  <2>1. stage' = "exited" /\ UNCHANGED <<held, disk>> /\ DOMAIN held = {}
    BY <1>1 DEF Close
  <2>2. exit # -1 /\ (disk = "empty" => exit = 2)
    BY <1>0, <2>1, Stages DEF SetupInv, Emptied
  <2>3. FoundGood' /\ Untouched' /\ SetupTypeOK'
    BY <1>0, <2>1, Stages DEF SetupInv, FoundGood, Untouched, SetupTypeOK
  <2>4. WellSpent'
    BY <1>0, <2>1, SameComparison, SameOptions DEF SetupInv, WellSpent
  <2>5. Emptied'
    BY <1>0, <1>1, <2>1, <2>2, Stages DEF Emptied
  <2>6. QED
    BY <2>3, <2>4, <2>5 DEF SetupInv
<1>2. CASE held # <<>>
  <2>1. /\ held' = Tail(held) /\ stage' = stage
        /\ disk' = IF Head(held) = "output" /\ Opt("output") = "report.json" /\ stage = "done"
                   THEN "new" ELSE disk
    BY <1>2 DEF Close
  <2>2. /\ held' \in Seq({"output", "listener", "browser"})
        /\ \A i \in DOMAIN held' : \E j \in DOMAIN held : held[j] = held'[i]
        /\ \A j \in DOMAIN held : held[j] = Head(held) \/ \E i \in DOMAIN held' : held'[i] = held[j]
    <3>0. held \in Seq({"output", "listener", "browser"})
      BY DEF SetupInv, SetupTypeOK
    <3>1. /\ held' \in Seq({"output", "listener", "browser"}) /\ Len(held) \in Nat \ {0}
          /\ DOMAIN held = 1..Len(held) /\ DOMAIN held' = 1..(Len(held) - 1)
          /\ \A i \in 1..(Len(held) - 1) : held'[i] = held[i + 1]
          /\ Head(held) = held[1]
      BY <1>2, <2>1, <3>0
    <3>2. \A i \in DOMAIN held' : i + 1 \in DOMAIN held /\ held[i + 1] = held'[i]
      BY <3>1
    <3>3. \A j \in DOMAIN held : j = 1 \/ (j - 1 \in DOMAIN held' /\ held'[j - 1] = held[j])
      BY <3>1
    <3>4. QED
      BY <3>1, <3>2, <3>3
  <2>3. SetupTypeOK'
    BY <2>1, <2>2 DEF SetupInv, SetupTypeOK
  <2>4. FoundGood'
    BY <1>0, <2>1, SameOptions DEF SetupInv, FoundGood
  <2>5. Untouched'
    BY <1>0, <2>1, SameComparison, Stages DEF SetupInv, Untouched
  <2>6. WellSpent'
    <3>1. ReportIsDue
      BY <1>2 DEF SetupInv, WellSpent
    <3>2. (\E i \in DOMAIN held' : held'[i] # "output") => ScanIsDue
      BY <2>2 DEF SetupInv, WellSpent
    <3>3. QED
      BY <1>0, <3>1, <3>2, SameComparison, SameOptions DEF WellSpent
  <2>7. Emptied'
    <3>1. disk' = "empty" /\ stage' \notin Ended =>
            Opt("output") = "report.json" /\ \E i \in DOMAIN held' : held'[i] = "output"
      BY <1>0, <2>1, <2>2, Stages DEF SetupInv, Emptied
    <3>2. QED
      BY <1>0, <2>1, <3>1, SameOptions, Stages DEF SetupInv, Emptied
  <2>8. QED
    BY <2>3, <2>4, <2>5, <2>6, <2>7 DEF SetupInv
<1>3. QED
  BY <1>1, <1>2

LEMMA SetupStep == SetupInv /\ [SetupNext]_setupVars => SetupInv'
<1> SUFFICES ASSUME SetupInv, [SetupNext]_setupVars PROVE SetupInv'
  OBVIOUS
<1>1. CASE StartOOB \/ StartBrowser
  <2>1. CASE StartOOB
    <3>1. ~Opt("oob") \/ (CallbackIsGood /\ "port" \notin broken) => Asked("browser")
      BY DEF CallbackIsGood, Asked
    <3>2. Acquire("oob", "browser", Opt("oob"), "listener", CallbackIsGood /\ "port" \notin broken)
      BY <2>1 DEF StartOOB
    <3> DEFINE w == Opt("oob")
               o == CallbackIsGood /\ "port" \notin broken
    <3>3. (~w \/ o => Asked("browser")) /\ Acquire("oob", "browser", w, "listener", o)
      BY <3>1, <3>2
    <3> HIDE DEF w, o
    <3>4. QED
      BY <3>3, AcquireKeeps
  <2>2. CASE StartBrowser
    <3>1. Asked("catalog")
      BY DEF Asked
    <3>2. QED
      BY <2>2, <3>1, AcquireKeeps DEF StartBrowser
  <2>3. QED
    BY <1>1, <2>1, <2>2
<1>2. CASE Scan
  BY <1>2, GoingAhead DEF Scan, Advance, Order, Asked
<1>3. CASE UNCHANGED setupVars
  <2>1. UNCHANGED <<stage, options, broken, held, disk, compared, exit>>
    BY <1>3 DEF setupVars
  <2>2. SetupTypeOK' /\ FoundGood' /\ Untouched'
    BY <2>1, SameOptions, SameComparison DEF SetupInv, SetupTypeOK, FoundGood, Untouched
  <2>3. WellSpent' /\ Emptied'
    BY <2>1, SameOptions, SameComparison DEF SetupInv, WellSpent, Emptied
  <2>4. QED
    BY <2>2, <2>3 DEF SetupInv
<1>4. QED
  BY <1>1, <1>2, <1>3, ChecksKeep, ReadConfigKeeps, ReadBaselineKeeps, OpenOutputKeeps,
     AuthenticateKeeps, CloseKeeps DEF SetupNext

\* Whatever the command line, the file and the build, and wherever a run ends:
\* the output is opened only for a run with a target, a level, a log, a gate and a
\* format that exist, and after the baseline was read from the previous report; the
\* listener and the browser start only when the proxies, the seeds, the authority,
\* the credentials, the session check, the CSRF mode, the scope and the callback
\* host were found good too; and all that was opened is closed (runScan and its
\* defers).
THEOREM NothingWasted == SetupSpec => []NothingIsWasted
<1>1. SetupInv => NothingIsWasted
  BY Stages DEF SetupInv, WellSpent, Emptied, NothingIsWasted
<1>2. QED
  BY SetupInitially, SetupStep, <1>1, PTL DEF SetupSpec
-----------------------------------------------------------------------------
(* The options of a run, and the checks they select.                       *)

IsNone(text) == text = ""

\* Of two layers the stronger speaks first.
LEMMA LayersSpeak ==
  ASSUME NEW strong, NEW weak
  PROVE  /\ DOMAIN Layered(strong, weak) = DOMAIN strong \cup DOMAIN weak
         /\ \A k \in DOMAIN strong : Layered(strong, weak)[k] = strong[k]
         /\ \A k \in DOMAIN weak \ DOMAIN strong : Layered(strong, weak)[k] = weak[k]
BY DEF Layered

LEMMA NothingSaid == DOMAIN <<>> = {}
OBVIOUS

LEMMA MergeIsLayered ==
  ASSUME NEW base, NEW upper
  PROVE  /\ DOMAIN Merge(base, upper) = DOMAIN upper \cup DOMAIN base
         /\ \A k \in DOMAIN Merge(base, upper) \ {"checks.settings"} : Merge(base, upper)[k] = Layered(upper, base)[k]
         /\ "checks.settings" \in DOMAIN base \cap DOMAIN upper =>
              Merge(base, upper)["checks.settings"] = MergeBags(base["checks.settings"], upper["checks.settings"])
         /\ "checks.settings" \notin DOMAIN base \cap DOMAIN upper => Merge(base, upper) = Layered(upper, base)
<1> DEFINE l == Layered(upper, base)
           bags == MergeBags(base["checks.settings"], upper["checks.settings"])
<1>1. DOMAIN l = DOMAIN upper \cup DOMAIN base /\ l = [k \in DOMAIN l |-> l[k]]
  BY DEF Layered
<1>2. Merge(base, upper) = IF "checks.settings" \in DOMAIN base \cap DOMAIN upper
                           THEN [l EXCEPT !["checks.settings"] = bags] ELSE l
  BY DEF Merge
<1> HIDE DEF l, bags
<1>3. CASE "checks.settings" \in DOMAIN base \cap DOMAIN upper
  <2>1. Merge(base, upper) = [l EXCEPT !["checks.settings"] = bags] /\ "checks.settings" \in DOMAIN l
    BY <1>1, <1>2, <1>3
  <2>2. /\ DOMAIN [l EXCEPT !["checks.settings"] = bags] = DOMAIN l
        /\ [l EXCEPT !["checks.settings"] = bags]["checks.settings"] = bags
        /\ \A k \in DOMAIN l \ {"checks.settings"} : [l EXCEPT !["checks.settings"] = bags][k] = l[k]
    BY <1>1, <2>1
  <2>3. QED
    BY <1>1, <1>3, <2>1, <2>2 DEF l, bags
<1>4. CASE "checks.settings" \notin DOMAIN base \cap DOMAIN upper
  BY <1>1, <1>2, <1>4 DEF l
<1>5. QED
  BY <1>3, <1>4

\* What the command line and the defaults of the flags say.
LEMMA CommandLineSpeaks ==
  ASSUME NEW cli, NEW args
  PROVE  \A f \in Flags \ {"url"} : FromCommandLine(cli, args)[f] = IF f \in DOMAIN cli THEN cli[f] ELSE Default[f]
<1> DEFINE l == Layered(cli, Default)
<1>1. DOMAIN Default = Flags
  BY DEF Default
<1>2. l = [k \in DOMAIN l |-> l[k]] /\ Flags \subseteq DOMAIN l
  BY <1>1 DEF Layered
<1>3. \A f \in Flags : l[f] = IF f \in DOMAIN cli THEN cli[f] ELSE Default[f]
  <2>1. \A f \in DOMAIN cli : l[f] = cli[f]
    BY LayersSpeak
  <2>2. \A f \in DOMAIN Default \ DOMAIN cli : l[f] = Default[f]
    BY LayersSpeak
  <2> HIDE DEF l
  <2>3. QED
    BY <1>1, <2>1, <2>2
<1> HIDE DEF l
<1>4. FromCommandLine(cli, args) = [l EXCEPT !["url"] = l["url"] \o args]
  BY DEF FromCommandLine, l
<1>5. QED
  BY <1>2, <1>3, <1>4

\* A file that is accepted says nothing of --config and --profile.
LEMMA ResolvedKeys ==
  ASSUME NEW file, NEW profile, Accepted(file), Resolvable(file, profile)
  PROVE  DOMAIN Resolve(file, profile) \subseteq Keys
<1>1. DOMAIN file.base \subseteq Keys /\ \A p \in DOMAIN file.profiles : DOMAIN file.profiles[p] \subseteq Keys
  BY DEF Accepted
<1>2. CASE IsNone(profile)
  <2>1. Resolve(file, profile) = file.base
    BY Zenon, <1>2 DEF Resolve, IsNone
  <2>2. QED
    BY <1>1, <2>1
<1>3. CASE ~IsNone(profile)
  <2>1. Resolve(file, profile) = Merge(file.base, file.profiles[profile])
    BY Zenon, <1>3 DEF Resolve, IsNone
  <2>2. profile \in DOMAIN file.profiles
    BY Zenon, <1>3 DEF Resolvable, IsNone
  <2>3. DOMAIN Merge(file.base, file.profiles[profile]) = DOMAIN file.profiles[profile] \cup DOMAIN file.base
    BY MergeIsLayered
  <2>4. QED
    BY <1>1, <2>1, <2>2, <2>3
<1>4. QED
  BY <1>2, <1>3

\* Where the options o of a run r come from.
GivenBy(r, o) ==
  \/ IsNone(o["config"]) /\ o = FromCommandLine(r.inv.cli, r.inv.args)
  \/ /\ ~IsNone(o["config"])
     /\ r.resolved = Resolve(r.file, o["profile"])
     /\ o = Overlaid(FromCommandLine(r.inv.cli, r.inv.args), r.inv.cli, r.resolved)

OptionsInv ==
  /\ {"inv", "file", "resolved", "build"} \subseteq DOMAIN run
  /\ stage = "parse" => options = FromCommandLine(run.inv.cli, run.inv.args)
  /\ stage \notin {"parse"} \cup Ended => GivenBy(run, options)

LEMMA OptionsAtFirst == SetupInit => OptionsInv
<1> SUFFICES ASSUME SetupInit PROVE OptionsInv
  OBVIOUS
<1>1. stage = "parse" /\ options = FromCommandLine(run.inv.cli, run.inv.args)
  BY DEF SetupInit
<1>0. run \in Runs
  BY DEF SetupInit
<1>2. \E i \in Invocations : \E f \in Files : \E b \in Builds : run = [inv |-> i, file |-> f, resolved |-> <<>>, build |-> b]
  BY <1>0 DEF Runs
<1>3. {"inv", "file", "resolved", "build"} \subseteq DOMAIN run
  BY <1>2
<1>4. QED
  BY <1>1, <1>3 DEF OptionsInv

LEMMA ReadConfigGives == ASSUME OptionsInv, ReadConfig PROVE OptionsInv'
<1> DEFINE start == FromCommandLine(run.inv.cli, run.inv.args)
           found == Resolve(run.file, options["profile"])
<1>1. stage = "parse" /\ options = start /\ {"inv", "file", "resolved", "build"} \subseteq DOMAIN run
  BY DEF OptionsInv, ReadConfig
<1>2. \/ IsNone(options["config"]) /\ stage' = "urls" /\ run' = run /\ options' = options
      \/ /\ ~IsNone(options["config"]) /\ stage' = "urls"
         /\ Accepted(run.file) /\ Resolvable(run.file, options["profile"])
         /\ run' = [run EXCEPT !.resolved = found] /\ options' = Overlaid(options, run.inv.cli, found)
      \/ stage' = "failed" /\ run' = run /\ options' = options
  BY Zenon DEF ReadConfig, IsNone
<1>3. CASE IsNone(options["config"]) /\ stage' = "urls" /\ run' = run /\ options' = options
  BY <1>1, <1>3 DEF OptionsInv, GivenBy
<1>4. CASE /\ ~IsNone(options["config"]) /\ stage' = "urls"
           /\ Accepted(run.file) /\ Resolvable(run.file, options["profile"])
           /\ run' = [run EXCEPT !.resolved = found] /\ options' = Overlaid(options, run.inv.cli, found)
  <2>1. KeyOf["config"] \notin DOMAIN found /\ KeyOf["profile"] \notin DOMAIN found
    BY <1>4, TableAssumption, ResolvedKeys
  <2> HIDE DEF found, start
  <2>2. options'["config"] = options["config"] /\ options'["profile"] = options["profile"]
    BY <1>4, <2>1, TableAssumption DEF Overlaid
  <2>3. /\ run'.resolved = found /\ run'.inv = run.inv /\ run'.file = run.file
        /\ {"inv", "file", "resolved", "build"} \subseteq DOMAIN run'
    BY <1>1, <1>4
  <2>4. GivenBy(run', options')
    BY <1>1, <1>4, <2>2, <2>3 DEF GivenBy, start, found
  <2>5. QED
    BY <1>4, <2>3, <2>4 DEF OptionsInv
<1>5. CASE stage' = "failed" /\ run' = run /\ options' = options
  BY <1>1, <1>5 DEF OptionsInv, Ended
<1>6. QED
  BY <1>2, <1>3, <1>4, <1>5

LEMMA OptionsStay == OptionsInv /\ [SetupNext]_setupVars => OptionsInv'
<1> SUFFICES ASSUME OptionsInv, [SetupNext]_setupVars PROVE OptionsInv'
  OBVIOUS
<1>1. ASSUME UNCHANGED <<run, options>>, stage' # "parse" \/ stage' = stage, stage' \notin {"parse"} \cup Ended => stage \notin {"parse"} \cup Ended
      PROVE  OptionsInv'
  BY <1>1 DEF OptionsInv, GivenBy
<1>2. ASSUME NEW from, NEW to, NEW ok, Check(from, to, ok), from \notin {"parse"} \cup Ended, to # "parse" PROVE OptionsInv'
  BY <1>1, <1>2 DEF Check, Advance, Fail, Ended
<1>3. ASSUME NEW from, Fail(from), from \notin {"parse"} \cup Ended PROVE OptionsInv'
  BY <1>1, <1>3 DEF Fail, Ended
<1>4. Validate \/ ReadInputs \/ WatchSession \/ BuildScope \/ ChooseFormat \/ LoadCatalog => OptionsInv'
  BY <1>2 DEF Validate, ReadInputs, WatchSession, BuildScope, ChooseFormat, LoadCatalog, Ended
<1>5. ReadBaseline \/ OpenOutput \/ Authenticate \/ Scan => OptionsInv'
  BY <1>1, <1>2, <1>3 DEF ReadBaseline, OpenOutput, Authenticate, Scan, Advance, Ended
<1>6. ASSUME NEW from, NEW to, NEW wanted, NEW what, NEW ok, Acquire(from, to, wanted, what, ok),
             from \notin {"parse"} \cup Ended, to # "parse"
      PROVE  OptionsInv'
  BY <1>1, <1>2, <1>3, <1>6 DEF Acquire, Advance
<1>7. StartOOB \/ StartBrowser => OptionsInv'
  BY <1>6 DEF StartOOB, StartBrowser, Ended
<1>8. Close \/ UNCHANGED setupVars => OptionsInv'
  BY <1>1 DEF Close, setupVars, Ended
<1>9. QED
  BY <1>4, <1>5, <1>7, <1>8, ReadConfigGives DEF SetupNext

\* Each option has the value of its strongest layer.
LEMMA OptionsByLayer ==
  ASSUME NEW f \in Flags \ {"url"}, GivenBy(run, options) PROVE options[f] = Strongest(f)
<1> DEFINE cli == run.inv.cli
           start == FromCommandLine(cli, run.inv.args)
           k == KeyOf[f]
           base == run.file.base
           upper == run.file.profiles[options["profile"]]
<1>1. start[f] = IF f \in DOMAIN cli THEN cli[f] ELSE Default[f]
  BY CommandLineSpeaks
<1>2. k # "checks.settings"
  BY TableAssumption
<1>3. CASE f \in DOMAIN cli
  <2>1. Strongest(f) = cli[f]
    BY <1>3 DEF Strongest
  <2>2. options = start \/ options = Overlaid(start, cli, run.resolved)
    BY DEF GivenBy
  <2> HIDE DEF start
  <2>3. QED
    BY <1>1, <1>3, <2>1, <2>2 DEF Overlaid
<1>4. CASE f \notin DOMAIN cli
  <2>1. Strongest(f) = IF k \in DOMAIN File THEN File[k] ELSE Default[f]
    BY <1>4 DEF Strongest
  <2>2. CASE IsNone(options["config"])
    <3>1. File = <<>>
      BY Zenon, <2>2 DEF File, IsNone
    <3>2. options = start
      BY <2>2 DEF GivenBy
    <3> HIDE DEF start
    <3>3. QED
      BY <1>1, <1>4, <2>1, <3>1, <3>2, NothingSaid
  <2>3. CASE ~IsNone(options["config"])
    <3>1. File = Layered(Profile, base)
      BY Zenon, <2>3 DEF File, IsNone
    <3>2. run.resolved = Resolve(run.file, options["profile"]) /\ options = Overlaid(start, cli, run.resolved)
      BY <2>3 DEF GivenBy
    <3>3. DOMAIN run.resolved = DOMAIN File /\ (k \in DOMAIN File => run.resolved[k] = File[k])
      <4>1. CASE IsNone(options["profile"])
        <5>1. Profile = <<>> /\ run.resolved = base
          BY Zenon, <3>2, <4>1 DEF Profile, Resolve, IsNone
        <5>2. DOMAIN File = DOMAIN Profile \cup DOMAIN base /\ \A x \in DOMAIN base \ DOMAIN Profile : File[x] = base[x]
          BY <3>1 DEF Layered
        <5>3. QED
          BY <5>1, <5>2, NothingSaid
      <4>2. CASE ~IsNone(options["profile"])
        <5>1. Profile = upper /\ run.resolved = Merge(base, upper)
          BY Zenon, <3>2, <4>2 DEF Profile, Resolve, IsNone
        <5>2. File = Layered(upper, base)
          BY <3>1, <5>1
        <5>3. /\ DOMAIN Merge(base, upper) = DOMAIN upper \cup DOMAIN base
              /\ \A x \in DOMAIN Merge(base, upper) \ {"checks.settings"} : Merge(base, upper)[x] = Layered(upper, base)[x]
          BY MergeIsLayered
        <5>4. DOMAIN File = DOMAIN upper \cup DOMAIN base
          BY <5>2, LayersSpeak
        <5> HIDE DEF k, upper, base
        <5>5. QED
          BY <1>2, <5>1, <5>2, <5>3, <5>4
      <4>3. QED
        BY <4>1, <4>2
    <3> HIDE DEF start, k
    <3>4. options[f] = IF k \in DOMAIN run.resolved THEN run.resolved[k] ELSE start[f]
      BY <1>4, <3>2 DEF Overlaid, k
    <3>5. QED
      BY <1>1, <1>4, <2>1, <3>3, <3>4
  <2>4. QED
    BY <2>2, <2>3
<1>5. QED
  BY <1>3, <1>4

\* What the settings of a check are in the end.
Bag(settings, c) == IF c \in DOMAIN settings THEN settings[c] ELSE <<>>

LEMMA MergedBags ==
  ASSUME NEW base, NEW upper, NEW c, NEW k
  PROVE  LET bag == Bag(SettingsOf(Merge(base, upper)), c) IN
         /\ k \in DOMAIN bag <=> SetBy(upper, c, k) \/ SetBy(base, c, k)
         /\ SetBy(upper, c, k) => bag[k] = upper["checks.settings"][c][k]
         /\ SetBy(base, c, k) /\ ~SetBy(upper, c, k) => bag[k] = base["checks.settings"][c][k]
<1> DEFINE s == "checks.settings"
           m == Merge(base, upper)
           bag == Bag(SettingsOf(m), c)
<1>1. DOMAIN m = DOMAIN upper \cup DOMAIN base
  BY MergeIsLayered
<1>2. CASE s \in DOMAIN base \cap DOMAIN upper
  <2> DEFINE b == base[s]
             u == upper[s]
  <2>1. SettingsOf(m) = MergeBags(b, u)
    <3>1. m[s] = MergeBags(b, u)
      BY <1>2, MergeIsLayered
    <3> HIDE DEF b, u, m
    <3>2. QED
      BY <1>1, <1>2, <3>1 DEF SettingsOf
  <2>2. DOMAIN MergeBags(b, u) = DOMAIN b \cup DOMAIN u
    BY DEF MergeBags
  <2>3. CASE c \in DOMAIN b \cap DOMAIN u
    <3>1. bag = Layered(u[c], b[c])
      BY <2>1, <2>3 DEF Bag, MergeBags
    <3>2. /\ SetBy(upper, c, k) <=> k \in DOMAIN u[c]
          /\ SetBy(base, c, k) <=> k \in DOMAIN b[c]
      BY <1>2, <2>3 DEF SetBy
    <3>3. /\ DOMAIN bag = DOMAIN u[c] \cup DOMAIN b[c]
          /\ k \in DOMAIN u[c] => bag[k] = u[c][k]
          /\ k \in DOMAIN b[c] \ DOMAIN u[c] => bag[k] = b[c][k]
      <4> HIDE DEF bag, u, b
      <4>1. QED
        BY <3>1 DEF Layered
    <3> HIDE DEF bag
    <3>4. QED
      BY <3>2, <3>3 DEF bag
  <2>4. CASE c \in DOMAIN u \ DOMAIN b
    <3>1. bag = u[c]
      BY <2>1, <2>4 DEF Bag, MergeBags, Layered
    <3>2. (SetBy(upper, c, k) <=> k \in DOMAIN u[c]) /\ ~SetBy(base, c, k)
      BY <1>2, <2>4 DEF SetBy
    <3>3. QED
      BY <3>1, <3>2
  <2>5. CASE c \in DOMAIN b \ DOMAIN u
    <3>1. bag = b[c]
      BY <2>1, <2>5 DEF Bag, MergeBags, Layered
    <3>2. (SetBy(base, c, k) <=> k \in DOMAIN b[c]) /\ ~SetBy(upper, c, k)
      BY <1>2, <2>5 DEF SetBy
    <3>3. QED
      BY <3>1, <3>2
  <2>6. CASE c \notin DOMAIN b \cup DOMAIN u
    <3>1. bag = <<>>
      BY <2>1, <2>2, <2>6 DEF Bag
    <3>2. ~SetBy(base, c, k) /\ ~SetBy(upper, c, k)
      BY <2>6 DEF SetBy
    <3>3. QED
      BY <3>1, <3>2, NothingSaid
  <2>7. QED
    BY <2>3, <2>4, <2>5, <2>6
<1>3. CASE s \notin DOMAIN base \cap DOMAIN upper
  <2>1. m = Layered(upper, base)
    BY <1>3, MergeIsLayered
  <2>2. CASE s \in DOMAIN upper
    <3>1. SettingsOf(m) = upper[s]
      BY <1>1, <2>1, <2>2 DEF SettingsOf, Layered
    <3>2. ~SetBy(base, c, k)
      BY <1>3, <2>2 DEF SetBy
    <3>3. QED
      BY <2>2, <3>1, <3>2, NothingSaid DEF Bag, SetBy
  <2>3. CASE s \in DOMAIN base
    <3>1. SettingsOf(m) = base[s]
      BY <1>1, <1>3, <2>1, <2>3 DEF SettingsOf, Layered
    <3>2. ~SetBy(upper, c, k)
      BY <1>3, <2>3 DEF SetBy
    <3>3. QED
      BY <2>3, <3>1, <3>2, NothingSaid DEF Bag, SetBy
  <2>4. CASE s \notin DOMAIN base \cup DOMAIN upper
    <3>1. SettingsOf(m) = <<>>
      BY <1>1, <2>4 DEF SettingsOf
    <3>2. ~SetBy(base, c, k) /\ ~SetBy(upper, c, k)
      BY <2>4 DEF SetBy
    <3>3. QED
      BY <3>1, <3>2, NothingSaid DEF Bag
  <2>5. QED
    BY <2>2, <2>3, <2>4
<1>4. QED
  BY <1>2, <1>3

\* A check that runs is a module of the build, with its settings.
LEMMA CheckIsAModule ==
  ASSUME NEW modules, NEW pollute, NEW settings, NEW c \in All(modules, pollute, settings)
  PROVE  \E m \in modules : /\ c.name = m.name /\ c.level = m.level /\ c.config = Bag(settings, m.name)
                            /\ Field(m, "pollute", "no") = "true" => pollute
<1>1. PICK m \in modules : /\ Meta(m).pollute => pollute
                           /\ c = Layered(Meta(m), [config |-> Bag(settings, m.name)])
  BY Zenon DEF All, Bag
<1> DEFINE d == Meta(m)
<1>2. /\ {"name", "level"} \subseteq DOMAIN d /\ "config" \notin DOMAIN d /\ d.name = m.name /\ d.level = m.level
      /\ d.pollute = (Field(m, "pollute", "no") = "true")
  BY DEF Meta
<1> HIDE DEF d
<1>3. c.name = d.name /\ c.level = d.level /\ c.config = Bag(settings, m.name)
  BY <1>1, <1>2 DEF Layered, d
<1>4. Field(m, "pollute", "no") = "true" => pollute
  BY <1>1, <1>2 DEF d
<1>5. QED
  BY <1>2, <1>3, <1>4

LEMMA ModuleIsACheck ==
  ASSUME NEW modules, NEW pollute, NEW settings, NEW m \in modules, Field(m, "pollute", "no") = "true" => pollute
  PROVE  \E c \in All(modules, pollute, settings) : c.name = m.name /\ c.level = m.level
<1> DEFINE d == Meta(m)
           c == Layered(d, [config |-> Bag(settings, m.name)])
<1>1. /\ {"name", "level"} \subseteq DOMAIN d /\ d.name = m.name /\ d.level = m.level
      /\ d.pollute = (Field(m, "pollute", "no") = "true")
  BY DEF Meta
<1>2. c.name = m.name /\ c.level = m.level
  <2> HIDE DEF d
  <2>1. QED
    BY <1>1 DEF Layered
<1>3. Meta(m).pollute => pollute
  BY <1>1
<1>4. c \in All(modules, pollute, settings)
  BY Zenon, <1>3 DEF All, Bag
<1> HIDE DEF c
<1>5. QED
  BY <1>2, <1>4

\* The lists leave a check that is enabled, or with no list of those any, and not disabled.
Leaves(name, enable, disable) == (enable # <<>> => MatchesAny(name, enable)) /\ ~MatchesAny(name, disable)

LEMMA EnabledAre ==
  ASSUME NEW modules, NEW pollute, NEW settings, NEW level, NEW enable, NEW disable, NEW c
  PROVE  c \in Enabled(modules, pollute, settings, level, enable, disable) <=>
           /\ c \in All(modules, pollute, settings) /\ LevelRank(c.level) <= LevelRank(level)
           /\ Leaves(c.name, enable, disable)
<1> DEFINE all == All(modules, pollute, settings)
           levelled == AtMost(all, level)
<1>1. c \in levelled <=> c \in all /\ LevelRank(c.level) <= LevelRank(level)
  BY DEF AtMost
<1> HIDE DEF all
<1>2. ~MatchesAny(c.name, <<>>)
  BY NothingSaid DEF MatchesAny
<1>3. CASE enable = <<>> /\ disable = <<>>
  BY <1>1, <1>2, <1>3 DEF Enabled, Leaves, all
<1>4. CASE ~(enable = <<>> /\ disable = <<>>)
  <2>1. Enabled(modules, pollute, settings, level, enable, disable) = Kept(levelled, enable, disable)
    BY Zenon, <1>4 DEF Enabled, all
  <2>2. c \in Kept(levelled, enable, disable) <=> c \in levelled /\ Leaves(c.name, enable, disable)
    BY <1>2 DEF Kept, Leaves
  <2>3. QED
    BY <1>1, <2>1, <2>2 DEF all
<1>5. QED
  BY <1>3, <1>4

\* Whatever the options, the checks are those of the level and the lists.
LEMMA CatalogAlways == CatalogIsAsAsked
<1> DEFINE pollute == Opt("pollute")
           settings == SettingsOf(run.resolved)
           level == Opt("mode")
           enable == Opt("enable")
           disable == Opt("disable")
           asked(m) == /\ LevelRank(m.level) <= LevelRank(level)
                       /\ Field(m, "pollute", "no") = "true" => pollute
                       /\ enable # <<>> => MatchesAny(m.name, enable)
                       /\ ~MatchesAny(m.name, disable)
<1>1. \A c : c \in Checks <=> /\ c \in All(run.build, pollute, settings) /\ LevelRank(c.level) <= LevelRank(level)
                              /\ Leaves(c.name, enable, disable)
  BY EnabledAre DEF Checks
<1>2. ASSUME NEW c \in Checks PROVE \E m \in run.build : asked(m) /\ m.name = c.name
  BY <1>1, CheckIsAModule DEF Leaves
<1>3. ASSUME NEW m \in run.build, asked(m) PROVE \E c \in Checks : c.name = m.name
  <2>1. PICK c \in All(run.build, pollute, settings) : c.name = m.name /\ c.level = m.level
    BY <1>3, ModuleIsACheck
  <2>2. QED
    BY <1>1, <1>3, <2>1 DEF Leaves
<1>4. { c.name : c \in Checks } = { m.name : m \in { x \in run.build : asked(x) } }
  <2> HIDE DEF asked
  <2>1. QED
    BY <1>2, <1>3
<1>5. ASSUME NEW p \in Warned(run.build, enable, disable), NEW m \in run.build PROVE m.name \notin p
  <2>1. PICK c \in All(run.build, TRUE, <<>>) : c.name = m.name
    BY ModuleIsACheck
  <2>2. QED
    BY <2>1 DEF Warned, Unmatched
<1>6. QED
  BY <1>4, <1>5 DEF CatalogIsAsAsked

\* A check gets each of its settings from the strongest layer that has it.
LEMMA SettingsByLayer ==
  ASSUME GivenBy(run, options), ~IsNone(options["config"]), NEW c \in Checks, NEW k
  PROVE  /\ k \in DOMAIN c.config <=> SetBy(Profile, c.name, k) \/ SetBy(run.file.base, c.name, k)
         /\ SetBy(Profile, c.name, k) => c.config[k] = Profile["checks.settings"][c.name][k]
         /\ SetBy(run.file.base, c.name, k) /\ ~SetBy(Profile, c.name, k)
              => c.config[k] = run.file.base["checks.settings"][c.name][k]
<1> DEFINE base == run.file.base
           upper == run.file.profiles[options["profile"]]
           bag == Bag(SettingsOf(run.resolved), c.name)
<1>1. c.config = bag
  <2>1. c \in All(run.build, Opt("pollute"), SettingsOf(run.resolved))
    BY EnabledAre DEF Checks
  <2>2. QED
    BY <2>1, CheckIsAModule
<1>2. run.resolved = Resolve(run.file, options["profile"])
  BY DEF GivenBy
<1>3. CASE IsNone(options["profile"])
  <2>1. Profile = <<>> /\ run.resolved = base
    BY Zenon, <1>2, <1>3 DEF Profile, Resolve, IsNone
  <2>2. ~SetBy(Profile, c.name, k)
    BY <2>1, NothingSaid DEF SetBy
  <2>3. /\ k \in DOMAIN bag <=> SetBy(base, c.name, k)
        /\ SetBy(base, c.name, k) => bag[k] = base["checks.settings"][c.name][k]
    BY <2>1, NothingSaid DEF Bag, SettingsOf, SetBy
  <2> HIDE DEF bag
  <2>4. QED
    BY <1>1, <2>2, <2>3
<1>4. CASE ~IsNone(options["profile"])
  <2>1. Profile = upper /\ run.resolved = Merge(base, upper)
    BY Zenon, <1>2, <1>4 DEF Profile, Resolve, IsNone
  <2>2. LET b == Bag(SettingsOf(Merge(base, upper)), c.name) IN
        /\ k \in DOMAIN b <=> SetBy(upper, c.name, k) \/ SetBy(base, c.name, k)
        /\ SetBy(upper, c.name, k) => b[k] = upper["checks.settings"][c.name][k]
        /\ SetBy(base, c.name, k) /\ ~SetBy(upper, c.name, k) => b[k] = base["checks.settings"][c.name][k]
    BY MergedBags
  <2> HIDE DEF upper, base
  <2>3. QED
    BY <1>1, <2>1, <2>2 DEF base
<1>5. QED
  BY <1>3, <1>4

\* For every command line, file, profile and build: a scan starts with each option at
\* the value of the strongest layer that sets it (the flag, the profile, the file, the
\* default), with the checks that level, consent and lists leave, and with each of
\* their settings from the strongest layer that has it (applyConfigDefaults, merge,
\* mergeChecks, FilterByName).
THEOREM OptionsAreInherited == SetupSpec => []RunsAsConfigured
<1>1. ASSUME OptionsInv PROVE RunsAsConfigured
  <2>1. SUFFICES ASSUME Ready PROVE OptionsAreStrongest
    BY CatalogAlways DEF RunsAsConfigured
  <2>2. GivenBy(run, options)
    BY <1>1, <2>1 DEF OptionsInv, Ready, Ended
  <2>3. \A f \in Flags \ {"url"} : options[f] = Strongest(f)
    BY <2>2, OptionsByLayer
  <2>4. ASSUME ~IsNone(options["config"]), NEW c \in Checks, NEW k \in SettingKeys
        PROVE  IF SetBy(Profile, c.name, k) \/ SetBy(run.file.base, c.name, k)
               THEN /\ k \in DOMAIN c.config
                    /\ c.config[k] = (IF SetBy(Profile, c.name, k) THEN Profile ELSE run.file.base)
                                     ["checks.settings"][c.name][k]
               ELSE k \notin DOMAIN c.config
    <3>1. /\ k \in DOMAIN c.config <=> SetBy(Profile, c.name, k) \/ SetBy(run.file.base, c.name, k)
          /\ SetBy(Profile, c.name, k) => c.config[k] = Profile["checks.settings"][c.name][k]
          /\ SetBy(run.file.base, c.name, k) /\ ~SetBy(Profile, c.name, k)
               => c.config[k] = run.file.base["checks.settings"][c.name][k]
      BY <2>2, <2>4, SettingsByLayer
    <3>2. QED
      BY <3>1
  <2>5. QED
    BY Zenon, <2>3, <2>4 DEF OptionsAreStrongest, IsNone
<1>2. QED
  BY OptionsAtFirst, OptionsStay, <1>1, PTL DEF SetupSpec
=============================================================================
