---------------------------- MODULE Fingerprint ----------------------------
(***************************************************************************)
(* The stack detector, internal/fingerprint, and the gate that the scanner *)
(* builds on it.  Each host has one cell, filled by whichever worker asks  *)
(* first; the others block on its sync.Once and are given the same stack,  *)
(* or the same error.  The worker that fills it classifies the page it     *)
(* came with, or fetches it; while neither the CMS nor the framework is    *)
(* known it goes on to the fallback probes, as long as its context lasts,  *)
(* and merges what they tell into what is still unknown.                   *)
(*                                                                         *)
(* A response is the set of signs it shows, with a version for some, its   *)
(* cookies in their order, and whether it is HTML; StackRules is the table *)
(* of what the signs mean.                                                 *)
(***************************************************************************)
EXTENDS StackRules, Integers, Sequences, TLC

CONSTANTS Asks,        \* calls of Detect
          Sites,       \* hosts
          SiteOf(_),   \* the host of the page a call is about
          Snapshot(_), \* whether that page carries the crawler's headers
          Answers,     \* what servers answer: [signs, cookies, version, html]
          Probes,      \* number of fallback paths
          Gates,       \* what checks declare to apply to: [Fields -> SUBSET names]
          Patched      \* the version a check declares as patched: a sequence

ASSUME FingerprintAssumption ==
    /\ \A a \in Asks : SiteOf(a) \in Sites /\ Snapshot(a) \in BOOLEAN
    /\ Probes \in Nat
    /\ \A ans \in Answers : /\ DOMAIN ans.version = ans.signs /\ ans.html \in BOOLEAN
                             /\ \A sign \in ans.signs : ans.version[sign] \in Seq(Nat)
                             /\ ans.cookies \in Seq(ans.signs)
    /\ \A g \in Gates : DOMAIN g = Fields
    /\ Patched \in Seq(Nat)

VARIABLES phase,       \* of a call: "idle", "filling", "blocked", "done"
          cell,        \* of a host: "absent", "filling", "full"
          stack,       \* the stack of a host, as far as it is known
          failed,      \* hosts whose detection failed
          probe,       \* the fallback probe its filler is about to try
          given,       \* what a call returned
          ended,       \* calls whose context has ended
          told         \* what the responses of a host have said

detectVars == <<phase, cell, stack, failed, probe, given, ended, told>>

Unknown == ""
Blank == [field |-> [f \in Fields |-> Unknown], version |-> [f \in Fields |-> <<>>]]
NoStack == [none |-> TRUE]

DetectInit ==
    /\ phase = [a \in Asks |-> "idle"]
    /\ cell = [h \in Sites |-> "absent"]
    /\ stack = [h \in Sites |-> Blank]
    /\ failed = {}
    /\ probe = [h \in Sites |-> 0]
    /\ given = [a \in Asks |-> NoStack]
    /\ ended = {}
    /\ told = [h \in Sites |-> {}]
-----------------------------------------------------------------------------
(* Classification                                                          *)

\* What one rule does to the stack, if the response shows its sign.
Apply(s, r, ans) ==
    LET sets(f) == \/ f \in DOMAIN r.hard
                   \/ f \in DOMAIN r.soft /\ s.field[f] = Unknown
    IN IF r.sign \notin ans.signs \/ (r.guarded /\ s.field["framework"] # Unknown) THEN s
       ELSE [field   |-> [f \in Fields |-> IF sets(f) THEN (r.hard @@ r.soft)[f] ELSE s.field[f]],
             version |-> [f \in Fields |-> IF f = r.ver /\ ans.version[r.sign] # <<>>
                                           THEN ans.version[r.sign] ELSE s.version[f]]]

CookieRule(name) ==
    CookieRules[CHOOSE k \in DOMAIN CookieRules : CookieRules[k].sign = name]

\* The rules a response is put through: those of the headers in the order of the
\* table, those of its cookies in the order the response sets them, and those of the
\* body, which is only looked at when it is HTML, or the answer to a probe.
RulesFor(ans, anyBody) ==
    HeaderRules \o [i \in DOMAIN ans.cookies |-> CookieRule(ans.cookies[i])]
        \o (IF ans.html \/ anyBody THEN BodyRules ELSE <<>>)

\* The stack after the first n of them, as a function of n.
Sifted(ans, anyBody) ==
    LET after[n \in Nat] == IF n = 0 THEN Blank
                            ELSE Apply(after[n - 1], RulesFor(ans, anyBody)[n], ans)
    IN after

\* classify: all of them.
Classify(ans, anyBody) == Sifted(ans, anyBody)[Len(RulesFor(ans, anyBody))]

\* mergeStack: what is known stays, field by field; versions likewise.
MergeStack(dst, src) ==
    [field   |-> [f \in Fields |-> IF dst.field[f] # Unknown THEN dst.field[f] ELSE src.field[f]],
     version |-> [f \in Fields |-> IF dst.version[f] # <<>> THEN dst.version[f] ELSE src.version[f]]]

ShouldFallback(s) ==
    Probes > 0 /\ s.field["cms"] = Unknown /\ s.field["framework"] = Unknown
-----------------------------------------------------------------------------
(* Detect                                                                  *)

\* Two callers may find the cell empty.
AskWithoutOnce(a) ==
    /\ phase[a] = "idle"
    /\ phase' = [phase EXCEPT ![a] = IF cell[SiteOf(a)] = "full" THEN "blocked" ELSE "filling"]
    /\ cell' = [cell EXCEPT ![SiteOf(a)] = IF @ = "absent" THEN "filling" ELSE @]
    /\ UNCHANGED <<stack, failed, probe, given, ended, told>>

\* LoadOrStore and once.Do: the first caller fills, later ones block.
Ask(a) ==
    /\ phase[a] = "idle"
    /\ phase' = [phase EXCEPT ![a] = IF cell[SiteOf(a)] = "absent" THEN "filling" ELSE "blocked"]
    /\ cell' = [cell EXCEPT ![SiteOf(a)] = IF @ = "absent" THEN "filling" ELSE @]
    /\ UNCHANGED <<stack, failed, probe, given, ended, told>>

\* The function given to once.Do returns: the cell is full, for all callers.
Fill(a, s, err) ==
    /\ cell' = [cell EXCEPT ![SiteOf(a)] = "full"]
    /\ stack' = [stack EXCEPT ![SiteOf(a)] = s]
    /\ failed' = IF err THEN failed \cup {SiteOf(a)} ELSE failed
    /\ phase' = [phase EXCEPT ![a] = "blocked"]

\* detect: the page's snapshot, or the answer to a request for it.
Seed(a) ==
    LET h == SiteOf(a) IN
    /\ phase[a] = "filling" /\ probe[h] = 0
    /\ Snapshot(a) \/ a \notin ended
    /\ \E ans \in Answers :
          LET s == Classify(ans, FALSE) IN
          /\ told' = [told EXCEPT ![h] = @ \cup {s}]
          /\ IF ShouldFallback(s)
             THEN /\ probe' = [probe EXCEPT ![h] = 1]
                  /\ stack' = [stack EXCEPT ![h] = s]
                  /\ UNCHANGED <<phase, cell, failed>>
             ELSE Fill(a, s, FALSE) /\ UNCHANGED probe
    /\ UNCHANGED <<given, ended>>

\* The request for the page fails, by itself or with its context; the error is
\* the host's for the rest of the scan.
SeedFails(a) ==
    /\ phase[a] = "filling" /\ probe[SiteOf(a)] = 0 /\ ~Snapshot(a)
    /\ Fill(a, Blank, TRUE)
    /\ UNCHANGED <<probe, given, ended, told>>

\* runFallbackProbes: one path after the other until the CMS or the framework
\* is known; a probe that fails is skipped.
Probe(a) ==
    LET h == SiteOf(a) IN
    /\ phase[a] = "filling" /\ probe[h] \in 1..Probes /\ a \notin ended
    /\ \/ \E ans \in Answers :
             LET said == Classify(ans, TRUE)
                 s == MergeStack(stack[h], said) IN
             /\ told' = [told EXCEPT ![h] = @ \cup {said}]
             /\ IF ShouldFallback(s)
                THEN stack' = [stack EXCEPT ![h] = s] /\ UNCHANGED <<phase, cell, failed>>
                ELSE Fill(a, s, FALSE)
       \/ UNCHANGED <<phase, cell, stack, failed, told>>
    /\ probe' = [probe EXCEPT ![h] = @ + 1]
    /\ UNCHANGED <<given, ended>>

\* There is no path left, or the context of the filler has ended: the stack is
\* what is known by now, and no error.
ProbesEnd(a) ==
    LET h == SiteOf(a) IN
    /\ phase[a] = "filling" /\ probe[h] > 0
    /\ probe[h] > Probes \/ a \in ended
    /\ Fill(a, stack[h], FALSE)
    /\ UNCHANGED <<probe, given, ended, told>>

\* Detect returns.
Return(a) ==
    LET h == SiteOf(a) IN
    /\ phase[a] = "blocked" /\ cell[h] = "full"
    /\ given' = [given EXCEPT ![a] = stack[h]]
    /\ phase' = [phase EXCEPT ![a] = "done"]
    /\ UNCHANGED <<cell, stack, failed, probe, ended, told>>

ContextEnds(a) ==
    /\ a \notin ended /\ phase[a] = "filling"
    /\ ended' = ended \cup {a}
    /\ UNCHANGED <<phase, cell, stack, failed, probe, given, told>>

DetectNext ==
    \E a \in Asks :
        \/ Ask(a) \/ Seed(a) \/ SeedFails(a) \/ Probe(a) \/ ProbesEnd(a)
        \/ Return(a) \/ ContextEnds(a)

DetectSpec == DetectInit /\ [][DetectNext]_detectVars
-----------------------------------------------------------------------------
(* The gate, and what a firing check says of versions                      *)

\* A field nothing is known of contradicts every check.
PassStrict(have, allow) == allow = {} \/ have \in allow

Pass(have, allow) == allow = {} \/ have = Unknown \/ have \in allow

\* AppliesSpec.Matches, for the call that asked; scanner.fingerprint turns an
\* error into no stack, and without a stack every check runs.
Matches(gate, a) ==
    SiteOf(a) \in failed \/ \A f \in Fields : Pass(given[a].field[f], gate[f])

\* compareVersions: component by component, a missing one counting as zero.
CompareVersions(v, w) ==
    LET n == IF Len(v) > Len(w) THEN Len(v) ELSE Len(w)
        at(u, i) == IF i <= Len(u) THEN u[i] ELSE 0
        differ == {i \in 1..n : at(v, i) # at(w, i)}
    IN IF differ = {} THEN 0
       ELSE LET i == CHOOSE i \in differ : \A j \in differ : i <= j
            IN IF at(v, i) < at(w, i) THEN -1 ELSE 1

\* PatchedIn.Infer: a check that fired and whose flaw was patched in version
\* Patched of what the field names.
Infer(s, f) ==
    CASE s.field[f] = Unknown -> "nothing"
      [] s.field[f] # Unknown /\ s.version[f] = <<>> -> "inferred"
      [] OTHER -> IF CompareVersions(s.version[f], Patched) >= 0
                  THEN "patched_but_fired" ELSE "nothing"
-----------------------------------------------------------------------------
(* Properties                                                              *)

\* The order of versions that CompareVersions is to decide: the first component
\* that differs tells, and one that is missing counts as zero.
Below(v, w) ==
    LET at(u, i) == IF i \in DOMAIN u THEN u[i] ELSE 0
    IN \E i \in DOMAIN v \cup DOMAIN w :
          at(v, i) < at(w, i) /\ \A j \in 1..(i - 1) : at(v, j) = at(w, j)

\* What the engine concludes from a stack is grounded in what the host said.
\* A check is kept from it only if some response named another product, for a
\* field the check constrains; a version is called unknown only if no response
\* gave one, and called patched only if one gave a version as high.  What
\* could not be found out, for an error, an ended context or a probe that
\* failed, keeps no check away (applies.go:52).
VerdictsAreGrounded ==
    \A a \in Asks : phase[a] = "done" =>
        LET s == given[a]
            said == told[SiteOf(a)] IN
        /\ \A g \in Gates : ~Matches(g, a) =>
              \E f \in Fields, t \in said : t.field[f] \notin g[f] \cup {Unknown} /\ g[f] # {}
        /\ \A f \in Fields :
              /\ Infer(s, f) = "inferred" => \A t \in said : t.version[f] = <<>>
              /\ Infer(s, f) = "patched_but_fired" =>
                    \E t \in said : t.version[f] # <<>> /\ ~Below(t.version[f], Patched)

\* Detect is a table of cells filled once: the workers that meet on a host are
\* all told the same, and none before the detection has ended.  (What a cell
\* holds, and what a reader was given, is a sequence of one stack, or of none.)
Once == INSTANCE OnceCell WITH
    Cells <- Sites, Readers <- Asks, CellOf <- SiteOf, NoValue <- <<>>,
    content <- [h \in Sites |-> IF cell[h] = "full" THEN <<stack[h]>> ELSE <<>>],
    got <- [a \in Asks |-> IF phase[a] = "done" THEN <<given[a]>> ELSE <<>>]
ImplementsOnceCell == Once!Spec
=============================================================================
