----------------------------- MODULE BlindProbe -----------------------------
(***************************************************************************)
(* The checks that infer a flaw from what an answer does not say:          *)
(* sqli-time by how long it takes, sqli-boolean by whether a true and a    *)
(* false condition change the page, cmd-injection-blind by an error of the *)
(* shell and by a callback to the listener (checks/injection/*.lua,        *)
(* lua_engine/oracle.go, lua_engine/api_sink.go).  A behaviour runs one of *)
(* them on several pages.                                                  *)
(*                                                                         *)
(* A sink is [url, loc, name].  What is behind one is [sleeps, branches,   *)
(* fails, fetches, page, other, blocks, echo, errors, cached]: the numbers *)
(* of the payloads that sleep, decide what is shown, fail in the shell and *)
(* call back; what it may show, [status, body], and what for a condition   *)
(* that is false; whether a filter shows that for any payload; whether the *)
(* input comes back, as it is or encoded; whether the page reads like an   *)
(* error of a shell anyway; and whether a cache answers for an URL it has  *)
(* seen.  A body is a sequence of [text, len].                             *)
(***************************************************************************)
EXTENDS Naturals, FiniteSets, Sequences, SequencesExt

CONSTANTS
    BlindPages,         \* pages the check runs on at the same time
    BlindSinks(_),      \* what SinksFor lists for a page
    SinkInScope(_),     \* scope, by the sink's URL
    Behaviours(_),      \* what may be behind a sink
    BlindChecks,        \* which of the checks may run
    BlindPayloads,      \* how many payloads, or pairs, each of them has
    Sleep, Margin,      \* sqliTimeSleep, in tenths of a second; sqliTimeMargin, in percent
    Delays              \* how long a request takes by itself: a quick one and a slow one
CONSTANTS
    SlowRequests,       \* bound: how many requests are slow
    LostRequests        \* bound: how many fail
ASSUME BlindAssumption ==
    /\ Sleep \in Nat \ {0} /\ Margin \in 0 .. 100 /\ Delays[1] < Delays[2]
    /\ \A p \in BlindPages : BlindSinks(p) \in Seq(ToSet(BlindSinks(p)))

VARIABLES
    check,              \* the check that runs
    blind,              \* per page, the run of the check on it
    sink,               \* what is behind each sink
    slow, missing,      \* how many requests were slow, and how many failed
    registered,         \* the listener's registrations: [page, sink, payload]
    calledBack,         \* those that were called back
    drained,            \* whether the check was drained
    blindFound          \* the findings: [page, loc, name, how]

blindVars == <<check, blind, sink, slow, missing, registered, calledBack, drained, blindFound>>
-----------------------------------------------------------------------------
(* The oracles                                                             *)

Length(body) == FoldLeft(LAMBDA n, part : n + part.len, 0, body)
SameParts(a, b) == IF \A i \in DOMAIN a : i \in DOMAIN b /\ a[i] = b[i] THEN Len(a)
                   ELSE (CHOOSE i \in DOMAIN a : (i \notin DOMAIN b \/ a[i] # b[i]) /\ \A j \in 1 .. i - 1 : a[j] = b[j]) - 1
Edge(a, b) == Length(SubSeq(a, 1, SameParts(a, b)))
AtMost(n, m) == IF n < m THEN n ELSE m

\* Similarity(a, b) >= SimilarityThreshold: a quarter for the lengths and three for the
\* common ends, of the longer one.
Similar(a, b) ==
    LET short == AtMost(Length(a), Length(b))
        long == Length(a) + Length(b) - short
        ends == AtMost(Edge(a, b) + Edge(Reverse(a), Reverse(b)), short)
    IN  long = 0 \/ (short > 0 /\ 25 * short + 75 * ends >= 97 * long)

\* BooleanCompare
Matches(base, a) == a.status = base.status /\ Similar(base.body, a.body)
FalsyDiffers(base, truthy, falsy) == ~Matches(base, falsy)
Vulnerable(base, truthy, falsy) == Matches(base, truthy) /\ ~Matches(base, falsy)

\* TimingCompare
Threshold(base) == base + (Sleep * (100 - Margin)) \div 100
CrossesAll(base, latency) == latency >= base + Sleep + Delays[2]
Crosses(base, latency) == latency >= Threshold(base)
-----------------------------------------------------------------------------
(* The sinks                                                               *)

\* sinksForPage without names to sweep: what SinksFor lists, where none is twice.
AnySink(p) == BlindSinks(p)
Admit(out, s) == IF SinkInScope(s.url) THEN Append(out, s) ELSE out
ProbedSinks(p) == FoldLeft(Admit, <<>>, BlindSinks(p))
AllBlindSinks == UNION { ToSet(BlindSinks(p)) : p \in BlindPages }

\* How long an answer takes.  A cache answers a wire value it has seen at once.
SameWire(payload, n) == <<payload, 0>>
Wire(payload, n) == <<payload, n>>
Lasts(s, payload, wire, wires) ==
    IF sink[s].cached /\ wire \in wires THEN {Delays[1]}
    ELSE LET own == IF payload \in sink[s].sleeps THEN Sleep ELSE 0 IN
         { own + Delays[1] } \cup (IF slow < SlowRequests THEN { own + Delays[2] } ELSE {})
Tardy(latency) == latency \in { Delays[2], Sleep + Delays[2] }

\* What is shown for a payload, none being number 0, once strip_all took the payload
\* itself out of it; an encoded one stays.
Shown(s, payload, holds) ==
    LET e == sink[s]
        bodies == IF (payload # 0 /\ e.blocks) \/ (payload \in e.branches /\ ~holds) THEN e.other ELSE e.page
        trace == IF payload # 0 /\ e.echo = "encoded" THEN << [text |-> IF holds THEN "true" ELSE "false", len |-> 20] >> ELSE <<>>
    IN  { [b EXCEPT !.body = trace \o @] : b \in bodies }
-----------------------------------------------------------------------------
(* A run                                                                   *)

BlindInit ==
    /\ check \in BlindChecks
    /\ blind = [p \in BlindPages |-> [at |-> "base", todo |-> ProbedSinks(p), next |-> 1, base |-> <<>>, truthy |-> <<>>,
                                      wires |-> {}, found |-> {}, clean |-> TRUE]]
    /\ sink \in { f \in [AllBlindSinks -> UNION { Behaviours(s) : s \in AllBlindSinks }] :
                      \A s \in AllBlindSinks : f[s] \in Behaviours(s) }
    /\ slow = 0 /\ missing = 0 /\ registered = {} /\ calledBack = {} /\ drained = FALSE /\ blindFound = {}

Stands(p, at) == blind[p].at = at /\ blind[p].todo # <<>>
CurrentSink(p) == Head(blind[p].todo)
Sets(p, run) == blind' = [blind EXCEPT ![p] = run]
Counts(tardy) == slow' = (IF tardy THEN slow + 1 ELSE slow) /\ UNCHANGED missing
Unclean(run) == [run EXCEPT !.clean = FALSE]
Missed(p, run) == missing < LostRequests /\ missing' = missing + 1 /\ UNCHANGED slow /\ Sets(p, Unclean(run))

\* The next payload, or the next sink with what this one gave: one finding per location
\* and name.
Adds(run, how) == [run EXCEPT !.found = @ \cup { [loc |-> Head(run.todo).loc, name |-> Head(run.todo).name, how |-> how] }]
ToNextSink(run) == [run EXCEPT !.at = "base", !.todo = Tail(@), !.next = 1, !.wires = {}]
ToNextPayload(run) ==
    IF run.next < BlindPayloads THEN [run EXCEPT !.at = "first", !.next = @ + 1] ELSE ToNextSink(run)

\* The baseline; an error of it gives the sink up.  The command check has none.
TakeBaseline(p) ==
    /\ Stands(p, "base")
    /\ \/ check = "shell" /\ Sets(p, [blind[p] EXCEPT !.at = "first"]) /\ UNCHANGED <<slow, missing>>
       \/ check # "shell" /\ Missed(p, ToNextSink(blind[p]))
       \/ /\ check = "time"
          /\ \E t \in Lasts(CurrentSink(p), 0, Wire(0, 0), {}) :
                 LET run == [blind[p] EXCEPT !.at = "first", !.base = <<t>>] IN
                 Counts(Tardy(t)) /\ Sets(p, IF Tardy(t) THEN Unclean(run) ELSE run)
       \/ /\ check = "boolean"
          /\ \E b \in Shown(CurrentSink(p), 0, TRUE) : Sets(p, [blind[p] EXCEPT !.at = "first", !.base = <<b>>])
          /\ UNCHANGED <<slow, missing>>
    /\ UNCHANGED <<check, sink, registered, calledBack, drained, blindFound>>

\* sqli-time: a candidate that crosses the threshold is sent again, with a suffix of its
\* own; only the two of them make a finding.
TimePayload(p) ==
    LET payload == blind[p].next
        wire == Wire(payload, Cardinality(blind[p].wires) + 1)
        seen == [blind[p] EXCEPT !.wires = @ \cup {wire}]
    IN  /\ check = "time" /\ (Stands(p, "first") \/ Stands(p, "again"))
        /\ \/ Missed(p, ToNextPayload(blind[p]))
           \/ \E t \in Lasts(CurrentSink(p), payload, wire, blind[p].wires) :
                  /\ Counts(Tardy(t))
                  /\ Sets(p, IF ~Crosses(blind[p].base[1], t) THEN ToNextPayload(seen)
                             ELSE IF blind[p].at = "again" THEN ToNextSink(Adds(seen, "time"))
                             ELSE [seen EXCEPT !.at = "again"])
        /\ UNCHANGED <<check, sink, registered, calledBack, drained, blindFound>>

\* sqli-boolean: an error of one request leaves the next pair.
BooleanPair(p) ==
    LET pair == blind[p].next IN
    /\ check = "boolean"
    /\ \/ (Stands(p, "first") \/ Stands(p, "again")) /\ Missed(p, ToNextPayload(blind[p]))
       \/ /\ Stands(p, "first")
          /\ \E b \in Shown(CurrentSink(p), pair, TRUE) : Sets(p, [blind[p] EXCEPT !.at = "again", !.truthy = <<b>>])
          /\ UNCHANGED <<slow, missing>>
       \/ /\ Stands(p, "again")
          /\ \E b \in Shown(CurrentSink(p), pair, FALSE) :
                 Sets(p, IF Vulnerable(blind[p].base[1], blind[p].truthy[1], b) THEN ToNextSink(Adds(blind[p], "boolean"))
                         ELSE ToNextPayload(blind[p]))
          /\ UNCHANGED <<slow, missing>>
    /\ UNCHANGED <<check, sink, registered, calledBack, drained, blindFound>>

\* probe_inband: the canary of the payload and an error of a shell in one answer; then
\* probe_oob.
CanaryBack(e, payload) == payload \in e.fails \/ e.echo # "none"
Executed(e, payload) == CanaryBack(e, payload) /\ (payload \in e.fails \/ e.errors)
ShellPayload(p) ==
    LET payload == blind[p].next
        Later(run) == IF payload < BlindPayloads THEN [run EXCEPT !.next = @ + 1] ELSE [run EXCEPT !.at = "oob", !.next = 1]
    IN  /\ check = "shell" /\ Stands(p, "first")
        /\ \/ Missed(p, Later(blind[p]))
           \/ /\ Sets(p, IF Executed(sink[CurrentSink(p)], payload)
                         THEN [Adds(blind[p], "shell") EXCEPT !.at = "oob", !.next = 1] ELSE Later(blind[p]))
              /\ UNCHANGED <<slow, missing>>
        /\ UNCHANGED <<check, sink, registered, calledBack, drained, blindFound>>

\* probe_oob: registered before it is sent, so that a request whose answer is lost may
\* be called back as well.
RegisterPayload(p) ==
    LET reg == [page |-> p, sink |-> CurrentSink(p), payload |-> blind[p].next]
        after == IF blind[p].next < BlindPayloads THEN [blind[p] EXCEPT !.next = @ + 1] ELSE ToNextSink(blind[p])
    IN  /\ check = "shell" /\ Stands(p, "oob")
        /\ registered' = registered \cup {reg}
        /\ Missed(p, after) \/ (Sets(p, after) /\ UNCHANGED <<slow, missing>>)
        /\ UNCHANGED <<check, sink, calledBack, drained, blindFound>>

\* A run returns what it found; the end of its context takes that away, and what was
\* registered stays.
ReturnBlind(p) ==
    /\ blind[p].at # "over" /\ blind[p].todo = <<>>
    /\ Sets(p, [blind[p] EXCEPT !.at = "over"])
    /\ blindFound' = blindFound \cup { [page |-> p, loc |-> f.loc, name |-> f.name, how |-> f.how] : f \in blind[p].found }
    /\ UNCHANGED <<check, sink, slow, missing, registered, calledBack, drained>>
CutBlind(p) ==
    /\ blind[p].at # "over" /\ Missed(p, [blind[p] EXCEPT !.at = "over"])
    /\ UNCHANGED <<check, sink, registered, calledBack, drained, blindFound>>

\* The command runs when it runs; after the check was drained nobody listens.
CallBack ==
    /\ ~drained
    /\ \E reg \in registered \ calledBack :
           /\ reg.payload \in sink[reg.sink].fetches
           /\ calledBack' = calledBack \cup {reg}
    /\ UNCHANGED <<check, blind, sink, slow, missing, registered, drained, blindFound>>

\* check.drain: of the registrations that were called back, one for each page, location
\* and name.
OfAll(regs) == regs
OfCalled(regs) == regs \cap calledBack
DrainBlind ==
    /\ check = "shell" /\ ~drained /\ \A p \in BlindPages : blind[p].at = "over"
    /\ drained' = TRUE
    /\ blindFound' = blindFound \cup
           { [page |-> r.page, loc |-> r.sink.loc, name |-> r.sink.name, how |-> "oob"] : r \in OfCalled(registered) }
    /\ UNCHANGED <<check, blind, sink, slow, missing, registered, calledBack>>

BlindStep(p) ==
    TakeBaseline(p) \/ TimePayload(p) \/ BooleanPair(p) \/ ShellPayload(p) \/ RegisterPayload(p) \/ ReturnBlind(p) \/ CutBlind(p)
BlindNext == CallBack \/ DrainBlind \/ \E p \in BlindPages : BlindStep(p)
-----------------------------------------------------------------------------
\* A sink out of scope is sent nothing, so that nobody calls back who was not to be
\* scanned (check.run).
BlindKeepsBounds ==
    /\ \A r \in registered : SinkInScope(r.sink.url)
    /\ \A p \in BlindPages : blind[p].todo # <<>> => SinkInScope(CurrentSink(p).url)

\* What a finding says is so.  One slow request is not enough for sqli-time; a page that
\* changes by itself is for sqli-boolean, and one that shows its input and reads like an
\* error for the shell.
Suspects(f) == { sink[s] : s \in { t \in ToSet(ProbedSinks(f.page)) : t.loc = f.loc /\ t.name = f.name } }
Settled(e) == \A a, b \in e.page : Matches(a, b)
BlindEarned ==
    \A f \in blindFound :
        CASE f.how = "time" -> slow < 2 => \E e \in Suspects(f) : e.sleeps # {}
          [] f.how = "boolean" -> \E e \in Suspects(f) : e.branches # {} \/ ~Settled(e)
          [] f.how = "shell" -> \E e \in Suspects(f) : e.fails # {} \/ (e.echo # "none" /\ e.errors)
          [] OTHER -> \E e \in Suspects(f) : e.fetches # {}

\* A run without an error, and without a slow baseline, finds what one of its payloads
\* shows; and a callback that came before the check was drained is a finding, whatever
\* became of the run.
Notable(e) ==
    CASE check = "time" -> e.sleeps # {}
      [] check = "boolean" ->
             /\ e.branches # {} /\ Settled(e) /\ ~e.blocks /\ e.echo # "encoded"
             /\ \A a \in e.page, b \in e.other : ~Matches(a, b)
      [] OTHER -> e.fails # {}
BlindsFound ==
    /\ \A p \in BlindPages : blind[p].at = "over" /\ blind[p].clean =>
           \A s \in ToSet(ProbedSinks(p)) : Notable(sink[s]) =>
               \E f \in blindFound : f.page = p /\ f.loc = s.loc /\ f.name = s.name /\ f.how # "oob"
    /\ \A r \in calledBack : ~drained \/ \E f \in blindFound :
           f.page = r.page /\ f.loc = r.sink.loc /\ f.name = r.sink.name /\ f.how = "oob"
=============================================================================
