----------------------------- MODULE PolicyProbe -----------------------------
(***************************************************************************)
(* The checks of a Content-Security-Policy: csp-weak, which says what a    *)
(* policy permits, and csp-bypass, which tries three ways around it: a     *)
(* nonce that comes twice, a listed host that answers with a script of the *)
(* caller's choice, and an injected <base> (checks/headers/csp_*.lua,      *)
(* lua_engine/checks/headers/csp_*.go).  What they say is compared with    *)
(* what a browser makes of the same policies.                              *)
(*                                                                         *)
(* A source is [kind, name, n, host, sub, bound]: a keyword, a scheme,     *)
(* "any", a hash, a nonce with its number n, or a host by its labels, with *)
(* "*." before it, and bound to a port or a path.  A policy is a sequence  *)
(* of directives [name, sources].  A document is [policies, monitors,      *)
(* drawn, coarse, lapses, relative]: the policies it enforces and those it *)
(* only reports on, how its nonces are drawn, whether a cache answers for  *)
(* its path whatever the query, whether later answers come without a       *)
(* policy, and whether it loads a script by a relative URL.                *)
(***************************************************************************)
EXTENDS Naturals, FiniteSets, Sequences, SequencesExt

CONSTANTS
    PolicyPages,        \* pages the check runs on at the same time
    PolicyAllowed(_),   \* scope, by page
    PolicyDocuments(_), \* what may stand behind a page
    JsonpHosts,         \* jsonpProbes, by the labels of the host
    Endpoints(_),       \* what the endpoint on a host may do
    Rotations,          \* bound: how often the nonces change that change at all
    PolicyLosses        \* bound: how many requests fail

VARIABLES
    bypass,             \* per page, the run of csp-bypass on it
    shown,              \* the document behind each page
    endpoint,           \* what the endpoints do
    epoch,              \* how often the nonces have changed
    issued,             \* per page, the nonces of its answers in turn
    unsent,             \* how many requests failed
    policyFound         \* the findings: [page, kind, host]

policyVars == <<bypass, shown, endpoint, epoch, issued, unsent, policyFound>>
-----------------------------------------------------------------------------
(* csp-weak: what a policy says                                            *)

\* parseCSP: of a directive that comes twice the first is taken, not the last.
ParseLast(policy) ==
    [n \in { policy[i].name : i \in DOMAIN policy } |->
        policy[CHOOSE i \in DOMAIN policy : policy[i].name = n /\ \A j \in i + 1 .. Len(policy) : policy[j].name # n].sources]
ParseCSP(policy) ==
    [n \in { policy[i].name : i \in DOMAIN policy } |->
        policy[CHOOSE i \in DOMAIN policy : policy[i].name = n /\ \A j \in 1 .. i - 1 : policy[j].name # n].sources]

\* resolveFetchDirective: the sources, as a set of at most one list.
OwnSources(dirs, name) == IF name \in DOMAIN dirs THEN {dirs[name]} ELSE {}
ResolveFetchDirective(dirs, name) == IF name \in DOMAIN dirs THEN {dirs[name]} ELSE OwnSources(dirs, "default-src")

HasNonceOrHash(sources) == \E s \in sources : s.kind \in {"nonce", "hash"}
HasKeyword(sources, kw) == \E s \in sources : s.kind = "keyword" /\ s.name = kw
HasBareWildcard(sources) == \E s \in sources : s.kind = "any"
SchemeOnly(sources, schemes) == { s.name : s \in { t \in sources : t.kind = "scheme" } } \cap schemes
DangerousSchemes == {"http:", "https:", "data:", "blob:", "filesystem:"}

\* The weaknesses of one directive, [of, id, severity].
Weakness(of, id, severity) == [of |-> of, id |-> id, severity |-> severity]
When(is, weakness) == IF is THEN {weakness} ELSE {}

AnyInline(sources) == HasKeyword(sources, "unsafe-inline")
UnsafeInline(sources) == HasKeyword(sources, "unsafe-inline") /\ ~HasNonceOrHash(sources)

AnalyzeScriptSrc(dirs) ==
    LET W(id, severity) == Weakness("script-src", id, severity)
        Says(s) ==
            When(UnsafeInline(s), W("unsafe-inline", "critical"))
            \cup When(HasKeyword(s, "unsafe-eval"), W("unsafe-eval", "high"))
            \cup When(HasKeyword(s, "unsafe-hashes"), W("unsafe-hashes", "medium"))
            \cup When(HasBareWildcard(s), W("wildcard-host", "high"))
            \cup When(SchemeOnly(s, DangerousSchemes) # {}, W("scheme-only", "high"))
            \cup When(HasKeyword(s, "strict-dynamic") /\ ~HasNonceOrHash(s), W("strict-dynamic-without-nonce", "medium"))
            \cup When("script-src" \notin DOMAIN dirs, W("inherited-from-default", "low"))
        effective == ResolveFetchDirective(dirs, "script-src")
    IN  IF effective = {} THEN { W("missing-and-no-default", "high") } ELSE UNION { Says(s) : s \in effective }

AnalyzeStyleSrc(dirs) ==
    LET W(id, severity) == Weakness("style-src", id, severity)
        Says(s) ==
            When(UnsafeInline(s), W("unsafe-inline", "medium"))
            \cup When(HasBareWildcard(s), W("wildcard-host", "low"))
            \cup When("style-src" \notin DOMAIN dirs, W("inherited-from-default", "low"))
        effective == ResolveFetchDirective(dirs, "style-src")
    IN  IF effective = {} THEN { W("missing-and-no-default", "low") } ELSE UNION { Says(s) : s \in effective }

\* Only 'none' by itself is taken for no objects at all.
OnlyNone(sources) == Cardinality(sources) = 1 /\ HasKeyword(sources, "none")
AnalyzeObjectSrc(dirs) ==
    LET W(id, severity) == Weakness("object-src", id, severity)
        Says(s) == IF OnlyNone(s) THEN {}
                   ELSE IF HasBareWildcard(s) THEN { W("wildcard-host", "medium") } ELSE { W("not-none", "low") }
        effective == ResolveFetchDirective(dirs, "object-src")
    IN  IF effective = {} THEN { W("missing-and-no-default", "medium") } ELSE UNION { Says(s) : s \in effective }

\* The directives that do not fall back to default-src.
AnalyzeBaseURI(dirs) ==
    IF "base-uri" \notin DOMAIN dirs THEN { Weakness("base-uri", "missing", "medium") }
    ELSE When(HasBareWildcard(dirs["base-uri"]), Weakness("base-uri", "wildcard-host", "medium"))
AnalyzeFrameAncestors(dirs) ==
    IF "frame-ancestors" \notin DOMAIN dirs THEN { Weakness("frame-ancestors", "missing", "low") }
    ELSE When(HasBareWildcard(dirs["frame-ancestors"]), Weakness("frame-ancestors", "wildcard-host", "medium"))
AnalyzeFormAction(dirs) ==
    IF "form-action" \notin DOMAIN dirs THEN { Weakness("form-action", "missing", "low") }
    ELSE When(HasBareWildcard(dirs["form-action"]), Weakness("form-action", "wildcard-host", "low"))

\* AnalyzeCSP: of several policies only the first is read, and one that only reports
\* where none is enforced.
AnalyzeCSP(enforcing, reportOnly) ==
    LET dirs == ParseCSP((enforcing \o reportOnly)[1]) IN
    IF enforcing \o reportOnly = <<>> THEN {}
    ELSE AnalyzeScriptSrc(dirs) \cup AnalyzeStyleSrc(dirs) \cup AnalyzeObjectSrc(dirs)
         \cup AnalyzeBaseURI(dirs) \cup AnalyzeFrameAncestors(dirs) \cup AnalyzeFormAction(dirs)
         \cup When(enforcing = <<>>, Weakness("<policy>", "report-only-only", "medium"))
         \cup When(Len(enforcing) > 1, Weakness("<policy>", "multiple-csp-headers", "low"))
-----------------------------------------------------------------------------
(* csp-bypass: what its three probes decide                                *)

\* nonceValues: default-src is not looked at.
ScriptNonces(dirs) == { s.n : s \in { t \in UNION OwnSources(dirs, "script-src") : t.kind = "nonce" } }
NonceValues(dirs) ==
    { s.n : s \in { t \in UNION (OwnSources(dirs, "script-src") \cup OwnSources(dirs, "style-src")) : t.kind = "nonce" } }
AnyNonces(first, second) == IF NonceValues(second) = {} THEN {} ELSE NonceValues(first)
ReusedNonces(first, second) == NonceValues(first) \cap NonceValues(second)

BaseURIIsHijackable(dirs) ==
    "base-uri" \in DOMAIN dirs =>
        HasBareWildcard(dirs["base-uri"]) \/ SchemeOnly(dirs["base-uri"], {"https:", "http:", "data:"}) # {}

\* cspScriptSrcAllowsHost: hostOfCSPSource cuts the port and the path off, and "*."
\* stands for the host itself as well.
EndsWith(host, labels) == Len(labels) <= Len(host) /\ SubSeq(host, Len(host) - Len(labels) + 1, Len(host)) = labels
NamesHost(s, host) == s.kind = "host" /\ EndsWith(host, s.host)
SourceAllows(s, host) ==
    \/ s.kind = "any"
    \/ s.kind = "scheme" /\ s.name \in {"https:", "http:"}
    \/ s.kind = "host" /\ IF s.sub THEN EndsWith(host, s.host) ELSE s.host = host
ScriptSrcAllowsHost(sources, host) == \E s \in sources : SourceAllows(s, host)
JsonpTargets(dirs) == SelectSeq(JsonpHosts, LAMBDA h : \E s \in ResolveFetchDirective(dirs, "script-src") : ScriptSrcAllowsHost(s, h))

\* confirmsJSONP: a script that calls what it was told to, not any answer that
\* mentions it.
MentionsCanary(answer) == answer \in {"calls", "mentions"}
ConfirmsJSONP(answer) == answer = "calls"
-----------------------------------------------------------------------------
(* The site                                                                *)

\* The nonce of the next answer: always the same, the one of this epoch, or a new one,
\* unless a cache has kept the first answer.
NextNonce(p) ==
    IF shown[p].coarse /\ issued[p] # <<>> THEN issued[p][1]
    ELSE CASE shown[p].drawn = "never" -> 0 [] shown[p].drawn = "rarely" -> epoch [] OTHER -> Len(issued[p])
Issued(policies, nonce) ==
    [i \in DOMAIN policies |-> [j \in DOMAIN policies[i] |->
        [policies[i][j] EXCEPT !.sources = { IF s.kind = "nonce" THEN [s EXCEPT !.n = nonce] ELSE s : s \in @ }]]]
PolicyAnswer(p) == IF shown[p].lapses /\ issued[p] # <<>> THEN <<>> ELSE Issued(shown[p].policies, NextNonce(p))
Directives(policies) == IF policies = <<>> THEN <<>> ELSE ParseCSP(Head(policies))

Rotate ==
    /\ epoch < Rotations
    /\ epoch' = epoch + 1
    /\ UNCHANGED <<bypass, shown, endpoint, issued, unsent, policyFound>>
-----------------------------------------------------------------------------
(* A run                                                                   *)

PolicyInit ==
    /\ bypass = [p \in PolicyPages |-> [at |-> "reading", dirs |-> <<>>, todo |-> <<>>, hits |-> {}, found |-> {},
                                        lost |-> {}, failed |-> FALSE]]
    /\ shown \in { f \in [PolicyPages -> UNION { PolicyDocuments(p) : p \in PolicyPages }] :
                       \A p \in PolicyPages : f[p] \in PolicyDocuments(p) }
    /\ endpoint \in { f \in [ToSet(JsonpHosts) -> UNION { Endpoints(h) : h \in ToSet(JsonpHosts) }] :
                          \A h \in ToSet(JsonpHosts) : f[h] \in Endpoints(h) }
    /\ epoch = 0 /\ issued = [p \in PolicyPages |-> <<>>] /\ unsent = 0 /\ policyFound = {}

Moves(p, run) == bypass' = [bypass EXCEPT ![p] = run]
Over(run, failed) == [run EXCEPT !.at = "over", !.dirs = <<>>, !.failed = failed]
Unsent == unsent < PolicyLosses /\ unsent' = unsent + 1
Asked(p) == issued' = [issued EXCEPT ![p] = Append(@, NextNonce(p))]

\* check.run: a page out of scope, one that does not answer, one without a policy that
\* is enforced.
LeavePage(p) ==
    /\ bypass[p].at = "reading" /\ ~PolicyAllowed(p)
    /\ Moves(p, Over(bypass[p], FALSE))
    /\ UNCHANGED <<shown, endpoint, epoch, issued, unsent, policyFound>>
ReadPolicies(p) ==
    /\ bypass[p].at = "reading" /\ PolicyAllowed(p)
    /\ \/ Unsent /\ Moves(p, Over(bypass[p], TRUE)) /\ UNCHANGED issued
       \/ /\ Asked(p) /\ UNCHANGED unsent
          /\ Moves(p, IF shown[p].policies = <<>> THEN Over(bypass[p], FALSE)
                      ELSE [bypass[p] EXCEPT !.at = "nonces", !.dirs = Directives(PolicyAnswer(p))])
    /\ UNCHANGED <<shown, endpoint, epoch, policyFound>>

Finding(kind, host) == [kind |-> kind, host |-> host]
\* probe_nonce_reuse: a page without nonces is not asked again.
CompareNonces(p) ==
    LET first == bypass[p].dirs
        next == [bypass[p] EXCEPT !.at = "jsonp", !.todo = JsonpTargets(first)]
        second == Directives(PolicyAnswer(p))
    IN  /\ bypass[p].at = "nonces"
        /\ \/ NonceValues(first) = {} /\ Moves(p, next) /\ UNCHANGED <<issued, unsent>>
           \/ /\ NonceValues(first) # {} /\ Unsent
              /\ Moves(p, [next EXCEPT !.lost = @ \cup {"nonces"}]) /\ UNCHANGED issued
           \/ /\ NonceValues(first) # {} /\ Asked(p) /\ UNCHANGED unsent
              /\ Moves(p, IF ReusedNonces(first, second) = {} THEN next
                          ELSE [next EXCEPT !.found = @ \cup {Finding("nonce-reuse", <<>>)}])
        /\ UNCHANGED <<shown, endpoint, epoch, policyFound>>

\* probe_jsonp_whitelist: a host that cannot be reached is passed over, any other error
\* noted, and neither keeps the others from being tried.
AskEndpoint(p) ==
    LET host == Head(bypass[p].todo)
        rest == [bypass[p] EXCEPT !.todo = Tail(@)]
    IN  /\ bypass[p].at = "jsonp" /\ bypass[p].todo # <<>>
        /\ \/ Unsent /\ Moves(p, [rest EXCEPT !.lost = @ \cup {"jsonp"}])
           \/ /\ UNCHANGED unsent
              /\ Moves(p, IF ConfirmsJSONP(endpoint[host]) THEN [rest EXCEPT !.hits = @ \cup {Finding("jsonp", host)}] ELSE rest)
        /\ UNCHANGED <<shown, endpoint, epoch, issued, policyFound>>

\* The end of probe_jsonp_whitelist, which gives its error only where it found nothing,
\* probe_base_uri_hijack, and the end of the run, which does the same.
AllErrors(run) == {}
Errors(run) == run.lost \ (IF run.hits # {} THEN {"jsonp"} ELSE {})
Reported(p) ==
    bypass[p].found \cup bypass[p].hits
    \cup When(BaseURIIsHijackable(bypass[p].dirs) /\ shown[p].relative, Finding("base-uri", <<>>))
ReturnPolicies(p) ==
    /\ bypass[p].at = "jsonp" /\ bypass[p].todo = <<>>
    /\ Moves(p, Over(bypass[p], Reported(p) = {} /\ Errors(bypass[p]) # {}))
    /\ policyFound' = policyFound \cup { [page |-> p, kind |-> f.kind, host |-> f.host] : f \in Reported(p) }
    /\ UNCHANGED <<shown, endpoint, epoch, issued, unsent>>
CutPolicies(p) ==
    /\ bypass[p].at # "over" /\ Unsent
    /\ Moves(p, Over(bypass[p], TRUE))
    /\ UNCHANGED <<shown, endpoint, epoch, issued, policyFound>>

PolicyStep(p) ==
    LeavePage(p) \/ ReadPolicies(p) \/ CompareNonces(p) \/ AskEndpoint(p) \/ ReturnPolicies(p) \/ CutPolicies(p)
PolicyNext == Rotate \/ \E p \in PolicyPages : PolicyStep(p)
-----------------------------------------------------------------------------
(* What a browser makes of the policies: each of them has to permit it.    *)

\* The list that governs: the first directive of the first name that is there at all.
Governing(policy, names) ==
    LET first(n) == { i \in DOMAIN policy : policy[i].name = n /\ \A j \in 1 .. i - 1 : policy[j].name # n }
        there == { n \in DOMAIN names : first(names[n]) # {} }
    IN  IF there = {} THEN {}
        ELSE { policy[i].sources : i \in first(names[CHOOSE n \in there : \A m \in there : n <= m]) }
Scripts(policy) == Governing(policy, <<"script-src", "default-src">>)
Strict(s) == HasKeyword(s, "strict-dynamic")
RunsInline(policy) == \A s \in Scripts(policy) : HasKeyword(s, "unsafe-inline") /\ ~HasNonceOrHash(s) /\ ~Strict(s)
SourceLoads(s, host) ==
    CASE s.kind = "any" -> TRUE
      [] s.kind = "scheme" -> s.name \in {"https:", "http:"}
      [] s.kind = "host" -> ~s.bound /\ IF s.sub THEN EndsWith(host, s.host) /\ s.host # host ELSE s.host = host
      [] OTHER -> FALSE
LoadsFrom(policy, host) == \A s \in Scripts(policy) : ~Strict(s) /\ \E x \in s : SourceLoads(x, host)
MovesBase(policy) == \A s \in Governing(policy, <<"base-uri">>) : \E x \in s : SourceLoads(x, <<"evil">>)
Enforced(p) == ToSet(shown[p].policies)

\* The code reads one policy only, takes no notice of 'strict-dynamic', of what a host
\* is bound to, of the base "data:", and lets "*." stand for the host itself.
PlainPolicy(p) ==
    /\ Len(shown[p].policies) = 1
    /\ \A d \in ToSet(shown[p].policies[1]) : \A s \in d.sources :
           ~s.bound /\ ~(s.sub /\ s.host \in ToSet(JsonpHosts)) /\ s.name \notin {"strict-dynamic", "data:"}

\* Where nothing of that is in play, what is reported works against a browser: its page
\* did send one nonce twice, loads scripts from a host that calls what it is told to, or
\* has its base moved; and "critical" is said of a policy that runs inline scripts.
PolicyEarned ==
    /\ \A f \in policyFound :
           /\ f.kind = "nonce-reuse" => \E i, j \in DOMAIN issued[f.page] : i # j /\ issued[f.page][i] = issued[f.page][j]
           /\ f.kind = "jsonp" => endpoint[f.host] = "calls"
           /\ PlainPolicy(f.page) => \A policy \in Enforced(f.page) :
                  CASE f.kind = "jsonp" -> LoadsFrom(policy, f.host)
                    [] f.kind = "base-uri" -> MovesBase(policy) /\ shown[f.page].relative
                    [] OTHER -> TRUE
    /\ \A p \in PolicyPages : PlainPolicy(p) =>
           ((\E w \in AnalyzeCSP(shown[p].policies, <<>>) : w.severity = "critical")
            => \A policy \in Enforced(p) : RunsInline(policy))

\* A run that says there is nothing had an answer to each of its questions.  A run
\* without an error reports each host a browser would load such a script from, a base
\* that can be moved, and a nonce of script-src or style-src that never changes, where
\* the first policy has it.  A single policy that lets scripts run inline or load from
\* anywhere is called weak at least with "high".
Answered(p) == bypass[p].at = "over" /\ ~bypass[p].failed /\ PolicyAllowed(p) /\ Enforced(p) # {}
Finds(p, kind, host) == [page |-> p, kind |-> kind, host |-> host] \in policyFound
NeverDrawn(p) ==
    shown[p].drawn = "never" /\ ~shown[p].lapses /\ \E n \in {"script-src", "style-src"} :
        \E s \in Governing(Head(shown[p].policies), <<n>>) : \E x \in s : x.kind = "nonce"
PolicyFound ==
    \A p \in PolicyPages :
        /\ Answered(p) =>
               /\ bypass[p].lost # {} => \E f \in policyFound : f.page = p
               /\ "jsonp" \notin bypass[p].lost => \A h \in ToSet(JsonpHosts) :
                      (\A policy \in Enforced(p) : Scripts(policy) # {} /\ LoadsFrom(policy, h)) /\ endpoint[h] = "calls"
                      => Finds(p, "jsonp", h)
               /\ shown[p].relative /\ (\A policy \in Enforced(p) : Governing(policy, <<"base-uri">>) = {})
                      => Finds(p, "base-uri", <<>>)
               /\ NeverDrawn(p) /\ "nonces" \notin bypass[p].lost => Finds(p, "nonce-reuse", <<>>)
        /\ Len(shown[p].policies) = 1 /\ (RunsInline(shown[p].policies[1]) \/ LoadsFrom(shown[p].policies[1], <<"evil">>))
               => \E w \in AnalyzeCSP(shown[p].policies, shown[p].monitors) :
                      w.of = "script-src" /\ w.severity \in {"high", "critical"}
=============================================================================
