--------------------------- MODULE TakeoverProbe ---------------------------
(***************************************************************************)
(* The subdomain-takeover check (checks/discovery/subdomain_takeover.lua,  *)
(* lua_engine/checks/discovery/subdomain_takeover*.go): a host that points *)
(* at a provider where nobody holds its name any more.  Runs on the pages  *)
(* of one host share a verdict, looked up and stored under the mutex but   *)
(* reached outside it.                                                     *)
(*                                                                         *)
(* A DNS name is the sequence of its labels.  A provider is [name,         *)
(* suffixes, statuses, bodies, headers], a suffix [labels, exact].  What   *)
(* stands behind a host is [cname, gone, status, body, headers, away,      *)
(* freed]: its alias (<<>> for none), whether that no longer resolves, the *)
(* answer of the root and whether it leads out of scope; and the truth,    *)
(* the provider at which the name is free, or "".                          *)
(***************************************************************************)
EXTENDS Naturals, FiniteSets, Sequences, SequencesExt

CONSTANTS
    TakeoverPages,      \* pages the check runs on at the same time
    HostOfPage(_),      \* the labels of a page's host
    RootInScope(_),     \* whether the root of a host is in scope
    Providers,          \* subdomainTakeoverProviders, in their order
    Edges(_)            \* what may stand behind a host
ASSUME TakeoverAssumption == IsFiniteSet(TakeoverPages)

VARIABLES
    look,               \* per page, the run of the check on it
    verdicts,           \* SubdomainTakeover.cache: a sequence of at most one verdict per host
    edge,               \* what stands behind each host
    probes,             \* how often the root of a host was asked
    takeovers           \* the findings: [host, provider, how]

takeoverVars == <<look, verdicts, edge, probes, takeovers>>

Hosts == { HostOfPage(p) : p \in TakeoverPages }
-----------------------------------------------------------------------------
(* Providers                                                               *)

\* matchProvider: the providers with a suffix of the name, of which the first counts.
AnySuffix(labels, suffix) == IsSuffix(suffix.labels, labels)
Under(labels, suffix) ==
    IF suffix.exact THEN labels = suffix.labels
    ELSE IsStrictSuffix(suffix.labels, labels)
ProviderOf(labels) == SelectSeq(Providers, LAMBDA v : \E s \in v.suffixes : Under(labels, s))

\* matchesFingerprint: an empty list of statuses admits any.
Claims(e, v) == (v.statuses = {} \/ e.status \in v.statuses) /\ e.body \in v.bodies

\* matchesProviderEdge: without an alias the headers must name the provider, too.
BodyIsEnough(e, v) == Claims(e, v)
Edged(e, v) == Claims(e, v) /\ e.headers \cap v.headers # {}
-----------------------------------------------------------------------------
(* A run                                                                   *)

Fact(host, provider, how) == [host |-> host, provider |-> provider, how |-> how]
Clean == [host |-> <<>>, provider |-> "", how |-> ""]

TakeoverInit ==
    /\ look = [p \in TakeoverPages |-> [at |-> "asked", fact |-> Clean, clean |-> TRUE]]
    /\ verdicts = [h \in Hosts |-> <<>>]
    /\ edge \in { f \in [Hosts -> UNION { Edges(h) : h \in Hosts }] : \A h \in Hosts : f[h] \in Edges(h) }
    /\ probes = [h \in Hosts |-> 0]
    /\ takeovers = {}

Behind(p) == edge[HostOfPage(p)]
Goes(p, at) == look' = [look EXCEPT ![p].at = at]
Fails(p, at) == look' = [look EXCEPT ![p].at = at, ![p].clean = FALSE]
Concludes(p, fact) == look' = [look EXCEPT ![p].at = "storing", ![p].fact = fact]
Asks(p) == probes' = [probes EXCEPT ![HostOfPage(p)] = @ + 1]

\* FactsFor: a provider's own host is left alone; a verdict that is there is taken.
Recall(p) ==
    LET host == HostOfPage(p) IN
    /\ look[p].at = "asked"
    /\ IF ProviderOf(host) # <<>> THEN Goes(p, "over") /\ UNCHANGED takeovers
       ELSE IF verdicts[host] = <<>> THEN Goes(p, "resolving") /\ UNCHANGED takeovers
       ELSE /\ Goes(p, "over")
            /\ takeovers' = takeovers \cup ({verdicts[host][1]} \ {Clean})
    /\ UNCHANGED <<verdicts, edge, probes>>

\* evaluateViaDNS up to its probe.  A lookup that fails says nothing.
ResolveAlias(p) ==
    LET e == Behind(p)
        known == IF e.cname = HostOfPage(p) THEN <<>> ELSE ProviderOf(e.cname)
    IN  /\ look[p].at = "resolving"
        /\ \/ Fails(p, "blind")
           \/ /\ IF known = <<>> \/ ~RootInScope(HostOfPage(p)) THEN Goes(p, "blind")
                 ELSE IF e.gone THEN Concludes(p, Fact(HostOfPage(p), known[1].name, "cname"))
                 ELSE Goes(p, "chained")
           \/ known # <<>> /\ RootInScope(HostOfPage(p)) /\ e.gone /\ Fails(p, "chained")
        /\ UNCHANGED <<verdicts, edge, probes, takeovers>>

\* fetchProbe: no answer, or one from out of scope, is skipped in silence, and the end
\* of the context is no answer; a body that breaks off is an error, which ends the run.
Skipped(p) == Behind(p).gone \/ Behind(p).away

\* evaluateViaDNS: the body is enough where the alias names the provider.
ProbeChain(p) ==
    LET v == ProviderOf(Behind(p).cname)[1] IN
    /\ look[p].at = "chained" /\ Asks(p)
    /\ \/ Fails(p, "blind")
       \/ look' = [look EXCEPT ![p].at = "storing", ![p].clean = FALSE]
       \/ IF ~Skipped(p) /\ Claims(Behind(p), v)
          THEN Concludes(p, Fact(HostOfPage(p), v.name, "cname"))
          ELSE Goes(p, "blind")
    /\ UNCHANGED <<verdicts, edge, takeovers>>

\* evaluateViaFingerprint: the first provider whose body and header both show.
ProbeBlind(p) ==
    LET shown == SelectSeq(Providers, LAMBDA v : Edged(Behind(p), v)) IN
    /\ look[p].at = "blind"
    /\ IF ~RootInScope(HostOfPage(p)) THEN Goes(p, "storing") /\ UNCHANGED probes
       ELSE /\ Asks(p)
            /\ \/ Fails(p, "storing")
               \/ IF Skipped(p) \/ shown = <<>> THEN Goes(p, "storing")
                  ELSE Concludes(p, Fact(HostOfPage(p), shown[1].name, "fingerprint"))
    /\ UNCHANGED <<verdicts, edge, takeovers>>

\* FactsFor: the verdict is stored, a failure as a clean one, over any that is there.
StoreVerdict(p) ==
    /\ look[p].at = "storing"
    /\ Goes(p, "over")
    /\ verdicts' = [verdicts EXCEPT ![HostOfPage(p)] = <<look[p].fact>>]
    /\ takeovers' = takeovers \cup ({look[p].fact} \ {Clean})
    /\ UNCHANGED <<edge, probes>>

TakeoverStep(p) == Recall(p) \/ ResolveAlias(p) \/ ProbeChain(p) \/ ProbeBlind(p) \/ StoreVerdict(p)
TakeoverNext == \E p \in TakeoverPages : TakeoverStep(p)
-----------------------------------------------------------------------------
\* A host outside the scope is never asked, nor is a provider's own; another one at
\* most twice by each run that found no verdict (evaluateViaDNS, evaluateViaFingerprint).
TakeoverKeepsBounds ==
    \A h \in Hosts :
        /\ ~RootInScope(h) \/ ProviderOf(h) # <<>> => probes[h] = 0
        /\ probes[h] <= 2 * Cardinality({ p \in TakeoverPages : HostOfPage(p) = h /\ look[p].at # "asked" })

\* A finding names the provider at which the name is free.
TakeoverEarned == \A f \in takeovers : edge[f.host].freed = f.provider

\* A free name is reported once a run is over, if an alias or a header gives the
\* provider away, the answer is in scope, and no run on the host had a failure.
Telling(e) == ProviderOf(e.cname) # <<>> \/ e.headers # {}
TakeoverFound ==
    \A p \in TakeoverPages : LET h == HostOfPage(p) IN
        /\ look[p].at = "over" /\ ProviderOf(h) = <<>> /\ RootInScope(h)
        /\ edge[h].freed # "" /\ Telling(edge[h]) /\ ~edge[h].away
        /\ \A q \in TakeoverPages : HostOfPage(q) = h => look[q].clean
        => \E f \in takeovers : f.host = h
=============================================================================
