------------------------------ MODULE Surface ------------------------------
(***************************************************************************)
(* What a URL is to the scanner: whether the scope admits it               *)
(* (internal/scope), which unit of work it is (internal/target), and under *)
(* which key a finding on it is counted (internal/core).  Pure operators,  *)
(* used by the set-up of a run and by the crawler's parsers.               *)
(*                                                                         *)
(* A URL is [scheme, host, port, path, query, fragment], a host            *)
(* [labels, upper] where upper says that it is spelled with capitals, and  *)
(* a port 0 when it is not written.  A path is the sequence of its         *)
(* segments, <<>> when there is none; a segment of a template may be a     *)
(* hole.  A path pattern is the set of paths it matches.                   *)
(***************************************************************************)
EXTENDS Integers, Sequences, FiniteSets, SequencesExt

CONSTANT Registrable(_)   \* the registrable domain of the labels of a host, or <<>>

Lit(text) == [text |-> text, hole |-> FALSE]
Hole(name) == [text |-> name, hole |-> TRUE]
Root == <<Lit("")>>

Url(scheme, host, port, path) ==
    [scheme |-> scheme, host |-> host, port |-> port, path |-> path, query |-> <<>>, fragment |-> ""]
Spelled(labels) == [labels |-> labels, upper |-> FALSE]

Lower(host) == [host EXCEPT !.upper = FALSE]
IsIP(host) == Len(host.labels) = 1 /\ Head(host.labels) \in {"127.0.0.1", "10.0.0.7"}
Web(u) == u.scheme \in {"http", "https"}
-----------------------------------------------------------------------------
(* Scope                                                                   *)

MaxPort == 65535

EffectivePort(u) ==
    CASE u.port # 0 -> u.port
      [] u.port = 0 /\ u.scheme \in {"https", "wss"} -> 443
      [] u.port = 0 /\ u.scheme = "ftp" -> 21
      [] OTHER -> 80

\* parsePortRange: a port or a range, both within 1..65535 and in order.
PortsAreValid(r) == 1 <= r.low /\ r.low <= r.high /\ r.high <= MaxPort

AllowHostAsSpelt(hosts, h) == IF h.labels = <<>> THEN hosts ELSE hosts \cup {h}
AllowHost(hosts, h) == IF h.labels = <<>> THEN hosts ELSE hosts \cup {Lower(h)}

\* New, from [hosts, ports, include, exclude, depth].
NewScope(cfg) ==
    [hosts   |-> FoldLeft(AllowHost, {}, cfg.hosts),
     ports   |-> cfg.ports,
     include |-> cfg.include, exclude |-> cfg.exclude, depth |-> cfg.depth]

RootPath(p) == IF p = <<>> THEN Root ELSE p

Allows(sc, u) ==
    /\ sc.hosts = {} \/ Lower(u.host) \in sc.hosts
    /\ EffectivePort(u) \in sc.ports.low .. sc.ports.high
    /\ \A pattern \in sc.exclude : RootPath(u.path) \notin pattern
    /\ sc.include = {} \/ \E pattern \in sc.include : RootPath(u.path) \in pattern

AllowsDepth(sc, d) == sc.depth < 0 \/ d <= sc.depth

HasHosts(sc) == sc.hosts # {}

\* SameSite: one registrable domain; an address, or a name without one, is only
\* itself.
SameSite(a, b) ==
    /\ a.labels # <<>> /\ b.labels # <<>>
    /\ \/ Lower(a) = Lower(b)
       \/ /\ ~IsIP(a) /\ ~IsIP(b)
          /\ Registrable(a.labels) # <<>> /\ Registrable(a.labels) = Registrable(b.labels)
-----------------------------------------------------------------------------
(* Units of work                                                           *)

Kinds == {"host", "page", "endpoint", "param"}

\* canonicalizeURL: the host in lower case and no fragment.
Canonical(u) == [u EXCEPT !.host = Lower(@), !.fragment = ""]

\* contentTypeFamily: without parameters, in lower case; [family, charset].
Family(ct) == ct.family

\* CanonicalKey: two emissions with one key are one unit.
CanonicalKey(t) ==
    <<t.kind, t.method, Canonical(t.url)>>
    \o (CASE t.kind = "endpoint" -> <<Family(t.ct)>>
          [] t.kind = "param" -> <<t.param, t.location>>
          [] OTHER -> <<>>)

HostOf(t) == IF t.url.host.labels = <<>> THEN <<>>
             ELSE <<t.url.scheme, Lower(t.url.host), t.url.port>>

\* The constructors: only Endpoint has a method, in upper case.
PageTarget(u) == [kind |-> "page", url |-> u, method |-> ""]
HostTarget(u) == [kind |-> "host", url |-> u, method |-> ""]
EndpointTarget(u, method, ct) == [kind |-> "endpoint", url |-> u, method |-> method, ct |-> ct]
ParamTarget(u, param, location) ==
    [kind |-> "param", url |-> u, method |-> "", param |-> param, location |-> location]
-----------------------------------------------------------------------------
(* Findings                                                                *)

Severities == <<"info", "low", "medium", "high", "critical">>

\* An unknown severity ranks below them all.
SeverityRank(s) ==
    IF Contains(Severities, s) THEN (CHOOSE i \in DOMAIN Severities : Severities[i] = s) - 1 ELSE -1

\* HostScope, and the part of a URL that MakeKey folds into a key.
HostScope(u) == <<u.scheme, u.host, u.port>>

KeyScope(scope, u) ==
    IF u.host.labels = <<>> THEN <<u>>
    ELSE CASE scope = "host" -> HostScope(u)
           [] scope \in {"page", "param"} -> Append(HostScope(u), RootPath(u.path))

\* MakeKey: the hash is taken as injective.
MakeKey(check, scope, u, parts) == <<check, scope, KeyScope(scope, u), parts>>
=============================================================================
