----------------------------- MODULE WellKnown -----------------------------
(***************************************************************************)
(* The two checks that read a document a host publishes at a well-known    *)
(* path: openapi-audit and oauth-discovery (checks/platform/openapi,       *)
(* checks/platform/oauth, lua_engine/checks/platform/openapi and oauth).   *)
(* The first page of a host walks the paths and the result, also that      *)
(* there is none, is kept for the host; each page then reports it.         *)
(*                                                                         *)
(* A description of an API is [status, marked, json, holds, schemes,       *)
(* security, ops]: marked if its version key is there, holds what of       *)
(* "credentials" and "example-auth-tokens" is in it, security a set of     *)
(* alternatives, each a set of schemes, and an operation [method, path,    *)
(* security], where security is <<>> if the operation has none; a key that *)
(* does not begin with a slash is no path.  The metadata of an issuer are  *)
(* [status, json, issuer, algs, auth, pkce, types, plain]: a response type *)
(* is its set of words, plain the endpoints on http.                       *)
(***************************************************************************)
EXTENDS Naturals, FiniteSets, Sequences

CONSTANTS
    AuditPages,         \* pages the check runs on at the same time
    AuditKinds,         \* which of the two checks: subset of {"openapi", "oauth"}
    AuditHost(_),       \* the scheme and host of a page
    AuditAllowed(_, _), \* scope, by host and path
    KnownPaths(_),      \* the paths a check walks, in order
    Published(_, _),    \* by check and host, what the host may publish: path |-> document
    AuditLosses         \* bound: how many requests fail
ASSUME KnownAssumption ==       \* a list of paths, none of them twice
    \A kind \in AuditKinds : LET paths == KnownPaths(kind) IN
        /\ paths \in Seq({ paths[i] : i \in DOMAIN paths })
        /\ \A i, j \in DOMAIN paths : paths[i] = paths[j] => i = j

VARIABLES
    auditing,           \* the check of this behaviour
    audit,              \* per page, the run on it
    facts,              \* the cache of the check: host |-> <<>> or <<document>>
    published,          \* what each host publishes
    audited             \* the findings: [page, what]

knownVars == <<auditing, audit, facts, published, audited>>

AuditHosts == { AuditHost(p) : p \in AuditPages }
Nowhere == [status |-> 404]
-----------------------------------------------------------------------------
(* What a document says                                                    *)

\* fetchSpec and looksLikeOpenAPIDoc; fetchDoc, which wants an issuer.
LooksLikeOpenAPIDoc(doc) == doc.status = 200 /\ doc.marked
AnyJson(doc) == doc.status = 200 /\ doc.json
IsMetadata(doc) == doc.status = 200 /\ doc.json /\ doc.issuer
Recognised(doc) == IF auditing = "openapi" THEN LooksLikeOpenAPIDoc(doc) ELSE IsMetadata(doc)

\* One alternative that names a scheme is taken for a duty to authenticate.
RequirementIsAuthenticated(alternatives) == \E a \in alternatives : a # {}
AuditedMethods == {"GET", "POST", "PUT", "DELETE", "PATCH", "HEAD", "OPTIONS"}

\* finding_authless_operations: what an operation says replaces the default.
OwnOnly(doc, op) == op.security # <<>> /\ RequirementIsAuthenticated(op.security[1])
OwnOrDefault(doc, op) ==
    OwnOnly(doc, op) \/ RequirementIsAuthenticated(doc.security)
Authed(doc, op) ==
    IF op.security # <<>> THEN RequirementIsAuthenticated(op.security[1])
    ELSE RequirementIsAuthenticated(doc.security)
AuthlessOperations(doc) ==
    IF ~doc.json \/ ~doc.schemes THEN {}
    ELSE { op \in doc.ops : op.method \in AuditedMethods /\ ~Authed(doc, op) }

AuditSpec(doc) == { <<h>> : h \in doc.holds } \cup { <<op.method, op.path>> : op \in AuthlessOperations(doc) }

AnyFragmentType(types) == { t \in types : "token" \in t }
\* implicit_flow_types: in either order of the words.
ImplicitFlowTypes(types) == types \cap { {"token"}, {"id_token"}, {"token", "id_token"} }
PkceWeakness(methods) == "s256" \notin methods
AuditMetadata(doc) ==
    LET Flag(is, w) == IF is THEN { <<w>> } ELSE {} IN
    Flag("none" \in doc.algs, "alg-none")
    \cup Flag(doc.algs \cap {"hs256", "hs384", "hs512"} # {}, "symmetric-alg")
    \cup Flag(doc.auth = {"none"}, "token-auth-none")
    \cup Flag(PkceWeakness(doc.pkce), "pkce-weak")
    \cup Flag(ImplicitFlowTypes(doc.types) # {}, "implicit-flow")
    \cup Flag(doc.plain # {}, "plain-http")

\* check.run: the findings of the facts, put to the page that asks.
SaidOf(p, known) ==
    UNION { { [page |-> p, what |-> w] : w \in IF auditing = "openapi" THEN AuditSpec(doc) ELSE AuditMetadata(doc) } :
            doc \in { known[i] : i \in DOMAIN known } }
-----------------------------------------------------------------------------
(* A run                                                                   *)

KnownInit ==
    /\ auditing \in AuditKinds
    /\ audit = [p \in AuditPages |->
                   [at |-> "looking", i |-> 1, known |-> <<>>, asked |-> {}, lost |-> {}, after |-> {}, cut |-> FALSE]]
    /\ facts = <<>> /\ audited = {}
    /\ published \in { f \in [AuditHosts -> UNION { Published(auditing, h) : h \in AuditHosts }] :
                           \A h \in AuditHosts : f[h] \in Published(auditing, h) }

EachPage(p) == p
HostKey(p) == AuditHost(p)
Document(p, path) ==
    LET has == published[AuditHost(p)] IN IF path \in DOMAIN has THEN has[path] ELSE Nowhere
Finish(p, known) ==
    /\ audit' = [audit EXCEPT ![p].at = "over", ![p].known = known]
    /\ audited' = audited \cup SaidOf(p, known)

\* DiscoverFacts up to the walk: the lock is held for the look alone.
LookUp(p) ==
    /\ audit[p].at = "looking"
    /\ IF ~AuditAllowed(AuditHost(p), "") THEN Finish(p, <<>>)
       ELSE IF HostKey(p) \in DOMAIN facts THEN Finish(p, facts[HostKey(p)])
       ELSE /\ audit' = [audit EXCEPT ![p].at = "walking", ![p].after =
                            { q \in AuditPages : audit[q].at = "over" /\ AuditHost(q) = AuditHost(p) }]
            /\ UNCHANGED audited
    /\ UNCHANGED <<auditing, facts, published>>

\* probeHost: the first document ends the walk; an error is a path without one.
AskPath(p) ==
    LET path == KnownPaths(auditing)[audit[p].i]
        next == [audit EXCEPT ![p].i = @ + 1, ![p].asked = @ \cup {path}]
    IN  /\ audit[p].at = "walking" /\ audit[p].i <= Len(KnownPaths(auditing))
        /\ \/ ~AuditAllowed(AuditHost(p), path) /\ audit' = [audit EXCEPT ![p].i = @ + 1]
           \/ /\ AuditAllowed(AuditHost(p), path)
              /\ audit' = IF Recognised(Document(p, path))
                          THEN [next EXCEPT ![p].at = "storing", ![p].known = <<Document(p, path)>>] ELSE next
           \/ /\ AuditAllowed(AuditHost(p), path)
              /\ Cardinality(UNION { {q} \X audit[q].lost : q \in AuditPages }) < AuditLosses
              /\ audit' = [next EXCEPT ![p].lost = @ \cup {path}]
        /\ UNCHANGED <<auditing, facts, published, audited>>

\* The context ends: what is left of the walk fails request by request.
WalkExpires(p) ==
    /\ audit[p].at = "walking" /\ audit[p].i <= Len(KnownPaths(auditing))
    /\ audit' = [audit EXCEPT ![p].i = Len(KnownPaths(auditing)) + 1, ![p].cut = TRUE]
    /\ UNCHANGED <<auditing, facts, published, audited>>

\* The last to come writes, also over what another has found.
Remember(p) ==
    /\ \/ audit[p].at = "storing"
       \/ audit[p].at = "walking" /\ audit[p].i > Len(KnownPaths(auditing))
    /\ facts' = [k \in DOMAIN facts \cup {HostKey(p)} |-> IF k = HostKey(p) THEN audit[p].known ELSE facts[k]]
    /\ Finish(p, audit[p].known)
    /\ UNCHANGED <<auditing, published>>

DiscoverSpec(p) == auditing = "openapi" /\ (LookUp(p) \/ AskPath(p) \/ WalkExpires(p) \/ Remember(p))
DiscoverIssuer(p) == auditing = "oauth" /\ (LookUp(p) \/ AskPath(p) \/ WalkExpires(p) \/ Remember(p))
KnownNext == \E p \in AuditPages : DiscoverSpec(p) \/ DiscoverIssuer(p)
-----------------------------------------------------------------------------
\* Nothing out of scope is asked, nothing after the document that a walk has found, and
\* nothing at all by a page that begins when another of its host is done
\* (openapi_audit.go:58: pages that begin together both walk, whatever the comment says).
KnownKeepsBounds ==
    \A p \in AuditPages :
        LET paths == KnownPaths(auditing) IN
        /\ audit[p].asked # {} => audit[p].after = {}
        /\ \A path \in audit[p].asked : AuditAllowed(AuditHost(p), path)
        /\ \A i, j \in DOMAIN paths :
               i < j /\ {paths[i], paths[j]} \subseteq audit[p].asked /\ paths[i] \notin audit[p].lost
               => ~Recognised(Document(p, paths[i]))

\* Whoever calls an operation needs no credentials: there is no alternative, or an empty one.
OpenTo(doc, op) ==
    LET effective == IF op.security # <<>> THEN op.security[1] ELSE doc.security
    IN  effective = {} \/ {} \in effective
\* What comes back in the fragment of the redirect; the comment of implicit_flow_types
\* would have "code id_token" too.
InFragment(types) == { t \in types : "code" \notin t /\ t \cap {"token", "id_token"} # {} }

\* The document that counts for a host: the first in scope, if any.
Standing(h) ==
    LET paths == KnownPaths(auditing)
        doc(i) == IF paths[i] \in DOMAIN published[h] THEN published[h][paths[i]] ELSE Nowhere
        hits == { i \in DOMAIN paths : AuditAllowed(h, paths[i]) /\ Recognised(doc(i)) }
    IN  { doc(i) : i \in { i \in hits : \A j \in hits : i <= j } }
Offered(h) ==
    { d \in { published[h][path] : path \in { path \in DOMAIN published[h] : AuditAllowed(h, path) } } :
        d.status = 200 /\ IF auditing = "openapi" THEN d.marked ELSE d.issuer }

\* A page reports of its own host what a document in scope says: an operation that takes
\* a call without credentials, an issuer whose tokens come in the fragment.
KnownEarned ==
    \A f \in audited : \E doc \in Offered(AuditHost(f.page)) :
        IF auditing = "openapi"
        THEN f.what \in { <<h>> : h \in doc.holds }
             \/ (doc.schemes /\ \E op \in doc.ops : f.what = <<op.method, op.path>> /\ OpenTo(doc, op))
        ELSE f.what = <<"implicit-flow">> => InFragment(doc.types) # {}

\* Where no page of the host lost a request, each reports every operation that is open
\* by the absence of a duty, and every weakness of the issuer.  An operation with an
\* empty alternative beside another, and the method TRACE, are not looked at.
KnownFound ==
    \A p \in AuditPages :
        /\ audit[p].at = "over" /\ AuditAllowed(AuditHost(p), "")
        /\ \A q \in AuditPages : AuditHost(q) = AuditHost(p) => audit[q].lost = {} /\ ~audit[q].cut
        => \A doc \in Standing(AuditHost(p)) :
            LET says == { f.what : f \in { f \in audited : f.page = p } } IN
            IF auditing = "openapi"
            THEN /\ { <<h>> : h \in doc.holds } \subseteq says
                 /\ doc.json /\ doc.schemes =>
                        \A op \in doc.ops :
                            op.method # "TRACE" /\ OpenTo(doc, op)
                            /\ (op.security # <<>> => op.security[1] \in { {}, {{}} })
                            /\ (op.security = <<>> => doc.security \in { {}, {{}} })
                            => <<op.method, op.path>> \in says
            ELSE /\ "none" \in doc.algs => <<"alg-none">> \in says
                 /\ InFragment(doc.types) # {} => <<"implicit-flow">> \in says
                 /\ doc.pkce \subseteq {"plain"} => <<"pkce-weak">> \in says
=============================================================================
