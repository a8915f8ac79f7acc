----------------------------- MODULE PathSweep -----------------------------
(***************************************************************************)
(* The content-discovery check (checks/discovery/content_discovery.lua,    *)
(* lua_engine/checks/discovery/content_discovery*.go): one sweep of each   *)
(* host for paths that should not be served, held against what the host    *)
(* answers for paths that do not exist, and a second sweep around hits.    *)
(*                                                                         *)
(* A path is a sequence of labels, an entry [path, marker, types,          *)
(* aggressive, stacks, emit], a group of follow-ups [triggers, entries].   *)
(* An answer is [status, body, size, type, location, shows], "" standing   *)
(* for an absent header and shows for the markers in the body.  A host     *)
(* answers with served[path] for what it has and with one of missing for   *)
(* anything else.                                                          *)
(***************************************************************************)
EXTENDS Naturals, Sequences, SequencesExt

CONSTANTS
    SweptPages,         \* pages the check runs on at the same time
    RootOfPage(_),      \* the scheme and host of a page: [scheme, host], host being labels
    PathInScope(_),     \* whether a path of a host is in scope
    Catalogue,          \* contentDiscoveryEntries
    FollowUps,          \* contentDiscoveryFollowUpGroups
    Aggressive,         \* whether the scan runs at that level
    Stack,              \* what the fingerprint found: field |-> value, "" for unknown
    Sites               \* what may stand behind a host: [served, missing]

VARIABLES
    sweep,              \* per page, the run of the check on it
    rootsClaimed,       \* the host roots that a run has claimed
    standing,           \* what stands behind each root
    pagesEmitted,       \* the targets handed back to the scan: [root, path]
    disclosed           \* the findings: [root, path, verdict]

sweepVars == <<sweep, rootsClaimed, standing, pagesEmitted, disclosed>>

Roots == { RootOfPage(p) : p \in SweptPages }
-----------------------------------------------------------------------------
(* What is asked for                                                       *)

\* discoveryEntry.appliesTo: an unknown field of the stack rules nothing out.
Applies(entry) ==
    \A field \in DOMAIN entry.stacks : Stack[field] \in entry.stacks[field] \cup {""}

\* hostBackupEntries: for the host without "www." and for its first label.
Backup(name, suffix, types) ==
    [path |-> name \o <<suffix>>, marker |-> "", types |-> types, aggressive |-> FALSE, stacks |-> <<>>, emit |-> FALSE]
Backups(name) == << Backup(name, "zip", {"zip", "binary"}), Backup(name, "tar.gz", {"gzip", "tar", "binary"}),
                    Backup(name, "sql", {"plain", "sql", "binary"}), Backup(name, "bak", {"binary", "plain"}) >>
HostBackupEntries(host) ==
    LET bare == IF Len(host) > 1 /\ host[1] = "www" THEN Tail(host) ELSE host
    IN  Backups(bare) \o (IF Len(bare) > 1 THEN Backups(<<bare[1]>>) ELSE <<>>)

MainEntries(root) ==
    SelectSeq(Catalogue, LAMBDA e : (e.aggressive => Aggressive) /\ Applies(e)) \o HostBackupEntries(root.host)

\* ContentDiscoveryFollowUpsLua: the groups that a hit triggers, whatever the level.
FollowUpEntries(hits, probed) ==
    LET on == SelectSeq(FollowUps, LAMBDA g : g.triggers \cap hits # {})
        all == SelectSeq(FlattenSeq([g \in DOMAIN on |-> on[g].entries]),
                         LAMBDA e : e.path \notin probed /\ Applies(e))
    IN  FoldLeft(LAMBDA out, e : IF \E i \in DOMAIN out : out[i].path = e.path THEN out ELSE Append(out, e), <<>>, all)
-----------------------------------------------------------------------------
(* What an answer says                                                     *)

Gap(a, b) == IF a < b THEN b - a ELSE a - b
LengthCloseTo(a, b) == Gap(a, b) <= 64 \/ 20 * Gap(a, b) < b

NoBaseline == [statuses |-> {}, bodies |-> {}, sizes |-> {}, type |-> "", location |-> ""]

\* baseline_for_host: of the headers the last one that is there counts.
Learn(b, a) ==
    [statuses |-> b.statuses \cup {a.status}, bodies |-> b.bodies \cup {a.body}, sizes |-> b.sizes \cup {a.size},
     type |-> IF a.type # "" THEN a.type ELSE b.type, location |-> IF a.location # "" THEN a.location ELSE b.location]

SameBodyOnly(b, a) == a.status \in b.statuses /\ (a.status \in 200 .. 299 => a.body \in b.bodies)
LooksLikeMiss(b, a) ==
    /\ a.status \in b.statuses
    /\ a.status \in 300 .. 399 => a.location # "" /\ a.location = b.location
    /\ a.status \in 200 .. 299 =>
           \/ a.body \in b.bodies
           \/ a.type # "" /\ a.type = b.type /\ \E n \in b.sizes : LengthCloseTo(a.size, n)

\* classify_response, "" for no hit
ClassifyResponse(entry, b, a) ==
    CASE a.status \in {401, 403} -> "auth-gated"
      [] a.status \in 200 .. 299 /\ entry.marker # "" -> IF entry.marker \in a.shows THEN "marker-match" ELSE ""
      [] a.status \in 200 .. 299 /\ entry.marker = "" ->
             IF LooksLikeMiss(b, a) \/ (entry.types # {} /\ a.type \notin entry.types \cup {""}) THEN "" ELSE "200-distinct"
      [] a.status \in 300 .. 399 -> IF LooksLikeMiss(b, a) THEN "" ELSE "redirects"
      [] OTHER -> ""
-----------------------------------------------------------------------------
(* A run                                                                   *)

SweepInit ==
    /\ sweep = [p \in SweptPages |->
                   [at |-> "claiming", base |-> NoBaseline, wave |-> 1, todo |-> <<>>, probed |-> {}, hits |-> {}, clean |-> TRUE]]
    /\ rootsClaimed = {} /\ pagesEmitted = {} /\ disclosed = {}
    /\ standing \in [Roots -> Sites]

Site(p) == standing[RootOfPage(p)]
Replies(p, path) == IF path \in DOMAIN Site(p).served THEN {Site(p).served[path]} ELSE Site(p).missing

\* ctx.host.claim_once: test and claim are one step under the mutex.
Unclaimed(p) == TRUE
Free(p) == RootOfPage(p) \notin rootsClaimed
ClaimRoot(p) ==
    /\ sweep[p].at = "claiming"
    /\ IF PathInScope(<<>>) /\ Free(p)
       THEN rootsClaimed' = rootsClaimed \cup {RootOfPage(p)} /\ sweep' = [sweep EXCEPT ![p].at = "first"]
       ELSE sweep' = [sweep EXCEPT ![p].at = "over"] /\ UNCHANGED rootsClaimed
    /\ UNCHANGED <<standing, pagesEmitted, disclosed>>

\* The two canaries.  An error of the first ends the run, and the claim stays.
LearnBaseline(p) ==
    LET last == sweep[p].at = "second"
        Sweeps(base) == [sweep EXCEPT ![p].at = "sweeping", ![p].base = base, ![p].todo = MainEntries(RootOfPage(p))]
    IN  /\ sweep[p].at \in {"first", "second"}
        /\ \/ \E a \in Site(p).missing :
                 LET base == Learn(sweep[p].base, a) IN
                 sweep' = IF last THEN Sweeps(base) ELSE [sweep EXCEPT ![p].at = "second", ![p].base = base]
           \/ sweep' = IF last THEN Sweeps(sweep[p].base) ELSE [sweep EXCEPT ![p].at = "over", ![p].clean = FALSE]
        /\ UNCHANGED <<rootsClaimed, standing, pagesEmitted, disclosed>>

\* run_probes: each path once and in scope; an error is reported and the sweep goes on.
ProbePath(p) ==
    LET entry == Head(sweep[p].todo)
        skip == entry.path \in sweep[p].probed \/ ~PathInScope(entry.path)
        rest == [sweep EXCEPT ![p].todo = Tail(@), ![p].probed = @ \cup {entry.path}]
    IN  /\ sweep[p].at = "sweeping" /\ sweep[p].todo # <<>>
        /\ \/ skip /\ sweep' = rest /\ UNCHANGED pagesEmitted
           \/ ~skip /\ sweep' = [rest EXCEPT ![p].clean = FALSE] /\ UNCHANGED pagesEmitted
           \/ /\ ~skip
              /\ \E a \in Replies(p, entry.path) :
                     LET verdict == ClassifyResponse(entry, sweep[p].base, a) IN
                     IF verdict = "" THEN sweep' = rest /\ UNCHANGED pagesEmitted
                     ELSE /\ sweep' = [rest EXCEPT ![p].hits = @ \cup { [path |-> entry.path, verdict |-> verdict] }]
                          /\ pagesEmitted' = IF entry.emit
                                             THEN pagesEmitted \cup { [root |-> RootOfPage(p), path |-> entry.path] }
                                             ELSE pagesEmitted
        /\ UNCHANGED <<rootsClaimed, standing, disclosed>>

\* After the first sweep the follow-ups of its hits, after those the end.
EndWave(p) ==
    LET more == FollowUpEntries({ h.path : h \in sweep[p].hits }, sweep[p].probed) IN
    /\ sweep[p].at = "sweeping" /\ sweep[p].todo = <<>>
    /\ IF sweep[p].wave = 1 /\ more # <<>>
       THEN sweep' = [sweep EXCEPT ![p].wave = 2, ![p].todo = more] /\ UNCHANGED disclosed
       ELSE /\ sweep' = [sweep EXCEPT ![p].at = "over"]
            /\ disclosed' = disclosed \cup
                   { [root |-> RootOfPage(p), path |-> h.path, verdict |-> h.verdict] : h \in sweep[p].hits }
    /\ UNCHANGED <<rootsClaimed, standing, pagesEmitted>>

CutSweep(p) ==
    /\ sweep[p].at # "over"
    /\ sweep' = [sweep EXCEPT ![p].at = "over", ![p].clean = FALSE]
    /\ UNCHANGED <<rootsClaimed, standing, pagesEmitted, disclosed>>

SweepStep(p) == ClaimRoot(p) \/ LearnBaseline(p) \/ ProbePath(p) \/ EndWave(p)
SweepNext == \E p \in SweptPages : SweepStep(p) \/ CutSweep(p)
-----------------------------------------------------------------------------
\* One run sweeps a host, at no path out of scope, and hands back only what it reports
\* unless it was cut (ctx.host.claim_once, ctx.scope:allows, ctx:discover).
SweepKeepsBounds ==
    /\ \A p, q \in SweptPages : p # q /\ RootOfPage(p) = RootOfPage(q) => sweep[p].probed = {} \/ sweep[q].probed = {}
    /\ \A p \in SweptPages : \A h \in sweep[p].hits : PathInScope(h.path)
    /\ \A e \in pagesEmitted : \E p \in SweptPages :
           RootOfPage(p) = e.root /\ \E h \in sweep[p].hits : h.path = e.path

\* Where all missing paths look alike, a finding is of a path that is served, or of an
\* answer 401 or 403, which is taken for one whatever missing paths answer.
Alike(answers) ==
    \A a, b \in answers :
        /\ a.status = b.status /\ a.location = b.location /\ a.type = b.type /\ a.shows = {}
        /\ a.status \in 200 .. 299 => a.type # "" /\ LengthCloseTo(a.size, b.size) /\ LengthCloseTo(b.size, a.size)
        /\ a.status \in 300 .. 399 => a.location # ""
SweepEarned ==
    \A f \in disclosed : LET site == standing[f.root] IN
        Alike(site.missing) => f.verdict = "auth-gated" \/ f.path \in DOMAIN site.served

\* A sweep without an error reports each path of the catalogue that is served in
\* earnest, and those of a group that one of its hits triggers.
Plain(entry, site) ==
    /\ entry.path \in DOMAIN site.served /\ PathInScope(entry.path)
    /\ LET a == site.served[entry.path] IN
           /\ a.status = 200
           /\ IF entry.marker # "" THEN entry.marker \in a.shows
              ELSE /\ entry.types # {} => a.type \in entry.types
                   /\ \A m \in site.missing : a.status # m.status
SweepFound ==
    \A p \in SweptPages : sweep[p].at = "over" /\ sweep[p].clean /\ RootOfPage(p) \in rootsClaimed /\ sweep[p].probed # {} =>
        LET hits == { h.path : h \in sweep[p].hits }
            due == ToSet(MainEntries(RootOfPage(p)))
                   \cup { e \in UNION { ToSet(g.entries) : g \in { g \in ToSet(FollowUps) :
                              g.triggers \cap hits \cap { m.path : m \in ToSet(MainEntries(RootOfPage(p))) } # {} } } : Applies(e) }
        IN  \A e \in due : Plain(e, Site(p)) => \E f \in disclosed : f.root = RootOfPage(p) /\ f.path = e.path
=============================================================================
