------------------------------ MODULE Settings ------------------------------
(***************************************************************************)
(* Where an option of a scan comes from (internal/config, and the flags of *)
(* internal/cli/scan.go): the command line, a profile of the configuration *)
(* file, the file itself, or the default of the flag.                      *)
(*                                                                         *)
(* A layer is the partial function of the keys it sets.  The sections of a *)
(* file are flattened: a key of a section is set only if its section is,   *)
(* and sections are merged key by key.  Durations are in seconds, a port   *)
(* range is parsed (none is every port), and the URL file stands for its   *)
(* lines.                                                                  *)
(*                                                                         *)
(* The second half is the catalogue the options select from: what a module *)
(* declares about itself (internal/lua_engine/check.go, loader.go,         *)
(* catalog.go) and which of them a run enables (internal/core/check.go).   *)
(* A module is the partial function of the fields its table has.  A        *)
(* pattern is the set of the names it matches.                             *)
(***************************************************************************)
EXTENDS Integers, Sequences, FiniteSets, TLC

\* Each flag with the key of the file that sets it, "" if none, and its default.
FlagTable == {
    <<"url", "url", <<>> >>, <<"urls-file", "urls_file", <<>> >>,
    <<"timeout", "timeout", 10>>, <<"user-agent", "user_agent", "hyperz/0.1">>,
    <<"format", "format", "text">>, <<"mode", "mode", "passive">>,
    <<"concurrency", "concurrency", 8>>, <<"check-concurrency", "check_concurrency", 16>>,
    <<"rate", "rate", 5>>, <<"burst", "burst", 5>>, <<"max-requests", "max_requests", 0>>,
    <<"rate-global", "global_rate", 0>>, <<"burst-global", "global_burst", 1>>,
    <<"max-retries", "max_retries", 2>>, <<"max-retry-wait", "max_retry_wait", 30>>,
    <<"output", "output", "-">>, <<"log-level", "log_level", "info">>,
    <<"log-format", "log_format", "text">>, <<"fail-on", "fail_on", "medium">>,
    <<"ca-file", "ca_file", "">>, <<"no-fingerprint", "no_fingerprint", FALSE>>,
    <<"crawl", "crawl.enabled", FALSE>>, <<"max-pages", "crawl.max_pages", 100>>,
    <<"crawl-workers", "crawl.workers", 8>>, <<"api-discovery", "crawl.api_discovery", TRUE>>,
    <<"scope-host", "scope.hosts", <<>> >>, <<"scope-any-host", "scope.any_host", FALSE>>,
    <<"scope-ports", "scope.ports", [low |-> 1, high |-> 65535]>>, <<"scope-path-include", "scope.path_include", {}>>,
    <<"scope-path-exclude", "scope.path_exclude", {}>>, <<"scope-max-depth", "scope.max_depth", 2>>,
    <<"auth-basic", "auth.basic", "">>, <<"auth-bearer", "auth.bearer", "">>,
    <<"header", "auth.headers", <<>> >>, <<"cookie", "auth.cookies", <<>> >>,
    <<"cookies-file", "auth.cookies_file", "">>,
    <<"oob", "oob.enabled", FALSE>>, <<"oob-listen", "oob.listen", ":7777">>,
    <<"oob-host", "oob.host", "">>, <<"oob-wait", "oob.wait", 10>>,
    <<"js", "js.enabled", FALSE>>, <<"js-concurrent", "js.concurrent", 4>>,
    <<"proxy", "proxies.urls", <<>> >>, <<"proxies-file", "proxies.file", "">>,
    <<"scrape-proxies", "proxies.scrape", FALSE>>, <<"proxy-source", "proxies.sources", <<>> >>,
    <<"proxy-stats-top", "proxies.stats_top", 10>>,
    <<"session-check-url", "session.check_url", "">>,
    <<"session-check-pattern", "session.pattern", "">>,
    <<"session-check-every", "session.every", 50>>,
    <<"csrf-token-source", "csrf.token_source", "">>, <<"csrf-inject", "csrf.inject", "auto">>,
    <<"csrf-header-name", "csrf.header", "X-CSRF-Token">>, <<"csrf-param", "csrf.param", "">>,
    <<"baseline", "baseline.path", "">>, <<"baseline-format", "baseline.format", "">>,
    <<"pollute", "checks.pollute", FALSE>>,
    <<"enable", "checks.enable", <<>> >>, <<"disable", "checks.disable", <<>> >>,
    <<"config", "", "">>, <<"profile", "", "">> }

Flags == { row[1] : row \in FlagTable }
RowOf == [f \in Flags |-> CHOOSE row \in FlagTable : row[1] = f]
KeyOf == [f \in Flags |-> RowOf[f][2]]
Default == [f \in Flags |-> RowOf[f][3]]

\* The keys a file may have; checks.settings is the one without a flag.
Keys == ({ KeyOf[f] : f \in Flags } \ {""}) \cup {"checks.settings"}

\* The settings of the checks have no flag, and --config and --profile no key.
ASSUME TableAssumption ==
    /\ \A f \in Flags : KeyOf[f] # "checks.settings"
    /\ \A f \in {"config", "profile"} : f \in Flags /\ KeyOf[f] \notin Keys
-----------------------------------------------------------------------------
(* The file                                                                *)

\* Parse refuses what it does not know, and a second document.  An empty file is
\* a file that sets nothing.
Accepted(file) ==
    /\ file.documents <= 1
    /\ DOMAIN file.base \subseteq Keys
    /\ \A p \in DOMAIN file.profiles : DOMAIN file.profiles[p] \subseteq Keys

\* Two layers in one, the first of which is the stronger.
Layered(layer, base) ==
    [k \in DOMAIN layer \cup DOMAIN base |-> IF k \in DOMAIN layer THEN layer[k] ELSE base[k]]

\* mergeChecks: the bags of two layers, check by check and key by key.
MergeBags(base, overlay) ==
    [c \in DOMAIN base \cup DOMAIN overlay |->
        IF c \in DOMAIN base \cap DOMAIN overlay THEN Layered(overlay[c], base[c])
        ELSE Layered(overlay, base)[c]]

BaseWins(base, overlay) == Layered(base, overlay)

\* merge: what the overlay sets replaces what the base sets, lists too.
Merge(base, overlay) ==
    IF "checks.settings" \in DOMAIN base \cap DOMAIN overlay
    THEN [Layered(overlay, base) EXCEPT !["checks.settings"] =
            MergeBags(base["checks.settings"], overlay["checks.settings"])]
    ELSE Layered(overlay, base)

Resolvable(file, profile) == profile = "" \/ profile \in DOMAIN file.profiles

\* Resolve: the base itself without a profile.
Resolve(file, profile) ==
    IF profile = "" THEN file.base ELSE Merge(file.base, file.profiles[profile])
-----------------------------------------------------------------------------
(* The options                                                             *)

\* What the flags hold before the file is read: URLs without a flag are appended
\* to those of --url, which leaves the flag as unset as it was.
FromCommandLine(cli, args) ==
    [Layered(cli, Default) EXCEPT !["url"] = @ \o args]

\* applyConfigDefaults: the file speaks for the flags that were not passed.
Overlaid(options, cli, resolved) ==
    [f \in Flags |-> IF f \notin DOMAIN cli /\ KeyOf[f] \in DOMAIN resolved
                     THEN resolved[KeyOf[f]] ELSE options[f]]

SettingsOf(resolved) ==
    IF "checks.settings" \in DOMAIN resolved THEN resolved["checks.settings"] ELSE <<>>
-----------------------------------------------------------------------------
(* The catalogue of checks                                                 *)

Levels == <<"passive", "default", "aggressive">>
Tiers == {"fingerprint", "passive", "discovery", "active", "deferred"}
TargetKinds == {"host", "page", "endpoint", "param"}
StackFields == {"server", "language", "framework", "cms", "cdn", "waf"}

\* ParseLevel
IsLevel(s) == \E i \in DOMAIN Levels : Levels[i] = s
LevelRank(s) == CHOOSE i \in DOMAIN Levels : Levels[i] = s
-----------------------------------------------------------------------------
(* What a module declares                                                  *)

Declares(module, field) == field \in DOMAIN module
Field(module, field, default) == IF Declares(module, field) THEN module[field] ELSE default

\* readCheckMeta, parseTier, parseConsumes, parseAppliesTo, parsePatchedIn,
\* parseScope: a name and a level are required, and a misspelled value or field
\* is an error, never a default.
WellFormed(module) ==
    /\ Declares(module, "name") /\ Declares(module, "level")
    /\ IsLevel(module.level)
    /\ Field(module, "scope", "page") \in {"host", "page", "param"}
    /\ Field(module, "phase", "single") \in {"single", "two-phase"}
    /\ Field(module, "tier", "active") \in Tiers
    /\ Field(module, "consumes", {}) \subseteq TargetKinds
    /\ DOMAIN Field(module, "applies_to", <<>>) \subseteq StackFields
    /\ DOMAIN Field(module, "patched_in", <<>>) \subseteq StackFields
    /\ \A f \in DOMAIN Field(module, "patched_in", <<>>) : module["patched_in"][f] # ""

\* A budget counts when it is a positive number, and pollute when it is the
\* boolean true: another value of either is passed over in silence.
Meta(module) ==
    [name      |-> module.name,
     level     |-> module.level,
     scope     |-> Field(module, "scope", "page"),
     budget    |-> IF Field(module, "budget_seconds", 0) > 0 THEN module["budget_seconds"] ELSE 60,
     twoPhase  |-> Field(module, "phase", "single") = "two-phase",
     pollute   |-> Field(module, "pollute", "no") = "true",
     tier      |-> Field(module, "tier", "active"),
     consumes  |-> IF Field(module, "consumes", {}) = {} THEN {"page"} ELSE module["consumes"],
     appliesTo |-> Field(module, "applies_to", <<>>)]

\* LoadDir gives up at the first module that does not load, and All panics.
Loads(modules) == \A m \in modules : WellFormed(m)

\* All: without pollute, what declares it is left out, and each kept check is
\* handed its settings.
All(modules, pollute, settings) ==
    { Layered(Meta(m), [config |-> IF m.name \in DOMAIN settings THEN settings[m.name] ELSE <<>>]) :
        m \in { x \in modules : Meta(x).pollute => pollute } }

UnknownSettings(modules, settings) == DOMAIN settings \ { m.name : m \in modules }
-----------------------------------------------------------------------------
(* What a run enables                                                      *)

AtMost(checks, level) == { c \in checks : LevelRank(c.level) <= LevelRank(level) }

MatchesAny(name, patterns) == \E i \in DOMAIN patterns : name \in patterns[i]

\* FilterByName: an empty list enables all, and disabling comes last.
Kept(checks, enable, disable) ==
    { c \in checks : /\ enable = <<>> \/ MatchesAny(c.name, enable)
                     /\ ~MatchesAny(c.name, disable) }

Unmatched(checks, enable, disable) ==
    { p \in { (enable \o disable)[i] : i \in DOMAIN (enable \o disable) } :
        \A c \in checks : c.name \notin p }

\* runScan: the level first, then the names; patterns are held against every
\* check there is, those this run leaves out included.
Enabled(modules, pollute, settings, level, enable, disable) ==
    LET levelled == AtMost(All(modules, pollute, settings), level)
    IN  IF enable = <<>> /\ disable = <<>> THEN levelled ELSE Kept(levelled, enable, disable)

\* Malformed or misspelt patterns, for which the operator is warned.
Warned(modules, enable, disable) == Unmatched(All(modules, TRUE, <<>>), enable, disable)
=============================================================================
