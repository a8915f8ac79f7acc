------------------------------- MODULE Setup -------------------------------
(***************************************************************************)
(* A run of "hyperz scan" from its command line to the moment the scan     *)
(* begins, and the clean-up at its end (internal/cli: scan.go, auth.go,    *)
(* io.go).  Steps follow each other; one that fails ends the run, and what *)
(* was opened until then is closed, last opened first.                     *)
(*                                                                         *)
(* The scan itself is one step here (Pipeline has what it writes).  Texts  *)
(* are taken as parsed: Malformed are those a parser refuses, and a cookie *)
(* line of a file is [name, domain, secure].                               *)
(***************************************************************************)
EXTENDS Surface, Settings

CONSTANTS
    Invocations,    \* command lines: [cli, args]
    Files,          \* configuration files: [documents, base, profiles]
    Builds,         \* the modules a build may embed
    Malformed,      \* values of options that cannot be parsed
    SeedOf(_),     \* the URL a text stands for
    SettingKeys,    \* keys of the settings of a check
    CookieLines,    \* what the cookies file holds
    Addresses,      \* URLs the scan may request
    Fragile         \* what of the outside may be missing when it is needed

VARIABLES
    stage,      \* the step that comes next
    run,        \* the invocation, the file, what it resolves to, and the build
    broken,     \* the parts of the outside that do not answer
    options,    \* scanConfig
    held,       \* what is to be closed, last opened first
    disk,       \* the report of the previous run: "old", "empty" or "new"
    compared,   \* what the baseline was read from
    jar,        \* the cookies of the client
    exit        \* the exit code, -1 before it is known

setupVars == <<stage, run, broken, options, held, disk, compared, jar, exit>>
-----------------------------------------------------------------------------
Opt(f) == options[f]
IsSet(f) == Opt(f) # Default[f]
Legible(f) == Opt(f) \notin Malformed
AllLegible(f) == \A i \in DOMAIN Opt(f) : Opt(f)[i] \notin Malformed
AnyIllegible(f) == Opt(f) \cap Malformed # {}

\* collectSeeds, without the lines that are blank or comments.
Seeds == LET texts == Opt("url") \o Opt("urls-file")
         IN  [i \in DOMAIN texts |-> SeedOf(texts[i])]
SeedSet == { Seeds[i] : i \in DOMAIN Seeds }

\* buildScope: the hosts of the seeds, unless hosts are given or none is wanted.
ScopeOfRun ==
    NewScope([hosts |-> IF Opt("scope-host") = <<>> /\ ~Opt("scope-any-host")
                        THEN [i \in DOMAIN Seeds |-> Seeds[i].host]
                        ELSE Opt("scope-host"),
              ports |-> Opt("scope-ports"),
              include |-> Opt("scope-path-include"), exclude |-> Opt("scope-path-exclude"),
              depth |-> Opt("scope-max-depth")])

\* feedSeeds: seeds of another scheme or out of scope are passed over.
Fed == { u \in SeedSet : Web(u) /\ Allows(ScopeOfRun, u) }

Checks == Enabled(run.build, Opt("pollute"), SettingsOf(run.resolved), Opt("mode"),
                  Opt("enable"), Opt("disable"))

\* newCookieJar: an unscoped cookie is stored for each seed, a scoped one under
\* its domain.  net/http/cookiejar files them by host, without the port.
JarOf(unscoped, scoped) ==
    { [name |-> c, host |-> Lower(u.host), exact |-> TRUE, secure |-> FALSE] :
        c \in unscoped, u \in { s \in SeedSet : Web(s) /\ s.host.labels # <<>> } }
    \cup { [name |-> c.name, host |-> Spelled(c.domain), exact |-> FALSE, secure |-> c.secure] :
        c \in scoped }

Under(labels, domain) ==
    /\ Len(labels) >= Len(domain)
    /\ SubSeq(labels, Len(labels) - Len(domain) + 1, Len(labels)) = domain

\* The cookies a request to u carries.
Sent(u) ==
    { c.name : c \in { d \in jar :
        /\ \/ d.host = Lower(u.host)
           \/ ~d.exact /\ Under(u.host.labels, d.host.labels)
        /\ d.secure => u.scheme = "https" } }
-----------------------------------------------------------------------------
Advance(from, to) == stage = from /\ stage' = to

\* A step that fails logs and returns exitScanError; the deferred calls follow.
Fail(from) ==
    /\ stage = from /\ stage' = "failed" /\ exit' = 2
    /\ UNCHANGED <<run, broken, options, held, disk, compared, jar>>

\* A step that checks and leaves nothing behind.
Check(from, to, ok) ==
    \/ ok /\ Advance(from, to)
          /\ UNCHANGED <<run, broken, options, held, disk, compared, jar, exit>>
    \/ ~ok /\ Fail(from)

Runs == { [inv |-> i, file |-> f, resolved |-> <<>>, build |-> b] : i \in Invocations, f \in Files, b \in Builds }

SetupInit ==
    /\ stage = "parse"
    /\ run \in Runs
    /\ broken \in { {} } \cup { {x} : x \in Fragile }
    /\ options = FromCommandLine(run.inv.cli, run.inv.args)
    /\ held = <<>> /\ disk = "old" /\ compared = "" /\ jar = {} /\ exit = -1

\* applyConfigDefaults, and what RunE checks before it calls runScan.
ReadConfig ==
    /\ stage = "parse"
    /\ \/ /\ options["config"] = ""
          /\ stage' = "urls" /\ UNCHANGED <<run, options, exit>>
       \/ /\ options["config"] # ""
          /\ Accepted(run.file) /\ Resolvable(run.file, options["profile"])
          /\ LET resolved == Resolve(run.file, options["profile"])
             IN  /\ run' = [run EXCEPT !.resolved = resolved]
                 /\ options' = Overlaid(options, run.inv.cli, resolved)
          /\ stage' = "urls" /\ UNCHANGED exit
       \/ /\ options["config"] # ""
          /\ ~Accepted(run.file) \/ ~Resolvable(run.file, options["profile"])
          /\ stage' = "failed" /\ exit' = 2 /\ UNCHANGED <<run, options>>
    /\ UNCHANGED <<broken, held, disk, compared, jar>>

TargetIsGiven == (Opt("url") # <<>> \/ IsSet("urls-file")) /\ IsLevel(Opt("mode"))
LogIsGood == Legible("log-level") /\ Legible("log-format")
GateIsGood == Opt("fail-on") = "none" \/ SeverityRank(Opt("fail-on")) >= 0

GateIsTriedLater ==
    \/ Check("urls", "logger", TargetIsGiven)
    \/ Check("logger", "gate", LogIsGood)
    \/ Check("gate", "baseline", TRUE)
Validate ==
    \/ Check("urls", "logger", TargetIsGiven)
    \/ Check("logger", "gate", LogIsGood)
    \/ Check("gate", "baseline", GateIsGood)

\* LoadBaseline reads the whole file.
ReadBaseline ==
    \/ ~IsSet("baseline") /\ Check("baseline", "format", TRUE)
    \/ /\ IsSet("baseline") /\ "baseline" \notin broken
       /\ Advance("baseline", "format") /\ compared' = disk
       /\ UNCHANGED <<run, broken, options, held, disk, jar, exit>>
    \/ IsSet("baseline") /\ "baseline" \in broken /\ Fail("baseline")

FormatIsTriedLater == Check("format", "output", TRUE)
ChooseFormat == Check("format", "output", Legible("format"))

\* openOutput: os.Create empties what was there.
OpenOutput ==
    \/ ~IsSet("output") /\ Check("output", "inputs", TRUE)
    \/ /\ IsSet("output") /\ "output" \notin broken
       /\ Advance("output", "inputs") /\ held' = <<"output">> \o held
       /\ disk' = IF Opt("output") = "report.json" THEN "empty" ELSE disk
       /\ UNCHANGED <<run, broken, options, compared, jar, exit>>
    \/ IsSet("output") /\ "output" \in broken /\ Fail("output")

InputsAreGood ==
    /\ AllLegible("proxy") /\ (IsSet("proxies-file") => "proxies" \notin broken)
    /\ IsSet("urls-file") => "urls" \notin broken
    /\ IsSet("ca-file") => "ca" \notin broken
ReadInputs == Check("inputs", "auth", InputsAreGood)

\* applyAuthConfig: basic and bearer exclude each other wherever they come from.
AuthIsGood ==
    /\ Legible("auth-basic") /\ ~(IsSet("auth-basic") /\ IsSet("auth-bearer"))
    /\ AllLegible("header") /\ AllLegible("cookie")
    /\ IsSet("cookies-file") => "cookies" \notin broken
Authenticate ==
    /\ stage = "auth"
    /\ LET file == IF IsSet("cookies-file") THEN CookieLines ELSE {}
           Unscoped == { Opt("cookie")[i] : i \in DOMAIN Opt("cookie") }
                       \cup { c.name : c \in { l \in file : l.domain = <<>> } }
       IN  \/ /\ AuthIsGood /\ Advance("auth", "session")
              /\ jar' = JarOf(Unscoped, { l \in file : l.domain # <<>> })
              /\ UNCHANGED <<run, broken, options, held, disk, compared, exit>>
           \/ ~AuthIsGood /\ Fail("auth")

\* applyActiveSessionConfig: what is not asked for is not validated either.
SessionIsGood ==
    /\ IsSet("session-check-url") =>
           Opt("session-check-every") >= 1 /\ Legible("session-check-pattern")
    /\ IsSet("csrf-token-source") => Opt("csrf-inject") \in {"", "auto", "form", "header"}
WatchSession == Check("session", "scope", SessionIsGood)

\* scope.New: the range of ports and the patterns of paths.
ScopeIsGood ==
    /\ PortsAreValid(Opt("scope-ports"))
    /\ ~AnyIllegible("scope-path-include") /\ ~AnyIllegible("scope-path-exclude")
BuildScope == Check("scope", "oob", ScopeIsGood)

\* startOOB and startBrowser, with the deferred Stop and Close.
Acquire(from, to, wanted, what, ok) ==
    \/ ~wanted /\ Check(from, to, TRUE)
    \/ /\ wanted /\ ok /\ Advance(from, to) /\ held' = <<what>> \o held
       /\ UNCHANGED <<run, broken, options, disk, compared, jar, exit>>
    \/ wanted /\ ~ok /\ Fail(from)

CallbackIsGood == Opt("oob") => IsSet("oob-host")
StartOOB ==
    Acquire("oob", "browser", Opt("oob"), "listener", CallbackIsGood /\ "port" \notin broken)
StartBrowser == Acquire("browser", "catalog", Opt("js"), "browser", "chrome" \notin broken)

\* All panics on a module it cannot load: the deferred calls run, and the process
\* exits with 2 like any other failure.
LoadCatalog == Check("catalog", "scan", Loads(run.build))

\* The scan itself, from the first goroutine to the exit code (Pipeline).
Scan ==
    /\ Advance("scan", "done")
    /\ exit' \in {0, 1, 2, 130}
    /\ UNCHANGED <<run, broken, options, held, disk, compared, jar>>

\* A deferred call; the process ends after the last.  The output is buffered and
\* complete on disk only now.
Close ==
    /\ stage \in {"failed", "done"}
    /\ IF held = <<>> THEN stage' = "exited" /\ UNCHANGED <<held, disk>>
       ELSE /\ held' = Tail(held) /\ UNCHANGED stage
            /\ disk' = IF Head(held) = "output" /\ Opt("output") = "report.json" /\ stage = "done"
                       THEN "new" ELSE disk
    /\ UNCHANGED <<run, broken, options, compared, jar, exit>>

SetupNext ==
    \/ ReadConfig \/ Validate \/ ReadBaseline \/ ChooseFormat \/ OpenOutput
    \/ ReadInputs \/ Authenticate \/ WatchSession \/ BuildScope
    \/ StartOOB \/ StartBrowser \/ LoadCatalog \/ Scan \/ Close

SetupSpec == SetupInit /\ [][SetupNext]_setupVars
-----------------------------------------------------------------------------
Ready == stage = "scan"
Profile == IF options["profile"] = "" THEN <<>> ELSE run.file.profiles[options["profile"]]
File == IF options["config"] = "" THEN <<>> ELSE Layered(Profile, run.file.base)

\* The layers of an option, strongest first.
Strongest(f) ==
    CASE f \in DOMAIN run.inv.cli -> run.inv.cli[f]
      [] f \notin DOMAIN run.inv.cli /\ KeyOf[f] \in DOMAIN File -> File[KeyOf[f]]
      [] OTHER -> Default[f]

SetBy(layer, c, k) ==
    /\ "checks.settings" \in DOMAIN layer /\ c \in DOMAIN layer["checks.settings"]
    /\ k \in DOMAIN layer["checks.settings"][c]

OptionsAreStrongest ==
    /\ \A f \in Flags \ {"url"} : options[f] = Strongest(f)
    /\ options["config"] # "" =>
        \A c \in Checks : \A k \in SettingKeys :
            IF SetBy(Profile, c.name, k) \/ SetBy(run.file.base, c.name, k)
            THEN /\ k \in DOMAIN c.config
                 /\ c.config[k] = (IF SetBy(Profile, c.name, k) THEN Profile ELSE run.file.base)
                                  ["checks.settings"][c.name][k]
            ELSE k \notin DOMAIN c.config

\* What was given without a domain goes to the hosts of the seeds and nowhere
\* else, and what was given for a domain to all of it and nowhere else.
CookiesStayHome ==
    LET JarLines == IF IsSet("cookies-file") THEN CookieLines ELSE {}
        Loose == { Opt("cookie")[i] : i \in DOMAIN Opt("cookie") }
                 \cup { l.name : l \in { k \in JarLines : k.domain = <<>> } }
    IN  \A u \in Addresses :
            Sent(u) = { name \in Loose : \E s \in SeedSet : Web(s) /\ Lower(s.host) = Lower(u.host) }
                      \cup { l.name : l \in { k \in JarLines :
                            /\ k.domain # <<>> /\ Under(u.host.labels, k.domain)
                            /\ k.secure => u.scheme = "https" } }

\* Without a word on the scope, every seed of the web is in it and no host else.
SeedsAreAdmitted ==
    /\ \A f \in {"scope-host", "scope-any-host", "scope-ports", "scope-path-include", "scope-path-exclude"} :
           ~IsSet(f)
    => /\ Fed = { u \in SeedSet : Web(u) }
       /\ \A u \in Addresses : Fed # {} /\ Allows(ScopeOfRun, u)
                               => \E s \in SeedSet : Lower(s.host) = Lower(u.host)

\* The checks that run are those of the build that the level, the consent to
\* pollute and the lists leave; a pattern is reported only if no module has it.
CatalogIsAsAsked ==
    /\ { c.name : c \in Checks } =
         { m.name : m \in { x \in run.build :
             /\ LevelRank(x.level) <= LevelRank(Opt("mode"))
             /\ Field(x, "pollute", "no") = "true" => Opt("pollute")
             /\ Opt("enable") # <<>> => MatchesAny(x.name, Opt("enable"))
             /\ ~MatchesAny(x.name, Opt("disable")) } }
    /\ \A p \in Warned(run.build, Opt("enable"), Opt("disable")) : \A m \in run.build : m.name \notin p

\* A scan starts with the options its operator gave: each has the value of the
\* strongest layer that sets it, and the checks are those of the level and lists
\* with the settings they were given (applyConfigDefaults and the registry).
RunsAsConfigured == Ready => OptionsAreStrongest /\ CatalogIsAsAsked

\* It starts where its operator asked: cookies stay with the hosts they were given
\* for, and the scope admits the seeds (applyAuthConfig, buildScope).
StartsAsAsked == Ready => CookiesStayHome /\ SeedsAreAdmitted

\* What is known when the report is opened, and when a listener or a browser starts.
ReportIsDue ==
    /\ TargetIsGiven /\ LogIsGood /\ GateIsGood /\ Legible("format")
    /\ IsSet("baseline") => compared = "old"
ScanIsDue == InputsAreGood /\ AuthIsGood /\ SessionIsGood /\ ScopeIsGood /\ CallbackIsGood

\* Nothing is spent on a run whose options are refused (runScan).  The report of the
\* last run is opened, and so emptied, only for a run with a target, a level, a log,
\* a gate and a format that exist, and after the baseline was read from what it was.
\* The listener and the browser start only when, beyond that, the proxies, the seeds,
\* the authority, the credentials, the session check, the CSRF mode, the scope and the
\* callback host were found good.  What was opened is closed, and a report that stays
\* empty goes with exit code 2.  An option that is refused after the output was opened
\* has emptied the report all the same.
NothingIsWasted ==
    /\ disk # "old" \/ held # <<>> => ReportIsDue
    /\ (\E i \in DOMAIN held : held[i] \in {"listener", "browser"}) => ScanIsDue
    /\ stage = "exited" => held = <<>> /\ exit # -1 /\ (disk = "empty" => exit = 2)
=============================================================================
