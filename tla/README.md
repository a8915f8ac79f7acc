# A verification development for HyperZ

This directory models HyperZ (`src/internal/...`, Go and Lua) in TLA+: the
concurrent core, what a scan stands on, and the checks that keep state. TLC
checks the models on small instances, and TLAPS proves the properties of the
work queue, the scanner, the crawler, the HTTP client, the findings pipeline,
the check runner, the fingerprint detector, the proxy pool and the set-up of a
run for instances of every size. Paths below are relative to
`src/internal` unless they begin with `README`; `scanner.go:220` is a line.

- [The system](#the-system): components, state, interactions, what is hard
- [The modules](#the-modules): how each corresponds to the code
- [The runs](#the-runs): what is checked, the bounds, the fairness
- [The proofs](#the-proofs)
- [Where the code and its documents disagree](#where-the-code-and-its-documents-disagree)
- [What the models say of the checks](#what-the-models-say-of-the-checks)
- [What is not modelled](#what-is-not-modelled)
- [The plan](#the-plan)

## The system

HyperZ scans web applications. One run (`runScan`, `internal/cli/scan.go`) wires
these parts together, each on goroutines of its own:

```
 seeds ──> crawler ──pages──> source ──> tiered worklist <──> workers ──> checks
              │                              ^                   │          │
              │ fetch                        └── re-push,        │ fetch    │ Do,
              v                                  discoveries     v          v emit
           httpclient  <──────────────────────────────────────────────  findings
   (sentinel, CSRF, budget, host limiter, retry, proxies)                   │
                                                                            v
  exit code <── reporter <── Tap (gate) <── Diff (baseline) <── Dedupe <────┘
```

| Component | State it keeps | Operations | What makes it correct |
| --- | --- | --- | --- |
| Tiered worklist, `scanner/worklist.go` | per-tier queues, the (key, tier) pairs seen, per-tier counters of work queued or in flight, unique keys per host, `sourceDone`, `closed` | `Push`, `Pop`, `Done`, `SourceDone`, `Close`, and the watcher that turns a cancellation into a broadcast | the barrier between tiers, exact counters, no lost wakeup, no premature exit, the host budget, everyone leaves |
| Scan orchestrator, `scanner/scanner.go` | the page cache `pageByKey`, the findings channel, the checks in flight | the source goroutine, the worker loop, page materialization, parallel checks, discovery, advance to the next tier, plant and detect, the out-of-band drain | every accepted target goes through every tier, findings survive a cancellation, the cache is reclaimed, nothing is sent on a closed channel |
| Crawler, `crawler/crawler.go` | visited set, pending counter, work channel, page cap, operations recorded from API documents, the WaitGroup of documents in flight | `submit`, `process`, `emit`, `finish` | one page per URL, the cap, nothing forgotten, no send on a closed channel, API operations ride on their page, the crawl ends |
| HTTP client, `httpclient/` | the budget's counter and latch, per-host rates, the sentinel's counter and latch, the CSRF token | `Do`, `DoNoFollow`, `Budget.Wait`, `HostLimiter.Wait`/`Penalize`, `SessionSentinel.Before`, `CSRFTokenSource.Before` | a hard budget that retries pay into, no mutation attempted twice or sent before its token is known, no stall |
| Findings pipeline, `report/`, `cli/scan.go` | the dedupe set, the baseline entries not yet matched, the diff counters, the worst severity, the exit code, the report file | `Dedupe`, `Diff`, `Tap`, the reporters, `LoadBaseline`, the exit code | an exact report, known debt is not new, the gate tells the truth, the run ends |
| Command line and set-up, `cli/`, `config/` | the options, what was opened so far (output, listener, browser) | flags, files, profiles, cookies, the steps of `runScan`, the deferred clean-up | the stronger layer wins, cookies stay with their hosts, nothing is opened for options that were not found good |
| Scope, targets, core, `scope/`, `target/`, `core/` | none (values) | the predicate, canonical keys, filters of checks | decisions and key equality |
| Proxy pool, `proxy/` | atomic counters per proxy | load, select by score, record an outcome | counters that agree with what happened |
| Fingerprint, `fingerprint/` | one detection per host behind `sync.Once` | `Detect`, the rules, the gates | one detection shared by all, no check kept away without evidence |
| Lua engine, `lua_engine/` | a pool of virtual machines per check, two-phase state, resources a script holds | `Run`, `Plant`, `Detect`, `Drain`, the bindings | no machine in two hands, nothing held after a dispatch, deadlines hold |
| Out-of-band listener, `oob/` | registrations and hits | `Register`, the handler, the readings of a drain, `Stop` | each contacted canary is reported by the check that planted it |
| Browser pool, `browser/` | a semaphore, tabs | `Visit` | slots come back |
| Page and API parsers, `crawler/extract.go`, `openapi.go`, `lua_engine/sink.go` | a walk's place in the document | `extractAll`, `extractAPIOperations`, `SinksFor`, `MutateRequest` | every input and operation is read once and can be probed |
| Checks, `checks/*.lua` with `lua_engine/checks/` | facts shared by the runs of a check: claims on targets and hosts, caches of verdicts, a corpus, planted tokens | `run`, `plant`, `detect`, `drain` | what is reported is there, what is there is found, and what is promised not to be sent is not sent |

How they interact: by bounded channels (`pages`, `findings` and the three
channels of the pipeline), by calls on shared objects under a mutex (worklist,
limiter, sentinel, visited set), by `sync.Once` (token, fingerprint), by
`sync.WaitGroup` (workers, documents in flight), by callbacks carried in the
context (discovery, out-of-band registration), and by a context that a signal
cancels at any moment. The report of one run is the baseline of the next.

What is hard to test: wakeups (Push signals one waiter while a barrier may free
many targets), quiescence by counting (twice: worklist and crawler), the order
of plant and detect across targets that arrive late, the page cache that source
and workers write for the same key, the gap between the budget's look and its
claim, first-caller-runs-it objects that latch a failure, the folding of six
sources of failure into one exit code, layers of options that override each
other, facts that the runs of a check share and that one of them leaves behind
when it is cut, verdicts drawn from time or from a difference, and cancellation
between any two steps.
`PROJECT.json` lists each of these hazards at its line with the property that
covers it.

## The modules

| Module | Models | Extends / uses |
| --- | --- | --- |
| `TierQueue` | what the worklist promises: accepted once, lowest tier first, a barrier, retirement only when nothing can come | (none) |
| `Worklist` | `scanner/worklist.go` with its mutex and condition variable | refines `TierQueue` |
| `WorklistProofs` | theorems about `Worklist` | `Worklist`, `TLAPS` |
| `Scanner` | `ScanAll`, `scanTier`, `runTier`, `runCheck`, `materializePage`, `runOOBDrain` | `Worklist` |
| `ScannerProofs` | theorems about `Scanner` | `Scanner`, `WorklistProofs` |
| `Crawler` | `Crawl`, `submit`, `process` | (none) |
| `CrawlerProofs` | theorems about `Crawler` | `Crawler`, `TLAPS` |
| `HttpClient` | `doWith`, the budget, the limiter, the two middlewares | (none) |
| `HttpClientProofs` | theorems about `HttpClient` | `HttpClient`, `TLAPS` |
| `Pipeline` | `runScan` from its channels on, `Dedupe`, `Diff`, `Tap`, a reporter, `indexFindings` | (none) |
| `PipelineProofs` | theorems about `Pipeline` | `Pipeline`, `TLAPS` |
| `OobServer` | `oob/builtin.go`: register, hit, drain, stop | (none) |
| `BrowserPool` | `browser/browser.go`: slots, tabs, the first call of the binding | (none) |
| `LuaRunner` | `lua_engine/check.go`, `two_phase.go` and the bindings that keep state | `OobServer`, `BrowserPool` |
| `LuaRunnerProofs` | theorems about `LuaRunner` and what it is composed of | `LuaRunner`, `TLAPS` |
| `OnceCell` | what a table of cells filled on demand promises its readers | (none) |
| `StackRules` | `fingerprint/rules.go` | (none) |
| `Fingerprint` | `fingerprint/fingerprint.go` and the gates that read it | `StackRules`; refines `OnceCell` |
| `ProxyPool` | `proxy/`: lists, scores, counters | (none) |
| `ServiceProofs` | theorems about `Fingerprint`, `ProxyPool` and `Setup` | all three, `TLAPS` |
| `Surface` | `scope/`, `target/`, keys of findings: pure operators | (none) |
| `Settings` | `config/` and the flags of `cli/scan.go`; what a module declares and which modules a run enables | (none) |
| `Setup` | `hyperz scan` from the command line to the scan, and the clean-up | `Surface`, `Settings` |
| `Documents` | `crawler/extract.go`, `openapi.go`, `lua_engine/sink.go` | `Surface` |
| `RaceProbe` | race-condition: the barrier, the burst, the set of targets taken | (none) |
| `FramingProbe` | request-smuggling: probes that hang, the cache of a host | (none) |
| `StoredProbe` | stored-xss: plant, tokens, detect, fire once | (none) |
| `IdCorpus` | idor: the corpus, families and shapes, the three answers | (none) |
| `TokenProbe` | jwt-vulns: forgeries, key discovery, a token once per scan | (none) |
| `TakeoverProbe` | subdomain-takeover: the shared verdict of a host | (none) |
| `PathSweep` | content-discovery: the claim, the baseline, the waves | (none) |
| `CacheProbe` | cache-poisoning through a cache that others use | (none) |
| `BlindProbe` | sqli-time, sqli-boolean, cmd-injection-blind | (none) |
| `PolicyProbe` | csp-weak and csp-bypass, and what a browser makes of a policy | (none) |
| `WellKnown` | openapi-audit and oauth-discovery: the walk, the facts a host is remembered by | (none) |
| `ReflectionProbe` | reflected-xss: where an input comes back, and what a browser makes of the page | (none) |
| `FormTargets` | form-action-insecure, and where a browser sends the forms of a page | (none) |
| `ProbeProofs` | theorems about nine of the checks above | `MCChecks`, `TLAPS` |
| `MC*` | instances for TLC | the modules they name |

**Worklist.** What the mutex protects is one step. A `Push` is two
(`PushBegin`, then `PushAccept` or `PushRefuse`) because it looks at the context
and the scope before it locks. A `Pop` is `PopTake`, `PopExit` or `PopWait`; the
last puts the worker into the condition variable's wait set in the step that
releases the mutex, as `sync.Cond.Wait` does, from where only a `Signal` or a
broadcast brings it back, to look again. `Close` sets the flag and broadcasts in
two steps, because the code broadcasts after unlocking. `CancelWaiting` is the
watcher goroutine. The clients are the most general ones that keep to the
protocol: a source that pushes until it calls `SourceDone`, workers that push
while they hold a target. `Scanner` is shown to be such a client (`ObeysWorklist`),
so what is shown of the queue holds inside a scan.

**Scanner.** It extends `Worklist`, takes part in every operation of the queue by
its name, and adds the state around it; `ScanInit`, `ScanNext` and `ScanSpec` are
the scan, `Init`, `Next` and `Spec` the queue alone. A worker's loop body is a sequence of stages: `refresh` (evict the
cached page at the last tier), `load`, `fetch`, `scan`, `advance`, `advancing`,
`evict`, `done`. Checks of one dispatch run in parallel (`Launch`,
`CheckReturns`, `Send`), with discoveries (`Discover`) between. A check is
opaque: it may find something or not, fail or not, and discover any of the
targets that the constant `Emits` allows. The kinds that it consumes and the
stack gate are the constant `Consumers`.

**Crawler.** Each item is processed by a worker of the pool, or by a goroutine
of its own when its path looks like an API document. The stages of `process` are
`fetch`, `wait` (for the documents in flight), `take` (the operations recorded
for the URL), `send`, `follow` (submit what the page leads to), `release`,
`finish`. What a body contains is the constants `Links`, `Redirects`,
`Documents`. `blocked` and `woken` are the two halves of `WaitGroup.Wait`, with
the panic that the Go library documents for a counter raised in between.

**HttpClient.** A call is one process: through the sentinel (`session`,
`probe`), the CSRF source (`csrf`, `token`), the budget (`budget`, `global`,
`claim`), the host's limiter (`host`) and `send`; then `pushed` or `failed` and
round again. Each call has a context that may end at any moment (`Expire`). Time
is left out; of a rate only what halving and the floor do to it is kept. `sends`,
`wire`, `applied` and `probes` count for the properties what the code does not:
attempts, every request given to the transport, the redirects of sends, probes and
the fetch of the token included, how often one left with the method and body of
its call (a 307 or 308 repeats both), looks at the session. What the transport
itself resends over a fresh connection is not counted. `token` is what the fetch
found: nothing, a token without a value, one for a form field or one for a header,
as `Mode` and the kind of the carrier decide; a form field goes only into a form's
body (`FormBody`), which may turn out unreadable. Which calls have a deadline is
the constant `Deadlined`: those of the checks (`scanner.go:562`).

**Pipeline.** A channel is a sequence with the capacity `Cap`; the findings of
checks blocked on the first channel are kept in it as well. `Dedupe`, `Diff` and
`Resolve`, `Tap` are the three goroutines, `Receive`, `WriteReturns` and
`Finish` the main one. A finding is a key and a severity rank. `broken` is a
streaming reporter's remembered error; a buffering reporter is one that is never
broken and fails, if at all, in `WriteReturns`. `whole` tells whether the file
holds the whole report after the deferred flush. `NextRun` starts another scan
against the rows that were written (`Index` is `indexFindings`). The text and
PDF reports cannot be baselines and have no next run in the program. The
markdown reporter ignores the errors of its writer: in the model that is
`write = "ok"` with `whole = FALSE`.

**LuaRunner.** A dispatch is a process: it borrows a machine (`Begin`), and its
script then does any of what the bindings allow in any order: requests and what
becomes of their bodies, detached requests, canaries, visits, and in the end
`Returns`, `ReturnsError` or `Fails`. `Expire` is the deadline and `Cancel` the end
of the scan. A machine whose call failed is in `torn`. `StopListener` is what
`runScan` does when the scan is over. `OobServer` and `BrowserPool` have one
action per critical section and are composed with it by their actions.

**Fingerprint, StackRules.** A response is a set of signs and its cookies in their
order. `StackRules` has the order of the rules for headers and bodies and what each
rule overwrites or fills; the rules for cookies apply in the order in which the
response sets them. Of the signatures one of each kind is in the model. The cell of a host is filled by whoever comes first,
under the context of that caller. The rules and the comparison of versions are
folds and quantifiers, so that they can be proved about.

**ProxyPool.** Every atomic load and add is a step; a score is read in two. The
lists are merged by a recursive function of their places (`Firsts`), which keeps
the first of each URL.

**Setup, Settings, Surface.** An action of `Setup` is a step of
`runScan`, in the order of the source; any one of the things in `broken` (a file,
a port, the browser) fails when it is reached, and `Close` undoes what was
opened. What each step asks of the options has a name (`GateIsGood`, `AuthIsGood`,
`SessionIsGood` and so on). Options are partial functions, one per layer; `Settings`
has the merges and the loading and filtering of modules, `Surface` the scope, the
kinds of targets and their keys. `NothingIsWasted` is about what the steps know when
the output is opened (`ReportIsDue`) and when the listener or the browser starts
(`ScanIsDue`). It does not say that a refused run has cost nothing: proxies,
credentials, session check and scope are looked at after the output was opened, so
that a bad one leaves an empty report and exit code 2, and a module that does not
load is found out after the browser has started. A line of the cookies file with a
domain holds for the subdomains too; the flag of the Netscape format that says
otherwise is not read by the code (`cli/auth.go:220`) and not modelled.

**Documents.** A page is the sequence of its tokens, `Consume` one turn of the
loop of `extractAll` with its place in the open form; an API description is the
record that the decoder yields, or the lines of a YAML document for the reader
that scans them. `SinksFor` and `Mutated` say what a check may fill and which
request that makes.

**The probes.** Each of `RaceProbe` to `FormTargets` is the state machine of a
check that runs on several pages at the same time: the facts its runs share, the
requests in order, the errors that end a run or only one probe of it, and the
end of its context at any point. The server is chosen from a small set in the
initial state and is the only thing the check cannot see; the properties compare
its reports with it. Oracles (`Similar`, `BodiesMatch`, `LooksLikeMiss`,
`Threshold`, `ParseCSP` and so on) are pure operators on abstract bodies, a body
being its length and a few regions. What lies outside of `src/` (the server, a
shared cache, a database, the network) is marked external in `PROJECT.json`. What
a browser makes of a policy, of a page with an input in it or of a form is
defined in the module and is what the properties compare with; `PolicyProbe`,
`ReflectionProbe` and `FormTargets` are in large part that comparison.

## The runs

| Run | Instance | States | Shows |
| --- | --- | --- | --- |
| `worklist_safety` | 3 workers (symmetric), 3 targets on a host with a budget of one and on no host, 2 tiers, `Close` and cancellation | 1.35 million | counters, budget, wakeups, quiescence, barrier |
| `worklist_live` | 2 workers, 2 targets, 2 tiers, fairness | 67 thousand | nothing starves, everyone leaves, `TierQueue` is implemented |
| `scan` | 2 workers, pages p and q, a check that discovers q again, a two-phase check, failing fetches, cancellation, 3 tiers | 108 thousand | the scan-wide properties and `ObeysWorklist` |
| `crawl` | 2 workers, 2 API documents, 5 URLs, a depth cap of one, a page cap of three | 53 thousand | the crawl's properties |
| `http` | 3 calls on 2 hosts, budget 2, one retry, one redirect, period 2, one token | 700 thousand | the client's properties |
| `pipeline` | 2 runs, up to 2 findings each of 4 kinds, capacity 1, cancellation, write and check errors | 207 thousand | the report, the diff, the gate, termination |
| `runtime` | a run, a plant and the drain of one check; one connection, one slot, two machines, one canary | 274 thousand | machines, resources, callbacks, deadlines |
| `services` | three detections of one host; three requests through scraped and given proxies; set-ups from 8 command lines, 25 files and 2 builds with one thing broken; each step that looks at options refuses some | 1.67 million | the set-up, the clean-up, grounded verdicts, honest counters, `OnceCell` is implemented |
| `checks` | pages of up to 4 tokens, 3 larger ones, 25 API descriptions; the checks of thirteen modules, on one to four pages each, against 4 to 96 servers, 4,117 pages that echo an input and 1,643 with forms | 1.31 million | documents are read whole, probes keep their bounds, reports have grounds, flaws are found |
| `crawl_panic`, `page_panic`, `corpus_hang` | the instances above, or variants of them | up to the counterexample | a disagreement each, see below |

`services` and `checks` hold components that share nothing: a behaviour is an
episode of one of them (`episode`) while the others stay as they began, so their
states add up and do not multiply.

What `checks` asks is one conjunct per check of a few properties. Each is stated
beside the check, with the conditions under which it holds, which are as much a
result as the property (see [below](#what-the-models-say-of-the-checks)).

- `ProbesKeepBounds`: no target is burst twice, no input planted twice, no host
  swept twice, no token probed from two pages, the corpus keeps its caps, nothing
  is sent out of scope, no visitor of the site is served a canary out of a cache.
- `ReportsHaveGrounds` and `FindingsAreEarned`: a report is true of the server,
  whatever requests fail, whatever is slow, and whatever other runs do. The first is
  of the five checks that compare answers with one another (race-condition,
  stored-xss, idor, content-discovery, the well-known documents) and is proved
  below; the second of those that judge by time, by the honesty of what stands
  behind a host, or by what a browser makes of a text.
- `FlawsAreFound`: a run that nothing disturbed reports what the server has and
  the check can see; and no run says "nothing there" that lost an answer. With
  `FindingsAreEarned` it is the invariant `VerdictsAreRight`.

Why the bounds are enough to be interesting:

- *Worklist.* Two tiers give a barrier, three workers give one in flight, one
  asleep and one arriving, which is what a lost wakeup needs; two targets of one
  host against a budget of one reach the limit from two pushers; the third,
  without a host, is never counted. The code's five tiers are `NumTiers`, and
  the theorems hold for any number.
- *Scan.* Three tiers stand for the first, a middle and the last band; p and q
  can be delivered before or after the queue goes quiet; `qf` is a second target
  with the key of q, which is what makes source and worker meet in the cache.
- *Crawl.* Two documents (one well-known and submitted by the main goroutine,
  one reached by a page) and two workers are the least that let one wait while
  the other submits. The cap of three pages lies below the four URLs in scope,
  so a crawl may or may not hit it. The claim's run lifts the cap.
- *Http.* Two mutating calls meet in the one fetch of the token, one that can
  carry a form field and one that cannot; three calls meet at a budget of two with
  a retry, and a period of two leaves one call unprobed. `MaxHops` bounds the
  redirects that one request follows (ten in net/http). One call ends by the
  client's timeout alone, one by either, one by nothing but its context.
- *Pipeline.* Two issues, one of them with either of two severities, and a
  finding without a key; two findings per run give a duplicate, a change of
  severity, or one resolved and one new row. `MaxEmit` bounds the findings of a
  run, `Rounds` the runs.
- *Runtime.* Everything shared exists once, so two dispatches and the drain meet
  in it; the second machine lets two run at the same time. `MaxOps` bounds what a
  script does and `MaxHits` how often a canary is followed.
- *Services.* Three callers of one host: the one that detects, one that waits
  for it, one that comes after. Three requests are the least in which one scores
  while two record. The command lines and files were picked so that each key that
  the code treats in its own way is set by two layers. `Probes` bounds the
  fallback probes.
- *Checks.* Two pages are what the shared facts of a check need; a page out of
  scope is added where the check tests the scope itself. The servers are the
  least sets in which every branch of the oracles is taken, with the ones that
  come close to a flaw without having it. `Conns`, `TargetsPerPage`, `ParamCap`,
  `PatternCap`, `ShapeCap`, `SinksPerPage` and `ForgeryLimit` are caps of the
  code, made small enough to be reached; `Stalls`, `LostAnswers`, `SlowRequests`,
  `LostRequests`, `PolicyLosses`, `AuditLosses`, `ReflectionLosses` bound the
  disturbances, `Expiries` and
  `Rotations` what the outside does by itself.

Deadlock checking is off throughout, because each system stops: the workers
exit, the crawl closes, the calls return, the last run ends. That none stops
early is what the liveness properties state: `WorkersExit`,
`EveryPushDispatched`, `ScanReturnsAtLast`, `CrawlEnds`, `EveryRequestEnds`,
`RunEnds`, `EveryDispatchReturns`.

**Fairness.** Weak fairness of a goroutine's next step says that the Go
scheduler runs it. The mutex is not held across a step, so a worker that wants
it gets it. Beyond that:

- `Done`, `SourceDone` and the return of a check have strong fairness. A push
  that is refused may be repeated any number of times in the model and disables
  them for a moment each time; in the code a check pushes finitely often and has
  a deadline (`checkBudget`), and the crawl is finite.
- `Main` of the pipeline reads its channel until it is closed, and the feeder
  and the scanner end; the latter is what `CrawlEnds` and `ScanReturnsAtLast`
  say of them.
- A send of `Do`, a probe and the fetch of the token end within the client's
  timeout (`--timeout 0` would take it away), a sleep within its cap, and a host's
  limiter lets everybody through as long as its rate is positive; that it stays
  positive is what the floor of `Penalize` is for, and `EveryRequestEnds` fails
  without it. A send of `DoNoFollow` has no timeout of its own
  (`httpclient/client.go:225`): it ends when the server answers, of which nothing
  is assumed, or with its context (`Prompt`). A context with a deadline ends at
  last (`Expire` of the `Deadlined`), and `EveryRequestEnds` promises nothing of a
  call that has neither.
- That is the crawler's form post (`crawler/crawler.go:435`): `DoNoFollow` under
  the context of the run. `CrawlEnds` takes it that the server answers it or closes
  the connection; a server that does neither holds the crawl, and with it
  `ScanReturnsAtLast` and `RunEnds`, until the run is cancelled.
- Apart from deadlines a context ends by itself in no fairness condition: no
  property relies on a cancellation.
- Of a script nothing is assumed, except that a drain, which has no deadline,
  walks through its canaries and returns (`LuaRunner`). That the deadline goes
  off, and that what blocks returns once its context has ended, is what makes
  `EveryDispatchReturns` hold.
- `services` and `checks` state no liveness; `corpus_hang` assumes that the pages
  it runs on go on by themselves.

Every property of a passing run has mutants of the code, kept next to the
definitions they change, that TLC finds to violate it: a forgotten signal or
broadcast, a counter that is not raised or lowered, a limit off by one, a drain
that looks at the queue and not at the work in flight, a retry that does not
pay, a machine put back after a fault, a claim made per page, a confirmation
sent to the same address, a canary looked for anywhere, a directive whose last
occurrence wins.

## The proofs

The theorems hold for every value of the constants that the named assumption of
the module allows: any finite number of workers, any set of targets, URLs,
requests, dispatches or findings, any site, any caps. TLC evaluates the
assumptions on every run, and each invariant below was checked by TLC as an
invariant of the instance before it was proved.

| Module | Theorem | Says |
| --- | --- | --- |
| `WorklistProofs` | `TypeCorrect` | every variable has its type; a counter is never negative |
| | `CountersAreExact` | `pendingByTier[n]` is the queued plus the held targets of tier n |
| | `BarrierHolds` | a worker is handed a target only when all lower tiers are idle |
| | `BudgetHolds` | a host never has more unique keys than its budget |
| | `NoPrematureExit` | whoever leaves an unstopped scan leaves nothing behind |
| | `NoLostWakeup` | while somebody sleeps, every dispatchable target has an awake worker coming |
| | `KeepsPromise` | every step is a step of `TierQueue`, or one it does not see |
| `ScannerProofs` | `ScanTypeCorrect` | types, the queue's included |
| | `ScanObeysWorklist` | a scan is a client the queue was built for |
| | `EveryTargetIsWalked` | a scan that ends by itself took every accepted target through every tier |
| | `NothingIsLeftOver` | nothing unreceived, nobody who could send, and no page cached at the end |
| | `BarrierCovers` | detection on any target comes after all lower tiers of all accepted ones |
| | `ScanKeepsPromise` | a scan as a whole implements `TierQueue` |
| `CrawlerProofs` | `CrawlerTypeCorrect` | types; the counters do not go below zero |
| | `QuiescenceHolds` | both counters are exact, a closed channel has no sender left |
| | `EmissionHolds` | one page per URL, no more than the cap |
| | `EveryLinkIsWalked` | a crawl that ends uncapped and uncancelled has been everywhere |
| | `SpecOpsRide` | a page carries the operations of the documents in flight when it began to wait |
| `HttpClientProofs` | `ClientTypeCorrect` | types |
| | `BudgetHolds` | no interleaving of looks and claims passes the budget; the wire stays within it, its redirects and the probes |
| | `MutationsHold` | a mutation is attempted once, and leaves with its token if it can carry it |
| | `SessionHolds` | one probe for each period of requests |
| | `NoHostStalls` | a host's rate stays positive |
| `PipelineProofs` | `PipelineTypeCorrect` | types; the channels keep their capacity |
| | `KnownDebtHolds` | what the previous report lists is not reported as new |
| | `GateHolds` | exit codes 0 and 1 tell the truth about the report |
| | `ReportExact` | a written report has everything once, in order, with its status |
| `LuaRunnerProofs` | `RunnerTypeCorrect` | types, those of listener and browser included |
| | `MachinesHold` | no machine in two hands, no torn one used again |
| | `NothingIsHeld` | nothing held by a dispatch at rest |
| | `CanariesAreReported` | each canary contacted in time is reported by its drain |
| `ServiceProofs` | `DetectorImplements` | the detector implements `OnceCell` |
| | `VerdictsHold` | a check is kept away only for what some response said |
| | `PoolHolds` | the counters agree with what happened, a choice by merit is right |
| | `NothingWasted` | output, listener and browser are opened on good options only, and closed |
| | `OptionsAreInherited` | each option has the value of its strongest source, each setting of a check is the profile's or else the file's, and the checks enabled are those asked for |
| `ProbeProofs` | `ProbesKeepTheirBounds` | none of nine checks bursts, plants, judges or sweeps from two pages, leaves the scope, outgrows its corpus, poisons a cache or walks past what it found |
| | `ReportsHaveTheirGrounds` | what five checks report is so of the server behind the page |

What the assumptions ask, beyond types: there is at least one worker in a scan
and in a crawl (`New` takes none to mean eight); only two-phase checks discover
at the last tier, as of the scripts only `stored_xss.lua` does; each check has
one drain, since `runOOBDrain` walks the checks once; a rate and its floor are
positive (`--rate 0` is not checked by the command line, and `NoHostStalls` is
false of it); a version is a sequence of numbers. Of the checks: a burst has
finitely many connections and a host finitely many pages; the caps of the corpus
are positive; no well-known path is listed twice; no page of the site under
cache-poisoning has the path of another with the suffix appended; and the server
behind an identifier is one of the six the model has (`AppAssumption`). Of the
configuration, that no flag is filed where the settings of the checks are, and
that the path of the file and the profile are not read from the file
(`TableAssumption`): a fact about the table of flags, which has no parameter and
which TLC decides.

**Worklist.** The invariant `Outstanding` is the type invariant,
`PendingIsOutstanding`, and two facts without which neither is inductive: a
worker has a job exactly while it is at work (`WorkingHoldsJob`; otherwise `Done`
could lower a counter nobody raised) and a push past its context check belongs
to an actor that may push (`PushersActive`; otherwise a worker could finish with
a push half done). There is one lemma per group of actions, and counting is
reduced to two lemmas about adding and removing one worker from a finite set.
The barrier follows from `Outstanding` and the guard of `PopTake`: a counter of
zero means an empty queue and nobody at work. The budget has an invariant of its
own, `HostCountIsUnique`: the counter of a host is the number of its keys
accepted at some tier. Quiescence (`NoPrematureExit`) holds because a worker
exits only when all counters are zero and the source is done, and then
`PushersActive` leaves nobody who could push. `NoLostWakeup` uses that at most
one tier is open at a time (`OneOpenTier`): a `Done` that opens another wakes
everybody, a `Push` that adds one target wakes one. The refinement needs
`QueuedOnce`, that what is queued at a tier was accepted there and stands in its
queue once, so that the sequence of the code and the set of the promise lose the
same element.

**Scanner.** Every step of a scan is a step of `Worklist` or leaves its variables
alone, which gives `ScanObeysWorklist` and, by citing their proofs, the queue's
invariants inside a scan. `ScanInv` adds where a worker's stage and its place in
the queue agree (`WorkersAligned`, `SourceAligned`), and three accounts. *Walking*:
an accepted key has been scanned at every tier from its own to any later one, or
is on its way there: queued, held, advancing, pushed or failed at a tier between.
*Cached*: every page in the cache has someone who will evict it. *Flushed* and
*Ended*: what a check found is in its hands, in the channel or received, and a
scan that has returned has no worker and no check. `BarrierCovers` is the barrier
of the queue together with *Walking*: nothing is queued, held or advancing below,
so "on its way" can only mean "has been". The assumption on discoveries keeps
targets from being accepted at the last tier of a scan that has no two-phase
check and does not walk so far.

**Crawler.** A URL that was accepted is in one place (`Shape`, `Once`): on the
channel, in the hands of one goroutine, or past its page. `Counting` says that
the two counters are the sizes of the sets so described, and that the channel is
closed only at zero. `Covered` follows an operation of an API document from the
moment a page begins to wait for it, `Walked` what a URL leads to: it is visited,
or still to be submitted by the goroutine that is at the URL. A step is first
classified (`NextKinds`: it submits, proceeds through `process`, or ends an item),
so that each part of the invariant treats a handful of kinds and not twenty
actions.

**HttpClient.** Four accounts. *Slots*: attempts sent, plus the requests between
the budget and the wire, are never more than was paid for. *Wires*: what reached
the transport, plus what the probes begun may still send, is at most what the
attempts, the probes and the one fetch come to with their redirects. *Attempts*: a
request before its send has been sent at most as often as it was retried, and one
that may not be retried stays at attempt nought. *Watch*: each request past the
sentinel has been counted, and probes are the multiples of the period.

**Pipeline.** What Diff has taken out of its index has been seen by Dedupe and
cannot come past Diff again (`Single`, `Indexed`, `Judged`). For the gate: a stage
closes its channel only after the one before it is drained (`Closing`), so nothing
is behind Tap when the reporter returns, and what Tap keeps is the worst of the
rows beyond it (`Weighed`). For the report (`Reported`): the rows written and
those in the last two channels are one line (`Line`), and a step of a stage does
one thing to it, whatever the others do meanwhile. There is a sequence `at` of the
positions that Dedupe has kept so far (`Picked`); the last of them wait before
Diff, the others have their rows at the front of the line (`Placed`); what follows
in the line did not come back, in the order of keys, and what is left of the
baseline is what no row is about (`Settled`). Diff asks whether a key is *left* in
the baseline, the report promises whether it *was* there: the two agree because
no row in line has the key of one that was kept later (`KeptApart`). That the next
baseline has one entry for each key, on which the order of what did not come back
rests, follows from the exactness of the report it was read from (`OneRowPerKey`),
so one invariant carries both through any number of runs.

**LuaRunner.** A machine is in one place: with a dispatch under way, idle in one
pool, or torn (`Machines`). `Hands` is what a dispatch may hold at each stage.
`Accounted` follows a canary that was contacted in time: reported, still in the
part of the drain's list that is ahead, or its drain has failed or is to come.

**ServiceProofs.** `DetectInv` says that a host has one filler at most and none
once its cell is full (`OneFiller`), and that what is known of a host, some
response said (`StackIsSaid`); the verdicts follow from it and from the comparison
of versions being decided by the first place where two differ. `PoolInv` has, per
request, where its search stands: the best so far is beaten by no entry that it
has passed, as long as no counter has moved (`Merit`); and per proxy the tally of
requests that went through it, with an outcome or one to be recorded (`Tally`).
The theorems on induction of the library take a predicate as an argument, which
the provers cannot instantiate. `Induction` and `Iteration` have a set and a
function instead, from the well-foundedness of the naturals, and with them what
the rules make of a response and what is left of merged lists is proved for
responses and lists of any length. `SetupInv` says of each stage of the set-up
what lies behind it, which was found good (`FoundGood`), and what is ahead, which
has left no trace (`Untouched`); so what was opened was opened on good options, the
output on those that come before it and the listener and the browser on all
(`WellSpent`), and a report that was emptied is still held by somebody who will
fill it, or the exit code is 2 (`Emptied`). It is carried over a step by what the
step is: one that fails, goes ahead, opens something, or cleans up. The options
are set by one step and not touched again (`OptionsInv`, `GivenBy`); what they are
is a matter of layers, the command line over the profile over the file over the
defaults, of which `MergeIsLayered` says what a merged file holds for a key,
`MergedBags` the same of the settings of a check, and `EnabledAre` which modules
pass the level, the switches and the patterns.

**ProbeProofs.** A step of a behaviour is one of the check it is about and leaves
the state of the others alone (`StepIsOfOneProbe`), so each check has an invariant
of its own, for any pages. Where a check claims something in a shared set, its
invariant says who holds the claim: a target is in `taken` before a run bursts it
and is in one run's hands (`RaceInv`), and so are an input (`StoredInv`), a root
(`SweepInv`) and a token (`TokenInv`). `RaceInv` also has what a run holds at each
stage of the barrier, that a last byte goes only when every connection was
counted. The hosts of subdomain-takeover have no claim, two pages may ask at once;
there the invariant counts the chances each page has had (`TakeoverInv`). `KnownInv`
follows the place of a walk: what is before it was asked or out of scope, and was
not recognised unless the answer was lost. `CacheInv` says of every entry of the
cache (`Harmless`) that under a page's own key it shows only what the pages show
anyway, as long as the cache tells queries apart, and that under a suffixed path it
is there for a page that may be asked for so; a probe's key is never a page's,
since no page has the path of another with the suffix. `IsCorpus` says that a ring
holds no value twice, that counts and names of a shape go together, and that what
is learned was counted often enough; counts only grow. What a fold makes of a list
(the sinks in scope, a page that is ingested) is proved for lists of any length
from `Induction` and from a set of naturals having a greatest member, which is
where a fold begins.

`GroundsInv` adds to these what a run remembers of the answers it has had. For
race-condition (`RaceTrue`): a target that is burst was served alone before, so
the answers to a burst are all the one of a steady resource or all the one of a
spent shot, unless the resource races; two that differ leave only that. For stored-xss (`StoredTrue`): a claim, held
by a run or reported, is of an input on the page looked at that has a payload
intact, it is marked in `detectFired`, and no two are of one input; the mark is
what keeps two runs apart. For idor (`IdTrue`): whatever a run has gathered to
report is of an application that does not enforce ownership, and above low
confidence names a record of somebody else (`Exposed`); which verdicts an
application can give a value, its control and its neighbour follows from its kind
(`AppAssumption`). For content-discovery (`SweepTrue`):
the baseline of a sweep is made of answers of the site to missing paths, so where
these are alike, what does not look like a miss is not one. For the documents
(`KnownTrue`): what a walk has found, and what it left for later pages, is a
document on offer at the host, so what is read out of it is too.

Only model-checked, and why:

- Everything under fairness (`WorkersExit`, `EveryPushDispatched`,
  `ScanReturnsAtLast`, `CrawlEnds`, `EveryRequestEnds`, `RunEnds`,
  `EveryDispatchReturns`, and the fairness of `TierQueue` in
  `ImplementsTierQueue`): the prover has no rule for fairness or ENABLED.
- `StartsAsAsked`, that cookies stay with their hosts and the scope admits the
  targets and nobody else by default: it compares what texts stand for (hosts,
  labels, lines of a jar) after folds over the seeds; the options it starts from
  are proved (`OptionsAreInherited`).
- `PagesAreProbedWhole` (`PagesAreReadWhole` and `EveryInputIsProbed`): it compares
  readers that go through a page token by token with what the page says.
- `VerdictsAreRight`. Of `FindingsAreEarned`, framing, content policies, reflected
  input and forms are oracles on data, that is, one recursive reading compared
  with another; the forgeries of jwt-vulns go through a selection from a list, of
  which the provers see nothing; takeover and cache-poisoning hold under the
  honesty of what stands behind a host, and the blind checks compare lengths
  summed over a body. Of `FlawsAreFound`, that nothing disturbed a run is a
  statement about all of its history, for thirteen checks with a history each.

## Where the code and its documents disagree

Each is a run that TLC ends with a counterexample.

1. `crawl_panic`. "out is closed when crawling completes or ctx is canceled"
   (`crawler/crawler.go:90`). `submit` raises `specsInFlight` from zero while a
   released waiter has not yet returned from `Wait`: `sync.WaitGroup` panics.
2. `page_panic`. `selectIdx` "points into current.Inputs at the active
   &lt;select&gt;'s FormInput" (`crawler/extract.go:59`). A form that opens inside
   another starts a new list of inputs and keeps the index: the next option
   panics, in a goroutine that nothing recovers, or goes to another control.
3. `corpus_hang`. "Generate may return fewer than want"
   (`lua_engine/checks/access/idor_patterns.go:20`). A learned shape that has
   fewer renderings than asked for is rendered for ever.

Others, which the models carry as conditions of their properties and which no
run of its own shows:

- The barrier between planting and detecting (`scanner/scanner.go:220`) covers
  the targets accepted so far (`BarrierCoversAccepted`), not those a slow crawler
  delivers after the queue went quiet.
- A worker that evicts a page in order to fetch it afresh (`scanner.go:234`) may
  find the crawler's copy again, stored by the source in between.
- `--max-requests` (`README.md:357`) bounds attempts (`BudgetIsHard`); probes of
  the sentinel, the fetch of the token and redirects come on top. "A middleware
  that fires its own internal request ... participates in the same limits"
  (`httpclient/middleware.go:10`): those of the program go out through
  `ProbeClient`, which knows no limit.
- A call of `DoNoFollow` is to bring its own deadline
  (`httpclient/client.go:230`); the crawler's form posts have none
  (`crawler/crawler.go:435`).
- The last flush of the output and its close come after the exit code is decided
  and their errors are dropped (`cli/io.go:158`; `README.md:389` promises exit
  code 2). A signal that reaches the feeder makes the code 2 and not 130.
- Rows with the status "resolved" are read back as findings of a baseline
  (`report/baseline.go:369`), and a cancelled run writes such rows for all it did
  not reach (`report/diff.go:95`).
- Positional URLs (`cli/scan.go:157`) are overwritten by a `url:` of the file,
  although flags are said to win (`scan.go:341`); `--profile` without `--config` is
  ignored; opening the output truncates the previous report before later steps
  can fail: `NothingIsWasted` has what is known by then, and the exit code.
- A deadline that the engine planned for is counted as an error of the check by
  the two-phase dispatch (`lua_engine/two_phase.go:56`) and not by a plain run.
- A numeric `example` in an API description drops the whole description, and
  `/users/{id}` and `/users/1` hide each other (`crawler/openapi.go`).

## What the models say of the checks

The conditions in the properties of `checks` are the places where a verdict
depends on more than the server.

- *race-condition*: a connection that fails after all others have reported holds
  the barrier until its timeout; the baseline request spends a one-shot resource.
- *request-smuggling*: the TE.CL probe also hangs where both ends go by length; a
  baseline without a sample is cached as clean for the scan.
- *stored-xss*: the token is recorded after the answer, so a payload whose answer
  is lost is shown by the site and known to nobody; an input is marked as
  reported before the run returns its finding.
- *idor*: values of a learned shape are not compared with each other.
- *jwt-vulns*: an empty secret makes two of the `kid` forgeries pass where `kid` is
  not read; a token is taken by the first page that shows it, also when that page
  cannot tell a forgery from the token; a third key is not reached under the cap.
- *subdomain-takeover*: two runs may both look, and the later verdict, a failure
  included, is kept; the root of a host is asked twice by one run.
- *content-discovery*: answers 401 and 403 are not compared with the baseline, a
  redirect without a Location is no miss, and the claim on a host is taken before
  its baseline is known to be readable.
- *cache-poisoning*: the headers that rewrite a path are judged by a probe with
  the extra parameter against a page without it; the deception probe has no
  parameter of its own; where a cache leaves queries out of its key, the page
  itself is poisoned, later baselines hold the canary, and two headers that share
  a canary are taken for each other; bodies of one length must be equal, and
  short ones are compared by their beginning alone.
- *sqli-boolean* has no second look, so a page that changes by itself is
  reported; *cmd-injection-blind* reports a page that shows its input and reads
  like an error of a shell; a callback after the drain is lost.
- *csp-weak*, *csp-bypass*: of several policies the first is judged, though a
  browser enforces all; 'strict-dynamic' does not keep a listed host, or
  'unsafe-inline', from being reported; ports and paths are cut off; "*.h" is
  taken to include h; a nonce in default-src is not compared; a base of "data:"
  counts as permissive.
- *openapi-audit*, *oauth-discovery*: pages of a host that begin together all walk
  the paths, though "at most once per scan" is said (`openapi_audit.go:58`); a walk
  that failed or was cancelled is remembered as "no document", also over one that
  another page has found; an operation with an empty alternative beside another
  counts as secured, TRACE is not looked at, and the operations of a YAML document
  are not audited; "code id_token" is not flagged, though the comment in
  `implicit_flow_types` says so (`oauth_discovery.lua:80`).
- *reflected-xss*: an input inside the tag of a script, or directly behind a
  backslash in a string of one, is not seen at all ("returns every match",
  `reflection.go:86`); quotation marks that delimit nothing, comments in scripts,
  text areas and a comment that begins with the input are misread; the type of the
  answer is not looked at; at the aggressive level a payload that comes back whole
  is reported wherever it stands.
- *form-action-insecure*: a form that opens inside another counts, though the
  comment says it is ignored (`form_action_insecure.go:78`), and takes the fields
  that follow; each base counts for what follows it, in a browser the first for the
  whole page; a button without a method of its own is said to use GET
  (`form_action_insecure.go:306` has it override the form's "when present"); fields
  and buttons that name their form from outside, buttons of an unknown type and
  fragments below an http base are missed; the first form with a target decides
  how severe it is.

Hazards that the list in `PROJECT.json` has no room for: a finding's severity is
that of the first with its key (`report/report.go:164`); a URL keeps the depth at
which it was first reached (`crawler/crawler.go:182`); `--rate 0` lets nothing
through after the burst (`httpclient/limiter.go:20`); the one fetch of the CSRF
token runs under the context of the first caller (`httpclient/csrf.go:99`); the
clean-up of a detached request cannot run after a cancellation
(`lua_engine/api_client.go:372`); a cancelled or failed look for a document is kept
for the host as its absence (`openapi/openapi_audit.go:134`).

## What is not modelled

- *`robots.go` and `sitemap.go`*: nothing of the program calls them.
- *Layouts* (`report/pdf.go`, the text and HTML reports): functions of a list of
  findings, which `Pipeline` has.
- *Checks of a single page* (`hsts-weak`, `sqli-error`, `ssti`, TLS audit
  and others): payloads and patterns matched on one response, without
  state and without an order between steps. To the scanner each is an opaque
  member of `Checks`.
- *The interpreter of Lua, YAML, the tokenizer of HTML, the public suffix list,
  the headless browser itself*: external.
- *Bindings that convert values*: `lua_engine/api_*.go` beyond those that keep
  state or hold a resource.
- *Texts*: payloads, error patterns, catalogues of paths and providers, messages.
- *Time*: deadlines, rates and back-off are choices that may be made at any
  moment, except in `FramingProbe` and `BlindProbe`, where how long an answer
  takes is the evidence and is counted in halves or tenths of a second.

## The plan

Done: the work queue; outwards from it scanner, crawler, client and pipeline; the
shared objects that checks use; the set-up; documents; the checks that keep
state; proofs for all of the concurrent core, of the options, of the bounds of the
probes and of what five of them report. Next:

1. *Proofs.* Of the probes, what remains of `FindingsAreEarned`, beginning with
   `TakeoverProbe` and `BlindProbe`, whose verdict is one comparison, and
   `FlawsAreFound` of the five whose reports have their grounds; of the documents,
   `EveryInputIsProbed`.
2. *Composition*: the crawler feeding the scanner through `pages`, so that the
   fairness assumed of the one is shown of the other.
