------------------------------- MODULE Pipeline -------------------------------
(***************************************************************************)
(* From the scanner's findings to the exit code: runScan (internal/cli/      *)
(* scan.go), Dedupe, Diff and Tap (internal/report), a reporter, and the     *)
(* baseline that the next run reads from the report of this one.             *)
(*                                                                          *)
(* A run: the feeder (the crawl, or the seeds) and the scanner work on       *)
(* goroutines of their own; what the scanner emits goes through three        *)
(* goroutines joined by channels, and the main goroutine is the reporter     *)
(* that drains the last of them.  When it returns, the main goroutine waits  *)
(* for the scanner and the feeder and decides the exit code.  A signal may   *)
(* cancel the run at any moment, a write may fail, a check may fail.         *)
(*                                                                          *)
(* The next run has the last whole report as its baseline.  Of a finding,    *)
(* the key and the rank of the severity are left; key 0 is no key.           *)
(***************************************************************************)
EXTENDS Integers, Sequences, FiniteSets, SequencesExt

CONSTANTS
  Findings,   \* what a check may find
  Cap,        \* the capacity of every channel
  MaxEmit,    \* bounds the findings of a run
  Rounds,     \* bounds the runs
  Gate,       \* --fail-on is not "none"
  FailOn      \* the rank it names

NoKey == 0

ASSUME PipelineAssumption ==
  /\ Findings \subseteq [key : Nat, sev : Nat]
  /\ {Cap, Rounds} \subseteq Nat \ {0} /\ MaxEmit \in Nat
  /\ Gate \in BOOLEAN /\ FailOn \in Nat

VARIABLES
  round,
  baseline,   \* the findings of the baseline, empty in the first round
  previous,   \* the rows of the report it was read from
  ctxDone,    \* the run has been cancelled
  feed,       \* the feeder: "running", then what it returned
  scan,       \* ScanAll: "running", then what it returned
  checkErrs,  \* checkErrors > 0
  emitted,    \* the findings the scanner has sent, in order
  chan,       \* the contents of the channels; of "findings", with the findings
              \* whose senders are blocked on it
  open,       \* the channels not yet closed
  seen,       \* Dedupe.seen
  remaining,  \* Diff.remaining
  counts,     \* DiffCounts
  worst,      \* worstSev
  report,     \* the rows the reporter has written
  broken,     \* a streaming reporter's writeErr
  write,      \* rep.Write: "running", then what it returned
  exit,       \* the exit code
  whole       \* the output file holds the whole report

scanVars == <<feed, scan, checkErrs, emitted>>
stageVars == <<seen, remaining, counts, worst>>
reportVars == <<report, broken, write>>
roundVars == <<round, baseline, previous, exit, whole>>
vars == <<roundVars, ctxDone, scanVars, chan, open, stageVars, reportVars>>

Channels == {"findings", "deduped", "diffed", "gated"}
Statuses == {"", "new", "persisting", "resolved"}
Rows == [key : Nat, sev : Nat, status : Statuses]

exitOK == 0
exitFindings == 1
exitScanError == 2
exitCanceled == 130
Undecided == -1

TypeOK ==
  /\ round \in 1..Rounds
  /\ baseline \subseteq Findings /\ previous \in Seq(Rows)
  /\ ctxDone \in BOOLEAN /\ checkErrs \in BOOLEAN /\ broken \in BOOLEAN
  /\ whole \in BOOLEAN
  /\ {feed, scan, write} \subseteq {"running", "ok", "err"}
  /\ emitted \in Seq(Findings) /\ Len(emitted) <= MaxEmit
  /\ \A c \in Channels : chan[c] \in Seq(Rows)
  /\ \A c \in Channels \ {"findings"} : Len(chan[c]) <= Cap
  /\ open \subseteq Channels
  /\ seen \subseteq Nat \ {NoKey}
  /\ remaining \subseteq baseline
  /\ counts \in [{"new", "persisting", "resolved"} -> Nat]
  /\ worst \in Nat \cup {-1}
  /\ report \in Seq(Rows)
  /\ exit \in {Undecided, exitOK, exitFindings, exitScanError, exitCanceled}

Row(f, s) == [key |-> f.key, sev |-> f.sev, status |-> s]
Keys(fs) == {f.key : f \in fs}
FindingsOf(rows) == {[key |-> r.key, sev |-> r.sev] : r \in Range(rows)}

\* The state in which a run against the baseline b begins.
StartRun(b) ==
  /\ baseline' = b /\ ctxDone' = FALSE
  /\ feed' = "running" /\ scan' = "running" /\ checkErrs' = FALSE
  /\ emitted' = <<>>
  /\ chan' = [c \in Channels |-> <<>>] /\ open' = Channels
  /\ seen' = {} /\ remaining' = b
  /\ counts' = [s \in {"new", "persisting", "resolved"} |-> 0]
  /\ worst' = -1
  /\ report' = <<>> /\ broken' = FALSE /\ write' = "running"
  /\ exit' = Undecided /\ whole' = FALSE

Init ==
  /\ round = 1 /\ previous = <<>>
  /\ baseline = {} /\ ctxDone = FALSE
  /\ feed = "running" /\ scan = "running" /\ checkErrs = FALSE
  /\ emitted = <<>>
  /\ chan = [c \in Channels |-> <<>>] /\ open = Channels
  /\ seen = {} /\ remaining = {}
  /\ counts = [s \in {"new", "persisting", "resolved"} |-> 0]
  /\ worst = -1
  /\ report = <<>> /\ broken = FALSE /\ write = "running"
  /\ exit = Undecided /\ whole = FALSE

-----------------------------------------------------------------------------
(* The feeder and the scanner.                                              *)

Cancel ==
  /\ exit = Undecided /\ ~ctxDone
  /\ ctxDone' = TRUE
  /\ UNCHANGED <<roundVars, scanVars, chan, open, stageVars, reportVars>>

\* The crawl returns the context's error whenever the context has ended; the
\* seeds do unless all of them were taken before.
FeedEnds ==
  /\ feed = "running"
  /\ \/ feed' = "ok"
     \/ ctxDone /\ feed' = "err"
  /\ UNCHANGED <<roundVars, ctxDone, scan, checkErrs, emitted, chan, open,
                 stageVars, reportVars>>

Emit(f) ==
  /\ scan = "running" /\ Len(emitted) < MaxEmit
  /\ emitted' = Append(emitted, f)
  /\ chan' = [chan EXCEPT !["findings"] = Append(@, Row(f, ""))]
  /\ UNCHANGED <<roundVars, ctxDone, feed, scan, checkErrs, open, stageVars,
                 reportVars>>

\* A check that fails for a reason other than the budget or the context.
CheckFails ==
  /\ scan = "running" /\ ~checkErrs
  /\ checkErrs' = TRUE
  /\ UNCHANGED <<roundVars, ctxDone, feed, scan, emitted, chan, open, stageVars,
                 reportVars>>

ScanEnds ==
  /\ scan = "running" /\ Len(chan["findings"]) <= Cap
  /\ feed # "running" \/ ctxDone
  /\ scan' = IF ctxDone THEN "err" ELSE "ok"
  /\ open' = open \ {"findings"}
  /\ UNCHANGED <<roundVars, ctxDone, feed, checkErrs, emitted, chan, stageVars,
                 reportVars>>

-----------------------------------------------------------------------------
(* The three stages.  A stage that holds a finding until there is room for   *)
(* it and one that leaves it where it is until then differ in nothing.       *)

Pass(from, to, r) ==
  /\ Len(chan[to]) < Cap
  /\ chan' = [chan EXCEPT ![from] = Tail(@), ![to] = Append(@, r)]

Drained(c) == c \notin open /\ chan[c] = <<>>

Close(from, to) ==
  /\ Drained(from) /\ to \in open
  /\ open' = open \ {to}
  /\ UNCHANGED <<roundVars, ctxDone, scanVars, chan, stageVars, reportVars>>

\* Mutant: the key is looked up and never put down.
DedupeForgetful ==
  /\ chan["findings"] # <<>>
  /\ LET r == Head(chan["findings"])
     IN IF r.key \in seen
        THEN chan' = [chan EXCEPT !["findings"] = Tail(@)]
        ELSE Pass("findings", "deduped", r)
  /\ UNCHANGED <<roundVars, ctxDone, scanVars, open, stageVars, reportVars>>

Dedupe ==
  /\ chan["findings"] # <<>>
  /\ LET r == Head(chan["findings"])
     IN IF r.key \in seen
        THEN /\ chan' = [chan EXCEPT !["findings"] = Tail(@)]
             /\ UNCHANGED seen
        ELSE /\ Pass("findings", "deduped", r)
             /\ seen' = seen \cup ({r.key} \ {NoKey})
  /\ UNCHANGED <<roundVars, ctxDone, scanVars, open, remaining, counts, worst,
                 reportVars>>

\* There is a baseline, hence a diff, from the second round on.
Diffing == round > 1

Status(r) == IF r.key \in Keys(remaining) THEN "persisting" ELSE "new"

Diff ==
  /\ Diffing /\ chan["deduped"] # <<>>
  /\ LET r == Head(chan["deduped"])
     IN /\ Pass("deduped", "diffed", [r EXCEPT !.status = Status(r)])
        /\ counts' = [counts EXCEPT ![Status(r)] = @ + 1]
        /\ remaining' = {b \in remaining : b.key # r.key}
  /\ UNCHANGED <<roundVars, ctxDone, scanVars, open, seen, worst, reportVars>>

\* The baseline entries that this run did not reproduce, in the order of keys.
Resolve ==
  /\ Diffing /\ Drained("deduped")
  /\ Len(chan["diffed"]) < Cap
  /\ \E b \in remaining :
       /\ \A c \in remaining : b.key <= c.key
       /\ chan' = [chan EXCEPT !["diffed"] = Append(@, Row(b, "resolved"))]
       /\ remaining' = remaining \ {b}
  /\ counts' = [counts EXCEPT !["resolved"] = @ + 1]
  /\ UNCHANGED <<roundVars, ctxDone, scanVars, open, seen, worst, reportVars>>

\* The channel that the gate's Tap observes.
reportCh == IF Diffing THEN "diffed" ELSE "deduped"

\* Mutant: with a baseline every finding counts.
CountsAnyStatus(r) == Gate

Counts(r) == Gate /\ (Diffing => r.status = "new")

Tap ==
  /\ chan[reportCh] # <<>>
  /\ LET r == Head(chan[reportCh])
     IN /\ Pass(reportCh, "gated", r)
        /\ worst' = IF Counts(r) /\ r.sev > worst THEN r.sev ELSE worst
  /\ UNCHANGED <<roundVars, ctxDone, scanVars, open, seen, remaining, counts,
                 reportVars>>

\* Mutant: the gate's Tap does not close its channel.
CloseStageButTap ==
  \/ Close("findings", "deduped")
  \/ Diffing /\ remaining = {} /\ Close("deduped", "diffed")

CloseStage ==
  \/ Close("findings", "deduped")
  \/ Diffing /\ remaining = {} /\ Close("deduped", "diffed")
  \/ Close(reportCh, "gated")

-----------------------------------------------------------------------------
(* The reporter and what follows it.                                        *)

\* A reporter drains its channel whatever happens to its writer.
Receive ==
  /\ write = "running" /\ chan["gated"] # <<>>
  /\ chan' = [chan EXCEPT !["gated"] = Tail(@)]
  /\ \/ ~broken /\ report' = Append(report, Head(chan["gated"])) /\ UNCHANGED broken
     \/ broken' = TRUE /\ UNCHANGED report
  /\ UNCHANGED <<roundVars, ctxDone, scanVars, open, stageVars, write>>

WriteReturns ==
  /\ write = "running" /\ Drained("gated")
  /\ \/ ~broken /\ write' = "ok"
     \/ write' = "err"
  /\ UNCHANGED <<roundVars, ctxDone, scanVars, chan, open, stageVars, report,
                 broken>>

Failed ==
  \/ write = "err" \/ feed = "err" \/ checkErrs
  \/ scan = "err" /\ ~ctxDone

ExitCode ==
  CASE Failed -> exitScanError
    [] ~Failed /\ ctxDone -> exitCanceled
    [] ~Failed /\ ~ctxDone /\ Gate /\ worst >= FailOn -> exitFindings
    [] OTHER -> exitOK

\* The exit code is decided, and then the output is flushed and closed, which
\* may fail unseen.
Finish ==
  /\ exit = Undecided
  /\ "running" \notin {write, scan, feed}
  /\ exit' = ExitCode
  /\ whole' \in {write = "ok", FALSE}
  /\ UNCHANGED <<round, baseline, previous, ctxDone, scanVars, chan, open,
                 stageVars, reportVars>>

\* indexFindings: the rows with a key, whatever their status.
Index(rows) == {f \in FindingsOf(rows) : f.key # NoKey}

NextRun ==
  /\ exit # Undecided /\ whole /\ round < Rounds
  /\ round' = round + 1
  /\ previous' = report
  /\ StartRun(Index(report))

-----------------------------------------------------------------------------
Stage == Dedupe \/ Diff \/ Resolve \/ Tap \/ CloseStage
Main == Receive \/ WriteReturns \/ Finish

Next ==
  \/ Cancel \/ FeedEnds \/ CheckFails \/ ScanEnds \/ Stage \/ Main \/ NextRun
  \/ \E f \in Findings : Emit(f)

Spec == Init /\ [][Next]_vars

\* Every goroutine runs; the feeder and the scanner end (Crawler, Scanner).
Fairness ==
  /\ WF_vars(FeedEnds) /\ WF_vars(ScanEnds)
  /\ WF_vars(Dedupe) /\ WF_vars(Diff) /\ WF_vars(Resolve) /\ WF_vars(Tap)
  /\ WF_vars(CloseStage) /\ WF_vars(Main)

FairSpec == Spec /\ Fairness

-----------------------------------------------------------------------------
(* Correctness.                                                             *)

\* What Dedupe keeps of a stream: a finding without a key, and the first one
\* of every key.
Kept(s) ==
  {i \in DOMAIN s : s[i].key = NoKey \/ \A j \in 1..(i - 1) : s[j].key # s[i].key}

StatusOf(f) ==
  IF ~Diffing THEN "" ELSE IF f.key \in Keys(baseline) THEN "persisting" ELSE "new"

\* The rows of what Dedupe keeps, in the order in which it was sent.
AreLive(rows) ==
  \E at \in [DOMAIN rows -> DOMAIN emitted] :
    /\ \A m, n \in DOMAIN rows : m < n => at[m] < at[n]
    /\ Range(at) = Kept(emitted)
    /\ \A n \in DOMAIN rows : rows[n] = Row(emitted[at[n]], StatusOf(emitted[at[n]]))

\* The rows of what did not come back, in the order of keys.
AreResolved(rows) ==
  /\ \A m, n \in DOMAIN rows : m < n => rows[m].key < rows[n].key
  /\ Range(rows) = {Row(b, "resolved") : b \in {c \in baseline : c.key \notin Keys(Range(emitted))}}

\* A report that was written is exact, whether the scan was cancelled or not:
\* everything the scanner sent is there once, in order, with its status, and
\* then the baseline's entries that did not come back; and the summary printed
\* below it counts its rows.
ReportIsExact ==
  write = "ok" =>
    /\ \E n \in 0..Len(report) :
         AreLive(SubSeq(report, 1, n)) /\ AreResolved(SubSeq(report, n + 1, Len(report)))
    /\ Diffing => \A s \in DOMAIN counts :
         counts[s] = Cardinality({i \in DOMAIN report : report[i].status = s})

\* "Drop it into a pipeline without re-flagging known debt": what the previous
\* report lists under a key is never new in this one, however often the scan
\* comes across it.
KnownDebtIsNotNew ==
  \A r \in Range(report) :
    r.key # NoKey /\ r.key \in Keys(Range(previous)) => r.status # "new"

\* The exit codes 0 and 1 stand for a scan that was neither cancelled nor
\* failed, and they tell whether a row that counts for the gate is at or above
\* the threshold.
Trips(r) == Gate /\ r.sev >= FailOn /\ (Diffing => r.status = "new")

GateIsExact ==
  exit \in {exitOK, exitFindings} =>
    /\ write = "ok" /\ scan = "ok" /\ feed = "ok" /\ ~checkErrs /\ ~ctxDone
    /\ exit = exitFindings <=> \E r \in Range(report) : Trips(r)

\* Every run ends with an exit code, whatever is cancelled or fails: nobody is
\* left sending on a channel that nobody reads.
RunEnds == (exit = Undecided) ~> (exit # Undecided)
=============================================================================
