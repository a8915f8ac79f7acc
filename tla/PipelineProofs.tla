---------------------------- MODULE PipelineProofs ----------------------------
(***************************************************************************)
(* Proofs about module Pipeline, for every set of findings, every channel   *)
(* capacity, threshold and number of runs.                                  *)
(*                                                                          *)
(* Three arguments.  The baseline: what Diff has taken out of its index has *)
(* been seen by Dedupe, and so can come past Diff no second time.  The      *)
(* gate: the severity Tap keeps is the highest of the rows that are beyond  *)
(* it, and nothing is behind it any more when the reporter returns, because *)
(* a stage closes its channel only after the one it reads from is drained.  *)
(* The report: the rows in the report and in the channels before it, read   *)
(* from its end, are one line, and each stage does one thing to that line.  *)
(***************************************************************************)
EXTENDS Pipeline, FiniteSetTheorems, TLAPS

-----------------------------------------------------------------------------
(* The inductive invariant, in named parts.                                 *)

\* A row is about something a check may find.
Found == {r \in Rows : [key |-> r.key, sev |-> r.sev] \in Findings}

Typed ==
  /\ round \in 1..Rounds
  /\ baseline \subseteq Findings /\ previous \in Seq(Found)
  /\ ctxDone \in BOOLEAN /\ checkErrs \in BOOLEAN /\ broken \in BOOLEAN
  /\ whole \in BOOLEAN
  /\ feed \in {"running", "ok", "err"}
  /\ scan \in {"running", "ok", "err"}
  /\ write \in {"running", "ok", "err"}
  /\ emitted \in Seq(Findings) /\ Len(emitted) <= MaxEmit
  /\ chan \in [Channels -> Seq(Found)]
  /\ \A c \in Channels \ {"findings"} : Len(chan[c]) <= Cap
  /\ open \subseteq Channels
  /\ seen \subseteq Nat \ {NoKey}
  /\ remaining \subseteq baseline
  /\ counts \in [{"new", "persisting", "resolved"} -> Nat]
  /\ worst \in Nat \cup {-1}
  /\ report \in Seq(Found)
  /\ exit \in {Undecided, exitOK, exitFindings, exitScanError, exitCanceled}

\* A channel is closed only when nothing can come through the one before it.
Closing ==
  /\ "findings" \in open <=> scan = "running"
  /\ "deduped" \notin open => Drained("findings")
  /\ Diffing /\ "diffed" \notin open => Drained("deduped") /\ remaining = {}
  /\ ~Diffing => chan["diffed"] = <<>>
  /\ "gated" \notin open => Drained(reportCh)
  /\ write # "running" => Drained("gated")

\* The baseline is what the previous report lists under a key.
Remembered ==
  /\ \A b \in baseline : b.key # NoKey
  /\ ~Diffing => previous = <<>>
  /\ \A r \in Range(previous) : r.key # NoKey => r.key \in Keys(baseline)

\* Between Dedupe and Diff a key is met once, and Dedupe has seen it.
Single ==
  /\ \A i \in DOMAIN chan["deduped"] : chan["deduped"][i].key \in seen \cup {NoKey}
  /\ \A i, j \in DOMAIN chan["deduped"] :
       i < j /\ chan["deduped"][i].key = chan["deduped"][j].key =>
         chan["deduped"][i].key = NoKey

\* What has left Diff's index cannot come past Diff again.
Spent == Keys(baseline) \ Keys(remaining)

Indexed ==
  /\ Spent # {} => Diffing
  /\ \A k \in Spent : k \in seen \/ Drained("deduped")
  /\ \A i \in DOMAIN chan["deduped"] : chan["deduped"][i].key \notin Spent

\* A row that Diff has let through as new is under no key of the baseline.
Honest(s) ==
  \A i \in DOMAIN s : s[i].key \in Keys(baseline) => s[i].status # "new"

Judged == Diffing => Honest(chan["diffed"]) /\ Honest(chan["gated"]) /\ Honest(report)

\* The severity kept is the highest of the rows that counted.
Beyond == Range(chan["gated"]) \cup Range(report)

Weighed ==
  ~broken =>
    /\ \A r \in Beyond : Counts(r) => r.sev <= worst
    /\ worst # -1 => \E r \in Beyond : Counts(r) /\ r.sev = worst

Decided ==
  /\ write = "ok" => ~broken
  /\ exit # Undecided => write # "running" /\ scan # "running" /\ feed # "running"
  /\ exit \in {exitOK, exitFindings} =>
       /\ write = "ok" /\ scan = "ok" /\ feed = "ok" /\ ~checkErrs /\ ~ctxDone
       /\ exit = exitFindings <=> Gate /\ worst >= FailOn

PipeInv ==
  /\ Typed
  /\ Closing
  /\ Remembered
  /\ Single
  /\ Indexed
  /\ Judged
  /\ Weighed
  /\ Decided

-----------------------------------------------------------------------------
(* Sequences, and what a stage does to two channels.                        *)

LEMMA AppendFacts ==
  ASSUME NEW S, NEW s \in Seq(S), NEW r \in S
  PROVE  /\ Append(s, r) \in Seq(S) /\ Append(s, r) # <<>>
         /\ Len(s) \in Nat /\ Len(Append(s, r)) = Len(s) + 1
         /\ DOMAIN s = 1..Len(s) /\ DOMAIN Append(s, r) = 1..(Len(s) + 1)
         /\ \A i \in 1..Len(s) : Append(s, r)[i] = s[i]
         /\ Append(s, r)[Len(s) + 1] = r
         /\ Range(Append(s, r)) = Range(s) \cup {r}
<1> DEFINE t == Append(s, r)
<1>1. /\ t \in Seq(S) /\ t # <<>>
      /\ Len(s) \in Nat /\ Len(t) = Len(s) + 1
      /\ DOMAIN s = 1..Len(s) /\ DOMAIN t = 1..(Len(s) + 1)
      /\ \A i \in 1..Len(s) : t[i] = s[i]
      /\ t[Len(s) + 1] = r
  OBVIOUS
<1> HIDE DEF t
<1>2. \A i \in DOMAIN t : i \in DOMAIN s \/ i = Len(s) + 1
  BY <1>1
<1>3. \A i \in DOMAIN s : i \in DOMAIN t
  BY <1>1
<1>4. Len(s) + 1 \in DOMAIN t
  BY <1>1
<1>5. Range(t) = Range(s) \cup {r}
  BY <1>1, <1>2, <1>3, <1>4 DEF Range
<1>6. QED
  BY <1>1, <1>5 DEF t

LEMMA TailFacts ==
  ASSUME NEW S, NEW s \in Seq(S), s # <<>>
  PROVE  /\ Head(s) \in S /\ Tail(s) \in Seq(S)
         /\ Len(s) \in Nat \ {0} /\ Len(Tail(s)) = Len(s) - 1
         /\ DOMAIN s = 1..Len(s) /\ DOMAIN Tail(s) = 1..(Len(s) - 1)
         /\ \A i \in 1..(Len(s) - 1) : Tail(s)[i] = s[i + 1]
         /\ Head(s) = s[1]
         /\ Range(s) = {Head(s)} \cup Range(Tail(s))
<1> DEFINE t == Tail(s)
<1>1. /\ Head(s) \in S /\ t \in Seq(S)
      /\ Len(s) \in Nat \ {0} /\ Len(t) = Len(s) - 1
      /\ DOMAIN s = 1..Len(s) /\ DOMAIN t = 1..(Len(s) - 1)
      /\ \A i \in 1..(Len(s) - 1) : t[i] = s[i + 1]
      /\ Head(s) = s[1]
  OBVIOUS
<1> HIDE DEF t
<1>2. \A i \in DOMAIN s : i = 1 \/ (i - 1 \in DOMAIN t /\ t[i - 1] = s[i])
  BY <1>1
<1>3. \A i \in DOMAIN t : i + 1 \in DOMAIN s /\ t[i] = s[i + 1]
  BY <1>1
<1>4. 1 \in DOMAIN s
  BY <1>1
<1>5. Range(s) = {Head(s)} \cup Range(t)
  BY <1>1, <1>2, <1>3, <1>4 DEF Range
<1>6. QED
  BY <1>1, <1>5 DEF t

LEMMA Constants ==
  /\ Cap \in Nat \ {0} /\ Rounds \in Nat \ {0} /\ MaxEmit \in Nat /\ FailOn \in Nat
  /\ Findings \subseteq [key : Nat, sev : Nat]
BY PipelineAssumption

\* A row that takes another status is still about the same finding.
LEMMA SameFinding ==
  ASSUME NEW r \in Found, NEW s \in Statuses
  PROVE  /\ [r EXCEPT !.status = s] \in Found
         /\ [r EXCEPT !.status = s].key = r.key
         /\ [r EXCEPT !.status = s].sev = r.sev
         /\ [r EXCEPT !.status = s].status = s
BY DEF Found, Rows

LEMMA RowOfFinding ==
  ASSUME NEW f \in Findings, NEW s \in Statuses
  PROVE  Row(f, s) \in Found /\ Row(f, s).key = f.key /\ Row(f, s).status = s
<1>1. f \in [key : Nat, sev : Nat]
  BY Constants
<1>2. f = [key |-> f.key, sev |-> f.sev] /\ f.key \in Nat /\ f.sev \in Nat
  BY <1>1
<1>3. QED
  BY <1>2 DEF Row, Found, Rows

LEMMA PassMoves ==
  ASSUME Typed, NEW from \in Channels, NEW to \in Channels \ {"findings"}, from # to,
         chan[from] # <<>>, NEW r \in Found, Pass(from, to, r)
  PROVE  /\ chan' \in [Channels -> Seq(Found)]
         /\ chan'[from] = Tail(chan[from]) /\ chan'[to] = Append(chan[to], r)
         /\ \A c \in Channels : c # from /\ c # to => chan'[c] = chan[c]
         /\ \A c \in Channels \ {"findings"} : Len(chan'[c]) <= Cap
<1>1. chan' = [chan EXCEPT ![from] = Tail(@), ![to] = Append(@, r)] /\ Len(chan[to]) < Cap
  BY DEF Pass
<1>2. /\ chan \in [Channels -> Seq(Found)]
      /\ \A c \in Channels \ {"findings"} : Len(chan[c]) <= Cap
  BY DEF Typed
<1>3. /\ Tail(chan[from]) \in Seq(Found) /\ Len(Tail(chan[from])) = Len(chan[from]) - 1
      /\ Len(chan[from]) \in Nat
  BY <1>2, TailFacts
<1>4. /\ Append(chan[to], r) \in Seq(Found) /\ Len(Append(chan[to], r)) = Len(chan[to]) + 1
      /\ Len(chan[to]) \in Nat
  BY <1>2, AppendFacts
<1>5. /\ chan'[from] = Tail(chan[from]) /\ chan'[to] = Append(chan[to], r)
      /\ \A c \in Channels : c # from /\ c # to => chan'[c] = chan[c]
  BY <1>1, <1>2
<1>6. chan' \in [Channels -> Seq(Found)]
  BY <1>1, <1>2, <1>3, <1>4
<1>7. ASSUME NEW c \in Channels \ {"findings"}
      PROVE  Len(chan'[c]) <= Cap
  <2>1. CASE c = from
    BY <1>2, <1>3, <1>5, <2>1, Constants
  <2>2. CASE c = to
    <3>1. Len(chan'[c]) = Len(chan[to]) + 1
      BY <1>4, <1>5, <2>2
    <3>2. Len(chan[to]) < Cap /\ Len(chan[to]) \in Nat
      BY <1>1, <1>4
    <3>3. QED
      BY <3>1, <3>2, Constants
  <2>3. CASE c # from /\ c # to
    BY <1>2, <1>5, <2>3
  <2>4. QED
    BY <2>1, <2>2, <2>3
<1>8. QED
  BY <1>5, <1>6, <1>7


-----------------------------------------------------------------------------
(* What each action does, in terms of the channels.                         *)

LEMMA Status1 == \A r : Status(r) \in Statuses /\ Status(r) \in {"new", "persisting"}
BY DEF Status, Statuses

LEMMA StatusStays ==
  /\ "" \in Statuses /\ "resolved" \in Statuses
  /\ "findings" \in Channels /\ "deduped" \in Channels /\ "diffed" \in Channels
  /\ "gated" \in Channels /\ reportCh \in Channels
  /\ reportCh = IF Diffing THEN "diffed" ELSE "deduped"
BY DEF Statuses, Channels, reportCh

\* Dedupe drops the head of its channel, or passes it on with a new key.
LEMMA DedupeMoves ==
  ASSUME Typed, Dedupe
  PROVE  /\ chan["findings"] # <<>>
         /\ chan' \in [Channels -> Seq(Found)]
         /\ \A c \in Channels \ {"findings"} : Len(chan'[c]) <= Cap
         /\ chan'["findings"] = Tail(chan["findings"])
         /\ chan'["diffed"] = chan["diffed"] /\ chan'["gated"] = chan["gated"]
         /\ \/ chan'["deduped"] = chan["deduped"] /\ seen' = seen
            \/ \E r \in Found : /\ r.key \notin seen
                                /\ chan'["deduped"] = Append(chan["deduped"], r)
                                /\ seen' = seen \cup ({r.key} \ {NoKey})
<1>0. /\ chan["findings"] # <<>> /\ chan["findings"] \in Seq(Found)
      /\ chan \in [Channels -> Seq(Found)]
      /\ \A c \in Channels \ {"findings"} : Len(chan[c]) <= Cap
  BY StatusStays DEF Dedupe, Typed
<1> DEFINE r == Head(chan["findings"])
<1>1. r \in Found /\ Tail(chan["findings"]) \in Seq(Found)
  BY <1>0, TailFacts
<1> HIDE DEF r
<1>2. CASE r.key \in seen
  <2>1. chan' = [chan EXCEPT !["findings"] = Tail(@)] /\ seen' = seen
    BY <1>2 DEF Dedupe, r
  <2>2. QED
    BY <1>0, <1>1, <2>1, StatusStays
<1>3. CASE r.key \notin seen
  <2>1. Pass("findings", "deduped", r) /\ seen' = seen \cup ({r.key} \ {NoKey})
    BY <1>3 DEF Dedupe, r
  <2>2. /\ chan' \in [Channels -> Seq(Found)]
        /\ chan'["findings"] = Tail(chan["findings"])
        /\ chan'["deduped"] = Append(chan["deduped"], r)
        /\ \A c \in Channels : c # "findings" /\ c # "deduped" => chan'[c] = chan[c]
        /\ \A c \in Channels \ {"findings"} : Len(chan'[c]) <= Cap
    <3>1. /\ "findings" \in Channels /\ "deduped" \in Channels \ {"findings"}
          /\ "findings" # "deduped"
      BY StatusStays
    <3>2. QED
      BY <1>0, <1>1, <2>1, <3>1, PassMoves
  <2>3. chan'["diffed"] = chan["diffed"] /\ chan'["gated"] = chan["gated"]
    BY <2>2, StatusStays
  <2>4. QED
    BY <1>0, <1>1, <1>3, <2>1, <2>2, <2>3
<1>4. QED
  BY <1>2, <1>3

LEMMA DiffMoves ==
  ASSUME Typed, Diff
  PROVE  /\ Diffing /\ chan["deduped"] # <<>>
         /\ chan' \in [Channels -> Seq(Found)]
         /\ \A c \in Channels \ {"findings"} : Len(chan'[c]) <= Cap
         /\ chan'["deduped"] = Tail(chan["deduped"])
         /\ chan'["findings"] = chan["findings"] /\ chan'["gated"] = chan["gated"]
         /\ \E r, q \in Found :
              /\ r = Head(chan["deduped"]) /\ q.key = r.key /\ q.status = Status(r)
              /\ chan'["diffed"] = Append(chan["diffed"], q)
              /\ remaining' = {b \in remaining : b.key # r.key}
         /\ counts' \in [{"new", "persisting", "resolved"} -> Nat]
<1>0. /\ Diffing /\ chan["deduped"] # <<>> /\ chan["deduped"] \in Seq(Found)
      /\ chan \in [Channels -> Seq(Found)]
  BY StatusStays DEF Diff, Typed
<1> DEFINE r == Head(chan["deduped"])
           q == [r EXCEPT !.status = Status(r)]
<1>1. r \in Found
  BY <1>0, TailFacts
<1>2. q \in Found /\ q.key = r.key /\ q.status = Status(r)
  BY <1>1, Status1, SameFinding
<1>3. /\ Pass("deduped", "diffed", q)
      /\ counts' = [counts EXCEPT ![Status(r)] = @ + 1]
      /\ remaining' = {b \in remaining : b.key # r.key}
  BY DEF Diff
<1> HIDE DEF r, q
<1>4. counts' \in [{"new", "persisting", "resolved"} -> Nat]
  BY <1>3, Status1 DEF Typed
<1>5. /\ chan' \in [Channels -> Seq(Found)]
      /\ chan'["deduped"] = Tail(chan["deduped"])
      /\ chan'["diffed"] = Append(chan["diffed"], q)
      /\ \A c \in Channels : c # "deduped" /\ c # "diffed" => chan'[c] = chan[c]
      /\ \A c \in Channels \ {"findings"} : Len(chan'[c]) <= Cap
  <2>1. /\ "deduped" \in Channels /\ "diffed" \in Channels \ {"findings"}
        /\ "deduped" # "diffed"
    BY StatusStays
  <2>2. q \in Found /\ Pass("deduped", "diffed", q) /\ chan["deduped"] # <<>>
    BY <1>0, <1>2, <1>3
  <2>3. QED
    BY <2>1, <2>2, PassMoves
<1>6. \E x, y \in Found :
        /\ x = Head(chan["deduped"]) /\ y.key = x.key /\ y.status = Status(x)
        /\ chan'["diffed"] = Append(chan["diffed"], y)
        /\ remaining' = {b \in remaining : b.key # x.key}
  BY <1>1, <1>2, <1>3, <1>5 DEF r
<1>7. QED
  BY <1>0, <1>4, <1>5, <1>6, StatusStays

LEMMA ResolveMoves ==
  ASSUME Typed, Resolve
  PROVE  /\ Diffing /\ Drained("deduped") /\ remaining # {}
         /\ chan' \in [Channels -> Seq(Found)]
         /\ \A c \in Channels \ {"findings"} : Len(chan'[c]) <= Cap
         /\ \A c \in Channels : c # "diffed" => chan'[c] = chan[c]
         /\ \E r \in Found : /\ r.status = "resolved"
                             /\ chan'["diffed"] = Append(chan["diffed"], r)
         /\ remaining' \subseteq remaining
         /\ counts' \in [{"new", "persisting", "resolved"} -> Nat]
<1>0. /\ Diffing /\ Drained("deduped") /\ Len(chan["diffed"]) < Cap
      /\ chan["diffed"] \in Seq(Found) /\ chan \in [Channels -> Seq(Found)]
      /\ \A c \in Channels \ {"findings"} : Len(chan[c]) <= Cap
  BY StatusStays DEF Resolve, Typed
<1>1. PICK b \in remaining :
        /\ chan' = [chan EXCEPT !["diffed"] = Append(@, Row(b, "resolved"))]
        /\ remaining' = remaining \ {b}
  BY DEF Resolve
<1>2. b \in Findings
  BY DEF Typed
<1>3. PICK r \in Found : r = Row(b, "resolved") /\ r.status = "resolved"
  BY <1>2, RowOfFinding, StatusStays
<1>4. /\ Append(chan["diffed"], r) \in Seq(Found)
      /\ Len(Append(chan["diffed"], r)) = Len(chan["diffed"]) + 1
      /\ Len(chan["diffed"]) \in Nat
  BY <1>0, AppendFacts
<1>5. /\ chan' \in [Channels -> Seq(Found)]
      /\ chan'["diffed"] = Append(chan["diffed"], r)
      /\ \A c \in Channels : c # "diffed" => chan'[c] = chan[c]
  BY <1>0, <1>1, <1>3, <1>4, StatusStays
<1>6. Len(chan'["diffed"]) <= Cap
  <2>1. Len(chan'["diffed"]) = Len(chan["diffed"]) + 1
    BY <1>4, <1>5
  <2>2. QED
    BY <1>0, <1>4, <2>1, Constants
<1>7. \A c \in Channels \ {"findings"} : Len(chan'[c]) <= Cap
  BY <1>0, <1>5, <1>6
<1>8. counts' \in [{"new", "persisting", "resolved"} -> Nat]
  BY DEF Resolve, Typed
<1>9. QED
  BY <1>0, <1>1, <1>3, <1>5, <1>7, <1>8

LEMMA TapMoves ==
  ASSUME Typed, Tap
  PROVE  /\ chan[reportCh] # <<>>
         /\ chan' \in [Channels -> Seq(Found)]
         /\ \A c \in Channels \ {"findings"} : Len(chan'[c]) <= Cap
         /\ chan'[reportCh] = Tail(chan[reportCh])
         /\ \A c \in Channels : c # reportCh /\ c # "gated" => chan'[c] = chan[c]
         /\ \E r \in Found :
              /\ r = Head(chan[reportCh])
              /\ chan'["gated"] = Append(chan["gated"], r)
              /\ worst' = IF Counts(r) /\ r.sev > worst THEN r.sev ELSE worst
<1>0. chan[reportCh] # <<>> /\ chan[reportCh] \in Seq(Found)
  BY StatusStays DEF Tap, Typed
<1>1. PICK r \in Found : r = Head(chan[reportCh])
  BY <1>0, TailFacts
<1>2. /\ Pass(reportCh, "gated", r)
      /\ worst' = IF Counts(r) /\ r.sev > worst THEN r.sev ELSE worst
  BY <1>1 DEF Tap
<1>3. reportCh # "gated" /\ reportCh \in Channels /\ "gated" \in Channels \ {"findings"}
  BY StatusStays
<1>4. /\ chan' \in [Channels -> Seq(Found)]
      /\ chan'[reportCh] = Tail(chan[reportCh])
      /\ chan'["gated"] = Append(chan["gated"], r)
      /\ \A c \in Channels : c # reportCh /\ c # "gated" => chan'[c] = chan[c]
      /\ \A c \in Channels \ {"findings"} : Len(chan'[c]) <= Cap
  <2> HIDE DEF Typed
  <2>1. QED
    BY <1>0, <1>2, <1>3, PassMoves
<1>5. QED
  BY <1>0, <1>1, <1>2, <1>4

LEMMA ReceiveMoves ==
  ASSUME Typed, Receive
  PROVE  /\ chan["gated"] # <<>> /\ write = "running"
         /\ chan' \in [Channels -> Seq(Found)]
         /\ \A c \in Channels \ {"findings"} : Len(chan'[c]) <= Cap
         /\ chan'["gated"] = Tail(chan["gated"])
         /\ \A c \in Channels : c # "gated" => chan'[c] = chan[c]
         /\ \/ /\ ~broken /\ broken' = broken
               /\ \E r \in Found : /\ r = Head(chan["gated"])
                                   /\ report' = Append(report, r)
            \/ broken' = TRUE /\ report' = report
         /\ report' \in Seq(Found)
<1>0. /\ chan["gated"] # <<>> /\ chan["gated"] \in Seq(Found) /\ write = "running"
      /\ chan \in [Channels -> Seq(Found)] /\ report \in Seq(Found)
      /\ \A c \in Channels \ {"findings"} : Len(chan[c]) <= Cap
      /\ chan' = [chan EXCEPT !["gated"] = Tail(@)]
  BY StatusStays DEF Receive, Typed
<1>1. PICK r \in Found : r = Head(chan["gated"])
  BY <1>0, TailFacts
<1>2. /\ Tail(chan["gated"]) \in Seq(Found) /\ Len(chan["gated"]) \in Nat
      /\ Len(Tail(chan["gated"])) = Len(chan["gated"]) - 1
  BY <1>0, TailFacts
<1>3. /\ chan' \in [Channels -> Seq(Found)] /\ chan'["gated"] = Tail(chan["gated"])
      /\ \A c \in Channels : c # "gated" => chan'[c] = chan[c]
  BY <1>0, <1>2, StatusStays
<1>4. \A c \in Channels \ {"findings"} : Len(chan'[c]) <= Cap
  <2>1. Len(chan'["gated"]) <= Cap
    <3>1. Len(chan["gated"]) <= Cap
      BY <1>0, StatusStays
    <3>2. Len(chan'["gated"]) = Len(chan["gated"]) - 1
      BY <1>2, <1>3
    <3>3. QED
      BY <1>2, <3>1, <3>2, Constants
  <2>2. QED
    BY <1>0, <1>3, <2>1
<1>5. Append(report, r) \in Seq(Found)
  BY <1>0, AppendFacts
<1>6. \/ ~broken /\ broken' = broken /\ report' = Append(report, r)
      \/ broken' = TRUE /\ report' = report
  BY <1>1 DEF Receive
<1>7. report' \in Seq(Found)
  BY <1>0, <1>5, <1>6
<1>8. QED
  BY <1>0, <1>1, <1>3, <1>4, <1>6, <1>7

LEMMA EmitMoves ==
  ASSUME Typed, NEW f \in Findings, Emit(f)
  PROVE  /\ scan = "running"
         /\ chan' \in [Channels -> Seq(Found)]
         /\ \A c \in Channels : c # "findings" => chan'[c] = chan[c]
         /\ \A c \in Channels \ {"findings"} : Len(chan'[c]) <= Cap
         /\ emitted' \in Seq(Findings) /\ Len(emitted') <= MaxEmit
<1>0. /\ chan["findings"] \in Seq(Found) /\ emitted \in Seq(Findings)
      /\ chan \in [Channels -> Seq(Found)] /\ scan = "running"
      /\ \A c \in Channels \ {"findings"} : Len(chan[c]) <= Cap
      /\ chan' = [chan EXCEPT !["findings"] = Append(@, Row(f, ""))]
  BY StatusStays DEF Emit, Typed
<1>1. Row(f, "") \in Found
  BY RowOfFinding, StatusStays
<1>2. Append(chan["findings"], Row(f, "")) \in Seq(Found)
  BY <1>0, <1>1, AppendFacts
<1>3. emitted' = Append(emitted, f) /\ Len(emitted) < MaxEmit
  BY DEF Emit
<1>4. /\ Append(emitted, f) \in Seq(Findings) /\ Len(emitted) \in Nat
      /\ Len(Append(emitted, f)) = Len(emitted) + 1
  BY <1>0, AppendFacts
<1>5. Len(emitted') <= MaxEmit
  <2>1. Len(emitted') = Len(emitted) + 1 /\ Len(emitted) < MaxEmit
    BY <1>3, <1>4
  <2>2. QED
    BY <1>4, <2>1, Constants
<1>6. emitted' \in Seq(Findings)
  BY <1>3, <1>4
<1>7. QED
  BY <1>0, <1>2, <1>5, <1>6, StatusStays


-----------------------------------------------------------------------------
(* Types.                                                                   *)

LEMMA ItemsOfSeq ==
  ASSUME NEW S, NEW s \in Seq(S)
  PROVE  \A x \in Range(s) : x \in S
<1>1. \A i \in DOMAIN s : s[i] \in S
  OBVIOUS
<1>2. QED
  BY <1>1 DEF Range

LEMMA IndexOfReport ==
  ASSUME Typed
  PROVE  /\ Index(report) \subseteq Findings
         /\ \A b \in Index(report) : b.key # NoKey
         /\ \A r \in Range(report) : r.key # NoKey => r.key \in Keys(Index(report))
<1>1. \A r \in Range(report) : r \in Found
  BY ItemsOfSeq DEF Typed
<1>2. Index(report) \subseteq Findings
  BY <1>1 DEF Index, FindingsOf, Found
<1>3. \A b \in Index(report) : b.key # NoKey
  BY DEF Index
<1>4. ASSUME NEW r \in Range(report), r.key # NoKey
      PROVE  r.key \in Keys(Index(report))
  <2> DEFINE f == [key |-> r.key, sev |-> r.sev]
  <2>1. f \in FindingsOf(report) /\ f.key = r.key
    BY DEF FindingsOf
  <2>2. f \in Index(report)
    BY <1>4, <2>1 DEF Index
  <2>3. QED
    BY <2>1, <2>2 DEF Keys
<1>5. QED
  BY <1>2, <1>3, <1>4

LEMMA InitTyped == Init => Typed
<1> SUFFICES ASSUME Init PROVE Typed
  OBVIOUS
<1>1. <<>> \in Seq(Found) /\ <<>> \in Seq(Findings) /\ Len(<<>>) = 0
  OBVIOUS
<1>2. chan \in [Channels -> Seq(Found)] /\ \A c \in Channels : Len(chan[c]) <= Cap
  BY <1>1, Constants DEF Init
<1>3. emitted \in Seq(Findings) /\ Len(emitted) <= MaxEmit
  BY <1>1, Constants DEF Init
<1>4. round \in 1..Rounds
  BY Constants DEF Init
<1>5. worst \in Nat \cup {-1} /\ counts \in [{"new", "persisting", "resolved"} -> Nat]
  BY DEF Init
<1>6. QED
  BY <1>1, <1>2, <1>3, <1>4, <1>5 DEF Init, Typed

LEMMA NextTyped ==
  ASSUME Typed, [Next]_vars
  PROVE  Typed'
<1> USE DEF roundVars, scanVars, stageVars, reportVars
<1>0. Typed
  OBVIOUS
<1>1. CASE Cancel \/ FeedEnds \/ CheckFails \/ ScanEnds \/ CloseStage
  <2>1. /\ round' = round /\ baseline' = baseline /\ previous' = previous /\ exit' = exit
        /\ emitted' = emitted /\ chan' = chan /\ seen' = seen /\ remaining' = remaining
        /\ counts' = counts /\ worst' = worst /\ report' = report /\ write' = write
    BY <1>1 DEF Cancel, FeedEnds, CheckFails, ScanEnds, CloseStage, Close
  <2>2. whole' = whole /\ broken' = broken /\ open' \subseteq open
    BY <1>1 DEF Cancel, FeedEnds, CheckFails, ScanEnds, CloseStage, Close
  <2>3. feed' \in {feed, "ok", "err"} /\ scan' \in {scan, "ok", "err"}
    BY <1>1 DEF Cancel, FeedEnds, CheckFails, ScanEnds, CloseStage, Close
  <2>4. ctxDone' \in BOOLEAN /\ checkErrs' \in BOOLEAN
    <3>1. ctxDone' = ctxDone \/ ctxDone' = TRUE
      BY <1>1 DEF Cancel, FeedEnds, CheckFails, ScanEnds, CloseStage, Close
    <3>2. checkErrs' = checkErrs \/ checkErrs' = TRUE
      BY <1>1 DEF Cancel, FeedEnds, CheckFails, ScanEnds, CloseStage, Close
    <3>3. QED
      BY <1>0, <3>1, <3>2, Zenon DEF Typed
  <2>5. QED
    BY <1>0, <2>1, <2>2, <2>3, <2>4 DEF Typed
<1>2. CASE Dedupe
  <2>1. seen' \subseteq Nat \ {NoKey}
    <3>1. \A r \in Found : r.key \in Nat
      BY DEF Found, Rows
    <3>2. QED
      BY ZenonT(60), <1>0, <1>2, <3>1, DedupeMoves DEF Typed
  <2>2. QED
    BY SMTT(30), <1>0, <1>2, <2>1, DedupeMoves DEF Typed, Dedupe
<1>3. CASE Diff
  <2>1. remaining' \subseteq baseline
    BY <1>0, <1>3, DiffMoves DEF Typed
  <2>2. /\ chan' \in [Channels -> Seq(Found)]
        /\ \A c \in Channels \ {"findings"} : Len(chan'[c]) <= Cap
        /\ counts' \in [{"new", "persisting", "resolved"} -> Nat]
    BY <1>0, <1>3, DiffMoves
  <2>3. UNCHANGED <<roundVars, ctxDone, scanVars, open, seen, worst, reportVars>>
    BY <1>3 DEF Diff
  <2>4. QED
    BY <1>0, <2>1, <2>2, <2>3 DEF Typed
<1>4. CASE Resolve
  <2>1. /\ chan' \in [Channels -> Seq(Found)] /\ remaining' \subseteq remaining
        /\ \A c \in Channels \ {"findings"} : Len(chan'[c]) <= Cap
        /\ counts' \in [{"new", "persisting", "resolved"} -> Nat]
    BY <1>0, <1>4, ResolveMoves
  <2>2. UNCHANGED <<roundVars, ctxDone, scanVars, open, seen, worst, reportVars>>
    BY <1>4 DEF Resolve
  <2>3. QED
    BY <1>0, <2>1, <2>2 DEF Typed
<1>5. CASE Tap
  <2>1. worst' \in Nat \cup {-1}
    <3>1. \A r \in Found : r.sev \in Nat
      BY DEF Found, Rows
    <3>2. QED
      BY <1>0, <1>5, <3>1, TapMoves DEF Typed
  <2>2. QED
    BY SMTT(30), <1>0, <1>5, <2>1, TapMoves DEF Typed, Tap
<1>6. CASE Receive
  <2>1. broken' \in BOOLEAN
    BY <1>0, <1>6 DEF Typed, Receive
  <2>2. QED
    BY ZenonT(60), <1>0, <1>6, <2>1, ReceiveMoves DEF Typed, Receive
<1>7. CASE WriteReturns
  BY <1>0, <1>7 DEF Typed, WriteReturns
<1>8. CASE Finish
  BY <1>0, <1>8 DEF Typed, Finish, ExitCode
<1>9. CASE NextRun
  <2>1. <<>> \in Seq(Found) /\ <<>> \in Seq(Findings) /\ Len(<<>>) = 0
    OBVIOUS
  <2>2. chan' \in [Channels -> Seq(Found)] /\ \A c \in Channels : Len(chan'[c]) <= Cap
    BY <1>9, <2>1, Constants DEF NextRun, StartRun
  <2>3. emitted' \in Seq(Findings) /\ Len(emitted') <= MaxEmit
    BY <1>9, <2>1, Constants DEF NextRun, StartRun
  <2>4. round' \in 1..Rounds
    BY <1>0, <1>9, Constants DEF NextRun, Typed
  <2>5. baseline' = Index(report) /\ remaining' = Index(report) /\ previous' = report
    BY <1>9 DEF NextRun, StartRun
  <2>6. worst' \in Nat \cup {-1} /\ counts' \in [{"new", "persisting", "resolved"} -> Nat]
    BY <1>9 DEF NextRun, StartRun
  <2>7. baseline' \subseteq Findings /\ remaining' \subseteq baseline' /\ previous' \in Seq(Found)
    BY <1>0, <2>5, IndexOfReport DEF Typed
  <2>8. QED
    BY <1>9, <2>1, <2>2, <2>3, <2>4, <2>6, <2>7 DEF NextRun, StartRun, Typed
<1>10. ASSUME NEW f \in Findings, Emit(f)
       PROVE  Typed'
  BY ZenonT(60), <1>0, <1>10, EmitMoves DEF Typed, Emit
<1>11. CASE UNCHANGED vars
  BY <1>0, <1>11 DEF Typed, vars
<1>12. QED
  BY <1>1, <1>2, <1>3, <1>4, <1>5, <1>6, <1>7, <1>8, <1>9, <1>10, <1>11
     DEF Next, Stage, Main

-----------------------------------------------------------------------------
(* The channels close one after the other.                                  *)

LEMMA InitClosing == Init => Closing
BY DEF Init, Closing, Diffing, Channels

LEMMA NextClosing ==
  ASSUME Typed, Closing, [Next]_vars
  PROVE  Closing'
<1> USE DEF roundVars, scanVars, stageVars, reportVars
<1>0. Typed /\ Closing
  OBVIOUS
<1>1. CASE Cancel \/ FeedEnds \/ CheckFails \/ Finish \/ UNCHANGED vars
  <2>1. /\ open' = open /\ chan' = chan /\ round' = round /\ write' = write /\ scan' = scan
        /\ remaining' = remaining
    BY <1>1 DEF Cancel, FeedEnds, CheckFails, Finish, vars
  <2>2. QED
    BY <1>0, <2>1 DEF Closing, Drained, Diffing, reportCh
<1>2. CASE ScanEnds
  <2>1. open' = open \ {"findings"} /\ scan = "running" /\ scan' # "running"
    BY <1>2 DEF ScanEnds
  <2>2. chan' = chan /\ remaining' = remaining /\ round' = round /\ write' = write
    BY <1>2 DEF ScanEnds
  <2>3. QED
    BY <1>0, <2>1, <2>2 DEF Closing, Drained, Diffing, reportCh
<1>3. CASE CloseStage
  <2>1. /\ chan' = chan /\ remaining' = remaining /\ round' = round /\ write' = write
        /\ scan' = scan
    BY <1>3 DEF CloseStage, Close
  <2>2. \/ open' = open \ {"deduped"} /\ Drained("findings")
        \/ open' = open \ {"diffed"} /\ Drained("deduped") /\ Diffing /\ remaining = {}
        \/ open' = open \ {"gated"} /\ Drained(reportCh)
    BY <1>3 DEF CloseStage, Close
  <2>3. QED
    BY <1>0, <2>1, <2>2 DEF Closing, Drained, Diffing, reportCh
<1>4. CASE Dedupe
  <2>1. /\ open' = open /\ remaining' = remaining /\ round' = round /\ write' = write
        /\ scan' = scan
    BY <1>4 DEF Dedupe
  <2>2. /\ chan["findings"] # <<>>
        /\ chan'["diffed"] = chan["diffed"] /\ chan'["gated"] = chan["gated"]
    BY <1>4, DedupeMoves
  <2>3. QED
    BY <1>0, <2>1, <2>2 DEF Closing, Drained, Diffing, reportCh
<1>5. CASE Diff
  <2>1. /\ open' = open /\ round' = round /\ write' = write /\ scan' = scan
    BY <1>5 DEF Diff
  <2>2. /\ chan["deduped"] # <<>> /\ Diffing
        /\ chan'["findings"] = chan["findings"] /\ chan'["gated"] = chan["gated"]
    BY <1>5, DiffMoves
  <2>3. QED
    BY <1>0, <2>1, <2>2 DEF Closing, Drained, Diffing, reportCh
<1>6. CASE Resolve
  <2>1. /\ open' = open /\ round' = round /\ write' = write /\ scan' = scan
    BY <1>6 DEF Resolve
  <2>2. /\ Diffing /\ remaining # {} /\ remaining' \subseteq remaining
        /\ \A c \in Channels : c # "diffed" => chan'[c] = chan[c]
    BY <1>6, ResolveMoves
  <2>3. QED
    BY <1>0, <2>1, <2>2, StatusStays DEF Closing, Drained, Diffing, reportCh
<1>7. CASE Tap
  <2>1. /\ open' = open /\ round' = round /\ write' = write /\ scan' = scan
        /\ remaining' = remaining
    BY <1>7 DEF Tap
  <2>2. /\ chan[reportCh] # <<>> /\ chan'[reportCh] = Tail(chan[reportCh])
        /\ \A c \in Channels : c # reportCh /\ c # "gated" => chan'[c] = chan[c]
    BY <1>7, TapMoves
  <2>3. "gated" \in open /\ ~Drained(reportCh)
    BY <1>0, <2>2 DEF Closing, Drained
  <2>4. CASE Diffing
    BY <1>0, <2>1, <2>2, <2>3, <2>4, StatusStays DEF Closing, Drained, Diffing
  <2>5. CASE ~Diffing
    BY <1>0, <2>1, <2>2, <2>3, <2>5, StatusStays DEF Closing, Drained, Diffing
  <2>6. QED
    BY <2>4, <2>5
<1>8. CASE Receive
  <2>1. /\ open' = open /\ round' = round /\ write' = write /\ scan' = scan
        /\ remaining' = remaining
    BY <1>8 DEF Receive
  <2>2. /\ write = "running"
        /\ \A c \in Channels : c # "gated" => chan'[c] = chan[c]
    BY <1>8, ReceiveMoves
  <2>3. QED
    BY <1>0, <2>1, <2>2, StatusStays DEF Closing, Drained, Diffing, reportCh
<1>9. CASE WriteReturns
  BY <1>0, <1>9 DEF WriteReturns, Closing, Drained, Diffing, reportCh
<1>10. CASE NextRun
  BY <1>10 DEF NextRun, StartRun, Closing, Drained, Diffing, reportCh, Channels
<1>11. ASSUME NEW f \in Findings, Emit(f)
       PROVE  Closing'
  <2>1. /\ open' = open /\ round' = round /\ write' = write /\ scan' = scan
        /\ remaining' = remaining
    BY <1>11 DEF Emit
  <2>2. /\ scan = "running"
        /\ \A c \in Channels : c # "findings" => chan'[c] = chan[c]
    BY <1>11, EmitMoves
  <2>3. QED
    BY <1>0, <2>1, <2>2, StatusStays DEF Closing, Drained, Diffing, reportCh
<1>12. QED
  BY <1>1, <1>2, <1>3, <1>4, <1>5, <1>6, <1>7, <1>8, <1>9, <1>10, <1>11
     DEF Next, Stage, Main


-----------------------------------------------------------------------------
(* The baseline, and what has come past Diff.                               *)

LEMMA NextRemembered ==
  ASSUME Typed, Remembered, [Next]_vars
  PROVE  Remembered'
<1> USE DEF roundVars, scanVars, stageVars, reportVars
<1>0. Typed /\ Remembered
  OBVIOUS
<1>1. CASE NextRun
  <2>1. baseline' = Index(report) /\ previous' = report /\ round' = round + 1
    BY <1>1 DEF NextRun, StartRun
  <2>2. Diffing'
    BY <1>0, <2>1 DEF Typed, Diffing
  <2>3. QED
    BY <1>0, <2>1, <2>2, IndexOfReport DEF Remembered
<1>2. CASE ~NextRun
  <2>1. baseline' = baseline /\ previous' = previous /\ round' = round
    BY <1>2 DEF Next, Stage, Main, Cancel, FeedEnds, CheckFails, ScanEnds, Dedupe, Diff,
       Resolve, Tap, CloseStage, Close, Receive, WriteReturns, Finish, Emit, vars
  <2>2. QED
    BY <1>0, <2>1 DEF Remembered, Diffing
<1>3. QED
  BY <1>1, <1>2

\* The steps that concern the channel between Dedupe and Diff, Diff's index, or
\* what Dedupe has seen.
LEMMA IndexSteps ==
  ASSUME Typed, [Next]_vars
  PROVE  \/ Dedupe \/ Diff \/ Resolve \/ Tap \/ NextRun
         \/ /\ seen' = seen /\ remaining' = remaining /\ baseline' = baseline
            /\ round' = round /\ chan'["deduped"] = chan["deduped"]
            /\ open' \subseteq open
<1> USE DEF roundVars, scanVars, stageVars, reportVars
<1>1. ASSUME NEW f \in Findings, Emit(f)
      PROVE  /\ seen' = seen /\ remaining' = remaining /\ baseline' = baseline
             /\ round' = round /\ chan'["deduped"] = chan["deduped"]
             /\ open' \subseteq open
  <2>1. chan'["deduped"] = chan["deduped"]
    BY <1>1, EmitMoves, StatusStays
  <2>2. QED
    BY <1>1, <2>1 DEF Emit
<1>2. ASSUME Cancel \/ FeedEnds \/ CheckFails \/ ScanEnds \/ CloseStage \/ WriteReturns
             \/ Finish \/ UNCHANGED vars
      PROVE  /\ seen' = seen /\ remaining' = remaining /\ baseline' = baseline
             /\ round' = round /\ chan' = chan
             /\ open' \subseteq open
  BY <1>2 DEF Cancel, FeedEnds, CheckFails, ScanEnds, CloseStage, Close, WriteReturns, Finish, vars
<1>3. ASSUME Receive
      PROVE  /\ seen' = seen /\ remaining' = remaining /\ baseline' = baseline
             /\ round' = round /\ open' = open
  BY <1>3 DEF Receive
<1>4. QED
  BY <1>1, <1>2, <1>3, ReceiveMoves, StatusStays DEF Next, Stage, Main


LEMMA NextSingle ==
  ASSUME Typed, Single, [Next]_vars
  PROVE  Single'
<1> USE DEF roundVars, scanVars, stageVars, reportVars
<1>0. Typed /\ Single /\ chan["deduped"] \in Seq(Found)
  BY StatusStays DEF Typed
<1>1. CASE seen' = seen /\ chan'["deduped"] = chan["deduped"]
  BY <1>0, <1>1 DEF Single
<1>2. ASSUME NEW r \in Found, r.key \notin seen,
             chan'["deduped"] = Append(chan["deduped"], r),
             seen' = seen \cup ({r.key} \ {NoKey})
      PROVE  Single'
  <2> DEFINE s == chan["deduped"]
             t == chan'["deduped"]
  <2>1. /\ Len(s) \in Nat /\ DOMAIN s = 1..Len(s) /\ DOMAIN t = 1..(Len(s) + 1)
        /\ \A i \in 1..Len(s) : t[i] = s[i]
        /\ t[Len(s) + 1] = r
    BY <1>0, <1>2, AppendFacts
  <2>2. /\ \A i \in 1..Len(s) : s[i].key \in seen \cup {NoKey}
        /\ \A i, j \in 1..Len(s) : i < j /\ s[i].key = s[j].key => s[i].key = NoKey
    BY <1>0, <2>1 DEF Single
  <2> HIDE DEF s, t
  <2>3. \A i \in DOMAIN t : i \in 1..Len(s) \/ i = Len(s) + 1
    BY <2>1
  <2>4. \A i \in DOMAIN t : t[i].key \in seen' \cup {NoKey}
    BY <1>2, <2>1, <2>2, <2>3
  <2>5. ASSUME NEW i \in DOMAIN t, NEW j \in DOMAIN t, i < j, t[i].key = t[j].key
        PROVE  t[i].key = NoKey
    <3>1. i \in 1..Len(s)
      BY <2>1, <2>3, <2>5
    <3>2. CASE j \in 1..Len(s)
      BY <2>1, <2>2, <2>5, <3>1, <3>2
    <3>3. CASE j = Len(s) + 1
      <4>1. t[i] = s[i] /\ t[j] = r /\ s[i].key \in seen \cup {NoKey}
        BY <2>1, <2>2, <3>1, <3>3
      <4>2. QED
        BY <1>2, <2>5, <4>1
    <3>4. QED
      BY <2>3, <3>2, <3>3
  <2>6. QED
    BY <2>4, <2>5 DEF Single, t
<1>3. ASSUME chan["deduped"] # <<>>, chan'["deduped"] = Tail(chan["deduped"]), seen' = seen
      PROVE  Single'
  <2> DEFINE s == chan["deduped"]
             t == chan'["deduped"]
  <2>1. /\ Len(s) \in Nat \ {0} /\ DOMAIN s = 1..Len(s) /\ DOMAIN t = 1..(Len(s) - 1)
        /\ \A i \in 1..(Len(s) - 1) : t[i] = s[i + 1]
    BY <1>0, <1>3, TailFacts
  <2>2. /\ \A i \in DOMAIN s : s[i].key \in seen \cup {NoKey}
        /\ \A i, j \in DOMAIN s : i < j /\ s[i].key = s[j].key => s[i].key = NoKey
    BY <1>0 DEF Single
  <2> HIDE DEF s, t
  <2>3. \A i \in DOMAIN t : i + 1 \in DOMAIN s /\ t[i] = s[i + 1]
    BY <2>1
  <2>4. \A i, j \in DOMAIN t : i < j => i + 1 < j + 1
    BY <2>1
  <2>5. \A i \in DOMAIN t : t[i].key \in seen \cup {NoKey}
    BY <2>2, <2>3
  <2>6. \A i, j \in DOMAIN t : i < j /\ t[i].key = t[j].key => t[i].key = NoKey
    BY <2>2, <2>3, <2>4
  <2>7. QED
    BY <1>3, <2>5, <2>6 DEF Single, t
<1>4. CASE Dedupe
  BY <1>1, <1>2, <1>4, DedupeMoves
<1>5. CASE Diff
  BY <1>3, <1>5, DiffMoves DEF Diff
<1>6. CASE Resolve
  BY <1>1, <1>6, ResolveMoves, StatusStays DEF Resolve
<1>7. CASE Tap
  <2>1. seen' = seen
    BY <1>7 DEF Tap
  <2>2. CASE Diffing
    BY <1>1, <1>7, <2>1, <2>2, TapMoves, StatusStays
  <2>3. CASE ~Diffing
    BY <1>3, <1>7, <2>1, <2>3, TapMoves, StatusStays
  <2>4. QED
    BY <2>2, <2>3
<1>8. CASE NextRun
  BY <1>8 DEF NextRun, StartRun, Single, Channels
<1>9. QED
  BY <1>1, <1>4, <1>5, <1>6, <1>7, <1>8, IndexSteps

\* Dedupe has seen every key that has left Diff's index, as long as anything
\* can still reach Diff.
LEMMA NextIndexed ==
  ASSUME Typed, Closing, Remembered, Single, Indexed, [Next]_vars
  PROVE  Indexed'
<1> USE DEF roundVars, scanVars, stageVars, reportVars
<1>0. /\ Typed /\ Closing /\ Single /\ Indexed /\ chan["deduped"] \in Seq(Found)
      /\ NoKey \notin Spent
  BY StatusStays DEF Typed, Remembered, Spent, Keys
<1> DEFINE d == chan["deduped"]
<1>1. CASE /\ seen' = seen /\ remaining' = remaining /\ baseline' = baseline
           /\ round' = round /\ chan'["deduped"] = chan["deduped"]
           /\ open' \subseteq open
  BY <1>0, <1>1 DEF Indexed, Spent, Drained, Diffing, Keys
<1>2. CASE Dedupe
  <2>1. /\ remaining' = remaining /\ baseline' = baseline /\ round' = round /\ open' = open
    BY <1>2 DEF Dedupe
  <2>2. Spent' = Spent /\ seen \subseteq seen'
    BY <1>2, <2>1, DedupeMoves DEF Spent, Keys
  <2>3. ~Drained("deduped")
    BY <1>0, <1>2, DedupeMoves DEF Closing, Drained
  <2>4. \A k \in Spent : k \in seen
    BY <1>0, <2>3 DEF Indexed
  <2>5. \A i \in DOMAIN chan'["deduped"] : chan'["deduped"][i].key \notin Spent
    <3>1. CASE chan'["deduped"] = chan["deduped"]
      BY <1>0, <3>1 DEF Indexed
    <3>2. ASSUME NEW r \in Found, r.key \notin seen,
                 chan'["deduped"] = Append(chan["deduped"], r)
          PROVE  \A i \in DOMAIN chan'["deduped"] : chan'["deduped"][i].key \notin Spent
      <4>1. /\ DOMAIN d = 1..Len(d) /\ DOMAIN chan'["deduped"] = 1..(Len(d) + 1)
            /\ \A i \in 1..Len(d) : chan'["deduped"][i] = d[i]
            /\ chan'["deduped"][Len(d) + 1] = r /\ Len(d) \in Nat
        BY <1>0, <3>2, AppendFacts
      <4>2. r.key \notin Spent
        BY <2>4, <3>2
      <4>3. \A i \in 1..Len(d) : d[i].key \notin Spent
        BY <1>0, <4>1 DEF Indexed
      <4>4. \A i \in 1..(Len(d) + 1) : i \in 1..Len(d) \/ i = Len(d) + 1
        BY <4>1
      <4>5. QED
        BY <4>1, <4>2, <4>3, <4>4
    <3>3. QED
      BY <1>2, <3>1, <3>2, DedupeMoves
  <2>6. QED
    BY <1>0, <2>1, <2>2, <2>4, <2>5 DEF Indexed, Diffing
<1>3. CASE Diff
  <2>1. /\ seen' = seen /\ baseline' = baseline /\ round' = round /\ open' = open
    BY <1>3 DEF Diff
  <2>2. PICK r \in Found : /\ r = Head(d)
                           /\ remaining' = {b \in remaining : b.key # r.key}
    BY <1>3, DiffMoves
  <2>3. d # <<>> /\ chan'["deduped"] = Tail(d) /\ Diffing
    BY <1>3, DiffMoves
  <2>4. /\ Len(d) \in Nat \ {0} /\ DOMAIN d = 1..Len(d)
        /\ DOMAIN Tail(d) = 1..(Len(d) - 1)
        /\ \A i \in 1..(Len(d) - 1) : Tail(d)[i] = d[i + 1]
        /\ r = d[1] /\ 1 \in DOMAIN d
    BY <1>0, <2>2, <2>3, TailFacts
  <2>5. Spent' \subseteq Spent \cup {r.key}
    BY <2>1, <2>2 DEF Spent, Keys
  <2>6. Spent' # {} => Diffing'
    BY <2>1, <2>3 DEF Diffing
  <2>7. \A k \in Keys(baseline) : k # NoKey
    BY DEF Remembered, Keys
  <2>8. \A k \in Spent' : k \in Keys(baseline)
    BY <2>1 DEF Spent
  <2>9. ASSUME NEW k \in Spent'
        PROVE  k \in seen
    <3>1. CASE k = r.key
      <4>1. r.key \in seen \cup {NoKey}
        BY <1>0, <2>4 DEF Single
      <4>2. QED
        BY <2>7, <2>8, <3>1, <4>1
    <3>2. CASE k \in Spent
      BY <1>0, <2>3, <3>2 DEF Indexed, Drained
    <3>3. QED
      BY <2>5, <3>1, <3>2
  <2>10. ASSUME NEW i \in DOMAIN chan'["deduped"]
         PROVE  chan'["deduped"][i].key \notin Spent'
    <3>1. /\ i + 1 \in DOMAIN d /\ chan'["deduped"][i] = d[i + 1] /\ 1 < i + 1
      BY <2>3, <2>4, <2>10
    <3>2. d[i + 1].key \notin Spent
      BY <1>0, <3>1 DEF Indexed
    <3>3. d[i + 1].key = r.key => r.key = NoKey
      BY <1>0, <2>4, <3>1 DEF Single
    <3>4. QED
      BY <2>5, <2>7, <2>8, <3>1, <3>2, <3>3
  <2>11. QED
    BY <2>1, <2>6, <2>9, <2>10 DEF Indexed
<1>4. CASE Resolve
  <2>1. /\ seen' = seen /\ baseline' = baseline /\ round' = round /\ open' = open
    BY <1>4 DEF Resolve
  <2>2. Diffing /\ Drained("deduped") /\ chan'["deduped"] = chan["deduped"]
    BY <1>4, ResolveMoves, StatusStays
  <2>3. Drained("deduped")' /\ Diffing' /\ DOMAIN chan'["deduped"] = {}
    <3>1. DOMAIN <<>> = {}
      OBVIOUS
    <3>2. QED
      BY <2>1, <2>2, <3>1 DEF Drained, Diffing
  <2>4. QED
    BY <2>3 DEF Indexed
<1>5. CASE Tap
  <2>1. /\ seen' = seen /\ remaining' = remaining /\ baseline' = baseline
        /\ round' = round /\ open' = open
    BY <1>5 DEF Tap
  <2>2. CASE Diffing
    BY <1>1, <1>5, <2>1, <2>2, TapMoves, StatusStays
  <2>3. CASE ~Diffing
    BY <1>0, <2>1, <2>3 DEF Indexed, Spent, Diffing, Keys
  <2>4. QED
    BY <2>2, <2>3
<1>6. CASE NextRun
  <2>1. baseline' = remaining'
    BY <1>6 DEF NextRun, StartRun
  <2>2. Spent' = {}
    BY <2>1 DEF Spent
  <2>3. QED
    BY <2>2 DEF Indexed
<1>7. QED
  BY <1>1, <1>2, <1>3, <1>4, <1>5, <1>6, IndexSteps


-----------------------------------------------------------------------------
(* The status of a row.                                                     *)

LEMMA HonestMoves ==
  ASSUME NEW S, NEW s \in Seq(S), Honest(s)
  PROVE  /\ \A r \in S : (r.key \in Keys(baseline) => r.status # "new") =>
                           Honest(Append(s, r))
         /\ s # <<>> => /\ Head(s).key \in Keys(baseline) => Head(s).status # "new"
                        /\ Honest(Tail(s))
<1>1. ASSUME NEW r \in S, r.key \in Keys(baseline) => r.status # "new"
      PROVE  Honest(Append(s, r))
  <2> DEFINE t == Append(s, r)
  <2>1. /\ Len(s) \in Nat /\ DOMAIN s = 1..Len(s) /\ DOMAIN t = 1..(Len(s) + 1)
        /\ \A i \in 1..Len(s) : t[i] = s[i]
        /\ t[Len(s) + 1] = r
    BY AppendFacts
  <2> HIDE DEF t
  <2>2. \A i \in DOMAIN t : i \in DOMAIN s \/ i = Len(s) + 1
    BY <2>1
  <2>3. QED
    BY <1>1, <2>1, <2>2 DEF Honest, t
<1>2. ASSUME s # <<>>
      PROVE  /\ Head(s).key \in Keys(baseline) => Head(s).status # "new"
             /\ Honest(Tail(s))
  <2> DEFINE t == Tail(s)
  <2>1. /\ Len(s) \in Nat \ {0} /\ DOMAIN s = 1..Len(s) /\ DOMAIN t = 1..(Len(s) - 1)
        /\ \A i \in 1..(Len(s) - 1) : t[i] = s[i + 1]
        /\ Head(s) = s[1]
    BY <1>2, TailFacts
  <2> HIDE DEF t
  <2>2. \A i \in DOMAIN t : i + 1 \in DOMAIN s /\ t[i] = s[i + 1]
    BY <2>1
  <2>3. 1 \in DOMAIN s
    BY <2>1
  <2>4. QED
    BY <2>1, <2>2, <2>3 DEF Honest, t
<1>3. QED
  BY <1>1, <1>2

\* The steps that concern a row beyond Diff.
LEMMA RowSteps ==
  ASSUME Typed, [Next]_vars
  PROVE  \/ Diff \/ Resolve \/ Tap \/ Receive \/ NextRun
         \/ /\ baseline' = baseline /\ round' = round /\ report' = report
            /\ chan'["diffed"] = chan["diffed"] /\ chan'["gated"] = chan["gated"]
<1> USE DEF roundVars, scanVars, stageVars, reportVars
<1>1. ASSUME NEW f \in Findings, Emit(f)
      PROVE  /\ baseline' = baseline /\ round' = round /\ report' = report
             /\ chan'["diffed"] = chan["diffed"] /\ chan'["gated"] = chan["gated"]
  <2>1. chan'["diffed"] = chan["diffed"] /\ chan'["gated"] = chan["gated"]
    BY <1>1, EmitMoves, StatusStays
  <2>2. QED
    BY <1>1, <2>1 DEF Emit
<1>2. ASSUME Cancel \/ FeedEnds \/ CheckFails \/ ScanEnds \/ CloseStage \/ WriteReturns
             \/ Finish \/ UNCHANGED vars
      PROVE  baseline' = baseline /\ round' = round /\ report' = report /\ chan' = chan
  BY <1>2 DEF Cancel, FeedEnds, CheckFails, ScanEnds, CloseStage, Close, WriteReturns, Finish, vars
<1>3. ASSUME Dedupe
      PROVE  /\ baseline' = baseline /\ round' = round /\ report' = report
             /\ chan'["diffed"] = chan["diffed"] /\ chan'["gated"] = chan["gated"]
  <2>1. chan'["diffed"] = chan["diffed"] /\ chan'["gated"] = chan["gated"]
    BY <1>3, DedupeMoves
  <2>2. QED
    BY <1>3, <2>1 DEF Dedupe
<1>4. QED
  BY <1>1, <1>2, <1>3 DEF Next, Stage, Main

LEMMA NextJudged ==
  ASSUME Typed, Indexed, Judged, [Next]_vars
  PROVE  Judged'
<1> USE DEF roundVars, scanVars, stageVars, reportVars
<1>0. /\ Typed /\ Indexed /\ Judged
      /\ chan["diffed"] \in Seq(Found) /\ chan["gated"] \in Seq(Found)
      /\ chan["deduped"] \in Seq(Found) /\ report \in Seq(Found)
  BY StatusStays DEF Typed
<1>1. CASE NextRun
  <2>1. chan'["diffed"] = <<>> /\ chan'["gated"] = <<>> /\ report' = <<>>
    BY <1>1, StatusStays DEF NextRun, StartRun
  <2>2. DOMAIN <<>> = {}
    OBVIOUS
  <2>3. QED
    BY <2>1, <2>2 DEF Judged, Honest
<1>2. CASE /\ baseline' = baseline /\ round' = round /\ report' = report
           /\ chan'["diffed"] = chan["diffed"] /\ chan'["gated"] = chan["gated"]
  BY <1>0, <1>2 DEF Judged, Honest, Diffing
<1> SUFFICES ASSUME Diff \/ Resolve \/ Tap \/ Receive
             PROVE  Judged'
  BY <1>1, <1>2, RowSteps
<1>3. baseline' = baseline /\ round' = round
  BY DEF Diff, Resolve, Tap, Receive
<1>4. SUFFICES ASSUME Diffing
               PROVE  Honest(chan'["diffed"]) /\ Honest(chan'["gated"]) /\ Honest(report')
  BY <1>3 DEF Judged, Diffing, Honest
<1>5. Honest(chan["diffed"]) /\ Honest(chan["gated"]) /\ Honest(report)
  BY <1>0, <1>4 DEF Judged
<1>6. CASE Diff
  <2>1. report' = report /\ chan'["gated"] = chan["gated"]
    BY <1>6, DiffMoves DEF Diff
  <2>2. PICK r, q \in Found :
          /\ r = Head(chan["deduped"]) /\ q.key = r.key /\ q.status = Status(r)
          /\ chan'["diffed"] = Append(chan["diffed"], q)
    BY <1>6, DiffMoves
  <2>3. r.key \notin Spent
    <3>1. chan["deduped"] # <<>>
      BY <1>6, DiffMoves
    <3>2. r = chan["deduped"][1] /\ 1 \in DOMAIN chan["deduped"]
      BY <1>0, <2>2, <3>1, TailFacts
    <3>3. QED
      BY <1>0, <3>2 DEF Indexed
  <2>4. q.key \in Keys(baseline) => q.status # "new"
    BY <2>2, <2>3 DEF Spent, Status
  <2>5. Honest(chan'["diffed"])
    BY <1>0, <1>5, <2>2, <2>4, HonestMoves
  <2>6. QED
    BY <1>5, <2>1, <2>5
<1>7. CASE Resolve
  <2>1. report' = report /\ chan'["gated"] = chan["gated"]
    BY <1>7, ResolveMoves, StatusStays DEF Resolve
  <2>2. PICK r \in Found : r.status = "resolved" /\ chan'["diffed"] = Append(chan["diffed"], r)
    BY <1>7, ResolveMoves
  <2>3. r.key \in Keys(baseline) => r.status # "new"
    BY <2>2
  <2>4. Honest(chan'["diffed"])
    BY <1>0, <1>5, <2>2, <2>3, HonestMoves
  <2>5. QED
    BY <1>5, <2>1, <2>4
<1>8. CASE Tap
  <2>1. report' = report /\ reportCh = "diffed"
    BY <1>4, <1>8, StatusStays DEF Tap
  <2>2. chan["diffed"] # <<>> /\ chan'["diffed"] = Tail(chan["diffed"])
    BY <1>8, <2>1, TapMoves
  <2>3. PICK r \in Found : r = Head(chan["diffed"]) /\ chan'["gated"] = Append(chan["gated"], r)
    BY <1>8, <2>1, TapMoves
  <2>4. Honest(chan'["diffed"]) /\ (r.key \in Keys(baseline) => r.status # "new")
    BY <1>0, <1>5, <2>2, <2>3, HonestMoves
  <2>5. Honest(chan'["gated"])
    BY <1>0, <1>5, <2>3, <2>4, HonestMoves
  <2>6. QED
    BY <1>5, <2>1, <2>4, <2>5
<1>9. CASE Receive
  <2>1. /\ chan["gated"] # <<>> /\ chan'["gated"] = Tail(chan["gated"])
        /\ chan'["diffed"] = chan["diffed"]
    BY <1>9, ReceiveMoves, StatusStays
  <2>2. /\ Honest(chan'["gated"])
        /\ Head(chan["gated"]).key \in Keys(baseline) => Head(chan["gated"]).status # "new"
    BY <1>0, <1>5, <2>1, HonestMoves
  <2>3. report' = report \/ \E r \in Found : r = Head(chan["gated"]) /\ report' = Append(report, r)
    BY <1>9, ReceiveMoves
  <2>4. Honest(report')
    BY <1>0, <1>5, <2>2, <2>3, HonestMoves
  <2>5. QED
    BY <1>5, <2>1, <2>2, <2>4
<1>10. QED
  BY <1>6, <1>7, <1>8, <1>9

-----------------------------------------------------------------------------
(* The severity that the gate keeps.                                        *)

\* The steps that concern it.
LEMMA GateSteps ==
  ASSUME Typed, [Next]_vars
  PROVE  \/ Tap \/ Receive \/ NextRun
         \/ /\ worst' = worst /\ report' = report /\ chan'["gated"] = chan["gated"]
            /\ round' = round /\ broken' = broken
<1> USE DEF roundVars, scanVars, stageVars, reportVars
<1>1. ASSUME NEW f \in Findings, Emit(f)
      PROVE  /\ worst' = worst /\ report' = report /\ chan'["gated"] = chan["gated"]
             /\ round' = round /\ broken' = broken
  <2>1. chan'["gated"] = chan["gated"]
    BY <1>1, EmitMoves, StatusStays
  <2>2. QED
    BY <1>1, <2>1 DEF Emit
<1>2. ASSUME Cancel \/ FeedEnds \/ CheckFails \/ ScanEnds \/ CloseStage \/ WriteReturns
             \/ Finish \/ UNCHANGED vars
      PROVE  /\ worst' = worst /\ report' = report /\ chan' = chan
             /\ round' = round /\ broken' = broken
  BY <1>2 DEF Cancel, FeedEnds, CheckFails, ScanEnds, CloseStage, Close, WriteReturns, Finish, vars
<1>3. ASSUME Dedupe \/ Diff \/ Resolve
      PROVE  /\ worst' = worst /\ report' = report /\ chan'["gated"] = chan["gated"]
             /\ round' = round /\ broken' = broken
  <2>1. worst' = worst /\ report' = report /\ round' = round /\ broken' = broken
    BY <1>3 DEF Dedupe, Diff, Resolve
  <2>2. chan'["gated"] = chan["gated"]
    BY <1>3, DedupeMoves, DiffMoves, ResolveMoves, StatusStays
  <2>3. QED
    BY <2>1, <2>2
<1>4. QED
  BY <1>1, <1>2, <1>3 DEF Next, Stage, Main

LEMMA NextWeighed ==
  ASSUME Typed, Weighed, [Next]_vars
  PROVE  Weighed'
<1> USE DEF roundVars, scanVars, stageVars, reportVars
<1>0. /\ Typed /\ Weighed
      /\ chan["gated"] \in Seq(Found) /\ report \in Seq(Found)
      /\ worst \in Nat \cup {-1}
  BY StatusStays DEF Typed
<1>1. \A r \in Beyond : r \in Found /\ r.sev \in Nat
  BY <1>0, ItemsOfSeq DEF Beyond, Found, Rows
<1>2. CASE /\ worst' = worst /\ report' = report /\ chan'["gated"] = chan["gated"]
           /\ round' = round /\ broken' = broken
  BY <1>0, <1>2 DEF Weighed, Beyond, Counts, Diffing
<1>3. CASE NextRun
  <2>1. chan'["gated"] = <<>> /\ report' = <<>> /\ worst' = -1
    BY <1>3, StatusStays DEF NextRun, StartRun
  <2>2. DOMAIN <<>> = {}
    OBVIOUS
  <2>3. Beyond' = {}
    BY <2>1, <2>2 DEF Beyond, Range
  <2>4. QED
    BY <2>1, <2>3 DEF Weighed
<1>4. CASE Tap
  <2>1. report' = report /\ broken' = broken /\ round' = round
    BY <1>4 DEF Tap
  <2>2. PICK r \in Found :
          /\ chan'["gated"] = Append(chan["gated"], r)
          /\ worst' = IF Counts(r) /\ r.sev > worst THEN r.sev ELSE worst
    BY <1>4, TapMoves
  <2>3. Beyond' = Beyond \cup {r}
    <3>1. Range(chan'["gated"]) = Range(chan["gated"]) \cup {r}
      BY <1>0, <2>2, AppendFacts
    <3>2. QED
      BY <2>1, <3>1 DEF Beyond
  <2>4. \A q : Counts(q)' <=> Counts(q)
    BY <2>1 DEF Counts, Diffing
  <2>5. SUFFICES ASSUME ~broken
                 PROVE  /\ \A q \in Beyond' : Counts(q) => q.sev <= worst'
                        /\ worst' # -1 => \E q \in Beyond' : Counts(q) /\ q.sev = worst'
    BY <2>1, <2>4 DEF Weighed
  <2>6. /\ \A q \in Beyond : Counts(q) => q.sev <= worst
        /\ worst # -1 => \E q \in Beyond : Counts(q) /\ q.sev = worst
    BY <1>0, <2>5 DEF Weighed
  <2>7. r.sev \in Nat
    BY DEF Found, Rows
  <2>8. CASE Counts(r) /\ r.sev > worst
    <3>1. worst' = r.sev
      BY <2>2, <2>8
    <3>2. \A q \in Beyond : Counts(q) => q.sev <= r.sev
      BY <1>0, <1>1, <2>6, <2>7, <2>8
    <3>3. QED
      BY <2>3, <2>7, <2>8, <3>1, <3>2
  <2>9. CASE ~(Counts(r) /\ r.sev > worst)
    <3>1. worst' = worst
      BY <2>2, <2>9
    <3>2. Counts(r) => r.sev <= worst
      BY <1>0, <2>7, <2>9
    <3>3. QED
      BY <2>3, <2>6, <3>1, <3>2
  <2>10. QED
    BY <2>8, <2>9
<1>5. CASE Receive
  <2>1. worst' = worst /\ round' = round
    BY <1>5 DEF Receive
  <2>2. /\ chan["gated"] # <<>> /\ chan'["gated"] = Tail(chan["gated"])
        /\ \/ /\ broken' = broken
              /\ report' = Append(report, Head(chan["gated"]))
           \/ broken' = TRUE
    BY <1>5, ReceiveMoves
  <2>3. CASE broken' = TRUE
    BY <2>3 DEF Weighed
  <2>4. CASE broken' = broken /\ report' = Append(report, Head(chan["gated"]))
    <3>1. /\ Head(chan["gated"]) \in Found
          /\ Range(chan["gated"]) = {Head(chan["gated"])} \cup Range(chan'["gated"])
      BY <1>0, <2>2, TailFacts
    <3>2. Range(report') = Range(report) \cup {Head(chan["gated"])}
      BY <1>0, <2>4, <3>1, AppendFacts
    <3>3. Beyond' = Beyond
      BY <3>1, <3>2 DEF Beyond
    <3>4. QED
      BY <1>0, <2>1, <2>4, <3>3 DEF Weighed, Counts, Diffing
  <2>5. QED
    BY <2>2, <2>3, <2>4
<1>6. QED
  BY <1>2, <1>3, <1>4, <1>5, GateSteps

-----------------------------------------------------------------------------
(* The exit code.                                                           *)

\* Once the reporter has returned without an error, and the scanner and the
\* feeder have, nothing is behind the gate's Tap any more.
LEMMA NothingIsBehind ==
  ASSUME Typed, Closing, write # "running"
  PROVE  /\ "gated" \notin open /\ chan["gated"] = <<>> /\ chan[reportCh] = <<>>
         /\ reportCh \notin open
         /\ chan["deduped"] = <<>> /\ "deduped" \notin open
         /\ Diffing => remaining = {}
         /\ chan["findings"] = <<>> /\ scan # "running"
<1>1. Drained("gated") /\ Drained(reportCh)
  BY DEF Closing, Drained
<1>2. CASE Diffing
  BY <1>1, <1>2, StatusStays DEF Closing, Drained
<1>3. CASE ~Diffing
  BY <1>1, <1>3, StatusStays DEF Closing, Drained
<1>4. QED
  BY <1>1, <1>2, <1>3 DEF Drained

LEMMA NextDecided ==
  ASSUME Typed, Closing, Decided, [Next]_vars
  PROVE  Decided'
<1> USE DEF roundVars, scanVars, stageVars, reportVars
<1>0. Typed /\ Closing /\ Decided
  OBVIOUS
<1>1. CASE NextRun
  <2>1. exit' = Undecided /\ write' = "running"
    BY <1>1 DEF NextRun, StartRun
  <2>2. QED
    BY <2>1 DEF Decided, Undecided, exitOK, exitFindings
<1>2. CASE Finish
  <2>1. /\ write' = write /\ broken' = broken /\ scan' = scan /\ feed' = feed
        /\ write # "running" /\ scan # "running" /\ feed # "running"
    BY <1>2 DEF Finish
  <2>2. checkErrs' = checkErrs /\ ctxDone' = ctxDone /\ worst' = worst
    BY <1>2 DEF Finish
  <2>3. exit' = ExitCode
    BY <1>2 DEF Finish
  <2>4. ASSUME exit' \in {exitOK, exitFindings}
        PROVE  ~Failed /\ ~ctxDone /\ (exit' = exitFindings <=> Gate /\ worst >= FailOn)
    <3>1. CASE Failed
      BY <2>3, <2>4, <3>1 DEF ExitCode, exitOK, exitFindings, exitScanError, exitCanceled
    <3>2. CASE ~Failed /\ ctxDone
      BY <2>3, <2>4, <3>2 DEF ExitCode, exitOK, exitFindings, exitScanError, exitCanceled
    <3>3. CASE ~Failed /\ ~ctxDone
      BY <2>3, <2>4, <3>3 DEF ExitCode, exitOK, exitFindings, exitScanError, exitCanceled
    <3>4. QED
      BY <3>1, <3>2, <3>3
  <2>5. ~Failed /\ ~ctxDone => write = "ok" /\ scan = "ok" /\ feed = "ok" /\ ~checkErrs
    BY <1>0, <2>1 DEF Failed, Typed
  <2>6. write' = "ok" => ~broken'
    BY <1>0, <2>1 DEF Decided
  <2>7. QED
    BY <2>1, <2>2, <2>4, <2>5, <2>6 DEF Decided
<1>3. CASE WriteReturns
  <2>1. /\ exit' = exit /\ write = "running" /\ write' # "running" /\ broken' = broken
        /\ write' = "ok" => ~broken
    BY <1>3 DEF WriteReturns
  <2>2. exit = Undecided
    BY <1>0, <2>1 DEF Decided
  <2>3. QED
    BY <2>1, <2>2 DEF Decided, Undecided, exitOK, exitFindings
<1>4. CASE Receive
  <2>1. exit' = exit /\ write = "running" /\ write' = write
    BY <1>4 DEF Receive
  <2>2. exit = Undecided
    BY <1>0, <2>1 DEF Decided
  <2>3. QED
    BY <2>1, <2>2 DEF Decided, Undecided, exitOK, exitFindings
<1>5. CASE Cancel \/ FeedEnds \/ CheckFails \/ ScanEnds \/ \E f \in Findings : Emit(f)
  <2>1. exit' = exit /\ write' = write /\ broken' = broken
    BY <1>5 DEF Cancel, FeedEnds, CheckFails, ScanEnds, Emit
  <2>2. exit = Undecided
    BY <1>0, <1>5 DEF Decided, Cancel, FeedEnds, CheckFails, ScanEnds, Emit
  <2>3. QED
    BY <1>0, <2>1, <2>2 DEF Decided, Undecided, exitOK, exitFindings
<1>6. CASE Dedupe \/ Diff \/ Resolve \/ CloseStage \/ UNCHANGED vars
  <2>1. /\ exit' = exit /\ write' = write /\ broken' = broken /\ scan' = scan /\ feed' = feed
    BY <1>6 DEF Dedupe, Diff, Resolve, CloseStage, Close, vars
  <2>2. checkErrs' = checkErrs /\ ctxDone' = ctxDone /\ worst' = worst
    BY <1>6 DEF Dedupe, Diff, Resolve, CloseStage, Close, vars
  <2>3. QED
    BY <1>0, <2>1, <2>2 DEF Decided
<1>7. CASE Tap
  <2>1. /\ exit' = exit /\ write' = write /\ broken' = broken
    BY <1>7 DEF Tap
  <2>2. chan[reportCh] # <<>>
    BY <1>7, TapMoves
  <2>3. write = "running"
    BY <1>0, <2>2, NothingIsBehind
  <2>4. exit = Undecided
    BY <1>0, <2>3 DEF Decided
  <2>5. QED
    BY <2>1, <2>3, <2>4 DEF Decided, Undecided, exitOK, exitFindings
<1>8. QED
  BY <1>1, <1>2, <1>3, <1>4, <1>5, <1>6, <1>7 DEF Next, Stage, Main

-----------------------------------------------------------------------------
(* The invariant.                                                           *)

LEMMA InitPipeInv == Init => PipeInv
<1> SUFFICES ASSUME Init PROVE PipeInv
  OBVIOUS
<1>1. Typed /\ Closing
  BY InitTyped, InitClosing
<1>2. /\ \A c \in Channels : chan[c] = <<>>
      /\ report = <<>> /\ previous = <<>> /\ baseline = {} /\ remaining = {}
      /\ worst = -1 /\ write = "running" /\ exit = Undecided /\ round = 1
  BY DEF Init
<1>3. DOMAIN <<>> = {}
  OBVIOUS
<1>4. Remembered /\ Indexed /\ Single
  BY <1>2, <1>3, StatusStays DEF Remembered, Diffing, Range, Spent, Indexed, Single, Keys
<1>5. Judged
  BY <1>2 DEF Judged, Diffing
<1>6. Weighed
  BY <1>2, <1>3, StatusStays DEF Weighed, Beyond, Range
<1>7. Decided
  BY <1>2 DEF Decided, Undecided, exitOK, exitFindings
<1>8. QED
  BY <1>1, <1>4, <1>5, <1>6, <1>7 DEF PipeInv

LEMMA NextPipeInv == PipeInv /\ [Next]_vars => PipeInv'
BY NextTyped, NextClosing, NextRemembered, NextSingle, NextIndexed, NextJudged,
   NextWeighed, NextDecided DEF PipeInv

LEMMA PipeInvHolds == Spec => []PipeInv
BY InitPipeInv, NextPipeInv, PTL DEF Spec

-----------------------------------------------------------------------------
(* The report: what has been met, kept, put in line and resolved so far.    *)

\* How many of the findings Dedupe has met, what has its status, and which.
Met == Len(emitted) - Len(chan["findings"])
Line == (report \o chan["gated"]) \o chan["diffed"]
StatusIn == [f \in Findings |-> StatusOf(f)]

\* The status of a row before Diff, or without it.
Unset == ""

\* The findings that Dedupe has not met are the last ones that were sent.
Queued(sent, ahead) ==
  /\ Len(ahead) <= Len(sent)
  /\ \A i \in 1..Len(ahead) : ahead[i] = Row(sent[Len(sent) - Len(ahead) + i], Unset)

\* What Dedupe has seen of the first ones.
SeenOf(sent, met) == {sent[k].key : k \in 1..met} \ {NoKey}

\* at lists, in order, what it has kept of them; a key of theirs is among it.
Picked(at, sent, met) ==
  /\ \A i \in 1..Len(at) : at[i] \in Kept(sent) /\ at[i] <= met
  /\ \A i, j \in 1..Len(at) : i < j => at[i] < at[j]
  /\ \A k \in Kept(sent) : k <= met => \E i \in 1..Len(at) : at[i] = k
  /\ \A k \in 1..met : \E i \in 1..Len(at) : sent[at[i]].key = sent[k].key

\* The row r is the i-th of those kept, with its status.
TellsOf(r, sent, at, i, st) == r = Row(sent[at[i]], st[sent[at[i]]])

\* Of what was kept the last wait for their status, the others stand in line.
Placed(at, sent, waiting, line, st) ==
  /\ Len(waiting) <= Len(at)
  /\ \A i \in 1..Len(waiting) : waiting[i] = Row(sent[at[Len(at) - Len(waiting) + i]], Unset)
  /\ Len(at) - Len(waiting) <= Len(line)
  /\ \A i \in 1..(Len(at) - Len(waiting)) : TellsOf(line[i], sent, at, i, st)

\* What is left of the baseline is what no row is about, and beyond the first n
\* rows come those that did not come back, in the order of keys.
Settled(line, n, base, left) ==
  /\ left = {b \in base : \A i \in 1..Len(line) : line[i].key # b.key}
  /\ \A i \in (n + 1)..Len(line) :
       /\ \E b \in base : line[i] = Row(b, "resolved")
       /\ \A j \in 1..n : line[j].key # line[i].key
       /\ \A j \in (n + 1)..Len(line) : i < j => line[i].key < line[j].key
       /\ \A c \in left : line[i].key < c.key

Tallied(line, cs) ==
  \A s \in {"new", "persisting", "resolved"} :
    cs[s] = Cardinality({i \in 1..Len(line) : line[i].status = s})

Exact(at) ==
  /\ Queued(emitted, chan["findings"])
  /\ seen = SeenOf(emitted, Met)
  /\ Picked(at, emitted, Met)
  /\ Placed(at, emitted, chan["deduped"], Line, StatusIn)
  /\ Settled(Line, Len(at) - Len(chan["deduped"]), baseline, remaining)
  /\ Len(at) - Len(chan["deduped"]) < Len(Line) => Diffing /\ Drained("deduped")
  /\ Diffing => Tallied(Line, counts)

Reported ==
  /\ whole => write = "ok"
  /\ \A b, c \in baseline : b.key = c.key => b = c
  /\ ~Diffing => baseline = {}
  /\ ~broken => \E at \in Seq(Nat) : Exact(at)

-----------------------------------------------------------------------------
(* What becomes of these accounts when a sequence grows or shrinks.         *)

LEMMA ConcatFacts ==
  ASSUME NEW S, NEW s \in Seq(S), NEW t \in Seq(S)
  PROVE  /\ s \o t \in Seq(S) /\ Len(s) \in Nat /\ Len(t) \in Nat
         /\ Len(s \o t) = Len(s) + Len(t)
         /\ \A i \in 1..Len(s) : (s \o t)[i] = s[i]
         /\ \A i \in 1..Len(t) : (s \o t)[Len(s) + i] = t[i]
OBVIOUS

LEMMA SameSequence ==
  ASSUME NEW S, NEW s \in Seq(S), NEW t \in Seq(S), Len(s) = Len(t),
         \A i \in 1..Len(s) : s[i] = t[i]
  PROVE  s = t
OBVIOUS

LEMMA ConcatEmpty ==
  ASSUME NEW S, NEW s \in Seq(S)
  PROVE  s \o <<>> = s
OBVIOUS

LEMMA ConcatAppend ==
  ASSUME NEW S, NEW s \in Seq(S), NEW t \in Seq(S), NEW r \in S
  PROVE  s \o Append(t, r) = Append(s \o t, r)
OBVIOUS

LEMMA ConcatMoves ==
  ASSUME NEW S, NEW s \in Seq(S), NEW t \in Seq(S), t # <<>>
  PROVE  Append(s, Head(t)) \o Tail(t) = s \o t
OBVIOUS

LEMMA SubSeqFacts ==
  ASSUME NEW S, NEW s \in Seq(S), NEW m \in Nat, NEW n \in Nat, m <= n, n <= Len(s)
  PROVE  /\ SubSeq(s, m + 1, n) \in Seq(S)
         /\ DOMAIN SubSeq(s, m + 1, n) = 1..(n - m)
         /\ \A i \in 1..(n - m) : SubSeq(s, m + 1, n)[i] = s[m + i]
OBVIOUS

LEMMA KeptOf ==
  ASSUME NEW sent \in Seq(Findings), NEW k \in 1..Len(sent)
  PROVE  k \in Kept(sent) <=>
           sent[k].key = NoKey \/ \A j \in 1..(k - 1) : sent[j].key # sent[k].key
BY DEF Kept

LEMMA KeptAreSent ==
  ASSUME NEW sent \in Seq(Findings), NEW k \in Kept(sent)
  PROVE  k \in 1..Len(sent) /\ k \in Nat \ {0} /\ sent[k] \in Findings
BY DEF Kept

LEMMA KeptStays ==
  ASSUME NEW sent \in Seq(Findings), NEW f \in Findings, NEW k \in 1..Len(sent)
  PROVE  k \in Kept(Append(sent, f)) <=> k \in Kept(sent)
<1> DEFINE more == Append(sent, f)
<1>1. /\ more \in Seq(Findings) /\ k \in 1..Len(more) /\ Len(sent) \in Nat
      /\ \A i \in 1..Len(sent) : more[i] = sent[i]
  BY AppendFacts
<1>2. \A j \in 1..(k - 1) : j \in 1..Len(sent)
  BY <1>1
<1> HIDE DEF more
<1>3. more[k] = sent[k] /\ \A j \in 1..(k - 1) : more[j] = sent[j]
  BY <1>1, <1>2
<1>4. QED
  BY ZenonT(60), <1>1, <1>3, KeptOf DEF more

LEMMA QueuedSends ==
  ASSUME NEW sent \in Seq(Findings), NEW ahead \in Seq(Found), NEW f \in Findings,
         NEW r \in Found, r = Row(f, Unset), Queued(sent, ahead)
  PROVE  /\ Queued(Append(sent, f), Append(ahead, r))
         /\ Len(Append(sent, f)) - Len(Append(ahead, r)) = Len(sent) - Len(ahead)
<1> DEFINE more == Append(sent, f)
           longer == Append(ahead, r)
<1>1. /\ more \in Seq(Findings) /\ more[Len(sent) + 1] = f
      /\ \A i \in 1..Len(sent) : more[i] = sent[i]
  OBVIOUS
<1>2. /\ longer \in Seq(Found) /\ longer[Len(ahead) + 1] = r
      /\ \A i \in 1..Len(ahead) : longer[i] = ahead[i]
  OBVIOUS
<1>3. /\ Len(sent) \in Nat /\ Len(more) = Len(sent) + 1
      /\ Len(ahead) \in Nat /\ Len(longer) = Len(ahead) + 1
  OBVIOUS
<1> HIDE DEF more, longer
<1>4. Len(ahead) <= Len(sent)
  BY DEF Queued
<1>5. Len(longer) <= Len(more) /\ Len(more) - Len(longer) = Len(sent) - Len(ahead)
  BY <1>3, <1>4
<1>6. ASSUME NEW i \in 1..Len(longer)
      PROVE  longer[i] = Row(more[Len(more) - Len(longer) + i], Unset)
  <2>1. CASE i = Len(ahead) + 1
    <3>1. Len(more) - Len(longer) + i = Len(sent) + 1
      BY <1>3, <2>1
    <3>2. QED
      BY <1>1, <1>2, <2>1, <3>1
  <2>2. CASE i # Len(ahead) + 1
    <3>1. i \in 1..Len(ahead)
      BY <1>3, <2>2
    <3>2. ahead[i] = Row(sent[Len(sent) - Len(ahead) + i], Unset)
      BY <3>1 DEF Queued
    <3>3. Len(sent) - Len(ahead) + i \in 1..Len(sent)
      BY <1>3, <1>4, <3>1
    <3>4. Len(more) - Len(longer) + i = Len(sent) - Len(ahead) + i
      BY <1>5
    <3>5. QED
      BY <1>1, <1>2, <3>1, <3>2, <3>3, <3>4
  <2>3. QED
    BY <2>1, <2>2
<1>7. QED
  BY <1>5, <1>6 DEF Queued, more, longer

LEMMA QueuedDrops ==
  ASSUME NEW sent \in Seq(Findings), NEW ahead \in Seq(Found), ahead # <<>>,
         Queued(sent, ahead)
  PROVE  /\ Queued(sent, Tail(ahead))
         /\ Len(sent) - Len(Tail(ahead)) = Len(sent) - Len(ahead) + 1
         /\ Len(sent) - Len(ahead) \in Nat
         /\ Len(sent) - Len(ahead) + 1 \in 1..Len(sent)
         /\ Head(ahead) = Row(sent[Len(sent) - Len(ahead) + 1], Unset)
<1> DEFINE rest == Tail(ahead)
<1>1. /\ rest \in Seq(Found) /\ Head(ahead) = ahead[1]
      /\ \A i \in 1..(Len(ahead) - 1) : rest[i] = ahead[i + 1]
  OBVIOUS
<1>2. /\ Len(sent) \in Nat /\ Len(ahead) \in Nat /\ Len(ahead) # 0
      /\ Len(rest) = Len(ahead) - 1
  OBVIOUS
<1>3. Len(ahead) <= Len(sent)
  BY DEF Queued
<1>4. \A i \in 1..Len(ahead) : ahead[i] = Row(sent[Len(sent) - Len(ahead) + i], Unset)
  BY DEF Queued
<1> HIDE DEF rest
<1>5. ASSUME NEW i \in 1..Len(rest)
      PROVE  rest[i] = Row(sent[Len(sent) - Len(rest) + i], Unset)
  <2>1. i + 1 \in 1..Len(ahead) /\ i \in 1..(Len(ahead) - 1)
    BY <1>2
  <2>2. ahead[i + 1] = Row(sent[Len(sent) - Len(ahead) + (i + 1)], Unset)
    BY <1>4, <2>1
  <2>3. Len(sent) - Len(ahead) + (i + 1) = Len(sent) - Len(rest) + i
    BY <1>2
  <2>4. QED
    BY <1>1, <2>1, <2>2, <2>3
<1>6. 1 \in 1..Len(ahead)
  BY <1>2
<1>7. Head(ahead) = Row(sent[Len(sent) - Len(ahead) + 1], Unset)
  BY <1>1, <1>4, <1>6
<1>8. /\ Len(rest) <= Len(sent) /\ Len(sent) - Len(rest) = Len(sent) - Len(ahead) + 1
      /\ Len(sent) - Len(ahead) \in Nat
      /\ Len(sent) - Len(ahead) + 1 \in 1..Len(sent)
  BY <1>2, <1>3
<1>9. Queued(sent, rest)
  BY <1>5, <1>8 DEF Queued
<1>10. QED
  BY <1>7, <1>8, <1>9 DEF rest

LEMMA PickedSends ==
  ASSUME NEW sent \in Seq(Findings), NEW at \in Seq(Nat), NEW met \in 0..Len(sent),
         NEW f \in Findings, Picked(at, sent, met)
  PROVE  Picked(at, Append(sent, f), met)
<1> DEFINE more == Append(sent, f)
<1>1. /\ more \in Seq(Findings) /\ Len(sent) \in Nat
      /\ \A i \in 1..Len(sent) : more[i] = sent[i]
  BY AppendFacts
<1>2. \A k \in 1..met : k \in 1..Len(sent)
  BY <1>1
<1>3. \A k \in 1..Len(sent) : k \in Kept(more) <=> k \in Kept(sent)
  BY KeptStays
<1> HIDE DEF more
<1>4. \A k \in Kept(more) : k <= met => k \in 1..Len(sent)
  BY <1>1, KeptAreSent
<1>5. \A i \in 1..Len(at) : at[i] \in 1..Len(sent) /\ at[i] \in Kept(more) /\ at[i] <= met
  BY <1>3, KeptAreSent DEF Picked
<1>6. \A k \in Kept(more) : k <= met => \E i \in 1..Len(at) : at[i] = k
  BY <1>3, <1>4 DEF Picked
<1>7. \A k \in 1..met : \E i \in 1..Len(at) : more[at[i]].key = more[k].key
  <2>1. \A i \in 1..Len(at) : more[at[i]] = sent[at[i]]
    BY <1>1, <1>5
  <2>2. \A k \in 1..met : more[k] = sent[k]
    BY <1>1, <1>2
  <2>3. QED
    BY ZenonT(60), <2>1, <2>2 DEF Picked
<1>8. QED
  BY <1>5, <1>6, <1>7 DEF Picked, more

\* The next finding has a key that was met before.
LEMMA PickedDrops ==
  ASSUME NEW sent \in Seq(Findings), NEW at \in Seq(Nat), NEW met \in Nat,
         met + 1 \in 1..Len(sent), Picked(at, sent, met),
         sent[met + 1].key \in SeenOf(sent, met)
  PROVE  /\ Picked(at, sent, met + 1)
         /\ SeenOf(sent, met + 1) = SeenOf(sent, met)
<1>1. PICK j \in 1..met : sent[j].key = sent[met + 1].key /\ sent[met + 1].key # NoKey
  BY DEF SeenOf
<1>2. met + 1 \notin Kept(sent)
  <2>1. j \in 1..((met + 1) - 1)
    OBVIOUS
  <2>2. QED
    BY <1>1, <2>1, KeptOf
<1>3. \A k \in 1..(met + 1) : k \in 1..met \/ k = met + 1
  OBVIOUS
<1>4. \A k \in Kept(sent) : k <= met + 1 => k <= met
  BY <1>2, KeptAreSent
<1>5. \A i \in 1..Len(at) : at[i] \in Kept(sent) /\ at[i] <= met + 1
  BY KeptAreSent DEF Picked
<1>6. \A k \in 1..(met + 1) : \E i \in 1..Len(at) : sent[at[i]].key = sent[k].key
  BY SMTT(30), <1>1, <1>3 DEF Picked
<1>7. Picked(at, sent, met + 1)
  BY <1>4, <1>5, <1>6 DEF Picked
<1>8. \A k \in 1..met : k \in 1..(met + 1)
  OBVIOUS
<1>9. SeenOf(sent, met + 1) = SeenOf(sent, met)
  BY <1>1, <1>3, <1>8 DEF SeenOf
<1>10. QED
  BY <1>7, <1>9

\* The next finding has no key, or one that was not met before.
LEMMA PickedTakes ==
  ASSUME NEW sent \in Seq(Findings), NEW at \in Seq(Nat), NEW met \in Nat,
         met + 1 \in 1..Len(sent), Picked(at, sent, met),
         sent[met + 1].key \notin SeenOf(sent, met)
  PROVE  /\ Picked(Append(at, met + 1), sent, met + 1)
         /\ SeenOf(sent, met + 1) = SeenOf(sent, met) \cup ({sent[met + 1].key} \ {NoKey})
<1> DEFINE more == Append(at, met + 1)
<1>1. /\ Len(at) \in Nat /\ Len(more) = Len(at) + 1 /\ more[Len(at) + 1] = met + 1
      /\ \A i \in 1..Len(at) : more[i] = at[i]
  BY AppendFacts
<1> HIDE DEF more
<1>2. \A k \in 1..met : sent[met + 1].key = NoKey \/ sent[k].key # sent[met + 1].key
  BY DEF SeenOf
<1>3. met + 1 \in Kept(sent)
  <2>1. \A j \in 1..((met + 1) - 1) : j \in 1..met
    OBVIOUS
  <2>2. QED
    BY <1>2, <2>1, KeptOf
<1>4. \A k \in 1..(met + 1) : k \in 1..met \/ k = met + 1
  OBVIOUS
<1>5. \A i \in 1..Len(more) : i \in 1..Len(at) \/ i = Len(at) + 1
  BY <1>1
<1>6. Len(at) + 1 \in 1..Len(more) /\ \A i \in 1..Len(at) : i \in 1..Len(more)
  BY <1>1
<1>7. \A i \in 1..Len(at) : at[i] \in Kept(sent) /\ at[i] <= met /\ at[i] \in Nat
  BY KeptAreSent DEF Picked
<1>8. \A i \in 1..Len(more) : more[i] \in Kept(sent) /\ more[i] <= met + 1
  BY <1>1, <1>3, <1>5, <1>7
<1>9. ASSUME NEW i \in 1..Len(more), NEW j \in 1..Len(more), i < j
      PROVE  more[i] < more[j]
  <2>1. i \in 1..Len(at)
    BY <1>1, <1>9
  <2>2. CASE j \in 1..Len(at)
    BY <1>1, <1>9, <2>1, <2>2 DEF Picked
  <2>3. CASE j = Len(at) + 1
    <3>1. more[i] = at[i] /\ more[j] = met + 1
      BY <1>1, <2>1, <2>3
    <3>2. at[i] <= met /\ at[i] \in Nat
      BY <1>7, <2>1
    <3>3. QED
      BY <3>1, <3>2
  <2>4. QED
    BY <1>5, <2>2, <2>3
<1>10. ASSUME NEW k \in Kept(sent), k <= met + 1
       PROVE  \E i \in 1..Len(more) : more[i] = k
  <2>1. CASE k = met + 1
    BY <1>1, <1>6, <2>1
  <2>2. CASE k <= met
    <3>1. PICK i \in 1..Len(at) : at[i] = k
      BY <2>2 DEF Picked
    <3>2. QED
      BY <1>1, <1>6, <3>1
  <2>3. QED
    BY <1>10, <2>1, <2>2, KeptAreSent
<1>11. ASSUME NEW k \in 1..(met + 1)
       PROVE  \E i \in 1..Len(more) : sent[more[i]].key = sent[k].key
  <2>1. CASE k = met + 1
    BY <1>1, <1>6, <2>1
  <2>2. CASE k \in 1..met
    <3>1. PICK i \in 1..Len(at) : sent[at[i]].key = sent[k].key
      BY <2>2 DEF Picked
    <3>2. QED
      BY <1>1, <1>6, <3>1
  <2>3. QED
    BY <1>4, <2>1, <2>2
<1>12. Picked(more, sent, met + 1)
  BY <1>8, <1>9, <1>10, <1>11 DEF Picked
<1>13. \A k \in 1..met : k \in 1..(met + 1)
  OBVIOUS
<1>14. SeenOf(sent, met + 1) = SeenOf(sent, met) \cup ({sent[met + 1].key} \ {NoKey})
  <2>1. met + 1 \in 1..(met + 1)
    OBVIOUS
  <2>2. {sent[k].key : k \in 1..(met + 1)} = {sent[k].key : k \in 1..met} \cup {sent[met + 1].key}
    BY <1>4, <1>13, <2>1
  <2>3. QED
    BY <2>2 DEF SeenOf
<1>15. QED
  BY <1>12, <1>14 DEF more

LEMMA SeenSends ==
  ASSUME NEW sent \in Seq(Findings), NEW met \in 0..Len(sent), NEW f \in Findings
  PROVE  SeenOf(Append(sent, f), met) = SeenOf(sent, met)
<1> DEFINE more == Append(sent, f)
<1>1. \A k \in 1..met : k \in 1..Len(sent)
  OBVIOUS
<1>2. \A i \in 1..Len(sent) : more[i] = sent[i]
  OBVIOUS
<1> HIDE DEF more
<1>3. \A k \in 1..met : more[k] = sent[k]
  BY <1>1, <1>2
<1>4. SeenOf(more, met) = SeenOf(sent, met)
  BY <1>3 DEF SeenOf
<1>5. QED
  BY <1>4 DEF more

\* Of two that were kept the later has not the key of the earlier.
LEMMA KeptApart ==
  ASSUME NEW sent \in Seq(Findings), NEW at \in Seq(Nat), NEW met \in Nat,
         Picked(at, sent, met), NEW i \in 1..Len(at), NEW j \in 1..Len(at), i < j,
         sent[at[j]].key # NoKey
  PROVE  sent[at[i]].key # sent[at[j]].key
<1>1. at[i] < at[j] /\ at[i] \in Kept(sent) /\ at[j] \in Kept(sent)
  BY DEF Picked
<1>2. at[i] \in 1..Len(sent) /\ at[j] \in 1..Len(sent)
  BY <1>1, KeptAreSent
<1>3. at[i] \in 1..(at[j] - 1)
  BY <1>1, <1>2
<1>4. QED
  BY <1>1, <1>2, <1>3, KeptOf

LEMMA PlacedSends ==
  ASSUME NEW sent \in Seq(Findings), NEW at \in Seq(Nat), NEW f \in Findings,
         NEW waiting \in Seq(Found), NEW line \in Seq(Found), NEW st,
         \A i \in 1..Len(at) : at[i] \in 1..Len(sent),
         Placed(at, sent, waiting, line, st)
  PROVE  Placed(at, Append(sent, f), waiting, line, st)
<1> DEFINE more == Append(sent, f)
<1>1. \A i \in 1..Len(at) : more[at[i]] = sent[at[i]]
  OBVIOUS
<1>2. Len(at) \in Nat /\ Len(waiting) \in Nat /\ Len(line) \in Nat
  OBVIOUS
<1> HIDE DEF more
<1>3. Len(waiting) <= Len(at) /\ Len(at) - Len(waiting) <= Len(line)
  BY DEF Placed
<1>4. \A i \in 1..Len(waiting) : Len(at) - Len(waiting) + i \in 1..Len(at)
  BY <1>2, <1>3
<1>5. \A i \in 1..(Len(at) - Len(waiting)) : i \in 1..Len(at)
  BY <1>2, <1>3
<1>6. \A i \in 1..Len(waiting) :
        waiting[i] = Row(more[at[Len(at) - Len(waiting) + i]], Unset)
  BY <1>1, <1>4 DEF Placed
<1>7. \A i \in 1..(Len(at) - Len(waiting)) : TellsOf(line[i], more, at, i, st)
  <2>1. \A i \in 1..(Len(at) - Len(waiting)) : TellsOf(line[i], sent, at, i, st)
    BY DEF Placed
  <2>2. QED
    BY <1>1, <1>5, <2>1 DEF TellsOf
<1>8. QED
  BY <1>3, <1>6, <1>7 DEF Placed, more

LEMMA PlacedWaits ==
  ASSUME NEW sent \in Seq(Findings), NEW at \in Seq(Nat), NEW m \in Nat,
         NEW waiting \in Seq(Found), NEW line \in Seq(Found), NEW st,
         NEW r \in Found, r = Row(sent[m], Unset),
         Placed(at, sent, waiting, line, st)
  PROVE  /\ Placed(Append(at, m), sent, Append(waiting, r), line, st)
         /\ Len(Append(at, m)) - Len(Append(waiting, r)) = Len(at) - Len(waiting)
<1> DEFINE more == Append(at, m)
           longer == Append(waiting, r)
<1>1. /\ more \in Seq(Nat) /\ more[Len(at) + 1] = m
      /\ \A i \in 1..Len(at) : more[i] = at[i]
  OBVIOUS
<1>2. /\ longer \in Seq(Found) /\ longer[Len(waiting) + 1] = r
      /\ \A i \in 1..Len(waiting) : longer[i] = waiting[i]
  OBVIOUS
<1>3. /\ Len(at) \in Nat /\ Len(more) = Len(at) + 1
      /\ Len(waiting) \in Nat /\ Len(longer) = Len(waiting) + 1 /\ Len(line) \in Nat
  OBVIOUS
<1> HIDE DEF more, longer
<1>4. Len(waiting) <= Len(at) /\ Len(at) - Len(waiting) <= Len(line)
  BY DEF Placed
<1>5. /\ Len(longer) <= Len(more) /\ Len(more) - Len(longer) = Len(at) - Len(waiting)
      /\ Len(more) - Len(longer) <= Len(line)
  BY <1>3, <1>4
<1>6. ASSUME NEW i \in 1..Len(longer)
      PROVE  longer[i] = Row(sent[more[Len(more) - Len(longer) + i]], Unset)
  <2>1. CASE i = Len(waiting) + 1
    <3>1. Len(more) - Len(longer) + i = Len(at) + 1
      BY <1>3, <2>1
    <3>2. QED
      BY <1>1, <1>2, <2>1, <3>1
  <2>2. CASE i # Len(waiting) + 1
    <3>1. i \in 1..Len(waiting)
      BY <1>3, <2>2
    <3>2. waiting[i] = Row(sent[at[Len(at) - Len(waiting) + i]], Unset)
      BY <3>1 DEF Placed
    <3>3. Len(at) - Len(waiting) + i \in 1..Len(at)
      BY <1>3, <1>4, <3>1
    <3>4. Len(more) - Len(longer) + i = Len(at) - Len(waiting) + i
      BY <1>5
    <3>5. QED
      BY <1>1, <1>2, <3>1, <3>2, <3>3, <3>4
  <2>3. QED
    BY <2>1, <2>2
<1>7. ASSUME NEW i \in 1..(Len(more) - Len(longer))
      PROVE  TellsOf(line[i], sent, more, i, st)
  <2>1. i \in 1..(Len(at) - Len(waiting)) /\ i \in 1..Len(at)
    BY <1>3, <1>4, <1>5
  <2>2. TellsOf(line[i], sent, at, i, st)
    BY <2>1 DEF Placed
  <2>3. QED
    BY <1>1, <2>1, <2>2 DEF TellsOf
<1>8. QED
  BY <1>5, <1>6, <1>7 DEF Placed, more, longer

\* The first that waits is the one after those that stand in line.
LEMMA PlacedHead ==
  ASSUME NEW sent \in Seq(Findings), NEW at \in Seq(Nat),
         NEW waiting \in Seq(Found), NEW line \in Seq(Found), NEW st,
         waiting # <<>>, Placed(at, sent, waiting, line, st)
  PROVE  /\ Len(at) - Len(waiting) + 1 \in 1..Len(at) /\ Len(at) - Len(waiting) \in Nat
         /\ Head(waiting) = Row(sent[at[Len(at) - Len(waiting) + 1]], Unset)
<1>1. Len(waiting) \in Nat /\ Len(waiting) # 0 /\ Len(at) \in Nat /\ Head(waiting) = waiting[1]
  OBVIOUS
<1>2. Len(waiting) <= Len(at)
  BY DEF Placed
<1>3. 1 \in 1..Len(waiting)
  BY <1>1
<1>4. waiting[1] = Row(sent[at[Len(at) - Len(waiting) + 1]], Unset)
  BY <1>3 DEF Placed
<1>5. Len(at) - Len(waiting) + 1 \in 1..Len(at) /\ Len(at) - Len(waiting) \in Nat
  BY <1>1, <1>2
<1>6. QED
  BY <1>1, <1>4, <1>5

LEMMA PlacedPasses ==
  ASSUME NEW sent \in Seq(Findings), NEW at \in Seq(Nat),
         NEW waiting \in Seq(Found), NEW line \in Seq(Found), NEW st,
         waiting # <<>>, Placed(at, sent, waiting, line, st),
         Len(at) - Len(waiting) = Len(line),
         NEW q \in Found, TellsOf(q, sent, at, Len(line) + 1, st)
  PROVE  /\ Placed(at, sent, Tail(waiting), Append(line, q), st)
         /\ Len(at) - Len(Tail(waiting)) = Len(at) - Len(waiting) + 1
         /\ Len(Append(line, q)) = Len(line) + 1
<1> DEFINE rest == Tail(waiting)
           longer == Append(line, q)
<1>1. /\ rest \in Seq(Found)
      /\ \A i \in 1..(Len(waiting) - 1) : rest[i] = waiting[i + 1]
  OBVIOUS
<1>2. /\ longer \in Seq(Found) /\ longer[Len(line) + 1] = q
      /\ \A i \in 1..Len(line) : longer[i] = line[i]
  OBVIOUS
<1>3. /\ Len(at) \in Nat /\ Len(waiting) \in Nat /\ Len(waiting) # 0
      /\ Len(rest) = Len(waiting) - 1
      /\ Len(line) \in Nat /\ Len(longer) = Len(line) + 1
  OBVIOUS
<1> HIDE DEF rest, longer
<1>4. Len(waiting) <= Len(at)
  BY DEF Placed
<1>5. /\ Len(rest) <= Len(at) /\ Len(at) - Len(rest) = Len(at) - Len(waiting) + 1
      /\ Len(at) - Len(rest) <= Len(longer)
  BY <1>3, <1>4
<1>6. ASSUME NEW i \in 1..Len(rest)
      PROVE  rest[i] = Row(sent[at[Len(at) - Len(rest) + i]], Unset)
  <2>1. i + 1 \in 1..Len(waiting) /\ i \in 1..(Len(waiting) - 1)
    BY <1>3
  <2>2. waiting[i + 1] = Row(sent[at[Len(at) - Len(waiting) + (i + 1)]], Unset)
    BY <2>1 DEF Placed
  <2>3. Len(at) - Len(waiting) + (i + 1) = Len(at) - Len(rest) + i
    BY <1>3
  <2>4. QED
    BY <1>1, <2>1, <2>2, <2>3
<1>7. ASSUME NEW i \in 1..(Len(at) - Len(rest))
      PROVE  TellsOf(longer[i], sent, at, i, st)
  <2>1. CASE i = Len(line) + 1
    BY <1>2, <2>1
  <2>2. CASE i # Len(line) + 1
    <3>1. i \in 1..(Len(at) - Len(waiting)) /\ i \in 1..Len(line)
      BY SMTT(30), <1>3, <1>4, <2>2
    <3>2. TellsOf(line[i], sent, at, i, st)
      BY <3>1 DEF Placed
    <3>3. QED
      BY <1>2, <3>1, <3>2
  <2>3. QED
    BY <2>1, <2>2
<1>8. QED
  BY <1>3, <1>5, <1>6, <1>7 DEF Placed, rest, longer

LEMMA PlacedGrows ==
  ASSUME NEW sent \in Seq(Findings), NEW at \in Seq(Nat),
         NEW waiting \in Seq(Found), NEW line \in Seq(Found), NEW st,
         Placed(at, sent, waiting, line, st), NEW q \in Found
  PROVE  Placed(at, sent, waiting, Append(line, q), st)
<1> DEFINE longer == Append(line, q)
<1>1. \A i \in 1..Len(line) : longer[i] = line[i]
  OBVIOUS
<1>2. /\ Len(at) \in Nat /\ Len(waiting) \in Nat
      /\ Len(line) \in Nat /\ Len(longer) = Len(line) + 1
  OBVIOUS
<1> HIDE DEF longer
<1>3. Len(waiting) <= Len(at) /\ Len(at) - Len(waiting) <= Len(line)
  BY DEF Placed
<1>4. \A i \in 1..(Len(at) - Len(waiting)) : i \in 1..Len(line)
  BY <1>2, <1>3
<1>5. Len(at) - Len(waiting) <= Len(longer)
  BY <1>2, <1>3
<1>6. \A i \in 1..(Len(at) - Len(waiting)) : TellsOf(longer[i], sent, at, i, st)
  BY <1>1, <1>4 DEF Placed
<1>7. QED
  BY <1>5, <1>6 DEF Placed, longer

\* A row of something that was sent takes its key out of the rest.
LEMMA SettledPasses ==
  ASSUME NEW line \in Seq(Found), NEW base, NEW left,
         Settled(line, Len(line), base, left), NEW q \in Found
  PROVE  Settled(Append(line, q), Len(line) + 1, base, {b \in left : b.key # q.key})
<1> DEFINE longer == Append(line, q)
           fewer == {b \in left : b.key # q.key}
<1>1. /\ longer[Len(line) + 1] = q
      /\ \A i \in 1..Len(line) : longer[i] = line[i]
  OBVIOUS
<1>2. Len(line) \in Nat /\ Len(longer) = Len(line) + 1
  OBVIOUS
<1>3. left = {b \in base : \A i \in 1..Len(line) : line[i].key # b.key}
  BY DEF Settled
<1> HIDE DEF longer
<1>4. \A i \in 1..Len(longer) : i \in 1..Len(line) \/ i = Len(line) + 1
  BY <1>2
<1>5. Len(line) + 1 \in 1..Len(longer) /\ \A i \in 1..Len(line) : i \in 1..Len(longer)
  BY <1>2
<1>6. \A b : (\A i \in 1..Len(longer) : longer[i].key # b.key)
             <=> (\A i \in 1..Len(line) : line[i].key # b.key) /\ q.key # b.key
  BY <1>1, <1>4, <1>5
<1>7. fewer = {b \in base : \A i \in 1..Len(longer) : longer[i].key # b.key}
  BY <1>3, <1>6
<1>8. \A i \in (Len(line) + 1 + 1)..Len(longer) : FALSE
  BY <1>2
<1>9. QED
  BY <1>7, <1>8 DEF Settled, longer

\* The smallest of the rest joins those that did not come back.
LEMMA SettledResolves ==
  ASSUME NEW line \in Seq(Found), NEW n \in Nat, n <= Len(line), NEW base, NEW left,
         \A b, c \in base : b.key = c.key => b = c, \A b \in base : b.key \in Nat,
         Settled(line, n, base, left), NEW b \in left, \A c \in left : b.key <= c.key,
         NEW q \in Found, q = Row(b, "resolved")
  PROVE  Settled(Append(line, q), n, base, left \ {b})
<1> DEFINE longer == Append(line, q)
<1>1. /\ longer[Len(line) + 1] = q
      /\ \A i \in 1..Len(line) : longer[i] = line[i]
  OBVIOUS
<1>2. Len(line) \in Nat /\ Len(longer) = Len(line) + 1
  OBVIOUS
<1>3. left = {c \in base : \A i \in 1..Len(line) : line[i].key # c.key}
  BY DEF Settled
<1>4. \A i \in (n + 1)..Len(line) :
        /\ \E c \in base : line[i] = Row(c, "resolved")
        /\ \A j \in 1..n : line[j].key # line[i].key
        /\ \A j \in (n + 1)..Len(line) : i < j => line[i].key < line[j].key
        /\ \A c \in left : line[i].key < c.key
  BY DEF Settled
<1>5. q.key = b.key /\ b \in base /\ b.key \in Nat
  BY <1>3 DEF Row
<1> HIDE DEF longer
<1>6. \A i \in 1..Len(longer) : i \in 1..Len(line) \/ i = Len(line) + 1
  BY <1>2
<1>7. Len(line) + 1 \in 1..Len(longer) /\ \A i \in 1..Len(line) : i \in 1..Len(longer)
  BY <1>2
<1>8. left \ {b} = {c \in base : \A i \in 1..Len(longer) : longer[i].key # c.key}
  <2>1. \A c \in base : c = b <=> c.key = b.key
    BY <1>5
  <2>2. \A c : (\A i \in 1..Len(longer) : longer[i].key # c.key)
               <=> (\A i \in 1..Len(line) : line[i].key # c.key) /\ b.key # c.key
    BY <1>1, <1>5, <1>6, <1>7
  <2>3. QED
    BY <1>3, <2>1, <2>2
<1>9. \A c \in left \ {b} : b.key < c.key
  <2>1. SUFFICES ASSUME NEW c \in left \ {b} PROVE b.key < c.key
    OBVIOUS
  <2>2. c \in base /\ c.key # b.key /\ c.key \in Nat /\ b.key <= c.key
    BY <1>3, <1>5
  <2>3. QED
    BY <1>5, <2>2
<1>10. \A j \in 1..n : line[j].key # b.key
  <2>1. \A j \in 1..n : j \in 1..Len(line)
    BY <1>2
  <2>2. QED
    BY <1>3, <2>1
<1>11. \A j \in 1..n : longer[j] = line[j]
  BY <1>1, <1>2
<1>12. ASSUME NEW i \in (n + 1)..Len(longer)
       PROVE  /\ \E c \in base : longer[i] = Row(c, "resolved")
              /\ \A j \in 1..n : longer[j].key # longer[i].key
              /\ \A j \in (n + 1)..Len(longer) : i < j => longer[i].key < longer[j].key
              /\ \A c \in left \ {b} : longer[i].key < c.key
  <2>1. CASE i = Len(line) + 1
    <3>1. longer[i] = q
      BY <1>1, <2>1
    <3>2. \A j \in (n + 1)..Len(longer) : ~(i < j)
      BY <1>2, <2>1
    <3>3. QED
      BY <1>5, <1>9, <1>10, <1>11, <3>1, <3>2
  <2>2. CASE i # Len(line) + 1
    <3>1. i \in (n + 1)..Len(line) /\ i \in 1..Len(line)
      BY <1>2, <2>2
    <3>2. longer[i] = line[i]
      BY <1>1, <3>1
    <3>3. \A c \in left : line[i].key < c.key
      BY <1>4, <3>1
    <3>4. ASSUME NEW j \in (n + 1)..Len(longer), i < j
          PROVE  longer[i].key < longer[j].key
      <4>1. CASE j = Len(line) + 1
        <5>1. longer[j].key = b.key
          BY <1>1, <1>5, <4>1
        <5>2. QED
          BY <3>2, <3>3, <5>1
      <4>2. CASE j # Len(line) + 1
        <5>1. j \in (n + 1)..Len(line) /\ j \in 1..Len(line)
          BY <1>2, <4>2
        <5>2. line[i].key < line[j].key
          BY <1>4, <3>1, <3>4, <5>1
        <5>3. QED
          BY <1>1, <3>2, <5>1, <5>2
      <4>3. QED
        BY <4>1, <4>2
    <3>5. \E c \in base : longer[i] = Row(c, "resolved")
      BY <1>4, <3>1, <3>2
    <3>6. \A j \in 1..n : longer[j].key # longer[i].key
      BY <1>4, <1>11, <3>1, <3>2
    <3>7. QED
      BY <3>2, <3>3, <3>4, <3>5, <3>6
  <2>3. QED
    BY <2>1, <2>2
<1>13. QED
  BY <1>8, <1>12 DEF Settled, longer

LEMMA TalliedGrows ==
  ASSUME NEW line \in Seq(Found), NEW q \in Found,
         NEW cs \in [{"new", "persisting", "resolved"} -> Nat],
         q.status \in {"new", "persisting", "resolved"}, Tallied(line, cs)
  PROVE  Tallied(Append(line, q), [cs EXCEPT ![q.status] = @ + 1])
<1> DEFINE longer == Append(line, q)
           more == [cs EXCEPT ![q.status] = @ + 1]
           Are(l, s) == {i \in 1..Len(l) : l[i].status = s}
<1>1. /\ longer[Len(line) + 1] = q
      /\ \A i \in 1..Len(line) : longer[i] = line[i]
  OBVIOUS
<1>2. Len(line) \in Nat /\ Len(longer) = Len(line) + 1
  OBVIOUS
<1> HIDE DEF longer
<1>3. \A i \in 1..Len(longer) : i \in 1..Len(line) \/ i = Len(line) + 1
  BY <1>2
<1>4. Len(line) + 1 \in 1..Len(longer) /\ \A i \in 1..Len(line) : i \in 1..Len(longer)
  BY <1>2
<1>5. \A i \in 1..Len(line) : i # Len(line) + 1
  BY <1>2
<1>6. ASSUME NEW s \in {"new", "persisting", "resolved"}
      PROVE  more[s] = Cardinality(Are(longer, s))
  <2>1. IsFiniteSet(Are(line, s))
    <3>1. IsFiniteSet(1..Len(line))
      BY <1>2, FS_Interval
    <3>2. QED
      BY <3>1, FS_Subset
  <2>2. cs[s] = Cardinality(Are(line, s))
    BY DEF Tallied
  <2>3. CASE s = q.status
    <3>1. Are(longer, s) = Are(line, s) \cup {Len(line) + 1}
      BY <1>1, <1>3, <1>4, <2>3
    <3>2. Len(line) + 1 \notin Are(line, s)
      BY <1>5
    <3>3. Cardinality(Are(longer, s)) = Cardinality(Are(line, s)) + 1
      BY <2>1, <3>1, <3>2, FS_AddElement
    <3>4. more[s] = cs[s] + 1
      BY <2>3
    <3>5. QED
      BY <2>2, <3>3, <3>4
  <2>4. CASE s # q.status
    <3>1. Are(longer, s) = Are(line, s)
      BY <1>1, <1>3, <1>4, <2>4
    <3>2. more[s] = cs[s]
      BY <2>4
    <3>3. QED
      BY <2>2, <3>1, <3>2
  <2>5. QED
    BY <2>3, <2>4
<1>7. QED
  BY <1>6 DEF Tallied, longer

-----------------------------------------------------------------------------
(* The report, step by step.                                                *)

LEMMA LineFacts ==
  ASSUME Typed
  PROVE  /\ report \in Seq(Found) /\ chan["gated"] \in Seq(Found)
         /\ chan["diffed"] \in Seq(Found) /\ chan["deduped"] \in Seq(Found)
         /\ chan["findings"] \in Seq(Found) /\ emitted \in Seq(Findings)
         /\ report \o chan["gated"] \in Seq(Found)
         /\ Line \in Seq(Found) /\ Len(Line) \in Nat
<1>1. /\ report \in Seq(Found) /\ chan["gated"] \in Seq(Found)
      /\ chan["diffed"] \in Seq(Found) /\ chan["deduped"] \in Seq(Found)
      /\ chan["findings"] \in Seq(Found) /\ emitted \in Seq(Findings)
  BY StatusStays DEF Typed
<1>2. report \o chan["gated"] \in Seq(Found)
  BY <1>1, ConcatFacts
<1>3. Line \in Seq(Found)
  BY <1>1, <1>2, ConcatFacts DEF Line
<1>4. QED
  BY <1>1, <1>2, <1>3, ConcatFacts

LEMMA SameLine ==
  ASSUME report' = report, chan'["gated"] = chan["gated"], chan'["diffed"] = chan["diffed"]
  PROVE  Line' = Line
BY DEF Line

LEMMA LineGrows ==
  ASSUME Typed, report' = report, chan'["gated"] = chan["gated"], NEW q \in Found,
         chan'["diffed"] = Append(chan["diffed"], q)
  PROVE  Line' = Append(Line, q)
<1>1. Line' = (report \o chan["gated"]) \o Append(chan["diffed"], q)
  BY DEF Line
<1>2. PICK rows \in Seq(Found) : rows = report \o chan["gated"]
  BY LineFacts
<1>3. PICK ahead \in Seq(Found) : ahead = chan["diffed"]
  BY LineFacts
<1>4. rows \o Append(ahead, q) = Append(rows \o ahead, q)
  BY ConcatAppend
<1>5. QED
  BY <1>1, <1>2, <1>3, <1>4 DEF Line

LEMMA SameStatuses ==
  ASSUME round' = round, baseline' = baseline
  PROVE  StatusIn' = StatusIn /\ Diffing' = Diffing
BY DEF StatusIn, StatusOf, Diffing

\* How many Dedupe has met, and where those are that it kept.
LEMMA MetFacts ==
  ASSUME Typed, NEW at \in Seq(Nat), Exact(at)
  PROVE  /\ Met \in 0..Len(emitted)
         /\ \A i \in 1..Len(at) : at[i] \in 1..Len(emitted)
         /\ Len(at) - Len(chan["deduped"]) \in Nat
         /\ Len(at) - Len(chan["deduped"]) <= Len(Line)
<1>1. Len(emitted) \in Nat /\ Len(chan["findings"]) \in Nat /\ Len(at) \in Nat
      /\ Len(chan["deduped"]) \in Nat
  BY LineFacts
<1>2. Len(chan["findings"]) <= Len(emitted)
  BY DEF Exact, Queued
<1>3. Len(chan["deduped"]) <= Len(at) /\ Len(at) - Len(chan["deduped"]) <= Len(Line)
  BY DEF Exact, Placed
<1>4. Met \in 0..Len(emitted)
  BY <1>1, <1>2 DEF Met
<1>5. \A i \in 1..Len(at) : at[i] \in Kept(emitted)
  BY DEF Exact, Picked
<1>6. \A i \in 1..Len(at) : at[i] \in 1..Len(emitted)
  BY <1>5, LineFacts, KeptAreSent
<1>7. QED
  BY <1>1, <1>3, <1>4, <1>6

LEMMA ExactStays ==
  ASSUME NEW at \in Seq(Nat), Exact(at), emitted' = emitted, chan' = chan, seen' = seen,
         open' \subseteq open, report' = report, round' = round, baseline' = baseline,
         remaining' = remaining, counts' = counts
  PROVE  Exact(at)'
<1>1. Line' = Line /\ Met' = Met /\ StatusIn' = StatusIn /\ Diffing' = Diffing
  BY SameLine, SameStatuses DEF Met
<1>2. Drained("deduped") => Drained("deduped")'
  BY DEF Drained
<1>3. QED
  BY <1>1, <1>2 DEF Exact

LEMMA ExactEmits ==
  ASSUME Typed, NEW at \in Seq(Nat), Exact(at), NEW f \in Findings, Emit(f)
  PROVE  Exact(at)'
<1>1. /\ emitted' = Append(emitted, f) /\ seen' = seen /\ open' = open /\ report' = report
      /\ round' = round /\ baseline' = baseline /\ remaining' = remaining /\ counts' = counts
  BY DEF Emit, roundVars, stageVars, reportVars
<1>2. \A c \in Channels : c # "findings" => chan'[c] = chan[c]
  BY EmitMoves
<1>3. chan'["gated"] = chan["gated"] /\ chan'["diffed"] = chan["diffed"]
      /\ chan'["deduped"] = chan["deduped"]
  BY <1>2, StatusStays
<1>4. PICK r \in Found : r = Row(f, Unset)
  BY RowOfFinding, StatusStays DEF Unset
<1>5. chan'["findings"] = Append(chan["findings"], r)
  <2>1. chan' = [chan EXCEPT !["findings"] = Append(@, r)]
    BY <1>4 DEF Emit, Unset
  <2>2. chan \in [Channels -> Seq(Found)] /\ "findings" \in Channels
    BY StatusStays DEF Typed
  <2>3. QED
    BY <2>1, <2>2
<1>6. Line' = Line /\ StatusIn' = StatusIn /\ Diffing' = Diffing
  BY <1>1, <1>3, SameLine, SameStatuses
<1>7. /\ Queued(emitted, chan["findings"])
      /\ seen = SeenOf(emitted, Met)
      /\ Picked(at, emitted, Met)
      /\ Placed(at, emitted, chan["deduped"], Line, StatusIn)
  BY DEF Exact
<1>8. /\ Queued(emitted', chan'["findings"])
      /\ Met' = Met
  <2>1. /\ Queued(Append(emitted, f), Append(chan["findings"], r))
        /\ Len(Append(emitted, f)) - Len(Append(chan["findings"], r))
             = Len(emitted) - Len(chan["findings"])
    BY <1>4, <1>7, QueuedSends, LineFacts
  <2>2. QED
    BY <1>1, <1>5, <2>1 DEF Met
<1>9. seen' = SeenOf(emitted', Met')
  BY <1>1, <1>7, <1>8, SeenSends, MetFacts, LineFacts
<1>10. Picked(at, emitted', Met')
  BY <1>1, <1>7, <1>8, PickedSends, MetFacts, LineFacts
<1>11. Placed(at, emitted', chan'["deduped"], Line', StatusIn')
  BY <1>1, <1>3, <1>6, <1>7, PlacedSends, MetFacts, LineFacts
<1>12. Drained("deduped")' <=> Drained("deduped")
  BY <1>1, <1>3 DEF Drained
<1>13. QED
  BY <1>1, <1>3, <1>6, <1>8, <1>9, <1>10, <1>11, <1>12 DEF Exact

\* Dedupe takes the next finding: it drops it, or puts it among those that wait.
LEMMA ExactDedupes ==
  ASSUME Typed, Closing, NEW at \in Seq(Nat), Exact(at), Dedupe
  PROVE  \E more \in Seq(Nat) : Exact(more)'
<1>1. /\ emitted' = emitted /\ open' = open /\ report' = report /\ round' = round
      /\ baseline' = baseline /\ remaining' = remaining /\ counts' = counts
      /\ chan["findings"] # <<>>
  BY DEF Dedupe, roundVars, scanVars, reportVars
<1>2. /\ chan'["findings"] = Tail(chan["findings"])
      /\ chan'["diffed"] = chan["diffed"] /\ chan'["gated"] = chan["gated"]
  BY DedupeMoves
<1>3. Line' = Line /\ StatusIn' = StatusIn /\ Diffing' = Diffing
  BY <1>1, <1>2, SameLine, SameStatuses
<1>4. /\ Queued(emitted, chan["findings"])
      /\ seen = SeenOf(emitted, Met)
      /\ Picked(at, emitted, Met)
      /\ Placed(at, emitted, chan["deduped"], Line, StatusIn)
  BY DEF Exact
<1>5. /\ Queued(emitted, Tail(chan["findings"]))
      /\ Len(emitted) - Len(Tail(chan["findings"])) = Len(emitted) - Len(chan["findings"]) + 1
      /\ Len(emitted) - Len(chan["findings"]) \in Nat
      /\ Len(emitted) - Len(chan["findings"]) + 1 \in 1..Len(emitted)
      /\ Head(chan["findings"]) = Row(emitted[Len(emitted) - Len(chan["findings"]) + 1], Unset)
  BY <1>1, <1>4, QueuedDrops, LineFacts
<1>6. /\ Queued(emitted', chan'["findings"]) /\ Met' = Met + 1 /\ Met \in Nat
      /\ Met + 1 \in 1..Len(emitted)
      /\ Head(chan["findings"]) = Row(emitted[Met + 1], Unset)
  BY <1>1, <1>2, <1>5 DEF Met
<1>7. Head(chan["findings"]).key = emitted[Met + 1].key
  BY <1>6 DEF Row
<1>8. CASE emitted[Met + 1].key \in seen
  <2>1. chan' = [chan EXCEPT !["findings"] = Tail(@)] /\ seen' = seen
    BY <1>7, <1>8 DEF Dedupe
  <2>2. chan'["deduped"] = chan["deduped"]
    BY <2>1, StatusStays DEF Typed
  <2>3. /\ Picked(at, emitted, Met + 1)
        /\ SeenOf(emitted, Met + 1) = SeenOf(emitted, Met)
    BY <1>4, <1>6, <1>8, PickedDrops, LineFacts
  <2>4. Drained("deduped")' <=> Drained("deduped")
    BY <1>1, <2>2 DEF Drained
  <2>5. Exact(at)'
    BY <1>1, <1>3, <1>4, <1>6, <2>1, <2>2, <2>3, <2>4 DEF Exact
  <2>6. QED
    BY <2>5
<1>9. CASE emitted[Met + 1].key \notin seen
  <2>1. PICK r \in Found : r = Head(chan["findings"])
    BY <1>1, LineFacts, TailFacts
  <2>2. /\ Pass("findings", "deduped", r)
        /\ seen' = seen \cup ({r.key} \ {NoKey})
    BY <1>7, <1>9, <2>1 DEF Dedupe
  <2>3. chan'["deduped"] = Append(chan["deduped"], r)
    BY <1>1, <2>2, PassMoves, StatusStays
  <2>4. r = Row(emitted[Met + 1], Unset) /\ r.key = emitted[Met + 1].key
    BY <1>6, <1>7, <2>1
  <2>5. PICK m \in Nat : m = Met + 1
    BY <1>6
  <2>6. PICK more \in Seq(Nat) : more = Append(at, m)
    BY AppendFacts
  <2>7. /\ Picked(more, emitted, m)
        /\ SeenOf(emitted, m) = seen \cup ({r.key} \ {NoKey})
    BY <1>4, <1>6, <1>9, <2>4, <2>5, <2>6, PickedTakes, LineFacts
  <2>8. r = Row(emitted[m], Unset)
    BY <2>4, <2>5
  <2>9. /\ Placed(Append(at, m), emitted, Append(chan["deduped"], r), Line, StatusIn)
        /\ Len(Append(at, m)) - Len(Append(chan["deduped"], r)) = Len(at) - Len(chan["deduped"])
    <3>1. PICK sent \in Seq(Findings), waiting \in Seq(Found), line \in Seq(Found) :
            sent = emitted /\ waiting = chan["deduped"] /\ line = Line
      BY LineFacts
    <3>2. Placed(at, sent, waiting, line, StatusIn) /\ r = Row(sent[m], Unset)
      BY <1>4, <2>8, <3>1
    <3>3. /\ Placed(Append(at, m), sent, Append(waiting, r), line, StatusIn)
          /\ Len(Append(at, m)) - Len(Append(waiting, r)) = Len(at) - Len(waiting)
      BY <3>2, PlacedWaits
    <3>4. QED
      BY <3>1, <3>3
  <2>10. /\ Placed(more, emitted, chan'["deduped"], Line, StatusIn)
         /\ Len(more) - Len(chan'["deduped"]) = Len(at) - Len(chan["deduped"])
    BY <2>3, <2>6, <2>9
  <2>11. ~(Len(at) - Len(chan["deduped"]) < Len(Line))
    BY <1>1 DEF Exact, Closing, Drained
  <2>12. /\ Queued(emitted', chan'["findings"]) /\ Met' = m
         /\ seen' = SeenOf(emitted', Met')
    BY <1>1, <1>6, <2>2, <2>5, <2>7
  <2>13. Exact(more)'
    BY <1>1, <1>3, <1>6, <2>5, <2>7, <2>10, <2>11, <2>12 DEF Exact
  <2>14. QED
    BY <2>13
<1>10. QED
  BY <1>8, <1>9

\* Until what waits is drained, nothing but what was sent stands in line.
LEMMA NoneResolvedYet ==
  ASSUME Typed, NEW at \in Seq(Nat), Exact(at), chan["deduped"] # <<>> \/ ~Diffing
  PROVE  Len(at) - Len(chan["deduped"]) = Len(Line)
<1>1. ~(Len(at) - Len(chan["deduped"]) < Len(Line))
  BY DEF Exact, Drained
<1>2. /\ Len(at) - Len(chan["deduped"]) \in Nat /\ Len(Line) \in Nat
      /\ Len(at) - Len(chan["deduped"]) <= Len(Line)
  BY MetFacts, LineFacts
<1>3. QED
  BY <1>1, <1>2

\* Diff gives the first that waits its status: its key is in the rest of the
\* baseline if and only if it is in the baseline, because nothing in line has it.
LEMMA ExactDiffs ==
  ASSUME Typed, Remembered, NEW at \in Seq(Nat), Exact(at), Diff
  PROVE  Exact(at)'
<1>1. /\ emitted' = emitted /\ open' = open /\ report' = report /\ round' = round
      /\ baseline' = baseline /\ seen' = seen
      /\ Diffing /\ chan["deduped"] # <<>>
  BY DEF Diff, roundVars, scanVars, reportVars
<1>2. PICK r \in Found : r = Head(chan["deduped"])
  BY <1>1, LineFacts, TailFacts
<1>3. PICK q \in Found : q = [r EXCEPT !.status = Status(r)]
  BY SameFinding, Status1
<1>4. /\ Pass("deduped", "diffed", q)
      /\ counts' = [counts EXCEPT ![Status(r)] = @ + 1]
      /\ remaining' = {b \in remaining : b.key # r.key}
  BY <1>2, <1>3 DEF Diff
<1>5. /\ chan'["deduped"] = Tail(chan["deduped"]) /\ chan'["diffed"] = Append(chan["diffed"], q)
      /\ chan'["findings"] = chan["findings"] /\ chan'["gated"] = chan["gated"]
  <2>1. chan' = [chan EXCEPT !["deduped"] = Tail(@), !["diffed"] = Append(@, q)]
    BY <1>4 DEF Pass
  <2>2. chan \in [Channels -> Seq(Found)]
    BY DEF Typed
  <2>3. chan'["diffed"] = Append(chan["diffed"], q)
    BY <2>1, <2>2, StatusStays
  <2>4. QED
    BY <2>3, DiffMoves
<1>6. Line' = Append(Line, q) /\ StatusIn' = StatusIn /\ Diffing' /\ Met' = Met
  BY <1>1, <1>5, LineGrows, SameStatuses DEF Met
<1>7. PICK line \in Seq(Found), waiting \in Seq(Found), sent \in Seq(Findings) :
        line = Line /\ waiting = chan["deduped"] /\ sent = emitted
  BY LineFacts
<1>8. /\ Picked(at, sent, Met) /\ Placed(at, sent, waiting, line, StatusIn)
      /\ Settled(line, Len(at) - Len(waiting), baseline, remaining)
      /\ Tallied(line, counts) /\ Len(at) - Len(waiting) = Len(line) /\ Len(line) \in Nat
      /\ Met \in Nat
  BY <1>1, <1>7, NoneResolvedYet, LineFacts, MetFacts DEF Exact
<1>9. PICK p \in 1..Len(at) : p = Len(line) + 1
  BY <1>1, <1>7, <1>8, PlacedHead
<1>10. PICK f \in Findings : f = sent[at[p]]
  BY <1>7, MetFacts
<1>11. r = Row(f, Unset)
  BY <1>1, <1>2, <1>7, <1>8, <1>9, <1>10, PlacedHead
<1>12. r.key = f.key /\ q = Row(f, Status(r)) /\ q.key = f.key /\ q.status = Status(r)
  BY <1>3, <1>11 DEF Row
<1>13. f.key \in Keys(remaining) <=> f.key \in Keys(baseline)
  <2>1. remaining = {b \in baseline : \A i \in 1..Len(line) : line[i].key # b.key}
    BY <1>8 DEF Settled
  <2>2. ASSUME f.key # NoKey, NEW i \in 1..Len(line)
        PROVE  line[i].key # f.key
    <3>1. i \in 1..Len(at) /\ i < p /\ i \in 1..(Len(at) - Len(waiting))
      BY SMTT(30), <1>8, <1>9
    <3>2. TellsOf(line[i], sent, at, i, StatusIn)
      BY <1>8, <3>1 DEF Placed
    <3>3. line[i].key = sent[at[i]].key
      BY <3>2 DEF TellsOf, Row
    <3>4. sent[at[i]].key # sent[at[p]].key
      BY <1>8, <1>10, <2>2, <3>1, KeptApart
    <3>5. QED
      BY <1>10, <3>3, <3>4
  <2>3. \A b \in baseline : b.key = f.key => f.key # NoKey
    BY DEF Remembered
  <2>4. QED
    BY <2>1, <2>2, <2>3 DEF Keys
<1>14. StatusIn[f] = Status(r)
  <2>1. StatusIn[f] = StatusOf(f)
    BY DEF StatusIn
  <2>2. StatusOf(f) = IF f.key \in Keys(baseline) THEN "persisting" ELSE "new"
    BY <1>1 DEF StatusOf
  <2>3. Status(r) = IF f.key \in Keys(remaining) THEN "persisting" ELSE "new"
    BY <1>12 DEF Status
  <2>4. QED
    BY <1>13, <2>1, <2>2, <2>3
<1>15. TellsOf(q, sent, at, Len(line) + 1, StatusIn)
  BY <1>9, <1>10, <1>12, <1>14 DEF TellsOf
<1>16. /\ Placed(at, sent, Tail(waiting), Append(line, q), StatusIn)
       /\ Len(at) - Len(Tail(waiting)) = Len(line) + 1
       /\ Len(Append(line, q)) = Len(line) + 1
  <2>1. waiting # <<>> /\ Placed(at, sent, waiting, line, StatusIn)
    BY <1>1, <1>7, <1>8
  <2>2. Len(at) - Len(waiting) = Len(line)
    BY <1>8
  <2>3. /\ Placed(at, sent, Tail(waiting), Append(line, q), StatusIn)
        /\ Len(at) - Len(Tail(waiting)) = Len(at) - Len(waiting) + 1
        /\ Len(Append(line, q)) = Len(line) + 1
    BY <1>15, <2>1, <2>2, PlacedPasses
  <2>4. QED
    BY <2>2, <2>3
<1>17. Settled(Append(line, q), Len(line) + 1, baseline, {b \in remaining : b.key # q.key})
  <2>1. Settled(line, Len(line), baseline, remaining)
    BY <1>8
  <2>2. QED
    BY <2>1, SettledPasses
<1>18. Tallied(Append(line, q), [counts EXCEPT ![q.status] = @ + 1])
  <2>1. q.status \in {"new", "persisting", "resolved"}
    BY <1>12, Status1
  <2>2. counts \in [{"new", "persisting", "resolved"} -> Nat]
    BY DEF Typed
  <2>3. QED
    BY <1>8, <2>1, <2>2, TalliedGrows
<1>19. /\ Placed(at, emitted', chan'["deduped"], Line', StatusIn')
       /\ Settled(Line', Len(at) - Len(chan'["deduped"]), baseline', remaining')
       /\ ~(Len(at) - Len(chan'["deduped"]) < Len(Line'))
       /\ Tallied(Line', counts')
  <2>1. Line' = Append(line, q) /\ chan'["deduped"] = Tail(waiting) /\ emitted' = sent
    BY <1>1, <1>5, <1>6, <1>7
  <2>2. remaining' = {b \in remaining : b.key # q.key}
        /\ counts' = [counts EXCEPT ![q.status] = @ + 1]
    BY <1>4, <1>12
  <2>3. ~(Len(at) - Len(chan'["deduped"]) < Len(Line'))
    <3>1. Len(at) - Len(Tail(waiting)) = Len(line) + 1 /\ Len(Append(line, q)) = Len(line) + 1
      BY <1>16
    <3>2. Len(line) \in Nat
      BY <1>8
    <3>3. PICK k \in Nat : k = Len(line) + 1 /\ ~(k < k)
      BY <3>2
    <3>4. Len(at) - Len(chan'["deduped"]) = k /\ Len(Line') = k
      BY <2>1, <3>1, <3>3
    <3>5. QED
      BY <3>3, <3>4
  <2>4. QED
    BY <1>1, <1>6, <1>16, <1>17, <1>18, <2>1, <2>2, <2>3
<1>20. /\ Queued(emitted', chan'["findings"]) /\ seen' = SeenOf(emitted', Met')
       /\ Picked(at, emitted', Met')
  BY <1>1, <1>5, <1>6 DEF Exact
<1>21. QED
  BY <1>6, <1>19, <1>20 DEF Exact

LEMMA ExactResolves ==
  ASSUME Typed, NEW at \in Seq(Nat), Exact(at), Resolve,
         \A b, c \in baseline : b.key = c.key => b = c
  PROVE  Exact(at)'
<1>1. /\ emitted' = emitted /\ open' = open /\ report' = report /\ round' = round
      /\ baseline' = baseline /\ seen' = seen
      /\ Diffing /\ Drained("deduped")
  BY DEF Resolve, roundVars, scanVars, reportVars
<1>2. PICK b \in remaining :
        /\ \A c \in remaining : b.key <= c.key
        /\ chan' = [chan EXCEPT !["diffed"] = Append(@, Row(b, "resolved"))]
        /\ remaining' = remaining \ {b}
  BY DEF Resolve
<1>3. PICK q \in Found : q = Row(b, "resolved") /\ q.status = "resolved"
  BY ZenonT(60), RowOfFinding, StatusStays DEF Typed
<1>4. /\ chan'["deduped"] = chan["deduped"] /\ chan'["diffed"] = Append(chan["diffed"], q)
      /\ chan'["findings"] = chan["findings"] /\ chan'["gated"] = chan["gated"]
  BY <1>2, <1>3, StatusStays DEF Typed
<1>5. Line' = Append(Line, q) /\ StatusIn' = StatusIn /\ Diffing' /\ Met' = Met
  BY <1>1, <1>4, LineGrows, SameStatuses DEF Met
<1>6. PICK line \in Seq(Found), n \in Nat :
        line = Line /\ n = Len(at) - Len(chan["deduped"]) /\ n <= Len(line)
  BY LineFacts, MetFacts
<1>7. /\ Placed(at, emitted, chan["deduped"], line, StatusIn)
      /\ Settled(line, n, baseline, remaining) /\ Tallied(line, counts)
  BY <1>1, <1>6 DEF Exact
<1>8. \A c \in baseline : c.key \in Nat
  BY Constants DEF Typed
<1>9. Settled(Append(line, q), n, baseline, remaining \ {b})
  BY <1>2, <1>3, <1>6, <1>7, <1>8, SettledResolves
<1>10. Placed(at, emitted, chan["deduped"], Append(line, q), StatusIn)
  BY <1>7, PlacedGrows, LineFacts
<1>11. Tallied(Append(line, q), [counts EXCEPT ![q.status] = @ + 1])
  <2>1. q.status \in {"new", "persisting", "resolved"}
    BY <1>3
  <2>2. counts \in [{"new", "persisting", "resolved"} -> Nat]
    BY DEF Typed
  <2>3. QED
    BY <1>7, <2>1, <2>2, TalliedGrows
<1>12. counts' = [counts EXCEPT ![q.status] = @ + 1]
  BY <1>3 DEF Resolve
<1>13. /\ Placed(at, emitted', chan'["deduped"], Line', StatusIn')
       /\ Settled(Line', Len(at) - Len(chan'["deduped"]), baseline', remaining')
       /\ Tallied(Line', counts')
  BY <1>1, <1>2, <1>4, <1>5, <1>6, <1>9, <1>10, <1>11, <1>12
<1>14. Drained("deduped")'
  BY <1>1, <1>4 DEF Drained
<1>15. /\ Queued(emitted', chan'["findings"]) /\ seen' = SeenOf(emitted', Met')
       /\ Picked(at, emitted', Met')
  BY <1>1, <1>4, <1>5 DEF Exact
<1>16. QED
  BY <1>5, <1>13, <1>14, <1>15 DEF Exact

\* Tap moves a row on in the line, or without a baseline puts the first that
\* waits in it, with no status.
LEMMA ExactTaps ==
  ASSUME Typed, Closing, Reported, NEW at \in Seq(Nat), Exact(at), Tap
  PROVE  Exact(at)'
<1>1. /\ emitted' = emitted /\ open' = open /\ report' = report /\ round' = round
      /\ baseline' = baseline /\ seen' = seen /\ remaining' = remaining /\ counts' = counts
      /\ chan[reportCh] # <<>>
  BY DEF Tap, roundVars, scanVars, reportVars
<1>2. PICK r \in Found :
        r = Head(chan[reportCh]) /\ chan'["gated"] = Append(chan["gated"], r)
  BY TapMoves
<1>3. /\ chan'[reportCh] = Tail(chan[reportCh])
      /\ \A c \in Channels : c # reportCh /\ c # "gated" => chan'[c] = chan[c]
  BY TapMoves
<1>4. chan'["findings"] = chan["findings"]
  BY <1>3, StatusStays
<1>5. StatusIn' = StatusIn /\ (Diffing' <=> Diffing) /\ Met' = Met
  BY <1>1, <1>4, SameStatuses DEF Met
<1>6. /\ Queued(emitted', chan'["findings"]) /\ seen' = SeenOf(emitted', Met')
      /\ Picked(at, emitted', Met')
  BY <1>1, <1>4, <1>5 DEF Exact
<1>7. PICK rows \in Seq(Found), done \in Seq(Found), last \in Seq(Found) :
        rows = report /\ done = chan["gated"] /\ last = chan["diffed"]
  BY LineFacts
<1>8. Append(done, r) \in Seq(Found) /\ rows \o done \in Seq(Found)
      /\ rows \o Append(done, r) = Append(rows \o done, r)
  BY AppendFacts, ConcatFacts, ConcatAppend
<1>9. CASE Diffing
  <2>1. reportCh = "diffed"
    BY <1>9, StatusStays
  <2>2. last # <<>> /\ r = Head(last) /\ chan'["diffed"] = Tail(last)
        /\ chan'["deduped"] = chan["deduped"]
    BY <1>1, <1>2, <1>3, <1>7, <2>1, StatusStays
  <2>3. Append(rows \o done, Head(last)) \o Tail(last) = (rows \o done) \o last
    BY <1>8, <2>2, ConcatMoves
  <2>4. Line' = Line
    BY <1>1, <1>2, <1>7, <1>8, <2>2, <2>3 DEF Line
  <2>5. Drained("deduped")' <=> Drained("deduped")
    BY <1>1, <2>2 DEF Drained
  <2>6. QED
    BY <1>1, <1>5, <1>6, <2>2, <2>4, <2>5 DEF Exact
<1>10. CASE ~Diffing
  <2>1. reportCh = "deduped"
    BY <1>10, StatusStays
  <2>2. chan["deduped"] # <<>> /\ r = Head(chan["deduped"])
        /\ chan'["deduped"] = Tail(chan["deduped"]) /\ chan'["diffed"] = chan["diffed"]
    BY <1>1, <1>2, <1>3, <2>1, StatusStays
  <2>3. last = <<>>
    BY <1>7, <1>10 DEF Closing
  <2>4. Line = rows \o done /\ Line' = Append(rows \o done, r)
    <3>1. (rows \o done) \o <<>> = rows \o done
      BY <1>8, ConcatEmpty
    <3>2. Append(rows \o done, r) \in Seq(Found)
      BY <1>8, AppendFacts
    <3>3. Append(rows \o done, r) \o <<>> = Append(rows \o done, r)
      BY <3>2, ConcatEmpty
    <3>4. QED
      BY <1>1, <1>2, <1>7, <1>8, <2>2, <2>3, <3>1, <3>3 DEF Line
  <2>5. Line' = Append(Line, r)
    BY <2>4
  <2>6. PICK line \in Seq(Found), waiting \in Seq(Found), sent \in Seq(Findings) :
          line = Line /\ waiting = chan["deduped"] /\ sent = emitted
    BY LineFacts
  <2>7. /\ Placed(at, sent, waiting, line, StatusIn)
        /\ Settled(line, Len(at) - Len(waiting), baseline, remaining)
        /\ Len(at) - Len(waiting) = Len(line) /\ Len(line) \in Nat /\ waiting # <<>>
    BY <1>10, <2>2, <2>6, NoneResolvedYet, LineFacts DEF Exact
  <2>8. PICK p \in 1..Len(at) : p = Len(line) + 1
    BY <2>7, PlacedHead
  <2>9. PICK f \in Findings : f = sent[at[p]]
    BY <2>6, MetFacts
  <2>10. r = Row(f, Unset)
    BY SMTT(90), <2>2, <2>6, <2>7, <2>8, <2>9, PlacedHead
  <2>11. StatusIn[f] = Unset
    BY <1>10 DEF StatusIn, StatusOf, Unset
  <2>12. TellsOf(r, sent, at, Len(line) + 1, StatusIn)
    BY <2>8, <2>9, <2>10, <2>11 DEF TellsOf
  <2>13. Len(at) - Len(waiting) = Len(line)
    BY <2>7
  <2>14. /\ Placed(at, sent, Tail(waiting), Append(line, r), StatusIn)
         /\ Len(at) - Len(Tail(waiting)) = Len(at) - Len(waiting) + 1
         /\ Len(Append(line, r)) = Len(line) + 1
    <3>1. waiting # <<>> /\ Placed(at, sent, waiting, line, StatusIn)
      BY <2>7
    <3>2. QED
      BY <2>12, <2>13, <3>1, PlacedPasses
  <2>15. PICK k \in Nat : k = Len(line) + 1 /\ ~(k < k)
    BY <2>7
  <2>16. Len(at) - Len(Tail(waiting)) = k /\ Len(Append(line, r)) = k
    BY <2>13, <2>14, <2>15
  <2>17. Settled(Append(line, r), k, baseline, remaining)
    <3>1. Settled(line, Len(line), baseline, remaining)
      BY <2>7
    <3>2. Settled(Append(line, r), Len(line) + 1, baseline, {b \in remaining : b.key # r.key})
      BY <3>1, SettledPasses
    <3>3. remaining = {}
      BY <1>10 DEF Reported, Typed
    <3>4. {b \in remaining : b.key # r.key} = remaining
      BY <3>3
    <3>5. QED
      BY <2>15, <3>2, <3>4
  <2>18. /\ Placed(at, emitted', chan'["deduped"], Line', StatusIn')
         /\ Settled(Line', Len(at) - Len(chan'["deduped"]), baseline', remaining')
         /\ ~(Len(at) - Len(chan'["deduped"]) < Len(Line'))
    BY <1>1, <1>5, <2>2, <2>5, <2>6, <2>14, <2>15, <2>16, <2>17
  <2>19. QED
    BY <1>5, <1>6, <1>10, <2>18 DEF Exact
<1>11. QED
  BY <1>9, <1>10

\* The reporter takes the first of its channel and puts it last in the report.
LEMMA ExactReceives ==
  ASSUME Typed, NEW at \in Seq(Nat), Exact(at), Receive, ~broken'
  PROVE  Exact(at)'
<1>1. /\ emitted' = emitted /\ open' = open /\ round' = round /\ baseline' = baseline
      /\ seen' = seen /\ remaining' = remaining /\ counts' = counts
  BY DEF Receive, roundVars, scanVars, stageVars
<1>2. /\ chan["gated"] # <<>> /\ chan'["gated"] = Tail(chan["gated"])
      /\ \A c \in Channels : c # "gated" => chan'[c] = chan[c]
      /\ report' = Append(report, Head(chan["gated"]))
  BY ReceiveMoves
<1>3. chan'["findings"] = chan["findings"] /\ chan'["deduped"] = chan["deduped"]
      /\ chan'["diffed"] = chan["diffed"]
  BY <1>2, StatusStays
<1>4. Line' = Line
  <2>1. Append(report, Head(chan["gated"])) \o Tail(chan["gated"]) = report \o chan["gated"]
    BY <1>2, LineFacts, ConcatMoves
  <2>2. QED
    BY <1>2, <1>3, <2>1 DEF Line
<1>5. StatusIn' = StatusIn /\ (Diffing' <=> Diffing) /\ Met' = Met
  BY <1>1, <1>3, SameStatuses DEF Met
<1>6. Drained("deduped")' <=> Drained("deduped")
  BY <1>1, <1>3 DEF Drained
<1>7. QED
  BY <1>1, <1>3, <1>4, <1>5, <1>6 DEF Exact

\* When the reporter has returned, the line is the report.
LEMMA LineIsReport ==
  ASSUME Typed, Closing, write # "running"
  PROVE  /\ Line = report /\ chan["deduped"] = <<>> /\ Met = Len(emitted)
         /\ Diffing => remaining = {}
<1>1. /\ chan["gated"] = <<>> /\ chan["deduped"] = <<>> /\ chan["findings"] = <<>>
      /\ chan[reportCh] = <<>> /\ (Diffing => remaining = {})
  BY NothingIsBehind
<1>2. chan["diffed"] = <<>>
  BY <1>1, StatusStays DEF Closing
<1>3. report \o <<>> = report
  BY LineFacts, ConcatEmpty
<1>4. Line = report
  BY <1>1, <1>2, <1>3 DEF Line
<1>5. Len(<<>>) = 0 /\ Len(emitted) \in Nat
  BY LineFacts
<1>6. Met = Len(emitted)
  BY <1>1, <1>5 DEF Met
<1>7. QED
  BY <1>1, <1>4, <1>6

\* No two rows of such a report are about one key.
LEMMA OneRowPerKey ==
  ASSUME Typed, Closing, Reported, write = "ok", ~broken,
         NEW i \in 1..Len(report), NEW j \in 1..Len(report), i < j,
         report[j].key # NoKey
  PROVE  report[i].key # report[j].key
<1>1. PICK at \in Seq(Nat) : Exact(at)
  BY DEF Reported
<1>2. Line = report /\ chan["deduped"] = <<>>
  BY LineIsReport
<1>3. PICK n \in Nat : n = Len(at) - Len(chan["deduped"]) /\ n = Len(at)
  <2>1. Len(<<>>) = 0 /\ Len(at) \in Nat
    OBVIOUS
  <2>2. Len(at) - Len(chan["deduped"]) = Len(at)
    BY <1>2, <2>1
  <2>3. QED
    BY <2>1, <2>2
<1>4. /\ Picked(at, emitted, Met) /\ Placed(at, emitted, chan["deduped"], report, StatusIn)
      /\ Settled(report, n, baseline, remaining) /\ Met \in Nat
  BY <1>1, <1>2, <1>3, MetFacts DEF Exact
<1>5. ASSUME NEW k \in 1..n
      PROVE  report[k].key = emitted[at[k]].key
  <2>1. TellsOf(report[k], emitted, at, k, StatusIn)
    BY <1>3, <1>4 DEF Placed
  <2>2. QED
    BY <2>1 DEF TellsOf, Row
<1>6. CASE i \in 1..n /\ j \in 1..n
  <2>1. report[i].key = emitted[at[i]].key /\ report[j].key = emitted[at[j]].key
    BY <1>5, <1>6
  <2>2. PICK sent \in Seq(Findings), met \in Nat : sent = emitted /\ met = Met
    BY <1>4, LineFacts
  <2>3. Picked(at, sent, met) /\ i \in 1..Len(at) /\ j \in 1..Len(at)
    BY <1>3, <1>4, <1>6, <2>2
  <2>4. sent[at[j]].key # NoKey
    BY <2>1, <2>2
  <2>5. sent[at[i]].key # sent[at[j]].key
    BY <2>3, <2>4, KeptApart
  <2>6. QED
    BY <2>1, <2>2, <2>5
<1>7. CASE j \in (n + 1)..Len(report)
  <2>1. /\ \A k \in 1..n : report[k].key # report[j].key
        /\ \A k \in (n + 1)..Len(report) : k < j => report[k].key < report[j].key
    BY <1>4, <1>7 DEF Settled
  <2>2. i \in 1..n \/ i \in (n + 1)..Len(report)
    OBVIOUS
  <2>3. CASE i \in 1..n
    BY <2>1, <2>3
  <2>4. CASE i \in (n + 1)..Len(report)
    <3>1. report[i].key < report[j].key
      BY <2>1, <2>4
    <3>2. report[i] \in Found /\ report[j] \in Found
      BY LineFacts
    <3>3. report[i].key \in Nat /\ report[j].key \in Nat
      BY <3>2 DEF Found, Rows
    <3>4. QED
      BY <3>1, <3>3
  <2>5. QED
    BY <2>2, <2>3, <2>4
<1>8. QED
  <2>1. j \in (n + 1)..Len(report) \/ (i \in 1..n /\ j \in 1..n)
    BY LineFacts
  <2>2. QED
    BY <1>6, <1>7, <2>1

\* The baseline that is read from it has one entry for each key.
LEMMA IndexIsUnique ==
  ASSUME Typed, Closing, Reported, write = "ok", ~broken
  PROVE  \A b, c \in Index(report) : b.key = c.key => b = c
<1>1. SUFFICES ASSUME NEW b \in Index(report), NEW c \in Index(report), b.key = c.key
               PROVE  b = c
  OBVIOUS
<1>2. b \in FindingsOf(report) /\ c \in FindingsOf(report) /\ b.key # NoKey
  BY DEF Index
<1>3. DOMAIN report = 1..Len(report)
  BY LineFacts
<1>4. PICK i \in 1..Len(report) : b = [key |-> report[i].key, sev |-> report[i].sev]
  BY <1>2, <1>3 DEF FindingsOf, Range
<1>5. PICK j \in 1..Len(report) : c = [key |-> report[j].key, sev |-> report[j].sev]
  BY <1>2, <1>3 DEF FindingsOf, Range
<1>6. report[i].key = report[j].key /\ report[i].key # NoKey
  BY <1>1, <1>2, <1>4, <1>5
<1>7. ~(i < j) /\ ~(j < i)
  BY <1>6, OneRowPerKey
<1>8. i = j
  BY <1>7
<1>9. QED
  BY <1>4, <1>5, <1>8

\* When a run begins nothing was sent and nothing stands in line.
LEMMA NothingYet ==
  ASSUME NEW base, NEW st
  PROVE  /\ <<>> \in Seq(Nat) /\ <<>> \o <<>> = <<>> /\ Len(<<>>) = 0
         /\ Queued(<<>>, <<>>) /\ SeenOf(<<>>, 0) = {} /\ Picked(<<>>, <<>>, 0)
         /\ Placed(<<>>, <<>>, <<>>, <<>>, st) /\ Settled(<<>>, 0, base, base)
         /\ Tallied(<<>>, [s \in {"new", "persisting", "resolved"} |-> 0])
<1>1. <<>> \in Seq(Nat) /\ Len(<<>>) = 0 /\ <<>> \o <<>> = <<>>
  OBVIOUS
<1>2. 0 - 0 = 0 /\ 0 <= 0
  OBVIOUS
<1>3. 1..0 = {} /\ (0 + 1)..0 = {}
  OBVIOUS
<1>4. Queued(<<>>, <<>>)
  BY <1>1, <1>2, <1>3 DEF Queued
<1>5. SeenOf(<<>>, 0) = {}
  BY <1>3 DEF SeenOf
<1>6. Picked(<<>>, <<>>, 0)
  <2>1. \A k \in Kept(<<>>) : FALSE
    BY DEF Kept
  <2>2. QED
    BY <1>1, <1>3, <2>1 DEF Picked
<1>7. Placed(<<>>, <<>>, <<>>, <<>>, st)
  BY <1>1, <1>2, <1>3 DEF Placed
<1>8. Settled(<<>>, 0, base, base)
  BY <1>1, <1>3 DEF Settled
<1>9. Tallied(<<>>, [s \in {"new", "persisting", "resolved"} |-> 0])
  <2>1. \A s : {i \in 1..Len(<<>>) : <<>>[i].status = s} = {}
    BY <1>1, <1>3
  <2>2. QED
    BY <2>1, FS_EmptySet DEF Tallied
<1>10. QED
  BY <1>1, <1>4, <1>5, <1>6, <1>7, <1>8, <1>9

LEMMA InitReported == Init => Reported
<1> SUFFICES ASSUME Init PROVE Reported
  OBVIOUS
<1>1. /\ \A c \in Channels : chan[c] = <<>>
      /\ report = <<>> /\ baseline = {} /\ remaining = {} /\ emitted = <<>> /\ seen = {}
      /\ round = 1 /\ whole = FALSE
  BY DEF Init
<1>2. /\ chan["findings"] = <<>> /\ chan["deduped"] = <<>>
      /\ chan["diffed"] = <<>> /\ chan["gated"] = <<>>
  BY <1>1, StatusStays
<1>3. ~Diffing
  BY <1>1 DEF Diffing
<1>4. Line = <<>> /\ Met = 0 /\ Len(<<>>) = 0 /\ 0 - 0 = 0 /\ ~(0 < 0)
  BY <1>1, <1>2, NothingYet DEF Line, Met
<1>5. PICK none \in Seq(Nat) : none = <<>>
  BY NothingYet
<1>6. Exact(none)
  BY <1>1, <1>2, <1>3, <1>4, <1>5, NothingYet DEF Exact
<1>7. QED
  BY <1>1, <1>3, <1>6 DEF Reported

\* A run that begins reads a baseline with one entry for each key.
LEMMA NextRunReported ==
  ASSUME Typed, Closing, Decided, Reported, NextRun
  PROVE  Reported'
<1>1. /\ chan' = [c \in Channels |-> <<>>]
      /\ report' = <<>> /\ remaining' = baseline' /\ emitted' = <<>> /\ seen' = {}
      /\ counts' = [s \in {"new", "persisting", "resolved"} |-> 0]
      /\ baseline' = Index(report) /\ round' = round + 1 /\ whole' = FALSE /\ whole
  BY DEF NextRun, StartRun
<1>2. /\ chan'["findings"] = <<>> /\ chan'["deduped"] = <<>>
      /\ chan'["diffed"] = <<>> /\ chan'["gated"] = <<>>
  BY <1>1, StatusStays
<1>3. \A b, c \in baseline' : b.key = c.key => b = c
  <2>1. write = "ok" /\ ~broken
    BY <1>1 DEF Reported, Decided
  <2>2. QED
    BY <1>1, <2>1, IndexIsUnique
<1>4. Diffing'
  <2>1. round \in Nat /\ round >= 1
    BY DEF Typed
  <2>2. QED
    BY <1>1, <2>1 DEF Diffing
<1>5. Line' = <<>> /\ Met' = 0 /\ Len(<<>>) = 0 /\ 0 - 0 = 0 /\ ~(0 < 0)
  BY <1>1, <1>2, NothingYet DEF Line, Met
<1>6. PICK none \in Seq(Nat) : none = <<>>
  BY NothingYet
<1>7. /\ Queued(emitted', chan'["findings"])
      /\ seen' = SeenOf(emitted', Met')
      /\ Picked(none, emitted', Met')
  BY <1>1, <1>2, <1>5, <1>6, NothingYet
<1>8. Placed(none, emitted', chan'["deduped"], Line', StatusIn')
  BY <1>1, <1>2, <1>5, <1>6, NothingYet
<1>9. Settled(Line', Len(none) - Len(chan'["deduped"]), baseline', remaining')
  BY <1>1, <1>2, <1>5, <1>6, NothingYet
<1>10. Tallied(Line', counts')
  BY <1>1, <1>5, NothingYet
<1>11. ~(Len(none) - Len(chan'["deduped"]) < Len(Line'))
  BY <1>2, <1>5, <1>6
<1>12. Exact(none)'
  BY <1>7, <1>8, <1>9, <1>10, <1>11 DEF Exact
<1>13. QED
  BY <1>1, <1>3, <1>4, <1>12 DEF Reported

LEMMA NextReported ==
  ASSUME Typed, Closing, Remembered, Decided, Reported, [Next]_vars
  PROVE  Reported'
<1> USE DEF roundVars, scanVars, stageVars, reportVars
<1>0. /\ Typed /\ Closing /\ Reported
      /\ whole => write = "ok"
      /\ \A b, c \in baseline : b.key = c.key => b = c
      /\ ~Diffing => baseline = {}
  BY DEF Reported
<1>1. CASE NextRun
  BY <1>1, NextRunReported
<1>2. ASSUME ~NextRun
      PROVE  /\ whole' => write' = "ok"
             /\ \A b, c \in baseline' : b.key = c.key => b = c
             /\ ~Diffing' => baseline' = {}
  <2>1. baseline' = baseline /\ round' = round
    BY <1>2 DEF Next, Stage, Main, Cancel, FeedEnds, CheckFails, ScanEnds, Emit, Dedupe, Diff,
                Resolve, Tap, CloseStage, Close, Receive, WriteReturns, Finish, vars
  <2>2. \/ whole' = whole /\ write' = write
        \/ whole' = whole /\ write = "running"
        \/ whole' \in {write = "ok", FALSE} /\ write' = write
    BY <1>2 DEF Next, Stage, Main, Cancel, FeedEnds, CheckFails, ScanEnds, Emit, Dedupe, Diff,
                Resolve, Tap, CloseStage, Close, Receive, WriteReturns, Finish, vars
  <2>3. whole' => write' = "ok"
    BY <1>0, <2>2
  <2>4. QED
    BY <1>0, <2>1, <2>3 DEF Diffing
<1>3. ASSUME ~NextRun, ~broken', NEW at \in Seq(Nat), Exact(at)
      PROVE  \E more \in Seq(Nat) : Exact(more)'
  <2>1. CASE Cancel \/ FeedEnds \/ CheckFails \/ ScanEnds \/ CloseStage \/ WriteReturns
             \/ Finish \/ UNCHANGED vars
    <3>1. /\ emitted' = emitted /\ chan' = chan /\ seen' = seen /\ report' = report
          /\ round' = round /\ baseline' = baseline /\ remaining' = remaining
          /\ counts' = counts
      BY <2>1 DEF Cancel, FeedEnds, CheckFails, ScanEnds, CloseStage, Close, WriteReturns,
                  Finish, vars
    <3>2. open' \subseteq open
      BY <2>1 DEF Cancel, FeedEnds, CheckFails, ScanEnds, CloseStage, Close, WriteReturns,
                  Finish, vars
    <3>3. Exact(at)'
      BY <1>3, <3>1, <3>2, ExactStays
    <3>4. QED
      BY <3>3
  <2>2. ASSUME NEW f \in Findings, Emit(f)
        PROVE  Exact(at)'
    BY <1>0, <1>3, <2>2, ExactEmits
  <2>3. CASE Dedupe
    BY <1>0, <1>3, <2>3, ExactDedupes
  <2>4. CASE Diff
    BY <1>0, <1>3, <2>4, ExactDiffs
  <2>5. CASE Resolve
    BY <1>0, <1>3, <2>5, ExactResolves
  <2>6. CASE Tap
    BY <1>0, <1>3, <2>6, ExactTaps
  <2>7. CASE Receive
    BY <1>0, <1>3, <2>7, ExactReceives
  <2>8. QED
    BY <1>3, <2>1, <2>2, <2>3, <2>4, <2>5, <2>6, <2>7 DEF Next, Stage, Main
<1>4. ASSUME ~NextRun, ~broken'
      PROVE  ~broken
  BY <1>4 DEF Next, Stage, Main, Cancel, FeedEnds, CheckFails, ScanEnds, Emit, Dedupe, Diff,
              Resolve, Tap, CloseStage, Close, Receive, WriteReturns, Finish, vars
<1>5. ASSUME ~NextRun, ~broken'
      PROVE  \E more \in Seq(Nat) : Exact(more)'
  <2>1. ~broken
    BY <1>4, <1>5
  <2>2. PICK at \in Seq(Nat) : Exact(at)
    BY <1>0, <2>1 DEF Reported
  <2>3. QED
    BY <1>3, <1>5, <2>2
<1>6. QED
  BY <1>1, <1>2, <1>5 DEF Reported

\* What the accounts come to once the line is the report.
LEMMA LiveRows ==
  ASSUME Typed, Closing, write # "running", NEW at \in Seq(Nat), Exact(at),
         NEW n \in Nat, n = Len(at)
  PROVE  /\ n <= Len(report)
         /\ \A i \in 1..n : report[i].key = emitted[at[i]].key
         /\ AreLive(SubSeq(report, 1, n))
<1>1. Line = report /\ chan["deduped"] = <<>> /\ Met = Len(emitted)
  BY LineIsReport
<1>2. Len(<<>>) = 0 /\ n - 0 = n /\ Len(emitted) \in Nat /\ Len(report) \in Nat
  BY LineFacts
<1>3. n <= Len(report)
  <2>1. Len(at) - Len(chan["deduped"]) = n
    BY <1>1, <1>2
  <2>2. QED
    BY <1>1, <2>1, MetFacts
<1>4. ASSUME NEW i \in 1..n
      PROVE  report[i] = Row(emitted[at[i]], StatusIn[emitted[at[i]]])
  <2>1. TellsOf(report[i], emitted, at, i, StatusIn)
    BY <1>1, <1>2 DEF Exact, Placed
  <2>2. QED
    BY <2>1 DEF TellsOf
<1>5. ASSUME NEW i \in 1..n
      PROVE  report[i].key = emitted[at[i]].key
  <2>1. report[i] = Row(emitted[at[i]], StatusIn[emitted[at[i]]])
    BY <1>4
  <2>2. QED
    BY <2>1 DEF Row
<1>6. Picked(at, emitted, Len(emitted))
  BY <1>1 DEF Exact
<1>7. \A i \in 1..n : at[i] \in 1..Len(emitted) /\ emitted[at[i]] \in Findings
  BY MetFacts, LineFacts
<1>8. at \in [1..n -> 1..Len(emitted)] /\ DOMAIN at = 1..n
  BY <1>7
<1>9. PICK rows \in Seq(Found) :
        rows = SubSeq(report, 1, n) /\ DOMAIN rows = 1..n /\ \A i \in 1..n : rows[i] = report[i]
  <2>1. /\ SubSeq(report, 0 + 1, n) \in Seq(Found)
        /\ DOMAIN SubSeq(report, 0 + 1, n) = 1..(n - 0)
        /\ \A i \in 1..(n - 0) : SubSeq(report, 0 + 1, n)[i] = report[0 + i]
    BY <1>2, <1>3, LineFacts, SubSeqFacts
  <2>2. 0 + 1 = 1 /\ n - 0 = n /\ \A i \in 1..n : 0 + i = i
    OBVIOUS
  <2>3. QED
    BY ZenonT(60), <2>1, <2>2
<1>10. DOMAIN emitted = 1..Len(emitted)
  BY LineFacts
<1>11. Range(at) = Kept(emitted)
  <2>1. \A i \in 1..n : at[i] \in Kept(emitted)
    BY <1>6 DEF Picked
  <2>2. ASSUME NEW k \in Kept(emitted)
        PROVE  \E i \in 1..n : at[i] = k
    <3>1. k <= Len(emitted)
      BY KeptAreSent, LineFacts
    <3>2. QED
      BY <1>6, <3>1 DEF Picked
  <2>3. QED
    BY <1>8, <2>1, <2>2 DEF Range
<1>12. \A i, j \in 1..n : i < j => at[i] < at[j]
  BY <1>6 DEF Picked
<1>13. \A i \in 1..n : rows[i] = Row(emitted[at[i]], StatusOf(emitted[at[i]]))
  <2>1. \A f \in Findings : StatusIn[f] = StatusOf(f)
    BY DEF StatusIn
  <2>2. QED
    BY <1>4, <1>7, <1>9, <2>1
<1>14. AreLive(rows)
  BY SMTT(30), <1>8, <1>9, <1>10, <1>11, <1>12, <1>13 DEF AreLive
<1>15. QED
  BY <1>3, <1>5, <1>9, <1>14

LEMMA ResolvedRows ==
  ASSUME Typed, Closing, Reported, write # "running", NEW at \in Seq(Nat), Exact(at),
         NEW n \in Nat, n = Len(at)
  PROVE  AreResolved(SubSeq(report, n + 1, Len(report)))
<1>1. Line = report /\ chan["deduped"] = <<>> /\ Met = Len(emitted)
      /\ (Diffing => remaining = {})
  BY LineIsReport
<1>2. Len(<<>>) = 0 /\ n - 0 = n /\ Len(emitted) \in Nat /\ Len(report) \in Nat
      /\ DOMAIN emitted = 1..Len(emitted)
  BY LineFacts
<1>3. n <= Len(report) /\ \A i \in 1..n : report[i].key = emitted[at[i]].key
  BY LiveRows
<1>4. Settled(report, n, baseline, remaining)
  BY <1>1, <1>2 DEF Exact
<1>5. \A i \in 1..n : at[i] \in 1..Len(emitted)
  BY MetFacts
<1>6. \A k \in 1..Len(emitted) : \E i \in 1..n : report[i].key = emitted[k].key
  BY ZenonT(60), <1>1, <1>3 DEF Exact, Picked
<1>7. Keys(Range(emitted)) = {report[i].key : i \in 1..n}
  <2>1. Keys(Range(emitted)) = {emitted[k].key : k \in 1..Len(emitted)}
    BY <1>2 DEF Keys, Range
  <2>2. ASSUME NEW i \in 1..n
        PROVE  report[i].key \in {emitted[k].key : k \in 1..Len(emitted)}
    BY <1>3, <1>5
  <2>3. ASSUME NEW k \in 1..Len(emitted)
        PROVE  emitted[k].key \in {report[i].key : i \in 1..n}
    BY <1>6
  <2>4. QED
    BY <2>1, <2>2, <2>3
<1>8. PICK rows \in Seq(Found) :
        /\ rows = SubSeq(report, n + 1, Len(report))
        /\ DOMAIN rows = 1..(Len(report) - n)
        /\ \A i \in 1..(Len(report) - n) : rows[i] = report[n + i]
  <2>1. PICK m \in Nat : m = Len(report) /\ m <= Len(report) /\ n <= m
    BY <1>2, <1>3
  <2>2. /\ SubSeq(report, n + 1, m) \in Seq(Found)
        /\ DOMAIN SubSeq(report, n + 1, m) = 1..(m - n)
        /\ \A i \in 1..(m - n) : SubSeq(report, n + 1, m)[i] = report[n + i]
    BY <2>1, LineFacts, SubSeqFacts
  <2>3. QED
    BY <2>1, <2>2
<1>9. \A i \in 1..(Len(report) - n) : n + i \in (n + 1)..Len(report)
  BY <1>2, <1>3
<1>10. \A i, j \in 1..(Len(report) - n) : i < j => rows[i].key < rows[j].key
  <2>1. SUFFICES ASSUME NEW i \in 1..(Len(report) - n), NEW j \in 1..(Len(report) - n), i < j
                 PROVE  rows[i].key < rows[j].key
    OBVIOUS
  <2>2. n + i \in (n + 1)..Len(report) /\ n + j \in (n + 1)..Len(report) /\ n + i < n + j
    BY <1>9, <2>1
  <2>3. report[n + i].key < report[n + j].key
    BY <1>4, <2>2 DEF Settled
  <2>4. QED
    BY <1>8, <2>3
<1>11. ASSUME NEW i \in (n + 1)..Len(report)
       PROVE  \E b \in {c \in baseline : c.key \notin Keys(Range(emitted))} :
                report[i] = Row(b, "resolved")
  <2>1. PICK b \in baseline : report[i] = Row(b, "resolved")
    BY <1>4 DEF Settled
  <2>2. b.key = report[i].key
    BY <2>1 DEF Row
  <2>3. \A j \in 1..n : report[j].key # report[i].key
    BY <1>4 DEF Settled
  <2>4. b.key \notin Keys(Range(emitted))
    BY <1>7, <2>2, <2>3
  <2>5. QED
    BY <2>1, <2>4
<1>12. ASSUME NEW c \in baseline, c.key \notin Keys(Range(emitted))
       PROVE  \E i \in (n + 1)..Len(report) : report[i] = Row(c, "resolved")
  <2>1. Diffing /\ remaining = {}
    BY <1>1 DEF Reported
  <2>2. PICK i \in 1..Len(report) : report[i].key = c.key
    BY <1>4, <2>1 DEF Settled
  <2>3. i \notin 1..n
    BY <1>7, <1>12, <2>2
  <2>4. i \in (n + 1)..Len(report)
    BY <2>3
  <2>5. PICK b \in baseline : report[i] = Row(b, "resolved")
    BY <1>4, <2>4 DEF Settled
  <2>6. b.key = c.key
    BY <2>2, <2>5 DEF Row
  <2>7. b = c
    BY <2>6 DEF Reported
  <2>8. QED
    BY <2>4, <2>5, <2>7
<1>13. Range(rows) = {Row(b, "resolved") : b \in {c \in baseline : c.key \notin Keys(Range(emitted))}}
  <2>1. ASSUME NEW r \in Range(rows)
        PROVE  \E b \in {c \in baseline : c.key \notin Keys(Range(emitted))} : r = Row(b, "resolved")
    <3>1. PICK i \in 1..(Len(report) - n) : r = rows[i]
      BY <1>8 DEF Range
    <3>2. n + i \in (n + 1)..Len(report) /\ r = report[n + i]
      BY <1>8, <1>9, <3>1
    <3>3. QED
      BY <1>11, <3>2
  <2>2. ASSUME NEW b \in {c \in baseline : c.key \notin Keys(Range(emitted))}
        PROVE  Row(b, "resolved") \in Range(rows)
    <3>1. PICK i \in (n + 1)..Len(report) : report[i] = Row(b, "resolved")
      BY <1>12
    <3>2. PICK k \in 1..(Len(report) - n) : i = n + k
      <4>1. i - n \in 1..(Len(report) - n) /\ i = n + (i - n)
        BY <1>2, <1>3
      <4>2. QED
        BY <4>1
    <3>3. rows[k] = Row(b, "resolved")
      BY <1>8, <3>1, <3>2
    <3>4. QED
      BY <1>8, <3>3 DEF Range
  <2>3. QED
    BY <2>1, <2>2
<1>14. AreResolved(rows)
  BY <1>8, <1>10, <1>13 DEF AreResolved
<1>15. QED
  BY <1>8, <1>14

LEMMA ReportedHolds == Spec => []Reported
<1>1. PipeInv /\ Reported /\ [Next]_vars => Reported'
  BY NextReported DEF PipeInv
<1>2. QED
  BY <1>1, InitReported, PipeInvHolds, PTL DEF Spec

-----------------------------------------------------------------------------
(* The results.                                                             *)

\* Every channel but the scanner's holds at most what it has room for, a
\* finding is followed through the stages as what a check found, and what is
\* left of the baseline is part of it.
THEOREM PipelineTypeCorrect == Spec => []TypeOK
<1>1. Typed => TypeOK
  <2> SUFFICES ASSUME Typed PROVE TypeOK
    OBVIOUS
  <2>1. Found \subseteq Rows
    BY DEF Found
  <2>2. \A s \in Seq(Found) : s \in Seq(Rows)
    BY <2>1
  <2>3. \A c \in Channels : chan[c] \in Seq(Rows)
    BY <2>2 DEF Typed
  <2>4. previous \in Seq(Rows) /\ report \in Seq(Rows)
    BY <2>2 DEF Typed
  <2>5. {feed, scan, write} \subseteq {"running", "ok", "err"}
    BY DEF Typed
  <2>6. QED
    BY <2>3, <2>4, <2>5 DEF Typed, TypeOK
<1>2. PipeInv => TypeOK
  BY <1>1 DEF PipeInv
<1>3. QED
  BY <1>2, PipeInvHolds, PTL

\* What the previous report lists under a key is never reported as new: the
\* Diff stage takes a key out of its index at the first row under it, and no
\* second one can come, because Dedupe has let only one through.
THEOREM KnownDebtHolds == Spec => []KnownDebtIsNotNew
<1>1. PipeInv => KnownDebtIsNotNew
  <2> SUFFICES ASSUME PipeInv,
                      NEW r \in Range(report), r.key # NoKey, r.key \in Keys(Range(previous))
               PROVE  r.status # "new"
    BY DEF KnownDebtIsNotNew
  <2>1. PICK q \in Range(previous) : q.key = r.key
    BY DEF Keys
  <2>2. Diffing
    <3>1. Range(<<>>) = {}
      BY DEF Range
    <3>2. QED
      BY <2>1, <3>1 DEF PipeInv, Remembered
  <2>3. r.key \in Keys(baseline)
    BY <2>1 DEF PipeInv, Remembered
  <2>4. Honest(report)
    BY <2>2 DEF PipeInv, Judged
  <2>5. QED
    BY <2>3, <2>4 DEF Honest, Range
<1>2. QED
  BY <1>1, PipeInvHolds, PTL

\* The exit codes 0 and 1 stand for a scan that was neither cancelled nor
\* failed, and tell whether a row of the report trips the gate: what Tap has
\* kept is the worst of the rows beyond it, and when the reporter has returned
\* they are all in the report.
THEOREM GateHolds == Spec => []GateIsExact
<1>1. PipeInv => GateIsExact
  <2> SUFFICES ASSUME PipeInv, exit \in {exitOK, exitFindings}
               PROVE  /\ write = "ok" /\ scan = "ok" /\ feed = "ok" /\ ~checkErrs /\ ~ctxDone
                      /\ exit = exitFindings <=> \E r \in Range(report) : Trips(r)
    BY DEF GateIsExact
  <2>1. /\ write = "ok" /\ scan = "ok" /\ feed = "ok" /\ ~checkErrs /\ ~ctxDone /\ ~broken
        /\ exit = exitFindings <=> Gate /\ worst >= FailOn
    BY DEF PipeInv, Decided
  <2>2. chan["gated"] = <<>>
    BY <2>1, NothingIsBehind DEF PipeInv
  <2>3. Beyond = Range(report)
    <3>1. Range(<<>>) = {}
      BY DEF Range
    <3>2. QED
      BY <2>2, <3>1 DEF Beyond
  <2>4. /\ \A r \in Range(report) : Counts(r) => r.sev <= worst
        /\ worst # -1 => \E r \in Range(report) : Counts(r) /\ r.sev = worst
    BY <2>1, <2>3 DEF PipeInv, Weighed
  <2>5. \A r \in Range(report) : r.sev \in Nat
    <3>1. \A r \in Range(report) : r \in Found
      BY ItemsOfSeq DEF PipeInv, Typed
    <3>2. QED
      BY <3>1 DEF Found, Rows
  <2>6. worst \in Nat \cup {-1} /\ FailOn \in Nat
    BY Constants DEF PipeInv, Typed
  <2>7. \A r : Trips(r) <=> Counts(r) /\ r.sev >= FailOn
    BY DEF Trips, Counts
  <2>8. ASSUME Gate, worst >= FailOn
        PROVE  \E r \in Range(report) : Trips(r)
    BY <2>4, <2>6, <2>7, <2>8
  <2>9. ASSUME NEW r \in Range(report), Trips(r)
        PROVE  Gate /\ worst >= FailOn
    <3>1. Counts(r) /\ r.sev >= FailOn /\ Gate
      BY <2>7, <2>9 DEF Counts
    <3>2. r.sev <= worst /\ r.sev \in Nat
      BY <2>4, <2>5, <3>1
    <3>3. worst >= FailOn
      BY <2>6, <3>1, <3>2
    <3>4. QED
      BY <3>1, <3>3
  <2>10. QED
    BY <2>1, <2>8, <2>9
<1>2. QED
  BY <1>1, PipeInvHolds, PTL

\* A report that was written has, in the order in which they were sent, the
\* first finding of each key and all that have none, each once and with the
\* status that the baseline gives it; after them, in the order of keys, what
\* the baseline has and no check found; and the summary counts its rows.  For
\* any findings, baseline and capacity, and however the stages interleave.
THEOREM ReportExact == Spec => []ReportIsExact
<1>1. PipeInv /\ Reported => ReportIsExact
  <2> SUFFICES ASSUME PipeInv, Reported, write = "ok"
               PROVE  /\ \E n \in 0..Len(report) :
                           /\ AreLive(SubSeq(report, 1, n))
                           /\ AreResolved(SubSeq(report, n + 1, Len(report)))
                      /\ Diffing => \A s \in DOMAIN counts :
                           counts[s] = Cardinality({i \in DOMAIN report : report[i].status = s})
    BY DEF ReportIsExact
  <2>1. Typed /\ Closing /\ ~broken
    BY DEF PipeInv, Decided
  <2>2. PICK at \in Seq(Nat) : Exact(at)
    BY <2>1 DEF Reported
  <2>3. PICK n \in Nat : n = Len(at)
    OBVIOUS
  <2>4. n <= Len(report) /\ AreLive(SubSeq(report, 1, n))
        /\ AreResolved(SubSeq(report, n + 1, Len(report)))
    BY <2>1, <2>2, <2>3, LiveRows, ResolvedRows
  <2>5. n \in 0..Len(report)
    BY <2>1, <2>4, LineFacts
  <2>6. ASSUME Diffing, NEW s \in DOMAIN counts
        PROVE  counts[s] = Cardinality({i \in DOMAIN report : report[i].status = s})
    <3>1. s \in {"new", "persisting", "resolved"}
      BY <2>1 DEF Typed
    <3>2. Tallied(report, counts)
      BY <2>1, <2>2, <2>6, LineIsReport DEF Exact
    <3>3. DOMAIN report = 1..Len(report)
      BY <2>1, LineFacts
    <3>4. QED
      BY <3>1, <3>2, <3>3 DEF Tallied
  <2>7. QED
    BY <2>4, <2>5, <2>6
<1>2. QED
  BY <1>1, PipeInvHolds, ReportedHolds, PTL

=============================================================================
