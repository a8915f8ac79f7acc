---------------------------- MODULE FramingProbe ----------------------------
(***************************************************************************)
(* The request-smuggling check (lua_engine/checks/smuggling,               *)
(* checks/smuggling/request_smuggling.lua): three requests that a front    *)
(* and a back end may end at different bytes; the one that hangs on two    *)
(* attempts tells how the two disagree.                                    *)
(*                                                                         *)
(* Runs of the check on pages of one host share a cache.  The host behind  *)
(* it is [front, back, h2, pace]: how each end finds the end of a body     *)
(* ("length" or "chunked"), what it does with HTTP/2 ("none", "refuses",   *)
(* "passes"), and how long it takes for anything.  Time is in halves of a  *)
(* second.                                                                 *)
(***************************************************************************)
EXTENDS Naturals, FiniteSets, Sequences, SequencesExt

CONSTANTS
    FramedPages,        \* pages of the host, scanned at the same time
    Chains,             \* what the host may be
    Stall,              \* how long a transient delay lasts
    Stalls              \* how many of them there are

VARIABLES
    chain,              \* the host
    framed,             \* per page, the run of the check on it
    cached,             \* <<>>, or the variants confirmed for the host in a tuple
    stalls,             \* transient delays so far
    smuggled            \* the variants reported

framingVars == <<chain, framed, cached, stalls, smuggled>>

HangThreshold == 10
ProbeTimeout == 24
Samples == 3

\* A probe: the protocol, the length it declares and the body that follows.
Variants == <<
    [label |-> "CL.TE", h2 |-> FALSE, length |-> 4, body |-> <<"1", "r", "n", "A", "r", "n", "X">>],
    [label |-> "TE.CL", h2 |-> FALSE, length |-> 6, body |-> <<"0", "r", "n", "r", "n">>],
    [label |-> "H2.CL", h2 |-> TRUE, length |-> 6, body |-> <<"A", "A", "A", "A", "A">>] >>
-----------------------------------------------------------------------------
(* How a server finds the end of a body: "done" after n bytes, "waits" for *)
(* more, or "bad".                                                         *)

ByLength(length, body) ==
    IF Len(body) < length THEN [end |-> "waits", n |-> 0] ELSE [end |-> "done", n |-> length]

\* Chunks of one byte at most; a byte that is no size is refused at once.
After(at, byte) ==
    CASE at = "size" -> IF byte = "0" THEN "last" ELSE IF byte = "1" THEN "cr" ELSE "bad"
      [] at = "cr"   -> IF byte = "r" THEN "lf" ELSE "bad"
      [] at = "lf"   -> IF byte = "n" THEN "data" ELSE "bad"
      [] at = "data" -> "cr2"
      [] at = "cr2"  -> IF byte = "r" THEN "lf2" ELSE "bad"
      [] at = "lf2"  -> IF byte = "n" THEN "size" ELSE "bad"
      [] at = "last" -> IF byte = "r" THEN "last2" ELSE "bad"
      [] at = "last2" -> IF byte = "n" THEN "end" ELSE "bad"
      [] at = "end"  -> IF byte = "r" THEN "end2" ELSE "bad"
      [] at = "end2" -> IF byte = "n" THEN "done" ELSE "bad"
      [] OTHER -> at
ByChunks(body) ==
    LET at == FoldLeft(After, "size", body)
    IN  [end |-> IF at \in {"done", "bad"} THEN at ELSE "waits", n |-> Len(body)]

Ends(rule, length, body) == IF rule = "length" THEN ByLength(length, body) ELSE ByChunks(body)

\* Over HTTP/2 the frames say where the body ends; the length goes on as it is, or
\* the mismatch is refused.
Hangs(v) ==
    LET front == Ends(chain.front, v.length, v.body)
    IN  IF v.h2 THEN chain.h2 = "passes" /\ Ends("length", v.length, v.body).end = "waits"
        ELSE \/ front.end = "waits"
             \/ /\ front.end = "done"
                /\ Ends(chain.back, v.length, SubSeq(v.body, 1, front.n)).end = "waits"
-----------------------------------------------------------------------------
FramingInit ==
    /\ chain \in Chains /\ cached = <<>> /\ stalls = 0 /\ smuggled = {}
    /\ framed = [p \in FramedPages |->
                    [at |-> "asked", samples |-> <<>>, tried |-> 0, variant |-> 1,
                     confirmed |-> {}, clean |-> TRUE, cut |-> FALSE]]

\* What a request takes when it would take t, as far as anybody waits for it: a
\* transient delay may come on top.
Delayed(t) == IF t + Stall > ProbeTimeout THEN ProbeTimeout ELSE t + Stall
Takes(t, d) ==
    \/ d = t /\ UNCHANGED stalls
    \/ stalls < Stalls /\ d = Delayed(t) /\ stalls' = stalls + 1

AskCache(p) ==
    /\ framed[p].at = "asked"
    /\ IF cached # <<>>
       THEN /\ framed' = [framed EXCEPT ![p].at = "over", ![p].confirmed = cached[1]]
            /\ smuggled' = smuggled \cup
                   (IF framed[p].cut THEN {} ELSE { l \in cached[1] : \A m \in cached[1] : l[1] <= m[1] })
       ELSE framed' = [framed EXCEPT ![p].at = "baseline"] /\ UNCHANGED smuggled
    /\ UNCHANGED <<chain, cached, stalls>>

\* measureBaseline: the median of what succeeded.
MedianIsLargest(samples) == SortSeq(samples, <=)[Len(samples)]
Median(samples) == SortSeq(samples, <=)[Len(samples) \div 2 + 1]
SampleBaseline(p) ==
    /\ framed[p].at = "baseline" /\ ~framed[p].cut /\ framed[p].tried < Samples
    /\ \/ \E d \in {chain.pace, Delayed(chain.pace)} :
              /\ Takes(chain.pace, d)
              /\ framed' = [framed EXCEPT ![p].tried = @ + 1,
                                          ![p].samples = IF d < ProbeTimeout THEN Append(@, d) ELSE @]
       \/ /\ framed' = [framed EXCEPT ![p].tried = @ + 1, ![p].clean = FALSE]
          /\ UNCHANGED stalls
    /\ UNCHANGED <<chain, cached, smuggled>>
BaselineDone(p) ==
    /\ framed[p].at = "baseline" /\ framed[p].tried = Samples
    /\ IF framed[p].samples = <<>>
       THEN /\ framed' = [framed EXCEPT ![p].at = "over"]
            /\ cached' = << {} >>
       ELSE framed' = [framed EXCEPT ![p].at = "first"] /\ UNCHANGED cached
    /\ UNCHANGED <<chain, stalls, smuggled>>

\* timingHit
TimingHit(baseline, probe) == probe >= HangThreshold /\ probe >= baseline + (7 * HangThreshold) \div 10

\* canProbe: an error of the negotiation counts as a refusal.
SkipVariant(p) ==
    /\ framed[p].at = "first" /\ framed[p].variant <= Len(Variants)
    /\ Variants[framed[p].variant].h2
    /\ framed' = [framed EXCEPT ![p].variant = @ + 1, ![p].clean = chain.h2 = "none" /\ @]
    /\ UNCHANGED <<chain, cached, stalls, smuggled>>

Negotiated(v) == v.h2 => chain.h2 # "none"

\* One attempt: a hit is tried again after a pause, and is confirmed by the second.
OneIsEnough(p, hit, v) ==
    [framed EXCEPT ![p].at = "first", ![p].variant = @ + 1,
                   ![p].confirmed = IF hit THEN @ \cup { <<framed[p].variant, v.label>> } ELSE @]
Judged(p, hit, v) ==
    IF framed[p].at = "first" /\ hit THEN [framed EXCEPT ![p].at = "second"]
    ELSE [framed EXCEPT ![p].at = "first", ![p].variant = @ + 1,
                        ![p].confirmed = IF hit THEN @ \cup { <<framed[p].variant, v.label>> } ELSE @]
ProbeVariant(p) ==
    /\ framed[p].at \in {"first", "second"} /\ ~framed[p].cut /\ framed[p].variant <= Len(Variants)
    /\ LET v == Variants[framed[p].variant]
       IN  /\ Negotiated(v)
           /\ \/ \E d \in {chain.pace, Delayed(chain.pace), ProbeTimeout} :
                     /\ IF Hangs(v) THEN d = ProbeTimeout /\ UNCHANGED stalls
                                    ELSE Takes(chain.pace, d)
                     /\ framed' = Judged(p, TimingHit(Median(framed[p].samples), d), v)
              \/ /\ framed' = [framed EXCEPT ![p].at = "first", ![p].variant = @ + 1, ![p].clean = FALSE]
                 /\ UNCHANGED stalls
    /\ UNCHANGED <<chain, cached, smuggled>>

\* The variants are cached; the script reports the first that was confirmed.
ScanEnds(p) ==
    /\ framed[p].at = "first" /\ framed[p].variant > Len(Variants)
    /\ framed' = [framed EXCEPT ![p].at = "over"]
    /\ cached' = << framed[p].confirmed >>
    /\ smuggled' = smuggled \cup
           (IF framed[p].cut THEN {}
            ELSE { l \in framed[p].confirmed : \A m \in framed[p].confirmed : l[1] <= m[1] })
    /\ UNCHANGED <<chain, stalls>>

\* evaluateHostFacts gives the context's error: nothing is cached, nothing reported.
\* Only a baseline that ends without a sample hides it.
AbandonScan(p) ==
    /\ framed[p].cut
    /\ \/ framed[p].at = "baseline" /\ framed[p].tried < Samples
       \/ framed[p].at = "second"
       \/ /\ framed[p].at = "first" /\ framed[p].variant <= Len(Variants)
          /\ Negotiated(Variants[framed[p].variant])
    /\ framed' = [framed EXCEPT ![p].at = "over"]
    /\ UNCHANGED <<chain, cached, stalls, smuggled>>

CutScan(p) ==
    /\ framed[p].at # "over" /\ ~framed[p].cut
    /\ framed' = [framed EXCEPT ![p].cut = TRUE]
    /\ UNCHANGED <<chain, cached, stalls, smuggled>>

FramingStep(p) ==
    \/ AskCache(p) \/ SampleBaseline(p) \/ BaselineDone(p) \/ SkipVariant(p)
    \/ ProbeVariant(p) \/ ScanEnds(p) \/ AbandonScan(p)
FramingNext == \E p \in FramedPages : FramingStep(p) \/ CutScan(p)
-----------------------------------------------------------------------------
\* What a report says of the host is true while it is disturbed once at most: the
\* front end of a CL.TE host goes by the length and its back end by chunks, one of
\* the two of a TE.CL host goes by the length, and an H2.CL host hands on a length
\* that the body does not have (timingHit, measureBaseline, smugglingConfirmDelay).
SmugglingEarned ==
    \A l \in smuggled :
        CASE l[2] = "CL.TE" -> chain.front = "length" /\ chain.back = "chunked"
          [] l[2] = "TE.CL" -> "length" \in {chain.front, chain.back}
          [] l[2] = "H2.CL" -> chain.h2 = "passes"

\* A host whose two ends disagree is reported by every run that was not cut short
\* and met no error, one delay anywhere notwithstanding, unless it is so slow that a
\* hang does not stand out.
SmugglingFound ==
    \A p \in FramedPages :
        (/\ framed[p].at = "over" /\ framed[p].clean /\ ~framed[p].cut /\ framed[p].tried > 0
         /\ chain.pace + 7 <= ProbeTimeout
         /\ chain.front # chain.back \/ chain.h2 = "passes")
        => smuggled # {} /\ \E l \in smuggled : l \in framed[p].confirmed
=============================================================================
