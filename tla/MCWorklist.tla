----------------------------- MODULE MCWorklist -----------------------------
(***************************************************************************)
(* Small instances of Worklist.  Targets a and b are on the host h, whose   *)
(* budget is one, so that the second of them to arrive is refused while the *)
(* first keeps advancing; c has no host and never counts.                   *)
(***************************************************************************)
EXTENDS Worklist, TLC

MCKeyOf  == [t \in Targets |-> t]
MCHostOf == [k \in Keys |-> IF k = "c" THEN NoHost ELSE "h"]

WorkerSymmetry == Permutations(Workers)
=============================================================================
