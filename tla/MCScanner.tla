------------------------------ MODULE MCScanner ------------------------------
(***************************************************************************)
(* A small scan.  The crawler delivers the pages p and q; the check "find"  *)
(* runs on p at the first tier and discovers q as a target of its own, qf,  *)
(* with the same canonical key; the two-phase check "store" plants on both  *)
(* and, planting on p, discovers q directly at the last tier.  Three tiers  *)
(* stand for the five bands: first, active, deferred.                       *)
(***************************************************************************)
EXTENDS Scanner

MCKeyOf     == [t \in Targets |-> IF t = "qf" THEN "q" ELSE t]
MCHostOf    == [k \in Keys |-> "h"]
MCCheckTier == [c \in Checks |-> IF c = "find" THEN 1 ELSE 2]
MCConsumers == [t \in Targets |-> Checks]
MCOriginOf  == [t \in Targets |-> IF t = "qf" THEN "find" ELSE None]
MCEmits     == {e \in {[check |-> "find", on |-> "p",
                        job |-> [target |-> "qf", tier |-> 1]],
                       [check |-> "store", on |-> "p",
                        job |-> [target |-> "qf", tier |-> 3]]} :
                  e.check \in Checks}
=============================================================================
