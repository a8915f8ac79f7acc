------------------------------ MODULE MCCrawler ------------------------------
(***************************************************************************)
(* A small site.  The seed "s" is probed together with the well-known API   *)
(* document "x", which declares operations on "a" and on "b", out of scope. *)
(* "s" links to "a" and has a form that may redirect to a second API         *)
(* document, "y", which declares an operation on "a" too, beyond the depth   *)
(* cap of one.                                                              *)
(***************************************************************************)
EXTENDS Crawler

MCSeeds     == <<"s", "x">>
MCLinks     == [u \in Urls |-> IF u = "s" THEN {"a"} ELSE {}]
MCRedirects == [u \in Urls |-> IF u = "s" THEN {"y"} ELSE {}]
MCDocuments == [u \in Urls |-> IF u = "x" THEN {"a", "b"}
                               ELSE IF u = "y" THEN {"a"} ELSE {}]
=============================================================================
