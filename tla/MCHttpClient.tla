---------------------------- MODULE MCHttpClient ----------------------------
(***************************************************************************)
(* Three calls: the scanner's fetch of a page, which may be retried, follows *)
(* redirects and has no deadline; and two that change the target's state and *)
(* want the token: a check's put of JSON, which follows redirects and has a  *)
(* deadline, and the crawler's form post to a second host, which has neither *)
(* a deadline nor a timeout.                                                *)
(***************************************************************************)
EXTENDS HttpClient

CONSTANTS get, post, put, h1, h2

MCHostOfRequest == [r \in {get, post, put} |-> IF r = post THEN h2 ELSE h1]
=============================================================================
