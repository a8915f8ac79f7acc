------------------------------ MODULE MCPipeline ------------------------------
(***************************************************************************)
(* Two issues, one of them met with either of two severities, and a finding  *)
(* without a key.                                                            *)
(***************************************************************************)
EXTENDS Pipeline

MCFindings == {[key |-> 1, sev |-> 1], [key |-> 2, sev |-> 0],
               [key |-> 2, sev |-> 1], [key |-> NoKey, sev |-> 0]}
MCOneIssue == {[key |-> 1, sev |-> 1]}
=============================================================================
