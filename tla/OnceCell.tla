------------------------------ MODULE OnceCell ------------------------------
(***************************************************************************)
(* What a table of cells filled on demand promises its readers: a cell is  *)
(* filled at most once, a reader gets what its cell was filled with, and   *)
(* never before.  fingerprint.Detector is such a table, with one sync.Once *)
(* per host.                                                               *)
(***************************************************************************)
CONSTANTS Cells, Readers, CellOf(_), NoValue

VARIABLES content,     \* what each cell was filled with
          got          \* what each reader was given

Init ==
    /\ content = [c \in Cells |-> NoValue]
    /\ got = [r \in Readers |-> NoValue]

Fill(c) ==
    /\ content[c] = NoValue
    /\ content' = [content EXCEPT ![c] = content'[c]]
    /\ content'[c] # NoValue
    /\ UNCHANGED got

Read(r) ==
    /\ got[r] = NoValue /\ content[CellOf(r)] # NoValue
    /\ got' = [got EXCEPT ![r] = content[CellOf(r)]]
    /\ UNCHANGED content

Next == (\E c \in Cells : Fill(c)) \/ (\E r \in Readers : Read(r))

Spec == Init /\ [][Next]_<<content, got>>
=============================================================================
