--------------------------- MODULE OrderedCommits ---------------------------
(***************************************************************************)
(* What a semi-asynchronous queue promises its client, whatever threads it *)
(* uses: jobs are prepared in any order and at any time after they were    *)
(* added, each exactly once, and committed one at a time in the order in   *)
(* which they were added, a job only after it was prepared.                *)
(***************************************************************************)
EXTENDS Integers, Sequences

VARIABLES
    added,      \* how many jobs were added
    prepared,   \* the jobs that were prepared
    committed   \* the jobs that were committed, in that order

Init == added = 0 /\ prepared = {} /\ committed = <<>>

Add ==
    /\ added' = added + 1
    /\ UNCHANGED <<prepared, committed>>

Prepare(j) ==
    /\ j \in (1..added) \ prepared
    /\ prepared' = prepared \cup {j}
    /\ UNCHANGED <<added, committed>>

Commit ==
    LET j == Len(committed) + 1 IN
    /\ j \in prepared
    /\ committed' = Append(committed, j)
    /\ UNCHANGED <<added, prepared>>

(* A queue without threads runs the whole job inside the call that adds it *)
(* and has no older job left.                                              *)
AddAndRun ==
    /\ Len(committed) = added
    /\ added' = added + 1
    /\ prepared' = prepared \cup {added + 1}
    /\ committed' = Append(committed, added + 1)

Next == Add \/ (\E j \in 1..added : Prepare(j)) \/ Commit \/ AddAndRun

Spec == Init /\ [][Next]_<<added, prepared, committed>>
=============================================================================
