---------------------------- MODULE MCVmsReview ----------------------------
(* Finite instances of VmsReview.                                            *)
EXTENDS VmsReview

\* Two spellings of one name, of which one is like a placement.
TwoRecords == {"r1", "r2"}
TwoNames == {"n1", "n2"}
OnRecord == [r \in TwoRecords |-> IF r = "r1" THEN "n1" ELSE "n2"]
OneSpelling == [n \in TwoNames |-> "n"]
TwoPlacements == {"p1", "p2"}
Alike == [n \in TwoNames |-> [p \in TwoPlacements |->
            IF n = "n1" /\ p = "p1" THEN "close" ELSE "far"]]
Differ == {<<"r2", "p2">>}

\* The first run is of invoke and the second of a plan.
Turns == run' # Absent => run'.kind = IF matchRuns' = 1 THEN "invoke" ELSE "plan"
=============================================================================
