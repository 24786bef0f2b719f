---------------------------- MODULE MCAlertReview ----------------------------
(* Finite instances of AlertReview, two in one run: a reviewer alone, with two *)
(* alerts about one timesheet and one charge, a request that fails and staff  *)
(* who edit the charge; and a crowd, two reviewers whose requests on one alert *)
(* overlap and fail.                                                          *)
EXTENDS AlertReview, TLC

CONSTANTS a1, a2, t1, c1, h1, h2

VARIABLE crowd      \* which of the two; it never changes

\* Every alert is about one timesheet and one charge.
SheetOfAlert == [a \in Alerts |-> t1]
ChargeOfAlert == [a \in Alerts |-> c1]

\* What the handlers write: the vocabulary migration 046 would have to have.
WrittenEvents == {"timesheet_marked_dnw", "billable_charge_hold_set",
                  "billable_charge_hold_released", "resolved", "reversed"}
\* What migration 046 lets in, of what is about actions, and who it lets act.
Migration046Events == {"dnw_marked", "hold_applied", "hold_released", "hitl_resolved",
                       "reversed", "closed"}
Migration046Actors == {"agent", "user", "system"}
\* One that the CHECK of migration 045 lists, and one of the examples of the endpoint.
SomeResolutions == {"hitl_resolved", "recruiter_override"}

\* The request h has begun is one of the first alert, that is neither a dry run nor to
\* be refused.
Plain(h) == /\ req'[h].alert = a1
            /\ ~req'[h].dry_run /\ req'[h].resolution # "recruiter_override"

Alone ==
    /\ ~overlapped' /\ Cardinality(failed') <= 1
    /\ \A h \in Reviewers : step'[h] # "idle" /\ req'[h].alert = a2 =>
            req'[h].resolution # "recruiter_override" /\ ~req'[h].dry_run
Crowded ==
    /\ state'[a2] = "open"
    /\ \A e \in Entities : writer'[e] = "people" => bullhorn'[e] = bullhorn[e]
    /\ \A h \in Reviewers : step'[h] # "idle" => Plain(h)

EitherReviewer == Permutations(Reviewers)

MCInit == Init /\ crowd \in BOOLEAN
MCNext == Next /\ (IF crowd THEN Crowded ELSE Alone) /\ UNCHANGED crowd
MCSpec == MCInit /\ [][MCNext]_<<vars, crowd>>
=============================================================================
