----------------------------- MODULE VmsReview -----------------------------
(***************************************************************************)
(* VMS matching and its review.  A run of the vms_matching graph proposes,   *)
(* for every record a client's VMS has sent, the placement it is about: by   *)
(* an alias learned from an earlier correction, by the likeness of the       *)
(* names, or by asking a language model.  A run is started by vms-match/     *)
(* invoke, which stores the matches, or by the plan cycle, which stores them *)
(* when the operator has approved the actions.  Reviewers approve, reject,   *)
(* correct and dismiss matches; a correction teaches an alias.               *)
(*                                                                          *)
(* A request loads a match in one transaction step and commits in another;   *)
(* the session writes only the columns that differ from what it loaded, and  *)
(* holds the row from its flush on.  Confidence is one of four classes.      *)
(***************************************************************************)
EXTENDS Naturals, Sequences, FiniteSets, SequencesExt, Functions

CONSTANTS
    Records,            \* the VMS records of the look-back window
    Placements,         \* each with a Bullhorn id of its own (unique, never null)
    Strays,             \* Bullhorn ids that no placement has
    Named,              \* the placements with a candidate_name (migration 027 filled it in,
                        \* and nothing does for those synchronised since)
    Names, NameOf,      \* the name on each record
    Spelling,           \* of a name: lower case, single blanks
    Likeness,           \* of a name and a placement: "exact", "close" or "far"
    Discrepant,         \* records and placements whose rates differ by more than $5
    Reviewers,
    MaxRuns, MaxReviews, \* bounds, of runs and of requests
    MaxAnswers,         \* bound: what the model answers about one record
    Certainties,        \* bound: the confidences it answers with, each a class
    Absent              \* no value (NULL)

Confidences == {"auto", "review", "low", "zero"}   \* >= 0.95, >= 0.70, > 0, 0

ASSUME VmsAssumption ==
    /\ IsFiniteSet(Records) /\ IsFiniteSet(Placements)
    /\ Named \subseteq Placements
    /\ NameOf \in [Records -> Names] /\ DOMAIN Spelling = Names
    /\ Likeness \in [Names -> [Placements -> {"exact", "close", "far"}]]
    /\ Discrepant \subseteq Records \X Placements
    /\ Absent \notin Records \cup Placements \cup Strays \cup Names \cup Reviewers
    /\ Certainties \subseteq Confidences
    /\ {MaxRuns, MaxReviews, MaxAnswers} \subseteq Nat

MatchStatuses == {"pending", "approved", "rejected", "corrected", "dismissed"}

\* Bullhorn ids: that of a placement is written as the placement.
BullhornIds == Placements \cup Strays

\* What a run makes of a record.
Proposal == [record : Records, placement : Placements \cup {Absent}, confidence : Confidences,
             method : {"alias", "name", "llm", "unmatched"}]

Match == [record : Records, run : Nat, placement : Placements \cup {Absent},
          bullhorn : BullhornIds \cup {Absent}, confidence : Confidences,
          status : MatchStatuses, by : Reviewers \cup {Absent}]

Alias == [canonical : Placements, bullhorn : BullhornIds \cup {Absent}, from : Nat]

Kinds == {"approve", "reject", "dismiss", "correct"}
ReviewRequest == [step : {"loaded", "flushed"}, kind : Kinds, match : Nat, row : Match,
                  placement : Placements \cup {Absent}, bullhorn : BullhornIds \cup {Absent},
                  seen : Alias \cup {Absent}]

VARIABLES
    matches,     \* vms_matches, in the order they were stored
    aliases,     \* vms_name_aliases: name to alias, or Absent
    run,         \* the run in progress: its kind, what it proposes, or Absent
    matchRuns,   \* how many have begun
    request,     \* each reviewer's request in progress, or Absent
    requests,    \* how many have begun
    contested    \* history: names two corrections of which were in progress at a time

reviewVars == <<matches, aliases, run, matchRuns, request, requests, contested>>

Run == [kind : {"invoke", "plan"}, step : {"graph", "store", "proposed"},
        aliases : [Names -> Alias \cup {Absent}], proposals : SUBSET Proposal]

\* Absent is the null of a column and the absence of a row.
ASSUME AbsentAssumption == Absent \notin Alias /\ Absent \notin ReviewRequest /\ Absent \notin Run

ReviewTypeOK ==
    /\ matches \in Seq(Match)
    /\ aliases \in [Names -> Alias \cup {Absent}]
    /\ run \in Run \cup {Absent} /\ matchRuns \in 0..MaxRuns
    /\ request \in [Reviewers -> ReviewRequest \cup {Absent}] /\ requests \in 0..MaxReviews
    /\ contested \subseteq Names

ReviewInit ==
    /\ matches = << >>
    /\ aliases = [n \in Names |-> Absent]
    /\ run = Absent /\ matchRuns = 0
    /\ request = [q \in Reviewers |-> Absent] /\ requests = 0
    /\ contested = {}

reviews == <<request, requests, contested>>

-----------------------------------------------------------------------------
(* The run.                                                                  *)

\* invoke_vms_match, _plan_vms_match: the records, placements and aliases are read once.
\* Of the aliases whose names have one spelling the last of the select is kept.
BeginRun(kind) ==
    /\ run = Absent /\ matchRuns < MaxRuns
    /\ matchRuns' = matchRuns + 1
    /\ \E kept \in [Names -> Names] :
        /\ \A n \in Names :
            LET same == {m \in Names : Spelling[m] = Spelling[n] /\ aliases[m] # Absent}
            IN  kept[n] \in IF same = {} THEN {n} ELSE same
        /\ run' = [kind |-> kind, step |-> "graph", proposals |-> {},
                   aliases |-> [n \in Names |-> aliases[kept[n]]]]
    /\ UNCHANGED <<matches, aliases, reviews>>

\* fast_match_node, step 1: the placement whose Bullhorn id the alias has, if there is one.
ByAlias(r) ==
    LET alias == run.aliases[NameOf[r]]
    IN  {[record |-> r, placement |-> p, confidence |-> "auto", method |-> "alias"] :
            p \in {p \in Placements : alias # Absent /\ alias.bullhorn = p}}

\* fast_match_node, step 2: one of the placements most like the name.
ByName(r) ==
    LET like(c) == {p \in Named : Likeness[NameOf[r]][p] = c}
        proposals(c, confidence) == {[record |-> r, placement |-> p, confidence |-> confidence,
                                      method |-> "name"] : p \in like(c)}
    IN  IF like("exact") # {} THEN proposals("exact", "auto") ELSE proposals("close", "review")

\* llm_match_node: any placement with any confidence, or none at all.  The Bullhorn id that
\* the model gives beside it is left out: nothing reads it before a reviewer has.
ByModel(r) ==
    {[record |-> r, placement |-> p, confidence |-> c, method |-> "llm"] :
        p \in Placements, c \in Certainties}
    \cup {[record |-> r, placement |-> Absent, confidence |-> "zero", method |-> "unmatched"]}

Fast(r) == IF ByAlias(r) # {} THEN ByAlias(r) ELSE ByName(r)
Unmatched == {r \in Records : Fast(r) = {}}

\* The three nodes of the graph.  What the model answers about the records it is asked
\* about is not looked at: it may be silent on some, and is on all when the call fails or
\* the answer is not JSON.
Graph ==
    /\ run # Absent /\ run.step = "graph"
    /\ \E choice \in [Records \ Unmatched -> UNION {Fast(r) : r \in Records}],
          answers \in SUBSET UNION {ByModel(r) : r \in Unmatched} :
        /\ \A r \in Records \ Unmatched : choice[r] \in Fast(r)
        /\ \A r \in Unmatched : Cardinality({p \in answers : p.record = r}) <= MaxAnswers
        /\ run' = [run EXCEPT !.proposals = Range(choice) \cup answers,
                              !.step = IF run.kind = "plan" THEN "proposed" ELSE "store"]
    /\ UNCHANGED <<matches, aliases, matchRuns, reviews>>

\* The graph or the insert raises, as when the model names a record it was not given: the
\* transaction has stored nothing.
RunFails ==
    /\ run # Absent
    /\ run' = Absent
    /\ UNCHANGED <<matches, aliases, matchRuns, reviews>>

StatusOf(p) == IF p.confidence = "auto" THEN "approved" ELSE "pending"

Stored(p) == [record |-> p.record, run |-> matchRuns, placement |-> p.placement,
              bullhorn |-> p.placement, confidence |-> p.confidence,
              status |-> StatusOf(p), by |-> Absent]

\* The proposals P are stored, and the run ends.
StoreMatch(P) ==
    LET new == SetToSeq({Stored(p) : p \in P})
    IN  /\ matches' = matches \o new
        /\ run' = Absent
        /\ UNCHANGED <<aliases, matchRuns, reviews>>

PersistMatches == run # Absent /\ run.step = "store" /\ StoreMatch(run.proposals)

\* The type of the action that _plan_vms_match makes of a proposal.
ActionType(p) ==
    CASE p.method = "unmatched" -> "investigate_unmatched"
      [] p.method # "unmatched" /\ <<p.record, p.placement>> \in Discrepant -> "flag_rate_discrepancy"
      [] OTHER -> IF p.confidence = "auto" THEN "auto_approve_match"
                  ELSE IF p.confidence = "review" THEN "review_approve_match"
                  ELSE "flag_low_confidence"

\* _execute_action: the operator approves some of the actions, and those that name a
\* match store it; the others are left to be done by hand.
ExecutePlan ==
    /\ run # Absent /\ run.step = "proposed"
    /\ \E approved \in SUBSET run.proposals :
        StoreMatch({p \in approved : ActionType(p) \in {"auto_approve_match", "review_approve_match"}})

-----------------------------------------------------------------------------
(* The reviewers.                                                            *)

InProgress(m) == {q \in Reviewers : request[q] # Absent /\ request[q].match = m}
Locked(m) == \E q \in InProgress(m) : request[q].step = "flushed"

NameOn(m) == NameOf[matches[m].record]
Correcting(n) ==
    {q \in Reviewers : /\ request[q] # Absent /\ request[q].kind = "correct"
                       /\ NameOn(request[q].match) = n}

Load(q, m, kind, placement, bullhorn) ==
    /\ request[q] = Absent /\ requests < MaxReviews
    /\ requests' = requests + 1
    /\ request' = [request EXCEPT ![q] =
            [step |-> "loaded", kind |-> kind, match |-> m, row |-> matches[m],
             placement |-> placement, bullhorn |-> bullhorn, seen |-> Absent]]
    /\ contested' = IF kind = "correct" /\ Correcting(NameOn(m)) # {}
                    THEN contested \cup {NameOn(m)} ELSE contested
    /\ UNCHANGED <<matches, aliases, run, matchRuns>>

\* The status an endpoint sets.
Decision(kind) == CASE kind = "approve" -> "approved" [] kind = "reject" -> "rejected"
                    [] kind = "dismiss" -> "dismissed" [] kind = "correct" -> "corrected"

\* The column after the session's update: written only when its new value differs from
\* the one that was loaded.
Field(now, loaded, new) == IF new = loaded THEN now ELSE new

\* The row after the request of q.
Reviewed(q) ==
    LET w == request[q]
        row == matches[w.match]
    IN  [row EXCEPT
            !.status = Field(@, w.row.status, Decision(w.kind)),
            !.by = Field(@, w.row.by, q),
            !.placement = IF w.kind = "correct" THEN Field(@, w.row.placement, w.placement) ELSE @,
            !.bullhorn = IF w.kind = "correct" /\ w.bullhorn # Absent
                         THEN Field(@, w.row.bullhorn, w.bullhorn) ELSE @]

\* Mutant: the row is committed before the alias is looked up.
FlushCommits(q) ==
    /\ request[q] # Absent /\ request[q].step = "loaded" /\ request[q].kind = "correct"
    /\ ~Locked(request[q].match)
    /\ matches' = [matches EXCEPT ![request[q].match] = Reviewed(q)]
    /\ request' = [request EXCEPT ![q].step = "flushed",
                                  ![q].seen = aliases[NameOn(request[q].match)]]
    /\ UNCHANGED <<aliases, run, matchRuns, requests, contested>>

\* A correction flushes the row before it looks the alias up.
Flush(q) ==
    /\ request[q] # Absent /\ request[q].step = "loaded" /\ request[q].kind = "correct"
    /\ ~Locked(request[q].match)
    /\ request' = [request EXCEPT ![q].step = "flushed",
                                  ![q].seen = aliases[NameOn(request[q].match)]]
    /\ UNCHANGED <<matches, aliases, run, matchRuns, requests, contested>>

Decided(q) ==
    /\ matches' = [matches EXCEPT ![request[q].match] = Reviewed(q)]
    /\ request' = [request EXCEPT ![q] = Absent]

\* approve_vms_match, dismiss_vms_match, and reject_vms_match without a correction.
Decide(q) ==
    /\ request[q] # Absent /\ request[q].step = "loaded" /\ request[q].kind # "correct"
    /\ ~Locked(request[q].match)
    /\ Decided(q)
    /\ UNCHANGED <<aliases, run, matchRuns, requests, contested>>

\* Mutant: an alias that is there is kept.
KeepsAlias(q, n) == IF aliases[n] = Absent THEN
    [canonical |-> request[q].placement, bullhorn |-> request[q].bullhorn,
     from |-> request[q].match] ELSE aliases[n]

\* The alias after the correction of q: inserted, or the columns that differ updated.
Taught(q, n) ==
    LET w == request[q]
        new == [canonical |-> w.placement, bullhorn |-> w.bullhorn, from |-> w.match]
        now == aliases[n]
    IN  IF w.seen = Absent THEN new
        ELSE [canonical |-> Field(now.canonical, w.seen.canonical, new.canonical),
              bullhorn |-> Field(now.bullhorn, w.seen.bullhorn, new.bullhorn),
              from |-> Field(now.from, w.seen.from, new.from)]

\* reject_vms_match with the right placement, which teaches an alias if it has a name.  The
\* VMS name is a key: a second insert fails, and the review with it.
Correct(q) ==
    /\ request[q] # Absent /\ request[q].step = "flushed"
    /\ LET n == NameOn(request[q].match)
           teaches == request[q].placement \in Named
       IN  IF teaches /\ request[q].seen = Absent /\ aliases[n] # Absent
           THEN request' = [request EXCEPT ![q] = Absent] /\ UNCHANGED <<matches, aliases>>
           ELSE /\ Decided(q)
                /\ aliases' = IF teaches THEN [aliases EXCEPT ![n] = Taught(q, n)] ELSE aliases
    /\ UNCHANGED <<run, matchRuns, requests, contested>>

\* A request raises, as one does that corrects to a placement that is not there: its
\* transaction is rolled back.
ReviewFails(q) ==
    /\ request[q] # Absent
    /\ request' = [request EXCEPT ![q] = Absent]
    /\ UNCHANGED <<matches, aliases, run, matchRuns, requests, contested>>

-----------------------------------------------------------------------------
\* The two ids of a correction are fields of their own: nothing checks that they are of
\* one placement.  A Bullhorn id without a placement is not looked at.
Review ==
    \E q \in Reviewers :
        \/ \E m \in DOMAIN matches :
            \/ \E kind \in Kinds \ {"correct"} : Load(q, m, kind, Absent, Absent)
            \/ \E p \in Placements, b \in BullhornIds \cup {Absent} : Load(q, m, "correct", p, b)
        \/ Decide(q) \/ Flush(q) \/ Correct(q) \/ ReviewFails(q)

ReviewNext ==
    \/ BeginRun("invoke") \/ BeginRun("plan")
    \/ Graph \/ RunFails \/ PersistMatches \/ ExecutePlan
    \/ Review

ReviewSpec == ReviewInit /\ [][ReviewNext]_reviewVars

-----------------------------------------------------------------------------
(* Properties.                                                               *)

\* An alias is about the placement of the match it says it was learned from, and its
\* Bullhorn id is that of the match, or was not given, unless two corrections of the name
\* were in progress at a time, or the match has since been corrected to a placement that
\* teaches nothing.
AliasFollowsMatch ==
    \A n \in Names : aliases[n] # Absent =>
        LET m == matches[aliases[n].from]
        IN  \/ /\ aliases[n].canonical = m.placement
               /\ aliases[n].bullhorn \in {Absent, m.bullhorn}
            \/ n \in contested
            \/ m.placement \notin Named

\* A match that stands corrected, to a placement with a name, has taught its name, however
\* requests overlapped and wherever one of them failed: the row, which is flushed first,
\* and the alias are one transaction, and an alias is never taken back.
CorrectedIsTaught ==
    \A m \in DOMAIN matches :
        matches[m].status = "corrected" /\ matches[m].placement \in Named =>
            aliases[NameOn(m)] # Absent
=============================================================================
