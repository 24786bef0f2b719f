-------------------------- MODULE VmsReview_proofs --------------------------
(***************************************************************************)
(* What holds of matches, aliases and runs, for any number of records, names *)
(* and reviewers, whatever the model answers and however requests overlap:   *)
(* an alias says what the correction it was learned from says, and a          *)
(* correction that stands has taught its name.                               *)
(***************************************************************************)
EXTENDS VmsReview, FiniteSetTheorems, SequenceTheorems, TLAPS

-----------------------------------------------------------------------------
(* The order in which a run's matches are stored.                            *)

LEMMA SequenceOf ==
    ASSUME NEW S, IsFiniteSet(S), NEW T, S \subseteq T
    PROVE  SetToSeq(S) \in Seq(T)
<1>1. Cardinality(S) \in Nat  BY FS_CardinalityType
<1>2. ExistsBijection(1 .. Cardinality(S), S)  BY FS_CardinalityType
<1>3. PICK f \in [1 .. Cardinality(S) -> S] : IsInjective(f)
  BY <1>2 DEF ExistsBijection, Bijection, Injection, IsInjective
<1>4. SetToSeq(S) \in [1 .. Cardinality(S) -> S]  BY <1>3 DEF SetToSeq
<1>5. SetToSeq(S) \in [1 .. Cardinality(S) -> T]  BY <1>4
<1> QED  BY <1>1, <1>5

LEMMA FiniteProposals == IsFiniteSet(Proposal)
<1> DEFINE C == Confidences
           M == {"alias", "name", "llm", "unmatched"}
           P == Placements \cup {Absent}
           S == (Records \X P) \X (C \X M)
           f == [s \in S |-> [record |-> s[1][1], placement |-> s[1][2],
                              confidence |-> s[2][1], method |-> s[2][2]]]
<1>1. IsFiniteSet(P)  BY VmsAssumption, FS_EmptySet, FS_AddElement, FS_Union, FS_Singleton
<1>2. IsFiniteSet(C) /\ IsFiniteSet(M)
  <2>1. IsFiniteSet({"auto"}) /\ IsFiniteSet({"review"}) /\ IsFiniteSet({"low"}) /\ IsFiniteSet({"zero"})
    BY FS_Singleton
  <2>2. IsFiniteSet({"alias"}) /\ IsFiniteSet({"name"}) /\ IsFiniteSet({"llm"}) /\ IsFiniteSet({"unmatched"})
    BY FS_Singleton
  <2>3. C = (({"auto"} \cup {"review"}) \cup {"low"}) \cup {"zero"}  BY DEF Confidences
  <2>4. M = (({"alias"} \cup {"name"}) \cup {"llm"}) \cup {"unmatched"}  OBVIOUS
  <2>5. IsFiniteSet({"auto"} \cup {"review"}) /\ IsFiniteSet({"alias"} \cup {"name"})
    BY <2>1, <2>2, FS_Union
  <2>6. /\ IsFiniteSet(({"auto"} \cup {"review"}) \cup {"low"})
        /\ IsFiniteSet(({"alias"} \cup {"name"}) \cup {"llm"})
    BY <2>1, <2>2, <2>5, FS_Union
  <2>7. IsFiniteSet((({"auto"} \cup {"review"}) \cup {"low"}) \cup {"zero"})
    BY <2>1, <2>6, FS_Union
  <2>8. IsFiniteSet((({"alias"} \cup {"name"}) \cup {"llm"}) \cup {"unmatched"})
    BY <2>2, <2>6, FS_Union
  <2> QED  BY <2>3, <2>4, <2>7, <2>8
<1>3. IsFiniteSet(S)
  <2>1. IsFiniteSet(Records \X P) /\ IsFiniteSet(C \X M)
    BY <1>1, <1>2, VmsAssumption, FS_Product
  <2> QED  BY <2>1, FS_Product
<1>4. f \in Surjection(S, Proposal)
  <2>1. f \in [S -> Proposal]  BY DEF Proposal
  <2>2. ASSUME NEW p \in Proposal PROVE \E s \in S : f[s] = p
    <3> DEFINE s == << <<p.record, p.placement>>, <<p.confidence, p.method>> >>
    <3>1. s \in S  BY DEF Proposal
    <3>2. f[s] = p  BY <3>1 DEF Proposal
    <3> QED  BY <3>1, <3>2
  <2> QED  BY <2>1, <2>2 DEF Surjection
<1> QED  BY <1>3, <1>4, FS_Surjection

-----------------------------------------------------------------------------
(* The inductive invariant.                                                  *)

Corrects(q) == request[q] # Absent /\ request[q].kind = "correct"

\* What a request read still holds, unless another correction of the name was in progress;
\* and if another has since given the match a placement with a name, the name is taught.
RequestFits(q) ==
    LET w == request[q] IN
    /\ w.match \in DOMAIN matches
    /\ w.step = "flushed" => w.kind = "correct"
    /\ w.kind = "correct" =>
         /\ w.placement \in Placements
         /\ w.step = "flushed" /\ w.seen # Absent => aliases[NameOn(w.match)] # Absent
         /\ /\ matches[w.match].placement # w.row.placement
            /\ matches[w.match].placement \in Named
            => aliases[NameOn(w.match)] # Absent
         /\ NameOn(w.match) \notin contested =>
                /\ w.row.placement = matches[w.match].placement
                /\ w.row.bullhorn = matches[w.match].bullhorn
                /\ w.step = "flushed" => w.seen = aliases[NameOn(w.match)]

RequestsFit == \A q \in Reviewers : request[q] # Absent => RequestFits(q)

OneCorrects ==
    \A n \in Names \ contested : \A q, s \in Correcting(n) : q = s

\* An alias comes from a match with its name, and agrees with it while its placement is one
\* that can be taught.
AliasFits(n) ==
    LET a == aliases[n] IN
    /\ a.from \in DOMAIN matches /\ NameOn(a.from) = n
    /\ n \notin contested /\ matches[a.from].placement \in Named =>
         /\ a.canonical = matches[a.from].placement
         /\ a.bullhorn \in {Absent, matches[a.from].bullhorn}

AliasesFit == \A n \in Names : aliases[n] # Absent => AliasFits(n)

VmsInv == ReviewTypeOK /\ RequestsFit /\ OneCorrects /\ AliasesFit /\ CorrectedIsTaught

LEMMA Sizes == MaxRuns \in Nat /\ MaxReviews \in Nat
BY VmsAssumption

LEMMA AbsentIsNothing ==
    /\ \A a \in Alias : a # Absent
    /\ \A w \in ReviewRequest : w # Absent
    /\ \A r \in Run : r # Absent
BY AbsentAssumption

LEMMA NameType ==
    ASSUME ReviewTypeOK, NEW m \in DOMAIN matches
    PROVE  /\ matches[m] \in Match /\ m \in Nat
           /\ NameOn(m) \in Names
<1>1. matches \in Seq(Match)  BY DEF ReviewTypeOK
<1>2. matches[m] \in Match /\ m \in Nat  BY <1>1
<1>3. matches[m].record \in Records  BY <1>2 DEF Match
<1> QED  BY <1>2, <1>3, VmsAssumption DEF NameOn

LEMMA InitKeeps == ReviewInit => VmsInv
<1> SUFFICES ASSUME ReviewInit PROVE VmsInv  OBVIOUS
<1>1. << >> \in Seq(Match)  OBVIOUS
<1>2. ReviewTypeOK
  <2>1. aliases \in [Names -> Alias \cup {Absent}] /\ request \in [Reviewers -> ReviewRequest \cup {Absent}]
    BY DEF ReviewInit
  <2>2. matchRuns \in 0 .. MaxRuns /\ requests \in 0 .. MaxReviews  BY Sizes DEF ReviewInit
  <2> QED  BY <1>1, <2>1, <2>2 DEF ReviewInit, ReviewTypeOK
<1>3. RequestsFit /\ OneCorrects /\ AliasesFit /\ CorrectedIsTaught
  BY DEF ReviewInit, RequestsFit, OneCorrects, Correcting, AliasesFit, CorrectedIsTaught
<1> QED  BY <1>2, <1>3 DEF VmsInv

\* The parts of the invariant that only the run can break, and those it cannot.
LEMMA ReviewsStay ==
    ASSUME VmsInv, UNCHANGED <<aliases, request, contested>>,
           DOMAIN matches \subseteq DOMAIN matches',
           \A m \in DOMAIN matches : matches'[m] = matches[m],
           \A m \in DOMAIN matches' \ DOMAIN matches : matches'[m].status # "corrected"
    PROVE  RequestsFit' /\ OneCorrects' /\ AliasesFit' /\ CorrectedIsTaught'
<1>1. \A m \in DOMAIN matches : NameOn(m)' = NameOn(m)  BY DEF NameOn
<1>2. RequestsFit'
  <2> SUFFICES ASSUME NEW q \in Reviewers, request'[q] # Absent PROVE RequestFits(q)'
    BY DEF RequestsFit
  <2>1. RequestFits(q)  BY DEF VmsInv, RequestsFit
  <2> QED  BY <1>1, <2>1 DEF RequestFits, NameOn
<1>3. OneCorrects'
  <2> SUFFICES ASSUME NEW n \in Names, n \notin contested', NEW q \in Correcting(n)', NEW s \in Correcting(n)'
               PROVE  q = s
    BY DEF OneCorrects
  <2>1. ASSUME NEW x \in Correcting(n)' PROVE x \in Correcting(n)
    <3>1. x \in Reviewers /\ request[x] # Absent  BY DEF Correcting
    <3>2. request[x].match \in DOMAIN matches
      BY <3>1 DEF VmsInv, RequestsFit, RequestFits
    <3> QED  BY <1>1, <3>1, <3>2 DEF Correcting, NameOn
  <2> QED  BY <2>1 DEF VmsInv, OneCorrects
<1>4. AliasesFit'
  <2> SUFFICES ASSUME NEW n \in Names, aliases'[n] # Absent PROVE AliasFits(n)'
    BY DEF AliasesFit
  <2>1. AliasFits(n)  BY DEF VmsInv, AliasesFit
  <2> QED  BY <1>1, <2>1 DEF AliasFits, NameOn
<1>5. CorrectedIsTaught'
  <2> SUFFICES ASSUME NEW m \in DOMAIN matches', matches'[m].status = "corrected",
                      matches'[m].placement \in Named
               PROVE  aliases'[NameOn(m)'] # Absent
    BY DEF CorrectedIsTaught
  <2>1. m \in DOMAIN matches /\ matches'[m] = matches[m]  OBVIOUS
  <2> QED  BY <1>1, <2>1 DEF VmsInv, CorrectedIsTaught
<1> QED  BY <1>2, <1>3, <1>4, <1>5

-----------------------------------------------------------------------------
(* Steps of the run.                                                         *)

LEMMA BeginKeeps ==
    ASSUME VmsInv, NEW kind \in {"invoke", "plan"}, BeginRun(kind)
    PROVE  VmsInv'
<1>1. PICK kept \in [Names -> Names] :
         /\ \A n \in Names :
              LET same == {m \in Names : Spelling[m] = Spelling[n] /\ aliases[m] # Absent}
              IN  kept[n] \in IF same = {} THEN {n} ELSE same
         /\ run' = [kind |-> kind, step |-> "graph", proposals |-> {},
                    aliases |-> [n \in Names |-> aliases[kept[n]]]]
  BY DEF BeginRun
<1>2. matchRuns < MaxRuns /\ matchRuns' = matchRuns + 1 /\ UNCHANGED <<matches, aliases, request, requests, contested>>
  BY DEF BeginRun, reviews
<1>3. aliases \in [Names -> Alias \cup {Absent}] /\ matchRuns \in 0 .. MaxRuns
  BY DEF VmsInv, ReviewTypeOK
<1> DEFINE snapshot == [n \in Names |-> aliases[kept[n]]]
<1>4. snapshot \in [Names -> Alias \cup {Absent}]  BY <1>3
<1>5. run' \in Run /\ run'.aliases = snapshot
  BY <1>1, <1>4 DEF Run
<1>6. matchRuns' \in 0 .. MaxRuns  BY <1>2, <1>3, Sizes
<1>7. ReviewTypeOK'  BY <1>2, <1>5, <1>6 DEF VmsInv, ReviewTypeOK
<1>8. RequestsFit' /\ OneCorrects' /\ AliasesFit' /\ CorrectedIsTaught'
  BY <1>2, ReviewsStay
<1> QED  BY <1>7, <1>8 DEF VmsInv

\* What is proposed of a record without the model, and with it.
LEMMA FastType ==
    ASSUME VmsInv, run # Absent, NEW r \in Records
    PROVE  Fast(r) \subseteq Proposal
<1>1. run.aliases[NameOf[r]] \in Alias \cup {Absent}
  BY VmsAssumption DEF VmsInv, ReviewTypeOK, Run
<1>2. ByAlias(r) \subseteq Proposal
  BY <1>1 DEF ByAlias, Proposal, Alias, Confidences
<1>3. ByName(r) \subseteq Proposal
  <2>1. Named \subseteq Placements  BY VmsAssumption
  <2> QED  BY <2>1 DEF ByName, Proposal, Confidences
<1> QED  BY <1>2, <1>3 DEF Fast

LEMMA ModelType ==
    ASSUME NEW r \in Records
    PROVE  ByModel(r) \subseteq Proposal
BY VmsAssumption DEF ByModel, Proposal, Confidences

LEMMA GraphKeeps ==
    ASSUME VmsInv, Graph
    PROVE  VmsInv'
<1>1. run # Absent /\ UNCHANGED <<matches, aliases, matchRuns, request, requests, contested>>
  BY DEF Graph, reviews
<1>2. PICK choice \in [Records \ Unmatched -> UNION {Fast(r) : r \in Records}],
           answers \in SUBSET UNION {ByModel(r) : r \in Unmatched} :
         run' = [run EXCEPT !.proposals = Range(choice) \cup answers,
                            !.step = IF run.kind = "plan" THEN "proposed" ELSE "store"]
  BY DEF Graph
<1>3. Range(choice) \subseteq Proposal  BY <1>1, FastType DEF Range
<1>4. answers \subseteq Proposal  BY ModelType DEF Unmatched
<1>5. run' \in Run /\ run'.aliases = run.aliases
  BY <1>1, <1>2, <1>3, <1>4 DEF VmsInv, ReviewTypeOK, Run
<1>6. ReviewTypeOK'  BY <1>1, <1>5 DEF VmsInv, ReviewTypeOK
<1>7. RequestsFit' /\ OneCorrects' /\ AliasesFit' /\ CorrectedIsTaught'  BY <1>1, ReviewsStay
<1> QED  BY <1>6, <1>7 DEF VmsInv

LEMMA RunFailsKeeps ==
    ASSUME VmsInv, RunFails
    PROVE  VmsInv'
<1>1. run' = Absent /\ UNCHANGED <<matches, aliases, matchRuns, request, requests, contested>>
  BY DEF RunFails, reviews
<1>2. ReviewTypeOK'  BY <1>1 DEF VmsInv, ReviewTypeOK
<1>3. RequestsFit' /\ OneCorrects' /\ AliasesFit' /\ CorrectedIsTaught'  BY <1>1, ReviewsStay
<1> QED  BY <1>2, <1>3 DEF VmsInv

LEMMA StoreKeeps ==
    ASSUME VmsInv, NEW P \in SUBSET Proposal, StoreMatch(P)
    PROVE  VmsInv'
<1> DEFINE S == {Stored(p) : p \in P}
           new == SetToSeq(S)
           f == [p \in P |-> Stored(p)]
<1>1. matches' = matches \o new /\ run' = Absent /\ UNCHANGED <<aliases, matchRuns, request, requests, contested>>
  BY DEF StoreMatch, reviews
<1>2. S \subseteq Match
  <2>1. matchRuns \in Nat  BY Sizes DEF VmsInv, ReviewTypeOK
  <2> SUFFICES ASSUME NEW p \in P PROVE Stored(p) \in Match
    OBVIOUS
  <2>2. StatusOf(p) \in MatchStatuses  BY DEF StatusOf, MatchStatuses
  <2> QED  BY <2>1, <2>2 DEF BullhornIds, Stored, Match, Proposal
<1>3. IsFiniteSet(S)
  <2>1. IsFiniteSet(P)  BY FiniteProposals, FS_Subset
  <2>2. f \in Surjection(P, S)  BY DEF Surjection
  <2> HIDE DEF f, S
  <2> QED  BY <2>1, <2>2, FS_Surjection
<1>4. S \subseteq {x \in Match : x.status # "corrected"}
  BY <1>2 DEF Stored, StatusOf
<1>5. new \in Seq({x \in Match : x.status # "corrected"})  BY <1>3, <1>4, SequenceOf
<1>6. new \in Seq(Match) /\ \A i \in 1 .. Len(new) : new[i].status # "corrected"
  <2> HIDE DEF new
  <2> QED  BY <1>5
<1>7. matches \in Seq(Match)  BY DEF VmsInv, ReviewTypeOK
<1> HIDE DEF new
<1>8. /\ matches' \in Seq(Match) /\ DOMAIN matches \subseteq DOMAIN matches'
      /\ \A m \in DOMAIN matches : matches'[m] = matches[m]
      /\ \A m \in DOMAIN matches' \ DOMAIN matches : matches'[m].status # "corrected"
  BY <1>1, <1>6, <1>7
<1>9. ReviewTypeOK'  BY <1>1, <1>8 DEF VmsInv, ReviewTypeOK
<1>10. RequestsFit' /\ OneCorrects' /\ AliasesFit' /\ CorrectedIsTaught'
  BY <1>1, <1>8, ReviewsStay
<1> QED  BY <1>9, <1>10 DEF VmsInv

LEMMA PersistKeeps ==
    ASSUME VmsInv, PersistMatches \/ ExecutePlan
    PROVE  VmsInv'
<1>1. run # Absent  BY DEF PersistMatches, ExecutePlan
<1>2. run.proposals \in SUBSET Proposal  BY <1>1 DEF VmsInv, ReviewTypeOK, Run
<1>3. CASE PersistMatches  BY <1>2, <1>3, StoreKeeps DEF PersistMatches
<1>4. CASE ExecutePlan
  <2>1. PICK approved \in SUBSET run.proposals :
           StoreMatch({p \in approved : ActionType(p) \in {"auto_approve_match", "review_approve_match"}})
    BY <1>4 DEF ExecutePlan
  <2> DEFINE P == {p \in approved : ActionType(p) \in {"auto_approve_match", "review_approve_match"}}
  <2>2. P \in SUBSET Proposal  BY <1>2
  <2> HIDE DEF P
  <2> QED  BY <2>1, <2>2, StoreKeeps DEF P
<1> QED  BY <1>3, <1>4

-----------------------------------------------------------------------------
(* Steps of the reviewers.                                                   *)

\* A reviewer's request begins or is flushed: the rest stays as it is.
LEMMA RequestSteps ==
    ASSUME VmsInv, NEW q \in Reviewers, UNCHANGED <<matches, aliases, run, matchRuns>>,
           request' \in [Reviewers -> ReviewRequest \cup {Absent}], requests' \in 0 .. MaxReviews,
           contested \subseteq contested', contested' \subseteq Names,
           \A s \in Reviewers \ {q} : request'[s] = request[s],
           RequestFits(q)', OneCorrects'
    PROVE  VmsInv'
<1>1. \A m : NameOn(m)' = NameOn(m)  BY DEF NameOn
<1>2. ReviewTypeOK'  BY DEF VmsInv, ReviewTypeOK
<1>3. RequestsFit'
  <2> SUFFICES ASSUME NEW s \in Reviewers, request'[s] # Absent, s # q PROVE RequestFits(s)'
    BY DEF RequestsFit
  <2>1. RequestFits(s) /\ request'[s] = request[s]  BY DEF VmsInv, RequestsFit
  <2> QED  BY <1>1, <2>1 DEF RequestFits, NameOn
<1>4. AliasesFit'
  <2> SUFFICES ASSUME NEW n \in Names, aliases'[n] # Absent PROVE AliasFits(n)'
    BY DEF AliasesFit
  <2>1. AliasFits(n)  BY DEF VmsInv, AliasesFit
  <2> QED  BY <1>1, <2>1 DEF AliasFits, NameOn
<1>5. CorrectedIsTaught'  BY <1>1 DEF VmsInv, CorrectedIsTaught
<1> QED  BY <1>2, <1>3, <1>4, <1>5 DEF VmsInv

LEMMA LoadKeeps ==
    ASSUME VmsInv, NEW q \in Reviewers, NEW m \in DOMAIN matches, NEW kind \in Kinds,
           NEW p \in Placements \cup {Absent}, NEW b \in BullhornIds \cup {Absent},
           Load(q, m, kind, p, b),
           kind = "correct" => p \in Placements
    PROVE  VmsInv'
<1> DEFINE w == [step |-> "loaded", kind |-> kind, match |-> m, row |-> matches[m],
                 placement |-> p, bullhorn |-> b, seen |-> Absent]
<1>1. /\ request[q] = Absent /\ requests < MaxReviews /\ requests' = requests + 1
      /\ request' = [request EXCEPT ![q] = w]
      /\ contested' = IF kind = "correct" /\ Correcting(NameOn(m)) # {}
                      THEN contested \cup {NameOn(m)} ELSE contested
      /\ UNCHANGED <<matches, aliases, run, matchRuns>>
  BY DEF Load
<1>2. matches[m] \in Match /\ m \in Nat /\ NameOn(m) \in Names  BY NameType DEF VmsInv
<1>3. w \in ReviewRequest /\ w.step = "loaded" /\ w.kind = kind /\ w.match = m /\ w.row = matches[m]
      /\ w.placement = p /\ w.bullhorn = b
  BY <1>2 DEF ReviewRequest
<1> HIDE DEF w
<1>4. request \in [Reviewers -> ReviewRequest \cup {Absent}]  BY DEF VmsInv, ReviewTypeOK
<1>5. /\ request'[q] = w /\ request' \in [Reviewers -> ReviewRequest \cup {Absent}]
      /\ \A s \in Reviewers \ {q} : request'[s] = request[s]
  BY <1>1, <1>3, <1>4
<1>6. requests' \in 0 .. MaxReviews  BY <1>1, Sizes DEF VmsInv, ReviewTypeOK
<1>7. contested \subseteq contested' /\ contested' \subseteq Names
  BY <1>1, <1>2 DEF VmsInv, ReviewTypeOK
<1>8. RequestFits(q)'
  <2>1. matches' = matches  BY <1>1
  <2> QED  BY <1>3, <1>5, <2>1 DEF RequestFits
<1>9. OneCorrects'
  <2> SUFFICES ASSUME NEW n \in Names, n \notin contested', NEW s \in Correcting(n)', NEW t \in Correcting(n)'
               PROVE  s = t
    BY DEF OneCorrects
  <2>1. ASSUME NEW x \in Correcting(n)', x # q PROVE x \in Correcting(n)
    BY <1>1, <1>5, <2>1 DEF Correcting, NameOn
  <2>2. ASSUME NEW x \in Correcting(n), q \in Correcting(n)' PROVE FALSE
    <3>1. kind = "correct" /\ NameOn(m) = n
      BY <1>1, <1>3, <1>5, <2>2 DEF Correcting, NameOn
    <3> QED  BY <1>1, <2>2, <3>1
  <2>3. CASE s # q /\ t # q
    BY <1>7, <2>1, <2>3 DEF VmsInv, OneCorrects
  <2> QED  BY <2>1, <2>2, <2>3
<1> QED  BY <1>1, <1>5, <1>6, <1>7, <1>8, <1>9, RequestSteps

LEMMA FlushKeeps ==
    ASSUME VmsInv, NEW q \in Reviewers, Flush(q)
    PROVE  VmsInv'
<1> DEFINE m == request[q].match
           seen == aliases[NameOn(m)]
           w == [request[q] EXCEPT !.step = "flushed", !.seen = seen]
<1>1. /\ request[q] # Absent /\ request[q].kind = "correct"
      /\ UNCHANGED <<matches, aliases, run, matchRuns, requests, contested>>
      /\ request' = [request EXCEPT ![q] = w]
  BY DEF Flush
<1>2. RequestFits(q) /\ m \in DOMAIN matches
  BY <1>1 DEF VmsInv, RequestsFit, RequestFits
<1>3. NameOn(m) \in Names  BY <1>2, NameType DEF VmsInv
<1>4. request[q] \in ReviewRequest /\ seen \in Alias \cup {Absent}
  BY <1>1, <1>3 DEF VmsInv, ReviewTypeOK
<1>5. /\ w \in ReviewRequest /\ w.step = "flushed" /\ w.kind = "correct" /\ w.match = m /\ w.seen = seen
      /\ w.row = request[q].row /\ w.placement = request[q].placement /\ w.bullhorn = request[q].bullhorn
  BY <1>1, <1>4 DEF ReviewRequest
<1> HIDE DEF w
<1>6. request \in [Reviewers -> ReviewRequest \cup {Absent}]  BY DEF VmsInv, ReviewTypeOK
<1>7. /\ request'[q] = w /\ request' \in [Reviewers -> ReviewRequest \cup {Absent}]
      /\ \A s \in Reviewers \ {q} : request'[s] = request[s]
  BY <1>1, <1>5, <1>6
<1>8. RequestFits(q)'
  BY <1>1, <1>2, <1>5, <1>7 DEF RequestFits, NameOn
<1>9. OneCorrects'
  <2> SUFFICES ASSUME NEW n \in Names, n \notin contested', NEW s \in Correcting(n)', NEW t \in Correcting(n)'
               PROVE  s = t
    BY DEF OneCorrects
  <2>1. ASSUME NEW x \in Correcting(n)' PROVE x \in Correcting(n)
    BY <1>1, <1>5, <1>7 DEF Correcting, NameOn
  <2> QED  BY <1>1, <2>1 DEF VmsInv, OneCorrects
<1>10. requests' \in 0 .. MaxReviews /\ contested' \subseteq Names
  BY <1>1 DEF VmsInv, ReviewTypeOK
<1> QED  BY <1>1, <1>7, <1>8, <1>9, <1>10, RequestSteps

\* What a review leaves of the rows, and what it makes of its own.
LEMMA DecidedEffect ==
    ASSUME VmsInv, NEW q \in Reviewers, request[q] # Absent, Decided(q),
           NEW m, m = request[q].match
    PROVE  /\ matches' \in Seq(Match) /\ DOMAIN matches' = DOMAIN matches /\ m \in DOMAIN matches
           /\ \A k \in DOMAIN matches : NameOn(k)' = NameOn(k)
           /\ \A k \in DOMAIN matches \ {m} : matches'[k] = matches[k]
           /\ request[q].kind # "correct" =>
                 /\ matches'[m].placement = matches[m].placement
                 /\ matches'[m].bullhorn = matches[m].bullhorn
                 /\ matches'[m].status = "corrected" => matches[m].status = "corrected"
           /\ request[q].kind = "correct" =>
                 /\ matches'[m].placement =
                       Field(matches[m].placement, request[q].row.placement, request[q].placement)
                 /\ request[q].bullhorn # Absent => matches'[m].bullhorn =
                       Field(matches[m].bullhorn, request[q].row.bullhorn, request[q].bullhorn)
           /\ request' \in [Reviewers -> ReviewRequest \cup {Absent}] /\ request'[q] = Absent
           /\ \A s \in Reviewers \ {q} : request'[s] = request[s]
<1> DEFINE w == request[q]
           row == matches[m]
           st == Field(row.status, w.row.status, Decision(w.kind))
           by == Field(row.by, w.row.by, q)
           pl == IF w.kind = "correct" THEN Field(row.placement, w.row.placement, w.placement) ELSE row.placement
           bh == IF w.kind = "correct" /\ w.bullhorn # Absent
                 THEN Field(row.bullhorn, w.row.bullhorn, w.bullhorn) ELSE row.bullhorn
           new == [row EXCEPT !.status = st, !.by = by, !.placement = pl, !.bullhorn = bh]
<1>1. w \in ReviewRequest /\ RequestFits(q) /\ m \in DOMAIN matches
  BY DEF VmsInv, ReviewTypeOK, RequestsFit, RequestFits
<1>2. row \in Match /\ w.row \in Match  BY <1>1, NameType DEF VmsInv, ReviewRequest
<1>3. /\ st \in MatchStatuses /\ by \in Reviewers \cup {Absent}
      /\ pl \in Placements \cup {Absent} /\ bh \in BullhornIds \cup {Absent}
      /\ w.kind # "correct" /\ st = "corrected" => row.status = "corrected"
  <2>1. /\ Decision(w.kind) \in MatchStatuses
        /\ w.kind # "correct" => Decision(w.kind) # "corrected"
    BY <1>1 DEF Decision, ReviewRequest, Kinds, MatchStatuses
  <2> QED  BY <1>1, <1>2, <2>1 DEF Field, Match, ReviewRequest
<1>4. matches' = [matches EXCEPT ![m] = new]
  BY DEF Decided, Reviewed
<1> HIDE DEF st, by, pl, bh
<1>5. /\ new \in Match /\ new.record = row.record /\ new.placement = pl
      /\ new.bullhorn = bh /\ new.status = st
  BY <1>2, <1>3 DEF Match
<1> HIDE DEF new
<1>6. matches \in Seq(Match)  BY DEF VmsInv, ReviewTypeOK
<1>7. matches' \in Seq(Match) /\ DOMAIN matches' = DOMAIN matches /\ matches'[m] = new
      /\ \A k \in DOMAIN matches \ {m} : matches'[k] = matches[k]
  BY <1>1, <1>4, <1>5, <1>6
<1>8. \A k \in DOMAIN matches : NameOn(k)' = NameOn(k)
  <2>1. \A k \in DOMAIN matches : matches'[k].record = matches[k].record
    BY <1>5, <1>7
  <2> QED  BY <2>1 DEF NameOn
<1>9. /\ request' \in [Reviewers -> ReviewRequest \cup {Absent}] /\ request'[q] = Absent
      /\ \A s \in Reviewers \ {q} : request'[s] = request[s]
  BY DEF Decided, VmsInv, ReviewTypeOK
<1> QED  BY <1>1, <1>3, <1>5, <1>7, <1>8, <1>9 DEF pl, bh

\* The requests and the run, when a review has ended.
LEMMA ReviewEnds ==
    ASSUME VmsInv, NEW q \in Reviewers, request[q] # Absent, UNCHANGED <<run, matchRuns, requests, contested>>,
           matches' \in Seq(Match), DOMAIN matches' = DOMAIN matches,
           \A k \in DOMAIN matches : NameOn(k)' = NameOn(k),
           request' \in [Reviewers -> ReviewRequest \cup {Absent}], request'[q] = Absent,
           \A s \in Reviewers \ {q} : request'[s] = request[s],
           \* What it changed is about the match and the name of q, which no other corrects.
           NEW m, m = request[q].match, NEW n, n = NameOn(m),
           \A k \in DOMAIN matches \ {m} : matches'[k] = matches[k],
           \/ request[q].kind = "correct"
           \/ /\ matches'[m].placement = matches[m].placement
              /\ matches'[m].bullhorn = matches[m].bullhorn,
           matches'[m].placement # matches[m].placement /\ matches'[m].placement \in Named =>
               aliases'[n] # Absent,
           \A x \in Names \ {n} : aliases'[x] = aliases[x],
           aliases'[n] = aliases[n] \/ request[q].kind = "correct",
           aliases' \in [Names -> Alias \cup {Absent}], AliasesFit',
           matches'[m].status = "corrected" /\ matches'[m].placement \in Named => aliases'[n] # Absent,
           aliases[n] # Absent => aliases'[n] # Absent
    PROVE  VmsInv'
<1>1. ReviewTypeOK'  BY DEF VmsInv, ReviewTypeOK
<1>2. CorrectedIsTaught'
  <2> SUFFICES ASSUME NEW k \in DOMAIN matches, matches'[k].status = "corrected",
                      matches'[k].placement \in Named
               PROVE  aliases'[NameOn(k)] # Absent
    BY DEF CorrectedIsTaught
  <2>1. CASE k = m  BY <2>1
  <2>2. CASE k # m
    <3>1. matches'[k] = matches[k] /\ NameOn(k) \in Names  BY <2>2, NameType DEF VmsInv
    <3>2. aliases[NameOn(k)] # Absent  BY <3>1 DEF VmsInv, CorrectedIsTaught
    <3> QED  BY <3>1, <3>2
  <2> QED  BY <2>1, <2>2
<1>3. OneCorrects'
  <2> SUFFICES ASSUME NEW y \in Names, y \notin contested', NEW s \in Correcting(y)', NEW t \in Correcting(y)'
               PROVE  s = t
    BY DEF OneCorrects
  <2>1. ASSUME NEW x \in Correcting(y)' PROVE x \in Correcting(y)
    <3>1. x \in Reviewers /\ x # q /\ request[x] # Absent  BY DEF Correcting
    <3>2. request[x].match \in DOMAIN matches
      BY <3>1 DEF VmsInv, RequestsFit, RequestFits
    <3> QED  BY <3>1, <3>2 DEF Correcting, NameOn
  <2> QED  BY <2>1 DEF VmsInv, OneCorrects
<1>4. RequestsFit'
  <2> SUFFICES ASSUME NEW s \in Reviewers, request'[s] # Absent PROVE RequestFits(s)'
    BY DEF RequestsFit
  <2> DEFINE k == request[s].match
  <2>1. s # q /\ request'[s] = request[s]  OBVIOUS
  <2>2. RequestFits(s) /\ k \in DOMAIN matches  BY <2>1 DEF VmsInv, RequestsFit, RequestFits
  <2>3. NameOn(k) \in Names  BY <2>2, NameType DEF VmsInv
  <2>4. NameOn(k)' = NameOn(k)  BY <2>1, <2>2 DEF NameOn
  <2>5. ASSUME request[s].kind = "correct", NameOn(k) \notin contested
        PROVE  /\ matches'[k].placement = matches[k].placement
               /\ matches'[k].bullhorn = matches[k].bullhorn
               /\ aliases'[NameOn(k)] = aliases[NameOn(k)]
    <3>1. CASE request[q].kind = "correct" /\ NameOn(k) = n
      <4>1. q \in Correcting(n) /\ s \in Correcting(n)
        BY <2>1, <2>5, <3>1 DEF Correcting
      <4> QED  BY <2>1, <2>3, <2>5, <3>1, <4>1 DEF VmsInv, OneCorrects
    <3>2. CASE request[q].kind = "correct" /\ NameOn(k) # n
      BY <2>2, <2>3, <3>2
    <3>3. CASE request[q].kind # "correct"
      BY <2>2, <2>3, <3>3
    <3> QED  BY <3>1, <3>2, <3>3
  <2>6. aliases[NameOn(k)] # Absent => aliases'[NameOn(k)] # Absent
    BY <2>3
  <2>7. request[s].kind = "correct" /\ matches'[k].placement # request[s].row.placement
           /\ matches'[k].placement \in Named => aliases'[NameOn(k)] # Absent
    <3>1. CASE matches'[k].placement = matches[k].placement
      BY <2>2, <2>6, <3>1 DEF RequestFits
    <3>2. CASE matches'[k].placement # matches[k].placement
      <4>1. k = m  BY <2>2, <3>2
      <4> QED  BY <3>2, <4>1
    <3> QED  BY <3>1, <3>2
  <2> QED  BY <2>1, <2>2, <2>4, <2>5, <2>6, <2>7 DEF RequestFits, NameOn
<1> QED  BY <1>1, <1>2, <1>3, <1>4 DEF VmsInv

LEMMA DecideKeeps ==
    ASSUME VmsInv, NEW q \in Reviewers, Decide(q)
    PROVE  VmsInv'
<1>1. /\ request[q] # Absent /\ request[q].kind # "correct" /\ Decided(q)
      /\ UNCHANGED <<aliases, run, matchRuns, requests, contested>>
  BY DEF Decide
<1>2. PICK m : m = request[q].match  OBVIOUS
<1>3. PICK n : n = NameOn(m)  OBVIOUS
<1>4. /\ matches' \in Seq(Match) /\ DOMAIN matches' = DOMAIN matches /\ m \in DOMAIN matches
      /\ \A k \in DOMAIN matches : NameOn(k)' = NameOn(k)
      /\ \A k \in DOMAIN matches \ {m} : matches'[k] = matches[k]
      /\ matches'[m].placement = matches[m].placement /\ matches'[m].bullhorn = matches[m].bullhorn
      /\ matches'[m].status = "corrected" => matches[m].status = "corrected"
      /\ request' \in [Reviewers -> ReviewRequest \cup {Absent}] /\ request'[q] = Absent
      /\ \A s \in Reviewers \ {q} : request'[s] = request[s]
  BY <1>1, <1>2, DecidedEffect
<1>5. \A k \in DOMAIN matches : /\ matches'[k].placement = matches[k].placement
                                /\ matches'[k].bullhorn = matches[k].bullhorn
  BY <1>4
<1>6. AliasesFit'
  <2> SUFFICES ASSUME NEW x \in Names, aliases'[x] # Absent PROVE AliasFits(x)'
    BY DEF AliasesFit
  <2>1. AliasFits(x)  BY <1>1 DEF VmsInv, AliasesFit
  <2> QED  BY <1>1, <1>4, <1>5, <2>1 DEF AliasFits, NameOn
<1>7. aliases' \in [Names -> Alias \cup {Absent}]  BY <1>1 DEF VmsInv, ReviewTypeOK
<1>8. matches'[m].status = "corrected" /\ matches'[m].placement \in Named => aliases'[n] # Absent
  BY <1>1, <1>3, <1>4 DEF VmsInv, CorrectedIsTaught
<1> QED  BY <1>1, <1>2, <1>3, <1>4, <1>6, <1>7, <1>8, ReviewEnds

LEMMA ReviewFailsKeeps ==
    ASSUME VmsInv, NEW q \in Reviewers, ReviewFails(q)
    PROVE  VmsInv'
<1>1. /\ request[q] # Absent /\ request' = [request EXCEPT ![q] = Absent]
      /\ UNCHANGED <<matches, aliases, run, matchRuns, requests, contested>>
  BY DEF ReviewFails
<1>2. PICK m : m = request[q].match  OBVIOUS
<1>3. PICK n : n = NameOn(m)  OBVIOUS
<1>4. RequestFits(q) /\ m \in DOMAIN matches
  BY <1>1, <1>2 DEF VmsInv, RequestsFit, RequestFits
<1>5. request \in [Reviewers -> ReviewRequest \cup {Absent}]  BY DEF VmsInv, ReviewTypeOK
<1>6. /\ request' \in [Reviewers -> ReviewRequest \cup {Absent}] /\ request'[q] = Absent
      /\ \A s \in Reviewers \ {q} : request'[s] = request[s]
  BY <1>1, <1>5
<1>7. \A k \in DOMAIN matches : NameOn(k)' = NameOn(k)  BY <1>1 DEF NameOn
<1>8. AliasesFit'
  <2> SUFFICES ASSUME NEW x \in Names, aliases'[x] # Absent PROVE AliasFits(x)'
    BY DEF AliasesFit
  <2>1. AliasFits(x)  BY <1>1 DEF VmsInv, AliasesFit
  <2> QED  BY <1>1, <1>7, <2>1 DEF AliasFits, NameOn
<1>9. matches'[m].status = "corrected" /\ matches'[m].placement \in Named => aliases'[n] # Absent
  BY <1>1, <1>3, <1>4 DEF VmsInv, CorrectedIsTaught
<1>10. matches' \in Seq(Match) /\ aliases' \in [Names -> Alias \cup {Absent}]
  BY <1>1 DEF VmsInv, ReviewTypeOK
<1> QED  BY <1>1, <1>2, <1>3, <1>6, <1>7, <1>8, <1>9, <1>10, ReviewEnds

\* What an uncontested correction teaches: its placement, whatever the alias was before.
LEMMA Teaches ==
    ASSUME VmsInv, NEW q \in Reviewers, Corrects(q), request[q].step = "flushed",
           NEW m, m = request[q].match, NEW n, n = NameOn(m),
           request[q].seen = Absent => aliases[n] = Absent
    PROVE  /\ Taught(q, n) \in Alias
           /\ Taught(q, n).from \in {m} \cup (IF aliases[n] = Absent THEN {} ELSE {aliases[n].from})
           /\ n \notin contested =>
                 /\ Taught(q, n).from = m
                 /\ Taught(q, n).canonical = request[q].placement
                 /\ Taught(q, n).bullhorn = request[q].bullhorn
<1> DEFINE w == request[q]
           new == [canonical |-> w.placement, bullhorn |-> w.bullhorn, from |-> w.match]
           now == aliases[n]
<1>1. w \in ReviewRequest /\ RequestFits(q) /\ m \in DOMAIN matches
  BY DEF VmsInv, ReviewTypeOK, RequestsFit, RequestFits, Corrects
<1>2. n \in Names /\ m \in Nat  BY <1>1, NameType DEF VmsInv
<1>3. now \in Alias \cup {Absent} /\ w.seen \in Alias \cup {Absent}
  BY <1>1, <1>2 DEF VmsInv, ReviewTypeOK, ReviewRequest
<1>4. /\ w.placement \in Placements /\ w.bullhorn \in BullhornIds \cup {Absent}
      /\ n \notin contested => w.seen = now
  BY <1>1 DEF RequestFits, Corrects, ReviewRequest
<1>5. new \in Alias /\ new.from = m /\ new.canonical = w.placement /\ new.bullhorn = w.bullhorn
  BY <1>2, <1>4 DEF Alias
<1>6. CASE w.seen = Absent
  BY <1>5, <1>6 DEF Taught
<1> DEFINE c == Field(now.canonical, w.seen.canonical, new.canonical)
           b == Field(now.bullhorn, w.seen.bullhorn, new.bullhorn)
           f == Field(now.from, w.seen.from, new.from)
           t == [canonical |-> c, bullhorn |-> b, from |-> f]
<1>7. CASE w.seen # Absent
  <2>1. Taught(q, n) = t  BY <1>7 DEF Taught
  <2>2. now \in Alias  BY <1>1, <1>3, <1>7 DEF RequestFits, Corrects
  <2>3. w.seen \in Alias /\ f \in {m, now.from}
    BY <1>3, <1>5, <1>7 DEF Field
  <2>4. c \in Placements /\ b \in BullhornIds \cup {Absent} /\ f \in Nat
    BY <1>2, <1>4, <1>5, <2>2, <2>3 DEF Field, Alias
  <2>5. t \in Alias /\ t.from = f /\ t.canonical = c /\ t.bullhorn = b
    BY <2>4 DEF Alias
  <2>6. n \notin contested => c = w.placement /\ b = w.bullhorn /\ f = m
    BY <1>4, <1>5 DEF Field
  <2> HIDE DEF c, b, f, t
  <2>7. now # Absent  BY <2>2, AbsentIsNothing
  <2> QED  BY <2>1, <2>3, <2>5, <2>6, <2>7
<1> QED  BY <1>6, <1>7

LEMMA CorrectKeeps ==
    ASSUME VmsInv, NEW q \in Reviewers, Correct(q)
    PROVE  VmsInv'
<1>1. /\ request[q] # Absent /\ request[q].step = "flushed"
      /\ UNCHANGED <<run, matchRuns, requests, contested>>
  BY DEF Correct
<1>2. PICK m : m = request[q].match  OBVIOUS
<1>3. PICK n : n = NameOn(m)  OBVIOUS
<1> DEFINE teaches == request[q].placement \in Named
<1>4. IF teaches /\ request[q].seen = Absent /\ aliases[n] # Absent
      THEN request' = [request EXCEPT ![q] = Absent] /\ UNCHANGED <<matches, aliases>>
      ELSE /\ Decided(q)
           /\ aliases' = IF teaches THEN [aliases EXCEPT ![n] = Taught(q, n)] ELSE aliases
  BY <1>2, <1>3 DEF Correct
<1>5. RequestFits(q) /\ request[q].kind = "correct" /\ Corrects(q)
  BY <1>1 DEF VmsInv, RequestsFit, RequestFits, Corrects
<1>6. m \in DOMAIN matches /\ n \in Names
  BY <1>2, <1>3, <1>5, NameType DEF VmsInv, RequestFits
<1>7. aliases \in [Names -> Alias \cup {Absent}] /\ matches \in Seq(Match)
      /\ request \in [Reviewers -> ReviewRequest \cup {Absent}]
  BY DEF VmsInv, ReviewTypeOK
<1>8. CASE teaches /\ request[q].seen = Absent /\ aliases[n] # Absent
  <2>1. request' = [request EXCEPT ![q] = Absent] /\ UNCHANGED <<matches, aliases>>
    BY <1>4, <1>8
  <2>2. /\ request' \in [Reviewers -> ReviewRequest \cup {Absent}] /\ request'[q] = Absent
        /\ \A s \in Reviewers \ {q} : request'[s] = request[s]
    BY <1>7, <2>1
  <2>3. \A k \in DOMAIN matches : NameOn(k)' = NameOn(k)  BY <2>1 DEF NameOn
  <2>4. AliasesFit'
    <3> SUFFICES ASSUME NEW x \in Names, aliases'[x] # Absent PROVE AliasFits(x)'
      BY DEF AliasesFit
    <3>1. AliasFits(x)  BY <2>1 DEF VmsInv, AliasesFit
    <3> QED  BY <1>1, <2>1, <3>1 DEF AliasFits, NameOn
  <2>5. matches'[m].status = "corrected" /\ matches'[m].placement \in Named => aliases'[n] # Absent
    BY <1>3, <1>6, <2>1 DEF VmsInv, CorrectedIsTaught
  <2> QED  BY <1>1, <1>2, <1>3, <1>7, <2>1, <2>2, <2>3, <2>4, <2>5, ReviewEnds
<1>9. CASE ~(teaches /\ request[q].seen = Absent /\ aliases[n] # Absent)
  <2>1. /\ Decided(q)
        /\ aliases' = IF teaches THEN [aliases EXCEPT ![n] = Taught(q, n)] ELSE aliases
    BY <1>4, <1>9
  <2>2. /\ matches' \in Seq(Match) /\ DOMAIN matches' = DOMAIN matches
        /\ \A k \in DOMAIN matches : NameOn(k)' = NameOn(k)
        /\ \A k \in DOMAIN matches \ {m} : matches'[k] = matches[k]
        /\ matches'[m].placement =
               Field(matches[m].placement, request[q].row.placement, request[q].placement)
        /\ request[q].bullhorn # Absent => matches'[m].bullhorn =
               Field(matches[m].bullhorn, request[q].row.bullhorn, request[q].bullhorn)
        /\ request' \in [Reviewers -> ReviewRequest \cup {Absent}] /\ request'[q] = Absent
        /\ \A s \in Reviewers \ {q} : request'[s] = request[s]
    BY <1>1, <1>2, <1>5, <2>1, DecidedEffect
  <2>3. n \notin contested =>
            /\ matches'[m].placement = request[q].placement
            /\ request[q].bullhorn \in {Absent, matches'[m].bullhorn}
    <3>1. n \notin contested =>
             /\ request[q].row.placement = matches[m].placement
             /\ request[q].row.bullhorn = matches[m].bullhorn
      BY <1>2, <1>3, <1>5 DEF RequestFits
    <3> QED  BY <2>2, <3>1 DEF Field
  <2>4. ASSUME teaches
        PROVE  /\ Taught(q, n) \in Alias
               /\ Taught(q, n).from \in {m} \cup (IF aliases[n] = Absent THEN {} ELSE {aliases[n].from})
               /\ n \notin contested =>
                     /\ Taught(q, n).from = m
                     /\ Taught(q, n).canonical = request[q].placement
                     /\ Taught(q, n).bullhorn = request[q].bullhorn
    <3>1. request[q].seen = Absent => aliases[n] = Absent  BY <1>9, <2>4
    <3> QED  BY <1>1, <1>2, <1>3, <1>5, <3>1, Teaches
  <2> DEFINE taught == Taught(q, n)
  <2>5. /\ aliases' \in [Names -> Alias \cup {Absent}]
        /\ \A x \in Names \ {n} : aliases'[x] = aliases[x]
        /\ aliases'[n] = IF teaches THEN taught ELSE aliases[n]
    BY <1>6, <1>7, <2>1, <2>4
  <2>6. aliases[n] # Absent => aliases'[n] # Absent
    BY <2>4, <2>5, AbsentIsNothing
  <2>7. NameOn(m)' = n  BY <1>3, <1>6, <2>2
  <2>8. \A x \in Names : aliases[x] # Absent =>
           /\ aliases[x].from \in DOMAIN matches /\ NameOn(aliases[x].from) = x
    BY DEF VmsInv, AliasesFit, AliasFits
  <2>9. ASSUME NEW x \in Names, aliases'[x] # Absent PROVE AliasFits(x)'
    <3>1. CASE x # n
      <4>1. aliases'[x] = aliases[x] /\ AliasFits(x)  BY <2>5, <2>9, <3>1 DEF VmsInv, AliasesFit
      <4>2. aliases[x].from # m  BY <1>3, <2>8, <2>9, <3>1, <4>1
      <4> QED  BY <1>1, <2>2, <4>1, <4>2 DEF AliasFits, NameOn
    <3>2. CASE x = n /\ teaches
      <4>1. aliases'[n] = taught  BY <2>5, <3>2
      <4>2. taught.from \in DOMAIN matches /\ NameOn(taught.from) = n
        BY <1>3, <1>6, <2>4, <2>8, <3>2
      <4>3. n \notin contested =>
               /\ taught.canonical = matches'[taught.from].placement
               /\ taught.bullhorn \in {Absent, matches'[taught.from].bullhorn}
        BY <1>2, <1>3, <1>5, <2>3, <2>4, <3>2 DEF RequestFits
      <4>4. NameOn(taught.from) = n => \A k : k = taught.from => NameOn(k)' = n
        BY <2>2, <4>2
      <4> HIDE DEF taught
      <4> QED  BY <1>1, <2>2, <3>2, <4>1, <4>2, <4>3, <4>4 DEF AliasFits, NameOn
    <3>3. CASE x = n /\ ~teaches
      <4>1. aliases'[n] = aliases[n] /\ AliasFits(n)  BY <2>5, <2>9, <3>3 DEF VmsInv, AliasesFit
      <4>2. n \notin contested /\ aliases[n].from = m => matches'[m].placement \notin Named
        BY <2>3, <3>3
      <4> QED  BY <1>1, <2>2, <3>3, <4>1, <4>2 DEF AliasFits, NameOn
    <3> QED  BY <3>1, <3>2, <3>3
  <2>10. AliasesFit'  BY <2>9 DEF AliasesFit
  \* The match ends with a named placement because q, or a request since q read it, taught it.
  <2>11. ~teaches /\ matches'[m].placement \in Named => aliases[n] # Absent
    <3> SUFFICES ASSUME ~teaches, matches'[m].placement \in Named PROVE aliases[n] # Absent
      OBVIOUS
    <3>1. /\ request[q].row.placement = request[q].placement
          /\ matches'[m].placement = matches[m].placement
      BY <2>2 DEF Field
    <3>2. matches[m].placement # request[q].row.placement  BY <3>1
    <3> QED  BY <1>2, <1>3, <1>5, <3>1, <3>2 DEF RequestFits
  <2>12. matches'[m].placement \in Named => aliases'[n] # Absent
    <3>1. teaches => taught # Absent  BY <2>4, AbsentIsNothing
    <3> HIDE DEF taught, teaches
    <3> QED  BY <2>5, <2>6, <2>11, <3>1
  <2> QED  BY <1>1, <1>2, <1>3, <1>5, <2>2, <2>5, <2>6, <2>10, <2>12, ReviewEnds
<1> QED  BY <1>8, <1>9

LEMMA NextKeeps == VmsInv /\ [ReviewNext]_reviewVars => VmsInv'
<1> SUFFICES ASSUME VmsInv, [ReviewNext]_reviewVars PROVE VmsInv'  OBVIOUS
<1>1. CASE UNCHANGED reviewVars
  <2>1. UNCHANGED <<matches, aliases, run, matchRuns, request, requests, contested>>  BY <1>1 DEF reviewVars
  <2>2. ReviewTypeOK'  BY <2>1 DEF VmsInv, ReviewTypeOK
  <2>3. RequestsFit' /\ OneCorrects' /\ AliasesFit' /\ CorrectedIsTaught'  BY <2>1, ReviewsStay
  <2> QED  BY <2>2, <2>3 DEF VmsInv
<1>2. CASE BeginRun("invoke") \/ BeginRun("plan")  BY <1>2, BeginKeeps
<1>3. CASE Graph  BY <1>3, GraphKeeps
<1>4. CASE RunFails  BY <1>4, RunFailsKeeps
<1>5. CASE PersistMatches \/ ExecutePlan  BY <1>5, PersistKeeps
<1>6. CASE Review
  <2> PICK q \in Reviewers :
        \/ \E m \in DOMAIN matches :
            \/ \E kind \in Kinds \ {"correct"} : Load(q, m, kind, Absent, Absent)
            \/ \E p \in Placements, b \in BullhornIds \cup {Absent} : Load(q, m, "correct", p, b)
        \/ Decide(q) \/ Flush(q) \/ Correct(q) \/ ReviewFails(q)
    BY <1>6 DEF Review
  <2>1. ASSUME NEW m \in DOMAIN matches, NEW kind \in Kinds \ {"correct"}, Load(q, m, kind, Absent, Absent)
        PROVE  VmsInv'
    BY <2>1, LoadKeeps
  <2>2. ASSUME NEW m \in DOMAIN matches, NEW p \in Placements, NEW b \in BullhornIds \cup {Absent},
               Load(q, m, "correct", p, b)
        PROVE  VmsInv'
    <3>1. "correct" \in Kinds  BY DEF Kinds
    <3> QED  BY <2>2, <3>1, LoadKeeps
  <2> QED  BY <2>1, <2>2, DecideKeeps, FlushKeeps, CorrectKeeps, ReviewFailsKeeps
<1> QED  BY <1>1, <1>2, <1>3, <1>4, <1>5, <1>6 DEF ReviewNext

LEMMA Invariance == ReviewSpec => []VmsInv
<1> QED  BY InitKeeps, NextKeeps, PTL DEF ReviewSpec

-----------------------------------------------------------------------------
(* The results.                                                              *)

\* Every variable keeps its type, whatever is stored, corrected and taught.
THEOREM TypeCorrect == ReviewSpec => []ReviewTypeOK
<1>1. VmsInv => ReviewTypeOK  BY DEF VmsInv
<1> QED  BY <1>1, Invariance, PTL

\* What is taught outlives the request that taught it: a correction and its alias are one
\* transaction, the session writes only what differs from what it read, and a second
\* insert of a name fails with its review.
THEOREM AliasesFollowMatches == ReviewSpec => []AliasFollowsMatch
<1>1. VmsInv => AliasFollowsMatch
  BY DEF VmsInv, AliasesFit, AliasFits, AliasFollowsMatch
<1> QED  BY <1>1, Invariance, PTL

\* Every correction that stands, to a placement with a name, has an alias to show for it,
\* for any number of reviewers whose requests overlap and fail: what is flushed is not
\* committed before the alias is, and no request takes an alias back.
THEOREM CorrectionsTeach == ReviewSpec => []CorrectedIsTaught
<1>1. VmsInv => CorrectedIsTaught  BY DEF VmsInv
<1> QED  BY <1>1, Invariance, PTL
==============================================================================
