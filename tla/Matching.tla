------------------------------ MODULE Matching ------------------------------
(***************************************************************************)
(* The three agents that match documents to charges: invoices to billable    *)
(* charges by client and amount, postings of the general ledger to charges   *)
(* by reference, payroll records to payable charges by candidate and period. *)
(* One step is one turn of the detector's loop; then the charges that are    *)
(* left and the duplicates are reported, a language model comments on what   *)
(* was reported and the result waits for a person, or becomes a plan.        *)
(*                                                                          *)
(* A document and a charge are a key (the client, the reference, or the      *)
(* candidate and period; NoKey if empty) and an amount in whole dollars.     *)
(* Both have ids, so that they are known by their place in the list.         *)
(***************************************************************************)
EXTENDS Integers, Sequences, FiniteSets, FiniteSetsExt

CONSTANTS
    Agents,             \* which of the three
    Keys, NoKey,
    Amounts,            \* whole dollars, of either sign
    MaxDocuments, MaxCharges,   \* bounds
    NoCharge            \* None

ASSUME MatchingAssumption ==
    /\ Agents \subseteq {"invoice_matching", "gl_reconciliation", "payroll_reconciliation"}
    /\ NoKey \in Keys
    /\ Amounts \subseteq Int
    /\ MaxDocuments \in Nat /\ MaxCharges \in Nat
    /\ NoCharge \notin Nat

Item == [key : Keys, amount : Amounts]

VARIABLES
    agent,       \* whose graph runs
    via,         \* "graph": with the caller's data; "plan": by create_agent_plan
    documents, charges,  \* its input
    turn,        \* the document the loop is at
    paired,      \* pairs of a document and a charge
    reported,    \* exceptions and discrepancies: [type, severity, document, charge]
    node,        \* where the graph is
    verdict      \* human_review_required

matchVars == <<agent, via, documents, charges, turn, paired, reported, node, verdict>>

\* Lists of up to n items.
Lists(n) == UNION {[1 .. k -> Item] : k \in 0 .. n}

\* The planners have no charges, and no ledger and no payroll.
MatchInit ==
    /\ agent \in Agents
    /\ via \in {"graph", "plan"}
    /\ documents \in Lists(MaxDocuments)
    /\ charges \in Lists(MaxCharges)
    /\ via = "plan" => charges = << >>
    /\ via = "plan" /\ agent # "invoice_matching" => documents = << >>
    /\ turn = 1
    /\ paired = {}
    /\ reported = {}
    /\ node = "match"
    /\ verdict = FALSE

----------------------------------------------------------------------------
Abs(n) == IF n < 0 THEN -n ELSE n

Report(type, severity, d, c) == [type |-> type, severity |-> severity, document |-> d, charge |-> c]

ChargesTaken == {p[2] : p \in paired}

Loop(agents) == agent \in agents /\ node = "match" /\ turn \in DOMAIN documents

Turn(pairs, reports) ==
    /\ paired' = paired \cup pairs
    /\ reported' = reported \cup reports
    /\ turn' = turn + 1
    /\ UNCHANGED <<agent, via, documents, charges, node, verdict>>

----------------------------------------------------------------------------
(* Invoices.                                                                 *)

amount_tolerance_pct ==
    [a \in {"invoice_matching", "gl_reconciliation", "payroll_reconciliation"} |->
        IF a = "invoice_matching" THEN 20 ELSE IF a = "gl_reconciliation" THEN 10 ELSE 5]
        \* tenths of a percent

Delta(d, c) == documents[d].amount - charges[c].amount

\* (mutant) The charges that other invoices have taken are not left out.
Anybodys(d) ==
    {c \in DOMAIN charges :
        /\ charges[c].key = documents[d].key
        /\ charges[c].amount # 0
        /\ 1000 * Abs(Delta(d, c)) <= documents[d].amount * amount_tolerance_pct["invoice_matching"]}

\* The charges of this client that no invoice has taken and whose amount is near.
Near(d) ==
    {c \in DOMAIN charges \ ChargesTaken :
        /\ charges[c].key = documents[d].key
        /\ charges[c].amount # 0
        /\ 1000 * Abs(Delta(d, c)) <= documents[d].amount * amount_tolerance_pct["invoice_matching"]}

\* The nearest of them, and the first of equals.
Best(d) ==
    IF Near(d) = {} THEN NoCharge
    ELSE CHOOSE c \in Near(d) :
            \A o \in Near(d) : /\ Abs(Delta(d, c)) <= Abs(Delta(d, o))
                               /\ Abs(Delta(d, o)) = Abs(Delta(d, c)) => c <= o

Legible(d) == documents[d].key # NoKey /\ documents[d].amount # 0

MatchInvoice ==
    /\ Loop({"invoice_matching"})
    /\ IF ~Legible(turn) THEN Turn({}, {})
       ELSE IF Best(turn) = NoCharge
       THEN Turn({}, {Report("unmatched_invoice", "high", turn, NoCharge)})
       ELSE Turn({<<turn, Best(turn)>>},
                 IF Delta(turn, Best(turn)) = 0 THEN {}
                 ELSE {Report("amount_discrepancy", "medium", turn, Best(turn))})

----------------------------------------------------------------------------
(* The ledger and payroll: the last charge with the key, whoever else has it. *)

Keyed(d) == {c \in DOMAIN charges : charges[c].key = documents[d].key}
LastOf(S) == IF S = {} THEN NoCharge ELSE Max(S)

\* A charge of nothing may be off by a dollar.
Differs(d, c) ==
    LET off == 1000 * Abs(Delta(d, c))
    IN  off > IF charges[c].amount = 0 THEN 1000
              ELSE Abs(charges[c].amount) * amount_tolerance_pct[agent]

PostingCharge(d) == IF documents[d].key = NoKey THEN NoCharge ELSE LastOf(Keyed(d))

MatchPosting ==
    /\ Loop({"gl_reconciliation"})
    /\ LET c == PostingCharge(turn)
       IN  IF c = NoCharge
           THEN Turn({}, {Report("orphaned_gl_entry", "medium", turn, NoCharge)})
           ELSE Turn({<<turn, c>>},
                     IF Differs(turn, c) THEN {Report("amount_mismatch", "high", turn, c)} ELSE {})

MatchPayroll ==
    /\ Loop({"payroll_reconciliation"})
    /\ LET c == LastOf(Keyed(turn))
       IN  IF c = NoCharge
           THEN Turn({}, {Report("unmatched_payroll_entry", "high", turn, NoCharge)})
           ELSE Turn({<<turn, c>>},
                     IF ~Differs(turn, c) THEN {}
                     ELSE {Report("pay_amount_mismatch",
                                  IF Abs(Delta(turn, c)) > 100 THEN "high" ELSE "medium", turn, c)})

----------------------------------------------------------------------------
(* What is left when the loop is over.                                       *)

\* (mutant) A charge counts as matched when a document has its key.
Unkeyed == {c \in DOMAIN charges : /\ \A d \in DOMAIN documents : documents[d].key # charges[c].key
                                   /\ charges[c].amount > 0}

Left == {c \in DOMAIN charges \ ChargesTaken :
            CASE agent = "gl_reconciliation" -> charges[c].amount # 0
              [] OTHER -> charges[c].amount > 0}

LeftOver ==
    {CASE agent = "invoice_matching" -> Report("uninvoiced_charge", "medium", 0, c)
       [] agent = "gl_reconciliation" -> Report("missing_gl_entry", "high", 0, c)
       [] OTHER -> Report("missing_payment", "critical", 0, c) : c \in Left}

\* A posting is matched by its `reference' or else its `source_ref', but compared with the
\* others by `reference' alone, which those in sourced do not have.
Reference(d, sourced) == IF d \in sourced THEN NoKey ELSE documents[d].key

\* The documents that agree with d in that and in the amount.
Same(d, sourced) ==
    {e \in DOMAIN documents : /\ Reference(e, sourced) = Reference(d, sourced)
                             /\ documents[e].amount = documents[d].amount}

Duplicates(sourced) ==
    {Report(IF agent = "invoice_matching" THEN "duplicate_invoice" ELSE "duplicate_gl_posting",
            "high", Min(Same(d, sourced)), NoCharge) :
        d \in {e \in DOMAIN documents : /\ Cardinality(Same(e, sourced)) >= 2
                                        /\ agent # "payroll_reconciliation"}}

\* The end of match_node: without any input it is an error.
Conclude ==
    /\ node = "match" /\ turn \notin DOMAIN documents
    /\ IF documents = << >> /\ charges = << >>
       THEN node' = "end" /\ UNCHANGED <<reported, verdict>>
       ELSE /\ \E sourced \in SUBSET {d \in DOMAIN documents : agent = "gl_reconciliation"} :
                 reported' = reported \cup LeftOver \cup Duplicates(sourced)
            /\ verdict' = (reported' # {})
            /\ node' = IF reported' # {} THEN "validate" ELSE "end"
    /\ UNCHANGED <<agent, via, documents, charges, turn, paired>>

\* The model comments, or fails: its comments change nothing that is modelled.
Validate ==
    /\ node = "validate"
    /\ node' = "persist"
    /\ UNCHANGED <<agent, via, documents, charges, turn, paired, reported, verdict>>

\* Hundredths: 1 - |delta| / amount at least so much.
Confident(p, hundredths) ==
    100 * (documents[p[1]].amount - Abs(Delta(p[1], p[2]))) >= hundredths * documents[p[1]].amount

NeedsReview == {p \in paired : Confident(p, 70) /\ ~Confident(p, 95)}

\* The invoices' last node computes the flag anew; the other two set it.
Persist ==
    /\ node = "persist"
    /\ verdict' = (agent = "invoice_matching" => NeedsReview # {} \/ reported # {})
    /\ node' = "end"
    /\ UNCHANGED <<agent, via, documents, charges, turn, paired, reported>>

MatchNext == MatchInvoice \/ MatchPosting \/ MatchPayroll \/ Conclude \/ Validate \/ Persist

MatchSpec == MatchInit /\ [][MatchNext]_matchVars

----------------------------------------------------------------------------
(* Properties.                                                               *)

MatchTypeOK ==
    /\ agent \in Agents
    /\ via \in {"graph", "plan"}
    /\ documents \in Lists(MaxDocuments) /\ charges \in Lists(MaxCharges)
    /\ turn \in 1 .. Len(documents) + 1
    /\ paired \subseteq (DOMAIN documents) \X (DOMAIN charges)
    /\ \A r \in reported : /\ r.document \in DOMAIN documents \cup {0}
                           /\ r.charge \in DOMAIN charges \cup {NoCharge}
    /\ node \in {"match", "validate", "persist", "end"}
    /\ verdict \in BOOLEAN

\* The greedy matching of invoices wastes nothing: no charge goes to two
\* invoices, and an invoice that is reported as unmatched and a charge that is
\* left are too far apart to be one another's
\* (match_invoices_to_charges takes the invoices in the order they come).
InvoicesPaired ==
    agent = "invoice_matching" =>
        /\ \A p, q \in paired : p[1] = q[1] <=> p[2] = q[2]
        /\ \A d \in 1 .. turn - 1 :
              d \in DOMAIN documents /\ Legible(d) /\ (\A p \in paired : p[1] # d) => Near(d) = {}

\* Money is accounted for: when a matcher is done, every charge with a positive
\* amount is in a pair or in a report, and never in a pair and reported missing;
\* so is every document that can be read.
Accounted ==
    node # "match" /\ (documents # << >> \/ charges # << >>) =>
        /\ \A c \in DOMAIN charges :
              charges[c].amount > 0 =>
                (c \in ChargesTaken <=> ~\E r \in reported : r.document = 0 /\ r.charge = c)
        /\ \A d \in DOMAIN documents :
              Legible(d) =>
                ((\E p \in paired : p[1] = d) <=>
                    ~\E r \in reported : /\ r.document = d /\ r.charge = NoCharge
                                         /\ r.type # "duplicate_invoice"
                                         /\ r.type # "duplicate_gl_posting")
=============================================================================
