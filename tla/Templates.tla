----------------------------- MODULE Templates -----------------------------
(***************************************************************************)
(* The wording of one message of one tenant: the platform's default, and the *)
(* tenant's override, which administrators set (PUT) and remove (DELETE).    *)
(* message_template_admin.py keeps every override as a row, of which a       *)
(* partial unique index allows one to be active; message_templates.py picks  *)
(* the row that an agent's message is rendered from.                         *)
(*                                                                          *)
(* A PUT reads the active row and writes at its commit, in two steps; a      *)
(* DELETE is one statement.  A text is a number; what matters of it is which *)
(* variables the check at the upload finds in it.                           *)
(***************************************************************************)
EXTENDS Naturals, Sequences, FiniteSets

CONSTANTS
    Editors,        \* administrators with a request under way
    Drafts,         \* what a PUT may send: [channel, subject, body]
    Found,          \* the variables that the pattern of the upload finds in a text
    PlatformText,   \* the platform's default row
    Nothing,        \* no row, no request
    MaxEdits        \* bound: requests

Columns == {"channel", "subject", "body"}

ASSUME TemplatesAssumption ==
    /\ Nothing \notin Drafts \cup {PlatformText}
    /\ \A draft \in Drafts : draft = [c \in Columns |-> draft[c]]
    /\ MaxEdits \in Nat

ALLOWED_CHANNELS == {"sms", "email_subject", "email_body"}
ALLOWED_VARIABLES ==
    {"employee_first_name", "week_ending_date", "bte_link", "recruiter_name",
     "company_short_name", "pay_period_start", "pay_period_end"}

VARIABLES
    overrides,   \* the tenant's rows of message_templates, oldest first
    puts,        \* each editor's PUT: what it sends, the row it read and its content then
    edits,       \* how many requests there have been
    latest,      \* history: the draft of the last PUT to commit, Nothing once it is deleted
    crossed      \* history: two PUTs have been under way together

templateVars == <<overrides, puts, edits, latest, crossed>>

TemplateInit ==
    /\ overrides = << >>
    /\ puts = [e \in Editors |-> Nothing]
    /\ edits = 0 /\ latest = Nothing /\ crossed = FALSE

----------------------------------------------------------------------------
ActiveRows == {i \in DOMAIN overrides : overrides[i].active}
Active == IF ActiveRows = {} THEN 0 ELSE CHOOSE i \in ActiveRows : TRUE

\* _fetch_template: the tenant's row before the platform's.
Served == IF Active = 0 THEN PlatformText ELSE overrides[Active].content

\* What upsert_template lets through (else 422).
Accepted(draft) ==
    /\ draft.channel \in ALLOWED_CHANNELS
    /\ Found[draft.subject] \cup Found[draft.body] \subseteq ALLOWED_VARIABLES

PutRead(e, draft) ==
    /\ puts[e] = Nothing /\ edits < MaxEdits
    /\ Accepted(draft)
    /\ puts' = [puts EXCEPT ![e] = [draft |-> draft, row |-> Active, loaded |-> Served]]
    /\ edits' = edits + 1
    /\ crossed' = (crossed \/ \E o \in Editors : puts[o] # Nothing)
    /\ UNCHANGED <<overrides, latest>>

\* (mutant) The row is made active again, as a new one is.
Revived(row, put) == [content |-> put.draft, active |-> TRUE]

\* The row after the session's UPDATE, which names the columns whose value has changed.
Updated(row, put) ==
    [row EXCEPT !.content = [c \in Columns |->
        IF put.draft[c] = put.loaded[c] THEN row.content[c] ELSE put.draft[c]]]

Answered(e) == puts' = [puts EXCEPT ![e] = Nothing] /\ UNCHANGED <<edits, crossed>>

\* There was no active row.  The index refuses a second one.
PutInserts(e) ==
    /\ puts[e] # Nothing /\ puts[e].row = 0
    /\ IF Active = 0
       THEN /\ overrides' = Append(overrides, [content |-> puts[e].draft, active |-> TRUE])
            /\ latest' = puts[e].draft
       ELSE UNCHANGED <<overrides, latest>>
    /\ Answered(e)

\* The row is updated by its id; a DELETE in between has made it inactive.
PutUpdates(e) ==
    /\ puts[e] # Nothing /\ puts[e].row # 0
    /\ overrides' = [overrides EXCEPT ![puts[e].row] = Updated(@, puts[e])]
    /\ latest' = IF overrides[puts[e].row].active THEN puts[e].draft ELSE latest
    /\ Answered(e)

\* delete_override; without an active row it is answered 404.
DeleteOverride ==
    /\ edits < MaxEdits /\ edits' = edits + 1
    /\ Active # 0
    /\ overrides' = [overrides EXCEPT ![Active].active = FALSE]
    /\ latest' = Nothing
    /\ UNCHANGED <<puts, crossed>>

TemplateNext ==
    \/ \E e \in Editors : \/ \E draft \in Drafts : PutRead(e, draft)
                          \/ PutInserts(e) \/ PutUpdates(e)
    \/ DeleteOverride

TemplateSpec == TemplateInit /\ [][TemplateNext]_templateVars

----------------------------------------------------------------------------
\* Agents write what the last PUT sent, all of it, or the platform's text once that has
\* been deleted, even if a DELETE fell between the read and the write of a PUT; only two
\* PUTs that overlap may mix their columns.
ServedIsLatest ==
    ~crossed => Served = IF latest = Nothing THEN PlatformText ELSE latest
=============================================================================
