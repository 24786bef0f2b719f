------------------------------- MODULE People -------------------------------
(***************************************************************************)
(* The users of one tenant, their roles and their sessions: users.py, the   *)
(* users of admin.py, auth.py and the login and refresh of main.py.  Every  *)
(* endpoint trusts the role in the caller's token, which was read from the  *)
(* row when the token was signed; a token is good for TTL and is renewed    *)
(* while it is good.  A role is set together with a row of                  *)
(* role_change_audit.                                                       *)
(*                                                                          *)
(* A request loads what it needs in one step and commits in another; of the *)
(* row it updates, the session writes only the columns that differ from     *)
(* what it loaded.                                                          *)
(***************************************************************************)
EXTENDS Naturals, Sequences, FiniteSets, FiniteSetsExt

CONSTANTS
    Persons, Emails,
    Bootstrap,       \* the users that SQL has created: person to role
    BootstrapEmail,  \* and to e-mail
    NewUsers,        \* the bodies of requests to add a user
    Updates,         \* and of those to update one
    TTL,             \* jwt_expire_minutes
    Null,
    MaxTime, MaxRequests  \* bounds

\* ROLE_HIERARCHY
ROLE_HIERARCHY == [viewer |-> 0, manager |-> 1, admin |-> 2, super_admin |-> 3]
VALID_ROLES == DOMAIN ROLE_HIERARCHY

ASSUME PeopleAssumption ==
    /\ DOMAIN Bootstrap \subseteq Persons /\ DOMAIN BootstrapEmail = DOMAIN Bootstrap
    /\ \A p \in DOMAIN Bootstrap : Bootstrap[p] \in VALID_ROLES /\ BootstrapEmail[p] \in Emails
    /\ \A p, q \in DOMAIN Bootstrap : BootstrapEmail[p] = BootstrapEmail[q] => p = q
    /\ Null \notin Persons \cup Emails \cup VALID_ROLES
    /\ {TTL, MaxTime, MaxRequests} \subseteq Nat

VARIABLES
    now,
    users,             \* the rows of users: person to row, or Null
    role_change_audit, \* in the order of their commits
    tokens,            \* the tokens that are good
    tenant_active,
    pending,           \* each person's request in progress, or Null
    started,           \* how many requests to change a user have begun
    since,             \* history: when the role or is_active of a person last changed
    outrun,            \* history: persons of whom one of them changed while a token was being signed
    clashed            \* history: persons two updates of whom were in progress at a time

peopleVars ==
    <<now, users, role_change_audit, tokens, tenant_active, pending, started, since, outrun, clashed>>

User == [email : Emails, role : VALID_ROLES, is_active : BOOLEAN, password : BOOLEAN]
Token == [sub : Persons, role : VALID_ROLES, exp : 0..(MaxTime + TTL)]

\* What a request would set: a user's columns, Null where the body has none.
Body == [email : Emails \cup {Null}, role : VALID_ROLES \cup {Null},
         is_active : BOOLEAN \cup {Null}, password : BOOLEAN \cup {Null}]
NoChange == [email |-> Null, role |-> Null, is_active |-> Null, password |-> Null]

ASSUME BodyAssumption ==
    /\ Updates \subseteq Body
    /\ \A b \in NewUsers : b \in Body /\ Null \notin {b.email, b.role, b.password} /\ b.is_active = Null

UserRequest == [kind : {"sign", "add", "update"}, target : Persons \cup {Null},
            row : User \cup {Null}, body : Body]

\* Null is the null of a column and the absence of a row.
ASSUME NullAssumption == Null \notin BOOLEAN /\ Null \notin User /\ Null \notin UserRequest

AuditRow == [target : Persons, caller : Persons, from : VALID_ROLES \cup {Null}, to : VALID_ROLES]

PeopleTypeOK ==
    /\ now \in 0..MaxTime
    /\ users \in [Persons -> User \cup {Null}]
    /\ role_change_audit \in Seq(AuditRow)
    /\ tokens \subseteq Token /\ \A t \in tokens : t.exp >= now
    /\ tenant_active \in BOOLEAN
    /\ pending \in [Persons -> UserRequest \cup {Null}]
    /\ started \in 0..MaxRequests
    /\ since \in [Persons -> 0..now]
    /\ outrun \subseteq Persons /\ clashed \subseteq Persons

PeopleInit ==
    /\ now = 0
    /\ users = [p \in Persons |->
            IF p \in DOMAIN Bootstrap
            THEN [email |-> BootstrapEmail[p], role |-> Bootstrap[p], is_active |-> TRUE, password |-> TRUE]
            ELSE Null]
    /\ role_change_audit = << >> /\ tokens = {} /\ tenant_active = TRUE
    /\ pending = [p \in Persons |-> Null] /\ started = 0
    /\ since = [p \in Persons |-> 0] /\ outrun = {} /\ clashed = {}

\* What is forgotten here is refused by decode_token.
Tick ==
    /\ now < MaxTime /\ now' = now + 1
    /\ tokens' = {t \in tokens : t.exp >= now'}
    /\ UNCHANGED <<users, role_change_audit, tenant_active, pending, started, since, outrun, clashed>>

-----------------------------------------------------------------------------
(* Sessions.                                                                 *)

Sign(p) == [kind |-> "sign", target |-> p, row |-> users[p], body |-> NoChange]

\* login: the tenant and the user have to be active, and the user to have a password.
Login(p) ==
    /\ pending[p] = Null
    /\ tenant_active
    /\ users[p] # Null /\ users[p].is_active /\ users[p].password
    /\ pending' = [pending EXCEPT ![p] = Sign(p)]
    /\ UNCHANGED <<now, users, role_change_audit, tokens, tenant_active, started, since, outrun, clashed>>

\* Mutant: refresh takes the user as it is in the token.
AnyUser(p) == users[p] # Null

\* refresh_token: "User no longer active".
StillActive(p) == users[p] # Null /\ users[p].is_active

\* refresh_token, for who holds a token that is good.
Refresh(p) ==
    /\ pending[p] = Null
    /\ \E t \in tokens : t.sub = p
    /\ StillActive(p)
    /\ pending' = [pending EXCEPT ![p] = Sign(p)]
    /\ UNCHANGED <<now, users, role_change_audit, tokens, tenant_active, started, since, outrun, clashed>>

\* create_access_token
create_access_token(p, role) == [sub |-> p, role |-> role, exp |-> now + TTL]

\* Of the tokens of a person with one role, only the last is looked at.
Signed(p) ==
    /\ pending[p] # Null /\ pending[p].kind = "sign"
    /\ LET role == pending[p].row.role
       IN  tokens' = {t \in tokens : t.sub # p \/ t.role # role} \cup {create_access_token(p, role)}
    /\ pending' = [pending EXCEPT ![p] = Null]
    /\ UNCHANGED <<now, users, role_change_audit, tenant_active, started, since, outrun, clashed>>

-----------------------------------------------------------------------------
(* Users.                                                                    *)

\* require_role: the caller has a token of at least that role.
require_role(c, minimum) ==
    {t \in tokens : t.sub = c /\ ROLE_HIERARCHY[t.role] >= ROLE_HIERARCHY[minimum]}

\* Mutant: that nobody gives themselves a role is all that is checked.
AnyoneElse(c, caller_role, role, target) == target # c

\* assert_can_assign_role
assert_can_assign_role(c, caller_role, role, target) ==
    /\ role # "super_admin"
    /\ ROLE_HIERARCHY[role] <= ROLE_HIERARCHY[caller_role]
    /\ target # c

EmailTaken(email, target) ==
    \E q \in Persons \ {target} : users[q] # Null /\ users[q].email = email

Begin(c, kind, target, body) ==
    /\ started < MaxRequests /\ started' = started + 1
    /\ pending[c] = Null
    /\ pending' = [pending EXCEPT ![c] =
            [kind |-> kind, target |-> target, body |-> body,
             row |-> IF target = Null THEN Null ELSE users[target]]]
    /\ clashed' = IF kind = "update" /\ \E d \in Persons : /\ pending[d] # Null
                                                           /\ pending[d].kind = "update"
                                                           /\ pending[d].target = target
                  THEN clashed \cup {target} ELSE clashed
    /\ UNCHANGED <<now, users, role_change_audit, tokens, tenant_active, since, outrun>>

AddUser(c, minimum, body) ==
    /\ \E t \in require_role(c, minimum) : assert_can_assign_role(c, t.role, body.role, Null)
    /\ ~EmailTaken(body.email, Null)
    /\ Begin(c, "add", Null, body)

create_user(c, body) == AddUser(c, "admin", body)

invite_user(c, body) == AddUser(c, "manager", body)

create_tenant_user(c, body) == body.password /\ AddUser(c, "super_admin", body)

\* Nobody is given or deprived of super_admin, or gives themselves a role.
update_user(c, p, body) ==
    /\ users[p] # Null
    /\ \E t \in require_role(c, "admin") :
        body.role \notin {Null, users[p].role} =>
            /\ assert_can_assign_role(c, t.role, body.role, p)
            /\ users[p].role # "super_admin"
    /\ body.email # Null => ~EmailTaken(body.email, p)
    /\ Begin(c, "update", p, body)

deactivate_user(c, p) ==
    /\ require_role(c, "admin") # {} /\ c # p /\ users[p] # Null
    /\ Begin(c, "update", p, [NoChange EXCEPT !.is_active = FALSE])

set_user_password(c, p) ==
    /\ require_role(c, "admin") # {} /\ users[p] # Null
    /\ Begin(c, "update", p, [NoChange EXCEPT !.password = TRUE])

\* The column after the session's update.
Column(current, loaded, new) == IF new \in {Null, loaded} THEN current ELSE new

UpdatedRow(c) ==
    LET r == pending[c] IN
    [email |-> Column(users[r.target].email, r.row.email, r.body.email),
     role |-> Column(users[r.target].role, r.row.role, r.body.role),
     is_active |-> Column(users[r.target].is_active, r.row.is_active, r.body.is_active),
     password |-> Column(users[r.target].password, r.row.password, r.body.password)]

\* Mutant: the audit is written whenever the body has a role.
AnyRole(r) == r.body.role # Null

\* record_role_change is called: the role differs from the one that was loaded.
RoleChanges(r) == r.body.role \notin {Null, r.row.role}

\* Its row of the audit.
Change(c, r) == [target |-> r.target, caller |-> c, from |-> r.row.role, to |-> r.body.role]

\* The database accepts the row: UNIQUE (tenant_id, email).
Accepts(p, row) == ~EmailTaken(row.email, p)

Store(c, p, row, audit) ==
    /\ users' = [users EXCEPT ![p] = row]
    /\ role_change_audit' = role_change_audit \o audit
    /\ LET changes == users[p] # Null /\ <<row.role, row.is_active>> # <<users[p].role, users[p].is_active>>
       IN  /\ since' = IF changes THEN [since EXCEPT ![p] = now] ELSE since
           /\ outrun' = IF changes /\ pending[p] # Null /\ pending[p].kind = "sign"
                       THEN outrun \cup {p} ELSE outrun

\* The request ends: its user and the audit of its role are committed, or the database
\* refuses the row, and neither is.
Commit(c) ==
    /\ pending[c] # Null
    /\ LET r == pending[c] IN
        \/ /\ r.kind = "add"
           /\ \E p \in Persons :
                LET row == [r.body EXCEPT !.is_active = TRUE] IN
                /\ users[p] = Null
                /\ IF Accepts(p, row)
                   THEN Store(c, p, row, << [target |-> p, caller |-> c, from |-> Null, to |-> row.role] >>)
                   ELSE UNCHANGED <<users, role_change_audit, since, outrun>>
        \/ /\ r.kind = "update"
           /\ IF Accepts(r.target, UpdatedRow(c))
              THEN Store(c, r.target, UpdatedRow(c),
                         IF RoleChanges(r) THEN << Change(c, r) >> ELSE << >>)
              ELSE UNCHANGED <<users, role_change_audit, since, outrun>>
    /\ pending' = [pending EXCEPT ![c] = Null]
    /\ UNCHANGED <<now, tokens, tenant_active, started, clashed>>

\* update_tenant, of which only is_active matters here.
UpdateTenant(c) ==
    /\ started < MaxRequests /\ started' = started + 1
    /\ require_role(c, "super_admin") # {}
    /\ tenant_active' = ~tenant_active
    /\ UNCHANGED <<now, users, role_change_audit, tokens, pending, since, outrun, clashed>>

-----------------------------------------------------------------------------
PeopleNext ==
    \/ Tick
    \/ \E p \in Persons : Login(p) \/ Refresh(p) \/ Signed(p) \/ Commit(p) \/ UpdateTenant(p)
    \/ \E c \in Persons :
        \/ \E body \in NewUsers : create_user(c, body) \/ invite_user(c, body) \/ create_tenant_user(c, body)
        \/ \E p \in Persons :
            \/ \E body \in Updates : update_user(c, p, body)
            \/ deactivate_user(c, p) \/ set_user_password(c, p)

PeopleSpec == PeopleInit /\ [][PeopleNext]_peopleVars

-----------------------------------------------------------------------------
(* Properties.                                                               *)

RowsOf(p) == {i \in DOMAIN role_change_audit : role_change_audit[i].target = p}

\* The role that the last of some of a person's rows gives; without a row it is that of the
\* bootstrap, if there is one.
Given(p, rows) ==
    IF rows # {} THEN role_change_audit[Max(rows)].to
    ELSE IF p \in DOMAIN Bootstrap THEN Bootstrap[p] ELSE Null

\* A person's role is the one that the last row of the audit gives, however many requests
\* were in progress at a time.
RoleIsAudited == \A p \in Persons : users[p] # Null => users[p].role = Given(p, RowsOf(p))

\* The audit of a person is a chain: every row starts from the role the row before it gave,
\* unless two updates of the person were in progress at a time.
AuditChains ==
    \A p \in Persons \ clashed : \A i \in RowsOf(p) :
        role_change_audit[i].from = Given(p, {j \in RowsOf(p) : j < i})

\* The audit tells who had which role, and how each came to it: RoleIsAudited, AuditChains.
AuditTrue == RoleIsAudited /\ AuditChains

\* The roles that a person has had before a row of the audit.
HeldBefore(p, i) ==
    {role_change_audit[j].to : j \in {j \in RowsOf(p) : j < i}}
    \cup (IF p \in DOMAIN Bootstrap THEN {Bootstrap[p]} ELSE {})

\* Every role was given by someone who had one as high before, whatever has become of it
\* since the token was signed and the request checked: through any chain of users who add
\* and promote one another, nobody rises above those whom SQL has created.
GrantedFromAbove ==
    \A i \in DOMAIN role_change_audit :
        \E role \in HeldBefore(role_change_audit[i].caller, i) :
            ROLE_HIERARCHY[role] >= ROLE_HIERARCHY[role_change_audit[i].to]

\* When TTL has gone by since a person was deactivated or given another role, no token says
\* otherwise, though tokens are renewed without end: unless the change fell while a token
\* of that person was being signed.
TokensFollow ==
    \A t \in tokens : (now > since[t.sub] + TTL /\ t.sub \notin outrun) =>
        users[t.sub].is_active /\ users[t.sub].role = t.role
=============================================================================
