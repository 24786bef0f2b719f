---------------------------- MODULE People_proofs ----------------------------
(***************************************************************************)
(* What holds of the users of a tenant, for any number of persons, requests  *)
(* and tokens, and any overlap of the requests: the audit explains every     *)
(* role, every role was given from above, tokens follow a change of role,    *)
(* and the super admins are always those of the bootstrap.                   *)
(***************************************************************************)
EXTENDS People, FiniteSetTheorems, SequenceTheorems, WellFoundedInduction, TLAPS

-----------------------------------------------------------------------------
(* The last of a person's rows.                                              *)

LEMMA Greatest ==
    ASSUME NEW n \in Nat, NEW S \in SUBSET (1 .. n), S # {}
    PROVE  Max(S) \in S /\ \A i \in S : i <= Max(S)
<1> DEFINE T == {n - i : i \in S}
<1>0. \A i \in S : i \in Nat /\ i <= n /\ n - i \in Nat  OBVIOUS
<1>1. T \subseteq Nat /\ T # {}  BY <1>0
<1>2. PICK m \in T : \A i \in T : <<i, m>> \notin OpToRel(<, Nat)
  BY <1>1, WFMin, NatLessThanWellFounded, Zenon
<1>3. \A i \in T : ~(i < m)
  BY <1>1, <1>2 DEF OpToRel
<1>4. PICK k \in S : m = n - k  BY <1>2
<1>5. ASSUME NEW i \in S PROVE i <= k
  <2>1. n - i \in T  OBVIOUS
  <2> QED  BY <1>0, <1>3, <1>4, <2>1
<1>6. k \in S /\ \A i \in S : k >= i  BY <1>0, <1>5
<1>7. Max(S) \in S /\ \A i \in S : Max(S) >= i  BY <1>6 DEF Max
<1> QED  BY <1>0, <1>7

\* The roles of the audit.
LEMMA GivenStays ==
    ASSUME role_change_audit \in Seq(AuditRow), role_change_audit' \in Seq(AuditRow),
           Len(role_change_audit) <= Len(role_change_audit)',
           \A i \in 1 .. Len(role_change_audit) : role_change_audit'[i] = role_change_audit[i],
           NEW p, NEW S \in SUBSET (1 .. Len(role_change_audit))
    PROVE  Given(p, S)' = Given(p, S)
<1>1. Len(role_change_audit) \in Nat  OBVIOUS
<1>2. CASE S = {}  BY <1>2 DEF Given
<1>3. CASE S # {}
  <2>1. Max(S) \in 1 .. Len(role_change_audit)  BY <1>1, <1>3, Greatest
  <2> QED  BY <1>3, <2>1 DEF Given
<1> QED  BY <1>2, <1>3

-----------------------------------------------------------------------------
(* The inductive invariant.                                                  *)

\* A request that signs a token: it read what still holds, unless the person's row has outrun it.
SignFits(c) ==
    LET r == pending[c] IN
    /\ users[c] # Null /\ r.row \in User
    /\ c \notin outrun => users[c].is_active /\ users[c].role = r.row.role

AddFits(c) == LET r == pending[c] IN r.body \in NewUsers /\ r.body.role # "super_admin"

\* A request that updates: what it read still holds, unless another one updates the same
\* person; neither makes or unmakes a super admin.
UpdateFits(c) ==
    LET r == pending[c] IN
    /\ r.target \in Persons /\ users[r.target] # Null /\ r.row \in User
    /\ r.target \notin clashed => r.row = users[r.target]
    /\ r.row.role = "super_admin" <=> users[r.target].role = "super_admin"
    /\ RoleChanges(r) => "super_admin" \notin {r.row.role, r.body.role}

Fits(c) ==
    /\ pending[c].kind = "sign" => SignFits(c)
    /\ pending[c].kind = "add" => AddFits(c)
    /\ pending[c].kind = "update" => UpdateFits(c)

PendingFit == \A c \in Persons : pending[c] # Null => Fits(c)

Updates1(c, p) == pending[c] # Null /\ pending[c].kind = "update" /\ pending[c].target = p

OneUpdates ==
    \A p \in Persons \ clashed : \A c, d \in Persons : Updates1(c, p) /\ Updates1(d, p) => c = d

\* A token says what holds, or ends when the time is up since it stopped to.
TokenFits(t) ==
    /\ users[t.sub] # Null /\ t.exp <= now + TTL
    /\ t.sub \notin outrun =>
           \/ users[t.sub].is_active /\ users[t.sub].role = t.role
           \/ t.exp <= since[t.sub] + TTL

TokensFit == \A t \in tokens : TokenFits(t)

\* Who has no row has no history.
StrangersFit == \A p \in Persons : users[p] = Null => p \notin DOMAIN Bootstrap /\ RowsOf(p) = {}

PeopleInv ==
    /\ PeopleTypeOK /\ PendingFit /\ OneUpdates /\ TokensFit /\ StrangersFit
    /\ RoleIsAudited /\ AuditChains

LEMMA Sizes ==
    /\ TTL \in Nat /\ MaxTime \in Nat /\ MaxRequests \in Nat
BY PeopleAssumption

LEMMA RowsType ==
    ASSUME PeopleTypeOK, NEW p
    PROVE  RowsOf(p) \in SUBSET (1 .. Len(role_change_audit)) /\ Len(role_change_audit) \in Nat
BY DEF PeopleTypeOK, RowsOf

\* What a column of a row may be, and what it is when Null is not meant.
LEMMA NullIsNoRow ==
    /\ \A u \in User : u # Null
    /\ \A r \in UserRequest : r # Null
BY NullAssumption

LEMMA InitKeeps == PeopleInit => PeopleInv
<1> SUFFICES ASSUME PeopleInit PROVE PeopleInv  OBVIOUS
<1> DEFINE u(p) == [email |-> BootstrapEmail[p], role |-> Bootstrap[p], is_active |-> TRUE, password |-> TRUE]
<1>1. \A p \in DOMAIN Bootstrap : u(p) \in User /\ u(p).email = BootstrapEmail[p] /\ u(p).role = Bootstrap[p]
  BY PeopleAssumption DEF User
<1>2. \A p \in Persons : users[p] = IF p \in DOMAIN Bootstrap THEN u(p) ELSE Null
  BY DEF PeopleInit
<1>3. users \in [Persons -> User \cup {Null}]
  BY <1>1 DEF PeopleInit
<1> HIDE DEF u
<1>4. PeopleTypeOK
  <2>1. << >> \in Seq(AuditRow)  OBVIOUS
  <2>2. pending \in [Persons -> UserRequest \cup {Null}]  BY DEF PeopleInit
  <2>3. now \in 0 .. MaxTime /\ started \in 0 .. MaxRequests /\ since \in [Persons -> 0 .. now]
    BY Sizes DEF PeopleInit
  <2> QED  BY <1>3, <2>1, <2>2, <2>3 DEF PeopleInit, PeopleTypeOK
<1>5. \A p \in Persons : users[p] # Null => p \in DOMAIN Bootstrap /\ users[p] = u(p)
  BY <1>2
<1>6. \A p \in Persons : users[p] = Null => p \notin DOMAIN Bootstrap
  BY <1>1, <1>2, NullIsNoRow
<1>7. \A p : RowsOf(p) = {}  BY DEF RowsOf, PeopleInit
<1>8. StrangersFit  BY <1>6, <1>7 DEF StrangersFit
<1>9. RoleIsAudited
  BY <1>1, <1>5, <1>7 DEF RoleIsAudited, Given
<1>10. AuditChains  BY <1>7 DEF AuditChains
<1>12. PendingFit /\ OneUpdates /\ TokensFit
  BY DEF PeopleInit, PendingFit, OneUpdates, Updates1, TokensFit
<1> QED  BY <1>4, <1>8, <1>9, <1>10, <1>12 DEF PeopleInv

-----------------------------------------------------------------------------
(* Steps that leave the users alone.                                         *)

LEMMA AuditStays ==
    ASSUME PeopleInv, UNCHANGED <<users, role_change_audit>>, clashed \subseteq clashed'
    PROVE  StrangersFit' /\ RoleIsAudited' /\ AuditChains'
<1>1. \A p : RowsOf(p)' = RowsOf(p)  BY DEF RowsOf
<1>2. \A p, S : Given(p, S)' = Given(p, S)  BY DEF Given
<1>3. StrangersFit'  BY <1>1 DEF PeopleInv, StrangersFit
<1>4. RoleIsAudited'  BY <1>1 DEF PeopleInv, RoleIsAudited, Given
<1>5. AuditChains'
  <2> SUFFICES ASSUME NEW p \in Persons, p \notin clashed', NEW i \in RowsOf(p)'
               PROVE  (role_change_audit[i].from = Given(p, {j \in RowsOf(p) : j < i}))'
    BY DEF AuditChains
  <2>1. role_change_audit[i].from = Given(p, {j \in RowsOf(p) : j < i})
    BY <1>1 DEF PeopleInv, AuditChains
  <2> QED  BY <1>1, <2>1 DEF Given
<1> QED  BY <1>3, <1>4, <1>5

LEMMA TokensStay ==
    ASSUME PeopleInv, UNCHANGED <<users, since, outrun>>, tokens' \subseteq tokens, now <= now',
           now' \in Nat
    PROVE  TokensFit'
<1> SUFFICES ASSUME NEW t \in tokens' PROVE TokenFits(t)'
  BY DEF TokensFit
<1>1. t \in tokens /\ TokenFits(t)  BY DEF PeopleInv, TokensFit
<1>2. now \in Nat /\ t.exp \in Nat
  BY <1>1, Sizes DEF PeopleInv, PeopleTypeOK, Token
<1>3. t.exp <= now' + TTL  BY <1>1, <1>2, Sizes DEF TokenFits
<1> QED  BY <1>1, <1>3 DEF TokenFits

LEMMA FitsStays ==
    ASSUME UNCHANGED <<users, outrun>>, clashed \subseteq clashed',
           NEW c, pending'[c] = pending[c], Fits(c)
    PROVE  Fits(c)'
<1>1. ASSUME pending[c].kind = "sign" PROVE SignFits(c)'
  BY <1>1 DEF Fits, SignFits
<1>2. ASSUME pending[c].kind = "add" PROVE AddFits(c)'
  BY <1>2 DEF Fits, AddFits
<1>3. ASSUME pending[c].kind = "update" PROVE UpdateFits(c)'
  BY <1>3 DEF Fits, UpdateFits, RoleChanges
<1> QED  BY <1>1, <1>2, <1>3 DEF Fits

LEMMA QuietKeeps ==
    ASSUME PeopleInv, UNCHANGED <<users, role_change_audit, outrun>>, clashed \subseteq clashed',
           PeopleTypeOK', TokensFit', NEW c \in Persons,
           \A d \in Persons \ {c} : pending'[d] = pending[d],
           pending'[c] # Null => Fits(c)', OneUpdates'
    PROVE  PeopleInv'
<1>1. PendingFit'
  <2> SUFFICES ASSUME NEW d \in Persons, pending'[d] # Null PROVE Fits(d)'
    BY DEF PendingFit
  <2>1. CASE d = c  BY <2>1
  <2>2. CASE d # c
    <3>1. pending'[d] = pending[d] /\ Fits(d)  BY <2>2 DEF PeopleInv, PendingFit
    <3> QED  BY <3>1, FitsStays
  <2> QED  BY <2>1, <2>2
<1> QED  BY <1>1, AuditStays DEF PeopleInv

\* A request that ends, and what leaves the requests alone.
LEMMA FewerUpdate ==
    ASSUME OneUpdates, clashed \subseteq clashed',
           \A c \in Persons : pending'[c] = pending[c] \/ pending'[c] = Null
    PROVE  OneUpdates'
BY DEF OneUpdates, Updates1

LEMMA TickKeeps ==
    ASSUME PeopleInv, Tick
    PROVE  PeopleInv'
<1>1. now \in 0 .. MaxTime /\ now < MaxTime /\ now' = now + 1  BY DEF PeopleInv, PeopleTypeOK, Tick
<1>2. /\ tokens' = {t \in tokens : t.exp >= now'}
      /\ UNCHANGED <<users, role_change_audit, tenant_active, pending, started, since, outrun, clashed>>
  BY DEF Tick
<1>3. now' \in 0 .. MaxTime /\ now <= now' /\ now' \in Nat  BY <1>1, Sizes
<1>4. since' \in [Persons -> 0 .. now']
  <2>1. since \in [Persons -> 0 .. now]  BY DEF PeopleInv, PeopleTypeOK
  <2>2. \A p \in Persons : since[p] \in 0 .. now'  BY <1>1, <2>1, Sizes
  <2> QED  BY <1>2, <2>1, <2>2
<1>5. PeopleTypeOK'
  BY <1>2, <1>3, <1>4 DEF PeopleInv, PeopleTypeOK
<1>6. TokensFit'  BY <1>2, <1>3, TokensStay
<1>7. PendingFit'
  BY <1>2, FitsStays DEF PeopleInv, PendingFit
<1>8. OneUpdates'  BY <1>2, FewerUpdate DEF PeopleInv
<1> QED  BY <1>2, <1>5, <1>6, <1>7, <1>8, AuditStays DEF PeopleInv

LEMMA UpdateTenantKeeps ==
    ASSUME PeopleInv, NEW c \in Persons, UpdateTenant(c)
    PROVE  PeopleInv'
<1>1. /\ started < MaxRequests /\ started' = started + 1 /\ tenant_active' \in BOOLEAN
      /\ UNCHANGED <<now, users, role_change_audit, tokens, pending, since, outrun, clashed>>
  BY DEF UpdateTenant
<1>2. started' \in 0 .. MaxRequests  BY <1>1, Sizes DEF PeopleInv, PeopleTypeOK
<1>3. PeopleTypeOK'  BY <1>1, <1>2 DEF PeopleInv, PeopleTypeOK
<1>4. TokensFit'
  BY <1>1 DEF PeopleInv, TokensFit, TokenFits
<1>5. OneUpdates'  BY <1>1, FewerUpdate DEF PeopleInv
<1>6. PendingFit'
  BY <1>1, FitsStays DEF PeopleInv, PendingFit
<1> QED  BY <1>1, <1>3, <1>4, <1>5, <1>6, AuditStays DEF PeopleInv

\* login and refresh_token, when the row has been read.
LEMMA SignBeginsKeeps ==
    ASSUME PeopleInv, NEW p \in Persons, users[p] # Null, users[p].is_active,
           pending' = [pending EXCEPT ![p] = Sign(p)],
           UNCHANGED <<now, users, role_change_audit, tokens, tenant_active, started, since, outrun, clashed>>
    PROVE  PeopleInv'
<1>1. users[p] \in User /\ pending \in [Persons -> UserRequest \cup {Null}]
  BY DEF PeopleInv, PeopleTypeOK
<1>2. NoChange \in Body  BY DEF NoChange, Body
<1>3. Sign(p) \in UserRequest /\ Sign(p).kind = "sign" /\ Sign(p).row = users[p]
  BY <1>1, <1>2 DEF Sign, UserRequest
<1>4. pending'[p] = Sign(p) /\ \A d \in Persons \ {p} : pending'[d] = pending[d]
  BY <1>1
<1>5. pending' \in [Persons -> UserRequest \cup {Null}]
  BY <1>1, <1>3
<1>6. PeopleTypeOK'  BY <1>5 DEF PeopleInv, PeopleTypeOK
<1>7. TokensFit'  BY DEF PeopleInv, TokensFit, TokenFits
<1>8. Fits(p)'
  <2>1. SignFits(p)'  BY <1>1, <1>3, <1>4 DEF SignFits
  <2> QED  BY <1>3, <1>4, <2>1 DEF Fits
<1>9. OneUpdates'
  <2>1. \A c \in Persons : \A q : Updates1(c, q)' => Updates1(c, q)
    BY <1>3, <1>4 DEF Updates1
  <2> QED  BY <2>1 DEF PeopleInv, OneUpdates
<1> QED  BY <1>4, <1>6, <1>7, <1>8, <1>9, QuietKeeps

LEMMA SignedKeeps ==
    ASSUME PeopleInv, NEW p \in Persons, Signed(p)
    PROVE  PeopleInv'
<1> DEFINE role == pending[p].row.role
           token == create_access_token(p, role)
<1>1. /\ pending[p] # Null /\ pending[p].kind = "sign"
      /\ tokens' \subseteq tokens \cup {token}
      /\ pending' = [pending EXCEPT ![p] = Null]
      /\ UNCHANGED <<now, users, role_change_audit, tenant_active, started, since, outrun, clashed>>
  BY DEF Signed
<1>2. pending \in [Persons -> UserRequest \cup {Null}] /\ now \in 0 .. MaxTime
  BY DEF PeopleInv, PeopleTypeOK
<1>3. SignFits(p)  BY <1>1 DEF PeopleInv, PendingFit, Fits
<1>4. role \in VALID_ROLES  BY <1>3 DEF SignFits, User
<1>5. now + TTL \in 0 .. (MaxTime + TTL) /\ now + TTL >= now  BY <1>2, Sizes
<1>6. token = [sub |-> p, role |-> role, exp |-> now + TTL]
  BY DEF create_access_token
<1> HIDE DEF token, role
<1>7. /\ token \in Token /\ token.sub = p /\ token.role = role /\ token.exp = now + TTL
  BY <1>4, <1>5, <1>6 DEF Token
<1>8. PeopleTypeOK'
  <2>1. pending' \in [Persons -> UserRequest \cup {Null}]  BY <1>1, <1>2
  <2>2. tokens' \subseteq Token /\ \A t \in tokens' : t.exp >= now'
    BY <1>1, <1>5, <1>7 DEF PeopleInv, PeopleTypeOK
  <2> QED  BY <1>1, <2>1, <2>2 DEF PeopleInv, PeopleTypeOK
<1>9. TokensFit'
  <2>1. \A t \in tokens : TokenFits(t)'
    BY <1>1 DEF PeopleInv, TokensFit, TokenFits
  <2>2. users[p] # Null /\ (p \notin outrun => users[p].is_active /\ users[p].role = role)
    BY <1>3 DEF SignFits, role
  <2>3. token.exp <= now + TTL  BY <1>2, <1>7, Sizes
  <2>4. \A t : t = token => TokenFits(t)'
    BY <1>1, <1>7, <2>2, <2>3 DEF TokenFits
  <2> QED  BY <1>1, <2>1, <2>4 DEF TokensFit
<1>10. OneUpdates'
  <2>1. \A c \in Persons : pending'[c] = pending[c] \/ pending'[c] = Null  BY <1>1, <1>2
  <2> QED  BY <1>1, <2>1, FewerUpdate DEF PeopleInv
<1>11. pending'[p] = Null /\ \A d \in Persons \ {p} : pending'[d] = pending[d]
  BY <1>1, <1>2
<1> QED  BY <1>1, <1>8, <1>9, <1>10, <1>11, QuietKeeps

\* What a request adds or updates with.
LEMMA BeginKeeps ==
    ASSUME PeopleInv, NEW c \in Persons, NEW kind \in {"add", "update"},
           NEW target \in Persons \cup {Null}, NEW body \in Body, Begin(c, kind, target, body),
           kind = "add" => target = Null /\ body \in NewUsers /\ body.role # "super_admin",
           kind = "update" =>
               /\ target \in Persons /\ users[target] # Null
               /\ body.role \notin {Null, users[target].role} =>
                      "super_admin" \notin {body.role, users[target].role}
    PROVE  PeopleInv'
<1> DEFINE row == IF target = Null THEN Null ELSE users[target]
           r == [kind |-> kind, target |-> target, body |-> body, row |-> row]
<1>1. /\ started < MaxRequests /\ started' = started + 1 /\ pending[c] = Null
      /\ pending' = [pending EXCEPT ![c] = r]
      /\ clashed \subseteq clashed'
      /\ UNCHANGED <<now, users, role_change_audit, tokens, tenant_active, since, outrun>>
  BY DEF Begin
<1>2. pending \in [Persons -> UserRequest \cup {Null}] /\ users \in [Persons -> User \cup {Null}]
  BY DEF PeopleInv, PeopleTypeOK
<1>3. row \in User \cup {Null}  BY <1>2
<1>4. r \in UserRequest /\ r.kind = kind /\ r.target = target /\ r.body = body /\ r.row = row
  BY <1>3 DEF UserRequest
<1>5. clashed' \subseteq Persons
  <2>1. kind = "update" => target \in Persons  OBVIOUS
  <2> QED  BY <2>1 DEF Begin, PeopleInv, PeopleTypeOK
<1> HIDE DEF r
<1>6. pending'[c] = r /\ pending' \in [Persons -> UserRequest \cup {Null}]
      /\ \A d \in Persons \ {c} : pending'[d] = pending[d]
  BY <1>1, <1>2, <1>4
<1>7. started' \in 0 .. MaxRequests  BY <1>1, Sizes DEF PeopleInv, PeopleTypeOK
<1>8. PeopleTypeOK'  BY <1>1, <1>5, <1>6, <1>7 DEF PeopleInv, PeopleTypeOK
<1>9. TokensFit'  BY <1>1 DEF PeopleInv, TokensFit, TokenFits
<1>10. Fits(c)'
  <2>1. CASE kind = "add"
    <3>1. AddFits(c)'  BY <1>4, <1>6, <2>1 DEF AddFits
    <3> QED  BY <1>4, <1>6, <2>1, <3>1 DEF Fits
  <2>2. CASE kind = "update"
    <3>1. target \in Persons /\ target # Null /\ users[target] # Null
      BY <2>2, PeopleAssumption
    <3>2. row = users[target] /\ row \in User  BY <1>2, <3>1
    <3>3. UpdateFits(c)'
      BY <1>1, <1>4, <1>6, <2>2, <3>1, <3>2 DEF UpdateFits, RoleChanges
    <3> QED  BY <1>4, <1>6, <2>2, <3>3 DEF Fits
  <2> QED  BY <2>1, <2>2
<1>11. OneUpdates'
  <2> SUFFICES ASSUME NEW p \in Persons, p \notin clashed', NEW a \in Persons, NEW b \in Persons,
                      Updates1(a, p)', Updates1(b, p)'
               PROVE  a = b
    BY DEF OneUpdates
  <2>1. ASSUME NEW d \in Persons, d # c, Updates1(d, p)' PROVE Updates1(d, p)
    BY <1>6, <2>1 DEF Updates1
  <2>2. ASSUME NEW d \in Persons, d # c, Updates1(c, p)', Updates1(d, p)' PROVE FALSE
    <3>1. kind = "update" /\ target = p  BY <1>4, <1>6, <2>2 DEF Updates1
    <3>2. Updates1(d, p)  BY <2>1, <2>2
    <3>3. clashed' = clashed \cup {target}
      BY <3>1, <3>2 DEF Begin, Updates1
    <3> QED  BY <3>1, <3>3
  <2>3. CASE a # c /\ b # c
    <3>1. Updates1(a, p) /\ Updates1(b, p)  BY <2>1, <2>3
    <3> QED  BY <1>1, <3>1 DEF PeopleInv, OneUpdates
  <2> QED  BY <2>2, <2>3
<1> QED  BY <1>1, <1>6, <1>8, <1>9, <1>10, <1>11, QuietKeeps

LEMMA AddUserKeeps ==
    ASSUME PeopleInv, NEW c \in Persons, NEW body \in NewUsers, NEW minimum, AddUser(c, minimum, body)
    PROVE  PeopleInv'
<1>1. body \in Body  BY BodyAssumption
<1>2. body.role # "super_admin"  BY DEF AddUser, assert_can_assign_role
<1>3. Begin(c, "add", Null, body)  BY DEF AddUser
<1> QED  BY <1>1, <1>2, <1>3, BeginKeeps

LEMMA update_userKeeps ==
    ASSUME PeopleInv, NEW c \in Persons, NEW p \in Persons, NEW body \in Updates, update_user(c, p, body)
    PROVE  PeopleInv'
<1>1. body \in Body  BY BodyAssumption
<1>2. users[p] # Null /\ Begin(c, "update", p, body)  BY DEF update_user
<1>3. body.role \notin {Null, users[p].role} => "super_admin" \notin {body.role, users[p].role}
  BY DEF update_user, assert_can_assign_role
<1> QED  BY <1>1, <1>2, <1>3, BeginKeeps

LEMMA OneColumnKeeps ==
    ASSUME PeopleInv, NEW c \in Persons, NEW p \in Persons,
           deactivate_user(c, p) \/ set_user_password(c, p)
    PROVE  PeopleInv'
<1>1. /\ [NoChange EXCEPT !.is_active = FALSE] \in Body
      /\ [NoChange EXCEPT !.is_active = FALSE].role = Null
      /\ [NoChange EXCEPT !.password = TRUE] \in Body
      /\ [NoChange EXCEPT !.password = TRUE].role = Null
  BY DEF NoChange, Body
<1>2. CASE deactivate_user(c, p)
  <2>1. users[p] # Null /\ Begin(c, "update", p, [NoChange EXCEPT !.is_active = FALSE])
    BY <1>2 DEF deactivate_user
  <2> QED  BY <1>1, <2>1, BeginKeeps
<1>3. CASE set_user_password(c, p)
  <2>1. users[p] # Null /\ Begin(c, "update", p, [NoChange EXCEPT !.password = TRUE])
    BY <1>3 DEF set_user_password
  <2> QED  BY <1>1, <2>1, BeginKeeps
<1> QED  BY <1>2, <1>3

-----------------------------------------------------------------------------
(* Commits.                                                                  *)

\* A row more of the audit.
LEMMA Appended ==
    ASSUME role_change_audit \in Seq(AuditRow), NEW a \in AuditRow,
           role_change_audit' = role_change_audit \o <<a>>,
           NEW n \in Nat, n = Len(role_change_audit)
    PROVE  /\ role_change_audit' \in Seq(AuditRow) /\ Len(role_change_audit') = n + 1
           /\ \A i \in 1 .. n : role_change_audit'[i] = role_change_audit[i]
           /\ role_change_audit'[n + 1] = a
           /\ \A q : RowsOf(q)' = IF q = a.target THEN RowsOf(q) \cup {n + 1} ELSE RowsOf(q)
<1>1. <<a>> \in Seq(AuditRow) /\ Len(<<a>>) = 1 /\ <<a>>[1] = a  OBVIOUS
<1>2. /\ role_change_audit' \in Seq(AuditRow) /\ Len(role_change_audit') = n + 1
      /\ \A i \in 1 .. n : role_change_audit'[i] = role_change_audit[i]
      /\ role_change_audit'[n + 1] = a
  BY <1>1
<1>3. DOMAIN role_change_audit = 1 .. n /\ DOMAIN role_change_audit' = 1 .. (n + 1)
  BY <1>2
<1>4. ASSUME NEW q PROVE RowsOf(q)' = IF q = a.target THEN RowsOf(q) \cup {n + 1} ELSE RowsOf(q)
  BY <1>2, <1>3 DEF RowsOf
<1> QED  BY <1>2, <1>4

\* The last row gives the role.
LEMMA LastGives ==
    ASSUME role_change_audit \in Seq(AuditRow), NEW a \in AuditRow,
           role_change_audit' = role_change_audit \o <<a>>,
           NEW n \in Nat, n = Len(role_change_audit)
    PROVE  \A S : S = RowsOf(a.target)' => Given(a.target, S)' = a.to
<1> DEFINE S == RowsOf(a.target) \cup {n + 1}
<1>1. /\ role_change_audit'[n + 1] = a /\ RowsOf(a.target)' = S
      /\ role_change_audit' \in Seq(AuditRow) /\ Len(role_change_audit') = n + 1
  BY Appended
<1>2. RowsOf(a.target) \subseteq 1 .. n  BY DEF RowsOf
<1>3. S \in SUBSET (1 .. (n + 1)) /\ S # {} /\ n + 1 \in S /\ n + 1 \in Nat  BY <1>2
<1>4. Max(S) = n + 1
  <2>1. Max(S) \in S /\ n + 1 <= Max(S)  BY <1>3, Greatest
  <2> QED  BY <1>3, <2>1
<1>5. ASSUME NEW T, T = S PROVE Given(a.target, T)' = a.to
  BY <1>1, <1>3, <1>4, <1>5 DEF Given
<1> QED  BY <1>1, <1>5

LEMMA AuditGrows ==
    ASSUME PeopleInv, NEW p \in Persons, NEW row \in User, users' = [users EXCEPT ![p] = row],
           UNCHANGED clashed, NEW a \in AuditRow, role_change_audit' = role_change_audit \o <<a>>,
           a.target = p, a.to = row.role, p \notin clashed => a.from = Given(p, RowsOf(p))
    PROVE  StrangersFit' /\ RoleIsAudited' /\ AuditChains'
<1>1. role_change_audit \in Seq(AuditRow) /\ users \in [Persons -> User \cup {Null}]
  BY DEF PeopleInv, PeopleTypeOK
<1>2. PICK n \in Nat : n = Len(role_change_audit)  BY <1>1
<1>3. /\ role_change_audit' \in Seq(AuditRow) /\ Len(role_change_audit') = n + 1
      /\ \A i \in 1 .. n : role_change_audit'[i] = role_change_audit[i]
      /\ role_change_audit'[n + 1] = a
      /\ \A q : RowsOf(q)' = IF q = p THEN RowsOf(q) \cup {n + 1} ELSE RowsOf(q)
  BY <1>1, <1>2, Appended
<1>4. \A q : RowsOf(q) \in SUBSET (1 .. n)  BY <1>1, <1>2 DEF RowsOf
<1>5. \A q : \A S \in SUBSET (1 .. n) : Given(q, S)' = Given(q, S)
  BY <1>1, <1>2, <1>3, GivenStays
<1>6. users'[p] = row /\ \A q \in Persons \ {p} : users'[q] = users[q]
  BY <1>1
<1>7. StrangersFit'
  BY <1>3, <1>6, NullIsNoRow DEF PeopleInv, StrangersFit
<1>8. RoleIsAudited'
  <2> SUFFICES ASSUME NEW q \in Persons, users'[q] # Null
               PROVE  (users[q].role = Given(q, RowsOf(q)))'
    BY DEF RoleIsAudited
  <2>1. CASE q = p
    <3>1. \A S : S = RowsOf(p)' => Given(p, S)' = row.role
      BY <1>1, <1>2, LastGives
    <3>2. Given(p, RowsOf(p))' = row.role  BY <3>1 DEF Given
    <3> QED  BY <1>6, <2>1, <3>2
  <2>2. CASE q # p
    <3>1. RowsOf(q)' = RowsOf(q)  BY <1>3, <2>2
    <3>2. users[q].role = Given(q, RowsOf(q))  BY <1>6, <2>2 DEF PeopleInv, RoleIsAudited
    <3>3. \A S : S = RowsOf(q) => Given(q, S)' = users[q].role  BY <1>4, <1>5, <3>2
    <3>4. Given(q, RowsOf(q))' = users[q].role  BY <3>1, <3>3 DEF Given
    <3> QED  BY <1>6, <2>2, <3>4
  <2> QED  BY <2>1, <2>2
<1>9. AuditChains'
  <2> SUFFICES ASSUME NEW q \in Persons, q \notin clashed', NEW i \in RowsOf(q)'
               PROVE  (role_change_audit[i].from = Given(q, {j \in RowsOf(q) : j < i}))'
    BY DEF AuditChains
  <2> DEFINE before == {j \in RowsOf(q) : j < i}
  <2>1. i \in RowsOf(q) \/ (q = p /\ i = n + 1)  BY <1>3
  <2>2. before \in SUBSET (1 .. n) /\ {j \in RowsOf(q)' : j < i} = before
    <3>1. i \in 1 .. (n + 1)  BY <1>4, <2>1
    <3> QED  BY <1>3, <1>4, <3>1
  <2>3. role_change_audit'[i].from = Given(q, before)
    <3>1. CASE i \in RowsOf(q)
      <4>1. role_change_audit'[i] = role_change_audit[i]  BY <1>3, <1>4, <3>1
      <4> QED  BY <3>1, <4>1 DEF PeopleInv, AuditChains
    <3>2. CASE q = p /\ i = n + 1
      <4>1. before = RowsOf(p)  BY <1>4, <3>2
      <4> QED  BY <1>3, <3>2, <4>1
    <3> QED  BY <2>1, <3>1, <3>2
  <2>4. \A S : S = before => Given(q, S)' = role_change_audit'[i].from
    BY <1>5, <2>2, <2>3
  <2> QED  BY <2>2, <2>4 DEF Given
<1> QED  BY <1>7, <1>8, <1>9

LEMMA AuditRests ==
    ASSUME PeopleInv, NEW p \in Persons, NEW row \in User, users' = [users EXCEPT ![p] = row],
           UNCHANGED <<role_change_audit, clashed>>, users[p] # Null, row.role = users[p].role
    PROVE  StrangersFit' /\ RoleIsAudited' /\ AuditChains'
<1>1. \A q \in Persons : (users'[q] = Null <=> users[q] = Null)
                         /\ (users[q] # Null => users'[q].role = users[q].role)
  BY NullIsNoRow DEF PeopleInv, PeopleTypeOK
<1>2. \A q : RowsOf(q)' = RowsOf(q)  BY DEF RowsOf
<1>3. StrangersFit'  BY <1>1, <1>2 DEF PeopleInv, StrangersFit
<1>4. RoleIsAudited'  BY <1>1, <1>2 DEF PeopleInv, RoleIsAudited, Given
<1>5. AuditChains'
  <2> SUFFICES ASSUME NEW q \in Persons, q \notin clashed', NEW i \in RowsOf(q)'
               PROVE  (role_change_audit[i].from = Given(q, {j \in RowsOf(q) : j < i}))'
    BY DEF AuditChains
  <2>1. role_change_audit[i].from = Given(q, {j \in RowsOf(q) : j < i})
    BY <1>2 DEF PeopleInv, AuditChains
  <2> QED  BY <1>2, <2>1 DEF Given
<1> QED  BY <1>3, <1>4, <1>5

\* What a change of the role or is_active of p leaves of the tokens.
LEMMA StoreTokens ==
    ASSUME PeopleInv, NEW c \in Persons, NEW p \in Persons, NEW row \in User, NEW audit,
           Store(c, p, row, audit), UNCHANGED <<now, tokens>>
    PROVE  /\ TokensFit' /\ outrun \subseteq outrun' /\ outrun' \subseteq Persons
           /\ since' \in [Persons -> 0 .. now]
           /\ p \notin outrun' =>
                  \/ users[p] = Null
                  \/ row.role = users[p].role /\ row.is_active = users[p].is_active
                  \/ pending[p] = Null \/ pending[p].kind # "sign"
<1> DEFINE changes == users[p] # Null /\ <<row.role, row.is_active>> # <<users[p].role, users[p].is_active>>
<1>1. /\ users' = [users EXCEPT ![p] = row]
      /\ since' = IF changes THEN [since EXCEPT ![p] = now] ELSE since
      /\ outrun' = IF changes /\ pending[p] # Null /\ pending[p].kind = "sign"
                  THEN outrun \cup {p} ELSE outrun
  BY DEF Store
<1>2. now \in 0 .. MaxTime /\ now \in Nat /\ since \in [Persons -> 0 .. now] /\ outrun \subseteq Persons
      /\ users \in [Persons -> User \cup {Null}]
  BY Sizes DEF PeopleInv, PeopleTypeOK
<1>3. outrun \subseteq outrun' /\ outrun' \subseteq Persons  BY <1>1, <1>2
<1>4. since' \in [Persons -> 0 .. now]  BY <1>1, <1>2
<1>5. ~changes /\ users[p] # Null => row.role = users[p].role /\ row.is_active = users[p].is_active
  OBVIOUS
<1>6. changes => since'[p] = now  BY <1>1, <1>2
<1>7. ~changes => since' = since  BY <1>1
<1>8. \A q \in Persons \ {p} : since'[q] = since[q] /\ users'[q] = users[q]
  BY <1>1, <1>2
<1>9. users'[p] = row /\ row # Null  BY <1>1, <1>2, NullIsNoRow
<1>10. p \notin outrun' => \/ ~changes \/ pending[p] = Null \/ pending[p].kind # "sign"
  BY <1>1
<1>11. ASSUME NEW t \in tokens PROVE TokenFits(t)'
  <2>1. TokenFits(t) /\ t.sub \in Persons /\ t.exp \in Nat
    BY Sizes DEF PeopleInv, TokensFit, PeopleTypeOK, Token
  <2>2. CASE t.sub # p
    BY <1>3, <1>8, <2>1, <2>2 DEF TokenFits
  <2>3. CASE t.sub = p
    <3>1. users'[t.sub] # Null /\ t.exp <= now' + TTL  BY <1>9, <2>1, <2>3 DEF TokenFits
    <3>2. ASSUME t.sub \notin outrun'
          PROVE  \/ users'[t.sub].is_active /\ users'[t.sub].role = t.role
                 \/ t.exp <= since'[t.sub] + TTL
      <4>1. CASE changes
        BY <1>6, <2>1, <2>3, <4>1 DEF TokenFits
      <4>2. CASE ~changes
        <5>1. row.role = users[p].role /\ row.is_active = users[p].is_active
          BY <1>5, <2>1, <2>3, <4>2 DEF TokenFits
        <5>2. \/ users[t.sub].is_active /\ users[t.sub].role = t.role
              \/ t.exp <= since[t.sub] + TTL
          BY <1>3, <2>1, <3>2 DEF TokenFits
        <5> QED  BY <1>7, <1>9, <2>3, <4>2, <5>1, <5>2
      <4> QED  BY <4>1, <4>2
    <3> QED  BY <3>1, <3>2 DEF TokenFits
  <2> QED  BY <2>2, <2>3
<1>12. TokensFit'  BY <1>11 DEF TokensFit
<1> QED  BY <1>3, <1>4, <1>5, <1>10, <1>12

\* The requests in progress when a row is stored.
LEMMA StorePending ==
    ASSUME PeopleInv, NEW c \in Persons, NEW p \in Persons, NEW row \in User, NEW audit,
           Store(c, p, row, audit), UNCHANGED <<now, tokens, clashed>>,
           pending' = [pending EXCEPT ![c] = Null],
           \A d \in Persons \ {c} : Updates1(d, p) => p \in clashed,
           users[p] # Null => (row.role = "super_admin" <=> users[p].role = "super_admin"),
           pending[c].kind # "sign"
    PROVE  PendingFit'
<1>1. users' = [users EXCEPT ![p] = row]  BY DEF Store
<1>2. users'[p] = row /\ row # Null /\ \A q \in Persons \ {p} : users'[q] = users[q]
  BY <1>1, NullIsNoRow DEF PeopleInv, PeopleTypeOK
<1>3. /\ outrun \subseteq outrun'
      /\ p \notin outrun' =>
             \/ users[p] = Null
             \/ row.role = users[p].role /\ row.is_active = users[p].is_active
             \/ pending[p] = Null \/ pending[p].kind # "sign"
  <2>1. UNCHANGED <<now, tokens>>  OBVIOUS
  <2> QED  BY <2>1, StoreTokens
<1> SUFFICES ASSUME NEW d \in Persons, pending'[d] # Null PROVE Fits(d)'
  BY DEF PendingFit
<1>4. d # c /\ pending'[d] = pending[d] /\ pending[d] # Null
  BY DEF PeopleInv, PeopleTypeOK
<1>5. Fits(d)  BY <1>4 DEF PeopleInv, PendingFit
<1>6. ASSUME pending[d].kind = "sign" PROVE SignFits(d)'
  <2>1. SignFits(d)  BY <1>5, <1>6 DEF Fits
  <2>2. CASE d = p  BY <1>2, <1>3, <1>4, <1>6, <2>1, <2>2 DEF SignFits
  <2>3. CASE d # p  BY <1>2, <1>3, <1>4, <2>1, <2>3 DEF SignFits
  <2> QED  BY <2>2, <2>3
<1>7. ASSUME pending[d].kind = "add" PROVE AddFits(d)'
  BY <1>4, <1>5, <1>7 DEF Fits, AddFits
<1>8. ASSUME pending[d].kind = "update" PROVE UpdateFits(d)'
  <2>1. UpdateFits(d)  BY <1>5, <1>8 DEF Fits
  <2>2. CASE pending[d].target = p
    <3>1. p \in clashed  BY <1>4, <1>8, <2>2 DEF Updates1
    <3> QED  BY <1>2, <1>4, <2>1, <2>2, <3>1 DEF UpdateFits, RoleChanges
  <2>3. CASE pending[d].target # p
    BY <1>2, <1>4, <2>1, <2>3 DEF UpdateFits, RoleChanges
  <2> QED  BY <2>2, <2>3
<1> QED  BY <1>4, <1>6, <1>7, <1>8 DEF Fits

LEMMA StoreKeeps ==
    ASSUME PeopleInv, NEW c \in Persons, NEW p \in Persons, NEW row \in User, NEW audit,
           Store(c, p, row, audit),
           UNCHANGED <<now, tokens, tenant_active, started, clashed>>,
           pending' = [pending EXCEPT ![c] = Null], pending[c].kind # "sign",
           \A d \in Persons \ {c} : Updates1(d, p) => p \in clashed,
           users[p] # Null => (row.role = "super_admin" <=> users[p].role = "super_admin"),
           role_change_audit' \in Seq(AuditRow), StrangersFit', RoleIsAudited', AuditChains'
    PROVE  PeopleInv'
<1>1. users' = [users EXCEPT ![p] = row]  BY DEF Store
<1>2. TokensFit' /\ outrun' \subseteq Persons /\ since' \in [Persons -> 0 .. now]
  <2>1. UNCHANGED <<now, tokens>>  OBVIOUS
  <2> QED  BY <2>1, StoreTokens
<1>3. users' \in [Persons -> User \cup {Null}]  BY <1>1 DEF PeopleInv, PeopleTypeOK
<1>4. pending' \in [Persons -> UserRequest \cup {Null}]
      /\ \A d \in Persons : pending'[d] = pending[d] \/ pending'[d] = Null
  BY DEF PeopleInv, PeopleTypeOK
<1>5. PeopleTypeOK'  BY <1>2, <1>3, <1>4 DEF PeopleInv, PeopleTypeOK
<1>6. PendingFit'  BY StorePending
<1>7. OneUpdates'  BY <1>4, FewerUpdate DEF PeopleInv
<1> QED  BY <1>2, <1>5, <1>6, <1>7 DEF PeopleInv

\* The database refuses the row.
LEMMA RefusedKeeps ==
    ASSUME PeopleInv, NEW c \in Persons, pending' = [pending EXCEPT ![c] = Null],
           UNCHANGED <<users, role_change_audit, since, outrun, now, tokens, tenant_active, started, clashed>>
    PROVE  PeopleInv'
<1>1. /\ pending' \in [Persons -> UserRequest \cup {Null}] /\ pending'[c] = Null
      /\ \A d \in Persons \ {c} : pending'[d] = pending[d]
  BY DEF PeopleInv, PeopleTypeOK
<1>2. PeopleTypeOK'  BY <1>1 DEF PeopleInv, PeopleTypeOK
<1>3. TokensFit'  BY DEF PeopleInv, TokensFit, TokenFits
<1>4. OneUpdates'  BY <1>1, FewerUpdate DEF PeopleInv
<1> QED  BY <1>1, <1>2, <1>3, <1>4, QuietKeeps

LEMMA UpdatedType ==
    ASSUME PeopleInv, NEW c \in Persons, pending[c] # Null, pending[c].kind = "update"
    PROVE  /\ UpdatedRow(c) \in User
           /\ UpdatedRow(c).role = Column(users[pending[c].target].role, pending[c].row.role, pending[c].body.role)
<1>1. UpdateFits(c)  BY DEF PeopleInv, PendingFit, Fits
<1>2. users[pending[c].target] \in User /\ pending[c].row \in User /\ pending[c].body \in Body
  BY <1>1 DEF PeopleInv, PeopleTypeOK, UpdateFits, UserRequest
<1> DEFINE u == users[pending[c].target]
           o == pending[c].row
           b == pending[c].body
<1>3. /\ Column(u.email, o.email, b.email) \in Emails
      /\ Column(u.role, o.role, b.role) \in VALID_ROLES
      /\ Column(u.is_active, o.is_active, b.is_active) \in BOOLEAN
      /\ Column(u.password, o.password, b.password) \in BOOLEAN
  BY <1>2 DEF Column, User, Body
<1> QED  BY <1>3 DEF UpdatedRow, User

\* A new user: a stranger until now.
LEMMA AddCommitKeeps ==
    ASSUME PeopleInv, NEW c \in Persons, pending[c] # Null, pending[c].kind = "add", Commit(c)
    PROVE  PeopleInv'
<1> DEFINE r == pending[c]
           row == [r.body EXCEPT !.is_active = TRUE]
           a(p) == [target |-> p, caller |-> c, from |-> Null, to |-> row.role]
<1>1. PICK p \in Persons :
         /\ users[p] = Null
         /\ IF Accepts(p, row) THEN Store(c, p, row, << a(p) >>)
            ELSE UNCHANGED <<users, role_change_audit, since, outrun>>
  BY DEF Commit
<1>2. pending' = [pending EXCEPT ![c] = Null]
      /\ UNCHANGED <<now, tokens, tenant_active, started, clashed>>
  BY DEF Commit
<1>3. r.body \in NewUsers  BY DEF PeopleInv, PendingFit, Fits, AddFits
<1>4. r.body \in Body /\ Null \notin {r.body.email, r.body.role, r.body.password}
  BY <1>3, BodyAssumption
<1>5. row \in User  BY <1>4 DEF Body, User
<1> HIDE DEF row
<1>6. a(p) \in AuditRow /\ a(p).target = p /\ a(p).to = row.role /\ a(p).from = Null
  BY <1>5 DEF AuditRow, User
<1>7. CASE Accepts(p, row)
  <2>1. Store(c, p, row, << a(p) >>)  BY <1>1, <1>7
  <2>2. p \notin DOMAIN Bootstrap /\ RowsOf(p) = {}  BY <1>1 DEF PeopleInv, StrangersFit
  <2>3. a(p).from = Given(p, RowsOf(p))  BY <1>6, <2>2 DEF Given
  <2>4. users' = [users EXCEPT ![p] = row] /\ role_change_audit' = role_change_audit \o << a(p) >>
    BY <2>1 DEF Store
  <2> HIDE DEF a
  <2>5. StrangersFit' /\ RoleIsAudited' /\ AuditChains'
    BY <1>2, <1>5, <1>6, <2>3, <2>4, AuditGrows
  <2>6. role_change_audit' \in Seq(AuditRow)
    <3>1. << a(p) >> \in Seq(AuditRow)  BY <1>6
    <3> QED  BY <2>4, <3>1 DEF PeopleInv, PeopleTypeOK
  <2>7. \A d \in Persons : ~Updates1(d, p)
    BY <1>1 DEF PeopleInv, PendingFit, Fits, UpdateFits, Updates1
  <2>8. r.kind # "sign"  OBVIOUS
  <2> QED  BY <1>1, <1>2, <1>5, <1>7, <2>1, <2>5, <2>6, <2>7, <2>8, StoreKeeps
<1>8. CASE ~Accepts(p, row)
  <2>1. UNCHANGED <<users, role_change_audit, since, outrun>>  BY <1>1, <1>8
  <2> QED  BY <1>2, <2>1, RefusedKeeps
<1> QED  BY <1>7, <1>8

\* An update keeps who is a super admin.
LEMMA UpdatedSuper ==
    ASSUME PeopleInv, NEW c \in Persons, pending[c] # Null, pending[c].kind = "update"
    PROVE  UpdatedRow(c).role = "super_admin" <=> users[pending[c].target].role = "super_admin"
<1> DEFINE r == pending[c]
<1>1. UpdateFits(c)  BY DEF PeopleInv, PendingFit, Fits
<1>2. UpdatedRow(c).role = Column(users[r.target].role, r.row.role, r.body.role)
  BY UpdatedType
<1>3. CASE RoleChanges(r)
  <2>1. UpdatedRow(c).role = r.body.role  BY <1>2, <1>3 DEF Column, RoleChanges
  <2> QED  BY <1>1, <1>3, <2>1 DEF UpdateFits
<1>4. CASE ~RoleChanges(r)
  BY <1>2, <1>4 DEF Column, RoleChanges
<1> QED  BY <1>3, <1>4

LEMMA UpdateCommitKeeps ==
    ASSUME PeopleInv, NEW c \in Persons, pending[c] # Null, pending[c].kind = "update", Commit(c)
    PROVE  PeopleInv'
<1> DEFINE r == pending[c]
           p == pending[c].target
           row == UpdatedRow(c)
           a == Change(c, r)
           audit == IF RoleChanges(r) THEN << a >> ELSE << >>
<1>1. IF Accepts(p, row) THEN Store(c, p, row, audit)
      ELSE UNCHANGED <<users, role_change_audit, since, outrun>>
  BY DEF Commit
<1>2. pending' = [pending EXCEPT ![c] = Null]
      /\ UNCHANGED <<now, tokens, tenant_active, started, clashed>>
  BY DEF Commit
<1>3. UpdateFits(c)  BY DEF PeopleInv, PendingFit, Fits
<1>4. p \in Persons /\ users[p] # Null /\ r.row \in User
  BY <1>3 DEF UpdateFits
<1>5. row \in User /\ row.role = Column(users[p].role, r.row.role, r.body.role)
  BY UpdatedType
<1>6. r.body \in Body /\ users[p] \in User  BY <1>4 DEF PeopleInv, PeopleTypeOK, UserRequest
<1>7. \A d \in Persons \ {c} : Updates1(d, p) => p \in clashed
  BY <1>4 DEF PeopleInv, OneUpdates, Updates1
<1>8. row.role = "super_admin" <=> users[p].role = "super_admin"  BY UpdatedSuper
<1> HIDE DEF row
<1>9. CASE Accepts(p, row)
  <2>1. Store(c, p, row, audit)  BY <1>1, <1>9
  <2>2. users' = [users EXCEPT ![p] = row] /\ role_change_audit' = role_change_audit \o audit
    BY <2>1 DEF Store
  <2>3. /\ StrangersFit' /\ RoleIsAudited' /\ AuditChains'
        /\ role_change_audit' \in Seq(AuditRow)
    <3>1. CASE RoleChanges(r)
      <4>1. r.body.role \in VALID_ROLES /\ row.role = r.body.role
        BY <1>5, <1>6, <3>1 DEF Column, RoleChanges, Body
      <4>2. a = [target |-> p, caller |-> c, from |-> r.row.role, to |-> r.body.role]
        BY DEF Change
      <4>3. a \in AuditRow /\ a.target = p /\ a.to = row.role /\ a.from = r.row.role
        BY <1>4, <4>1, <4>2 DEF AuditRow, User
      <4>4. p \notin clashed => a.from = Given(p, RowsOf(p))
        <5>1. p \notin clashed => r.row.role = users[p].role  BY <1>3 DEF UpdateFits
        <5>2. users[p].role = Given(p, RowsOf(p))  BY <1>4 DEF PeopleInv, RoleIsAudited
        <5> QED  BY <4>3, <5>1, <5>2
      <4> HIDE DEF a
      <4>5. role_change_audit' = role_change_audit \o << a >>  BY <2>2, <3>1
      <4>6. << a >> \in Seq(AuditRow)  BY <4>3
      <4>7. role_change_audit' \in Seq(AuditRow)  BY <4>5, <4>6 DEF PeopleInv, PeopleTypeOK
      <4> QED  BY <1>2, <1>4, <1>5, <2>2, <4>3, <4>4, <4>5, <4>7, AuditGrows
    <3>2. CASE ~RoleChanges(r)
      <4>1. row.role = users[p].role  BY <1>5, <3>2 DEF Column, RoleChanges
      <4>2. role_change_audit' = role_change_audit
        BY <2>2, <3>2 DEF PeopleInv, PeopleTypeOK
      <4> QED  BY <1>2, <1>4, <1>5, <2>2, <4>1, <4>2, AuditRests DEF PeopleInv, PeopleTypeOK
    <3> QED  BY <3>1, <3>2
  <2>4. pending[c].kind # "sign"  OBVIOUS
  <2> HIDE DEF audit, p
  <2> QED  BY <1>2, <1>4, <1>5, <1>7, <1>8, <1>9, <2>1, <2>3, <2>4, StoreKeeps
<1>10. CASE ~Accepts(p, row)
  <2>1. UNCHANGED <<users, role_change_audit, since, outrun>>  BY <1>1, <1>10
  <2> QED  BY <1>2, <2>1, RefusedKeeps
<1> QED  BY <1>9, <1>10

\* A step signs a token, begins a request, ends one, or leaves users and requests alone.
LEMMA NextKeeps == PeopleInv /\ [PeopleNext]_peopleVars => PeopleInv'
<1> SUFFICES ASSUME PeopleInv, [PeopleNext]_peopleVars PROVE PeopleInv'  OBVIOUS
<1>1. CASE UNCHANGED peopleVars
  <2>1. UNCHANGED <<now, users, role_change_audit, tokens, tenant_active, pending, started, since, outrun, clashed>>
    BY <1>1 DEF peopleVars
  <2>2. PeopleTypeOK'  BY <2>1 DEF PeopleInv, PeopleTypeOK
  <2>3. TokensFit'  BY <2>1 DEF PeopleInv, TokensFit, TokenFits
  <2>4. PendingFit'  BY <2>1, FitsStays DEF PeopleInv, PendingFit
  <2>5. OneUpdates'  BY <2>1, FewerUpdate DEF PeopleInv
  <2> QED  BY <2>1, <2>2, <2>3, <2>4, <2>5, AuditStays DEF PeopleInv
<1>2. CASE Tick  BY <1>2, TickKeeps
<1>3. ASSUME NEW p \in Persons, Login(p) \/ Refresh(p) PROVE PeopleInv'
  <2>1. CASE Login(p)  BY <2>1, SignBeginsKeeps DEF Login
  <2>2. CASE Refresh(p)  BY <2>2, SignBeginsKeeps DEF Refresh, StillActive
  <2> QED  BY <1>3, <2>1, <2>2
<1>4. ASSUME NEW p \in Persons, Commit(p) PROVE PeopleInv'
  <2>1. pending[p] # Null /\ (pending[p].kind = "add" \/ pending[p].kind = "update")
    BY <1>4 DEF Commit
  <2> QED  BY <1>4, <2>1, AddCommitKeeps, UpdateCommitKeeps
<1>5. ASSUME NEW c \in Persons, NEW body \in NewUsers,
             create_user(c, body) \/ invite_user(c, body) \/ create_tenant_user(c, body)
      PROVE  PeopleInv'
  BY <1>5, AddUserKeeps DEF create_user, invite_user, create_tenant_user
<1>6. ASSUME NEW c \in Persons, NEW p \in Persons,
             \/ \E body \in Updates : update_user(c, p, body)
             \/ deactivate_user(c, p) \/ set_user_password(c, p)
      PROVE  PeopleInv'
  BY <1>6, update_userKeeps, OneColumnKeeps
<1> QED  BY <1>1, <1>2, <1>3, <1>4, <1>5, <1>6, SignedKeeps, UpdateTenantKeeps DEF PeopleNext

LEMMA Invariance == PeopleSpec => []PeopleInv
<1> QED  BY InitKeeps, NextKeeps, PTL DEF PeopleSpec

-----------------------------------------------------------------------------
(* The results.                                                              *)

\* Every variable keeps its type, and no token is kept beyond its time.
THEOREM TypeCorrect == PeopleSpec => []PeopleTypeOK
<1>1. PeopleInv => PeopleTypeOK  BY DEF PeopleInv
<1> QED  BY <1>1, Invariance, PTL

\* The audit gives the role of every person and how it came about: a role and its row are
\* committed together, and an update that overlapped no other one names the role it replaced.
THEOREM AuditIsTrue == PeopleSpec => []AuditTrue
<1>1. PeopleInv => AuditTrue  BY DEF PeopleInv, AuditTrue
<1> QED  BY <1>1, Invariance, PTL

\* However often a token is renewed, it stops saying what does not hold any more within the
\* life of one token, unless the change fell between the reading and the signing of one.
THEOREM TokensFollowUsers == PeopleSpec => []TokensFollow
<1>1. PeopleInv => TokensFollow
  <2> SUFFICES ASSUME PeopleInv, NEW t \in tokens, now > since[t.sub] + TTL, t.sub \notin outrun
               PROVE  users[t.sub].is_active /\ users[t.sub].role = t.role
    BY DEF TokensFollow
  <2>1. TokenFits(t) /\ t.exp >= now /\ t.exp \in Nat /\ t.sub \in Persons
    BY Sizes DEF PeopleInv, TokensFit, PeopleTypeOK, Token
  <2>2. now \in Nat /\ since[t.sub] \in Nat  BY <2>1, Sizes DEF PeopleInv, PeopleTypeOK
  <2>3. ~(t.exp <= since[t.sub] + TTL)  BY <2>1, <2>2, Sizes
  <2> QED  BY <2>1, <2>3 DEF TokenFits
<1> QED  BY <1>1, Invariance, PTL

\* The super admins are those that SQL created.
SuperAdmins ==
    \A p \in Persons : users[p] # Null =>
        (users[p].role = "super_admin" <=> p \in DOMAIN Bootstrap /\ Bootstrap[p] = "super_admin")

LEMMA CommitSuper ==
    ASSUME PeopleInv, SuperAdmins, NEW c \in Persons, Commit(c)
    PROVE  SuperAdmins'
<1>1. pending[c] # Null /\ users \in [Persons -> User \cup {Null}]
  BY DEF Commit, PeopleInv, PeopleTypeOK
<1>2. CASE pending[c].kind = "add"
  <2> DEFINE row == [pending[c].body EXCEPT !.is_active = TRUE]
  <2>1. PICK p \in Persons :
           /\ users[p] = Null
           /\ \/ users' = [users EXCEPT ![p] = row]
              \/ users' = users
    BY <1>2 DEF Commit, Store
  <2>2. p \notin DOMAIN Bootstrap  BY <2>1 DEF PeopleInv, StrangersFit
  <2>3. pending[c].body \in Body /\ pending[c].body.role # "super_admin"
    BY <1>1, <1>2, BodyAssumption DEF PeopleInv, PendingFit, Fits, AddFits
  <2>4. row.role # "super_admin"  BY <2>3 DEF Body
  <2> HIDE DEF row
  <2> QED  BY <1>1, <2>1, <2>2, <2>4 DEF SuperAdmins
<1>3. CASE pending[c].kind = "update"
  <2> DEFINE p == pending[c].target
             row == UpdatedRow(c)
  <2>1. users' = [users EXCEPT ![p] = row] \/ users' = users
    BY <1>3 DEF Commit, Store
  <2>2. p \in Persons /\ users[p] # Null
    BY <1>1, <1>3 DEF PeopleInv, PendingFit, Fits, UpdateFits
  <2>3. row.role = "super_admin" <=> users[p].role = "super_admin"
    BY <1>1, <1>3, UpdatedSuper
  <2> HIDE DEF p, row
  <2> QED  BY <1>1, <2>1, <2>2, <2>3 DEF SuperAdmins
<1> QED  BY <1>2, <1>3 DEF Commit

\* Nobody is made a super admin, and none is unmade, even by requests whose checks of the
\* role were made before others committed: assert_can_assign_role and update_user.
THEOREM SuperAdminsStay == PeopleSpec => []SuperAdmins
<1>1. PeopleInit => SuperAdmins
  <2> SUFFICES ASSUME PeopleInit, NEW p \in Persons, users[p] # Null
               PROVE  users[p].role = "super_admin" <=> p \in DOMAIN Bootstrap /\ Bootstrap[p] = "super_admin"
    BY DEF SuperAdmins
  <2> QED  BY DEF PeopleInit
<1>2. SuperAdmins /\ PeopleInv /\ [PeopleNext]_peopleVars => SuperAdmins'
  <2> SUFFICES ASSUME SuperAdmins, PeopleInv, [PeopleNext]_peopleVars PROVE SuperAdmins'  OBVIOUS
  <2>1. CASE UNCHANGED users  BY <2>1 DEF SuperAdmins
  <2>2. CASE \E c \in Persons : Commit(c)  BY <2>2, CommitSuper
  <2>3. UNCHANGED users \/ \E c \in Persons : Commit(c)
    BY DEF PeopleNext, peopleVars, Tick, Login, Refresh, Signed, UpdateTenant, create_user, invite_user,
           create_tenant_user, AddUser, update_user, deactivate_user, set_user_password, Begin
  <2> QED  BY <2>1, <2>2, <2>3
<1> QED  BY <1>1, <1>2, Invariance, PTL DEF PeopleSpec

-----------------------------------------------------------------------------
(* Who may give a role.                                                      *)

\* A person has had a role.
Had(p, role) ==
    \/ p \in DOMAIN Bootstrap /\ role = Bootstrap[p]
    \/ \E j \in DOMAIN role_change_audit : role_change_audit[j].target = p /\ role_change_audit[j].to = role

\* A person has had one at least as high.
MayGive(c, role) ==
    \E held \in VALID_ROLES : Had(c, held) /\ ROLE_HIERARCHY[held] >= ROLE_HIERARCHY[role]

Granted(i) ==
    \E role \in HeldBefore(role_change_audit[i].caller, i) :
        ROLE_HIERARCHY[role] >= ROLE_HIERARCHY[role_change_audit[i].to]

\* What a request may still do with the role it has read or would give.
RequestMay(c) ==
    LET r == pending[c] IN
    /\ r.kind = "sign" => Had(c, r.row.role)
    /\ r.kind = "add" => MayGive(c, r.body.role)
    /\ r.kind = "update" /\ RoleChanges(r) => MayGive(c, r.body.role)

\* The check of a role looks at a token, which may be as old as TTL: what stays true of it
\* is that its role was held once.
TokensHeld == \A t \in tokens : Had(t.sub, t.role)
RequestsMay == \A c \in Persons : pending[c] # Null => RequestMay(c)
GrantInv == TokensHeld /\ RequestsMay /\ GrantedFromAbove

LEMMA UserHad ==
    ASSUME PeopleInv, NEW p \in Persons, users[p] # Null
    PROVE  users[p].role \in VALID_ROLES /\ Had(p, users[p].role)
<1>1. users[p].role \in VALID_ROLES  BY DEF PeopleInv, PeopleTypeOK, User
<1>2. users[p].role = Given(p, RowsOf(p))  BY DEF PeopleInv, RoleIsAudited
<1>3. RowsOf(p) \in SUBSET (1 .. Len(role_change_audit)) /\ Len(role_change_audit) \in Nat
  BY RowsType DEF PeopleInv
<1>4. CASE RowsOf(p) # {}
  <2>1. Max(RowsOf(p)) \in RowsOf(p)  BY <1>3, <1>4, Greatest
  <2> QED  BY <1>1, <1>2, <1>4, <2>1 DEF Given, Had, RowsOf
<1>5. CASE RowsOf(p) = {}
  BY <1>1, <1>2, <1>5, PeopleAssumption DEF Given, Had
<1> QED  BY <1>4, <1>5

\* Who has a token that passes assert_can_assign_role has had a role as high.
LEMMA CheckedMay ==
    ASSUME PeopleInv, TokensHeld, NEW c, NEW t \in tokens, t.sub = c, NEW role \in VALID_ROLES,
           NEW target, assert_can_assign_role(c, t.role, role, target)
    PROVE  MayGive(c, role)
<1>1. t.role \in VALID_ROLES /\ Had(c, t.role)  BY DEF TokensHeld, PeopleInv, PeopleTypeOK, Token
<1>2. \A v \in VALID_ROLES : ROLE_HIERARCHY[v] \in Nat  BY DEF VALID_ROLES, ROLE_HIERARCHY
<1>3. ROLE_HIERARCHY[role] <= ROLE_HIERARCHY[t.role]  BY DEF assert_can_assign_role
<1>4. ROLE_HIERARCHY[t.role] >= ROLE_HIERARCHY[role]  BY <1>1, <1>2, <1>3
<1> QED  BY <1>1, <1>4 DEF MayGive

\* The audit grows at its end.
LEMMA HadStays ==
    ASSUME role_change_audit \in Seq(AuditRow), role_change_audit' \in Seq(AuditRow),
           Len(role_change_audit) <= Len(role_change_audit'),
           \A i \in 1 .. Len(role_change_audit) : role_change_audit'[i] = role_change_audit[i]
    PROVE  /\ \A p, role : Had(p, role) => Had(p, role)'
           /\ \A p, role : MayGive(p, role) => MayGive(p, role)'
           /\ \A i \in 1 .. Len(role_change_audit) : Granted(i) => Granted(i)'
<1>1. PICK n \in Nat : n = Len(role_change_audit)  OBVIOUS
<1>2. PICK m \in Nat : m = Len(role_change_audit')  OBVIOUS
<1>3. DOMAIN role_change_audit = 1 .. n /\ DOMAIN role_change_audit' = 1 .. m /\ n <= m
  BY <1>1, <1>2
<1>4. \A p, role : Had(p, role) => Had(p, role)'
  BY <1>1, <1>3 DEF Had
<1>5. \A p, role : MayGive(p, role) => MayGive(p, role)'
  BY <1>4 DEF MayGive
<1>6. ASSUME NEW i \in 1 .. n, NEW p PROVE HeldBefore(p, i)' = HeldBefore(p, i)
  <2>1. {j \in RowsOf(p) : j < i}' = {j \in RowsOf(p) : j < i}
    BY <1>1, <1>3 DEF RowsOf
  <2>2. \A j \in {k \in RowsOf(p) : k < i} : role_change_audit'[j] = role_change_audit[j]
    BY <1>1, <1>3 DEF RowsOf
  <2> QED  BY <2>1, <2>2 DEF HeldBefore
<1>7. ASSUME NEW i \in 1 .. n, Granted(i) PROVE Granted(i)'
  BY <1>1, <1>6, <1>7 DEF Granted
<1> QED  BY <1>1, <1>4, <1>5, <1>7

\* A row that is added was given from above when its caller may give its role.
LEMMA RowGranted ==
    ASSUME PeopleInv, GrantedFromAbove, NEW a \in AuditRow, MayGive(a.caller, a.to),
           role_change_audit' = role_change_audit \o << a >>
    PROVE  /\ role_change_audit' \in Seq(AuditRow)
           /\ Len(role_change_audit) <= Len(role_change_audit')
           /\ \A i \in 1 .. Len(role_change_audit) : role_change_audit'[i] = role_change_audit[i]
           /\ GrantedFromAbove'
<1>1. role_change_audit \in Seq(AuditRow)  BY DEF PeopleInv, PeopleTypeOK
<1>2. PICK n \in Nat : n = Len(role_change_audit)  BY <1>1
<1>3. /\ role_change_audit' \in Seq(AuditRow) /\ Len(role_change_audit') = n + 1
      /\ \A i \in 1 .. n : role_change_audit'[i] = role_change_audit[i]
      /\ role_change_audit'[n + 1] = a
  BY <1>1, <1>2, Appended
<1>4. \A i \in 1 .. n : Granted(i)
  BY <1>1, <1>2 DEF GrantedFromAbove, Granted
<1>5. \A i \in 1 .. n : Granted(i)'  BY <1>1, <1>2, <1>3, <1>4, HadStays
<1>6. PICK held \in VALID_ROLES : Had(a.caller, held) /\ ROLE_HIERARCHY[held] >= ROLE_HIERARCHY[a.to]
  BY DEF MayGive
<1>7. held \in HeldBefore(a.caller, n + 1)'
  <2>1. CASE a.caller \in DOMAIN Bootstrap /\ held = Bootstrap[a.caller]
    BY <2>1 DEF HeldBefore
  <2>2. CASE \E j \in DOMAIN role_change_audit :
                role_change_audit[j].target = a.caller /\ role_change_audit[j].to = held
    <3>1. PICK j \in 1 .. n : role_change_audit[j].target = a.caller /\ role_change_audit[j].to = held
      BY <1>1, <1>2, <2>2
    <3>2. j \in RowsOf(a.caller)' /\ j < n + 1 /\ role_change_audit'[j].to = held
      BY <1>2, <1>3, <3>1 DEF RowsOf
    <3> QED  BY <3>2 DEF HeldBefore
  <2> QED  BY <1>6, <2>1, <2>2 DEF Had
<1>8. Granted(n + 1)'  BY <1>3, <1>6, <1>7 DEF Granted
<1>9. DOMAIN role_change_audit' = 1 .. (n + 1)  BY <1>3
<1>10. \A i \in 1 .. (n + 1) : Granted(i)'
  <2>1. \A i \in 1 .. (n + 1) : i \in 1 .. n \/ i = n + 1  BY <1>2
  <2> QED  BY <1>5, <1>8, <2>1
<1>11. GrantedFromAbove'  BY <1>9, <1>10 DEF GrantedFromAbove, Granted
<1> QED  BY <1>2, <1>3, <1>11

\* What a commit adds to the audit is what its request was allowed.
LEMMA CommitGrants ==
    ASSUME PeopleInv, GrantInv, NEW c \in Persons, Commit(c)
    PROVE  \/ UNCHANGED role_change_audit
           \/ \E a \in AuditRow : /\ MayGive(a.caller, a.to)
                                  /\ role_change_audit' = role_change_audit \o << a >>
<1> DEFINE r == pending[c]
<1>1. r # Null /\ RequestMay(c) /\ role_change_audit \in Seq(AuditRow)
  BY DEF Commit, GrantInv, RequestsMay, PeopleInv, PeopleTypeOK
<1>2. CASE r.kind = "add"
  <2> DEFINE row == [r.body EXCEPT !.is_active = TRUE]
             a(p) == [target |-> p, caller |-> c, from |-> Null, to |-> row.role]
  <2>1. PICK p \in Persons : \/ UNCHANGED role_change_audit
                             \/ role_change_audit' = role_change_audit \o << a(p) >>
    BY <1>2 DEF Commit, Store
  <2>2. r.body \in Body /\ r.body.role # Null
    BY <1>1, <1>2, BodyAssumption DEF PeopleInv, PendingFit, Fits, AddFits
  <2>3. row.role = r.body.role /\ row.role \in VALID_ROLES  BY <2>2 DEF Body
  <2> HIDE DEF row
  <2>4. a(p) \in AuditRow /\ a(p).caller = c /\ a(p).to = r.body.role
    BY <2>3 DEF AuditRow
  <2>5. MayGive(c, r.body.role)  BY <1>1, <1>2 DEF RequestMay
  <2> HIDE DEF a
  <2> QED  BY <2>1, <2>4, <2>5
<1>3. CASE r.kind = "update"
  <2> DEFINE a == Change(c, r)
  <2>1. \/ UNCHANGED role_change_audit
        \/ role_change_audit' = role_change_audit \o (IF RoleChanges(r) THEN << a >> ELSE << >>)
    BY <1>3 DEF Commit, Store
  <2>2. CASE ~RoleChanges(r)
    <3>1. role_change_audit \o << >> = role_change_audit  BY <1>1
    <3> HIDE DEF r, a
    <3> QED  BY <2>1, <2>2, <3>1
  <2>3. CASE RoleChanges(r)
    <3>1. UpdateFits(c)  BY <1>1, <1>3 DEF PeopleInv, PendingFit, Fits
    <3>2. r \in UserRequest  BY <1>1 DEF PeopleInv, PeopleTypeOK
    <3>3. r.body.role \in VALID_ROLES /\ r.row \in User /\ r.target \in Persons
      BY <2>3, <3>1, <3>2 DEF UpdateFits, RoleChanges, UserRequest, Body
    <3>4. a = [target |-> r.target, caller |-> c, from |-> r.row.role, to |-> r.body.role]
      BY DEF Change
    <3>5. a \in AuditRow /\ a.caller = c /\ a.to = r.body.role
      BY <3>3, <3>4 DEF AuditRow, User
    <3>6. MayGive(c, r.body.role)  BY <1>1, <1>3, <2>3 DEF RequestMay
    <3> HIDE DEF a
    <3> QED  BY <2>1, <2>3, <3>5, <3>6
  <2> QED  BY <2>2, <2>3
<1> QED  BY <1>2, <1>3 DEF Commit

\* The audit of a step: it stays, or grows by a row that was given from above.
LEMMA AuditStep ==
    ASSUME PeopleInv, GrantInv, [PeopleNext]_peopleVars
    PROVE  /\ \A p, role : Had(p, role) => Had(p, role)'
           /\ \A p, role : MayGive(p, role) => MayGive(p, role)'
           /\ GrantedFromAbove'
<1>1. role_change_audit \in Seq(AuditRow)  BY DEF PeopleInv, PeopleTypeOK
<1>2. UNCHANGED role_change_audit \/ \E c \in Persons : Commit(c)
  BY DEF PeopleNext, peopleVars, Tick, Login, Refresh, Signed, UpdateTenant, create_user, invite_user,
         create_tenant_user, AddUser, update_user, deactivate_user, set_user_password, Begin
<1>3. CASE UNCHANGED role_change_audit
  <2>1. GrantedFromAbove'
    BY <1>3 DEF GrantInv, GrantedFromAbove, HeldBefore, RowsOf
  <2> QED  BY <1>1, <1>3, <2>1, HadStays
<1>4. CASE \E a \in AuditRow : MayGive(a.caller, a.to) /\ role_change_audit' = role_change_audit \o << a >>
  <2>1. PICK a \in AuditRow : MayGive(a.caller, a.to) /\ role_change_audit' = role_change_audit \o << a >>
    BY <1>4
  <2>2. /\ role_change_audit' \in Seq(AuditRow)
        /\ Len(role_change_audit) <= Len(role_change_audit')
        /\ \A i \in 1 .. Len(role_change_audit) : role_change_audit'[i] = role_change_audit[i]
        /\ GrantedFromAbove'
    BY <2>1, RowGranted DEF GrantInv
  <2> QED  BY <1>1, <2>2, HadStays
<1> QED  BY <1>2, <1>3, <1>4, CommitGrants

\* A request that has begun has passed its check.
LEMMA BeginMay ==
    ASSUME PeopleInv, GrantInv, UNCHANGED role_change_audit, NEW c \in Persons,
           \/ \E body \in NewUsers :
                create_user(c, body) \/ invite_user(c, body) \/ create_tenant_user(c, body)
           \/ \E p \in Persons :
                \/ \E body \in Updates : update_user(c, p, body)
                \/ deactivate_user(c, p) \/ set_user_password(c, p)
    PROVE  RequestMay(c)' /\ \A d \in Persons \ {c} : pending'[d] = pending[d]
<1>1. pending \in [Persons -> UserRequest \cup {Null}]  BY DEF PeopleInv, PeopleTypeOK
<1>2. \A p, role : MayGive(p, role) <=> MayGive(p, role)'  BY DEF MayGive, Had
<1>3. ASSUME NEW kind \in {"add", "update"}, NEW target, NEW body, Begin(c, kind, target, body)
      PROVE  /\ pending'[c].kind = kind /\ pending'[c].body = body
             /\ target # Null => pending'[c].row = users[target]
             /\ \A d \in Persons \ {c} : pending'[d] = pending[d]
  BY <1>1, <1>3 DEF Begin
<1>4. ASSUME NEW body \in NewUsers, NEW minimum, AddUser(c, minimum, body)
      PROVE  RequestMay(c)' /\ \A d \in Persons \ {c} : pending'[d] = pending[d]
  <2>1. PICK t \in tokens : t.sub = c /\ assert_can_assign_role(c, t.role, body.role, Null)
    BY <1>4 DEF AddUser, require_role
  <2>2. body.role \in VALID_ROLES  BY BodyAssumption DEF Body
  <2>3. MayGive(c, body.role)  BY <2>1, <2>2, CheckedMay DEF GrantInv
  <2>4. Begin(c, "add", Null, body)  BY <1>4 DEF AddUser
  <2> QED  BY <1>2, <1>3, <2>3, <2>4 DEF RequestMay
<1>5. ASSUME NEW p \in Persons, NEW body \in Updates, update_user(c, p, body)
      PROVE  RequestMay(c)' /\ \A d \in Persons \ {c} : pending'[d] = pending[d]
  <2>1. Begin(c, "update", p, body) /\ p # Null  BY <1>5, PeopleAssumption DEF update_user
  <2>2. /\ pending'[c].kind = "update" /\ pending'[c].body = body /\ pending'[c].row = users[p]
        /\ \A d \in Persons \ {c} : pending'[d] = pending[d]
    BY <1>3, <2>1
  <2>3. ASSUME body.role \notin {Null, users[p].role} PROVE MayGive(c, body.role)
    <3>1. PICK t \in tokens : t.sub = c /\ assert_can_assign_role(c, t.role, body.role, p)
      BY <1>5, <2>3 DEF update_user, require_role
    <3>2. body.role \in VALID_ROLES  BY <2>3, BodyAssumption DEF Body
    <3> QED  BY <3>1, <3>2, CheckedMay DEF GrantInv
  <2> QED  BY <1>2, <2>2, <2>3 DEF RequestMay, RoleChanges
<1>6. ASSUME NEW p \in Persons, deactivate_user(c, p) \/ set_user_password(c, p)
      PROVE  RequestMay(c)' /\ \A d \in Persons \ {c} : pending'[d] = pending[d]
  <2>1. PICK body \in {[NoChange EXCEPT !.is_active = FALSE], [NoChange EXCEPT !.password = TRUE]} :
           Begin(c, "update", p, body)
    BY <1>6 DEF deactivate_user, set_user_password
  <2>2. body.role = Null  BY <2>1 DEF NoChange
  <2> QED  BY <1>3, <2>1, <2>2 DEF RequestMay, RoleChanges
<1> QED  BY <1>4, <1>5, <1>6 DEF create_user, invite_user, create_tenant_user

LEMMA GrantKeeps == PeopleInv /\ GrantInv /\ [PeopleNext]_peopleVars => GrantInv'
<1> SUFFICES ASSUME PeopleInv, GrantInv, [PeopleNext]_peopleVars PROVE GrantInv'  OBVIOUS
<1>1. /\ \A p, role : Had(p, role) => Had(p, role)'
      /\ \A p, role : MayGive(p, role) => MayGive(p, role)'
      /\ GrantedFromAbove'
  BY AuditStep
<1>2. pending \in [Persons -> UserRequest \cup {Null}]  BY DEF PeopleInv, PeopleTypeOK
<1>3. ASSUME NEW d \in Persons, pending'[d] = pending[d], pending[d] # Null
      PROVE  RequestMay(d)'
  BY <1>1, <1>3 DEF GrantInv, RequestsMay, RequestMay, RoleChanges
<1>4. ASSUME tokens' \subseteq tokens PROVE TokensHeld'
  BY <1>1, <1>4 DEF GrantInv, TokensHeld
<1>5. ASSUME \A d \in Persons : pending'[d] = pending[d] \/ pending'[d] = Null PROVE RequestsMay'
  BY <1>3, <1>5 DEF RequestsMay
<1>6. CASE UNCHANGED peopleVars \/ Tick \/ \E p \in Persons : UpdateTenant(p) \/ Commit(p)
  <2>1. tokens' \subseteq tokens  BY <1>6 DEF peopleVars, Tick, UpdateTenant, Commit
  <2>2. \A d \in Persons : pending'[d] = pending[d] \/ pending'[d] = Null
    BY <1>2, <1>6 DEF peopleVars, Tick, UpdateTenant, Commit
  <2> QED  BY <1>1, <1>4, <1>5, <2>1, <2>2 DEF GrantInv
<1>7. ASSUME NEW p \in Persons, Login(p) \/ Refresh(p) PROVE GrantInv'
  <2>1. users[p] # Null /\ pending' = [pending EXCEPT ![p] = Sign(p)] /\ tokens' = tokens
    BY <1>7 DEF Login, Refresh, StillActive
  <2>3. pending'[p].kind = "sign" /\ pending'[p].row = users[p]  BY <1>2, <2>1 DEF Sign
  <2>4. RequestMay(p)'  BY <1>1, <2>1, <2>3, UserHad DEF RequestMay
  <2>5. RequestsMay'  BY <1>2, <1>3, <2>1, <2>4 DEF RequestsMay
  <2> QED  BY <1>1, <1>4, <2>1, <2>5 DEF GrantInv
<1>8. ASSUME NEW p \in Persons, Signed(p) PROVE GrantInv'
  <2>1. /\ pending[p] # Null /\ pending[p].kind = "sign"
        /\ tokens' \subseteq tokens \cup {create_access_token(p, pending[p].row.role)}
        /\ pending' = [pending EXCEPT ![p] = Null]
    BY <1>8 DEF Signed
  <2>2. Had(p, pending[p].row.role)  BY <2>1 DEF GrantInv, RequestsMay, RequestMay
  <2>3. TokensHeld'  BY <1>1, <2>1, <2>2 DEF GrantInv, TokensHeld, create_access_token
  <2>4. \A d \in Persons : pending'[d] = pending[d] \/ pending'[d] = Null  BY <1>2, <2>1
  <2> QED  BY <1>1, <1>5, <2>3, <2>4 DEF GrantInv
<1>9. ASSUME NEW c \in Persons,
             \/ \E body \in NewUsers :
                  create_user(c, body) \/ invite_user(c, body) \/ create_tenant_user(c, body)
             \/ \E p \in Persons :
                  \/ \E body \in Updates : update_user(c, p, body)
                  \/ deactivate_user(c, p) \/ set_user_password(c, p)
      PROVE  GrantInv'
  <2>1. tokens' = tokens /\ UNCHANGED role_change_audit
    BY <1>9 DEF create_user, invite_user, create_tenant_user, AddUser, update_user,
                deactivate_user, set_user_password, Begin
  <2>2. RequestMay(c)' /\ \A d \in Persons \ {c} : pending'[d] = pending[d]
    BY <1>9, <2>1, BeginMay
  <2>3. RequestsMay'  BY <1>3, <2>2 DEF RequestsMay
  <2> QED  BY <1>1, <1>4, <2>1, <2>3 DEF GrantInv
<1> QED  BY <1>6, <1>7, <1>8, <1>9 DEF PeopleNext

\* However requests overlap, and however old the token that was checked, every role in the
\* audit was given by someone who had one as high before: assert_can_assign_role.
THEOREM RolesAreGranted == PeopleSpec => []GrantedFromAbove
<1>1. PeopleInit => GrantInv
  BY DEF PeopleInit, GrantInv, TokensHeld, RequestsMay, GrantedFromAbove
<1>2. GrantInv => GrantedFromAbove  BY DEF GrantInv
<1> QED  BY <1>1, <1>2, GrantKeeps, Invariance, PTL DEF PeopleSpec
=============================================================================
