---------------------------- MODULE Authorization ----------------------------
(***************************************************************************)
(* Roles, groups and grants, ivadoo/authorization.  A grant gives a role   *)
(* to a user or a group, in the whole organization, one company or one     *)
(* establishment.  Endpoints ask has_permission about one object; lists    *)
(* ask for the objects that the user may see.  One permission stands for   *)
(* them all: a role has it or not.                                         *)
(***************************************************************************)
EXTENDS Identity

CONSTANTS
    Roles, Groups, Grants,   \* primary keys
    AdminRole,               \* the system role with full access
    Companies, Establishments,
    CompanyOf                \* the company of each establishment

ASSUME AdminIsRole == AdminRole \in Roles
ASSUME EstablishmentsHaveACompany == CompanyOf \in [Establishments -> Companies]
ASSUME PrincipalsAreDistinct == Users \intersect Groups = {}
ASSUME ScopesAreDistinct == Companies \intersect Establishments = {}
ASSUME NoneIsNoScope == None \notin Companies \union Establishments \union Groups

VARIABLES
    role,      \* is each role active and does it hold the permission
    group,     \* is each group active, and its members
    grant,     \* AccessGrant rows, or None
    revoking   \* grants whose revocation passed its check

authorization == <<role, group, grant, revoking>>

Role == [active: BOOLEAN, allows: BOOLEAN]
Group == [active: BOOLEAN, members: SUBSET Users]

\* A scope of None is the whole organization.
Grant == [role: Roles, principal: Users \union Groups,
          scope: Companies \union Establishments \union {None}, revoked: BOOLEAN]

\* grant_organization_admin gives the first administrator the first grant.
AuthorizationInit ==
    /\ role = [r \in Roles |-> [active |-> TRUE, allows |-> r = AdminRole]]
    /\ group = [g \in Groups |-> [active |-> TRUE, members |-> {}]]
    /\ \E first \in Grants, u \in Users :
          grant = [x \in Grants |->
             IF x = first THEN [role |-> AdminRole, principal |-> u,
                                scope |-> None, revoked |-> FALSE] ELSE None]
    /\ revoking = {}

-----------------------------------------------------------------------------
(* What a user may do.                                                     *)

\* active_grants_for_user.
ActiveGrants(u) ==
    {x \in Grants :
       /\ u \in enabled
       /\ grant[x] # None /\ ~grant[x].revoked
       /\ role[grant[x].role].active
       /\ \/ grant[x].principal = u
          \/ \E g \in Groups : /\ grant[x].principal = g
                               /\ group[g].active /\ u \in group[g].members}

AllowingGrants(u) == {x \in ActiveGrants(u) : role[grant[x].role].allows}

\* Fault: a grant for an establishment covers the company it is in.
CoversItsCompany(x, company, establishment) ==
    LET scope == grant[x].scope
    IN  \/ scope = None
        \/ scope \in Establishments /\ \/ scope = establishment
                                       \/ CompanyOf[scope] = company
        \/ /\ scope \in Companies
           /\ scope = IF establishment # None THEN CompanyOf[establishment]
                      ELSE company

\* _scope_covers.
ScopeCovers(x, company, establishment) ==
    LET scope == grant[x].scope
    IN  \/ scope = None
        \/ scope \in Establishments /\ scope = establishment
        \/ /\ scope \in Companies
           /\ scope = IF establishment # None THEN CompanyOf[establishment]
                      ELSE company

HasPermission(u, company, establishment) ==
    \E x \in AllowingGrants(u) : ScopeCovers(x, company, establishment)

\* authorized_company_ids and authorized_establishment_ids.
AuthorizedCompanies(u) ==
    {c \in Companies : \E x \in AllowingGrants(u) : grant[x].scope \in {None, c}}

AuthorizedEstablishments(u) ==
    {e \in Establishments :
       \E x \in AllowingGrants(u) : grant[x].scope \in {None, e, CompanyOf[e]}}

\* CanManageAccess.
MayManage(u) == HasPermission(u, None, None)

-----------------------------------------------------------------------------
(* Changing it.  Each endpoint is called by an authenticated request.      *)

Manages(s) == Running(s) /\ MayManage(session[s].user)

\* RoleDetailView: a system role is not modified.
UpdateRole(r, active, allows) ==
    /\ r # AdminRole
    /\ role' = [role EXCEPT ![r] = [active |-> active, allows |-> allows]]
    /\ UNCHANGED <<group, grant, revoking>>

UpdateGroup(g, active, members) ==
    /\ group' = [group EXCEPT ![g] = [active |-> active, members |-> members]]
    /\ UNCHANGED <<role, grant, revoking>>

CreateGrant(x, r, principal, scope) ==
    /\ grant[x] = None
    /\ grant' = [grant EXCEPT ![x] = [role |-> r, principal |-> principal,
                                      scope |-> scope, revoked |-> FALSE]]
    /\ UNCHANGED <<role, group, revoking>>

LiveAdminGrants == {x \in Grants : /\ grant[x] # None /\ ~grant[x].revoked
                                   /\ grant[x].role = AdminRole}

\* GrantRevokeView: the check, for a grant of one's own, and the revocation.
CheckRevocation(u, x) ==
    /\ grant[x] # None
    /\ grant[x].principal = u /\ grant[x].role = AdminRole =>
          Cardinality(LiveAdminGrants) > 1
    /\ revoking' = revoking \union {x}
    /\ UNCHANGED <<role, group, grant>>

RevokeGrant(x) ==
    /\ x \in revoking
    /\ grant' = [grant EXCEPT ![x].revoked = TRUE]
    /\ revoking' = revoking \ {x}
    /\ UNCHANGED <<role, group>>

ChangeAccess(u) ==
    \/ \E r \in Roles, active, allows \in BOOLEAN : UpdateRole(r, active, allows)
    \/ \E g \in Groups, active \in BOOLEAN, members \in SUBSET Users :
          UpdateGroup(g, active, members)
    \/ \E x \in Grants, r \in Roles, principal \in Users \union Groups,
          scope \in Companies \union Establishments \union {None} :
          CreateGrant(x, r, principal, scope)
    \/ \E x \in Grants : CheckRevocation(u, x)

\* The identity endpoints that ask for the permission to manage access.
AdministerUsers ==
    \E s \in Sessions :
       \/ /\ Manages(s)
          /\ \/ \E c \in Codes \union {None} :
                   Reauthenticate(s, c, "administering")
             \/ \E u \in Users, active, password \in BOOLEAN :
                   ReadUser(s, u, active, password)
       \/ SaveUser(s)
       \/ \E u \in Users : ResetTwoFactor(s, u)

ManageAccess ==
    \/ \E s \in Sessions :
          /\ Manages(s) /\ ChangeAccess(session[s].user) /\ EndCall(s)
          /\ UNCHANGED <<now, enabled, session, login, factors>>
    \/ \E x \in Grants : RevokeGrant(x) /\ UNCHANGED identity

-----------------------------------------------------------------------------
(* Properties.                                                             *)

AuthorizationTypeOK ==
    /\ role \in [Roles -> Role]
    /\ group \in [Groups -> Group]
    /\ grant \in [Grants -> Grant \union {None}]
    /\ revoking \subseteq Grants

\* The lists show a user exactly the companies and establishments for which the
\* check of a single object would let the user through.
ListsAgreeWithChecks ==
    \A u \in Users :
       /\ \A c \in Companies :
             c \in AuthorizedCompanies(u) <=> HasPermission(u, c, None)
       /\ \A e \in Establishments :
             e \in AuthorizedEstablishments(u) <=> HasPermission(u, None, e)

=============================================================================
