--------------------------- MODULE BoundaryProofs ---------------------------
(***************************************************************************)
(* The two tenant boundaries of the API.  RbacService draws one in memory, *)
(* from the AuthContext of a request; the row-level policy draws one in    *)
(* the database, from the SESSION_CONTEXT of whatever connection the       *)
(* request runs on.  Nothing in the code relates them but the session role *)
(* that applySessionContext derives from the AuthContext.                  *)
(***************************************************************************)
EXTENDS DatabaseSessionsProofs, Rbac

\* The AuthContext as RbacService looks at it: its roles in no order.
RbacActor(actor) ==
    [companyId    |-> actor.companyId,
     roles        |-> {actor.roles[i] : i \in DOMAIN actor.roles},
     isSuperAdmin |-> actor.isSuperAdmin]

\* A request that is reading and writing rows under its actor's context.
AtScopedWork(r) == pc[r] = "work" /\ conn[r] # Null /\ Work[r] = "scoped"

\* What the session role keeps of the actor: whether it is a super admin.
LEMMA SessionRoleOfActor ==
    ASSUME NEW r \in Requests
    PROVE  SessionRole(Actor[r]) = "super_admin" <=> Actor[r].isSuperAdmin
  BY Constants DEF SessionRole

LEMMA BoundariesOfContext ==
    ASSUME NEW r \in Requests, NEW ctx \in Context,
           ctx.company_id = Actor[r].companyId,
           ctx.user_role = SessionRole(Actor[r]),
           NEW company \in Companies, NEW permission
    PROVE  AssertTenantPermission(RbacActor(Actor[r]), company, permission)
                   = "cross_tenant"
               <=> ~TenantPredicate(company, ctx)
  <1>1. Null # company
    BY NullAssumption
  <1>2. CASE Actor[r].isSuperAdmin
    BY <1>2, SessionRoleOfActor
       DEF AssertTenantPermission, RbacActor, TenantPredicate
  <1>3. CASE ~Actor[r].isSuperAdmin
    <2>1. TenantPredicate(company, ctx) <=> Actor[r].companyId = company
      BY <1>1, <1>3, SessionRoleOfActor DEF TenantPredicate, SqlEquals
    <2>2. AssertTenantPermission(RbacActor(Actor[r]), company, permission)
                  = "cross_tenant"
              <=> Actor[r].companyId # company
      BY <1>1, <1>3 DEF AssertTenantPermission, RbacActor
    <2>3. QED
      BY <2>1, <2>2
  <1>4. QED
    BY <1>2, <1>3

\* Wherever a scoped work runs, whatever failed before and whatever an earlier
\* request left on its connection, the database lets through the rows of
\* exactly those companies that RbacService does not refuse the actor as
\* another tenant's.  What the database cannot tell is the permission.
THEOREM BoundariesAgree ==
    Spec => [](\A r \in Requests : AtScopedWork(r) =>
        \A company \in Companies, permission \in Permissions :
            AssertTenantPermission(RbacActor(Actor[r]), company, permission)
                    = "cross_tenant"
                <=> ~TenantPredicate(company, session[conn[r]]))
  <1>1. TypeOK /\ ScopedWorkOwnsItsTenant =>
            \A r \in Requests : AtScopedWork(r) =>
                \A company \in Companies, permission \in Permissions :
                    AssertTenantPermission(RbacActor(Actor[r]), company, permission)
                            = "cross_tenant"
                        <=> ~TenantPredicate(company, session[conn[r]])
    <2> SUFFICES ASSUME TypeOK, ScopedWorkOwnsItsTenant,
                        NEW r \in Requests, AtScopedWork(r),
                        NEW company \in Companies, NEW permission \in Permissions
                 PROVE  AssertTenantPermission(RbacActor(Actor[r]), company, permission)
                                = "cross_tenant"
                            <=> ~TenantPredicate(company, session[conn[r]])
      OBVIOUS
    <2>1. /\ session[conn[r]] \in Context
          /\ session[conn[r]].company_id = Actor[r].companyId
          /\ session[conn[r]].user_role = SessionRole(Actor[r])
      BY DEF AtScopedWork, TypeOK, ScopedWorkOwnsItsTenant
    <2>2. QED
      BY <2>1, BoundariesOfContext
  <1>2. QED
    BY <1>1, TypeCorrect, ScopedWorkIsOwn, PTL

\* createCompany is for super admins, and its four INSERTs name a company that
\* no context holds: the policy lets a super admin's scoped work see and write
\* every row, of a new company as of none, whatever failed before.
THEOREM SuperAdminPassesPolicy ==
    Spec => [](\A r \in Requests : AtScopedWork(r) /\ Actor[r].isSuperAdmin =>
        \A table \in STRING, company \in Companies \cup {Null} :
            /\ Visible(table, company, session[conn[r]])
            /\ MayWrite(table, company, session[conn[r]]))
  <1>1. ScopedWorkOwnsItsTenant =>
            \A r \in Requests : AtScopedWork(r) /\ Actor[r].isSuperAdmin =>
                \A table \in STRING, company \in Companies \cup {Null} :
                    /\ Visible(table, company, session[conn[r]])
                    /\ MayWrite(table, company, session[conn[r]])
    BY SessionRoleOfActor
       DEF ScopedWorkOwnsItsTenant, AtScopedWork, Visible, MayWrite,
           TenantOrGlobalPrincipalFilter, TenantPredicate
  <1>2. QED
    BY <1>1, ScopedWorkIsOwn, PTL

\* Statements outside a transaction carry no actor: on an unleaked pool the
\* policy shows them, and lets them write, no row of any company in any table
\* that it names.  This is what the audit and enumeration services run under.
THEOREM QueriesAreAnonymous ==
    Spec /\ LeakFree => [](\A r \in Requests : pc[r] = "query" =>
        \A company \in Companies \cup {Null},
           table \in {"companies", "users", "user_roles", "audit_events"} :
            /\ ~Visible(table, company, session[conn[r]])
            /\ ~MayWrite(table, company, session[conn[r]]))
  <1>1. Simulated => \A r \in Requests : pc[r] = "query" =>
            \A company \in Companies \cup {Null},
               table \in {"companies", "users", "user_roles", "audit_events"} :
                /\ ~Visible(table, company, session[conn[r]])
                /\ ~MayWrite(table, company, session[conn[r]])
    <2> SUFFICES ASSUME Simulated, NEW r \in Requests, pc[r] = "query",
                        NEW company \in Companies \cup {Null},
                        NEW table \in {"companies", "users", "user_roles", "audit_events"}
                 PROVE  /\ ~Visible(table, company, session[conn[r]])
                        /\ ~MayWrite(table, company, session[conn[r]])
      OBVIOUS
    <2>1. conn[r] # Null /\ Work[r] = "query"
      BY DEF Simulated, Protocol, Control, Progress
    <2>2. session[conn[r]] = Cleared
      BY <2>1, HeldContext DEF Needed
    <2>3. QED
      BY <2>2, Constants DEF Visible, MayWrite, Cleared, TenantPredicate,
         TenantOrGlobalPrincipalFilter, SqlEquals
  <1>2. QED
    BY <1>1, SimulatedInvariant, PTL

=============================================================================
