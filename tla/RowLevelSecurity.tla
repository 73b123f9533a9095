-------------------------- MODULE RowLevelSecurity --------------------------
(***************************************************************************)
(* The row-level security policy of db/sqlserver/schema/002_rls.sql, as    *)
(* predicates over the SESSION_CONTEXT of the connection that runs a       *)
(* statement.  No state: the modules that run SQL extend this one.         *)
(***************************************************************************)

CONSTANTS
    Companies,  \* tenant identifiers (dbo.companies.id)
    Null        \* SQL NULL: a key never set, or set to NULL

Roles == {"super_admin", "tenant_admin", "editor", "reader"}

ASSUME NullAssumption == Null \notin Companies \cup Roles

\* What sp_set_session_context can hold under the three keys the policy reads.
\* The login flag is only ever set to 1 or to NULL, so it is a Boolean here.
Context ==
    [company_id             : Companies \cup {Null},
     user_role              : Roles \cup {Null},
     global_principal_login : BOOLEAN]

Cleared ==
    [company_id |-> Null, user_role |-> Null, global_principal_login |-> FALSE]

\* T-SQL "=": a comparison with NULL is UNKNOWN, which selects no row.
SqlEquals(a, b) == a # Null /\ a = b

\* A bug: the comparison treats two NULLs as equal.
TenantPredicateNullSafe(companyId, ctx) ==
    \/ companyId = ctx.company_id
    \/ ctx.user_role = "super_admin"

\* dbo.fn_tenant_predicate
TenantPredicate(companyId, ctx) ==
    \/ SqlEquals(companyId, ctx.company_id)
    \/ ctx.user_role = "super_admin"

\* dbo.fn_tenant_or_global_principal_filter
TenantOrGlobalPrincipalFilter(companyId, ctx) ==
    \/ companyId = Null /\ ctx.global_principal_login
    \/ TenantPredicate(companyId, ctx)

\* The FILTER predicates of the policy: may a statement that runs under ctx
\* see a row of table whose company (for companies: whose id) is companyId?
\* A table the policy does not name is not filtered.
Visible(table, companyId, ctx) ==
    CASE table \in {"users", "user_roles"} ->
             TenantOrGlobalPrincipalFilter(companyId, ctx)
      [] table \in {"companies", "audit_events"} ->
             TenantPredicate(companyId, ctx)
      [] OTHER -> TRUE

\* The AFTER INSERT and AFTER UPDATE block predicates, which are the same.
MayWrite(table, companyId, ctx) ==
    table \in {"companies", "users", "user_roles", "audit_events"}
        => TenantPredicate(companyId, ctx)

=============================================================================
