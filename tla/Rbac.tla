-------------------------------- MODULE Rbac --------------------------------
(***************************************************************************)
(* RbacService (apps/api/src/rbac/rbac.service.ts): the backend's tenant   *)
(* boundary.  No state.                                                    *)
(***************************************************************************)
EXTENDS RowLevelSecurity

Permissions == {"tenant:admin", "record:read", "record:write", "record:delete"}

\* ROLE_PERMISSIONS; super_admin is not a key of the table.
RolePermissions(role) ==
    CASE role = "tenant_admin" -> Permissions
      [] role = "editor"       -> {"record:read", "record:write"}
      [] role = "reader"       -> {"record:read"}
      [] OTHER                 -> {}

\* What assertTenantPermission comes to for an actor with a companyId (or
\* Null), a set of roles and isSuperAdmin.
AssertTenantPermission(actor, companyId, permission) ==
    IF actor.isSuperAdmin THEN "granted"
    ELSE IF actor.companyId = Null \/ actor.companyId # companyId
         THEN "cross_tenant"
    ELSE IF \E role \in actor.roles :
                role = "super_admin" \/ permission \in RolePermissions(role)
         THEN "granted"
    ELSE "insufficient"

=============================================================================
