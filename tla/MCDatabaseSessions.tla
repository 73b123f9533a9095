------------------------- MODULE MCDatabaseSessions -------------------------
(* One request of each kind and a second scoped one; a .cfg picks those that *)
(* take part.  Every request can follow every other on a connection.         *)
EXTENDS DatabaseSessions

CONSTANTS acme, globex, login, provision, tenant, bootstrap, probe

MCWork ==
    [r \in Requests |->
        CASE r = login -> "login"
          [] r \in {provision, tenant} -> "scoped"
          [] r = bootstrap -> "unscoped"
          [] r = probe -> "query"]

\* The super admin is a member of no company; the tenant actor of acme only,
\* with a first role that is not its strongest.
MCActor ==
    [r \in Requests |->
        CASE r = provision ->
                 [companyId |-> Null, roles |-> <<"super_admin">>, isSuperAdmin |-> TRUE]
          [] r = tenant ->
                 [companyId |-> acme, roles |-> <<"editor", "tenant_admin">>, isSuperAdmin |-> FALSE]
          [] OTHER ->
                 [companyId |-> Null, roles |-> <<>>, isSuperAdmin |-> FALSE]]

=============================================================================
