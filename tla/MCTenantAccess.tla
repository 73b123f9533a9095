--------------------------- MODULE MCTenantAccess ---------------------------
EXTENDS TenantAccess

CONSTANTS acme, globex

Admin == [companyId |-> acme, roles |-> {"tenant_admin"}, isSuperAdmin |-> FALSE]

OnlyAdmin == {Admin}

\* DEFAULT_POLICY, in the model's units: no request in these instances reaches
\* its threshold, and its window and block are one moment long.
MCDefaultPolicy == [threshold |-> 5, windowSeconds |-> 1, blockSeconds |-> 1]

=============================================================================
