---------------------------- MODULE Provisioning ----------------------------
(***************************************************************************)
(* CompaniesService.createCompany (apps/api/src/companies) on the tables   *)
(* of db/sqlserver/schema/001_core.sql.                                    *)
(*                                                                         *)
(* Calls run concurrently, each in one transaction of DatabaseService      *)
(* whose statements are steps of their own.  A row belongs to the call     *)
(* that inserted it, is seen by others once that call's transaction is     *)
(* committed, and until then locks its unique keys: an INSERT of the same  *)
(* key waits.  The context these statements run under, a super admin's, is *)
(* the subject of DatabaseSessions; it passes every block predicate.       *)
(***************************************************************************)
EXTENDS FiniteSets

CONSTANTS
    Calls,      \* calls of createCompany; a retry is another call
    Names,      \* values of companyName
    Emails,     \* values of adminEmail
    Root,       \* the id of the seeded super admin
    RootEmail,  \* and its email
    Null        \* a field the request body leaves out

ASSUME ProvisioningAssumption ==
    /\ Root \notin Calls
    /\ RootEmail \in Emails
    /\ Null \notin Names \cup Emails \cup Calls \cup {Root}

VARIABLES
    seeded,       \* the roles of seeds/001_roles.sql are in dbo.roles
    want,         \* the request body of each call
    pc,           \* what a call does next
    txn,          \* the fate of its transaction on the server
    companies,    \* dbo.companies
    users,        \* dbo.users
    user_roles,   \* dbo.user_roles, all of them tenant_admin
    audit_events, \* dbo.audit_events, all of them company_provisioned
    answer        \* what the caller was told

tables == <<companies, users, user_roles, audit_events>>
vars == <<seeded, want, pc, txn, tables, answer>>

Body == [name : Names \cup {Null}, email : Emails \cup {Null}]

\* Ids are NEWID(): a call inserts one company and one user, and its own name
\* stands for both ids.
Company    == [id : Calls, name : Names]
User       == [id : Calls \cup {Root}, company_id : Calls \cup {Null}, email : Emails]
UserRole   == [user_id : Calls, company_id : Calls]
AuditEvent == [target_id : Calls, actor_user_id : {Root}]

InWork == {"company", "admin", "role", "audit", "commit"}

-----------------------------------------------------------------------------
Init ==
    /\ seeded \in BOOLEAN
    /\ want = [c \in Calls |-> [name |-> Null, email |-> Null]]
    /\ pc = [c \in Calls |-> "idle"]
    /\ txn = [c \in Calls |-> "none"]
    /\ companies = {}
    /\ users = {[id |-> Root, company_id |-> Null, email |-> RootEmail]}
    /\ user_roles = {}
    /\ audit_events = {}
    /\ answer = [c \in Calls |-> "none"]

\* The operator runs the role seed, a MERGE, at some time.
SeedRoles ==
    /\ ~seeded
    /\ seeded' = TRUE
    /\ UNCHANGED <<want, pc, txn, tables, answer>>

\* A request arrives.  Without a tenant context it gets a 401, without
\* super_admin a 403, before any transaction.
Arrive(c, body, who) ==
    /\ pc[c] = "idle"
    /\ want' = [want EXCEPT ![c] = body]
    /\ IF who = "super_admin"
       THEN /\ pc' = [pc EXCEPT ![c] = "begin"]
            /\ UNCHANGED answer
       ELSE /\ pc' = [pc EXCEPT ![c] = "done"]
            /\ answer' = [answer EXCEPT ![c] = "refused"]
    /\ UNCHANGED <<seeded, txn, tables>>

\* begin() and applySessionContext.
BeginWork(c) ==
    /\ pc[c] = "begin"
    /\ pc' = [pc EXCEPT ![c] = "company"]
    /\ txn' = [txn EXCEPT ![c] = "open"]
    /\ UNCHANGED <<seeded, want, tables, answer>>

\* The rows that are there to stay.
Settled == {Root} \cup {c \in Calls : txn[c] = "committed"}

\* A bug: the name is not NOT NULL.
InsertCompanyNullable(c) ==
    /\ pc[c] = "company"
    /\ \A row \in companies : row.name # want[c].name
    /\ companies' = companies \cup {[id |-> c, name |-> want[c].name]}
    /\ pc' = [pc EXCEPT ![c] = "admin"]
    /\ UNCHANGED <<seeded, want, txn, users, user_roles, audit_events, answer>>

\* INSERT dbo.companies: UQ_companies_name lets it through when no other row,
\* committed or not, has the name.
InsertCompany(c) ==
    /\ pc[c] = "company"
    /\ want[c].name # Null
    /\ \A row \in companies : row.name # want[c].name
    /\ companies' = companies \cup {[id |-> c, name |-> want[c].name]}
    /\ pc' = [pc EXCEPT ![c] = "admin"]
    /\ UNCHANGED <<seeded, want, txn, users, user_roles, audit_events, answer>>

\* INSERT dbo.users, under UQ_users_email and the foreign key to the company.
InsertAdmin(c) ==
    /\ pc[c] = "admin"
    /\ want[c].email # Null
    /\ \A row \in users : row.email # want[c].email
    /\ users' = users \cup
           {[id |-> c, company_id |-> c, email |-> want[c].email]}
    /\ pc' = [pc EXCEPT ![c] = "role"]
    /\ UNCHANGED <<seeded, want, txn, companies, user_roles, audit_events, answer>>

\* A bug: rowsAffected is not looked at.
AssignRoleUnchecked(c) ==
    /\ pc[c] = "role"
    /\ user_roles' = IF seeded THEN user_roles \cup {[user_id |-> c, company_id |-> c]}
                              ELSE user_roles
    /\ pc' = [pc EXCEPT ![c] = "audit"]
    /\ UNCHANGED <<seeded, want, txn, companies, users, audit_events, answer>>

\* INSERT dbo.user_roles SELECT ... FROM dbo.roles: one row if there is a role.
AssignRole(c) ==
    /\ pc[c] = "role"
    /\ seeded
    /\ user_roles' = user_roles \cup {[user_id |-> c, company_id |-> c]}
    /\ pc' = [pc EXCEPT ![c] = "audit"]
    /\ UNCHANGED <<seeded, want, txn, companies, users, audit_events, answer>>

\* audit.record on the same executor, so in the same transaction.
RecordAudit(c) ==
    /\ pc[c] = "audit"
    /\ audit_events' = audit_events \cup {[target_id |-> c, actor_user_id |-> Root]}
    /\ pc' = [pc EXCEPT ![c] = "commit"]
    /\ UNCHANGED <<seeded, want, txn, companies, users, user_roles, answer>>

\* clearSessionContext and COMMIT.
Commit(c) ==
    /\ pc[c] = "commit"
    /\ txn[c] = "open"
    /\ txn' = [txn EXCEPT ![c] = "committed"]
    /\ pc' = [pc EXCEPT ![c] = "done"]
    /\ answer' = [answer EXCEPT ![c] = "created"]
    /\ UNCHANGED <<seeded, want, tables>>

\* A constraint rejects the statement (a NULL in a NOT NULL column, a unique
\* key that a committed row has), or the role is missing and the service
\* throws.
Violates(c) ==
    \/ /\ pc[c] = "company"
       /\ \/ want[c].name = Null
          \/ \E row \in companies :
                 row.name = want[c].name /\ row.id \in Settled
    \/ /\ pc[c] = "admin"
       /\ \/ want[c].email = Null
          \/ \E row \in users :
                 row.email = want[c].email /\ row.id \in Settled
    \/ pc[c] = "role" /\ ~seeded

Violation(c) ==
    /\ Violates(c)
    /\ pc' = [pc EXCEPT ![c] = "rollback"]
    /\ UNCHANGED <<seeded, want, txn, tables, answer>>

\* What a rollback, asked for or not, does to the tables.
Undo(c) ==
    /\ txn' = [txn EXCEPT ![c] = "rolledBack"]
    /\ companies' = {row \in companies : row.id # c}
    /\ users' = {row \in users : row.id # c}
    /\ user_roles' = {row \in user_roles : row.user_id # c}
    /\ audit_events' = {row \in audit_events : row.target_id # c}

\* BEGIN fails, and nothing was opened.
BeginFails(c) ==
    /\ pc[c] = "begin"
    /\ pc' = [pc EXCEPT ![c] = "done"]
    /\ answer' = [answer EXCEPT ![c] = "refused"]
    /\ UNCHANGED <<seeded, want, txn, tables>>

\* A statement, a clear or the COMMIT fails and the transaction is still open.
StatementFails(c) ==
    /\ pc[c] \in InWork
    /\ pc' = [pc EXCEPT ![c] = "rollback"]
    /\ UNCHANGED <<seeded, want, txn, tables, answer>>

\* The server ends the transaction: a deadlock, a lost connection, the end of
\* the API process.
ServerAborts(c) ==
    /\ pc[c] \in InWork
    /\ Undo(c)
    /\ pc' = [pc EXCEPT ![c] = "rollback"]
    /\ UNCHANGED <<seeded, want, answer>>

\* The server commits, and the acknowledgement does not reach the API.
CommitUnacknowledged(c) ==
    /\ pc[c] = "commit"
    /\ txn' = [txn EXCEPT ![c] = "committed"]
    /\ pc' = [pc EXCEPT ![c] = "rollback"]
    /\ UNCHANGED <<seeded, want, tables, answer>>

\* Bugs: the catch block does not roll back; it does not rethrow.
RollbackForgotten(c) ==
    /\ pc[c] = "rollback"
    /\ pc' = [pc EXCEPT ![c] = "done"]
    /\ answer' = [answer EXCEPT ![c] = "refused"]
    /\ UNCHANGED <<seeded, want, txn, tables>>

RollbackSwallowsError(c) ==
    /\ pc[c] = "rollback"
    /\ IF txn[c] = "open" THEN Undo(c) ELSE UNCHANGED <<txn, tables>>
    /\ pc' = [pc EXCEPT ![c] = "done"]
    /\ answer' = [answer EXCEPT ![c] = "created"]
    /\ UNCHANGED <<seeded, want>>

\* The catch block: rollback(), which a transaction that is over ignores, and
\* the error to the caller.
Rollback(c) ==
    /\ pc[c] = "rollback"
    /\ IF txn[c] = "open" THEN Undo(c) ELSE UNCHANGED <<txn, tables>>
    /\ pc' = [pc EXCEPT ![c] = "done"]
    /\ answer' = [answer EXCEPT ![c] = "refused"]
    /\ UNCHANGED <<seeded, want>>

\* What the code and the server do when nothing goes wrong around them.
Work(c) ==
    \/ BeginWork(c)
    \/ InsertCompany(c)
    \/ InsertAdmin(c)
    \/ AssignRole(c)
    \/ RecordAudit(c)
    \/ Commit(c)
    \/ Violation(c)
    \/ Rollback(c)

Trouble(c) ==
    \/ BeginFails(c)
    \/ StatementFails(c)
    \/ ServerAborts(c)
    \/ CommitUnacknowledged(c)

Terminated ==
    /\ \A c \in Calls : pc[c] = "done"
    /\ UNCHANGED vars

Next ==
    \/ SeedRoles
    \/ \E c \in Calls :
           \/ \E body \in Body, who \in {"anonymous", "tenant_admin", "super_admin"} :
                  Arrive(c, body, who)
           \/ Work(c)
           \/ Trouble(c)
    \/ Terminated

Spec == Init /\ [][Next]_vars

\* The server runs statements and grants locks; nothing is said of requests
\* arriving, of the operator, or of failures.
FairSpec == Spec /\ \A c \in Calls : WF_vars(Work(c))

-----------------------------------------------------------------------------
(* Properties *)

TypeOK ==
    /\ seeded \in BOOLEAN
    /\ want \in [Calls -> Body]
    /\ pc \in [Calls -> {"idle", "begin", "rollback", "done"} \cup InWork]
    /\ txn \in [Calls -> {"none", "open", "committed", "rolledBack"}]
    /\ companies \subseteq Company
    /\ users \subseteq User
    /\ user_roles \subseteq UserRole
    /\ audit_events \subseteq AuditEvent
    /\ answer \in [Calls -> {"none", "created", "refused"}]

Committed(c) == txn[c] = "committed"

\* The design's "Atomic provisioning prevents half-created tenants": a call
\* whose transaction is committed left a company, an administrator in that
\* company, its tenant_admin role and an audit event; any other call that is
\* over left no row at all.
NoHalfCreatedTenant ==
    \A c \in Calls :
        /\ Committed(c) =>
               /\ \E row \in companies : row.id = c
               /\ \E row \in users : row.id = c /\ row.company_id = c
               /\ [user_id |-> c, company_id |-> c] \in user_roles
               /\ [target_id |-> c, actor_user_id |-> Root] \in audit_events
        /\ pc[c] = "done" /\ ~Committed(c) =>
               /\ \A row \in companies : row.id # c
               /\ \A row \in users : row.id # c /\ row.company_id # c
               /\ \A row \in user_roles : row.user_id # c /\ row.company_id # c
               /\ \A row \in audit_events : row.target_id # c

\* Call c waits for the lock on a unique key: another row has the key and
\* nobody knows yet whether it stays, so the INSERT neither goes through nor
\* fails.
WaitsForName(c) ==
    /\ pc[c] = "company"
    /\ want[c].name # Null
    /\ \E row \in companies : row.name = want[c].name
    /\ ~Violates(c)

WaitsForEmail(c) ==
    /\ pc[c] = "admin"
    /\ want[c].email # Null
    /\ \E row \in users : row.email = want[c].email
    /\ ~Violates(c)

Waits(c) == WaitsForName(c) \/ WaitsForEmail(c)

\* Call c stands between its BEGIN and its end.
AtWork(c) == pc[c] \in InWork \cup {"rollback"}

\* createCompany takes its locks in one order, the name and then the email, so
\* its calls never wait for each other in a ring, nor for a call that is over:
\* while one waits, another is at work that waits for nobody.
SomebodyMoves ==
    \A c \in Calls : Waits(c) => \E d \in Calls : AtWork(d) /\ ~Waits(d)

\* Every call that arrives is answered, although calls wait for each other's
\* uncommitted keys, and although nothing is assumed of failures.
EveryCallAnswered ==
    \A c \in Calls : pc[c] # "idle" ~> answer[c] # "none"

\* The tenants as the registry promises them: the committed companies, with
\* the administrator that belongs to each.
Registry ==
    {[by |-> t[1].id, name |-> t[1].name, email |-> t[2].email] :
         t \in {pair \in companies \X users :
                   /\ pair[2].company_id = pair[1].id
                   /\ Committed(pair[1].id)}}

Abstract == INSTANCE TenantRegistry
    WITH registry <- Registry, Reserved <- {RootEmail}

\* Provisioning implements the registry: tenants appear complete, in one step.
ImplementsRegistry == Abstract!Spec

=============================================================================
