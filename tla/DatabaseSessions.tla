-------------------------- MODULE DatabaseSessions --------------------------
(***************************************************************************)
(* DatabaseService (apps/api/src/database/database.service.ts) and the     *)
(* pooled SQL Server connections it runs on.                               *)
(*                                                                         *)
(* SESSION_CONTEXT belongs to a connection, not to a transaction: a        *)
(* rollback does not undo it and a connection carries it back to the pool. *)
(* Row-level security reads it, so who sees which row depends on what      *)
(* earlier requests left on the connection a request happens to get.       *)
(*                                                                         *)
(* A request is one call of the service.  Its Work is                      *)
(*   "login"     AuthCredentialService.findGlobalUserRows                  *)
(*   "scoped"    a transaction that begins with applySessionContext        *)
(*               (CompaniesService.createCompany)                          *)
(*   "unscoped"  a transaction that sets no context                        *)
(*               (BootstrapAccessService.completeFirstUse)                 *)
(*   "query"     database.query outside a transaction (audit and           *)
(*               enumeration statements, the readiness probe)              *)
(* and every await on the database is a step of its own.  The statements   *)
(* of a work between its context and its end are one step, "work": which   *)
(* rows they touch is the subject of other modules.                        *)
(***************************************************************************)
EXTENDS RowLevelSecurity, Sequences

CONSTANTS
    Requests,     \* calls of the service, each made once
    Connections,  \* connections of the pool
    Work,         \* what each request does
    Actor,        \* the AuthContext each request runs under
    Failures      \* which failures the environment may produce

Failure == {"statement", "clear", "abort", "lost", "commit"}

AuthContext ==
    [companyId : Companies \cup {Null}, roles : Seq(Roles), isSuperAdmin : BOOLEAN]

ASSUME RequestAssumption ==
    /\ Work \in [Requests -> {"login", "scoped", "unscoped", "query"}]
    /\ Actor \in [Requests -> AuthContext]
    /\ Failures \subseteq Failure
    /\ Null \notin Connections

\* TokenValidatorService computes isSuperAdmin from the roles.
ASSUME ActorAssumption ==
    \A r \in Requests : \A i \in DOMAIN Actor[r].roles :
        Actor[r].roles[i] = "super_admin" => Actor[r].isSuperAdmin

VARIABLES
    session,  \* SESSION_CONTEXT of each connection
    conn,     \* the connection a request holds, or Null
    pc,       \* what a request does next
    failed,   \* the request runs its catch or finally block
    txn,      \* the fate of a request's transaction on the server
    result    \* what the caller of the service was told

vars == <<session, conn, pc, failed, txn, result>>

Clearing == {"clearCompany", "clearRole", "clearLogin"}
Statements == {"setLogin", "select", "resetLogin", "applyCompany",
               "applyRole", "work"} \cup Clearing
PC == {"idle", "query", "commit", "rollback", "done"} \cup Statements

-----------------------------------------------------------------------------
(* applySessionContext *)

\* A bug: the role is misspelt.
SessionRoleMisspelt(ctx) == IF ctx.isSuperAdmin THEN "superadmin" ELSE Null

SessionRole(ctx) ==
    IF ctx.isSuperAdmin THEN "super_admin"
    ELSE IF ctx.roles = <<>> THEN Null
    ELSE ctx.roles[1]

\* A bug: a context without a company leaves the key as it was.
ApplyCompanyIfAny(ctx, actor) ==
    IF actor.companyId = Null THEN ctx
    ELSE [ctx EXCEPT !.company_id = actor.companyId]

\* companyId ?? null: the key is overwritten even when there is no company.
ApplyCompany(ctx, actor) == [ctx EXCEPT !.company_id = actor.companyId]

ApplyRole(ctx, actor) == [ctx EXCEPT !.user_role = SessionRole(actor)]

-----------------------------------------------------------------------------
(* The statements, in the order the code awaits them *)

\* The first await after begin(): findGlobalUserRows sets the login flag,
\* a scoped work applies its context, the others go straight to their work.
First(r) ==
    CASE Work[r] = "login"    -> "setLogin"
      [] Work[r] = "scoped"   -> "applyCompany"
      [] Work[r] = "unscoped" -> "work"
      [] Work[r] = "query"    -> "query"

\* A bug: clearSessionContext leaves out the login flag, which the login
\* lookup is supposed to have reset by itself.
ResolvedSkipsLogin(s, isFailed) ==
    CASE s = "setLogin"     -> "select"
      [] s = "select"       -> "resetLogin"
      [] s = "applyCompany" -> "applyRole"
      [] s = "applyRole"    -> "work"
      [] s \in {"resetLogin", "work"} -> "clearCompany"
      [] s = "clearCompany" -> "clearRole"
      [] OTHER -> IF isFailed THEN "rollback" ELSE "commit"

\* After an await that resolves.
Resolved(s, isFailed) ==
    CASE s = "setLogin"     -> "select"
      [] s = "select"       -> "resetLogin"
      [] s = "applyCompany" -> "applyRole"
      [] s = "applyRole"    -> "work"
      [] s \in {"resetLogin", "work"} -> "clearCompany"
      [] s = "clearCompany" -> "clearRole"
      [] s = "clearRole"    -> "clearLogin"
      [] s = "clearLogin"   -> IF isFailed THEN "rollback" ELSE "commit"

\* Bugs: the catch block goes straight to the rollback; it tries the clears
\* until they succeed.
RejectedWithoutClear(s, isFailed) ==
    IF s = "select" THEN "resetLogin" ELSE "rollback"

RejectedRetriesClears(s, isFailed) ==
    IF s = "select" THEN "resetLogin" ELSE "clearCompany"

\* After an await that rejects.  Only the SELECT of the login is inside the
\* inner try/finally; a clear that fails in the catch block is swallowed and
\* skips the clears after it; everything else enters the catch block.
Rejected(s, isFailed) ==
    IF s = "select" THEN "resetLogin"
    ELSE IF s \in Clearing /\ isFailed THEN "rollback"
    ELSE "clearCompany"

\* The context a statement leaves on its connection.
Effect(s, r, ctx) ==
    CASE s = "setLogin"     -> [ctx EXCEPT !.global_principal_login = TRUE]
      [] s \in {"resetLogin", "clearLogin"} ->
                               [ctx EXCEPT !.global_principal_login = FALSE]
      [] s = "applyCompany" -> ApplyCompany(ctx, Actor[r])
      [] s = "applyRole"    -> ApplyRole(ctx, Actor[r])
      [] s = "clearCompany" -> [ctx EXCEPT !.company_id = Null]
      [] s = "clearRole"    -> [ctx EXCEPT !.user_role = Null]
      [] OTHER              -> ctx

-----------------------------------------------------------------------------
Init ==
    /\ session = [c \in Connections |-> Cleared]
    /\ conn    = [r \in Requests |-> Null]
    /\ pc      = [r \in Requests |-> "idle"]
    /\ failed  = [r \in Requests |-> FALSE]
    /\ txn     = [r \in Requests |-> "none"]
    /\ result  = [r \in Requests |-> "pending"]

Idle(c) == \A r \in Requests : conn[r] # c

\* The pool hands an idle connection, as it was left, to a transaction or to
\* a single query.
Begin(r, c) ==
    /\ pc[r] = "idle"
    /\ Idle(c)
    /\ conn' = [conn EXCEPT ![r] = c]
    /\ pc' = [pc EXCEPT ![r] = First(r)]
    /\ txn' = [txn EXCEPT ![r] = IF Work[r] = "query" THEN "none" ELSE "open"]
    /\ UNCHANGED <<session, failed, result>>

\* The pool or BEGIN TRANSACTION fails: transaction() rejects before its try.
BeginFails(r) ==
    /\ "lost" \in Failures
    /\ pc[r] = "idle"
    /\ pc' = [pc EXCEPT ![r] = "done"]
    /\ result' = [result EXCEPT ![r] = "rejected"]
    /\ UNCHANGED <<session, conn, failed, txn>>

\* A query outside a transaction ends and gives its connection back.
QueryEnds(r) ==
    /\ pc[r] = "query"
    /\ conn' = [conn EXCEPT ![r] = Null]
    /\ pc' = [pc EXCEPT ![r] = "done"]
    /\ \E told \in {"resolved", "rejected"} :
           result' = [result EXCEPT ![r] = told]
    /\ UNCHANGED <<session, failed, txn>>

StatementResolves(r) ==
    /\ pc[r] \in Statements
    /\ conn[r] # Null
    /\ session' = [session EXCEPT
           ![conn[r]] = Effect(pc[r], r, session[conn[r]])]
    /\ pc' = [pc EXCEPT ![r] = Resolved(pc[r], failed[r])]
    /\ UNCHANGED <<conn, failed, txn, result>>

\* A statement rejects and the connection survives: an error, after which the
\* statement has had no effect, or a timeout, after which it may have had it.
\* The work may also throw by itself, whatever the database does.
StatementRejects(r) ==
    /\ pc[r] \in Statements
    /\ conn[r] # Null
    /\ \/ pc[r] = "work"
       \/ pc[r] \notin Clearing /\ "statement" \in Failures
       \/ pc[r] \in Clearing /\ "clear" \in Failures
    /\ \E ctx \in {session[conn[r]], Effect(pc[r], r, session[conn[r]])} :
           session' = [session EXCEPT ![conn[r]] = ctx]
    /\ pc' = [pc EXCEPT ![r] = Rejected(pc[r], failed[r])]
    /\ failed' = [failed EXCEPT ![r] = TRUE]
    /\ UNCHANGED <<conn, txn, result>>

\* The server aborts the transaction while it reads or writes (it lost a
\* deadlock, XACT_ABORT).  The driver gives the connection back at once and
\* rejects every later statement, the clears included.
TransactionAborted(r) ==
    /\ "abort" \in Failures
    /\ pc[r] \in {"select", "work"}
    /\ conn[r] # Null
    /\ conn' = [conn EXCEPT ![r] = Null]
    /\ txn' = [txn EXCEPT ![r] = "rolledBack"]
    /\ pc' = [pc EXCEPT ![r] = Rejected(pc[r], failed[r])]
    /\ failed' = [failed EXCEPT ![r] = TRUE]
    /\ UNCHANGED <<session, result>>

\* The connection breaks.  The pool replaces it by a new one, whose
\* SESSION_CONTEXT is empty, and the server rolls the transaction back.
ConnectionLost(r) ==
    /\ "lost" \in Failures
    /\ pc[r] \in Statements
    /\ conn[r] # Null
    /\ session' = [session EXCEPT ![conn[r]] = Cleared]
    /\ conn' = [conn EXCEPT ![r] = Null]
    /\ txn' = [txn EXCEPT ![r] = "rolledBack"]
    /\ pc' = [pc EXCEPT ![r] = Rejected(pc[r], failed[r])]
    /\ failed' = [failed EXCEPT ![r] = TRUE]
    /\ UNCHANGED result

\* A statement of a transaction that no longer has a connection.
StatementWithoutConnection(r) ==
    /\ pc[r] \in Statements
    /\ conn[r] = Null
    /\ pc' = [pc EXCEPT ![r] = Rejected(pc[r], failed[r])]
    /\ failed' = [failed EXCEPT ![r] = TRUE]
    /\ UNCHANGED <<session, conn, txn, result>>

Commit(r) ==
    /\ pc[r] = "commit"
    /\ txn' = [txn EXCEPT ![r] = "committed"]
    /\ conn' = [conn EXCEPT ![r] = Null]
    /\ pc' = [pc EXCEPT ![r] = "done"]
    /\ result' = [result EXCEPT ![r] = "resolved"]
    /\ UNCHANGED <<session, failed>>

\* A bug: an error of the COMMIT is swallowed like that of a rollback.
CommitRejectsSwallowed(r) ==
    /\ "commit" \in Failures
    /\ pc[r] = "commit"
    /\ \E fate \in {"committed", "rolledBack"} :
           txn' = [txn EXCEPT ![r] = fate]
    /\ session' = [session EXCEPT ![conn[r]] = Cleared]
    /\ conn' = [conn EXCEPT ![r] = Null]
    /\ pc' = [pc EXCEPT ![r] = "done"]
    /\ result' = [result EXCEPT ![r] = "resolved"]
    /\ UNCHANGED failed

\* The connection breaks during COMMIT: the server may have committed or not,
\* and the caller enters the catch block in either case.
CommitRejects(r) ==
    /\ "commit" \in Failures
    /\ pc[r] = "commit"
    /\ \E fate \in {"committed", "rolledBack"} :
           txn' = [txn EXCEPT ![r] = fate]
    /\ session' = [session EXCEPT ![conn[r]] = Cleared]
    /\ conn' = [conn EXCEPT ![r] = Null]
    /\ pc' = [pc EXCEPT ![r] = "clearCompany"]
    /\ failed' = [failed EXCEPT ![r] = TRUE]
    /\ UNCHANGED result

\* A bug: the catch block ends the transaction with a COMMIT.
RollbackCommits(r) ==
    /\ pc[r] = "rollback"
    /\ txn' = [txn EXCEPT ![r] = IF @ = "open" THEN "committed" ELSE @]
    /\ conn' = [conn EXCEPT ![r] = Null]
    /\ pc' = [pc EXCEPT ![r] = "done"]
    /\ result' = [result EXCEPT ![r] = "rejected"]
    /\ UNCHANGED <<session, failed>>

\* rollback(), whose own error is swallowed, then throw error.  Without a
\* connection there is nothing left to roll back.
Rollback(r) ==
    /\ pc[r] = "rollback"
    /\ txn' = [txn EXCEPT ![r] = IF @ = "open" THEN "rolledBack" ELSE @]
    /\ conn' = [conn EXCEPT ![r] = Null]
    /\ pc' = [pc EXCEPT ![r] = "done"]
    /\ result' = [result EXCEPT ![r] = "rejected"]
    /\ UNCHANGED <<session, failed>>

Terminated ==
    /\ \A r \in Requests : pc[r] = "done"
    /\ UNCHANGED vars

Step(r) ==
    \/ \E c \in Connections : Begin(r, c)
    \/ BeginFails(r)
    \/ QueryEnds(r)
    \/ StatementResolves(r)
    \/ StatementRejects(r)
    \/ TransactionAborted(r)
    \/ ConnectionLost(r)
    \/ StatementWithoutConnection(r)
    \/ Commit(r)
    \/ CommitRejects(r)
    \/ Rollback(r)

Next == (\E r \in Requests : Step(r)) \/ Terminated

Spec == Init /\ [][Next]_vars

\* Node runs every callback that is ready, the driver settles every promise,
\* and tarn, the driver's pool, serves waiting requests in order.
FairSpec == Spec /\ \A r \in Requests : WF_vars(Step(r))

-----------------------------------------------------------------------------
(* Properties *)

\* Every variable keeps its type.
TypeOK ==
    /\ session \in [Connections -> Context]
    /\ conn \in [Requests -> Connections \cup {Null}]
    /\ pc \in [Requests -> PC]
    /\ failed \in [Requests -> BOOLEAN]
    /\ txn \in [Requests -> {"none", "open", "committed", "rolledBack"}]
    /\ result \in [Requests -> {"pending", "resolved", "rejected"}]

\* A connection in the pool carries no context: docs/technical/
\* runtime-and-operations.md says that runtime SQL access clears the
\* request context around transactions (clearSessionContext on both paths).
IdleConnectionsCleared ==
    \A c \in Connections : Idle(c) => session[c] = Cleared

\* On whatever connection a request runs, the policy shows it the rows of a
\* company only if it runs under a context of that company or of a super
\* admin: the context of an earlier request on the connection is gone.
NoForeignRows ==
    \A r \in Requests : \A company \in Companies :
        conn[r] # Null /\ TenantPredicate(company, session[conn[r]]) =>
            /\ Work[r] = "scoped"
            /\ Actor[r].isSuperAdmin \/ Actor[r].companyId = company

\* 002_rls.sql:45: the login lookup is the only unauthenticated path that
\* reads global principals (users rows whose company_id is NULL).
GlobalPrincipalsOnlyByLogin ==
    \A r \in Requests :
        conn[r] # Null /\ Visible("users", Null, session[conn[r]]) =>
            \/ Work[r] = "login"
            \/ Work[r] = "scoped" /\ Actor[r].isSuperAdmin

\* Whatever fails, and whatever an earlier request left on the connection,
\* the statements of a scoped work run under the company and the role of
\* their own actor: applySessionContext overwrites both keys, even with NULL.
ScopedWorkOwnsItsTenant ==
    \A r \in Requests :
        pc[r] = "work" /\ conn[r] # Null /\ Work[r] = "scoped" =>
            /\ session[conn[r]].company_id = Actor[r].companyId
            /\ session[conn[r]].user_role = SessionRole(Actor[r])

\* A caller whose transaction() resolved finds its writes committed, and a
\* transaction whose work or clears failed is never committed.
ResolvedIsCommitted ==
    \A r \in Requests :
        result[r] = "resolved" /\ Work[r] # "query" =>
            txn[r] = "committed" /\ ~failed[r]

\* A caller whose transaction() rejected finds nothing committed, as long as
\* the COMMIT itself is acknowledged.
RejectedIsRolledBack ==
    \A r \in Requests : result[r] = "rejected" => txn[r] # "committed"

\* A transaction that commits has cleared the context of its connection and
\* has not failed before: clearSessionContext precedes commit, whatever the
\* failures, so only a transaction that did not commit can leave a context.
CommitFollowsClear ==
    [][\A r \in Requests :
          txn[r] = "open" /\ txn'[r] = "committed" =>
              ~failed[r] /\ session[conn[r]] = Cleared]_vars

-----------------------------------------------------------------------------
(* The abstract specification: sessions of one's own *)

\* The context the other modules take a statement on rows to run under: the
\* actor's for a scoped work, the login flag alone for the login lookup
\* (BootstrapAccess, CanSignIn), and none for the rest (BootstrapAccess, Seen;
\* TenantAccess, PooledContext).
Needed ==
    [r \in Requests |->
        CASE Work[r] = "scoped" ->
                 [company_id             |-> Actor[r].companyId,
                  user_role              |-> SessionRole(Actor[r]),
                  global_principal_login |-> FALSE]
          [] Work[r] = "login" -> [Cleared EXCEPT !.global_principal_login = TRUE]
          [] OTHER -> Cleared]

\* On the way there and back a key holds the request's own value or none.
Scope ==
    [r \in Requests |->
        {ctx \in Context :
            /\ ctx.company_id \in {Null, Needed[r].company_id}
            /\ ctx.user_role \in {Null, Needed[r].user_role}
            /\ ctx.global_principal_login => Needed[r].global_principal_login}]

PrivatePhase ==
    [r \in Requests |->
        CASE pc[r] = "idle" -> "waiting"
          [] pc[r] # "idle" /\ conn[r] = Null -> "closed"
          [] pc[r] \in {"query", "select", "work"} /\ conn[r] # Null -> "working"
          [] OTHER -> "open"]

PrivateSession ==
    [r \in Requests |-> IF conn[r] = Null THEN Cleared ELSE session[conn[r]]]

Committed == {r \in Requests : txn[r] = "committed"}

Private == INSTANCE PrivateSessions WITH
    Fresh <- Cleared,
    Transactions <- {r \in Requests : Work[r] # "query"},
    CommitMayBeUnacknowledged <- "commit" \in Failures,
    phase <- PrivatePhase,
    own <- PrivateSession,
    committed <- Committed,
    answer <- result

\* The pool cannot be told from a fresh session for every request: a request
\* that gets a connection finds it cleared, reads and writes rows under
\* exactly the context its service counts on, is never touched by another
\* request while it holds it, and is committed with a cleared context and an
\* answer to match, or not at all.
ImplementsPrivateSessions == Private!Spec

\* Every request ends and gives its connection back, whatever fails, even
\* when there are more requests than connections.
EveryRequestSettles ==
    \A r \in Requests : <>(pc[r] = "done" /\ conn[r] = Null)

=============================================================================
