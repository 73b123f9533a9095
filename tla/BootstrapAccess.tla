-------------------------- MODULE BootstrapAccess --------------------------
(***************************************************************************)
(* BootstrapAccessService.completeFirstUse (apps/api/src/auth) and the     *)
(* super admin seed (db/sqlserver/seeds/002_super_admin.template.sql): the *)
(* two writers of the columns that decide who can sign in.                 *)
(*                                                                         *)
(* There are two accounts: the tenant administrator that createCompany     *)
(* left with a one-time token, and the global one the seed creates.  The   *)
(* seed names an email; it may be the tenant administrator's, whose        *)
(* account it then promotes.                                               *)
(*                                                                         *)
(* A use of the token is a transaction that begins on the process's pool   *)
(* and sets no session context; what its clears and its rollback do is the *)
(* subject of DatabaseSessions.  Each statement of the seed is committed   *)
(* by itself, an error ends the statement and not the batch, and an        *)
(* operator may run it twice, at once or again after an interruption.      *)
(***************************************************************************)
EXTENDS RowLevelSecurity, ConnectionPool

CONSTANTS
    Seeds,  \* runs of the super admin seed
    Tenant  \* the company of the tenant administrator

Accounts == {"tenant_admin", "super_admin"}

ASSUME BootstrapAssumption ==
    /\ Tenant \in Companies
    /\ Null \notin Calls \cup Accounts
    /\ Calls \cap Seeds = {}

VARIABLES
    policy,      \* 002_rls.sql has been applied
    roles,       \* 001_roles.sql was applied before everything here
    named,       \* the account whose email the seed names
    users,       \* dbo.users, by account
    globalRoles, \* dbo.user_roles: the accounts with the super_admin role
    presented,   \* the token a call of completeFirstUse presents
    pc,          \* what a call does next
    locked,      \* the call whose transaction holds the row it updated
    txn,         \* the fate of a call's transaction
    answer,      \* what its caller was told
    spentBefore, \* history: the uses committed before a call was made
    usedLast,    \* history: the tenant administrator's account was last written
                 \* by a committed use, not by the seed
    step,        \* what a run of the seed does next
    adminId,     \* its @SuperAdminId; Null stands for an id without a row
    erred        \* it printed an error

useVars == <<presented, pc, locked, txn, answer, spentBefore>>
seedVars == <<step, adminId, erred>>
vars == <<poolVars, policy, roles, named, users, globalRoles, useVars,
          usedLast, seedVars>>

CompanyOf(a) == IF a = "tenant_admin" THEN Tenant ELSE Null

\* The columns of dbo.users that the two writers share.  password_hash is set
\* together with is_global_admin and by the seed alone.
User == [used : BOOLEAN, force_rotation : BOOLEAN, is_global_admin : BOOLEAN]

\* May a statement of a transaction without context see the row of a?
Seen(table, a) ==
    /\ a \in DOMAIN users
    /\ policy => Visible(table, CompanyOf(a), Cleared)

\* findGlobalUserRows and verify: does the right password sign a in?
CanSignIn(a) ==
    LET ctx == [Cleared EXCEPT !.global_principal_login = TRUE]
    IN  /\ a \in DOMAIN users
        /\ users[a].is_global_admin
        /\ ~users[a].force_rotation
        /\ a \in globalRoles
        /\ policy => /\ Visible("users", CompanyOf(a), ctx)
                     /\ Visible("user_roles", Null, ctx)

-----------------------------------------------------------------------------
Init ==
    /\ PoolInit
    /\ policy = FALSE
    /\ roles \in BOOLEAN
    /\ named \in Accounts
    /\ users = [a \in {"tenant_admin"} |->
           [used |-> FALSE, force_rotation |-> TRUE, is_global_admin |-> FALSE]]
    /\ globalRoles = {}
    /\ presented = [c \in Calls |-> Null]
    /\ pc = [c \in Calls |-> "idle"]
    /\ locked = Null
    /\ txn = [c \in Calls |-> "none"]
    /\ answer = [c \in Calls |-> "none"]
    /\ spentBefore = [c \in Calls |-> {}]
    /\ usedLast = FALSE
    /\ step = [s \in Seeds |-> "idle"]
    /\ adminId = [s \in Seeds |-> Null]
    /\ erred = [s \in Seeds |-> FALSE]

-----------------------------------------------------------------------------
(* The operator *)

\* The policy comes last (db/sqlserver/migrations/README.md), after the seeds
\* or, by mistake, before them; its schema lock waits for updated rows.
ApplyPolicy ==
    /\ ~policy
    /\ locked = Null
    /\ policy' = TRUE
    /\ UNCHANGED <<poolVars, roles, named, users, globalRoles, useVars,
                   usedLast, seedVars>>

-----------------------------------------------------------------------------
(* completeFirstUse *)

Spent == {c \in Calls : txn[c] = "committed"}

\* A call with a token, the issued one or another, asks for the pool.
Present(c, token) ==
    /\ pc[c] = "idle"
    /\ GetPool(c)
    /\ presented' = [presented EXCEPT ![c] = token]
    /\ pc' = [pc EXCEPT ![c] = "pool"]
    /\ spentBefore' = [spentBefore EXCEPT ![c] = Spent]
    /\ UNCHANGED <<policy, roles, named, users, globalRoles, locked, txn,
                   answer, usedLast, seedVars>>

\* What a call leaves alone once it has asked for the pool.
Elsewhere ==
    UNCHANGED <<poolVars, policy, roles, named, globalRoles, presented,
                spentBefore, seedVars>>

Ends(c, told, fate) ==
    /\ pc' = [pc EXCEPT ![c] = "done"]
    /\ answer' = [answer EXCEPT ![c] = told]
    /\ txn' = [txn EXCEPT ![c] = fate]

BeginUse(c) ==
    /\ pc[c] = "pool"
    /\ getting[c] = "has"
    /\ pc' = [pc EXCEPT ![c] = "lookup"]
    /\ txn' = [txn EXCEPT ![c] = "open"]
    /\ UNCHANGED <<users, usedLast, locked, answer>>
    /\ Elsewhere

NoPool(c) ==
    /\ pc[c] = "pool"
    /\ getting[c] = "rejected"
    /\ Ends(c, "failed", "none")
    /\ UNCHANGED <<users, usedLast, locked>>
    /\ Elsewhere

\* A bug: the lookup does not ask whether the token has been used.
LookupAny(c) ==
    /\ pc[c] = "lookup"
    /\ IF /\ presented[c] = "issued"
          /\ Seen("users", "tenant_admin")
       THEN pc' = [pc EXCEPT ![c] = "mark"] /\ UNCHANGED <<answer, txn>>
       ELSE Ends(c, "refused", "rolledBack")
    /\ UNCHANGED <<users, usedLast, locked>>
    /\ Elsewhere

\* findUnusedBootstrapAccess reads the last committed row, and either finds it
\* or throws.  SQL Server may make it wait for an update under way instead;
\* that is the same lookup, later.
Lookup(c) ==
    /\ pc[c] = "lookup"
    /\ IF /\ presented[c] = "issued"
          /\ Seen("users", "tenant_admin")
          /\ ~users["tenant_admin"].used
       THEN pc' = [pc EXCEPT ![c] = "mark"] /\ UNCHANGED <<answer, txn>>
       ELSE Ends(c, "refused", "rolledBack")
    /\ UNCHANGED <<users, usedLast, locked>>
    /\ Elsewhere

Used(user) == [user EXCEPT !.used = TRUE, !.force_rotation = TRUE]

\* The UPDATE, by id alone: it waits for the row, does not look at used_at
\* again, and changes nothing, without an error, when the policy hides it.
Mark(c) ==
    /\ pc[c] = "mark"
    /\ locked = Null
    /\ pc' = [pc EXCEPT ![c] = "commit"]
    /\ locked' = IF Seen("users", "tenant_admin") THEN c ELSE Null
    /\ UNCHANGED <<users, usedLast, answer, txn>>
    /\ Elsewhere

\* What COMMIT and ROLLBACK do to the row c has updated.
Release(c) == locked' = IF locked = c THEN Null ELSE locked

\* A bug: the use does not force the rotation.
WriteUseOnly(c) ==
    /\ users' = IF locked = c THEN [users EXCEPT !["tenant_admin"].used = TRUE]
                              ELSE users
    /\ usedLast' = TRUE

Write(c) ==
    /\ users' = IF locked = c THEN [users EXCEPT !["tenant_admin"] = Used(@)]
                              ELSE users
    /\ usedLast' = TRUE

CommitUse(c) ==
    /\ pc[c] = "commit"
    /\ Ends(c, "accepted", "committed")
    /\ Write(c)
    /\ Release(c)
    /\ Elsewhere

CommitUseUnacknowledged(c) ==
    /\ pc[c] = "commit"
    /\ Ends(c, "failed", "committed")
    /\ Write(c)
    /\ Release(c)
    /\ Elsewhere

\* A bug: the transaction of a failed use is left open.
UseFailsOpen(c) ==
    /\ pc[c] \in {"lookup", "mark", "commit"}
    /\ Ends(c, "failed", "open")
    /\ UNCHANGED <<users, usedLast, locked>>
    /\ Elsewhere

\* A statement fails or the connection is lost; transaction() rolls back.
UseFails(c) ==
    /\ pc[c] \in {"lookup", "mark", "commit"}
    /\ Ends(c, "failed", "rolledBack")
    /\ Release(c)
    /\ UNCHANGED <<users, usedLast>>
    /\ Elsewhere

-----------------------------------------------------------------------------
(* 002_super_admin.template.sql *)

\* What a run of the seed leaves alone.
SeedElsewhere ==
    UNCHANGED <<poolVars, policy, roles, named, useVars>>

SeedGoesOn(s, next) == step' = [step EXCEPT ![s] = next]

Errs(s) == erred' = [erred EXCEPT ![s] = TRUE]

\* The ids of the role, without which the batch ends with a THROW, and of the
\* user; nothing changes dbo.roles between the two.
SeedFinds(s) ==
    /\ step[s] = "idle"
    /\ IF roles
       THEN /\ adminId' = [adminId EXCEPT ![s] =
                   IF Seen("users", named) THEN named ELSE Null]
            /\ SeedGoesOn(s, IF Seen("users", named) THEN "update" ELSE "insert")
            /\ UNCHANGED erred
       ELSE SeedGoesOn(s, "done") /\ Errs(s) /\ UNCHANGED adminId
    /\ UNCHANGED <<users, globalRoles, usedLast>>
    /\ SeedElsewhere

Promoted(user) == [user EXCEPT !.is_global_admin = TRUE, !.force_rotation = FALSE]

\* A bug: only a new account is given the role.
SeedUpdatesOnly(s) ==
    /\ step[s] = "update"
    /\ adminId[s] = "tenant_admin" => locked = Null
    /\ IF Seen("users", adminId[s])
       THEN /\ users' = [users EXCEPT ![adminId[s]] = Promoted(@)]
            /\ usedLast' = (usedLast /\ adminId[s] # "tenant_admin")
       ELSE UNCHANGED <<users, usedLast>>
    /\ SeedGoesOn(s, "done")
    /\ UNCHANGED <<globalRoles, adminId, erred>>
    /\ SeedElsewhere

\* UPDATE by id: it waits for a use that has updated the row.
SeedUpdates(s) ==
    /\ step[s] = "update"
    /\ adminId[s] = "tenant_admin" => locked = Null
    /\ IF Seen("users", adminId[s])
       THEN /\ users' = [users EXCEPT ![adminId[s]] = Promoted(@)]
            /\ usedLast' = (usedLast /\ adminId[s] # "tenant_admin")
       ELSE UNCHANGED <<users, usedLast>>
    /\ SeedGoesOn(s, "role")
    /\ UNCHANGED <<globalRoles, adminId, erred>>
    /\ SeedElsewhere

\* INSERT of an id that is new, under UQ_users_email and the block predicate;
\* when it is rejected the batch goes on with the id of no row.
SeedInserts(s) ==
    /\ step[s] = "insert"
    /\ IF named \notin DOMAIN users /\ (policy => MayWrite("users", Null, Cleared))
       THEN /\ users' = [a \in DOMAIN users \cup {named} |->
                   IF a = named
                   THEN [used |-> FALSE, force_rotation |-> FALSE,
                         is_global_admin |-> TRUE]
                   ELSE users[a]]
            /\ adminId' = [adminId EXCEPT ![s] = named]
            /\ UNCHANGED erred
       ELSE Errs(s) /\ UNCHANGED <<users, adminId>>
    /\ SeedGoesOn(s, "role")
    /\ UNCHANGED <<globalRoles, usedLast>>
    /\ SeedElsewhere

\* The global role rows a statement without context finds.
SeenRole(a) ==
    /\ a \in globalRoles
    /\ policy => Visible("user_roles", Null, Cleared)

\* IF NOT EXISTS.
SeedChecksRole(s) ==
    /\ step[s] = "role"
    /\ SeedGoesOn(s, IF SeenRole(adminId[s]) THEN "done" ELSE "assign")
    /\ UNCHANGED <<users, globalRoles, usedLast, adminId, erred>>
    /\ SeedElsewhere

\* A bug: nothing holds a role to an account that is there.
SeedAssignsUnkeyed(s) ==
    /\ step[s] = "assign"
    /\ globalRoles' = globalRoles \cup {adminId[s]}
    /\ SeedGoesOn(s, "done")
    /\ UNCHANGED <<users, usedLast, adminId, erred>>
    /\ SeedElsewhere

\* INSERT dbo.user_roles, under the foreign key, UX_user_roles_global_role and
\* the block predicate.
SeedAssigns(s) ==
    /\ step[s] = "assign"
    /\ IF /\ adminId[s] \in DOMAIN users \ globalRoles
          /\ policy => MayWrite("user_roles", Null, Cleared)
       THEN globalRoles' = globalRoles \cup {adminId[s]} /\ UNCHANGED erred
       ELSE Errs(s) /\ UNCHANGED globalRoles
    /\ SeedGoesOn(s, "done")
    /\ UNCHANGED <<users, usedLast, adminId>>
    /\ SeedElsewhere

\* The operator, or the connection, ends sqlcmd between two statements.
SeedInterrupted(s) ==
    /\ step[s] \in {"update", "insert", "role", "assign"}
    /\ SeedGoesOn(s, "interrupted")
    /\ UNCHANGED <<users, globalRoles, usedLast, adminId, erred>>
    /\ SeedElsewhere

-----------------------------------------------------------------------------
UseWork(c) == BeginUse(c) \/ NoPool(c) \/ Lookup(c) \/ Mark(c) \/ CommitUse(c)

UseTrouble(c) == UseFails(c) \/ CommitUseUnacknowledged(c)

SeedRun(s) ==
    \/ SeedFinds(s)
    \/ SeedUpdates(s)
    \/ SeedInserts(s)
    \/ SeedChecksRole(s)
    \/ SeedAssigns(s)
    \/ SeedInterrupted(s)

Connect ==
    /\ ConnectSucceeds \/ ConnectFails
    /\ UNCHANGED <<policy, roles, named, users, globalRoles, useVars,
                   usedLast, seedVars>>

Next ==
    \/ Connect
    \/ ApplyPolicy
    \/ \E c \in Calls :
           \/ \E token \in {"issued", "other"} : Present(c, token)
           \/ UseWork(c)
           \/ UseTrouble(c)
    \/ \E s \in Seeds : SeedRun(s)

Spec == Init /\ [][Next]_vars

\* A connect ends, one way or the other, Node runs the callers it wakes, and
\* the server runs statements and grants locks.  Nothing is said of calls
\* being made, of failures, of the policy or of the seed.
FairSpec == Spec /\ WF_vars(Connect) /\ \A c \in Calls : WF_vars(UseWork(c))

-----------------------------------------------------------------------------
(* Properties *)

TypeOK ==
    /\ PoolTypeOK
    /\ policy \in BOOLEAN /\ roles \in BOOLEAN /\ named \in Accounts
    /\ DOMAIN users \subseteq Accounts
    /\ \A a \in DOMAIN users : users[a] \in User
    /\ globalRoles \subseteq DOMAIN users
    /\ presented \in [Calls -> {Null, "issued", "other"}]
    /\ pc \in [Calls -> {"idle", "pool", "lookup", "mark", "commit", "done"}]
    /\ locked \in Calls \cup {Null}
    /\ txn \in [Calls -> {"none", "open", "committed", "rolledBack"}]
    /\ answer \in [Calls -> {"none", "accepted", "refused", "failed"}]
    /\ spentBefore \in [Calls -> SUBSET Calls]
    /\ usedLast \in BOOLEAN
    /\ step \in [Seeds -> {"idle", "update", "insert", "role", "assign",
                           "done", "interrupted"}]
    /\ adminId \in [Seeds -> Accounts \cup {Null}]
    /\ erred \in [Seeds -> BOOLEAN]

\* A token that a use has spent, whether or not its caller was told, is never
\* accepted or spent again for a caller who presents it afterwards
\* (bootstrap-access.service.ts:53), whatever the seed, the policy and
\* failures do in between.
ReuseRefused ==
    \A c \in Calls : spentBefore[c] # {} =>
        answer[c] # "accepted" /\ c \notin Spent

\* The README's "one-time-token bootstrap access": two uses are never both
\* accepted, not even when they overlap.
OneTimeUse ==
    \A c, d \in Calls : answer[c] = "accepted" /\ answer[d] = "accepted" => c = d

\* "Any temporary bootstrap access MUST require rotation or replacement on
\* first successful use": once a use is committed the account cannot sign in,
\* even if the seed promotes it while the use is on its way, until the seed's
\* UPDATE writes it after that commit.
UseForcesRotation == usedLast => ~CanSignIn("tenant_admin")

\* A run of the seed that ends without an error leaves an account that can
\* sign in, whatever runs of it were interrupted before or are at work beside
\* it, and applying the policy afterwards does not take that away.  (A
\* promoted tenant administrator is another matter, as UseForcesRotation and
\* the policy are then in the way.)
CleanSeedSuffices ==
    \A s \in Seeds :
        named = "super_admin" /\ step[s] = "done" /\ ~erred[s] =>
            CanSignIn("super_admin")

\* "RLS is applied last so bootstrap seed operations can create the global
\* `super_admin` identity before tenant policies are enabled"
\* (db/sqlserver/migrations/README.md:12): once it is applied, no statement
\* without a context makes anybody a global admin, a run of the seed that was
\* already at work included.
PolicyClosesSeed ==
    [][policy => \A a \in Accounts : CanSignIn(a)' => CanSignIn(a)]_vars

\* Every use is answered: a shared connect that fails does not strand the
\* calls that await it, nor a use those that wait for its row.
EveryUseAnswered ==
    \A c \in Calls : pc[c] # "idle" ~> answer[c] # "none"

=============================================================================
