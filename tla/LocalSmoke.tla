----------------------------- MODULE LocalSmoke -----------------------------
(***************************************************************************)
(* runLocalRlsSmoke (scripts/run-local-rls-smoke.mjs): create a disposable *)
(* database on a SQL Server that is already there, run the smoke script in *)
(* it, drop it.                                                            *)
(*                                                                         *)
(* Several runs may share the server, and the name of a database: it comes *)
(* from the environment, or from the clock, which two runs can read in the *)
(* same millisecond.  Each of the three commands is a child process; it    *)
(* may fail, or do its work and fail all the same, and the wrapper may be  *)
(* killed between two of them.                                             *)
(***************************************************************************)
EXTENDS ChildProcess

CONSTANTS
    Stamped,     \* names made from the clock
    Given,       \* names in SQL_SMOKE_DATABASE that are fit for a database
    System,      \* names of system databases
    Malformed    \* names that are not an identifier

ASSUME LocalSmokeAssumption ==
    /\ Nobody \notin Stamped \cup Given \cup System \cup Malformed
    /\ (Stamped \cup Given) \cap (System \cup Malformed) = {}

VARIABLES
    databases,    \* the databases of the server, each with who created it
    name,         \* smokeDatabase of a run
    keepDatabase, \* SQL_SMOKE_KEEP_DATABASE is "true"
    lpc,          \* what a run does next
    created,      \* its created flag
    primaryError, \* it holds an error to throw
    passed,       \* history: the script passed in its database
    unsaid,       \* history: a command of its failed, or did not say what it did
    lexit         \* the exit code of the process, Nobody while it runs

localVars == <<databases, name, keepDatabase, lpc, created, primaryError,
               passed, unsaid, lexit>>

Env == Stamped \cup Given \cup System \cup Malformed

\* Databases other people keep on the server.
Others == {[name |-> n, by |-> Nobody] : n \in System}

LocalInit ==
    /\ databases \in {Others} \cup
           {Others \cup {[name |-> n, by |-> Nobody]} : n \in Given}
    /\ name = [r \in Runs |-> Nobody]
    /\ keepDatabase = [r \in Runs |-> FALSE]
    /\ lpc = [r \in Runs |-> "idle"]
    /\ created = [r \in Runs |-> FALSE]
    /\ primaryError = [r \in Runs |-> FALSE]
    /\ passed = [r \in Runs |-> FALSE]
    /\ unsaid = [r \in Runs |-> FALSE]
    /\ lexit = [r \in Runs |-> Nobody]

\* DB_ID(N'...') IS NOT NULL
Exists(n) == \E d \in databases : d.name = n

-----------------------------------------------------------------------------
(* The commands *)

\* A bug: sqlcmd without -b ends with 0 whatever the server says.
SqlcmdWithoutB(worked) == {0, 1}

\* The exit codes of sqlcmd for a batch that worked on the server, or did not:
\* -b turns a SQL error into a code, and a connection or a client container
\* that breaks gives one even when the batch worked.
Sqlcmd(worked) == IF worked THEN {0, 1} ELSE {1}

-----------------------------------------------------------------------------
(* runLocalRlsSmoke *)

AssertSafeDatabaseName(n) == n \notin Malformed \cup System

\* The name, checked before anything is done; so is SQLSERVER_PASSWORD.
StartLocal(r, n, keep, password) ==
    /\ lpc[r] = "idle"
    /\ name' = [name EXCEPT ![r] = n]
    /\ keepDatabase' = [keepDatabase EXCEPT ![r] = keep]
    /\ IF password /\ AssertSafeDatabaseName(n)
       THEN lpc' = [lpc EXCEPT ![r] = "create"] /\ UNCHANGED lexit
       ELSE /\ lpc' = [lpc EXCEPT ![r] = "done"]
            /\ lexit' = [lexit EXCEPT ![r] = 1]
    /\ UNCHANGED <<databases, created, primaryError, passed, unsaid>>

\* The finally block, which drops the database or has nothing to drop.
Finally(r, isCreated) ==
    lpc' = [lpc EXCEPT ![r] = IF isCreated /\ ~keepDatabase[r] THEN "drop" ELSE "end"]

\* A bug: the flag is set before the command is run.
CreateFlaggedEarly(r) ==
    /\ lpc[r] = "create"
    /\ created' = [created EXCEPT ![r] = TRUE]
    /\ \E worked \in BOOLEAN : \E code \in Sqlcmd(worked) :
           /\ worked => ~Exists(name[r])
           /\ databases' = IF worked
                           THEN databases \cup {[name |-> name[r], by |-> r]}
                           ELSE databases
           /\ unsaid' = [unsaid EXCEPT ![r] = worked /\ code # 0]
           /\ IF Runner(code) = "resolves"
              THEN /\ lpc' = [lpc EXCEPT ![r] = "script"]
                   /\ UNCHANGED primaryError
              ELSE /\ primaryError' = [primaryError EXCEPT ![r] = TRUE]
                   /\ Finally(r, TRUE)
    /\ UNCHANGED <<name, keepDatabase, passed, lexit>>

\* createDatabaseSql throws when the name is taken; created is set once the
\* command has said that it worked.
Create(r) ==
    /\ lpc[r] = "create"
    /\ \E worked \in BOOLEAN : \E code \in Sqlcmd(worked) :
           /\ worked => ~Exists(name[r])
           /\ databases' = IF worked
                           THEN databases \cup {[name |-> name[r], by |-> r]}
                           ELSE databases
           /\ unsaid' = [unsaid EXCEPT ![r] = worked /\ code # 0]
           /\ IF Runner(code) = "resolves"
              THEN /\ created' = [created EXCEPT ![r] = TRUE]
                   /\ lpc' = [lpc EXCEPT ![r] = "script"]
                   /\ UNCHANGED primaryError
              ELSE /\ primaryError' = [primaryError EXCEPT ![r] = TRUE]
                   /\ Finally(r, FALSE)
                   /\ UNCHANGED created
    /\ UNCHANGED <<name, keepDatabase, passed, lexit>>

\* A bug: a script that fails leaves the database to be looked at.
ScriptFailsWithoutDrop(r) ==
    /\ lpc[r] = "script"
    /\ \E worked \in BOOLEAN : \E code \in Sqlcmd(worked) :
           /\ worked => Exists(name[r])
           /\ passed' = [passed EXCEPT ![r] = worked]
           /\ primaryError' = [primaryError EXCEPT ![r] = Runner(code) = "rejects"]
           /\ Finally(r, Runner(code) = "resolves")
    /\ UNCHANGED <<databases, name, keepDatabase, created, unsaid, lexit>>

\* The smoke script passes or fails, in a database that has to be there.
Script(r) ==
    /\ lpc[r] = "script"
    /\ \E worked \in BOOLEAN : \E code \in Sqlcmd(worked) :
           /\ worked => Exists(name[r])
           /\ passed' = [passed EXCEPT ![r] = worked]
           /\ primaryError' = [primaryError EXCEPT ![r] = Runner(code) = "rejects"]
    /\ Finally(r, created[r])
    /\ UNCHANGED <<databases, name, keepDatabase, created, unsaid, lexit>>

\* dropDatabaseSql drops whatever has the name, if anything has; an error of
\* the clean-up is added to the one there is, or takes its place.
Drop(r) ==
    /\ lpc[r] = "drop"
    /\ \E worked \in BOOLEAN : \E code \in Sqlcmd(worked) :
           /\ databases' = IF worked THEN {d \in databases : d.name # name[r]}
                                     ELSE databases
           /\ unsaid' = [unsaid EXCEPT ![r] = unsaid[r] \/ ~worked]
           /\ primaryError' = [primaryError EXCEPT ![r] =
                  primaryError[r] \/ Runner(code) = "rejects"]
    /\ lpc' = [lpc EXCEPT ![r] = "end"]
    /\ UNCHANGED <<name, keepDatabase, created, passed, lexit>>

\* throw primaryError, which the entry point turns into exit code 1.
EndLocal(r) ==
    /\ lpc[r] = "end"
    /\ lpc' = [lpc EXCEPT ![r] = "done"]
    /\ lexit' = [lexit EXCEPT ![r] = IF primaryError[r] THEN 1 ELSE 0]
    /\ UNCHANGED <<databases, name, keepDatabase, created, primaryError,
                   passed, unsaid>>

\* The process is killed; no finally block runs.
KillLocal(r) ==
    /\ lpc[r] \in {"create", "script", "drop", "end"}
    /\ lpc' = [lpc EXCEPT ![r] = "killed"]
    /\ UNCHANGED <<databases, name, keepDatabase, created, primaryError,
                   passed, unsaid, lexit>>

LocalWork(r) == Create(r) \/ Script(r) \/ Drop(r) \/ EndLocal(r)

LocalNext ==
    \E r \in Runs :
        \/ \E n \in Env, keep \in BOOLEAN, password \in BOOLEAN :
               StartLocal(r, n, keep, password)
        \/ LocalWork(r)
        \/ KillLocal(r)

-----------------------------------------------------------------------------
(* Properties *)

LocalTypeOK ==
    /\ databases \subseteq [name : Env, by : Runs \cup {Nobody}]
    /\ name \in [Runs -> Env \cup {Nobody}]
    /\ keepDatabase \in [Runs -> BOOLEAN]
    /\ lpc \in [Runs -> {"idle", "create", "script", "drop", "end", "done", "killed"}]
    /\ created \in [Runs -> BOOLEAN]
    /\ primaryError \in [Runs -> BOOLEAN]
    /\ passed \in [Runs -> BOOLEAN]
    /\ unsaid \in [Runs -> BOOLEAN]
    /\ lexit \in [Runs -> {0, 1, Nobody}]

\* The wrapper creates and drops "an isolated smoke database": a database
\* goes away only by the run that created it.  Runs that share a name, a name
\* that is taken, failed commands and killed runs never make one run drop
\* another's database, or anybody else's, although the DROP goes by name.
OnlyOwnDropped ==
    [][\A d \in databases :
          d \notin databases' => d.by # Nobody /\ lpc[d.by] = "drop"
                                 /\ lpc'[d.by] = "end"]_localVars

\* Exit code 0 is the truth: the script passed in a database of the run's own,
\* which is gone again unless it was to be kept.
ZeroIsTrue ==
    \A r \in Runs : lexit[r] = 0 =>
        /\ passed[r]
        /\ (\E d \in databases : d.by = r) <=> keepDatabase[r]

\* A run that was not killed leaves a database behind only if it was told to
\* keep it, or if a command of its failed or did not say what it had done.
NothingLeftBehind ==
    \A r \in Runs : lpc[r] = "done" /\ (\E d \in databases : d.by = r) =>
        keepDatabase[r] \/ unsaid[r]

=============================================================================
