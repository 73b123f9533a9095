--------------------------- MODULE ContainerSmoke ---------------------------
(***************************************************************************)
(* scripts/run-rls-smoke.mjs: start a SQL Server container, wait for it,   *)
(* copy the scripts into it, run the smoke script, remove the container.   *)
(*                                                                         *)
(* The name of the container is fixed (SQL_SMOKE_CONTAINER), so all runs   *)
(* on a machine share it: each begins and ends by removing whatever has    *)
(* the name, and its docker commands go to whatever has it by then.        *)
(***************************************************************************)
EXTENDS ChildProcess

CONSTANTS
    SQL_SMOKE_RETRIES, \* the environment variable, as a number; Nobody when
                       \* it is not set or no integer
    DefaultRetries     \* 45 in the code

ASSUME ContainerSmokeAssumption ==
    /\ SQL_SMOKE_RETRIES \in Int \cup {Nobody}
    /\ DefaultRetries \in Nat \ {0}

VARIABLES
    container, \* who started the container, or none, and what is in it
    cpc,       \* what a run does next
    attempt,   \* the loop variable of waitForSqlServer
    threw,     \* its try block has thrown
    passedIn,  \* history: who started the container its script passed in
    conflict,  \* history: it found the name taken
    unremoved, \* history: a removal of its left the container there
    alone,     \* history: no other run has been at work beside it
    cexit      \* the exit code of the process, Nobody while it runs

containerVars == <<container, cpc, attempt, threw, passedIn, conflict,
                   unremoved, alone, cexit>>

None == [there |-> FALSE, by |-> Nobody, ready |-> FALSE, copied |-> FALSE,
         used |-> FALSE]

Started(by) == [None EXCEPT !.there = TRUE, !.by = by]

InTry == {"run", "wait", "copy", "script"}
Live == {"remove", "finally"} \cup InTry

\* A bug: any number is taken.
PositiveIntUnchecked(value, fallback) == value

\* positiveInt
PositiveInt(value, fallback) ==
    IF value # Nobody /\ value > 0 THEN value ELSE fallback

Retries == PositiveInt(SQL_SMOKE_RETRIES, DefaultRetries)

ContainerInit ==
    /\ container \in {None, Started(Nobody)}
    /\ cpc = [r \in Runs |-> "idle"]
    /\ attempt = [r \in Runs |-> 1]
    /\ threw = [r \in Runs |-> FALSE]
    /\ passedIn = [r \in Runs |-> {}]
    /\ conflict = [r \in Runs |-> FALSE]
    /\ unremoved = [r \in Runs |-> FALSE]
    /\ alone = [r \in Runs |-> TRUE]
    /\ cexit = [r \in Runs |-> Nobody]

\* SQL Server in the container accepts connections.
ServerReady ==
    /\ container.there /\ ~container.ready
    /\ container' = [container EXCEPT !.ready = TRUE]
    /\ UNCHANGED <<cpc, attempt, threw, passedIn, conflict, unremoved, alone, cexit>>

StartContainer(r) ==
    /\ cpc[r] = "idle"
    /\ cpc' = [cpc EXCEPT ![r] = "remove"]
    /\ alone' = [q \in Runs |->
           IF q = r THEN \A p \in Runs : cpc[p] \notin Live
           ELSE alone[q] /\ cpc[q] \notin Live]
    /\ UNCHANGED <<container, attempt, threw, passedIn, conflict, unremoved, cexit>>

\* removeContainer: docker rm -f, whose failure is ignored.
RemoveContainer(r) ==
    \/ container' = None /\ UNCHANGED unremoved
    \/ UNCHANGED container /\ unremoved' = [unremoved EXCEPT ![r] = TRUE]

\* A bug: the container a killed run left is not removed first.
RemoveFirstForgotten(r) ==
    /\ cpc[r] = "remove"
    /\ cpc' = [cpc EXCEPT ![r] = "run"]
    /\ UNCHANGED <<container, attempt, threw, passedIn, conflict, unremoved, alone, cexit>>

RemoveFirst(r) ==
    /\ cpc[r] = "remove"
    /\ RemoveContainer(r)
    /\ cpc' = [cpc EXCEPT ![r] = "run"]
    /\ UNCHANGED <<attempt, threw, passedIn, conflict, alone, cexit>>

\* The try block throws: on to its finally.
Throws(r) ==
    /\ threw' = [threw EXCEPT ![r] = TRUE]
    /\ cpc' = [cpc EXCEPT ![r] = "finally"]

Proceeds(r, step) ==
    /\ cpc' = [cpc EXCEPT ![r] = step]
    /\ UNCHANGED threw

\* docker run --name, which fails when the name is taken.
RunContainer(r) ==
    /\ cpc[r] = "run"
    /\ conflict' = [conflict EXCEPT ![r] = container.there]
    /\ IF container.there
       THEN Throws(r) /\ UNCHANGED container
       ELSE Proceeds(r, "wait") /\ container' = Started(r)
    /\ UNCHANGED <<attempt, passedIn, unremoved, alone, cexit>>

\* A bug: waitForSqlServer counts no attempts.
ProbeForever(r) ==
    /\ cpc[r] = "wait"
    /\ \/ container.ready /\ Proceeds(r, "copy")
       \/ UNCHANGED <<cpc, threw>>
    /\ UNCHANGED <<container, attempt, passedIn, conflict, unremoved, alone, cexit>>

\* waitForSqlServer: SELECT 1 in whatever container has the name, up to
\* retries times.
Probe(r) ==
    /\ cpc[r] = "wait"
    /\ \/ /\ container.ready
          /\ Proceeds(r, "copy")
          /\ UNCHANGED attempt
       \/ /\ attempt' = [attempt EXCEPT ![r] = attempt[r] + 1]
          /\ IF attempt[r] < Retries THEN UNCHANGED <<cpc, threw>> ELSE Throws(r)
    /\ UNCHANGED <<container, passedIn, conflict, unremoved, alone, cexit>>

\* docker cp
Copy(r) ==
    /\ cpc[r] = "copy"
    /\ IF container.there
       THEN Proceeds(r, "script") /\ container' = [container EXCEPT !.copied = TRUE]
       ELSE Throws(r) /\ UNCHANGED container
    /\ UNCHANGED <<attempt, passedIn, conflict, unremoved, alone, cexit>>

\* runSqlFile: the script needs a server, its files and a database in which
\* it has not been run yet; :ON ERROR EXIT makes its failure an exit code.
ScriptIn(r) ==
    /\ cpc[r] = "script"
    /\ \/ /\ container.ready /\ container.copied /\ ~container.used
          /\ container' = [container EXCEPT !.used = TRUE]
          /\ passedIn' = [passedIn EXCEPT ![r] = {container.by}]
          /\ Proceeds(r, "finally")
       \/ /\ container' = [container EXCEPT !.used = container.ready]
          /\ Throws(r)
          /\ UNCHANGED passedIn
    /\ UNCHANGED <<attempt, conflict, unremoved, alone, cexit>>

\* What a docker command has done of its work, or all of it, when it reports a
\* failure or nobody hears its answer any more.
CutShort(r) ==
    \/ UNCHANGED container
    \/ cpc[r] \in {"remove", "finally"} /\ container' = None
    \/ cpc[r] = "run" /\ ~container.there /\ container' = Started(r)
    \/ cpc[r] = "copy" /\ container.there /\ container' = [container EXCEPT !.copied = TRUE]
    \/ cpc[r] = "script" /\ container' = [container EXCEPT !.used = container.ready]

\* A command of the try block fails by itself, or cannot be spawned.
CommandFails(r) ==
    /\ cpc[r] \in InTry
    /\ CutShort(r)
    /\ Throws(r)
    /\ UNCHANGED <<attempt, passedIn, conflict, unremoved, alone, cexit>>

\* The finally block, after which Node ends with what was thrown.
RemoveLast(r) ==
    /\ cpc[r] = "finally"
    /\ RemoveContainer(r)
    /\ cpc' = [cpc EXCEPT ![r] = "done"]
    /\ cexit' = [cexit EXCEPT ![r] = IF threw[r] THEN 1 ELSE 0]
    /\ UNCHANGED <<attempt, threw, passedIn, conflict, alone>>

\* The docker of a removal cannot be spawned: run() rejects all the same.
RemovalThrows(r) ==
    /\ cpc[r] \in {"remove", "finally"}
    /\ unremoved' = [unremoved EXCEPT ![r] = TRUE]
    /\ cpc' = [cpc EXCEPT ![r] = "done"]
    /\ cexit' = [cexit EXCEPT ![r] = 1]
    /\ UNCHANGED <<container, attempt, threw, passedIn, conflict, alone>>

\* The run is killed; docker may still finish what it was doing.
KillContainer(r) ==
    /\ cpc[r] \in Live
    /\ CutShort(r)
    /\ cpc' = [cpc EXCEPT ![r] = "killed"]
    /\ UNCHANGED <<attempt, threw, passedIn, conflict, unremoved, alone, cexit>>

ContainerWork(r) ==
    \/ RemoveFirst(r)
    \/ RunContainer(r)
    \/ Probe(r)
    \/ Copy(r)
    \/ ScriptIn(r)
    \/ RemoveLast(r)

ContainerTrouble(r) == CommandFails(r) \/ RemovalThrows(r) \/ KillContainer(r)

ContainerNext ==
    \/ ServerReady
    \/ \E r \in Runs : StartContainer(r) \/ ContainerWork(r) \/ ContainerTrouble(r)

-----------------------------------------------------------------------------
(* Properties *)

ContainerTypeOK ==
    /\ container \in [there : BOOLEAN, by : Runs \cup {Nobody}, ready : BOOLEAN,
                      copied : BOOLEAN, used : BOOLEAN]
    /\ cpc \in [Runs -> {"idle", "done", "killed"} \cup Live]
    /\ attempt \in [Runs -> 1..(Retries + 1)]
    /\ threw \in [Runs -> BOOLEAN]
    /\ passedIn \in [Runs -> SUBSET (Runs \cup {Nobody})]
    /\ conflict \in [Runs -> BOOLEAN]
    /\ unremoved \in [Runs -> BOOLEAN]
    /\ alone \in [Runs -> BOOLEAN]
    /\ cexit \in [Runs -> {0, 1, Nobody}]

\* When the last run is over no container is left, although runs remove and
\* use each other's, unless one was killed or could not remove it.
ContainerGone ==
    (\A r \in Runs : cpc[r] \notin Live) /\ container.there =>
        \/ \A r \in Runs : cpc[r] = "idle"
        \/ \E r \in Runs : cpc[r] = "killed" \/ unremoved[r]

\* What a killed run, or anybody else, left under the name is in no later
\* run's way: only a run beside it, or a removal that failed, makes a run find
\* the name taken.
StaleReplaced ==
    \A r \in Runs : conflict[r] => ~alone[r] \/ unremoved[r]

\* A run that was by itself and ends with 0 has seen the script pass on a
\* server it started itself, never on what was there before.
PassedOnItsOwn ==
    \A r \in Runs : cexit[r] = 0 =>
        /\ passedIn[r] # {}
        /\ alone[r] => passedIn[r] = {r}

=============================================================================
