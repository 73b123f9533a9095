------------------------------ MODULE SmokeRuns ------------------------------
(***************************************************************************)
(* The two wrappers of the row-level security smoke script.  They share    *)
(* nothing but their operator, who runs the one (smoke:sqlserver:local) or *)
(* the other (smoke:sqlserver): a behaviour is about one of them.          *)
(***************************************************************************)
EXTENDS LocalSmoke, ContainerSmoke

VARIABLE wrapper  \* the script the operator runs

smokeVars == <<wrapper, localVars, containerVars>>

Init == wrapper \in {"local", "container"} /\ LocalInit /\ ContainerInit

Next ==
    \/ wrapper = "local" /\ LocalNext /\ UNCHANGED <<wrapper, containerVars>>
    \/ wrapper = "container" /\ ContainerNext /\ UNCHANGED <<wrapper, localVars>>

Spec == Init /\ [][Next]_smokeVars

\* A child process ends and Node goes on; nothing is said of runs being
\* started or killed, nor of a server that becomes ready.
FairSpec ==
    /\ Spec
    /\ \A r \in Runs :
           /\ WF_smokeVars(LocalWork(r) /\ UNCHANGED <<wrapper, containerVars>>)
           /\ WF_smokeVars(ContainerWork(r) /\ UNCHANGED <<wrapper, localVars>>)

-----------------------------------------------------------------------------
(* Properties *)

TypeOK ==
    /\ wrapper \in {"local", "container"}
    /\ LocalTypeOK
    /\ ContainerTypeOK

\* Exit code 0 is true for both wrappers: the script passed, in the database or
\* on the server it was meant to run on (see the two modules).
ExitZeroIsTrue == ZeroIsTrue /\ PassedOnItsOwn

\* Clean-up happens on every path: when the runs are over, failed ones
\* included, no database and no container of theirs is left, unless one was
\* killed, told to keep it or let down by a command (see the two modules).
NothingLeft == NothingLeftBehind /\ ContainerGone

\* Every run that is started ends, also when the server in its container
\* never becomes ready, when others remove that container, and when commands
\* fail.
EveryRunEnds ==
    \A r \in Runs :
        /\ lpc[r] # "idle" ~> lpc[r] \in {"done", "killed"}
        /\ cpc[r] # "idle" ~> cpc[r] \in {"done", "killed"}

==============================================================================
