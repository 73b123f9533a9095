--------------------------- MODULE PrivateSessions ---------------------------
(***************************************************************************)
(* What the services ask of DatabaseService: each call has a database      *)
(* session of its own, which is fresh when the call gets it, takes on      *)
(* nothing but what the call itself sets, and is in a known state whenever *)
(* the call reads or writes rows; and each transaction is committed before *)
(* its caller is told of success, or leaves nothing.  There is no pool     *)
(* here, and no connection that two calls could meet on.                   *)
(***************************************************************************)
CONSTANTS
    Requests,      \* calls of the service
    Fresh,         \* a session nobody has used
    Scope,         \* what the session of each call may take on
    Needed,        \* what it has to be while the call reads or writes rows
    Transactions,  \* the calls that run in a transaction
    CommitMayBeUnacknowledged

VARIABLES
    phase,      \* "waiting", "open", "working" (on rows) or "closed"
    own,        \* the session of each call; fresh when it has none
    committed,  \* the calls whose transaction is committed
    answer      \* what the caller was told

privateVars == <<phase, own, committed, answer>>

Phase == {"waiting", "open", "working", "closed"}

TypeOK ==
    /\ phase \in [Requests -> Phase]
    /\ \A r \in Requests : own[r] \in Scope[r] \cup {Fresh}
    /\ committed \subseteq Transactions
    /\ answer \in [Requests -> {"pending", "resolved", "rejected"}]

Init ==
    /\ phase = [r \in Requests |-> "waiting"]
    /\ own = [r \in Requests |-> Fresh]
    /\ committed = {}
    /\ answer = [r \in Requests |-> "pending"]

Enter(r, next, session) ==
    /\ next \in {"open", "working"}
    /\ next = "working" => session = Needed[r]
    /\ phase' = [phase EXCEPT ![r] = next]
    /\ own' = [own EXCEPT ![r] = session]
    /\ UNCHANGED <<committed, answer>>

Open(r) ==
    /\ phase[r] = "waiting"
    /\ \E next \in Phase : Enter(r, next, Fresh)

Continue(r) ==
    /\ phase[r] \in {"open", "working"}
    /\ \E next \in Phase, session \in Scope[r] : Enter(r, next, session)

Leave(r) ==
    /\ phase' = [phase EXCEPT ![r] = "closed"]
    /\ own' = [own EXCEPT ![r] = Fresh]

\* The session is gone; of a transaction nothing stays.
Close(r) ==
    /\ phase[r] \in {"open", "working"}
    /\ Leave(r)
    /\ UNCHANGED <<committed, answer>>

\* Committed, and the caller learns it unless the acknowledgement is lost.
Commit(r) ==
    /\ phase[r] = "open"
    /\ own[r] = Fresh
    /\ answer[r] = "pending"
    /\ Leave(r)
    /\ committed' = committed \cup ({r} \cap Transactions)
    /\ \/ answer' = [answer EXCEPT ![r] = "resolved"]
       \/ CommitMayBeUnacknowledged /\ UNCHANGED answer

\* A call without a transaction ends with its one statement.
Reply(r) ==
    /\ phase[r] = "working"
    /\ r \notin Transactions
    /\ answer[r] = "pending"
    /\ Leave(r)
    /\ \E told \in {"resolved", "rejected"} : answer' = [answer EXCEPT ![r] = told]
    /\ UNCHANGED committed

\* An error.  The call may have committed only if its COMMIT may have gone
\* unacknowledged.
Refuse(r) ==
    /\ phase[r] \in {"waiting", "open", "closed"}
    /\ answer[r] = "pending"
    /\ Leave(r)
    /\ answer' = [answer EXCEPT ![r] = "rejected"]
    /\ UNCHANGED committed

Next ==
    \E r \in Requests :
        Open(r) \/ Continue(r) \/ Close(r) \/ Commit(r) \/ Reply(r) \/ Refuse(r)

Spec == Init /\ [][Next]_privateVars

=============================================================================
