--------------------------- MODULE ConnectionPool ---------------------------
(***************************************************************************)
(* MssqlDriver.getPool and connect (apps/api/src/database): the one pool   *)
(* of an API process, which the first call creates and all calls share.    *)
(*                                                                         *)
(* The driver keeps the promise of the pool, not the pool: calls that come *)
(* while it connects await the same promise, and a promise that rejects is *)
(* forgotten before its callers are told.                                  *)
(***************************************************************************)
EXTENDS Naturals

CONSTANTS
    Calls,       \* calls that need a pooled connection, each made once
    MaxFailures  \* bound: how often connecting fails

ASSUME PoolAssumption == MaxFailures \in Nat

VARIABLES
    poolPromise, \* the driver's poolPromise: "none", "pending" or "resolved"
    connecting,  \* connects in progress
    pools,       \* pools that are connected
    failures,    \* connects that failed
    getting,     \* where a call is with getPool
    failedBefore \* history: the connects that had failed when it called

poolVars == <<poolPromise, connecting, pools, failures, getting, failedBefore>>

PoolInit ==
    /\ poolPromise = "none"
    /\ connecting = 0
    /\ pools = 0
    /\ failures = 0
    /\ getting = [c \in Calls |-> "no"]
    /\ failedBefore = [c \in Calls |-> 0]

\* Bugs: the promise is stored only once the pool is connected; a promise that
\* rejected is kept, and handed to every later call.
GetPoolStoredLate(c) ==
    /\ getting[c] = "no"
    /\ failedBefore' = [failedBefore EXCEPT ![c] = failures]
    /\ IF poolPromise = "resolved"
       THEN /\ getting' = [getting EXCEPT ![c] = "has"]
            /\ UNCHANGED <<poolPromise, connecting>>
       ELSE /\ getting' = [getting EXCEPT ![c] = "awaits"]
            /\ poolPromise' = "pending"
            /\ connecting' = connecting + 1
    /\ UNCHANGED <<pools, failures>>

GetPoolKeepsRejection(c) ==
    /\ getting[c] = "no"
    /\ failedBefore' = [failedBefore EXCEPT ![c] = failures]
    /\ getting' = [getting EXCEPT ![c] =
           IF poolPromise = "resolved" THEN "has"
           ELSE IF failures > 0 THEN "rejected" ELSE "awaits"]
    /\ IF poolPromise = "none" /\ failures = 0
       THEN poolPromise' = "pending" /\ connecting' = connecting + 1
       ELSE UNCHANGED <<poolPromise, connecting>>
    /\ UNCHANGED <<pools, failures>>

\* getPool: the promise that is there, or a new one.
GetPool(c) ==
    /\ getting[c] = "no"
    /\ failedBefore' = [failedBefore EXCEPT ![c] = failures]
    /\ getting' = [getting EXCEPT ![c] =
           IF poolPromise = "resolved" THEN "has" ELSE "awaits"]
    /\ IF poolPromise = "none"
       THEN poolPromise' = "pending" /\ connecting' = connecting + 1
       ELSE UNCHANGED <<poolPromise, connecting>>
    /\ UNCHANGED <<pools, failures>>

\* What every call that awaits the promise gets.
Settle(outcome) ==
    getting' = [c \in Calls |->
                   IF getting[c] = "awaits" THEN outcome ELSE getting[c]]

ConnectSucceeds ==
    /\ connecting > 0
    /\ connecting' = connecting - 1
    /\ pools' = pools + 1
    /\ poolPromise' = "resolved"
    /\ Settle("has")
    /\ UNCHANGED <<failures, failedBefore>>

\* The server is not there, or DATABASE_URL is not set: the promise is
\* forgotten and the calls that shared it reject together.
ConnectFails ==
    /\ connecting > 0
    /\ failures < MaxFailures
    /\ connecting' = connecting - 1
    /\ failures' = failures + 1
    /\ poolPromise' = "none"
    /\ Settle("rejected")
    /\ UNCHANGED <<pools, failedBefore>>

-----------------------------------------------------------------------------
(* Properties *)

PoolTypeOK ==
    /\ poolPromise \in {"none", "pending", "resolved"}
    /\ connecting \in Nat
    /\ pools \in Nat
    /\ failures \in 0..MaxFailures
    /\ getting \in [Calls -> {"no", "awaits", "has", "rejected"}]
    /\ failedBefore \in [Calls -> 0..MaxFailures]

\* However many calls meet a process without a pool, and however often its
\* connect fails, the process never opens a second pool next to the first,
\* connected or under way: getPool stores the promise before it awaits it.
OnePool == pools + connecting <= 1

\* No call is told of a failure that was over before it asked: a call rejects
\* only with a connect that failed while it waited, so the first call after a
\* failed connect tries again (database.service.ts:165).
RejectionIsFresh ==
    \A c \in Calls : getting[c] = "rejected" => failures > failedBefore[c]

=============================================================================
