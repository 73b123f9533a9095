----------------------- MODULE DatabaseSessionsProofs -----------------------
(***************************************************************************)
(* Proofs about DatabaseSessions, for any set of requests, connections and *)
(* companies.                                                              *)
(*                                                                         *)
(* Protocol says what a request that has come to a given statement has     *)
(* done to its transaction and to its connection, whatever fails.  Hygiene *)
(* adds what a connection may carry at all, in the behaviours in which no  *)
(* step leaks a context (LeakFree).  In the same behaviours the pool       *)
(* implements PrivateSessions: a session of its own for every request.     *)
(***************************************************************************)
EXTENDS DatabaseSessions, TLAPS

\* The facts about the constants that the steps below use.
LEMMA Constants ==
    /\ Work \in [Requests -> {"login", "scoped", "unscoped", "query"}]
    /\ \A r \in Requests : Actor[r].companyId \in Companies \cup {Null}
    /\ \A r \in Requests : SessionRole(Actor[r]) \in Roles \cup {Null}
    /\ \A r \in Requests :
           SessionRole(Actor[r]) = "super_admin" => Actor[r].isSuperAdmin
    /\ Null \notin Connections
    /\ Null # "super_admin"
  <1>1. SUFFICES ASSUME NEW r \in Requests
                 PROVE  /\ Actor[r].companyId \in Companies \cup {Null}
                        /\ SessionRole(Actor[r]) \in Roles \cup {Null}
                        /\ SessionRole(Actor[r]) = "super_admin" => Actor[r].isSuperAdmin
    BY RequestAssumption, NullAssumption DEF Roles
  <1>2. Actor[r] \in AuthContext
    BY RequestAssumption
  <1>3. Actor[r].roles \in Seq(Roles) /\ Actor[r].companyId \in Companies \cup {Null}
    BY <1>2 DEF AuthContext
  <1>4. CASE Actor[r].roles = <<>>
    BY <1>3, <1>4, NullAssumption DEF SessionRole, Roles
  <1>5. CASE Actor[r].roles # <<>>
    <2>1. 1 \in DOMAIN Actor[r].roles /\ Actor[r].roles[1] \in Roles
      BY <1>3, <1>5
    <2>2. QED
      BY <1>3, <1>5, <2>1, ActorAssumption DEF SessionRole, Roles
  <1>6. QED
    BY <1>4, <1>5

-----------------------------------------------------------------------------
(* Types *)

LEMMA EffectType ==
    ASSUME NEW s \in Statements, NEW r \in Requests, NEW ctx \in Context
    PROVE  Effect(s, r, ctx) \in Context
  BY Constants DEF Effect, ApplyCompany, ApplyRole, Context, Statements, Clearing

LEMMA OrderType ==
    ASSUME NEW s \in Statements, NEW b \in BOOLEAN
    PROVE  Resolved(s, b) \in PC /\ Rejected(s, b) \in PC
  BY DEF Resolved, Rejected, PC, Statements, Clearing

\* The type invariant holds in every state of every behaviour.
THEOREM TypeCorrect == Spec => []TypeOK
  <1>1. Init => TypeOK
    BY NullAssumption DEF Init, TypeOK, PC, Context, Cleared
  <1>2. TypeOK /\ [Next]_vars => TypeOK'
    <2> SUFFICES ASSUME TypeOK, [Next]_vars PROVE TypeOK'
      OBVIOUS
    <2> USE DEF TypeOK
    <2>1. ASSUME NEW r \in Requests, NEW c \in Connections, Begin(r, c)
          PROVE  TypeOK'
      <3>1. First(r) \in PC
        BY Constants DEF First, PC, Statements
      <3>2. QED
        BY <2>1, <3>1 DEF Begin
    <2>2. ASSUME NEW r \in Requests, BeginFails(r) PROVE TypeOK'
      BY <2>2 DEF BeginFails, PC
    <2>3. ASSUME NEW r \in Requests, QueryEnds(r) PROVE TypeOK'
      BY <2>3 DEF QueryEnds, PC
    <2>4. ASSUME NEW r \in Requests, StatementResolves(r) PROVE TypeOK'
      BY <2>4, EffectType, OrderType DEF StatementResolves
    <2>5. ASSUME NEW r \in Requests, StatementRejects(r) PROVE TypeOK'
      BY <2>5, EffectType, OrderType DEF StatementRejects
    <2>6. ASSUME NEW r \in Requests, TransactionAborted(r) PROVE TypeOK'
      <3>1. pc[r] \in Statements
        BY <2>6 DEF TransactionAborted, Statements
      <3>2. QED
        BY <2>6, <3>1, OrderType DEF TransactionAborted
    <2>7. ASSUME NEW r \in Requests, ConnectionLost(r) PROVE TypeOK'
      BY <2>7, OrderType DEF ConnectionLost, Cleared, Context
    <2>8. ASSUME NEW r \in Requests, StatementWithoutConnection(r) PROVE TypeOK'
      BY <2>8, OrderType DEF StatementWithoutConnection
    <2>9. ASSUME NEW r \in Requests, Commit(r) PROVE TypeOK'
      BY <2>9 DEF Commit, PC
    <2>10. ASSUME NEW r \in Requests, CommitRejects(r) PROVE TypeOK'
      BY <2>10 DEF CommitRejects, PC, Statements, Clearing, Cleared, Context
    <2>11. ASSUME NEW r \in Requests, Rollback(r) PROVE TypeOK'
      BY <2>11 DEF Rollback, PC
    <2>12. CASE UNCHANGED vars \/ Terminated
      BY <2>12 DEF vars, Terminated
    <2>13. QED
      BY <2>1, <2>2, <2>3, <2>4, <2>5, <2>6, <2>7, <2>8, <2>9, <2>10, <2>11,
         <2>12 DEF Next, Step
  <1>3. QED
    BY <1>1, <1>2, PTL DEF Spec

-----------------------------------------------------------------------------
(* What holds whatever fails *)

\* A connection serves one request at a time.
Sharing ==
    \A r1, r2 \in Requests :
        r1 # r2 /\ conn[r1] # Null => conn[r1] # conn[r2]

\* What a request that stands at pc[r] has done so far.
Control(r) ==
    /\ pc[r] \in {"idle", "done"} => conn[r] = Null
    /\ pc[r] = "idle" => ~failed[r] /\ result[r] = "pending"
    /\ pc[r] = "query" => Work[r] = "query" /\ conn[r] # Null
    /\ Work[r] = "query" => txn[r] = "none"
    /\ pc[r] \in Statements \cup {"commit", "rollback"} => Work[r] # "query"
    /\ pc[r] \in {"applyCompany", "applyRole"} => Work[r] = "scoped"
    /\ pc[r] \in {"setLogin", "select", "resetLogin"} => Work[r] = "login"
    /\ pc[r] = "work" => Work[r] \in {"scoped", "unscoped"}
    /\ pc[r] = "commit" => conn[r] # Null /\ ~failed[r]
    /\ result[r] = "resolved" /\ Work[r] # "query" =>
           pc[r] = "done" /\ txn[r] = "committed" /\ ~failed[r]

\* What its own statements have made of the context of its connection.
Progress(r) ==
    conn[r] # Null =>
        /\ pc[r] = "select" => session[conn[r]].global_principal_login
        /\ pc[r] = "applyRole" =>
               session[conn[r]].company_id = Actor[r].companyId
        /\ pc[r] = "work" /\ Work[r] = "scoped" =>
               /\ session[conn[r]].company_id = Actor[r].companyId
               /\ session[conn[r]].user_role = SessionRole(Actor[r])
        /\ pc[r] \in {"clearRole", "clearLogin"} =>
               session[conn[r]].company_id = Null
        /\ pc[r] = "clearLogin" => session[conn[r]].user_role = Null
        /\ pc[r] = "commit" => session[conn[r]] = Cleared

Protocol == Sharing /\ \A r \in Requests : Control(r) /\ Progress(r)

\* A step of one request leaves the others and their connections alone.
LEMMA OthersUntouched ==
    ASSUME TypeOK, Sharing, NEW r \in Requests, NEW q \in Requests, q # r, Step(r)
    PROVE  /\ pc'[q] = pc[q]
           /\ conn'[q] = conn[q]
           /\ failed'[q] = failed[q]
           /\ txn'[q] = txn[q]
           /\ result'[q] = result[q]
           /\ conn[q] # Null => session'[conn[q]] = session[conn[q]]
  <1> USE DEF TypeOK
  <1>1. ASSUME conn[q] # Null, conn[r] # Null PROVE conn[q] # conn[r]
    BY <1>1 DEF Sharing
  <1>2. CASE \E c \in Connections : Begin(r, c)
    BY <1>2 DEF Begin
  <1>3. CASE BeginFails(r) \/ QueryEnds(r) \/ StatementWithoutConnection(r)
    BY <1>3 DEF BeginFails, QueryEnds, StatementWithoutConnection
  <1>4. CASE StatementResolves(r)
    BY <1>1, <1>4 DEF StatementResolves
  <1>5. CASE StatementRejects(r)
    BY <1>1, <1>5 DEF StatementRejects
  <1>6. CASE TransactionAborted(r)
    BY <1>6 DEF TransactionAborted
  <1>7. CASE ConnectionLost(r)
    BY <1>1, <1>7 DEF ConnectionLost
  <1>8. CASE Commit(r) \/ Rollback(r)
    BY <1>8 DEF Commit, Rollback
  <1>9. CASE CommitRejects(r)
    BY <1>1, <1>9 DEF CommitRejects
  <1>10. QED
    BY <1>2, <1>3, <1>4, <1>5, <1>6, <1>7, <1>8, <1>9 DEF Step

LEMMA SharingKept ==
    ASSUME TypeOK, Sharing, NEW r \in Requests, Step(r)
    PROVE  Sharing'
  <1>1. conn' = conn
        \/ conn' = [conn EXCEPT ![r] = Null]
        \/ \E c \in Connections : Idle(c) /\ conn' = [conn EXCEPT ![r] = c]
    BY DEF Step, Begin, BeginFails, QueryEnds, StatementResolves,
           StatementRejects, TransactionAborted, ConnectionLost,
           StatementWithoutConnection, Commit, CommitRejects, Rollback
  <1>2. CASE conn' = conn
    BY <1>2 DEF Sharing
  <1>3. CASE conn' = [conn EXCEPT ![r] = Null]
    BY <1>3 DEF Sharing, TypeOK
  <1>4. ASSUME NEW c \in Connections, Idle(c), conn' = [conn EXCEPT ![r] = c]
        PROVE  Sharing'
    BY <1>4 DEF Sharing, TypeOK, Idle
  <1>5. QED
    BY <1>1, <1>2, <1>3, <1>4

\* The context a statement leaves, as far as the next statement relies on it.
LEMMA EffectOrder ==
    ASSUME NEW r \in Requests, NEW s \in Statements, NEW ctx \in Context,
           NEW b \in BOOLEAN,
           s = "applyRole" => ctx.company_id = Actor[r].companyId,
           s \in {"clearRole", "clearLogin"} => ctx.company_id = Null,
           s = "clearLogin" => ctx.user_role = Null,
           s \in {"applyCompany", "applyRole"} => Work[r] = "scoped"
    PROVE  LET new == Effect(s, r, ctx)
           IN  /\ Resolved(s, b) = "select" => new.global_principal_login
               /\ Resolved(s, b) = "applyRole" => new.company_id = Actor[r].companyId
               /\ Resolved(s, b) = "work" =>
                      /\ new.company_id = Actor[r].companyId
                      /\ new.user_role = SessionRole(Actor[r])
               /\ Resolved(s, b) \in {"clearRole", "clearLogin"} => new.company_id = Null
               /\ Resolved(s, b) = "clearLogin" => new.user_role = Null
               /\ Resolved(s, b) \in {"commit", "rollback"} => new = Cleared
  BY DEF Effect, ApplyCompany, ApplyRole, Resolved, Context, Cleared, Statements, Clearing

\* After a rejection nothing is relied on: the statement that comes next is
\* the first clear, the inner finally, or the rollback.
LEMMA RejectedTargets ==
    ASSUME NEW s \in Statements, NEW b \in BOOLEAN
    PROVE  /\ Rejected(s, b) \in {"resetLogin", "clearCompany", "rollback"}
           /\ Rejected(s, b) = "resetLogin" => s = "select"
           /\ Rejected(s, b) = "rollback" => s \in Clearing /\ b
  BY DEF Rejected

LEMMA ProtocolStep ==
    ASSUME TypeOK, Protocol, NEW r \in Requests, Step(r)
    PROVE  Control(r)' /\ Progress(r)'
  <1> USE DEF TypeOK
  <1>0. Control(r) /\ Progress(r)
    BY DEF Protocol
  <1>w. Work[r] \in {"login", "scoped", "unscoped", "query"}
    BY Constants
  <1>1. ASSUME NEW c \in Connections, Begin(r, c) PROVE Control(r)' /\ Progress(r)'
    <2>1. First(r) \in {"setLogin", "applyCompany", "work", "query"}
      BY <1>w DEF First
    <2>2. /\ First(r) = "setLogin" => Work[r] = "login"
          /\ First(r) = "applyCompany" => Work[r] = "scoped"
          /\ First(r) = "work" => Work[r] = "unscoped"
          /\ First(r) = "query" <=> Work[r] = "query"
      BY <1>w DEF First
    <2>3. /\ pc'[r] = First(r) /\ conn'[r] = c /\ failed'[r] = failed[r]
          /\ result'[r] = result[r] /\ pc[r] = "idle"
          /\ Work[r] = "query" => txn'[r] = "none"
      BY <1>1 DEF Begin
    <2>4. conn'[r] # Null
      BY <2>3, Constants
    <2>5. Control(r)'
      BY <1>0, <2>1, <2>2, <2>3, <2>4 DEF Control, Statements, Clearing
    <2>6. Progress(r)'
      BY <2>1, <2>2, <2>3 DEF Progress
    <2>7. QED
      BY <2>5, <2>6
  <1>2. CASE BeginFails(r)
    BY <1>0, <1>2 DEF BeginFails, Control, Progress, Statements, Clearing
  <1>3. CASE QueryEnds(r)
    BY <1>0, <1>3 DEF QueryEnds, Control, Progress, Statements, Clearing
  <1>4. CASE StatementResolves(r)
    <2> DEFINE old == session[conn[r]]
               new == Effect(pc[r], r, old)
    <2>1. /\ pc[r] \in Statements /\ conn[r] \in Connections /\ old \in Context
          /\ conn'[r] = conn[r] /\ failed'[r] = failed[r] /\ txn'[r] = txn[r]
          /\ result'[r] = result[r] /\ pc'[r] = Resolved(pc[r], failed[r])
          /\ session'[conn'[r]] = new
      BY <1>4 DEF StatementResolves
    <2>2. Progress(r)'
      <3> HIDE DEF old, new
      <3>1. /\ pc'[r] = "select" => new.global_principal_login
            /\ pc'[r] = "applyRole" => new.company_id = Actor[r].companyId
            /\ pc'[r] = "work" =>
                   /\ new.company_id = Actor[r].companyId
                   /\ new.user_role = SessionRole(Actor[r])
            /\ pc'[r] \in {"clearRole", "clearLogin"} => new.company_id = Null
            /\ pc'[r] = "clearLogin" => new.user_role = Null
            /\ pc'[r] \in {"commit", "rollback"} => new = Cleared
        BY <1>0, <2>1, EffectOrder, Constants DEF Control, Progress, old, new
      <3>2. QED
        BY <2>1, <3>1 DEF Progress
    <2>3. Control(r)'
      BY <1>0, <2>1, Constants
      DEF Control, Resolved, Statements, Clearing
    <2>4. QED
      BY <2>2, <2>3
  <1>5. ASSUME pc[r] \in Statements, pc'[r] = Rejected(pc[r], failed[r]),
               failed'[r] = TRUE, result'[r] = result[r]
        PROVE  Control(r)' /\ Progress(r)'
    <2>1. /\ pc'[r] \in {"resetLogin", "clearCompany", "rollback"}
          /\ pc'[r] = "resetLogin" => pc[r] = "select"
      BY <1>5, RejectedTargets
    <2>2. result[r] # "resolved"
      BY <1>0, <1>5 DEF Control, Statements, Clearing
    <2>3. QED
      BY <1>0, <1>5, <2>1, <2>2 DEF Control, Progress, Statements, Clearing
  <1>6. CASE StatementRejects(r) \/ TransactionAborted(r) \/ ConnectionLost(r)
             \/ StatementWithoutConnection(r)
    <2>1. pc[r] \in Statements /\ pc'[r] = Rejected(pc[r], failed[r])
          /\ failed'[r] = TRUE /\ result'[r] = result[r]
      BY <1>6 DEF StatementRejects, TransactionAborted, ConnectionLost,
                  StatementWithoutConnection, Statements
    <2>2. QED
      BY <1>5, <2>1
  <1>7. CASE Commit(r)
    BY <1>0, <1>7 DEF Commit, Control, Progress, Statements, Clearing
  <1>8. CASE CommitRejects(r)
    BY <1>0, <1>8 DEF CommitRejects, Control, Progress, Statements, Clearing
  <1>9. CASE Rollback(r)
    BY <1>0, <1>9 DEF Rollback, Control, Progress, Statements, Clearing
  <1>10. QED
    BY <1>1, <1>2, <1>3, <1>4, <1>6, <1>7, <1>8, <1>9 DEF Step

LEMMA ProtocolKept == TypeOK /\ Protocol /\ [Next]_vars => Protocol'
  <1> SUFFICES ASSUME TypeOK, Protocol, [Next]_vars PROVE Protocol'
    OBVIOUS
  <1>1. ASSUME NEW r \in Requests, Step(r) PROVE Protocol'
    <2>1. Sharing'
      BY <1>1, SharingKept DEF Protocol
    <2>2. ASSUME NEW q \in Requests PROVE Control(q)' /\ Progress(q)'
      <3>1. CASE q = r
        BY <1>1, <3>1, ProtocolStep
      <3>2. CASE q # r
        <4>1. /\ pc'[q] = pc[q] /\ conn'[q] = conn[q] /\ failed'[q] = failed[q]
              /\ txn'[q] = txn[q] /\ result'[q] = result[q]
              /\ conn[q] # Null => session'[conn[q]] = session[conn[q]]
          BY <1>1, <3>2, OthersUntouched DEF Protocol
        <4>2. Control(q) /\ Progress(q)
          BY DEF Protocol
        <4>3. QED
          BY <4>1, <4>2 DEF Control, Progress
      <3>3. QED
        BY <3>1, <3>2
    <2>3. QED
      BY <2>1, <2>2 DEF Protocol
  <1>2. CASE UNCHANGED vars \/ Terminated
    BY <1>2 DEF Terminated, vars, Protocol, Sharing, Control, Progress
  <1>3. QED
    BY <1>1, <1>2 DEF Next

LEMMA ProtocolInvariant == Spec => [](TypeOK /\ Protocol)
  <1>1. Init => Protocol
    BY DEF Init, Protocol, Sharing, Control, Progress, Statements, Clearing
  <1>2. QED
    BY <1>1, ProtocolKept, TypeCorrect, PTL DEF Spec

\* Whatever fails and whatever other requests do, the statements of a scoped
\* work run under the company and the role of the actor it was called for.
THEOREM ScopedWorkIsOwn == Spec => []ScopedWorkOwnsItsTenant
  <1>1. TypeOK /\ Protocol => ScopedWorkOwnsItsTenant
    BY DEF Protocol, Progress, ScopedWorkOwnsItsTenant
  <1>2. QED
    BY <1>1, ProtocolInvariant, PTL

\* Whatever fails, a caller is told that its transaction succeeded only if the
\* transaction was committed, after a work and clears that all succeeded.
THEOREM ResolvedMeansCommitted == Spec => []ResolvedIsCommitted
  <1>1. Protocol => ResolvedIsCommitted
    BY DEF Protocol, Control, ResolvedIsCommitted
  <1>2. QED
    BY <1>1, ProtocolInvariant, PTL

\* Whatever fails, a transaction that commits does so on a connection whose
\* context it has cleared: the code never commits and leaves a context behind.
THEOREM CommitsAreClean == Spec => CommitFollowsClear
  <1> DEFINE Clean(r) == txn[r] = "open" /\ txn'[r] = "committed" =>
                             ~failed[r] /\ session[conn[r]] = Cleared
  <1>1. ASSUME TypeOK, Protocol, NEW q \in Requests, Step(q), NEW r \in Requests
        PROVE  Clean(r)
    <2>1. CASE q # r
      BY <1>1, <2>1, OthersUntouched DEF Protocol
    <2>2. CASE q = r /\ (Commit(r) \/ CommitRejects(r))
      BY <1>1, <2>2 DEF Protocol, Control, Progress, Commit, CommitRejects
    <2>3. CASE q = r /\ ~(Commit(r) \/ CommitRejects(r))
      <3>1. txn'[r] = "committed" => txn[r] = "committed"
        BY <1>1, <2>3 DEF TypeOK, Step, Begin, BeginFails, QueryEnds,
           StatementResolves, StatementRejects, TransactionAborted,
           ConnectionLost, StatementWithoutConnection, Rollback
      <3>2. QED
        BY <3>1
    <2>4. QED
      BY <2>1, <2>2, <2>3
  <1>2. TypeOK /\ Protocol /\ [Next]_vars =>
            [\A r \in Requests : Clean(r)]_vars
    BY <1>1 DEF Next, Terminated, vars
  <1>3. QED
    BY <1>2, ProtocolInvariant, PTL DEF Spec, CommitFollowsClear

-----------------------------------------------------------------------------
(* What holds in every behaviour in which no clear of a catch block fails   *)
(* on a connection that lives on, and no running transaction loses its      *)
(* connection to the pool.                                                  *)

\* The two steps after which a connection may return to the pool as it was.
Leaks(r) ==
    \/ TransactionAborted(r)
    \/ pc[r] \in Clearing /\ failed[r] /\ StatementRejects(r)

LeakFree == [][\A r \in Requests : ~Leaks(r)]_vars

\* A connection carries only what the request that holds it has set, and a
\* request that gives its connection back has nothing left on it.
Own(r) ==
    conn[r] # Null =>
        /\ session[conn[r]].company_id # Null =>
               Work[r] = "scoped" /\ session[conn[r]].company_id = Actor[r].companyId
        /\ session[conn[r]].user_role # Null =>
               Work[r] = "scoped" /\ session[conn[r]].user_role = SessionRole(Actor[r])
        /\ session[conn[r]].global_principal_login => Work[r] = "login"
        /\ pc[r] \in {"query", "rollback"} => session[conn[r]] = Cleared

Hygiene == IdleConnectionsCleared /\ \A r \in Requests : Own(r)

\* A statement adds to a context only what belongs to its own request.
LEMMA EffectIsOwn ==
    ASSUME NEW r \in Requests, NEW s \in Statements, NEW ctx \in Context,
           s \in {"applyCompany", "applyRole"} => Work[r] = "scoped",
           s = "setLogin" => Work[r] = "login",
           ctx.company_id # Null =>
               Work[r] = "scoped" /\ ctx.company_id = Actor[r].companyId,
           ctx.user_role # Null =>
               Work[r] = "scoped" /\ ctx.user_role = SessionRole(Actor[r]),
           ctx.global_principal_login => Work[r] = "login"
    PROVE  LET new == Effect(s, r, ctx)
           IN  /\ new.company_id # Null =>
                      Work[r] = "scoped" /\ new.company_id = Actor[r].companyId
               /\ new.user_role # Null =>
                      Work[r] = "scoped" /\ new.user_role = SessionRole(Actor[r])
               /\ new.global_principal_login => Work[r] = "login"
  BY Constants DEF Effect, ApplyCompany, ApplyRole, Context, Statements, Clearing

LEMMA OwnStep ==
    ASSUME TypeOK, Protocol, Hygiene, NEW r \in Requests, Step(r), ~Leaks(r)
    PROVE  Own(r)'
  <1> USE DEF TypeOK
  <1>0. Control(r) /\ Progress(r) /\ Own(r)
    BY DEF Protocol, Hygiene
  <1>1. ASSUME NEW c \in Connections, Begin(r, c) PROVE Own(r)'
    <2>1. session'[conn'[r]] = Cleared
      BY <1>1 DEF Begin, Hygiene, IdleConnectionsCleared
    <2>2. QED
      BY <2>1 DEF Own, Cleared
  <1>2. CASE conn'[r] = Null
    BY <1>2 DEF Own
  <1>3. ASSUME conn'[r] = conn[r], conn[r] \in Connections, pc[r] \in Statements,
               session'[conn[r]] = Effect(pc[r], r, session[conn[r]]),
               pc'[r] \in PC \ {"query", "rollback"} \/
                   (pc'[r] = "rollback" /\ session'[conn[r]] = Cleared)
        PROVE  Own(r)'
    <2> DEFINE old == session[conn[r]]
               new == Effect(pc[r], r, old)
    <2>1. old \in Context
      BY <1>3
    <2>2. conn[r] # Null
      BY <1>3, Constants
    <2> HIDE DEF new
    <2>3. /\ new.company_id # Null =>
                 Work[r] = "scoped" /\ new.company_id = Actor[r].companyId
          /\ new.user_role # Null =>
                 Work[r] = "scoped" /\ new.user_role = SessionRole(Actor[r])
          /\ new.global_principal_login => Work[r] = "login"
      BY <1>0, <1>3, <2>1, <2>2, EffectIsOwn DEF Own, Control, new
    <2>4. session'[conn'[r]] = new
      BY <1>3 DEF new
    <2>5. QED
      BY <1>3, <2>3, <2>4 DEF Own
  <1>4. CASE StatementResolves(r)
    <2>1. /\ pc[r] \in Statements /\ conn[r] # Null
          /\ pc'[r] = Resolved(pc[r], failed[r])
          /\ session'[conn[r]] = Effect(pc[r], r, session[conn[r]])
          /\ conn'[r] = conn[r]
      BY <1>4 DEF StatementResolves
    <2>2. session[conn[r]] \in Context /\ failed[r] \in BOOLEAN
      BY <2>1
    <2>3. pc'[r] = "rollback" => session'[conn[r]] = Cleared
      <3> DEFINE old == session[conn[r]]
                 new == Effect(pc[r], r, old)
      <3>1. /\ pc[r] = "applyRole" => old.company_id = Actor[r].companyId
            /\ pc[r] \in {"clearRole", "clearLogin"} => old.company_id = Null
            /\ pc[r] = "clearLogin" => old.user_role = Null
            /\ pc[r] \in {"applyCompany", "applyRole"} => Work[r] = "scoped"
        BY <1>0, <2>1 DEF Control, Progress
      <3>2. old \in Context /\ session'[conn[r]] = new
        BY <2>1, <2>2
      <3> HIDE DEF old
      <3>3. Resolved(pc[r], failed[r]) = "rollback" => new = Cleared
        BY <2>1, <2>2, <3>1, <3>2, EffectOrder
      <3>4. QED
        BY <2>1, <3>2, <3>3
    <2>4. pc'[r] \in PC /\ pc'[r] # "query"
      BY <2>1, <2>2, OrderType DEF Resolved, Statements, Clearing
    <2>5. conn[r] \in Connections
      BY <2>1
    <2>6. pc'[r] \in PC \ {"query", "rollback"} \/
              (pc'[r] = "rollback" /\ session'[conn[r]] = Cleared)
      BY <2>3, <2>4
    <2>7. QED
      BY <1>3, <2>1, <2>5, <2>6
  <1>5. CASE StatementRejects(r)
    <2>1. /\ pc[r] \in Statements /\ conn[r] # Null
          /\ pc'[r] = Rejected(pc[r], failed[r])
          /\ session'[conn[r]] \in
                 {session[conn[r]], Effect(pc[r], r, session[conn[r]])}
          /\ conn'[r] = conn[r]
      BY <1>5 DEF StatementRejects
    <2>2. ~(pc[r] \in Clearing /\ failed[r])
      BY <1>5 DEF Leaks
    <2>3. pc'[r] \in {"resetLogin", "clearCompany"}
      BY <2>1, <2>2, RejectedTargets
    <2>4. CASE session'[conn[r]] = session[conn[r]]
      BY <1>0, <2>1, <2>3, <2>4 DEF Own
    <2>5. CASE session'[conn[r]] = Effect(pc[r], r, session[conn[r]])
      BY <1>3, <2>1, <2>3, <2>5 DEF PC, Statements, Clearing
    <2>6. QED
      BY <2>1, <2>4, <2>5
  <1>6. CASE BeginFails(r) \/ StatementWithoutConnection(r)
    <2>1. conn'[r] = Null
      BY <1>0, <1>6 DEF BeginFails, StatementWithoutConnection, Control
    <2>2. QED
      BY <1>2, <2>1
  <1>7. CASE QueryEnds(r) \/ TransactionAborted(r) \/ ConnectionLost(r)
             \/ Commit(r) \/ CommitRejects(r) \/ Rollback(r)
    <2>1. conn'[r] = Null
      BY <1>7 DEF QueryEnds, TransactionAborted, ConnectionLost, Commit,
                  CommitRejects, Rollback
    <2>2. QED
      BY <1>2, <2>1
  <1>8. QED
    BY <1>1, <1>4, <1>5, <1>6, <1>7 DEF Step

\* A step leaves every connection that it returns to the pool cleared.
LEMMA ReturnedCleared ==
    ASSUME TypeOK, Protocol, Hygiene, NEW r \in Requests, Step(r), ~Leaks(r)
    PROVE  IdleConnectionsCleared'
  <1> USE DEF TypeOK
  <1>0. Control(r) /\ Progress(r) /\ Own(r)
    BY DEF Protocol, Hygiene
  <1> SUFFICES ASSUME NEW c \in Connections, Idle(c)' PROVE session'[c] = Cleared
    BY DEF IdleConnectionsCleared
  <1>1. CASE \E d \in Connections : Begin(r, d)
    <2>1. Idle(c) /\ session'[c] = session[c]
      BY <1>1, Constants DEF Begin, Idle, Control, Protocol
    <2>2. QED
      BY <2>1 DEF Hygiene, IdleConnectionsCleared
  <1>2. ASSUME conn' = conn, conn[r] # c => session'[c] = session[c]
        PROVE  session'[c] = Cleared
    <2>1. Idle(c)
      BY <1>2 DEF Idle
    <2>2. QED
      BY <1>2, <2>1 DEF Hygiene, IdleConnectionsCleared, Idle
  <1>3. CASE BeginFails(r) \/ StatementWithoutConnection(r)
             \/ StatementResolves(r) \/ StatementRejects(r)
    BY <1>2, <1>3 DEF BeginFails, StatementWithoutConnection,
                      StatementResolves, StatementRejects
  <1>4. ASSUME conn' = [conn EXCEPT ![r] = Null],
               conn[r] # c => session'[c] = session[c],
               conn[r] = c => session'[c] = Cleared
        PROVE  session'[c] = Cleared
    <2>1. CASE conn[r] = c
      BY <1>4, <2>1
    <2>2. CASE conn[r] # c
      <3>1. Idle(c)
        BY <1>4, <2>2 DEF Idle
      <3>2. QED
        BY <1>4, <2>2, <3>1 DEF Hygiene, IdleConnectionsCleared
    <2>3. QED
      BY <2>1, <2>2
  <1>5. CASE QueryEnds(r) \/ Rollback(r)
    BY <1>0, <1>4, <1>5, Constants DEF QueryEnds, Rollback, Own
  <1>6. CASE Commit(r)
    BY <1>0, <1>4, <1>6, Constants DEF Commit, Progress
  <1>7. CASE ConnectionLost(r) \/ CommitRejects(r)
    BY <1>4, <1>7 DEF ConnectionLost, CommitRejects
  <1>8. ~TransactionAborted(r)
    BY DEF Leaks
  <1>9. QED
    BY <1>1, <1>3, <1>5, <1>6, <1>7, <1>8 DEF Step

LEMMA HygieneKept ==
    TypeOK /\ Protocol /\ Hygiene /\ [Next]_vars /\ [\A r \in Requests : ~Leaks(r)]_vars
        => Hygiene'
  <1> SUFFICES ASSUME TypeOK, Protocol, Hygiene, [Next]_vars,
                      [\A r \in Requests : ~Leaks(r)]_vars
               PROVE  Hygiene'
    OBVIOUS
  <1>1. ASSUME NEW r \in Requests, Step(r), ~Leaks(r) PROVE Hygiene'
    <2>1. IdleConnectionsCleared'
      BY <1>1, ReturnedCleared
    <2>2. ASSUME NEW q \in Requests PROVE Own(q)'
      <3>1. CASE q = r
        BY <1>1, <3>1, OwnStep
      <3>2. CASE q # r
        <4>1. /\ pc'[q] = pc[q] /\ conn'[q] = conn[q]
              /\ conn[q] # Null => session'[conn[q]] = session[conn[q]]
          BY <1>1, <3>2, OthersUntouched DEF Protocol
        <4>2. QED
          BY <4>1 DEF Hygiene, Own
      <3>3. QED
        BY <3>1, <3>2
    <2>3. QED
      BY <2>1, <2>2 DEF Hygiene
  <1>2. CASE UNCHANGED vars \/ Terminated
    BY <1>2 DEF Terminated, vars, Hygiene, IdleConnectionsCleared, Own, Idle
  <1>3. CASE UNCHANGED vars
    BY <1>2, <1>3
  <1>4. QED
    BY <1>1, <1>2, <1>3 DEF Next

LEMMA HygieneInvariant == Spec /\ LeakFree => [](TypeOK /\ Protocol /\ Hygiene)
  <1>1. Init => Hygiene
    BY DEF Init, Hygiene, IdleConnectionsCleared, Own
  <1>2. QED
    BY <1>1, HygieneKept, ProtocolInvariant, PTL DEF Spec, LeakFree

\* Where the environment produces neither failure, every behaviour is such.
LEMMA NoLeakSuffices ==
    ASSUME {"clear", "abort"} \cap Failures = {} PROVE Spec => LeakFree
  <1>1. [Next]_vars => [\A r \in Requests : ~Leaks(r)]_vars
    BY DEF Leaks, TransactionAborted, StatementRejects, Clearing
  <1>2. QED
    BY <1>1, PTL DEF Spec, LeakFree

\* Unless a clear of the catch block fails on a connection that lives on, or
\* the server aborts a transaction, every pooled connection is cleared.
THEOREM PoolIsClean == Spec /\ LeakFree => []IdleConnectionsCleared
  <1>1. Hygiene => IdleConnectionsCleared
    BY DEF Hygiene
  <1>2. QED
    BY <1>1, HygieneInvariant, PTL

\* In the same behaviours a connection shows the rows of a company only to a
\* request whose own actor belongs to it or is a super admin.
THEOREM TenantsAreIsolated == Spec /\ LeakFree => []NoForeignRows
  <1>1. Hygiene => NoForeignRows
    BY Constants DEF Hygiene, Own, NoForeignRows, TenantPredicate, SqlEquals
  <1>2. QED
    BY <1>1, HygieneInvariant, PTL

\* In the same behaviours only the login lookup, or a super admin, is shown
\* the global principals.
THEOREM LoginFlagIsConfined == Spec /\ LeakFree => []GlobalPrincipalsOnlyByLogin
  <1>1. Hygiene => GlobalPrincipalsOnlyByLogin
    BY Constants DEF Hygiene, Own, GlobalPrincipalsOnlyByLogin, Visible,
       TenantOrGlobalPrincipalFilter, TenantPredicate, SqlEquals
  <1>2. QED
    BY <1>1, HygieneInvariant, PTL

-----------------------------------------------------------------------------
(* The pool implements private sessions *)

\* A transaction is open as long as its request holds a connection, and a
\* caller is told nothing before the end.
Ledger ==
    \A r \in Requests :
        /\ pc[r] = "idle" => txn[r] = "none"
        /\ conn[r] # Null /\ Work[r] # "query" => txn[r] = "open"
        /\ pc[r] # "done" => result[r] = "pending"

LEMMA LedgerKept == TypeOK /\ Protocol /\ Ledger /\ [Next]_vars => Ledger'
  <1> SUFFICES ASSUME TypeOK, Protocol, Ledger, [Next]_vars PROVE Ledger'
    OBVIOUS
  <1>1. ASSUME NEW r \in Requests, Step(r), NEW q \in Requests
        PROVE  /\ pc'[q] = "idle" => txn'[q] = "none"
               /\ conn'[q] # Null /\ Work[q] # "query" => txn'[q] = "open"
               /\ pc'[q] # "done" => result'[q] = "pending"
    <2>1. CASE q # r
      BY <1>1, <2>1, OthersUntouched DEF Protocol, Ledger
    <2>2. CASE q = r
      <3>1. /\ Control(r)
            /\ pc[r] = "idle" => txn[r] = "none"
            /\ conn[r] # Null /\ Work[r] # "query" => txn[r] = "open"
            /\ pc[r] # "done" => result[r] = "pending"
        BY DEF Protocol, Ledger
      <3>2. CASE \E c \in Connections : Begin(r, c)
        BY <2>2, <3>1, <3>2, Constants DEF Begin, First, TypeOK
      <3>3. CASE StatementResolves(r) \/ StatementRejects(r)
        <4>1. pc[r] \in Statements /\ failed[r] \in BOOLEAN
          BY <3>3 DEF StatementResolves, StatementRejects, TypeOK
        <4>2. Resolved(pc[r], failed[r]) # "idle" /\ Rejected(pc[r], failed[r]) # "idle"
          BY <4>1, RejectedTargets DEF Resolved, Statements, Clearing
        <4>3. QED
          BY <2>2, <3>1, <3>3, <4>1, <4>2 DEF StatementResolves, StatementRejects, TypeOK,
             Statements, Clearing
      <3>4. CASE TransactionAborted(r) \/ ConnectionLost(r) \/ StatementWithoutConnection(r)
        <4>1. pc[r] \in Statements /\ failed[r] \in BOOLEAN
          BY <3>4 DEF TransactionAborted, ConnectionLost, StatementWithoutConnection,
                      TypeOK, Statements
        <4>2. Rejected(pc[r], failed[r]) # "idle"
          BY <4>1, RejectedTargets
        <4>3. QED
          BY <2>2, <3>1, <3>4, <4>1, <4>2 DEF TransactionAborted, ConnectionLost,
             StatementWithoutConnection, TypeOK, Statements, Clearing
      <3>5. CASE BeginFails(r) \/ QueryEnds(r) \/ Commit(r) \/ CommitRejects(r)
                 \/ Rollback(r)
        BY <2>2, <3>1, <3>5 DEF BeginFails, QueryEnds, Commit, CommitRejects, Rollback,
           TypeOK, Control
      <3>6. QED
        BY <1>1, <2>2, <3>2, <3>3, <3>4, <3>5 DEF Step
    <2>3. QED
      BY <2>1, <2>2
  <1>2. CASE UNCHANGED vars \/ Terminated
    BY <1>2 DEF Terminated, vars, Ledger
  <1>3. QED
    BY <1>1, <1>2 DEF Next, Ledger

Simulated == TypeOK /\ Protocol /\ Hygiene /\ Ledger

\* A context that carries only the request's own keys is in its scope, and at
\* a statement that reads or writes rows it is the one the request needs.
LEMMA OwnContext ==
    ASSUME NEW r \in Requests, NEW ctx \in Context, NEW at \in PC,
           ctx.company_id # Null =>
               Work[r] = "scoped" /\ ctx.company_id = Actor[r].companyId,
           ctx.user_role # Null =>
               Work[r] = "scoped" /\ ctx.user_role = SessionRole(Actor[r]),
           ctx.global_principal_login => Work[r] = "login",
           at = "query" => Work[r] = "query",
           at = "select" => Work[r] = "login" /\ ctx.global_principal_login,
           at = "work" => Work[r] \in {"scoped", "unscoped"},
           at = "work" /\ Work[r] = "scoped" =>
               /\ ctx.company_id = Actor[r].companyId
               /\ ctx.user_role = SessionRole(Actor[r])
    PROVE  /\ ctx \in Scope[r]
           /\ at \in {"query", "select", "work"} => ctx = Needed[r]
  <1>1. Work[r] \in {"login", "scoped", "unscoped", "query"}
    BY Constants
  <1>2. /\ Work[r] = "scoped" =>
               Needed[r] = [company_id             |-> Actor[r].companyId,
                            user_role              |-> SessionRole(Actor[r]),
                            global_principal_login |-> FALSE]
        /\ Work[r] = "login" =>
               Needed[r] = [company_id             |-> Null,
                            user_role              |-> Null,
                            global_principal_login |-> TRUE]
        /\ Work[r] \in {"unscoped", "query"} => Needed[r] = Cleared
    BY <1>1 DEF Needed, Cleared
  <1>3. /\ ctx.company_id \in {Null, Needed[r].company_id}
        /\ ctx.user_role \in {Null, Needed[r].user_role}
        /\ ctx.global_principal_login => Needed[r].global_principal_login
    BY <1>1, <1>2 DEF Cleared, Context
  <1>4. ctx \in Scope[r]
    BY <1>3 DEF Scope
  <1>5. ASSUME at \in {"query", "select", "work"} PROVE ctx = Needed[r]
    <2>1. ctx = [company_id             |-> ctx.company_id,
                 user_role              |-> ctx.user_role,
                 global_principal_login |-> ctx.global_principal_login]
          /\ ctx.global_principal_login \in BOOLEAN
      BY DEF Context
    <2>2. CASE Work[r] = "scoped"
      BY <1>2, <1>5, <2>1, <2>2
    <2>3. CASE Work[r] = "login"
      BY <1>2, <1>5, <2>1, <2>3
    <2>4. CASE Work[r] \in {"unscoped", "query"}
      BY <1>2, <1>5, <2>1, <2>4 DEF Cleared
    <2>5. QED
      BY <1>1, <2>2, <2>3, <2>4
  <1>6. QED
    BY <1>4, <1>5

\* What a request that holds a connection finds on it.
LEMMA HeldContext ==
    ASSUME Simulated, NEW r \in Requests, conn[r] # Null
    PROVE  /\ session[conn[r]] \in Scope[r]
           /\ pc[r] \in {"query", "select", "work"} => session[conn[r]] = Needed[r]
  <1>1. session[conn[r]] \in Context /\ pc[r] \in PC
    BY DEF Simulated, TypeOK
  <1>2. Control(r) /\ Progress(r) /\ Own(r)
    BY DEF Simulated, Protocol, Hygiene
  <1>3. QED
    BY <1>1, <1>2, OwnContext DEF Control, Progress, Own

\* A step shows in the private view of its own request only.
LEMMA OneViewChanges ==
    ASSUME TypeOK, TypeOK', Sharing, NEW r \in Requests, Step(r)
    PROVE  /\ PrivatePhase' = [PrivatePhase EXCEPT ![r] = PrivatePhase'[r]]
           /\ PrivateSession' = [PrivateSession EXCEPT ![r] = PrivateSession'[r]]
           /\ Committed' = (Committed \ {r}) \cup (Committed' \cap {r})
  <1>1. ASSUME NEW q \in Requests, q # r
        PROVE  /\ PrivatePhase'[q] = PrivatePhase[q]
               /\ PrivateSession'[q] = PrivateSession[q]
               /\ txn'[q] = txn[q]
    BY <1>1, OthersUntouched DEF PrivatePhase, PrivateSession
  <1>2. /\ PrivatePhase = [q \in Requests |-> PrivatePhase[q]]
        /\ PrivatePhase' = [q \in Requests |-> PrivatePhase'[q]]
    BY DEF PrivatePhase
  <1>3. /\ PrivateSession = [q \in Requests |-> PrivateSession[q]]
        /\ PrivateSession' = [q \in Requests |-> PrivateSession'[q]]
    BY DEF PrivateSession
  <1>4. Committed' = (Committed \ {r}) \cup (Committed' \cap {r})
    BY <1>1 DEF Committed
  <1>5. QED
    BY <1>1, <1>2, <1>3, <1>4

\* What a caller's private view can look like.
LEMMA Views ==
    ASSUME TypeOK, NEW r \in Requests
    PROVE  /\ conn[r] = Null => PrivateSession[r] = Cleared
           /\ conn[r] # Null => PrivateSession[r] = session[conn[r]]
           /\ pc[r] = "idle" => PrivatePhase[r] = "waiting"
           /\ pc[r] # "idle" /\ conn[r] = Null => PrivatePhase[r] = "closed"
           /\ pc[r] \in {"query", "select", "work"} /\ conn[r] # Null =>
                  PrivatePhase[r] = "working"
           /\ pc[r] \notin {"idle", "query", "select", "work"} /\ conn[r] # Null =>
                  PrivatePhase[r] = "open"
  BY DEF PrivateSession, PrivatePhase

LEMMA ViewsNext ==
    ASSUME TypeOK', NEW r \in Requests
    PROVE  /\ conn'[r] = Null => PrivateSession'[r] = Cleared
           /\ conn'[r] # Null => PrivateSession'[r] = session'[conn'[r]]
           /\ pc'[r] = "idle" => PrivatePhase'[r] = "waiting"
           /\ pc'[r] # "idle" /\ conn'[r] = Null => PrivatePhase'[r] = "closed"
           /\ pc'[r] \in {"query", "select", "work"} /\ conn'[r] # Null =>
                  PrivatePhase'[r] = "working"
           /\ pc'[r] \notin {"idle", "query", "select", "work"} /\ conn'[r] # Null =>
                  PrivatePhase'[r] = "open"
  BY DEF PrivateSession, PrivatePhase

\* A request that still holds its connection goes on with its own session.
LEMMA ContinueSimulated ==
    ASSUME Simulated, Simulated', NEW r \in Requests, Step(r),
           conn[r] # Null, conn'[r] # Null, pc[r] # "idle", pc'[r] # "idle",
           txn' = txn, result' = result
    PROVE  Private!Continue(r)
  <1>1. PrivatePhase[r] \in {"open", "working"} /\ PrivatePhase'[r] \in {"open", "working"}
    BY Views, ViewsNext DEF Simulated
  <1>2. /\ session'[conn'[r]] \in Context /\ pc'[r] \in PC
        /\ Control(r)' /\ Progress(r)' /\ Own(r)'
    BY DEF Simulated, TypeOK, Protocol, Hygiene
  <1>3. /\ session'[conn'[r]] \in Scope[r]
        /\ pc'[r] \in {"query", "select", "work"} => session'[conn'[r]] = Needed[r]
    BY <1>2, OwnContext DEF Control, Progress, Own
  <1>4. /\ PrivateSession'[r] \in Scope[r]
        /\ PrivatePhase'[r] = "working" => PrivateSession'[r] = Needed[r]
    BY <1>3, ViewsNext DEF Simulated
  <1>5. /\ PrivatePhase' = [PrivatePhase EXCEPT ![r] = PrivatePhase'[r]]
        /\ PrivateSession' = [PrivateSession EXCEPT ![r] = PrivateSession'[r]]
    BY OneViewChanges DEF Simulated, Protocol
  <1>6. UNCHANGED <<Committed, result>>
    BY DEF Committed
  <1>7. QED
    BY <1>1, <1>4, <1>5, <1>6 DEF Private!Continue, Private!Enter, Private!Phase

\* A request that has lost its connection, and its transaction with it.
LEMMA CloseSimulated ==
    ASSUME Simulated, Simulated', NEW r \in Requests, Step(r),
           conn[r] # Null, conn'[r] = Null, pc[r] # "idle", pc'[r] # "idle",
           Work[r] # "query", txn'[r] # "committed", result' = result
    PROVE  Private!Close(r)
  <1>1. PrivatePhase[r] \in {"open", "working"} /\ PrivatePhase'[r] = "closed"
        /\ PrivateSession'[r] = Cleared
    BY Views, ViewsNext DEF Simulated
  <1>2. /\ PrivatePhase' = [PrivatePhase EXCEPT ![r] = PrivatePhase'[r]]
        /\ PrivateSession' = [PrivateSession EXCEPT ![r] = PrivateSession'[r]]
        /\ Committed' = (Committed \ {r}) \cup (Committed' \cap {r})
    BY OneViewChanges DEF Simulated, Protocol
  <1>3. r \notin Committed /\ r \notin Committed'
    BY DEF Simulated, Ledger, Committed
  <1>4. Committed' = Committed
    BY <1>2, <1>3
  <1>5. QED
    BY <1>1, <1>2, <1>4 DEF Private!Close, Private!Leave

LEMMA BeginSimulated ==
    ASSUME Simulated, Simulated', NEW r \in Requests, NEW c \in Connections, Begin(r, c)
    PROVE  Private!Open(r)
  <1>1. Step(r)
    BY DEF Step
  <1>2. /\ pc[r] = "idle" /\ conn'[r] = c /\ pc'[r] = First(r) /\ result' = result
        /\ session'[c] = Cleared /\ c # Null /\ Idle(c)
    BY Constants DEF Begin, Simulated, TypeOK, Hygiene, IdleConnectionsCleared
  <1>3. First(r) \in {"setLogin", "applyCompany", "work", "query"}
    BY Constants DEF First
  <1>4. /\ PrivatePhase[r] = "waiting" /\ PrivatePhase'[r] \in {"open", "working"}
        /\ PrivateSession'[r] = Cleared
        /\ PrivatePhase'[r] = "working" => pc'[r] \in {"work", "query"}
    BY <1>2, <1>3, Views, ViewsNext DEF Simulated
  <1>5. PrivatePhase'[r] = "working" => Needed[r] = Cleared
    BY <1>2, <1>4, Constants DEF First, Needed
  <1>6. /\ PrivatePhase' = [PrivatePhase EXCEPT ![r] = PrivatePhase'[r]]
        /\ PrivateSession' = [PrivateSession EXCEPT ![r] = PrivateSession'[r]]
        /\ Committed' = (Committed \ {r}) \cup (Committed' \cap {r})
    BY <1>1, OneViewChanges DEF Simulated, Protocol
  <1>7. r \notin Committed /\ r \notin Committed'
    BY <1>2 DEF Begin, Simulated, TypeOK, Ledger, Committed
  <1>8. Committed' = Committed
    BY <1>6, <1>7
  <1>9. QED
    BY <1>2, <1>4, <1>5, <1>6, <1>8 DEF Private!Open, Private!Enter, Private!Phase

\* The step that tells a caller: success with its COMMIT or its one statement,
\* and otherwise an error.
LEMMA EndSimulated ==
    ASSUME Simulated, Simulated', NEW r \in Requests,
           BeginFails(r) \/ QueryEnds(r) \/ Commit(r) \/ Rollback(r)
    PROVE  Private!Commit(r) \/ Private!Reply(r) \/ Private!Refuse(r)
  <1>1. Step(r)
    BY DEF Step
  <1>2. Control(r) /\ Progress(r)
    BY DEF Simulated, Protocol
  <1>3. conn'[r] = Null /\ pc'[r] = "done" /\ result[r] = "pending"
    BY <1>2 DEF BeginFails, QueryEnds, Commit, Rollback, Simulated, TypeOK, Ledger, Control
  <1>4. PrivatePhase'[r] = "closed" /\ PrivateSession'[r] = Cleared
    BY <1>3, ViewsNext DEF Simulated
  <1>5. /\ PrivatePhase' = [PrivatePhase EXCEPT ![r] = PrivatePhase'[r]]
        /\ PrivateSession' = [PrivateSession EXCEPT ![r] = PrivateSession'[r]]
        /\ Committed' = (Committed \ {r}) \cup (Committed' \cap {r})
    BY <1>1, OneViewChanges DEF Simulated, Protocol
  <1>6. Private!Leave(r)
    BY <1>4, <1>5 DEF Private!Leave
  <1>7. CASE Commit(r)
    <2>1. /\ PrivatePhase[r] = "open" /\ PrivateSession[r] = Cleared
      BY <1>2, <1>7, Views DEF Commit, Simulated, Control, Progress
    <2>2. Work[r] # "query" /\ r \in Committed'
      BY <1>2, <1>7 DEF Commit, Control, Committed, Simulated, TypeOK
    <2>3. Committed' = Committed \cup ({r} \cap {q \in Requests : Work[q] # "query"})
      BY <1>5, <2>2
    <2>4. QED
      BY <1>3, <1>6, <1>7, <2>1, <2>3 DEF Commit, Private!Commit
  <1>8. ASSUME txn'[r] = "committed" <=> txn[r] = "committed" PROVE Committed' = Committed
    BY <1>5, <1>8 DEF Committed
  <1>9. CASE QueryEnds(r)
    <2>1. PrivatePhase[r] = "working"
      BY <1>2, <1>9, Views DEF QueryEnds, Simulated, Control
    <2>2. r \notin {q \in Requests : Work[q] # "query"}
      BY <1>2, <1>9 DEF QueryEnds, Control
    <2>3. Committed' = Committed
      BY <1>8, <1>9 DEF QueryEnds
    <2>4. QED
      BY <1>3, <1>6, <1>9, <2>1, <2>2, <2>3 DEF QueryEnds, Private!Reply
  <1>10. CASE BeginFails(r) \/ Rollback(r)
    <2>1. PrivatePhase[r] \in {"waiting", "open", "closed"}
      BY <1>10, Views DEF BeginFails, Rollback, Simulated
    <2>2. Committed' = Committed
      BY <1>8, <1>10 DEF BeginFails, Rollback, Simulated, TypeOK
    <2>3. QED
      BY <1>3, <1>6, <1>10, <2>1, <2>2 DEF BeginFails, Rollback, Private!Refuse
  <1>11. QED
    BY <1>7, <1>9, <1>10

LEMMA CommitRejectsSimulated ==
    ASSUME Simulated, Simulated', NEW r \in Requests, CommitRejects(r)
    PROVE  Private!Commit(r) \/ Private!Close(r)
  <1>1. Step(r)
    BY DEF Step
  <1>2. /\ conn[r] # Null /\ session[conn[r]] = Cleared /\ Work[r] # "query"
        /\ pc[r] = "commit" /\ result[r] = "pending"
    BY DEF Simulated, Protocol, Control, Progress, Ledger, CommitRejects
  <1>3. conn'[r] = Null /\ pc'[r] = "clearCompany" /\ result' = result
    BY DEF CommitRejects, Simulated, TypeOK
  <1>4. CASE txn'[r] # "committed"
    BY <1>1, <1>2, <1>3, <1>4, CloseSimulated
  <1>5. CASE txn'[r] = "committed"
    <2>1. /\ PrivatePhase[r] = "open" /\ PrivateSession[r] = Cleared
          /\ PrivatePhase'[r] = "closed" /\ PrivateSession'[r] = Cleared
      BY <1>2, <1>3, Views, ViewsNext DEF Simulated
    <2>2. /\ PrivatePhase' = [PrivatePhase EXCEPT ![r] = PrivatePhase'[r]]
          /\ PrivateSession' = [PrivateSession EXCEPT ![r] = PrivateSession'[r]]
          /\ Committed' = (Committed \ {r}) \cup (Committed' \cap {r})
      BY <1>1, OneViewChanges DEF Simulated, Protocol
    <2>3. r \in Committed'
      BY <1>5 DEF Committed
    <2>4. Committed' = Committed \cup ({r} \cap {q \in Requests : Work[q] # "query"})
      BY <1>2, <2>2, <2>3
    <2>5. "commit" \in Failures
      BY DEF CommitRejects
    <2>6. QED
      BY <1>2, <1>3, <2>1, <2>2, <2>4, <2>5 DEF Private!Commit, Private!Leave
  <1>6. QED
    BY <1>4, <1>5

LEMMA StepSimulated ==
    ASSUME Simulated, Simulated', NEW r \in Requests, Step(r)
    PROVE  Private!Next \/ UNCHANGED <<PrivatePhase, PrivateSession, Committed, result>>
  <1>1. CASE \E c \in Connections : Begin(r, c)
    BY <1>1, BeginSimulated DEF Private!Next
  <1>2. CASE BeginFails(r) \/ QueryEnds(r) \/ Commit(r) \/ Rollback(r)
    BY <1>2, EndSimulated DEF Private!Next
  <1>3. CASE CommitRejects(r)
    BY <1>3, CommitRejectsSimulated DEF Private!Next
  <1>4. CASE StatementResolves(r) \/ StatementRejects(r)
    <2>1. /\ pc[r] \in Statements /\ failed[r] \in BOOLEAN /\ conn[r] # Null
          /\ conn'[r] = conn[r] /\ txn' = txn /\ result' = result
          /\ pc'[r] \in {Resolved(pc[r], failed[r]), Rejected(pc[r], failed[r])}
      BY <1>4 DEF StatementResolves, StatementRejects, Simulated, TypeOK
    <2>2. pc[r] # "idle" /\ pc'[r] # "idle"
      BY <2>1, RejectedTargets DEF Resolved, Statements, Clearing
    <2>3. QED
      BY <2>1, <2>2, ContinueSimulated DEF Private!Next
  <1>5. CASE TransactionAborted(r) \/ ConnectionLost(r)
    <2>1. /\ pc[r] \in Statements /\ failed[r] \in BOOLEAN /\ conn[r] # Null
          /\ conn'[r] = Null /\ txn'[r] = "rolledBack" /\ result' = result
          /\ pc'[r] = Rejected(pc[r], failed[r])
      BY <1>5 DEF TransactionAborted, ConnectionLost, Simulated, TypeOK, Statements
    <2>2. pc[r] # "idle" /\ pc'[r] # "idle" /\ Work[r] # "query"
      BY <2>1, RejectedTargets DEF Simulated, Protocol, Control, Statements, Clearing
    <2>3. QED
      BY <2>1, <2>2, CloseSimulated DEF Private!Next
  <1>6. CASE StatementWithoutConnection(r)
    <2>1. /\ pc[r] \in Statements /\ failed[r] \in BOOLEAN /\ conn[r] = Null
          /\ conn' = conn /\ session' = session /\ txn' = txn /\ result' = result
          /\ pc'[r] = Rejected(pc[r], failed[r])
      BY <1>6 DEF StatementWithoutConnection, Simulated, TypeOK
    <2>2. pc[r] # "idle" /\ pc'[r] # "idle"
      BY <2>1, RejectedTargets DEF Statements, Clearing
    <2>3. PrivatePhase'[r] = PrivatePhase[r] /\ PrivateSession'[r] = PrivateSession[r]
      BY <2>1, <2>2, Views, ViewsNext DEF Simulated
    <2>4. /\ PrivatePhase' = [PrivatePhase EXCEPT ![r] = PrivatePhase'[r]]
          /\ PrivateSession' = [PrivateSession EXCEPT ![r] = PrivateSession'[r]]
      BY OneViewChanges DEF Simulated, Protocol
    <2>5. /\ PrivatePhase = [q \in Requests |-> PrivatePhase[q]]
          /\ PrivateSession = [q \in Requests |-> PrivateSession[q]]
      BY DEF PrivatePhase, PrivateSession
    <2>6. PrivatePhase' = PrivatePhase /\ PrivateSession' = PrivateSession
      BY <2>3, <2>4, <2>5
    <2>7. QED
      BY <2>1, <2>6 DEF Committed
  <1>7. QED
    BY <1>1, <1>2, <1>3, <1>4, <1>5, <1>6 DEF Step

LEMMA SimulatedInvariant == Spec /\ LeakFree => []Simulated
  <1>1. Init => Ledger
    BY DEF Init, Ledger
  <1>2. QED
    BY <1>1, LedgerKept, HygieneInvariant, PTL DEF Spec, Simulated

\* In every behaviour in which nothing leaks, pooled connections are, to each
\* request, a fresh session of its own, in the state its service counts on
\* whenever it touches rows, whatever statements and connections fail.
THEOREM PrivateSessionsImplemented == Spec /\ LeakFree => ImplementsPrivateSessions
  <1>1. Init => Private!Init
    <2> SUFFICES ASSUME Init PROVE Private!Init
      OBVIOUS
    <2>1. PrivatePhase = [r \in Requests |-> "waiting"]
      BY DEF Init, PrivatePhase
    <2>2. PrivateSession = [r \in Requests |-> Cleared]
      BY DEF Init, PrivateSession
    <2>3. Committed = {} /\ result = [r \in Requests |-> "pending"]
      BY DEF Init, Committed
    <2>4. QED
      BY <2>1, <2>2, <2>3 DEF Private!Init
  <1>2. Simulated /\ Simulated' /\ [Next]_vars => [Private!Next]_(Private!privateVars)
    <2> SUFFICES ASSUME Simulated, Simulated', [Next]_vars
                 PROVE  [Private!Next]_(Private!privateVars)
      OBVIOUS
    <2>1. ASSUME NEW r \in Requests, Step(r) PROVE [Private!Next]_(Private!privateVars)
      BY <2>1, StepSimulated DEF Private!privateVars
    <2>2. CASE Terminated \/ UNCHANGED vars
      BY <2>2 DEF Terminated, vars, Private!privateVars, PrivatePhase, PrivateSession,
         Committed
    <2>3. QED
      BY <2>1, <2>2 DEF Next
  <1>3. QED
    BY <1>1, <1>2, SimulatedInvariant, PTL
    DEF Spec, ImplementsPrivateSessions, Private!Spec

\* In the same behaviours every statement that reads or writes rows runs under
\* exactly the context that the modules about those rows take for granted.
THEOREM RowsUnderNeededContext ==
    Spec /\ LeakFree =>
        [](\A r \in Requests :
              conn[r] # Null /\ pc[r] \in {"query", "select", "work"} =>
                  session[conn[r]] = Needed[r])
  <1>1. Simulated => \A r \in Requests :
            conn[r] # Null /\ pc[r] \in {"query", "select", "work"} =>
                session[conn[r]] = Needed[r]
    BY HeldContext
  <1>2. QED
    BY <1>1, SimulatedInvariant, PTL

-----------------------------------------------------------------------------
(* What holds when a COMMIT is always acknowledged *)

\* A caller that was told of a failure finds that nothing was committed.
THEOREM RejectedMeansNothing ==
    ASSUME "commit" \notin Failures PROVE Spec => []RejectedIsRolledBack
  <1> DEFINE Told == \A r \in Requests : txn[r] = "committed" => result[r] = "resolved"
  <1>1. Init => Told
    BY DEF Init
  <1>2. TypeOK /\ Protocol /\ Told /\ [Next]_vars => Told'
    <2> SUFFICES ASSUME TypeOK, Protocol, Told, [Next]_vars PROVE Told'
      OBVIOUS
    <2>1. ASSUME NEW r \in Requests, Step(r), NEW q \in Requests,
                 txn'[q] = "committed"
          PROVE  result'[q] = "resolved"
      <3>1. CASE q # r
        BY <2>1, <3>1, OthersUntouched DEF Protocol
      <3>2. CASE q = r /\ Commit(r)
        BY <3>2 DEF Commit, TypeOK
      <3>3. CASE q = r /\ ~Commit(r)
        <4>1. txn[r] = "committed"
          BY <2>1, <3>3 DEF TypeOK, Step, Begin, BeginFails, QueryEnds,
             StatementResolves, StatementRejects, TransactionAborted,
             ConnectionLost, StatementWithoutConnection, CommitRejects, Rollback
        <4>2. result[r] = "resolved"
          BY <4>1
        <4>3. pc[r] = "done"
          BY <4>1, <4>2 DEF Protocol, Control
        <4>4. QED
          BY <2>1, <3>3, <4>2, <4>3 DEF TypeOK, Protocol, Control, Step, Begin,
             BeginFails, QueryEnds, StatementResolves, StatementRejects,
             TransactionAborted, ConnectionLost, StatementWithoutConnection,
             CommitRejects, Rollback, Statements, Clearing
      <3>4. QED
        BY <3>1, <3>2, <3>3
    <2>2. CASE UNCHANGED vars \/ Terminated
      BY <2>2 DEF Terminated, vars
    <2>3. QED
      BY <2>1, <2>2 DEF Next
  <1>3. Told => RejectedIsRolledBack
    BY DEF RejectedIsRolledBack
  <1>4. QED
    BY <1>1, <1>2, <1>3, ProtocolInvariant, PTL DEF Spec

=============================================================================
