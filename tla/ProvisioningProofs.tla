------------------------- MODULE ProvisioningProofs -------------------------
(***************************************************************************)
(* Proofs about Provisioning, for any number of concurrent calls and any   *)
(* names and emails.                                                       *)
(*                                                                         *)
(* Unique keys are inductive with the types.  That no tenant is half       *)
(* created needs to know, for every call, which of its rows are there at   *)
(* the statement it stands at (Stage), and that no other call's are hers.  *)
(* With one row to an id (Places) the two give the simulation of           *)
(* TenantRegistry: a commit is its Create, an error its Refuse, and every  *)
(* other step a stutter.  They also say who may hold a key that another    *)
(* call waits for, and so that no ring of waiting calls exists.            *)
(***************************************************************************)
EXTENDS Provisioning, TLAPS

\* The call that takes the step, for every disjunct of Next but the seed.
Does(c) ==
    \/ \E body \in Body, who \in {"anonymous", "tenant_admin", "super_admin"} :
           Arrive(c, body, who)
    \/ Work(c)
    \/ Trouble(c)

LEMMA NextIsDone ==
    ASSUME [Next]_vars
    PROVE  (\E c \in Calls : Does(c)) \/ SeedRoles \/ UNCHANGED vars
  BY DEF Next, Does, Terminated

-----------------------------------------------------------------------------
(* Types *)

\* The rows that stay after a rollback were rows before it.
LEMMA UndoShrinks ==
    ASSUME NEW c \in Calls, Undo(c)
    PROVE  /\ companies' \subseteq companies
           /\ users' \subseteq users
           /\ user_roles' \subseteq user_roles
           /\ audit_events' \subseteq audit_events
  BY DEF Undo

\* The type invariant holds in every state of every behaviour.
THEOREM TypeCorrect == Spec => []TypeOK
  <1>1. Init => TypeOK
    BY ProvisioningAssumption DEF Init, TypeOK, Body, User
  <1>2. TypeOK /\ [Next]_vars => TypeOK'
    <2> SUFFICES ASSUME TypeOK, [Next]_vars PROVE TypeOK'
      OBVIOUS
    <2> USE DEF TypeOK
    <2>1. CASE SeedRoles \/ UNCHANGED vars
      BY <2>1 DEF SeedRoles, vars, tables
    <2>2. ASSUME NEW c \in Calls, NEW body \in Body, NEW who, Arrive(c, body, who)
          PROVE  TypeOK'
      BY <2>2 DEF Arrive, tables
    <2>3. ASSUME NEW c \in Calls, BeginWork(c) \/ Commit(c) \/ BeginFails(c)
                                  \/ StatementFails(c) \/ CommitUnacknowledged(c)
                                  \/ Violation(c)
          PROVE  TypeOK'
      BY <2>3 DEF BeginWork, Commit, BeginFails, StatementFails,
                  CommitUnacknowledged, Violation, tables, InWork
    <2>4. ASSUME NEW c \in Calls, InsertCompany(c) PROVE TypeOK'
      <3>1. want[c].name \in Names
        BY <2>4 DEF InsertCompany, Body
      <3>2. QED
        BY <2>4, <3>1 DEF InsertCompany, Company, InWork
    <2>5. ASSUME NEW c \in Calls, InsertAdmin(c) PROVE TypeOK'
      <3>1. want[c].email \in Emails
        BY <2>5 DEF InsertAdmin, Body
      <3>2. QED
        BY <2>5, <3>1 DEF InsertAdmin, User, InWork
    <2>6. ASSUME NEW c \in Calls, AssignRole(c) PROVE TypeOK'
      BY <2>6 DEF AssignRole, UserRole, InWork
    <2>7. ASSUME NEW c \in Calls, RecordAudit(c) PROVE TypeOK'
      BY <2>7 DEF RecordAudit, AuditEvent, InWork
    <2>8. ASSUME NEW c \in Calls, ServerAborts(c) PROVE TypeOK'
      <3>1. Undo(c)
        BY <2>8 DEF ServerAborts
      <3>2. QED
        BY <2>8, <3>1, UndoShrinks DEF ServerAborts, Undo
    <2>9. ASSUME NEW c \in Calls, Rollback(c) PROVE TypeOK'
      <3>1. CASE Undo(c)
        BY <2>9, <3>1, UndoShrinks DEF Rollback, Undo
      <3>2. CASE UNCHANGED <<txn, tables>>
        BY <2>9, <3>2 DEF Rollback, tables
      <3>3. QED
        BY <2>9, <3>1, <3>2 DEF Rollback
    <2>10. QED
      BY NextIsDone, <2>1, <2>2, <2>3, <2>4, <2>5, <2>6, <2>7, <2>8, <2>9
         DEF Does, Work, Trouble
  <1>3. QED
    BY <1>1, <1>2, PTL DEF Spec

-----------------------------------------------------------------------------
(* Unique keys *)

\* No two rows have a key, committed or not.
KeysUnique ==
    /\ \A a, b \in companies : a.name = b.name => a.id = b.id
    /\ \A a, b \in users : a.email = b.email => a.id = b.id

\* A step adds a row under a key that is free, or adds none.
LEMMA KeysKept ==
    ASSUME TypeOK, KeysUnique, NEW c \in Calls, Does(c)
    PROVE  KeysUnique'
  <1>1. CASE InsertCompany(c)
    BY <1>1 DEF InsertCompany, KeysUnique
  <1>2. CASE InsertAdmin(c)
    BY <1>2 DEF InsertAdmin, KeysUnique
  <1>3. ASSUME companies' \subseteq companies, users' \subseteq users
        PROVE  KeysUnique'
    BY <1>3 DEF KeysUnique
  <1>4. CASE \/ \E body \in Body, who \in {"anonymous", "tenant_admin", "super_admin"} :
                    Arrive(c, body, who)
             \/ BeginWork(c) \/ AssignRole(c) \/ RecordAudit(c) \/ Commit(c)
             \/ Violation(c) \/ BeginFails(c) \/ StatementFails(c)
             \/ CommitUnacknowledged(c)
    BY <1>3, <1>4 DEF Arrive, BeginWork, AssignRole, RecordAudit, Commit,
                      Violation, BeginFails, StatementFails,
                      CommitUnacknowledged, tables
  <1>5. CASE ServerAborts(c) \/ Rollback(c)
    BY <1>3, <1>5, UndoShrinks DEF ServerAborts, Rollback, tables
  <1>6. QED
    BY <1>1, <1>2, <1>4, <1>5 DEF Does, Work, Trouble

\* What the constraints give, for the proofs that count on a free key.
LEMMA KeysStayUnique == Spec => []KeysUnique
  <1>1. Init => KeysUnique
    BY DEF Init, KeysUnique
  <1>2. TypeOK /\ KeysUnique /\ [Next]_vars => KeysUnique'
    <2>1. ASSUME KeysUnique, SeedRoles \/ UNCHANGED vars PROVE KeysUnique'
      BY <2>1 DEF SeedRoles, KeysUnique, vars, tables
    <2>2. QED
      BY <2>1, NextIsDone, KeysKept
  <1>3. QED
    BY <1>1, <1>2, TypeCorrect, PTL DEF Spec

-----------------------------------------------------------------------------
(* Atomicity *)

\* No row of call c is there.
NoRows(c) ==
    /\ \A row \in companies : row.id # c
    /\ \A row \in users : row.id # c
    /\ \A row \in user_roles : row.user_id # c
    /\ \A row \in audit_events : row.target_id # c

HasCompany(c) == \E row \in companies : row.id = c
HasAdmin(c) == \E row \in users : row.id = c /\ row.company_id = c
HasRole(c) == [user_id |-> c, company_id |-> c] \in user_roles
HasAudit(c) == [target_id |-> c, actor_user_id |-> Root] \in audit_events

\* What a call that stands at pc[c] has in the tables.
Stage(c) ==
    /\ pc[c] \in {"idle", "begin"} => txn[c] = "none"
    /\ pc[c] \in InWork => txn[c] = "open"
    /\ pc[c] = "done" => txn[c] # "open"
    /\ txn[c] \in {"none", "rolledBack"} => NoRows(c)
    /\ pc[c] \in {"admin", "role", "audit", "commit"} => HasCompany(c)
    /\ pc[c] \in {"role", "audit", "commit"} => HasAdmin(c)
    /\ pc[c] \in {"audit", "commit"} => HasRole(c)
    /\ pc[c] = "commit" => HasAudit(c)
    /\ Committed(c) => HasCompany(c) /\ HasAdmin(c) /\ HasRole(c) /\ HasAudit(c)

\* A row names no company but that of its own call.
Belonging ==
    /\ \A row \in users : row.company_id = row.id \/ row.company_id = Null
    /\ \A row \in user_roles : row.company_id = row.user_id

Atomicity == Belonging /\ \A c \in Calls : Stage(c)

LEMMA BelongingKept ==
    ASSUME TypeOK, Belonging, NEW c \in Calls, Does(c)
    PROVE  Belonging'
  <1>1. CASE InsertAdmin(c)
    BY <1>1 DEF InsertAdmin, Belonging
  <1>2. CASE AssignRole(c)
    BY <1>2 DEF AssignRole, Belonging
  <1>3. ASSUME users' \subseteq users, user_roles' \subseteq user_roles
        PROVE  Belonging'
    BY <1>3 DEF Belonging
  <1>4. CASE \/ \E body \in Body, who \in {"anonymous", "tenant_admin", "super_admin"} :
                    Arrive(c, body, who)
             \/ BeginWork(c) \/ InsertCompany(c) \/ RecordAudit(c) \/ Commit(c)
             \/ Violation(c) \/ BeginFails(c) \/ StatementFails(c)
             \/ CommitUnacknowledged(c)
    BY <1>3, <1>4 DEF Arrive, BeginWork, InsertCompany, RecordAudit, Commit,
                      Violation, BeginFails, StatementFails,
                      CommitUnacknowledged, tables
  <1>5. CASE ServerAborts(c) \/ Rollback(c)
    BY <1>3, <1>5, UndoShrinks DEF ServerAborts, Rollback, tables
  <1>6. QED
    BY <1>1, <1>2, <1>4, <1>5 DEF Does, Work, Trouble

\* A rollback leaves no row of its own call, and every row of the others.
LEMMA UndoOwn ==
    ASSUME NEW c \in Calls, Undo(c) PROVE NoRows(c)'
  BY DEF Undo, NoRows

LEMMA UndoOthers ==
    ASSUME NEW c \in Calls, NEW q \in Calls, q # c, Undo(c), TypeOK
    PROVE  /\ txn'[q] = txn[q]
           /\ NoRows(q) => NoRows(q)'
           /\ HasCompany(q) => HasCompany(q)'
           /\ HasAdmin(q) => HasAdmin(q)'
           /\ HasRole(q) => HasRole(q)'
           /\ HasAudit(q) => HasAudit(q)'
  BY DEF Undo, NoRows, HasCompany, HasAdmin, HasRole, HasAudit, TypeOK

\* The step of one call does not move another.
LEMMA OthersStay ==
    ASSUME TypeOK, NEW c \in Calls, NEW q \in Calls, q # c, Does(c), Stage(q)
    PROVE  Stage(q)'
  <1> DEFINE Kept ==
        /\ pc'[q] = pc[q]
        /\ txn'[q] = txn[q]
        /\ NoRows(q) => NoRows(q)'
        /\ HasCompany(q) => HasCompany(q)'
        /\ HasAdmin(q) => HasAdmin(q)'
        /\ HasRole(q) => HasRole(q)'
        /\ HasAudit(q) => HasAudit(q)'
  <1>1. SUFFICES Kept
    BY DEF Stage, Committed
  <1> USE DEF TypeOK
  <1>2. CASE \/ \E body \in Body, who \in {"anonymous", "tenant_admin", "super_admin"} :
                    Arrive(c, body, who)
             \/ BeginWork(c) \/ Commit(c) \/ Violation(c) \/ BeginFails(c)
             \/ StatementFails(c) \/ CommitUnacknowledged(c)
    <2>1. UNCHANGED tables /\ pc'[q] = pc[q] /\ txn'[q] = txn[q]
      BY <1>2 DEF Arrive, BeginWork, Commit, Violation, BeginFails,
                  StatementFails, CommitUnacknowledged
    <2>2. QED
      BY <2>1 DEF tables, NoRows, HasCompany, HasAdmin, HasRole, HasAudit
  <1>3. CASE InsertCompany(c)
    BY <1>3 DEF InsertCompany, NoRows, HasCompany, HasAdmin, HasRole, HasAudit
  <1>4. CASE InsertAdmin(c)
    BY <1>4 DEF InsertAdmin, NoRows, HasCompany, HasAdmin, HasRole, HasAudit
  <1>5. CASE AssignRole(c)
    BY <1>5 DEF AssignRole, NoRows, HasCompany, HasAdmin, HasRole, HasAudit
  <1>6. CASE RecordAudit(c)
    BY <1>6 DEF RecordAudit, NoRows, HasCompany, HasAdmin, HasRole, HasAudit
  <1>7. CASE ServerAborts(c)
    BY <1>7, UndoOthers DEF ServerAborts
  <1>8. CASE Rollback(c)
    <2>1. CASE Undo(c)
      BY <1>8, <2>1, UndoOthers DEF Rollback
    <2>2. CASE UNCHANGED <<txn, tables>>
      BY <1>8, <2>2 DEF Rollback, tables, NoRows, HasCompany, HasAdmin,
                        HasRole, HasAudit
    <2>3. QED
      BY <1>8, <2>1, <2>2 DEF Rollback
  <1>9. QED
    BY <1>2, <1>3, <1>4, <1>5, <1>6, <1>7, <1>8 DEF Does, Work, Trouble

\* The step of a call takes it from one stage to the next.
LEMMA OwnStage ==
    ASSUME TypeOK, NEW c \in Calls, Does(c), Stage(c)
    PROVE  Stage(c)'
  <1> USE DEF TypeOK
  <1>1. CASE \/ \E body \in Body, who \in {"anonymous", "tenant_admin", "super_admin"} :
                    Arrive(c, body, who)
             \/ BeginWork(c) \/ BeginFails(c)
    BY <1>1 DEF Arrive, BeginWork, BeginFails, tables, Stage, NoRows, InWork, Committed
  <1>2. CASE Violation(c) \/ StatementFails(c)
    BY <1>2 DEF Violation, Violates, StatementFails, tables, Stage, InWork, Committed
  <1>3. CASE Commit(c) \/ CommitUnacknowledged(c)
    BY <1>3 DEF Commit, CommitUnacknowledged, tables, Stage, InWork, Committed,
                HasCompany, HasAdmin, HasRole, HasAudit
  <1>4. CASE InsertCompany(c)
    <2>1. pc'[c] = "admin" /\ txn'[c] = "open"
      BY <1>4 DEF InsertCompany, Stage, InWork
    <2>2. HasCompany(c)'
      <3> DEFINE new == [id |-> c, name |-> want[c].name]
      <3>1. new \in companies' /\ new.id = c
        BY <1>4 DEF InsertCompany
      <3> HIDE DEF new
      <3>2. QED
        BY <3>1 DEF HasCompany
    <2>3. QED
      BY <2>1, <2>2 DEF Stage, InWork, Committed
  <1>5. CASE InsertAdmin(c)
    <2>1. pc'[c] = "role" /\ txn'[c] = "open"
      BY <1>5 DEF InsertAdmin, Stage, InWork
    <2>2. HasCompany(c)'
      BY <1>5 DEF InsertAdmin, Stage, HasCompany
    <2>3. HasAdmin(c)'
      <3> DEFINE new == [id |-> c, company_id |-> c, email |-> want[c].email]
      <3>1. new \in users' /\ new.id = c /\ new.company_id = c
        BY <1>5 DEF InsertAdmin
      <3> HIDE DEF new
      <3>2. QED
        BY <3>1 DEF HasAdmin
    <2>4. QED
      BY <2>1, <2>2, <2>3 DEF Stage, InWork, Committed
  <1>6. CASE AssignRole(c)
    BY <1>6 DEF AssignRole, Stage, InWork, Committed, HasCompany, HasAdmin, HasRole
  <1>7. CASE RecordAudit(c)
    BY <1>7 DEF RecordAudit, Stage, InWork, Committed, HasCompany, HasAdmin,
                HasRole, HasAudit
  <1>8. CASE ServerAborts(c)
    BY <1>8, UndoOwn DEF ServerAborts, Undo, Stage, InWork, Committed
  <1>9. CASE Rollback(c)
    <2>1. CASE Undo(c)
      BY <1>9, <2>1, UndoOwn DEF Rollback, Undo, Stage, InWork, Committed
    <2>2. CASE UNCHANGED <<txn, tables>> /\ txn[c] # "open"
      BY <1>9, <2>2 DEF Rollback, tables, Stage, NoRows, InWork, Committed,
                        HasCompany, HasAdmin, HasRole, HasAudit
    <2>3. QED
      BY <1>9, <2>1, <2>2 DEF Rollback
  <1>10. QED
    BY <1>1, <1>2, <1>3, <1>4, <1>5, <1>6, <1>7, <1>8, <1>9 DEF Does, Work, Trouble

LEMMA AtomicityInvariant == Spec => [](TypeOK /\ Atomicity)
  <1>1. Init => Atomicity
    BY ProvisioningAssumption
       DEF Init, Atomicity, Belonging, Stage, NoRows, InWork, Committed
  <1>2. TypeOK /\ Atomicity /\ [Next]_vars => Atomicity'
    <2>1. ASSUME Atomicity, SeedRoles \/ UNCHANGED vars PROVE Atomicity'
      BY <2>1 DEF SeedRoles, vars, tables, Atomicity, Belonging, Stage, NoRows,
                  Committed, HasCompany, HasAdmin, HasRole, HasAudit
    <2>2. ASSUME TypeOK, Atomicity, NEW c \in Calls, Does(c) PROVE Atomicity'
      BY <2>2, BelongingKept, OthersStay, OwnStage DEF Atomicity
    <2>3. QED
      BY <2>1, <2>2, NextIsDone
  <1>3. QED
    BY <1>1, <1>2, TypeCorrect, PTL DEF Spec

\* A tenant is complete or absent, whatever fails and whoever else is at work.
THEOREM TenantsAreWhole == Spec => []NoHalfCreatedTenant
  <1>1. TypeOK /\ Atomicity => NoHalfCreatedTenant
    <2> SUFFICES ASSUME TypeOK, Atomicity, NEW c \in Calls
                 PROVE  /\ Committed(c) =>
                              HasCompany(c) /\ HasAdmin(c) /\ HasRole(c) /\ HasAudit(c)
                        /\ pc[c] = "done" /\ ~Committed(c) =>
                              /\ NoRows(c)
                              /\ \A row \in users : row.company_id # c
                              /\ \A row \in user_roles : row.company_id # c
      BY DEF NoHalfCreatedTenant, NoRows, HasCompany, HasAdmin, HasRole, HasAudit
    <2>1. Stage(c) /\ Belonging /\ txn[c] \in {"none", "open", "committed", "rolledBack"}
      BY DEF Atomicity, TypeOK
    <2>2. pc[c] = "done" /\ ~Committed(c) => NoRows(c)
      BY <2>1 DEF Stage, Committed
    <2>3. QED
      BY <2>1, <2>2, ProvisioningAssumption DEF Stage, Belonging, NoRows
  <1>2. QED
    BY <1>1, AtomicityInvariant, PTL

-----------------------------------------------------------------------------
(* The registry *)

\* What a call that has not inserted yet has not got, and who has an answer.
Fresh(c) ==
    /\ pc[c] = "company" => \A row \in companies : row.id # c
    /\ pc[c] \in {"company", "admin"} => \A row \in users : row.id # c
    /\ pc[c] # "done" => answer[c] = "none"

\* One row to an id, and the seeded super admin stays.
IdsUnique ==
    /\ \A a, b \in companies : a.id = b.id => a = b
    /\ \A a, b \in users : a.id = b.id => a = b
    /\ [id |-> Root, company_id |-> Null, email |-> RootEmail] \in users

Places == IdsUnique /\ \A c \in Calls : Fresh(c)

\* Inserted rows are of the call that inserts, which is new to the table.
LEMMA InsertsOwn ==
    ASSUME TypeOK, NEW c \in Calls, Does(c)
    PROVE  /\ \/ companies' \subseteq companies
              \/ /\ pc[c] = "company" /\ pc'[c] # "company" /\ users' = users
                 /\ \E row : row.id = c /\ companies' = companies \cup {row}
           /\ \/ users' \subseteq users
              \/ /\ pc[c] = "admin" /\ companies' = companies
                 /\ \E row : row.id = c /\ users' = users \cup {row}
  <1>1. CASE InsertCompany(c)
    <2> DEFINE new == [id |-> c, name |-> want[c].name]
    <2>1. new.id = c /\ companies' = companies \cup {new} /\ users' = users
      BY <1>1 DEF InsertCompany
    <2> HIDE DEF new
    <2>2. QED
      BY <1>1, <2>1 DEF InsertCompany, TypeOK
  <1>2. CASE InsertAdmin(c)
    <2> DEFINE new == [id |-> c, company_id |-> c, email |-> want[c].email]
    <2>1. new.id = c /\ users' = users \cup {new} /\ companies' = companies
      BY <1>2 DEF InsertAdmin
    <2> HIDE DEF new
    <2>2. QED
      BY <1>2, <2>1 DEF InsertAdmin
  <1>3. CASE ServerAborts(c) \/ Rollback(c)
    BY <1>3, UndoShrinks DEF ServerAborts, Rollback, tables
  <1>4. CASE \/ \E body \in Body, who \in {"anonymous", "tenant_admin", "super_admin"} :
                    Arrive(c, body, who)
             \/ BeginWork(c) \/ AssignRole(c) \/ RecordAudit(c) \/ Commit(c)
             \/ Violation(c) \/ BeginFails(c) \/ StatementFails(c)
             \/ CommitUnacknowledged(c)
    BY <1>4 DEF Arrive, BeginWork, AssignRole, RecordAudit, Commit, Violation,
                BeginFails, StatementFails, CommitUnacknowledged, tables
  <1>5. QED
    BY <1>1, <1>2, <1>3, <1>4 DEF Does, Work, Trouble

\* No step gives an id to two rows, or an answer before the end.
LEMMA PlacesKept ==
    ASSUME TypeOK, Atomicity, Places, NEW c \in Calls, Does(c)
    PROVE  Places'
  <1> USE DEF TypeOK
  <1>1. ASSUME NEW q \in Calls, q # c PROVE Fresh(q)'
    <2>1. pc'[q] = pc[q] /\ answer'[q] = answer[q]
      BY <1>1 DEF Does, Work, Trouble, Arrive, BeginWork, InsertCompany, InsertAdmin,
             AssignRole, RecordAudit, Commit, Violation, Rollback, BeginFails,
             StatementFails, ServerAborts, CommitUnacknowledged
    <2>2. \A row \in companies' : row.id = q => row \in companies
      BY <1>1, InsertsOwn
    <2>3. \A row \in users' : row.id = q => row \in users
      BY <1>1, InsertsOwn
    <2>4. QED
      BY <2>1, <2>2, <2>3 DEF Places, Fresh
  <1>2. Fresh(c)'
    <2>1. pc'[c] # "done" => answer'[c] = answer[c] /\ pc[c] # "done"
      <3>1. CASE \E body \in Body, who \in {"anonymous", "tenant_admin", "super_admin"} :
                    Arrive(c, body, who)
        BY <3>1 DEF Arrive
      <3>2. CASE Work(c)
        BY <3>2 DEF Work, BeginWork, InsertCompany, InsertAdmin, AssignRole,
                    RecordAudit, Commit, Violation, Violates, Rollback
      <3>3. CASE Trouble(c)
        BY <3>3 DEF Trouble, BeginFails, StatementFails, ServerAborts,
                    CommitUnacknowledged, InWork
      <3>4. QED
        BY <3>1, <3>2, <3>3 DEF Does
    <2>2. CASE pc'[c] = "company"
      <3>1. BeginWork(c)
        BY <2>2 DEF Does, Work, Trouble, Arrive, InsertCompany, InsertAdmin,
               AssignRole, RecordAudit, Commit, Violation, Rollback, BeginFails,
               StatementFails, ServerAborts, CommitUnacknowledged
      <3>2. NoRows(c)
        BY <3>1 DEF BeginWork, Atomicity, Stage
      <3>3. QED
        BY <2>1, <3>1, <3>2 DEF Places, Fresh, BeginWork, tables, NoRows
    <2>3. CASE pc'[c] = "admin"
      <3>1. InsertCompany(c)
        BY <2>3 DEF Does, Work, Trouble, Arrive, BeginWork, InsertAdmin,
               AssignRole, RecordAudit, Commit, Violation, Rollback, BeginFails,
               StatementFails, ServerAborts, CommitUnacknowledged
      <3>2. QED
        BY <2>1, <2>3, <3>1 DEF Places, Fresh, InsertCompany
    <2>4. QED
      BY <2>1, <2>2, <2>3 DEF Places, Fresh
  <1>3. IdsUnique'
    <2>1. \A a, b \in companies' : a.id = b.id => a = b
      <3>1. CASE companies' \subseteq companies
        BY <3>1 DEF Places, IdsUnique
      <3>2. CASE pc[c] = "company" /\ (\E row : row.id = c /\ companies' = companies \cup {row})
        BY <3>2 DEF Places, IdsUnique, Fresh
      <3>3. QED
        BY <3>1, <3>2, InsertsOwn
    <2>2. \A a, b \in users' : a.id = b.id => a = b
      <3>1. CASE users' \subseteq users
        BY <3>1 DEF Places, IdsUnique
      <3>2. CASE pc[c] = "admin" /\ (\E row : row.id = c /\ users' = users \cup {row})
        BY <3>2 DEF Places, IdsUnique, Fresh
      <3>3. QED
        BY <3>1, <3>2, InsertsOwn
    <2>3. [id |-> Root, company_id |-> Null, email |-> RootEmail] \in users'
      <3> DEFINE root == [id |-> Root, company_id |-> Null, email |-> RootEmail]
      <3>1. root \in users /\ root.id # c
        BY ProvisioningAssumption DEF Places, IdsUnique
      <3> HIDE DEF root
      <3>2. ASSUME Undo(c) PROVE root \in users'
        BY <3>1, <3>2 DEF Undo
      <3>3. ASSUME ServerAborts(c) \/ Rollback(c) PROVE root \in users'
        BY <3>1, <3>2, <3>3 DEF ServerAborts, Rollback, tables
      <3>4. ASSUME \/ \E body \in Body, who \in {"anonymous", "tenant_admin", "super_admin"} :
                          Arrive(c, body, who)
                   \/ BeginWork(c) \/ InsertCompany(c) \/ InsertAdmin(c)
                   \/ AssignRole(c) \/ RecordAudit(c) \/ Commit(c) \/ Violation(c)
                   \/ BeginFails(c) \/ StatementFails(c) \/ CommitUnacknowledged(c)
            PROVE  root \in users'
        BY <3>1, <3>4 DEF Arrive, BeginWork, InsertCompany, InsertAdmin, AssignRole,
           RecordAudit, Commit, Violation, BeginFails, StatementFails,
           CommitUnacknowledged, tables
      <3>5. QED
        BY <3>3, <3>4 DEF root, Does, Work, Trouble
    <2>4. QED
      BY <2>1, <2>2, <2>3 DEF IdsUnique
  <1>4. QED
    BY <1>1, <1>2, <1>3 DEF Places

\* The invariants the simulation rests on hold together.
LEMMA PlacesInvariant == Spec => [](TypeOK /\ Atomicity /\ KeysUnique /\ Places)
  <1>1. Init => Places
    <2> SUFFICES ASSUME Init PROVE Places
      OBVIOUS
    <2>1. IdsUnique
      BY DEF Init, IdsUnique
    <2>2. \A c \in Calls : Fresh(c)
      BY DEF Init, Fresh
    <2>3. QED
      BY <2>1, <2>2 DEF Places
  <1>2. TypeOK /\ Atomicity /\ Places /\ [Next]_vars => Places'
    <2>1. ASSUME Places, SeedRoles \/ UNCHANGED vars PROVE Places'
      BY <2>1 DEF SeedRoles, vars, tables, Places, IdsUnique, Fresh
    <2>2. QED
      BY <2>1, NextIsDone, PlacesKept
  <1>3. QED
    BY <1>1, <1>2, AtomicityInvariant, KeysStayUnique, PTL DEF Spec

\* The entry of the registry that a company and its administrator make.
Entry(a, u) == [by |-> a.id, name |-> a.name, email |-> u.email]

\* The tenants read off any tables and transactions.
Read(C, U, T) ==
    {[by |-> t[1].id, name |-> t[1].name, email |-> t[2].email] :
         t \in {pair \in C \X U :
                   /\ pair[2].company_id = pair[1].id
                   /\ T[pair[1].id] = "committed"}}

\* An entry is there for a company, its administrator and their commit.
LEMMA ReadIsEntries ==
    ASSUME NEW C, NEW U, NEW T
    PROVE  \A x : x \in Read(C, U, T) <=>
               \E a \in C, u \in U :
                   u.company_id = a.id /\ T[a.id] = "committed" /\ x = Entry(a, u)
  <1>1. ASSUME NEW x \in Read(C, U, T)
        PROVE  \E a \in C, u \in U :
                   u.company_id = a.id /\ T[a.id] = "committed" /\ x = Entry(a, u)
    <2>1. PICK t \in C \X U :
              /\ t[2].company_id = t[1].id /\ T[t[1].id] = "committed"
              /\ x = [by |-> t[1].id, name |-> t[1].name, email |-> t[2].email]
      BY <1>1 DEF Read
    <2>2. t[1] \in C /\ t[2] \in U
      BY <2>1
    <2>3. QED
      BY <2>1, <2>2 DEF Entry
  <1>2. ASSUME NEW a \in C, NEW u \in U, u.company_id = a.id, T[a.id] = "committed"
        PROVE  Entry(a, u) \in Read(C, U, T)
    <2>1. <<a, u>> \in C \X U /\ <<a, u>>[1] = a /\ <<a, u>>[2] = u
      OBVIOUS
    <2>2. QED
      BY <1>2, <2>1 DEF Read, Entry
  <1>3. QED
    BY <1>1, <1>2

\* The registry is what is read off the tables now, and after a step.
LEMMA RegistryIsRead ==
    Registry = Read(companies, users, txn) /\ Registry' = Read(companies', users', txn')
  BY DEF Registry, Read, Committed

\* What happens to the rows of a call that is not committed, before or after,
\* the registry does not see.
LEMMA RegistrySame ==
    ASSUME TypeOK, Belonging, TypeOK', Belonging', NEW c \in Calls,
           txn[c] # "committed", txn'[c] # "committed",
           \A q \in Calls : q # c => txn'[q] = txn[q],
           \A row \in companies : row.id # c => row \in companies',
           \A row \in companies' : row.id # c => row \in companies,
           \A row \in users : row.id # c => row \in users',
           \A row \in users' : row.id # c => row \in users
    PROVE  Registry' = Registry
  <1>1. ASSUME NEW a \in companies, NEW u \in users,
               u.company_id = a.id, txn[a.id] = "committed"
        PROVE  a \in companies' /\ u \in users' /\ txn'[a.id] = "committed"
    <2>1. a.id \in Calls /\ a.id # c
      BY <1>1 DEF TypeOK, Company
    <2>2. u.id = a.id
      BY <1>1, <2>1, ProvisioningAssumption DEF Belonging
    <2>3. QED
      BY <1>1, <2>1, <2>2
  <1>2. ASSUME NEW a \in companies', NEW u \in users',
               u.company_id = a.id, txn'[a.id] = "committed"
        PROVE  a \in companies /\ u \in users /\ txn[a.id] = "committed"
    <2>1. a.id \in Calls /\ a.id # c
      BY <1>2 DEF TypeOK, Company
    <2>2. u.id = a.id
      BY <1>2, <2>1, ProvisioningAssumption DEF Belonging
    <2>3. QED
      BY <1>2, <2>1, <2>2
  <1>3. \A x : x \in Read(companies, users, txn) <=> x \in Read(companies', users', txn')
    <2>1. \A x : x \in Read(companies, users, txn) <=>
               \E a \in companies, u \in users :
                   u.company_id = a.id /\ txn[a.id] = "committed" /\ x = Entry(a, u)
      BY ReadIsEntries
    <2>2. \A x : x \in Read(companies', users', txn') <=>
               \E a \in companies', u \in users' :
                   u.company_id = a.id /\ txn'[a.id] = "committed" /\ x = Entry(a, u)
      BY ReadIsEntries
    <2> HIDE DEF Entry
    <2>3. QED
      BY <1>1, <1>2, <2>1, <2>2
  <1>4. QED
    BY <1>3, RegistryIsRead

\* What every state of a behaviour has, before and after the step simulated.
Sound == TypeOK /\ Atomicity /\ KeysUnique /\ Places

\* A commit is the moment the tenant appears: nobody else has its name or
\* email, because the call's uncommitted rows held both keys.
LEMMA CommitCreates ==
    ASSUME Sound, Sound', NEW c \in Calls, Commit(c) \/ CommitUnacknowledged(c)
    PROVE  \E name \in Names, email \in Emails : Abstract!Create(c, name, email)
  <1> USE DEF Sound
  <1>1. /\ txn[c] = "open" /\ answer[c] = "none"
        /\ UNCHANGED tables /\ txn' = [txn EXCEPT ![c] = "committed"]
        /\ answer' \in {answer, [answer EXCEPT ![c] = "created"]}
    BY DEF Commit, CommitUnacknowledged, Atomicity, Stage, InWork, Places, Fresh
  <1>2. PICK mine \in companies, admin \in users :
            mine.id = c /\ admin.id = c /\ admin.company_id = c
    BY DEF Commit, CommitUnacknowledged, Atomicity, Stage, HasCompany, HasAdmin
  <1>3. mine.name \in Names /\ admin.email \in Emails
    BY DEF TypeOK, Company, User
  <1>4. \A x : x \in Registry <=>
            \E a \in companies, u \in users :
                u.company_id = a.id /\ txn[a.id] = "committed" /\ x = Entry(a, u)
    BY ReadIsEntries, RegistryIsRead
  <1>5. \A x : x \in Registry' <=>
            \E a \in companies', u \in users' :
                u.company_id = a.id /\ txn'[a.id] = "committed" /\ x = Entry(a, u)
    BY ReadIsEntries, RegistryIsRead
  <1>6. ASSUME NEW a \in companies, NEW u \in users,
               u.company_id = a.id, txn[a.id] = "committed"
        PROVE  a.id # c /\ a.name # mine.name /\ u.email # admin.email
    <2>1. a.id \in Calls /\ a.id # c
      BY <1>1, <1>6 DEF TypeOK, Company
    <2>2. u.id = a.id
      BY <1>6, <2>1, ProvisioningAssumption DEF Atomicity, Belonging
    <2>3. QED
      BY <1>2, <2>1, <2>2 DEF KeysUnique
  <1>7. admin.email # RootEmail
    <2> DEFINE root == [id |-> Root, company_id |-> Null, email |-> RootEmail]
    <2>1. root \in users /\ root.id # c /\ root.email = RootEmail
      BY ProvisioningAssumption DEF Places, IdsUnique
    <2> HIDE DEF root
    <2>2. QED
      BY <1>2, <2>1 DEF KeysUnique
  <1>8. ASSUME NEW x PROVE x \in Registry' <=> x \in Registry \cup {Entry(mine, admin)}
    <2>1. ASSUME NEW a \in companies, NEW u \in users, u.company_id = a.id, a.id = c
          PROVE  a = mine /\ u = admin
      <3>1. u.id = c
        BY <2>1, ProvisioningAssumption DEF Atomicity, Belonging
      <3>2. QED
        BY <1>2, <2>1, <3>1 DEF Places, IdsUnique
    <2>2. \A a \in companies : txn'[a.id] = "committed" <=>
                                   txn[a.id] = "committed" \/ a.id = c
      BY <1>1 DEF TypeOK, Company
    <2>3. companies' = companies /\ users' = users
      BY <1>1 DEF tables
    <2> HIDE DEF Sound, Entry
    <2>4. QED
      BY <1>2, <1>4, <1>5, <2>1, <2>2, <2>3
  <1>9. Entry(mine, admin) = [by |-> c, name |-> mine.name, email |-> admin.email]
    BY <1>2 DEF Entry
  <1>10. Registry' = Registry \cup {Entry(mine, admin)}
    BY <1>8
  <1>11. \A t \in Registry : t.by # c /\ t.name # mine.name /\ t.email # admin.email
    BY <1>4, <1>6 DEF Entry
  <1>12. Abstract!Create(c, mine.name, admin.email)
    BY <1>1, <1>7, <1>9, <1>10, <1>11 DEF Abstract!Create, Abstract!Free
  <1>13. QED
    BY <1>3, <1>12

\* A step that does not commit changes no row the registry sees.
LEMMA OnlyCommitsShow ==
    ASSUME Sound, Sound', NEW c \in Calls, Does(c),
           ~(Commit(c) \/ CommitUnacknowledged(c))
    PROVE  Registry' = Registry
  <1> USE DEF Sound
  <1>1. CASE UNCHANGED <<companies, users, txn>>
    BY <1>1, RegistryIsRead
  <1> DEFINE Others ==
        /\ \A q \in Calls : q # c => txn'[q] = txn[q]
        /\ \A row \in companies : row.id # c => row \in companies'
        /\ \A row \in companies' : row.id # c => row \in companies
        /\ \A row \in users : row.id # c => row \in users'
        /\ \A row \in users' : row.id # c => row \in users
  <1>2. ASSUME txn[c] # "committed", txn'[c] # "committed", Others
        PROVE  Registry' = Registry
    BY <1>2, RegistrySame DEF Atomicity
  <1> HIDE DEF Others
  <1>3. CASE BeginWork(c)
    <2>1. /\ txn[c] # "committed" /\ txn' = [txn EXCEPT ![c] = "open"]
          /\ UNCHANGED <<companies, users>>
      BY <1>3 DEF BeginWork, tables, Atomicity, Stage
    <2>2. Others /\ txn'[c] # "committed"
      BY <2>1 DEF Others, TypeOK
    <2>3. QED
      BY <1>2, <2>1, <2>2
  <1>4. CASE InsertCompany(c) \/ InsertAdmin(c)
    <2>1. txn[c] = "open" /\ txn' = txn
      BY <1>4 DEF InsertCompany, InsertAdmin, Atomicity, Stage, InWork
    <2>2. CASE InsertCompany(c)
      <3> DEFINE new == [id |-> c, name |-> want[c].name]
      <3>1. new.id = c /\ companies' = companies \cup {new} /\ users' = users
        BY <2>2 DEF InsertCompany
      <3> HIDE DEF new
      <3>2. Others
        BY <2>1, <3>1 DEF Others
      <3>3. QED
        BY <1>2, <2>1, <3>2
    <2>3. CASE InsertAdmin(c)
      <3> DEFINE new == [id |-> c, company_id |-> c, email |-> want[c].email]
      <3>1. new.id = c /\ users' = users \cup {new} /\ companies' = companies
        BY <2>3 DEF InsertAdmin
      <3> HIDE DEF new
      <3>2. Others
        BY <2>1, <3>1 DEF Others
      <3>3. QED
        BY <1>2, <2>1, <3>2
    <2>4. QED
      BY <1>4, <2>2, <2>3
  <1>5. ASSUME Undo(c), txn[c] = "open" PROVE Registry' = Registry
    <2>1. Others /\ txn'[c] # "committed"
      BY <1>5 DEF Undo, Others, TypeOK
    <2>2. QED
      BY <1>2, <1>5, <2>1
  <1>6. CASE ServerAborts(c) \/ Rollback(c)
    BY <1>1, <1>5, <1>6 DEF ServerAborts, Rollback, tables, Atomicity, Stage, InWork
  <1>7. CASE \/ \E body \in Body, who \in {"anonymous", "tenant_admin", "super_admin"} :
                    Arrive(c, body, who)
             \/ AssignRole(c) \/ RecordAudit(c) \/ Violation(c)
             \/ BeginFails(c) \/ StatementFails(c)
    BY <1>1, <1>7 DEF Arrive, AssignRole, RecordAudit, Violation, BeginFails,
                      StatementFails, tables
  <1>8. QED
    BY <1>3, <1>4, <1>6, <1>7 DEF Does, Work, Trouble

\* What such a step tells the caller is nothing, or a refusal.
LEMMA OtherwiseRefused ==
    ASSUME Sound, NEW c \in Calls, Does(c), ~(Commit(c) \/ CommitUnacknowledged(c))
    PROVE  \/ answer' = answer
           \/ answer[c] = "none" /\ answer' = [answer EXCEPT ![c] = "refused"]
  <1>1. pc[c] # "done" => answer[c] = "none"
    BY DEF Sound, Places, Fresh
  <1>2. CASE \E body \in Body, who \in {"anonymous", "tenant_admin", "super_admin"} :
                 Arrive(c, body, who)
    BY <1>1, <1>2 DEF Arrive
  <1>3. CASE BeginFails(c) \/ Rollback(c)
    BY <1>1, <1>3 DEF BeginFails, Rollback
  <1>4. CASE \/ BeginWork(c) \/ InsertCompany(c) \/ InsertAdmin(c) \/ AssignRole(c)
             \/ RecordAudit(c) \/ Violation(c) \/ StatementFails(c) \/ ServerAborts(c)
    BY <1>4 DEF BeginWork, InsertCompany, InsertAdmin, AssignRole, RecordAudit,
                Violation, StatementFails, ServerAborts
  <1>5. QED
    BY <1>2, <1>3, <1>4 DEF Does, Work, Trouble

\* Every step of the code is a step of the registry, or none.
LEMMA StepsSimulate ==
    ASSUME Sound, Sound', [Next]_vars
    PROVE  [Abstract!Next]_<<Registry, answer>>
  <1>1. CASE SeedRoles \/ UNCHANGED vars
    BY <1>1, RegistryIsRead DEF SeedRoles, vars, tables
  <1>2. ASSUME NEW c \in Calls, Commit(c) \/ CommitUnacknowledged(c)
        PROVE  Abstract!Next
    BY <1>2, CommitCreates DEF Abstract!Next
  <1>3. ASSUME NEW c \in Calls, Does(c), ~(Commit(c) \/ CommitUnacknowledged(c))
        PROVE  Abstract!Refuse(c) \/ UNCHANGED <<Registry, answer>>
    BY <1>3, OnlyCommitsShow, OtherwiseRefused DEF Abstract!Refuse
  <1>4. QED
    BY <1>1, <1>2, <1>3, NextIsDone DEF Abstract!Next

\* createCompany implements the registry of tenants: each appears complete, in
\* one step, under a name and an email that were free, and nobody is told
\* "created" of a tenant that is not there.
THEOREM RegistryImplemented == Spec => ImplementsRegistry
  <1>1. Init => Abstract!Init
    <2> SUFFICES ASSUME Init PROVE Registry = {} /\ answer = [q \in Calls |-> "none"]
      BY DEF Abstract!Init
    <2>1. Registry = {}
      BY DEF Init, Registry
    <2>2. QED
      BY <2>1 DEF Init
  <1>2. Spec => []Sound
    BY PlacesInvariant, PTL DEF Sound
  <1>3. Sound /\ Sound' /\ [Next]_vars => [Abstract!Next]_<<Registry, answer>>
    BY StepsSimulate
  <1>4. QED
    BY <1>1, <1>2, <1>3, PTL DEF Spec, ImplementsRegistry, Abstract!Spec

-----------------------------------------------------------------------------
(* Calls that wait *)

\* A key that is waited for is on a row of an open transaction, and whoever
\* holds a row has passed the statement that inserts it.
LEMMA HoldersAreOpen ==
    ASSUME TypeOK, Atomicity, Places, NEW c \in Calls
    PROVE  /\ WaitsForName(c) =>
                  \E d \in Calls : AtWork(d) /\ pc[d] # "company"
           /\ WaitsForEmail(c) =>
                  \E d \in Calls : AtWork(d) /\ pc[d] \notin {"company", "admin"}
  <1> DEFINE Holder(d) == d \in Calls /\ d \notin Settled
  <1>1. ASSUME NEW d, Holder(d), ~NoRows(d) PROVE AtWork(d)
    <2>1. txn[d] = "open" /\ Stage(d)
      BY <1>1 DEF Atomicity, Stage, Settled, TypeOK
    <2>2. QED
      BY <1>1, <2>1 DEF TypeOK, Stage, AtWork
  <1>2. CASE WaitsForName(c)
    <2>1. PICK row \in companies : row.name = want[c].name
      BY <1>2 DEF WaitsForName
    <2>2. Holder(row.id)
      BY <1>2, <2>1 DEF WaitsForName, Violates, TypeOK, Company
    <2>3. AtWork(row.id)
      BY <1>1, <2>2 DEF NoRows
    <2>4. pc[row.id] # "company"
      BY <2>2 DEF Places, Fresh
    <2>5. QED
      BY <1>2, <2>2, <2>3, <2>4 DEF WaitsForName, WaitsForEmail
  <1>3. CASE WaitsForEmail(c)
    <2>1. PICK row \in users : row.email = want[c].email
      BY <1>3 DEF WaitsForEmail
    <2>2. Holder(row.id)
      BY <1>3, <2>1 DEF WaitsForEmail, Violates, TypeOK, User, Settled
    <2>3. AtWork(row.id)
      BY <1>1, <2>2 DEF NoRows
    <2>4. pc[row.id] \notin {"company", "admin"}
      BY <2>2 DEF Places, Fresh
    <2>5. QED
      BY <1>3, <2>2, <2>3, <2>4 DEF WaitsForName, WaitsForEmail
  <1>4. QED
    BY <1>2, <1>3

\* However many calls contend for however many keys, none of them waits in a
\* ring or for a call that is over: whoever waits for a name waits for a call
\* past that statement, and whoever waits for an email for one past both.
THEOREM NobodyDeadlocks == Spec => []SomebodyMoves
  <1>1. TypeOK /\ Atomicity /\ Places => SomebodyMoves
    <2> SUFFICES ASSUME TypeOK, Atomicity, Places, NEW c \in Calls, Waits(c)
                 PROVE  \E d \in Calls : AtWork(d) /\ ~Waits(d)
      BY DEF SomebodyMoves
    <2>1. ASSUME NEW q \in Calls, WaitsForEmail(q)
          PROVE  \E d \in Calls : AtWork(d) /\ ~Waits(d)
      BY <2>1, HoldersAreOpen DEF Waits, WaitsForName, WaitsForEmail
    <2>2. CASE WaitsForName(c)
      <3>1. PICK q \in Calls : AtWork(q) /\ pc[q] # "company"
        BY <2>2, HoldersAreOpen
      <3>2. CASE WaitsForEmail(q)
        BY <2>1, <3>2
      <3>3. CASE ~WaitsForEmail(q)
        BY <3>1, <3>3 DEF Waits, WaitsForName
      <3>4. QED
        BY <3>2, <3>3
    <2>3. QED
      BY <2>1, <2>2 DEF Waits
  <1>2. QED
    BY <1>1, PlacesInvariant, PTL

=============================================================================
