-------------------------- MODULE SmokeRunsProofs --------------------------
(***************************************************************************)
(* Proofs about the two smoke wrappers, for any number of runs, names and  *)
(* retries.                                                                *)
(*                                                                         *)
(* Besides its types each wrapper keeps one invariant, Owning or Holding,  *)
(* which says whose database, or whose container, a run can rely on at     *)
(* each of its steps.                                                      *)
(***************************************************************************)
EXTENDS SmokeRuns, TLAPS

-----------------------------------------------------------------------------
(* The local wrapper *)

Db(r) == [name |-> name[r], by |-> r]
HasDb(r) == \E d \in databases : d.by = r

\* The body of Create, for one outcome of its command.
CreateSays(r, worked, code) ==
    /\ worked => ~Exists(name[r])
    /\ databases' = IF worked
                    THEN databases \cup {[name |-> name[r], by |-> r]}
                    ELSE databases
    /\ unsaid' = [unsaid EXCEPT ![r] = worked /\ code # 0]
    /\ IF Runner(code) = "resolves"
       THEN /\ created' = [created EXCEPT ![r] = TRUE]
            /\ lpc' = [lpc EXCEPT ![r] = "script"]
            /\ UNCHANGED primaryError
       ELSE /\ primaryError' = [primaryError EXCEPT ![r] = TRUE]
            /\ Finally(r, FALSE)
            /\ UNCHANGED created

\* What CREATE DATABASE can come to: done and said so, done and not said so,
\* not done.
Created(r) ==
    /\ databases' = databases \cup {Db(r)}
    /\ ~Exists(name[r])
    /\ created' = [created EXCEPT ![r] = TRUE]
    /\ lpc' = [lpc EXCEPT ![r] = "script"]
    /\ unsaid' = [unsaid EXCEPT ![r] = FALSE]
    /\ UNCHANGED primaryError

CreatedUnsaid(r) ==
    /\ databases' = databases \cup {Db(r)}
    /\ ~Exists(name[r])
    /\ lpc' = [lpc EXCEPT ![r] = "end"]
    /\ unsaid' = [unsaid EXCEPT ![r] = TRUE]
    /\ primaryError' = [primaryError EXCEPT ![r] = TRUE]
    /\ UNCHANGED created

NotCreated(r) ==
    /\ lpc' = [lpc EXCEPT ![r] = "end"]
    /\ unsaid' = [unsaid EXCEPT ![r] = FALSE]
    /\ primaryError' = [primaryError EXCEPT ![r] = TRUE]
    /\ UNCHANGED <<databases, created>>

LEMMA CreateOutcomes ==
    ASSUME NEW r \in Runs, Create(r)
    PROVE  Created(r) \/ CreatedUnsaid(r) \/ NotCreated(r)
  <1>1. PICK worked \in BOOLEAN :
           \E code \in Sqlcmd(worked) : CreateSays(r, worked, code)
    BY DEF Create, CreateSays
  <1>2. PICK code \in Sqlcmd(worked) : CreateSays(r, worked, code)
    BY <1>1
  <1>3. CASE worked /\ code = 0
    <2>1. (worked /\ code # 0) = FALSE
      BY <1>3
    <2>2. QED
      BY <1>2, <1>3, <2>1 DEF CreateSays, Created, Runner, Db
  <1>4. CASE worked /\ code = 1
    <2>1. (worked /\ code # 0) = TRUE
      BY <1>4
    <2>2. QED
      BY <1>2, <1>4, <2>1 DEF CreateSays, CreatedUnsaid, Runner, Finally, Db
  <1>5. CASE ~worked
    <2>1. code = 1
      BY <1>2, <1>5 DEF Sqlcmd
    <2>2. (worked /\ code # 0) = FALSE
      BY <1>5
    <2>3. databases' = databases
      BY <1>2, <1>5 DEF CreateSays
    <2>4. unsaid' = [unsaid EXCEPT ![r] = FALSE]
      <3>1. unsaid' = [unsaid EXCEPT ![r] = worked /\ code # 0]
        BY <1>2 DEF CreateSays
      <3>2. QED
        BY <2>2, <3>1, Zenon
    <2>5. Runner(code) # "resolves"
      BY <2>1 DEF Runner
    <2>6. QED
      BY <1>2, <2>3, <2>4, <2>5 DEF CreateSays, NotCreated, Finally
  <1>6. QED
    BY <1>3, <1>4, <1>5 DEF Sqlcmd

LEMMA ScriptOutcomes ==
    ASSUME NEW r \in Runs, Script(r)
    PROVE  /\ lpc' = [lpc EXCEPT ![r] =
                         IF created[r] /\ ~keepDatabase[r] THEN "drop" ELSE "end"]
           /\ \/ /\ passed' = [passed EXCEPT ![r] = TRUE]
                 /\ primaryError' = [primaryError EXCEPT ![r] = FALSE]
              \/ /\ passed' = [passed EXCEPT ![r] = TRUE]
                 /\ primaryError' = [primaryError EXCEPT ![r] = TRUE]
              \/ /\ passed' = [passed EXCEPT ![r] = FALSE]
                 /\ primaryError' = [primaryError EXCEPT ![r] = TRUE]
  <1>1. PICK worked \in BOOLEAN : \E code \in Sqlcmd(worked) :
           /\ passed' = [passed EXCEPT ![r] = worked]
           /\ primaryError' = [primaryError EXCEPT ![r] = Runner(code) = "rejects"]
    BY DEF Script
  <1>2. PICK code \in Sqlcmd(worked) :
           /\ passed' = [passed EXCEPT ![r] = worked]
           /\ primaryError' = [primaryError EXCEPT ![r] = Runner(code) = "rejects"]
    BY <1>1
  <1>3. /\ code \in {0, 1} /\ (~worked => code = 1)
        /\ (Runner(0) = "rejects") = FALSE /\ (Runner(1) = "rejects") = TRUE
    BY <1>2 DEF Sqlcmd, Runner
  <1>4. worked \in {TRUE, FALSE}
    OBVIOUS
  <1>5. QED
    BY <1>2, <1>3, <1>4 DEF Script, Finally

\* The body of Drop, for one outcome of its command.
DropSays(r, worked, code) ==
    /\ databases' = IF worked THEN {d \in databases : d.name # name[r]}
                              ELSE databases
    /\ unsaid' = [unsaid EXCEPT ![r] = unsaid[r] \/ ~worked]
    /\ primaryError' = [primaryError EXCEPT ![r] =
           primaryError[r] \/ Runner(code) = "rejects"]

LEMMA DropOutcomes ==
    ASSUME NEW r \in Runs, Drop(r), LocalTypeOK
    PROVE  \/ /\ databases' = {d \in databases : d.name # name[r]}
              /\ UNCHANGED <<unsaid, primaryError>>
           \/ /\ databases' = {d \in databases : d.name # name[r]}
              /\ primaryError' = [primaryError EXCEPT ![r] = TRUE]
              /\ UNCHANGED unsaid
           \/ /\ unsaid' = [unsaid EXCEPT ![r] = TRUE]
              /\ primaryError' = [primaryError EXCEPT ![r] = TRUE]
              /\ UNCHANGED databases
  <1>1. PICK worked \in BOOLEAN : \E code \in Sqlcmd(worked) : DropSays(r, worked, code)
    BY DEF Drop, DropSays
  <1>2. PICK code \in Sqlcmd(worked) : DropSays(r, worked, code)
    BY <1>1
  <1>3. unsaid[r] \in BOOLEAN /\ primaryError[r] \in BOOLEAN
    BY DEF LocalTypeOK
  <1>4. CASE worked /\ code = 0
    <2>1. (unsaid[r] \/ ~worked) = unsaid[r]
      BY <1>3, <1>4
    <2>2. (primaryError[r] \/ Runner(code) = "rejects") = primaryError[r]
      BY <1>3, <1>4 DEF Runner
    <2>3. QED
      BY <1>2, <1>4, <2>1, <2>2 DEF DropSays, LocalTypeOK
  <1>5. CASE worked /\ code = 1
    <2>1. (unsaid[r] \/ ~worked) = unsaid[r]
      BY <1>3, <1>5
    <2>2. (primaryError[r] \/ Runner(code) = "rejects") = TRUE
      BY <1>3, <1>5 DEF Runner
    <2>3. QED
      BY <1>2, <1>5, <2>1, <2>2 DEF DropSays, LocalTypeOK
  <1>6. CASE ~worked
    <2>1. (unsaid[r] \/ ~worked) = TRUE
      BY <1>3, <1>6
    <2>2. (primaryError[r] \/ Runner(code) = "rejects") = TRUE
      BY <1>2, <1>3, <1>6 DEF Runner, Sqlcmd
    <2>3. QED
      BY <1>2, <1>6, <2>1, <2>2 DEF DropSays
  <1>7. QED
    BY <1>4, <1>5, <1>6 DEF Sqlcmd

\* A step of the local wrapper, of one of its runs.
LocalStep(r) ==
    \/ \E n \in Env, keep \in BOOLEAN, password \in BOOLEAN :
           StartLocal(r, n, keep, password)
    \/ LocalWork(r)
    \/ KillLocal(r)

\* Types, and a name from the environment once a run has started.
Named == LocalTypeOK /\ \A r \in Runs : lpc[r] # "idle" => name[r] \in Env

LEMMA NamedKept ==
    ASSUME Named, NEW r \in Runs, LocalStep(r)
    PROVE  Named'
  <1> USE DEF Named, LocalTypeOK
  <1>1. ASSUME NEW n \in Env, NEW keep \in BOOLEAN, NEW password \in BOOLEAN,
               StartLocal(r, n, keep, password)
        PROVE  Named'
    BY <1>1 DEF StartLocal
  <1>2. CASE Create(r)
    <2>1. name[r] \in Env /\ Db(r) \in [name : Env, by : Runs \cup {Nobody}]
      BY <1>2 DEF Create, Db
    <2>2. UNCHANGED <<name, keepDatabase, passed, lexit>>
      BY <1>2 DEF Create
    <2>3. lpc[r] = "create"
      BY <1>2 DEF Create
    <2>4. CASE Created(r)
      BY <2>1, <2>2, <2>3, <2>4 DEF Created
    <2>5. CASE CreatedUnsaid(r)
      BY <2>1, <2>2, <2>3, <2>5 DEF CreatedUnsaid
    <2>6. CASE NotCreated(r)
      BY <2>1, <2>2, <2>3, <2>6 DEF NotCreated
    <2>7. QED
      BY <1>2, <2>4, <2>5, <2>6, CreateOutcomes
  <1>3. CASE Script(r)
    <2>1. lpc[r] = "script" /\ UNCHANGED <<databases, name, keepDatabase, created, unsaid, lexit>>
      BY <1>3 DEF Script
    <2>2. QED
      BY <1>3, <2>1, ScriptOutcomes
  <1>4. CASE Drop(r)
    <2>1. /\ lpc[r] = "drop"
          /\ lpc' = [lpc EXCEPT ![r] = "end"]
          /\ UNCHANGED <<name, keepDatabase, created, passed, lexit>>
      BY <1>4 DEF Drop
    <2>2. QED
      BY <1>4, <2>1, DropOutcomes
  <1>5. CASE EndLocal(r)
    BY <1>5 DEF EndLocal
  <1>6. CASE KillLocal(r)
    BY <1>6 DEF KillLocal
  <1>7. QED
    BY <1>1, <1>2, <1>3, <1>4, <1>5, <1>6 DEF LocalStep, LocalWork

\* A run has no database before it creates one, its own under its own name
\* from then on, and still has it when it runs the script or the DROP.
Owns(r) ==
    /\ \A d \in databases : d.by = r => d = Db(r)
    /\ lpc[r] \in {"idle", "create"} =>
           ~HasDb(r) /\ ~primaryError[r] /\ ~created[r]
    /\ lpc[r] \in {"script", "drop"} => Db(r) \in databases /\ created[r]
    /\ lpc[r] = "script" => ~primaryError[r]
    /\ lpc[r] = "drop" => ~keepDatabase[r]
    /\ lpc[r] \in {"drop", "end"} /\ ~primaryError[r] => passed[r]
    /\ lpc[r] = "end" /\ ~primaryError[r] => (HasDb(r) <=> keepDatabase[r])
    /\ lpc[r] \in {"end", "done"} /\ HasDb(r) => keepDatabase[r] \/ unsaid[r]
    /\ lexit[r] # Nobody => lpc[r] = "done"
    /\ lexit[r] = 0 => passed[r] /\ (HasDb(r) <=> keepDatabase[r])

\* Names are unique on the server.
NamesUnique == \A d, e \in databases : d.name = e.name => d = e

Owning == NamesUnique /\ \A r \in Runs : Owns(r)

\* Nothing of run q changes.
Untouched(q) ==
    /\ \A d : d.by = q => (d \in databases' <=> d \in databases)
    /\ name'[q] = name[q]
    /\ keepDatabase'[q] = keepDatabase[q]
    /\ lpc'[q] = lpc[q]
    /\ created'[q] = created[q]
    /\ primaryError'[q] = primaryError[q]
    /\ passed'[q] = passed[q]
    /\ unsaid'[q] = unsaid[q]
    /\ lexit'[q] = lexit[q]

\* A step of a run changes nothing of another: a DROP takes the run's own
\* database, the only one of its name.
LEMMA OthersKeep ==
    ASSUME Named, Owning, NEW r \in Runs, LocalStep(r), NEW q \in Runs, q # r
    PROVE  Untouched(q)
  <1> USE DEF Named, LocalTypeOK, Untouched
  <1>1. CASE Create(r)
    <2>1. Db(r).by = r
      BY DEF Db
    <2>2. CASE Created(r) \/ CreatedUnsaid(r)
      BY <1>1, <2>1, <2>2 DEF Created, CreatedUnsaid, Create
    <2>3. CASE NotCreated(r)
      BY <1>1, <2>3 DEF NotCreated, Create
    <2>4. QED
      BY <1>1, <2>2, <2>3, CreateOutcomes
  <1>2. CASE Script(r)
    BY <1>2, ScriptOutcomes DEF Script
  <1>3. CASE Drop(r)
    <2>1. Db(r) \in databases /\ Db(r).name = name[r] /\ Db(r).by = r
      BY <1>3 DEF Drop, Owning, Owns, Db
    <2>2. \A d \in databases : d.name = name[r] => d.by = r
      BY <2>1 DEF Owning, NamesUnique
    <2>3. QED
      BY <1>3, <2>2, DropOutcomes DEF Drop
  <1>4. CASE EndLocal(r) \/ KillLocal(r)
    BY <1>4 DEF EndLocal, KillLocal
  <1>5. ASSUME NEW n \in Env, NEW keep \in BOOLEAN, NEW password \in BOOLEAN,
               StartLocal(r, n, keep, password)
        PROVE  Untouched(q)
    BY <1>5 DEF StartLocal
  <1>6. QED
    BY <1>1, <1>2, <1>3, <1>4, <1>5 DEF LocalStep, LocalWork

LEMMA NamesStayUnique ==
    ASSUME Named, NamesUnique, NEW r \in Runs, LocalStep(r)
    PROVE  NamesUnique'
  <1>1. CASE databases' \subseteq databases
    BY <1>1 DEF NamesUnique
  <1>2. CASE databases' = databases \cup {Db(r)} /\ ~Exists(name[r])
    BY <1>2 DEF NamesUnique, Exists, Db
  <1>3. QED
    BY <1>1, <1>2, CreateOutcomes, DropOutcomes
       DEF LocalStep, LocalWork, StartLocal, Script, EndLocal, KillLocal,
           Created, CreatedUnsaid, NotCreated, Named

LEMMA OthersOwn ==
    ASSUME NEW q \in Runs, Owns(q), Untouched(q)
    PROVE  Owns(q)'
  <1>1. Db(q)' = Db(q) /\ Db(q).by = q
    BY DEF Untouched, Db
  <1>2. HasDb(q)' <=> HasDb(q)
    BY DEF Untouched, HasDb
  <1>3. /\ \A d \in databases' : d.by = q => d = Db(q)
        /\ Db(q) \in databases' <=> Db(q) \in databases
    BY <1>1 DEF Untouched, Owns
  <1>4. QED
    BY <1>1, <1>2, <1>3 DEF Untouched, Owns

LEMMA OwnStep ==
    ASSUME Named, Owning, NEW r \in Runs, LocalStep(r)
    PROVE  Owns(r)'
  <1> USE DEF Named, LocalTypeOK, Owns
  <1>1. Owns(r)
    BY DEF Owning
  <1>2. \A n : ([name |-> n, by |-> r]).by = r
    OBVIOUS
  <1>3. ASSUME NEW n \in Env, NEW keep \in BOOLEAN, NEW password \in BOOLEAN,
               StartLocal(r, n, keep, password)
        PROVE  Owns(r)'
    <2>1. ~HasDb(r) /\ databases' = databases /\ ~primaryError[r] /\ ~created[r]
      BY <1>1, <1>3 DEF StartLocal
    <2>2. ~HasDb(r)'
      BY <2>1 DEF HasDb
    <2>3. lexit'[r] # 0 /\ lpc'[r] \in {"create", "done"}
          /\ (lexit'[r] # Nobody => lpc'[r] = "done")
      BY <1>1, <1>3, RunsAssumption DEF StartLocal
    <2>4. QED
      BY <1>3, <2>1, <2>2, <2>3 DEF StartLocal, HasDb
  <1>4. CASE Create(r)
    <2>1. /\ lpc[r] = "create" /\ ~HasDb(r) /\ ~primaryError[r] /\ ~created[r]
          /\ lexit[r] = Nobody
          /\ UNCHANGED <<name, keepDatabase, passed, lexit>>
      BY <1>1, <1>4 DEF Create
    <2>2. Db(r)' = Db(r) /\ Db(r).by = r
      BY <2>1 DEF Db
    <2>3. CASE Created(r)
      <3>1. databases' = databases \cup {Db(r)} /\ HasDb(r)'
        BY <2>2, <2>3 DEF Created, HasDb
      <3>2. QED
        BY <2>1, <2>2, <2>3, <3>1, RunsAssumption DEF Created, HasDb
    <2>4. CASE CreatedUnsaid(r)
      BY <2>1, <2>2, <2>4, RunsAssumption DEF CreatedUnsaid, HasDb
    <2>5. CASE NotCreated(r)
      <3>1. ~HasDb(r)'
        BY <2>1, <2>5 DEF NotCreated, HasDb
      <3>2. QED
        BY <2>1, <2>2, <2>5, <3>1, RunsAssumption DEF NotCreated, HasDb
    <2>6. QED
      BY <1>4, <2>3, <2>4, <2>5, CreateOutcomes
  <1>5. CASE Script(r)
    <2>1. /\ lpc[r] = "script" /\ Db(r) \in databases /\ created[r]
          /\ lexit[r] = Nobody
          /\ UNCHANGED <<databases, name, keepDatabase, created, unsaid, lexit>>
      BY <1>1, <1>5 DEF Script
    <2>2. Db(r)' = Db(r) /\ HasDb(r)' /\ lexit'[r] # 0 /\ lexit'[r] = Nobody
      BY <2>1, <1>2, RunsAssumption DEF Db, HasDb
    <2>3. ~primaryError'[r] => passed'[r]
      BY <1>5, ScriptOutcomes
    <2>4. lpc'[r] = IF keepDatabase[r] THEN "end" ELSE "drop"
      BY <1>5, <2>1, ScriptOutcomes
    <2>5. QED
      BY <1>1, <2>1, <2>2, <2>3, <2>4
  <1>6. CASE Drop(r)
    <2>1. /\ lpc[r] = "drop" /\ ~keepDatabase[r] /\ lexit[r] = Nobody
          /\ lpc' = [lpc EXCEPT ![r] = "end"]
          /\ UNCHANGED <<name, keepDatabase, created, passed, lexit>>
      BY <1>1, <1>6 DEF Drop
    <2>2. Db(r)' = Db(r) /\ Db(r).name = name[r] /\ databases' \subseteq databases
      BY <1>6, <2>1, DropOutcomes DEF Db
    <2>3. (~primaryError'[r] => ~primaryError[r]) /\ (HasDb(r)' => primaryError'[r] /\ unsaid'[r])
      <3>1. CASE databases' = {d \in databases : d.name # name[r]}
        <4>1. ~HasDb(r)'
          BY <1>1, <2>2, <3>1 DEF HasDb
        <4>2. QED
          BY <1>6, <4>1, DropOutcomes
      <3>2. CASE /\ unsaid' = [unsaid EXCEPT ![r] = TRUE]
                 /\ primaryError' = [primaryError EXCEPT ![r] = TRUE]
        BY <3>2
      <3>3. QED
        BY <1>6, <3>1, <3>2, DropOutcomes
    <2>4. QED
      BY <1>1, <2>1, <2>2, <2>3, RunsAssumption
  <1>7. CASE EndLocal(r)
    <2>1. /\ lpc[r] = "end" /\ lpc' = [lpc EXCEPT ![r] = "done"]
          /\ lexit' = [lexit EXCEPT ![r] = IF primaryError[r] THEN 1 ELSE 0]
          /\ UNCHANGED <<databases, name, keepDatabase, created, primaryError,
                         passed, unsaid>>
      BY <1>7 DEF EndLocal
    <2>2. Db(r)' = Db(r) /\ (HasDb(r)' <=> HasDb(r))
      BY <2>1 DEF Db, HasDb
    <2>3. QED
      BY <1>1, <2>1, <2>2
  <1>8. CASE KillLocal(r)
    <2>1. /\ lpc[r] \in {"create", "script", "drop", "end"}
          /\ lpc' = [lpc EXCEPT ![r] = "killed"]
          /\ UNCHANGED <<databases, name, keepDatabase, created, primaryError,
                         passed, unsaid, lexit>>
      BY <1>8 DEF KillLocal
    <2>2. Db(r)' = Db(r) /\ (HasDb(r)' <=> HasDb(r))
      BY <2>1 DEF Db, HasDb
    <2>3. QED
      BY <1>1, <2>1, <2>2, RunsAssumption
  <1>9. QED
    BY <1>3, <1>4, <1>5, <1>6, <1>7, <1>8 DEF LocalStep, LocalWork

LEMMA OwningKept ==
    ASSUME Named, Owning, NEW r \in Runs, LocalStep(r)
    PROVE  Owning'
  <1>1. NamesUnique'
    BY NamesStayUnique DEF Owning
  <1>2. ASSUME NEW q \in Runs PROVE Owns(q)'
    <2>1. CASE q = r
      BY <2>1, OwnStep
    <2>2. CASE q # r
      BY <2>2, OthersKeep, OthersOwn DEF Owning
    <2>3. QED
      BY <2>1, <2>2
  <1>3. QED
    BY <1>1, <1>2 DEF Owning

-----------------------------------------------------------------------------
(* The wrapper with a container *)

\* A step of the other wrapper, of one of its runs.
ContainerStep(r) == StartContainer(r) \/ ContainerWork(r) \/ ContainerTrouble(r)

\* A run that has not thrown for lack of a server has an attempt left.
Attempting ==
    /\ ContainerTypeOK
    /\ \A r \in Runs :
           cpc[r] \in {"idle", "remove", "run", "wait"} => attempt[r] <= Retries

LEMMA RetriesPositive == Retries \in Nat \ {0}
  BY ContainerSmokeAssumption, RunsAssumption DEF Retries, PositiveInt

Containers == [there : BOOLEAN, by : Runs \cup {Nobody}, ready : BOOLEAN,
               copied : BOOLEAN, used : BOOLEAN]

LEMMA ContainerTyped ==
    /\ None \in Containers /\ ~None.there
    /\ \A r \in Runs \cup {Nobody} :
           Started(r) \in Containers /\ Started(r).there /\ Started(r).by = r
  BY DEF None, Started, Containers

\* Docker's and SQL Server's work on the container leaves it what it was.
LEMMA ContainerKept ==
    ASSUME container \in Containers
    PROVE  /\ [container EXCEPT !.copied = TRUE] \in Containers
           /\ [container EXCEPT !.copied = TRUE].by = container.by
           /\ [container EXCEPT !.copied = TRUE].there = container.there
           /\ [container EXCEPT !.ready = TRUE] \in Containers
           /\ [container EXCEPT !.ready = TRUE].by = container.by
           /\ [container EXCEPT !.ready = TRUE].there = container.there
           /\ \A u \in BOOLEAN :
                  /\ [container EXCEPT !.used = u] \in Containers
                  /\ [container EXCEPT !.used = u].by = container.by
                  /\ [container EXCEPT !.used = u].there = container.there
  BY DEF Containers

\* What a step makes of the container: it is as it was, with something done in
\* it, gone, or new.
LEMMA ContainerSteps ==
    ASSUME ContainerTypeOK, NEW r \in Runs, ContainerStep(r)
    PROVE  \/ container'.there = container.there /\ container'.by = container.by
              /\ container' \in Containers
           \/ container' = None /\ cpc[r] \in {"remove", "finally"}
           \/ container' = Started(r) /\ cpc[r] = "run" /\ ~container.there
  <1>1. container \in Containers /\ TRUE \in BOOLEAN
    BY DEF ContainerTypeOK, Containers
  <1>2. CASE ScriptIn(r)
    <2>1. container.ready \in BOOLEAN
      BY <1>1 DEF Containers
    <2>2. CASE container' = [container EXCEPT !.used = TRUE]
      BY <1>1, <2>2, ContainerKept
    <2>3. CASE container' = [container EXCEPT !.used = container.ready]
      BY <1>1, <2>1, <2>3, ContainerKept
    <2>4. QED
      BY <1>2, <2>2, <2>3 DEF ScriptIn
  <1>3. CASE Copy(r)
    <2>1. CASE container' = [container EXCEPT !.copied = TRUE]
      BY <1>1, <2>1, ContainerKept
    <2>2. CASE UNCHANGED container
      BY <1>1, <2>2
    <2>3. QED
      BY <1>3, <2>1, <2>2 DEF Copy
  <1>4. CASE RunContainer(r)
    BY <1>1, <1>4 DEF RunContainer
  <1>5. CASE RemoveFirst(r) \/ RemoveLast(r)
    BY <1>1, <1>5 DEF RemoveFirst, RemoveLast, RemoveContainer
  <1>6. CASE StartContainer(r) \/ Probe(r) \/ RemovalThrows(r)
    BY <1>1, <1>6 DEF StartContainer, Probe, RemovalThrows
  <1>7. CASE CommandFails(r) \/ KillContainer(r)
    <2>1. container.ready \in BOOLEAN
      BY <1>1 DEF Containers
    <2>2. CASE container' = [container EXCEPT !.copied = TRUE]
      BY <1>1, <2>2, ContainerKept
    <2>3. CASE container' = [container EXCEPT !.used = container.ready]
      BY <1>1, <2>1, <2>3, ContainerKept
    <2>4. QED
      BY <1>1, <1>7, <2>2, <2>3 DEF CommandFails, KillContainer, CutShort
  <1>8. QED
    BY <1>2, <1>3, <1>4, <1>5, <1>6, <1>7 DEF ContainerStep, ContainerWork,
                                              ContainerTrouble

LEMMA AttemptingKept ==
    ASSUME Attempting, NEW r \in Runs, ContainerStep(r)
    PROVE  Attempting'
  <1> DEFINE Rest == /\ cpc \in [Runs -> {"idle", "done", "killed"} \cup Live]
                     /\ attempt \in [Runs -> 1..(Retries + 1)]
                     /\ threw \in [Runs -> BOOLEAN]
                     /\ passedIn \in [Runs -> SUBSET (Runs \cup {Nobody})]
                     /\ conflict \in [Runs -> BOOLEAN]
                     /\ unremoved \in [Runs -> BOOLEAN]
                     /\ alone \in [Runs -> BOOLEAN]
                     /\ cexit \in [Runs -> {0, 1, Nobody}]
                     /\ \A q \in Runs :
                            cpc[q] \in {"idle", "remove", "run", "wait"}
                                => attempt[q] <= Retries
  <1>1. container' \in Containers
    BY ContainerSteps, ContainerTyped DEF Attempting
  <1>2. Rest /\ container.there \in BOOLEAN /\ container.by \in Runs \cup {Nobody}
    BY DEF Attempting, ContainerTypeOK
  <1>3. Rest'
    <2> USE <1>2 DEF Live, InTry
    <2>1. CASE StartContainer(r)
      <3>1. \A q \in Runs : alone'[q] \in BOOLEAN
        BY <2>1 DEF StartContainer
      <3>2. QED
        BY <2>1, <3>1 DEF StartContainer
    <2>2. CASE RemoveFirst(r) \/ RemoveLast(r) \/ RemovalThrows(r)
      BY <2>2 DEF RemoveFirst, RemoveLast, RemovalThrows, RemoveContainer
    <2>3. CASE RunContainer(r)
      <3>1. CASE container.there /\ Throws(r)
        BY <2>3, <3>1 DEF RunContainer, Throws
      <3>2. CASE ~container.there /\ Proceeds(r, "wait")
        BY <2>3, <3>2 DEF RunContainer, Proceeds
      <3>3. QED
        BY <2>3, <3>1, <3>2 DEF RunContainer
    <2>4. CASE Probe(r)
      <3>1. CASE Proceeds(r, "copy") /\ UNCHANGED attempt
        BY <2>4, <3>1 DEF Probe, Proceeds
      <3>2. CASE /\ attempt' = [attempt EXCEPT ![r] = attempt[r] + 1]
                 /\ attempt[r] < Retries
                 /\ UNCHANGED <<cpc, threw>>
        <4>1. attempt[r] + 1 \in 1..(Retries + 1) /\ attempt[r] + 1 <= Retries
          BY <3>2, RetriesPositive
        <4>2. QED
          BY <2>4, <3>2, <4>1 DEF Probe
      <3>3. CASE /\ attempt' = [attempt EXCEPT ![r] = attempt[r] + 1]
                 /\ Throws(r)
        <4>1. attempt[r] + 1 \in 1..(Retries + 1)
          BY <2>4, RetriesPositive DEF Probe
        <4>2. QED
          BY <2>4, <3>3, <4>1 DEF Probe, Throws
      <3>4. QED
        BY <2>4, <3>1, <3>2, <3>3 DEF Probe
    <2>5. CASE Copy(r)
      BY <2>5 DEF Copy, Throws, Proceeds
    <2>6. CASE ScriptIn(r)
      <3>1. CASE /\ passedIn' = [passedIn EXCEPT ![r] = {container.by}]
                 /\ Proceeds(r, "finally")
        BY <2>6, <3>1 DEF ScriptIn, Proceeds
      <3>2. CASE Throws(r) /\ UNCHANGED passedIn
        BY <2>6, <3>2 DEF ScriptIn, Throws
      <3>3. QED
        BY <2>6, <3>1, <3>2 DEF ScriptIn
    <2>7. CASE CommandFails(r)
      BY <2>7 DEF CommandFails, Throws
    <2>8. CASE KillContainer(r)
      BY <2>8 DEF KillContainer
    <2>9. QED
      BY <2>1, <2>2, <2>3, <2>4, <2>5, <2>6, <2>7, <2>8
         DEF ContainerStep, ContainerWork, ContainerTrouble
  <1>4. QED
    BY <1>1, <1>3 DEF Attempting, ContainerTypeOK, Containers

\* The script has passed, and in the container the run started if it was by
\* itself.
PassedIt(r) == passedIn[r] # {} /\ (alone[r] => passedIn[r] = {r})

\* What a run that is by itself knows of the container.
Holds(r) ==
    /\ alone[r] /\ cpc[r] \in Live => \A p \in Runs : cpc[p] \in Live => p = r
    /\ cpc[r] = "run" /\ alone[r] /\ ~unremoved[r] => ~container.there
    /\ cpc[r] \in {"wait", "copy", "script"} /\ alone[r] => container.by = r
    /\ cpc[r] \in {"idle", "remove", "run"} => ~conflict[r]
    /\ conflict[r] => ~alone[r] \/ unremoved[r]
    /\ cpc[r] = "finally" /\ ~threw[r] => PassedIt(r)
    /\ cexit[r] # Nobody => cpc[r] = "done"
    /\ cexit[r] = 0 => PassedIt(r)

\* Some run still has the container to remove, or could not.
Owed == \E r \in Runs : cpc[r] \in Live \cup {"killed"} \/ unremoved[r]

Holding ==
    /\ \A r \in Runs : Holds(r)
    /\ container.there /\ (\E r \in Runs : cpc[r] # "idle") => Owed

\* What the step of a run leaves of another.
LEMMA OthersStay ==
    ASSUME Attempting, NEW r \in Runs, ContainerStep(r), NEW q \in Runs, q # r
    PROVE  /\ cpc'[q] = cpc[q]
           /\ threw'[q] = threw[q]
           /\ passedIn'[q] = passedIn[q]
           /\ conflict'[q] = conflict[q]
           /\ unremoved'[q] = unremoved[q]
           /\ cexit'[q] = cexit[q]
           /\ alone'[q] => alone[q]
           /\ cpc[r] \in Live \/ (UNCHANGED container /\ (alone'[q] => cpc[q] \notin Live))
           /\ cpc'[r] \in Live => cpc[r] \in Live \/ (alone'[q] => cpc[q] \notin Live)
  BY DEF Attempting, ContainerTypeOK, ContainerStep, ContainerWork, ContainerTrouble,
         StartContainer, RemoveFirst, RemoveLast, RemovalThrows, RemoveContainer,
         RunContainer, Probe, Copy, ScriptIn, CommandFails, KillContainer,
         Throws, Proceeds, Live, InTry

LEMMA OthersHold ==
    ASSUME Attempting, NEW r \in Runs, ContainerStep(r), Holds(r),
           NEW q \in Runs, q # r, Holds(q)
    PROVE  Holds(q)'
  <1>1. cpc[r] \notin Live \/ ~(alone[q] /\ cpc[q] \in Live)
    BY DEF Holds
  <1>2. ASSUME alone'[q], cpc[q] \in Live PROVE UNCHANGED container
    BY <1>1, <1>2, OthersStay
  <1>3. ASSUME alone'[q], cpc[q] \in Live, NEW p \in Runs, cpc'[p] \in Live
        PROVE  p = q
    <2>1. cpc[r] \notin Live /\ cpc'[r] \notin Live
      BY <1>1, <1>3, OthersStay
    <2>2. p # r
      BY <1>3, <2>1
    <2>3. cpc'[p] = cpc[p]
      BY <2>2, OthersStay
    <2>4. alone[q]
      BY <1>3, OthersStay
    <2>5. QED
      BY <1>3, <2>3, <2>4 DEF Holds
  <1>4. {"run", "wait", "copy", "script"} \subseteq Live
    BY DEF Live, InTry
  <1>5. /\ cpc'[q] = cpc[q]
        /\ threw'[q] = threw[q]
        /\ passedIn'[q] = passedIn[q]
        /\ conflict'[q] = conflict[q]
        /\ unremoved'[q] = unremoved[q]
        /\ cexit'[q] = cexit[q]
        /\ alone'[q] => alone[q]
    BY OthersStay
  <1>6. PassedIt(q) => PassedIt(q)'
    BY <1>5 DEF PassedIt
  <1>7. QED
    BY <1>2, <1>3, <1>4, <1>5, <1>6 DEF Holds

\* A step of a run, by the step it was at.
LEMMA HoldsStep ==
    ASSUME Attempting, NEW r \in Runs, ContainerStep(r), Holding
    PROVE  Holds(r)'
  <1> USE DEF Attempting, ContainerTypeOK
  <1>1. Holds(r)
    BY DEF Holding
  <1>2. ASSUME alone'[r], cpc'[r] \in Live, NEW p \in Runs, cpc'[p] \in Live
        PROVE  p = r
    <2>1. CASE cpc[r] \in Live
      <3>1. alone[r]
        BY <1>2, <2>1
           DEF ContainerStep, ContainerWork, ContainerTrouble, StartContainer,
               RemoveFirst, RemoveLast, RemovalThrows, RunContainer, Probe, Copy,
               ScriptIn, CommandFails, KillContainer
      <3>2. QED
        BY <1>1, <1>2, <2>1, <3>1, OthersStay DEF Holds
    <2>2. CASE cpc[r] \notin Live
      <3>1. StartContainer(r)
        BY <2>2 DEF ContainerStep, ContainerWork, ContainerTrouble,
               RemoveFirst, RemoveLast, RemovalThrows, RunContainer, Probe, Copy,
               ScriptIn, CommandFails, KillContainer, Live, InTry
      <3>2. \A q \in Runs : cpc[q] \notin Live
        BY <1>2, <3>1 DEF StartContainer
      <3>3. QED
        BY <1>2, <3>2, OthersStay
    <2>3. QED
      BY <2>1, <2>2
  <1> DEFINE Steps == /\ cpc[r] = "run" /\ alone[r] /\ ~unremoved[r] => ~container.there
                      /\ cpc[r] \in {"wait", "copy", "script"} /\ alone[r]
                             => container.by = r
                      /\ cpc[r] \in {"idle", "remove", "run"} => ~conflict[r]
                      /\ conflict[r] => ~alone[r] \/ unremoved[r]
                      /\ cpc[r] = "finally" /\ ~threw[r] => PassedIt(r)
                      /\ cexit[r] # Nobody => cpc[r] = "done"
                      /\ cexit[r] = 0 => PassedIt(r)
  <1>3. Steps
    BY <1>1 DEF Holds
  <1>4. Nobody # 0 /\ Nobody # 1
    BY RunsAssumption
  <1>5. \/ container'.there = container.there /\ container'.by = container.by
        \/ container' = None /\ cpc[r] \in {"remove", "finally"}
        \/ container' = Started(r) /\ cpc[r] = "run" /\ ~container.there
    BY ContainerSteps
  <1>6. ~None.there /\ Started(r).by = r
    BY ContainerTyped
  <1>7. Steps'
    <2> USE <1>3, <1>4 DEF PassedIt
    <2>1. CASE StartContainer(r)
      BY <2>1 DEF StartContainer
    <2>2. CASE RemoveFirst(r)
      BY <1>6, <2>2 DEF RemoveFirst, RemoveContainer
    <2>3. CASE RunContainer(r)
      <3>1. CASE container.there /\ Throws(r)
        BY <2>3, <3>1 DEF RunContainer, Throws
      <3>2. CASE ~container.there /\ Proceeds(r, "wait") /\ container' = Started(r)
        BY <1>6, <2>3, <3>2 DEF RunContainer, Proceeds
      <3>3. QED
        BY <2>3, <3>1, <3>2 DEF RunContainer
    <2>4. CASE Probe(r)
      BY <2>4 DEF Probe, Throws, Proceeds
    <2>5. CASE Copy(r)
      <3>1. container'.by = container.by
        BY <1>5, <2>5 DEF Copy
      <3>2. QED
        BY <2>5, <3>1 DEF Copy, Throws, Proceeds
    <2>6. CASE ScriptIn(r)
      <3>1. CASE /\ passedIn' = [passedIn EXCEPT ![r] = {container.by}]
                 /\ Proceeds(r, "finally")
        BY <2>6, <3>1 DEF ScriptIn, Proceeds
      <3>2. CASE Throws(r) /\ UNCHANGED passedIn
        BY <2>6, <3>2 DEF ScriptIn, Throws
      <3>3. QED
        BY <2>6, <3>1, <3>2 DEF ScriptIn
    <2>7. CASE RemoveLast(r)
      BY <2>7 DEF RemoveLast, RemoveContainer
    <2>8. CASE RemovalThrows(r)
      BY <2>8 DEF RemovalThrows
    <2>9. CASE CommandFails(r)
      BY <2>9 DEF CommandFails, Throws, InTry
    <2>10. CASE KillContainer(r)
      BY <2>10 DEF KillContainer, Live, InTry
    <2>11. QED
      BY <2>1, <2>2, <2>3, <2>4, <2>5, <2>6, <2>7, <2>8, <2>9, <2>10
         DEF ContainerStep, ContainerWork, ContainerTrouble
  <1>8. QED
    BY <1>2, <1>7 DEF Holds

\* Whoever takes a step owes the removal of what is there afterwards, or has
\* failed at it.
LEMMA StepOwes ==
    ASSUME Attempting, NEW r \in Runs, ContainerStep(r)
    PROVE  \/ cpc'[r] \in Live \cup {"killed"}
           \/ unremoved'[r]
           \/ ~container'.there
  <1> USE DEF Attempting, ContainerTypeOK, Live, InTry
  <1>1. CASE StartContainer(r)
    BY <1>1 DEF StartContainer
  <1>2. CASE RemoveFirst(r)
    BY <1>2 DEF RemoveFirst
  <1>3. CASE RunContainer(r) \/ Probe(r) \/ Copy(r) \/ ScriptIn(r)
    BY <1>3 DEF RunContainer, Probe, Copy, ScriptIn, Throws, Proceeds
  <1>4. CASE RemoveLast(r)
    BY <1>4, ContainerTyped DEF RemoveLast, RemoveContainer
  <1>5. CASE ContainerTrouble(r)
    BY <1>5 DEF ContainerTrouble, RemovalThrows, CommandFails, KillContainer, Throws
  <1>6. QED
    BY <1>1, <1>2, <1>3, <1>4, <1>5 DEF ContainerStep, ContainerWork

LEMMA HoldingKept ==
    ASSUME Attempting, Holding, NEW r \in Runs, ContainerStep(r)
    PROVE  Holding'
  <1>1. ASSUME NEW q \in Runs PROVE Holds(q)'
    <2>1. Holds(q) /\ Holds(r)
      BY DEF Holding
    <2>2. CASE q = r
      BY <2>2, HoldsStep
    <2>3. CASE q # r
      BY <2>1, <2>3, OthersHold
    <2>4. QED
      BY <2>2, <2>3
  <1>2. container'.there => Owed'
    BY StepOwes DEF Owed
  <1>3. QED
    BY <1>1, <1>2 DEF Holding

\* The server becoming ready changes nothing a run relies on.
LEMMA ReadyKept ==
    ASSUME Attempting, Holding, ServerReady
    PROVE  Attempting' /\ Holding'
  <1>1. container \in Containers
    BY DEF Attempting, ContainerTypeOK, Containers
  <1>2. /\ container' \in Containers
        /\ container'.there = container.there
        /\ container'.by = container.by
    BY <1>1, ContainerKept DEF ServerReady
  <1>3. UNCHANGED <<cpc, attempt, threw, passedIn, conflict, unremoved, alone, cexit>>
    BY DEF ServerReady
  <1>4. Attempting'
    BY <1>2, <1>3 DEF Attempting, ContainerTypeOK, Containers
  <1>5. Holding'
    BY <1>2, <1>3 DEF Holding, Holds, Owed, PassedIt
  <1>6. QED
    BY <1>4, <1>5

-----------------------------------------------------------------------------
(* Both wrappers *)

Relied ==
    /\ wrapper \in {"local", "container"}
    /\ Named /\ Owning
    /\ Attempting /\ Holding

LEMMA LocalStarts ==
    ASSUME LocalInit
    PROVE  Named /\ Owning
  <1>1. \A d \in databases : d.by = Nobody
    BY DEF LocalInit, Others
  <1>2. \A r \in Runs : ~HasDb(r)
    BY <1>1, RunsAssumption DEF HasDb
  <1>3. NamesUnique
    BY DEF NamesUnique, LocalInit, Others
  <1>4. Named
    <2>1. databases \subseteq [name : Env, by : Runs \cup {Nobody}]
      BY DEF LocalInit, Others, Env
    <2>2. QED
      BY <2>1 DEF Named, LocalTypeOK, LocalInit
  <1>5. ASSUME NEW r \in Runs PROVE Owns(r)
    <2>1. \A d \in databases : d.by # r
      BY <1>1, RunsAssumption
    <2>2. QED
      BY <1>2, <2>1, RunsAssumption DEF Owns, LocalInit
  <1>6. QED
    BY <1>3, <1>4, <1>5 DEF Owning

LEMMA ContainerStarts ==
    ASSUME ContainerInit
    PROVE  Attempting /\ Holding
  <1>1. container \in Containers
    BY ContainerTyped DEF ContainerInit
  <1>2. Attempting
    BY <1>1, RetriesPositive DEF Attempting, ContainerTypeOK, ContainerInit, Containers
  <1>3. Holding
    BY RunsAssumption DEF Holding, Holds, Owed, ContainerInit, Live, InTry
  <1>4. QED
    BY <1>2, <1>3

LEMMA LocalUntouched ==
    ASSUME Named, Owning, UNCHANGED localVars
    PROVE  Named' /\ Owning'
  BY DEF localVars, Named, LocalTypeOK, Owning, NamesUnique, Owns, HasDb, Db

LEMMA ContainerUntouched ==
    ASSUME Attempting, Holding, UNCHANGED containerVars
    PROVE  Attempting' /\ Holding'
  BY DEF containerVars, Attempting, ContainerTypeOK, Holding, Holds, Owed, PassedIt

LEMMA ReliedKept ==
    ASSUME Relied, [Next]_smokeVars
    PROVE  Relied'
  <1> USE DEF Relied
  <1>1. CASE wrapper = "local" /\ LocalNext /\ UNCHANGED <<wrapper, containerVars>>
    <2>1. PICK r \in Runs : LocalStep(r)
      BY <1>1 DEF LocalNext, LocalStep
    <2>2. QED
      BY <1>1, <2>1, NamedKept, OwningKept, ContainerUntouched
  <1>2. CASE wrapper = "container" /\ ContainerNext /\ UNCHANGED <<wrapper, localVars>>
    <2>1. CASE ServerReady
      BY <1>2, <2>1, ReadyKept, LocalUntouched
    <2>2. CASE \E r \in Runs : ContainerStep(r)
      BY <1>2, <2>2, AttemptingKept, HoldingKept, LocalUntouched
    <2>3. QED
      BY <1>2, <2>1, <2>2 DEF ContainerNext, ContainerStep
  <1>3. CASE UNCHANGED smokeVars
    <2>1. UNCHANGED wrapper /\ UNCHANGED localVars /\ UNCHANGED containerVars
      BY <1>3 DEF smokeVars
    <2>2. QED
      BY <2>1, LocalUntouched, ContainerUntouched
  <1>4. QED
    BY <1>1, <1>2, <1>3 DEF Next

\* Every run can rely on Owning or Holding at each of its steps, however the
\* runs, their failures and their deaths interleave.
THEOREM AlwaysRelied == Spec => []Relied
  <1>1. Init => Relied
    BY LocalStarts, ContainerStarts DEF Init, Relied
  <1>2. QED
    BY <1>1, ReliedKept, PTL DEF Spec

\* Types: names come from the environment, flags are flags, and the attempts
\* never exceed the retries by more than the last one counted.
THEOREM SmokeTypeCorrect == Spec => []TypeOK
  <1>1. Relied => TypeOK
    BY DEF Relied, TypeOK, Named, Attempting
  <1>2. QED
    BY <1>1, AlwaysRelied, PTL

\* A database goes away only by the run that created it: the DROP goes by
\* name, but a run comes to it only with its own database under that name.
THEOREM DropsOnlyOwn == Spec => OnlyOwnDropped
  <1> DEFINE Step == \A d \in databases :
          d \notin databases' => d.by # Nobody /\ lpc[d.by] = "drop"
                                 /\ lpc'[d.by] = "end"
  <1>1. ASSUME Relied, [Next]_smokeVars PROVE [Step]_localVars
    <2>1. CASE UNCHANGED localVars
      BY <2>1
    <2>2. ASSUME NEW r \in Runs, LocalStep(r), NEW d \in databases, d \notin databases'
          PROVE  d.by # Nobody /\ lpc[d.by] = "drop" /\ lpc'[d.by] = "end"
      <3>1. Drop(r)
        BY <2>2, CreateOutcomes
           DEF LocalStep, LocalWork, StartLocal, Script, EndLocal, KillLocal,
               Created, CreatedUnsaid, NotCreated
      <3>2. d.name = name[r]
        BY <1>1, <2>2, <3>1, DropOutcomes DEF Relied, Named
      <3>3. Db(r) \in databases /\ Db(r).name = name[r] /\ Db(r).by = r
        BY <1>1, <3>1 DEF Drop, Relied, Owning, Owns, Db
      <3>4. d = Db(r)
        BY <1>1, <2>2, <3>2, <3>3 DEF Relied, Owning, NamesUnique
      <3>5. QED
        BY <1>1, <3>1, <3>3, <3>4, RunsAssumption DEF Drop, Relied, Named, LocalTypeOK
    <2>3. UNCHANGED localVars \/ LocalNext
      BY <1>1 DEF Next, smokeVars
    <2>4. QED
      BY <2>1, <2>2, <2>3 DEF LocalNext, LocalStep
  <1>2. QED
    BY <1>1, AlwaysRelied, PTL DEF Spec, OnlyOwnDropped

\* Exit code 0 is the truth for both wrappers: the script passed, in a
\* database of the run's own that is gone again unless it was to be kept, or
\* on a server that a run by itself started.
THEOREM ZeroIsTheTruth == Spec => []ExitZeroIsTrue
  <1>1. Relied => ExitZeroIsTrue
    BY DEF Relied, Owning, Owns, HasDb, Holding, Holds, PassedIt,
           ExitZeroIsTrue, ZeroIsTrue, PassedOnItsOwn
  <1>2. QED
    BY <1>1, AlwaysRelied, PTL

\* What a run leaves behind has a reason: it was killed, told to keep its
\* database, or let down by a command.
THEOREM NothingIsLeft == Spec => []NothingLeft
  <1>1. Relied => NothingLeft
    <2>1. Relied => NothingLeftBehind
      BY DEF Relied, Owning, Owns, HasDb, NothingLeftBehind
    <2>2. Relied => ContainerGone
      BY DEF Relied, Holding, Owed, ContainerGone
    <2>3. QED
      BY <2>1, <2>2 DEF NothingLeft
  <1>2. QED
    BY <1>1, AlwaysRelied, PTL

\* A container left under the name is in no later run's way.
THEOREM LeftoversReplaced == Spec => []StaleReplaced
  <1>1. Relied => StaleReplaced
    BY DEF Relied, Holding, Holds, StaleReplaced
  <1>2. QED
    BY <1>1, AlwaysRelied, PTL

=============================================================================
