------------------------- MODULE TenantAccessProofs -------------------------
(***************************************************************************)
(* Proofs about TenantAccess, for any number of requests, sources, actors  *)
(* and moments, any policy in the environment, and every failure.          *)
(*                                                                         *)
(* Typed says where a request stands.  The four properties are inductive   *)
(* next to it with one strengthening each: Decided, Watching, Counted and  *)
(* Recorded.  AccessGuard is implemented step by step from Typed and       *)
(* Decided.  The last section tells apart what is audited with the         *)
(* row-level policy and without it.                                        *)
(***************************************************************************)
EXTENDS TenantAccess, FiniteSetTheorems, TLAPS

-----------------------------------------------------------------------------
(* Operators *)

\* Whatever the environment holds, the policy in force is one.
LEMMA PolicyTyped == Policy \in EnumerationPolicy
  <1>1. \A v \in Int \cup {Null}, d \in Positive : PositiveIntegerFromEnv(v, d) \in Positive
    BY DEF PositiveIntegerFromEnv, Positive
  <1>2. QED
    BY <1>1, PolicyAssumption DEF Policy, EnumerationPolicy

\* The boundary of RbacService is the one the specification states.
LEMMA GrantedAdministers ==
    ASSUME NEW a \in Actors, NEW companyId \in Companies
    PROVE  AssertTenantPermission(a, companyId, "tenant:admin") = "granted"
               <=> Administers(a, companyId)
  <1>1. \A role : "tenant:admin" \in RolePermissions(role) <=> role = "tenant_admin"
    BY DEF RolePermissions, Permissions
  <1>2. a.isSuperAdmin <=> "super_admin" \in a.roles
    BY ActorAssumption
  <1>3. companyId # Null
    BY NullAssumption
  <1>4. QED
    BY <1>1, <1>2, <1>3 DEF AssertTenantPermission, Administers

\* A row the block predicate lets in, the filter predicate shows.
LEMMA AllowedIsVisible ==
    ASSUME NEW companyId, AuditRowAllowed(companyId)
    PROVE  AuditRowVisible(companyId)
  BY DEF AuditRowAllowed, AuditRowVisible, MayWrite, Visible

\* The denials of a window.
InWindow(ip) ==
    {d \in denials :
        /\ d.source_ip = ip
        /\ d.created_at >= now - Policy.windowSeconds
        /\ AuditRowVisible(d.company_id)}

LEMMA CountIsNatural ==
    ASSUME IsFiniteSet(denials), NEW ip
    PROVE  /\ DeniedCount(ip) = Cardinality(InWindow(ip))
           /\ IsFiniteSet(InWindow(ip))
           /\ DeniedCount(ip) \in Nat
  <1>1. InWindow(ip) \in SUBSET denials
    BY DEF InWindow
  <1>2. IsFiniteSet(InWindow(ip))
    BY <1>1, FS_Subset
  <1>3. DeniedCount(ip) = Cardinality(InWindow(ip))
    BY DEF DeniedCount, InWindow
  <1>4. QED
    BY <1>2, <1>3, FS_CardinalityType

-----------------------------------------------------------------------------
(* Types *)

\* A step of a request.
RequestStep(r) ==
    \/ \E a \in Actors, companyId \in Companies, ip \in Ips \cup {Null} :
           Arrive(r, a, companyId, ip)
    \/ Step(r)
    \/ Trouble(r)

LEMMA NextIsStep ==
    ASSUME [Next]_vars
    PROVE  Tick \/ (\E r \in Requests : RequestStep(r)) \/ UNCHANGED vars
  BY DEF Next, RequestStep, ResolveSourceIp

Typed ==
    /\ TypeOK
    /\ IsFiniteSet(denials)
    /\ \A r \in Requests :
           /\ pc[r] # "idle" => actor[r] \in Actors /\ target[r] \in Companies
           /\ pc[r] \in {"blocked?", "count", "protect"} => source[r] # Null
           /\ pc[r] = "authorize" => source[r] = Null

\* What a step of a request leaves of another.
LEMMA OthersStay ==
    ASSUME TypeOK, NEW r \in Requests, RequestStep(r), NEW q \in Requests, q # r
    PROVE  /\ pc'[q] = pc[q]
           /\ actor'[q] = actor[q]
           /\ target'[q] = target[q]
           /\ source'[q] = source[q]
           /\ counted'[q] = counted[q]
           /\ answer'[q] = answer[q]
           /\ troubled'[q] = troubled[q]
           /\ earlier'[q] = earlier[q]
           /\ endedAt'[q] = endedAt[q]
  BY DEF TypeOK, RequestStep, Step, Trouble, Arrive, Unchecked, CheckBlocked, CheckFails,
         RecordDenial, RecordDenialFails, CountDenials, ProtectSource, TelemetryFails,
         AfterAudit, Authorize, Answer, GoesOn, request

\* The request a step is of keeps who it is, but for its arrival.
LEMMA IdentityStays ==
    ASSUME NEW r \in Requests, Step(r) \/ Trouble(r)
    PROVE  UNCHANGED <<actor, target, source, earlier>>
  BY DEF Step, Trouble, Unchecked, CheckBlocked, CheckFails,
         RecordDenial, RecordDenialFails, CountDenials, ProtectSource, TelemetryFails,
         request

\* The parts of TypeOK about the answers.
Answers ==
    /\ pc \in [Requests -> PC]
    /\ answer \in [Requests -> {"none", "granted", "forbidden", "too_many"}]
    /\ endedAt \in [Requests -> 0..MaxTime]

LEMMA AnswersKept ==
    ASSUME Answers, now \in 0..MaxTime, NEW r \in Requests, RequestStep(r)
    PROVE  Answers'
  <1>1. ASSUME NEW status \in {"granted", "forbidden", "too_many"}, Answer(r, status)
        PROVE  Answers'
    BY <1>1 DEF Answers, Answer, PC
  <1>2. ASSUME NEW step \in PC, GoesOn(r, step)
        PROVE  Answers'
    BY <1>2 DEF Answers, GoesOn
  <1>3. Authorize(r) => Answers'
    BY <1>1, <1>2 DEF Authorize, PC
  <1>4. AfterAudit(r) => Answers'
    BY <1>1, <1>2 DEF AfterAudit, PC
  <1>5. QED
    BY <1>1, <1>2, <1>3, <1>4
       DEF RequestStep, Step, Trouble, Arrive, Unchecked, CheckBlocked, CheckFails,
           RecordDenial, RecordDenialFails, CountDenials, ProtectSource,
           TelemetryFails, PC

LEMMA RowsTyped ==
    ASSUME Typed, NEW r \in Requests, pc[r] # "idle"
    PROVE  /\ Row(r) \in Denial
           /\ Row(r).by = r /\ Row(r).source_ip = source[r]
           /\ Row(r).company_id = actor[r].companyId
           /\ source[r] # Null => Block(r) \in Protection
           /\ Block(r).source_ip = source[r]
           /\ Block(r).denied_attempt_count = counted[r] + 1
  <1>1. actor[r].companyId \in Companies \cup {Null} /\ now \in 0..MaxTime
    BY ActorAssumption DEF Typed, TypeOK
  <1>2. /\ source[r] \in Ips \cup {Null}
        /\ counted[r] + 1 \in Nat \ {0}
        /\ now + Policy.blockSeconds \in Nat
    BY PolicyTyped DEF Typed, TypeOK, EnumerationPolicy, Positive
  <1>3. Row(r) \in Denial
    BY <1>1, <1>2 DEF Row, Denial
  <1>4. source[r] # Null => Block(r) \in Protection
    BY <1>2 DEF Block, Protection
  <1>5. QED
    BY <1>3, <1>4 DEF Row, Block

\* The statements that add rows, whether or not their answers arrive.
Records(r) == RecordDenial(r) \/ RecordDenialFails(r)

Protects(r) ==
    /\ pc[r] = "protect"
    /\ ProtectSource(r) \/ TelemetryFails(r)

\* Rows are only ever added, by the statement that adds them.
LEMMA TablesGrow ==
    ASSUME NEW r \in Requests, RequestStep(r)
    PROVE  /\ now' = now
           /\ \/ denials' = denials
              \/ /\ Records(r) /\ AuditRowAllowed(actor[r].companyId)
                 /\ denials' = denials \cup {Row(r)}
           /\ \/ protections' = protections
              \/ Protects(r) /\ protections' = protections \cup {Block(r)}
  BY DEF RequestStep, Step, Trouble, Arrive, Unchecked, CheckBlocked, CheckFails,
         RecordDenial, RecordDenialFails, CountDenials, ProtectSource, TelemetryFails,
         Records, Protects, WithDenial

\* Where a request stands after a step of its own.
LEMMA OwnPlace ==
    ASSUME Typed, NEW r \in Requests, RequestStep(r)
    PROVE  /\ pc'[r] # "idle"
           /\ actor'[r] \in Actors /\ target'[r] \in Companies
           /\ pc'[r] \in {"blocked?", "count", "protect"} => source'[r] # Null
           /\ pc'[r] = "authorize" => source'[r] = Null
  <1> USE DEF Typed, TypeOK, PC
  <1>1. CASE Step(r) \/ Trouble(r)
    <2>1. actor'[r] = actor[r] /\ target'[r] = target[r] /\ source'[r] = source[r]
      BY <1>1, IdentityStays
    <2>2. pc[r] # "idle"
      BY <1>1 DEF Step, Trouble, Unchecked, CheckBlocked, CheckFails, RecordDenial,
                  RecordDenialFails, CountDenials, ProtectSource, TelemetryFails
    <2>3. /\ pc'[r] # "idle" /\ pc'[r] # "blocked?" /\ pc'[r] # "authorize"
          /\ pc'[r] \in {"count", "protect"} => source[r] # Null
      BY <1>1 DEF Step, Trouble, Unchecked, CheckBlocked, CheckFails, RecordDenial,
                  RecordDenialFails, CountDenials, ProtectSource, TelemetryFails,
                  AfterAudit, Authorize, Answer, GoesOn
    <2>4. QED
      BY <2>1, <2>2, <2>3
  <1>2. ASSUME NEW a \in Actors, NEW companyId \in Companies, NEW ip \in Ips \cup {Null},
               Arrive(r, a, companyId, ip)
        PROVE  /\ pc'[r] # "idle"
               /\ actor'[r] \in Actors /\ target'[r] \in Companies
               /\ pc'[r] \in {"blocked?", "count", "protect"} => source'[r] # Null
               /\ pc'[r] = "authorize" => source'[r] = Null
    BY <1>2 DEF Arrive, GoesOn
  <1>3. QED
    BY <1>1, <1>2 DEF RequestStep

LEMMA TypedKept ==
    ASSUME Typed, NEW r \in Requests, RequestStep(r)
    PROVE  Typed'
  <1>1. now' \in 0..MaxTime
    BY TablesGrow DEF Typed, TypeOK
  <1>2. denials' \subseteq Denial /\ IsFiniteSet(denials')
    <2>1. CASE denials' = denials
      BY <2>1 DEF Typed, TypeOK
    <2>2. CASE Records(r) /\ denials' = denials \cup {Row(r)}
      <3>1. Row(r) \in Denial
        BY <2>2, RowsTyped DEF Records, RecordDenial, RecordDenialFails
      <3>2. IsFiniteSet(denials \cup {Row(r)})
        BY FS_AddElement DEF Typed
      <3>3. QED
        BY <2>2, <3>1, <3>2 DEF Typed, TypeOK
    <2>3. QED
      BY <2>1, <2>2, TablesGrow
  <1>3. protections' \subseteq Protection
    <2>1. CASE Protects(r) /\ protections' = protections \cup {Block(r)}
      <3>1. Block(r) \in Protection
        BY <2>1, RowsTyped DEF Protects, Typed
      <3>2. QED
        BY <2>1, <3>1 DEF Typed, TypeOK
    <2>2. QED
      BY <2>1, TablesGrow DEF Typed, TypeOK
  <1>4. Answers'
    <2>1. Answers /\ now \in 0..MaxTime
      BY DEF Typed, TypeOK, Answers
    <2>2. QED
      BY <2>1, AnswersKept
  <1>5. counted' \in [Requests -> Nat]
    <2>1. DeniedCount(source[r]) \in Nat
      BY CountIsNatural DEF Typed
    <2>2. QED
      BY <2>1 DEF Typed, TypeOK, RequestStep, Step, Trouble, Arrive, Unchecked,
         CheckBlocked, CheckFails, RecordDenial, RecordDenialFails, CountDenials,
         ProtectSource, TelemetryFails
  <1>6. troubled' \in [Requests -> BOOLEAN]
    BY DEF Typed, TypeOK, RequestStep, Step, Trouble, Arrive, Unchecked,
       CheckBlocked, CheckFails, RecordDenial, RecordDenialFails, CountDenials,
       ProtectSource, TelemetryFails
  <1>7. /\ actor' \in [Requests -> Actors \cup {Null}]
        /\ target' \in [Requests -> Companies \cup {Null}]
        /\ source' \in [Requests -> Ips \cup {Null}]
        /\ earlier' \in [Requests -> SUBSET Protection]
    <2>1. CASE Step(r) \/ Trouble(r)
      BY <2>1, IdentityStays DEF Typed, TypeOK
    <2>2. ASSUME NEW a \in Actors, NEW companyId \in Companies,
                 NEW ip \in Ips \cup {Null}, Arrive(r, a, companyId, ip)
          PROVE  /\ actor' \in [Requests -> Actors \cup {Null}]
                 /\ target' \in [Requests -> Companies \cup {Null}]
                 /\ source' \in [Requests -> Ips \cup {Null}]
                 /\ earlier' \in [Requests -> SUBSET Protection]
      BY <2>2 DEF Arrive, Typed, TypeOK
    <2>3. QED
      BY <2>1, <2>2 DEF RequestStep
  <1>8. TypeOK'
    BY <1>1, <1>2, <1>3, <1>4, <1>5, <1>6, <1>7 DEF TypeOK, Answers
  <1>9. ASSUME NEW q \in Requests
        PROVE  /\ pc'[q] # "idle" => actor'[q] \in Actors /\ target'[q] \in Companies
               /\ pc'[q] \in {"blocked?", "count", "protect"} => source'[q] # Null
               /\ pc'[q] = "authorize" => source'[q] = Null
    <2>1. CASE q = r
      BY <2>1, OwnPlace
    <2>2. CASE q # r
      BY <2>2, OthersStay DEF Typed
    <2>3. QED
      BY <2>1, <2>2
  <1>10. QED
    BY <1>2, <1>8, <1>9 DEF Typed

-----------------------------------------------------------------------------
(* Decisions *)

\* A request that is denied has no claim, one that is granted has.
Decided(r) ==
    /\ pc[r] \in {"audit", "count", "protect"} => ~Administers(actor[r], target[r])
    /\ answer[r] = "granted" => Administers(actor[r], target[r])
    /\ answer[r] = "forbidden" => ~Administers(actor[r], target[r])
    /\ answer[r] = "none" <=> pc[r] # "done"

LEMMA DecidedKept ==
    ASSUME Typed, NEW r \in Requests, RequestStep(r), \A q \in Requests : Decided(q)
    PROVE  \A q \in Requests : Decided(q)'
  <1>1. ASSUME NEW q \in Requests, q # r PROVE Decided(q)'
    BY <1>1, OthersStay DEF Decided, Administers, Typed
  <1>2. Decided(r)'
    <2> USE DEF Typed, TypeOK, PC
    <2>1. CASE Step(r) \/ Trouble(r)
      <3>1. UNCHANGED <<actor, target>> /\ actor[r] \in Actors /\ target[r] \in Companies
        BY <2>1, IdentityStays
           DEF Step, Trouble, Unchecked, CheckBlocked, CheckFails, RecordDenial,
               RecordDenialFails, CountDenials, ProtectSource, TelemetryFails
      <3>2. AssertTenantPermission(actor[r], target[r], "tenant:admin") = "granted"
                <=> Administers(actor[r], target[r])
        BY <3>1, GrantedAdministers
      <3>3. Administers(actor[r], target[r])' <=> Administers(actor[r], target[r])
        BY <3>1 DEF Administers
      <3>4. CASE Authorize(r)
        <4>1. CASE Answer(r, "granted") /\ Administers(actor[r], target[r])
          BY <3>3, <4>1 DEF Decided, Answer
        <4>2. CASE GoesOn(r, "audit") /\ ~Administers(actor[r], target[r])
                   /\ pc[r] # "done"
          BY <3>3, <4>2 DEF Decided, GoesOn
        <4>3. pc[r] # "done"
          BY <2>1 DEF Step, Trouble, Unchecked, CheckBlocked, CheckFails, RecordDenial,
                 RecordDenialFails, CountDenials, ProtectSource, TelemetryFails
        <4>4. QED
          BY <3>2, <3>4, <4>1, <4>2, <4>3 DEF Authorize
      <3>5. CASE pc[r] = "blocked?" /\ Answer(r, "too_many")
        BY <3>5 DEF Decided, Answer
      <3>6. CASE pc[r] \in {"audit", "count", "protect"} /\ Answer(r, "forbidden")
        BY <3>3, <3>6 DEF Decided, Answer
      <3>7. CASE pc[r] \in {"audit", "count"}
                 /\ (GoesOn(r, "count") \/ GoesOn(r, "protect"))
        BY <3>3, <3>7 DEF Decided, GoesOn
      <3>8. QED
        BY <2>1, <3>4, <3>5, <3>6, <3>7
           DEF Step, Trouble, Unchecked, CheckBlocked, CheckFails, RecordDenial,
               RecordDenialFails, CountDenials, ProtectSource, TelemetryFails, AfterAudit
    <2>2. ASSUME NEW a \in Actors, NEW companyId \in Companies,
                 NEW ip \in Ips \cup {Null}, Arrive(r, a, companyId, ip)
          PROVE  Decided(r)'
      BY <2>2 DEF Arrive, GoesOn, Decided
    <2>3. QED
      BY <2>1, <2>2 DEF RequestStep
  <1>3. QED
    BY <1>1, <1>2

-----------------------------------------------------------------------------
(* Blocks *)

\* Once a request has looked, the blocks it met on its arrival are over.
Watching(r) ==
    /\ earlier[r] \subseteq protections
    /\ \A p \in earlier[r] :
           p.source_ip = source[r] /\ ~troubled[r] /\ answer[r] # "too_many" =>
               /\ pc[r] \notin {"idle", "blocked?"} => p.blocked_until < now
               /\ pc[r] = "done" => p.blocked_until < endedAt[r]

LEMMA WatchingKept ==
    ASSUME Typed, NEW r \in Requests, RequestStep(r), Decided(r),
           \A q \in Requests : Watching(q)
    PROVE  \A q \in Requests : Watching(q)'
  <1> USE DEF Typed, TypeOK, PC
  <1>1. now' = now /\ protections \subseteq protections'
    BY TablesGrow
  <1>2. ASSUME NEW q \in Requests, q # r PROVE Watching(q)'
    BY <1>1, <1>2, OthersStay DEF Watching
  <1>3. \A p \in protections : p.source_ip # Null
    BY PolicyAssumption DEF Protection
  <1>4. Watching(r)'
    <2>1. CASE Step(r) \/ Trouble(r)
      <3>1. UNCHANGED <<source, earlier>>
        BY <2>1, IdentityStays
      <3>2. CASE CheckBlocked(r) /\ IsBlocked(source[r])
        <4>1. answer'[r] = "too_many"
          BY <3>2 DEF CheckBlocked, Answer
        <4>2. QED
          BY <1>1, <3>1, <4>1 DEF Watching
      <3>3. CASE CheckBlocked(r) /\ ~IsBlocked(source[r])
        <4>1. \A p \in protections : p.source_ip = source[r] => p.blocked_until < now
          BY <3>3 DEF IsBlocked, Protection
        <4>2. endedAt'[r] = now \/ pc'[r] # "done"
          BY <3>3 DEF CheckBlocked, Authorize, Answer, GoesOn
        <4>3. QED
          BY <1>1, <3>1, <4>1, <4>2 DEF Watching
      <3>4. CASE CheckFails(r)
        <4>1. troubled'[r]
          BY <3>4 DEF CheckFails
        <4>2. QED
          BY <1>1, <3>1, <4>1 DEF Watching
      <3>5. CASE Unchecked(r)
        <4>1. source[r] = Null
          BY <3>5 DEF Unchecked
        <4>2. QED
          BY <1>1, <1>3, <3>1, <4>1 DEF Watching
      <3>6. CASE pc[r] \in {"audit", "count", "protect"}
        <4>1. endedAt'[r] = now \/ pc'[r] # "done"
          BY <2>1, <3>6 DEF Step, Trouble, Unchecked, CheckBlocked, CheckFails,
                 RecordDenial, RecordDenialFails, CountDenials, ProtectSource,
                 TelemetryFails, AfterAudit, Answer, GoesOn
        <4>2. troubled[r] => troubled'[r]
          BY <2>1, <3>6 DEF Step, Trouble, Unchecked, CheckBlocked, CheckFails,
                 RecordDenial, RecordDenialFails, CountDenials, ProtectSource,
                 TelemetryFails
        <4>3. answer[r] # "too_many"
          BY <3>6 DEF Decided
        <4>4. QED
          BY <1>1, <3>1, <3>6, <4>1, <4>2, <4>3 DEF Watching
      <3>7. QED
        BY <2>1, <3>2, <3>3, <3>4, <3>5, <3>6
           DEF Step, Trouble, RecordDenial, RecordDenialFails, CountDenials,
               ProtectSource, TelemetryFails
    <2>2. ASSUME NEW a \in Actors, NEW companyId \in Companies,
                 NEW ip \in Ips \cup {Null}, Arrive(r, a, companyId, ip)
          PROVE  Watching(r)'
      <3>1. earlier'[r] = protections /\ source'[r] = ip
        BY <2>2 DEF Arrive
      <3>2. pc'[r] \in {"blocked?", "authorize"} /\ (pc'[r] = "authorize" => ip = Null)
        BY <2>2 DEF Arrive, GoesOn
      <3>3. QED
        BY <1>1, <1>3, <3>1, <3>2 DEF Watching
    <2>3. QED
      BY <2>1, <2>2 DEF RequestStep
  <1>5. QED
    BY <1>2, <1>4

-----------------------------------------------------------------------------
(* Counts *)

\* When it decided to protect its source, a request had counted all but one
\* of the denials the threshold asks for, in one window.
AllButOne(ip, latest) ==
    \E moment \in 0..latest :
        Cardinality(WindowOf(ip, moment)) >= Policy.threshold - 1

Counted(r) == pc[r] = "protect" => AllButOne(source[r], now)

\* A protection is never made up: as many of its source's denials as the
\* threshold asks for, but one, fell into one window before it.
ProtectionJustified ==
    \A p \in protections : AllButOne(p.source_ip, p.blocked_until - Policy.blockSeconds)

\* No denial is of the future.
Dated == \A d \in denials : d.created_at <= now

LEMMA DatedKept ==
    ASSUME Typed, Dated, NEW r \in Requests, RequestStep(r)
    PROVE  Dated'
  <1>1. Row(r).created_at = now /\ now \in Int
    BY DEF Row, Typed, TypeOK
  <1>2. QED
    BY <1>1, TablesGrow DEF Dated

LEMMA WindowsGrow ==
    ASSUME Typed, NEW r \in Requests, RequestStep(r), NEW ip, NEW moment
    PROVE  /\ Cardinality(WindowOf(ip, moment)) \in Nat
           /\ Cardinality(WindowOf(ip, moment)') \in Nat
           /\ Cardinality(WindowOf(ip, moment)) <= Cardinality(WindowOf(ip, moment)')
  <1>1. WindowOf(ip, moment) \in SUBSET (WindowOf(ip, moment)')
    BY TablesGrow DEF WindowOf, Policy
  <1>2. IsFiniteSet(denials) /\ IsFiniteSet(denials')
    BY TypedKept DEF Typed
  <1>3. WindowOf(ip, moment) \in SUBSET denials
        /\ WindowOf(ip, moment)' \in SUBSET (denials')
    BY DEF WindowOf
  <1>4. IsFiniteSet(WindowOf(ip, moment)) /\ IsFiniteSet(WindowOf(ip, moment)')
    BY <1>2, <1>3, FS_Subset
  <1>5. QED
    BY <1>1, <1>4, FS_Subset, FS_CardinalityType

LEMMA AllButOneStays ==
    ASSUME Typed, NEW r \in Requests, RequestStep(r), NEW ip, NEW latest,
           AllButOne(ip, latest)
    PROVE  AllButOne(ip, latest)'
  <1>1. Policy' = Policy /\ Policy.threshold \in Nat
    BY PolicyTyped DEF Policy, EnumerationPolicy, Positive
  <1>2. PICK moment \in 0..latest :
                 Cardinality(WindowOf(ip, moment)) >= Policy.threshold - 1
    BY DEF AllButOne
  <1>3. Cardinality(WindowOf(ip, moment)') >= Policy.threshold - 1
    BY <1>1, <1>2, WindowsGrow
  <1>4. QED
    BY <1>1, <1>3 DEF AllButOne

LEMMA CountedKept ==
    ASSUME Typed, Dated, NEW r \in Requests, RequestStep(r), \A q \in Requests : Counted(q)
    PROVE  \A q \in Requests : Counted(q)'
  <1>1. Policy' = Policy /\ Policy.threshold \in Nat /\ now' = now /\ now \in Nat
    BY PolicyTyped, PolicyAssumption, TablesGrow
       DEF Policy, EnumerationPolicy, Positive, Typed, TypeOK
  <1>2. ASSUME NEW q \in Requests, q # r, pc'[q] = "protect" PROVE Counted(q)'
    <2>1. pc[q] = "protect" /\ source'[q] = source[q]
      BY <1>2, OthersStay DEF Typed, TypeOK
    <2>2. AllButOne(source[q], now)'
      BY <1>1, <2>1, AllButOneStays DEF Counted
    <2>3. QED
      BY <2>1, <2>2 DEF Counted
  <1>3. ASSUME pc'[r] = "protect" PROVE Counted(r)'
    <2>1. CountDenials(r)
      BY <1>3 DEF RequestStep, Step, Trouble, Arrive, Unchecked, CheckBlocked,
             CheckFails, RecordDenial, RecordDenialFails, CountDenials,
             ProtectSource, TelemetryFails, AfterAudit, Authorize, Answer, GoesOn,
             Typed, TypeOK
    <2>2. /\ ~BelowThreshold(DeniedCount(source[r]))
          /\ UNCHANGED <<denials, source>>
      BY <1>3, <2>1 DEF CountDenials, Answer, Typed, TypeOK, request
    <2>3. /\ DeniedCount(source[r]) = Cardinality(InWindow(source[r]))
          /\ DeniedCount(source[r]) \in Nat
      BY CountIsNatural DEF Typed
    <2>4. DeniedCount(source[r]) >= Policy.threshold - 1
      BY <1>1, <2>2, <2>3 DEF BelowThreshold
    <2>5. InWindow(source[r]) \in SUBSET WindowOf(source[r], now)
      <3>1. \A d \in denials : d.created_at \in Int /\ d.created_at <= now
        BY DEF Dated, Typed, TypeOK, Denial
      <3>2. Policy.windowSeconds \in Int
        BY PolicyTyped DEF EnumerationPolicy, Positive
      <3>3. QED
        BY <1>1, <3>1, <3>2 DEF InWindow, WindowOf
    <2>6. IsFiniteSet(WindowOf(source[r], now))
      BY FS_Subset DEF WindowOf, Typed
    <2>7. /\ Cardinality(WindowOf(source[r], now)) \in Nat
          /\ Cardinality(InWindow(source[r])) <= Cardinality(WindowOf(source[r], now))
      BY <2>5, <2>6, FS_Subset, FS_CardinalityType
    <2>8. Cardinality(WindowOf(source[r], now)) >= Policy.threshold - 1
      BY <1>1, <2>3, <2>4, <2>7
    <2>9. now \in 0..now
      BY <1>1
    <2>10. AllButOne(source[r], now)
      BY <2>8, <2>9 DEF AllButOne
    <2>11. QED
      BY <1>1, <2>2, <2>10 DEF Counted, AllButOne, WindowOf
  <1>4. QED
    BY <1>2, <1>3 DEF Counted

LEMMA JustifiedKept ==
    ASSUME Typed, NEW r \in Requests, RequestStep(r), \A q \in Requests : Counted(q),
           ProtectionJustified
    PROVE  ProtectionJustified'
  <1>1. Policy' = Policy /\ Policy.blockSeconds \in Nat /\ now \in Nat
    BY PolicyTyped, PolicyAssumption
       DEF Policy, EnumerationPolicy, Positive, Typed, TypeOK
  <1>2. ASSUME NEW p \in protections'
        PROVE  AllButOne(p.source_ip, p.blocked_until - Policy.blockSeconds)'
    <2>1. AllButOne(p.source_ip, p.blocked_until - Policy.blockSeconds)
      <3>1. CASE p \in protections
        BY <3>1 DEF ProtectionJustified
      <3>2. CASE p = Block(r) /\ Protects(r)
        <4>1. p.source_ip = source[r] /\ p.blocked_until - Policy.blockSeconds = now
          BY <1>1, <3>2 DEF Block
        <4>2. QED
          BY <3>2, <4>1 DEF Protects, Counted
      <3>3. QED
        BY <3>1, <3>2, TablesGrow
    <2>2. QED
      BY <1>1, <2>1, AllButOneStays
  <1>3. QED
    BY <1>1, <1>2 DEF ProtectionJustified

-----------------------------------------------------------------------------
(* The threshold *)

\* A recorded denial is of the source of the request that recorded it, which
\* is past its audit, and can be seen by a count.
Recorded ==
    \A d \in denials :
        /\ d.source_ip = source[d.by]
        /\ AuditRowVisible(d.company_id)
        /\ pc[d.by] \in {"count", "protect", "done"}

LEMMA RecordedKept ==
    ASSUME Typed, NEW r \in Requests, RequestStep(r), Recorded
    PROVE  Recorded'
  <1>1. ASSUME NEW d \in denials
        PROVE  /\ d.source_ip = source'[d.by]
               /\ pc'[d.by] \in {"count", "protect", "done"}
    <2>1. d.by \in Requests
      BY DEF Typed, TypeOK, Denial
    <2>2. d.source_ip = source[d.by] /\ pc[d.by] \in {"count", "protect", "done"}
      BY DEF Recorded
    <2>3. CASE d.by # r
      BY <2>1, <2>2, <2>3, OthersStay DEF Typed
    <2>4. CASE d.by = r
      <3>1. CountDenials(r) \/ ProtectSource(r) \/ TelemetryFails(r)
        <4>1. pc[r] \in {"count", "protect", "done"}
          BY <2>2, <2>4
        <4>2. QED
          BY <4>1 DEF RequestStep, Step, Trouble, Arrive, Unchecked, CheckBlocked,
                 CheckFails, RecordDenial, RecordDenialFails
      <3>2. pc'[r] \in {"count", "protect", "done"} /\ UNCHANGED source
        BY <3>1 DEF CountDenials, ProtectSource, TelemetryFails, Answer, GoesOn,
               Typed, TypeOK, request
      <3>3. QED
        BY <2>2, <2>4, <3>2
    <2>5. QED
      BY <2>3, <2>4
  <1>2. ASSUME Records(r), AuditRowAllowed(actor[r].companyId)
        PROVE  /\ Row(r).source_ip = source'[Row(r).by]
               /\ AuditRowVisible(Row(r).company_id)
               /\ pc'[Row(r).by] \in {"count", "protect", "done"}
    <2>1. /\ Row(r).by = r /\ Row(r).source_ip = source[r]
          /\ Row(r).company_id = actor[r].companyId
      BY <1>2, RowsTyped DEF Records, RecordDenial, RecordDenialFails
    <2>2. pc'[r] \in {"count", "done"} /\ UNCHANGED source
      BY <1>2 DEF Records, RecordDenial, RecordDenialFails, AfterAudit, Answer, GoesOn, Typed, TypeOK, request
    <2>3. AuditRowVisible(actor[r].companyId)
      BY <1>2, AllowedIsVisible
    <2>4. QED
      BY <2>1, <2>2, <2>3
  <1>3. \A c : AuditRowVisible(c)' <=> AuditRowVisible(c)
    BY DEF AuditRowVisible, Visible, PooledContext, TenantPredicate, SqlEquals
  <1>4. QED
    BY <1>1, <1>2, <1>3, TablesGrow DEF Recorded

\* The parts of ThresholdTriggers.
Over(ip) == {r \in Requests :
                /\ pc[r] = "done" /\ answer[r] = "forbidden"
                /\ source[r] = ip /\ ~troubled[r]}

Within(burst) ==
    \A r \in burst : \E d \in denials :
        /\ d.by = r
        /\ \A q \in burst : endedAt[q] - d.created_at <= Policy.windowSeconds

Triggered(ip) ==
    \A burst \in SUBSET Over(ip) :
        Cardinality(burst) = Policy.threshold /\ Within(burst) =>
            \E p \in protections : p.source_ip = ip

LEMMA TriggersByParts == ThresholdTriggers <=> \A ip \in Ips : Triggered(ip)
  BY DEF ThresholdTriggers, Triggered, Over, Within

\* A burst that the request now counting completes is all in its window.
LEMMA BurstIsCounted ==
    ASSUME Typed, Recorded, NEW ip \in Ips, NEW r \in Requests,
           NEW burst \in SUBSET Requests, r \in burst,
           \A q \in burst : source[q] = ip,
           \A q \in burst : \E d \in denials :
               d.by = q /\ now - d.created_at <= Policy.windowSeconds
    PROVE  IsFiniteSet(burst) /\ Cardinality(burst) <= DeniedCount(ip)
  <1> DEFINE Own(q) == CHOOSE d \in denials :
                           d.by = q /\ now - d.created_at <= Policy.windowSeconds
             f == [q \in burst |-> Own(q)]
  <1>1. ASSUME NEW q \in burst
        PROVE  Own(q) \in InWindow(ip) /\ Own(q).by = q
    <2>1. /\ Own(q) \in denials /\ Own(q).by = q
          /\ now - Own(q).created_at <= Policy.windowSeconds
      OBVIOUS
    <2>2. /\ Own(q).created_at \in Int /\ now \in Int
          /\ Policy.windowSeconds \in Int
      BY <2>1, PolicyTyped DEF Typed, TypeOK, Denial, EnumerationPolicy, Positive
    <2>3. Own(q).created_at >= now - Policy.windowSeconds
      BY <2>1, <2>2
    <2>4. Own(q).source_ip = ip /\ AuditRowVisible(Own(q).company_id)
      BY <2>1 DEF Recorded
    <2>5. QED
      BY <2>1, <2>3, <2>4 DEF InWindow
  <1>2. f \in [burst -> InWindow(ip)]
    BY <1>1
  <1>3. \A a, b \in burst : f[a] = f[b] => a = b
    BY <1>1
  <1>4. f \in Injection(burst, InWindow(ip))
    BY <1>2, <1>3 DEF Injection, IsInjective
  <1>5. IsFiniteSet(InWindow(ip)) /\ DeniedCount(ip) = Cardinality(InWindow(ip))
    BY CountIsNatural DEF Typed
  <1>6. QED
    BY <1>4, <1>5, FS_Injection

LEMMA TriggeredKept ==
    ASSUME Typed, Typed', Recorded, Recorded', NEW r \in Requests, RequestStep(r),
           Decided(r), NEW ip \in Ips, Triggered(ip)
    PROVE  Triggered(ip)'
  <1>1. /\ Policy' = Policy /\ Policy.threshold \in Nat
        /\ protections \subseteq protections'
        /\ ip # Null
    BY PolicyTyped, PolicyAssumption, TablesGrow
       DEF Policy, EnumerationPolicy, Positive
  <1> SUFFICES ASSUME NEW burst \in SUBSET (Over(ip)'),
                      Cardinality(burst) = Policy.threshold, Within(burst)',
                      \A p \in protections' : p.source_ip # ip
               PROVE  FALSE
    BY <1>1 DEF Triggered
  \* A burst the request has no part in was there before.
  <1>2. CASE r \notin burst
    <2>1. burst \in SUBSET Over(ip)
      BY <1>2, OthersStay DEF Over, Typed
    <2>2. ASSUME NEW q \in burst
          PROVE  \E d \in denials :
                     /\ d.by = q
                     /\ \A x \in burst : endedAt[x] - d.created_at <= Policy.windowSeconds
      <3>1. PICK d \in denials' :
                     /\ d.by = q
                     /\ \A x \in burst : endedAt'[x] - d.created_at <= Policy.windowSeconds
        BY <1>1 DEF Within
      <3>2. \A x \in burst : endedAt'[x] = endedAt[x]
        BY <1>2, <2>1, OthersStay DEF Over, Typed
      <3>3. d \in denials
        <4>1. CASE d = Row(r)
          <5>1. Row(r).by = r
            BY DEF Row
          <5>2. QED
            BY <1>2, <3>1, <4>1, <5>1
        <4>2. QED
          BY <4>1, TablesGrow
      <3>4. QED
        BY <3>1, <3>2, <3>3
    <2>3. Within(burst)
      BY <2>2 DEF Within
    <2>4. QED
      BY <1>1, <2>1, <2>3 DEF Triggered
  <1>3. CASE r \in burst
    <2>1. pc'[r] = "done" /\ answer'[r] = "forbidden" /\ source'[r] = ip /\ ~troubled'[r]
      BY <1>3 DEF Over
    \* It ended with a count that was too low, or with a protection.
    <2>2. \/ CountDenials(r) /\ BelowThreshold(DeniedCount(source[r]))
          \/ ProtectSource(r)
          \/ pc[r] = "done"
      BY <1>1, <2>1 DEF Typed, TypeOK, RequestStep, Step, Trouble, Arrive, Unchecked,
             CheckBlocked, CheckFails, RecordDenial, RecordDenialFails, CountDenials,
             ProtectSource, TelemetryFails, AfterAudit, Authorize, Answer, GoesOn,
             request
    <2>3. pc[r] # "done"
      BY DEF RequestStep, Step, Trouble, Arrive, Unchecked,
             CheckBlocked, CheckFails, RecordDenial, RecordDenialFails, CountDenials,
             ProtectSource, TelemetryFails
    <2>4. CASE ProtectSource(r)
      <3>1. Block(r) \in protections' /\ Block(r).source_ip = source[r]
        BY <2>4 DEF ProtectSource, Block
      <3>2. source[r] = ip
        BY <2>1, <2>4, IdentityStays DEF Step
      <3>3. QED
        BY <3>1, <3>2
    <2>5. CASE CountDenials(r) /\ BelowThreshold(DeniedCount(source[r]))
      <3>1. UNCHANGED <<denials, source, now>> /\ endedAt'[r] = now /\ source[r] = ip
        BY <2>1, <2>5 DEF CountDenials, Answer, BelowThreshold, Typed, TypeOK, request
      <3>2. \A q \in burst : source[q] = ip
        BY <3>1 DEF Over
      <3>3. \A q \in burst : \E d \in denials :
                d.by = q /\ now - d.created_at <= Policy.windowSeconds
        BY <1>1, <1>3, <3>1 DEF Within
      <3>4. burst \in SUBSET Requests
        BY DEF Over
      <3>5. Cardinality(burst) <= DeniedCount(ip)
        BY <1>3, <3>2, <3>3, <3>4, BurstIsCounted
      <3>6. DeniedCount(ip) + 1 < Policy.threshold /\ DeniedCount(ip) \in Nat
        BY <2>5, <3>1, CountIsNatural DEF BelowThreshold, Typed
      <3>7. QED
        BY <1>1, <3>5, <3>6
    <2>6. QED
      BY <2>2, <2>3, <2>4, <2>5
  <1>4. QED
    BY <1>2, <1>3

-----------------------------------------------------------------------------
(* Theorems *)

Kept ==
    /\ Typed
    /\ \A r \in Requests : Decided(r) /\ Watching(r) /\ Counted(r)
    /\ ProtectionJustified
    /\ Recorded /\ Dated
    /\ ThresholdTriggers

LEMMA TickKeeps ==
    ASSUME Kept, Tick
    PROVE  Kept'
  <1>1. UNCHANGED <<denials, protections, pc, counted, answer, troubled, endedAt,
                    actor, target, source, earlier>>
        /\ now' = now + 1 /\ now' \in 0..MaxTime /\ now \in Nat
    BY PolicyAssumption DEF Tick, Kept, Typed, TypeOK, request
  <1>2. Policy' = Policy
    BY DEF Policy
  <1>3. Typed'
    BY <1>1 DEF Kept, Typed, TypeOK
  <1>4. ASSUME NEW r \in Requests PROVE Decided(r)' /\ Counted(r)'
    <2>1. 0..now \subseteq 0..(now + 1)
      BY <1>1
    <2>2. ASSUME NEW ip, AllButOne(ip, now) PROVE AllButOne(ip, now)'
      BY <1>1, <1>2, <2>1, <2>2 DEF AllButOne, WindowOf
    <2>3. QED
      BY <1>1, <2>2 DEF Kept, Decided, Administers, Counted
  <1>5. ASSUME NEW r \in Requests PROVE Watching(r)'
    <2>1. \A p \in earlier[r] : p.blocked_until \in Nat
      BY DEF Kept, Typed, TypeOK, Protection
    <2>2. QED
      BY <1>1, <2>1 DEF Kept, Watching
  <1>6. ProtectionJustified' /\ Recorded' /\ ThresholdTriggers'
    BY <1>1, <1>2 DEF Kept, ProtectionJustified, AllButOne, WindowOf, Recorded,
       ThresholdTriggers, AuditRowVisible, Visible, TenantPredicate, SqlEquals,
       PooledContext
  <1>7. Dated'
    BY <1>1 DEF Kept, Dated, Typed, TypeOK, Denial
  <1>8. QED
    BY <1>3, <1>4, <1>5, <1>6, <1>7 DEF Kept

LEMMA StutterKeeps ==
    ASSUME Kept, UNCHANGED vars
    PROVE  Kept'
  <1>1. UNCHANGED <<now, denials, protections, pc, counted, answer, troubled, endedAt,
                    actor, target, source, earlier>>
    BY DEF vars, request
  <1>2. Policy' = Policy
    BY DEF Policy
  <1>3. Typed'
    BY <1>1 DEF Kept, Typed, TypeOK
  <1>4. ASSUME NEW r \in Requests PROVE Decided(r)' /\ Counted(r)' /\ Watching(r)'
    BY <1>1, <1>2 DEF Kept, Decided, Counted, AllButOne, WindowOf, Watching
  <1>5. ProtectionJustified' /\ Recorded' /\ Dated' /\ ThresholdTriggers'
    BY <1>1, <1>2 DEF Kept, ProtectionJustified, AllButOne, WindowOf, Recorded,
       Dated, ThresholdTriggers, AuditRowVisible, Visible, TenantPredicate,
       SqlEquals, PooledContext
  <1>6. QED
    BY <1>3, <1>4, <1>5 DEF Kept

\* Together the parts are inductive.
THEOREM AlwaysKept == Spec => []Kept
  <1>1. Init => Kept
    <2> SUFFICES ASSUME Init PROVE Kept
      OBVIOUS
    <2>1. Typed
      BY FS_EmptySet, PolicyAssumption DEF Init, Typed, TypeOK, PC
    <2>2. \A r \in Requests : Decided(r) /\ Watching(r) /\ Counted(r)
      BY DEF Init, Decided, Watching, Counted
    <2>3. ProtectionJustified /\ Recorded /\ Dated
      BY DEF Init, ProtectionJustified, Recorded, Dated
    <2>4. ThresholdTriggers
      <3>1. Policy.threshold # 0
        BY PolicyTyped DEF EnumerationPolicy, Positive
      <3>2. \A ip \in Ips : Over(ip) = {}
        BY DEF Init, Over
      <3>3. QED
        BY <3>1, <3>2, FS_EmptySet, TriggersByParts DEF Triggered
    <2>5. QED
      BY <2>1, <2>2, <2>3, <2>4 DEF Kept
  <1>2. ASSUME Kept, [Next]_vars PROVE Kept'
    <2>1. CASE Tick
      BY <1>2, <2>1, TickKeeps
    <2>2. ASSUME NEW r \in Requests, RequestStep(r) PROVE Kept'
      <3>1. Typed' /\ Recorded' /\ Dated'
        BY <1>2, <2>2, TypedKept, RecordedKept, DatedKept DEF Kept
      <3>2. \A q \in Requests : Decided(q)' /\ Watching(q)' /\ Counted(q)'
        BY <1>2, <2>2, DecidedKept, WatchingKept, CountedKept DEF Kept
      <3>3. ProtectionJustified'
        BY <1>2, <2>2, JustifiedKept DEF Kept
      <3>4. ThresholdTriggers'
        <4>1. \A ip \in Ips : Triggered(ip)
          BY <1>2, TriggersByParts DEF Kept
        <4>2. \A ip \in Ips : Triggered(ip)'
          BY <1>2, <2>2, <3>1, <4>1, TriggeredKept DEF Kept
        <4>3. QED
          BY <4>2, TriggersByParts DEF ThresholdTriggers, Triggered, Over, Within
      <3>5. QED
        BY <3>1, <3>2, <3>3, <3>4 DEF Kept
    <2>3. CASE UNCHANGED vars
      BY <1>2, <2>3, StutterKeeps
    <2>4. QED
      BY <1>2, <2>1, <2>2, <2>3, NextIsStep
  <1>3. QED
    BY <1>1, <1>2, PTL DEF Spec

\* The type invariant, for every policy the environment can hold.
THEOREM TypeCorrect == Spec => []TypeOK
  <1>1. Kept => TypeOK
    BY DEF Kept, Typed
  <1>2. QED
    BY <1>1, AlwaysKept, PTL

\* However many requests probe at once, those of one window that reach the
\* threshold leave their source protected.
THEOREM ThresholdHolds == Spec => []ThresholdTriggers
  <1>1. Kept => ThresholdTriggers
    BY DEF Kept
  <1>2. QED
    BY <1>1, AlwaysKept, PTL

\* How far ProtectionMeetsThreshold is off: behind every protection one window
\* holds all but one of the denials the threshold asks for, at least.
THEOREM ProtectionsAreJustified == Spec => []ProtectionJustified
  <1>1. Kept => ProtectionJustified
    BY DEF Kept
  <1>2. QED
    BY <1>1, AlwaysKept, PTL

\* A request that meets a block is answered 429, or after the block.
THEOREM BlocksHold == Spec => []BlockHolds
  <1>1. Kept => BlockHolds
    BY DEF Kept, Watching, BlockHolds
  <1>2. QED
    BY <1>1, AlwaysKept, PTL

\* Whatever fails, the answer is the one the actor's roles and company give.
THEOREM DecisionsAreTheRoles == Spec => []DecisionSurvivesFailures
  <1>1. Kept => DecisionSurvivesFailures
    BY DEF Kept, Decided, DecisionSurvivesFailures
  <1>2. QED
    BY <1>1, AlwaysKept, PTL

-----------------------------------------------------------------------------
(* The guard is implemented *)

LEMMA EntitledAdministers ==
    ASSUME NEW r \in Requests, actor[r] \in Actors, target[r] \in Companies,
           source[r] \in Ips \cup {Null}, pc[r] # "idle"
    PROVE  /\ Guard!IsEntitled(Asked[r]) <=> Administers(actor[r], target[r])
           /\ Asked[r] \in [actor : Actors, target : Companies, source : Ips \cup {Null}]
           /\ Asked[r].source = source[r]
  <1>1. Asked[r] = [actor |-> actor[r], target |-> target[r], source |-> source[r]]
    BY DEF Asked
  <1>2. <<actor[r], target[r]>> \in Actors \X Companies
    OBVIOUS
  <1>3. Guard!IsEntitled(Asked[r]) <=> Administers(actor[r], target[r])
    BY <1>1, <1>2 DEF Guard!IsEntitled
  <1>4. QED
    BY <1>1, <1>3

\* Once a request has arrived, what it asks for stays.
LEMMA AskedStays ==
    ASSUME Typed, NEW r \in Requests, Step(r) \/ Trouble(r)
    PROVE  /\ Asked' = Asked
           /\ pc[r] # "idle"
           /\ actor[r] \in Actors /\ target[r] \in Companies
           /\ source[r] \in Ips \cup {Null}
  <1>1. pc[r] # "idle"
    BY DEF Step, Trouble, Unchecked, CheckBlocked, CheckFails, RecordDenial,
           RecordDenialFails, CountDenials, ProtectSource, TelemetryFails
  <1>2. RequestStep(r)
    BY DEF RequestStep
  <1>3. pc'[r] # "idle"
    BY <1>2, OwnPlace
  <1>4. ASSUME NEW q \in Requests PROVE pc'[q] = "idle" <=> pc[q] = "idle"
    BY <1>1, <1>2, <1>3, OthersStay DEF Typed
  <1>5. Asked' = Asked
    BY <1>4, IdentityStays DEF Asked
  <1>6. QED
    BY <1>1, <1>5 DEF Typed, TypeOK

\* How a step of a request that has arrived ends: with a decision on the role,
\* with a refusal, with a block, or nowhere yet.
LEMMA HowItEnds ==
    ASSUME NEW r \in Requests, Step(r) \/ Trouble(r)
    PROVE  /\ now' = now
           /\ \/ Authorize(r) /\ protections' = protections
              \/ /\ pc[r] = "blocked?" /\ IsBlocked(source[r])
                 /\ Answer(r, "too_many") /\ protections' = protections
              \/ /\ pc[r] \in {"audit", "count", "protect"}
                 /\ Answer(r, "forbidden") /\ protections' = protections
              \/ /\ pc[r] = "protect" /\ Answer(r, "forbidden")
                 /\ protections' = protections \cup {Block(r)}
              \/ /\ answer' = answer /\ protections' = protections
  BY DEF Step, Trouble, Unchecked, CheckBlocked, CheckFails, RecordDenial,
         RecordDenialFails, CountDenials, ProtectSource, TelemetryFails,
         AfterAudit, GoesOn

LEMMA GuardStep ==
    ASSUME Typed, NEW r \in Requests, Decided(r), Step(r) \/ Trouble(r)
    PROVE  [Guard!Next]_(Guard!guardVars)
  <1>1. /\ Asked' = Asked
        /\ pc[r] # "idle"
        /\ actor[r] \in Actors /\ target[r] \in Companies
        /\ source[r] \in Ips \cup {Null}
    BY AskedStays
  <1>2. /\ Guard!IsEntitled(Asked[r]) <=> Administers(actor[r], target[r])
        /\ Asked[r] \in [actor : Actors, target : Companies, source : Ips \cup {Null}]
        /\ Asked[r].source = source[r]
    BY <1>1, EntitledAdministers
  <1>3. answer[r] = "none" /\ now' = now
    BY HowItEnds DEF Decided, Step, Trouble, Unchecked, CheckBlocked, CheckFails,
       RecordDenial, RecordDenialFails, CountDenials, ProtectSource, TelemetryFails
  <1>4. ASSUME NEW status, Answer(r, status) PROVE Guard!Answer(r, status)
    BY <1>1, <1>2, <1>3, <1>4 DEF Guard!Answer, Answer
  <1>5. protections' = protections => Blocks' = Blocks
    BY DEF Blocks
  <1>6. CASE Authorize(r) /\ protections' = protections
    <2>1. CASE Answer(r, "granted") /\ Administers(actor[r], target[r])
      BY <1>2, <1>4, <1>5, <1>6, <2>1 DEF Guard!Grant, Guard!Next
    <2>2. CASE GoesOn(r, "audit")
      BY <1>1, <1>3, <1>5, <1>6, <2>2 DEF GoesOn, Guard!guardVars
    <2>3. QED
      BY <1>1, <1>6, <2>1, <2>2, GrantedAdministers DEF Authorize
  <1>7. CASE /\ pc[r] = "blocked?" /\ IsBlocked(source[r])
             /\ Answer(r, "too_many") /\ protections' = protections
    <2>1. PICK p \in protections : p.source_ip = source[r] /\ p.blocked_until >= now
      BY <1>7 DEF IsBlocked
    <2> DEFINE b == [source |-> p.source_ip, until |-> p.blocked_until]
    <2>2. b \in Blocks /\ b.source = source[r] /\ b.until >= now
      BY <2>1 DEF Blocks
    <2>3. Guard!TurnAway(r)
      BY <1>2, <1>4, <1>5, <1>7, <2>2 DEF Guard!TurnAway
    <2>4. QED
      BY <2>3 DEF Guard!Next
  <1>8. CASE /\ pc[r] \in {"audit", "count", "protect"}
             /\ Answer(r, "forbidden") /\ protections' = protections
    <2>1. Guard!Forbid(r)
      BY <1>2, <1>4, <1>5, <1>8 DEF Decided, Guard!Forbid
    <2>2. QED
      BY <2>1 DEF Guard!Next
  <1>9. CASE /\ pc[r] = "protect" /\ Answer(r, "forbidden")
             /\ protections' = protections \cup {Block(r)}
    <2>1. source[r] # Null
      BY <1>9 DEF Typed
    <2>2. Blocks' = Blocks \cup {[source |-> source[r],
                                  until  |-> now + Policy.blockSeconds]}
      <3> DEFINE AsBlock(p) == [source |-> p.source_ip, until |-> p.blocked_until]
      <3>1. AsBlock(Block(r)) = [source |-> source[r],
                                 until  |-> now + Policy.blockSeconds]
        BY DEF Block
      <3>2. Blocks' = {AsBlock(p) : p \in protections \cup {Block(r)}}
        BY <1>9 DEF Blocks
      <3>3. Blocks = {AsBlock(p) : p \in protections}
        BY DEF Blocks
      <3> HIDE DEF AsBlock
      <3>4. Blocks' = Blocks \cup {AsBlock(Block(r))}
        BY <3>2, <3>3
      <3>5. QED
        BY <3>1, <3>4
    <2>3. Guard!Forbid(r)
      BY <1>2, <1>4, <1>9, <2>1, <2>2 DEF Decided, Guard!Forbid
    <2>4. QED
      BY <2>3 DEF Guard!Next
  <1>10. CASE answer' = answer /\ protections' = protections
    BY <1>1, <1>3, <1>5, <1>10 DEF Guard!guardVars
  <1>11. QED
    BY <1>6, <1>7, <1>8, <1>9, <1>10, HowItEnds

LEMMA ArrivalIsAsk ==
    ASSUME Typed, NEW r \in Requests, NEW a \in Actors, NEW companyId \in Companies,
           NEW ip \in Ips \cup {Null}, Arrive(r, a, companyId, ip)
    PROVE  Guard!Ask(r)
  <1> DEFINE ask == [actor |-> a, target |-> companyId, source |-> ip]
  <1>1. Asked[r] = Null
    BY DEF Arrive, Asked
  <1>2. ask \in [actor : Actors, target : Companies, source : Ips \cup {Null}]
    OBVIOUS
  <1>3. pc'[r] # "idle" /\ actor'[r] = a /\ target'[r] = companyId /\ source'[r] = ip
    BY DEF Arrive, GoesOn, Typed, TypeOK
  <1>4. ASSUME NEW q \in Requests, q # r
        PROVE  /\ pc'[q] = pc[q] /\ actor'[q] = actor[q]
               /\ target'[q] = target[q] /\ source'[q] = source[q]
    BY <1>4, OthersStay DEF RequestStep, Typed
  <1>5. Asked' = [Asked EXCEPT ![r] = ask]
    BY <1>3, <1>4 DEF Asked
  <1>6. Blocks' = Blocks /\ now' = now /\ answer' = answer
    BY DEF Arrive, GoesOn, Blocks
  <1>7. QED
    BY <1>1, <1>2, <1>5, <1>6 DEF Guard!Ask

\* Tenant access answers each request as if it had decided at one moment, by
\* the role and under the blocks in force, whatever runs or fails between its
\* database calls.
THEOREM AccessGuardImplemented == Spec => ImplementsAccessGuard
  <1>1. Init => Guard!Init
    BY DEF Init, Guard!Init, Asked, Blocks
  <1>2. Kept /\ [Next]_vars => [Guard!Next]_(Guard!guardVars)
    <2> SUFFICES ASSUME Kept, [Next]_vars
                 PROVE  [Guard!Next]_(Guard!guardVars)
      OBVIOUS
    <2>1. CASE Tick
      <3>1. UNCHANGED <<Asked, Blocks, answer>> /\ now' = now + 1
        BY <2>1 DEF Tick, request, Asked, Blocks
      <3>2. QED
        BY <3>1 DEF Guard!Pass, Guard!Next
    <2>2. ASSUME NEW r \in Requests, RequestStep(r)
          PROVE  [Guard!Next]_(Guard!guardVars)
      <3>1. CASE Step(r) \/ Trouble(r)
        BY <3>1, GuardStep DEF Kept
      <3>2. ASSUME NEW a \in Actors, NEW companyId \in Companies,
                   NEW ip \in Ips \cup {Null}, Arrive(r, a, companyId, ip)
            PROVE  [Guard!Next]_(Guard!guardVars)
        BY <3>2, ArrivalIsAsk DEF Guard!Next, Kept
      <3>3. QED
        BY <2>2, <3>1, <3>2 DEF RequestStep
    <2>3. CASE UNCHANGED vars
      BY <2>3 DEF vars, request, Asked, Blocks, Guard!guardVars
    <2>4. QED
      BY <2>1, <2>2, <2>3, NextIsStep
  <1>3. QED
    BY <1>1, <1>2, AlwaysKept, PTL DEF Spec, ImplementsAccessGuard, Guard!Spec

-----------------------------------------------------------------------------
(* What the row-level policy decides *)

\* A request past its audit, without trouble, has its row.
Audited(r) ==
    pc[r] \in {"count", "protect"} \/ answer[r] = "forbidden" =>
        troubled[r] \/ \E d \in denials : d.by = r

LEMMA AuditedKept ==
    ASSUME ~RlsEnforced, Typed, NEW r \in Requests, RequestStep(r),
           \A q \in Requests : Audited(q) /\ Decided(q)
    PROVE  \A q \in Requests : Audited(q)'
  <1>1. denials \subseteq denials'
    BY TablesGrow
  <1>2. ASSUME NEW q \in Requests, q # r PROVE Audited(q)'
    BY <1>1, <1>2, OthersStay DEF Audited, Typed
  <1>3. Audited(r)'
    <2> USE DEF Typed, TypeOK
    <2>1. CASE RecordDenial(r)
      <3>1. denials' = denials \cup {Row(r)}
        BY <2>1 DEF RecordDenial, WithDenial, AuditRowAllowed
      <3>2. Row(r).by = r
        BY DEF Row
      <3>3. QED
        BY <3>1, <3>2 DEF Audited
    <2>2. CASE RecordDenialFails(r) \/ TelemetryFails(r) \/ CheckFails(r)
      <3>1. troubled'[r]
        BY <2>2 DEF RecordDenialFails, TelemetryFails, CheckFails
      <3>2. QED
        BY <3>1 DEF Audited
    <2>3. CASE CountDenials(r) \/ ProtectSource(r)
      BY <1>1, <2>3 DEF Audited, CountDenials, ProtectSource
    <2>4. CASE Unchecked(r) \/ CheckBlocked(r)
      <3>1. answer[r] # "forbidden" /\ pc[r] # "done"
        BY <2>4 DEF Decided, Unchecked, CheckBlocked
      <3>2. /\ answer'[r] \in {answer[r], "granted", "too_many"}
            /\ pc'[r] \in {"audit", "done"}
        BY <2>4 DEF Unchecked, CheckBlocked, Authorize, Answer, GoesOn
      <3>3. QED
        BY <3>1, <3>2 DEF Audited
    <2>5. ASSUME NEW a \in Actors, NEW companyId \in Companies,
                 NEW ip \in Ips \cup {Null}, Arrive(r, a, companyId, ip)
          PROVE  Audited(r)'
      BY <2>5 DEF Arrive, GoesOn, Audited, Decided
    <2>6. QED
      BY <2>1, <2>2, <2>3, <2>4, <2>5 DEF RequestStep, Step, Trouble
  <1>4. QED
    BY <1>2, <1>3

\* Where 002_rls.sql is not applied every denial leaves its event, unless the
\* database fails: what the run denial_not_audited violates is lost to the
\* policy alone.
THEOREM AuditedWithoutPolicy == ASSUME ~RlsEnforced PROVE Spec => []DenialAudited
  <1> DEFINE All == \A r \in Requests : Audited(r)
  <1>1. Init => All
    BY DEF Init, Audited
  <1>2. Kept /\ All /\ [Next]_vars => All'
    <2> SUFFICES ASSUME Kept, All, [Next]_vars PROVE All'
      OBVIOUS
    <2>1. CASE Tick \/ UNCHANGED vars
      BY <2>1 DEF Tick, vars, request, Audited
    <2>2. ASSUME NEW r \in Requests, RequestStep(r) PROVE All'
      BY <2>2, AuditedKept DEF Kept
    <2>3. QED
      BY <2>1, <2>2, NextIsStep
  <1>3. All => DenialAudited
    BY DEF Audited, DenialAudited
  <1>4. QED
    BY <1>1, <1>2, <1>3, AlwaysKept, PTL DEF Spec

\* Where it is applied no denial ever leaves an event, so that every count is
\* zero and no source is ever blocked, but under a threshold of 1, which
\* blocks at the first denial: enumeration protection counts rows that the
\* policy keeps out.
THEOREM PolicyDisarmsProtection ==
    ASSUME RlsEnforced
    PROVE  Spec => [](/\ denials = {}
                      /\ Policy.threshold # 1 => protections = {}
                      /\ \A p \in protections : p.denied_attempt_count = 1)
  <1> DEFINE Quiet(r) == counted[r] = 0 /\ (pc[r] = "protect" => Policy.threshold = 1)
             Disarmed == /\ denials = {}
                         /\ \A r \in Requests : Quiet(r)
                         /\ Policy.threshold # 1 => protections = {}
                         /\ \A p \in protections : p.denied_attempt_count = 1
  <1>1. Init => Disarmed
    BY DEF Init
  <1>2. Kept /\ Disarmed /\ [Next]_vars => Disarmed'
    <2> SUFFICES ASSUME Kept, Disarmed, [Next]_vars PROVE Disarmed'
      OBVIOUS
    <2>1. Policy' = Policy /\ Policy.threshold \in Nat \ {0}
      BY PolicyTyped DEF Policy, EnumerationPolicy, Positive
    <2>2. CASE Tick \/ UNCHANGED vars
      BY <2>1, <2>2 DEF Tick, vars, request
    <2>3. ASSUME NEW r \in Requests, RequestStep(r) PROVE Disarmed'
      <3>1. denials' = {}
        <4>1. ~AuditRowAllowed(actor[r].companyId)
          BY NullAssumption DEF AuditRowAllowed, MayWrite, PooledContext, Cleared,
             TenantPredicate, SqlEquals, Roles
        <4>2. QED
          BY <2>3, <4>1, TablesGrow
      <3>2. \A ip : DeniedCount(ip) = 0
        BY FS_EmptySet DEF DeniedCount
      <3>3. Quiet(r)'
        <4>1. CASE CountDenials(r)
          BY <2>1, <3>2, <4>1
             DEF CountDenials, Answer, GoesOn, BelowThreshold, Kept, Typed, TypeOK
        <4>2. CASE ~CountDenials(r)
          BY <2>3, <4>2 DEF RequestStep, Step, Trouble, Arrive, Unchecked,
             CheckBlocked, CheckFails, RecordDenial, RecordDenialFails,
             ProtectSource, TelemetryFails, AfterAudit, Authorize, Answer,
             GoesOn, Kept, Typed, TypeOK
        <4>3. QED
          BY <4>1, <4>2
      <3>4. \A q \in Requests : Quiet(q)'
        BY <2>1, <2>3, <3>3, OthersStay DEF Kept, Typed
      <3>5. CASE Protects(r) /\ protections' = protections \cup {Block(r)}
        <4>1. Policy.threshold = 1 /\ counted[r] = 0
          BY <3>5 DEF Protects
        <4>2. Block(r).denied_attempt_count = 1
          BY <4>1 DEF Block
        <4>3. QED
          BY <2>1, <3>1, <3>4, <3>5, <4>1, <4>2
      <3>6. QED
        BY <2>1, <2>3, <3>1, <3>4, <3>5, TablesGrow
    <2>4. QED
      BY <2>2, <2>3, NextIsStep
  <1>3. QED
    BY <1>1, <1>2, AlwaysKept, PTL DEF Spec

=============================================================================
