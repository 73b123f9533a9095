---------------------------- MODULE TenantAccess ----------------------------
(***************************************************************************)
(* TenantAccessService.getTenantAdminAccess with the audit and enumeration *)
(* protection services behind it (apps/api/src/tenant-access, src/audit).  *)
(*                                                                         *)
(* A request makes up to four calls of the database, none in a             *)
(* transaction: is the source blocked, record the denial, count the        *)
(* denials of the window, protect the source.  Requests interleave between *)
(* them, any of them may fail, and the failure of any is swallowed.        *)
(***************************************************************************)
EXTENDS Rbac, Integers, FiniteSets

CONSTANTS
    Requests,     \* calls of GET /api/tenant/companies/:companyId/admin-access
    Ips,          \* source addresses
    Actors,       \* the AuthContexts requests come with
    ID_ENUMERATION_THRESHOLD,      \* the environment of the process: each an
    ID_ENUMERATION_WINDOW_SECONDS, \* integer, or Null when it is not set or
    ID_ENUMERATION_BLOCK_SECONDS,  \* no integer
    DefaultPolicy,                 \* DEFAULT_POLICY
    TRUST_PROXY_X_FORWARDED_FOR,   \* it is "true"
    RlsEnforced,  \* 002_rls.sql has been applied
    Failing,      \* database calls may fail
    MaxTime       \* bound: how long the clock runs

Positive == Nat \ {0}

EnumerationPolicy ==
    [threshold : Positive, windowSeconds : Positive, blockSeconds : Positive]

ASSUME PolicyAssumption ==
    /\ {ID_ENUMERATION_THRESHOLD, ID_ENUMERATION_WINDOW_SECONDS,
        ID_ENUMERATION_BLOCK_SECONDS} \subseteq Int \cup {Null}
    /\ DefaultPolicy \in EnumerationPolicy
    /\ MaxTime \in Nat
    /\ RlsEnforced \in BOOLEAN /\ Failing \in BOOLEAN
    /\ TRUST_PROXY_X_FORWARDED_FOR \in BOOLEAN
    /\ Null \notin Ips

\* TokenValidatorService computes isSuperAdmin from the roles.
ASSUME ActorAssumption ==
    /\ Null \notin Actors
    /\ \A a \in Actors :
           /\ a.companyId \in Companies \cup {Null}
           /\ a.isSuperAdmin <=> "super_admin" \in a.roles

VARIABLES
    now,         \* SYSUTCDATETIME(), in units of the policy
    denials,     \* rows of dbo.audit_events with cross_tenant_denied
    protections, \* rows of dbo.ip_protection_events
    pc,          \* what a request does next
    actor,       \* its AuthContext
    target,      \* the companyId of its path
    source,      \* its sourceIp
    counted,     \* the denied_count it read
    answer,      \* its HTTP status
    troubled,    \* a database call of the request failed
    earlier,     \* history: the protections there were when it arrived
    endedAt      \* history: when it was answered

request == <<actor, target, source, earlier>>
vars == <<now, denials, protections, pc, counted, answer, troubled, endedAt, request>>

PC == {"idle", "blocked?", "authorize", "audit", "count", "protect", "done"}

\* database.query takes a pooled connection and sets no context on it; the
\* pool's connections are cleared (DatabaseSessions, IdleConnectionsCleared).
PooledContext == Cleared

AuditRowAllowed(companyId) ==
    RlsEnforced => MayWrite("audit_events", companyId, PooledContext)

AuditRowVisible(companyId) ==
    RlsEnforced => Visible("audit_events", companyId, PooledContext)

PositiveIntegerFromEnv(value, fallback) ==
    IF value = Null \/ value <= 0 THEN fallback ELSE value

\* policyFromEnv
Policy ==
    [threshold |->
         PositiveIntegerFromEnv(ID_ENUMERATION_THRESHOLD, DefaultPolicy.threshold),
     windowSeconds |->
         PositiveIntegerFromEnv(ID_ENUMERATION_WINDOW_SECONDS,
                                DefaultPolicy.windowSeconds),
     blockSeconds |->
         PositiveIntegerFromEnv(ID_ENUMERATION_BLOCK_SECONDS,
                                DefaultPolicy.blockSeconds)]

\* resolveSourceIp of the middleware: the first address of X-Forwarded-For, if
\* the process trusts it and there is one, and otherwise the peer's, if known.
ResolveSourceIp(forwardedFor, ip) ==
    IF TRUST_PROXY_X_FORWARDED_FOR /\ forwardedFor # Null THEN forwardedFor ELSE ip

-----------------------------------------------------------------------------
Init ==
    /\ now = 0
    /\ denials = {}
    /\ protections = {}
    /\ pc = [r \in Requests |-> "idle"]
    /\ actor = [r \in Requests |-> Null]
    /\ target = [r \in Requests |-> Null]
    /\ source = [r \in Requests |-> Null]
    /\ counted = [r \in Requests |-> 0]
    /\ answer = [r \in Requests |-> "none"]
    /\ troubled = [r \in Requests |-> FALSE]
    /\ earlier = [r \in Requests |-> {}]
    /\ endedAt = [r \in Requests |-> 0]

Tick ==
    /\ now < MaxTime
    /\ now' = now + 1
    /\ UNCHANGED <<denials, protections, pc, counted, answer, troubled, endedAt, request>>

\* The request is answered and does nothing more.
Answer(r, status) ==
    /\ pc' = [pc EXCEPT ![r] = "done"]
    /\ answer' = [answer EXCEPT ![r] = status]
    /\ endedAt' = [endedAt EXCEPT ![r] = now]

GoesOn(r, step) ==
    /\ pc' = [pc EXCEPT ![r] = step]
    /\ UNCHANGED <<answer, endedAt>>

\* A request with a verified session arrives; only one whose sourceIp is
\* known is checked against the protections.
Arrive(r, a, companyId, ip) ==
    /\ pc[r] = "idle"
    /\ actor' = [actor EXCEPT ![r] = a]
    /\ target' = [target EXCEPT ![r] = companyId]
    /\ source' = [source EXCEPT ![r] = ip]
    /\ earlier' = [earlier EXCEPT ![r] = protections]
    /\ GoesOn(r, IF ip = Null THEN "authorize" ELSE "blocked?")
    /\ UNCHANGED <<now, denials, protections, counted, troubled>>

\* assertTenantPermission: a ForbiddenException, whichever it is, is recorded
\* before it is rethrown.
Authorize(r) ==
    IF AssertTenantPermission(actor[r], target[r], "tenant:admin") = "granted"
    THEN Answer(r, "granted")
    ELSE GoesOn(r, "audit")

\* Without a source there is no check.
Unchecked(r) ==
    /\ pc[r] = "authorize"
    /\ Authorize(r)
    /\ UNCHANGED <<now, denials, protections, counted, troubled, request>>

\* A bug: the last moment of the block is not part of it.
IsBlockedExclusive(ip) ==
    \E p \in protections : p.source_ip = ip /\ p.blocked_until > now

\* isBlocked, inclusive of the last moment of the block.
IsBlocked(ip) ==
    \E p \in protections : p.source_ip = ip /\ p.blocked_until >= now

CheckBlocked(r) ==
    /\ pc[r] = "blocked?"
    /\ IF IsBlocked(source[r]) THEN Answer(r, "too_many") ELSE Authorize(r)
    /\ UNCHANGED <<now, denials, protections, counted, troubled, request>>

\* A bug: a check that fails lets the request through altogether.
CheckFailsOpen(r) ==
    /\ Failing
    /\ pc[r] = "blocked?"
    /\ Answer(r, "granted")
    /\ troubled' = [troubled EXCEPT ![r] = TRUE]
    /\ UNCHANGED <<now, denials, protections, counted, request>>

\* A check that fails counts as "not blocked".
CheckFails(r) ==
    /\ Failing
    /\ pc[r] = "blocked?"
    /\ Authorize(r)
    /\ troubled' = [troubled EXCEPT ![r] = TRUE]
    /\ UNCHANGED <<now, denials, protections, counted, request>>

\* After the audit, recorded or not: without a source there is nothing to
\* count.
AfterAudit(r) ==
    IF source[r] = Null THEN Answer(r, "forbidden") ELSE GoesOn(r, "count")

\* The event of a denial, and what its INSERT makes of the table: the block
\* predicate on audit_events may reject it.
Row(r) == [by |-> r, source_ip |-> source[r], company_id |-> actor[r].companyId,
           created_at |-> now]

WithDenial(r) ==
    IF AuditRowAllowed(actor[r].companyId) THEN denials \cup {Row(r)} ELSE denials

\* audit.record.
RecordDenial(r) ==
    /\ pc[r] = "audit"
    /\ denials' = WithDenial(r)
    /\ AfterAudit(r)
    /\ UNCHANGED <<now, protections, counted, troubled, request>>

\* audit.record rejects: the INSERT failed, or it was stored and its answer is
\* lost.
RecordDenialFails(r) ==
    /\ Failing
    /\ pc[r] = "audit"
    /\ denials' \in {denials, WithDenial(r)}
    /\ AfterAudit(r)
    /\ troubled' = [troubled EXCEPT ![r] = TRUE]
    /\ UNCHANGED <<now, protections, counted, request>>

\* A bug: the count leaves out the edge of the window.
DeniedCountInside(ip) ==
    Cardinality({d \in denials :
        /\ d.source_ip = ip
        /\ d.created_at > now - Policy.windowSeconds
        /\ AuditRowVisible(d.company_id)})

\* SELECT COUNT(1): the denials of the window, the request's own included.
DeniedCount(ip) ==
    Cardinality({d \in denials :
        /\ d.source_ip = ip
        /\ d.created_at >= now - Policy.windowSeconds
        /\ AuditRowVisible(d.company_id)})

BelowThreshold(count) == count + 1 < Policy.threshold

CountDenials(r) ==
    /\ pc[r] = "count"
    /\ counted' = [counted EXCEPT ![r] = DeniedCount(source[r])]
    /\ IF BelowThreshold(DeniedCount(source[r]))
       THEN Answer(r, "forbidden")
       ELSE GoesOn(r, "protect")
    /\ UNCHANGED <<now, denials, protections, troubled, request>>

\* The protection a request that meets the threshold inserts.
Block(r) == [by |-> r, source_ip |-> source[r],
             denied_attempt_count |-> counted[r] + 1,
             blocked_until |-> now + Policy.blockSeconds]

\* A bug: the block is counted backwards.
ProtectSourceInThePast(r) ==
    /\ pc[r] = "protect"
    /\ protections' = protections \cup
           {[Block(r) EXCEPT !.blocked_until = now - Policy.blockSeconds]}
    /\ Answer(r, "forbidden")
    /\ UNCHANGED <<now, denials, counted, troubled, request>>

\* INSERT dbo.ip_protection_events, a table no policy covers.
ProtectSource(r) ==
    /\ pc[r] = "protect"
    /\ protections' = protections \cup {Block(r)}
    /\ Answer(r, "forbidden")
    /\ UNCHANGED <<now, denials, counted, troubled, request>>

\* A bug: telemetry that fails starts over.
TelemetryFailsRetries(r) ==
    /\ Failing
    /\ pc[r] \in {"count", "protect"}
    /\ GoesOn(r, "count")
    /\ troubled' = [troubled EXCEPT ![r] = TRUE]
    /\ UNCHANGED <<now, denials, protections, counted, request>>

\* recordDeniedLookup fails at its SELECT or at its INSERT, which may have
\* been stored nevertheless.
TelemetryFails(r) ==
    /\ Failing
    /\ \/ /\ pc[r] \in {"count", "protect"}
          /\ UNCHANGED protections
       \/ /\ pc[r] = "protect"
          /\ protections' = protections \cup {Block(r)}
    /\ Answer(r, "forbidden")
    /\ troubled' = [troubled EXCEPT ![r] = TRUE]
    /\ UNCHANGED <<now, denials, counted, request>>

Step(r) ==
    \/ Unchecked(r)
    \/ CheckBlocked(r)
    \/ RecordDenial(r)
    \/ CountDenials(r)
    \/ ProtectSource(r)

Trouble(r) ==
    \/ CheckFails(r)
    \/ RecordDenialFails(r)
    \/ TelemetryFails(r)

Next ==
    \/ Tick
    \/ \E r \in Requests :
           \/ \E a \in Actors, companyId \in Companies,
                 forwardedFor \in Ips \cup {Null}, ip \in Ips \cup {Null} :
                  Arrive(r, a, companyId, ResolveSourceIp(forwardedFor, ip))
           \/ Step(r)
           \/ Trouble(r)

Spec == Init /\ [][Next]_vars

\* Node runs what is ready and the database answers or fails; nothing is said
\* of the clock, of requests arriving, or of failures.
FairSpec == Spec /\ \A r \in Requests : WF_vars(Step(r))

-----------------------------------------------------------------------------
(* Properties *)

Denial ==
    [by : Requests, source_ip : Ips \cup {Null},
     company_id : Companies \cup {Null}, created_at : 0..MaxTime]

Protection ==
    [by : Requests, source_ip : Ips, denied_attempt_count : Nat \ {0},
     blocked_until : Nat]

TypeOK ==
    /\ now \in 0..MaxTime
    /\ denials \subseteq Denial
    /\ protections \subseteq Protection
    /\ pc \in [Requests -> PC]
    /\ actor \in [Requests -> Actors \cup {Null}]
    /\ target \in [Requests -> Companies \cup {Null}]
    /\ source \in [Requests -> Ips \cup {Null}]
    /\ counted \in [Requests -> Nat]
    /\ answer \in [Requests -> {"none", "granted", "forbidden", "too_many"}]
    /\ troubled \in [Requests -> BOOLEAN]
    /\ earlier \in [Requests -> SUBSET Protection]
    /\ endedAt \in [Requests -> 0..MaxTime]

\* Enumeration cannot outrun the protection by being concurrent: when as many
\* denials as the threshold asks for have completed within one window from
\* one source, without trouble in the database, the source is protected,
\* because each request records its own denial before it counts.
ThresholdTriggers ==
    \A ip \in Ips :
        LET over == {r \in Requests :
                        /\ pc[r] = "done" /\ answer[r] = "forbidden"
                        /\ source[r] = ip /\ ~troubled[r]}
            Within(burst) ==
                \A r \in burst : \E d \in denials :
                    /\ d.by = r
                    /\ \A q \in burst : endedAt[q] - d.created_at <= Policy.windowSeconds
        IN  \A burst \in SUBSET over :
                Cardinality(burst) = Policy.threshold /\ Within(burst) =>
                    \E p \in protections : p.source_ip = ip

\* The recorded denials of a source in the window that ends at a moment.
WindowOf(ip, moment) ==
    {d \in denials :
        /\ d.source_ip = ip
        /\ d.created_at \in (moment - Policy.windowSeconds)..moment}

\* "WHEN the attempts meet the configured threshold THEN the system applies a
\* temporary protective response" (audit-monitoring/spec.md:22-23): a source
\* is protected only after as many of its denials as the threshold asks for
\* fell into one window.
ProtectionMeetsThreshold ==
    \A p \in protections :
        \E moment \in 0..(p.blocked_until - Policy.blockSeconds) :
            Cardinality(WindowOf(p.source_ip, moment)) >= Policy.threshold

\* A source stays blocked to the last moment of its block: a request that
\* arrives after the protection, and is not answered 429, is answered after
\* the block has run out, unless its own check failed.
BlockHolds ==
    \A r \in Requests :
        pc[r] = "done" /\ ~troubled[r] /\ answer[r] # "too_many" =>
            \A p \in earlier[r] :
                p.source_ip = source[r] => p.blocked_until < endedAt[r]

\* Who may administer a tenant: its tenant_admin, and the super admin.
Administers(a, companyId) ==
    \/ a.isSuperAdmin
    \/ a.companyId = companyId /\ "tenant_admin" \in a.roles

\* No tenant role crosses the tenant boundary (authorization-rbac/spec.md:11),
\* and neither a failed block check nor failed telemetry turns a denial into a
\* grant or a grant into a denial (tenant-access.service.ts:87).
DecisionSurvivesFailures ==
    \A r \in Requests :
        /\ answer[r] = "granted" => Administers(actor[r], target[r])
        /\ answer[r] = "forbidden" => ~Administers(actor[r], target[r])

-----------------------------------------------------------------------------
(* The abstract specification: one answer, decided at one moment *)

Asked ==
    [r \in Requests |->
        IF pc[r] = "idle" THEN Null
        ELSE [actor |-> actor[r], target |-> target[r], source |-> source[r]]]

Blocks ==
    {[source |-> p.source_ip, until |-> p.blocked_until] : p \in protections}

Guard == INSTANCE AccessGuard WITH
    Callers  <- Requests,
    Asks     <- [actor : Actors, target : Companies, source : Ips \cup {Null}],
    NotYet   <- Null,
    NoSource <- Null,
    Entitled <- {at \in Actors \X Companies : Administers(at[1], at[2])},
    Duration <- Policy.blockSeconds,
    clock    <- now,
    request  <- Asked,
    blocks   <- Blocks,
    reply    <- answer

\* The four database calls of a request, between which others run and any of
\* which may fail, come to one decision: the role's.  A refusal blocks its own
\* source at the moment it is answered or not at all, and a request is turned
\* away only under a block that is in force (tenant-access.service.ts:32-90).
ImplementsAccessGuard == Guard!Spec

\* Every request is answered, whatever fails.
EveryRequestAnswered ==
    \A r \in Requests : pc[r] # "idle" ~> pc[r] = "done"

\* audit-monitoring/spec.md:11: a denied cross-tenant access leaves an audit
\* event, as long as the database answers.
DenialAudited ==
    \A r \in Requests :
        answer[r] = "forbidden" /\ ~troubled[r] => \E d \in denials : d.by = r

=============================================================================
