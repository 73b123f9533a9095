----------------------- MODULE BootstrapAccessProofs -----------------------
(***************************************************************************)
(* Proofs about BootstrapAccess, for any number of uses of the token, runs *)
(* of the seed and failed connects.                                        *)
(*                                                                         *)
(* Three inductive invariants, one for each thing that is shared: the pool *)
(* (Sharing), the token (Spending) and the account of the seed (Seeding).  *)
(* Ordered adds to the second what uses that do not overlap leave behind.  *)
(***************************************************************************)
EXTENDS BootstrapAccess, TLAPS

-----------------------------------------------------------------------------
(* The policy and statements without context *)

Login == [Cleared EXCEPT !.global_principal_login = TRUE]

\* Under a cleared context the policy hides every account and role and
\* rejects every global row; under the login's it shows the global ones, and
\* a tenant's account not even to the login.
LEMMA PolicyWithoutContext ==
    /\ \A a \in Accounts : ~Visible("users", CompanyOf(a), Cleared)
    /\ ~Visible("user_roles", Null, Cleared)
    /\ ~MayWrite("users", Null, Cleared)
    /\ ~MayWrite("user_roles", Null, Cleared)
    /\ Visible("users", Null, Login)
    /\ Visible("user_roles", Null, Login)
    /\ ~Visible("users", Tenant, Login)
  <1>1. Tenant # Null /\ Null # "super_admin"
    BY BootstrapAssumption, NullAssumption DEF Roles
  <1>2. /\ Cleared.company_id = Null
        /\ Cleared.user_role = Null
        /\ Cleared.global_principal_login = FALSE
    BY DEF Cleared
  <1>3. /\ Login.company_id = Null
        /\ Login.user_role = Null
        /\ Login.global_principal_login = TRUE
    BY DEF Login, Cleared
  <1>4. \A id : ~TenantPredicate(id, Cleared) /\ ~TenantPredicate(id, Login)
    BY <1>1, <1>2, <1>3 DEF TenantPredicate, SqlEquals
  <1>5. QED
    BY <1>1, <1>2, <1>3, <1>4
       DEF Visible, MayWrite, TenantOrGlobalPrincipalFilter, CompanyOf

\* So once it is applied, no statement without context sees an account.
LEMMA NothingSeen ==
    ASSUME policy, NEW a \in Accounts
    PROVE  ~Seen("users", a) /\ ~SeenRole(a)
  BY PolicyWithoutContext DEF Seen, SeenRole

\* Who can sign in, with the predicates of the policy evaluated.
LEMMA SigningIn ==
    ASSUME NEW a \in Accounts
    PROVE  CanSignIn(a) <=> /\ a \in DOMAIN users
                            /\ users[a].is_global_admin
                            /\ ~users[a].force_rotation
                            /\ a \in globalRoles
                            /\ policy => a = "super_admin"
  BY PolicyWithoutContext DEF CanSignIn, Login, CompanyOf, Accounts

-----------------------------------------------------------------------------
(* Steps *)

Uses(c) ==
    \/ \E token \in {"issued", "other"} : Present(c, token)
    \/ UseWork(c)
    \/ UseTrouble(c)

LEMMA NextIsDone ==
    ASSUME [Next]_vars
    PROVE  \/ Connect
           \/ ApplyPolicy
           \/ \E c \in Calls : Uses(c)
           \/ \E s \in Seeds : SeedRun(s)
           \/ UNCHANGED vars
  BY DEF Next, Uses

-----------------------------------------------------------------------------
(* The pool *)

\* What the promise says of connects and of those who await it.
Sharing ==
    /\ PoolTypeOK
    /\ connecting = IF poolPromise = "pending" THEN 1 ELSE 0
    /\ pools = IF poolPromise = "resolved" THEN 1 ELSE 0
    /\ \A c \in Calls :
           /\ getting[c] # "no" => failedBefore[c] <= failures
           /\ getting[c] = "rejected" => failedBefore[c] < failures

LEMMA SharingKept ==
    ASSUME Sharing, [Next]_vars
    PROVE  Sharing'
  <1> USE DEF Sharing, PoolTypeOK
  <1>1. CASE UNCHANGED poolVars
    BY <1>1 DEF poolVars
  <1>2. ASSUME NEW c \in Calls, GetPool(c) PROVE Sharing'
    BY <1>2, PoolAssumption DEF GetPool
  <1>3. CASE ConnectSucceeds
    BY <1>3, PoolAssumption DEF ConnectSucceeds, Settle
  <1>4. CASE ConnectFails
    BY <1>4, PoolAssumption DEF ConnectFails, Settle
  <1>5. UNCHANGED poolVars \/ ConnectSucceeds \/ ConnectFails
        \/ \E c \in Calls : GetPool(c)
    <2>1. CASE \E c \in Calls : Uses(c)
      BY <2>1 DEF Uses, Present, UseWork, UseTrouble, BeginUse, NoPool, Lookup,
                  Mark, CommitUse, UseFails, CommitUseUnacknowledged, Elsewhere
    <2>2. CASE \E s \in Seeds : SeedRun(s)
      BY <2>2 DEF SeedRun, SeedFinds, SeedUpdates, SeedInserts, SeedChecksRole,
                  SeedAssigns, SeedInterrupted, SeedElsewhere
    <2>3. QED
      BY <2>1, <2>2, NextIsDone DEF Connect, ApplyPolicy, vars
  <1>6. QED
    BY <1>1, <1>2, <1>3, <1>4, <1>5

LEMMA AlwaysSharing == Spec => []Sharing
  <1>1. Init => Sharing
    BY PoolAssumption DEF Init, PoolInit, Sharing, PoolTypeOK
  <1>2. QED
    BY <1>1, SharingKept, PTL DEF Spec

\* One pool, however many calls meet a process without one and however often
\* its connect fails.
THEOREM PoolIsOne == Spec => []OnePool
  <1>1. Sharing => OnePool
    BY DEF Sharing, OnePool
  <1>2. QED
    BY <1>1, AlwaysSharing, PTL

\* No call is told of a failure that was over before it asked.
THEOREM RejectionsAreFresh == Spec => []RejectionIsFresh
  <1>1. Sharing => RejectionIsFresh
    BY DEF Sharing, PoolTypeOK, RejectionIsFresh
  <1>2. QED
    BY <1>1, AlwaysSharing, PTL

-----------------------------------------------------------------------------
(* Types *)

\* What the two writers do to the columns of an account.
LEMMA ColumnsWritten ==
    ASSUME NEW user \in User
    PROVE  /\ Used(user) \in User
           /\ Used(user).used /\ Used(user).force_rotation
           /\ Used(user).is_global_admin = user.is_global_admin
           /\ Promoted(user) \in User
           /\ Promoted(user).used = user.used
           /\ Promoted(user).is_global_admin /\ ~Promoted(user).force_rotation
  BY DEF User, Used, Promoted

\* What stays as it is while something else happens.
LEMMA TypesKeptByUse ==
    ASSUME TypeOK, NEW c \in Calls, Uses(c)
    PROVE  TypeOK'
  <1> USE DEF TypeOK
  <1>1. PoolTypeOK'
    <2>1. CASE \E token \in {"issued", "other"} : Present(c, token)
      BY <2>1, PoolAssumption DEF Present, GetPool, PoolTypeOK
    <2>2. CASE UseWork(c) \/ UseTrouble(c)
      <3>1. UNCHANGED poolVars
        BY <2>2 DEF UseWork, UseTrouble, BeginUse, NoPool, Lookup, Mark,
                    CommitUse, UseFails, CommitUseUnacknowledged, Elsewhere
      <3>2. QED
        BY <3>1 DEF poolVars, PoolTypeOK
    <2>3. QED
      BY <2>1, <2>2 DEF Uses
  <1>2. CASE \E token \in {"issued", "other"} : Present(c, token)
    BY <1>1, <1>2 DEF Present, seedVars, Spent
  <1>3. CASE BeginUse(c) \/ NoPool(c) \/ Lookup(c) \/ Mark(c) \/ UseFails(c)
    BY <1>1, <1>3 DEF BeginUse, NoPool, Lookup, Mark, UseFails, Release, Ends,
                      Elsewhere, seedVars
  <1>4. CASE CommitUse(c) \/ CommitUseUnacknowledged(c)
    <2>1. /\ DOMAIN users' = DOMAIN users
          /\ \A a \in DOMAIN users' : users'[a] \in User
      BY <1>4, ColumnsWritten DEF CommitUse, CommitUseUnacknowledged, Write
    <2>2. usedLast' \in BOOLEAN
      BY <1>4, Zenon DEF CommitUse, CommitUseUnacknowledged, Write
    <2>3. QED
      BY <1>1, <1>4, <2>1, <2>2 DEF CommitUse, CommitUseUnacknowledged, Release,
                                    Ends, Elsewhere, seedVars
  <1>5. QED
    BY <1>2, <1>3, <1>4 DEF Uses, UseWork, UseTrouble

LEMMA TypesKeptBySeed ==
    ASSUME TypeOK, NEW s \in Seeds, SeedRun(s)
    PROVE  TypeOK'
  <1> USE DEF TypeOK
  <1>1. PoolTypeOK' /\ UNCHANGED <<policy, roles, named, useVars>>
    <2>1. UNCHANGED <<poolVars, policy, roles, named, useVars>>
      BY DEF SeedRun, SeedFinds, SeedUpdates, SeedInserts, SeedChecksRole,
             SeedAssigns, SeedInterrupted, SeedElsewhere
    <2>2. QED
      BY <2>1 DEF poolVars, PoolTypeOK
  <1> USE DEF useVars
  <1>2. CASE SeedFinds(s) \/ SeedChecksRole(s) \/ SeedInterrupted(s)
    <2>1. adminId' \in [Seeds -> Accounts \cup {Null}]
      BY <1>2 DEF SeedFinds, SeedChecksRole, SeedInterrupted
    <2>2. erred' \in [Seeds -> BOOLEAN]
      BY <1>2 DEF SeedFinds, SeedChecksRole, SeedInterrupted, Errs
    <2>3. \E next \in {"update", "insert", "assign", "done", "interrupted"} :
             SeedGoesOn(s, next)
      BY <1>2, Zenon DEF SeedFinds, SeedChecksRole, SeedInterrupted
    <2>4. UNCHANGED <<users, globalRoles, usedLast>>
      BY <1>2 DEF SeedFinds, SeedChecksRole, SeedInterrupted
    <2>5. QED
      BY <1>1, <2>1, <2>2, <2>3, <2>4 DEF SeedGoesOn
  <1>3. CASE SeedUpdates(s)
    <2>1. /\ DOMAIN users' = DOMAIN users
          /\ \A a \in DOMAIN users' : users'[a] \in User
      BY <1>3, ColumnsWritten DEF SeedUpdates, Seen
    <2>2. QED
      BY <1>1, <1>3, <2>1 DEF SeedUpdates, SeedGoesOn
  <1>4. CASE SeedInserts(s)
    <2>1. /\ DOMAIN users' \in {DOMAIN users, DOMAIN users \cup {named}}
          /\ \A a \in DOMAIN users' : users'[a] \in User
      <3>1. CASE UNCHANGED users
        BY <3>1
      <3>2. CASE users' = [a \in DOMAIN users \cup {named} |->
                              IF a = named
                              THEN [used |-> FALSE, force_rotation |-> FALSE,
                                    is_global_admin |-> TRUE]
                              ELSE users[a]]
        BY <3>2 DEF User
      <3>3. QED
        BY <1>4, <3>1, <3>2 DEF SeedInserts
    <2>2. QED
      BY <1>1, <1>4, <2>1 DEF SeedInserts, SeedGoesOn, Errs
  <1>5. CASE SeedAssigns(s)
    BY <1>1, <1>5 DEF SeedAssigns, SeedGoesOn, Errs
  <1>6. QED
    BY <1>2, <1>3, <1>4, <1>5 DEF SeedRun

\* The type invariant holds, for any number of uses and runs of the seed.
THEOREM TypeCorrect == Spec => []TypeOK
  <1>1. Init => TypeOK
    <2> SUFFICES ASSUME Init PROVE TypeOK
      OBVIOUS
    <2>1. PoolTypeOK
      BY PoolAssumption DEF Init, PoolInit, PoolTypeOK
    <2>2. DOMAIN users \subseteq Accounts /\ \A a \in DOMAIN users : users[a] \in User
      BY DEF Init, Accounts, User
    <2>3. QED
      BY <2>1, <2>2 DEF Init, TypeOK
  <1>2. TypeOK /\ Sharing /\ [Next]_vars /\ Sharing' => TypeOK'
    <2> SUFFICES ASSUME TypeOK, Sharing', [Next]_vars PROVE TypeOK'
      OBVIOUS
    <2>1. CASE Connect \/ ApplyPolicy \/ UNCHANGED vars
      BY <2>1 DEF Connect, ApplyPolicy, vars, useVars, seedVars, TypeOK, Sharing
    <2>2. QED
      BY <2>1, NextIsDone, TypesKeptByUse, TypesKeptBySeed
  <1>3. QED
    BY <1>1, <1>2, AlwaysSharing, PTL DEF Spec

-----------------------------------------------------------------------------
(* The token *)

\* What a call's step says of its transaction and of the row, and what is
\* left of a token that a committed use has spent.
Spending ==
    /\ "tenant_admin" \in DOMAIN users
    /\ \A c \in Calls :
           /\ pc[c] \in {"idle", "pool"} => txn[c] = "none"
           /\ pc[c] \in {"lookup", "mark", "commit"} => txn[c] = "open"
           /\ answer[c] = "accepted" => txn[c] = "committed"
           /\ locked = c => pc[c] = "commit"
           /\ pc[c] = "commit" => locked = c \/ policy
           /\ spentBefore[c] # {} =>
                  Spent # {} /\ pc[c] \notin {"mark", "commit"} /\ c \notin Spent
    /\ Spent # {} => policy \/ users["tenant_admin"].used
    /\ usedLast => policy \/ users["tenant_admin"].force_rotation

LEMMA SpendingKeptByUse ==
    ASSUME TypeOK, Spending, NEW c \in Calls, Uses(c)
    PROVE  Spending'
  <1> USE DEF Spending, TypeOK
  <1>1. ASSUME NEW token \in {"issued", "other"}, Present(c, token)
        PROVE  Spending'
    BY <1>1 DEF Present, Spent
  <1>2. CASE BeginUse(c) \/ NoPool(c)
    BY <1>2, BootstrapAssumption DEF BeginUse, NoPool, Ends, Elsewhere, Spent
  <1>3. CASE Lookup(c)
    <2>1. spentBefore[c] # {} => pc'[c] # "mark"
      BY <1>3, NothingSeen DEF Lookup, Ends, Accounts
    <2>2. QED
      BY <1>3, <2>1 DEF Lookup, Ends, Elsewhere, Spent
  <1>4. CASE Mark(c)
    <2>1. locked' = c \/ policy
      BY <1>4 DEF Mark, Seen
    <2>2. QED
      BY <1>4, <2>1, BootstrapAssumption DEF Mark, Elsewhere, Spent
  <1>5. CASE UseFails(c)
    <2>1. Spent' = Spent
      BY <1>5 DEF UseFails, Ends, Spent
    <2>2. QED
      BY <1>5, <2>1, BootstrapAssumption DEF UseFails, Release, Ends, Elsewhere
  <1>6. CASE CommitUse(c) \/ CommitUseUnacknowledged(c)
    <2>1. /\ "tenant_admin" \in DOMAIN users'
          /\ policy \/ users'["tenant_admin"].used
          /\ policy \/ users'["tenant_admin"].force_rotation
      <3>1. CASE locked = c
        BY <1>6, <3>1, ColumnsWritten DEF CommitUse, CommitUseUnacknowledged, Write
      <3>2. CASE policy
        BY <1>6, <3>2 DEF CommitUse, CommitUseUnacknowledged, Write
      <3>3. QED
        BY <1>6, <3>1, <3>2 DEF CommitUse, CommitUseUnacknowledged
    <2>2. spentBefore[c] = {}
      BY <1>6 DEF CommitUse, CommitUseUnacknowledged
    <2>3. Spent' = Spent \cup {c}
      BY <1>6 DEF CommitUse, CommitUseUnacknowledged, Ends, Spent
    <2>4. QED
      BY <1>6, <2>1, <2>2, <2>3, BootstrapAssumption
         DEF CommitUse, CommitUseUnacknowledged, Release, Ends, Elsewhere
  <1>7. QED
    BY <1>1, <1>2, <1>3, <1>4, <1>5, <1>6 DEF Uses, UseWork, UseTrouble

LEMMA SpendingKeptBySeed ==
    ASSUME TypeOK, Spending, NEW s \in Seeds, SeedRun(s)
    PROVE  Spending'
  <1> USE DEF Spending
  <1>1. UNCHANGED <<policy, pc, locked, txn, answer, spentBefore>>
    BY DEF SeedRun, SeedFinds, SeedUpdates, SeedInserts, SeedChecksRole,
           SeedAssigns, SeedInterrupted, SeedElsewhere, useVars
  <1>2. Spent' = Spent
    BY <1>1 DEF Spent
  <1>3. CASE UNCHANGED <<users, usedLast>>
    BY <1>1, <1>2, <1>3
  <1>4. CASE /\ "tenant_admin" \in DOMAIN users'
             /\ users'["tenant_admin"].used = users["tenant_admin"].used
             /\ usedLast' => /\ usedLast
                             /\ users'["tenant_admin"] = users["tenant_admin"]
    BY <1>1, <1>2, <1>4
  <1>5. ASSUME SeedUpdates(s), ~UNCHANGED <<users, usedLast>>
        PROVE  <1>4!1
    <2>1. /\ adminId[s] \in DOMAIN users
          /\ users' = [users EXCEPT ![adminId[s]] = Promoted(@)]
          /\ usedLast' = (usedLast /\ adminId[s] # "tenant_admin")
      BY <1>5, Zenon DEF SeedUpdates, Seen
    <2>2. CASE adminId[s] = "tenant_admin"
      <3>1. ~usedLast'
        BY <2>1, <2>2, Zenon
      <3>2. users["tenant_admin"] \in User
        BY DEF TypeOK
      <3>3. /\ "tenant_admin" \in DOMAIN users'
            /\ users'["tenant_admin"].used = users["tenant_admin"].used
        BY <2>1, <2>2, <3>2, ColumnsWritten
      <3>4. QED
        BY <3>1, <3>3, Zenon
    <2>3. CASE adminId[s] # "tenant_admin"
      BY <2>1, <2>3
    <2>4. QED
      BY <2>2, <2>3
  <1>6. ASSUME SeedInserts(s), ~UNCHANGED <<users, usedLast>>
        PROVE  <1>4!1
    BY <1>6 DEF SeedInserts
  <1>7. QED
    BY <1>3, <1>4, <1>5, <1>6 DEF SeedRun, SeedFinds, SeedChecksRole, SeedAssigns,
                                  SeedInterrupted

LEMMA AlwaysSpending == Spec => []Spending
  <1>1. Init => Spending
    BY BootstrapAssumption DEF Init, Spending, Spent
  <1>2. TypeOK /\ Spending /\ [Next]_vars => Spending'
    <2> SUFFICES ASSUME TypeOK, Spending, [Next]_vars PROVE Spending'
      OBVIOUS
    <2>1. CASE Connect \/ ApplyPolicy \/ UNCHANGED vars
      BY <2>1 DEF Connect, ApplyPolicy, vars, useVars, Spending, Spent
    <2>2. QED
      BY <2>1, NextIsDone, SpendingKeptByUse, SpendingKeptBySeed
  <1>3. QED
    BY <1>1, <1>2, TypeCorrect, PTL DEF Spec

\* A token that a committed use has spent, acknowledged or not, is never
\* accepted or spent for a caller who presents it afterwards.
THEOREM ReuseIsRefused == Spec => []ReuseRefused
  <1>1. Spending => ReuseRefused
    BY DEF Spending, ReuseRefused, Spent
  <1>2. QED
    BY <1>1, AlwaysSpending, PTL

\* A committed use keeps the account from signing in until the seed's UPDATE
\* writes it after that commit, however the two overlapped before.
THEOREM UseDemandsRotation == Spec => []UseForcesRotation
  <1>1. Spending => UseForcesRotation
    BY SigningIn DEF Spending, UseForcesRotation, Accounts
  <1>2. QED
    BY <1>1, AlwaysSpending, PTL

-----------------------------------------------------------------------------
(* When a token is used once, and when not at all *)

\* A call is made only while no other is on its way.
OneAtATime ==
    [][\A c, d \in Calls :
          pc[c] = "idle" /\ pc'[c] # "idle" => pc[d] \in {"idle", "done"}]_vars

\* c was over before d was made, and d knew of its use.
Precedes(c, d) == pc[c] = "done" /\ (c \in Spent => c \in spentBefore[d])

Ordered ==
    \A c, d \in Calls : c # d /\ pc[c] # "idle" /\ pc[d] # "idle" =>
        Precedes(c, d) \/ Precedes(d, c)

\* What the step of a call leaves of another, and of its own call once made.
LEMMA UsesAlone ==
    ASSUME TypeOK, NEW c \in Calls, Uses(c)
    PROVE  /\ pc[c] # "done" /\ pc'[c] # "idle"
           /\ \A d \in Calls \ {c} :
                  /\ pc'[d] = pc[d] /\ spentBefore'[d] = spentBefore[d]
                  /\ d \in Spent' <=> d \in Spent
           /\ pc[c] # "idle" => spentBefore'[c] = spentBefore[c]
           /\ pc[c] = "idle" => spentBefore'[c] = Spent
  BY DEF TypeOK, Uses, UseWork, UseTrouble, Present, BeginUse, NoPool, Lookup, Mark,
         CommitUse, UseFails, CommitUseUnacknowledged, Elsewhere, Ends, Spent

LEMMA OrderedKept ==
    ASSUME TypeOK, Ordered, NEW c \in Calls, Uses(c),
           \A d \in Calls : pc[c] = "idle" /\ pc'[c] # "idle" => pc[d] \in {"idle", "done"}
    PROVE  Ordered'
  <1>1. ASSUME NEW d \in Calls, d # c, pc'[d] # "idle" PROVE Precedes(d, c)'
    <2>1. /\ pc'[d] = pc[d] /\ (d \in Spent' <=> d \in Spent)
          /\ pc[c] # "done" /\ pc'[c] # "idle"
          /\ pc[c] # "idle" => spentBefore'[c] = spentBefore[c]
          /\ pc[c] = "idle" => spentBefore'[c] = Spent
      BY <1>1, UsesAlone
    <2>2. CASE pc[c] = "idle"
      BY <1>1, <2>1, <2>2 DEF Precedes
    <2>3. CASE pc[c] # "idle"
      BY <1>1, <2>1, <2>3 DEF Ordered, Precedes
    <2>4. QED
      BY <2>2, <2>3
  <1>2. ASSUME NEW d \in Calls, NEW e \in Calls, d # c, e # c
        PROVE  /\ Precedes(d, e)' <=> Precedes(d, e)
               /\ pc'[d] = pc[d] /\ pc'[e] = pc[e]
    BY <1>2, UsesAlone DEF Precedes
  <1>3. QED
    BY <1>1, <1>2 DEF Ordered

\* The exception token_reused shows is the only one: where no two uses
\* overlap, at most one is ever accepted, whatever fails, whichever
\* acknowledgement is lost and whenever the policy is applied.
THEOREM OneTimeUnlessOverlapping == Spec /\ OneAtATime => []OneTimeUse
  <1>1. Init => Ordered
    BY DEF Init, Ordered
  <1>2. /\ TypeOK /\ Ordered /\ [Next]_vars
        /\ [\A c, d \in Calls : pc[c] = "idle" /\ pc'[c] # "idle"
                                   => pc[d] \in {"idle", "done"}]_vars
        => Ordered'
    <2> SUFFICES ASSUME TypeOK, Ordered, [Next]_vars,
                        [\A c, d \in Calls : pc[c] = "idle" /\ pc'[c] # "idle"
                                                => pc[d] \in {"idle", "done"}]_vars
                 PROVE  Ordered'
      OBVIOUS
    <2>1. CASE UNCHANGED useVars
      BY <2>1 DEF useVars, Ordered, Precedes, Spent
    <2>2. ASSUME NEW c \in Calls, Uses(c) PROVE Ordered'
      <3>1. \A d \in Calls : pc[c] = "idle" /\ pc'[c] # "idle" => pc[d] \in {"idle", "done"}
        BY DEF vars, useVars
      <3>2. QED
        BY <2>2, <3>1, OrderedKept
    <2>3. ASSUME NEW s \in Seeds, SeedRun(s) PROVE UNCHANGED useVars
      BY <2>3 DEF SeedRun, SeedFinds, SeedUpdates, SeedInserts, SeedChecksRole,
             SeedAssigns, SeedInterrupted, SeedElsewhere
    <2>4. QED
      BY <2>1, <2>2, <2>3, NextIsDone DEF Connect, ApplyPolicy, vars
  <1>3. Spending /\ Ordered => OneTimeUse
    <2> SUFFICES ASSUME Spending, Ordered, NEW c \in Calls, NEW d \in Calls,
                        answer[c] = "accepted", answer[d] = "accepted", c # d
                 PROVE  FALSE
      BY DEF OneTimeUse
    <2>1. c \in Spent /\ d \in Spent
      BY DEF Spending, Spent
    <2>2. pc[c] # "idle" /\ pc[d] # "idle"
      BY <2>1 DEF Spending, Spent
    <2>3. spentBefore[c] = {} /\ spentBefore[d] = {}
      BY <2>1 DEF Spending
    <2>4. QED
      BY <2>1, <2>2, <2>3 DEF Ordered, Precedes
  <1>4. QED
    BY <1>1, <1>2, <1>3, TypeCorrect, AlwaysSpending, PTL DEF Spec, OneAtATime

\* A first use presented once the policy is applied is never accepted: the
\* transaction sets no context, so its lookup finds no account.
THEOREM NoFirstUseUnderPolicy ==
    ASSUME NEW c \in Calls
    PROVE  Spec => [](policy /\ pc[c] = "idle" => [](answer[c] # "accepted"))
  <1> DEFINE Late == policy /\ pc[c] \notin {"mark", "commit"} /\ answer[c] # "accepted"
  <1>1. Spending => (policy /\ pc[c] = "idle" => Late)
    BY DEF Spending
  <1>2. TypeOK /\ Late /\ [Next]_vars => Late'
    <2> SUFFICES ASSUME TypeOK, Late, [Next]_vars PROVE Late'
      OBVIOUS
    <2>1. CASE UNCHANGED <<policy, useVars>>
      BY <2>1 DEF useVars
    <2>2. ASSUME NEW d \in Calls, Uses(d) PROVE Late'
      <3>1. policy' = policy
        BY <2>2 DEF Uses, UseWork, UseTrouble, Present, BeginUse, NoPool, Lookup, Mark,
               CommitUse, UseFails, CommitUseUnacknowledged, Elsewhere
      <3>2. CASE d = c
        <4>1. ~Seen("users", "tenant_admin")
          BY NothingSeen DEF Accounts
        <4>2. QED
          BY <2>2, <3>1, <3>2, <4>1 DEF TypeOK, Uses, UseWork, UseTrouble, Present,
             BeginUse, NoPool, Lookup, Mark, CommitUse, UseFails,
             CommitUseUnacknowledged, Ends
      <3>3. CASE d # c
        BY <2>2, <3>1, <3>3 DEF TypeOK, Uses, UseWork, UseTrouble, Present,
           BeginUse, NoPool, Lookup, Mark, CommitUse, UseFails,
           CommitUseUnacknowledged, Ends
      <3>4. QED
        BY <3>2, <3>3
    <2>3. ASSUME NEW s \in Seeds, SeedRun(s) PROVE UNCHANGED <<policy, useVars>>
      BY <2>3 DEF SeedRun, SeedFinds, SeedUpdates, SeedInserts, SeedChecksRole,
             SeedAssigns, SeedInterrupted, SeedElsewhere
    <2>4. CASE ApplyPolicy
      BY <2>4 DEF ApplyPolicy, useVars
    <2>5. QED
      BY <2>1, <2>2, <2>3, <2>4, NextIsDone DEF Connect, vars
  <1>3. Late => answer[c] # "accepted"
    OBVIOUS
  <1>4. Spec => [](policy /\ pc[c] = "idle" => [](answer[c] # "accepted"))
    BY <1>1, <1>2, <1>3, TypeCorrect, AlwaysSpending, PTL DEF Spec
  <1>5. QED
    BY <1>4

-----------------------------------------------------------------------------
(* The seed *)

\* What a run of the seed has at each of its steps.
Seeding ==
    /\ "tenant_admin" \in DOMAIN users
    /\ "super_admin" \in DOMAIN users =>
           /\ named = "super_admin"
           /\ users["super_admin"].is_global_admin
           /\ ~users["super_admin"].force_rotation
    /\ \A s \in Seeds :
           /\ step[s] = "update" => adminId[s] = named /\ named \in DOMAIN users
           /\ step[s] \in {"role", "assign"} /\ ~erred[s] =>
                  adminId[s] = named /\ named \in DOMAIN users
           /\ step[s] = "done" /\ ~erred[s] => named \in globalRoles

\* A use of the token writes the tenant administrator's account alone.
LEMMA SeedingKeptByUse ==
    ASSUME TypeOK, Seeding, NEW c \in Calls, Uses(c)
    PROVE  Seeding'
  <1>1. UNCHANGED <<named, globalRoles, step, adminId, erred>>
    BY DEF Uses, Present, UseWork, UseTrouble, BeginUse, NoPool, Lookup, Mark,
           CommitUse, UseFails, CommitUseUnacknowledged, Elsewhere, seedVars
  <1>2. \/ UNCHANGED users
        \/ users' = [users EXCEPT !["tenant_admin"] = Used(@)]
    BY DEF Uses, Present, UseWork, UseTrouble, BeginUse, NoPool, Lookup, Mark,
           CommitUse, UseFails, CommitUseUnacknowledged, Write
  <1>3. /\ DOMAIN users' = DOMAIN users
        /\ "super_admin" \in DOMAIN users => users'["super_admin"] = users["super_admin"]
    BY <1>2
  <1>4. QED
    BY <1>1, <1>3 DEF Seeding

LEMMA SeedingKeptBySeed ==
    ASSUME TypeOK, Seeding, NEW s \in Seeds, SeedRun(s)
    PROVE  Seeding'
  <1> USE DEF Seeding, TypeOK, SeedGoesOn, Errs
  <1>1. UNCHANGED named
    BY DEF SeedRun, SeedFinds, SeedUpdates, SeedInserts, SeedChecksRole,
           SeedAssigns, SeedInterrupted, SeedElsewhere
  <1>2. CASE SeedFinds(s)
    <2>1. Seen("users", named) => named \in DOMAIN users
      BY DEF Seen
    <2>2. CASE ~roles
      BY <1>1, <1>2, <2>2 DEF SeedFinds
    <2>3. CASE roles /\ Seen("users", named)
      BY <1>1, <1>2, <2>1, <2>3 DEF SeedFinds
    <2>4. CASE roles /\ ~Seen("users", named)
      BY <1>1, <1>2, <2>4 DEF SeedFinds
    <2>5. QED
      BY <2>2, <2>3, <2>4
  <1>3. CASE SeedUpdates(s)
    <2>1. CASE UNCHANGED users
      BY <1>1, <1>3, <2>1 DEF SeedUpdates
    <2>2. CASE users' = [users EXCEPT ![named] = Promoted(@)]
      <3>1. named \in DOMAIN users
        BY <1>3 DEF SeedUpdates
      <3>2. DOMAIN users' = DOMAIN users
        BY <2>2
      <3>3. "super_admin" \in DOMAIN users =>
                /\ users'["super_admin"].is_global_admin
                /\ ~users'["super_admin"].force_rotation
        BY <2>2, ColumnsWritten
      <3>4. QED
        BY <1>1, <1>3, <3>1, <3>2, <3>3 DEF SeedUpdates
    <2>3. QED
      BY <1>3, <2>1, <2>2 DEF SeedUpdates
  <1>4. CASE SeedInserts(s)
    <2>1. CASE UNCHANGED users /\ Errs(s)
      BY <1>1, <1>4, <2>1 DEF SeedInserts
    <2>2. CASE ~(UNCHANGED users /\ Errs(s))
      <3>1. /\ named \notin DOMAIN users
            /\ users' = [a \in DOMAIN users \cup {named} |->
                   IF a = named
                   THEN [used |-> FALSE, force_rotation |-> FALSE,
                         is_global_admin |-> TRUE]
                   ELSE users[a]]
            /\ adminId' = [adminId EXCEPT ![s] = named]
            /\ UNCHANGED erred
        BY <1>4, <2>2 DEF SeedInserts
      <3>2. named = "super_admin"
        BY <3>1 DEF Accounts
      <3>3. QED
        BY <1>1, <1>4, <3>1, <3>2 DEF SeedInserts
    <2>3. QED
      BY <2>1, <2>2
  <1>5. CASE SeedChecksRole(s)
    <2>1. CASE SeenRole(adminId[s])
      BY <1>1, <1>5, <2>1 DEF SeedChecksRole, SeenRole
    <2>2. CASE ~SeenRole(adminId[s])
      BY <1>1, <1>5, <2>2 DEF SeedChecksRole
    <2>3. QED
      BY <2>1, <2>2
  <1>6. CASE SeedAssigns(s)
    <2>1. CASE UNCHANGED globalRoles /\ Errs(s)
      BY <1>1, <1>6, <2>1 DEF SeedAssigns
    <2>2. CASE globalRoles' = globalRoles \cup {adminId[s]} /\ UNCHANGED erred
      BY <1>1, <1>6, <2>2 DEF SeedAssigns
    <2>3. QED
      BY <1>6, <2>1, <2>2 DEF SeedAssigns
  <1>7. CASE SeedInterrupted(s)
    BY <1>1, <1>7 DEF SeedInterrupted
  <1>8. QED
    BY <1>2, <1>3, <1>4, <1>5, <1>6, <1>7 DEF SeedRun

LEMMA AlwaysSeeding == Spec => []Seeding
  <1>1. Init => Seeding
    BY DEF Init, Seeding
  <1>2. TypeOK /\ Seeding /\ [Next]_vars => Seeding'
    <2> SUFFICES ASSUME TypeOK, Seeding, [Next]_vars PROVE Seeding'
      OBVIOUS
    <2>1. CASE Connect \/ ApplyPolicy \/ UNCHANGED vars
      BY <2>1 DEF Connect, ApplyPolicy, vars, seedVars, Seeding
    <2>2. QED
      BY <2>1, NextIsDone, SeedingKeptByUse, SeedingKeptBySeed
  <1>3. QED
    BY <1>1, <1>2, TypeCorrect, PTL DEF Spec

\* A run of the seed that ends without an error leaves a super admin who can
\* sign in, whatever other runs, interruptions and the policy do.
THEOREM CleanSeedIsEnough == Spec => []CleanSeedSuffices
  <1>1. TypeOK /\ Seeding => CleanSeedSuffices
    BY SigningIn DEF Seeding, TypeOK, CleanSeedSuffices, Accounts
  <1>2. QED
    BY <1>1, TypeCorrect, AlwaysSeeding, PTL

\* Under the policy the seed changes no account and no role.
LEMMA SeedIsClosed ==
    ASSUME TypeOK, policy, NEW s \in Seeds, SeedRun(s)
    PROVE  UNCHANGED <<policy, users, globalRoles>>
  <1>1. ~Seen("users", adminId[s])
    BY NothingSeen DEF TypeOK, Seen
  <1>2. ~MayWrite("users", Null, Cleared) /\ ~MayWrite("user_roles", Null, Cleared)
    BY PolicyWithoutContext
  <1>3. QED
    BY <1>1, <1>2 DEF SeedRun, SeedFinds, SeedUpdates, SeedInserts,
           SeedChecksRole, SeedAssigns, SeedInterrupted, SeedElsewhere

\* Once the policy is applied nobody becomes a global admin any more, not even
\* by a run of the seed that was at work.
THEOREM PolicyIsLast == Spec => PolicyClosesSeed
  <1>1. TypeOK /\ [Next]_vars =>
            [policy => \A a \in Accounts : CanSignIn(a)' => CanSignIn(a)]_vars
    <2> SUFFICES ASSUME TypeOK, [Next]_vars, policy,
                        NEW a \in Accounts, CanSignIn(a)'
                 PROVE  CanSignIn(a)
      OBVIOUS
    <2>1. ASSUME UNCHANGED <<policy, users, globalRoles>> PROVE CanSignIn(a)
      BY <2>1 DEF CanSignIn
    <2>2. ASSUME NEW c \in Calls, Uses(c) PROVE CanSignIn(a)
      <3>1. UNCHANGED <<policy, globalRoles>>
        BY <2>2 DEF Uses, Present, UseWork, UseTrouble, BeginUse, NoPool, Lookup,
                    Mark, CommitUse, UseFails, CommitUseUnacknowledged, Elsewhere
      <3>2. \/ UNCHANGED users
            \/ users' = [users EXCEPT !["tenant_admin"] = Used(@)]
        BY <2>2 DEF Uses, Present, UseWork, UseTrouble, BeginUse, NoPool, Lookup,
                    Mark, CommitUse, UseFails, CommitUseUnacknowledged, Write
      <3>3. a # "tenant_admin"
        BY <3>1, PolicyWithoutContext DEF CanSignIn, Login, CompanyOf
      <3>4. a \in DOMAIN users' <=> a \in DOMAIN users
        BY <3>2
      <3>5. a \in DOMAIN users => users'[a] = users[a]
        BY <3>2, <3>3
      <3>6. QED
        BY <3>1, <3>4, <3>5 DEF CanSignIn
    <2>3. ASSUME NEW s \in Seeds, SeedRun(s) PROVE CanSignIn(a)
      BY <2>1, <2>3, SeedIsClosed
    <2>4. QED
      BY <2>1, <2>2, <2>3, NextIsDone DEF Connect, ApplyPolicy, vars
  <1>2. QED
    BY <1>1, TypeCorrect, PTL DEF Spec, PolicyClosesSeed

=============================================================================
