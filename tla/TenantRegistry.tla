--------------------------- MODULE TenantRegistry ---------------------------
(***************************************************************************)
(* What company provisioning promises (openspec/specs/                     *)
(* identity-provisioning): a company and its administrator come into       *)
(* existence together, in one step, under a name and an email nobody else  *)
(* has, and a caller is told "created" only for a company that exists.     *)
(***************************************************************************)
CONSTANTS
    Calls,     \* calls of POST /api/admin/companies
    Names,     \* company names
    Emails,    \* administrator emails
    Reserved   \* emails taken before any company exists

VARIABLES
    registry,  \* the tenants: which call made them, name and administrator
    answer     \* what each caller was told

Tenant == [by : Calls, name : Names, email : Emails]

TypeOK ==
    /\ registry \subseteq Tenant
    /\ answer \in [Calls -> {"none", "created", "refused"}]

Init ==
    /\ registry = {}
    /\ answer = [c \in Calls |-> "none"]

Free(name, email) ==
    /\ email \notin Reserved
    /\ \A t \in registry : t.name # name /\ t.email # email

\* The tenant appears.  The caller learns it, unless the answer is lost.
Create(c, name, email) ==
    /\ answer[c] = "none"
    /\ \A t \in registry : t.by # c
    /\ Free(name, email)
    /\ registry' = registry \cup {[by |-> c, name |-> name, email |-> email]}
    /\ answer' \in {answer, [answer EXCEPT ![c] = "created"]}

\* A refusal, or an error: the caller may not conclude that there is no tenant.
Refuse(c) ==
    /\ answer[c] = "none"
    /\ answer' = [answer EXCEPT ![c] = "refused"]
    /\ UNCHANGED registry

Next ==
    \E c \in Calls :
        \/ \E name \in Names, email \in Emails : Create(c, name, email)
        \/ Refuse(c)

Spec == Init /\ [][Next]_<<registry, answer>>

=============================================================================
