------------------------------- MODULE SignIn -------------------------------
(***************************************************************************)
(* Signing in: the console (apps/web/src/app/auth, the form of the admin   *)
(* shell), the cookie of the browser it runs in, and the API processes     *)
(* that issue and verify sessions (apps/api/src/auth, the tenant context   *)
(* middleware, the readiness probe).                                       *)
(*                                                                         *)
(* The tabs of one browser share the cookie; what AuthStore knows belongs  *)
(* to a page and is gone when it is reloaded.  A process has one signing   *)
(* and one verification key, since its environment does not change while   *)
(* it runs and both services cache what they loaded; a restart may bring   *)
(* other keys.  The middleware reads the cookie of every request, logins   *)
(* included (forRoutes("*")).  There is one user, the seeded super admin.  *)
(***************************************************************************)
EXTENDS Naturals, FiniteSets

CONSTANTS
    Tabs,         \* tabs of the browser
    Calls,        \* HTTP requests of the console, numbered as they are sent
    KeyPairs,     \* RS256 key pairs
    Environments, \* the keys a process may be started with
    Drafts,       \* valid contents of the provisioning form
    Null,         \* no key, no cookie, an invalid form, a call not yet sent
    MaxRestarts,  \* bound: restarts of the API
    MaxVisits     \* bound: views after which a tab opens another only by a login

\* AUTH_SESSION_PRIVATE_KEY and AUTH_SESSION_PUBLIC_KEY, set or not.
Config == [signing : KeyPairs \cup {Null}, verification : KeyPairs \cup {Null}]

ASSUME SignInAssumption ==
    /\ Environments \subseteq Config
    /\ Calls \subseteq Nat
    /\ Null \notin KeyPairs \cup Drafts
    /\ MaxRestarts \in Nat /\ MaxVisits \in Nat

VARIABLES
    config,       \* the keys of the API process
    epoch,        \* how often it has been restarted
    ready,        \* history: this process has passed the readiness probe
    cookie,       \* the session cookie of the browser
    visit,        \* the view a tab shows: its number, counted from 0,
    page,         \* that of the first view of the page it belongs to,
    route,        \* and its route
    authority,    \* AuthStore: the page knows itself signed in
    loading,      \* LoginComponent.isLoading of the view
    view,         \* AdminShellComponent.viewState of the view
    draft,        \* the content of its form
    call,         \* the requests sent
    provisioned   \* those for which the API created a company

process == <<config, epoch, ready>>
tab == <<visit, page, route, authority, loading, view, draft>>
vars == <<process, cookie, tab, call, provisioned>>

Session == [key : KeyPairs, epoch : 0..MaxRestarts]

\* A call carries the cookie the browser had when it was sent and, once a
\* login is accepted, the session of the Set-Cookie header.
Call ==
    [kind : {"login", "provision"}, tab : Tabs, visit : Nat,
     good : BOOLEAN, body : Drafts \cup {Null}, token : Session \cup {Null},
     phase : {"sent", "admitted", "accepted", "refused", "over"},
     granted : Session \cup {Null}, troubled : BOOLEAN]

ASSUME UnsentAssumption == Null \notin Session /\ Null \notin Call

Sent(i) == call[i] # Null
At(i, phase) == Sent(i) /\ call[i].phase = phase

Goes(i, phase) == call' = [call EXCEPT ![i].phase = phase]

\* A call that is over: what it asked for and under which session matters no
\* more.
Ended(c) ==
    [c EXCEPT !.phase = "over", !.good = FALSE, !.token = Null, !.troubled = FALSE]

Ends(i) == call' = [call EXCEPT ![i] = Ended(@)]

-----------------------------------------------------------------------------
Init ==
    /\ config \in Environments
    /\ epoch = 0
    /\ ready = FALSE
    /\ cookie = Null
    /\ visit = [t \in Tabs |-> 0]
    /\ page = [t \in Tabs |-> 0]
    /\ route = [t \in Tabs |-> "login"]
    /\ authority = [t \in Tabs |-> FALSE]
    /\ loading = [t \in Tabs |-> FALSE]
    /\ view = [t \in Tabs |-> "idle"]
    /\ draft = [t \in Tabs |-> Null]
    /\ call = [i \in Calls |-> Null]
    /\ provisioned = {}

-----------------------------------------------------------------------------
(* The console *)

\* A view is replaced by a fresh one, with an empty form.
Shows(t, where) ==
    /\ visit' = [visit EXCEPT ![t] = @ + 1]
    /\ route' = [route EXCEPT ![t] = where]
    /\ loading' = [loading EXCEPT ![t] = FALSE]
    /\ view' = [view EXCEPT ![t] = "idle"]
    /\ draft' = [draft EXCEPT ![t] = Null]

Send(i, t, kind, good, body) ==
    /\ ~Sent(i) /\ \A j \in Calls : j < i => Sent(j)
    /\ call' = [call EXCEPT ![i] =
           [kind |-> kind, tab |-> t, visit |-> visit[t], good |-> good,
            body |-> body, token |-> cookie, phase |-> "sent",
            granted |-> Null, troubled |-> FALSE]]

\* LoginComponent.submit, not while a login is on its way.
SubmitLogin(i, t, good) ==
    /\ route[t] = "login"
    /\ ~loading[t]
    /\ Send(i, t, "login", good, Null)
    /\ loading' = [loading EXCEPT ![t] = TRUE]
    /\ UNCHANGED <<process, cookie, visit, page, route, authority, view, draft,
                   provisioned>>

\* A bug: a view that shows a result goes on showing it.
EditKeepsView(t, content) ==
    /\ route[t] = "shell"
    /\ view[t] # "submitting"
    /\ draft' = [draft EXCEPT ![t] = content]
    /\ UNCHANGED <<process, cookie, visit, page, route, authority, loading, view,
                   call, provisioned>>

\* updateCompanyName and updateAdminEmail; the inputs are disabled while a
\* submission is on its way.
Edit(t, content) ==
    /\ route[t] = "shell"
    /\ view[t] # "submitting"
    /\ draft' = [draft EXCEPT ![t] = content]
    /\ view' = [view EXCEPT ![t] = "idle"]
    /\ UNCHANGED <<process, cookie, visit, page, route, authority, loading, call,
                   provisioned>>

\* A bug: nothing keeps a second submission from being sent.
ProvisionTenantTwice(i, t) ==
    /\ route[t] = "shell"
    /\ draft[t] # Null
    /\ Send(i, t, "provision", TRUE, draft[t])
    /\ view' = [view EXCEPT ![t] = "submitting"]
    /\ UNCHANGED <<process, cookie, visit, page, route, authority, loading, draft,
                   provisioned>>

\* AdminShellComponent.provisionTenant with a valid form.
ProvisionTenant(i, t) ==
    /\ route[t] = "shell"
    /\ view[t] # "submitting"
    /\ draft[t] # Null
    /\ Send(i, t, "provision", TRUE, draft[t])
    /\ view' = [view EXCEPT ![t] = "submitting"]
    /\ UNCHANGED <<process, cookie, visit, page, route, authority, loading, draft,
                   provisioned>>

\* provisionTenant with an invalid one: nothing is sent.
RejectForm(t) ==
    /\ route[t] = "shell"
    /\ view[t] # "submitting"
    /\ draft[t] = Null
    /\ view' = [view EXCEPT ![t] = "error"]
    /\ UNCHANGED <<process, cookie, visit, page, route, authority, loading, draft,
                   call, provisioned>>

\* The user goes to another route of the page; tenantAdminGuard admits to the
\* shell who can provision tenants.
Navigate(t, where) ==
    /\ visit[t] < MaxVisits
    /\ route[t] # where
    /\ where = "shell" => authority[t]
    /\ Shows(t, where)
    /\ UNCHANGED <<process, cookie, page, authority, call, provisioned>>

\* A bug: the reloaded page opens the route it had without asking the guard.
ReloadInPlace(t) ==
    /\ visit[t] < MaxVisits
    /\ Shows(t, route[t])
    /\ page' = [page EXCEPT ![t] = visit[t] + 1]
    /\ authority' = [authority EXCEPT ![t] = FALSE]
    /\ UNCHANGED <<process, cookie, call, provisioned>>

\* A reload: AuthStore starts empty, so the guard shows the login form.
Reload(t) ==
    /\ visit[t] < MaxVisits
    /\ Shows(t, "login")
    /\ page' = [page EXCEPT ![t] = visit[t] + 1]
    /\ authority' = [authority EXCEPT ![t] = FALSE]
    /\ UNCHANGED <<process, cookie, call, provisioned>>

\* The browser is closed and opened again: the cookie has no lifetime of its
\* own and goes with it.
CloseBrowser ==
    /\ \A t \in Tabs : visit[t] < MaxVisits
    /\ cookie' = Null
    /\ visit' = [t \in Tabs |-> visit[t] + 1]
    /\ page' = visit'
    /\ route' = [t \in Tabs |-> "login"]
    /\ authority' = [t \in Tabs |-> FALSE]
    /\ loading' = [t \in Tabs |-> FALSE]
    /\ view' = [t \in Tabs |-> "idle"]
    /\ draft' = [t \in Tabs |-> Null]
    /\ call' = [i \in Calls |->
           IF Sent(i) THEN Ended(call[i]) ELSE Null]
    /\ UNCHANGED <<process, provisioned>>

-----------------------------------------------------------------------------
(* Answers.  A subscription lives as long as its page, whatever view is     *)
(* shown; what it sets in a view that is gone nobody sees.                  *)

Current(i) == call[i].visit >= page[call[i].tab]
SameView(i) == call[i].visit = visit[call[i].tab]

\* The authority is stored and the page goes to the shell.
LoginAccepted(i) ==
    LET t == call[i].tab IN
    /\ At(i, "accepted") /\ call[i].kind = "login" /\ Current(i)
    /\ Ends(i)
    /\ cookie' = call[i].granted
    /\ authority' = [authority EXCEPT ![t] = TRUE]
    /\ IF route[t] = "shell"
       THEN UNCHANGED <<visit, route, loading, view, draft>>
       ELSE Shows(t, "shell")
    /\ UNCHANGED <<process, page, provisioned>>

\* A bug: only a login that succeeds resets isLoading.
LoginRefusedKeepsLoading(i) ==
    /\ At(i, "refused") /\ call[i].kind = "login" /\ Current(i)
    /\ Ends(i)
    /\ UNCHANGED <<process, cookie, tab, provisioned>>

LoginRefused(i) ==
    /\ At(i, "refused") /\ call[i].kind = "login" /\ Current(i)
    /\ Ends(i)
    /\ loading' = [loading EXCEPT ![call[i].tab] = @ /\ ~SameView(i)]
    /\ UNCHANGED <<process, cookie, visit, page, route, authority, view, draft,
                   provisioned>>

ProvisionAnswered(i) ==
    LET t == call[i].tab IN
    /\ At(i, "accepted") \/ At(i, "refused")
    /\ call[i].kind = "provision" /\ Current(i)
    /\ Ends(i)
    /\ view' = [view EXCEPT ![t] =
           IF ~SameView(i) THEN @
           ELSE IF call[i].phase = "accepted" THEN "success" ELSE "error"]
    /\ UNCHANGED <<process, cookie, visit, page, route, authority, loading, draft,
                   provisioned>>

\* The page is gone.  The browser may have stored the cookie all the same.
AnswerDropped(i) ==
    /\ At(i, "accepted") \/ At(i, "refused")
    /\ ~Current(i)
    /\ Ends(i)
    /\ cookie' \in {cookie} \cup ({call[i].granted} \ {Null})
    /\ UNCHANGED <<process, tab, provisioned>>

-----------------------------------------------------------------------------
(* The API *)

Verifies(session) == session.key = config.verification

\* The middleware: a request without a cookie goes on without a context, one
\* with a cookie goes on if its session verifies and is answered with an error
\* if not, whatever its route.
Admit(i) ==
    /\ At(i, "sent")
    /\ Goes(i, IF call[i].token = Null \/ Verifies(call[i].token)
               THEN "admitted" ELSE "refused")
    /\ UNCHANGED <<process, cookie, tab, provisioned>>

\* A bug: a missing signing key is not noticed.
LoginUnsigned(i) ==
    /\ At(i, "admitted") /\ call[i].kind = "login"
    /\ IF ~call[i].good
       THEN Goes(i, "refused")
       ELSE call' = [call EXCEPT ![i].phase = "accepted",
                         ![i].granted = [key |-> config.signing, epoch |-> epoch]]
    /\ UNCHANGED <<process, cookie, tab, provisioned>>

\* AuthController.login: the credentials are verified, then a session is
\* issued, which fails without a signing key.  Nothing the two awaits read
\* changes while the process lives, so they are one step.
Login(i) ==
    /\ At(i, "admitted") /\ call[i].kind = "login"
    /\ IF ~call[i].good \/ config.signing = Null
       THEN Goes(i, "refused")
       ELSE call' = [call EXCEPT ![i].phase = "accepted",
                         ![i].granted = [key |-> config.signing, epoch |-> epoch]]
    /\ UNCHANGED <<process, cookie, tab, provisioned>>

\* createCompany: 401 without a context; every session is a super admin's; a
\* name or email that is taken is refused.
CreateCompany(i) ==
    /\ At(i, "admitted") /\ call[i].kind = "provision"
    /\ \/ /\ call[i].token # Null
          /\ Goes(i, "accepted")
          /\ provisioned' = provisioned \cup {i}
       \/ /\ Goes(i, "refused")
          /\ UNCHANGED provisioned
    /\ UNCHANGED <<process, cookie, tab>>

\* The database fails, the network loses the request or the answer, or the
\* process that works on it is stopped: the console sees an error.
Lose(i) ==
    /\ Sent(i) /\ call[i].phase \in {"sent", "admitted", "accepted"}
    /\ call' = [call EXCEPT ![i].phase = "refused", ![i].granted = Null,
                            ![i].troubled = TRUE]
    /\ UNCHANGED <<process, cookie, tab, provisioned>>

\* A bug: the probe asks only whether there are keys.
ReadyUnpaired ==
    /\ ~ready
    /\ config.signing # Null /\ config.verification # Null
    /\ ready' = TRUE
    /\ UNCHANGED <<config, epoch, cookie, tab, call, provisioned>>

\* GET /health/ready answers 200: both keys load and a token signed with one
\* verifies with the other.  It has no cookie, and a 503 changes nothing.
Ready ==
    /\ ~ready
    /\ config.signing # Null /\ config.verification # Null
    /\ config.signing = config.verification
    /\ ready' = TRUE
    /\ UNCHANGED <<config, epoch, cookie, tab, call, provisioned>>

\* The operator restarts the API, with the same keys or others.  What the old
\* process was working on fails; what has not arrived may reach the new one.
Restart ==
    /\ epoch < MaxRestarts
    /\ epoch' = epoch + 1
    /\ config' \in Environments
    /\ ready' = FALSE
    /\ call' = [i \in Calls |->
           IF Sent(i) /\ call[i].phase = "admitted"
           THEN [call[i] EXCEPT !.phase = "refused", !.troubled = TRUE]
           ELSE call[i]]
    /\ UNCHANGED <<cookie, tab, provisioned>>

-----------------------------------------------------------------------------
User ==
    \/ \E i \in Calls, t \in Tabs :
           \/ \E good \in BOOLEAN : SubmitLogin(i, t, good)
           \/ ProvisionTenant(i, t)
    \/ \E t \in Tabs :
           \/ \E content \in Drafts \cup {Null} : Edit(t, content)
           \/ RejectForm(t)
           \/ \E where \in {"login", "shell"} : Navigate(t, where)
           \/ Reload(t)
    \/ CloseBrowser

Works(i) ==
    \/ Admit(i)
    \/ Login(i)
    \/ CreateCompany(i)

Answers(i) ==
    \/ LoginAccepted(i)
    \/ LoginRefused(i)
    \/ ProvisionAnswered(i)
    \/ AnswerDropped(i)

Next ==
    \/ User
    \/ \E i \in Calls : Works(i) \/ Answers(i) \/ Lose(i)
    \/ Ready
    \/ Restart

Spec == Init /\ [][Next]_vars

\* A request is worked on or lost, and its answer or an error reaches the
\* browser; nothing is said of the user, the operator or the probe.
FairSpec == Spec /\ \A i \in Calls : WF_vars(Works(i) \/ Answers(i) \/ Lose(i))

-----------------------------------------------------------------------------
(* Properties *)

TypeOK ==
    /\ config \in Environments /\ epoch \in 0..MaxRestarts /\ ready \in BOOLEAN
    /\ cookie \in Session \cup {Null}
    /\ visit \in [Tabs -> Nat]
    /\ page \in [Tabs -> Nat]
    /\ route \in [Tabs -> {"login", "shell"}]
    /\ authority \in [Tabs -> BOOLEAN]
    /\ loading \in [Tabs -> BOOLEAN]
    /\ view \in [Tabs -> {"idle", "submitting", "success", "error"}]
    /\ draft \in [Tabs -> Drafts \cup {Null}]
    /\ call \in [Calls -> Call \cup {Null}]
    /\ provisioned \subseteq Calls

\* A process that passed its readiness probe accepts the session the browser
\* stores as its cookie, if it issued it, before or after the probe:
\* assertCompatibleWith tells a pair of keys from two keys.
ReadyProcessHonoursItsSessions ==
    ready /\ cookie # Null /\ cookie.epoch = epoch => Verifies(cookie)

\* frontend-tenant-shell/spec.md:11: whoever sees the shell has signed in on
\* this very page, and the browser holds a session, whatever was reloaded,
\* closed or answered late.
ShellIsBacked ==
    \A t \in Tabs :
        route[t] = "shell" =>
            /\ authority[t]
            /\ cookie # Null
            /\ \E i \in Calls :
                   /\ At(i, "over") /\ call[i].granted # Null
                   /\ call[i].tab = t /\ Current(i)

\* The provisioning form is pending exactly as long as its one submission is
\* on its way: there is never a second one of the same form.
PendingIsOneCall ==
    \A t \in Tabs :
        Cardinality({i \in Calls :
            /\ Sent(i) /\ call[i].kind = "provision" /\ call[i].phase # "over"
            /\ call[i].tab = t /\ SameView(i)})
        = IF view[t] = "submitting" THEN 1 ELSE 0

\* A success the form shows is that of the company it names: the API created
\* it, for a submission of this form with the content it still has.
SuccessIsTrue ==
    \A t \in Tabs :
        view[t] = "success" =>
            \E i \in provisioned :
                call[i].tab = t /\ SameView(i) /\ call[i].body = draft[t]

\* No form stays pending: frontend-tenant-shell/spec.md wants a failure to keep
\* the user in control, and a login to be tried again.
FormsRecover ==
    \A t \in Tabs :
        /\ loading[t] ~> ~loading[t]
        /\ view[t] = "submitting" ~> view[t] # "submitting"

\* identity-provisioning/spec.md: valid credentials are authenticated, by a
\* process that is ready and as long as nothing is lost.
CredentialsSuffice ==
    [][\A i \in Calls :
          ready /\ Sent(i) /\ call[i].kind = "login" /\ call[i].good =>
              (call[i].phase # "refused" /\ call'[i].phase = "refused"
                  => call'[i].troubled)]_vars

=============================================================================
