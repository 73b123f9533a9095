---------------------------- MODULE SignInProofs ----------------------------
(***************************************************************************)
(* Proofs about SignIn, for any number of tabs, requests, keys, restarts   *)
(* and drafts, and for every loss, reload and late answer.                 *)
(*                                                                         *)
(* Five invariants, inductive next to the types: where sessions and their  *)
(* keys come from (Signed), what a page needs to show the shell (Backed),  *)
(* which submission a form waits for (Pending), that what is accepted was  *)
(* made and is still what the form says (Truthful), and that a cookie is   *)
(* of this process or an earlier one (Carried), from which follows which   *)
(* logins are refused.                                                     *)
(***************************************************************************)
EXTENDS SignIn, FiniteSetTheorems, TLAPS

-----------------------------------------------------------------------------
(* Types *)

\* The phases of a call.
Phases == {"sent", "admitted", "accepted", "refused", "over"}

LEMMA EndedTyped ==
    ASSUME NEW c \in Call
    PROVE  /\ Ended(c) \in Call
           /\ Ended(c).kind = c.kind /\ Ended(c).tab = c.tab /\ Ended(c).visit = c.visit
           /\ Ended(c).body = c.body /\ Ended(c).granted = c.granted
           /\ Ended(c).phase = "over"
  BY DEF Ended, Call

LEMMA SentTyped ==
    ASSUME TypeOK, NEW i \in Calls, Sent(i)
    PROVE  call[i] \in Call
  BY DEF TypeOK, Sent

\* What each change of a call leaves of its type.
LEMMA GoesTyped ==
    ASSUME TypeOK, NEW i \in Calls, Sent(i), NEW phase \in Phases, Goes(i, phase)
    PROVE  call' \in [Calls -> Call \cup {Null}]
  <1>1. [call[i] EXCEPT !.phase = phase] \in Call
    BY SentTyped DEF Call, Phases
  <1>2. QED
    BY <1>1 DEF TypeOK, Goes

LEMMA EndsTyped ==
    ASSUME TypeOK, NEW i \in Calls, Sent(i), Ends(i)
    PROVE  call' \in [Calls -> Call \cup {Null}]
  <1>1. Ended(call[i]) \in Call
    BY SentTyped, EndedTyped
  <1>2. QED
    BY <1>1 DEF TypeOK, Ends

LEMMA SendTyped ==
    ASSUME TypeOK, NEW i \in Calls, NEW t \in Tabs, NEW kind \in {"login", "provision"},
           NEW good \in BOOLEAN, NEW body \in Drafts \cup {Null},
           Send(i, t, kind, good, body)
    PROVE  call' \in [Calls -> Call \cup {Null}]
  <1> DEFINE new == [kind |-> kind, tab |-> t, visit |-> visit[t], good |-> good,
                     body |-> body, token |-> cookie, phase |-> "sent",
                     granted |-> Null, troubled |-> FALSE]
  <1>1. new \in Call
    BY DEF Call, TypeOK
  <1>2. call' = [call EXCEPT ![i] = new]
    BY DEF Send
  <1> HIDE DEF new
  <1>3. QED
    BY <1>1, <1>2 DEF TypeOK

LEMMA ShowsTyped ==
    ASSUME TypeOK, NEW t \in Tabs, NEW where \in {"login", "shell"}, Shows(t, where)
    PROVE  /\ visit' \in [Tabs -> Nat]
           /\ route' \in [Tabs -> {"login", "shell"}]
           /\ loading' \in [Tabs -> BOOLEAN]
           /\ view' \in [Tabs -> {"idle", "submitting", "success", "error"}]
           /\ draft' \in [Tabs -> Drafts \cup {Null}]
  BY DEF Shows, TypeOK

LEMMA UserTyped ==
    ASSUME TypeOK, User
    PROVE  TypeOK'
  <1>1. ASSUME NEW i \in Calls, NEW t \in Tabs, NEW good \in BOOLEAN,
               SubmitLogin(i, t, good)
        PROVE  TypeOK'
    <2>1. call' \in [Calls -> Call \cup {Null}]
      BY <1>1, SendTyped DEF SubmitLogin
    <2>2. QED
      BY <1>1, <2>1 DEF SubmitLogin, TypeOK, process
  <1>2. ASSUME NEW i \in Calls, NEW t \in Tabs, ProvisionTenant(i, t)
        PROVE  TypeOK'
    <2>1. draft[t] \in Drafts \cup {Null}
      BY <1>2 DEF TypeOK
    <2>2. call' \in [Calls -> Call \cup {Null}]
      BY <1>2, <2>1, SendTyped DEF ProvisionTenant
    <2>3. QED
      BY <1>2, <2>2 DEF ProvisionTenant, TypeOK, process
  <1>3. ASSUME NEW t \in Tabs, NEW content \in Drafts \cup {Null},
               Edit(t, content) \/ RejectForm(t)
        PROVE  TypeOK'
    BY <1>3 DEF Edit, RejectForm, TypeOK, process
  <1>4. ASSUME NEW t \in Tabs, NEW where \in {"login", "shell"}, Navigate(t, where)
        PROVE  TypeOK'
    BY <1>4, ShowsTyped DEF Navigate, TypeOK, process
  <1>5. ASSUME NEW t \in Tabs, Reload(t)
        PROVE  TypeOK'
    BY <1>5, ShowsTyped DEF Reload, TypeOK, process
  <1>6. CASE CloseBrowser
    <2>1. \A i \in Calls : Sent(i) => Ended(call[i]) \in Call
      BY SentTyped, EndedTyped
    <2>2. call' \in [Calls -> Call \cup {Null}]
      BY <1>6, <2>1 DEF CloseBrowser
    <2>3. QED
      BY <1>6, <2>2 DEF CloseBrowser, TypeOK, process
  <1>7. QED
    BY <1>1, <1>2, <1>3, <1>4, <1>5, <1>6 DEF User

LEMMA WorksTyped ==
    ASSUME TypeOK, NEW i \in Calls, Works(i) \/ Lose(i)
    PROVE  TypeOK'
  <1>1. CASE Admit(i)
    <2>1. call' \in [Calls -> Call \cup {Null}]
      BY <1>1, GoesTyped DEF Admit, At, Phases
    <2>2. QED
      BY <1>1, <2>1 DEF Admit, TypeOK, process, tab
  <1>2. CASE Login(i)
    <2>1. CASE Goes(i, "refused")
      <3>1. call' \in [Calls -> Call \cup {Null}]
        BY <1>2, <2>1, GoesTyped DEF Login, At, Phases
      <3>2. QED
        BY <1>2, <3>1 DEF Login, TypeOK, process, tab
    <2>2. CASE /\ config.signing # Null
               /\ call' = [call EXCEPT ![i].phase = "accepted",
                               ![i].granted = [key |-> config.signing, epoch |-> epoch]]
      <3> DEFINE session == [key |-> config.signing, epoch |-> epoch]
      <3>1. session \in Session
        BY <2>2, SignInAssumption DEF TypeOK, Session, Config
      <3> HIDE DEF session
      <3>2. [call[i] EXCEPT !.phase = "accepted", !.granted = session] \in Call
        BY <1>2, <3>1, SentTyped DEF Login, At, Call
      <3>3. call' = [call EXCEPT ![i] =
                         [call[i] EXCEPT !.phase = "accepted", !.granted = session]]
        BY <2>2 DEF session
      <3>4. call' \in [Calls -> Call \cup {Null}]
        BY <3>2, <3>3 DEF TypeOK
      <3>5. QED
        BY <1>2, <3>4 DEF Login, TypeOK, process, tab
    <2>3. QED
      BY <1>2, <2>1, <2>2 DEF Login
  <1>3. CASE CreateCompany(i)
    <2>1. call' \in [Calls -> Call \cup {Null}]
      BY <1>3, GoesTyped DEF CreateCompany, At, Phases
    <2>2. QED
      BY <1>3, <2>1 DEF CreateCompany, TypeOK, process, tab
  <1>4. CASE Lose(i)
    <2>1. [call[i] EXCEPT !.phase = "refused", !.granted = Null, !.troubled = TRUE] \in Call
      BY <1>4, SentTyped DEF Lose, Call
    <2>2. call' \in [Calls -> Call \cup {Null}]
      BY <1>4, <2>1 DEF Lose, TypeOK
    <2>3. QED
      BY <1>4, <2>2 DEF Lose, TypeOK, process, tab
  <1>5. QED
    BY <1>1, <1>2, <1>3, <1>4 DEF Works

LEMMA AnswersTyped ==
    ASSUME TypeOK, NEW i \in Calls, Answers(i)
    PROVE  TypeOK'
  <1>1. Sent(i) /\ Ends(i)
    BY DEF Answers, LoginAccepted, LoginRefused, ProvisionAnswered, AnswerDropped, At
  <1>2. call' \in [Calls -> Call \cup {Null}]
    BY <1>1, EndsTyped
  <1>3. call[i].tab \in Tabs /\ call[i].granted \in Session \cup {Null}
    BY <1>1, SentTyped DEF Call
  <1>4. CASE LoginAccepted(i)
    <2>1. \/ UNCHANGED <<visit, route, loading, view, draft>>
          \/ Shows(call[i].tab, "shell")
      BY <1>4 DEF LoginAccepted
    <2>2. /\ visit' \in [Tabs -> Nat]
          /\ route' \in [Tabs -> {"login", "shell"}]
          /\ loading' \in [Tabs -> BOOLEAN]
          /\ view' \in [Tabs -> {"idle", "submitting", "success", "error"}]
          /\ draft' \in [Tabs -> Drafts \cup {Null}]
      BY <1>3, <2>1, ShowsTyped DEF TypeOK
    <2>3. QED
      BY <1>2, <1>3, <1>4, <2>2 DEF LoginAccepted, TypeOK, process
  <1>5. CASE LoginRefused(i)
    BY <1>2, <1>3, <1>5 DEF LoginRefused, TypeOK, process
  <1>6. CASE ProvisionAnswered(i)
    BY <1>2, <1>3, <1>6 DEF ProvisionAnswered, TypeOK, process
  <1>7. CASE AnswerDropped(i)
    BY <1>2, <1>3, <1>7 DEF AnswerDropped, TypeOK, process, tab
  <1>8. QED
    BY <1>4, <1>5, <1>6, <1>7 DEF Answers

LEMMA OperatorTyped ==
    ASSUME TypeOK, Ready \/ Restart
    PROVE  TypeOK'
  <1>1. CASE Ready
    BY <1>1 DEF Ready, TypeOK, tab
  <1>2. CASE Restart
    <2>1. \A i \in Calls : Sent(i) =>
              [call[i] EXCEPT !.phase = "refused", !.troubled = TRUE] \in Call
      BY SentTyped DEF Call
    <2>2. call' \in [Calls -> Call \cup {Null}]
      BY <1>2, <2>1 DEF Restart, TypeOK
    <2>3. epoch' \in 0..MaxRestarts
      <3>1. epoch \in 0..MaxRestarts /\ epoch' = epoch + 1 /\ epoch < MaxRestarts
        BY <1>2 DEF Restart, TypeOK
      <3>2. MaxRestarts \in Nat
        BY SignInAssumption
      <3>3. QED
        BY <3>1, <3>2
    <2>4. /\ config' \in Environments /\ ready' = FALSE
          /\ UNCHANGED <<cookie, tab, provisioned>>
      BY <1>2 DEF Restart
    <2>5. QED
      BY <2>2, <2>3, <2>4 DEF TypeOK, tab
  <1>3. QED
    BY <1>1, <1>2

\* The type invariant holds in every state of every behaviour.
THEOREM TypeCorrect == Spec => []TypeOK
  <1>1. Init => TypeOK
    <2> SUFFICES ASSUME Init PROVE TypeOK
      OBVIOUS
    <2>1. epoch \in 0..MaxRestarts
      BY SignInAssumption DEF Init
    <2>2. /\ config \in Environments /\ ready \in BOOLEAN /\ provisioned \subseteq Calls
          /\ cookie \in Session \cup {Null} /\ call \in [Calls -> Call \cup {Null}]
      BY DEF Init
    <2>3. /\ visit \in [Tabs -> Nat] /\ page \in [Tabs -> Nat]
          /\ route \in [Tabs -> {"login", "shell"}]
          /\ authority \in [Tabs -> BOOLEAN] /\ loading \in [Tabs -> BOOLEAN]
          /\ view \in [Tabs -> {"idle", "submitting", "success", "error"}]
          /\ draft \in [Tabs -> Drafts \cup {Null}]
      BY DEF Init
    <2>4. QED
      BY <2>1, <2>2, <2>3 DEF TypeOK
  <1>2. TypeOK /\ [Next]_vars => TypeOK'
    <2>1. ASSUME TypeOK, UNCHANGED vars PROVE TypeOK'
      BY <2>1 DEF TypeOK, vars, process, tab
    <2>2. QED
      BY <2>1, UserTyped, WorksTyped, AnswersTyped, OperatorTyped DEF Next
  <1>3. QED
    BY <1>1, <1>2, PTL DEF Spec

-----------------------------------------------------------------------------
(* Calls *)

\* What a call is asked for, and from where, does not change once it is sent;
\* what is over stays over, with the session it was granted.
LEMMA CallsLast ==
    ASSUME TypeOK, [Next]_vars, NEW q \in Calls, Sent(q)
    PROVE  /\ Sent(q)'
           /\ call'[q].kind = call[q].kind /\ call'[q].tab = call[q].tab
           /\ call'[q].visit = call[q].visit /\ call'[q].body = call[q].body
           /\ call[q].phase = "over" =>
                  call'[q].phase = "over" /\ call'[q].granted = call[q].granted
  <1> DEFINE Lasts ==
        /\ call'[q] \in Call
        /\ call'[q].kind = call[q].kind /\ call'[q].tab = call[q].tab
        /\ call'[q].visit = call[q].visit /\ call'[q].body = call[q].body
        /\ call[q].phase = "over" =>
               call'[q].phase = "over" /\ call'[q].granted = call[q].granted
  <1>1. SUFFICES Lasts
    BY UnsentAssumption DEF Sent
  <1>2. call[q] \in Call /\ call \in [Calls -> Call \cup {Null}]
    BY SentTyped DEF TypeOK
  <1>3. Ended(call[q]) \in Call /\ Ended(call[q]).granted = call[q].granted
    BY <1>2, EndedTyped
  <1>4. CASE call' = call
    BY <1>2, <1>4
  <1>5. ASSUME NEW i \in Calls, Ends(i) PROVE Lasts
    BY <1>2, <1>5, EndedTyped DEF Ends
  <1>6. ASSUME NEW i \in Calls, NEW phase \in Phases, Goes(i, phase),
               call[i].phase # "over"
        PROVE  Lasts
    BY <1>2, <1>6 DEF Goes, Call, Phases
  <1>7. ASSUME User PROVE Lasts
    <2>1. ASSUME NEW i \in Calls, NEW t \in Tabs, NEW kind, NEW good, NEW body,
                 Send(i, t, kind, good, body)
          PROVE  Lasts
      BY <1>2, <2>1 DEF Send, Sent
    <2>2. CASE CloseBrowser
      BY <1>2, <2>2, EndedTyped DEF CloseBrowser
    <2>3. ASSUME NEW t \in Tabs,
                 \/ \E content \in Drafts \cup {Null} : Edit(t, content)
                 \/ RejectForm(t)
                 \/ \E where \in {"login", "shell"} : Navigate(t, where)
                 \/ Reload(t)
          PROVE  Lasts
      BY <1>4, <2>3 DEF Edit, RejectForm, Navigate, Reload
    <2>4. ASSUME NEW i \in Calls, NEW t \in Tabs,
                 (\E good \in BOOLEAN : SubmitLogin(i, t, good)) \/ ProvisionTenant(i, t)
          PROVE  Lasts
      BY <2>1, <2>4 DEF SubmitLogin, ProvisionTenant
    <2>5. QED
      BY <1>7, <2>2, <2>3, <2>4 DEF User
  <1>8. ASSUME NEW i \in Calls, Answers(i) PROVE Lasts
    BY <1>5, <1>8 DEF Answers, LoginAccepted, LoginRefused, ProvisionAnswered,
                      AnswerDropped
  <1>9. ASSUME NEW i \in Calls, Works(i) PROVE Lasts
    <2>1. CASE Admit(i) \/ CreateCompany(i)
      BY <1>6, <2>1 DEF Admit, CreateCompany, At, Phases
    <2>2. CASE Login(i)
      <3>1. CASE Goes(i, "refused")
        BY <1>6, <2>2, <3>1 DEF Login, At, Phases
      <3>2. CASE ~Goes(i, "refused")
        <4>1. /\ call' = [call EXCEPT ![i].phase = "accepted",
                              ![i].granted = [key |-> config.signing, epoch |-> epoch]]
              /\ call[i].phase # "over"
          BY <2>2, <3>2 DEF Login, At
        <4>2. [key |-> config.signing, epoch |-> epoch] \in Session
          BY <2>2, <3>2, SignInAssumption DEF Login, TypeOK, Session, Config
        <4>3. CASE q = i
          <5> DEFINE session == [key |-> config.signing, epoch |-> epoch]
          <5>1. call'[q] = [call[q] EXCEPT !.phase = "accepted", !.granted = session]
            BY <1>2, <4>1, <4>3
          <5> HIDE DEF session
          <5>2. QED
            BY <1>2, <4>1, <4>2, <4>3, <5>1 DEF Call, session
        <4>4. CASE q # i
          BY <1>2, <4>1, <4>4
        <4>5. QED
          BY <4>3, <4>4
      <3>3. QED
        BY <3>1, <3>2
    <2>3. QED
      BY <1>9, <2>1, <2>2 DEF Works
  <1>10. ASSUME NEW i \in Calls, Lose(i) PROVE Lasts
    BY <1>2, <1>10 DEF Lose, Call
  <1>11. CASE Restart
    BY <1>2, <1>11 DEF Restart, Call
  <1>12. QED
    BY <1>4, <1>7, <1>8, <1>9, <1>10, <1>11 DEF Next, Ready, vars

\* A call is new when it is sent, and that moves no tab to another view.
LEMMA NewlySent ==
    ASSUME TypeOK, [Next]_vars, NEW q \in Calls, ~Sent(q), Sent(q)'
    PROVE  \E t \in Tabs, i \in Calls, kind \in {"login", "provision"},
              good \in BOOLEAN, body \in Drafts \cup {Null} :
              Send(i, t, kind, good, body) /\ visit' = visit
  <1>1. call \in [Calls -> Call \cup {Null}] /\ call' # call
    BY DEF TypeOK, Sent
  <1>2. ASSUME NEW i \in Calls, Sent(i), \A j \in Calls : j # i => call'[j] = call[j]
        PROVE  FALSE
    BY <1>2 DEF Sent
  <1>3. ASSUME NEW i \in Calls, Works(i) \/ Lose(i) \/ Answers(i) PROVE FALSE
    <2>1. Sent(i)
      BY <1>3 DEF Works, Answers, Admit, Login, CreateCompany, Lose, LoginAccepted,
             LoginRefused, ProvisionAnswered, AnswerDropped, At
    <2>2. \A j \in Calls : j # i => call'[j] = call[j]
      BY <1>1, <1>3 DEF Works, Answers, Admit, Login, CreateCompany, Lose, LoginAccepted,
             LoginRefused, ProvisionAnswered, AnswerDropped, Goes, Ends
    <2>3. QED
      BY <1>2, <2>1, <2>2
  <1>4. ~(Ready \/ Restart \/ UNCHANGED vars \/ CloseBrowser)
    BY <1>1 DEF Ready, Restart, CloseBrowser, vars, Sent
  <1>5. ASSUME NEW t \in Tabs,
               \/ \E content \in Drafts \cup {Null} : Edit(t, content)
               \/ RejectForm(t)
               \/ \E where \in {"login", "shell"} : Navigate(t, where)
               \/ Reload(t)
        PROVE  FALSE
    BY <1>1, <1>5 DEF Edit, RejectForm, Navigate, Reload
  <1>6. PICK i \in Calls, t \in Tabs :
            (\E good \in BOOLEAN : SubmitLogin(i, t, good)) \/ ProvisionTenant(i, t)
    BY <1>3, <1>4, <1>5 DEF Next, User
  <1>7. draft[t] \in Drafts \cup {Null}
    BY DEF TypeOK
  <1>8. QED
    BY <1>6, <1>7 DEF SubmitLogin, ProvisionTenant

-----------------------------------------------------------------------------
(* Sessions and keys *)

\* A session of this process was signed with its key.
Issued(session) ==
    session.epoch <= epoch /\ (session.epoch = epoch => session.key = config.signing)

Signed ==
    /\ ready => config.signing = config.verification
    /\ cookie # Null => Issued(cookie)
    /\ \A i \in Calls : Sent(i) /\ call[i].granted # Null => Issued(call[i].granted)

\* Where a session comes from: the answer of a login, and nowhere else.
LEMMA SessionsCome ==
    ASSUME TypeOK, [Next]_vars
    PROVE  /\ cookie' \in {cookie, Null} \cup
                  {call[i].granted : i \in {j \in Calls : Sent(j) /\ call[j].granted # Null}}
           /\ \A q \in Calls :
                  \/ ~Sent(q)'
                  \/ call'[q].granted = Null
                  \/ Sent(q) /\ call'[q].granted = call[q].granted
                  \/ /\ call'[q].granted = [key |-> config.signing, epoch |-> epoch]
                     /\ UNCHANGED <<config, epoch>>
  <1> DEFINE Granted == {call[i].granted : i \in {j \in Calls : Sent(j) /\ call[j].granted # Null}}
             Comes(q) == \/ ~Sent(q)'
                         \/ call'[q].granted = Null
                         \/ Sent(q) /\ call'[q].granted = call[q].granted
                         \/ /\ call'[q].granted = [key |-> config.signing, epoch |-> epoch]
                            /\ UNCHANGED <<config, epoch>>
  <1> SUFFICES cookie' \in {cookie, Null} \cup Granted /\ \A q \in Calls : Comes(q)
    OBVIOUS
  <1>1. call \in [Calls -> Call \cup {Null}]
    BY DEF TypeOK
  <1>2. CASE call' = call /\ cookie' = cookie
    BY <1>2 DEF Sent
  <1>3. ASSUME NEW i \in Calls, Ends(i), Sent(i) PROVE \A q \in Calls : Comes(q)
    BY <1>1, <1>3, EndedTyped DEF Ends, Sent
  <1>4. ASSUME NEW i \in Calls, NEW phase, Goes(i, phase), Sent(i)
        PROVE  \A q \in Calls : Comes(q)
    BY <1>1, <1>4 DEF Goes, Sent, Call
  <1>5. CASE User
    <2>1. ASSUME NEW i \in Calls, NEW t \in Tabs, NEW kind, NEW good, NEW body,
                 Send(i, t, kind, good, body)
          PROVE  \A q \in Calls : Comes(q)
      BY <1>1, <2>1 DEF Send, Sent
    <2>2. CASE CloseBrowser
      BY <1>1, <2>2, EndedTyped DEF CloseBrowser, Sent
    <2>3. ASSUME NEW t \in Tabs,
                 \/ \E content \in Drafts \cup {Null} : Edit(t, content)
                 \/ RejectForm(t)
                 \/ \E where \in {"login", "shell"} : Navigate(t, where)
                 \/ Reload(t)
          PROVE  call' = call /\ cookie' = cookie
      BY <2>3 DEF Edit, RejectForm, Navigate, Reload
    <2>4. ASSUME NEW i \in Calls, NEW t \in Tabs,
                 (\E good \in BOOLEAN : SubmitLogin(i, t, good)) \/ ProvisionTenant(i, t)
          PROVE  cookie' = cookie /\ \A q \in Calls : Comes(q)
      BY <2>1, <2>4 DEF SubmitLogin, ProvisionTenant
    <2>5. QED
      BY <1>2, <1>5, <2>2, <2>3, <2>4 DEF User, CloseBrowser
  <1>6. ASSUME NEW i \in Calls, Answers(i)
        PROVE  cookie' \in {cookie, Null} \cup Granted /\ \A q \in Calls : Comes(q)
    <2>1. Ends(i) /\ Sent(i) /\ cookie' \in {cookie, Null, call[i].granted}
      BY <1>6 DEF Answers, LoginAccepted, LoginRefused, ProvisionAnswered,
                  AnswerDropped, At
    <2>2. QED
      BY <1>3, <2>1
  <1>7. ASSUME NEW i \in Calls, Works(i)
        PROVE  cookie' = cookie /\ \A q \in Calls : Comes(q)
    <2>1. Sent(i) /\ cookie' = cookie
      BY <1>7 DEF Works, Admit, Login, CreateCompany, At
    <2>2. CASE Admit(i) \/ CreateCompany(i) \/ Goes(i, "refused")
      BY <1>4, <2>1, <2>2 DEF Admit, CreateCompany
    <2>3. CASE Login(i) /\ ~Goes(i, "refused")
      <3>1. /\ call' = [call EXCEPT ![i].phase = "accepted",
                            ![i].granted = [key |-> config.signing, epoch |-> epoch]]
            /\ UNCHANGED <<config, epoch>>
        BY <2>3 DEF Login, process
      <3>2. QED
        BY <1>1, <2>1, <3>1 DEF Sent, Call
    <2>4. QED
      BY <1>7, <2>1, <2>2, <2>3 DEF Works
  <1>8. ASSUME NEW i \in Calls, Lose(i)
        PROVE  cookie' = cookie /\ \A q \in Calls : Comes(q)
    BY <1>1, <1>8 DEF Lose, Sent, Call
  <1>9. CASE Restart
    BY <1>1, <1>9 DEF Restart, Sent, Call
  <1>10. QED
    BY <1>2, <1>5, <1>6, <1>7, <1>8, <1>9 DEF Next, Ready, vars

LEMMA SignedKept ==
    ASSUME TypeOK, TypeOK', Signed, [Next]_vars
    PROVE  Signed'
  <1> DEFINE Later(s) == s.epoch <= epoch' /\ (s.epoch = epoch' => s.key = config'.signing)
  <1>1. \/ UNCHANGED <<config, epoch>> /\ (ready' => ready \/ config.signing = config.verification)
        \/ epoch' = epoch + 1 /\ ~ready'
    BY DEF Next, User, Works, Answers, SubmitLogin, ProvisionTenant, Edit, RejectForm,
           Navigate, Reload, CloseBrowser, Admit, Login, CreateCompany, LoginAccepted,
           LoginRefused, ProvisionAnswered, AnswerDropped, Lose, Ready, Restart, vars,
           process
  <1>2. epoch \in Nat /\ epoch' \in Nat
    BY SignInAssumption DEF TypeOK
  <1>3. ASSUME NEW s \in Session, Issued(s) PROVE Later(s)
    <2>1. s.epoch \in Nat
      BY <1>3, SignInAssumption DEF Session
    <2>2. QED
      BY <1>1, <1>2, <1>3, <2>1 DEF Issued
  <1>4. ASSUME cookie' # Null PROVE Later(cookie')
    <2>1. cookie' \in Session
      BY <1>4 DEF TypeOK
    <2>2. \/ Issued(cookie) /\ cookie' = cookie
          \/ \E i \in Calls : /\ Sent(i) /\ call[i].granted # Null
                              /\ cookie' = call[i].granted /\ Issued(call[i].granted)
      BY <1>4, SessionsCome DEF Signed
    <2> HIDE DEF Later
    <2>3. QED
      BY <1>3, <2>1, <2>2
  <1>5. ASSUME NEW q \in Calls, Sent(q)', call'[q].granted # Null
        PROVE  Later(call'[q].granted)
    <2>1. call'[q] \in Call
      BY <1>5 DEF TypeOK, Sent
    <2>2. call'[q].granted \in Session
      BY <1>5, <2>1 DEF Call
    <2>3. CASE Sent(q) /\ call'[q].granted = call[q].granted
      <3>1. Issued(call[q].granted)
        BY <1>5, <2>3 DEF Signed
      <3> HIDE DEF Later
      <3>2. QED
        BY <1>3, <2>2, <2>3, <3>1
    <2>4. CASE /\ call'[q].granted = [key |-> config.signing, epoch |-> epoch]
               /\ UNCHANGED <<config, epoch>>
      BY <1>2, <2>4
    <2>5. QED
      BY <1>5, <2>3, <2>4, SessionsCome
  <1>6. ready' => config'.signing = config'.verification
    BY <1>1 DEF Signed
  <1>7. QED
    BY <1>4, <1>5, <1>6 DEF Signed, Issued

\* A process that is ready honours every session it issued, whatever processes
\* there were before it and whatever keys they had.
THEOREM ReadyIsTrue == Spec => []ReadyProcessHonoursItsSessions
  <1>1. Init => Signed
    BY DEF Init, Signed, Sent
  <1>2. TypeOK /\ TypeOK' /\ Signed /\ [Next]_vars => Signed'
    BY SignedKept
  <1>3. Signed => ReadyProcessHonoursItsSessions
    BY DEF Signed, Issued, ReadyProcessHonoursItsSessions, Verifies
  <1>4. QED
    BY <1>1, <1>2, <1>3, TypeCorrect, PTL DEF Spec

-----------------------------------------------------------------------------
(* Which logins are refused *)

\* Where the session of a request comes from: the cookie it was sent with.
LEMMA TokensCome ==
    ASSUME TypeOK, [Next]_vars, NEW q \in Calls, Sent(q)'
    PROVE  \/ call'[q].token \in {Null, cookie}
           \/ Sent(q) /\ call'[q].token = call[q].token
  <1>1. call \in [Calls -> Call \cup {Null}]
    BY DEF TypeOK
  <1> DEFINE Comes == \/ ~Sent(q)'
                      \/ call'[q].token \in {Null, cookie}
                      \/ Sent(q) /\ call'[q].token = call[q].token
  <1> SUFFICES Comes
    OBVIOUS
  <1>2. CASE call' = call
    BY <1>2 DEF Sent
  <1>3. ASSUME NEW c \in Call PROVE Ended(c).token = Null
    BY DEF Ended, Call
  <1>4. ASSUME NEW i \in Calls, Ends(i), Sent(i) PROVE Comes
    BY <1>1, <1>3, <1>4 DEF Ends, Sent
  <1>5. ASSUME NEW i \in Calls, NEW phase, Goes(i, phase), Sent(i) PROVE Comes
    BY <1>1, <1>5 DEF Goes, Sent, Call
  <1>6. ASSUME NEW i \in Calls, NEW t, NEW kind, NEW good, NEW body,
               Send(i, t, kind, good, body)
        PROVE  Comes
    BY <1>1, <1>6 DEF Send, Sent
  <1>7. CASE CloseBrowser
    BY <1>1, <1>3, <1>7 DEF CloseBrowser, Sent
  <1>8. CASE User
    BY <1>2, <1>6, <1>7, <1>8 DEF User, SubmitLogin, ProvisionTenant, Edit, RejectForm,
       Navigate, Reload
  <1>9. ASSUME NEW i \in Calls, Answers(i) PROVE Comes
    BY <1>4, <1>9 DEF Answers, LoginAccepted, LoginRefused, ProvisionAnswered,
       AnswerDropped, At
  <1>10. ASSUME NEW i \in Calls, Works(i) PROVE Comes
    <2>1. Sent(i)
      BY <1>10 DEF Works, Admit, Login, CreateCompany, At
    <2>2. CASE Login(i) /\ ~Goes(i, "refused")
      BY <1>1, <2>1, <2>2 DEF Login, Sent, Call
    <2>3. QED
      BY <1>5, <1>10, <2>1, <2>2 DEF Works, Admit, CreateCompany
  <1>11. ASSUME NEW i \in Calls, Lose(i) PROVE Comes
    BY <1>1, <1>11 DEF Lose, Sent, Call
  <1>12. CASE Restart
    BY <1>1, <1>12 DEF Restart, Sent, Call
  <1>13. QED
    BY <1>2, <1>8, <1>9, <1>10, <1>11, <1>12 DEF Next, Ready, vars

\* What the step is that refuses a good login without trouble.
LEMMA WhoRefuses ==
    ASSUME TypeOK, [Next]_vars, NEW i \in Calls,
           Sent(i), call[i].kind = "login", call[i].good,
           call[i].phase # "refused", call'[i].phase = "refused", ~call'[i].troubled
    PROVE  \/ call[i].token # Null /\ ~Verifies(call[i].token)
           \/ config.signing = Null
  <1>1. call \in [Calls -> Call \cup {Null}] /\ call[i] \in Call
    BY SentTyped DEF TypeOK
  <1>2. call' # call
    BY <1>1
  <1>3. ASSUME NEW c \in Call PROVE Ended(c).phase = "over"
    BY DEF Ended, Call
  <1>4. ASSUME NEW j \in Calls, Ends(j) PROVE FALSE
    BY <1>1, <1>3, <1>4 DEF Ends
  <1>5. ~User
    <2>1. ASSUME NEW j \in Calls, NEW t, NEW kind, NEW good, NEW body,
                 Send(j, t, kind, good, body)
          PROVE  FALSE
      BY <1>1, <2>1 DEF Send
    <2>2. ~CloseBrowser
      BY <1>1, <1>3 DEF CloseBrowser, Sent
    <2>3. QED
      BY <1>2, <2>1, <2>2 DEF User, SubmitLogin, ProvisionTenant, Edit, RejectForm,
         Navigate, Reload
  <1>6. ASSUME NEW j \in Calls, Answers(j) PROVE FALSE
    BY <1>4, <1>6 DEF Answers, LoginAccepted, LoginRefused, ProvisionAnswered,
       AnswerDropped
  <1>7. ASSUME NEW j \in Calls, Lose(j) PROVE FALSE
    BY <1>1, <1>7 DEF Lose, Call
  <1>8. ~Restart
    <2> SUFFICES ASSUME Restart PROVE FALSE
      OBVIOUS
    <2> DEFINE stopped == [call[i] EXCEPT !.phase = "refused", !.troubled = TRUE]
    <2>1. call'[i] = call[i] \/ call'[i] = stopped
      BY DEF Restart
    <2>2. stopped.troubled
      BY <1>1 DEF Call
    <2>3. QED
      BY <2>1, <2>2
  <1>9. ASSUME NEW j \in Calls, Works(j), j # i PROVE FALSE
    BY <1>1, <1>9 DEF Works, Admit, Login, CreateCompany, Goes
  <1>10. CASE Works(i)
    <2>1. ~CreateCompany(i)
      BY DEF CreateCompany
    <2>2. CASE Admit(i)
      BY <1>1, <2>2 DEF Admit, Goes
    <2>3. CASE Login(i)
      <3> DEFINE issued == [call[i] EXCEPT !.phase = "accepted",
                                !.granted = [key |-> config.signing, epoch |-> epoch]]
      <3>1. config.signing = Null \/ call'[i] = issued
        BY <1>1, <2>3 DEF Login
      <3>2. issued.phase = "accepted"
        BY <1>1 DEF Call
      <3>3. QED
        BY <3>1, <3>2
    <2>4. QED
      BY <1>10, <2>1, <2>2, <2>3 DEF Works
  <1>11. QED
    BY <1>2, <1>5, <1>6, <1>7, <1>8, <1>9, <1>10 DEF Next, Ready, vars

\* Sessions that requests carry were issued like the one in the cookie, and a
\* ready process has a key to sign with.
Carried ==
    /\ ready => config.signing # Null
    /\ \A i \in Calls : Sent(i) /\ call[i].token # Null => Issued(call[i].token)

LEMMA CarriedKept ==
    ASSUME TypeOK, TypeOK', Signed, Carried, [Next]_vars
    PROVE  Carried'
  <1>1. \/ UNCHANGED <<config, epoch>> /\ (ready' => ready \/ config.signing # Null)
        \/ epoch' = epoch + 1 /\ ~ready'
    BY DEF Next, User, Works, Answers, SubmitLogin, ProvisionTenant, Edit, RejectForm,
           Navigate, Reload, CloseBrowser, Admit, Login, CreateCompany, LoginAccepted,
           LoginRefused, ProvisionAnswered, AnswerDropped, Lose, Ready, Restart, vars,
           process
  <1>2. epoch \in Nat /\ epoch' \in Nat
    BY SignInAssumption DEF TypeOK
  <1> DEFINE Later(s) == s.epoch <= epoch' /\ (s.epoch = epoch' => s.key = config'.signing)
  <1>3. ASSUME NEW q \in Calls, Sent(q)', call'[q].token # Null
        PROVE  Later(call'[q].token)
    <2>1. call'[q].token \in Session
      <3>1. call'[q] \in Call
        BY <1>3 DEF TypeOK, Sent
      <3>2. QED
        BY <1>3, <3>1 DEF Call
    <2>2. Issued(call'[q].token)
      BY <1>3, TokensCome DEF Signed, Carried
    <2>3. call'[q].token.epoch \in Nat
      BY <2>1, SignInAssumption DEF Session
    <2>4. QED
      BY <1>1, <1>2, <2>2, <2>3 DEF Issued
  <1>4. ready' => config'.signing # Null
    BY <1>1 DEF Carried
  <1>5. QED
    BY <1>3, <1>4 DEF Carried, Issued

LEMMA AlwaysCarried == Spec => [](TypeOK /\ Signed /\ Carried)
  <1>1. Init => Signed /\ Carried
    BY DEF Init, Signed, Carried, Sent
  <1>2. TypeOK /\ TypeOK' /\ Signed /\ Carried /\ [Next]_vars => Signed' /\ Carried'
    BY SignedKept, CarriedKept
  <1>3. QED
    BY <1>1, <1>2, TypeCorrect, PTL DEF Spec

\* What relogin_refused shows has one cause: a ready process that refuses good
\* credentials, though nothing was lost, was handed the session of an earlier
\* process, which signed with another key.
THEOREM OnlyStaleCookiesRefuse ==
    Spec => [][\A i \in Calls :
                  /\ ready /\ Sent(i) /\ call[i].kind = "login" /\ call[i].good
                  /\ call[i].phase # "refused" /\ call'[i].phase = "refused"
                  /\ ~call'[i].troubled
                  => /\ call[i].token # Null
                     /\ call[i].token.epoch < epoch
                     /\ call[i].token.key # config.verification]_vars
  <1> DEFINE Cause(i) ==
                 /\ ready /\ Sent(i) /\ call[i].kind = "login" /\ call[i].good
                 /\ call[i].phase # "refused" /\ call'[i].phase = "refused"
                 /\ ~call'[i].troubled
                 => /\ call[i].token # Null
                    /\ call[i].token.epoch < epoch
                    /\ call[i].token.key # config.verification
  <1>1. TypeOK /\ Signed /\ Carried /\ [Next]_vars => [\A i \in Calls : Cause(i)]_vars
    <2> SUFFICES ASSUME TypeOK, Signed, Carried, [Next]_vars,
                        NEW i \in Calls,
                        ready, Sent(i), call[i].kind = "login", call[i].good,
                        call[i].phase # "refused", call'[i].phase = "refused",
                        ~call'[i].troubled
                 PROVE  /\ call[i].token # Null
                        /\ call[i].token.epoch < epoch
                        /\ call[i].token.key # config.verification
      OBVIOUS
    <2>1. call[i].token # Null /\ call[i].token.key # config.verification
      BY WhoRefuses DEF Carried, Verifies
    <2>2. Issued(call[i].token) /\ config.signing = config.verification
      BY <2>1 DEF Carried, Signed
    <2>3. call[i].token \in Session
      BY <2>1, SentTyped DEF Call
    <2>4. call[i].token.epoch \in Nat /\ epoch \in Nat
      BY <2>3, SignInAssumption DEF Session, TypeOK
    <2>5. QED
      BY <2>1, <2>2, <2>4 DEF Issued
  <1>2. QED
    BY <1>1, AlwaysCarried, PTL DEF Spec

\* A session of one of the environments' signing keys, which all of their
\* verification keys verify.
Lasting(session) == \A e \in Environments : session.key = e.verification

AllLast ==
    /\ cookie # Null => Lasting(cookie)
    /\ \A i \in Calls : Sent(i) =>
           /\ call[i].granted # Null => Lasting(call[i].granted)
           /\ call[i].token # Null => Lasting(call[i].token)

\* Where the keys outlive the processes, valid credentials suffice: restarts
\* that keep them, or no cookie at all, are the way around the finding.
THEOREM KeptKeysSuffice ==
    ASSUME \A e, f \in Environments : e.signing # Null => e.signing = f.verification
    PROVE  Spec => CredentialsSuffice
  <1>1. Init => AllLast
    BY DEF Init, AllLast, Sent
  <1>2. TypeOK /\ TypeOK' /\ AllLast /\ [Next]_vars => AllLast'
    <2> SUFFICES ASSUME TypeOK, TypeOK', AllLast, [Next]_vars PROVE AllLast'
      OBVIOUS
    <2>1. \A s : Lasting(s)' <=> Lasting(s)
      BY DEF Lasting
    <2>2. cookie' # Null => Lasting(cookie')
      BY SessionsCome DEF AllLast
    <2>3. ASSUME NEW q \in Calls, Sent(q)', call'[q].token # Null
          PROVE  Lasting(call'[q].token)
      BY <2>3, TokensCome DEF AllLast
    <2>4. ASSUME NEW q \in Calls, Sent(q)', call'[q].granted # Null
          PROVE  Lasting(call'[q].granted)
      <3>1. CASE Sent(q) /\ call'[q].granted = call[q].granted
        BY <2>4, <3>1 DEF AllLast
      <3>2. CASE call'[q].granted = [key |-> config.signing, epoch |-> epoch]
        <4>1. call'[q].granted \in Session
          BY <2>4 DEF TypeOK, Sent, Call
        <4>2. config.signing # Null /\ config \in Environments
          BY <3>2, <4>1, SignInAssumption DEF Session, TypeOK
        <4>3. QED
          BY <3>2, <4>2 DEF Lasting
      <3>3. QED
        BY <2>4, <3>1, <3>2, SessionsCome
    <2>5. QED
      BY <2>1, <2>2, <2>3, <2>4 DEF AllLast
  <1>3. TypeOK /\ Carried /\ AllLast /\ [Next]_vars =>
            [\A i \in Calls :
                ready /\ Sent(i) /\ call[i].kind = "login" /\ call[i].good =>
                    (call[i].phase # "refused" /\ call'[i].phase = "refused"
                        => call'[i].troubled)]_vars
    BY WhoRefuses DEF Carried, AllLast, Lasting, Verifies, TypeOK
  <1>4. QED
    BY <1>1, <1>2, <1>3, AlwaysCarried, PTL DEF Spec, CredentialsSuffice

-----------------------------------------------------------------------------
(* Pages and views *)

\* Views are counted; a call was sent from one that has been shown.
Ordered ==
    /\ \A t \in Tabs : page[t] <= visit[t]
    /\ \A i \in Calls : Sent(i) => call[i].visit <= visit[call[i].tab]

\* Whoever sees the shell is known to the page, which got a session for it.
SignedIn(t) == \E i \in Calls :
                /\ At(i, "over") /\ call[i].granted # Null
                /\ call[i].tab = t /\ Current(i)

Backed ==
    /\ \A t \in Tabs : route[t] = "shell" => authority[t]
    /\ \A t \in Tabs : authority[t] => cookie # Null /\ SignedIn(t)
    /\ \A i \in Calls : At(i, "accepted") /\ call[i].kind = "login" =>
                            call[i].granted # Null

\* A tab keeps its page, or opens a new one that knows nobody and shows the
\* login form; it learns who signed in from the answer of a login alone.
LEMMA TabsMove ==
    ASSUME TypeOK, [Next]_vars, NEW t \in Tabs
    PROVE  /\ \/ /\ page'[t] = page[t]
                 /\ visit'[t] \in {visit[t], visit[t] + 1}
                 /\ authority[t] => authority'[t]
              \/ /\ page'[t] = visit[t] + 1
                 /\ visit'[t] = visit[t] + 1
                 /\ ~authority'[t] /\ route'[t] = "login"
           /\ route'[t] = "shell" => route[t] = "shell" \/ authority'[t]
           /\ authority'[t] =>
                  authority[t] \/ \E i \in Calls : LoginAccepted(i) /\ call[i].tab = t
  <1> DEFINE Moves ==
        /\ \/ /\ page'[t] = page[t]
              /\ visit'[t] \in {visit[t], visit[t] + 1}
              /\ authority[t] => authority'[t]
           \/ /\ page'[t] = visit[t] + 1
              /\ visit'[t] = visit[t] + 1
              /\ ~authority'[t] /\ route'[t] = "login"
        /\ route'[t] = "shell" => route[t] = "shell" \/ authority'[t]
        /\ authority'[t] =>
               authority[t] \/ \E i \in Calls : LoginAccepted(i) /\ call[i].tab = t
  <1> SUFFICES Moves
    OBVIOUS
  <1> USE DEF TypeOK
  <1>1. CASE UNCHANGED <<visit, page, route, authority>>
    BY <1>1
  <1>2. CASE User
    <2>1. ASSUME NEW u \in Tabs,
                 \/ \E i \in Calls, good \in BOOLEAN : SubmitLogin(i, u, good)
                 \/ \E i \in Calls : ProvisionTenant(i, u)
                 \/ \E content \in Drafts \cup {Null} : Edit(u, content)
                 \/ RejectForm(u)
          PROVE  Moves
      BY <1>1, <2>1 DEF SubmitLogin, ProvisionTenant, Edit, RejectForm
    <2>2. ASSUME NEW u \in Tabs, NEW where \in {"login", "shell"}, Navigate(u, where)
          PROVE  Moves
      BY <2>2 DEF Navigate, Shows
    <2>3. ASSUME NEW u \in Tabs, Reload(u) PROVE Moves
      BY <2>3 DEF Reload, Shows
    <2>4. CASE CloseBrowser
      BY <2>4 DEF CloseBrowser
    <2>5. QED
      BY <1>2, <2>1, <2>2, <2>3, <2>4 DEF User
  <1>3. ASSUME NEW i \in Calls, Works(i) \/ Lose(i) PROVE Moves
    BY <1>1, <1>3 DEF Works, Lose, Admit, Login, CreateCompany, tab
  <1>4. ASSUME NEW i \in Calls, Answers(i) PROVE Moves
    <2>1. CASE LoginAccepted(i)
      <3>1. call[i].tab \in Tabs
        BY <2>1, SentTyped DEF LoginAccepted, At, Call
      <3>2. authority' = [authority EXCEPT ![call[i].tab] = TRUE] /\ page' = page
        BY <2>1 DEF LoginAccepted
      <3>3. CASE UNCHANGED <<visit, route, loading, view, draft>>
        BY <2>1, <3>1, <3>2, <3>3
      <3>4. CASE Shows(call[i].tab, "shell")
        BY <2>1, <3>1, <3>2, <3>4 DEF Shows
      <3>5. QED
        BY <2>1, <3>3, <3>4 DEF LoginAccepted
    <2>2. CASE LoginRefused(i) \/ ProvisionAnswered(i) \/ AnswerDropped(i)
      BY <1>1, <2>2 DEF LoginRefused, ProvisionAnswered, AnswerDropped, tab
    <2>3. QED
      BY <1>4, <2>1, <2>2 DEF Answers
  <1>5. QED
    BY <1>1, <1>2, <1>3, <1>4 DEF Next, Ready, Restart, vars, tab

LEMMA OrderedKept ==
    ASSUME TypeOK, TypeOK', Ordered, [Next]_vars
    PROVE  Ordered'
  <1>1. ASSUME NEW t \in Tabs PROVE page'[t] <= visit'[t] /\ visit[t] <= visit'[t]
    <2>1. visit[t] \in Nat /\ page[t] \in Nat /\ page[t] <= visit[t]
      BY DEF TypeOK, Ordered
    <2>2. QED
      BY <2>1, TabsMove
  <1>2. ASSUME NEW q \in Calls, Sent(q), Sent(q)'
        PROVE  call'[q].visit <= visit'[call'[q].tab]
    <2>1. /\ call'[q].visit = call[q].visit /\ call'[q].tab = call[q].tab
          /\ call[q].tab \in Tabs /\ call[q].visit \in Nat
      BY <1>2, CallsLast, SentTyped DEF Call
    <2>2. call[q].visit <= visit[call[q].tab] /\ visit[call[q].tab] <= visit'[call[q].tab]
      BY <1>1, <1>2, <2>1 DEF Ordered
    <2>3. visit[call[q].tab] \in Nat /\ visit'[call[q].tab] \in Nat
      BY <2>1 DEF TypeOK
    <2>4. QED
      BY <2>1, <2>2, <2>3
  <1>3. ASSUME NEW q \in Calls, ~Sent(q), Sent(q)'
        PROVE  call'[q].visit <= visit'[call'[q].tab]
    <2>1. PICK t \in Tabs, i \in Calls, kind \in {"login", "provision"},
               good \in BOOLEAN, body \in Drafts \cup {Null} :
              Send(i, t, kind, good, body) /\ visit' = visit
      BY <1>3, NewlySent
    <2>2. call'[q].visit = visit[t] /\ call'[q].tab = t
      BY <1>3, <2>1 DEF Send, Sent, TypeOK
    <2>3. QED
      BY <2>1, <2>2 DEF TypeOK
  <1>4. QED
    BY <1>1, <1>2, <1>3 DEF Ordered

\* An accepted login has a session for its answer.
LEMMA AcceptedIsGranted ==
    ASSUME TypeOK, Backed, [Next]_vars, NEW q \in Calls,
           At(q, "accepted")', call'[q].kind = "login"
    PROVE  call'[q].granted # Null
  <1>1. call \in [Calls -> Call \cup {Null}]
    BY DEF TypeOK
  <1>2. CASE call' = call
    BY <1>2 DEF Backed, At, Sent
  <1>3. ASSUME NEW i \in Calls, Ends(i), Sent(i) PROVE call'[q].granted # Null
    BY <1>1, <1>3, EndedTyped DEF Ends, Backed, At, Sent
  <1>4. CASE User
    <2>1. ASSUME NEW i \in Calls, NEW t \in Tabs, NEW kind, NEW good, NEW body,
                 Send(i, t, kind, good, body)
          PROVE  call'[q].granted # Null
      BY <1>1, <2>1 DEF Send, Backed, At, Sent
    <2>2. CASE CloseBrowser
      BY <1>1, <2>2, EndedTyped DEF CloseBrowser, At, Sent
    <2>3. ASSUME NEW t \in Tabs,
                 \/ \E content \in Drafts \cup {Null} : Edit(t, content)
                 \/ RejectForm(t)
                 \/ \E where \in {"login", "shell"} : Navigate(t, where)
                 \/ Reload(t)
          PROVE  call' = call
      BY <2>3 DEF Edit, RejectForm, Navigate, Reload
    <2>4. ASSUME NEW i \in Calls, NEW t \in Tabs,
                 (\E good \in BOOLEAN : SubmitLogin(i, t, good)) \/ ProvisionTenant(i, t)
          PROVE  call'[q].granted # Null
      BY <2>1, <2>4 DEF SubmitLogin, ProvisionTenant
    <2>5. QED
      BY <1>2, <1>4, <2>2, <2>3, <2>4 DEF User
  <1>5. ASSUME NEW i \in Calls, Answers(i) PROVE call'[q].granted # Null
    BY <1>3, <1>5 DEF Answers, LoginAccepted, LoginRefused, ProvisionAnswered,
                      AnswerDropped, At
  <1>6. ASSUME NEW i \in Calls, Admit(i) \/ CreateCompany(i)
        PROVE  call'[q].granted # Null
    <2>1. Sent(i) /\ call[i].kind \in {"login", "provision"}
      BY <1>6, SentTyped DEF Admit, CreateCompany, At, Call
    <2>2. PICK phase \in {"admitted", "refused", "accepted"} :
              Goes(i, phase) /\ (phase = "accepted" => call[i].kind = "provision")
      BY <1>6 DEF Admit, CreateCompany
    <2>3. call[i] \in Call
      BY <2>1, SentTyped
    <2>4. QED
      BY <1>1, <2>1, <2>2, <2>3 DEF Goes, Backed, At, Sent, Call
  <1>7. ASSUME NEW i \in Calls, Login(i) PROVE call'[q].granted # Null
    <2>1. call[i] \in Call
      BY <1>7, SentTyped DEF Login, At
    <2>2. CASE Goes(i, "refused")
      BY <1>1, <2>1, <2>2 DEF Goes, Backed, At, Sent, Call
    <2>3. CASE ~Goes(i, "refused")
      <3> DEFINE session == [key |-> config.signing, epoch |-> epoch]
      <3>1. session \in Session
        BY <1>7, <2>3, SignInAssumption DEF Login, TypeOK, Session, Config
      <3>2. call' = [call EXCEPT ![i].phase = "accepted", ![i].granted = session]
        BY <1>7, <2>3 DEF Login
      <3> HIDE DEF session
      <3>3. QED
        BY <1>1, <2>1, <3>1, <3>2, UnsentAssumption DEF Backed, At, Sent, Call
    <2>4. QED
      BY <2>2, <2>3
  <1>8. ASSUME NEW i \in Calls, Lose(i) PROVE call'[q].granted # Null
    <2>1. call[i] \in Call
      BY <1>8, SentTyped DEF Lose
    <2>2. QED
      BY <1>1, <1>8, <2>1 DEF Lose, Backed, At, Sent, Call
  <1>9. CASE Restart
    BY <1>1, <1>9 DEF Restart, Backed, At, Sent, Call
  <1>10. QED
    BY <1>2, <1>4, <1>5, <1>6, <1>7, <1>8, <1>9 DEF Next, Works, Ready, vars

\* The cookie is lost with the browser alone, and no page outlives that.
LEMMA CookieStays ==
    ASSUME TypeOK, Backed, [Next]_vars
    PROVE  cookie' # Null \/ \A t \in Tabs : ~authority'[t]
  <1>1. CASE \E i \in Calls : LoginAccepted(i)
    BY <1>1 DEF LoginAccepted, Backed
  <1>2. CASE \E i \in Calls : AnswerDropped(i)
    <2>1. cookie' # Null \/ (cookie = Null /\ authority' = authority)
      BY <1>2 DEF AnswerDropped, tab
    <2>2. QED
      BY <2>1 DEF Backed
  <1>3. CASE CloseBrowser
    BY <1>3 DEF CloseBrowser
  <1>4. CASE /\ ~CloseBrowser
             /\ \A i \in Calls : ~LoginAccepted(i) /\ ~AnswerDropped(i)
    <2>1. cookie' = cookie
      BY <1>4 DEF Next, User, Works, Answers, SubmitLogin, ProvisionTenant, Edit,
             RejectForm, Navigate, Reload, Admit, Login, CreateCompany, LoginRefused,
             ProvisionAnswered, Lose, Ready, Restart, vars
    <2>2. \A t \in Tabs : authority'[t] => authority[t]
      BY <1>4, TabsMove
    <2>3. QED
      BY <2>1, <2>2 DEF Backed
  <1>5. QED
    BY <1>1, <1>2, <1>3, <1>4

LEMMA BackedKept ==
    ASSUME TypeOK, TypeOK', Ordered, Backed, [Next]_vars
    PROVE  Backed'
  <1>1. ASSUME NEW t \in Tabs, route'[t] = "shell" PROVE authority'[t]
    BY <1>1, TabsMove DEF Backed
  <1>2. ASSUME NEW t \in Tabs, authority'[t] PROVE cookie' # Null
    BY <1>2, CookieStays
  <1>3. ASSUME NEW t \in Tabs, authority'[t] PROVE SignedIn(t)'
    <2>1. page'[t] = page[t]
      BY <1>3, TabsMove
    <2>2. ASSUME NEW i \in Calls, Sent(i), call'[i].phase = "over",
                 call'[i].granted # Null, call[i].tab = t, Current(i)
          PROVE  SignedIn(t)'
      BY <2>1, <2>2, CallsLast DEF SignedIn, At, Current
    <2>3. CASE authority[t]
      BY <2>2, <2>3, CallsLast DEF Backed, SignedIn, At
    <2>4. ASSUME NEW i \in Calls, LoginAccepted(i), call[i].tab = t PROVE SignedIn(t)'
      <3>1. Sent(i) /\ Current(i) /\ call[i].granted # Null
        BY <2>4 DEF LoginAccepted, At, Backed
      <3>2. call'[i].phase = "over" /\ call'[i].granted # Null
        BY <2>4, <3>1, SentTyped, EndedTyped DEF LoginAccepted, Ends, TypeOK
      <3>3. QED
        BY <2>2, <2>4, <3>1, <3>2
    <2>5. QED
      BY <1>3, <2>3, <2>4, TabsMove
  <1>4. QED
    BY <1>1, <1>2, <1>3, AcceptedIsGranted DEF Backed, At

\* Whoever sees the shell has signed in on this very page, and the browser
\* holds a session, whatever was reloaded, closed or answered late.
THEOREM ShellsAreBacked == Spec => []ShellIsBacked
  <1>1. Init => Ordered /\ Backed
    BY DEF Init, Ordered, Backed, At, Sent
  <1>2. TypeOK /\ TypeOK' /\ Ordered /\ Backed /\ [Next]_vars => Ordered' /\ Backed'
    BY OrderedKept, BackedKept
  <1>3. Backed => ShellIsBacked
    BY DEF Backed, SignedIn, ShellIsBacked
  <1>4. QED
    BY <1>1, <1>2, <1>3, TypeCorrect, PTL DEF Spec

-----------------------------------------------------------------------------
(* The provisioning form *)

\* Submission i of the form that tab t shows is on its way.
Waiting(i, t) ==
    /\ Sent(i) /\ call[i].kind = "provision" /\ call[i].phase # "over"
    /\ call[i].tab = t /\ SameView(i)

\* A form is pending while it has a submission on its way, and has one only.
Pending ==
    /\ \A t \in Tabs : view[t] = "submitting" <=> \E i \in Calls : Waiting(i, t)
    /\ \A t \in Tabs : \A i, j \in Calls : Waiting(i, t) /\ Waiting(j, t) => i = j

\* Companies are created for calls that were sent, before the call is
\* accepted; the form still has what it sent.
Truthful ==
    /\ \A i \in provisioned : Sent(i)
    /\ \A i \in Calls : At(i, "accepted") /\ call[i].kind = "provision" => i \in provisioned
    /\ \A t \in Tabs, i \in Calls : Waiting(i, t) => call[i].body = draft[t]
    /\ SuccessIsTrue

\* What a step does to the form of a tab.
SameForm(t) ==
    /\ visit'[t] = visit[t] /\ view'[t] = view[t] /\ draft'[t] = draft[t]
    /\ \A q \in Calls : Waiting(q, t)' <=> Waiting(q, t)

NewForm(t) ==
    /\ visit'[t] = visit[t] + 1 /\ view'[t] = "idle"
    /\ \A q \in Calls : ~Waiting(q, t)'

EditedForm(t) ==
    /\ visit'[t] = visit[t] /\ view[t] # "submitting" /\ view'[t] \in {"idle", "error"}
    /\ \A q \in Calls : Waiting(q, t)' <=> Waiting(q, t)

SubmittedForm(t) ==
    /\ visit'[t] = visit[t] /\ draft'[t] = draft[t]
    /\ view[t] # "submitting" /\ view'[t] = "submitting"
    /\ \E i \in Calls :
           /\ call'[i].body = draft[t]
           /\ \A q \in Calls : Waiting(q, t)' <=> Waiting(q, t) \/ q = i

AnsweredForm(t) ==
    /\ visit'[t] = visit[t] /\ draft'[t] = draft[t]
    /\ \E i \in Calls :
           /\ Waiting(i, t)
           /\ \/ view'[t] = "success" /\ At(i, "accepted")
              \/ view'[t] = "error"
           /\ \A q \in Calls : Waiting(q, t)' <=> Waiting(q, t) /\ q # i

\* As long as the view stays, a call waits until it is over.
LEMMA WaitsOn ==
    ASSUME TypeOK, [Next]_vars, NEW t \in Tabs, visit'[t] = visit[t],
           NEW q \in Calls, Sent(q)
    PROVE  Waiting(q, t)' <=> Waiting(q, t) /\ call'[q].phase # "over"
  <1>1. /\ Sent(q)'
        /\ call'[q].kind = call[q].kind /\ call'[q].tab = call[q].tab
        /\ call'[q].visit = call[q].visit
        /\ call[q].phase = "over" => call'[q].phase = "over"
    BY CallsLast
  <1>2. QED
    BY <1>1 DEF Waiting, SameView

LEMMA FormStays ==
    ASSUME TypeOK, [Next]_vars, NEW t \in Tabs,
           visit'[t] = visit[t],
           \A q \in Calls : Sent(q)' => Sent(q),
           \A q \in Calls : Waiting(q, t) => call'[q].phase # "over"
    PROVE  \A q \in Calls : Waiting(q, t)' <=> Waiting(q, t)
  BY WaitsOn DEF Waiting

\* Nobody waits for the answer of a view that has just been opened.
LEMMA FormOpens ==
    ASSUME TypeOK, TypeOK', Ordered, [Next]_vars, NEW t \in Tabs,
           visit'[t] = visit[t] + 1
    PROVE  \A q \in Calls : ~Waiting(q, t)'
  <1> SUFFICES ASSUME NEW q \in Calls, Waiting(q, t)' PROVE FALSE
    OBVIOUS
  <1>1. visit[t] \in Nat /\ visit'[t] # visit[t]
    BY DEF TypeOK
  <1>2. Sent(q)
    BY <1>1, NewlySent DEF Waiting
  <1>3. call[q].visit = visit'[t] /\ call[q].tab = t
    BY <1>2, CallsLast DEF Waiting, SameView
  <1>4. call[q].visit <= visit[t]
    BY <1>2, <1>3 DEF Ordered
  <1>5. QED
    BY <1>1, <1>3, <1>4

LEMMA UserForms ==
    ASSUME TypeOK, TypeOK', Ordered, User, NEW t \in Tabs
    PROVE  SameForm(t) \/ NewForm(t) \/ EditedForm(t) \/ SubmittedForm(t)
  <1> USE DEF TypeOK
  <1>0. [Next]_vars
    BY DEF Next
  <1>1. ASSUME NEW i \in Calls, NEW u \in Tabs, NEW good \in BOOLEAN,
               SubmitLogin(i, u, good)
        PROVE  SameForm(t)
    <2>1. UNCHANGED <<visit, view, draft>> /\ ~Sent(i) /\ call'[i].kind = "login"
          /\ \A q \in Calls : q # i => call'[q] = call[q]
      BY <1>1 DEF SubmitLogin, Send
    <2>2. ~Waiting(i, t) /\ ~Waiting(i, t)'
      BY <2>1 DEF Waiting
    <2>3. \A q \in Calls : q # i => (Waiting(q, t)' <=> Waiting(q, t))
      BY <2>1 DEF Waiting, Sent, SameView
    <2>4. QED
      BY <2>1, <2>2, <2>3 DEF SameForm
  <1>2. ASSUME NEW i \in Calls, NEW u \in Tabs, ProvisionTenant(i, u)
        PROVE  SameForm(t) \/ SubmittedForm(t)
    <2> DEFINE new == [kind |-> "provision", tab |-> u, visit |-> visit[u], good |-> TRUE,
                       body |-> draft[u], token |-> cookie, phase |-> "sent",
                       granted |-> Null, troubled |-> FALSE]
    <2>1. /\ UNCHANGED <<visit, draft>> /\ ~Sent(i) /\ call'[i] = new
          /\ view[u] # "submitting" /\ view' = [view EXCEPT ![u] = "submitting"]
          /\ \A q \in Calls : q # i => call'[q] = call[q]
      BY <1>2 DEF ProvisionTenant, Send
    <2>2. new \in Call
      BY DEF Call
    <2>3. /\ new.kind = "provision" /\ new.tab = u /\ new.visit = visit[u]
          /\ new.body = draft[u] /\ new.phase = "sent" /\ new # Null
      BY <2>2, UnsentAssumption
    <2> HIDE DEF new
    <2>4. ~Waiting(i, t) /\ (Waiting(i, t)' <=> t = u)
      BY <2>1, <2>3 DEF Waiting, Sent, SameView
    <2>5. \A q \in Calls : q # i => (Waiting(q, t)' <=> Waiting(q, t))
      BY <2>1 DEF Waiting, Sent, SameView
    <2>6. CASE t = u
      <3>1. \A q \in Calls : Waiting(q, t)' <=> Waiting(q, t) \/ q = i
        BY <2>4, <2>5, <2>6
      <3>2. QED
        BY <2>1, <2>3, <2>6, <3>1 DEF SubmittedForm
    <2>7. CASE t # u
      BY <2>1, <2>4, <2>5, <2>7 DEF SameForm
    <2>8. QED
      BY <2>6, <2>7
  <1>3. ASSUME NEW u \in Tabs,
               (\E content \in Drafts \cup {Null} : Edit(u, content)) \/ RejectForm(u)
        PROVE  SameForm(t) \/ EditedForm(t)
    <2>1. /\ UNCHANGED <<visit, call>> /\ view[u] # "submitting"
          /\ view' \in {[view EXCEPT ![u] = "idle"], [view EXCEPT ![u] = "error"]}
          /\ t # u => draft'[t] = draft[t]
      BY <1>3 DEF Edit, RejectForm
    <2>2. \A q \in Calls : Waiting(q, t)' <=> Waiting(q, t)
      BY <2>1 DEF Waiting, Sent, SameView
    <2>3. QED
      BY <2>1, <2>2 DEF SameForm, EditedForm
  <1>4. ASSUME NEW u \in Tabs, NEW where \in {"login", "shell"}, Shows(u, where), call' = call
        PROVE  SameForm(t) \/ NewForm(t)
    <2>1. CASE t = u
      <3>1. visit'[t] = visit[t] + 1 /\ view'[t] = "idle"
        BY <1>4, <2>1 DEF Shows
      <3>2. QED
        BY <1>0, <3>1, FormOpens DEF NewForm
    <2>2. CASE t # u
      <3>1. visit'[t] = visit[t] /\ view'[t] = view[t] /\ draft'[t] = draft[t]
        BY <1>4, <2>2 DEF Shows
      <3>2. QED
        BY <1>0, <1>4, <3>1, FormStays DEF SameForm, Waiting, Sent
    <2>3. QED
      BY <2>1, <2>2
  <1>5. CASE CloseBrowser
    <2>1. visit'[t] = visit[t] + 1 /\ view'[t] = "idle"
      BY <1>5 DEF CloseBrowser
    <2>2. QED
      BY <1>0, <2>1, FormOpens DEF NewForm
  <1>6. QED
    BY <1>1, <1>2, <1>3, <1>4, <1>5 DEF User, Navigate, Reload

LEMMA AnswerForms ==
    ASSUME TypeOK, TypeOK', Ordered, NEW i \in Calls, Answers(i), NEW t \in Tabs
    PROVE  SameForm(t) \/ NewForm(t) \/ AnsweredForm(t)
  <1> USE DEF TypeOK
  <1>0. [Next]_vars
    BY DEF Next
  <1>1. /\ Sent(i) /\ call[i].tab \in Tabs /\ call'[i].phase = "over"
        /\ call[i].visit \in Nat
        /\ \A q \in Calls : q # i => call'[q] = call[q]
    <2>1. Sent(i) /\ Ends(i)
      BY DEF Answers, LoginAccepted, LoginRefused, ProvisionAnswered, AnswerDropped, At
    <2>2. QED
      BY <2>1, SentTyped, EndedTyped DEF Ends, Call
  <1>2. \A q \in Calls : Sent(q)' => Sent(q)
    BY <1>1 DEF Sent
  <1>3. \A q \in Calls : q # i /\ Waiting(q, t) => call'[q].phase # "over"
    BY <1>1 DEF Waiting
  <1>4. ASSUME ~Waiting(i, t), visit'[t] = visit[t], view'[t] = view[t],
               draft'[t] = draft[t]
        PROVE  SameForm(t)
    BY <1>0, <1>2, <1>3, <1>4, FormStays DEF SameForm
  <1>5. CASE LoginAccepted(i)
    <2>1. ~Waiting(i, t)
      BY <1>5 DEF LoginAccepted, Waiting
    <2>2. CASE UNCHANGED <<visit, route, loading, view, draft>>
      BY <1>4, <2>1, <2>2
    <2>3. CASE Shows(call[i].tab, "shell")
      <3>1. CASE t = call[i].tab
        <4>1. visit'[t] = visit[t] + 1 /\ view'[t] = "idle"
          BY <2>3, <3>1 DEF Shows
        <4>2. QED
          BY <1>0, <4>1, FormOpens DEF NewForm
      <3>2. CASE t # call[i].tab
        <4>1. visit'[t] = visit[t] /\ view'[t] = view[t] /\ draft'[t] = draft[t]
          BY <1>1, <2>3, <3>2 DEF Shows
        <4>2. QED
          BY <1>4, <2>1, <4>1
      <3>3. QED
        BY <3>1, <3>2
    <2>4. QED
      BY <1>5, <2>2, <2>3 DEF LoginAccepted
  <1>6. CASE LoginRefused(i)
    BY <1>4, <1>6 DEF LoginRefused, Waiting
  <1>7. CASE ProvisionAnswered(i)
    <2>1. UNCHANGED <<visit, draft>>
      BY <1>7 DEF ProvisionAnswered
    <2>2. CASE Waiting(i, t)
      <3>1. \/ view'[t] = "success" /\ At(i, "accepted")
            \/ view'[t] = "error"
        BY <1>7, <2>2 DEF ProvisionAnswered, Waiting, At
      <3>2. ASSUME NEW q \in Calls
            PROVE  Waiting(q, t)' <=> Waiting(q, t) /\ q # i
        <4>1. CASE Sent(q)
          BY <1>0, <1>1, <1>3, <2>1, <4>1, WaitsOn
        <4>2. CASE ~Sent(q)
          BY <1>2, <4>2 DEF Waiting
        <4>3. QED
          BY <4>1, <4>2
      <3>3. QED
        BY <2>1, <2>2, <3>1, <3>2 DEF AnsweredForm
    <2>3. CASE ~Waiting(i, t)
      <3>1. view'[t] = view[t]
        BY <1>7, <2>3 DEF ProvisionAnswered, Waiting, At
      <3>2. QED
        BY <1>4, <2>1, <2>3, <3>1
    <2>4. QED
      BY <2>2, <2>3
  <1>8. CASE AnswerDropped(i)
    <2>1. ~Current(i) /\ UNCHANGED <<visit, view, draft>>
      BY <1>8 DEF AnswerDropped, tab
    <2>2. call[i].visit # visit[call[i].tab]
      <3>1. page[call[i].tab] <= visit[call[i].tab]
        BY <1>1 DEF Ordered
      <3>2. page[call[i].tab] \in Nat /\ visit[call[i].tab] \in Nat
        BY <1>1
      <3>3. QED
        BY <1>1, <2>1, <3>1, <3>2 DEF Current
    <2>3. QED
      BY <1>4, <2>1, <2>2 DEF Waiting, SameView
  <1>9. QED
    BY <1>5, <1>6, <1>7, <1>8 DEF Answers

\* What goes on elsewhere, the form does not see.
LEMMA ElsewhereForms ==
    ASSUME TypeOK, NEW t \in Tabs,
           (\E i \in Calls : Works(i) \/ Lose(i)) \/ Ready \/ Restart \/ UNCHANGED vars
    PROVE  SameForm(t)
  <1> USE DEF TypeOK
  <1>0. [Next]_vars
    BY DEF Next
  <1>1. UNCHANGED <<visit, view, draft>>
    BY DEF Works, Admit, Login, CreateCompany, Lose, Ready, Restart, vars, tab
  <1>2. ASSUME NEW q \in Calls
        PROVE  /\ Sent(q)' => Sent(q)
               /\ Sent(q) /\ call[q].phase # "over" => call'[q].phase # "over"
    <2>1. CASE call' = call
      BY <2>1 DEF Sent
    <2>2. ASSUME NEW i \in Calls, Works(i) \/ Lose(i)
          PROVE  /\ Sent(q)' => Sent(q)
                 /\ Sent(q) /\ call[q].phase # "over" => call'[q].phase # "over"
      <3>1. Sent(i) /\ call[i] \in Call /\ \A j \in Calls : j # i => call'[j] = call[j]
        BY <2>2, SentTyped DEF Works, Admit, Login, CreateCompany, Lose, At, Goes
      <3>2. call'[i].phase # "over"
        <4>1. CASE Admit(i) \/ CreateCompany(i) \/ Goes(i, "refused")
          BY <3>1, <4>1 DEF Admit, CreateCompany, Goes, Call
        <4>2. CASE /\ Login(i)
                   /\ call' = [call EXCEPT ![i].phase = "accepted",
                          ![i].granted = [key |-> config.signing, epoch |-> epoch]]
          <5> DEFINE session == [key |-> config.signing, epoch |-> epoch]
          <5>1. call' = [call EXCEPT ![i].phase = "accepted", ![i].granted = session]
            BY <4>2
          <5> HIDE DEF session
          <5>2. QED
            BY <3>1, <5>1 DEF Call
        <4>3. CASE Lose(i)
          BY <3>1, <4>3 DEF Lose, Call
        <4>4. QED
          BY <2>2, <4>1, <4>2, <4>3 DEF Works, Login
      <3>3. QED
        BY <3>1, <3>2 DEF Sent
    <2>3. CASE Restart
      BY <2>3, SentTyped DEF Restart, Sent, Call
    <2>4. QED
      BY <2>1, <2>2, <2>3 DEF Ready, vars
  <1>3. QED
    BY <1>0, <1>1, <1>2, FormStays DEF SameForm, Waiting

LEMMA FormSteps ==
    ASSUME TypeOK, TypeOK', Ordered, [Next]_vars, NEW t \in Tabs
    PROVE  SameForm(t) \/ NewForm(t) \/ EditedForm(t) \/ SubmittedForm(t) \/ AnsweredForm(t)
  BY UserForms, AnswerForms, ElsewhereForms DEF Next

LEMMA PendingKept ==
    ASSUME TypeOK, TypeOK', Ordered, Pending, [Next]_vars
    PROVE  Pending'
  <1> DEFINE Kept(t) ==
        /\ view'[t] = "submitting" <=> \E i \in Calls : Waiting(i, t)'
        /\ \A i, j \in Calls : Waiting(i, t)' /\ Waiting(j, t)' => i = j
  <1>1. ASSUME NEW t \in Tabs PROVE Kept(t)
    <2>1. CASE SameForm(t) \/ EditedForm(t) \/ NewForm(t)
      BY <2>1 DEF SameForm, EditedForm, NewForm, Pending
    <2>2. CASE SubmittedForm(t)
      BY <2>2 DEF SubmittedForm, Pending
    <2>3. CASE AnsweredForm(t)
      BY <2>3 DEF AnsweredForm, Pending
    <2>4. QED
      BY <2>1, <2>2, <2>3, FormSteps
  <1>2. QED
    BY <1>1 DEF Pending

\* A submission that is accepted made a company.
LEMMA AcceptedIsProvisioned ==
    ASSUME TypeOK, Truthful, [Next]_vars, NEW q \in Calls,
           At(q, "accepted")', call'[q].kind = "provision"
    PROVE  q \in provisioned'
  <1>1. call \in [Calls -> Call \cup {Null}]
    BY DEF TypeOK
  <1>2. CASE call' = call /\ provisioned' = provisioned
    BY <1>2 DEF Truthful, At, Sent
  <1>3. CASE User
    <2>1. ASSUME NEW i \in Calls, NEW t \in Tabs, NEW kind, NEW good, NEW body,
                 Send(i, t, kind, good, body), provisioned' = provisioned
          PROVE  q \in provisioned'
      BY <1>1, <2>1 DEF Send, Truthful, At, Sent
    <2>2. CASE CloseBrowser
      BY <1>1, <2>2, EndedTyped DEF CloseBrowser, At, Sent
    <2>3. ASSUME NEW t \in Tabs,
                 \/ \E content \in Drafts \cup {Null} : Edit(t, content)
                 \/ RejectForm(t)
                 \/ \E where \in {"login", "shell"} : Navigate(t, where)
                 \/ Reload(t)
          PROVE  call' = call /\ provisioned' = provisioned
      BY <2>3 DEF Edit, RejectForm, Navigate, Reload
    <2>4. ASSUME NEW i \in Calls, NEW t \in Tabs,
                 (\E good \in BOOLEAN : SubmitLogin(i, t, good)) \/ ProvisionTenant(i, t)
          PROVE  q \in provisioned'
      BY <2>1, <2>4 DEF SubmitLogin, ProvisionTenant
    <2>5. QED
      BY <1>2, <1>3, <2>2, <2>3, <2>4 DEF User
  <1>4. ASSUME NEW i \in Calls, Answers(i) PROVE q \in provisioned'
    <2>1. Ends(i) /\ Sent(i) /\ provisioned' = provisioned
      BY <1>4 DEF Answers, LoginAccepted, LoginRefused, ProvisionAnswered,
                  AnswerDropped, At
    <2>2. QED
      BY <1>1, <2>1, EndedTyped DEF Ends, Truthful, At, Sent
  <1>5. ASSUME NEW i \in Calls, CreateCompany(i) PROVE q \in provisioned'
    <2>1. call[i] \in Call
      BY <1>5, SentTyped DEF CreateCompany, At
    <2>2. CASE Goes(i, "accepted") /\ provisioned' = provisioned \cup {i}
      BY <1>1, <2>1, <2>2 DEF Goes, Truthful, At, Sent, Call
    <2>3. CASE Goes(i, "refused") /\ provisioned' = provisioned
      BY <1>1, <2>1, <2>3 DEF Goes, Truthful, At, Sent, Call
    <2>4. QED
      BY <1>5, <2>2, <2>3 DEF CreateCompany
  <1>6. ASSUME NEW i \in Calls, Admit(i) \/ Login(i) \/ Lose(i)
        PROVE  q \in provisioned'
    <2>1. /\ call[i] \in Call /\ provisioned' = provisioned
          /\ \A j \in Calls : j # i => call'[j] = call[j]
      BY <1>1, <1>6, SentTyped DEF Admit, Login, Lose, At, Goes
    <2>2. q # i
      <3>1. CASE Admit(i) \/ Lose(i) \/ Goes(i, "refused")
        BY <1>1, <2>1, <3>1 DEF Admit, Lose, Goes, At, Call
      <3>2. CASE Login(i)
        <4>1. call[i].kind = "login" /\ Sent(i)
          BY <3>2 DEF Login, At
        <4>2. call'[i].kind = "login"
          BY <4>1, CallsLast
        <4>3. QED
          BY <4>2
      <3>3. QED
        BY <1>6, <3>1, <3>2
    <2>3. QED
      BY <2>1, <2>2 DEF Truthful, At, Sent
  <1>7. CASE Restart
    <2>1. CASE Sent(q) /\ call[q].phase = "admitted"
      <3>1. call'[q].phase = "refused"
        BY <1>7, <2>1, SentTyped DEF Restart, Call
      <3>2. QED
        BY <3>1 DEF At
    <2>2. CASE call'[q] = call[q]
      BY <1>7, <2>2 DEF Restart, Truthful, At, Sent
    <2>3. QED
      BY <1>1, <1>7, <2>1, <2>2 DEF Restart
  <1>8. QED
    BY <1>2, <1>3, <1>4, <1>5, <1>6, <1>7 DEF Next, Works, Ready, vars

LEMMA ProvisionedGrows ==
    ASSUME [Next]_vars
    PROVE  /\ provisioned \subseteq provisioned'
           /\ \A q \in provisioned' : q \in provisioned \/ Sent(q)
  BY DEF Next, User, Works, Answers, SubmitLogin, ProvisionTenant, Edit, RejectForm,
         Navigate, Reload, CloseBrowser, Admit, Login, CreateCompany, LoginAccepted,
         LoginRefused, ProvisionAnswered, AnswerDropped, Lose, Ready, Restart, vars, At

LEMMA TruthfulKept ==
    ASSUME TypeOK, TypeOK', Ordered, Pending, Truthful, [Next]_vars
    PROVE  Truthful'
  <1>1. ASSUME NEW q \in provisioned' PROVE Sent(q)'
    BY <1>1, ProvisionedGrows, CallsLast DEF Truthful, TypeOK
  <1>2. ASSUME NEW q \in Calls, At(q, "accepted")', call'[q].kind = "provision"
        PROVE  q \in provisioned'
    BY <1>2, AcceptedIsProvisioned
  <1>3. ASSUME NEW t \in Tabs, NEW q \in Calls, Waiting(q, t)'
        PROVE  call'[q].body = draft'[t]
    <2>1. CASE Waiting(q, t)
      <3>1. view[t] = "submitting" /\ call'[q].body = call[q].body
        BY <2>1, CallsLast DEF Pending, Waiting
      <3>2. draft'[t] = draft[t]
        BY <1>3, <3>1, FormSteps
           DEF SameForm, NewForm, EditedForm, SubmittedForm, AnsweredForm
      <3>3. QED
        BY <2>1, <3>1, <3>2 DEF Truthful
    <2>2. CASE ~Waiting(q, t)
      BY <1>3, <2>2, FormSteps
         DEF SameForm, NewForm, EditedForm, SubmittedForm, AnsweredForm
    <2>3. QED
      BY <2>1, <2>2
  <1>4. ASSUME NEW t \in Tabs, view'[t] = "success"
        PROVE  \E i \in provisioned' :
                   call'[i].tab = t /\ SameView(i)' /\ call'[i].body = draft'[t]
    <2>1. ASSUME NEW i \in provisioned, call[i].tab = t, SameView(i),
                 call[i].body = draft[t], visit'[t] = visit[t], draft'[t] = draft[t]
          PROVE  i \in provisioned' /\ call'[i].tab = t /\ SameView(i)'
                 /\ call'[i].body = draft'[t]
      <3>1. i \in Calls /\ Sent(i) /\ i \in provisioned'
        BY <2>1, ProvisionedGrows DEF Truthful, TypeOK
      <3>2. QED
        BY <2>1, <3>1, CallsLast DEF SameView
    <2>2. CASE SameForm(t)
      BY <1>4, <2>1, <2>2 DEF SameForm, Truthful, SuccessIsTrue
    <2>3. CASE AnsweredForm(t)
      <3>1. PICK i \in Calls : Waiting(i, t) /\ At(i, "accepted")
        BY <1>4, <2>3 DEF AnsweredForm
      <3>2. i \in provisioned /\ call[i].body = draft[t]
        BY <3>1 DEF Waiting, Truthful
      <3>3. visit'[t] = visit[t] /\ draft'[t] = draft[t]
        BY <2>3 DEF AnsweredForm
      <3>4. QED
        BY <2>1, <3>1, <3>2, <3>3 DEF Waiting
    <2>4. QED
      BY <1>4, <2>2, <2>3, FormSteps DEF NewForm, EditedForm, SubmittedForm
  <1>5. QED
    BY <1>1, <1>2, <1>3, <1>4 DEF Truthful, SuccessIsTrue

\* What the console shows is inductive: its views, what they wait for, and
\* what became of it.
Shown == Ordered /\ Pending /\ Truthful

LEMMA AlwaysShown == Spec => [](TypeOK /\ Shown)
  <1>1. Init => Shown
    <2> SUFFICES ASSUME Init PROVE Shown
      OBVIOUS
    <2>1. Ordered
      BY DEF Init, Ordered, Sent
    <2>2. Pending
      BY DEF Init, Pending, Waiting, Sent
    <2>3. Truthful
      BY DEF Init, Truthful, SuccessIsTrue, Waiting, At, Sent
    <2>4. QED
      BY <2>1, <2>2, <2>3 DEF Shown
  <1>2. TypeOK /\ TypeOK' /\ Shown /\ [Next]_vars => Shown'
    BY OrderedKept, PendingKept, TruthfulKept DEF Shown
  <1>3. QED
    BY <1>1, <1>2, TypeCorrect, PTL DEF Spec

\* A form is pending for exactly one submission, however late answers are and
\* however many of its earlier views still wait for theirs.
THEOREM FormsWaitForOne == Spec => []PendingIsOneCall
  <1>1. Pending => PendingIsOneCall
    <2> SUFFICES ASSUME Pending, NEW t \in Tabs
                 PROVE  Cardinality({i \in Calls : Waiting(i, t)})
                            = IF view[t] = "submitting" THEN 1 ELSE 0
      BY DEF PendingIsOneCall, Waiting
    <2>1. CASE view[t] = "submitting"
      <3>1. PICK i \in Calls : Waiting(i, t)
        BY <2>1 DEF Pending
      <3>2. {q \in Calls : Waiting(q, t)} = {i}
        BY <3>1 DEF Pending
      <3>3. QED
        BY <2>1, <3>2, FS_Singleton
    <2>2. CASE view[t] # "submitting"
      <3>1. {q \in Calls : Waiting(q, t)} = {}
        BY <2>2 DEF Pending
      <3>2. QED
        BY <2>2, <3>1, FS_EmptySet
    <2>3. QED
      BY <2>1, <2>2
  <1>2. QED
    BY <1>1, AlwaysShown, PTL DEF Shown

\* A success a form shows is that of the company it still names.
THEOREM SuccessesAreTrue == Spec => []SuccessIsTrue
  <1>1. Truthful => SuccessIsTrue
    BY DEF Truthful
  <1>2. QED
    BY <1>1, AlwaysShown, PTL DEF Shown

=============================================================================
