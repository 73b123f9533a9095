---------------------------- MODULE AccessGuard ----------------------------
(***************************************************************************)
(* What tenant access promises: each request gets one answer, decided at   *)
(* one moment.  Whoever is entitled is granted, whoever is not is refused, *)
(* a refusal may block its own source for a while, and only a source whose *)
(* block is in force is turned away unheard.  There is no database here    *)
(* that could fail between the steps of an answer.                         *)
(***************************************************************************)
EXTENDS Integers

CONSTANTS
    Callers,   \* who may make a request, each makes one
    Asks,      \* the requests there are, each of an actor, a target and a source
    NotYet,    \* what a caller that has made no request has asked
    NoSource,  \* the source of a request whose address is not known
    Entitled,  \* the pairs of an actor and a company it administers
    Duration   \* how long a block lasts

VARIABLES
    clock,
    request,  \* what each caller has asked
    blocks,   \* the sources blocked, and until when
    reply     \* "none", "granted", "forbidden" or "too_many"

guardVars == <<clock, request, blocks, reply>>

Init ==
    /\ clock = 0
    /\ request = [c \in Callers |-> NotYet]
    /\ blocks = {}
    /\ reply = [c \in Callers |-> "none"]

Pass ==
    /\ clock' = clock + 1
    /\ UNCHANGED <<request, blocks, reply>>

Ask(c) ==
    /\ request[c] = NotYet
    /\ \E ask \in Asks : request' = [request EXCEPT ![c] = ask]
    /\ UNCHANGED <<clock, blocks, reply>>

Answer(c, status) ==
    /\ request[c] \in Asks
    /\ reply[c] = "none"
    /\ reply' = [reply EXCEPT ![c] = status]
    /\ UNCHANGED <<clock, request>>

IsEntitled(ask) == <<ask.actor, ask.target>> \in Entitled

Grant(c) ==
    /\ Answer(c, "granted")
    /\ IsEntitled(request[c])
    /\ UNCHANGED blocks

\* A block is put on the source of the refused request itself.
Forbid(c) ==
    /\ Answer(c, "forbidden")
    /\ ~IsEntitled(request[c])
    /\ \/ UNCHANGED blocks
       \/ /\ request[c].source # NoSource
          /\ blocks' = blocks \cup {[source |-> request[c].source,
                                     until  |-> clock + Duration]}

\* The last moment of a block is part of it.
TurnAway(c) ==
    /\ Answer(c, "too_many")
    /\ \E b \in blocks : b.source = request[c].source /\ b.until >= clock
    /\ UNCHANGED blocks

Next == Pass \/ \E c \in Callers : Ask(c) \/ Grant(c) \/ Forbid(c) \/ TurnAway(c)

Spec == Init /\ [][Next]_guardVars

=============================================================================
