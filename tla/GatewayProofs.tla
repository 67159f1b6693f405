--------------------------- MODULE GatewayProofs ---------------------------
(***************************************************************************)
(* Proofs about Gateway, for any number of browser requests and instances  *)
(* and any deadlines with the headroom that the code gives them.           *)
(***************************************************************************)
EXTENDS Gateway, HostControlProofs

-----------------------------------------------------------------------------
(* The page and the gateway's handlers.                                    *)

\* What Gateway adds to the state of the host has its types, and a handler
\* at work has an instance.
PageTypeOK ==
    /\ phase \in [Requests -> Stages]
    /\ inst \in [Requests -> Servers \union {None}]
    /\ clock \in [Requests -> 0 .. ActionTimeout]
    /\ busy \in [Requests -> 0 .. RconTime]
    /\ card \in [Servers -> Cards]
    /\ seen \in [Requests -> SUBSET BOOLEAN]
    /\ \A p \in Requests : phase[p] # "idle" => inst[p] \in Servers

LEMMA DeadlineType ==
    ASSUME NEW v
    PROVE  Deadline(v) \in 1 .. ActionTimeout
BY HeadroomAssumption, ServersAssumption DEF Deadline

\* What a status call has seen of the port is a set of truth values.
LEMMA SeesType ==
    ASSUME PageTypeOK, Sees
    PROVE  seen' \in [Requests -> SUBSET BOOLEAN]
<1>1. \A b : {Listening(b)} \subseteq BOOLEAN
  BY DEF Listening
<1>2. ASSUME NEW p \in Requests
      PROVE  (IF phase'[p] # "asking" THEN {}
              ELSE (IF phase[p] = "asking" THEN seen[p] ELSE {})
                   \union {Listening(backend'[inst'[p]])}) \in SUBSET BOOLEAN
  <2>1. {Listening(backend'[inst'[p]])} \subseteq BOOLEAN
    BY <1>1
  <2>2. seen[p] \subseteq BOOLEAN
    BY DEF PageTypeOK
  <2> QED
    BY <2>1, <2>2
<1> QED
  BY <1>2 DEF Sees

\* A handler that answers, or makes a call, keeps the types.
LEMMA ShowsType ==
    ASSUME PageTypeOK, NEW p \in Requests, NEW what \in Cards, Shows(p, what),
           busy' \in [Requests -> 0 .. RconTime], Sees
    PROVE  PageTypeOK'
<1> USE HeadroomAssumption, ServersAssumption DEF PageTypeOK, Shows, Stages
<1>1. seen' \in [Requests -> SUBSET BOOLEAN]
  BY SeesType
<1>2. card' \in [Servers -> Cards]
  OBVIOUS
<1>3. clock' \in [Requests -> 0 .. ActionTimeout]
  OBVIOUS
<1>4. /\ phase' \in [Requests -> Stages]
      /\ inst' \in [Requests -> Servers \union {None}]
  OBVIOUS
<1>5. \A q \in Requests : phase'[q] # "idle" => inst'[q] \in Servers
  OBVIOUS
<1> QED
  BY <1>1, <1>2, <1>3, <1>4, <1>5

LEMMA CallsType ==
    ASSUME PageTypeOK, NEW p \in Requests, NEW v, NEW i \in Servers, NEW next \in Stages,
           Calls(p, v, i, next), UNCHANGED <<card, busy>>, Sees
    PROVE  PageTypeOK'
BY SeesType, DeadlineType DEF PageTypeOK, Calls

\* So does every step of the composition.
LEMMA PageType ==
    ASSUME PageTypeOK, GatewayNext
    PROVE  PageTypeOK'
<1> USE HeadroomAssumption, ServersAssumption
<1>0. Sees /\ seen' \in [Requests -> SUBSET BOOLEAN]
  BY SeesType DEF GatewayNext
<1>1. ASSUME NEW p \in Requests, NEW i \in Servers,
             Refresh(p, i) \/ \E v \in Verbs : Click(p, v, i)
      PROVE  PageTypeOK'
  BY <1>0, <1>1, CallsType DEF Refresh, Click, Stages
<1>2. ASSUME NEW p \in Requests, ActionAnswered(p) PROVE PageTypeOK'
  <2>1. CASE result[p] = "ok"
    BY <1>0, <1>2, <2>1 DEF ActionAnswered, PageTypeOK, Stages
  <2>2. CASE result[p] # "ok"
    BY <1>0, <1>2, <2>2, ShowsType DEF ActionAnswered, Cards, PageTypeOK
  <2> QED
    BY <2>1, <2>2
<1>3. ASSUME NEW p \in Requests, AskNext(p) PROVE PageTypeOK'
  BY <1>0, <1>3, CallsType DEF AskNext, Stages, PageTypeOK
<1>4. ASSUME NEW p \in Requests, StatusAnswered(p) PROVE PageTypeOK'
  <2>1. busy' \in [Requests -> 0 .. RconTime]
    BY <1>4 DEF StatusAnswered, PageTypeOK
  <2> QED
    BY <1>0, <1>4, <2>1, ShowsType DEF StatusAnswered, Cards
<1>5. ASSUME NEW p \in Requests, Expire(p) PROVE PageTypeOK'
  BY <1>0, <1>5, ShowsType DEF Expire, Cards, PageTypeOK
<1>6. ASSUME NEW p \in Requests, Serves(p) PROVE PageTypeOK'
  <2>1. busy' \in [Requests -> 0 .. RconTime]
    BY <1>6 DEF Serves, Exchanges, PageTypeOK
  <2> QED
    BY <1>0, <1>6, <2>1 DEF Serves, page, PageTypeOK
<1>7. ASSUME NEW p \in Requests, Leave(p) PROVE PageTypeOK'
  BY <1>0, <1>7 DEF Leave, PageTypeOK, Stages
<1>8. ASSUME NEW i \in Servers, GatewayServerMoves(i) PROVE PageTypeOK'
  BY <1>0, <1>8 DEF GatewayServerMoves, page, PageTypeOK
<1>9. CASE GatewayTick
  BY <1>0, <1>9 DEF GatewayTick, PageTypeOK
<1> QED
  BY <1>1, <1>2, <1>3, <1>4, <1>5, <1>6, <1>7, <1>8, <1>9 DEF GatewayNext, GatewayStep

LEMMA PageCorrect == GatewaySpec => []PageTypeOK
<1>1. GatewayInit => PageTypeOK
  BY HeadroomAssumption, ServersAssumption DEF GatewayInit, PageTypeOK, Stages, Cards
<1>2. PageTypeOK /\ [GatewayNext]_gvars => PageTypeOK'
  BY PageType DEF gvars, page, PageTypeOK
<1> QED
  BY <1>1, <1>2, PTL DEF GatewaySpec

-----------------------------------------------------------------------------
(* The gateway is one of the clients that HostControl allows.              *)

\* Every step of the composition is a step of the host.
LEMMA HostStep ==
    ASSUME PageTypeOK, GatewayNext
    PROVE  Next
<1>1. ASSUME NEW p \in Requests, NEW i \in Servers,
             Refresh(p, i) \/ \E v \in Verbs : Click(p, v, i)
      PROVE  Next
  BY <1>1 DEF Refresh, Click, Next
<1>2. ASSUME NEW p \in Requests, AskNext(p) PROVE Next
  BY <1>2 DEF AskNext, PageTypeOK, Next
<1>3. ASSUME NEW p \in Requests, Serves(p) PROVE Next
  BY <1>3, CallersAssumption DEF Serves, AnswersNobody, RequestStep, Next
<1>4. ASSUME NEW p \in Requests,
             ActionAnswered(p) \/ StatusAnswered(p) \/ Expire(p) \/ Leave(p)
      PROVE  Next
  BY <1>4 DEF ActionAnswered, StatusAnswered, Expire, Leave, RequestStep, Next
<1>5. CASE GatewayTick \/ \E i \in Servers : GatewayServerMoves(i)
  BY <1>5 DEF GatewayTick, GatewayServerMoves, Next
<1> QED
  BY <1>1, <1>2, <1>3, <1>4, <1>5 DEF GatewayNext, GatewayStep

\* The host behind the gateway is the host of HostControl: nothing that the
\* gateway adds makes it take a step that HostControl does not have, so what
\* is proved of every client holds for this one.
THEOREM GatewayIsAClient == GatewaySpec => Spec
<1>1. GatewayInit => Init
  BY DEF GatewayInit
<1>2. PageTypeOK /\ [GatewayNext]_gvars => [Next]_vars
  BY HostStep DEF gvars
<1> QED
  BY <1>1, <1>2, PageCorrect, PTL DEF GatewaySpec, Spec

\* Every variable of the host and of the gateway has its type.
THEOREM GatewayTypeCorrect == GatewaySpec => []GatewayTypeOK
<1>1. TypeOK /\ PageTypeOK => GatewayTypeOK
  BY DEF PageTypeOK, GatewayTypeOK
<1> QED
  BY <1>1, PageCorrect, GatewayIsAClient, TypeCorrect, PTL

-----------------------------------------------------------------------------
(* Headroom: the deadline of a button's call is longer than what its host  *)
(* can be kept waiting for.  A tick takes as much from the deadline as     *)
(* from the wait, so it is the order of the two that is carried along.     *)

\* What is left of the deadline exceeds what is left of the waits.
Headroom(p) ==
    phase[p] = "acting" =>
        /\ clock[p] > 0
        /\ step[p] = "probe" => clock[p] = ActionTimeout
        /\ step[p] = "send" => clock[p] > busy[p] + StopTimeout
        /\ step[p] = "await" => clock[p] > left[p]

\* The steps that a host's request takes, for its own caller.
LEMMA ServesKeepsHeadroom ==
    ASSUME GatewayTypeOK, NEW p \in Requests, Headroom(p), Serves(p),
           busy'[p] \in 0 .. RconTime
    PROVE  Headroom(p)'
<1> USE HeadroomAssumption, ServersAssumption, CallersAssumption
    DEF GatewayTypeOK, TypeOK, MaintenanceTypeOK, Headroom, page
<1>1. phase'[p] = phase[p] /\ clock'[p] = clock[p]
  BY DEF Serves
<1>2. step[p] = "send" /\ step'[p] = "send" => busy'[p] = busy[p]
  BY DEF Serves, Exchanges, Exchanging
<1>3. CASE step'[p] = step[p] /\ left'[p] = left[p]
  BY <1>1, <1>2, <1>3
<1>4. CASE RestartStarts(p)
  BY <1>1, <1>3, <1>4 DEF RestartStarts, Call
<1>5. CASE AnswersNobody(p)
  BY <1>1, <1>5 DEF AnswersNobody
<1>6. CASE CallStep(p)
  <2> USE <1>6 DEF Step, Return
  <2>1. CASE StopProbe(p)
    BY <1>1, <2>1 DEF StopProbe
  <2>2. CASE SendStop(p)
    BY <1>1, <2>2 DEF SendStop
  <2>3. CASE SendStopFails(p) \/ StopTimesOut(p)
    BY <1>1, <2>3 DEF SendStopFails, StopTimesOut
  <2>4. CASE StoppedCleanly(p) \/ ForceKill(p) \/ ForceKillFails(p)
    BY <1>1, <2>4 DEF StoppedCleanly, ForceKill, ForceKillFails
  <2>5. CASE Resume(p) \/ CommandReturns(p) \/ ResumeFails(p)
    BY <1>1, <2>5 DEF Resume, CommandReturns, ResumeFails
  <2> QED
    BY <2>1, <2>2, <2>3, <2>4, <2>5 DEF CallStep, MaintenanceStep
<1> QED
  BY <1>3, <1>4, <1>5, <1>6 DEF Serves, StopReturned, StartReturned, StatusDial, StatusLock, call

\* A request's steps do not touch what another one is waiting for.
LEMMA ServesKeepsOthers ==
    ASSUME GatewayTypeOK, NEW p \in Requests, NEW q \in Requests, q # p, Serves(p)
    PROVE  /\ step'[q] = step[q]
           /\ left'[q] = left[q]
           /\ busy'[q] = busy[q]
           /\ target'[q] = target[q]
           /\ at'[q] = at[q]
           /\ cancelled'[q] = cancelled[q]
           /\ online'[q] = online[q]
<1> USE CallersAssumption DEF GatewayTypeOK, TypeOK, MaintenanceTypeOK, At, call, request, status
<1>1. busy'[q] = busy[q]
  BY DEF Serves, Exchanges
<1>2. CASE CallStep(p)
  BY <1>1, <1>2 DEF CallStep, MaintenanceStep, StopProbe, SendStop, SendStopFails,
     StoppedCleanly, StopTimesOut, ForceKill, ForceKillFails, Resume, CommandReturns,
     ResumeFails, Step, Return
<1>3. CASE ~CallStep(p)
  BY <1>1, <1>3 DEF Serves, StopReturned, RestartStarts, StartReturned, StatusDial, StatusLock,
     AnswersNobody, Reply, Call
<1> QED
  BY <1>2, <1>3

\* Time passes only while the call waits, for the same in both.
LEMMA TickKeepsHeadroom ==
    ASSUME GatewayTypeOK, NEW p \in Requests, Headroom(p), GatewayTick
    PROVE  Headroom(p)'
<1> USE HeadroomAssumption, ServersAssumption, CallersAssumption
    DEF GatewayTypeOK, TypeOK, MaintenanceTypeOK
<1> SUFFICES ASSUME phase[p] = "acting" PROVE Headroom(p)'
  BY DEF Headroom, GatewayTick
<1>1. /\ step[p] \in {"send", "await"}
      /\ step[p] = "send" => busy[p] > 0
      /\ step[p] = "await" => left[p] > 0
  BY DEF GatewayTick, Prompt
<1>2. /\ clock'[p] = IF clock[p] > 0 THEN clock[p] - 1 ELSE 0
      /\ busy'[p] = IF busy[p] > 0 THEN busy[p] - 1 ELSE 0
      /\ left'[p] = IF left[p] > 0 THEN left[p] - 1 ELSE 0
      /\ step'[p] = step[p]
  BY DEF GatewayTick, Tick, WaitTick
<1> QED
  BY <1>1, <1>2 DEF Headroom

\* The call of a start, a stop or a restart is answered before its deadline
\* passes, however slow RCON and the server are: the host's own deadlines end
\* it first.
THEOREM ActionsFit == GatewaySpec => []ActionNotCutOff
<1> DEFINE Inv == \A p \in Requests : Headroom(p)
<1>1. GatewayInit => Inv
  BY DEF GatewayInit, Headroom
<1>2. GatewayTypeOK /\ PageTypeOK' /\ Inv /\ [GatewayNext]_gvars => Inv'
  <2> SUFFICES ASSUME GatewayTypeOK, PageTypeOK', Inv, [GatewayNext]_gvars,
                      NEW p \in Requests
               PROVE  Headroom(p)'
    OBVIOUS
  <2>0. Headroom(p)
    OBVIOUS
  <2> HIDE DEF Inv
  <2> USE <2>0, HeadroomAssumption, ServersAssumption, CallersAssumption
      DEF GatewayTypeOK, TypeOK, MaintenanceTypeOK
  <2>1. CASE UNCHANGED gvars
    BY <2>1 DEF gvars, vars, page, call, Headroom
  <2>2. ASSUME NEW q \in Requests, NEW i \in Servers, Refresh(q, i) PROVE Headroom(p)'
    BY <2>2 DEF Refresh, Ask, Call, Calls, Headroom
  <2>3. ASSUME NEW q \in Requests, NEW i \in Servers, NEW v \in Verbs, Click(q, v, i)
        PROVE  Headroom(p)'
    <3>1. v # "status" /\ Deadline(v) = ActionTimeout
      BY <2>3 DEF Click, Act, Deadline
    <3> QED
      BY <2>3, <3>1 DEF Click, Act, Call, Calls, Headroom
  <2>4. ASSUME NEW q \in Requests, ActionAnswered(q) \/ StatusAnswered(q) PROVE Headroom(p)'
    <3>1. q # p => /\ step'[p] = step[p] /\ left'[p] = left[p] /\ busy'[p] = busy[p]
                   /\ phase'[p] = phase[p] /\ clock'[p] = clock[p]
      BY <2>4 DEF ActionAnswered, StatusAnswered, Reply, Call, Shows
    <3>2. phase'[q] # "acting"
      BY <2>4 DEF ActionAnswered, StatusAnswered, Shows
    <3> QED
      BY <3>1, <3>2 DEF Headroom
  <2>5. ASSUME NEW q \in Requests, AskNext(q) PROVE Headroom(p)'
    BY <2>5 DEF AskNext, Ask, Call, Calls, Headroom
  <2>6. ASSUME NEW q \in Requests, Expire(q) \/ Leave(q) PROVE Headroom(p)'
    BY <2>6 DEF Expire, Leave, Cancel, Shows, call, Headroom
  <2>7. ASSUME NEW q \in Requests, Serves(q) PROVE Headroom(p)'
    <3>1. CASE q = p
      BY <2>7, <3>1, ServesKeepsHeadroom DEF PageTypeOK
    <3>2. CASE q # p
      BY <2>7, <3>2, ServesKeepsOthers DEF Headroom, Serves, page
    <3> QED
      BY <3>1, <3>2
  <2>8. ASSUME NEW i \in Servers, GatewayServerMoves(i) PROVE Headroom(p)'
    BY <2>8 DEF GatewayServerMoves, ServerMoves, BackendMoves, page, call, Headroom
  <2> QED
    BY <2>1, <2>2, <2>3, <2>4, <2>5, <2>6, <2>7, <2>8, TickKeepsHeadroom
       DEF GatewayNext, GatewayStep
<1>3. Inv => ActionNotCutOff
  BY DEF Headroom, ActionNotCutOff
<1> QED
  BY <1>1, <1>2, <1>3, GatewayTypeCorrect, PageCorrect, PTL DEF GatewaySpec

-----------------------------------------------------------------------------
(* Fragments: what a status call reports is something that it has seen.    *)

\* While a browser waits for a status, its request of the host is at one of
\* the steps of Status, is not cancelled, is about the same instance, and
\* has taken its dial from what the port was meanwhile.
Honest(p) ==
    /\ at[p] = "idle" => ~cancelled[p]
    /\ phase[p] = "asking" =>
         /\ at[p] \in {"dial", "lock", "reply"}
         /\ ~cancelled[p]
         /\ target[p] = inst[p]
         /\ at[p] \in {"lock", "reply"} => online[p] \in seen[p]

\* A handler that goes on waiting forgets nothing of what it has seen.
LEMMA SeenGrows ==
    ASSUME NEW p \in Requests, Sees, phase[p] = "asking", phase'[p] = "asking"
    PROVE  /\ seen[p] \subseteq seen'[p]
           /\ Listening(backend'[inst'[p]]) \in seen'[p]
<1>1. seen'[p] = seen[p] \union {Listening(backend'[inst'[p]])}
  BY DEF Sees
<1> QED
  BY <1>1

\* Nothing else can make it dishonest.
LEMMA StaysHonest ==
    ASSUME NEW p \in Requests, Honest(p), Sees,
           at'[p] = at[p], cancelled'[p] = cancelled[p], target'[p] = target[p],
           online'[p] = online[p], phase'[p] = phase[p], inst'[p] = inst[p]
    PROVE  Honest(p)'
BY SeenGrows DEF Honest

\* The host's own steps: the dial reads the port that the page is about.
LEMMA ServesKeepsHonest ==
    ASSUME GatewayTypeOK, NEW p \in Requests, Honest(p), Serves(p), Sees
    PROVE  Honest(p)'
<1> USE CallersAssumption DEF GatewayTypeOK, TypeOK, MaintenanceTypeOK, At
<1>1. phase'[p] = phase[p] /\ inst'[p] = inst[p]
  BY DEF Serves, page
<1>2. phase[p] = "asking" => /\ seen[p] \subseteq seen'[p]
                             /\ Listening(backend'[inst[p]]) \in seen'[p]
  BY <1>1, SeenGrows
<1>3. CASE StopReturned(p) \/ RestartStarts(p) \/ StartReturned(p)
  BY <1>1, <1>3 DEF StopReturned, RestartStarts, StartReturned, Honest
<1>4. CASE StatusDial(p)
  <2>1. /\ at'[p] = "lock" /\ cancelled'[p] = cancelled[p] /\ target'[p] = target[p]
        /\ backend' = backend
        /\ online'[p] = (Listening(backend[target[p]]) /\ ~cancelled[p])
    BY <1>4 DEF StatusDial, call
  <2>2. CASE phase[p] # "asking"
    BY <1>1, <2>1, <2>2 DEF Honest
  <2>3. CASE phase[p] = "asking"
    <3>1. ~cancelled[p] /\ target[p] = inst[p]
      BY <2>3 DEF Honest
    <3>2. online'[p] = Listening(backend'[inst[p]])
      BY <2>1, <3>1 DEF Listening
    <3>3. online'[p] \in seen'[p]
      BY <1>2, <2>3, <3>2, Zenon
    <3> QED
      BY <1>1, <2>1, <3>1, <3>3 DEF Honest
  <2> QED
    BY <2>2, <2>3
<1>5. CASE StatusLock(p)
  BY <1>1, <1>2, <1>5 DEF StatusLock, Honest, call
<1>6. CASE AnswersNobody(p)
  BY <1>1, <1>6 DEF AnswersNobody, Reply, Honest
<1>7. CASE CallStep(p)
  <2>1. UNCHANGED <<request, status, target>>
    BY <1>7 DEF CallStep, MaintenanceStep, StopProbe, SendStop, SendStopFails, StoppedCleanly,
       StopTimesOut, ForceKill, ForceKillFails, Resume, CommandReturns, ResumeFails
  <2> QED
    BY <1>1, <1>2, <2>1 DEF request, status, Honest
<1> QED
  BY <1>3, <1>4, <1>5, <1>6, <1>7 DEF Serves

\* What a card is given was the case at some moment since the browser asked
\* for it, whatever other requests are at work on the same instance and
\* whichever of them were cancelled before.
THEOREM FragmentsAreTrue == GatewaySpec => []FragmentIsTrue
<1> DEFINE Inv == \A p \in Requests : Honest(p)
<1>1. GatewayInit => Inv
  BY CallersAssumption DEF GatewayInit, Init, Honest
<1>2. GatewayTypeOK /\ PageTypeOK /\ Inv /\ [GatewayNext]_gvars => Inv'
  <2> SUFFICES ASSUME GatewayTypeOK, PageTypeOK, Inv, [GatewayNext]_gvars,
                      NEW p \in Requests
               PROVE  Honest(p)'
    OBVIOUS
  <2>0. Honest(p)
    OBVIOUS
  <2> HIDE DEF Inv
  <2>1. CASE UNCHANGED gvars
    BY <2>0, <2>1 DEF gvars, vars, page, call, request, status, Honest
  <2>2. CASE GatewayNext
    <3> USE <2>0, CallersAssumption DEF GatewayTypeOK, TypeOK, MaintenanceTypeOK, At, Call,
            Calls, Shows
    <3>0. Sees
      BY <2>2 DEF GatewayNext
    <3>1. ASSUME NEW q \in Requests, q # p,
                 \/ \E i \in Servers : Refresh(q, i) \/ \E v \in Verbs : Click(q, v, i)
                 \/ ActionAnswered(q) \/ AskNext(q) \/ StatusAnswered(q)
                 \/ Expire(q) \/ Leave(q)
          PROVE  Honest(p)'
      <4>1. /\ at'[p] = at[p] /\ cancelled'[p] = cancelled[p] /\ target'[p] = target[p]
            /\ online'[p] = online[p] /\ phase'[p] = phase[p] /\ inst'[p] = inst[p]
        BY <3>1 DEF Refresh, Click, Ask, Act, ActionAnswered, AskNext, StatusAnswered, Reply,
           Expire, Leave, Cancel, status, call
      <4> QED
        BY <3>0, <4>1, StaysHonest
    <3>2. ASSUME NEW i \in Servers, Refresh(p, i) PROVE Honest(p)'
      BY <3>2 DEF Refresh, Ask, Honest
    <3>3. ASSUME NEW i \in Servers, NEW v \in Verbs, Click(p, v, i) PROVE Honest(p)'
      BY <3>3 DEF Click, Act, Honest
    <3>4. CASE ActionAnswered(p) \/ StatusAnswered(p)
      BY <3>4 DEF ActionAnswered, StatusAnswered, Reply, Stages, Honest
    <3>5. CASE AskNext(p)
      BY <3>5 DEF AskNext, Ask, PageTypeOK, Honest
    <3>6. CASE Expire(p) \/ Leave(p)
      BY <3>6 DEF Expire, Leave, Cancel, Honest
    <3>7. ASSUME NEW q \in Requests, Serves(q) PROVE Honest(p)'
      <4>1. CASE q = p
        BY <3>0, <3>7, <4>1, ServesKeepsHonest
      <4>2. CASE q # p
        BY <3>0, <3>7, <4>2, ServesKeepsOthers, StaysHonest DEF Serves, page
      <4> QED
        BY <4>1, <4>2
    <3>8. ASSUME NEW i \in Servers, GatewayServerMoves(i) PROVE Honest(p)'
      BY <3>0, <3>8, StaysHonest
         DEF GatewayServerMoves, ServerMoves, BackendMoves, page, request, status, call
    <3>9. CASE GatewayTick
      BY <3>0, <3>9, StaysHonest DEF GatewayTick, Tick, WaitTick, request, status
    <3>10. ASSUME NEW q \in Requests, GatewayStep(q) \/ Leave(q) PROVE Honest(p)'
      <4>1. CASE q = p
        BY <3>4, <3>5, <3>6, <3>7, <3>10, <4>1 DEF GatewayStep
      <4>2. CASE q # p
        BY <3>1, <3>7, <3>10, <4>2 DEF GatewayStep
      <4> QED
        BY <4>1, <4>2
    <3>11. ASSUME NEW q \in Requests, NEW i \in Servers,
                  Refresh(q, i) \/ \E v \in Verbs : Click(q, v, i)
           PROVE  Honest(p)'
      <4>1. CASE q = p
        BY <3>2, <3>3, <3>11, <4>1
      <4>2. CASE q # p
        BY <3>1, <3>11, <4>2
      <4> QED
        BY <4>1, <4>2
    <3> QED
      BY <2>2, <3>8, <3>9, <3>10, <3>11 DEF GatewayNext
  <2> QED
    BY <2>1, <2>2
<1>3. Inv => FragmentIsTrue
  BY DEF Honest, FragmentIsTrue
<1> QED
  BY <1>1, <1>2, <1>3, GatewayTypeCorrect, PageCorrect, PTL DEF GatewaySpec

=============================================================================
