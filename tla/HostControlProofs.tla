------------------------- MODULE HostControlProofs -------------------------
(***************************************************************************)
(* Proofs about HostControl: any number of instances, of requests and of   *)
(* maintenance commands, on any set of instances without RCON or with a    *)
(* shared process name.                                                    *)
(***************************************************************************)
EXTENDS HostControl, TLAPS

-----------------------------------------------------------------------------
(* Types.                                                                  *)

\* The phases that the operators of Backend lead to.
LEMMA PhaseType ==
    ASSUME NEW b \in Phases
    PROVE  /\ Started(b) \in Phases
           /\ Stopped(b) \in Phases
BY DEF Phases, Started, Stopped

\* A call begins with values of the right types.
LEMMA CallType ==
    ASSUME MaintenanceTypeOK, NEW c \in Callers, NEW first \in Steps,
           NEW i \in Servers \union {None}, Call(c, first, i), UNCHANGED backend
    PROVE  MaintenanceTypeOK'
BY DEF MaintenanceTypeOK, Call, Results

\* The steps of a Stop or a Resume keep the types.
LEMMA CallStepType ==
    ASSUME MaintenanceTypeOK, NEW c \in Callers, MaintenanceStep(c)
    PROVE  MaintenanceTypeOK'
<1> USE ServersAssumption DEF MaintenanceTypeOK, Steps, Results, Step, Return
<1>1. CASE StopProbe(c)
  BY <1>1 DEF StopProbe
<1>2. CASE SendStop(c)
  <2>1. \A b \in Phases : Stopped(b) \in Phases
    BY PhaseType
  <2>2. backend' \in [Servers -> Phases]
    BY <1>2, <2>1 DEF SendStop
  <2> QED
    BY <1>2, <2>2 DEF SendStop
<1>3. CASE SendStopFails(c)
  BY <1>3 DEF SendStopFails
<1>4. CASE StoppedCleanly(c)
  BY <1>4 DEF StoppedCleanly
<1>5. CASE StopTimesOut(c)
  BY <1>5 DEF StopTimesOut
<1>6. CASE ForceKill(c)
  BY <1>6 DEF ForceKill, Phases
<1>7. CASE ForceKillFails(c)
  BY <1>7 DEF ForceKillFails
<1>8. CASE Resume(c)
  BY <1>8, PhaseType DEF Resume
<1>9. CASE ResumeFails(c)
  BY <1>9 DEF ResumeFails
<1>10. CASE CommandReturns(c)
  BY <1>10 DEF CommandReturns
<1> QED
  BY <1>1, <1>2, <1>3, <1>4, <1>5, <1>6, <1>7, <1>8, <1>9, <1>10 DEF MaintenanceStep

\* Time and the game servers keep the types.
LEMMA WorldType ==
    ASSUME MaintenanceTypeOK, WaitTick \/ \E i \in Servers : BackendMoves(i)
    PROVE  MaintenanceTypeOK'
<1> USE ServersAssumption DEF MaintenanceTypeOK
<1>1. CASE WaitTick
  BY <1>1 DEF WaitTick
<1>2. ASSUME NEW i \in Servers, BackendMoves(i) PROVE MaintenanceTypeOK'
  BY <1>2 DEF BackendMoves, call
<1> QED
  BY <1>1, <1>2

\* The steps of a request keep the types.
LEMMA RequestType ==
    ASSUME TypeOK, NEW r \in Requests, RequestStep(r) \/ Cancel(r)
    PROVE  TypeOK'
<1>r. r \in Callers
  BY CallersAssumption
<1>m. CASE UNCHANGED <<backend, call>>
  <2>1. MaintenanceTypeOK'
    BY <1>m DEF TypeOK, MaintenanceTypeOK, call
  <2> QED
    BY <1>r, <1>m, <2>1 DEF TypeOK, Places, Verbs, status, At, RequestStep, Cancel,
       StopReturned, RestartStarts, StartReturned, StatusDial, StatusLock, Reply, Call, call,
       Listening
<1>1. CASE RestartStarts(r)
  <2>1. at' \in [Callers -> Places]
    BY <1>r, <1>1 DEF RestartStarts, TypeOK, At, Places
  <2>2. MaintenanceTypeOK'
    <3>1. CASE cancelled[r]
      BY <1>r, <1>1, <3>1 DEF RestartStarts, TypeOK, MaintenanceTypeOK, Results
    <3>2. CASE ~cancelled[r]
      BY <1>r, <1>1, <3>2, CallType DEF RestartStarts, TypeOK, MaintenanceTypeOK, Steps
    <3> QED
      BY <3>1, <3>2
  <2> QED
    BY <1>1, <2>1, <2>2 DEF RestartStarts, TypeOK, status
<1>2. CASE Reply(r)
  <2>1. MaintenanceTypeOK'
    BY <1>r, <1>2, CallType DEF Reply, TypeOK, Steps
  <2> QED
    BY <1>r, <1>2, <2>1 DEF Reply, TypeOK, At, Places, Verbs
<1> QED
  BY <1>m, <1>1, <1>2 DEF RequestStep, StopReturned, StartReturned, StatusDial, StatusLock,
     Cancel

\* So do a request that arrives and the steps of a command.
LEMMA ArrivalType ==
    ASSUME TypeOK, NEW r \in Requests, NEW i \in Servers,
           Ask(r, i) \/ \E v \in Verbs : Act(r, v, i)
    PROVE  TypeOK'
<1>r. r \in Callers
  BY CallersAssumption
<1>1. CASE Ask(r, i)
  <2>1. MaintenanceTypeOK'
    BY <1>r, <1>1, CallType DEF Ask, TypeOK, Steps
  <2> QED
    BY <1>r, <1>1, <2>1 DEF Ask, TypeOK, At, Places, Verbs, status
<1>2. ASSUME NEW v \in Verbs, Act(r, v, i) PROVE TypeOK'
  <2>1. MaintenanceTypeOK'
    BY <1>r, <1>2, CallType DEF Act, TypeOK, Steps
  <2> QED
    BY <1>r, <1>2, <2>1 DEF Act, TypeOK, At, Places, Verbs, status
<1> QED
  BY <1>1, <1>2

LEMMA CommandType ==
    ASSUME TypeOK, NEW k \in Commands,
           CommandStep(k) \/ \E v \in Verbs : CommandBegins(k, v)
    PROVE  TypeOK'
<1>k. k \in Callers
  BY CallersAssumption
<1>1. ASSUME NEW v \in Verbs, CommandBegins(k, v) PROVE TypeOK'
  <2>1. MaintenanceTypeOK'
    BY <1>1 DEF CommandBegins, TypeOK, MaintenanceTypeOK, call
  <2> QED
    BY <1>k, <1>1, <2>1 DEF CommandBegins, TypeOK, At, Places, Verbs, status
<1>2. ASSUME NEW i \in Servers, CommandNext(k, i) PROVE TypeOK'
  <2>1. MaintenanceTypeOK'
    BY <1>k, <1>2, CallType DEF CommandNext, TypeOK, Steps
  <2> QED
    BY <1>k, <1>2, <2>1 DEF CommandNext, TypeOK, status
<1>3. CASE CommandEnds(k)
  <2>1. MaintenanceTypeOK'
    BY <1>k, <1>3, CallType DEF CommandEnds, TypeOK, Steps
  <2> QED
    BY <1>k, <1>3, <2>1 DEF CommandEnds, TypeOK, At, Places, Verbs, status
<1> QED
  BY <1>1, <1>2, <1>3 DEF CommandStep

\* Every variable keeps its type, and no countdown runs past zero or its
\* window.
THEOREM TypeCorrect == Spec => []TypeOK
<1>1. Init => TypeOK
  BY ServersAssumption DEF Init, MaintenanceInit, TypeOK, MaintenanceTypeOK, Phases, Steps,
     Results, Places, Verbs
<1>2. TypeOK /\ [Next]_vars => TypeOK'
  <2> SUFFICES ASSUME TypeOK, [Next]_vars PROVE TypeOK'
    OBVIOUS
  <2>1. CASE UNCHANGED vars
    BY <2>1 DEF TypeOK, MaintenanceTypeOK, vars, call, request, status
  <2>2. CASE \E c \in Callers : CallStep(c)
    BY <2>2, CallStepType DEF CallStep, TypeOK, request, status
  <2>3. CASE Tick \/ \E i \in Servers : ServerMoves(i)
    BY <2>3, WorldType DEF Tick, ServerMoves, TypeOK, request, status
  <2> QED
    BY <2>1, <2>2, <2>3, RequestType, ArrivalType, CommandType DEF Next
<1> QED
  BY <1>1, <1>2, PTL DEF Spec

-----------------------------------------------------------------------------
(* A stop that succeeds has stopped the server.  Whoever runs the start    *)
(* command clears alone, so between the look that found the port open and  *)
(* the answer the server only ever moves towards its exit.                 *)

\* A call under way, and a request that is being served, have an instance.
Targeted ==
    /\ \A c \in Callers : step[c] # "none" => target[c] \in Servers
    /\ \A r \in Requests : at[r] # "idle" => target[r] \in Servers

\* Nobody has started the server that this caller found listening, and once
\* the caller has succeeded its port is closed for good.
StopHolds(c) ==
    alone[c] =>
        /\ target[c] \in Servers
        /\ backend[target[c]] # "booting"
        /\ step[c] # "running"
        /\ step[c] = "none" /\ result[c] = "ok"
              => backend[target[c]] \in {"down", "exiting"}

StopInv == Targeted /\ \A c \in Callers : StopHolds(c)

\* A new call knows nothing yet, and leaves the others as they are.
LEMMA CallKeeps ==
    ASSUME TypeOK, \A d \in Callers : StopHolds(d), NEW c \in Callers,
           NEW first, NEW i, Call(c, first, i), UNCHANGED backend
    PROVE  \A d \in Callers : StopHolds(d)'
BY DEF TypeOK, MaintenanceTypeOK, StopHolds, Call

\* The steps of a Stop or a Resume, one caller against all the others.
LEMMA CallStepHolds ==
    ASSUME TypeOK, StopInv, NEW c \in Callers, MaintenanceStep(c)
    PROVE  \A d \in Callers : StopHolds(d)'
<1> SUFFICES ASSUME NEW d \in Callers PROVE StopHolds(d)'
  OBVIOUS
<1>0. StopHolds(c) /\ StopHolds(d) /\ (step[c] # "none" => target[c] \in Servers)
  BY DEF StopInv, Targeted
<1> USE <1>0 DEF TypeOK, MaintenanceTypeOK, StopHolds, Step, Return
<1>1. CASE StopProbe(c)
  <2>1. CASE Listening(backend[target[c]])
    BY <1>1, <2>1 DEF StopProbe, Listening
  <2>2. CASE ~Listening(backend[target[c]])
    BY <1>1, <2>2 DEF StopProbe, Listening, Phases
  <2> QED
    BY <2>1, <2>2
<1>2. CASE SendStop(c)
  <2>1. \A i \in Servers : \/ backend'[i] = backend[i]
                           \/ backend'[i] = "stopping" /\ backend[i] = "up"
    BY <1>2 DEF SendStop, Stopped
  <2> QED
    BY <1>2, <2>1 DEF SendStop
<1>3. CASE SendStopFails(c)
  BY <1>3 DEF SendStopFails
<1>4. CASE StoppedCleanly(c)
  BY <1>4 DEF StoppedCleanly, Listening, Phases
<1>5. CASE StopTimesOut(c)
  BY <1>5 DEF StopTimesOut
<1>6. CASE ForceKill(c)
  BY <1>6 DEF ForceKill, Victims
<1>7. CASE ForceKillFails(c)
  BY <1>7 DEF ForceKillFails
<1>8. CASE Resume(c)
  BY <1>8 DEF Resume
<1>9. CASE ResumeFails(c)
  BY <1>9 DEF ResumeFails
<1>10. CASE CommandReturns(c)
  BY <1>10 DEF CommandReturns
<1> QED
  BY <1>1, <1>2, <1>3, <1>4, <1>5, <1>6, <1>7, <1>8, <1>9, <1>10 DEF MaintenanceStep

\* Left to itself, a server that does not boot does not open its port.
LEMMA WorldHolds ==
    ASSUME TypeOK, StopInv, WaitTick \/ \E i \in Servers : BackendMoves(i)
    PROVE  \A d \in Callers : StopHolds(d)'
<1> USE DEF TypeOK, MaintenanceTypeOK, StopInv, StopHolds
<1>1. CASE WaitTick
  BY <1>1 DEF WaitTick
<1>2. ASSUME NEW i \in Servers, BackendMoves(i) PROVE \A d \in Callers : StopHolds(d)'
  BY <1>2 DEF BackendMoves, Evolves, call
<1> QED
  BY <1>1, <1>2

\* Whatever begins a call gives it an instance.
LEMMA TargetedKept ==
    ASSUME TypeOK, Targeted, Next
    PROVE  Targeted'
<1> USE CallersAssumption DEF TypeOK, MaintenanceTypeOK, Targeted, At, Call, call, status, request
<1>1. ASSUME NEW r \in Requests, NEW i \in Servers, Ask(r, i) \/ \E v \in Verbs : Act(r, v, i)
      PROVE  Targeted'
  BY <1>1 DEF Ask, Act
<1>2. ASSUME NEW r \in Requests, RequestStep(r) \/ Cancel(r)
      PROVE  Targeted'
  BY <1>2 DEF RequestStep, StopReturned, RestartStarts, StartReturned, StatusDial,
              StatusLock, Reply, Cancel
<1>3. ASSUME NEW k \in Commands, CommandStep(k) \/ \E v \in Verbs : CommandBegins(k, v)
      PROVE  Targeted'
  BY <1>3 DEF CommandStep, CommandEnds, CommandNext, CommandBegins
<1>4. ASSUME NEW c \in Callers, CallStep(c)
      PROVE  Targeted'
  BY <1>4 DEF CallStep, MaintenanceStep, StopProbe, SendStop, SendStopFails, StoppedCleanly,
              StopTimesOut, ForceKill, ForceKillFails, Resume, CommandReturns,
              ResumeFails, Step, Return
<1>5. CASE Tick \/ \E i \in Servers : ServerMoves(i)
  BY <1>5 DEF Tick, WaitTick, ServerMoves, BackendMoves
<1> QED
  BY <1>1, <1>2, <1>3, <1>4, <1>5 DEF Next

\* Requests and commands touch a call only between its steps.
LEMMA OthersHold ==
    ASSUME TypeOK, StopInv,
           \/ \E r \in Requests, i \in Servers : Ask(r, i) \/ \E v \in Verbs : Act(r, v, i)
           \/ \E r \in Requests : RequestStep(r) \/ Cancel(r)
           \/ \E k \in Commands : CommandStep(k) \/ \E v \in Verbs : CommandBegins(k, v)
    PROVE  \A d \in Callers : StopHolds(d)'
<1>0. \A d \in Callers : StopHolds(d)
  BY DEF StopInv
<1>1. CASE UNCHANGED <<backend, call>>
  BY <1>0, <1>1 DEF StopHolds, call
<1>2. ASSUME NEW c \in Callers, NEW first, NEW i, Call(c, first, i), UNCHANGED backend
      PROVE  \A d \in Callers : StopHolds(d)'
  BY <1>0, <1>2, CallKeeps
<1>3. ASSUME NEW r \in Requests, RestartStarts(r)
      PROVE  \A d \in Callers : StopHolds(d)'
  <2>1. CASE cancelled[r]
    BY <1>0, <1>3, <2>1, CallersAssumption
       DEF RestartStarts, StopHolds, TypeOK, MaintenanceTypeOK
  <2>2. CASE ~cancelled[r]
    BY <1>2, <1>3, <2>2, CallersAssumption DEF RestartStarts
  <2> QED
    BY <2>1, <2>2
<1>4. ASSUME NEW r \in Requests, RequestStep(r) \/ Cancel(r)
      PROVE  \A d \in Callers : StopHolds(d)'
  BY <1>1, <1>2, <1>3, <1>4, CallersAssumption
     DEF RequestStep, StopReturned, StartReturned, StatusDial, StatusLock, Reply, Cancel
<1>5. ASSUME NEW r \in Requests, NEW i \in Servers, Ask(r, i) \/ \E v \in Verbs : Act(r, v, i)
      PROVE  \A d \in Callers : StopHolds(d)'
  BY <1>2, <1>5, CallersAssumption DEF Ask, Act
<1>6. ASSUME NEW k \in Commands, CommandStep(k) \/ \E v \in Verbs : CommandBegins(k, v)
      PROVE  \A d \in Callers : StopHolds(d)'
  BY <1>1, <1>2, <1>6, CallersAssumption DEF CommandStep, CommandEnds, CommandNext, CommandBegins
<1> QED
  BY <1>4, <1>5, <1>6

\* A Stop that found the backend listening and reports success has stopped
\* it, whatever the other requests and commands do meanwhile, unless one of
\* them has run its start command.
THEOREM StopWorks == Spec => []StopStops
<1>1. Init => StopInv
  BY CallersAssumption DEF Init, MaintenanceInit, StopInv, Targeted, StopHolds
<1>2. TypeOK /\ StopInv /\ [Next]_vars => StopInv'
  <2> SUFFICES ASSUME TypeOK, StopInv, [Next]_vars PROVE StopInv'
    OBVIOUS
  <2>1. CASE UNCHANGED vars
    BY <2>1 DEF StopInv, Targeted, StopHolds, vars, call, request
  <2>2. CASE Next
    <3>1. Targeted'
      BY <2>2, TargetedKept DEF StopInv
    <3>2. \A d \in Callers : StopHolds(d)'
      BY <2>2, CallStepHolds, WorldHolds, OthersHold DEF Next, CallStep, Tick, ServerMoves
    <3> QED
      BY <3>1, <3>2 DEF StopInv
  <2> QED
    BY <2>1, <2>2
<1>3. StopInv => StopStops
  BY DEF StopInv, StopHolds, StopStops, Listening
<1> QED
  BY <1>1, <1>2, <1>3, TypeCorrect, PTL DEF Spec

=============================================================================
