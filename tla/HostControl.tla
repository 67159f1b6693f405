---------------------------- MODULE HostControl ----------------------------
(***************************************************************************)
(* gameops host and gameops maintenance working on the same backends:      *)
(* src/host/host.go, src/internal/gamecontrol/minecraft.go and             *)
(* runMaintenance in src/cmd/gameops/main.go.                              *)
(*                                                                         *)
(* Every HTTP request is a goroutine of its own, and nothing keeps two of  *)
(* them from working on the same instance; MinecraftController's mutex     *)
(* guards onlineSince only.  A request carries a context that ends when    *)
(* its client goes away, which is looked at before a stop, before a start  *)
(* and while the backend is dialled, and nowhere in between.               *)
(***************************************************************************)
EXTENDS Maintenance, FiniteSets

CONSTANTS
    Requests,  \* bound: HTTP requests served at the same time
    Commands,  \* bound: gameops maintenance processes at the same time
    Asked      \* bound: what clients ask for

Verbs == {"start", "stop", "restart", "status"}

ASSUME CallersAssumption ==
    /\ Callers = Requests \union Commands
    /\ Requests \intersect Commands = {}
    /\ Asked \subseteq Verbs

VARIABLES
    at,           \* where a request or command is, outside Maintenance
    verb,         \* what it is about
    cancelled,    \* the request's context is done
    todo,         \* the instances a maintenance command has still to do
    onlineSince,  \* MinecraftController.onlineSince is not the zero time
    online        \* what a Status call's dial found

request == <<at, verb, cancelled, todo>>
status == <<onlineSince, online>>
vars == <<backend, call, request, status>>

\* idle    no request in this slot
\* stop    inside maintenance.Stop      start   inside maintenance.Resume
\* between Restart, after its Stop      lock    Status, after its dial
\* dial    Status, before its dial      reply   about to answer
Places == {"idle", "stop", "between", "start", "dial", "lock", "reply"}

Init ==
    /\ MaintenanceInit
    /\ at = [c \in Callers |-> "idle"]
    /\ verb = [c \in Callers |-> "status"]
    /\ cancelled = [c \in Callers |-> FALSE]
    /\ todo = [c \in Callers |-> {}]
    /\ onlineSince = [i \in Servers |-> FALSE]
    /\ online = [c \in Callers |-> FALSE]

At(c, place) == at' = [at EXCEPT ![c] = place]

-----------------------------------------------------------------------------
(* Requests.                                                               *)

\* Start, Stop and Restart begin by looking at the context: a request whose
\* client has left by then does nothing.
Act(r, v, i) ==
    /\ at[r] = "idle"
    /\ v \in Asked \ {"status"}
    /\ verb' = [verb EXCEPT ![r] = v]
    /\ At(r, IF v = "start" THEN "start" ELSE "stop")
    /\ Call(r, IF v = "start" THEN "resume" ELSE "probe", i)
    /\ UNCHANGED <<backend, cancelled, todo, status>>

Ask(r, i) ==
    /\ at[r] = "idle"
    /\ "status" \in Asked
    /\ verb' = [verb EXCEPT ![r] = "status"]
    /\ At(r, "dial")
    /\ Call(r, "none", i)
    /\ UNCHANGED <<backend, cancelled, todo, status>>

\* maintenance.Stop has returned: Restart goes on only if it succeeded.
StopReturned(r) ==
    /\ at[r] = "stop"
    /\ result[r] # "none"
    /\ At(r, IF verb[r] = "restart" /\ result[r] = "ok" THEN "between" ELSE "reply")
    /\ UNCHANGED <<backend, call, verb, cancelled, todo, status>>

\* Restart calls Start, which looks at the context once more.
RestartStarts(r) ==
    /\ at[r] = "between"
    /\ IF cancelled[r]
       THEN /\ At(r, "reply")
            /\ result' = [result EXCEPT ![r] = "failed"]
            /\ UNCHANGED <<step, target, left, alone>>
       ELSE /\ At(r, "start")
            /\ Call(r, "resume", target[r])
    /\ UNCHANGED <<backend, verb, cancelled, todo, status>>

StartReturned(r) ==
    /\ at[r] = "start"
    /\ result[r] # "none"
    /\ At(r, "reply")
    /\ UNCHANGED <<backend, call, verb, cancelled, todo, status>>

\* Mutated form of StatusDial: no dial while the backend is known as online.
StatusDialCached(r) ==
    /\ at[r] = "dial"
    /\ online' = [online EXCEPT ![r] =
                    \/ onlineSince[target[r]]
                    \/ Listening(backend[target[r]]) /\ ~cancelled[r]]
    /\ At(r, "lock")
    /\ UNCHANGED <<backend, call, verb, cancelled, todo, onlineSince>>

\* Status dials before it takes the lock.  A context that ends makes the
\* dial fail whatever the backend does.
StatusDial(r) ==
    /\ at[r] = "dial"
    /\ online' = [online EXCEPT ![r] = Listening(backend[target[r]]) /\ ~cancelled[r]]
    /\ At(r, "lock")
    /\ UNCHANGED <<backend, call, verb, cancelled, todo, onlineSince>>

\* Mutated form of StatusLock: the second branch lost its !online.
StatusLockToggles(r) ==
    /\ at[r] = "lock"
    /\ onlineSince' = [onlineSince EXCEPT ![target[r]] = online[r] /\ ~@]
    /\ At(r, "reply")
    /\ UNCHANGED <<backend, call, verb, cancelled, todo, online>>

\* The locked section of Status.
StatusLock(r) ==
    /\ at[r] = "lock"
    /\ onlineSince' = [onlineSince EXCEPT ![target[r]] = online[r]]
    /\ At(r, "reply")
    /\ UNCHANGED <<backend, call, verb, cancelled, todo, online>>

\* The answer is written.  Status has asked for the player count; a failure
\* of that makes no difference to what is modelled.
Reply(r) ==
    /\ at[r] = "reply"
    /\ At(r, "idle")
    /\ cancelled' = [cancelled EXCEPT ![r] = FALSE]
    /\ online' = [online EXCEPT ![r] = FALSE]
    /\ verb' = [verb EXCEPT ![r] = "status"]
    /\ Call(r, "none", None)
    /\ UNCHANGED <<backend, todo, onlineSince>>

\* The client is gone: it closed the page, or the gateway timed out.  Once
\* they have begun, only Restart and Status look at the context.
Cancel(r) ==
    /\ at[r] # "idle"
    /\ ~cancelled[r]
    /\ cancelled' = [cancelled EXCEPT ![r] = TRUE]
    /\ UNCHANGED <<backend, call, at, verb, todo, status>>

-----------------------------------------------------------------------------
(* gameops maintenance stop and gameops maintenance resume: all configured *)
(* instances, one after the other.                                         *)

CommandBegins(k, v) ==
    /\ at[k] = "idle"
    /\ v \in {"stop", "start"}
    /\ verb' = [verb EXCEPT ![k] = v]
    /\ todo' = [todo EXCEPT ![k] = Servers]
    /\ At(k, v)
    /\ UNCHANGED <<backend, call, cancelled, status>>

CommandNext(k, i) ==
    /\ at[k] \in {"stop", "start"}
    /\ step[k] = "none"
    /\ i \in todo[k]
    /\ todo' = [todo EXCEPT ![k] = @ \ {i}]
    /\ Call(k, IF verb[k] = "stop" THEN "probe" ELSE "resume", i)
    /\ UNCHANGED <<backend, at, verb, cancelled, status>>

CommandEnds(k) ==
    /\ at[k] \in {"stop", "start"}
    /\ step[k] = "none"
    /\ todo[k] = {}
    /\ At(k, "idle")
    /\ verb' = [verb EXCEPT ![k] = "status"]
    /\ Call(k, "none", None)
    /\ UNCHANGED <<backend, cancelled, todo, status>>

-----------------------------------------------------------------------------

CallStep(c) ==
    /\ MaintenanceStep(c)
    /\ UNCHANGED <<request, status>>

Tick ==
    /\ WaitTick
    /\ UNCHANGED <<request, status>>

ServerMoves(i) ==
    /\ BackendMoves(i)
    /\ UNCHANGED <<request, status>>

RequestStep(r) ==
    \/ StopReturned(r)
    \/ RestartStarts(r)
    \/ StartReturned(r)
    \/ StatusDial(r)
    \/ StatusLock(r)
    \/ Reply(r)

CommandStep(k) == CommandEnds(k) \/ \E i \in Servers : CommandNext(k, i)

Next ==
    \/ \E r \in Requests, i \in Servers : Ask(r, i) \/ \E v \in Verbs : Act(r, v, i)
    \/ \E r \in Requests : RequestStep(r) \/ Cancel(r)
    \/ \E k \in Commands : CommandStep(k) \/ \E v \in Verbs : CommandBegins(k, v)
    \/ \E c \in Callers : CallStep(c)
    \/ \E i \in Servers : ServerMoves(i)
    \/ Tick

Spec == Init /\ [][Next]_vars

\* A goroutine and a process go on as long as they can; nobody has to send
\* a request, and no child process has to return.  Clocks run.
Fairness ==
    /\ \A r \in Requests : WF_vars(RequestStep(r))
    /\ \A k \in Commands : WF_vars(CommandStep(k))
    /\ \A c \in Callers : WF_vars(step[c] \notin WithoutDeadline /\ CallStep(c))
    /\ WF_vars(Tick)

FairSpec == Spec /\ Fairness

-----------------------------------------------------------------------------
(* Properties.                                                             *)

TypeOK ==
    /\ MaintenanceTypeOK
    /\ at \in [Callers -> Places]
    /\ verb \in [Callers -> Verbs]
    /\ cancelled \in [Callers -> BOOLEAN]
    /\ todo \in [Callers -> SUBSET Servers]
    /\ onlineSince \in [Servers -> BOOLEAN]
    /\ online \in [Callers -> BOOLEAN]

\* A Stop that found the backend listening and returned without an error has
\* stopped it, by RCON or by force, unless somebody has started it again:
\* other stops, restarts and kills at the same time make no difference.
StopStops ==
    \A c \in Callers :
        step[c] = "none" /\ result[c] = "ok" /\ alone[c]
            => ~Listening(backend[target[c]])

\* A restart that reports success has not left the old server on its way out:
\* a closed port is "enough to know whether an instance [...] has finished
\* stopping".
RestartRestarts ==
    \A r \in Requests :
        at[r] = "reply" /\ verb[r] = "restart" /\ result[r] = "ok"
            => backend[target[r]] \notin {"stopping", "exiting"}

\* A stop that reports success leaves the server stopped, when nobody starts
\* it afterwards: a closed port is "enough to know whether an instance is
\* already stopped".
StopLeavesStopped ==
    \A r \in Requests :
        at[r] = "reply" /\ verb[r] = "stop" /\ result[r] = "ok"
            => ~Listening(backend[target[r]])

\* A Status that reads the port before another one and writes onlineSince
\* after it leaves a wrong value; that is put right by a later Status.  So
\* once a server stays up, and is asked about, its uptime settles.
UptimeSettles ==
    \A i \in Servers :
        <>[](Listening(backend[i]) /\ \A r \in Requests : ~cancelled[r])
            => <>[]onlineSince[i]

\* Every request is answered and every command ends, whatever RCON, the
\* backend and the other callers do, unless it waits for ever for taskkill or
\* for a start command, which the code gives no deadline.
EveryCallEnds ==
    \A c \in Callers :
        \/ at[c] # "idle" ~> at[c] = "idle"
        \/ <>[](step[c] \in WithoutDeadline)

=============================================================================
