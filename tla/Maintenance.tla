---------------------------- MODULE Maintenance ----------------------------
(***************************************************************************)
(* Stopping and starting a backend: src/maintenance/maintenance.go.        *)
(*                                                                         *)
(* Stop and Resume run inside a caller: the loop of gameops maintenance,   *)
(* or a request of gameops host.  This module has the steps of one call    *)
(* and the backends they act on; HostControl composes the callers.         *)
(***************************************************************************)
EXTENDS Integers, Backend

CONSTANTS
    Servers,      \* instances, each with its backend
    Callers,      \* whoever may run a Stop or a Resume
    WithoutRcon,  \* instances that have no minecraft_config
    Namesakes,    \* instances that share the default process_name
    StopTimeout,  \* stopPollTimeout, in ticks
    None

ASSUME ServersAssumption ==
    /\ WithoutRcon \subseteq Servers
    /\ Namesakes \subseteq Servers
    /\ StopTimeout \in Nat

VARIABLES
    backend,  \* phase of each instance's game server
    step,     \* where a caller is inside Stop or Resume
    target,   \* the instance it works on
    left,     \* what is left of its waitUntilBackendDown window
    result,   \* what the call returned
    alone     \* history: its Stop found the backend listening, and no start
              \* command has been run for that backend since

call == <<step, target, left, result, alone>>

Steps == {"none", "probe", "send", "await", "kill", "resume", "running"}
\* A caller waits for a child process at these, and nothing bounds that wait:
\* taskkill, and a start command that may be the server itself.
WithoutDeadline == {"kill", "running"}

Results == {"none", "ok", "failed"}

MaintenanceInit ==
    /\ backend \in [Servers -> {"down", "up"}]
    /\ step = [c \in Callers |-> "none"]
    /\ target = [c \in Callers |-> None]
    /\ left = [c \in Callers |-> 0]
    /\ result = [c \in Callers |-> "none"]
    /\ alone = [c \in Callers |-> FALSE]

MaintenanceTypeOK ==
    /\ backend \in [Servers -> Phases]
    /\ step \in [Callers -> Steps]
    /\ target \in [Callers -> Servers \union {None}]
    /\ left \in [Callers -> 0 .. StopTimeout]
    /\ result \in [Callers -> Results]
    /\ alone \in [Callers -> BOOLEAN]

-----------------------------------------------------------------------------

\* A caller begins a call, at a given step of it, on instance i.
Call(c, first, i) ==
    /\ step' = [step EXCEPT ![c] = first]
    /\ target' = [target EXCEPT ![c] = i]
    /\ result' = [result EXCEPT ![c] = "none"]
    /\ alone' = [alone EXCEPT ![c] = FALSE]
    /\ UNCHANGED left

Step(c, next) == step' = [step EXCEPT ![c] = next]

Return(c, r) ==
    /\ step' = [step EXCEPT ![c] = "none"]
    /\ result' = [result EXCEPT ![c] = r]

\* Stop: a backend that is not listening counts as stopped.
StopProbe(c) ==
    /\ step[c] = "probe"
    /\ IF Listening(backend[target[c]])
       THEN /\ Step(c, IF target[c] \in WithoutRcon THEN "kill" ELSE "send")
            /\ alone' = [alone EXCEPT ![c] = TRUE]
            /\ UNCHANGED result
       ELSE /\ Return(c, "ok")
            /\ UNCHANGED alone
    /\ UNCHANGED <<backend, target, left>>

\* The stop command is accepted, and the wait for the port begins.
SendStop(c) ==
    /\ step[c] = "send"
    /\ Listening(backend[target[c]])
    /\ backend' = [backend EXCEPT ![target[c]] = Stopped(@)]
    /\ left' = [left EXCEPT ![c] = StopTimeout]
    /\ Step(c, "await")
    /\ UNCHANGED <<target, result, alone>>

\* RCON does not answer: on to the force kill.
SendStopFails(c) ==
    /\ step[c] = "send"
    /\ Step(c, "kill")
    /\ UNCHANGED <<backend, target, left, result, alone>>

\* waitUntilBackendDown sees the port closed, in time.
StoppedCleanly(c) ==
    /\ step[c] = "await"
    /\ left[c] > 0
    /\ ~Listening(backend[target[c]])
    /\ left' = [left EXCEPT ![c] = 0]
    /\ Return(c, "ok")
    /\ UNCHANGED <<backend, target, alone>>

\* Mutated form of StopTimesOut: a timeout is taken for a stop.
StopTimesOutOk(c) ==
    /\ step[c] = "await"
    /\ left[c] = 0
    /\ Return(c, "ok")
    /\ UNCHANGED <<backend, target, left, alone>>

\* Mutated form of StopTimesOut: the deadline does not end the wait.
StopTimesOutNever(c) ==
    /\ step[c] = "await"
    /\ left[c] = 0
    /\ ~Listening(backend[target[c]])
    /\ Step(c, "kill")
    /\ UNCHANGED <<backend, target, left, result, alone>>

StopTimesOut(c) ==
    /\ step[c] = "await"
    /\ left[c] = 0
    /\ Step(c, "kill")
    /\ UNCHANGED <<backend, target, left, result, alone>>

\* forceKill goes by process name: it ends every instance's process of that
\* name.
Victims(c) == IF target[c] \in Namesakes THEN Namesakes ELSE {target[c]}

ForceKill(c) ==
    /\ step[c] = "kill"
    /\ backend' = [i \in Servers |-> IF i \in Victims(c) THEN "down" ELSE backend[i]]
    /\ Return(c, "ok")
    /\ UNCHANGED <<target, left, alone>>

\* taskkill cannot be run, is not allowed to, or finds no such process.
ForceKillFails(c) ==
    /\ step[c] = "kill"
    /\ Return(c, "failed")
    /\ UNCHANGED <<backend, target, left, alone>>

\* Resume runs the start command.
Resume(c) ==
    /\ step[c] = "resume"
    /\ backend' = [backend EXCEPT ![target[c]] = Started(@)]
    /\ Step(c, "running")
    /\ alone' = [d \in Callers |-> alone[d] /\ target[d] # target[c]]
    /\ UNCHANGED <<target, left, result>>

\* It waits for that command, "not for the backend it starts": a command that
\* hands off is back at once, one that is the server when the server exits.
CommandReturns(c) ==
    /\ step[c] = "running"
    /\ \E r \in {"ok", "failed"} : Return(c, r)
    /\ UNCHANGED <<backend, target, left, alone>>

\* The start command is empty, or cannot be run.
ResumeFails(c) ==
    /\ step[c] = "resume"
    /\ Return(c, "failed")
    /\ UNCHANGED <<backend, target, left, alone>>

MaintenanceStep(c) ==
    \/ StopProbe(c)
    \/ SendStop(c)
    \/ SendStopFails(c)
    \/ StoppedCleanly(c)
    \/ StopTimesOut(c)
    \/ ForceKill(c)
    \/ ForceKillFails(c)
    \/ Resume(c)
    \/ CommandReturns(c)
    \/ ResumeFails(c)

\* Mutated form of WaitTick: a countdown that runs on past its deadline.
WaitTickPastZero ==
    /\ left' = [c \in Callers |-> IF step[c] = "await" THEN left[c] - 1 ELSE left[c]]
    /\ UNCHANGED <<backend, step, target, result, alone>>

\* One tick of every running wait.
WaitTick ==
    /\ left' = [c \in Callers |-> IF left[c] > 0 THEN left[c] - 1 ELSE 0]
    /\ UNCHANGED <<backend, step, target, result, alone>>

\* Game servers boot, fail to, and exit.
BackendMoves(i) ==
    /\ \E b \in Phases : Evolves(backend[i], b) /\ backend' = [backend EXCEPT ![i] = b]
    /\ UNCHANGED call

=============================================================================
