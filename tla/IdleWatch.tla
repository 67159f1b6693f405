----------------------------- MODULE IdleWatch -----------------------------
(***************************************************************************)
(* One instance of gameops idle-watch: the goroutines of                   *)
(* src/idlewatch/instance.go that share Instance.state, and the parts of   *)
(* the Minecraft adapter that they call.                                   *)
(*                                                                         *)
(* A connection is served by one handler goroutine (handleConn), which     *)
(* after a login also carries out the wake-up (wake).  Every successful    *)
(* wake-up starts one more idle watcher goroutine (idleWatcher).  Each     *)
(* locked section of the code is one action here, and so is each dial or   *)
(* command between two locked sections.                                    *)
(*                                                                         *)
(* Time is counted in ticks and only ever as "how long since": the code    *)
(* compares durations, never dates.  Sleeping goroutines may wake up late. *)
(***************************************************************************)
EXTENDS Integers, Backend

CONSTANTS
    Conns,         \* bound: connections handled at the same time
    Watchers,      \* bound: idle watchers alive at the same time
    PollInterval,  \* poll_interval_seconds
    IdleTimeout,   \* idle_timeout_minutes
    ReadyTimeout,  \* backend_ready_timeout_minutes; 0 when it is not configured
    StopTimeout,   \* how long a watcher waits for a backend it stopped
    ExternalOps,   \* the backend may crash, be stopped or be started by others
    RconFails,     \* an RCON exchange with a backend that is up may fail
    BootFails,     \* a start or a boot may fail
    ProcessExits   \* the idle-watch process may end and be started again

ASSUME TimingAssumption ==
    /\ PollInterval \in Nat
    /\ IdleTimeout \in Nat
    /\ ReadyTimeout \in Nat
    /\ StopTimeout \in Nat

ASSUME FlagAssumption ==
    /\ ExternalOps \in BOOLEAN
    /\ RconFails \in BOOLEAN
    /\ BootFails \in BOOLEAN
    /\ ProcessExits \in BOOLEAN

ASSUME DistinctAssumption == Conns \intersect Watchers = {}

VARIABLES
    state,        \* Instance.state
    wakingSince,  \* Instance.wakingSince is not the zero time
    hpc,          \* where each connection's handler is
    wait,         \* what is left of a waker's waitForBackend window
    wpc,          \* where each idle watcher is
    nap,          \* how long a watcher still sleeps
    idleFor,      \* time since idleSince, NotIdle when it is the zero time
    stopWait,     \* what is left of a watcher's waitForBackendDown window
    backend,      \* phase of the game server
    quiet         \* history: time since a watcher's last poll that failed or saw players

instance == <<state, wakingSince>>
watching == <<wpc, nap, idleFor, stopWait, quiet>>
vars == <<instance, hpc, wait, watching, backend>>

NotIdle == -1

States == {"asleep", "waking", "awake"}

\* idle      no connection in this slot
\* dial      proxy(): about to dial the backend
\* proxied   bytes are copied both ways
\* playing   ... and the server counts the client as a player
\* resync    the dial failed, state is about to be overwritten
\* answer    HandleSleeping, its result is used
\* told      HandleSleeping, its result is ignored
\* wake      a login was seen, about to enter wake()
\* start     state is waking, about to run start_command
\* await     waitForBackend
\* ready     the backend answered a dial, state is about to become awake
\* spawn     state is awake, idleWatcher is about to be started
HandlerPoints == {"idle", "dial", "proxied", "playing", "resync", "answer",
                  "told", "wake", "start", "await", "ready", "spawn"}

\* none      no such goroutine
\* nap       sleeping for a poll interval
\* poll      state was awake, about to ask for the player count
\* stop      the idle timeout has passed, about to send stop
\* drain     waitForBackendDown
\* mark      state is about to become asleep
WatcherPoints == {"none", "nap", "poll", "stop", "drain", "mark"}

-----------------------------------------------------------------------------

Players == {h \in Conns : hpc[h] = "playing"}

Connected == {h \in Conns : hpc[h] \in {"proxied", "playing"}}

\* Handlers inside wake() that have set state to waking.
WakingUp == {h \in Conns : hpc[h] \in {"start", "await", "ready"}}

\* Handlers about to start an idle watcher.
Spawning == {h \in Conns : hpc[h] = "spawn"}

\* Watchers that have not returned.
Live == {w \in Watchers : wpc[w] # "none"}

\* A stopwatch or countdown of at most a given bound, one tick later.
Later(n, bound) == IF n < bound THEN n + 1 ELSE n
\* Mutated form of Sooner: a countdown that runs on past its deadline.
SoonerPastZero(n) == n - 1

Sooner(n) == IF n > 0 THEN n - 1 ELSE n

Init ==
    /\ state = "asleep"
    /\ wakingSince = FALSE
    /\ hpc = [h \in Conns |-> "idle"]
    /\ wait = [h \in Conns |-> 0]
    /\ wpc = [w \in Watchers |-> "none"]
    /\ nap = [w \in Watchers |-> 0]
    /\ idleFor = [w \in Watchers |-> NotIdle]
    /\ stopWait = [w \in Watchers |-> 0]
    /\ backend \in Phases
    /\ quiet = [w \in Watchers |-> 0]

-----------------------------------------------------------------------------
(* Connections: handleConn.                                                *)

Goto(h, point) == hpc' = [hpc EXCEPT ![h] = point]

\* A connection is accepted and routed by one locked read of state.
Route(h) ==
    /\ hpc[h] = "idle"
    /\ Goto(h, CASE state = "awake" -> "dial"
                 [] state = "waking" -> "told"
                 [] state = "asleep" -> "answer")
    /\ UNCHANGED <<instance, wait, watching, backend>>

\* proxy() dials the backend and only then touches the connection.
Dial(h) ==
    /\ hpc[h] = "dial"
    /\ Goto(h, IF Listening(backend) THEN "proxied" ELSE "resync")
    /\ UNCHANGED <<instance, wait, watching, backend>>

\* The client has logged in and the server lists it.
Join(h) ==
    /\ hpc[h] = "proxied"
    /\ backend = "up"
    /\ Goto(h, "playing")
    /\ UNCHANGED <<instance, wait, watching, backend>>

\* Either side closed: proxy() returns true and nothing else happens.
ProxyEnds(h) ==
    /\ h \in Connected
    /\ Goto(h, "idle")
    /\ UNCHANGED <<instance, wait, watching, backend>>

\* The dial failed: back to asleep, whatever state has become meanwhile.
Resync(h) ==
    /\ hpc[h] = "resync"
    /\ state' = "asleep"
    /\ wakingSince' = FALSE
    /\ Goto(h, "answer")
    /\ UNCHANGED <<wait, watching, backend>>

\* HandleSleeping answers and closes.  Only a login returns true, and the
\* result is ignored when the snapshot was waking.
HandleSleeping(h, login) ==
    /\ hpc[h] \in {"answer", "told"}
    /\ Goto(h, IF login /\ hpc[h] = "answer" THEN "wake" ELSE "idle")
    /\ UNCHANGED <<instance, wait, watching, backend>>

-----------------------------------------------------------------------------
(* The wake-up: wake and waitForBackend, in the goroutine of the login.    *)

\* Mutated form of WakeLock: state is not tested under the lock again.
WakeLockUntested(h) ==
    /\ hpc[h] = "wake"
    /\ state' = "waking"
    /\ wakingSince' = TRUE
    /\ Goto(h, "start")
    /\ UNCHANGED <<wait, watching, backend>>

\* The first locked section of wake(): the only one that tests state.
WakeLock(h) ==
    /\ hpc[h] = "wake"
    /\ IF state = "asleep"
       THEN /\ state' = "waking"
            /\ wakingSince' = TRUE
            /\ Goto(h, "start")
       ELSE /\ Goto(h, "idle")
            /\ UNCHANGED <<instance>>
    /\ UNCHANGED <<wait, watching, backend>>

\* startFn does not wait for the command, and a failure is only logged.
StartCommand(h) ==
    /\ hpc[h] = "start"
    /\ backend' \in {Started(backend)} \union (IF BootFails THEN {backend} ELSE {})
    /\ wait' = [wait EXCEPT ![h] = ReadyTimeout]
    /\ Goto(h, "await")
    /\ UNCHANGED <<instance, watching>>

\* A dial inside the ready window succeeds.
AwaitReady(h) ==
    /\ hpc[h] = "await"
    /\ wait[h] > 0
    /\ Listening(backend)
    /\ wait' = [wait EXCEPT ![h] = 0]
    /\ Goto(h, "ready")
    /\ UNCHANGED <<instance, watching, backend>>

\* Mutated form of GiveUp: returns without setting state back to asleep.
GiveUpForgetsReset(h) ==
    /\ hpc[h] = "await"
    /\ wait[h] = 0
    /\ Goto(h, "idle")
    /\ UNCHANGED <<instance, wait, watching, backend>>

\* The ready window has passed.
GiveUp(h) ==
    /\ hpc[h] = "await"
    /\ wait[h] = 0
    /\ state' = "asleep"
    /\ wakingSince' = FALSE
    /\ Goto(h, "idle")
    /\ UNCHANGED <<wait, watching, backend>>

\* The last locked section of wake(), which does not test state.
MarkAwake(h) ==
    /\ hpc[h] = "ready"
    /\ state' = "awake"
    /\ wakingSince' = FALSE
    /\ Goto(h, "spawn")
    /\ UNCHANGED <<wait, watching, backend>>

\* go in.idleWatcher().
SpawnWatcher(h, w) ==
    /\ hpc[h] = "spawn"
    /\ wpc[w] = "none"
    /\ Goto(h, "idle")
    /\ wpc' = [wpc EXCEPT ![w] = "nap"]
    /\ nap' = [nap EXCEPT ![w] = PollInterval]
    /\ UNCHANGED <<instance, wait, idleFor, stopWait, quiet, backend>>

-----------------------------------------------------------------------------
(* The idle watcher.                                                       *)

\* The goroutine returns and its locals are gone.
Returns(w) ==
    /\ wpc' = [wpc EXCEPT ![w] = "none"]
    /\ idleFor' = [idleFor EXCEPT ![w] = NotIdle]
    /\ quiet' = [quiet EXCEPT ![w] = 0]

\* One locked read of state after each sleep.
WatcherCheck(w) ==
    /\ wpc[w] = "nap"
    /\ nap[w] = 0
    /\ IF state = "awake"
       THEN /\ wpc' = [wpc EXCEPT ![w] = "poll"]
            /\ UNCHANGED <<idleFor, quiet>>
       ELSE Returns(w)
    /\ UNCHANGED <<instance, hpc, wait, nap, stopWait, backend>>

NapAgain(w) ==
    /\ wpc' = [wpc EXCEPT ![w] = "nap"]
    /\ nap' = [nap EXCEPT ![w] = PollInterval]

\* Mutated form of PollError: an RCON error ends the watcher.
PollErrorReturns(w) ==
    /\ wpc[w] = "poll"
    /\ backend # "up" \/ RconFails
    /\ Returns(w)
    /\ UNCHANGED <<instance, hpc, wait, nap, stopWait, backend>>

\* PlayerCount failed: it does not count toward idle.
PollError(w) ==
    /\ wpc[w] = "poll"
    /\ backend # "up" \/ RconFails
    /\ idleFor' = [idleFor EXCEPT ![w] = NotIdle]
    /\ quiet' = [quiet EXCEPT ![w] = 0]
    /\ NapAgain(w)
    /\ UNCHANGED <<instance, hpc, wait, stopWait, backend>>

\* Somebody is online.
PollBusy(w) ==
    /\ wpc[w] = "poll"
    /\ backend = "up"
    /\ Players # {}
    /\ idleFor' = [idleFor EXCEPT ![w] = NotIdle]
    /\ quiet' = [quiet EXCEPT ![w] = 0]
    /\ NapAgain(w)
    /\ UNCHANGED <<instance, hpc, wait, stopWait, backend>>

\* Mutated form of PollEmpty: idleSince is not tested for the zero time,
\* which is longer ago than any timeout.
PollEmptyZeroTime(w) ==
    /\ wpc[w] = "poll"
    /\ backend = "up"
    /\ Players = {}
    /\ IF idleFor[w] \notin 0 .. IdleTimeout - 1
       THEN /\ wpc' = [wpc EXCEPT ![w] = "stop"]
            /\ UNCHANGED nap
       ELSE NapAgain(w)
    /\ UNCHANGED <<instance, hpc, wait, idleFor, stopWait, quiet, backend>>

\* Mutated form of PollEmpty: every empty poll starts the idle period anew.
PollEmptyStartsAnew(w) ==
    /\ wpc[w] = "poll"
    /\ backend = "up"
    /\ Players = {}
    /\ idleFor' = [idleFor EXCEPT ![w] = 0]
    /\ NapAgain(w)
    /\ UNCHANGED <<instance, hpc, wait, stopWait, quiet, backend>>

\* Nobody is online: the first such poll starts the idle period, a later
\* one may end it.
PollEmpty(w) ==
    /\ wpc[w] = "poll"
    /\ backend = "up"
    /\ Players = {}
    /\ IF idleFor[w] = NotIdle
       THEN /\ idleFor' = [idleFor EXCEPT ![w] = 0]
            /\ NapAgain(w)
       ELSE /\ UNCHANGED idleFor
            /\ IF idleFor[w] >= IdleTimeout
               THEN /\ wpc' = [wpc EXCEPT ![w] = "stop"]
                    /\ UNCHANGED nap
               ELSE NapAgain(w)
    /\ UNCHANGED <<instance, hpc, wait, stopWait, quiet, backend>>

\* adapter.Stop(): a failure is only logged.
WatcherStop(w) ==
    /\ wpc[w] = "stop"
    /\ backend' \in {Stopped(backend)} \union (IF RconFails THEN {backend} ELSE {})
    /\ wpc' = [wpc EXCEPT ![w] = "drain"]
    /\ stopWait' = [stopWait EXCEPT ![w] = StopTimeout]
    /\ UNCHANGED <<instance, hpc, wait, nap, idleFor, quiet>>

\* waitForBackendDown ends with the port closed or with its timeout; the
\* caller goes on in the same way.
WatcherDown(w) ==
    /\ wpc[w] = "drain"
    /\ ~Listening(backend) \/ stopWait[w] = 0
    /\ wpc' = [wpc EXCEPT ![w] = "mark"]
    /\ stopWait' = [stopWait EXCEPT ![w] = 0]
    /\ UNCHANGED <<instance, hpc, wait, nap, idleFor, quiet, backend>>

\* The last locked section of idleWatcher, which does not test state.
MarkAsleep(w) ==
    /\ wpc[w] = "mark"
    /\ state' = "asleep"
    /\ wakingSince' = FALSE
    /\ Returns(w)
    /\ UNCHANGED <<hpc, wait, nap, stopWait, backend>>

-----------------------------------------------------------------------------
(* Time and the backend.                                                   *)

Tick ==
    /\ wait' = [h \in Conns |-> IF hpc[h] = "await" THEN Sooner(wait[h]) ELSE wait[h]]
    /\ nap' = [w \in Watchers |-> IF wpc[w] = "nap" THEN Sooner(nap[w]) ELSE nap[w]]
    /\ idleFor' = [w \in Watchers |->
                     IF idleFor[w] = NotIdle THEN NotIdle ELSE Later(idleFor[w], IdleTimeout)]
    /\ stopWait' = [w \in Watchers |->
                     IF wpc[w] = "drain" THEN Sooner(stopWait[w]) ELSE stopWait[w]]
    /\ quiet' = [w \in Watchers |->
                     IF wpc[w] = "none" THEN quiet[w] ELSE Later(quiet[w], IdleTimeout)]
    /\ UNCHANGED <<instance, hpc, wpc, backend>>

\* The backend moves to phase b.  A port that closes takes its connections
\* with it: both copies of proxy() end.
Becomes(b) ==
    /\ backend' = b
    /\ hpc' = [h \in Conns |-> IF ~Listening(b) /\ h \in Connected THEN "idle" ELSE hpc[h]]
    /\ UNCHANGED <<instance, wait, watching>>

BackendMoves ==
    \E b \in Phases :
        /\ Evolves(backend, b)
        /\ backend = "booting" /\ b = "down" => BootFails
        /\ Becomes(b)

\* Others work on the same backend: gameops maintenance and the host agent
\* run in processes of their own, an operator may use RCON, it may crash.
ExternalStop ==
    /\ ExternalOps
    /\ backend # "down"
    /\ \E b \in {Stopped(backend), "down"} : Becomes(b)

ExternalStart ==
    /\ ExternalOps
    /\ backend = "down"
    /\ Becomes(Started(backend))

\* The process ends, because it is killed or because the Run of another
\* instance has returned, and a new one begins with NewInstance: whatever its
\* goroutines were doing is gone, and the backend is left as it is.
Restart ==
    /\ ProcessExits
    /\ state' = "asleep"
    /\ wakingSince' = FALSE
    /\ hpc' = [h \in Conns |-> "idle"]
    /\ wait' = [h \in Conns |-> 0]
    /\ wpc' = [w \in Watchers |-> "none"]
    /\ nap' = [w \in Watchers |-> 0]
    /\ idleFor' = [w \in Watchers |-> NotIdle]
    /\ stopWait' = [w \in Watchers |-> 0]
    /\ quiet' = [w \in Watchers |-> 0]
    /\ UNCHANGED backend

-----------------------------------------------------------------------------

Handler(h) ==
    \/ Route(h)
    \/ Dial(h)
    \/ Join(h)
    \/ ProxyEnds(h)
    \/ Resync(h)
    \/ \E login \in BOOLEAN : HandleSleeping(h, login)
    \/ WakeLock(h)
    \/ StartCommand(h)
    \/ AwaitReady(h)
    \/ GiveUp(h)
    \/ MarkAwake(h)
    \/ \E w \in Watchers : SpawnWatcher(h, w)

Watcher(w) ==
    \/ WatcherCheck(w)
    \/ PollError(w)
    \/ PollBusy(w)
    \/ PollEmpty(w)
    \/ WatcherStop(w)
    \/ WatcherDown(w)
    \/ MarkAsleep(w)

World == BackendMoves \/ ExternalStop \/ ExternalStart

Next ==
    \/ \E h \in Conns : Handler(h)
    \/ \E w \in Watchers : Watcher(w)
    \/ Tick
    \/ World
    \/ Restart

Spec == Init /\ [][Next]_vars

\* The steps a handler takes by itself are eventually taken; what it waits
\* for a client to send is not promised.  A waker dials at once and then
\* every 300 ms, so a backend that is found listening in one ready window
\* after another is eventually seen.
HandlerFairness(h) ==
    /\ WF_vars(Dial(h) \/ Resync(h) \/ WakeLock(h) \/ StartCommand(h)
               \/ GiveUp(h) \/ MarkAwake(h))
    /\ WF_vars(\E w \in Watchers : SpawnWatcher(h, w))
    /\ SF_vars(AwaitReady(h))

Fairness ==
    /\ \A h \in Conns : HandlerFairness(h)
    /\ \A w \in Watchers : WF_vars(Watcher(w))
    /\ WF_vars(Tick)
    /\ WF_vars(BackendMoves)

FairSpec == Spec /\ Fairness

-----------------------------------------------------------------------------
(* Properties.                                                             *)

\* Every variable has its type, and the clocks stay within their bounds.
TypeOK ==
    /\ state \in States
    /\ wakingSince \in BOOLEAN
    /\ hpc \in [Conns -> HandlerPoints]
    /\ wait \in [Conns -> 0 .. ReadyTimeout]
    /\ wpc \in [Watchers -> WatcherPoints]
    /\ nap \in [Watchers -> 0 .. PollInterval]
    /\ idleFor \in [Watchers -> {NotIdle} \union 0 .. IdleTimeout]
    /\ stopWait \in [Watchers -> 0 .. StopTimeout]
    /\ backend \in Phases
    /\ quiet \in [Watchers -> 0 .. IdleTimeout]

\* An instance shows the waking label, and refuses to run start_command
\* again, only while some handler is inside wake() to end that state.
\* Resync, GiveUp and MarkAsleep all overwrite state without looking, so a
\* reset forgotten in any of them would leave the instance waking for good.
WakingIsOwned ==
    /\ wakingSince <=> state = "waking"
    /\ state = "waking" => WakingUp # {}

\* An awake instance always has a live idle watcher, or the handler that is
\* about to start one, however wake-ups, resyncs and retiring watchers
\* interleave: no interleaving leaves the backend running unwatched.
AwakeIsWatched ==
    state = "awake" => Live \union Spawning # {}

\* A watcher decides to stop the backend only when all its polls of the
\* last idle timeout succeeded and saw nobody: an RCON error or a player in
\* between starts the period anew ("not counting toward idle").
StopNeedsIdleEvidence ==
    \A w \in Watchers : wpc[w] = "stop" => quiet[w] >= IdleTimeout

\* Why that holds: idleSince is never older than the last poll that was not
\* empty, and a watcher that has returned has none.
IdleEvidence ==
    \A w \in Watchers :
        /\ quiet[w] >= idleFor[w]
        /\ wpc[w] = "none" => idleFor[w] = NotIdle

\* While a wake-up waits for its backend, no second login starts another
\* one ("must not re-run start_command").
OneWakeUp == \A g, h \in WakingUp : g = h

\* A wake-up ends, in awake or in asleep, whatever the backend does.
WakingEnds == state = "waking" ~> state # "waking"

\* A backend that is running, awake and empty does not stay so for ever:
\* somebody plays, or it is stopped.
EmptyBackendIsStopped ==
    []<>~(state = "awake" /\ backend = "up" /\ Players = {})

\* A backend that is running and empty does not stay so for ever, whether the
\* instance knows that it runs or not ("after a configurable number of minutes
\* with no players online ... it stops the backend").
IdleBackendIsStopped == []<>~(backend = "up" /\ Players = {})

\* The state machine that clients and operators are promised.
Promise == INSTANCE Lifecycle WITH
    Wakers <- Conns,
    Guards <- Watchers,
    wakers <- WakingUp,
    guards <- Live \union Spawning

Lifecycle == Promise!Spec

=============================================================================
