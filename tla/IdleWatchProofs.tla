-------------------------- MODULE IdleWatchProofs --------------------------
(***************************************************************************)
(* Proofs about IdleWatch, for any number of connections and watchers and  *)
(* any timing.                                                             *)
(***************************************************************************)
EXTENDS IdleWatch, TLAPS

-----------------------------------------------------------------------------
(* Types.                                                                  *)

\* The phases that the operators of Backend lead to.
LEMMA PhaseType ==
    ASSUME NEW b \in Phases
    PROVE  /\ Started(b) \in Phases
           /\ Stopped(b) \in Phases
BY DEF Phases, Started, Stopped

\* A stopwatch stays within its bound, and so does a countdown.
LEMMA ClockType ==
    ASSUME NEW bound \in Nat, NEW n \in 0 .. bound
    PROVE  /\ Later(n, bound) \in 0 .. bound
           /\ Sooner(n) \in 0 .. bound
BY DEF Later, Sooner

\* A handler's steps keep the types.
LEMMA HandlerType ==
    ASSUME TypeOK, NEW h \in Conns, Handler(h)
    PROVE  TypeOK'
<1> USE TimingAssumption DEF TypeOK, HandlerPoints, States, instance, Goto
<1>1. CASE Route(h)
  BY <1>1 DEF Route, watching
<1>2. CASE Dial(h)
  BY <1>2 DEF Dial, watching
<1>3. CASE Join(h)
  BY <1>3 DEF Join, watching
<1>4. CASE ProxyEnds(h)
  BY <1>4 DEF ProxyEnds, watching
<1>5. CASE Resync(h)
  BY <1>5 DEF Resync, watching
<1>6. CASE \E login \in BOOLEAN : HandleSleeping(h, login)
  BY <1>6 DEF HandleSleeping, watching
<1>7. CASE WakeLock(h)
  BY <1>7 DEF WakeLock, watching
<1>8. CASE StartCommand(h)
  BY <1>8, PhaseType DEF StartCommand, watching
<1>9. CASE AwaitReady(h)
  BY <1>9 DEF AwaitReady, watching
<1>10. CASE GiveUp(h)
  BY <1>10 DEF GiveUp, watching
<1>11. CASE MarkAwake(h)
  BY <1>11 DEF MarkAwake, watching
<1>12. CASE \E w \in Watchers : SpawnWatcher(h, w)
  BY <1>12 DEF SpawnWatcher, WatcherPoints
<1> QED
  BY <1>1, <1>2, <1>3, <1>4, <1>5, <1>6, <1>7, <1>8, <1>9, <1>10, <1>11, <1>12
     DEF Handler

\* A watcher's steps keep the types.
LEMMA WatcherType ==
    ASSUME TypeOK, NEW w \in Watchers, Watcher(w)
    PROVE  TypeOK'
<1> USE TimingAssumption DEF TypeOK, WatcherPoints, States, instance, NapAgain,
        Returns, NotIdle
<1>1. CASE WatcherCheck(w)
  BY <1>1 DEF WatcherCheck
<1>2. CASE PollError(w)
  BY <1>2 DEF PollError
<1>3. CASE PollBusy(w)
  BY <1>3 DEF PollBusy
<1>4. CASE PollEmpty(w)
  BY <1>4 DEF PollEmpty
<1>5. CASE WatcherStop(w)
  BY <1>5, PhaseType DEF WatcherStop
<1>6. CASE WatcherDown(w)
  BY <1>6 DEF WatcherDown
<1>7. CASE MarkAsleep(w)
  <2> USE <1>7 DEF MarkAsleep
  <2>1. state' \in States /\ wakingSince' \in BOOLEAN
    OBVIOUS
  <2>2. wpc' \in [Watchers -> WatcherPoints]
    OBVIOUS
  <2>3. idleFor' \in [Watchers -> {NotIdle} \union 0 .. IdleTimeout]
    OBVIOUS
  <2>4. quiet' \in [Watchers -> 0 .. IdleTimeout]
    OBVIOUS
  <2> QED
    BY <2>1, <2>2, <2>3, <2>4
<1> QED
  BY <1>1, <1>2, <1>3, <1>4, <1>5, <1>6, <1>7 DEF Watcher

\* Time keeps the types.
LEMMA TickType ==
    ASSUME TypeOK, Tick
    PROVE  TypeOK'
<1> USE TimingAssumption DEF TypeOK, Tick, instance
<1>1. wait' \in [Conns -> 0 .. ReadyTimeout]
  BY ClockType
<1>2. nap' \in [Watchers -> 0 .. PollInterval]
  BY ClockType
<1>3. idleFor' \in [Watchers -> {NotIdle} \union 0 .. IdleTimeout]
  BY ClockType DEF NotIdle
<1>4. stopWait' \in [Watchers -> 0 .. StopTimeout]
  BY ClockType
<1>5. quiet' \in [Watchers -> 0 .. IdleTimeout]
  BY ClockType
<1> QED
  BY <1>1, <1>2, <1>3, <1>4, <1>5

\* The backend's steps keep the types.
LEMMA BecomesType ==
    ASSUME TypeOK, NEW b \in Phases, Becomes(b)
    PROVE  TypeOK'
BY DEF TypeOK, Becomes, instance, watching, HandlerPoints

LEMMA WorldType ==
    ASSUME TypeOK, World
    PROVE  TypeOK'
<1>1. backend \in Phases
  BY DEF TypeOK
<1>2. \E b \in Phases : Becomes(b)
  BY <1>1, PhaseType DEF World, BackendMoves, ExternalStop, ExternalStart, Phases
<1> QED
  BY <1>2, BecomesType

\* A new process begins with the values of NewInstance.
LEMMA RestartType ==
    ASSUME TypeOK, Restart
    PROVE  TypeOK'
<1> USE TimingAssumption DEF TypeOK, Restart
<1>1. state' \in States /\ wakingSince' \in BOOLEAN /\ backend' \in Phases
  BY DEF States
<1>2. hpc' \in [Conns -> HandlerPoints] /\ wpc' \in [Watchers -> WatcherPoints]
  BY DEF HandlerPoints, WatcherPoints
<1>3. wait' \in [Conns -> 0 .. ReadyTimeout] /\ nap' \in [Watchers -> 0 .. PollInterval]
  OBVIOUS
<1>4. idleFor' \in [Watchers -> {NotIdle} \union 0 .. IdleTimeout]
  OBVIOUS
<1>5. stopWait' \in [Watchers -> 0 .. StopTimeout] /\ quiet' \in [Watchers -> 0 .. IdleTimeout]
  OBVIOUS
<1> QED
  BY <1>1, <1>2, <1>3, <1>4, <1>5

\* Every variable keeps its type, and no clock passes its bound.
THEOREM TypeCorrect == Spec => []TypeOK
<1>1. Init => TypeOK
  <2> SUFFICES ASSUME Init PROVE TypeOK
    OBVIOUS
  <2> USE TimingAssumption DEF Init
  <2>1. state \in States /\ wakingSince \in BOOLEAN /\ backend \in Phases
    BY DEF States
  <2>2. hpc \in [Conns -> HandlerPoints] /\ wpc \in [Watchers -> WatcherPoints]
    BY DEF HandlerPoints, WatcherPoints
  <2>3. wait \in [Conns -> 0 .. ReadyTimeout] /\ nap \in [Watchers -> 0 .. PollInterval]
    OBVIOUS
  <2>4. idleFor \in [Watchers -> {NotIdle} \union 0 .. IdleTimeout]
    OBVIOUS
  <2>5. stopWait \in [Watchers -> 0 .. StopTimeout] /\ quiet \in [Watchers -> 0 .. IdleTimeout]
    OBVIOUS
  <2> QED
    BY <2>1, <2>2, <2>3, <2>4, <2>5 DEF TypeOK
<1>2. TypeOK /\ [Next]_vars => TypeOK'
  <2> SUFFICES ASSUME TypeOK, [Next]_vars PROVE TypeOK'
    OBVIOUS
  <2>1. CASE UNCHANGED vars
    BY <2>1 DEF TypeOK, vars, instance, watching
  <2>2. CASE Next
    BY <2>2, HandlerType, WatcherType, TickType, WorldType, RestartType DEF Next
  <2> QED
    BY <2>1, <2>2
<1> QED
  BY <1>1, <1>2, PTL DEF Spec

-----------------------------------------------------------------------------
(* The refinement.  Every step of IdleWatch is a step of Lifecycle, or     *)
(* changes nothing that Lifecycle sees.                                    *)

\* A handler takes the steps of a waker and hands over to a watcher.
LEMMA HandlerRefines ==
    ASSUME TypeOK, NEW h \in Conns, Handler(h)
    PROVE  [Promise!Next]_(Promise!vars)
<1> USE DEF TypeOK, Goto, instance, watching, WakingUp, Spawning, Live, Promise!vars
<1>1. CASE Route(h)
  BY <1>1 DEF Route, States
<1>2. CASE Dial(h)
  BY <1>2 DEF Dial
<1>3. CASE Join(h)
  BY <1>3 DEF Join
<1>4. CASE ProxyEnds(h)
  BY <1>4 DEF ProxyEnds, Connected
<1>5. CASE Resync(h)
  <2>1. Promise!Resync
    BY <1>5 DEF Resync, Promise!Resync
  <2> QED
    BY <2>1 DEF Promise!Next
<1>6. CASE \E login \in BOOLEAN : HandleSleeping(h, login)
  BY <1>6 DEF HandleSleeping
<1>7. CASE WakeLock(h)
  <2>1. CASE state = "asleep"
    <3>1. Promise!Wake(h)
      BY <1>7, <2>1 DEF WakeLock, Promise!Wake
    <3> QED
      BY <3>1 DEF Promise!Next
  <2>2. CASE state # "asleep"
    BY <1>7, <2>2 DEF WakeLock
  <2> QED
    BY <2>1, <2>2
<1>8. CASE StartCommand(h)
  BY <1>8 DEF StartCommand
<1>9. CASE AwaitReady(h)
  BY <1>9 DEF AwaitReady
<1>10. CASE GiveUp(h)
  <2>1. Promise!GiveUp(h)
    BY <1>10 DEF GiveUp, Promise!GiveUp
  <2> QED
    BY <2>1 DEF Promise!Next
<1>11. CASE MarkAwake(h)
  <2>1. Promise!Ready(h)
    BY <1>11 DEF MarkAwake, Promise!Ready
  <2> QED
    BY <2>1 DEF Promise!Next
<1>12. CASE \E w \in Watchers : SpawnWatcher(h, w)
  <2>1. PICK w \in Watchers : SpawnWatcher(h, w)
    BY <1>12
  <2>2. Promise!Handover(h, w)
    BY <2>1, DistinctAssumption DEF SpawnWatcher, Promise!Handover
  <2> QED
    BY <2>2 DEF Promise!Next
<1> QED
  BY <1>1, <1>2, <1>3, <1>4, <1>5, <1>6, <1>7, <1>8, <1>9, <1>10, <1>11, <1>12
     DEF Handler

\* A watcher is a guard: it retires or puts the instance to sleep.
LEMMA WatcherRefines ==
    ASSUME TypeOK, NEW w \in Watchers, Watcher(w)
    PROVE  [Promise!Next]_(Promise!vars)
<1> USE DEF TypeOK, instance, WakingUp, Spawning, Live, NapAgain, Promise!vars
<1>1. CASE WatcherCheck(w)
  <2>1. CASE state = "awake"
    BY <1>1, <2>1 DEF WatcherCheck
  <2>2. CASE state # "awake"
    <3>1. Promise!Retire(w)
      BY <1>1, <2>2, DistinctAssumption DEF WatcherCheck, Returns, Promise!Retire
    <3> QED
      BY <3>1 DEF Promise!Next
  <2> QED
    BY <2>1, <2>2
<1>2. CASE PollError(w)
  BY <1>2 DEF PollError
<1>3. CASE PollBusy(w)
  BY <1>3 DEF PollBusy
<1>4. CASE PollEmpty(w)
  BY <1>4 DEF PollEmpty
<1>5. CASE WatcherStop(w)
  BY <1>5 DEF WatcherStop
<1>6. CASE WatcherDown(w)
  BY <1>6 DEF WatcherDown
<1>7. CASE MarkAsleep(w)
  <2>1. Promise!Sleep(w)
    BY <1>7, DistinctAssumption DEF MarkAsleep, Returns, Promise!Sleep
  <2> QED
    BY <2>1 DEF Promise!Next
<1> QED
  BY <1>1, <1>2, <1>3, <1>4, <1>5, <1>6, <1>7 DEF Watcher

\* Lifecycle sees neither time nor the backend.
LEMMA WorldRefines ==
    ASSUME TypeOK, Tick \/ World
    PROVE  UNCHANGED Promise!vars
<1> USE DEF TypeOK, instance, watching, WakingUp, Spawning, Live, Promise!vars
<1>1. CASE Tick
  BY <1>1 DEF Tick
<1>2. ASSUME NEW b, Becomes(b) PROVE UNCHANGED Promise!vars
  BY <1>2 DEF Becomes, Connected
<1>3. CASE World
  BY <1>2, <1>3 DEF World, BackendMoves, ExternalStop, ExternalStart
<1> QED
  BY <1>1, <1>3

\* A restart loses every waker and every guard at once.
LEMMA RestartRefines ==
    ASSUME Restart
    PROVE  Promise!Restart
BY DEF Restart, WakingUp, Spawning, Live, Promise!Restart

\* A step from a state of the right type refines Lifecycle.
LEMMA StepRefines == TypeOK /\ [Next]_vars => [Promise!Next]_(Promise!vars)
<1> SUFFICES ASSUME TypeOK, [Next]_vars PROVE [Promise!Next]_(Promise!vars)
  OBVIOUS
<1>1. CASE UNCHANGED vars
  BY <1>1 DEF vars, instance, watching, WakingUp, Spawning, Live, Promise!vars
<1>2. CASE Next
  <2>1. CASE Restart
    BY <2>1, RestartRefines DEF Promise!Next
  <2> QED
    BY <1>2, <2>1, HandlerRefines, WatcherRefines, WorldRefines DEF Next
<1> QED
  BY <1>1, <1>2

LEMMA InitRefines == Init => Promise!Init
BY DEF Init, WakingUp, Spawning, Live, Promise!Init

\* idle-watch implements the promised state machine.
THEOREM Implements == Spec => Lifecycle
BY InitRefines, StepRefines, TypeCorrect, PTL DEF Spec, Lifecycle, Promise!Spec

-----------------------------------------------------------------------------
(* Ownership: what the promised state machine keeps, idle-watch keeps.     *)

\* A step of Lifecycle leaves no instance waking or awake on its own.
LEMMA PromiseKept ==
    ASSUME Promise!WakingIsOwned, Promise!AwakeIsWatched,
           [Promise!Next]_(Promise!vars)
    PROVE  Promise!WakingIsOwned' /\ Promise!AwakeIsWatched'
<1> USE DEF Promise!WakingIsOwned, Promise!AwakeIsWatched
<1>1. CASE UNCHANGED Promise!vars
  BY <1>1 DEF Promise!vars
<1>2. ASSUME NEW h \in Conns, Promise!Wake(h) \/ Promise!Ready(h) \/ Promise!GiveUp(h)
      PROVE  Promise!WakingIsOwned' /\ Promise!AwakeIsWatched'
  BY <1>2 DEF Promise!Wake, Promise!Ready, Promise!GiveUp
<1>3. ASSUME NEW h \in Conns, NEW w \in Watchers, Promise!Handover(h, w)
      PROVE  Promise!WakingIsOwned' /\ Promise!AwakeIsWatched'
  BY <1>3 DEF Promise!Handover
<1>4. ASSUME NEW w \in Watchers, Promise!Retire(w) \/ Promise!Sleep(w)
      PROVE  Promise!WakingIsOwned' /\ Promise!AwakeIsWatched'
  BY <1>4 DEF Promise!Retire, Promise!Sleep
<1>5. CASE Promise!Resync
  BY <1>5 DEF Promise!Resync
<1>6. CASE Promise!Restart
  BY <1>6 DEF Promise!Restart
<1> QED
  BY <1>1, <1>2, <1>3, <1>4, <1>5, <1>6 DEF Promise!Next

\* The label: whoever writes state writes wakingSince with it.
LEMMA LabelKept ==
    ASSUME wakingSince <=> state = "waking", [Next]_vars
    PROVE  wakingSince' <=> state' = "waking"
<1> USE DEF instance
<1>1. CASE UNCHANGED vars
  BY <1>1 DEF vars
<1>2. ASSUME NEW h \in Conns, Handler(h)
      PROVE  wakingSince' <=> state' = "waking"
  BY <1>2 DEF Handler, Route, Dial, Join, ProxyEnds, Resync, HandleSleeping, WakeLock,
              StartCommand, AwaitReady, GiveUp, MarkAwake, SpawnWatcher
<1>3. ASSUME NEW w \in Watchers, Watcher(w)
      PROVE  wakingSince' <=> state' = "waking"
  BY <1>3 DEF Watcher, WatcherCheck, PollError, PollBusy, PollEmpty, WatcherStop,
              WatcherDown, MarkAsleep
<1>4. CASE Tick \/ World \/ Restart
  BY <1>4 DEF Tick, World, BackendMoves, ExternalStop, ExternalStart, Becomes, Restart
<1> QED
  BY <1>1, <1>2, <1>3, <1>4 DEF Next

\* An instance is never left waking without a wake-up in progress, nor
\* awake without a watcher, for any number of clients.
THEOREM Owned == Spec => [](WakingIsOwned /\ AwakeIsWatched)
<1> DEFINE Inv == WakingIsOwned /\ AwakeIsWatched
<1> USE DEF WakingIsOwned, AwakeIsWatched
<1>1. Init => Inv
  BY DEF Init
<1>2. TypeOK /\ Inv /\ [Next]_vars => Inv'
  BY StepRefines, PromiseKept, LabelKept DEF Promise!WakingIsOwned, Promise!AwakeIsWatched
<1> QED
  BY <1>1, <1>2, TypeCorrect, PTL DEF Spec

\* In particular an awake instance always has somebody who will notice that
\* it is idle: a watcher, or the handler that is about to spawn one.
THEOREM Watched == Spec => []AwakeIsWatched
<1>1. WakingIsOwned /\ AwakeIsWatched => AwakeIsWatched
  OBVIOUS
<1> QED
  BY <1>1, Owned, PTL

-----------------------------------------------------------------------------
(* Evidence: a watcher stops the backend only after an idle timeout of     *)
(* empty polls.  The decision is taken on idleFor, so what has to be       *)
(* carried along is that idleFor never exceeds the time since the last     *)
(* poll that was not empty.                                                *)

\* Two stopwatches that run together keep their order up to the bound.
LEMMA ClocksKeepOrder ==
    ASSUME NEW bound \in Nat, NEW m \in 0 .. bound, NEW n \in 0 .. bound, m >= n
    PROVE  Later(m, bound) >= Later(n, bound)
BY DEF Later

\* Only a watcher's own steps and time touch its evidence.
LEMMA OthersKeepEvidence ==
    ASSUME IdleEvidence, StopNeedsIdleEvidence,
           UNCHANGED vars \/ (\E h \in Conns : Handler(h)) \/ World,
           TypeOK
    PROVE  IdleEvidence' /\ StopNeedsIdleEvidence'
<1> USE DEF TypeOK, IdleEvidence, StopNeedsIdleEvidence, watching
<1>1. CASE UNCHANGED watching
  BY <1>1
<1>2. CASE UNCHANGED vars \/ World
  BY <1>1, <1>2 DEF vars, World, BackendMoves, ExternalStop, ExternalStart, Becomes
<1>3. ASSUME NEW h \in Conns, Handler(h)
      PROVE  IdleEvidence' /\ StopNeedsIdleEvidence'
  <2>1. CASE \E w \in Watchers : SpawnWatcher(h, w)
    BY <2>1 DEF SpawnWatcher, WatcherPoints
  <2>2. CASE ~\E w \in Watchers : SpawnWatcher(h, w)
    BY <1>1, <1>3, <2>2 DEF Handler, Route, Dial, Join, ProxyEnds, Resync, HandleSleeping,
              WakeLock, StartCommand, AwaitReady, GiveUp, MarkAwake
  <2> QED
    BY <2>1, <2>2
<1> QED
  BY <1>2, <1>3

\* A poll that finds an empty server can end an idle period only when it
\* has lasted; every other poll starts it anew.
LEMMA WatcherKeepsEvidence ==
    ASSUME TypeOK, IdleEvidence, StopNeedsIdleEvidence, NEW w \in Watchers, Watcher(w)
    PROVE  IdleEvidence' /\ StopNeedsIdleEvidence'
<1> USE TimingAssumption DEF TypeOK, IdleEvidence, StopNeedsIdleEvidence, NotIdle,
        NapAgain, Returns, WatcherPoints
<1>1. CASE WatcherCheck(w)
  BY <1>1 DEF WatcherCheck
<1>2. CASE PollError(w)
  BY <1>2 DEF PollError
<1>3. CASE PollBusy(w)
  BY <1>3 DEF PollBusy
<1>4. CASE PollEmpty(w)
  <2>1. CASE idleFor[w] = NotIdle
    BY <1>4, <2>1 DEF PollEmpty
  <2>2. CASE idleFor[w] # NotIdle
    BY <1>4, <2>2 DEF PollEmpty
  <2> QED
    BY <2>1, <2>2
<1>5. CASE WatcherStop(w)
  BY <1>5 DEF WatcherStop
<1>6. CASE WatcherDown(w)
  BY <1>6 DEF WatcherDown
<1>7. CASE MarkAsleep(w)
  BY <1>7 DEF MarkAsleep
<1> QED
  BY <1>1, <1>2, <1>3, <1>4, <1>5, <1>6, <1>7 DEF Watcher

\* Time adds to both stopwatches of a live watcher.
LEMMA TickKeepsEvidence ==
    ASSUME TypeOK, IdleEvidence, StopNeedsIdleEvidence, Tick
    PROVE  IdleEvidence' /\ StopNeedsIdleEvidence'
<1> USE TimingAssumption DEF TypeOK, Tick
<1> SUFFICES ASSUME NEW w \in Watchers
             PROVE  /\ quiet'[w] >= idleFor'[w]
                    /\ wpc'[w] = "none" => idleFor'[w] = NotIdle
                    /\ wpc'[w] = "stop" => quiet'[w] >= IdleTimeout
  BY DEF IdleEvidence, StopNeedsIdleEvidence
<1>1. /\ quiet[w] >= idleFor[w]
      /\ wpc[w] = "none" => idleFor[w] = NotIdle
      /\ wpc[w] = "stop" => quiet[w] >= IdleTimeout
  BY DEF IdleEvidence, StopNeedsIdleEvidence
<1>2. CASE wpc[w] = "none"
  BY <1>1, <1>2 DEF NotIdle
<1>3. CASE wpc[w] # "none"
  <2>1. quiet'[w] = Later(quiet[w], IdleTimeout)
    BY <1>3
  <2>2. CASE idleFor[w] = NotIdle
    BY <1>1, <1>3, <2>1, <2>2 DEF Later, NotIdle
  <2>3. CASE idleFor[w] # NotIdle
    BY <1>1, <1>3, <2>1, <2>3, ClocksKeepOrder DEF Later
  <2> QED
    BY <2>2, <2>3
<1> QED
  BY <1>2, <1>3

\* A new process has no watchers, and so no idle periods.
LEMMA RestartKeepsEvidence ==
    ASSUME Restart
    PROVE  IdleEvidence' /\ StopNeedsIdleEvidence'
BY DEF Restart, IdleEvidence, StopNeedsIdleEvidence, NotIdle

\* A decision to stop the backend always rests on a full idle timeout of
\* polls that succeeded and saw nobody, for any timing and any number of
\* watchers left over from earlier wake-ups.
THEOREM Evidence == Spec => []StopNeedsIdleEvidence
<1> DEFINE Inv == IdleEvidence /\ StopNeedsIdleEvidence
<1>1. Init => Inv
  BY DEF Init, IdleEvidence, StopNeedsIdleEvidence, NotIdle
<1>2. TypeOK /\ Inv /\ [Next]_vars => Inv'
  BY OthersKeepEvidence, WatcherKeepsEvidence, TickKeepsEvidence, RestartKeepsEvidence DEF Next
<1> QED
  BY <1>1, <1>2, TypeCorrect, PTL DEF Spec

=============================================================================
