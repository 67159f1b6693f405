----------------------------- MODULE Lifecycle -----------------------------
(***************************************************************************)
(* What idle-watch promises about the state of one instance, without its   *)
(* clocks, connections and backend.                                        *)
(*                                                                         *)
(* An instance is asleep, waking or awake.  It is never left waking with   *)
(* nobody to finish the wake-up, and never left awake with nobody to put   *)
(* it back to sleep: a waker keeps its instance waking until it gives up   *)
(* or hands over to a guard, and a guard retires only when the instance is *)
(* not awake, or by putting it to sleep itself.                            *)
(***************************************************************************)
CONSTANTS Wakers, Guards

VARIABLES state,    \* what a connection that reads the instance finds
          wakers,   \* wake-ups in progress
          guards    \* who will put an awake instance back to sleep

vars == <<state, wakers, guards>>

States == {"asleep", "waking", "awake"}

Init ==
    /\ state = "asleep"
    /\ wakers = {}
    /\ guards = {}

\* A login on a sleeping instance starts a wake-up.
Wake(h) ==
    /\ state = "asleep"
    /\ h \notin wakers
    /\ state' = "waking"
    /\ wakers' = wakers \union {h}
    /\ UNCHANGED guards

\* A wake-up succeeds: its waker becomes the guard of the awake instance.
Ready(h) ==
    /\ h \in wakers
    /\ state' = "awake"
    /\ wakers' = wakers \ {h}
    /\ guards' = guards \union {h}

\* The waker passes its duty on to a guard that lasts.
Handover(h, w) ==
    /\ h \in guards
    /\ w \notin guards
    /\ guards' = (guards \ {h}) \union {w}
    /\ UNCHANGED <<state, wakers>>

\* A wake-up fails and the instance is asleep again.
GiveUp(h) ==
    /\ h \in wakers
    /\ state' = "asleep"
    /\ wakers' = wakers \ {h}
    /\ UNCHANGED guards

\* A guard finds nothing to watch.
Retire(w) ==
    /\ w \in guards
    /\ state # "awake"
    /\ guards' = guards \ {w}
    /\ UNCHANGED <<state, wakers>>

\* A guard stops the backend and puts the instance to sleep.
Sleep(w) ==
    /\ w \in guards
    /\ state' = "asleep"
    /\ guards' = guards \ {w}
    /\ UNCHANGED wakers

\* A connection finds the backend gone.
Resync ==
    /\ state' = "asleep"
    /\ UNCHANGED <<wakers, guards>>

\* The process that keeps the instance ends, and another one takes over.
Restart ==
    /\ state' = "asleep"
    /\ wakers' = {}
    /\ guards' = {}

Next ==
    \/ \E h \in Wakers : Wake(h) \/ Ready(h) \/ GiveUp(h)
    \/ \E h \in Wakers, w \in Guards : Handover(h, w)
    \/ \E w \in Guards : Retire(w) \/ Sleep(w)
    \/ Resync
    \/ Restart

Spec == Init /\ [][Next]_vars

-----------------------------------------------------------------------------

\* An instance that is waking has somebody finishing the wake-up.
WakingIsOwned == state = "waking" => wakers # {}

\* An instance that is awake has somebody who can put it to sleep.
AwakeIsWatched == state = "awake" => guards # {}

=============================================================================
