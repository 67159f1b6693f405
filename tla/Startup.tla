------------------------------ MODULE Startup ------------------------------
(***************************************************************************)
(* gameops startup apply on one instance: src/startup/startup.go, over     *)
(* the RCON connections of module Rcon, one for every attempt.             *)
(*                                                                         *)
(* A run waits until the log file shows that the server has booted, then   *)
(* until RCON answers a probe, and then sends the configured commands one  *)
(* after the other, each with a few attempts.  An attempt that fails tells *)
(* nothing about the server: the command may not have reached it, may have *)
(* been carried out and only its reply is missing, or may be carried out   *)
(* later, when the connection is long closed.  Meanwhile the server may    *)
(* stop and be started again.                                              *)
(***************************************************************************)
EXTENDS Backend, Rcon

CONSTANTS
    Commands,       \* bound: the commands 1 .. Commands are configured
    CommandTries,   \* commandMaxAttempts
    ProbeTries,     \* rconReadyMaxAttempts
    BootTimeout,    \* bootLogPollTimeout, in ticks
    UsesLog         \* log_path is configured

ASSUME StartupAssumption ==
    /\ {Commands, CommandTries, ProbeTries} \subseteq Nat \ {0}
    /\ BootTimeout \in Nat
    /\ UsesLog \in BOOLEAN

Numbers == 1 .. Commands

\* The probe command of waitForRconReady.
Seed == 0

ASSUME TextsAssumption == Texts = Numbers \union {Seed}

VARIABLES
    backend,   \* phase of the game server
    logged,    \* the log file contains the boot pattern
    pc,        \* where the run is
    left,      \* what is left of waitForBootLog's timeout
    attempt,   \* attempts made so far, of the probe or of the current command
    current,   \* the command the run has got to
    skipped,   \* commands that were given up with FAIL in the log
    times      \* history: how often the server has carried out each command

server == <<backend, logged>>
run == <<pc, left, attempt, current, skipped>>
vars == <<server, rcon, run, times>>

\* bootlog  waitForBootLog          ok      Apply returned nil
\* probe    waitForRconReady        failed  Apply returned an error
\* apply    applyCommand
Points == {"bootlog", "probe", "apply", "ok", "failed"}

Init ==
    /\ RconInit
    /\ backend \in Phases
    /\ logged \in BOOLEAN
    /\ backend \in {"up", "stopping", "exiting"} => logged
    /\ pc = IF UsesLog THEN "bootlog" ELSE "probe"
    /\ left = BootTimeout
    /\ attempt = 0
    /\ current = 1
    /\ skipped = {}
    /\ times = [c \in Numbers |-> 0]

-----------------------------------------------------------------------------
(* waitForBootLog.                                                         *)

\* The file is read as it is, whichever boot wrote the pattern.
BootLogFound ==
    /\ pc = "bootlog"
    /\ logged
    /\ pc' = "probe"
    /\ UNCHANGED <<server, rcon, left, attempt, current, skipped, times>>

BootLogTimesOut ==
    /\ pc = "bootlog"
    /\ ~logged
    /\ left = 0
    /\ pc' = "failed"
    /\ UNCHANGED <<server, rcon, left, attempt, current, skipped, times>>

-----------------------------------------------------------------------------
(* sendRconCommand: one attempt of the probe or of a command.              *)

Attempting == pc \in {"probe", "apply"}

\* What the attempt sends.
Text == IF pc = "probe" THEN Seed ELSE current

Connect ==
    /\ Attempting
    /\ backend = "up"
    /\ Dial
    /\ UNCHANGED <<server, run, times>>

Authenticate ==
    /\ Attempting
    /\ ReadAuth
    /\ UNCHANGED <<server, run, times>>

SendText ==
    /\ Attempting
    /\ Send(Text)
    /\ UNCHANGED <<server, run, times>>

NextCommand ==
    /\ attempt' = 0
    /\ current' = current + 1
    /\ pc' = IF current = Commands THEN "ok" ELSE pc

\* Mutated form of Retry: the last attempt is not told from the others, and
\* the loop ends without a line in the log.
RetrySilently ==
    /\ IF attempt + 1 < CommandTries
       THEN /\ attempt' = attempt + 1
            /\ UNCHANGED <<pc, current>>
       ELSE NextCommand
    /\ UNCHANGED skipped

\* Mutated form of Retry: the attempts are not counted.
RetryForEver == UNCHANGED <<pc, attempt, current, skipped>>

\* Mutated form of Retry: one attempt too many.
RetryOnceMore ==
    IF attempt < CommandTries
    THEN /\ attempt' = attempt + 1
         /\ UNCHANGED <<pc, current, skipped>>
    ELSE /\ skipped' = skipped \union {current}
         /\ NextCommand

\* A failed attempt is repeated, and the last one gives the command up.
Retry ==
    IF attempt + 1 < CommandTries
    THEN /\ attempt' = attempt + 1
         /\ UNCHANGED <<pc, current, skipped>>
    ELSE /\ skipped' = skipped \union {current}
         /\ NextCommand

\* waitForRconReady counts its attempts, too.
ProbeAgain ==
    /\ attempt' = attempt + 1
    /\ pc' = IF attempt' = ProbeTries THEN "failed" ELSE pc
    /\ UNCHANGED <<current, skipped>>

\* The reply is read: the probe, or the command, is done.
AttemptOk ==
    /\ Attempting
    /\ Replied
    /\ Close
    /\ IF pc = "probe"
       THEN /\ pc' = "apply"
            /\ attempt' = 0
            /\ UNCHANGED current
       ELSE NextCommand
    /\ UNCHANGED <<server, left, skipped, times>>

\* The dial, the authentication, the write or the read fails, or its
\* deadline passes.
AttemptFails ==
    /\ Attempting
    /\ Close
    /\ IF pc = "probe" THEN ProbeAgain ELSE Retry
    /\ UNCHANGED <<server, left, times>>

-----------------------------------------------------------------------------
(* The server, and time.                                                   *)

Counted(t) == times' = [c \in Numbers |-> IF c = t THEN times[c] + 1 ELSE times[c]]

ServerGreets ==
    /\ backend = "up"
    /\ Greet
    /\ UNCHANGED <<server, run, times>>

ServerCarriesOut(t) ==
    /\ backend = "up"
    /\ CarryOut(t) \/ CarryOutLate(t)
    /\ Counted(t)
    /\ UNCHANGED <<server, run>>

\* The server boots, is stopped, exits and is started again.  A boot ends
\* with the pattern in the log file.
ServerMoves ==
    /\ \E b \in Phases :
          /\ Evolves(backend, b) \/ b \in {Started(backend), Stopped(backend)} \ {backend}
          /\ backend' = b
          /\ logged' = (logged \/ b = "up")
          /\ IF Alive(b) THEN UNCHANGED rcon ELSE PeerGone
    /\ UNCHANGED <<run, times>>

\* Some time after its process has started, the server begins a new log file.
NewLog ==
    /\ backend = "booting"
    /\ logged' = FALSE
    /\ UNCHANGED <<backend, rcon, run, times>>

\* Mutated form of Tick: a countdown that runs on past its deadline.
TickPastZero ==
    /\ pc = "bootlog"
    /\ left >= 0
    /\ left' = left - 1
    /\ UNCHANGED <<server, rcon, pc, attempt, current, skipped, times>>

Tick ==
    /\ pc = "bootlog"
    /\ left > 0
    /\ left' = left - 1
    /\ UNCHANGED <<server, rcon, pc, attempt, current, skipped, times>>

-----------------------------------------------------------------------------

Run ==
    \/ BootLogFound
    \/ BootLogTimesOut
    \/ Connect
    \/ Authenticate
    \/ SendText
    \/ AttemptOk
    \/ AttemptFails

Next ==
    \/ Run
    \/ ServerGreets
    \/ \E t \in Texts : ServerCarriesOut(t)
    \/ ServerMoves
    \/ NewLog
    \/ Tick

Spec == Init /\ [][Next]_vars

\* The process goes on and its clock runs, so deadlines pass.  Nothing is
\* promised about the server: it may boot and exit for ever.
FairSpec == Spec /\ WF_vars(Run) /\ WF_vars(Tick)

-----------------------------------------------------------------------------
(* Properties.                                                             *)

\* Every variable has its type; attempts and repetitions stay within bounds.
TypeOK ==
    /\ RconTypeOK
    /\ backend \in Phases
    /\ logged \in BOOLEAN
    /\ pc \in Points
    /\ left \in 0 .. BootTimeout
    /\ attempt \in 0 .. ProbeTries + CommandTries
    /\ current \in 1 .. Commands + 1
    /\ skipped \subseteq Numbers
    /\ times \in [Numbers -> Nat]

\* A run that reports success has either had every command carried out by
\* the server, or said in the log that it could not: no command is dropped
\* in silence, wherever in its attempts the server went away.
AppliedOrTold ==
    pc = "ok" => \A c \in Numbers : times[c] > 0 \/ c \in skipped

\* Retries never carry a command out more often than the attempts that were
\* configured, however many replies were lost and however late the server
\* gets to what it has read.
BoundedRepeats == \A c \in Numbers : times[c] + late[c] <= CommandTries

\* The packet that Command takes for the answer of its command is the answer
\* of that command: a single request id is enough ("no request is ever in
\* flight concurrently with another") because late answers die with their
\* connection.
OwnAnswer == Replied => Head(inbox).of = {Text}

\* A command is sent only after the server has accepted the password, with
\* either shape of its answer.
OnlyAuthenticated == link \in {"open", "sent"} => passwordOk

\* The server carries the commands out "in order": a retry may repeat a
\* command, but not after a later one has been carried out.
InOrder ==
    [][\A c, d \in Numbers : times'[c] > times[c] /\ d > c => times[d] = 0]_vars

\* A run ends, whatever the server does.
ApplyEnds == <>(pc \in {"ok", "failed"})

=============================================================================
