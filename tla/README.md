# Verification of gameops

TLA+ models of [gameops](https://github.com/ShizukaJiku/gameops), the TLC
configurations that check them on small instances, and theorems that TLAPS
proves for every value of the constants.  Paths are those of the repository,
under `src/`.

## 1. The system

gameops is one Go binary whose subcommands work on the same game servers
("backends"), mostly as separate processes that know nothing of each other.

| Part | Source | State it keeps | Operations |
|---|---|---|---|
| idle-watch instance | `idlewatch/instance.go` | `state`, `wakingSince` under a mutex; locals of goroutines | accept, proxy, wake up, watch for idleness |
| Minecraft adapter | `idlewatch/minecraft_adapter.go` | none | answer a client of a sleeping server, count players, stop |
| backup | `backup/backup.go` | files; the server's autosave | save-off, zip, rename, rotate, save-on |
| maintenance | `maintenance/maintenance.go` | none | Stop (RCON, then force kill), Resume |
| host, game control | `host/host.go`, `internal/gamecontrol/` | `onlineSince` under a mutex | Start, Stop, Restart, Status over HTTP |
| world regen | `worldregen/worldregen.go` | files | blank seed, rename world, reset extra files, copy templates |
| startup | `startup/startup.go` | none | wait for log and RCON, apply commands |
| web auth, login | `internal/webauth/`, `gateway/server.go` | attempts per address, under a mutex | rate limit, issue and validate cookies |
| gateway proxy | `gateway/hostclient.go`, `handlers.go`, `templates.go` | the page in the browser | forward requests with deadlines, show cards |
| RCON client | `internal/rcon/rcon.go` | one connection | dial, authenticate, command |
| mcproto | `internal/mcproto/` | none | codecs |
| config | `internal/config/` | none after loading | load, merge game defaults |
| gateway config | `internal/gwconfig/` | none | load |
| command line | `cmd/gameops/main.go` | none | loops over the instances |

How they interact:

* idle-watch, maintenance, host and world regen share one thing: the backend
  process, which each of them judges by a dial of its port.  A port is closed
  while a process boots and while it exits, and much of what is hard here comes
  from that.
* host calls maintenance's Stop and Resume from one goroutine per request, and
  `gameops maintenance` calls them from a process of its own.
* backup, startup and every stop talk to the server over RCON, where a missing
  answer does not tell whether a command was carried out.
* the gateway sends requests to hosts and gives up on them by deadline, which the
  host sees as a cancelled context.
* every process loads one file, in which instances of a game share the sections of
  that game; an adapter reads its part of it on every answer to a client.

What is hard: goroutines that read `state`, dial or sleep, and write `state`
without looking again; processes killed between two file operations; replies
that are lost and commands that are late; times cut down to whole seconds and
used as file names.  `PROJECT.json` lists each such place under `hazards`.

What makes each part correct:

* **idle-watch**: no instance is left waking with nobody to end it, or awake with
  nobody to stop it; nothing is stopped without evidence of idleness; wake-ups
  end and idle servers are stopped in the end; `start_command` is not run twice.
* **backup**: final files are whole, the newest are kept, autosave comes back, and nothing is
  left behind in silence.
* **maintenance, host**: success means what it says; calls end but for the programs they
  start; the uptime is right.
* **world regen**: nothing is lost, and success means prepared, also after retries.
* **startup**: each command is applied or reported, and not too often.
* **RCON client**: an answer belongs to the command that was sent, and nothing is
  sent before the password is accepted.
* **gateway**: an action that succeeds is not reported as failed; what the page shows
  was true, and becomes true again after whatever went wrong.
* **adapter, mcproto**: a login wakes, and nothing else does; answers can be read.
* **config**: every field has the value that the documentation promises.
* **login**: guesses are bounded in every window, over a restart by what a limiter in memory
  can do; sessions last as configured.

## 2. Modules

`Backend` is external: it says what the code relies on in a game server (five
phases, when the port is open, when the process is alive, what a start and a stop
do).  Modules that begin with `MC` only add symmetry sets for TLC.

### Lifecycle, IdleWatch

`Lifecycle` is the abstract promise: an instance, its wakers and its guards.
`IdleWatch` is the code.  Each locked section is one action, and so is each dial,
sleep or command between two of them.

| Model | Code |
|---|---|
| `state`, `wakingSince` | the fields of `Instance` (`wakingSince` only as set or not) |
| `hpc[h]`, `wait[h]` | the goroutine of one connection, and `waitForBackend`'s deadline |
| `wpc[w]`, `nap`, `idleFor`, `stopWait` | one `idleWatcher` goroutine: its sleep, `time.Since(idleSince)`, `waitForBackendDown`'s deadline |
| `quiet[w]` | history: time since the watcher's last poll that failed or saw players |
| `Route` .. `HandleSleeping` | `handleConn`, `proxy` and the adapter |
| `WakeLock` .. `SpawnWatcher` | `wake` and `waitForBackend` |
| `WatcherCheck` .. `MarkAsleep` | the loop of `idleWatcher` |
| `Restart` | the end of the process (`runIdleWatch` exits with the first `Run` that returns) and a new one, which begins asleep |
| `Join`, `BackendMoves`, `ExternalStop`, `ExternalStart` | clients, the server, and the other subcommands |

The mapping to `Lifecycle`: wakers are the handlers between the first and the
last locked section of `wake`; guards are the live watchers and the handlers about
to start one.

### Backup

Processes run `runBackup`'s loop over the instances into one directory.  A file is
known by the run that created it; `bytes` says whose output is in it, `mtime` ranks
it.  `tmp` and `zips` are the directory, by the second in the name.  A kill may come
between any two steps and leaves what is on disk.  `WriteFails` is any failure of creating,
zipping or renaming, a rename of a file that another process has open among them; the
temporary file is then removed or stays, as the error of `os.Remove` is ignored
(`backup.go:109`, 113).  `failed` is history: the runs whose error `runBackup` logs.

### Maintenance, HostControl

`Maintenance` has the steps of one Stop or Resume; `HostControl` composes its
callers: requests of the host (Start, Stop, Restart, Status, each with a context
that may be cancelled) and `gameops maintenance` commands over all instances.
`onlineSince` is only set or not.  `alone` is history: no start since a Stop's probe.

A caller waits for a child process at two steps, and the code gives neither a deadline
(`WithoutDeadline`): at `kill` for taskkill, and at `running` for the start command that `Resume`
has run.  `CommandReturns` ends the latter, at once for a command that hands the server
to something else, and at any later time, or never, for one that is the server.

### WorldRegen

The steps of `regenAt` on the world directory, its renamed predecessors, the extra
files and their copies, and the seed line; I/O errors and kills at every step, with torn
writes where the code writes in place; the server that generates worlds and writes
progress in between.  The seed is in the file that `server_properties_path` names, which may have no
line for it (`nokey`) or not be configured at all (`unnamed`): `BlankSeed` is then a step that
changes nothing, as documented at `config.go:118-119`, and success says nothing about a seed that
is elsewhere.  `levels`, `progress` and `replaced` are history.

### Rcon, Startup

`Rcon` is one client after another and the listener they talk to: packets under way
(`inbox`), commands the server has read and not carried out (`asked`), and those it has
read from connections that are closed since (`late`).  A packet has a type, a request
id, whether `readPacket` takes its length, and, as history, the command it answers.
Every deadline is `Close` at any point, which is what a caller does after an error.

`Startup` is `applyWithTiming` over it: the boot log, the probe and the commands, every
attempt with a connection of its own (`Connect`, `Authenticate`, `SendText`, then
`AttemptOk` or `AttemptFails`).  Loss, delay and refusal are not assumed there; they
come from `Rcon` and from a server that stops and starts (`ServerMoves`).

### Gateway

`Gateway` composes with `HostControl`: a slot of the browser and the request it causes at the
host have the same name.  `phase[p]` is the handler of the gateway, `clock[p]` the rest of the
deadline of its call, `card[i]` what the page shows.

| Model | Code |
|---|---|
| `Refresh`, `StatusAnswered` | the timer of the page, `handleFragment` |
| `Click`, `ActionAnswered`, `AskNext`, `StatusAnswered` | a button, `handleAction` and its two calls |
| `Expire` | `context.WithTimeout` in `doJSON`: the browser gets an error, the host a cancelled context |
| `Leave` | the page is closed |
| `Serves` | the steps of `HostControl` for these requests, whoever still waits |
| `busy[p]` | the deadlines of the RCON exchange the host is in |

Time is counted in ticks of at least the 2 s of a dial, and what a start or stop waits for is
counted: the RCON exchange (`RconTime`) and the stop wait (`StopTimeout`).  Its other steps,
and the step that ends a wait, come before the next tick (`Prompt`): a host takes them in
milliseconds.  That holds of start commands that hand off, as `schtasks /run` does
(`maintenance.go:137-147`), and of taskkill; one that is the server itself would keep the call, and
the gateway would cut it off.  Status calls get no such favour, so their answers may be arbitrarily late.

### Config

A value is represented by who wrote it: an instance, a game or the program.  That is all
that precedence can tell apart, and it makes leaks between instances visible.  `LoadNext` is
one turn of `Load`'s loop, `BuildNext` one of the loops that make adapters or controllers,
`Resolved` what the packages' resolve functions return.

### Mcproto, Adapter

`Mcproto` has the codec as operators on sequences of bytes, with the width of an integer and
of a group as constants: int32 in groups of 7 bits is `Width = 32`, `Group = 7`.  Five bits in
groups of two keep what is delicate there: the last byte of a value holds a part of a
group and the sign.

`Adapter` is `HandleSleeping` over these bytes, in a process that `Config` has set up.
`sent` and `taken` count the bytes of a conversation that the client has sent and
the handler has read; bytes come in pieces of any size, the client may close at any point, and
the handler waits without a deadline.  `IdleWatch` has the same handler as one step.

### Login

`RateLimiter.Allow` with its pruning, `IssueCookie` and `Validate` with seconds
coarser than the clock, and a restart that forgets attempts but not the secret.  `checked`,
`life` and `refused` are history and survive the restart: when each password was checked, after how
many restarts that was, and the last refusal.

## 3. Runs

| Run | Configuration | Shows |
|---|---|---|
| `idle_watch` | 2 connections, 2 watchers, timeouts of 1 tick, polls as often as wished, a process that is restarted | safety and liveness of idle-watch, and that it implements `Lifecycle` |
| `idle_watch_one_wake` | 2 and 1 | **violated**: two wake-ups at a time |
| `backup` | 2 processes, 2 instances, 1 kept, 4 seconds | whole and newest backups, autosave restored, no file left in silence |
| `backup_shared_dir` | 1 process, 2 instances, 2 kept | **violated**: one instance's backup replaces the other's |
| `host_control` | 2 instances (one without RCON, one process name), 1 request, 1 command | every call ends unless a program it has started never does, and a stop that succeeded has stopped the server |
| `gateway` | 1 instance, 2 requests for status and restart | no action is cut off, fragments are true, the uptime and the card settle |
| `host_restart` | 1 instance, 1 request | **violated**: a successful restart whose start command was run beside the old, exiting server |
| `world_regen` | 1 extra file, 2 templates, 4 seconds, 2 worlds, 3 saves | no world and no progress lost, success means prepared |
| `world_regen_running` | 1 and 1 | **violated**: the world is moved under a live process |
| `startup` | 3 commands, 2 attempts each | commands applied or told, bounded repeats, own answers, the run ends |
| `login` | 2 addresses, 2 guesses in 3 steps, 4 steps, 1 restart, 1 cookie | bounded guesses, also in windows over the restart, no lockout without reason, session length |
| `config` | 2 instances, 2 games, 2 fields of any section; 1 connection, 5 bits in groups of 2 | each field by its precedence, logins wake, answers are read |

Every bound is a constant with a comment that says so, and is a guard or the size
of a set, never a state constraint.  Why they are enough:

* The races in idle-watch need a handler or a watcher that writes late and a wake-up that it
  hits; the violated run shows that two connections and a watcher are enough for them.  Two
  watchers are an old and a new one; a third would be one more of either kind.  With timeouts of
  one tick every wait can end early, on time and late.  `PollInterval = 0` is a poll that takes no
  time on the scale of the idle timeout (seconds against minutes), so an idle period has any
  number of polls.  The proofs of section 5 remove these
  bounds for the safety properties and the refinement.
* Backup's hazards are between two runs on one directory; with one file kept, each
  further backup makes a rotation, and four seconds give four file names.
* A failed, a killed and a final regeneration, with a new world between, take
  three seconds; the fourth leaves room for one more.
* Four steps of login's clock hold a window of three that begins before or after the restart and
  one boundary on each side of it, and a session with the second in which it ends.
* Gateway needs two answers that overtake each other, and one action between them; its deadlines
  are the least that have the order of the code's 5, 15, 60 and 90 seconds
  (`HeadroomAssumption`).
* Fields are merged independently of one another, so two of a section show what one can do to
  another; two instances of a game and a second game show what a merge can leak.  Packets of up to
  15 bytes have lengths of one and two bytes, and versions of two and of three.

Two properties say less than their names.  `EmptyBackendIsStopped` is checked with
`RconFails = FALSE`: a watcher whose polls fail for ever never stops the backend
(`instance.go:221-226`).  `ActionNotCutOff` is about the call that acts, and supposes start
commands and a taskkill that take no time; after an action that succeeded, `handleAction` asks for
the status (`handlers.go:71-75`), and that call may still be cut off and turn the answer into a 502.

Deadlock is checked except where a configuration says otherwise: in `Backup`,
`WorldRegen`, `Startup` and `Login` the program ends, or the bounded clock does; in `Adapter`
a handler may wait for a client for ever; in `Gateway` the host's only process may be gone and
nobody asks.

Some promises hold only while something the code does not enforce is true, which the
passing runs then name as a constant, and some do not hold at all.  Configurations beside the
runs show what happens:

| Configuration | Property | Shows |
|---|---|---|
| `MCBackupSameSecond.cfg` | `FinalZipsComplete` | two runs in one second share the temporary file, and it gets its final name while one is still writing it (`backup.go:102-103` says it is whole) |
| `MCBackupStrayTmp.cfg` | `NoStrayTmp` | a run that fails and cannot remove its temporary file leaves it, with its process alive (`backup.go:102` says never) |
| `MCBackupLostReply.cfg` | `AutosaveRestored` | a save-off whose reply is lost is never undone (`backup.go:162-165`) |
| `MCWorldRegenRetry.cfg` | `ProgressKept` | a retry in the same second replaces the copy of the progress by `{}` (`README.md:124-125`) |
| `MCHostStop.cfg` | `StopLeavesStopped` | Stop calls a booting server "already stopped", and it comes up afterwards |
| `MCGatewayUptime.cfg` | `UptimeSurvives` | a stale or cancelled Status clears the uptime of a server that never went down (`minecraft.go:26`) |
| `MCIdleWatchUnwatched.cfg` | `IdleBackendIsStopped` | a backend that outlives the process, or boots too slowly, is watched by nobody until the next login |
| `MCGatewayStatus.cfg` | `OnlineIsShown` | a backend whose RCON hangs is reported as an error, as the status deadline is the shorter one (`minecraft.go:69-72` means to report it online) |
| `MCConfigDefaults.cfg` | `EveryFieldHasDefault` | fields with no built-in default (`README.md:72-74`) |
| `MCStartupLate.cfg` | `InOrder` | a command that outlives its connection is carried out after later ones (`startup.go:113-114`) |

## 4. Fairness

* IdleWatch: weak fairness of each handler's own steps and of each watcher; nothing of
  what a client sends, and nothing of `ExternalStop` and `ExternalStart`.  Go
  schedules every runnable goroutine, and the dials are bounded by the operating system.
  `AwaitReady` is strongly fair because a waker dials at once and every 300 ms
  (`instance.go:177-184`).  Time passes, and a server gets on with booting or exiting.
* HostControl: weak fairness of requests, commands and their calls, and of time, but nothing of a
  call that waits for taskkill or a start command: `exec.Command(...).Run()` has no deadline.
  `EveryCallEnds` says accordingly that a caller is done in the end or waits for one of the two for
  ever; every wait for a port, for RCON or for another caller ends.
* Gateway: weak fairness of the handlers and of the host's steps for each slot, those that wait for
  child processes included: that start commands and taskkill return is supposed of what is
  configured, not the code's doing.  Strong fairness
  of time, which prompt steps would otherwise be able to keep from passing; strong fairness of
  `Refresh`, as the page asks for every card every five seconds (`gateway/templates.go`,
  `setInterval`).  `UptimeSettles` and `CardSettles` say under which behaviour of everybody else
  they hold.
* Startup: weak fairness of the run and of its clock; nothing of the server.

## 5. Proofs

Every theorem is proved for all values of the constants that the named assumptions of the
modules admit.  The modules of the proofs are `IdleWatchProofs`, `BackupProofs`,
`HostControlProofs`, `GatewayProofs`, `WorldRegenProofs`, `StartupProofs`, `LoginProofs` and
`AdapterProofs`; each extends the module it is about, and the last one is also about what `Adapter`
extends, `Config` and `Mcproto`.

| Module | Theorem | States | Under |
|---|---|---|---|
| IdleWatch | `TypeCorrect` | `TypeOK` | |
| | `Implements` | `Lifecycle` | |
| | `Owned`, `Watched` | `WakingIsOwned`, `AwakeIsWatched` | |
| | `Evidence` | `StopNeedsIdleEvidence` | |
| Backup | `TypeCorrect` | `TypeOK` | |
| | `AutosaveComesBack` | `AutosaveRestored` | `~RepliesLost` |
| | `LeftoversAreTold` | `LeftoverIsTold` | |
| | `ZipsAreComplete` | `FinalZipsComplete` | `~SameSecond` |
| | `NewestAreKept` | `KeepsNewest` | `~SameSecond` |
| HostControl | `TypeCorrect` | `TypeOK` | |
| | `StopWorks` | `StopStops` | |
| Gateway | `GatewayIsAClient` | `Spec` of HostControl | |
| | `GatewayTypeCorrect` | `GatewayTypeOK` | |
| | `ActionsFit` | `ActionNotCutOff` | |
| | `FragmentsAreTrue` | `FragmentIsTrue` | |
| WorldRegen | `TypeCorrect` | `TypeOK` | |
| | `WorldsAreKept` | `WorldsKept` | |
| | `SuccessMeansPrepared` | `OkMeansPrepared` | `Disciplined` |
| | `ProgressIsKept` | `ProgressKept` | `Disciplined`, `~SameSecond` |
| Startup | `TypeCorrect` | `TypeOK` | |
| | `Authenticated`, `AnswersMatch` | `OnlyAuthenticated`, `OwnAnswer` | |
| | `RepeatsBounded` | `BoundedRepeats` | |
| | `NothingIsDropped` | `AppliedOrTold` | |
| Login | `TypeCorrect` | `TypeOK` | |
| | `Bounded`, `Justified` | `GuessesBounded`, `RefusedForAReason` | |
| | `SessionsEnd` | `SessionLength` | |
| Config | `FieldsAreResolved` | `Precedence` | |
| Mcproto | `ReadsBack`, `PacketBack` | what is written is read | |
| Adapter | `AdapterTypeCorrect` | `AdapterTypeOK` | |
| | `LoginsWake`, `AnswersRead` | `WakesOnLogin`, `AnswersAreRead` | |

### Hypotheses

`SameSecond`, `RepliesLost` and `Disciplined` are constants of the models that say whether
something the code does not rule out may happen.  A theorem has one as a hypothesis only where
it is false without it: `MCBackupLostReply.cfg`, `MCBackupSameSecond.cfg`,
`MCWorldRegenRetry.cfg` and the run `world_regen_running` show what then goes wrong.  `WorldsKept` and `LeftoverIsTold` need none of them, which the checked configurations
do not show.

The other assumptions are the ranges of the bounds and times (`TimingAssumption`,
`BackupAssumption`, `LoginAssumption`, ...), the order of the deadlines that the code has
(`HeadroomAssumption`), and that a value that stands for "none" is none of the others
(`DistinctAssumption`, `NoneAssumption`).  TLC evaluates each of them in every run of its module.

### Arguments

What is invariant but not inductive needs an invariant that says why.

* **IdleWatch.**  `Implements` needs types and nothing else: each action maps to a step of
  `Lifecycle` or a stutter.  `Owned` follows step by step, as a handler or watcher leaves the
  mapping's sets only with a step that looks at `state` or overwrites it.
  `StopNeedsIdleEvidence` needs `IdleEvidence`: that `idleFor` has reached the timeout says
  nothing about `quiet` unless the two clocks are related (`quiet[w] >= idleFor[w]`).
* **Backup.**  `Undoing` adds that a run has nothing to undo before its save-off.
  `LeftoverIsTold` needs `Leftovers`: a
  name is that of one file (`OneName`), and a run has none before it creates it (`Fresh`), so a file
  that is truncated has the output of a run that is still at it.  The other two rest on
  `Directory`, about what is on disk when no two runs share a second: no two processes have a
  stamp (`Apart`), a file is older than the present second or its run holds that second
  (`Dated`), so a run's final name is free until it renames (`NameFree`) and its temporary file
  is its own (`OwnTmp`, `OwnFile`), and what has been made stays what it is (`Made`).  A listing
  may be out of date in one way only: what it dooms has `MaxBackups` newer files among all that
  were ever made (`Outdated`), and no later backup makes that less true.
* **HostControl.**  `StopHolds`: between the look that found the port open and the answer, the
  server only moves towards its exit, because whoever runs the start command clears `alone`
  of everybody.
* **Gateway.**  `GatewayIsAClient` makes each step of the composition one of HostControl, so
  `StopWorks` holds behind the gateway.  `Headroom` carries along the order of the deadline and
  what the host is waiting for: a tick takes as much from one as from the other.  `Honest` says
  that what a request has seen of the port is among what was the case since it was asked.
* **WorldRegen.**  `WorldsKept` is a fact about each level (`Kept`), which a rename preserves and
  no other step touches.  `Undisturbed` says that no server runs during a run, `Prepared` what
  each loop of `regenAt` has behind it, `Copies` that the copies of a run are under a second
  that no earlier run has used, and that what is about to be overwritten has been copied.
* **Startup.**  `Conversation` is what makes one request id for all commands harmless: an
  answer on an open connection is to the one command sent on it, since a connection is closed
  before the run goes on.  `PaidFor` counts how often a command was carried out together with
  how often it still will be, on this connection or from a closed one, against the attempts
  made.  `Told` is `AppliedOrTold` for the commands that the run has left behind.
* **Login.**  `Remembers`: what the limiter holds is the tail of what it has checked, and what it
  has forgotten is older than the window or of an earlier life of the gateway (`Gone`).  `Guesses`
  is `GuessesBounded` with what a window may hold as `Room`, which a guess of a later life makes
  larger by `MaxAttempts`; `Reason` is about refusals.  `Stamped` and the lemma `Seconds`, about
  division by the grain of the clock, make `SessionLength`.
* **Config.**  `Loaded`: what `Load` has merged is a function of the file, and what it has not yet
  merged is as written; no section of a game is ever changed, although instances share it.
* **Mcproto.**  `ValueIs` turns the loop of `ReadVarInt` into its steps.  `NextDigit` is one group more of
  a number: from it, by induction over the groups, the value after each turn is what the groups
  written so far hold, and after the last one all of it, also when the last group has room to
  spare (`BytesWrittenIs`).  `SignedIs` takes the sign off and puts it back.  `ReadsShort`,
  `PrefixedShort` and `PacketShort` say that a packet of which a byte is missing is never taken for
  another one.
* **Adapter.**  `NextPacket` puts this on a conversation of which any number of bytes has been sent: the
  handler sees the next packet whole or not at all.  With it `Place` says, wherever the handler is,
  how much it has read, whether the script can still be a login, and that a handler that is done
  and has woken nobody had no login to read or a client that closed before it was sent.  `Answered`
  lists the four things that can have been written, and `AnsweredIsRead` reads each of them.
  `Loaded` is needed once more, for the motd in them.

What a loop computes is proved where the model has it as a recursive function.  The induction
theorems of the library take an operator, which the provers cannot instantiate; the lemmas
`Least` and `Induction` (in `LoginProofs` and `AdapterProofs`) say the same about sets, and follow from
`NatLessThanWellFounded`; `Recursion` makes of a step function a sequence that follows it.
`AfterIsTail` of `LoginProofs` is proved by them: the pruning loop of `Allow`, over any
list in the order of time, drops a beginning and keeps the rest.  So are the lemmas about shifts
and about the loops of `varint.go`.

`FitAssumption` of `Adapter` says that no length in a conversation overflows the integer that it is
written as, which the code does not test either: with 32 bits it holds of everything shorter than
2 GiB.  `MCAdapter` evaluates it for five bits.

### Only model-checked

* Liveness (`WakingEnds`, `EmptyBackendIsStopped`, `EveryCallEnds`, `UptimeSettles`,
  `CardSettles`, `ApplyEnds`): fairness and `ENABLED` are out of the provers' reach.
* The violated promises of section 3: each of them is refuted, on the instance that its
  configuration gives.

## 6. Not modelled

Wording and layout of answers, pages and logs, with the icon and the state labels; JSON and TOML;
password hashing; TLS and certificates; flags and usage.  The dashboard handler asks several
hosts for their instances one after the other and keeps nothing; the gateway's configuration is one
record.  The network between gateway and host does not lose answers without the deadline
noticing, so it adds nothing to `Expire`.  Memory and file descriptors are unbounded.

Names of instances are taken to be distinct: with a name used twice the host serves the last one
(`host.go:43`) and world regen works on the first (`main.go:235-240`).

A remark on documentation that no run is needed for: `startup.Apply` also returns an error when
`minecraft_config` is missing (`startup.go:131-133`), while its comment says it does so only for
two timeouts (115-116).

## 7. Plan

Done: every part of section 1 but the gateway's configuration, and the proofs of section 5.
Every invariant and the refinement that the passing runs check are proved.  Next:

1. `Ops`: idle-watch, maintenance and world regen on one backend, to see which procedures make
   `Disciplined` true.
2. For the liveness properties, the safety half of each: what a waking handler, a call or a run
   has left to do, as a measure that its steps do not increase.
