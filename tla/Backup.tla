------------------------------- MODULE Backup -------------------------------
(***************************************************************************)
(* gameops backup run: src/backup/backup.go and the loop of runBackup in   *)
(* src/cmd/gameops/main.go.                                                *)
(*                                                                         *)
(* Several processes may run at the same time (a scheduled task that takes *)
(* longer than its period, an operator).  Each backs up the configured     *)
(* instances one after the other.  All of them write into one backups      *)
(* directory, which is what instances without a backups_dir of their own   *)
(* share.  A run turns the autosave of its game server off over RCON,      *)
(* zips the world into a temporary file, renames it, rotates old backups   *)
(* and turns autosave on again.                                            *)
(***************************************************************************)
EXTENDS Integers, FiniteSets

CONSTANTS
    Procs,        \* gameops processes
    Instances,    \* bound: instances 1 .. Instances are configured
    MaxBackups,   \* max_backups
    Horizon,      \* bound: seconds the clock can show
    SameSecond,   \* two runs may begin within one second
    RepliesLost,  \* a command may be carried out and its reply lost
    Crashes,      \* a process may be killed
    None

ASSUME BackupAssumption ==
    /\ IsFiniteSet(Procs)
    /\ {Instances, MaxBackups, Horizon} \subseteq Nat \ {0}
    /\ {SameSecond, RepliesLost, Crashes} \subseteq BOOLEAN

ASSUME NoneAssumption ==
    /\ None \notin Nat
    /\ None \notin Procs \X (1 .. Instances)

VARIABLES
    now,       \* the second the clock shows
    job,       \* the instance a process has got to
    pc,        \* where a process is in runAt
    stamp,     \* the timestamp its backup is named after
    off,       \* trySaveOff returned true: trySaveOn is deferred
    doomed,    \* files that its rotation has still to delete
    autosave,  \* per instance: the game server saves its world by itself
    warned,    \* instances whose autosave the log asks to check
    handle,    \* the temporary file a process has open
    bytes,     \* per file: the runs whose output is in it
    mtime,     \* per file: rank of its last write
    tmp,       \* directory: world_<second>.zip.tmp
    zips,      \* directory: world_<second>.zip
    created,   \* history: files that were given their final name
    failed     \* runs that the log of runBackup reports, as they could not
               \* write their backup

process == <<job, pc, stamp, off, doomed>>
server == <<autosave, warned>>
disk == <<handle, bytes, mtime, tmp, zips, created>>
vars == <<now, process, server, disk, failed>>

Seconds == 1 .. Horizon

\* A file is known by the run that created it.
Files == Procs \X (1 .. Instances)

Points == {"idle", "saveoff", "create", "zip", "rename", "glob", "rotate",
           "finish", "crashed"}

Run(p) == <<p, job[p]>>

OnDisk == {zips[s] : s \in Seconds} \ {None}

Newer(f, S) == {g \in S : mtime[g] > mtime[f]}

Init ==
    /\ now = 1
    /\ job = [p \in Procs |-> 1]
    /\ pc = [p \in Procs |-> "idle"]
    /\ stamp = [p \in Procs |-> None]
    /\ off = [p \in Procs |-> FALSE]
    /\ doomed = [p \in Procs |-> {}]
    /\ autosave = [i \in 1 .. Instances |-> TRUE]
    /\ warned = {}
    /\ handle = [p \in Procs |-> None]
    /\ bytes = [f \in Files |-> {}]
    /\ mtime = [f \in Files |-> 0]
    /\ tmp = [s \in Seconds |-> None]
    /\ zips = [s \in Seconds |-> None]
    /\ created = {}
    /\ failed = {}

-----------------------------------------------------------------------------

Goto(p, point) == pc' = [pc EXCEPT ![p] = point]

\* runAt returns; the loop of runBackup goes on to the next instance,
\* whether or not this one failed.
NextInstance(p) ==
    /\ Goto(p, "idle")
    /\ job' = [job EXCEPT ![p] = @ + 1]
    /\ off' = [off EXCEPT ![p] = FALSE]

\* Run reads the clock once.
Begin(p) ==
    /\ pc[p] = "idle"
    /\ job[p] <= Instances
    /\ SameSecond \/ \A q \in Procs : stamp[q] # now
    /\ stamp' = [stamp EXCEPT ![p] = now]
    /\ Goto(p, "saveoff")
    /\ UNCHANGED <<now, job, off, doomed, server, disk, failed>>

\* Mutated form of BeginNothing: the loop runs past the last instance.
BeginNothingPastEnd(p) ==
    /\ pc[p] = "idle"
    /\ NextInstance(p)
    /\ UNCHANGED <<now, stamp, doomed, server, disk, failed>>

\* There is no world, or the backups directory cannot be made.
BeginNothing(p) ==
    /\ pc[p] = "idle"
    /\ job[p] <= Instances
    /\ NextInstance(p)
    /\ UNCHANGED <<now, stamp, doomed, server, disk, failed>>

\* Mutated form of SaveOff: a failing save-all flush counts as a failing
\* save-off, as it did in the script this code replaced.
SaveOffNeedsFlush(p) ==
    /\ pc[p] = "saveoff"
    /\ \E sent, flushed \in BOOLEAN :
          /\ off' = [off EXCEPT ![p] = sent /\ flushed]
          /\ autosave' = [autosave EXCEPT ![job[p]] = IF sent THEN FALSE ELSE @]
    /\ Goto(p, "create")
    /\ UNCHANGED <<now, job, stamp, doomed, warned, disk, failed>>

\* save-off.  Only a run that saw the reply remembers to undo it.  Whether
\* save-all flush then succeeds makes no difference.
SaveOff(p) ==
    /\ pc[p] = "saveoff"
    /\ \E sent, replied \in BOOLEAN :
          /\ replied => sent
          /\ sent => replied \/ RepliesLost
          /\ off' = [off EXCEPT ![p] = replied]
          /\ autosave' = [autosave EXCEPT ![job[p]] = IF sent THEN FALSE ELSE @]
    /\ Goto(p, "create")
    /\ UNCHANGED <<now, job, stamp, doomed, warned, disk, failed>>

\* os.Create makes the temporary file, or truncates the one that is there.
CreateTmp(p) ==
    /\ pc[p] = "create"
    /\ LET there == tmp[stamp[p]]
           file == IF there = None THEN Run(p) ELSE there
       IN  /\ tmp' = [tmp EXCEPT ![stamp[p]] = file]
           /\ handle' = [handle EXCEPT ![p] = file]
           /\ bytes' = [bytes EXCEPT ![file] = {Run(p)}]
    /\ Goto(p, "zip")
    /\ UNCHANGED <<now, job, stamp, off, doomed, server, mtime, zips, created, failed>>

\* The archive is written through the open file, wherever its name is now.
FinishZip(p) ==
    /\ pc[p] = "zip"
    /\ LET file == handle[p]
       IN  /\ bytes' = [bytes EXCEPT ![file] = @ \union {Run(p)}]
           /\ mtime' = [mtime EXCEPT ![file] = 1 + Cardinality({f \in Files : mtime[f] > 0})]
    /\ handle' = [handle EXCEPT ![p] = None]
    /\ Goto(p, "rename")
    /\ UNCHANGED <<now, job, stamp, off, doomed, server, tmp, zips, created, failed>>

\* The rename replaces a final file of that name.
Rename(p) ==
    /\ pc[p] = "rename"
    /\ tmp[stamp[p]] # None
    /\ zips' = [zips EXCEPT ![stamp[p]] = tmp[stamp[p]]]
    /\ created' = created \union {tmp[stamp[p]]}
    /\ tmp' = [tmp EXCEPT ![stamp[p]] = None]
    /\ Goto(p, "glob")
    /\ UNCHANGED <<now, job, stamp, off, doomed, server, handle, bytes, mtime, failed>>

\* Mutated form of WriteFails: an error while zipping does not keep the
\* file from getting its final name.
WriteFailsIgnored(p) ==
    /\ pc[p] = "zip"
    /\ handle' = [handle EXCEPT ![p] = None]
    /\ Goto(p, "rename")
    /\ UNCHANGED <<now, job, stamp, off, doomed, server, bytes, mtime, tmp, zips, created, failed>>

\* Mutated form of WriteFails: the error is lost on its way to runBackup.
WriteFailsSilently(p) ==
    /\ pc[p] \in {"create", "zip", "rename"}
    /\ tmp' \in {tmp, [tmp EXCEPT ![stamp[p]] = None]}
    /\ handle' = [handle EXCEPT ![p] = None]
    /\ Goto(p, "finish")
    /\ UNCHANGED <<now, job, stamp, off, doomed, server, bytes, mtime, zips, created, failed>>

\* Creating, zipping or renaming fails.  The error of the removal that follows
\* is not looked at: whoever keeps the file from being renamed may keep it
\* from being removed.
WriteFails(p) ==
    /\ pc[p] \in {"create", "zip", "rename"}
    /\ tmp' \in {tmp, [tmp EXCEPT ![stamp[p]] = None]}
    /\ handle' = [handle EXCEPT ![p] = None]
    /\ failed' = failed \union {Run(p)}
    /\ Goto(p, "finish")
    /\ UNCHANGED <<now, job, stamp, off, doomed, server, bytes, mtime, zips, created>>

\* Mutated form of Glob: sorted the wrong way round.
GlobOldestFirst(p) ==
    /\ pc[p] = "glob"
    /\ doomed' = [doomed EXCEPT ![p] =
                    {f \in OnDisk : Cardinality(OnDisk \ Newer(f, OnDisk)) > MaxBackups}]
    /\ Goto(p, "rotate")
    /\ UNCHANGED <<now, job, stamp, off, server, disk, failed>>

\* rotate lists the final files and decides which ones go.
Glob(p) ==
    /\ pc[p] = "glob"
    /\ doomed' = [doomed EXCEPT ![p] =
                    {f \in OnDisk : Cardinality(Newer(f, OnDisk)) >= MaxBackups}]
    /\ Goto(p, "rotate")
    /\ UNCHANGED <<now, job, stamp, off, server, disk, failed>>

\* ... and deletes them one by one, newest first.
RemoveOld(p) ==
    /\ pc[p] = "rotate"
    /\ \E f \in doomed[p] :
          /\ Newer(f, doomed[p]) = {}
          /\ f \in OnDisk
          /\ doomed' = [doomed EXCEPT ![p] = @ \ {f}]
          /\ zips' = [s \in Seconds |-> IF zips[s] = f THEN None ELSE zips[s]]
    /\ UNCHANGED <<now, job, pc, stamp, off, server, handle, bytes, mtime, tmp, created, failed>>

\* Nothing is left to delete, or a deletion fails and ends the rotation: the
\* file may be locked, or deleted already by the rotation of another process.
RotateEnds(p) ==
    /\ pc[p] = "rotate"
    /\ doomed' = [doomed EXCEPT ![p] = {}]
    /\ Goto(p, "finish")
    /\ UNCHANGED <<now, job, stamp, off, server, disk, failed>>

\* The deferred trySaveOn: a failure is only logged.
SaveOn(p) ==
    /\ pc[p] = "finish"
    /\ off[p]
    /\ \E sent, replied \in BOOLEAN :
          /\ replied => sent
          /\ sent => replied \/ RepliesLost
          /\ autosave' = [autosave EXCEPT ![job[p]] = IF sent THEN TRUE ELSE @]
          /\ warned' = IF replied THEN warned ELSE warned \union {job[p]}
    /\ NextInstance(p)
    /\ UNCHANGED <<now, stamp, doomed, disk, failed>>

\* Autosave was not turned off, as far as this run knows.
Finish(p) ==
    /\ pc[p] = "finish"
    /\ ~off[p]
    /\ NextInstance(p)
    /\ UNCHANGED <<now, stamp, doomed, server, disk, failed>>

-----------------------------------------------------------------------------

Clock ==
    /\ now < Horizon
    /\ now' = now + 1
    /\ UNCHANGED <<process, server, disk, failed>>

\* The process is killed: nothing deferred runs, the disk stays as it is.
Crash(p) ==
    /\ Crashes
    /\ pc[p] \notin {"idle", "crashed"}
    /\ Goto(p, "crashed")
    /\ handle' = [handle EXCEPT ![p] = None]
    /\ UNCHANGED <<now, job, stamp, off, doomed, server, bytes, mtime, tmp, zips, created, failed>>

Process(p) ==
    \/ Begin(p)
    \/ BeginNothing(p)
    \/ SaveOff(p)
    \/ CreateTmp(p)
    \/ FinishZip(p)
    \/ Rename(p)
    \/ WriteFails(p)
    \/ Glob(p)
    \/ RemoveOld(p)
    \/ RotateEnds(p)
    \/ SaveOn(p)
    \/ Finish(p)

Next ==
    \/ \E p \in Procs : Process(p) \/ Crash(p)
    \/ Clock

Spec == Init /\ [][Next]_vars

-----------------------------------------------------------------------------
(* Properties.                                                             *)

TypeOK ==
    /\ now \in Nat
    /\ job \in [Procs -> 1 .. Instances + 1]
    /\ pc \in [Procs -> Points]
    /\ stamp \in [Procs -> Seconds \union {None}]
    /\ off \in [Procs -> BOOLEAN]
    /\ doomed \in [Procs -> SUBSET Files]
    /\ autosave \in [1 .. Instances -> BOOLEAN]
    /\ warned \subseteq 1 .. Instances
    /\ handle \in [Procs -> Files \union {None}]
    /\ bytes \in [Files -> SUBSET Files]
    /\ mtime \in [Files -> Nat]
    /\ tmp \in [Seconds -> Files \union {None}]
    /\ zips \in [Seconds -> Files \union {None}]
    /\ created \subseteq Files
    /\ failed \subseteq Files

\* Autosave never stays off without anybody knowing: it is off only while a
\* run that will turn it on again is on its way, after that run was killed,
\* or after the log has asked the operator to check.
AutosaveRestored ==
    \A i \in 1 .. Instances :
        autosave[i] \/ i \in warned \/ \E p \in Procs : job[p] = i /\ off[p]

\* A file with a final name was written from beginning to end by one run,
\* and nobody is still writing to it ("never produces a final .zip file
\* unless the zip completed successfully").
FinalZipsComplete ==
    \A f \in OnDisk :
        /\ Cardinality(bytes[f]) = 1
        /\ mtime[f] > 0
        /\ \A p \in Procs : handle[p] # f

\* No temporary file is left in silence: one that is on disk has the output
\* of a run that is still at it, was killed, or is reported as failed -- also
\* when two runs share its name.
LeftoverIsTold ==
    \A s \in Seconds : tmp[s] # None =>
        \E p \in Procs, i \in 1 .. Instances :
            /\ <<p, i>> \in bytes[tmp[s]]
            /\ \/ <<p, i>> \in failed
               \/ job[p] = i /\ stamp[p] = s /\ pc[p] \in {"zip", "rename", "crashed"}

\* A temporary file belongs to a run that is still at it, or was killed
\* ("never leaves a stray .tmp file behind on failure").
NoStrayTmp ==
    \A s \in Seconds : tmp[s] # None =>
        \E p \in Procs : stamp[p] = s /\ pc[p] \in {"zip", "rename", "crashed"}

\* Whatever rotations run at the same time, on listings that are out of
\* date: the newest max_backups of all backups ever made are on disk.
KeepsNewest ==
    \A f \in created :
        Cardinality(Newer(f, created)) < MaxBackups => f \in OnDisk

=============================================================================
