----------------------------- MODULE WorldRegen -----------------------------
(***************************************************************************)
(* gameops world regen: src/worldregen/worldregen.go, on the files of one  *)
(* instance that its game server uses too.                                 *)
(*                                                                         *)
(* An operator runs it, and runs it again when it failed or was killed     *)
(* halfway.  A step that writes a file in place may leave it torn.         *)
(* Between two runs, and unless Disciplined also during one, the server is *)
(* started and stopped (an operator, or idle-watch on a login).            *)
(***************************************************************************)
EXTENDS Integers, FiniteSets, Backend

CONSTANTS
    Extras,       \* extra_reset_files
    Templates,    \* seed_template_files whose source exists
    Horizon,      \* bound: seconds the clock can show
    MaxWorlds,    \* bound: worlds the server can generate
    MaxProgress,  \* bound: times the server writes an extra file
    Disciplined,  \* the server process is gone from before a run to its end
    SameSecond,   \* two runs may begin within one second
    None, Torn

ASSUME RegenAssumption ==
    /\ Horizon \in Nat \ {0}
    /\ {MaxWorlds, MaxProgress} \subseteq Nat
    /\ {Disciplined, SameSecond} \subseteq BOOLEAN

VARIABLES
    backend,   \* phase of the game server
    now,       \* the second the clock shows
    pc,        \* where Regen is
    newSeed,   \* its -new-seed flag
    stamp,     \* the timestamp of its backups
    todo,      \* extra files or templates it has still to do
    buffer,    \* the extra file it has read, and what it read
    world,     \* world directory: None, or a level and the templates in it
    archive,   \* world_prev_<second>
    extra,     \* extra files: None, Torn, 0 for "{}", or what the server wrote
    copy,      \* <extra>_prev_<second>
    seed,      \* the seed line of the file that server_properties_path names
    levels,    \* history: levels the server has generated so far
    progress,  \* history: writes of extra files so far
    replaced   \* history: what runs have overwritten in extra files

regen == <<pc, newSeed, stamp, todo, buffer>>
files == <<world, archive, extra, copy, seed>>
history == <<levels, progress, replaced>>
vars == <<backend, now, regen, files, history>>

Seconds == 1 .. Horizon

\* What an extra file or a copy of one can hold.
Content == 0 .. MaxProgress \union {None, Torn}

\* Level 0 is a directory that no server has generated a level in yet.
Directory == [level : 0 .. MaxWorlds, seeded : SUBSET Templates]

\* A missing file and a torn one are told from everything that is written.
ASSUME DistinctAssumption ==
    /\ None # Torn
    /\ {None, Torn} \intersect Nat = {}
    /\ None \notin Directory

\* set     with a value                   nokey    no line has the seed's key
\* blank   without a value                unnamed  no file is configured
\* torn    the file is incomplete: what there is of it was written blanked
Seeds == {"set", "blank", "torn", "nokey", "unnamed"}

Points == {"idle", "blank", "rename", "read", "backup", "reset", "seed", "ok"}

Init ==
    /\ backend = "down"
    /\ now = 1
    /\ pc = "idle"
    /\ newSeed = FALSE
    /\ stamp = None
    /\ todo = {}
    /\ buffer = None
    /\ world = None
    /\ archive = [s \in Seconds |-> None]
    /\ extra = [e \in Extras |-> None]
    /\ copy = [e \in Extras |-> [s \in Seconds |-> None]]
    /\ seed \in {"set", "nokey", "unnamed"}
    /\ levels = 0
    /\ progress = 0
    /\ replaced = [e \in Extras |-> {}]

-----------------------------------------------------------------------------
(* Regen.                                                                  *)

\* A run reads the clock, and refuses to go on if the port is open: it does
\* not look at the backend again.
Begin ==
    /\ pc = "idle"
    /\ ~Listening(backend)
    /\ Disciplined => ~Alive(backend)
    /\ SameSecond \/ stamp # now
    /\ stamp' = now
    /\ newSeed' \in BOOLEAN
    /\ pc' = IF newSeed' THEN "blank" ELSE "rename"
    /\ UNCHANGED <<backend, now, todo, buffer, files, history>>

\* blankSeedLine: nothing to do if no file is configured; a file without a
\* line for the seed is written back as it was read.
BlankSeed ==
    /\ pc = "blank"
    /\ seed' = IF seed = "set" THEN "blank" ELSE seed
    /\ pc' = "rename"
    /\ UNCHANGED <<backend, now, newSeed, stamp, todo, buffer, world, archive,
                   extra, copy, history>>

\* Mutated form of RenameWorld: the old world is deleted.
RenameWorldDeletes ==
    /\ pc = "rename"
    /\ world' = None
    /\ todo' = Extras
    /\ pc' = "read"
    /\ UNCHANGED <<backend, now, newSeed, stamp, buffer, archive, extra, copy, seed, history>>

\* A world that exists moves out of the way, if its new name is free.
RenameWorld ==
    /\ pc = "rename"
    /\ IF world = None
       THEN UNCHANGED <<world, archive>>
       ELSE /\ archive[stamp] = None
            /\ archive' = [archive EXCEPT ![stamp] = world]
            /\ world' = None
    /\ todo' = Extras
    /\ pc' = "read"
    /\ UNCHANGED <<backend, now, newSeed, stamp, buffer, extra, copy, seed, history>>

\* Next extra file: one that does not exist is left alone.
ReadExtra(e) ==
    /\ pc = "read"
    /\ e \in todo
    /\ todo' = todo \ {e}
    /\ IF extra[e] = None
       THEN UNCHANGED <<pc, buffer>>
       ELSE /\ pc' = "backup"
            /\ buffer' = <<e, extra[e]>>
    /\ UNCHANGED <<backend, now, newSeed, stamp, files, history>>

\* Mutated form of BackupExtra: every copy has the same name.
BackupExtraOneName ==
    /\ pc = "backup"
    /\ copy' = [copy EXCEPT ![buffer[1]][1] = buffer[2]]
    /\ pc' = "reset"
    /\ UNCHANGED <<backend, now, newSeed, stamp, todo, buffer, world, archive,
                   extra, seed, history>>

\* The copy replaces a file of that name.
BackupExtra ==
    /\ pc = "backup"
    /\ copy' = [copy EXCEPT ![buffer[1]][stamp] = buffer[2]]
    /\ pc' = "reset"
    /\ UNCHANGED <<backend, now, newSeed, stamp, todo, buffer, world, archive,
                   extra, seed, history>>

Overwrite(e, content) ==
    /\ extra' = [extra EXCEPT ![e] = content]
    /\ replaced' = [replaced EXCEPT ![e] = @ \union {extra[e]}]

ResetExtra ==
    /\ pc = "reset"
    /\ Overwrite(buffer[1], 0)
    /\ buffer' = None
    /\ pc' = "read"
    /\ UNCHANGED <<backend, now, newSeed, stamp, todo, world, archive, copy, seed,
                   levels, progress>>

\* Mutated form of ExtrasDone: goes on before every extra file was looked at.
ExtrasDoneEarly ==
    /\ pc = "read"
    /\ todo' = todo \union Templates
    /\ pc' = "seed"
    /\ UNCHANGED <<backend, now, newSeed, stamp, buffer, files, history>>

ExtrasDone ==
    /\ pc = "read"
    /\ todo = {}
    /\ todo' = Templates
    /\ pc' = "seed"
    /\ UNCHANGED <<backend, now, newSeed, stamp, buffer, files, history>>

\* A template is copied into the world directory, made if need be.
CopyTemplate(t) ==
    /\ pc = "seed"
    /\ t \in todo
    /\ todo' = todo \ {t}
    /\ world' = IF world = None THEN [level |-> 0, seeded |-> {t}]
                ELSE [world EXCEPT !.seeded = @ \union {t}]
    /\ UNCHANGED <<backend, now, pc, newSeed, stamp, buffer, archive, extra, copy,
                   seed, history>>

\* Mutated form of RegenOk: a template that is missing does not matter.
RegenOkAnyway ==
    /\ pc = "seed"
    /\ pc' = "ok"
    /\ UNCHANGED <<backend, now, newSeed, stamp, todo, buffer, files, history>>

RegenOk ==
    /\ pc = "seed"
    /\ todo = {}
    /\ pc' = "ok"
    /\ UNCHANGED <<backend, now, newSeed, stamp, todo, buffer, files, history>>

Leaves ==
    /\ pc' = "idle"
    /\ newSeed' = FALSE
    /\ todo' = {}
    /\ buffer' = None
    /\ UNCHANGED stamp

RegenReturns ==
    /\ pc = "ok"
    /\ Leaves
    /\ UNCHANGED <<backend, now, files, history>>

\* An I/O error ends the run, and so does a kill.  What was being written in
\* place may be torn; nothing is undone.
RegenFails ==
    /\ pc \in Points \ {"idle", "ok"}
    /\ Leaves
    /\ \/ UNCHANGED <<files, replaced>>
       \/ /\ pc = "blank"
          /\ seed # "unnamed"
          /\ seed' = "torn"
          /\ UNCHANGED <<world, archive, extra, copy, replaced>>
       \/ /\ pc = "backup"
          /\ copy' = [copy EXCEPT ![buffer[1]][stamp] = Torn]
          /\ UNCHANGED <<world, archive, extra, seed, replaced>>
       \/ /\ pc = "reset"
          /\ Overwrite(buffer[1], Torn)
          /\ UNCHANGED <<world, archive, copy, seed>>
       \/ /\ pc = "seed"
          /\ world = None
          /\ world' = [level |-> 0, seeded |-> {}]
          /\ UNCHANGED <<archive, extra, copy, seed, replaced>>
    /\ UNCHANGED <<backend, now, levels, progress>>

-----------------------------------------------------------------------------
(* The server, and time.                                                   *)

\* idle-watch, the host or an operator starts or stops it.
ServerOps ==
    /\ Disciplined => pc = "idle"
    /\ backend' \in {Started(backend), Stopped(backend)} \ {backend}
    /\ UNCHANGED <<now, regen, files, history>>

\* A server that comes up generates a level in a directory that has none.
ServerUp ==
    /\ backend = "booting"
    /\ backend' = "up"
    /\ IF world = None \/ world.level = 0
       THEN /\ levels < MaxWorlds
            /\ levels' = levels + 1
            /\ world' = [level |-> levels + 1,
                         seeded |-> IF world = None THEN {} ELSE world.seeded]
       ELSE UNCHANGED <<levels, world>>
    /\ UNCHANGED <<now, regen, archive, extra, copy, seed, progress, replaced>>

ServerMoves ==
    /\ \E b \in {"down", "exiting"} : Evolves(backend, b) /\ backend' = b
    /\ UNCHANGED <<now, regen, files, history>>

\* A mod saves what the players have achieved.
ServerSaves(e) ==
    /\ backend = "up"
    /\ progress < MaxProgress
    /\ progress' = progress + 1
    /\ extra' = [extra EXCEPT ![e] = progress + 1]
    /\ UNCHANGED <<backend, now, regen, world, archive, copy, seed, levels, replaced>>

Clock ==
    /\ now < Horizon
    /\ now' = now + 1
    /\ UNCHANGED <<backend, regen, files, history>>

-----------------------------------------------------------------------------

Regen ==
    \/ Begin
    \/ BlankSeed
    \/ RenameWorld
    \/ \E e \in Extras : ReadExtra(e)
    \/ BackupExtra
    \/ ResetExtra
    \/ ExtrasDone
    \/ \E t \in Templates : CopyTemplate(t)
    \/ RegenOk
    \/ RegenReturns
    \/ RegenFails

Server ==
    \/ ServerOps
    \/ ServerUp
    \/ ServerMoves
    \/ \E e \in Extras : ServerSaves(e)

Next == Regen \/ Server \/ Clock

Spec == Init /\ [][Next]_vars

-----------------------------------------------------------------------------
(* Properties.                                                             *)

TypeOK ==
    /\ backend \in Phases
    /\ now \in Nat
    /\ pc \in Points
    /\ newSeed \in BOOLEAN
    /\ stamp \in Seconds \union {None}
    /\ todo \in (SUBSET Extras) \union (SUBSET Templates)
    /\ world \in Directory \union {None}
    /\ archive \in [Seconds -> Directory \union {None}]
    /\ extra \in [Extras -> Content]
    /\ copy \in [Extras -> [Seconds -> Content]]
    /\ seed \in Seeds
    /\ levels \in 0 .. MaxWorlds
    /\ progress \in 0 .. MaxProgress
    /\ replaced \in [Extras -> SUBSET Content]

\* No level is ever lost: failed, killed and repeated runs leave every world
\* that players have seen either in place or under a _prev_ name.
WorldsKept ==
    \A n \in 1 .. levels :
        \E d \in {world} \union {archive[s] : s \in Seconds} :
            d # None /\ d.level = n

\* No progress is ever lost: what a run overwrote in an extra file with {}
\* is in a copy of that file ("backed up the same way and reset").
ProgressKept ==
    \A e \in Extras : \A n \in replaced[e] \intersect 1 .. MaxProgress :
        \E s \in Seconds : copy[e][s] = n

\* A run that reports success has prepared everything, also when it had to
\* pick up after runs that failed or were killed at any point: no old level
\* in place, all templates there, extra files absent or empty, and with
\* -new-seed no seed left in the file that is configured for it, if one is.
OkMeansPrepared ==
    pc = "ok" =>
        /\ IF Templates = {} THEN world = None
           ELSE world = [level |-> 0, seeded |-> Templates]
        /\ \A e \in Extras : extra[e] \in {None, 0}
        /\ newSeed => seed # "set"

\* The world directory is moved only while no server process works in it
\* ("checks this itself and refuses to run otherwise").
RegenOnStoppedOnly ==
    [][archive' # archive => ~Alive(backend)]_vars

=============================================================================
