------------------------------- MODULE Config -------------------------------
(***************************************************************************)
(* How a gameops process gets its configuration: src/internal/config, the  *)
(* resolve functions of the packages that use it, and the construction of  *)
(* the adapter or controller of every instance.                            *)
(*                                                                         *)
(* Load decodes the file and merges every instance with the defaults of    *)
(* its game, one instance after the other; instances of one game share the *)
(* sections of that game, to which the decoded game points.  A value is    *)
(* represented by who wrote it: an instance, a game, or the program.       *)
(***************************************************************************)
EXTENDS Integers, FiniteSetsExt

CONSTANTS
    Count,      \* bound: instances in the file
    Minecraft,  \* the game that adapters and controllers exist for
    Unknown,    \* a game that has none
    Games,      \* bound: games that have a section [games.<name>]
    Written,    \* bound: fields of one section that anybody sets
    Unset,      \* a field that is zero or empty
    Nil,        \* a section that is not in the file
    Program     \* who wrote the built-in defaults

ASSUME ConfigAssumption ==
    /\ Count \in Nat \ {0}
    /\ Games \subseteq {Minecraft, Unknown}
    /\ Written \in Nat

Instances == 1 .. Count

Writers == Instances \union Games

\* The fields of InstanceConfig and its sections, as far as instances and
\* games may differ in them.
Fields == [
    instance |-> {"idle_timeout_minutes", "poll_interval_seconds", "start_command",
                  "backend_ready_timeout_minutes"},
    minecraft_config |-> {"rcon_port", "rcon_password", "forge_properties_path",
                          "motd_fallback"},
    backup_config |-> {"world_path", "backups_dir", "max_backups"},
    maintenance_config |-> {"process_name", "stop_command"},
    startup_config |-> {"log_path", "boot_pattern", "commands"},
    world_regen_config |-> {"world_path", "server_properties_path", "seed_key",
                            "extra_reset_files", "seed_template_files"}]

Sections == DOMAIN Fields

\* Fields that GameDefaults has, too.
Shared(s) == Fields[s] \ {"backend_ready_timeout_minutes"}

\* The fields that the merge functions test one by one.
Merged == [
    instance |-> {"idle_timeout_minutes", "poll_interval_seconds", "start_command"},
    minecraft_config |-> {"rcon_port", "rcon_password", "forge_properties_path",
                          "motd_fallback"},
    backup_config |-> {"world_path", "backups_dir", "max_backups"},
    maintenance_config |-> {"process_name", "stop_command"},
    startup_config |-> {"log_path", "boot_pattern", "commands"},
    world_regen_config |-> {"world_path", "server_properties_path", "seed_key",
                            "extra_reset_files", "seed_template_files"}]

\* The fields that the resolve functions have a default for.
Builtin == [
    instance |-> {},
    minecraft_config |-> {"forge_properties_path"},
    backup_config |-> {"world_path", "backups_dir", "max_backups"},
    maintenance_config |-> {"process_name", "stop_command"},
    startup_config |-> {"boot_pattern"},
    world_regen_config |-> {"world_path", "seed_key"}]

\* Nobody writes what stands for nothing.
ASSUME DistinctAssumption ==
    /\ Unset \notin Writers
    /\ \A s \in Sections :
          /\ \A some \in SUBSET Fields[s] : some # Nil
          /\ \A section \in [Fields[s] -> {Unset} \union Writers] : section # Nil

VARIABLES
    file,   \* history: which fields of which section everybody sets in the file
    game,   \* InstanceConfig.Game
    inst,   \* Config.Instances, merged as far as Load has got
    games,  \* Config.Games
    next,   \* the instance that Load, or the construction, has got to
    stage   \* of the process

config == <<file, game, inst, games, next, stage>>

\* load   Load, merging          serve  adapters and controllers exist
\* build  one after the other    fatal  log.Fatal
Stages == {"load", "build", "serve", "fatal"}

\* A section in which w has set some fields; the fields of an instance
\* itself are no section that may be absent.
Section(t, w) ==
    IF t = file.section /\ file.sets[w] # Nil
    THEN [f \in Fields[t] |-> IF f \in file.sets[w] THEN w ELSE Unset]
    ELSE IF t = "instance" THEN [f \in Fields[t] |-> Unset] ELSE Nil

\* Files in which a few fields of one section are written, by anybody and in
\* any way.
ConfigInit ==
    /\ \E s \in Sections : \E some \in kSubset(Written, Fields[s]) :
          /\ \E sets \in [Writers -> {Nil} \union SUBSET some] :
                file = [section |-> s, sets |-> sets]
          /\ \A g \in Games : file.sets[g] \in {Nil} \union SUBSET Shared(s)
    /\ game \in [Instances -> {Minecraft, Unknown}]
    /\ inst = [i \in Instances |-> [t \in Sections |-> Section(t, i)]]
    /\ games = [g \in Games |-> [t \in Sections |-> Section(t, g)]]
    /\ next = 1
    /\ stage = "load"

-----------------------------------------------------------------------------

\* One of the merge functions: a new section, the fields of the instance
\* where they are set and those of the game where they are not.
Merge(t, own, default) ==
    IF default = Nil THEN own
    ELSE [f \in Fields[t] |->
            IF own # Nil /\ own[f] # Unset THEN own[f]
            ELSE IF f \in Merged[t] THEN default[f] ELSE Unset]

Advance(then) ==
    IF next = Count
    THEN next' = 1 /\ stage' = then
    ELSE next' = next + 1 /\ UNCHANGED stage

\* Mutated form of LoadNext: a section that only the game has is not copied,
\* and what the instance sets is written into the game's.
LoadNextInPlace ==
    /\ stage = "load"
    /\ LET g == game[next]
       IN  IF g \in Games
           THEN LET merged == [t \in Sections |-> Merge(t, inst[next][t], games[g][t])]
                IN  /\ inst' = [inst EXCEPT ![next] = merged]
                    /\ games' = [games EXCEPT ![g] =
                                   [t \in Sections |-> IF @[t] = Nil THEN Nil ELSE merged[t]]]
           ELSE UNCHANGED <<inst, games>>
    /\ Advance("build")
    /\ UNCHANGED <<file, game>>

\* One turn of Load's loop: mergeInstanceConfig.
LoadNext ==
    /\ stage = "load"
    /\ LET g == game[next]
       IN  IF g \in Games
           THEN inst' = [inst EXCEPT ![next] =
                           [t \in Sections |-> Merge(t, @[t], games[g][t])]]
           ELSE UNCHANGED inst
    /\ Advance("build")
    /\ UNCHANGED <<file, game, games>>

\* One turn of the loops of runIdleWatch and of the host's NewServer.
BuildNext ==
    /\ stage = "build"
    /\ IF game[next] = Minecraft /\ inst[next]["minecraft_config"] # Nil
       THEN Advance("serve")
       ELSE stage' = "fatal" /\ UNCHANGED next
    /\ UNCHANGED <<file, game, inst, games>>

ConfigNext == LoadNext \/ BuildNext

-----------------------------------------------------------------------------

\* The value of a field as the packages see it, after their resolve
\* functions.
Resolved(i, t, f) ==
    IF inst[i][t] # Nil /\ inst[i][t][f] # Unset THEN inst[i][t][f]
    ELSE IF f \in Builtin[t] THEN Program ELSE Unset

Sets(w, t, f) == t = file.section /\ file.sets[w] # Nil /\ f \in file.sets[w]

\* Whose value the documentation says that is.
Promised(i, t, f) ==
    IF Sets(i, t, f) THEN i
    ELSE IF game[i] \in Games /\ Sets(game[i], t, f) THEN game[i]
    ELSE IF f \in Builtin[t] THEN Program
    ELSE Unset

\* Every section has its fields, and every field a writer or none.
ConfigTypeOK ==
    /\ next \in Instances
    /\ stage \in Stages
    /\ game \in [Instances -> {Minecraft, Unknown}]
    /\ \A t \in Sections :
          /\ \A i \in Instances :
                inst[i][t] = Nil \/ inst[i][t] \in [Fields[t] -> {Unset} \union Writers]
          /\ \A g \in Games :
                games[g][t] = Nil \/ games[g][t] \in [Fields[t] -> {Unset, g}]

\* "Each field on an instance wins if set; otherwise it falls back to its
\* game's default, then to a built-in default", for every field that has one:
\* nothing is lost, and nothing is taken from another instance, although the
\* instances of a game share its sections and are merged one after another.
Precedence ==
    stage # "load" =>
        \A i \in Instances, t \in Sections : \A f \in Fields[t] :
            Resolved(i, t, f) = Promised(i, t, f)

\* ... and then to a built-in default, for all of them.
EveryFieldHasDefault ==
    stage # "load" =>
        \A i \in Instances, t \in Sections : \A f \in Shared(t) : Resolved(i, t, f) # Unset

=============================================================================
