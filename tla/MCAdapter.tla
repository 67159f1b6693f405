----------------------------- MODULE MCAdapter -----------------------------
(* All files without a client, and one file with a client: what clients do  *)
(* and what is in the file need not be combined.                            *)
EXTENDS Adapter

Sample ==
    [section |-> "minecraft_config",
     sets |-> [w \in Writers |->
                 CASE w = 1 -> {"forge_properties_path"}
                   [] w = 2 -> {"motd_fallback"}
                   [] OTHER -> {"forge_properties_path", "motd_fallback"}]]

\* Of three bytes, as a snapshot has it, and of two.
MCVersions == {-1, 5}

MCInit ==
    /\ AdapterInit
    /\ clients = IF file = Sample THEN 1 ELSE 0

MCSpec == MCInit /\ [][AdapterNext]_adapterVars

=============================================================================
