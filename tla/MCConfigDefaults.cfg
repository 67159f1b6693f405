\* As MCAdapter.cfg, without clients: README.md of the repository says of
\* [games.minecraft] that a field falls back "to a built-in default"; several
\* fields have none.  Expected to fail.
CONSTANTS
    Count = 1
    Minecraft = Minecraft
    Unknown = Unknown
    Games = {Minecraft}
    Written = 2
    Unset = Unset
    Nil = Nil
    Program = Program
    Width = 5
    Group = 2
    Clients = {0}
    Versions <- MCVersions
    Lengths = {1}
SPECIFICATION AdapterSpec
INVARIANT EveryFieldHasDefault
CHECK_DEADLOCK FALSE
