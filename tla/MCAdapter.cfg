\* Two instances, every way to write two fields of a section of the file; and
\* over one of these files a connection of any client to either instance, with
\* integers of five bits in bytes of two and a continuation bit.  A handler may
\* wait for ever.
CONSTANTS
    Count = 2
    Minecraft = Minecraft
    Unknown = Unknown
    Games = {Minecraft, Unknown}
    Written = 2
    Unset = Unset
    Nil = Nil
    Program = Program
    Width = 5
    Group = 2
    Clients = {0, 1}
    Versions <- MCVersions
    Lengths = {1, 4}
SPECIFICATION MCSpec
INVARIANTS AdapterTypeOK Precedence WakesOnLogin AnswersAreRead
CHECK_DEADLOCK FALSE
