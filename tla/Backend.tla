------------------------------ MODULE Backend ------------------------------
(***************************************************************************)
(* The game server process that gameops supervises.  It is not part of     *)
(* the repository: what is written here is what the code under src/        *)
(* relies on when it dials the backend port, runs start_command, sends     *)
(* "stop" over RCON or kills the process by name.                          *)
(*                                                                         *)
(*   down      no process                                                  *)
(*   booting   process alive, port still closed                            *)
(*   up        port open, RCON answers                                     *)
(*   stopping  port still open, the process is shutting down               *)
(*   exiting   port closed, process alive and still writing its world      *)
(***************************************************************************)

Phases == {"down", "booting", "up", "stopping", "exiting"}

\* A TCP dial of the backend port succeeds.  This is the only test that
\* idle-watch, maintenance, world regen and the host ever make.
Listening(b) == b \in {"up", "stopping"}

\* There is a process that reads or writes the world directory.
Alive(b) == b # "down"

\* start_command: a second server process on the same directory and port
\* gives up at once, so only a backend that is down is started by it.
Started(b) == IF b = "down" THEN "booting" ELSE b

\* The server received the "stop" command.
Stopped(b) == IF b = "up" THEN "stopping" ELSE b

\* What the process does on its own: finish or fail its boot, close its
\* port, exit.
Evolves(b, c) == <<b, c>> \in {<<"booting", "up">>, <<"booting", "down">>,
                               <<"stopping", "exiting">>, <<"exiting", "down">>}

=============================================================================
