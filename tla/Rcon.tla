-------------------------------- MODULE Rcon --------------------------------
(***************************************************************************)
(* One RCON client after another: src/internal/rcon/rcon.go, and the       *)
(* server at the other end.                                                *)
(*                                                                         *)
(* A caller dials, authenticates, sends one command, reads one packet and  *)
(* closes.  Every command has the same request id, so nothing in a packet  *)
(* tells which command it answers; the caller relies on the connection.    *)
(* Deadlines are the caller's: it may Close at any point.  A command that  *)
(* the server has read by then is carried out all the same, later.         *)
(***************************************************************************)
EXTENDS Integers, Sequences

CONSTANT Texts  \* the commands that may be sent

VARIABLES
    passwordOk,  \* the configured password is the server's
    link,        \* the client's side of the connection
    inbox,       \* packets on their way to the client
    peer,        \* the server's side of the connection
    asked,       \* commands the server has read from it and not carried out
    late         \* how many more it has read from connections closed since

rcon == <<passwordOk, link, inbox, peer, asked, late>>

\* closed  no connection
\* auth    the auth packet is written    open  authenticated
\* auth2   one empty packet was skipped  sent  a command is written
Links == {"closed", "auth", "auth2", "open", "sent"}

\* none    no connection
\* new     connected, the auth packet is not answered yet
\* in      answered: commands are read
Peers == {"none", "new", "in"}

authID == 1
commandID == 2
rejectedID == -1

\* A packet: its type, its request id, whether readPacket takes its length,
\* and which command it answers, which the client cannot see.
Packet(typ, id, fits, of) == [typ |-> typ, id |-> id, fits |-> fits, of |-> of]

EmptyValue == Packet("value", authID, TRUE, {})
AuthResponse ==
    Packet("auth", IF passwordOk THEN authID ELSE rejectedID, TRUE, {})

RconInit ==
    /\ passwordOk \in BOOLEAN
    /\ link = "closed"
    /\ inbox = <<>>
    /\ peer = "none"
    /\ asked = <<>>
    /\ late = [t \in Texts |-> 0]

-----------------------------------------------------------------------------
(* The client.                                                             *)

\* Dial connects and writes the auth packet.
Dial ==
    /\ link = "closed"
    /\ link' = "auth"
    /\ peer' = "new"
    /\ UNCHANGED <<passwordOk, inbox, asked, late>>

\* Mutated form of Accepts: the first packet is taken for the answer.
AcceptsFirst(p) == p.id # rejectedID

\* A packet that ends the authentication well.
Accepts(p) == p.typ = "auth" /\ p.id # rejectedID

\* auth skips one leading response packet, which standard servers send and
\* Minecraft does not, and takes nothing but an auth response after it.
ReadAuth ==
    /\ link \in {"auth", "auth2"}
    /\ inbox # <<>>
    /\ \/ /\ Accepts(Head(inbox))
          /\ link' = "open"
       \/ /\ ~Accepts(Head(inbox))
          /\ link = "auth"
          /\ Head(inbox).typ = "value"
          /\ link' = "auth2"
    /\ inbox' = Tail(inbox)
    /\ UNCHANGED <<passwordOk, peer, asked, late>>

\* Command writes its packet and sets a new deadline.
Send(t) ==
    /\ link = "open"
    /\ link' = "sent"
    /\ asked' = IF peer = "in" THEN Append(asked, t) ELSE asked
    /\ UNCHANGED <<passwordOk, inbox, peer, late>>

\* The one packet that Command reads back is a response it accepts.
Replied ==
    /\ link = "sent"
    /\ inbox # <<>>
    /\ Head(inbox).fits
    /\ Head(inbox).typ = "value"
    /\ Head(inbox).id = commandID

\* Mutated form of Close: a client that got no answer is kept for the next
\* command.
CloseKeeps ==
    IF link = "sent" /\ inbox = <<>>
    THEN /\ link' = "open"
         /\ UNCHANGED <<passwordOk, inbox, peer, asked, late>>
    ELSE /\ link' = "closed"
         /\ inbox' = <<>>
         /\ peer' = "none"
         /\ asked' = <<>>
         /\ late' = [t \in Texts |-> IF asked # <<>> /\ Head(asked) = t
                                     THEN late[t] + 1 ELSE late[t]]
         /\ UNCHANGED passwordOk

\* Close, after the reply or after an error of any of the steps above.
Close ==
    /\ link' = "closed"
    /\ inbox' = <<>>
    /\ peer' = "none"
    /\ asked' = <<>>
    /\ late' = [t \in Texts |-> IF asked # <<>> /\ Head(asked) = t
                                THEN late[t] + 1 ELSE late[t]]
    /\ UNCHANGED passwordOk

-----------------------------------------------------------------------------
(* The server.                                                             *)

\* It answers the auth packet, with or without an empty packet before it.
Greet ==
    /\ peer = "new"
    /\ peer' = "in"
    /\ inbox' \in {<<AuthResponse>>, <<EmptyValue, AuthResponse>>}
    /\ UNCHANGED <<passwordOk, link, asked, late>>

\* It carries out the command t and answers it.  A packet with a full body of
\* 4096 bytes is longer than readPacket allows.
CarryOut(t) ==
    /\ asked # <<>>
    /\ t = Head(asked)
    /\ asked' = Tail(asked)
    /\ \E fits \in BOOLEAN :
          inbox' = Append(inbox, Packet("value", commandID, fits, {t}))
    /\ UNCHANGED <<passwordOk, link, peer, late>>

\* It gets to a command whose connection is closed.
CarryOutLate(t) ==
    /\ late[t] > 0
    /\ late' = [late EXCEPT ![t] = @ - 1]
    /\ UNCHANGED <<passwordOk, link, inbox, peer, asked>>

\* Its process ends, and what it had read is gone.
PeerGone ==
    /\ peer' = "none"
    /\ asked' = <<>>
    /\ late' = [t \in Texts |-> 0]
    /\ UNCHANGED <<passwordOk, link, inbox>>

RconTypeOK ==
    /\ passwordOk \in BOOLEAN
    /\ link \in Links
    /\ inbox \in Seq([typ : {"auth", "value"}, id : {authID, commandID, rejectedID},
                      fits : BOOLEAN, of : SUBSET Texts])
    /\ peer \in Peers
    /\ asked \in Seq(Texts)
    /\ late \in [Texts -> Nat]

=============================================================================
