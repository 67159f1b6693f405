------------------------------ MODULE Adapter ------------------------------
(***************************************************************************)
(* A connection to a sleeping instance: HandleSleeping of                  *)
(* src/idlewatch/minecraft_adapter.go, over the bytes of module Mcproto,   *)
(* in a process that module Config has set up.                             *)
(*                                                                         *)
(* The handler reads packets as their bytes come, and there is no          *)
(* deadline: with a client that sends too little and stays, it waits.      *)
(* IdleWatch has the same handler as one step, HandleSleeping, and its     *)
(* result as the trigger of a wake-up.                                     *)
(***************************************************************************)
EXTENDS Config, Mcproto

CONSTANTS
    Clients,   \* bound: connections in the life of a process
    Versions,  \* bound: protocol versions of clients
    Lengths    \* bound: lengths of a JSON text

ASSUME ClientsAssumption ==
    /\ Clients \subseteq {0, 1}
    /\ Versions \subseteq Ints
    /\ Lengths \subseteq Nat

VARIABLES
    clients,  \* connections still to come
    to,       \* the instance that the connection is for
    script,   \* history: what the client means to send
    sent,     \* how many bytes of it the client has sent
    closed,   \* the client has closed the connection
    at,       \* where the handler is
    taken,    \* how many bytes the handler has read
    written,  \* bytes the handler has written
    meant,    \* history: the answers they stand for
    woke      \* what HandleSleeping returned

client == <<clients, to, script, sent, closed>>
handler == <<at, taken, written, meant, woke>>
adapterVars == <<config, client, handler>>

\* The states a handshake may announce; a transfer is newer than this code.
Announced == [status |-> 1, login |-> 2, transfer |-> 3]

\* After its handshake a client sends a request and a ping, whose data is
\* opaque, or another packet; it may stop before the end of this.
Pong == <<1, 0>>
Follows == [
    ping  |-> WritePacket(0, <<>>) \o WritePacket(1, Pong),
    other |-> WritePacket(0, <<>>) \o WritePacket(2, Pong)]

\* An address of length -1 makes the handshake a wrong one.
Scripts ==
    [version : Versions, length : {-1, 1}, then : DOMAIN Announced, follow : DOMAIN Follows]

Introduction(c) ==
    WriteVarInt(c.version) \o WriteVarInt(c.length) \o <<1>>
    \o <<0, 1>> \o WriteVarInt(Announced[c.then])

Handshake(c) == WritePacket(0, Introduction(c))

Conversation(c) == Handshake(c) \o Follows[c.follow]

\* A JSON text is known by its length.
Text(n) == [k \in 1 .. n |-> 1]

\* No length overflows the integer that it is written as.
Fits(id, data) == Len(WriteVarInt(id) \o data) \in Ints

ASSUME FitAssumption ==
    /\ -1 .. 3 \subseteq Ints
    /\ \A c \in Scripts : Fits(0, Introduction(c))
    /\ Fits(0, <<>>) /\ Fits(1, Pong) /\ Fits(2, Pong)
    /\ \A n \in Lengths : n \in Ints /\ Fits(0, WriteString(Text(n)))

NoScript == [version |-> 0, length |-> 1, then |-> "status", follow |-> "ping"]

AdapterInit ==
    /\ ConfigInit
    /\ clients \in Clients
    /\ to = 1
    /\ script = NoScript
    /\ sent = 0
    /\ closed = FALSE
    /\ at = "none"
    /\ taken = 0
    /\ written = <<>>
    /\ meant = <<>>
    /\ woke = FALSE

-----------------------------------------------------------------------------
(* The client.                                                             *)

Accept(i) ==
    /\ stage = "serve"
    /\ clients > 0
    /\ clients' = clients - 1
    /\ to' = i
    /\ script' \in Scripts
    /\ at' = "handshake"
    /\ UNCHANGED <<config, sent, closed, taken, written, meant, woke>>

Connected == at # "none" /\ ~closed

\* Bytes come in pieces of any size.
ClientSends ==
    /\ Connected
    /\ sent' \in sent + 1 .. Len(Conversation(script))
    /\ UNCHANGED <<config, handler, clients, to, script, closed>>

ClientCloses ==
    /\ Connected
    /\ closed' = TRUE
    /\ UNCHANGED <<config, handler, clients, to, script, sent>>

-----------------------------------------------------------------------------
(* HandleSleeping.                                                         *)

\* The packet that the handler reads next.
Packet == ReadPacket(SubSeq(Conversation(script), taken + 1, sent))

\* It can tell only when enough bytes have come, or no more will.
Comes == Packet.kind # "short" \/ closed

Take == taken' = sent - Len(Packet.rest)

\* The real motd, read from the properties file, or the fallback.
Motds == {"forge_properties_path", "motd_fallback"}

\* A write, which may fail when the client has gone.
Writes(id, data, answer) ==
    /\ written' = written \o WritePacket(id, data)
    /\ meant' = Append(meant, answer)

WriteFails == closed /\ UNCHANGED <<written, meant>>

\* A packet whose data is a JSON text with a motd.
WritesText(kind) ==
    \E motd \in Motds, n \in Lengths :
        Writes(0, WriteString(Text(n)),
               [kind |-> kind, size |-> n,
                source |-> Resolved(to, "minecraft_config", motd), motd |-> motd])

Returns(result) == at' = "done" /\ woke' = result

\* Mutated form of IsLogin: whatever is not a status ping.
IsLoginElse(state) == state # Announced.status

IsLogin(state) == state = Announced.login

\* A login is answered with a Disconnect packet, if the client still listens.
ReadHandshake ==
    /\ at = "handshake"
    /\ Comes
    /\ LET state == ParseHandshake(Packet.value.data)
           good == Packet.kind = "ok" /\ Packet.value.id = 0 /\ state.kind = "ok"
       IN  \/ ~good /\ Returns(FALSE) /\ UNCHANGED <<taken, written, meant>>
           \/ /\ good /\ IsLogin(state.value)
              /\ Take
              /\ WritesText("disconnect") \/ WriteFails
              /\ Returns(TRUE)
           \/ /\ good /\ ~IsLogin(state.value)
              /\ Take
              /\ at' = "request"
              /\ UNCHANGED <<written, meant, woke>>
    /\ UNCHANGED <<config, client>>

\* Any packet is taken for the status request.
ReadRequest ==
    /\ at = "request"
    /\ Comes
    /\ \/ Packet.kind = "ok" /\ Take /\ WritesText("status") /\ at' = "ping" /\ UNCHANGED woke
       \/ Packet.kind = "ok" /\ Take /\ WriteFails /\ Returns(FALSE)
       \/ Packet.kind # "ok" /\ Returns(FALSE) /\ UNCHANGED <<taken, written, meant>>
    /\ UNCHANGED <<config, client>>

\* A ping is answered with its own data.
ReadPing ==
    /\ at = "ping"
    /\ Comes
    /\ IF Packet.kind = "ok"
       THEN /\ Take
            /\ IF Packet.value.id = 1
               THEN Writes(1, Packet.value.data, [kind |-> "pong"]) \/ WriteFails
               ELSE UNCHANGED <<written, meant>>
       ELSE UNCHANGED <<taken, written, meant>>
    /\ Returns(FALSE)
    /\ UNCHANGED <<config, client>>

AdapterNext ==
    \/ ConfigNext /\ UNCHANGED <<client, handler>>
    \/ \E i \in Instances : Accept(i)
    \/ ClientSends
    \/ ClientCloses
    \/ ReadHandshake
    \/ ReadRequest
    \/ ReadPing

AdapterSpec == AdapterInit /\ [][AdapterNext]_adapterVars

-----------------------------------------------------------------------------
(* Properties.                                                             *)

\* The state of the process and of the connection has its types, and the
\* handler has read nothing that was not sent.
AdapterTypeOK ==
    /\ ConfigTypeOK
    /\ clients \in {0, 1}
    /\ to \in Instances
    /\ script \in Scripts \union {NoScript}
    /\ sent \in 0 .. Len(Conversation(script))
    /\ closed \in BOOLEAN
    /\ at \in {"none", "handshake", "request", "ping", "done"}
    /\ taken \in 0 .. sent
    /\ written \in Seq(Bytes)
    /\ woke \in BOOLEAN

\* HandleSleeping "returns true only for a real login attempt", and for every
\* one: all of a handshake that announces a login has been sent, whatever the
\* version of the client and whatever has come with it or after it.
WakesOnLogin ==
    at = "done" =>
        (woke <=> /\ script.then = "login"
                  /\ script.length >= 0
                  /\ sent >= Len(Handshake(script)))

\* A client that reads what was written, packet by packet, finds the answers
\* that were meant and nothing after them; it has got one if it waited for
\* it; and the motd in it is that of the instance it connected to, by the
\* rules of the configuration file.
AnswersAreRead ==
    LET tail[n \in 0 .. Len(meant)] ==
            IF n = 0 THEN written ELSE ReadPacket(tail[n - 1]).rest
        packet(n) == ReadPacket(tail[n - 1])
    IN  /\ tail[Len(meant)] = <<>>
        /\ woke /\ ~closed => Len(meant) = 1
        /\ \A n \in 1 .. Len(meant) :
              /\ packet(n).kind = "ok"
              /\ IF meant[n].kind = "pong"
                 THEN packet(n).value = [id |-> 1, data |-> Pong]
                 ELSE LET text == ReadString(packet(n).value.data)
                      IN  /\ packet(n).value.id = 0
                          /\ text.kind = "ok"
                          /\ Len(text.value) = meant[n].size
                          /\ text.rest = <<>>
                          /\ meant[n].source =
                                Promised(to, "minecraft_config", meant[n].motd)

=============================================================================
