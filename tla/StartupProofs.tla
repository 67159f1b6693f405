--------------------------- MODULE StartupProofs ---------------------------
(***************************************************************************)
(* Proofs about Startup and the RCON connections under it: any number of   *)
(* commands, of attempts and of server restarts.                           *)
(***************************************************************************)
EXTENDS Startup, SequenceTheorems, TLAPS

-----------------------------------------------------------------------------
(* Types.                                                                  *)

Packets == [typ : {"auth", "value"}, id : {authID, commandID, rejectedID},
            fits : BOOLEAN, of : SUBSET Texts]

\* What the server sends are packets.
LEMMA PacketType ==
    /\ EmptyValue \in Packets
    /\ AuthResponse \in Packets
    /\ \A fits \in BOOLEAN, t \in Texts : Packet("value", commandID, fits, {t}) \in Packets
BY DEF Packets, EmptyValue, AuthResponse, Packet

\* The steps of the client and of the server keep the types of a connection.
LEMMA ClientType ==
    ASSUME RconTypeOK,
           Dial \/ ReadAuth \/ Close \/ \E t \in Texts : Send(t)
    PROVE  RconTypeOK'
<1> USE DEF RconTypeOK, Links, Peers
<1>1. CASE Dial
  BY <1>1 DEF Dial
<1>2. CASE ReadAuth
  BY <1>2 DEF ReadAuth
<1>3. CASE Close
  <2>1. late' \in [Texts -> Nat]
    BY <1>3 DEF Close
  <2> QED
    BY <1>3, <2>1 DEF Close
<1>4. ASSUME NEW t \in Texts, Send(t) PROVE RconTypeOK'
  BY <1>4 DEF Send
<1> QED
  BY <1>1, <1>2, <1>3, <1>4

LEMMA ServerType ==
    ASSUME RconTypeOK,
           Greet \/ PeerGone \/ \E t \in Texts : CarryOut(t) \/ CarryOutLate(t)
    PROVE  RconTypeOK'
<1> USE DEF RconTypeOK, Links, Peers
<1>1. CASE Greet
  <2>1. \A p, q \in Packets : <<p>> \in Seq(Packets) /\ <<p, q>> \in Seq(Packets)
    OBVIOUS
  <2>2. inbox' \in Seq(Packets)
    BY <1>1, <2>1, PacketType DEF Greet
  <2> QED
    BY <1>1, <2>2 DEF Greet, Packets
<1>2. CASE PeerGone
  BY <1>2 DEF PeerGone
<1>3. ASSUME NEW t \in Texts, CarryOut(t) PROVE RconTypeOK'
  <2>1. PICK fits \in BOOLEAN : inbox' = Append(inbox, Packet("value", commandID, fits, {t}))
    BY <1>3 DEF CarryOut
  <2>2. inbox \in Seq(Packets)
    BY DEF Packets
  <2>3. inbox' \in Seq(Packets)
    BY <2>1, <2>2, PacketType, AppendProperties
  <2>4. asked' \in Seq(Texts)
    BY <1>3, HeadTailProperties DEF CarryOut
  <2> QED
    BY <1>3, <2>3, <2>4 DEF CarryOut, Packets
<1>4. ASSUME NEW t \in Texts, CarryOutLate(t) PROVE RconTypeOK'
  BY <1>4 DEF CarryOutLate
<1> QED
  BY <1>1, <1>2, <1>3, <1>4

\* How far the run is goes with where it is: the attempts that are still to
\* come are counted, and there is a connection only during an attempt.
Progress ==
    /\ pc = "bootlog" => attempt = 0 /\ current = 1
    /\ pc = "probe" => attempt < ProbeTries /\ current = 1
    /\ pc = "apply" => attempt < CommandTries /\ current \in Numbers
    /\ pc = "ok" => current = Commands + 1
    /\ ~Attempting => link = "closed"

\* A connection that nobody touches keeps its types.
LEMMA RconUnchanged == RconTypeOK /\ UNCHANGED rcon => RconTypeOK'
BY DEF RconTypeOK, rcon

LEMMA Counts ==
    /\ Commands \in Nat /\ Commands > 0
    /\ CommandTries \in Nat /\ CommandTries > 0
    /\ ProbeTries \in Nat /\ ProbeTries > 0
    /\ BootTimeout \in Nat
BY StartupAssumption

LEMMA RunType ==
    ASSUME TypeOK, Progress, Run
    PROVE  TypeOK' /\ Progress'
<1> USE Counts, TextsAssumption
    DEF TypeOK, Progress, Points, Numbers, Attempting, server, run
<1>1. CASE BootLogFound \/ BootLogTimesOut
  <2>1. RconTypeOK' /\ UNCHANGED link
    BY <1>1, RconUnchanged DEF BootLogFound, BootLogTimesOut, rcon
  <2>2. UNCHANGED <<server, left, attempt, current, skipped, times>>
    BY <1>1 DEF BootLogFound, BootLogTimesOut
  <2>3. pc = "bootlog" /\ pc' \in {"probe", "failed"}
    BY <1>1 DEF BootLogFound, BootLogTimesOut
  <2> QED
    BY <2>1, <2>2, <2>3
<1>2. CASE Connect \/ Authenticate \/ SendText
  <2>1. Text \in Texts \/ ~Attempting
    BY DEF Text, Seed
  <2>2. RconTypeOK'
    BY <1>2, <2>1, ClientType DEF Connect, Authenticate, SendText
  <2>3. UNCHANGED <<run, server, times>> /\ Attempting
    BY <1>2 DEF Connect, Authenticate, SendText
  <2> QED
    BY <2>2, <2>3
<1>3. CASE AttemptOk
  <2>1. RconTypeOK' /\ link' = "closed"
    BY <1>3, ClientType DEF AttemptOk, Close
  <2>2. CASE pc = "probe"
    BY <1>3, <2>1, <2>2 DEF AttemptOk
  <2>3. CASE pc = "apply"
    BY <1>3, <2>1, <2>3 DEF AttemptOk, NextCommand
  <2> QED
    BY <1>3, <2>2, <2>3 DEF AttemptOk
<1>4. CASE AttemptFails
  <2>1. RconTypeOK' /\ link' = "closed"
    BY <1>4, ClientType DEF AttemptFails, Close
  <2>2. CASE pc = "probe"
    <3>1. /\ attempt' = attempt + 1
          /\ pc' = IF attempt + 1 = ProbeTries THEN "failed" ELSE pc
          /\ UNCHANGED <<server, left, times, current, skipped>>
      BY <1>4, <2>2 DEF AttemptFails, ProbeAgain
    <3>2. attempt' \in 0 .. ProbeTries + CommandTries
      BY <2>2, <3>1
    <3> QED
      BY <2>1, <2>2, <3>1, <3>2
  <2>3. CASE pc = "apply"
    <3>1. UNCHANGED <<server, left, times>>
      BY <1>4 DEF AttemptFails
    <3>2. CASE attempt + 1 < CommandTries
      <4>1. attempt' = attempt + 1 /\ UNCHANGED <<pc, current, skipped>>
        BY <1>4, <2>3, <3>2 DEF AttemptFails, Retry
      <4>2. attempt' \in 0 .. ProbeTries + CommandTries
        BY <3>2, <4>1
      <4> QED
        BY <2>1, <2>3, <3>1, <3>2, <4>1, <4>2
    <3>3. CASE ~(attempt + 1 < CommandTries)
      <4>1. /\ skipped' = skipped \union {current}
            /\ attempt' = 0
            /\ current' = current + 1
            /\ pc' = IF current = Commands THEN "ok" ELSE pc
        BY <1>4, <2>3, <3>3 DEF AttemptFails, Retry, NextCommand
      <4> QED
        BY <2>1, <2>3, <3>1, <4>1
    <3> QED
      BY <3>2, <3>3
  <2> QED
    BY <1>4, <2>2, <2>3 DEF AttemptFails
<1> QED
  BY <1>1, <1>2, <1>3, <1>4 DEF Run

LEMMA WorldType ==
    ASSUME TypeOK, Progress,
           \/ ServerGreets \/ (\E t \in Texts : ServerCarriesOut(t))
           \/ ServerMoves \/ NewLog \/ Tick
    PROVE  TypeOK' /\ Progress'
<1> USE Counts, TextsAssumption DEF TypeOK, Progress, Attempting, server, run
<1>1. CASE ServerGreets
  BY <1>1, ServerType DEF ServerGreets, Greet
<1>2. ASSUME NEW t \in Texts, ServerCarriesOut(t) PROVE TypeOK' /\ Progress'
  <2>1. RconTypeOK' /\ UNCHANGED link
    BY <1>2, ServerType DEF ServerCarriesOut, CarryOut, CarryOutLate
  <2>2. times' \in [Numbers -> Nat]
    BY <1>2 DEF ServerCarriesOut, Counted
  <2> QED
    BY <1>2, <2>1, <2>2 DEF ServerCarriesOut
<1>3. CASE ServerMoves
  <2>1. RconTypeOK' /\ UNCHANGED link
    BY <1>3, ServerType DEF ServerMoves, PeerGone, RconTypeOK, rcon
  <2> QED
    BY <1>3, <2>1 DEF ServerMoves
<1>4. CASE NewLog \/ Tick
  <2>1. RconTypeOK' /\ UNCHANGED link
    BY <1>4, RconUnchanged DEF NewLog, Tick, rcon
  <2>2. CASE NewLog
    BY <2>1, <2>2 DEF NewLog
  <2>3. CASE Tick
    BY <2>1, <2>3 DEF Tick
  <2> QED
    BY <1>4, <2>2, <2>3
<1> QED
  BY <1>1, <1>2, <1>3, <1>4

LEMMA ProgressCorrect == Spec => [](TypeOK /\ Progress)
<1>1. Init => TypeOK /\ Progress
  BY StartupAssumption, TextsAssumption
     DEF Init, RconInit, TypeOK, RconTypeOK, Links, Peers, Points, Numbers, Progress, Attempting
<1>2. TypeOK /\ Progress /\ [Next]_vars => TypeOK' /\ Progress'
  <2> SUFFICES ASSUME TypeOK, Progress, [Next]_vars PROVE TypeOK' /\ Progress'
    OBVIOUS
  <2>1. CASE UNCHANGED vars
    BY <2>1 DEF TypeOK, RconTypeOK, Progress, Attempting, vars, server, rcon, run
  <2> QED
    BY <2>1, RunType, WorldType DEF Next
<1> QED
  BY <1>1, <1>2, PTL DEF Spec

\* Every variable has its type; attempts stay within what is configured.
THEOREM TypeCorrect == Spec => []TypeOK
BY ProgressCorrect, PTL

-----------------------------------------------------------------------------
(* One connection.  Everything in it is about the text of the attempt that *)
(* opened it, because a connection is closed before the run goes on.       *)

\* What a packet on its way to the client tells, if it is the one that the
\* client takes it for.
Trusted(p) ==
    /\ Accepts(p) => passwordOk
    /\ p.id = commandID =>
         /\ link = "sent"
         /\ p.of = {Text}
         /\ pc = "apply" => times[current] > 0

Conversation ==
    /\ link # "sent" => asked = <<>>
    /\ link = "sent" => asked \in {<<>>, <<Text>>}
    /\ link \in {"open", "sent"} => passwordOk
    /\ \A i \in 1 .. Len(inbox) : Trusted(inbox[i])

\* The client's steps.
LEMMA ClientConverses ==
    ASSUME TypeOK, Progress, Conversation, Run
    PROVE  Conversation'
<1>t. inbox \in Seq(Packets)
  BY DEF TypeOK, RconTypeOK, Packets
<1>1. CASE BootLogFound \/ BootLogTimesOut
  <2>1. link = "closed" /\ UNCHANGED rcon /\ UNCHANGED times
    BY <1>1 DEF Progress, Attempting, BootLogFound, BootLogTimesOut
  <2> QED
    BY <2>1 DEF Conversation, Trusted, Accepts, rcon
<1>2. CASE Connect
  <2>1. UNCHANGED <<passwordOk, inbox, asked, pc, current, times>> /\ link = "closed" /\ link' = "auth"
    BY <1>2 DEF Connect, Dial, run
  <2> QED
    BY <2>1 DEF Conversation, Trusted, Accepts
<1>3. CASE Authenticate
  <2>1. /\ UNCHANGED <<passwordOk, asked, pc, current, times>>
        /\ link # "sent" /\ link' \in {"open", "auth2"}
        /\ inbox # <<>> /\ inbox' = Tail(inbox)
        /\ link' = "open" => Accepts(Head(inbox))
    BY <1>3 DEF Authenticate, ReadAuth, run
  <2>2. Len(inbox) > 0 /\ Head(inbox) = inbox[1]
    BY <1>t, <2>1
  <2>3. link' = "open" => passwordOk
    BY <2>1, <2>2, <1>t DEF Conversation, Trusted
  <2>4. \A i \in 1 .. Len(inbox') : i + 1 \in 1 .. Len(inbox) /\ inbox'[i] = inbox[i + 1]
    BY <1>t, <2>1, <2>2
  <2>5. \A i \in 1 .. Len(inbox') : Trusted(inbox'[i]) /\ inbox'[i].id # commandID
    BY <2>1, <2>4 DEF Conversation, Trusted
  <2>6. \A i \in 1 .. Len(inbox') : Trusted(inbox[i])'
    BY <2>1, <2>5 DEF Trusted, Accepts
  <2> QED
    BY <2>1, <2>3, <2>6 DEF Conversation
<1>4. CASE SendText
  <2>1. /\ UNCHANGED <<passwordOk, inbox, pc, current, times>>
        /\ link = "open" /\ link' = "sent"
        /\ asked' = asked \/ asked' = Append(asked, Text)
    BY <1>4 DEF SendText, Send, run
  <2>2. Text' = Text
    BY <2>1 DEF Text
  <2>3. asked' \in {<<>>, <<Text>>}
    BY <2>1 DEF Conversation
  <2>4. \A i \in 1 .. Len(inbox) : inbox[i].id # commandID /\ (Accepts(inbox[i]) => passwordOk)
    BY <2>1 DEF Conversation, Trusted
  <2> QED
    BY <2>1, <2>2, <2>3, <2>4 DEF Conversation, Trusted, Accepts
<1>5. CASE AttemptOk \/ AttemptFails
  <2>1. Close
    BY <1>5 DEF AttemptOk, AttemptFails
  <2> QED
    BY <2>1 DEF Close, Conversation
<1> QED
  BY <1>1, <1>2, <1>3, <1>4, <1>5 DEF Run

\* The server's steps.
LEMMA ServerConverses ==
    ASSUME TypeOK, Progress, Conversation,
           \/ ServerGreets \/ (\E t \in Texts : ServerCarriesOut(t))
           \/ ServerMoves \/ NewLog \/ Tick
    PROVE  Conversation'
<1>t. inbox \in Seq(Packets)
  BY DEF TypeOK, RconTypeOK, Packets
<1>r. UNCHANGED <<link, passwordOk, pc, current>> /\ Text' = Text
  BY DEF ServerGreets, Greet, ServerCarriesOut, CarryOut, CarryOutLate, ServerMoves, PeerGone,
     NewLog, Tick, rcon, run, Text
<1>1. CASE ServerGreets
  <2>1. /\ ~(Accepts(EmptyValue)) /\ EmptyValue.id # commandID
        /\ Accepts(AuthResponse) => passwordOk
        /\ AuthResponse.id # commandID
    BY DEF EmptyValue, AuthResponse, Accepts, Packet, authID, commandID, rejectedID
  <2>2. inbox' \in {<<AuthResponse>>, <<EmptyValue, AuthResponse>>} /\ asked' = asked
    BY <1>1 DEF ServerGreets, Greet
  <2>3. \A i \in 1 .. Len(inbox') : inbox'[i] \in {EmptyValue, AuthResponse}
    BY <2>2
  <2>4. \A i \in 1 .. Len(inbox') : Trusted(inbox[i])'
    BY <1>r, <2>1, <2>3 DEF Trusted, Accepts
  <2> QED
    BY <1>r, <2>2, <2>4 DEF Conversation
<1>2. ASSUME NEW t \in Texts, ServerCarriesOut(t), CarryOut(t) PROVE Conversation'
  <2>1. asked = <<Text>> /\ link = "sent" /\ t = Text /\ asked' = <<>>
    <3>1. asked # <<>> /\ t = Head(asked) /\ asked' = Tail(asked)
      BY <1>2 DEF CarryOut
    <3>2. link = "sent" /\ asked = <<Text>>
      BY <3>1 DEF Conversation
    <3>3. Head(<<Text>>) = Text /\ Tail(<<Text>>) = <<>>
      OBVIOUS
    <3> QED
      BY <3>1, <3>2, <3>3
  <2>2. PICK fits \in BOOLEAN : inbox' = Append(inbox, Packet("value", commandID, fits, {t}))
    BY <1>2 DEF CarryOut
  <2>3. pc = "apply" => times'[current] > 0
    <3>1. pc = "apply" => current \in Numbers /\ Text = current
      BY DEF Progress, Text
    <3>2. times \in [Numbers -> Nat]
      BY DEF TypeOK
    <3> QED
      BY <1>2, <2>1, <3>1, <3>2 DEF ServerCarriesOut, Counted
  <2>4. \A i \in 1 .. Len(inbox') :
           \/ i \in 1 .. Len(inbox) /\ inbox'[i] = inbox[i]
           \/ inbox'[i] = Packet("value", commandID, fits, {t})
    <3>1. Packet("value", commandID, fits, {t}) \in Packets
      BY PacketType
    <3> QED
      BY <1>t, <2>2, <3>1, AppendProperties
  <2>5. \A i \in 1 .. Len(inbox') : Trusted(inbox[i])'
    <3>1. \A i \in 1 .. Len(inbox) : (Accepts(inbox[i]) => passwordOk)
                                     /\ (inbox[i].id = commandID => inbox[i].of = {Text})
      BY DEF Conversation, Trusted
    <3>2. LET p == Packet("value", commandID, fits, {t})
          IN  ~Accepts(p) /\ p.of = {Text}
      BY <2>1 DEF Packet, Accepts
    <3> QED
      BY <1>r, <2>1, <2>3, <2>4, <3>1, <3>2 DEF Trusted, Accepts
  <2> QED
    BY <1>r, <2>1, <2>5 DEF Conversation
<1>3. ASSUME NEW t \in Texts, ServerCarriesOut(t), CarryOutLate(t) PROVE Conversation'
  <2>1. UNCHANGED <<inbox, asked>>
    BY <1>3 DEF CarryOutLate
  <2>2. pc = "apply" /\ times[current] > 0 => times'[current] > 0
    BY <1>3 DEF ServerCarriesOut, Counted, Progress, TypeOK
  <2> QED
    BY <1>r, <2>1, <2>2 DEF Conversation, Trusted, Accepts
<1>4. CASE ServerMoves
  <2>1. UNCHANGED <<inbox, times>> /\ asked' \in {asked, <<>>}
    BY <1>4 DEF ServerMoves, PeerGone, rcon
  <2> QED
    BY <1>r, <2>1 DEF Conversation, Trusted, Accepts
<1>5. CASE NewLog \/ Tick
  <2>1. UNCHANGED <<inbox, asked, times>>
    BY <1>5 DEF NewLog, Tick, rcon
  <2> QED
    BY <1>r, <2>1 DEF Conversation, Trusted, Accepts
<1> QED
  BY <1>1, <1>2, <1>3, <1>4, <1>5 DEF ServerCarriesOut

LEMMA ConversationCorrect == Spec => []Conversation
<1>1. Init => Conversation
  BY DEF Init, RconInit, Conversation
<1>2. TypeOK /\ Progress /\ Conversation /\ [Next]_vars => Conversation'
  <2> SUFFICES ASSUME TypeOK, Progress, Conversation, [Next]_vars PROVE Conversation'
    OBVIOUS
  <2>1. CASE UNCHANGED vars
    BY <2>1 DEF Conversation, Trusted, Accepts, Text, vars, rcon, run
  <2> QED
    BY <2>1, ClientConverses, ServerConverses DEF Next
<1> QED
  BY <1>1, <1>2, ProgressCorrect, PTL DEF Spec

\* A command is sent only after the server has accepted the password.
THEOREM Authenticated == Spec => []OnlyAuthenticated
<1>1. Conversation => OnlyAuthenticated
  BY DEF Conversation, OnlyAuthenticated
<1> QED
  BY <1>1, ConversationCorrect, PTL

\* The packet that is taken for the answer of a command is the answer of that
\* command, although every command has the same request id.
THEOREM AnswersMatch == Spec => []OwnAnswer
<1>1. TypeOK /\ Conversation => OwnAnswer
  <2> SUFFICES ASSUME TypeOK, Conversation, Replied PROVE Head(inbox).of = {Text}
    BY DEF OwnAnswer
  <2>1. inbox \in Seq(Packets) /\ inbox # <<>>
    BY DEF TypeOK, RconTypeOK, Packets, Replied
  <2>2. Len(inbox) > 0 /\ Head(inbox) = inbox[1]
    BY <2>1
  <2> QED
    BY <2>2 DEF Conversation, Trusted, Replied
<1> QED
  BY <1>1, ConversationCorrect, TypeCorrect, PTL

-----------------------------------------------------------------------------
(* Many connections.  An attempt is paid for when its command is sent: the *)
(* times a command was carried out, and those that are still to come, are  *)
(* no more than the attempts made of it.                                   *)

\* The server has read the command from the open connection and has not
\* carried it out.
Pending(c) == IF asked = <<c>> THEN 1 ELSE 0

\* How many attempts have sent the command c, at most.
Made(c) ==
    IF c < current THEN CommandTries
    ELSE IF c = current /\ pc = "apply" /\ link = "sent" THEN attempt + 1
    ELSE IF c = current /\ pc = "apply" THEN attempt
    ELSE 0

PaidFor == \A c \in Numbers : times[c] + late[c] + Pending(c) =< Made(c)

\* A connection that closes leaves what the server has read from it.
LEMMA CloseLeaves ==
    ASSUME TypeOK, Conversation, Close, NEW c \in Numbers
    PROVE  /\ late'[c] = late[c] + Pending(c)
           /\ asked' = <<>> /\ link' = "closed"
<1>t. c \in Texts /\ late \in [Texts -> Nat]
  BY TextsAssumption DEF TypeOK, RconTypeOK
<1>1. late'[c] = IF asked # <<>> /\ Head(asked) = c THEN late[c] + 1 ELSE late[c]
  BY <1>t DEF Close
<1>2. asked # <<>> /\ Head(asked) = c <=> asked = <<c>>
  <2>1. asked \in {<<>>, <<Text>>}
    BY DEF Conversation
  <2>2. CASE asked = <<>>
    BY <2>2
  <2>3. CASE asked = <<Text>>
    BY <2>3
  <2> QED
    BY <2>1, <2>2, <2>3
<1> QED
  BY <1>t, <1>1, <1>2 DEF Close, Pending

\* The run's steps: sending pays, and a failed attempt is counted.
LEMMA RunPays ==
    ASSUME TypeOK, Progress, Conversation, PaidFor, Run
    PROVE  PaidFor'
<1> SUFFICES ASSUME NEW c \in Numbers
             PROVE  (times[c] + late[c] + Pending(c) =< Made(c))'
  BY DEF PaidFor
<1>0. times[c] + late[c] + Pending(c) =< Made(c)
  BY DEF PaidFor
<1>t. /\ c \in Nat /\ current \in Nat /\ attempt \in Nat
      /\ times[c] \in Nat /\ late[c] \in Nat /\ Pending(c) \in {0, 1}
  <2>1. c \in Nat /\ c \in Texts
    BY Counts, TextsAssumption DEF Numbers
  <2>2. current \in Nat /\ attempt \in Nat
    BY Counts DEF TypeOK
  <2>3. times[c] \in Nat /\ late[c] \in Nat
    BY <2>1 DEF TypeOK, RconTypeOK
  <2> QED
    BY <2>1, <2>2, <2>3 DEF Pending
<1>1. CASE BootLogFound \/ BootLogTimesOut
  <2>1. UNCHANGED <<rcon, times, current>> /\ pc # "apply" /\ pc' # "apply"
    BY <1>1 DEF BootLogFound, BootLogTimesOut
  <2> QED
    BY <1>0, <2>1 DEF rcon, Pending, Made
<1>2. CASE Connect \/ Authenticate
  <2>1. UNCHANGED <<late, asked, times, run>> /\ link # "sent" /\ link' # "sent"
    BY <1>2 DEF Connect, Dial, Authenticate, ReadAuth
  <2> QED
    BY <1>0, <2>1 DEF run, Pending, Made
<1>3. CASE SendText
  <2>1. /\ UNCHANGED <<late, times, pc, current, attempt>>
        /\ link = "open" /\ link' = "sent"
        /\ asked = <<>> /\ (asked' = asked \/ asked' = Append(asked, Text))
    BY <1>3 DEF SendText, Send, run, Conversation
  <2>2. Pending(c) = 0
    BY <2>1 DEF Pending
  <2>3. Pending(c)' =< IF c = Text THEN 1 ELSE 0
    BY <2>1 DEF Pending
  <2>4. c = Text => c = current /\ pc = "apply"
    BY <1>3, <1>t DEF SendText, Attempting, Text, Seed, Numbers
  <2>5. Made(c)' = IF c = current /\ pc = "apply" THEN Made(c) + 1 ELSE Made(c)
    BY <1>t, <2>1, Counts DEF Made
  <2>6. Pending(c)' \in {0, 1} /\ Made(c) \in Nat
    BY <1>t, Counts DEF Pending, Made
  <2> QED
    BY <1>0, <1>t, <2>1, <2>2, <2>3, <2>4, <2>5, <2>6
<1>4. CASE AttemptOk \/ AttemptFails
  <2>1. Close /\ times' = times
    BY <1>4 DEF AttemptOk, AttemptFails
  <2>2. late'[c] = late[c] + Pending(c) /\ asked' = <<>> /\ link' = "closed"
    BY <2>1, CloseLeaves
  <2>3. Pending(c)' = 0
    BY <2>2 DEF Pending
  <2>4. Made(c) =< Made(c)'
    <3>1. CASE pc = "probe"
      <4>1. current' = current /\ (pc' = "apply" => attempt' = 0) /\ c >= current /\ Made(c) = 0
        BY <1>4, <3>1 DEF AttemptOk, AttemptFails, ProbeAgain, Progress, Numbers, Made
      <4> QED
        BY <1>t, <2>2, <4>1 DEF Made
    <3>2. CASE pc = "apply" /\ current' = current + 1
      <4>1. attempt < CommandTries
        BY <3>2 DEF Progress
      <4>2. c > current => Made(c) = 0
        BY <1>t, <3>2 DEF Made
      <4>3. c =< current => Made(c)' = CommandTries
        BY <1>t, <3>2 DEF Made
      <4>4. Made(c) =< CommandTries /\ Made(c) \in Nat
        BY <1>t, <4>1, Counts DEF Made
      <4>5. c > current => Made(c)' \in Nat
        <5>1. attempt' = 0
          BY <1>4, <1>t, <3>2 DEF AttemptOk, AttemptFails, NextCommand, Retry
        <5> QED
          BY <2>2, <5>1, Counts DEF Made
      <4> QED
        BY <1>t, <4>2, <4>3, <4>4, <4>5, Counts
    <3>3. CASE pc = "apply" /\ current' # current + 1
      <4>1. attempt' = attempt + 1 /\ current' = current /\ pc' = pc
        BY <1>4, <3>3 DEF AttemptOk, AttemptFails, NextCommand, Retry
      <4> QED
        BY <1>t, <2>2, <3>3, <4>1, Counts DEF Made
    <3> QED
      BY <1>4, <3>1, <3>2, <3>3 DEF AttemptOk, AttemptFails, Attempting
  <2>5. Made(c) \in Nat /\ Made(c)' \in Nat
    <3>1. attempt' \in Nat
      BY RunType, Counts DEF TypeOK
    <3>2. Made(c) \in Nat
      BY <1>t, Counts DEF Made
    <3>3. Made(c)' \in {CommandTries, attempt' + 1, attempt', 0}
      BY DEF Made
    <3>4. Made(c)' \in Nat
      BY <3>1, <3>3, Counts
    <3> QED
      BY <3>2, <3>4
  <2> QED
    BY <1>0, <1>t, <2>1, <2>2, <2>3, <2>4, <2>5
<1> QED
  BY <1>1, <1>2, <1>3, <1>4 DEF Run

\* The server's steps: carrying a command out settles what is pending.
LEMMA WorldPays ==
    ASSUME TypeOK, Progress, Conversation, PaidFor,
           \/ ServerGreets \/ (\E t \in Texts : ServerCarriesOut(t))
           \/ ServerMoves \/ NewLog \/ Tick
    PROVE  PaidFor'
<1> SUFFICES ASSUME NEW c \in Numbers
             PROVE  (times[c] + late[c] + Pending(c) =< Made(c))'
  BY DEF PaidFor
<1>0. times[c] + late[c] + Pending(c) =< Made(c)
  BY DEF PaidFor
<1>t. times[c] \in Nat /\ late[c] \in Nat /\ Pending(c) \in {0, 1} /\ c \in Texts
      /\ late \in [Texts -> Nat] /\ Made(c) \in Nat
  BY Counts, TextsAssumption DEF TypeOK, RconTypeOK, Pending, Made
<1>m. Made(c)' = Made(c)
  BY DEF ServerGreets, Greet, ServerCarriesOut, CarryOut, CarryOutLate, ServerMoves, PeerGone,
     NewLog, Tick, rcon, run, Made
<1>1. CASE ServerGreets \/ NewLog \/ Tick
  <2>1. UNCHANGED <<times, late, asked>>
    BY <1>1 DEF ServerGreets, Greet, NewLog, Tick, rcon
  <2> QED
    BY <1>0, <1>m, <2>1 DEF Pending
<1>2. ASSUME NEW t \in Texts, ServerCarriesOut(t), CarryOut(t)
      PROVE  (times[c] + late[c] + Pending(c) =< Made(c))'
  <2>1. /\ times'[c] = IF c = t THEN times[c] + 1 ELSE times[c]
        /\ late' = late /\ asked # <<>> /\ t = Head(asked) /\ asked' = Tail(asked)
    BY <1>2 DEF ServerCarriesOut, Counted, CarryOut
  <2>2. asked = <<t>> /\ asked' = <<>>
    <3>1. asked = <<Text>>
      BY <2>1 DEF Conversation
    <3>2. Head(<<Text>>) = Text /\ Tail(<<Text>>) = <<>>
      OBVIOUS
    <3> QED
      BY <2>1, <3>1, <3>2
  <2>3. Pending(c) = (IF c = t THEN 1 ELSE 0) /\ Pending(c)' = 0
    BY <2>2 DEF Pending
  <2> QED
    BY <1>0, <1>t, <1>m, <2>1, <2>3
<1>3. ASSUME NEW t \in Texts, ServerCarriesOut(t), CarryOutLate(t)
      PROVE  (times[c] + late[c] + Pending(c) =< Made(c))'
  <2>1. /\ times'[c] = IF c = t THEN times[c] + 1 ELSE times[c]
        /\ late'[c] = IF c = t THEN late[c] - 1 ELSE late[c]
        /\ asked' = asked
    BY <1>3, <1>t DEF ServerCarriesOut, Counted, CarryOutLate
  <2>2. Pending(c)' = Pending(c)
    BY <2>1 DEF Pending
  <2> QED
    BY <1>0, <1>t, <1>m, <2>1, <2>2
<1>4. CASE ServerMoves
  <2>1. times' = times /\ late'[c] \in {late[c], 0} /\ asked' \in {asked, <<>>}
    BY <1>4, <1>t DEF ServerMoves, PeerGone, rcon
  <2>2. Pending(c)' \in {Pending(c), 0}
    <3>1. <<c>> # <<>>
      OBVIOUS
    <3> QED
      BY <2>1, <3>1 DEF Pending
  <2> QED
    BY <1>0, <1>t, <1>m, <2>1, <2>2
<1> QED
  BY <1>1, <1>2, <1>3, <1>4 DEF ServerCarriesOut

\* No command is carried out more often than it may be attempted, whichever
\* replies are lost and however late the server gets to what it has read.
THEOREM RepeatsBounded == Spec => []BoundedRepeats
<1>1. Init => PaidFor
  <2> SUFFICES ASSUME Init, NEW c \in Numbers
               PROVE  times[c] + late[c] + Pending(c) =< Made(c)
    BY DEF PaidFor
  <2>1. times[c] = 0 /\ late[c] = 0 /\ Pending(c) = 0
    BY TextsAssumption DEF Init, RconInit, Pending
  <2>2. Made(c) = 0
    BY DEF Init, Made, Numbers
  <2> QED
    BY <2>1, <2>2
<1>2. TypeOK /\ Progress /\ Conversation /\ PaidFor /\ [Next]_vars => PaidFor'
  <2> SUFFICES ASSUME TypeOK, Progress, Conversation, PaidFor, [Next]_vars PROVE PaidFor'
    OBVIOUS
  <2>1. CASE UNCHANGED vars
    BY <2>1 DEF PaidFor, Pending, Made, vars, rcon, run
  <2> QED
    BY <2>1, RunPays, WorldPays DEF Next
<1>3. TypeOK /\ Progress /\ PaidFor => BoundedRepeats
  <2> SUFFICES ASSUME TypeOK, Progress, PaidFor, NEW c \in Numbers
               PROVE  times[c] + late[c] =< CommandTries
    BY DEF BoundedRepeats
  <2>1. times[c] \in Nat /\ late[c] \in Nat /\ Pending(c) \in {0, 1}
    BY TextsAssumption DEF TypeOK, RconTypeOK, Pending
  <2>2. Made(c) \in Nat /\ Made(c) =< CommandTries
    BY Counts DEF Made, Progress, TypeOK
  <2>3. times[c] + late[c] + Pending(c) =< Made(c)
    BY DEF PaidFor
  <2> QED
    BY <2>1, <2>2, <2>3, Counts
<1> QED
  BY <1>1, <1>2, <1>3, ProgressCorrect, ConversationCorrect, PTL DEF Spec

-----------------------------------------------------------------------------
(* No command is dropped in silence: whatever the run has left behind was  *)
(* carried out or is in the log.                                           *)

Told == \A c \in Numbers : c < current => times[c] > 0 \/ c \in skipped

\* An answer that is accepted comes from a command that was carried out.
LEMMA RepliedIsDone ==
    ASSUME TypeOK, Conversation, Replied, pc = "apply"
    PROVE  times[current] > 0
<1>1. inbox \in Seq(Packets) /\ inbox # <<>>
  BY DEF TypeOK, RconTypeOK, Packets, Replied
<1>2. Len(inbox) > 0 /\ Head(inbox) = inbox[1]
  BY <1>1
<1> QED
  BY <1>2 DEF Conversation, Trusted, Replied

LEMMA RunTells ==
    ASSUME TypeOK, Progress, Conversation, Told, Run
    PROVE  Told'
<1>t. current \in Nat /\ \A c \in Numbers : c \in Nat
  BY Counts DEF TypeOK, Numbers
<1>1. CASE AttemptOk /\ pc = "apply"
  <2>1. times' = times /\ skipped' = skipped /\ current' = current + 1 /\ times[current] > 0
    BY <1>1, RepliedIsDone DEF AttemptOk, NextCommand
  <2> QED
    BY <1>t, <2>1 DEF Told
<1>2. CASE AttemptFails /\ pc = "apply"
  <2>1. /\ times' = times
        /\ \/ current' = current /\ skipped' = skipped
           \/ current' = current + 1 /\ skipped' = skipped \union {current}
    BY <1>2 DEF AttemptFails, Retry, NextCommand
  <2> QED
    BY <1>t, <2>1 DEF Told
<1>3. CASE ~((AttemptOk \/ AttemptFails) /\ pc = "apply")
  <2>1. UNCHANGED <<current, skipped, times>>
    BY <1>3 DEF Run, BootLogFound, BootLogTimesOut, Connect, Authenticate, SendText, AttemptOk,
       AttemptFails, Attempting, ProbeAgain, run
  <2> QED
    BY <2>1 DEF Told
<1> QED
  BY <1>1, <1>2, <1>3

LEMMA WorldTells ==
    ASSUME TypeOK, Told,
           \/ ServerGreets \/ (\E t \in Texts : ServerCarriesOut(t))
           \/ ServerMoves \/ NewLog \/ Tick
    PROVE  Told'
<1>1. UNCHANGED <<current, skipped>>
  BY DEF ServerGreets, ServerCarriesOut, ServerMoves, NewLog, Tick, run
<1>2. \A c \in Numbers : times[c] > 0 => times'[c] > 0
  BY DEF TypeOK, ServerGreets, ServerCarriesOut, Counted, ServerMoves, NewLog, Tick
<1> QED
  BY <1>1, <1>2 DEF Told

\* A run that reports success has had every command carried out or has said
\* that it could not.
THEOREM NothingIsDropped == Spec => []AppliedOrTold
<1>1. Init => Told
  BY DEF Init, Told, Numbers
<1>2. TypeOK /\ Progress /\ Conversation /\ Told /\ [Next]_vars => Told'
  <2> SUFFICES ASSUME TypeOK, Progress, Conversation, Told, [Next]_vars PROVE Told'
    OBVIOUS
  <2>1. CASE UNCHANGED vars
    BY <2>1 DEF Told, vars, run
  <2> QED
    BY <2>1, RunTells, WorldTells DEF Next
<1>3. Progress /\ Told => AppliedOrTold
  BY Counts DEF Progress, Told, AppliedOrTold, Numbers
<1> QED
  BY <1>1, <1>2, <1>3, ProgressCorrect, ConversationCorrect, PTL DEF Spec

=============================================================================
