------------------------------ MODULE Mcproto ------------------------------
(***************************************************************************)
(* The part of the Minecraft protocol that gameops speaks:                 *)
(* src/internal/mcproto.  A stream is a sequence of bytes.                 *)
(*                                                                         *)
(* The widths are parameters, so that all values of a small integer can be *)
(* tried: int32 with groups of 7 bits is Width = 32 and Group = 7.  As     *)
(* there, the last group of a value is only partly used when Group does    *)
(* not divide Width.                                                       *)
(***************************************************************************)
EXTENDS Integers, Sequences, FiniteSetsExt

CONSTANTS
    Width,  \* bits of an integer
    Group   \* bits of it in one byte; one more says that another byte follows

ASSUME WidthAssumption == {Width, Group} \subseteq Nat \ {0} /\ Group <= Width

\* 1 << n.
Shift[n \in Nat] == IF n = 0 THEN 1 ELSE 2 * Shift[n - 1]

Base == Shift[Group]
Bytes == 0 .. 2 * Base - 1
Ints == -Shift[Width - 1] .. Shift[Width - 1] - 1

Unsigned(v) == v % Shift[Width]
Signed(u) == IF u >= Shift[Width - 1] THEN u - Shift[Width] ELSE u

\* What the first n groups of an integer can hold: the shift of the next one.
Groups(n) == Shift[Group * n]

\* Outcomes of reading: a value and what is left of the stream, a stream
\* that ends too early, or one that is refused.
Read(value, rest) == [kind |-> "ok", value |-> value, rest |-> rest]
Short == [kind |-> "short", value |-> 0, rest |-> <<>>]
Bad == [kind |-> "bad", value |-> 0, rest |-> <<>>]

From(s, n) == SubSeq(s, n, Len(s))

-----------------------------------------------------------------------------
(* varint.go                                                               *)

\* Mutated form of BytesWritten: one value too many for each length.
BytesWrittenOff(u) == Min({n \in 1 .. Width : u <= Groups(n)})

\* The loop of WriteVarInt ends when nothing but zeros is left.
BytesWritten(u) == Min({n \in 1 .. Width : u < Groups(n)})

WriteVarInt(v) ==
    LET u == Unsigned(v)
        n == BytesWritten(u)
    IN  [k \in 1 .. n |->
            ((u \div Groups(k - 1)) % Base) + (IF k < n THEN Base ELSE 0)]

\* Mutated form of BytesRead: no byte for a group that is only partly used.
BytesReadExact == Width \div Group

\* ReadVarInt gives up when its position reaches the width.
BytesRead == Min({n \in 1 .. Width : Group * n >= Width})

\* The value after n turns of its loop.
Value(s, n) ==
    LET value[k \in 0 .. n] ==
            IF k = 0 THEN 0 ELSE value[k - 1] + (s[k] % Base) * Groups(k - 1)
    IN  value[n]

\* Bits of the last group that do not fit are shifted out.
ReadVarInt(s) ==
    LET last == {k \in 1 .. BytesRead : k <= Len(s) /\ s[k] < Base}
    IN  IF last = {} THEN (IF Len(s) < BytesRead THEN Short ELSE Bad)
        ELSE LET n == Min(last)
                 IN  Read(Signed(Unsigned(Value(s, n))), From(s, n + 1))

-----------------------------------------------------------------------------
(* packet.go                                                               *)

WritePacket(id, data) ==
    LET body == WriteVarInt(id) \o data
    IN  WriteVarInt(Len(body)) \o body

WriteString(b) == WriteVarInt(Len(b)) \o b

\* A prefix that says how many bytes follow, and these bytes.
ReadPrefixed(s) ==
    LET n == ReadVarInt(s)
    IN  IF n.kind # "ok" THEN n
        ELSE IF n.value < 0 THEN Bad
        ELSE IF Len(n.rest) < n.value THEN Short
        ELSE Read(SubSeq(n.rest, 1, n.value), From(n.rest, n.value + 1))

ReadString(s) == ReadPrefixed(s)

\* A packet's bytes are all there before its id is read from them.
ReadPacket(s) ==
    LET body == ReadPrefixed(s)
        id == ReadVarInt(body.value)
    IN  IF body.kind # "ok" THEN body
        ELSE IF id.kind # "ok" THEN Bad
        ELSE Read([id |-> id.value, data |-> id.rest], body.rest)

-----------------------------------------------------------------------------
(* status.go                                                               *)

\* Protocol version, address and port are skipped.
ParseHandshake(data) ==
    LET version == ReadVarInt(data)
        address == ReadPrefixed(version.rest)
    IN  IF version.kind # "ok" THEN version
        ELSE IF address.kind # "ok" THEN address
        ELSE IF Len(address.rest) < 2 THEN Short
        ELSE ReadVarInt(From(address.rest, 3))

=============================================================================
