-------------------------- MODULE WebSocketProtocol -------------------------
(***************************************************************************)
(* src/src/WebSocketProtocol.cpp: frames, byte by byte, and getFrameSize() *)
(* of WebSocketClient.cpp and WebSocketServer.cpp.  The sizes at which the *)
(* encoding of a length changes are constants.  The handshake is a head as *)
(* in HttpMessage.                                                         *)
(***************************************************************************)
EXTENDS HttpMessage, Bitwise

CONSTANTS
    ShortLimit,  \* 126: from here on a length has bytes of its own
    Base,        \* 256: how many values such a byte has
    LongBytes,   \* 8: how many bytes a length has that does not fit into two, and of
                 \* how many an integer is made
    MaskKey      \* the bytes of a mask, 4 in the code and drawn at random

Byte(v) == [k |-> "byte", v |-> v]
Bytes(values) == [i \in DOMAIN values |-> Byte(values[i])]

\* What a byte is to who takes the text of a handshake for a frame: a letter.
Value(unit) == IF unit.k = "byte" THEN unit.v ELSE 71

\* opcodeForType() and frameTypeFromOpcode()
OpcodeForType == [text |-> 1, binary |-> 2, close |-> 8, ping |-> 9, pong |-> 10]
FrameTypes(opcode) == {type \in DOMAIN OpcodeForType : OpcodeForType[type] = opcode}

BigEndian(n, count) == [i \in 1..count |-> Byte((n \div Base^(count - i)) % Base)]
Number(units) == FoldLeft(LAMBDA n, unit : n * Base + Value(unit), 0, units)

\* Mutation of WritePayloadLength: the boundary is one too high.
WritePayloadLengthOff(n, maskBit) ==
    IF n <= ShortLimit THEN <<Byte(maskBit + n)>>
    ELSE IF n < Base^2 THEN <<Byte(maskBit + ShortLimit)>> \o BigEndian(n, 2)
    ELSE <<Byte(maskBit + ShortLimit + 1)>> \o BigEndian(n, LongBytes)

\* writePayloadLength(), and with it frameHeaderSize()
WritePayloadLength(n, maskBit) ==
    IF n < ShortLimit THEN <<Byte(maskBit + n)>>
    ELSE IF n < Base^2 THEN <<Byte(maskBit + ShortLimit)>> \o BigEndian(n, 2)
    ELSE <<Byte(maskBit + ShortLimit + 1)>> \o BigEndian(n, LongBytes)

Masked(values, mask) == [i \in DOMAIN values |-> values[i] ^^ mask[((i - 1) % Len(mask)) + 1]]

EncodeFrame(type, payload, masked) ==
    <<Byte(128 + OpcodeForType[type])>>
        \o WritePayloadLength(Len(payload), IF masked THEN 128 ELSE 0)
        \o (IF masked THEN Bytes(MaskKey \o Masked(payload, MaskKey)) ELSE Bytes(payload))

-----------------------------------------------------------------------------

\* The length in a header: how many bytes it has of its own, and its value.
LengthSize(data) ==
    LET short == Value(data[2]) % 128
    IN  IF short = ShortLimit THEN 2 ELSE IF short = ShortLimit + 1 THEN LongBytes ELSE 0
PayloadLength(data) ==
    IF LengthSize(data) = 0 THEN Value(data[2]) % 128
    ELSE Number(SubSeq(data, 3, 2 + LengthSize(data)))
HeaderSize(data) ==
    2 + LengthSize(data) + (IF Value(data[2]) >= 128 THEN Len(MaskKey) ELSE 0)

\* getFrameSize(): 0 as long as the frame is not all there.  The sum may overflow.
GetFrameSize(data) ==
    IF Len(data) < 2 \/ Len(data) < 2 + LengthSize(data) THEN 0
    ELSE LET size == (HeaderSize(data) + PayloadLength(data)) % Base^LongBytes
         IN  IF Len(data) < size THEN 0 ELSE size

IsValidClosePayload(payload) ==
    LET code == payload[1] * 256 + payload[2] IN
    \/ payload = <<>>
    \/ /\ Len(payload) >= 2 /\ code >= 1000
       /\ code \notin {1004, 1005, 1006, 1015} \cup 1016..2999

\* decodeFrame() of what getFrameSize() has measured.
DecodeFrame(data) ==
    LET first == Value(data[1])
        types == FrameTypes(first % 16)
        length == PayloadLength(data)
        body == [i \in 1..length |-> Value(data[HeaderSize(data) + i])]
        mask == [i \in DOMAIN MaskKey |-> Value(data[2 + LengthSize(data) + i])]
        payload == IF Value(data[2]) >= 128 THEN Masked(body, mask) ELSE body
        control == first % 16 \in {8, 9, 10}
    IN  IF \/ Len(data) < 2 \/ (first \div 16) % 8 # 0 \/ types = {}
           \/ Len(data) < HeaderSize(data)
           \/ length > Len(data) - HeaderSize(data)
           \/ LengthSize(data) = 2 /\ length < ShortLimit
           \/ LengthSize(data) = LongBytes /\ (length < Base^2 \/ 2 * length >= Base^LongBytes)
           \/ control /\ (first < 128 \/ length >= ShortLimit)
           \/ "close" \in types /\ ~IsValidClosePayload(payload)
        THEN [ok |-> FALSE]
        ELSE [ok |-> TRUE, final |-> first >= 128, masked |-> Value(data[2]) >= 128,
              type |-> CHOOSE type \in types : TRUE, payload |-> payload]

\* encodeCloseFrame() of both classes, and the code that handleFrame() reads.
EncodeCloseFrame(code, masked) == EncodeFrame("close", <<code \div 256, code % 256>>, masked)
CloseCode(payload) == IF Len(payload) < 2 THEN 1000 ELSE payload[1] * 256 + payload[2]

-----------------------------------------------------------------------------
(* The handshake.                                                          *)

\* createAcceptKey(): no two keys have the same.
CreateAcceptKey(key) == [digest |-> key]

\* sendHandshakeRequest().  upgrade tells whether the headers ask for version 13.
HandshakeRequest(key, protocols) ==
    <<[k |-> "head", line |-> "valid", headers |-> <<>>, upgrade |-> TRUE, key |-> key,
       protocols |-> protocols], End>>

\* buildHandshakeResponse() and buildHandshakeRejection()
HandshakeResponse(key, protocol) ==
    <<[k |-> "head", line |-> "valid", headers |-> <<>>, status |-> 101, upgrade |-> TRUE,
       accept |-> CreateAcceptKey(key), protocol |-> protocol], End>>
HandshakeRejection ==
    <<[k |-> "head", line |-> "valid", headers |-> <<>>, status |-> 403], End>>

=============================================================================
