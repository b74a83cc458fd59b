---------------------------- MODULE HttpMessage -----------------------------
(***************************************************************************)
(* src/src/HttpParser.cpp and the framing of messages in HttpClient.cpp    *)
(* and HttpServer.cpp.  A message is a sequence of units that the byte     *)
(* stream does not cut: a start line with its header lines, the empty line *)
(* after it, the lines of the chunked encoding, and pieces of a body.  A   *)
(* piece of a body may be a CRLF, so that only lengths find its end.       *)
(***************************************************************************)
EXTENDS Integers, FiniteSets, SequencesExt

CONSTANTS kMaxHeaderCount, kChunkedEncodeBlockSize

Crlf == [k |-> "crlf"]
End == [k |-> "end"]               \* the CRLF CRLF after a head
SizeLine(n) == [k |-> "size", n |-> n]
Trailer == [k |-> "trailer"]
Data(id) == [k |-> "data", id |-> id]

\* The position of the first unit of a kind after offset units, or 0.
Find(data, kind, offset) ==
    LET found == {i \in (offset + 1)..Len(data) : data[i].k = kind}
    IN  IF found = {} THEN 0 ELSE Min(found)

Drop(data, n) == SubSeq(data, n + 1, Len(data))

-----------------------------------------------------------------------------
(* Heads.  The value of Content-Length is a number, -1 if it is not one;   *)
(* of Transfer-Encoding and Connection, the set of its tokens.             *)

Named(headers, name) == {i \in DOMAIN headers : headers[i].name = name}
Has(head, name) == Named(head.headers, name) # {}
GetHeader(head, name) == head.headers[Max(Named(head.headers, name))].value
ContainsToken(head, name, token) == Has(head, name) /\ token \in GetHeader(head, name)

ParseHeaderLines(headers) ==
    /\ Len(headers) <= kMaxHeaderCount
    /\ Cardinality(Named(headers, "Content-Length"))
           + Cardinality(Named(headers, "Transfer-Encoding")) <= 1
    /\ \A i \in Named(headers, "Content-Length") : headers[i].value >= 0

\* parseRequestHead() and parseResponseHead() of what ends with the first empty line.
ParseHead(data) ==
    LET headerEnd == Find(data, "end", 0)
    IN  headerEnd = 2 /\ data[1].k = "head" /\ data[1].line = "valid"
            /\ ParseHeaderLines(data[1].headers)

\* appendHeaders()
AppendHeaders(head, length) ==
    IF Has(head, "Content-Length") \/ Has(head, "Transfer-Encoding") THEN head
    ELSE [head EXCEPT !.headers = Append(@, [name |-> "Content-Length", value |-> length])]

\* buildRequest() and buildResponse()
BuildMessage(head, body) == <<AppendHeaders(head, Len(body)), End>> \o body

-----------------------------------------------------------------------------
(* The chunked encoding.                                                   *)

Incomplete == -1
Malformed == 0

\* Mutation of LastChunk: the empty line after the last chunk is left behind.
LastChunkShort(data, offset, trailers) ==
    IF Find(data, "crlf", offset) = 0 THEN Incomplete ELSE offset

\* What follows the line of the last chunk.  HttpServer.cpp takes no trailers.
LastChunk(data, offset, trailers) ==
    LET After[o \in 0..Len(data)] ==
            LET lineEnd == Find(data, "crlf", o) IN
            IF lineEnd = 0 THEN Incomplete
            ELSE IF lineEnd = o + 1 THEN lineEnd
            ELSE IF data[o + 1] = Trailer THEN After[lineEnd]
            ELSE Malformed
    IN  IF trailers THEN After[offset]
        ELSE IF Len(data) = offset THEN Incomplete
        ELSE IF data[offset + 1] = Crlf THEN offset + 1 ELSE Malformed

\* getChunkedMessageSize(), of which HttpClient.cpp and HttpServer.cpp have one each.
GetChunkedMessageSize(data, trailers) ==
    LET Chunk[o \in 0..Len(data)] ==
            LET lineEnd == Find(data, "crlf", o)
                size == data[o + 1].n
            IN  IF lineEnd = 0 THEN Incomplete
                ELSE IF lineEnd # o + 2 \/ data[o + 1].k # "size" THEN Malformed
                ELSE IF size = 0 THEN LastChunk(data, lineEnd, trailers)
                ELSE IF Len(data) <= lineEnd + size THEN Incomplete
                ELSE IF data[lineEnd + size + 1] # Crlf THEN Malformed
                ELSE Chunk[lineEnd + size + 1]
    IN  Chunk[0]

\* parseChunked() of what getChunkedMessageSize() has measured.
ParseChunked(data) ==
    LET Rest[o \in 0..Len(data)] ==
            LET size == data[o + 1].n IN
            IF size = 0 THEN <<>>
            ELSE SubSeq(data, o + 3, o + 2 + size) \o Rest[o + size + 3]
    IN  Rest[0]

\* buildChunked()
BuildChunked(body) ==
    LET Rest[o \in 0..Len(body)] ==
            LET size == Min({kChunkedEncodeBlockSize, Len(body) - o}) IN
            IF size = 0 THEN <<SizeLine(0), Crlf, Crlf>>
            ELSE <<SizeLine(size), Crlf>> \o SubSeq(body, o + 1, o + size) \o <<Crlf>> \o Rest[o + size]
    IN  Rest[0]

=============================================================================
