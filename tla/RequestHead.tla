---------------------------- MODULE RequestHead ----------------------------
(***************************************************************************)
(* The request head of a connection (server/src/ws/http.rs): read as the   *)
(* bytes come, and replayed to the WebSocket handshake or cut off from the *)
(* body of an upload (server/src/ws/connection.rs).                        *)
(*                                                                         *)
(* A request is the sequence of its bytes, "r" and "n" for the two that    *)
(* end a line; what the server has of it is the sequence of their places.  *)
(* The network hands over any number of the bytes that were sent.          *)
(***************************************************************************)
EXTENDS Integers, Sequences, FiniteSets

CONSTANTS
    HttpRequests,   \* [bytes, kind, length]: length is its Content-Length
    ChunkSize,      \* bytes taken in one read
    MaxHeadLen      \* MAX_HEAD_LEN

ASSUME HeadAssumption ==
    /\ ChunkSize \in Nat \ {0} /\ MaxHeadLen \in Nat
    /\ \A r \in HttpRequests :
          /\ r.bytes \in Seq(STRING) /\ r.length \in Nat
          /\ r.kind \in {"upgrade", "upload", "malformed"}

VARIABLES
    request,    \* what the client sends
    arrived,    \* how many of its bytes were taken off the socket
    raw,        \* read_head: what has been read
    serving,    \* "head", "websocket", "upload", "stored" or "refused"
    position,   \* Prefixed.position
    passed      \* the bytes the handshake has read, or the body so far

headVars == <<request, arrived, raw, serving, position, passed>>

-----------------------------------------------------------------------------
EndsHead(bytes, i) ==
    /\ i + 3 <= Len(bytes)
    /\ request.bytes[bytes[i]] = "r" /\ request.bytes[bytes[i + 1]] = "n"
    /\ request.bytes[bytes[i + 2]] = "r" /\ request.bytes[bytes[i + 3]] = "n"

\* Mutant: only the bytes of the last read are searched.
HeadEndIn(bytes, last) ==
    {i \in Len(bytes) - last + 1 .. Len(bytes) : EndsHead(bytes, i)}

\* find_head_end: where the blank line begins.
HeadEnd(bytes, last) ==
    {i \in 1 .. Len(bytes) : EndsHead(bytes, i) /\ \A j \in 1 .. i - 1 : ~ EndsHead(bytes, j)}

\* Mutant: the blank line is left in the body.
CutShort(bytes, i) == SubSeq(bytes, i + 2, Len(bytes))

\* parse_head: what follows the blank line belongs to the body.
BodyPrefix(bytes, i) == SubSeq(bytes, i + 4, Len(bytes))

\* The next bytes off the socket, and what is left to come.
TakenBytes(n) == [i \in 1 .. n |-> arrived + i]
Coming == Len(request.bytes) - arrived
TakeBytes(n) ==
    /\ n \in 1 .. ChunkSize /\ n <= Coming
    /\ arrived' = arrived + n

\* read_head and what serve makes of it.  The limit is looked at only while
\* the head has no end.
ReadHead(n) ==
    /\ serving = "head" /\ TakeBytes(n)
    /\ LET read == raw \o TakenBytes(n)
           ends == HeadEnd(read, n)
       IN  /\ raw' = read
           /\ serving' = CASE ends = {} -> IF Len(read) > MaxHeadLen THEN "refused" ELSE "head"
                           [] ends # {} /\ request.kind = "malformed" -> "refused"
                           [] ends # {} /\ request.kind = "upgrade" -> "websocket"
                           [] ends # {} /\ request.kind = "upload" -> "upload"
           /\ passed' = IF serving' = "upload"
                        THEN BodyPrefix(read, CHOOSE i \in ends : TRUE) ELSE <<>>
    /\ UNCHANGED <<request, position>>

\* The client closes before that.
HeadCutOff ==
    /\ serving = "head" /\ Coming = 0
    /\ serving' = "refused"
    /\ UNCHANGED <<request, arrived, raw, position, passed>>

\* Mutant: a read that ends within the prefix drops the rest of it.
AdvanceToEnd(n) == Len(raw)

\* Prefixed::poll_read from what was read already, into a buffer of n bytes.
Advance(n) == position + n
Replay(n) ==
    /\ serving = "websocket" /\ position < Len(raw)
    /\ n \in 1 .. ChunkSize /\ n <= Len(raw) - position
    /\ passed' = passed \o SubSeq(raw, position + 1, position + n)
    /\ position' = Advance(n)
    /\ UNCHANGED <<request, arrived, raw, serving>>

\* Then from the socket.
ReadOn(n) ==
    /\ serving = "websocket" /\ position >= Len(raw) /\ TakeBytes(n)
    /\ passed' = passed \o TakenBytes(n)
    /\ UNCHANGED <<request, raw, serving, position>>

\* handle_ota_upload reads until it has what was promised.
ReadBody(n) ==
    /\ serving = "upload" /\ Len(passed) < request.length /\ TakeBytes(n)
    /\ passed' = passed \o TakenBytes(n)
    /\ UNCHANGED <<request, raw, serving, position>>

\* It has, or the client closes.
StoreBody ==
    /\ serving = "upload" /\ (Len(passed) >= request.length \/ Coming = 0)
    /\ serving' = "stored"
    /\ UNCHANGED <<request, arrived, raw, position, passed>>

HeadInit ==
    /\ request \in HttpRequests
    /\ arrived = 0 /\ raw = <<>> /\ serving = "head" /\ position = 0 /\ passed = <<>>

HeadNext ==
    \/ \E n \in 1 .. ChunkSize : ReadHead(n) \/ Replay(n) \/ ReadOn(n) \/ ReadBody(n)
    \/ HeadCutOff \/ StoreBody

HeadSpec == HeadInit /\ [][HeadNext]_headVars

-----------------------------------------------------------------------------
(* Properties.                                                             *)

\* The handshake reads the client's bytes from the first one on, each once
\* and in order, wherever the reads have cut them (http.rs:131).
HandshakeReadsAll ==
    serving = "websocket" => \A i \in 1 .. Len(passed) : passed[i] = i

\* The whole request, and how long its head is, the blank line included.
Places == [j \in 1 .. Len(request.bytes) |-> j]
HasHead == \E i \in 1 .. Len(request.bytes) : EndsHead(Places, i)
HeadLen ==
    3 + CHOOSE i \in 1 .. Len(request.bytes) :
            EndsHead(Places, i) /\ \A k \in 1 .. i - 1 : ~ EndsHead(Places, k)

\* A body that the client sends whole is stored whole, and begins after the
\* head, whichever read the head has ended in.
BodyIsCutOff ==
    /\ serving \in {"upload", "stored"} =>
          \A i \in 1 .. Len(passed) : passed[i] = HeadLen + i
    /\ serving = "stored" /\ Len(request.bytes) = HeadLen + request.length =>
          Len(passed) = request.length

\* No more is kept of a head than the limit and one read, and a head within
\* the limit is never turned away for its length (http.rs:14).
HeadIsBounded ==
    /\ Len(raw) <= MaxHeadLen + ChunkSize
    /\ serving = "refused" /\ request.kind # "malformed" /\ Coming > 0 /\ HasHead =>
          HeadLen > MaxHeadLen

\* The head ends where it does, wherever the reads have cut it: what follows is
\* neither lost nor taken twice (http.rs:81).
HeadEndsWhereItEnds == HandshakeReadsAll /\ BodyIsCutOff /\ HeadIsBounded
=============================================================================
