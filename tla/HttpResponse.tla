----------------------------- MODULE HttpResponse -----------------------------
(***************************************************************************)
(* Where an HTTP response ends (read_http_response_bytes in                *)
(* engine/auth.rs), on a keep-alive connection whose bytes arrive in       *)
(* pieces.  A response is a sequence of cells, the pieces reading may stop *)
(* between: two of headers, the second up to the blank line, then the body *)
(* as its framing lays it out.  A cell is a record, so that cells compare; *)
(* the first one carries what the headers say.                             *)
(***************************************************************************)
EXTENDS Naturals, Sequences

\* Content of a body; "blank" ends with an empty line as headers and chunked bodies do.
Data == {"data", "blank"}

Cell(t) == [t |-> t]
Cells(s) == [i \in 1 .. Len(s) |-> Cell(s[i])]

(***************************************************************************)
(* What the gateway sends.  framing: "length", "chunked", "close" (the     *)
(* connection is closed after the body), "none" (no body).                 *)
(***************************************************************************)
Response(status, framing, body, cookie) ==
  [status |-> status, framing |-> framing, body |-> body, cookie |-> cookie]

\* A chunk per cell of the body, the last chunk, the end of the trailers.
Chunked(body) ==
  [i \in 1 .. 3 * Len(body) + 2 |->
     IF i = 3 * Len(body) + 1 THEN "last"
     ELSE CASE i % 3 = 1 -> "size" [] i % 3 = 2 -> IF i > 3 * Len(body) THEN "nl" ELSE body[(i + 1) \div 3]
            [] OTHER -> "nl"]

Message(r) ==
  <<[t |-> "head", says |-> r], Cell("headers_end")>>
  \o Cells(IF r.framing = "chunked" THEN Chunked(r.body) ELSE r.body)

(***************************************************************************)
(* What the client makes of the bytes it has, buf.                         *)
(***************************************************************************)
Kinds(buf) == [i \in 1 .. Len(buf) |-> buf[i].t]

\* find_subsequence of the blank line.
HeadersEnd(buf) ==
  LET ends == {i \in 1 .. Len(buf) : buf[i].t \in {"headers_end", "blank"}}
  IN IF ends = {} THEN 0 ELSE CHOOSE i \in ends : \A j \in ends : i <= j

HasHeaders(buf) == HeadersEnd(buf) > 0

\* status_code, content_length, connection_delimited, extract_cookie: the status
\* line is the first thing, or there is none.
Says(buf) ==
  IF buf[1].t = "head" THEN buf[1].says ELSE Response(0, "none", <<>>, "none")

BodyOf(buf) == SubSeq(buf, HeadersEnd(buf) + 1, Len(buf))

\* decode_chunked finds the last chunk as its k-th cell, if every one before it is
\* well formed; what follows is not looked at.
LastChunks(body) ==
  {k \in 1 .. Len(body) :
     /\ k % 3 = 1 /\ body[k].t = "last"
     /\ \A j \in 1 .. k - 1 :
          CASE j % 3 = 1 -> body[j].t = "size"
            [] j % 3 = 2 -> body[j].t \in Data
            [] OTHER     -> body[j].t = "nl"}

Decodes(body) == LastChunks(body) # {}

Decoded(body) ==
  LET k == CHOOSE i \in LastChunks(body) : TRUE
  IN [i \in 1 .. (k - 1) \div 3 |-> body[3 * i - 1].t]

\* ends_with of the blank line: the last chunk or a body that ends in one, and a
\* line end.
EndsBlank(buf) ==
  LET n == Len(buf) IN
  \/ n > 0 /\ buf[n].t \in {"blank", "headers_end"}
  \/ n > 1 /\ buf[n].t = "nl" /\ buf[n - 1].t \in {"last", "blank"}

\* The terminal chunk and the end of the trailers.
ChunksEnded(buf) == EndsBlank(buf) /\ Decodes(BodyOf(buf))

\* The loops of step 2: whether no more is read, eof telling whether the gateway
\* has closed the connection.
BodyComplete(buf, eof) ==
  LET r == Says(buf) IN
  CASE r.framing = "length"  -> Len(BodyOf(buf)) >= Len(r.body)
    [] r.framing = "chunked" -> ChunksEnded(buf)
    [] r.framing = "close"   -> eof
    [] OTHER                 -> TRUE

\* fetch_config: the body without its framing.
Content(buf) ==
  IF Says(buf).framing = "chunked" THEN Decoded(BodyOf(buf)) ELSE Kinds(BodyOf(buf))
=============================================================================
