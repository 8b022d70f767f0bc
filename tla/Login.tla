-------------------------------- MODULE Login --------------------------------
(***************************************************************************)
(* The login of one connection (connect_inner_impl between the TLS         *)
(* handshake and the relay): with SAML, the wait for the browser's         *)
(* callback (engine/http_server.rs); then the exchanges with the gateway   *)
(* over one keep-alive TLS connection (engine/auth.rs); then the first     *)
(* bytes of the tunnel as run_relay takes them apart (engine/hdlc.rs).     *)
(*                                                                         *)
(* Bytes arrive in pieces of any size.  The thread's steps in the SAML     *)
(* wait take no time (it polls every 100 or 200 ms): the clock ticks only  *)
(* when it has nothing to do.                                              *)
(***************************************************************************)
EXTENDS HttpResponse, TunnelFraming

CONSTANTS
  SamlTimeout, ClientTimeout,   \* ticks: SAML_TIMEOUT, the time for a request line
  MaxClients,     \* bound: local connections to the SAML port
  MaxResponse,    \* MAX_HTTP_RESPONSE, in cells
  Framings,       \* framings the gateway uses
  Bodies,         \* bodies it sends
  Payloads,       \* PPP frames it sends in the tunnel
  Garbage,        \* bytes it may send before one
  HttpText        \* what an HTTP reply in the tunnel starts with

ASSUME LoginAssumption ==
  /\ {SamlTimeout, ClientTimeout, MaxClients} \subseteq Nat \ {0} /\ MaxResponse \in Nat
  /\ Framings \subseteq {"length", "chunked", "close", "none"}
  /\ Bodies \subseteq Seq(Data)
  /\ HttpText \in [1 .. 6 -> Bytes]
  \* A frame has a payload, and its lengths fit the header; noise has no magic byte.
  /\ \A p \in Payloads : p \in Seq(Bytes) /\ Len(p) >= 1 /\ Len(p) + HeaderLen < Base * Base
  /\ \A g \in Garbage : g \in Seq(Bytes \ {Magic})
  /\ Magic + HeaderLen < Base

VARIABLES
  pc,         \* "bind", "listen", "client", "send", "read", "took", "relay", "ended"
  step,       \* the request: "login", "index", "alloc", "redirect", "config"
  stop,       \* the stop flag
  \* the SAML wait
  clients,    \* local connections not accepted yet
  client,     \* the one being read from
  came,       \* local connections so far
  elapsed, in_client, since_stop,   \* ticks
  \* the TLS connection
  asked,      \* the request the gateway has not answered yet, or "none"
  wire,       \* cells, and later bytes, on their way to us
  ended_by,   \* the gateway's end of it: "open", "clean" (TLS's close_notify), "broken"
  curtailed,  \* history: a clean end came within a body that only such an end ends
  buf,        \* bytes of the response read so far; acc in run_relay
  answer,     \* history: its response to the last request
  session, slot,    \* the gateway's view: logged in, tunnel slot allocated
  elsewhere,  \* history: it redirected the allocation to a page that allocates nothing
  cookie,     \* ours: a session cookie was extracted
  sent, frames,     \* how many frames were sent in the tunnel; the payloads popped
  due               \* history: the payloads to be popped

samlVars == <<clients, client, came, elapsed, in_client, since_stop>>
endVars == <<ended_by, curtailed>>
grantVars == <<session, slot, elsewhere>>
tlsVars == <<asked, wire, endVars, answer, grantVars>>
tunnelVars == <<sent, frames, due>>
loginVars == <<pc, step, stop, samlVars, tlsVars, buf, cookie, tunnelVars>>

NoAnswer == Response(0, "none", <<>>, "none")

LoginInit ==
  /\ pc \in {"bind", "send"} /\ step = "login" /\ stop = FALSE
  /\ clients = <<>> /\ client = "none" /\ came = 0
  /\ elapsed = 0 /\ in_client = 0 /\ since_stop = 0
  /\ asked = "none" /\ wire = <<>> /\ ended_by = "open" /\ answer = NoAnswer
  /\ session = FALSE /\ slot = FALSE /\ elsewhere = FALSE /\ curtailed = FALSE
  /\ buf = <<>> /\ cookie = FALSE /\ sent = 0 /\ frames = <<>> /\ due = <<>>

\* The thread leaves: its connection and what it read are dropped.
Fails ==
  /\ pc' = "ended"
  /\ clients' = <<>> /\ client' = "none"
  /\ asked' = "none" /\ wire' = <<>> /\ answer' = NoAnswer /\ buf' = <<>>
  /\ sent' = 0 /\ frames' = <<>> /\ due' = <<>>
  /\ UNCHANGED <<step, stop, came, elapsed, in_client, since_stop, endVars, grantVars, cookie>>

-----------------------------------------------------------------------------
(* wait_for_saml_callback.  "callback" is the browser's request with an id,  *)
(* "junk" any other request or a connection that is closed, "stalled" one    *)
(* that sends no line.                                                       *)

Expired == elapsed > SamlTimeout

Listens ==
  /\ pc = "bind"
  /\ pc' = "listen"
  /\ UNCHANGED <<step, stop, samlVars, tlsVars, buf, cookie, tunnelVars>>

\* The port is taken.
CannotListen ==
  /\ pc = "bind"
  /\ Fails

SamlGivesUp ==
  /\ pc = "listen" /\ (stop \/ Expired)
  /\ Fails

Accepts ==
  /\ pc = "listen" /\ ~stop /\ ~Expired /\ clients # <<>>
  /\ pc' = "client" /\ client' = Head(clients) /\ clients' = Tail(clients)
  /\ in_client' = 0
  /\ UNCHANGED <<step, stop, came, elapsed, since_stop, tlsVars, buf, cookie, tunnelVars>>

\* Mutant: a client is waited for whether the login is cancelled or not.
ClientOverdue == in_client > ClientTimeout
ClientDropped == stop \/ in_client > ClientTimeout

Leaves(next) == pc' = next /\ client' = "none"

\* read_request_line returns None.
DropsClient ==
  /\ pc = "client" /\ ClientDropped
  /\ Leaves("listen")
  /\ UNCHANGED <<step, stop, clients, came, elapsed, in_client, since_stop,
                 tlsVars, buf, cookie, tunnelVars>>

\* Mutant: a request without an id ends the wait.
JunkEndsWait == "ended"
AfterJunk == "listen"

AnswersJunk ==
  /\ pc = "client" /\ ~ClientDropped /\ client = "junk"
  /\ Leaves(AfterJunk)
  /\ UNCHANGED <<step, stop, clients, came, elapsed, in_client, since_stop,
                 tlsVars, buf, cookie, tunnelVars>>

\* A client that took its time sends its line.
SlowLineArrives ==
  /\ pc = "client" /\ client = "stalled"
  /\ client' \in {"callback", "junk"}
  /\ UNCHANGED <<pc, step, stop, clients, came, elapsed, in_client, since_stop,
                 tlsVars, buf, cookie, tunnelVars>>

\* The listener is closed with the return: whoever still waits is refused.
GetsId ==
  /\ pc = "client" /\ ~ClientDropped /\ client = "callback"
  /\ Leaves("send")
  /\ clients' = <<>> /\ came' = 0
  /\ elapsed' = 0 /\ in_client' = 0 /\ since_stop' = 0
  /\ UNCHANGED <<step, stop, tlsVars, buf, cookie, tunnelVars>>

ClientConnects(kind) ==
  /\ pc \in {"listen", "client"} /\ came < MaxClients
  /\ clients' = Append(clients, kind) /\ came' = came + 1
  /\ UNCHANGED <<pc, step, stop, client, elapsed, in_client, since_stop,
                 tlsVars, buf, cookie, tunnelVars>>

\* Time passes where the thread waits.
Tick ==
  /\ \/ pc = "listen" /\ ~stop /\ ~Expired /\ clients = <<>>
     \/ pc = "client" /\ ~ClientDropped /\ client = "stalled"
  /\ elapsed' = elapsed + 1
  /\ in_client' = IF pc = "client" THEN in_client + 1 ELSE in_client
  /\ since_stop' = IF stop THEN since_stop + 1 ELSE 0
  /\ UNCHANGED <<pc, step, stop, clients, client, came, tlsVars, buf, cookie, tunnelVars>>

UserStops ==
  /\ pc \notin {"relay", "ended"} /\ ~stop
  /\ stop' = TRUE
  /\ UNCHANGED <<pc, step, samlVars, tlsVars, buf, cookie, tunnelVars>>

-----------------------------------------------------------------------------
(* An exchange: write the request, read the whole response, look at it. *)

\* Writing to a connection the gateway has ended may succeed or fail.
SendFails ==
  /\ pc = "send" /\ ended_by # "open"
  /\ Fails

Sends ==
  /\ pc = "send"
  /\ pc' = "read" /\ buf' = <<>> /\ asked' = step
  /\ UNCHANGED <<step, stop, samlVars, wire, endVars, answer, grantVars, cookie, tunnelVars>>

\* Mutant: the end of the connection is the end of any body.
AnyEofCompletes == HasHeaders(buf) /\ (BodyComplete(buf, TRUE) \/ (wire = <<>> /\ ended_by = "clean"))
Complete == HasHeaders(buf) /\ BodyComplete(buf, wire = <<>> /\ ended_by = "clean")

Bounded(bytes) == Len(bytes) <= MaxResponse

ReadsMore ==
  /\ pc = "read" /\ ~Complete
  /\ \E n \in 1 .. Len(wire) :
       /\ buf' = buf \o SubSeq(wire, 1, n)
       /\ wire' = SubSeq(wire, n + 1, Len(wire))
  /\ Bounded(buf')
  /\ UNCHANGED <<pc, step, stop, samlVars, asked, endVars, answer, grantVars, cookie, tunnelVars>>

Oversized ==
  /\ pc = "read" /\ ~Complete /\ ~Bounded(buf \o wire)
  /\ Fails

\* Mutant: the socket has no read timeout.
NoReadTimeout == FALSE
\* connect_impl sets one: a read fails after it, as at the end of the connection.
ReadTimesOut == TRUE

\* What was read of the response is never taken as complete.
ReadFails ==
  /\ pc = "read" /\ ~Complete /\ wire = <<>> /\ (ended_by # "open" \/ ReadTimesOut)
  /\ Fails

TakesResponse ==
  /\ pc = "read" /\ Complete
  /\ pc' = "took"
  /\ UNCHANGED <<step, stop, samlVars, tlsVars, buf, cookie, tunnelVars>>

Status == Says(buf).status

\* extract_cookie: a cleared cookie is not a session.
GotCookie == Says(buf).cookie = "value"

\* Mutant: an allocation that is refused after a redirect is overlooked.
RedirectFollowed == TRUE
Allocated == Status = 200

\* What follows the response to step; "fail" is an error, "tunnel" the end of it.
NextStep ==
  CASE step = "login"    -> IF GotCookie THEN "index" ELSE "fail"
    [] step = "index"    -> "alloc"
    [] step = "alloc"    -> IF Status = 200 THEN "config"
                            ELSE IF Status = 302 THEN "redirect" ELSE "fail"
    [] step = "redirect" -> IF Allocated THEN "config" ELSE "fail"
    [] step = "config"   -> IF Status = 200 THEN "tunnel" ELSE "fail"

ExchangeRefused ==
  /\ pc = "took" /\ NextStep = "fail"
  /\ Fails

GoesOn ==
  /\ pc = "took" /\ NextStep \notin {"fail", "tunnel"}
  /\ pc' = "send" /\ step' = NextStep
  /\ cookie' = (cookie \/ step = "login")
  /\ buf' = <<>> /\ answer' = NoAnswer
  /\ UNCHANGED <<stop, samlVars, asked, wire, endVars, grantVars, tunnelVars>>

\* Disconnect requested during setup.
AbortsBeforeTunnel ==
  /\ pc = "took" /\ NextStep = "tunnel" /\ stop
  /\ Fails

\* start_tunnel cannot write or flush its request.
TunnelRequestFails ==
  /\ pc = "took" /\ NextStep = "tunnel" /\ ~stop /\ ended_by # "open"
  /\ Fails

\* start_tunnel reads no answer; run_relay starts with an empty buffer.
StartsTunnel ==
  /\ pc = "took" /\ NextStep = "tunnel" /\ ~stop
  /\ pc' = "relay" /\ asked' = "tunnel" /\ buf' = <<>> /\ answer' = NoAnswer
  /\ UNCHANGED <<step, stop, samlVars, wire, endVars, grantVars, cookie, tunnelVars>>

-----------------------------------------------------------------------------
(* The tunnel's first bytes: the recv branch of run_relay. *)

StartsWithHttp(bytes) == Len(bytes) >= 6 /\ SubSeq(bytes, 1, 6) = HttpText

SeesHttp ==
  /\ pc = "relay"
  /\ \E n \in 1 .. Len(wire) : StartsWithHttp(buf \o SubSeq(wire, 1, n))
  /\ Fails

RelayReads ==
  /\ pc = "relay"
  /\ \E n \in 1 .. Len(wire) :
       LET acc == buf \o SubSeq(wire, 1, n) IN
       /\ ~StartsWithHttp(acc)
       /\ wire' = SubSeq(wire, n + 1, Len(wire))
       /\ buf' = Left[acc]
       /\ frames' = frames \o Frames[acc]
  /\ UNCHANGED <<pc, step, stop, samlVars, asked, endVars, answer, grantVars, cookie,
                 sent, due>>

-----------------------------------------------------------------------------
(* The gateway. *)

Verdicts == [status : {200, 302, 403}, framing : Framings, body : Bodies,
             cookie : {"none", "cleared", "value"}]

\* A response without a body has the framing "none" or an empty body.
WellFormed(r) == r.framing = "none" => r.body = <<>>

\* Only the page that allocates a slot allocates one.  away: the redirect leads to
\* another, or has no usable location and the client asks for /remote/login.
Answers(r, away) ==
  /\ ended_by = "open" /\ asked \notin {"none", "tunnel"} /\ WellFormed(r)
  /\ r.cookie # "none" => asked = "login"
  /\ r.cookie = "value" => r.status = 200
  /\ r.status = 302 => asked = "alloc"
  /\ away => r.status = 302
  /\ session' = (session \/ r.cookie = "value")
  /\ elsewhere' = (elsewhere \/ away)
  /\ slot' = (slot \/ (r.status = 200 /\ (asked = "alloc" \/ (asked = "redirect" /\ ~elsewhere))))
  /\ wire' = wire \o Message(r) /\ answer' = r /\ asked' = "none"
  /\ ended_by' = IF r.framing = "close" THEN "clean" ELSE "open"
  /\ UNCHANGED <<pc, step, stop, samlVars, curtailed, buf, cookie, tunnelVars>>

\* A frame of the tunnel, noise before it; or an HTTP reply to the request.
SendsFrame(noise, p) ==
  /\ ended_by = "open" /\ asked = "tunnel" /\ sent < 2
  /\ noise # <<>> => sent = 0
  /\ wire' = wire \o noise \o FrameRaw(p)
  /\ sent' = sent + 1 /\ due' = due \o Worthy(p)
  /\ UNCHANGED <<pc, step, stop, samlVars, asked, endVars, answer, grantVars, buf, cookie, frames>>

RefusesTunnel ==
  /\ ended_by = "open" /\ asked = "tunnel" /\ sent = 0
  /\ wire' = wire \o HttpText /\ asked' = "none"
  /\ UNCHANGED <<pc, step, stop, samlVars, endVars, answer, grantVars, buf, cookie, tunnelVars>>

Loses(n) == wire' = SubSeq(wire, 1, n)

\* It goes away, or the connection to it breaks, within a response.  To rustls an
\* end without close_notify is an error, at whatever byte.
Dies ==
  /\ pc \in {"send", "read"}
  /\ \E n \in 0 .. Len(wire) : Loses(n)
  /\ \/ ended_by = "open" /\ ended_by' \in {"clean", "broken"}
     \/ ended_by = "clean" /\ ended_by' = "broken"
  /\ UNCHANGED <<pc, step, stop, samlVars, asked, curtailed, answer, grantVars, buf, cookie, tunnelVars>>

\* It ends a body early that only the end of the connection ends, and does so
\* cleanly: what is read is taken as complete.
CutsShort ==
  /\ pc = "read" /\ ended_by = "clean" /\ answer.framing = "close"
  /\ \E n \in 0 .. Len(wire) - 1 : Loses(n)
  /\ curtailed' = TRUE
  /\ UNCHANGED <<pc, step, stop, samlVars, asked, ended_by, answer, grantVars, buf, cookie, tunnelVars>>

-----------------------------------------------------------------------------
Thread ==
  \/ Listens \/ CannotListen \/ SamlGivesUp \/ Accepts \/ DropsClient \/ AnswersJunk \/ GetsId
  \/ Sends \/ SendFails \/ ReadsMore \/ Oversized \/ ReadFails \/ TakesResponse
  \/ ExchangeRefused \/ GoesOn \/ AbortsBeforeTunnel \/ TunnelRequestFails \/ StartsTunnel \/ SeesHttp \/ RelayReads

LoginNext ==
  \/ Thread \/ Tick \/ UserStops \/ SlowLineArrives
  \/ \E kind \in {"callback", "junk", "stalled"} : ClientConnects(kind)
  \/ \E r \in Verdicts, away \in BOOLEAN : Answers(r, away)
  \/ \E p \in Payloads, noise \in Garbage : SendsFrame(noise, p)
  \/ RefusesTunnel \/ Dies \/ CutsShort

LoginSpec ==
  LoginInit /\ [][LoginNext]_loginVars /\ WF_loginVars(Thread) /\ WF_loginVars(Tick)

-----------------------------------------------------------------------------
(* Properties. *)

\* The response taken for an exchange is the gateway's response to that request,
\* all of it and nothing else, in whatever pieces it arrived and wherever the
\* connection broke: "so every exchange stays framed correctly"
\* (read_http_response).  If the gateway itself ended a close-delimited body early
\* it is as much of it as was sent, which the code cannot tell from all of it.
ExchangesStayFramed ==
  pc = "took" =>
    IF curtailed
      THEN answer.framing = "close" /\ buf = SubSeq(Message(answer), 1, Len(buf))
      ELSE buf = Message(answer) /\ Content(buf) = answer.body

\* The tunnel is entered only with a session and a slot of the gateway's, whatever
\* it refused, cleared or broke off on the way (authenticate_password,
\* allocate_tunnel), unless it redirected the allocation to another page: a 200 for
\* that page is taken for the slot.
TunnelNeedsSlot == pc = "relay" => session /\ cookie /\ (slot \/ elsewhere)

\* No frame of the tunnel is lost, altered or made up, in whatever pieces it
\* arrives and behind noise: the relay has popped what was sent, as far as it came.
\* Frames of less than two bytes are dropped (run_relay).
FramesAsSent ==
  pc = "relay" /\ asked = "tunnel" =>
    /\ frames = SubSeq(due, 1, Len(frames))
    /\ wire = <<>> => frames = due /\ buf = <<>>

\* The SAML wait ends with its deadline, but for the client it was talking to, and
\* "as soon as stop is set" (wait_for_saml_callback): no local client delays it.
SamlIsBounded ==
  pc \in {"listen", "client"} => elapsed <= SamlTimeout + ClientTimeout + 1 /\ since_stop = 0

\* A callback that arrives while the login is waited for completes it, whichever
\* clients came before it, unless the deadline or a disconnect does first.
CallbackIsTaken ==
  (pc = "listen" /\ \E i \in 1 .. Len(clients) : clients[i] = "callback")
    ~> (pc = "send" \/ stop \/ Expired)

\* A login comes to an end: a tunnel or an error, whatever the gateway does.
LoginEnds == <>(pc \in {"relay", "ended"})
=============================================================================
