------------------------------- MODULE Session -------------------------------
(***************************************************************************)
(* The life of a connection: NativeVpnBackend (engine/backend.rs) driven   *)
(* by the GTK thread (app.rs: the button, poll) and by the tray thread     *)
(* (tray.rs), and for each connect() a relay thread (connect_inner_impl)   *)
(* and its network-setup worker.                                           *)
(*                                                                         *)
(* A session is one call of connect(); sessions are numbered in order and  *)
(* 0 stands for none.  All threads interleave.  The GTK thread is one      *)
(* thread, but it does not stop the others: poll drains the log and looks  *)
(* at the thread handle in two steps, and disconnect() waits up to two     *)
(* seconds between setting the stop flag and logging out.  Log lines are   *)
(* reduced to the two that steer the state: an ERROR and "Tunnel UP!".     *)
(***************************************************************************)
EXTENDS Naturals

CONSTANTS
  MaxSessions,    \* bound of the model: calls of connect()
  TrayActs        \* bound of the model: whether the tray's menu item is used at all

ASSUME SessionsAssumption == MaxSessions \in Nat \ {0} /\ TrayActs \in BOOLEAN

Sessions == 1 .. MaxSessions
Signals == {"ERROR", "UP"}
States == {"Disconnected", "Connecting", "Connected", "Disconnecting", "Error"}

VARIABLES
  \* the GTK thread and the backend object it owns
  ui,             \* where the GTK thread is; "idle" between callbacks
  state,          \* ConnectionState
  cur,            \* the session whose log channel and cookie slot the backend holds
  log,            \* signals in the lines drained since connect()
  handle,         \* relay_handle: the session whose thread is watched
  stop_flag,      \* the session whose stop flag the backend still holds
  profile,        \* active_profile: the session whose profile it still holds
  \* shared with the tray thread
  shared_active, disconnect_requested, quick_connect_requested, last_connected,
  \* the threads of each session
  pc,             \* the relay thread
  failed,         \* it is on its way out with an error
  worker,         \* the network-setup worker
  chan,           \* signals sent to the backend and not yet drained
  stop,           \* the stop flag
  cookie,         \* the slot the backend holds is filled
  \* the gateway
  gw_session,     \* it holds a login session
  logouts         \* logouts started for it

uiVars == <<ui, state, cur, log, handle, stop_flag, profile>>
sharedVars == <<shared_active, disconnect_requested, quick_connect_requested, last_connected>>
threadVars == <<pc, failed, worker, chan, stop, cookie, gw_session>>
vars == <<uiVars, sharedVars, threadVars, logouts>>

IsActive(st) == st \in {"Connecting", "Connected"}

\* Where a relay thread can be: before it runs, clearing stale pins, at the pkexec
\* prompt for them, connecting (TCP, TLS), at the prompt before a second attempt,
\* logging in, holding an unpublished cookie, fetching the configuration, about
\* to look at the stop flag, starting the tunnel, negotiating PPP, relaying,
\* cleaning up, about to report, reported, finished.
ThreadSteps == {"none", "connect", "prompt", "dial", "retry", "auth", "cookie", "setup", "check",
                "start", "negotiate", "relay", "cleanup", "report", "exit", "done"}

Init ==
  /\ ui = "idle" /\ state = "Disconnected" /\ cur = 0 /\ log = {}
  /\ handle = 0 /\ stop_flag = 0 /\ profile = 0
  /\ shared_active = FALSE
  /\ disconnect_requested = FALSE /\ quick_connect_requested = FALSE /\ last_connected = FALSE
  /\ pc = [s \in Sessions |-> "none"]
  /\ failed = [s \in Sessions |-> FALSE]
  /\ worker = [s \in Sessions |-> "none"]
  /\ chan = [s \in Sessions |-> {}]
  /\ stop = [s \in Sessions |-> FALSE]
  /\ cookie = [s \in Sessions |-> FALSE]
  /\ gw_session = [s \in Sessions |-> FALSE]
  /\ logouts = [s \in Sessions |-> 0]

-----------------------------------------------------------------------------
(* The backend: connect, disconnect, check_status, logout_session.  Each is *)
(* called on the GTK thread.                                                *)

\* Mutant: the lines of the previous session stay.
KeptLog == log
ClearedLog == {}

FreshFlag == cur + 1

\* connect(): a fresh channel, cookie slot and stop flag, and a new thread.
\* The handle of an earlier thread, the receiver of its channel and its cookie slot
\* are dropped, whether it has finished or not.
Connect ==
  /\ cur < MaxSessions
  /\ cur' = cur + 1
  /\ state' = "Connecting" /\ log' = ClearedLog
  /\ handle' = cur' /\ stop_flag' = FreshFlag /\ profile' = cur'
  /\ pc' = [pc EXCEPT ![cur'] = "connect"]
  /\ chan' = [s \in Sessions |-> {}] /\ cookie' = [s \in Sessions |-> FALSE]
  /\ UNCHANGED <<failed, worker, stop, gw_session, logouts>>

\* Mutant: the stop flag is dropped instead of set.
StopNothing == stop
StopRaised == IF stop_flag = 0 THEN stop ELSE [stop EXCEPT ![stop_flag] = TRUE]

\* disconnect(), up to its wait for the thread.
StartDisconnect ==
  /\ state' = "Disconnecting"
  /\ stop' = StopRaised
  /\ stop_flag' = 0
  /\ UNCHANGED <<cur, log, handle, profile, pc, failed, worker, chan, cookie, gw_session, logouts>>

\* logout_session(): takes the cookie out of the slot and the profile, and logs
\* out in the background if it got both.
LogoutSession ==
  /\ logouts' = IF profile # 0 /\ cookie[cur] THEN [logouts EXCEPT ![cur] = @ + 1] ELSE logouts
  /\ cookie' = IF cur = 0 THEN cookie ELSE [cookie EXCEPT ![cur] = FALSE]
  /\ profile' = 0

\* The rest of disconnect(): the thread has finished, or two seconds are over.
\* A thread that is still in a blocking phase keeps its handle.
FinishDisconnect ==
  /\ handle' = IF handle # 0 /\ pc[handle] # "done" THEN handle ELSE 0
  /\ LogoutSession
  /\ state' = "Disconnected"
  /\ UNCHANGED <<cur, log, stop_flag, pc, failed, worker, chan, stop, gw_session>>

\* Mutant: "Tunnel UP!" is overlooked.
PromotedOnError == IF state = "Connecting" /\ "ERROR" \in log THEN "Error" ELSE state

\* check_status(): a state promoted from the log while connecting, an error first.
Promoted ==
  IF state = "Connecting"
    THEN IF "ERROR" \in log THEN "Error" ELSE IF "UP" \in log THEN "Connected" ELSE state
    ELSE state

\* Mutant: a finished disconnect does not keep the state from being revised.
StatusFinalNever == FALSE
StatusFinal == state \in {"Disconnecting", "Disconnected"}

\* A finished thread takes the session down, whatever the log promised.
CheckStatus ==
  IF StatusFinal
    THEN UNCHANGED <<state, handle, profile, cookie, logouts>>
    ELSE IF handle # 0 /\ pc[handle] = "done"
      THEN /\ handle' = 0
           /\ state' = IF "ERROR" \in log THEN "Error" ELSE "Disconnected"
           /\ LogoutSession
      ELSE /\ state' = Promoted
           /\ UNCHANGED <<handle, profile, cookie, logouts>>

-----------------------------------------------------------------------------
(* The GTK thread. *)

\* toggle_connection: the Connect/Disconnect button.
ToggleConnect ==
  /\ ui = "idle" /\ ~IsActive(state)
  /\ Connect
  /\ UNCHANGED <<ui, sharedVars>>

\* The program is launched again: the window this opens auto-connects, without a
\* look at the state.
AutoConnects ==
  /\ ui = "idle"
  /\ Connect
  /\ UNCHANGED <<ui, sharedVars>>

ToggleDisconnect ==
  /\ ui = "idle" /\ IsActive(state)
  /\ StartDisconnect
  /\ ui' = "waiting"
  /\ UNCHANGED sharedVars

DisconnectReturns ==
  /\ ui \in {"waiting", "pollWaiting"}
  /\ FinishDisconnect
  /\ ui' = IF ui = "waiting" THEN "idle" ELSE "handled"
  /\ UNCHANGED sharedVars

\* poll(), every 250 ms: drain_log ...
PollDrains ==
  /\ ui = "idle"
  /\ ui' = "drained"
  /\ log' = IF cur = 0 THEN log ELSE log \cup chan[cur]
  /\ chan' = IF cur = 0 THEN chan ELSE [chan EXCEPT ![cur] = {}]
  /\ UNCHANGED <<state, cur, handle, stop_flag, profile, sharedVars,
                 pc, failed, worker, stop, cookie, gw_session, logouts>>

\* ... check_status ...
PollChecks ==
  /\ ui = "drained"
  /\ ui' = "checked"
  /\ CheckStatus
  /\ UNCHANGED <<cur, log, stop_flag, sharedVars, pc, failed, worker, chan, stop, gw_session>>

\* ... the requests of the tray, a disconnect before a connect, each consumed
\* even if it no longer applies ...
PollDisconnects ==
  /\ ui = "checked" /\ disconnect_requested
  /\ disconnect_requested' = FALSE
  /\ IF IsActive(state)
       THEN StartDisconnect /\ ui' = "pollWaiting"
       ELSE ui' = "handled" /\ UNCHANGED <<state, cur, log, handle, stop_flag, profile,
                                            threadVars, logouts>>
  /\ UNCHANGED <<shared_active, quick_connect_requested, last_connected>>

PollConnects ==
  /\ ui = "checked" /\ ~disconnect_requested /\ quick_connect_requested
  /\ quick_connect_requested' = FALSE
  /\ ui' = "handled"
  /\ IF last_connected /\ ~IsActive(state) /\ cur < MaxSessions
       THEN Connect
       ELSE UNCHANGED <<state, cur, log, handle, stop_flag, profile, threadVars, logouts>>
  /\ UNCHANGED <<shared_active, disconnect_requested, last_connected>>

PollNoRequest ==
  /\ ui = "checked" /\ ~disconnect_requested /\ ~quick_connect_requested
  /\ ui' = "handled"
  /\ UNCHANGED <<state, cur, log, handle, stop_flag, profile, sharedVars, threadVars, logouts>>

\* ... and the copy of the state the tray looks at.
PollSyncs ==
  /\ ui = "handled"
  /\ ui' = "idle"
  /\ last_connected' = (last_connected \/ state = "Connected")
  /\ shared_active' = IsActive(state)
  /\ UNCHANGED <<state, cur, log, handle, stop_flag, profile, disconnect_requested,
                 quick_connect_requested, threadVars, logouts>>

\* The tray's menu item acts on its copy of the state, which may be stale.
TrayClick ==
  /\ TrayActs
  /\ disconnect_requested' = (disconnect_requested \/ shared_active)
  /\ quick_connect_requested' = (quick_connect_requested \/ ~shared_active)
  /\ UNCHANGED <<uiVars, shared_active, last_connected, threadVars, logouts>>

-----------------------------------------------------------------------------
(* The relay thread of session s. *)

Goes(s, from, to) == pc[s] = from /\ pc' = [pc EXCEPT ![s] = to]
\* A line for a channel whose receiver was dropped is lost.
Sends(s, signal) == chan' = IF s = cur THEN [chan EXCEPT ![s] = @ \cup {signal}] ELSE chan

\* A step that may succeed, or end the thread with an error.
Tries(s, from, to) ==
  \/ Goes(s, from, to) /\ UNCHANGED failed
  \/ Goes(s, from, "report") /\ failed' = [failed EXCEPT ![s] = TRUE]

\* cleanup_stale_pins_before_connect: pins that can be removed without asking are;
\* a harmful one opens a pkexec prompt, and run_helper waits for its answer.
ClearsPins(s) ==
  /\ Goes(s, "connect", "dial") \/ Goes(s, "connect", "prompt")
  /\ UNCHANGED <<uiVars, sharedVars, failed, worker, chan, stop, cookie, gw_session, logouts>>

\* The answer, whatever it is: the thread connects with the pins that are left.
PinsAnswered(s) ==
  /\ Goes(s, "prompt", "dial")
  /\ UNCHANGED <<uiVars, sharedVars, failed, worker, chan, stop, cookie, gw_session, logouts>>

\* TCP and TLS.  A failed TCP connect with pins left opens a prompt for them.
Connects(s) ==
  /\ \/ Tries(s, "dial", "auth")
     \/ ~stop[s] /\ Goes(s, "dial", "retry") /\ UNCHANGED failed
  /\ UNCHANGED <<uiVars, sharedVars, worker, chan, stop, cookie, gw_session, logouts>>

\* Its answer: the thread tries once more, unless it finds the stop flag or, once
\* the thread of a later session has begun its attempt, that one.
RetryAnswered(s) ==
  /\ \/ ~stop[s] /\ Tries(s, "retry", "auth")
     \/ (stop[s] \/ s < cur) /\ Goes(s, "retry", "report") /\ UNCHANGED failed
  /\ UNCHANGED <<uiVars, sharedVars, worker, chan, stop, cookie, gw_session, logouts>>

\* authenticate and, with SAML, exchange_saml_id: from here on the gateway holds
\* a login session.
Authenticates(s) ==
  /\ Tries(s, "auth", "cookie")
  /\ gw_session' = [gw_session EXCEPT ![s] = (pc'[s] = "cookie")]
  /\ UNCHANGED <<uiVars, sharedVars, worker, chan, stop, cookie, logouts>>

PublishesCookie(s) ==
  /\ Goes(s, "cookie", "setup")
  /\ cookie' = [cookie EXCEPT ![s] = (s = cur)]
  /\ UNCHANGED <<uiVars, sharedVars, failed, worker, chan, stop, gw_session, logouts>>

\* allocate_tunnel, fetch_config and the check of the split routes.
FetchesConfig(s) ==
  /\ Tries(s, "setup", "check")
  /\ UNCHANGED <<uiVars, sharedVars, worker, chan, stop, cookie, gw_session, logouts>>

ChecksStop(s) ==
  /\ Goes(s, "check", IF stop[s] THEN "report" ELSE "start")
  /\ UNCHANGED <<uiVars, sharedVars, failed, worker, chan, stop, cookie, gw_session, logouts>>

\* start_tunnel and TunHandle::open.
StartsTunnel(s) ==
  /\ Tries(s, "start", "negotiate")
  /\ UNCHANGED <<uiVars, sharedVars, worker, chan, stop, cookie, gw_session, logouts>>

RelayStopsEarly(s) ==   \* mutant: the flag is not looked at once the network is up
  /\ pc[s] = "negotiate" /\ stop[s]
  /\ pc' = [pc EXCEPT ![s] = "cleanup"]
  /\ UNCHANGED <<uiVars, sharedVars, failed, worker, chan, stop, cookie, gw_session, logouts>>

\* run_relay stops when it sees the flag ...
RelayStops(s) ==
  /\ pc[s] \in {"negotiate", "relay"} /\ stop[s]
  /\ pc' = [pc EXCEPT ![s] = "cleanup"]
  /\ UNCHANGED <<uiVars, sharedVars, failed, worker, chan, stop, cookie, gw_session, logouts>>

\* ... or fails: the gateway closes, the link dies, on_network fails.
RelayFails(s) ==
  /\ pc[s] \in {"negotiate", "relay"}
  /\ pc' = [pc EXCEPT ![s] = "cleanup"]
  /\ failed' = [failed EXCEPT ![s] = TRUE]
  /\ UNCHANGED <<uiVars, sharedVars, worker, chan, stop, cookie, gw_session, logouts>>

\* on_network: address and MTU are set, and a worker applies routes and DNS; with
\* both disabled in the profile the tunnel is up at once.
NetworkComesUp(s) ==
  /\ Goes(s, "negotiate", "relay")
  /\ \/ worker' = [worker EXCEPT ![s] = "running"] /\ UNCHANGED chan
     \/ Sends(s, "UP") /\ UNCHANGED worker
  /\ UNCHANGED <<uiVars, sharedVars, failed, stop, cookie, gw_session, logouts>>

\* After run_relay: the flag is set for the worker, which is waited for up to five
\* seconds, and the gateway pin is removed.
CleansUp(s) ==
  /\ Goes(s, "cleanup", "report")
  /\ stop' = [stop EXCEPT ![s] = TRUE]
  /\ UNCHANGED <<uiVars, sharedVars, failed, worker, chan, cookie, gw_session, logouts>>

\* Mutant: connect_inner drops the result.
ReportsNothing(s) ==
  /\ Goes(s, "report", "exit")
  /\ UNCHANGED <<uiVars, sharedVars, failed, worker, chan, stop, cookie, gw_session, logouts>>

\* connect_inner logs the result, and the thread ends.
Reports(s) ==
  /\ Goes(s, "report", "exit")
  /\ IF failed[s] THEN Sends(s, "ERROR") ELSE UNCHANGED chan
  /\ UNCHANGED <<uiVars, sharedVars, failed, worker, stop, cookie, gw_session, logouts>>

Exits(s) ==
  /\ Goes(s, "exit", "done")
  /\ UNCHANGED <<uiVars, sharedVars, failed, worker, chan, stop, cookie, gw_session, logouts>>

-----------------------------------------------------------------------------
(* The setup worker of session s (spawned by on_network). *)

\* Without a standing privilege, netcfg::apply waits for a pkexec prompt.
WorkerPrompts(s) ==
  /\ worker[s] = "running"
  /\ worker' = [worker EXCEPT ![s] = "prompt"]
  /\ UNCHANGED <<uiVars, sharedVars, pc, failed, chan, stop, cookie, gw_session, logouts>>

\* netcfg::apply succeeded: unless a stop was requested, the DNS servers' routes
\* are looked up and the tunnel is announced, with no second look at the flag.
WorkerApplies(s, from) ==
  /\ worker[s] = from
  /\ worker' = [worker EXCEPT ![s] = IF stop[s] THEN "stopped" ELSE "applied"]
  /\ UNCHANGED <<uiVars, sharedVars, pc, failed, chan, stop, cookie, gw_session, logouts>>

WorkerAnnounces(s) ==
  /\ worker[s] = "applied"
  /\ worker' = [worker EXCEPT ![s] = "announced"]
  /\ Sends(s, "UP")
  /\ UNCHANGED <<uiVars, sharedVars, pc, failed, stop, cookie, gw_session, logouts>>

\* It found the stop flag before it asked for a privilege: nothing is said.
WorkerIsCancelled(s) ==
  /\ worker[s] = "running" /\ stop[s]
  /\ worker' = [worker EXCEPT ![s] = "stopped"]
  /\ UNCHANGED <<uiVars, sharedVars, pc, failed, chan, stop, cookie, gw_session, logouts>>

\* It failed, or the prompt was dismissed: the error is logged ...
WorkerFails(s, from) ==
  /\ worker[s] = from
  /\ worker' = [worker EXCEPT ![s] = "failed"] /\ Sends(s, "ERROR")
  /\ UNCHANGED <<uiVars, sharedVars, pc, failed, stop, cookie, gw_session, logouts>>

\* Mutant: the session is left running without its routes.
WorkerLeavesRunning(s) ==
  /\ worker[s] = "failed"
  /\ worker' = [worker EXCEPT ![s] = "stopped"]
  /\ UNCHANGED <<uiVars, sharedVars, pc, failed, chan, stop, cookie, gw_session, logouts>>

\* ... and the session is stopped.
WorkerStops(s) ==
  /\ worker[s] = "failed"
  /\ worker' = [worker EXCEPT ![s] = "stopped"]
  /\ stop' = [stop EXCEPT ![s] = TRUE]
  /\ UNCHANGED <<uiVars, sharedVars, pc, failed, chan, cookie, gw_session, logouts>>

-----------------------------------------------------------------------------
UiStep ==
  \/ PollDrains \/ PollChecks \/ PollDisconnects \/ PollConnects \/ PollNoRequest \/ PollSyncs
  \/ DisconnectReturns

\* Steps a thread takes by itself: the network calls in them have timeouts, and the
\* commands they run (ip, sudo -n) ask nobody and end.
ThreadStep(s) ==
  \/ ClearsPins(s) \/ Connects(s) \/ Authenticates(s) \/ PublishesCookie(s) \/ FetchesConfig(s)
  \/ ChecksStop(s) \/ StartsTunnel(s) \/ RelayStops(s) \/ CleansUp(s) \/ Reports(s) \/ Exits(s)

\* A negotiation ends within 25 s, one way or the other.
NegotiationEnds(s) == pc[s] = "negotiate" /\ (NetworkComesUp(s) \/ RelayFails(s))

WorkerStep(s) ==
  \/ WorkerPrompts(s) \/ WorkerApplies(s, "running") \/ WorkerFails(s, "running")
  \/ WorkerIsCancelled(s) \/ WorkerAnnounces(s) \/ WorkerStops(s)

\* Steps that take the answer to a pkexec prompt, which the user may leave open for
\* ever: run_helper waits for it without a timeout and without a look at the flag.
AtPrompt(s) == pc[s] \in {"prompt", "retry"}
PromptAnswered(s) ==
  \/ PinsAnswered(s) \/ RetryAnswered(s)
  \/ WorkerApplies(s, "prompt") \/ WorkerFails(s, "prompt")

Next ==
  \/ ToggleConnect \/ AutoConnects \/ ToggleDisconnect \/ TrayClick \/ UiStep
  \/ \E s \in Sessions :
       ThreadStep(s) \/ NetworkComesUp(s) \/ RelayFails(s) \/ WorkerStep(s) \/ PromptAnswered(s)

\* The GTK main loop keeps running its callbacks and every thread keeps being
\* scheduled; a relay whose network is up may run for ever, and what the user and
\* the tray do is theirs to decide, the answer to a prompt included.
Fairness ==
  /\ WF_vars(UiStep)
  /\ \A s \in Sessions :
       WF_vars(ThreadStep(s)) /\ WF_vars(NegotiationEnds(s)) /\ WF_vars(WorkerStep(s))

Spec == Init /\ [][Next]_vars /\ Fairness

-----------------------------------------------------------------------------
(* Properties. *)

\* "Connected" is shown only for the session the user started last, and only once
\* its own network setup succeeded: no line of an earlier session, and no setup
\* that failed or was cancelled, promotes the state (check_status).
ConnectedIsUp ==
  state = "Connected" =>
    /\ pc[cur] \in {"relay", "cleanup", "report", "exit", "done"}
    /\ worker[cur] \in {"none", "announced"}

\* The button and the tray replace no running session: the thread of the one before
\* is gone, was told to stop, has failed, or its worker is about to stop it.  (The
\* auto-connect of a second launch does replace an active one, which nobody stops.)
OldSessionsEnd ==
  [][cur' # cur /\ cur # 0 /\ ~IsActive(state)
       => pc[cur] = "done" \/ stop[cur] \/ failed[cur] \/ worker[cur] = "failed"]_vars

\* The gateway session is given up only when its tunnel is: a logout is sent for a
\* session that was told to stop or whose thread has finished, never under a tunnel
\* in use, and once at most (logout_session, called from disconnect and
\* check_status).
LogoutOnlyAtTheEnd ==
  [][\A s \in Sessions :
       logouts'[s] # logouts[s] => logouts[s] = 0 /\ (stop[s] \/ pc[s] = "done")]_vars

\* A disconnect is authoritative: whatever the old thread still logs, and however
\* long it lives, the state leaves "Disconnected" only by a new connect().
DisconnectIsFinal ==
  [][state = "Disconnected" /\ state' # state => state' = "Connecting" /\ cur' = cur + 1]_vars

\* "Connecting" does not last: whichever step fails and whatever the user and the
\* tray ask for meanwhile, the state becomes another one, again and again, or the
\* session is found at a prompt, for which run_helper has no timeout.  An answer
\* sets it going again, and a session has three prompts at most.
ConnectingResolves ==
  []<>(state = "Connecting" => AtPrompt(cur) \/ worker[cur] = "prompt")

\* A session told to stop ends, from whatever step its thread was in and also when
\* another took its place, unless the thread itself is at a prompt, where it cannot
\* see the flag; a prompt of its worker does not keep it (wait_setup_workers).  The
\* flag is never lowered, so what holds again and again while it is up comes about.
StoppedThreadsEnd == \A s \in Sessions : []<>(stop[s] => pc[s] = "done" \/ AtPrompt(s))

\* A thread that ended with an error leaves the state "Error", as the log line it
\* sent before it ended asks for (check_status looks at the drained lines), unless
\* that line came after poll had drained the log: then it is still in the channel.
ErrorsAreShownUnlessLate ==
  [][ui = "drained" /\ handle # 0 /\ handle' = 0 /\ failed[handle]
       => state' = "Error" \/ "ERROR" \in chan[handle]]_vars

\* Once the user has disconnected and the thread is gone, the gateway holds no
\* session that nobody will log out.
SessionsAreReleased ==
  ui = "idle" /\ state = "Disconnected" =>
    \A s \in Sessions : pc[s] = "done" /\ gw_session[s] => logouts[s] = 1
=============================================================================
