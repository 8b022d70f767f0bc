# Open Forti Manager: a TLA+ model

Open Forti Manager is a FortiGate SSL-VPN client for the Linux desktop: a GTK
application with a tray icon that speaks the gateway's protocol itself (TLS,
HTTP log-in, PPP over a framed TLS stream), feeds a TUN device and applies
routes and DNS through a small privileged helper. This directory models its
engine in TLA+, checks the models with TLC on small instances and proves
theorems about them with TLAPS. Paths below are relative to the repository.

## 1. Inventory

| Component | State | Operations | Interacts with |
|---|---|---|---|
| PPP state machine, `src/engine/pppstate.rs` | phase, ack flags per layer and direction, request counters and identifiers, options still asked for, echo counter, outbox | `new`/`start`, `handle` (one arm per LCP/IPCP code), `send_echo_request`, `tun_mtu` | called by the relay, frame by frame; leaves answers in `outbox` |
| Relay loop, `src/engine/tunnel.rs` | receive buffer, output queue and its last progress, keepalive timer, TUN failure streak, "network was up" | one loop: stop flag, negotiation timeout, TLS in, TUN in, keepalive, pump, stall check | drives the PPP machine; calls `on_network` when IPCP completes; ends the relay thread |
| Session lifecycle, `src/engine/backend.rs`, `src/vpn.rs` | connection state, drained log, log channel, thread handle, stop flag, active profile, cookie slot; a global list of setup workers | `connect`, `disconnect`, `check_status`, `drain_log`, `logout_session`; per session a relay thread (`connect_inner_impl`) and a network-setup worker | called on the GTK thread; talks to its threads by log channel, stop flag, cookie slot |
| GTK thread and tray, `src/app.rs`, `src/tray.rs` | shared state: connection state copy, requests, last profile | `poll` every 250 ms, Connect button, auto-connect of every window opened, quit dialog; tray menu | the tray thread writes requests, `poll` consumes them |
| Gateway pins and attempts, `src/engine/netcfg.rs` | pin records in a state file (per boot, tagged with the attempt), the attempt file | `Attempt::begin`, `record_pin`, `forget_own`, `forget_absent`, `cleanup_stale_pins_before_connect`, `apply`, `remove_gateway_pin` | relay threads and workers of several sessions and processes; the helper; the kernel's routes |
| Privileged helper, `src/engine/nethelper.rs` | root-owned pin registry, two lock files | `execute`: validate, run and record each operation of a request | one process per request, several at a time |
| Route and DNS planning, `netcfg.rs` | none | `plan`, `shadowed_ranges`, `apply`, `classify_failure` | called by `on_network` and its worker; the helper |
| Framing, `src/engine/hdlc.rs` | none | `frame_packet`, `frame_raw`, `pop_frame` | the relay's receive buffer |
| Gateway HTTP, `src/engine/auth.rs`, `gateway.rs` | TLS stream position | `connect_blocking`, log-in, SAML exchange, `allocate_tunnel`, `fetch_config`, `start_tunnel`, `logout` | the relay thread; a background thread for `logout` |
| SAML callback, `src/engine/http_server.rs` | listener, deadline | `wait_for_saml_callback` | the browser; the stop flag |
| TUN device, `src/engine/tun.rs`, `ppp.rs` | a file descriptor | create, configure, MTU | kernel, helper as a fallback |
| Configuration, `src/config.rs` | one JSON file, and a copy in memory per window | load, save by rename | pages, start-up |
| Pages and start-up, `src/ui/`, `src/main.rs` | profile list, editor, drop-downs, settings | new, save, delete a profile; settings; window set-up | the configuration; the Connect button |
| Packaging | none | | |

What is hard in this code, and what the properties are for (the full list, line
by line, is under `hazards` in `PROJECT.json`):

* **Negotiation without a restart timer.** The client sends a
  Configure-Request only to start a layer or to answer a NAK or a REJ. Any
  frame either automaton drops would leave both waiting.
* **Frames in any order.** The arms of `handle_ipcp` do not look at the phase,
  and the relay hands over every frame of a batch, also after the link died.
* **Threads without a common lock.** The GTK thread, a relay thread per session
  and its setup worker share a log channel, a flag and a cookie slot. `poll`
  takes the log and looks at the thread in two steps; `disconnect` gives up
  waiting after two seconds; `connect` replaces everything an older thread still
  uses, and a second window may call it while a session is active.
* **Stale requests.** The tray acts on a copy of the state.
* **Ownership of routes across crashes and sessions** (gateway pins): record
  before install, forget only what is confirmed gone, act only while the
  attempt is current.
* **Queues and timers of the relay.** A bounded output queue, a TLS buffer, a
  keepalive that waits for the queue, a stall timer: a slow gateway must not be
  taken for a dead one, nor the reverse.
* **Responses in pieces** on a keep-alive connection that becomes the tunnel:
  what is read too much or too little is read as something else.
* **Set-up of a system that moves.** Between the plan and its last command the
  device may be replaced, the physical path change, a command fail, the session
  end.
* **A file that is edited by several windows** and may be cut off by a crash.

## 2. Modules

| Module | Role |
|---|---|
| `PppState` | the PPP state machine against a gateway that may send any frame |
| `LinkLifecycle` | what the relay is promised by it: the abstract specification |
| `PppLink` | the machine and a gateway that follows RFC 1661/1332, joined by two FIFO queues; or a looped-back link |
| `PppRelay` | the machine in the hands of the relay loop and `on_network`, batch by batch |
| `Relay` | the relay loop: output queue, TLS and socket, clocks, exits |
| `Session` | backend, GTK thread, tray, relay threads and setup workers |
| `PinHelper` | the privileged helper as far as gateway pins go, the pin lock and registry, the kernel's route |
| `GatewayPin` | attempts, pin records, relay threads and workers over `PinHelper`: who owns the pin |
| `HttpResponse` | where an HTTP response ends |
| `TunnelFraming` | the framing of the tunnel: writer, reader, and the loop around it |
| `Login` | SAML wait, login exchanges and the first bytes of the tunnel, over the two modules above |
| `RoutePlan` | prefixes, the gateway's policy, the plan, the kernel's route lookup |
| `NetSetup` | `on_network`, the worker and the helper carrying out a plan on a changing system |
| `ConfigStore` | configuration file, pages, start-up, Quick Connect |
| `PppProofs` | theorems about `PppState`, `PppRelay` and `PppLink` |
| `SessionProofs`, `GatewayPinProofs`, `RelayProofs`, `NetSetupProofs`, `ConfigStoreProofs` | theorems about the modules they are named for |
| `LoginProofs` | theorems about `TunnelFraming` and `Login` |
| `DataInduction` | induction over numbers, and that what a loop or a recursive function defines exists; used by the proofs |
| `MC...` | instances for TLC |

### PppState

The variables are the fields of `PppState` with their names. `dns1` and `dns2`
are always treated alike and are one variable; `lcp_req_opts`, `warnings` and
`dead_reason` only serve wording. A frame is a record of protocol, code,
identifier and options; an option list is a record with `NoOpt` for an absent
option, and `odd` for options the client refuses ("unknown") or whose length is
wrong ("badlen").

There is an action per arm of `handle_lcp` and `handle_ipcp`, each with the
promotion that ends these functions (`OpenIpcp`, `OpenNetwork`) and the requests
it sends (`SendLcpConfReq`, `SendIpcpConfReq`, which may kill the link).
`Handle` is one call of `handle` by the relay, which clears the echo counter
first. `SendEchoRequest` and `EchoTimeout` are the two outcomes of
`send_echo_request` that change something, `DrainOutbox` is `queue_outbox`.
`Init` is `new` followed by `start`, which `run_relay` calls at once.

Request counters are only compared with `MAX_CONF_REQ`, so `Bump` stops one
above it. `NextMagic` stands for both rotate-and-xor expressions: another
non-zero magic number. An IPCP Configure-Reject that names the address and DNS
stops at the address, in list order: `IpcpConfRejAddr` chooses the order.

### LinkLifecycle

Stages Lcp, Ipcp, Network, Dead; which layers each end has agreed to; an
address. A layer is opened only with both ends' consent, the network comes up
only with an address, our requests once accepted stay accepted, and a dead link
stays dead. `PppState!LifecycleSpec` instantiates it with phase, flags and
`local_ip`.

### PppLink

`outbox` becomes the queue to the gateway and `wire` the queue back: TLS loses
and reorders nothing. The gateway is external: it sends its own LCP request at
once and its IPCP request when its LCP opens, drops IPCP packets before that,
may NAK or REJ what the client asks for (at most `Objections` times), may
repeat an unanswered request (`Retransmits` times), and may ack its assigned
address where another was asked for, the case `handle_ipcp` has a comment for.
With `looped` there is no gateway and the client's frames come back to it
(`TurnsRound`). The gateway's requests take an identifier each; there are more
than two (`GatewayAssumption`; the byte in the packet gives 256), so an answer to
an earlier request is never taken for one to the current.

### PppRelay and Relay

Two views of `run_relay`, each detailed where the other is coarse.

`PppRelay` has the whole PPP machine. The loop hands it all frames of the bytes
it received and looks at the phase only afterwards. `HandsOver` is one frame;
`BatchFindsDeath`, `OnNetwork`, `OnNetworkFails` and `BatchEnds` are the ways a
batch ends; the phase and `tun_addr` (set exactly when `network_since` is)
decide which. `on_network` is reduced to the address and the MTU of the device.
What the gateway said is kept beside the machine as it went over the wire
(`GatewaySaid`): whether our latest Configure-Request of each layer was acked
(`consent`), the address granted with it (`lease`), and whether the gateway asked to
terminate (`terminated`). The flags of the machine are not that: they are set by an
answer and never cleared.

`Relay` has the queues and the clocks; of the PPP machine it knows what
`LinkLifecycle` promises. A frame is named for what it asks of its receiver. A
pass takes what the gateway sent (`Takes`) and then sends: TUN packets while
there is room (`TUN_BATCH`, `MAX_QUEUED`), a keepalive if one is due and the
backlog is small, and the pump through the TLS buffer into the socket. Bytes are
counted in frames. At least one pass fits between two ticks of the clock. The
gateway may be slow, flood, fall silent or close, and may not implement echoes.

### Session

A session is one call of `connect()`. For each session there is a relay thread
(`pc`, the blocking steps of `connect_inner_impl` in order), a worker, the
channel, the stop flag, the cookie slot, and whether the gateway holds a login
session for it. The backend's fields keep their names; `handle`, `stop_flag` and
`profile` name the session whose object the field holds, and 0 for `None`.

`poll` is split where other threads can act: `PollDrains` (`drain_log`),
`PollChecks` (`check_status`), the tray's requests (`PollDisconnects`,
`PollConnects`, `PollNoRequest`) and `PollSyncs`. `disconnect` is split at its wait:
`StartDisconnect` raises the flag, `FinishDisconnect` runs when the thread is done
or the two seconds are over, which may be at any time in the model. `TrayClick` acts
on the copy of the state. `AutoConnects` is the auto-connect of a window: at
start-up, or of a second launch while anything may be running. Log lines are reduced
to ERROR and "Tunnel UP!". The worker looks at the stop flag (`WorkerApplies`) and
announces the tunnel (`WorkerAnnounces`) in two steps, and logs its error
(`WorkerFails`) before it raises the flag (`WorkerStops`), as in the code.
`run_helper` waits for pkexec as long as the prompt is open, so a prompt is a place
of its own: `prompt` and `retry` of the thread (the clean-up before the first
connection and before the second, `AtPrompt`), `prompt` of the worker. Which profile
is connected is the matter of `ConfigStore`.

### PinHelper and GatewayPin

The gateway pin is a host route to the gateway over the physical network. It
outlives the TUN device, so someone must delete it, and nobody may delete the
user's. There is one gateway in the model: a pin is named by the path it takes, and
the kernel has at most one route to it (`ip route add` answers EEXIST), which
carries the session that added it, 0 for the user.

`PinHelper` is `execute` for pin operations. Each session sends at most one request
at a time; the request is run by a process that survives the application. One
operation is: the attempt check (`HelperChecks`); the pin lock, the check under it
and `plan_op` (`HelperValidates`, `HelperRejects`, or `HelperTimesOut` without the
lock); the kernel command (`HelperDeletes`, `HelperAdds`); the registry
(`HelperRegisters`, `HelperUnregisters`, `HelperRollsBack`). These are separate steps,
and anything may happen between them, also that the helper is killed (`HelperDies`):
the lock goes with it, what the kernel did stays. One caller uses the helper.

`GatewayPin` follows `connect_inner_impl`: begin the attempt, wait for older workers,
clean up, connect (and once more after removing what is left), then `on_network`
(`LoadsStale`, `Plans`, `Records`, `Spawns`, `Pushes`), the worker (`WorkerApplies`,
`WorkerSettles`, `WorkerClears`), and the end (`WaitsForSetup` to `KeepsPin`). A query
of the routes may fail; it is "unknown" then and counts as in the code. An update
of the pin-state file is one step, as it is under a file lock. An attempt may begin
while an older one still runs, as after a second launch; `Crash` ends all threads.
A failed worker raises the stop flag like the user does (`UserStops`). History are
`overtaken` (an attempt began while the helper of an older one was past its checks),
`unclaimed` (the sessions that asked a helper for a pin without claiming it, as
`on_network` claims no pin it finds installed by someone else) and `stranded` (a pin
that could neither be registered nor rolled back, or whose helper was killed before
it did either).

### HttpResponse, TunnelFraming and Login

A response is a sequence of cells, the places reading may stop between: two of
headers, then the body as its framing lays it out. `HttpResponse` has what the
reader decides at each point: are the headers complete, is the body (by length,
by chunks, by the end of the connection), what is the content. Bytes of the
tunnel are numbers in a small base; `TunnelFraming` has `frame_raw`, `pop_frame` and
the loop that takes frames and skips bytes.

`Login` is one connection: bind, accept and read local clients until one brings
the callback; then the requests in order (login, index page, allocation, its
redirect, configuration), each written and its response read in pieces of any
size; then the tunnel request and its first
frames behind noise. The gateway may answer with any status, framing and body,
set or clear the cookie, redirect, close or break off at any cell. A redirect of the
allocation may lead to the allocation or to another page (`elsewhere`): the client
follows any `Location`, by default `/remote/login`, and takes a 200 of either for the
slot. A connection that ends cleanly within a body which only its end ends is taken
for complete (`curtailed`). A failure to write the tunnel request ends the thread like
any other (`TunnelRequestFails`). The thread's
steps of the SAML wait take no time, as it polls several times a second: the
clock ticks when it has nothing to do. `due` is history: the payloads the relay is
to pop, all of two bytes or more that were sent.

### RoutePlan and NetSetup

`RoutePlan` computes on addresses of `Width` bits what the code computes on 32:
prefixes, masks, the policy's split routes, `plan` and its operations,
`shadowed_ranges`, and the kernel's lookup (external: longest prefix, then lowest
metric). The loops that push operations are a recursive function (`Pushed`).
`NetSetup` sets address and MTU (by ioctl, or through the helper), has the plan
carried out operation by operation, each with the device check before it, its one or
more commands, and the check after it, and judges the results as `apply` does.
Between any two steps the device may go or be replaced, the physical path move (also
before the plan is made), a local network appear, a physical device go with its
routes, a newer attempt start (also of a session nobody stopped), the user stop; any
command may fail, and so may each query: of the routing table, which gives the
warnings (`Plans`), of the path to the gateway (`NoPathRead`), of a DNS server's
route (`MisroutedDns`), and the look-up of what was there already (`CannotVerify`).
History are `missed` (the ranges the user would have been warned of, had the table
been read), `late` (local networks that appeared after the plan) and `lost` (a route
to the gateway that went with its device after the plan). `PhysicalDevs` are the
user's devices; the session's own is new and named like none of them.

### ConfigStore

A configuration is its list of profiles and the name to auto-connect. A handler
of the GTK thread changes the configuration and the widgets in one step; if it
saves, the steps of `save()` follow (create, write, sync, rename), between which the
process may die, the power fail or the step fail. `durable` is what the file may
hold after a power loss: the directory is not synced, so until it is written
back the old file may return, and a file renamed before it was synced would come
back torn. Each window holds its own copy of the configuration, the selected
row, the editor and the two drop-downs, and what the handlers leave in them
(`Refreshed`). `vpn` is the session as far as the pages see it, and who started it.
`Polls` is one call of `poll`: what `check_status` may find of the session's threads
(`Found`), a request of the tray, and the name to remember when a session came up.

## 3. Runs

| Run | Checks | What it shows |
|---|---|---|
| `ppp_relay` | `TypeOK`, `GivingUpIsDeath`, `LayersConsented`, `MtuFitsPeer`, `DeviceGetsLease`, `LifecycleSpec` | any LCP or IPCP frame in any order, in every phase, in batches: a layer opens only when the gateway accepted our latest request, and the device gets what it granted with that, not what an earlier or later frame of the batch said |
| `ppp_relay_stale` (violation) | `DeviceIsAsNegotiated` | finding 1 |
| `ppp_link` | `LeaseAgreed`, `MruAgreed`, `NegotiationCompletes`, `LoopIsGivenUp` | the two ends agree on what is configured, and always finish; the client recognizes itself |
| `relay` | `HealthyGatewayKept`, `SilenceIsNoticed`, `OnlyAFloodOverflows`, `StopEnds` | queues, keepalives and timers against a slow, flooding, silent, closing or dying gateway |
| `session` | `ConnectedIsUp`, `OldSessionsEnd`, `LogoutOnlyAtTheEnd`, `DisconnectIsFinal`, `ErrorsAreShownUnlessLate` | two sessions, all threads, the tray, a second launch |
| `session_live` | `ConnectingResolves`, `StoppedThreadsEnd` | every session resolves, and every thread told to stop ends, also one that was replaced; but for an open prompt |
| `session_released` (violation) | `SessionsAreReleased` | finding 2 |
| `gateway_pin` | `PinsAreRegistered`, `CurrentClaimIsKept`, `ClaimedPinsAreRecorded`, `UsersRouteStays`, `NewerPinStays` | who may add, record, forget and delete the gateway pin, over two attempts, a crash, a killed helper, a network change or a route of the user's |
| `gateway_pin_records` (violation) | `PinsAreRecorded` | finding 3 |
| `login` | `ExchangesStayFramed`, `TunnelNeedsSlot`, `FramesAsSent`, `SamlIsBounded`, `CallbackIsTaken`, `LoginEnds` | every response in every cut, with every framing |
| `net_setup` | `UpMeansRouted`, `GatewayStaysOutside`, `OtherDeviceSpared`, `FullTunnelIsMeant`, `CalmSetupSucceeds` | a set of policies, profiles, DNS servers and routing tables, with failing commands and queries and a changing system |
| `config` | `FileNeverTorn`, `MemoryIsSaved`, `RememberedIsConnected` | two windows, crashes, power losses, failing saves |

### Bounds

* `ppp_relay`: two Configure-Requests per protocol and one echo are enough to
  reach and pass each limit; three identifiers wrap around within a run; the MRUs
  the gateway asks for are one below and one above the limits, and the one it names
  in a NAK is between. A batch is any number of frames that call for no answer,
  the last of them perhaps one that does (a terminated link, a refused request).
  The gateway's answers carry the identifiers that requests have at first and after
  a repetition; of IPCP one is 0, the value of `ipcp_req_id` before any request. The
  theorems hold without these bounds, for batches of any frames.
* `ppp_link`: the gateway objects twice and repeats itself twice, and the client
  may ask three times per layer, the least with which an objection in each layer
  can meet a repetition. The looped-back link was also checked with the real
  ten requests and 256 identifiers.
* `relay`: every queue has one or two places and each clock one or two ticks, the
  keepalive limit is two: enough for each queue to be empty, partly filled and
  full while each clock is before, at and past its limit. The properties relate
  one limit to another, not to their sizes; how the limits must relate is
  `RateAssumption`, and `RelayProofs` has the safety properties for all sizes that do.
* `session`: two sessions, the least in which one can be replaced by another; a
  session keeps no state of the one before its predecessor, and `SessionProofs` has
  the same properties for any number. `session_live` has the same two, so that
  one may be replaced by the auto-connect of a second window; the tray only calls
  what the window does and is left out there (`TrayActs`).
* `gateway_pin`: two attempts, the least in which one is superseded by another, two
  paths (symmetric), and one event from outside (a crash, a killed helper, a network
  change, a route of the user's).
* `login`: bytes are hexadecimal digits and 7 is the magic byte, so that the length
  of a one-byte frame is a magic byte itself; responses may exceed
  `MAX_HTTP_RESPONSE` (nine cells); three local clients, so that two can come before
  the callback; SAML deadline three ticks, a client's one.
* `net_setup`: three-bit addresses with the gateway at 6, seven policies (empty,
  malformed, holding or missing or naming the gateway, a default route), four
  profiles, one or two DNS servers, user's routes within, instead of and to what
  is set up (with the other profiles only within), stale pins along the path and
  along another; at most six operations, which some plans exceed; at most two
  changes of the physical network, so that it may be left for another, and one local
  network to appear, within a range and around the gateway.
* `config`: two profiles (one with the name that New Profile would give), two
  windows, six operations of the user or the session, one power loss or failed
  save; the file at first is absent, damaged, empty or holds two profiles.

### Fairness

* `PppLink`: both ends keep reading (weak fairness of `ClientHandles`, `TurnsRound`
  and `GatewayTakes`); neither objections nor repetitions are fair.
* `Relay`: the loop keeps running (`Pass`); nothing is assumed of the gateway.
* `Session`: the GTK main loop keeps calling `poll`, and each thread is scheduled
  and leaves the calls that end by themselves: TCP and TLS, HTTP reads and the
  negotiation have timeouts, and `ip`, `sudo -n` and `resolvectl` ask nobody. A
  pkexec prompt does not end by itself: `run_helper` waits in `wait_with_output`
  without a timeout (`netcfg.rs:845`), called by the thread's clean-up
  (`netcfg.rs:764`) and by the worker. Nobody need answer: `PromptAnswered`, of the
  thread's prompts and of the worker's, has no fairness, and the two liveness
  properties name the open prompt as what may keep them. A relay whose network is up
  may run for ever, and the user and the tray may never act.
* `Login`: the thread runs and time passes (reads have a timeout); the gateway and
  the browser need do nothing.
* `NetSetup` states the fairness of its threads for its specification; its
  properties are safety properties.

`CHECK_DEADLOCK FALSE` is given where the system really stops: a finished
negotiation or a dead link, an ended loop, the last attempt, a login that ended,
a set-up that was judged, a user with no operations left.

### Mutants

Each property of a passing run names a plausible bug under which TLC finds it
violated; the mutated forms stand beside the definitions they change.

## 4. Findings

1. *A device left behind* (`ppp_relay_stale`). `on_network` runs once; in phase Network
   a late IPCP ack or NAK of the last request still changes `local_ip`, and LCP
   negotiated again may lower the MRU below the MTU of the device.
2. *A session nobody logs out* (`session_released`). Disconnecting while the
   log-in is still running, for longer than the two seconds of the wait: the
   cookie is published into a slot that nobody will look at again.
3. *A pin nobody has on record* (`gateway_pin_records`). An attempt that begins while
   the helper of the one before is between its last check and `ip route add`, and
   that sees no worker (it is listed only after it was spawned, and a crash empties
   the list), forgets the record of the pin about to be added. The window is
   short. `ClaimedPinsAreRecorded` names the one other way, of three sessions: the
   second's worker has installed a pin, the third finds it in `on_network` and so
   neither claims nor records it (`backend.rs:605`), the network changes and the
   kernel drops the route, the second's worker forgets the record of what is gone,
   and the third's helper installs the pin that nobody has on record. That there are
   no more ways is a theorem, for any number of sessions.

What else a reader of the code should know, found while modelling. No line of
the repository promises otherwise, or the property of the run names the case as
its exception:

* *Second launch.* GTK hands the activation to the running process, which opens
  another window. With auto-connect configured, that window calls `connect()`
  whatever runs (`app.rs:263`): the handle, stop flag and cookie of an active
  session are dropped, nobody stops it or logs it out, and it goes on until its
  gateway or its device ends it. `OldSessionsEnd` excludes this; what the pin
  properties, `ConnectedIsUp` and `DisconnectIsFinal` say holds nevertheless.
* *Second window.* It starts from the configuration loaded at start-up: its
  saves overwrite those of the first. If the program was first started without
  profiles, the second window makes and saves a starter profile at once, over
  whatever the first saved. `MemoryIsSaved` holds for one window.
* *Acked once.* The ack flags are set by an answer and never cleared. An IPCP ack with
  identifier 0 is accepted in phase Lcp (`pppstate.rs:452`: `ipcp_req_id` starts at 0
  and the phase is not looked at), and a NAK or REJ after an ack leads to a new request
  with the old flag (`pppstate.rs:466`): the network may then come up with the current
  request unanswered. It takes a gateway that answers what it never got, or twice;
  `LayersConsented` and `DeviceGetsLease` except it (`consent` is "unasked" then).
  `LinkLifecycle` speaks of the flags, not of the current request.
* *Early packets.* IP packets of the very batch that brings the network up are written
  to the device before `on_network` configures it (`tunnel.rs:242-268`).
* *Open prompts.* A pkexec prompt nobody answers holds its thread, and a stop raised
  meanwhile is not seen before it is closed (`StoppedThreadsEnd` names it). Held by the
  worker's prompt, the state stays "Connecting" (`ConnectingResolves`).
* *Late errors.* An ERROR logged between `drain_log` and `check_status` by a thread
  that then finishes is shown as a regular end: the state becomes Disconnected
  and stays so (the exception in `ErrorsAreShownUnlessLate`).
* *Reconnecting in state Error* drops the cookie slot of a thread that has not
  finished: its gateway session is not logged out.
* *Profiles by position and name.* `refresh_list` clears the selection, so a second
  Save or Delete, or a Save after New Profile, acts on the first profile while
  the editor shows another. It also resets both drop-downs: saving the settings
  after saving a profile clears auto-connect. A rename or deletion leaves
  auto-connect and Quick Connect pointing to no profile, and "Profile N" may be a
  name already taken. Quick Connect remembers what the combo box shows when the
  connection comes up (`RememberedIsConnected` states when that is the profile
  connected). A connection that ends and is replaced from the window between two
  polls is not seen to come up: the name remembered stays the one before.
* *An unreadable file* is loaded as no configuration and overwritten by a starter
  profile.
* *Relay.* A gateway that never answered an echo is taken not to implement them,
  and its silence is not noticed. A keepalive waits while 16 KiB or more are
  queued; the stall timer covers that case (`SilenceIsNoticed`). What TLS and the
  socket hold already does not count: a gateway that sends nothing and takes less
  than 16 KiB and those buffers in the time of the keepalives that may go unanswered
  (40 s) is given up although it is alive. `RateAssumption` excludes it;
  with a larger TLS buffer `HealthyGatewayKept` fails. An
  HTTP reply in the tunnel is recognized at the front of the buffer only, and
  only if its first six bytes arrive together; otherwise it is skipped as noise.
* *HTTP.* "Transfer-Encoding:chunked" without a blank is not recognized by the
  reader although `header()` would find it. A body framed by the end of the connection
  that ends early but cleanly is taken for the whole (`curtailed`).
* *Slots that are none.* `allocate_tunnel` follows any redirect, without a `Location` to
  `/remote/login`, and takes a 200 for the slot (`auth.rs:420-439`): a gateway that
  sends the client to its log-in page instead is asked for a tunnel all the same.
  `TunnelNeedsSlot` names the case (`elsewhere`).
* *Set-up.* The helper continues after it refused or failed to pin the gateway, so
  the tunnel's transport may be routed into the tunnel until the session is
  dropped (`GatewayStaysOutside` names the case). `ip` resolves a device's name
  again, so one command may reach a device that replaced ours
  (`OtherDeviceSpared`: one at most). A local network with the very prefix of an
  advertised range, a split-DNS domain the helper refuses, or a plan of more
  operations than it takes, fail the whole set-up.
* *Warnings that are not given.* `read_route_table` takes a failed query for an empty
  table (`netcfg.rs:396-404`): no local range is found to shadow the VPN's, nothing is
  logged, and "Tunnel UP!" is sent nevertheless; a failed `route_get` of a DNS server
  gives no warning either (`backend.rs:693`), and a local network that appears after the
  plan is not looked for. `UpMeansRouted` excepts such ranges by name (`missed`, `late`).
* *A killed helper* between `ip route add` and the registry leaves a pin that no registry
  lists, so no helper will delete it (`PinsAreRegistered` names the case, `stranded`).
* *An old pin as the path.* The plan looks up the path to the gateway before the pins
  of earlier sessions are deleted (`netcfg.rs:309`), but they are deleted first: "this
  plan deletes and re-adds it" (`backend.rs:601`). If the path was an old pin's and the
  others lead elsewhere (the network changed since), the helper, which takes only the
  current path (`nethelper.rs:239`), refuses the pin and the set-up fails; the old
  pin is gone by then. `PathIsOldPins` names the case in `CalmSetupSucceeds`.

## 5. Proofs

Each theorem holds for every value of the constants that meets the assumptions
of the modules, which the runs evaluate.

`PppProofs` (assumptions `BoundsAssumption`, `DataAssumption`,
`FramesAssumption`; in particular for the real 10 requests, 4 echoes, 256
identifiers, all MRUs and addresses, any set of gateway frames and any outbox
bound):

* `TypeCorrect`: `Spec => []TypeOK`.
* `InvariantHolds`: `IInv`, the conjunction of `TypeOK`, `GivingUpIsDeath`,
  `FlagsInOrder` (no phase without the flags of the layers below it) and
  `MruAcceptable` (a remembered MRU is at least 576), is inductive. `FlagsInOrder`
  alone is not: `TypeOK` is needed for the counters.
  `MtuFitsPeer` follows only with `MruAcceptable`: the clamp in `tun_mtu` could
  otherwise raise the MTU above what the gateway accepts.
* `GivesUpForGood`, `MtuAlwaysFits`: consequences.
* `ImplementsLifecycle`: `Spec => LifecycleSpec`. Each action is reduced to one of
  four shapes (`StepShape`: within a phase, open, come up, die), and each shape to
  an action of `LinkLifecycle`.
* `RelayKeepsInvariant`, `RelayedMachineIsSafe`, `RelayImplementsLifecycle`: the same
  for the machine in the hands of `run_relay`. Every step of `PppRelay` is one of the
  machine's, of nobody, or the end, which is a death.
* `ConsentHolds`: `ConsentInv` relates the flags to what the gateway said. A set flag
  means that the latest request was acked, or that the gateway answered one it never
  got or twice (`LcpConsent`, `IpcpConsent`); before IPCP was asked an answer to it is
  such a one; while the gateway's consent stands, `local_ip` is what it granted, because
  an open request asks for `local_ip` and an ack without an address grants what was
  asked for. `LayersAreConsented` (`LayersConsented`) and `DeviceGetsItsLease`
  (`DeviceGetsLease`) follow: the device gets its address at the end of the batch in
  which the network came up, and nothing else in the batch may have changed it.
* `LinkInvariantHolds` (with `GatewayAssumption`, for any number of objections and
  repetitions): what the frames in `outbox` and `wire` may still lead to. For the MRU
  (`RequestsFit`, `MruWires`): each refusal removes one of the two flaws a request may
  have, so it is asked at most three times; a request under way to the client is the
  current one or one it will refuse again; a refusal under way to the gateway
  answers an earlier request or names what is wrong with the current one, so once
  the client acked, nothing can move the gateway off its request. For the lease
  (`LeaseWires`): the client asks again only when refused, so of an IPCP request and
  its answer at most one is under way, and none once it was acked; the ack
  carries the lease the gateway recorded. On a looped wire (`LoopedInv`): one frame,
  the client's request or its own NAK of it.
* `MruIsAgreed`, `LeaseIsAgreed`, the two invariants of the run `ppp_link`;
  `LoopNeverOpens`, the safety half of `LoopIsGivenUp`; `MtuFitsGateway`: with the
  bound of the machine, the MTU of the device is at most what the gateway asked for.

`SessionProofs` (assumption `SessionsAssumption`; any number of sessions):

* `InvariantHolds`: the inductive invariant. Types; which steps of thread and worker
  go together (`ThreadsInOrder`); a signal in the channel or the drained log is
  true of its session (`SignalsAreTrue`: "UP" only of a session past negotiation
  whose worker announced it, "ERROR" only of one that is ending); the state tells
  how far the last session is (`StateIsTrue`); a profile not yet given away means
  no logout yet (`LogoutIsPending`); an error is logged before its thread ends
  (`ErrorIsLogged`). `ConnectedIsUp` alone is not inductive: what promotes the state
  was sent earlier, by another thread.
* Of the steps of the relay threads, those that send nothing are proved together
  (`MoveKeeps`); `FactsSurvive` is what a step must leave true for what was said
  about its session to stay true.
* `ConnectedOnlyWhenUp`, `ReplacedSessionsEnd`, `OneLogout`,
  `DisconnectIsAuthoritative` and `ErrorsAreShown` are the properties of the run
  `session`, all five.

`GatewayPinProofs` (assumptions `PinsAssumption`, `SessionsAssumption`; any number of
attempts and of paths to the gateway):

* `InvariantHolds`, also with helpers killed at any point (`DiesTo`). Whose request
  it is and what it may still run (`RequestsInv`); the lock, the registry and the
  kernel's route (`KernelInv`: a route of ours is registered but while the holder of
  the lock is between the two; it is never of an attempt to come); the claim of the
  current attempt, recorded before its worker may ask for the pin (`ClaimInv`); and
  `RecordInv`: an installed pin keeps its record, because neither its own session,
  nor a newer one that found it left over, nor an older one that found it in its way
  can take it for the user's.
* `NoPinIsBeyondReach`, `ClaimIsKept`, `ClaimedPinsCanBeFound`, `UsersRouteIsSafe` and
  `NewerPinIsSafe` are the properties of the run `gateway_pin`, all five.
  `ClaimedPinsAreRecorded` was not true without `unclaimed`: its proof got stuck on
  the three sessions of finding 3, one more than the run has.

`RelayProofs` (assumptions `RelayAssumption`, `RateAssumption`; queues, buffers, batches
and clocks of any size):

* `InvariantHolds`. The gateway takes a frame a tick, so `HealthyGatewayKept` is about
  where the keepalives are: as long as one is unanswered and nothing has come, one is
  among the first `Ahead` frames in line (socket, TLS, queue), and `Ahead` shrinks
  with every tick and every keepalive (`KeepaliveInv`). When the limit is reached
  `Ahead` is less than one by `RateAssumption`, so the answer has come. `ProgressInv`
  does the same for the stall timer: it is past one tick only while the gateway waits
  for us. `SupportIsTrue`: who answered an echo implements them. `SilenceInv`: the
  ticks of silence are at most those the timers show (`Waited`: the keepalives out,
  each with its interval and the stall timeout; the time since the last; and, when
  the next is due and held back, the time without progress).
* `HealthyGatewayIsKept` and `SilenceNoticed` follow. The first needs the rate: see
  section 4. `FloodOnlyOverflows` counts: the queue is its replies, its keepalives and
  packets no further back than `MaxQueued` (`PacketsFit`), and the answers to a batch
  are at most the frames in it that call for one (`BatchIs`, by induction over the
  batch). These are the safety properties of the run `relay`, all three.

`NetSetupProofs` (assumptions `RoutePlanAssumption`, `NetSetupAssumption`; addresses of any
width, any policies, profiles, routes and numbers of operations):

* `InvariantHolds`. What the plan may contain and in which order (`OpsOK`: deletions,
  the pin, what leads into the tunnel; never a route to the gateway or, unpinned, to
  a range that holds it); what was carried out in this order and with which result
  (`PhaseOK`, `ResultsOK`); the routes this leaves (`RoutesOK`, `PinsOK`); the device,
  its replacement and the commands that reached it (`LinkOK`, `DeviceOK`,
  `StraysOK`); the verdict (`VerdictOK`).
* `TransportStaysOutside`, `ReplacementIsSpared` and `FullTunnelOnlyIfMeant` are
  `GatewayStaysOutside`, `OtherDeviceSpared` and `FullTunnelIsMeant` of the run
  `net_setup`.
* `DoneInvariantHolds`: on top of `IInv`, what set-up has done, whatever interferes.
  The plan has every range the tunnel is to carry (`CompleteOK`); a route into the
  tunnel has its range to itself (`TunnelOK`); what the helper added is in the table
  as long as the device is (`AddedOK`; what it found there `apply` looks up again);
  of each local range that hides part of the VPN's the user was warned, or the table
  could not be read, or it appeared after the plan (`WarnedOK`: the other physical
  routes to come are the gateway's pin and a default route); the device is
  configured by the time it is needed (`ConfigOK`). That the pin stays (`PinsOK`)
  has the exception of a device that went with it (`lost`).
* `UpMeansAllIsRouted` (`UpMeansRouted`) follows at the step that announces the
  tunnel. The kernel's lookup prefers the longest prefix (`LookupIs`), so an address
  under an added route leads into the tunnel unless a longer local range holds it;
  two prefixes that hold one address are nested (`BlocksNest`, from divisibility of
  powers of two), so that local range is inside the VPN's and hides it: the user was
  warned, or could not be (`missed`, `late`), or the tunnel is a full one and the
  property excepts it. Of a full tunnel, the two halves hold every address
  (`FullTunnelCarries`).
* `CalmInvariantHolds`: on top of `IInv`, a set-up nothing interferes with. The gateway's
  pin comes right after the old pins and along the path the plan looked up (`PlaceOK`);
  while only old pins were deleted the table is the user's without those (`PathOK`);
  what is in the place of a route is the user's, the tunnel's or the pin
  (`FromUsersOK`); so the helper accepts each operation (`AcceptsAll`), and no result is
  fatal (`FineOK`) unless a user's route is in the way or the path was an old pin's.
* `PlansAreCarriedOut` (`CalmSetupSucceeds`) follows. The property was not true as first
  stated: its proof stopped at the pin whose path is an old pin's (section 4, Set-up),
  which no scenario of the run had. The run has it now.

`LoginProofs` (assumptions `FramingAssumption`, `LoginAssumption`; any base, magic byte,
payload, noise, body, timeout and number of local clients):

* `PopsWhatWasFramed`: `pop_frame` takes from the front of a stream exactly the frame
  that `frame_raw` wrote. `PiecesDoNotMatter`: what the loop around it takes from two
  pieces, one after the other, it takes from both together, and leaves the same
  rest. `FrameAfterNoise`: it skips noise without a magic byte and takes the frame
  behind it. Lengths in the code are 16 bits wide; the theorems are about it for
  payloads whose length fits, which `MAX_MTU` guarantees.
* `InvariantHolds`. During an exchange, what was read, what is under way and a rest
  that a dying gateway may keep are together its response (`Arriving`); between
  exchanges nothing is under way (`ExchangeInv`); what the gateway granted by each
  step, but for a redirect to a page that grants nothing (`GrantInv`); what was
  popped and what would be popped of the bytes not yet taken apart are the payloads
  sent (`TunnelInv`); the clocks of the SAML wait, which need the time of the client
  in it (`SamlInv`).
* `ResponsesAreWhole`, `TunnelIsEarned`, `FramesArriveAsSent` and `SamlWaitIsBounded` are
  the invariants of the run `login`, all four.

`ConfigStoreProofs` (assumption `ConfigAssumption`; any profiles, windows, numbers
of operations and of faults):

* `FileIsNeverTorn`. `FileNeverTorn` becomes inductive with what `save()` is given (a
  configuration), what it has written (that configuration) and that it renames only
  what it synced (`SaveInv`).
* `WhatIsSeenIsSaved`: `MemoryIsSaved` needs that a save under way is of the only
  window's configuration, and that one which failed is the exception the property
  names (`MemoryInv`).
* `QuickConnectRecalls`: `RememberedIsConnected` needs what the combo box shows from the
  moment of connecting on (`RememberInv`).

`DataInduction` states induction over numbers as a fact about sets of them (the
library's version has an operator for parameter, which the provers here cannot
instantiate), proves it from the least element of a set, and proves that a loop over
`1 .. n` and a function defined from its smaller arguments exist. With it, the loops
and recursive functions of `TunnelFraming`, `RoutePlan` and `Relay` are proved about for
every input. Its last section is about powers of two and remainders, of which the
provers know nothing: a larger power is a multiple of a smaller one (`PowerDivides`),
so the blocks of addresses that prefixes are lie within each other or apart
(`BlocksNest`).

Every safety property that a run checks and expects to hold is thus a theorem, and so
are the two refinements of `LinkLifecycle`. Only model-checked is liveness, which is out
of the prover's reach: `NegotiationCompletes`, `LoopIsGivenUp` (but for its safety half),
`ConnectingResolves`, `StoppedThreadsEnd`, `StopEnds`, `CallbackIsTaken` and `LoginEnds`.

## 6. Not modelled

See `components` in `PROJECT.json` for each part. Left out for good, because no
state that matters depends on it or because it is another program's:

* Option bytes, XML, JSON, cookies, log lines, notes: parsing and wording. Where
  a failure of the parsing matters it is an outcome ("unreadable", "malformed").
* A response with both a length and chunks (RFC 9112 forbids it), and a frame whose header
  is damaged but for its magic bytes: its length cannot be told from a true one.
* In `NetSetup`, a helper killed within its request (`GatewayPin` has that).
* TLS and certificate checks (a library), opening the TUN device and moving
  packets (the kernel), pkexec's own dialog.
* Widgets beyond what picks or changes a profile, window visibility, the quit
  dialog, the log view and its cut at 1000 lines.
* A host without `/run/user`, where attempts have no identity; the migration of
  the pin-state file of older versions.
* Maintainer scripts and CI.

## 7. What could follow

An abstract specification for `GatewayPin` (one owner per pin, handed over by
attempts) and its refinement; hosts without an attempt id.
