----------------------------- MODULE GatewayPin -----------------------------
(***************************************************************************)
(* Who owns the gateway pin: the relay threads and setup workers of        *)
(* connect_inner_impl (engine/backend.rs) with the records and attempts of *)
(* engine/netcfg.rs, over the helper of PinHelper.                         *)
(*                                                                         *)
(* A session is a connection attempt; attempts are numbered as they begin. *)
(* The records are a file shared by all of them and updated under a lock,  *)
(* here one step per update: pin and the tag of an attempt.  Queries of    *)
(* the kernel's routes may fail ("unknown").                               *)
(***************************************************************************)
EXTENDS PinHelper

VARIABLES
  records,    \* the pin-state file: the tag of each pin, 0 for none
  elevation,  \* "sudo" (no prompt) or "pkexec"
  overtaken,  \* history: an attempt began while the helper of an older one was past its checks
  unclaimed,  \* history: the sessions that asked a helper for a pin they do not claim
  pc,         \* of the relay thread of each session
  stop,       \* its stop flag
  idle,       \* prev_setup_idle
  stale,      \* pins it found to be left over
  gone,       \* pins it is about to remove or to forget
  pin,        \* gw_pin of its plan: the pin to add
  owned,      \* owned_pin: the one it claims
  slot,       \* gw_pin: the pin to remove at the end
  worker      \* of the setup worker

hostVars == <<elevation, overtaken, unclaimed>>
foundVars == <<idle, stale, gone>>
claimVars == <<pin, owned, slot>>
vars == <<helperVars, records, hostVars, pc, stop, foundVars, claimVars, worker>>

ThreadSteps == {"off", "wait", "list", "forget", "remove", "removing", "connect", "retry",
                "retrying", "network", "plan", "record", "spawn", "push", "up", "ending",
                "judge", "unpin", "done"}
WorkerSteps == {"none", "apply", "applying", "clear", "over"}

Init ==
  /\ HelperInit
  /\ records = [p \in Pins |-> 0] /\ elevation \in {"sudo", "pkexec"}
  /\ pc = [s \in Sessions |-> "off"] /\ worker = [s \in Sessions |-> "none"]
  /\ stop = [s \in Sessions |-> FALSE]
  /\ idle = [s \in Sessions |-> FALSE]
  /\ stale = [s \in Sessions |-> {}] /\ gone = [s \in Sessions |-> {}]
  /\ pin = [s \in Sessions |-> NoPin]
  /\ owned = [s \in Sessions |-> NoPin] /\ slot = [s \in Sessions |-> NoPin]
  /\ overtaken = FALSE /\ unclaimed = {}

Recorded == {p \in Pins : records[p] # 0}
Goes(s, step) == pc' = [pc EXCEPT ![s] = step]

\* What the setup found and planned is dropped with the last thread that has it.
DropsPlan(s) ==
  /\ idle' = [idle EXCEPT ![s] = FALSE] /\ stale' = [stale EXCEPT ![s] = {}]
  /\ pin' = [pin EXCEPT ![s] = NoPin] /\ owned' = [owned EXCEPT ![s] = NoPin]

-----------------------------------------------------------------------------
(* The updates of the pin-state file. *)

TakesOver(p, tag) == TRUE     \* mutant: a superseded attempt takes over
MayRetag(p, tag) == records[p] \in {0, tag} \/ records[p] # attempt
RecordPin(p, tag) == records' = IF MayRetag(p, tag) THEN [records EXCEPT ![p] = tag] ELSE records

ForgetOwn(p, tag) ==
  records' = IF p # NoPin /\ records[p] = tag THEN [records EXCEPT ![p] = 0] ELSE records

Obsolete(p) == ~Has(p) /\ records[p] # attempt
\* forget_absent: a failed query forgets nothing.
ForgetAbsent(pins) ==
  \E unknown \in SUBSET Pins :
    records' = [p \in Pins |-> IF p \in pins \ unknown /\ Obsolete(p) THEN 0 ELSE records[p]]

-----------------------------------------------------------------------------
(* The relay thread, up to the network setup. *)

\* connect(), whatever the session before is doing.
Begin(s) ==
  /\ pc[s] = "off" /\ attempt = s - 1
  /\ attempt' = s
  /\ Goes(s, "wait")
  /\ overtaken' = (overtaken \/ lock # 0)
  /\ UNCHANGED <<kernelVars, tun, req, records, elevation, unclaimed, stop, foundVars, claimVars, worker>>

UserStops(s) ==
  /\ pc[s] \notin {"off", "done"} /\ ~stop[s]
  /\ stop' = [stop EXCEPT ![s] = TRUE]
  /\ UNCHANGED <<helperVars, records, hostVars, pc, foundVars, claimVars, worker>>

\* SETUP_WORKERS: a worker is listed after it was spawned.
Listed(s) == worker[s] \notin {"none", "over"} /\ pc[s] # "push"
WorkersRunning == \E s \in Sessions : Listed(s)

\* wait_setup_workers.
WaitsForWorkers(s) ==
  /\ pc[s] = "wait"
  /\ idle' = [idle EXCEPT ![s] = ~WorkersRunning]
  /\ Goes(s, IF WorkersRunning THEN "connect" ELSE "list")
  /\ UNCHANGED <<helperVars, records, hostVars, stop, stale, gone, claimVars, worker>>

ListsPins(s) ==
  /\ pc[s] = "list"
  /\ \E unknown \in SUBSET Recorded :
       LET present == {p \in Recorded : Has(p) \/ p \in unknown} IN
       /\ stale' = [stale EXCEPT ![s] = present]
       /\ gone' = [gone EXCEPT ![s] = Recorded \ present]
  /\ Goes(s, "forget")
  /\ UNCHANGED <<helperVars, records, hostVars, stop, idle, claimVars, worker>>

ForgetsGone(s) ==
  /\ pc[s] = "forget"
  /\ ForgetAbsent(gone[s])
  /\ gone' = [gone EXCEPT ![s] = {}]
  /\ Goes(s, IF stale[s] = {} THEN "connect" ELSE "remove")
  /\ UNCHANGED <<helperVars, hostVars, stop, idle, stale, claimVars, worker>>

\* Before connecting, a prompt is worth only pins that lead nowhere.
Harmful(p) == p # path
ToRemove(s) ==
  IF elevation = "pkexec" /\ pc[s] = "remove" THEN {p \in stale[s] : Harmful(p)} ELSE stale[s]

\* remove_pins, at first or again when the gateway could not be reached.
RequestsRemoval(s) ==
  /\ pc[s] \in {"remove", "retry"}
  /\ \E unknown \in SUBSET ToRemove(s) :
       LET present == {p \in ToRemove(s) : Has(p) \/ p \in unknown} IN
       req' = IF present = {} THEN req ELSE [req EXCEPT ![s] = Asking(present, NoPin)]
  /\ gone' = [gone EXCEPT ![s] = ToRemove(s)]
  /\ Goes(s, IF pc[s] = "remove" THEN "removing" ELSE "retrying")
  /\ UNCHANGED <<attempt, tun, kernelVars, records, hostVars, stop, idle, stale, claimVars, worker>>

Answered(s) == req[s].st \in {"none", "done"}

\* What is confirmed gone is forgotten; the rest stays pending.
ForgetsRemoved(s) ==
  /\ pc[s] \in {"removing", "retrying"} /\ Answered(s)
  /\ pc[s] = "retrying" => ~stop[s] /\ attempt = s
  /\ \E removed \in SUBSET {p \in gone[s] : ~Has(p)} :
       /\ stale' = [stale EXCEPT ![s] = @ \ removed]
       /\ ForgetAbsent(removed)
  /\ gone' = [gone EXCEPT ![s] = {}]
  /\ req' = [req EXCEPT ![s] = NoRequest]
  /\ Goes(s, IF pc[s] = "removing" THEN "connect" ELSE "network")
  /\ UNCHANGED <<attempt, tun, kernelVars, hostVars, stop, idle, claimVars, worker>>

\* The attempt was cancelled or superseded while the prompt was open.
RetryCancelled(s) ==
  /\ pc[s] = "retrying" /\ Answered(s)
  /\ stop[s] \/ attempt # s
  /\ req' = [req EXCEPT ![s] = NoRequest]
  /\ gone' = [gone EXCEPT ![s] = {}]
  /\ Goes(s, "done") /\ DropsPlan(s)
  /\ UNCHANGED <<attempt, tun, kernelVars, records, hostVars, stop, slot, worker>>

Connects(s) ==
  /\ pc[s] = "connect"
  /\ \/ Goes(s, "network")
     \/ stale[s] # {} /\ ~stop[s] /\ Goes(s, "retry")
  /\ UNCHANGED <<helperVars, records, hostVars, stop, foundVars, claimVars, worker>>

\* Any error, or the stop flag, before there is a claim.
GivesUp(s) ==
  /\ pc[s] \in {"connect", "network"}
  /\ Goes(s, "done") /\ DropsPlan(s)
  /\ UNCHANGED <<helperVars, records, hostVars, stop, gone, slot, worker>>

-----------------------------------------------------------------------------
(* The network setup: on_network, then the worker. *)

\* The TUN device is there and IPCP is done: the pins left over are loaded again.
LoadsStale(s) ==
  /\ pc[s] = "network"
  /\ tun' = tun \cup {s}
  /\ \E unknown \in SUBSET Recorded :
       stale' = [stale EXCEPT ![s] =
         IF idle[s] THEN {p \in Recorded : Has(p) \/ p \in unknown} ELSE {}]
  /\ Goes(s, "plan")
  /\ UNCHANGED <<attempt, req, kernelVars, records, hostVars, stop, idle, gone, claimVars, worker>>

\* plan: the pin copies the current path, unless the profile or the gateway's
\* address calls for none.  A pin is ours if it is one of the stale ones, or not
\* known to be there.
Plans(s) ==
  /\ pc[s] = "plan"
  /\ \E p \in {CurrentPath, NoPin}, unknown \in BOOLEAN :
       /\ pin' = [pin EXCEPT ![s] = p]
       /\ owned' = [owned EXCEPT ![s] =
            IF p \in stale[s] \/ ~Has(p) \/ unknown THEN p ELSE NoPin]
  /\ Goes(s, "record")
  /\ UNCHANGED <<helperVars, records, hostVars, stop, foundVars, slot, worker>>

\* The record comes before the route; a worker is needed if there is anything to do.
Records(s) ==
  /\ pc[s] = "record"
  /\ IF owned[s] = NoPin THEN UNCHANGED records ELSE RecordPin(owned[s], s)
  /\ slot' = [slot EXCEPT ![s] = owned[s]]
  /\ \/ Goes(s, "spawn")
     \/ pin[s] = NoPin /\ stale[s] = {} /\ Goes(s, "up")
  /\ UNCHANGED <<helperVars, hostVars, stop, foundVars, pin, owned, worker>>

\* The plan or the record fails: so does on_network.
SetupFails(s) ==
  /\ pc[s] \in {"plan", "record"}
  /\ Goes(s, "ending") /\ DropsPlan(s)
  /\ UNCHANGED <<helperVars, records, hostVars, stop, gone, slot, worker>>

Spawns(s) ==
  /\ pc[s] = "spawn"
  /\ worker' = [worker EXCEPT ![s] = "apply"]
  /\ Goes(s, "push")
  /\ UNCHANGED <<helperVars, records, hostVars, stop, foundVars, claimVars>>

Pushes(s) ==
  /\ pc[s] = "push"
  /\ Goes(s, "up")
  /\ UNCHANGED <<helperVars, records, hostVars, stop, foundVars, claimVars, worker>>

\* apply: nothing is sent once the session was stopped or its device is gone.
WorkerApplies(s) ==
  /\ worker[s] = "apply"
  /\ IF stop[s] \/ s \notin tun
     THEN worker' = [worker EXCEPT ![s] = "clear"] /\ UNCHANGED <<req, unclaimed>>
     ELSE /\ worker' = [worker EXCEPT ![s] = "applying"]
          /\ req' = [req EXCEPT ![s] = Asking(stale[s], pin[s])]
          /\ unclaimed' = IF owned[s] = pin[s] THEN unclaimed ELSE unclaimed \cup {s}
  /\ UNCHANGED <<attempt, tun, kernelVars, records, elevation, overtaken, pc, stop, foundVars, claimVars>>

\* Mutant: a pin left over, which the helper did not delete, counts as the user's.
LeftOverIsUsers(s) == owned[s] # NoPin /\ idle[s] /\ req[s].exists
\* EEXIST: the route is the user's, unless another worker may have added it.
IsUsers(s) ==
  owned[s] # NoPin /\ idle[s] /\ req[s].exists /\ owned[s] \notin stale[s]

WorkerSettles(s) ==
  /\ worker[s] = "applying" /\ Answered(s)
  /\ IF IsUsers(s) THEN slot' = [slot EXCEPT ![s] = NoPin] /\ ForgetOwn(owned[s], s)
     ELSE UNCHANGED <<slot, records>>
  /\ req' = [req EXCEPT ![s] = NoRequest]
  /\ worker' = [worker EXCEPT ![s] = "clear"]
  /\ UNCHANGED <<attempt, tun, kernelVars, hostVars, pc, stop, foundVars, pin, owned>>

\* A setup that failed also raises the stop flag: see UserStops.
WorkerClears(s) ==
  /\ worker[s] = "clear"
  /\ ForgetAbsent(stale[s])
  /\ DropsPlan(s)
  /\ worker' = [worker EXCEPT ![s] = "over"]
  /\ UNCHANGED <<helperVars, hostVars, pc, stop, gone, slot>>

-----------------------------------------------------------------------------
(* The end of a session. *)

RelayEnds(s) ==
  /\ pc[s] = "up"
  /\ Goes(s, "ending")
  /\ UNCHANGED <<helperVars, records, hostVars, stop, foundVars, claimVars, worker>>

\* While a worker runs, the pin is left to a later session.
WaitsForSetup(s) ==
  /\ pc[s] = "ending"
  /\ stop' = [stop EXCEPT ![s] = TRUE]
  /\ IF WorkersRunning THEN Goes(s, "done") /\ tun' = tun \ {s} /\ slot' = [slot EXCEPT ![s] = NoPin]
     ELSE Goes(s, "judge") /\ UNCHANGED <<tun, slot>>
  /\ UNCHANGED <<attempt, req, kernelVars, records, hostVars, foundVars, pin, owned, worker>>

MayRemove(s) == attempt = s

\* remove_gateway_pin, without a prompt only.
AsksToUnpin(s) ==
  /\ pc[s] = "judge" /\ slot[s] # NoPin /\ MayRemove(s) /\ elevation = "sudo"
  /\ req' = [req EXCEPT ![s] = Asking({slot[s]}, NoPin)]
  /\ Goes(s, "unpin")
  /\ UNCHANGED <<attempt, tun, kernelVars, records, hostVars, stop, foundVars, claimVars, worker>>

\* The pin is gone, removed by the helper or otherwise: the claim is given up.
GivesUpClaim(s) ==
  /\ \/ pc[s] = "unpin" /\ Answered(s)
     \/ pc[s] = "judge" /\ MayRemove(s) /\ elevation = "sudo"
  /\ slot[s] # NoPin /\ ~Has(slot[s])
  /\ ForgetOwn(slot[s], s)
  /\ req' = [req EXCEPT ![s] = NoRequest]
  /\ Goes(s, "done") /\ tun' = tun \ {s} /\ slot' = [slot EXCEPT ![s] = NoPin]
  /\ UNCHANGED <<attempt, kernelVars, hostVars, stop, foundVars, pin, owned, worker>>

\* There is none, or it stays for a later session to remove.
KeepsPin(s) ==
  /\ \/ pc[s] = "unpin" /\ Answered(s)
     \/ pc[s] = "judge" /\ (slot[s] = NoPin \/ ~MayRemove(s) \/ elevation = "pkexec")
  /\ req' = [req EXCEPT ![s] = NoRequest]
  /\ Goes(s, "done") /\ tun' = tun \ {s} /\ slot' = [slot EXCEPT ![s] = NoPin]
  /\ UNCHANGED <<attempt, kernelVars, records, hostVars, stop, foundVars, pin, owned, worker>>

\* The application dies with all its threads; helpers go on.
Crash ==
  /\ changes < MaxChanges /\ changes' = changes + 1
  /\ pc' = [s \in Sessions |-> IF pc[s] = "off" THEN "off" ELSE "done"]
  /\ worker' = [s \in Sessions |-> IF worker[s] = "none" THEN "none" ELSE "over"]
  /\ tun' = {}
  /\ idle' = [s \in Sessions |-> FALSE]
  /\ stale' = [s \in Sessions |-> {}] /\ gone' = [s \in Sessions |-> {}]
  /\ pin' = [s \in Sessions |-> NoPin] /\ owned' = [s \in Sessions |-> NoPin]
  /\ slot' = [s \in Sessions |-> NoPin]
  /\ stop' = [s \in Sessions |-> FALSE]
  /\ UNCHANGED <<attempt, req, lock, registry, route, path, stranded, records, hostVars>>

AppNext(s) ==
  \/ Begin(s) \/ UserStops(s) \/ WaitsForWorkers(s) \/ ListsPins(s) \/ ForgetsGone(s)
  \/ RequestsRemoval(s) \/ ForgetsRemoved(s) \/ RetryCancelled(s) \/ Connects(s) \/ GivesUp(s)
  \/ LoadsStale(s) \/ Plans(s) \/ Records(s) \/ SetupFails(s) \/ Spawns(s) \/ Pushes(s)
  \/ WorkerApplies(s) \/ WorkerSettles(s) \/ WorkerClears(s)
  \/ RelayEnds(s) \/ WaitsForSetup(s) \/ AsksToUnpin(s) \/ GivesUpClaim(s) \/ KeepsPin(s)

Next ==
  \/ \E s \in Sessions :
       \/ AppNext(s)
       \/ HelperNext(s) /\ UNCHANGED <<records, hostVars, pc, stop, foundVars, claimVars, worker>>
  \/ (NetworkChanges \/ UserAddsRoute)
       /\ UNCHANGED <<records, hostVars, pc, stop, foundVars, claimVars, worker>>
  \/ Crash

Spec == Init /\ [][Next]_vars

-----------------------------------------------------------------------------
(* Properties. *)

\* No helper ever removes or replaces a route of the user's, even one identical to
\* a pin on record.
UsersRouteStays ==
  [][route # NoRoute /\ route.by = 0 /\ route' # route => UNCHANGED req]_vars

\* A request of an older session never removes the pin a newer one installed,
\* though the registry cannot tell them apart and the request may have waited for a
\* prompt or for the lock (nethelper.rs, execute).
NewerPinStays ==
  [][\A s \in Sessions : req'[s] # req[s] /\ route' # route => route.by <= s]_vars

\* "Never leave a pin nobody may delete" (nethelper.rs, execute): between operations
\* every pin of ours is registered, unless registering and rolling back both failed or
\* the helper was killed between the two.
PinsAreRegistered ==
  lock = 0 /\ route.by # 0 /\ ~stranded => route.pin \in registry

\* Nobody forgets or takes over the record of the pin that the current attempt
\* claims, whatever older threads and workers still do, from before it is
\* installed (a prompt may be open) until the attempt gives it up.
CurrentClaimIsKept ==
  attempt # 0 /\ slot[attempt] # NoPin => records[slot[attempt]] = attempt

\* "An unrecorded pin could never be found and removed later" (backend.rs, on_network):
\* a pin that is installed is on record.
PinsAreRecorded == route.by # 0 => records[route.pin] # 0

\* It is if its session claimed it and as long as no attempt began while the helper
\* of an older one was between its last check and the kernel command.  A session does
\* not claim a pin it finds installed by the worker of an older one; when that route
\* is gone before its own request is run, it installs the pin all the same.
ClaimedPinsAreRecorded ==
  route.by \notin unclaimed /\ ~overtaken => PinsAreRecorded
=============================================================================
