------------------------------ MODULE PinHelper ------------------------------
(***************************************************************************)
(* The privileged helper (execute in engine/nethelper.rs) as far as        *)
(* gateway pins go: host routes to the gateway over the physical network,  *)
(* which outlive the TUN device and have to be deleted by someone.         *)
(*                                                                         *)
(* A request is run by a process of its own, which goes on when the        *)
(* application that sent it has died.  Requests of several sessions run    *)
(* side by side; the pin lock serializes their operations, and the file    *)
(* that names the current attempt tells a superseded one.                  *)
(*                                                                         *)
(* There is one gateway, so a pin is named by the path it takes (next hop  *)
(* and device), and the kernel has at most one route to it.  Operations on *)
(* the TUN device follow those on pins and change nothing here.            *)
(***************************************************************************)
EXTENDS Naturals

CONSTANTS
  Pins,           \* paths to the gateway
  NoPin,
  MaxSessions,    \* bound of the model: connection attempts
  MaxChanges      \* bound of the model: network changes, user's routes, crashes, killed helpers

ASSUME PinsAssumption == Pins # {} /\ NoPin \notin Pins
ASSUME SessionsAssumption == MaxSessions \in Nat \ {0} /\ MaxChanges \in Nat

Sessions == 1 .. MaxSessions

VARIABLES
  attempt,    \* the current attempt, 0 before the first one
  lock,       \* the session whose request holds the pin lock, or 0
  registry,   \* pins the helper installed for the caller
  route,      \* the kernel's route to the gateway
  path,       \* the default path of the host
  tun,        \* the sessions whose TUN device exists
  req,        \* the request each session has sent to a helper
  changes,    \* counts network changes, the user's routes, crashes and killed helpers
  stranded    \* history: a pin was installed and neither registered nor removed

kernelVars == <<lock, registry, route, path, changes, stranded>>
helperVars == <<attempt, tun, req, kernelVars>>

\* A route carries the session that added it; the user's own carry 0.
NoRoute == [pin |-> NoPin, by |-> 0]
Routes == [pin : Pins, by : 0 .. MaxSessions] \cup {NoRoute}

\* RouteEntry::matches: the same identity and the application's route marker.
Has(p) == route.pin = p /\ route.by # 0

\* ip route get: a host route wins over the default one.
CurrentPath == IF route = NoRoute THEN path ELSE route.pin

(* A request: pins to delete, then one to add; st is how far it is:        *)
(*   "asked"   sudo or pkexec was called, the prompt may be open           *)
(*   "ready"   between two operations     "queued" waits for the pin lock  *)
(*   "valid"   the operation passed its checks, under the lock             *)
(*   "ran"     the kernel did it, the registry does not know yet           *)
(*   "done"    the response is there                                       *)
RequestSteps == {"none", "asked", "ready", "queued", "valid", "ran", "done"}
Requests ==
  [st : RequestSteps, dels : SUBSET Pins, add : Pins \cup {NoPin},
   op : Pins \cup {NoPin}, exists : BOOLEAN]

NoRequest == [st |-> "none", dels |-> {}, add |-> NoPin, op |-> NoPin, exists |-> FALSE]
Asking(dels, add) == [NoRequest EXCEPT !.st = "asked", !.dels = dels, !.add = add]

\* Stale pins are deleted first, in any order.
Deletes(s) == req[s].dels # {}
NextOps(s) == IF Deletes(s) THEN req[s].dels ELSE {req[s].add} \ {NoPin}

HelperInit ==
  /\ attempt = 0 /\ lock = 0 /\ registry = {} /\ tun = {} /\ changes = 0
  /\ path \in Pins
  /\ route \in {NoRoute} \cup [pin : Pins, by : {0}]
  /\ req = [s \in Sessions |-> NoRequest]
  /\ stranded = FALSE

-----------------------------------------------------------------------------
Moves(s, st) == req' = [req EXCEPT ![s].st = st]

\* The response is there; what was not run is skipped.
Responds(s) == req' = [req EXCEPT ![s] = [NoRequest EXCEPT !.st = "done", !.exists = req[s].exists]]

\* The operation is over: its result is pushed and the next one is up.
OpOver(s, exists) ==
  req' = [req EXCEPT ![s] =
    [req[s] EXCEPT !.st = "ready", !.op = NoPin, !.exists = req[s].exists \/ exists,
                   !.dels = req[s].dels \ {req[s].op},
                   !.add = IF Deletes(s) THEN req[s].add ELSE NoPin]]

\* The prompt was dismissed, or there is no helper to run.
HelperRefused(s) ==
  /\ req[s].st = "asked"
  /\ Responds(s)
  /\ UNCHANGED <<attempt, tun, kernelVars>>

\* The check before each operation; the helper may start late, behind a prompt.
HelperChecks(s) ==
  /\ req[s].st \in {"asked", "ready"}
  /\ IF attempt # s \/ NextOps(s) = {}
     THEN Responds(s)
     ELSE \E p \in NextOps(s) : req' = [req EXCEPT ![s] = [req[s] EXCEPT !.st = "queued", !.op = p]]
  /\ UNCHANGED <<attempt, tun, kernelVars>>

\* op_lock gives up after OP_LOCK_WAIT.
HelperTimesOut(s) ==
  /\ req[s].st = "queued" /\ lock # 0
  /\ OpOver(s, FALSE)
  /\ UNCHANGED <<attempt, tun, kernelVars>>

LockFree == lock = 0

CurrentAnyway(s) == TRUE      \* mutant: the attempt is not checked under the lock
StillCurrent(s) == attempt = s

\* plan_op: a pin may be deleted if it is registered, and added while the session's
\* TUN device lives and only along the current path.
Valid(s) == IF Deletes(s) THEN req[s].op \in registry
            ELSE s \in tun /\ CurrentPath = req[s].op

\* The lock is there: the attempt and the operation are checked under it.
HelperValidates(s) ==
  /\ req[s].st = "queued" /\ LockFree
  /\ IF StillCurrent(s) /\ Valid(s) THEN Moves(s, "valid") /\ lock' = s
     ELSE /\ IF StillCurrent(s) THEN OpOver(s, FALSE) ELSE Responds(s)
          /\ UNCHANGED lock
  /\ UNCHANGED <<attempt, registry, route, path, tun, changes, stranded>>

\* pin_fields: the device is gone, and its routes with it.
HelperRejects(s) ==
  /\ req[s].st = "queued" /\ LockFree /\ StillCurrent(s) /\ route.pin # req[s].op
  /\ OpOver(s, FALSE)
  /\ UNCHANGED <<attempt, tun, kernelVars>>

DeletesAny(p) == route.pin = p   \* mutant: ip route del without the route marker
Deleted(p) == Has(p)

\* ip route del; "No such process" counts as deleted.
HelperDeletes(s) ==
  /\ req[s].st = "valid" /\ Deletes(s)
  /\ route' = IF Deleted(req[s].op) THEN NoRoute ELSE route
  /\ Moves(s, "ran")
  /\ UNCHANGED <<attempt, lock, registry, path, tun, changes, stranded>>

\* ip route add: a route to the same destination is EEXIST.
HelperAdds(s) ==
  /\ req[s].st = "valid" /\ ~Deletes(s)
  /\ IF route = NoRoute
     THEN route' = [pin |-> req[s].op, by |-> s] /\ Moves(s, "ran") /\ UNCHANGED lock
     ELSE OpOver(s, TRUE) /\ lock' = 0 /\ UNCHANGED route
  /\ UNCHANGED <<attempt, registry, path, tun, changes, stranded>>

\* unregister_pin, whose failure goes unnoticed.
HelperUnregisters(s) ==
  /\ req[s].st = "ran" /\ Deletes(s)
  /\ registry' \in {registry, registry \ {req[s].op}}
  /\ OpOver(s, FALSE) /\ lock' = 0
  /\ UNCHANGED <<attempt, route, path, tun, changes, stranded>>

HelperRegisters(s) ==
  /\ req[s].st = "ran" /\ ~Deletes(s)
  /\ registry' = registry \cup {req[s].op}
  /\ OpOver(s, FALSE) /\ lock' = 0
  /\ UNCHANGED <<attempt, route, path, tun, changes, stranded>>

NotUndone(p) == route         \* mutant: a pin that cannot be registered stays
Undone(p) == IF Has(p) THEN NoRoute ELSE route

\* The pin could not be registered: the route is rolled back, or that fails too.
HelperRollsBack(s) ==
  /\ req[s].st = "ran" /\ ~Deletes(s)
  /\ \/ route' = Undone(req[s].op) /\ UNCHANGED stranded
     \/ stranded' = TRUE /\ UNCHANGED route
  /\ OpOver(s, FALSE) /\ lock' = 0
  /\ UNCHANGED <<attempt, registry, path, tun, changes>>

\* It is killed, and with it go the lock and the response; what the kernel did stays.
HelperDies(s) ==
  /\ changes < MaxChanges /\ changes' = changes + 1
  /\ req[s].st \in {"ready", "queued", "valid", "ran"}
  /\ stranded' = (stranded \/ (req[s].st = "ran" /\ ~Deletes(s)))
  /\ lock' = IF lock = s THEN 0 ELSE lock
  /\ req' = [req EXCEPT ![s] = [NoRequest EXCEPT !.st = "done"]]
  /\ UNCHANGED <<attempt, registry, route, path, tun>>

HelperNext(s) ==
  \/ HelperRefused(s) \/ HelperChecks(s) \/ HelperTimesOut(s)
  \/ HelperValidates(s) \/ HelperRejects(s) \/ HelperDeletes(s) \/ HelperAdds(s)
  \/ HelperUnregisters(s) \/ HelperRegisters(s) \/ HelperRollsBack(s) \/ HelperDies(s)

-----------------------------------------------------------------------------
(* The host, external to the program. *)

\* Another network: routes over a device that went away are gone.
NetworkChanges ==
  /\ changes < MaxChanges /\ changes' = changes + 1
  /\ path' \in Pins \ {path}
  /\ route' \in {route, NoRoute}
  /\ UNCHANGED <<attempt, lock, registry, tun, req, stranded>>

UserAddsRoute ==
  /\ changes < MaxChanges /\ changes' = changes + 1
  /\ route = NoRoute
  /\ \E p \in Pins : route' = [pin |-> p, by |-> 0]
  /\ UNCHANGED <<attempt, lock, registry, path, tun, req, stranded>>
=============================================================================
