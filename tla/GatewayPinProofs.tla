-------------------------- MODULE GatewayPinProofs --------------------------
(***************************************************************************)
(* Theorems about GatewayPin and the helper of PinHelper, for any number   *)
(* of attempts, paths, network changes and crashes.                        *)
(***************************************************************************)
EXTENDS GatewayPin, TLAPS

-----------------------------------------------------------------------------
(* The inductive invariant. *)

\* Every variable in its range.
TypeOK ==
  /\ attempt \in 0 .. MaxSessions /\ lock \in 0 .. MaxSessions /\ changes \in Nat
  /\ registry \in SUBSET Pins /\ tun \in SUBSET Sessions /\ unclaimed \in SUBSET Sessions
  /\ route \in Routes /\ path \in Pins /\ stranded \in BOOLEAN /\ overtaken \in BOOLEAN
  /\ req \in [Sessions -> Requests] /\ records \in [Pins -> 0 .. MaxSessions]
  /\ pc \in [Sessions -> ThreadSteps] /\ worker \in [Sessions -> WorkerSteps]
  /\ stop \in [Sessions -> BOOLEAN] /\ idle \in [Sessions -> BOOLEAN]
  /\ stale \in [Sessions -> SUBSET Pins] /\ gone \in [Sessions -> SUBSET Pins]
  /\ pin \in [Sessions -> Pins \cup {NoPin}] /\ owned \in [Sessions -> Pins \cup {NoPin}]
  /\ slot \in [Sessions -> Pins \cup {NoPin}]

\* A request runs an operation it was asked for, deletes before it adds, and learns
\* of a route in the way only from its add, which comes last.
WellFormed(r) ==
  /\ r.st \in {"queued", "valid", "ran"} =>
       r.op \in IF r.dels # {} THEN r.dels ELSE {r.add} \ {NoPin}
  /\ r.st = "none" => r = NoRequest
  /\ r.exists => r.add = NoPin /\ r.dels = {}

\* Whose request it is: the worker's while it waits for an answer, the relay thread's
\* only before there is a worker or after, and nobody's after a crash.
AskerInv(s) ==
  /\ req[s].st # "none" =>
       \/ worker[s] = "applying"
       \/ worker[s] \in {"none", "over"} /\ pc[s] \in {"removing", "retrying", "unpin", "done"}
  /\ req[s].add # NoPin => worker[s] \in {"applying", "over"}
  /\ worker[s] # "none" => pc[s] \in {"push", "up", "ending", "judge", "unpin", "done"}
  /\ worker[s] \in {"apply", "applying", "clear"} => pc[s] \in {"push", "up", "ending", "done"}
  /\ (pc[s] = "off") <=> (s > attempt)
  /\ pc[s] = "off" => slot[s] = NoPin

RequestsInv == \A s \in Sessions : WellFormed(req[s]) /\ AskerInv(s)

\* The request that holds the lock is the one past its checks.
LockInv == \A s \in Sessions : (req[s].st \in {"valid", "ran"}) <=> (lock = s)

\* Under the lock, a pin is installed before it is registered and removed before it
\* is unregistered.
Adding == lock # 0 /\ req[lock].st = "ran" /\ ~Deletes(lock) /\ route.pin = req[lock].op
RegistryInv ==
  /\ route.by # 0 /\ ~stranded => route.pin \in registry \/ Adding
  /\ lock # 0 /\ req[lock].st = "ran" /\ Deletes(lock) => ~Has(req[lock].op)

\* No route is of an attempt to come, nor newer than the request that holds the lock.
AgeInv == route.by <= attempt /\ (lock # 0 => route.by <= lock)

KernelInv == LockInv /\ RegistryInv /\ AgeInv

\* The current attempt's claim is on record from before its worker may ask for the
\* pin, and as long as a helper may still install it.
ClaimInv ==
  /\ CurrentClaimIsKept
  /\ \A s \in Sessions : attempt = s =>
       /\ (pc[s] = "spawn" \/ worker[s] = "apply") /\ owned[s] # NoPin => records[owned[s]] = s
       /\ req[s].add # NoPin /\ s \notin unclaimed => records[req[s].add] = s

\* An installed pin that ClaimedPinsAreRecorded is about.
Claimed == ~overtaken /\ route.by # 0 /\ route.by \notin unclaimed

\* A thread that has loaded the pins left over.
SetUp == {"plan", "record", "spawn", "push", "up", "ending", "judge", "unpin", "done"}

\* While no attempt was overtaken, the request past its checks is the current one's.
LockIsCurrent == ~overtaken /\ lock # 0 => attempt = lock

\* The session that installed the pin adds once: nothing was, and nothing will be, in
\* the way of its request.
InstalledOnce(s) ==
  route.by = s =>
    /\ worker[s] \in {"applying", "clear", "over"}
    /\ req[s].add = NoPin \/ (req[s].st = "ran" /\ ~Deletes(s))
    /\ ~req[s].exists

\* A newer session, which began while no worker ran, found the pin left over.
FoundLeftOver(s) ==
  Claimed /\ idle[s] /\ pc[s] \in SetUp /\ route.by < s => route.pin \in stale[s]

\* An older one that found the pin in its way has lost the record to the newer claim.
LostRecord(s) ==
  Claimed /\ req[s].exists /\ owned[s] = route.pin /\ route.by > s => records[route.pin] # s

\* An installed pin stays on record since no worker takes it for the user's: not its
\* own session's, not a newer one's, not an older one's.
RecordInv ==
  /\ LockIsCurrent
  /\ Claimed => records[route.pin] # 0
  /\ \A s \in Sessions : InstalledOnce(s) /\ FoundLeftOver(s) /\ LostRecord(s)

IInv == TypeOK /\ RequestsInv /\ KernelInv /\ ClaimInv /\ RecordInv

-----------------------------------------------------------------------------
(* What the operators do to a request and to the records. *)

USE PinsAssumption, SessionsAssumption

Becomes(s, r) == r \in Requests /\ req' = [req EXCEPT ![s] = r]

\* A request that becomes another one changes for its session alone.
LEMMA BecomesOnly ==
  ASSUME TypeOK, NEW s \in Sessions, NEW r, Becomes(s, r)
  PROVE  /\ req' \in [Sessions -> Requests]
         /\ req'[s] = r
         /\ \A t \in Sessions : t # s => req'[t] = req[t]
  BY DEF TypeOK, Becomes

\* The fields of a request are in their ranges.
LEMMA RequestFields ==
  ASSUME TypeOK, NEW s \in Sessions
  PROVE  /\ req[s] \in Requests /\ req[s].st \in RequestSteps /\ req[s].dels \in SUBSET Pins
         /\ req[s].add \in Pins \cup {NoPin} /\ req[s].op \in Pins \cup {NoPin}
         /\ req[s].exists \in BOOLEAN
  <1>1. req[s] \in Requests
    BY DEF TypeOK
  <1> QED BY <1>1 DEF Requests

\* The step of a request moves on; the rest of it stays.
LEMMA MovesTo ==
  ASSUME TypeOK, NEW s \in Sessions, NEW st \in RequestSteps, Moves(s, st)
  PROVE  \E r : /\ Becomes(s, r)
                /\ r.st = st /\ r.dels = req[s].dels /\ r.add = req[s].add
                /\ r.op = req[s].op /\ r.exists = req[s].exists
  <1> DEFINE r == [req[s] EXCEPT !.st = st]
  <1>1. req[s] \in Requests /\ req \in [Sessions -> Requests]
    BY DEF TypeOK
  <1>2. r \in Requests
    BY <1>1 DEF Requests
  <1>3. r.st = st /\ r.dels = req[s].dels /\ r.add = req[s].add
        /\ r.op = req[s].op /\ r.exists = req[s].exists
    BY <1>1 DEF Requests
  <1>4. req' = [req EXCEPT ![s] = r]
    BY DEF Moves
  <1> HIDE DEF r
  <1> QED BY <1>2, <1>3, <1>4 DEF Becomes

\* A request whose next operation is up waits for the lock with it.
LEMMA QueuesAs ==
  ASSUME TypeOK, NEW s \in Sessions, NEW p \in NextOps(s),
         req' = [req EXCEPT ![s] = [req[s] EXCEPT !.st = "queued", !.op = p]]
  PROVE  \E r : /\ Becomes(s, r)
                /\ r.st = "queued" /\ r.dels = req[s].dels /\ r.add = req[s].add
                /\ r.op = p /\ r.exists = req[s].exists
  <1> DEFINE r == [req[s] EXCEPT !.st = "queued", !.op = p]
  <1>1. req[s] \in Requests
    BY DEF TypeOK
  <1>2. p \in Pins
    BY RequestFields DEF NextOps
  <1>3. r \in Requests
    BY <1>1, <1>2 DEF Requests, RequestSteps
  <1>4. r.st = "queued" /\ r.dels = req[s].dels /\ r.add = req[s].add
        /\ r.op = p /\ r.exists = req[s].exists
    BY <1>1 DEF Requests
  <1> HIDE DEF r
  <1> QED BY <1>3, <1>4 DEF Becomes, r

\* A response leaves nothing to run.
LEMMA RespondsTo ==
  ASSUME TypeOK, NEW s \in Sessions, Responds(s)
  PROVE  \E r : /\ Becomes(s, r)
                /\ r.st = "done" /\ r.dels = {} /\ r.add = NoPin
                /\ r.op = NoPin /\ r.exists = req[s].exists
  <1> DEFINE r == [NoRequest EXCEPT !.st = "done", !.exists = req[s].exists]
  <1>1. r \in Requests
    BY RequestFields DEF Requests, NoRequest, RequestSteps
  <1>2. r.st = "done" /\ r.dels = {} /\ r.add = NoPin /\ r.op = NoPin /\ r.exists = req[s].exists
    BY DEF NoRequest
  <1>3. req' = [req EXCEPT ![s] = r]
    BY DEF Responds
  <1> HIDE DEF r
  <1> QED BY <1>1, <1>2, <1>3 DEF Becomes

\* The request of a killed helper has no results.
LEMMA DiesTo ==
  ASSUME TypeOK, NEW s \in Sessions, HelperDies(s)
  PROVE  \E r : /\ Becomes(s, r)
                /\ r.st = "done" /\ r.dels = {} /\ r.add = NoPin
                /\ r.op = NoPin /\ r.exists = FALSE
  <1> DEFINE r == [NoRequest EXCEPT !.st = "done"]
  <1>1. r \in Requests
    BY RequestFields DEF Requests, NoRequest, RequestSteps
  <1>2. r.st = "done" /\ r.dels = {} /\ r.add = NoPin /\ r.op = NoPin /\ r.exists = FALSE
    BY DEF NoRequest
  <1>3. req' = [req EXCEPT ![s] = r]
    BY DEF HelperDies
  <1> HIDE DEF r
  <1> QED BY <1>1, <1>2, <1>3 DEF Becomes

\* An operation that is over is taken off the request.
LEMMA OpOverTo ==
  ASSUME TypeOK, NEW s \in Sessions, NEW ex \in BOOLEAN, OpOver(s, ex)
  PROVE  \E r : /\ Becomes(s, r)
                /\ r.st = "ready" /\ r.dels = req[s].dels \ {req[s].op}
                /\ r.add = IF Deletes(s) THEN req[s].add ELSE NoPin
                /\ r.op = NoPin /\ r.exists = (req[s].exists \/ ex)
  <1> DEFINE r == [req[s] EXCEPT !.st = "ready", !.op = NoPin, !.exists = @ \/ ex,
                     !.dels = @ \ {req[s].op}, !.add = IF Deletes(s) THEN @ ELSE NoPin]
  <1>1. req[s] \in Requests /\ req \in [Sessions -> Requests]
    BY DEF TypeOK
  <1>a. (req[s].exists \/ ex) \in BOOLEAN
    BY Zenon
  <1>b. /\ req[s].dels \ {req[s].op} \in SUBSET Pins
        /\ (IF Deletes(s) THEN req[s].add ELSE NoPin) \in Pins \cup {NoPin}
    BY RequestFields
  <1>2. r \in Requests
    <2> DEFINE e == req[s].exists \/ ex
               d == req[s].dels \ {req[s].op}
               a == IF Deletes(s) THEN req[s].add ELSE NoPin
    <2>1. r = [req[s] EXCEPT !.st = "ready", !.op = NoPin, !.exists = e, !.dels = d, !.add = a]
      BY <1>1 DEF Requests
    <2>2. e \in BOOLEAN /\ d \in SUBSET Pins /\ a \in Pins \cup {NoPin}
      BY <1>a, <1>b
    <2> HIDE DEF r, e, d, a
    <2> QED BY <1>1, <2>1, <2>2 DEF Requests, RequestSteps
  <1>3. r.st = "ready" /\ r.dels = req[s].dels \ {req[s].op}
        /\ r.add = (IF Deletes(s) THEN req[s].add ELSE NoPin)
        /\ r.op = NoPin /\ r.exists = (req[s].exists \/ ex)
    BY <1>1 DEF Requests
  <1>4. req' = [req EXCEPT ![s] = r]
    BY DEF OpOver
  <1> HIDE DEF r
  <1> QED BY <1>2, <1>3, <1>4 DEF Becomes

\* A new request asks for what it is told to.
LEMMA AskingIs ==
  ASSUME NEW d \in SUBSET Pins, NEW a \in Pins \cup {NoPin}
  PROVE  /\ Asking(d, a) \in Requests
         /\ Asking(d, a).st = "asked" /\ Asking(d, a).dels = d /\ Asking(d, a).add = a
         /\ ~Asking(d, a).exists /\ Asking(d, a).op = NoPin
  BY DEF Asking, NoRequest, Requests, RequestSteps

\* No request is one.
LEMMA NoRequestIs == NoRequest \in Requests
  BY DEF NoRequest, Requests, RequestSteps

\* Forgetting what is absent drops no record of an installed pin, and none of the
\* current attempt's.
LEMMA ForgetAbsentKeeps ==
  ASSUME TypeOK, NEW pins, ForgetAbsent(pins)
  PROVE  /\ records' \in [Pins -> 0 .. MaxSessions]
         /\ \A p \in Pins : \/ records'[p] = records[p]
                            \/ records'[p] = 0 /\ ~Has(p) /\ records[p] # attempt
  <1> PICK unknown : records' =
        [p \in Pins |-> IF p \in pins \ unknown /\ Obsolete(p) THEN 0 ELSE records[p]]
    BY DEF ForgetAbsent
  <1>1. records \in [Pins -> 0 .. MaxSessions] /\ 0 \in 0 .. MaxSessions
    BY DEF TypeOK
  <1>2. \A p \in Pins :
          records'[p] = IF p \in pins \ unknown /\ Obsolete(p) THEN 0 ELSE records[p]
    OBVIOUS
  <1>3. \A p \in Pins : Obsolete(p) => ~Has(p) /\ records[p] # attempt
    BY DEF Obsolete
  <1> QED BY <1>1, <1>2, <1>3

\* Retracting a claim drops the record only if it is the claimant's.
LEMMA ForgetOwnKeeps ==
  ASSUME TypeOK, NEW p, NEW tag \in Sessions, ForgetOwn(p, tag)
  PROVE  /\ records' \in [Pins -> 0 .. MaxSessions]
         /\ \A q \in Pins : \/ records'[q] = records[q]
                            \/ q = p /\ records[q] = tag /\ records'[q] = 0
  <1>1. records \in [Pins -> 0 .. MaxSessions] /\ 0 \in 0 .. MaxSessions /\ tag # 0
    BY DEF TypeOK, Sessions
  <1>2. CASE p # NoPin /\ records[p] = tag
    BY <1>1, <1>2 DEF ForgetOwn
  <1>3. CASE ~(p # NoPin /\ records[p] = tag)
    <2>1. records' = records
      BY <1>3, Zenon DEF ForgetOwn
    <2> QED BY <1>1, <2>1
  <1> QED BY <1>2, <1>3

\* Recording a claim never retags what the current attempt recorded.
LEMMA RecordPinKeeps ==
  ASSUME TypeOK, NEW p \in Pins, NEW tag \in Sessions, RecordPin(p, tag)
  PROVE  /\ records' \in [Pins -> 0 .. MaxSessions]
         /\ \A q \in Pins : \/ records'[q] = records[q]
                            \/ q = p /\ records'[q] = tag /\ MayRetag(p, tag)
         /\ MayRetag(p, tag) => records'[p] = tag
  BY DEF TypeOK, RecordPin, Sessions

\* A route of a session's takes one of the paths.
LEMMA RouteOfOurs ==
  ASSUME TypeOK
  PROVE  /\ route.by \in 0 .. MaxSessions
         /\ route.by # 0 => route.pin \in Pins
         /\ route.pin \in Pins \cup {NoPin}
         /\ route = NoRoute => route.by = 0 /\ route.pin = NoPin
  BY DEF TypeOK, Routes, NoRoute

\* What a helper installs is a route of its session's.
LEMMA RouteIs ==
  ASSUME NEW p \in Pins, NEW s \in 0 .. MaxSessions
  PROVE  /\ [pin |-> p, by |-> s] \in Routes
         /\ [pin |-> p, by |-> s].pin = p /\ [pin |-> p, by |-> s].by = s
         /\ NoRoute \in Routes /\ NoRoute.by = 0 /\ NoRoute.pin = NoPin
  BY DEF Routes, NoRoute

-----------------------------------------------------------------------------
(* Type correctness. *)

AppUnchanged == UNCHANGED <<records, hostVars, pc, stop, foundVars, claimVars, worker>>

\* What becomes of a request that a helper works on.
Advanced(s, r) ==
  /\ Becomes(s, r) /\ WellFormed(r)
  /\ r.st # "none" /\ r.add \in {req[s].add, NoPin}
  /\ r.exists => req[s].exists \/ (req[s].st = "valid" /\ ~Deletes(s))
  /\ req[s].add = NoPin \/ (req[s].st = "ran" /\ ~Deletes(s)) => r.add = NoPin

\* A response is well formed.
LEMMA RespondsWell ==
  ASSUME TypeOK, NEW s \in Sessions, WellFormed(req[s]), Responds(s)
  PROVE  \E r : Advanced(s, r)
  <1> PICK r : /\ Becomes(s, r) /\ r.st = "done" /\ r.dels = {} /\ r.add = NoPin
               /\ r.exists = req[s].exists
    BY RespondsTo
  <1> QED BY DEF WellFormed, Advanced

\* So is a request after an operation, if only an add finds a route in the way.
LEMMA OpOverWell ==
  ASSUME TypeOK, NEW s \in Sessions, WellFormed(req[s]), NEW ex \in BOOLEAN, OpOver(s, ex),
         ex => ~Deletes(s) /\ req[s].st = "valid"
  PROVE  \E r : Advanced(s, r)
  <1> PICK r : /\ Becomes(s, r)
               /\ r.st = "ready" /\ r.dels = req[s].dels \ {req[s].op}
               /\ r.add = (IF Deletes(s) THEN req[s].add ELSE NoPin)
               /\ r.exists = (req[s].exists \/ ex)
    BY OpOverTo
  <1>1. r.exists => r.add = NoPin /\ r.dels = {}
    BY DEF WellFormed, Deletes
  <1> QED BY <1>1 DEF WellFormed, Advanced

\* So is one that moves on with its operation.
LEMMA MovesWell ==
  ASSUME TypeOK, NEW s \in Sessions, WellFormed(req[s]), req[s].st \in {"queued", "valid"},
         NEW st \in {"valid", "ran"}, Moves(s, st)
  PROVE  \E r : Advanced(s, r)
  <1> PICK r : /\ Becomes(s, r)
               /\ r.st = st /\ r.dels = req[s].dels /\ r.add = req[s].add
               /\ r.op = req[s].op /\ r.exists = req[s].exists
    BY MovesTo DEF RequestSteps
  <1> QED BY DEF WellFormed, Advanced

\* So is one that waits for the lock.
LEMMA QueuesWell ==
  ASSUME TypeOK, NEW s \in Sessions, WellFormed(req[s]),
         req[s].st \in {"asked", "ready"}, NEW p \in NextOps(s),
         req' = [req EXCEPT ![s] = [req[s] EXCEPT !.st = "queued", !.op = p]]
  PROVE  \E r : Advanced(s, r)
  <1> PICK r : /\ Becomes(s, r)
               /\ r.st = "queued" /\ r.dels = req[s].dels /\ r.add = req[s].add
               /\ r.op = p /\ r.exists = req[s].exists
    BY QueuesAs
  <1> QED BY DEF WellFormed, Advanced, NextOps, Deletes

\* A helper's step leaves its request well formed, and takes off it what was run.
LEMMA HelperBecomes ==
  ASSUME TypeOK, NEW s \in Sessions, WellFormed(req[s]), HelperNext(s)
  PROVE  req[s].st # "none" /\ \E r : Advanced(s, r)
  <1>1. CASE HelperRefused(s)
    BY <1>1, RespondsWell DEF HelperRefused
  <1>2. CASE HelperChecks(s)
    BY <1>2, RespondsWell, QueuesWell DEF HelperChecks
  <1>3. CASE HelperTimesOut(s) \/ HelperRejects(s)
    BY <1>3, OpOverWell DEF HelperTimesOut, HelperRejects
  <1>4. CASE HelperValidates(s)
    <2>1. CASE StillCurrent(s) /\ Valid(s)
      BY <1>4, <2>1, MovesWell DEF HelperValidates
    <2>2. CASE ~(StillCurrent(s) /\ Valid(s))
      BY <1>4, <2>2, RespondsWell, OpOverWell DEF HelperValidates
    <2> QED BY <2>1, <2>2
  <1>5. CASE HelperDeletes(s)
    BY <1>5, MovesWell DEF HelperDeletes
  <1>6. CASE HelperAdds(s)
    BY <1>6, MovesWell, OpOverWell DEF HelperAdds
  <1>7. CASE HelperUnregisters(s) \/ HelperRegisters(s) \/ HelperRollsBack(s)
    BY <1>7, OpOverWell DEF HelperUnregisters, HelperRegisters, HelperRollsBack
  <1>8. CASE HelperDies(s)
    <2> PICK r : Becomes(s, r) /\ r.st = "done" /\ r.dels = {} /\ r.add = NoPin /\ r.exists = FALSE
      BY <1>8, DiesTo
    <2> QED BY <1>8 DEF WellFormed, Advanced, HelperDies
  <1> QED BY <1>1, <1>2, <1>3, <1>4, <1>5, <1>6, <1>7, <1>8 DEF HelperNext

\* Helpers keep every variable in range.
LEMMA HelperType ==
  ASSUME TypeOK, NEW s \in Sessions, HelperNext(s), AppUnchanged, WellFormed(req[s])
  PROVE  TypeOK'
  <1>1. req' \in [Sessions -> Requests]
    BY HelperBecomes, BecomesOnly DEF Advanced
  <1>2. req[s].st \in {"queued", "valid", "ran"} => req[s].op \in Pins
    BY RequestFields DEF WellFormed
  <1>3. /\ lock' \in 0 .. MaxSessions /\ registry' \in SUBSET Pins /\ route' \in Routes
        /\ stranded' \in BOOLEAN /\ changes' \in Nat /\ UNCHANGED <<attempt, path, tun>>
    <2> USE DEF kernelVars
    <2> s \in 0 .. MaxSessions /\ 0 \in 0 .. MaxSessions
      BY DEF Sessions
    <2>1. CASE HelperRefused(s) \/ HelperChecks(s) \/ HelperTimesOut(s) \/ HelperRejects(s)
      BY <2>1 DEF HelperRefused, HelperChecks, HelperTimesOut, HelperRejects, TypeOK
    <2>2. CASE HelperValidates(s)
      BY <2>2 DEF HelperValidates, TypeOK
    <2>3. CASE HelperDeletes(s)
      BY <2>3, RouteIs DEF HelperDeletes, TypeOK
    <2>4. CASE HelperAdds(s)
      <3>1. [pin |-> req[s].op, by |-> s] \in Routes
        BY <1>2, <2>4, RouteIs DEF HelperAdds
      <3>2. route' \in {route, [pin |-> req[s].op, by |-> s]} /\ lock' \in {lock, 0}
        BY <2>4, Zenon DEF HelperAdds
      <3> QED BY <2>4, <3>1, <3>2 DEF HelperAdds, TypeOK
    <2>5. CASE HelperUnregisters(s) \/ HelperRegisters(s)
      BY <1>2, <2>5 DEF HelperUnregisters, HelperRegisters, TypeOK
    <2>6. CASE HelperRollsBack(s)
      BY <2>6, RouteIs, ZenonT(60) DEF HelperRollsBack, Undone, TypeOK
    <2>7. CASE HelperDies(s)
      BY <2>7 DEF HelperDies, TypeOK
    <2> QED BY <2>1, <2>2, <2>3, <2>4, <2>5, <2>6, <2>7 DEF HelperNext
  <1> QED BY <1>1, <1>3 DEF TypeOK, AppUnchanged, hostVars, foundVars, claimVars

\* Threads and workers keep their variables in range.
LEMMA AppType == ASSUME TypeOK, NEW s \in Sessions, AppNext(s) PROVE TypeOK'
  <1> USE DEF kernelVars, hostVars, foundVars, claimVars, helperVars, ThreadSteps, WorkerSteps
  <1>a. NoRequest \in Requests
    BY NoRequestIs
  <1>b. Recorded \subseteq Pins /\ CurrentPath \in Pins /\ ToRemove(s) \subseteq Pins
    BY RouteOfOurs DEF Recorded, CurrentPath, ToRemove, TypeOK, Routes
  <1>1. CASE Begin(s)
    BY <1>1 DEF Begin, Goes, TypeOK, Sessions
  <1>2. CASE UserStops(s) \/ WaitsForWorkers(s) \/ Connects(s) \/ Pushes(s) \/ RelayEnds(s)
    BY <1>2, ZenonT(60) DEF UserStops, WaitsForWorkers, Connects, Pushes, RelayEnds, Goes, TypeOK
  <1>3. CASE ListsPins(s)
    BY <1>3, <1>b DEF ListsPins, Goes, TypeOK
  <1>4. CASE ForgetsGone(s)
    BY <1>4, ForgetAbsentKeeps DEF ForgetsGone, Goes, TypeOK
  <1>5. CASE RequestsRemoval(s)
    <2>1. req' \in [Sessions -> Requests]
      <3> PICK unknown \in SUBSET ToRemove(s) :
            LET present == {p \in ToRemove(s) : Has(p) \/ p \in unknown}
            IN  req' = IF present = {} THEN req ELSE [req EXCEPT ![s] = Asking(present, NoPin)]
        BY <1>5 DEF RequestsRemoval
      <3> DEFINE present == {p \in ToRemove(s) : Has(p) \/ p \in unknown}
      <3>1. Asking(present, NoPin) \in Requests
        BY <1>b, AskingIs
      <3> QED BY <3>1 DEF TypeOK
    <2> QED BY <1>5, <1>b, <2>1 DEF RequestsRemoval, Goes, TypeOK
  <1>6. CASE ForgetsRemoved(s)
    BY <1>6, <1>a, ForgetAbsentKeeps DEF ForgetsRemoved, Goes, TypeOK
  <1>7. CASE RetryCancelled(s) \/ GivesUp(s) \/ SetupFails(s)
    <2>1. CASE RetryCancelled(s)
      BY <1>a, <2>1 DEF RetryCancelled, DropsPlan, Goes, TypeOK
    <2>2. CASE GivesUp(s) \/ SetupFails(s)
      BY <2>2, ZenonT(60) DEF GivesUp, SetupFails, DropsPlan, Goes, TypeOK
    <2> QED BY <1>7, <2>1, <2>2
  <1>8. CASE LoadsStale(s)
    BY <1>8, <1>b DEF LoadsStale, Goes, TypeOK
  <1>9. CASE Plans(s)
    BY <1>9, <1>b DEF Plans, Goes, TypeOK
  <1>10. CASE Records(s)
    <2>1. records' \in [Pins -> 0 .. MaxSessions]
      BY <1>10, RecordPinKeeps DEF Records, TypeOK
    <2> QED BY <1>10, <2>1 DEF Records, Goes, TypeOK
  <1>11. CASE Spawns(s)
    BY <1>11 DEF Spawns, Goes, TypeOK
  <1>12. CASE WorkerApplies(s)
    <2>1. Asking(stale[s], pin[s]) \in Requests
      BY AskingIs DEF TypeOK
    <2> QED BY <1>12, <2>1 DEF WorkerApplies, TypeOK
  <1>13. CASE WorkerSettles(s)
    BY <1>13, <1>a, ForgetOwnKeeps DEF WorkerSettles, TypeOK
  <1>14. CASE WorkerClears(s)
    BY <1>14, ForgetAbsentKeeps DEF WorkerClears, DropsPlan, TypeOK
  <1>15. CASE WaitsForSetup(s)
    BY <1>15 DEF WaitsForSetup, Goes, TypeOK
  <1>16. CASE AsksToUnpin(s)
    <2>1. Asking({slot[s]}, NoPin) \in Requests
      BY <1>16, AskingIs DEF AsksToUnpin, TypeOK
    <2> QED BY <1>16, <2>1 DEF AsksToUnpin, Goes, TypeOK
  <1>17. CASE GivesUpClaim(s)
    BY <1>17, <1>a, ForgetOwnKeeps DEF GivesUpClaim, Goes, TypeOK
  <1>18. CASE KeepsPin(s)
    BY <1>18, <1>a DEF KeepsPin, Goes, TypeOK
  <1> QED BY <1>1, <1>2, <1>3, <1>4, <1>5, <1>6, <1>7, <1>8, <1>9, <1>10, <1>11, <1>12,
             <1>13, <1>14, <1>15, <1>16, <1>17, <1>18 DEF AppNext

\* So do the host and a crash.
LEMMA HostType ==
  ASSUME TypeOK, \/ (NetworkChanges \/ UserAddsRoute) /\ AppUnchanged
                 \/ Crash
  PROVE  TypeOK'
  <1> USE DEF kernelVars, hostVars, foundVars, claimVars
  <1>1. CASE NetworkChanges /\ AppUnchanged
    <2>1. route' \in Routes /\ path' \in Pins /\ changes' \in Nat
      <3>1. NoRoute \in Routes
        BY DEF Routes
      <3> QED BY <1>1, <3>1 DEF NetworkChanges, TypeOK
    <2> QED BY <1>1, <2>1 DEF NetworkChanges, AppUnchanged, TypeOK
  <1>2. CASE UserAddsRoute /\ AppUnchanged
    <2>1. route' \in Routes
      BY <1>2, RouteIs DEF UserAddsRoute
    <2> QED BY <1>2, <2>1 DEF UserAddsRoute, AppUnchanged, TypeOK
  <1>3. CASE Crash
    BY <1>3 DEF Crash, TypeOK, ThreadSteps, WorkerSteps
  <1> QED BY <1>1, <1>2, <1>3

-----------------------------------------------------------------------------
(* Whose request it is. *)

\* A step of one session leaves the requests of the others to them.
LEMMA OthersAsk ==
  ASSUME RequestsInv, NEW s \in Sessions, attempt' = attempt,
         \A t \in Sessions : t # s =>
            /\ req'[t] = req[t] /\ pc'[t] = pc[t] /\ worker'[t] = worker[t] /\ slot'[t] = slot[t],
         WellFormed(req'[s]), AskerInv(s)'
  PROVE  RequestsInv'
  BY DEF RequestsInv, AskerInv

\* A helper works on a request whose asker waits for it, or died.
LEMMA HelperAsks ==
  ASSUME TypeOK, RequestsInv, NEW s \in Sessions, HelperNext(s), AppUnchanged
  PROVE  RequestsInv' /\ attempt' = attempt
  <1> USE DEF AppUnchanged, claimVars
  <1> PICK r : /\ Becomes(s, r) /\ WellFormed(r) /\ req[s].st # "none"
               /\ r.st # "none" /\ r.add \in {req[s].add, NoPin}
    BY HelperBecomes DEF RequestsInv, Advanced
  <1>1. req'[s] = r /\ \A t \in Sessions : t # s => req'[t] = req[t]
    BY BecomesOnly
  <1>2. attempt' = attempt
    BY DEF HelperNext, HelperRefused, HelperChecks, HelperTimesOut, HelperValidates, HelperRejects,
       HelperDeletes, HelperAdds, HelperUnregisters, HelperRegisters, HelperRollsBack, HelperDies
  <1>3. AskerInv(s)'
    BY <1>1, <1>2 DEF RequestsInv, AskerInv
  <1> QED BY <1>1, <1>2, <1>3, OthersAsk

\* Threads and workers ask one after the other.
LEMMA AppAsks ==
  ASSUME TypeOK, TypeOK', RequestsInv, NEW s \in Sessions, AppNext(s)
  PROVE  RequestsInv'
  <1> USE DEF helperVars, foundVars, claimVars, TypeOK, ThreadSteps, WorkerSteps
  <1>a. NoRequest.st = "none" /\ NoRequest.add = NoPin /\ WellFormed(NoRequest)
    BY DEF NoRequest, WellFormed
  <1>b. WellFormed(req[s]) /\ AskerInv(s)
    BY DEF RequestsInv
  <1>1. CASE Begin(s)
    <2>1. \A t \in Sessions : t # s => pc'[t] = pc[t]
      BY <1>1 DEF Begin, Goes
    <2>2. attempt = s - 1 /\ attempt' = s /\ pc'[s] = "wait"
      BY <1>1 DEF Begin, Goes
    <2>3. \A t \in Sessions : ((pc'[t] = "off") <=> (t > attempt'))
      BY <2>1, <2>2 DEF RequestsInv, AskerInv, Sessions
    <2>4. UNCHANGED <<req, worker, slot>> /\ pc[s] = "off"
      BY <1>1 DEF Begin
    <2>5. worker[s] = "none" /\ req[s].st = "none" /\ req[s].add = NoPin
      BY <1>a, <1>b, <2>4 DEF AskerInv, WellFormed
    <2> QED BY <2>1, <2>2, <2>3, <2>4, <2>5 DEF RequestsInv, AskerInv
  <1>2. CASE UserStops(s)
    BY <1>2 DEF UserStops, RequestsInv, AskerInv
  <1>3. CASE WaitsForWorkers(s) \/ ListsPins(s) \/ Connects(s) \/ GivesUp(s) \/ SetupFails(s)
    BY <1>3, <1>b, OthersAsk DEF WaitsForWorkers, ListsPins, Connects, GivesUp, SetupFails,
       DropsPlan, Goes, AskerInv
  <1>4. CASE ForgetsGone(s) \/ LoadsStale(s) \/ Plans(s) \/ Spawns(s) \/ Pushes(s) \/ RelayEnds(s)
    BY <1>4, <1>b, OthersAsk DEF ForgetsGone, LoadsStale, Plans, Spawns, Pushes, RelayEnds,
       Goes, AskerInv
  <1>5. CASE RequestsRemoval(s)
    <2> PICK unknown \in SUBSET ToRemove(s) :
          LET present == {p \in ToRemove(s) : Has(p) \/ p \in unknown}
          IN  req' = IF present = {} THEN req ELSE [req EXCEPT ![s] = Asking(present, NoPin)]
      BY <1>5 DEF RequestsRemoval
    <2> DEFINE present == {p \in ToRemove(s) : Has(p) \/ p \in unknown}
    <2>1. present \in SUBSET Pins
      BY DEF ToRemove
    <2>2. Asking(present, NoPin).st = "asked" /\ Asking(present, NoPin).add = NoPin
          /\ WellFormed(Asking(present, NoPin))
      BY <2>1, AskingIs DEF WellFormed
    <2>3. req' \in {req, [req EXCEPT ![s] = Asking(present, NoPin)]}
      BY Zenon
    <2> HIDE DEF present
    <2>4. pc[s] \in {"remove", "retry"} /\ pc'[s] \in {"removing", "retrying"}
          /\ UNCHANGED <<worker, slot, attempt>> /\ \A t \in Sessions : t # s => pc'[t] = pc[t]
      BY <1>5 DEF RequestsRemoval, Goes
    <2>5. worker[s] = "none" /\ req[s].add = NoPin
      BY <1>b, <2>4 DEF AskerInv
    <2>6. WellFormed(req'[s]) /\ req'[s].add = NoPin /\ \A t \in Sessions : t # s => req'[t] = req[t]
      BY <1>b, <2>2, <2>3, <2>5
    <2>7. AskerInv(s)'
      BY <1>b, <2>4, <2>5, <2>6 DEF AskerInv
    <2> QED BY <2>4, <2>6, <2>7, OthersAsk
  <1>6. CASE ForgetsRemoved(s) \/ RetryCancelled(s)
    BY <1>6, <1>a, <1>b, OthersAsk DEF ForgetsRemoved, RetryCancelled, DropsPlan, Goes, AskerInv
  <1>7. CASE Records(s)
    BY <1>7, <1>b, OthersAsk DEF Records, Goes, AskerInv
  <1>8. CASE WorkerApplies(s)
    <2>1. stale[s] \in SUBSET Pins /\ pin[s] \in Pins \cup {NoPin}
      OBVIOUS
    <2>2. Asking(stale[s], pin[s]).st = "asked" /\ WellFormed(Asking(stale[s], pin[s]))
      BY <2>1, AskingIs DEF WellFormed
    <2> QED BY <1>8, <1>b, <2>2, OthersAsk DEF WorkerApplies, AskerInv
  <1>9. CASE WorkerSettles(s)
    BY <1>9, <1>a, <1>b, OthersAsk DEF WorkerSettles, AskerInv
  <1>10. CASE WorkerClears(s)
    BY <1>10, <1>b, OthersAsk DEF WorkerClears, DropsPlan, AskerInv
  <1>11. CASE WaitsForSetup(s)
    <2>1. CASE WorkersRunning
      BY <1>11, <1>b, <2>1, OthersAsk DEF WaitsForSetup, Goes, AskerInv
    <2>2. CASE ~WorkersRunning
      <3>1. worker[s] \in {"none", "over"}
        BY <1>11, <2>2 DEF WaitsForSetup, WorkersRunning, Listed
      <3> QED BY <1>11, <1>b, <2>2, <3>1, OthersAsk DEF WaitsForSetup, Goes, AskerInv
    <2> QED BY <2>1, <2>2
  <1>12. CASE AsksToUnpin(s)
    <2>1. {slot[s]} \in SUBSET Pins
      BY <1>12 DEF AsksToUnpin
    <2>2. Asking({slot[s]}, NoPin).st = "asked" /\ Asking({slot[s]}, NoPin).add = NoPin
          /\ WellFormed(Asking({slot[s]}, NoPin))
      BY <2>1, AskingIs DEF WellFormed
    <2>3. UNCHANGED <<worker, slot, attempt>> /\ pc[s] = "judge" /\ pc'[s] = "unpin"
          /\ req'[s] = Asking({slot[s]}, NoPin)
          /\ \A t \in Sessions : t # s => pc'[t] = pc[t] /\ req'[t] = req[t]
      BY <1>12 DEF AsksToUnpin, Goes
    <2>4. AskerInv(s)'
      BY <1>b, <2>2, <2>3 DEF AskerInv
    <2> QED BY <2>2, <2>3, <2>4, OthersAsk
  <1>13. CASE GivesUpClaim(s) \/ KeepsPin(s)
    BY <1>13, <1>a, <1>b, OthersAsk DEF GivesUpClaim, KeepsPin, Goes, AskerInv
  <1> QED BY <1>1, <1>2, <1>3, <1>4, <1>5, <1>6, <1>7, <1>8, <1>9, <1>10, <1>11, <1>12, <1>13
       DEF AppNext

\* A crash leaves its requests to the helpers.
LEMMA HostAsks ==
  ASSUME TypeOK, RequestsInv, \/ (NetworkChanges \/ UserAddsRoute) /\ AppUnchanged
                              \/ Crash
  PROVE  RequestsInv'
  <1>1. CASE (NetworkChanges \/ UserAddsRoute) /\ AppUnchanged
    BY <1>1 DEF NetworkChanges, UserAddsRoute, AppUnchanged, claimVars, RequestsInv, AskerInv
  <1>2. CASE Crash
    BY <1>2 DEF Crash, RequestsInv, AskerInv, TypeOK, ThreadSteps, WorkerSteps
  <1> QED BY <1>1, <1>2

-----------------------------------------------------------------------------
(* The helper, the lock and the registry. *)

\* Threads and workers change no route, and a request only when it was answered:
\* they drop it, or ask again.  Only a worker asks for a pin to be added, once.
LEMMA AppRequests ==
  ASSUME TypeOK, RequestsInv, NEW s \in Sessions, AppNext(s)
  PROVE  /\ UNCHANGED kernelVars
         /\ \A t \in Sessions :
              \/ req'[t] = req[t]
              \/ /\ t = s /\ Answered(s) /\ req'[s].st \in {"none", "asked"} /\ ~req'[s].exists
                 /\ \/ req'[s].add = NoPin
                    \/ worker[s] = "apply" /\ worker'[s] = "applying" /\ req'[s].add = pin[s]
  <1> USE DEF helperVars, kernelVars, TypeOK, Answered
  <1>a. NoRequest.st = "none" /\ NoRequest.add = NoPin /\ ~NoRequest.exists
    BY DEF NoRequest
  <1>b. AskerInv(s)
    BY DEF RequestsInv
  <1>1. CASE Begin(s)
    BY <1>1 DEF Begin
  <1>2. CASE UserStops(s) \/ WaitsForWorkers(s) \/ ListsPins(s) \/ Connects(s) \/ GivesUp(s)
             \/ SetupFails(s) \/ ForgetsGone(s) \/ Plans(s) \/ Spawns(s) \/ Pushes(s) \/ RelayEnds(s)
    BY <1>2 DEF UserStops, WaitsForWorkers, ListsPins, Connects, GivesUp, SetupFails, ForgetsGone,
       Plans, Spawns, Pushes, RelayEnds
  <1>3. CASE Records(s) \/ LoadsStale(s) \/ WorkerClears(s) \/ WaitsForSetup(s)
    BY <1>3 DEF Records, LoadsStale, WorkerClears, WaitsForSetup
  <1>4. CASE RequestsRemoval(s)
    <2> PICK unknown \in SUBSET ToRemove(s) :
          LET present == {p \in ToRemove(s) : Has(p) \/ p \in unknown}
          IN  req' = IF present = {} THEN req ELSE [req EXCEPT ![s] = Asking(present, NoPin)]
      BY <1>4 DEF RequestsRemoval
    <2> DEFINE present == {p \in ToRemove(s) : Has(p) \/ p \in unknown}
    <2>1. present \in SUBSET Pins
      BY DEF ToRemove
    <2>2. Asking(present, NoPin).st = "asked" /\ Asking(present, NoPin).add = NoPin
          /\ ~Asking(present, NoPin).exists
      BY <2>1, AskingIs
    <2>3. req' \in {req, [req EXCEPT ![s] = Asking(present, NoPin)]}
      BY Zenon
    <2> HIDE DEF present
    <2>4. Answered(s) /\ UNCHANGED kernelVars
      BY <1>4, <1>b DEF RequestsRemoval, AskerInv
    <2> QED BY <2>2, <2>3, <2>4
  <1>5. CASE ForgetsRemoved(s) \/ RetryCancelled(s) \/ WorkerSettles(s)
    BY <1>5, <1>a DEF ForgetsRemoved, RetryCancelled, WorkerSettles
  <1>6. CASE WorkerApplies(s)
    <2>1. Asking(stale[s], pin[s]).st = "asked" /\ Asking(stale[s], pin[s]).add = pin[s]
          /\ ~Asking(stale[s], pin[s]).exists
      BY AskingIs
    <2>2. Answered(s)
      BY <1>6, <1>b DEF WorkerApplies, AskerInv
    <2> QED BY <1>6, <2>1, <2>2 DEF WorkerApplies
  <1>7. CASE AsksToUnpin(s)
    <2>1. {slot[s]} \in SUBSET Pins
      BY <1>7 DEF AsksToUnpin
    <2>2. Asking({slot[s]}, NoPin).st = "asked" /\ Asking({slot[s]}, NoPin).add = NoPin
          /\ ~Asking({slot[s]}, NoPin).exists
      BY <2>1, AskingIs
    <2>3. Answered(s)
      BY <1>7, <1>b DEF AsksToUnpin, AskerInv
    <2> QED BY <1>7, <2>2, <2>3 DEF AsksToUnpin
  <1>8. CASE GivesUpClaim(s) \/ KeepsPin(s)
    <2>1. Answered(s)
      BY <1>8, <1>b DEF GivesUpClaim, KeepsPin, AskerInv
    <2> QED BY <1>8, <1>a, <2>1 DEF GivesUpClaim, KeepsPin
  <1> QED BY <1>1, <1>2, <1>3, <1>4, <1>5, <1>6, <1>7, <1>8 DEF AppNext

\* So what they do does not concern the kernel.
LEMMA AppKernel ==
  ASSUME TypeOK, TypeOK', RequestsInv, KernelInv, NEW s \in Sessions, AppNext(s)
  PROVE  KernelInv'
  <1> USE DEF KernelInv
  <1>1. UNCHANGED <<lock, registry, route, stranded>>
    BY AppRequests DEF kernelVars
  <1>2. \A t \in Sessions :
          req'[t] = req[t] \/ (req[t].st \notin {"valid", "ran"} /\ req'[t].st \notin {"valid", "ran"})
    BY AppRequests DEF Answered
  <1>3. LockInv'
    BY <1>1, <1>2 DEF LockInv
  <1>4. lock # 0 => lock \in Sessions /\ req'[lock] = req[lock]
    <2>1. lock # 0 => lock \in Sessions
      BY DEF TypeOK, Sessions
    <2>2. lock # 0 => req[lock].st \in {"valid", "ran"}
      BY <2>1 DEF LockInv
    <2> QED BY <1>2, <2>1, <2>2
  <1>5. RegistryInv'
    BY <1>1, <1>4 DEF RegistryInv, Adding, Deletes, Has
  <1>6. attempt' = attempt \/ attempt' = attempt + 1
    <2>1. CASE Begin(s)
      BY <2>1 DEF Begin, TypeOK, Sessions
    <2>2. CASE ~Begin(s)
      BY <2>2 DEF AppNext, helperVars, UserStops, WaitsForWorkers, ListsPins, ForgetsGone,
         RequestsRemoval, ForgetsRemoved, RetryCancelled, Connects, GivesUp, LoadsStale, Plans,
         Records, SetupFails, Spawns, Pushes, WorkerApplies, WorkerSettles, WorkerClears,
         RelayEnds, WaitsForSetup, AsksToUnpin, GivesUpClaim, KeepsPin
    <2> QED BY <2>1, <2>2
  <1>7. AgeInv'
    BY <1>1, <1>6, RouteOfOurs DEF AgeInv, TypeOK
  <1> QED BY <1>3, <1>5, <1>7

\* Neither does the host: it removes routes, and adds only the user's.
LEMMA HostKernel ==
  ASSUME TypeOK, KernelInv, \/ NetworkChanges \/ UserAddsRoute \/ Crash
  PROVE  KernelInv'
  <1> USE DEF KernelInv, LockInv, RegistryInv, AgeInv, Adding, Deletes, Has
  <1>1. UNCHANGED <<attempt, lock, registry, req, stranded>>
    BY DEF NetworkChanges, UserAddsRoute, Crash
  <1>2. route' = route \/ route'.by = 0
    BY DEF NetworkChanges, UserAddsRoute, Crash, NoRoute
  <1>3. CASE route' = route
    BY <1>1, <1>3
  <1>4. CASE route'.by = 0
    BY <1>1, <1>4 DEF TypeOK
  <1> QED BY <1>2, <1>3, <1>4

\* A request that is not past its checks changes nothing in the kernel.
LEMMA WaitingKernel ==
  ASSUME TypeOK, KernelInv, NEW s \in Sessions, NEW r, Becomes(s, r),
         req[s].st \notin {"valid", "ran"}, r.st \notin {"valid", "ran"},
         UNCHANGED <<attempt, lock, registry, route, stranded>>
  PROVE  KernelInv'
  <1> USE DEF KernelInv
  <1>1. req'[s] = r /\ \A t \in Sessions : t # s => req'[t] = req[t]
    BY BecomesOnly
  <1>2. LockInv'
    BY <1>1 DEF LockInv
  <1>3. lock # 0 => lock \in Sessions /\ req'[lock] = req[lock]
    BY <1>1 DEF LockInv, TypeOK, Sessions
  <1> QED BY <1>2, <1>3 DEF RegistryInv, AgeInv, Adding, Deletes, Has

\* The helper's steps, the one that holds the lock and those that do not.
LEMMA HelperKernel ==
  ASSUME TypeOK, RequestsInv, KernelInv, NEW s \in Sessions, HelperNext(s)
  PROVE  KernelInv'
  <1> USE DEF kernelVars, KernelInv
  <1>0. s # 0 /\ s \in Nat /\ WellFormed(req[s])
    BY DEF Sessions, RequestsInv
  <1>1. CASE HelperRefused(s)
    BY <1>1, RespondsTo, WaitingKernel DEF HelperRefused
  <1>2. CASE HelperChecks(s)
    BY <1>2, RespondsTo, QueuesAs, WaitingKernel DEF HelperChecks
  <1>3. CASE HelperTimesOut(s) \/ HelperRejects(s)
    BY <1>3, OpOverTo, WaitingKernel DEF HelperTimesOut, HelperRejects
  <1>4. CASE HelperValidates(s)
    <2>1. CASE StillCurrent(s) /\ Valid(s)
      <3> PICK r : Becomes(s, r) /\ r.st = "valid"
        BY <1>4, <2>1, MovesTo DEF HelperValidates, RequestSteps
      <3>1. req'[s] = r /\ \A t \in Sessions : t # s => req'[t] = req[t]
        BY BecomesOnly
      <3>2. lock = 0 /\ lock' = s /\ attempt = s /\ UNCHANGED <<attempt, registry, route, stranded>>
        BY <1>4, <2>1 DEF HelperValidates, LockFree, StillCurrent
      <3>3. LockInv'
        BY <1>0, <3>1, <3>2 DEF LockInv, Sessions
      <3> QED BY <1>0, <3>1, <3>2, <3>3 DEF RegistryInv, AgeInv, Adding
    <2>2. CASE ~(StillCurrent(s) /\ Valid(s))
      BY <1>4, <2>2, RespondsTo, OpOverTo, WaitingKernel DEF HelperValidates
    <2> QED BY <2>1, <2>2
  <1>5. CASE HelperDeletes(s)
    <2> PICK r : Becomes(s, r) /\ r.st = "ran" /\ r.dels = req[s].dels /\ r.op = req[s].op
      BY <1>5, MovesTo DEF HelperDeletes, RequestSteps
    <2>1. req'[s] = r /\ \A t \in Sessions : t # s => req'[t] = req[t]
      BY BecomesOnly
    <2>2. lock = s /\ lock' = s /\ UNCHANGED <<attempt, registry, stranded>>
      BY <1>5 DEF HelperDeletes, LockInv
    <2>3. Deletes(s) /\ Deletes(s)'
      BY <1>5, <2>1 DEF HelperDeletes, Deletes
    <2>4. route' = IF Has(req[s].op) THEN NoRoute ELSE route
      BY <1>5 DEF HelperDeletes, Deleted
    <2>5. LockInv'
      BY <1>0, <1>5, <2>1, <2>2 DEF HelperDeletes, LockInv
    <2>6. route'.by \in {0, route.by} /\ (route'.by # 0 => route' = route) /\ ~Has(req[s].op)'
      BY <2>1, <2>2, <2>4, RouteIs DEF Has, NoRoute
    <2> QED BY <1>0, <1>5, <2>1, <2>2, <2>3, <2>5, <2>6 DEF HelperDeletes, RegistryInv, AgeInv, Adding, TypeOK
  <1>6. CASE HelperAdds(s)
    <2>1. CASE route = NoRoute
      <3> PICK r : Becomes(s, r) /\ r.st = "ran" /\ r.dels = req[s].dels /\ r.op = req[s].op
        BY <1>6, <2>1, MovesTo DEF HelperAdds, RequestSteps
      <3>1. req'[s] = r /\ \A t \in Sessions : t # s => req'[t] = req[t]
        BY BecomesOnly
      <3>2. lock = s /\ lock' = s /\ UNCHANGED <<attempt, registry, stranded>>
        BY <1>6, <2>1 DEF HelperAdds, LockInv
      <3>3. ~Deletes(s)'
        BY <1>6, <3>1 DEF HelperAdds, Deletes
      <3>4. route'.pin = req'[s].op /\ route'.by = s
        BY <1>6, <2>1, <3>1 DEF HelperAdds
      <3>5. LockInv'
        BY <1>0, <1>6, <3>1, <3>2 DEF HelperAdds, LockInv
      <3>6. s <= attempt
        <4>1. req[s].st = "valid" /\ AskerInv(s) /\ attempt \in Nat
          BY <1>6 DEF HelperAdds, RequestsInv, TypeOK
        <4>2. pc[s] # "off"
          BY <4>1 DEF AskerInv
        <4>3. ~(s > attempt)
          BY <4>1, <4>2 DEF AskerInv
        <4> QED BY <1>0, <4>1, <4>3
      <3> QED BY <1>0, <3>1, <3>2, <3>3, <3>4, <3>5, <3>6 DEF RegistryInv, AgeInv, Adding
    <2>2. CASE route # NoRoute
      <3> PICK r : Becomes(s, r) /\ r.st = "ready"
        BY <1>6, <2>2, OpOverTo DEF HelperAdds
      <3>1. req'[s] = r /\ \A t \in Sessions : t # s => req'[t] = req[t]
        BY BecomesOnly
      <3>2. lock = s /\ lock' = 0 /\ UNCHANGED <<attempt, registry, route, stranded>>
        BY <1>6, <2>2 DEF HelperAdds, LockInv
      <3>3. req[s].st = "valid"
        BY <1>6 DEF HelperAdds
      <3>4. LockInv'
        BY <1>0, <3>1, <3>2 DEF LockInv, Sessions
      <3> QED BY <3>2, <3>3, <3>4 DEF RegistryInv, AgeInv, Adding
    <2> QED BY <2>1, <2>2
  <1>7. CASE HelperUnregisters(s) \/ HelperRegisters(s) \/ HelperRollsBack(s)
    <2> PICK r : Becomes(s, r) /\ r.st = "ready"
      BY <1>7, OpOverTo DEF HelperUnregisters, HelperRegisters, HelperRollsBack
    <2>1. req'[s] = r /\ \A t \in Sessions : t # s => req'[t] = req[t]
      BY BecomesOnly
    <2>2. lock = s /\ lock' = 0 /\ attempt' = attempt /\ req[s].st = "ran"
      BY <1>7 DEF HelperUnregisters, HelperRegisters, HelperRollsBack, LockInv
    <2>3. LockInv'
      BY <1>0, <2>1, <2>2 DEF LockInv, Sessions
    <2>4. CASE HelperUnregisters(s)
      <3>1. ~Has(req[s].op) /\ UNCHANGED <<route, stranded>> /\ Deletes(s)
            /\ registry' \in {registry, registry \ {req[s].op}}
        BY <2>2, <2>4, <1>0 DEF HelperUnregisters, RegistryInv
      <3>2. route.by # 0 /\ ~stranded => route.pin \in registry /\ route.pin # req[s].op
        BY <1>0, <2>2, <3>1 DEF RegistryInv, Adding, Has
      <3> QED BY <2>2, <2>3, <3>1, <3>2 DEF RegistryInv, AgeInv
    <2>5. CASE HelperRegisters(s)
      <3>1. UNCHANGED <<route, stranded>> /\ registry' = registry \cup {req[s].op}
        BY <2>5 DEF HelperRegisters
      <3> QED BY <2>2, <2>3, <3>1 DEF RegistryInv, AgeInv, Adding
    <2>6. CASE HelperRollsBack(s)
      <3>0. registry' = registry
        BY <2>6 DEF HelperRollsBack
      <3>1. \/ route' = Undone(req[s].op) /\ UNCHANGED stranded
            \/ stranded' = TRUE /\ UNCHANGED route
        BY <2>6, Zenon DEF HelperRollsBack
      <3>2. /\ route' \in {route, NoRoute} /\ NoRoute.by = 0
            /\ ~stranded' /\ route'.by # 0 => route' = route /\ ~Has(req[s].op)
        <4>1. CASE route' = Undone(req[s].op) /\ Has(req[s].op)
          BY <4>1 DEF Undone, NoRoute
        <4>2. CASE route' = Undone(req[s].op) /\ ~Has(req[s].op)
          BY <4>2 DEF Undone, NoRoute
        <4>3. CASE stranded' = TRUE /\ UNCHANGED route
          BY <4>3 DEF NoRoute
        <4> QED BY <3>1, <4>1, <4>2, <4>3
      <3>3. ~stranded' => ~stranded
        BY <3>1 DEF TypeOK
      <3>4. route'.by # 0 /\ ~stranded' => route'.pin \in registry'
        BY <2>2, <3>0, <3>2, <3>3 DEF RegistryInv, Adding, Has
      <3>5. route'.by <= attempt
        BY <3>2 DEF AgeInv, NoRoute, TypeOK
      <3> QED BY <2>2, <2>3, <3>4, <3>5 DEF RegistryInv, AgeInv
    <2> QED BY <1>7, <2>4, <2>5, <2>6
  <1>8. CASE HelperDies(s)
    <2> PICK r : Becomes(s, r) /\ r.st = "done"
      BY <1>8, DiesTo
    <2>1. req'[s] = r /\ \A t \in Sessions : t # s => req'[t] = req[t]
      BY BecomesOnly
    <2>2. UNCHANGED <<attempt, registry, route>> /\ lock' = IF lock = s THEN 0 ELSE lock
      BY <1>8 DEF HelperDies
    <2>3. LockInv'
      BY <1>0, <2>1, <2>2 DEF LockInv, Sessions
    <2>4. CASE lock # s
      <3>1. req[s].st \notin {"valid", "ran"} /\ r.st \notin {"valid", "ran"}
        BY <2>4 DEF LockInv
      <3>2. UNCHANGED stranded
        BY <1>8, <3>1 DEF HelperDies, TypeOK
      <3>3. UNCHANGED <<attempt, lock, registry, route, stranded>>
        BY <2>2, <2>4, <3>2
      <3> QED BY <3>1, <3>3, WaitingKernel
    <2>5. CASE lock = s
      <3>1. lock' = 0 /\ AgeInv'
        BY <2>2, <2>5 DEF AgeInv
      <3>2. ~stranded' => ~stranded /\ ~Adding
        BY <1>8, <2>5 DEF HelperDies, Adding, TypeOK
      <3>3. RegistryInv'
        BY <2>2, <3>1, <3>2 DEF RegistryInv
      <3> QED BY <2>3, <3>1, <3>3
    <2> QED BY <2>4, <2>5
  <1> QED BY <1>1, <1>2, <1>3, <1>4, <1>5, <1>6, <1>7, <1>8 DEF HelperNext

-----------------------------------------------------------------------------
(* What a step of a session's threads leaves to the others, and the records of *)
(* the current attempt.                                                    *)

\* A thread or a worker changes nothing of another session.
LEMMA AppOthers ==
  ASSUME TypeOK, NEW s \in Sessions, AppNext(s), NEW t \in Sessions, t # s
  PROVE  /\ UNCHANGED <<pc[t], worker[t], req[t], idle[t], stale[t], owned[t], slot[t]>>
         /\ (t \in unclaimed') <=> (t \in unclaimed)
  <1> USE DEF TypeOK, helperVars, kernelVars, hostVars, foundVars, claimVars, Goes, DropsPlan
  <1>1. CASE Begin(s) \/ UserStops(s) \/ WaitsForWorkers(s) \/ ListsPins(s) \/ ForgetsGone(s)
    BY <1>1 DEF Begin, UserStops, WaitsForWorkers, ListsPins, ForgetsGone
  <1>6. CASE Connects(s) \/ GivesUp(s)
    BY <1>6 DEF Connects, GivesUp
  <1>7. CASE LoadsStale(s) \/ Plans(s)
    BY <1>7 DEF LoadsStale, Plans
  <1>2. CASE RequestsRemoval(s) \/ ForgetsRemoved(s) \/ RetryCancelled(s)
    BY <1>2, ZenonT(60) DEF RequestsRemoval, ForgetsRemoved, RetryCancelled
  <1>3. CASE Records(s) \/ SetupFails(s) \/ Spawns(s) \/ Pushes(s) \/ RelayEnds(s)
    BY <1>3 DEF Records, SetupFails, Spawns, Pushes, RelayEnds
  <1>4. CASE WorkerApplies(s) \/ WorkerSettles(s) \/ WorkerClears(s)
    BY <1>4 DEF WorkerApplies, WorkerSettles, WorkerClears
  <1>5. CASE WaitsForSetup(s) \/ AsksToUnpin(s) \/ GivesUpClaim(s) \/ KeepsPin(s)
    BY <1>5 DEF WaitsForSetup, AsksToUnpin, GivesUpClaim, KeepsPin
  <1> QED BY <1>1, <1>2, <1>3, <1>4, <1>5, <1>6, <1>7 DEF AppNext

\* The attempt changes as the next one begins, and then only that.
LEMMA AppAttempt ==
  ASSUME TypeOK, NEW s \in Sessions, AppNext(s)
  PROVE  /\ UNCHANGED route
         /\ Begin(s) \/ UNCHANGED <<attempt, overtaken>>
  BY DEF AppNext, helperVars, kernelVars, hostVars, Begin, UserStops, WaitsForWorkers, ListsPins,
     ForgetsGone, RequestsRemoval, ForgetsRemoved, RetryCancelled, Connects, GivesUp, LoadsStale,
     Plans, Records, SetupFails, Spawns, Pushes, WorkerApplies, WorkerSettles, WorkerClears,
     RelayEnds, WaitsForSetup, AsksToUnpin, GivesUpClaim, KeepsPin

\* Which steps change the records, and how.
LEMMA AppRecords ==
  ASSUME TypeOK, NEW s \in Sessions, AppNext(s), NEW p \in Pins
  PROVE  \/ records'[p] = records[p]
         \/ records'[p] = 0 /\ ~Has(p) /\ records[p] # attempt
         \/ Records(s) /\ p = owned[s] /\ records'[p] = s /\ MayRetag(p, s)
         \/ /\ records[p] = s /\ records'[p] = 0
            /\ \/ WorkerSettles(s) /\ IsUsers(s) /\ p = owned[s]
               \/ GivesUpClaim(s) /\ p = slot[s]
  <1> USE DEF TypeOK, helperVars, kernelVars, hostVars, foundVars, claimVars, Goes, DropsPlan
  <1>1. CASE Begin(s) \/ UserStops(s) \/ WaitsForWorkers(s) \/ ListsPins(s)
             \/ RequestsRemoval(s) \/ RetryCancelled(s)
             \/ Connects(s) \/ GivesUp(s) \/ LoadsStale(s) \/ Plans(s)
    BY <1>1 DEF Begin, UserStops, WaitsForWorkers, ListsPins, RequestsRemoval, RetryCancelled,
       Connects, GivesUp, LoadsStale, Plans
  <1>2. CASE ForgetsGone(s) \/ ForgetsRemoved(s) \/ WorkerClears(s)
    BY <1>2, ForgetAbsentKeeps DEF ForgetsGone, ForgetsRemoved, WorkerClears
  <1>3. CASE Records(s)
    <2>1. CASE owned[s] = NoPin
      BY <1>3, <2>1 DEF Records
    <2>2. CASE owned[s] # NoPin
      BY <1>3, <2>2, RecordPinKeeps DEF Records
    <2> QED BY <2>1, <2>2
  <1>4. CASE SetupFails(s) \/ Spawns(s) \/ Pushes(s) \/ WorkerApplies(s) \/ RelayEnds(s)
             \/ WaitsForSetup(s) \/ AsksToUnpin(s) \/ KeepsPin(s)
    BY <1>4 DEF SetupFails, Spawns, Pushes, WorkerApplies, RelayEnds, WaitsForSetup, AsksToUnpin,
       KeepsPin
  <1>5. CASE WorkerSettles(s)
    <2>1. CASE IsUsers(s)
      BY <1>5, <2>1, ForgetOwnKeeps DEF WorkerSettles, IsUsers
    <2>2. CASE ~IsUsers(s)
      BY <1>5, <2>2 DEF WorkerSettles
    <2> QED BY <2>1, <2>2
  <1>6. CASE GivesUpClaim(s)
    BY <1>6, ForgetOwnKeeps DEF GivesUpClaim
  <1> QED BY <1>1, <1>2, <1>3, <1>4, <1>5, <1>6 DEF AppNext

\* What the current attempt recorded stays, until its worker or its thread retracts it.
LEMMA CurrentRecordStays ==
  ASSUME TypeOK, NEW s \in Sessions, AppNext(s), NEW p \in Pins,
         attempt # 0, records[p] = attempt
  PROVE  records'[p] = attempt \/ (s = attempt /\ (WorkerSettles(s) \/ GivesUpClaim(s)))
  BY AppRecords DEF MayRetag, Sessions, TypeOK

-----------------------------------------------------------------------------
(* The claim of the current attempt. *)

\* A step of the current attempt that leaves its slot to its record, records before
\* its worker asks, and asks for what is on record, keeps its claim.
ClaimHolds(s) ==
  /\ slot[s] # NoPin => records[slot[s]] = s
  /\ (pc[s] = "spawn" \/ worker[s] = "apply") /\ owned[s] # NoPin => records[owned[s]] = s
  /\ req[s].add # NoPin /\ s \notin unclaimed => records[req[s].add] = s

\* The invariant is about the current attempt only.
LEMMA ClaimIsTheCurrentOnes ==
  ASSUME TypeOK
  PROVE  ClaimInv <=> \A s \in Sessions : attempt = s => ClaimHolds(s)
  <1>1. attempt # 0 => attempt \in Sessions
    BY DEF TypeOK, Sessions
  <1>2. \A s \in Sessions : s # 0
    BY DEF Sessions
  <1> QED BY <1>1, <1>2 DEF ClaimInv, CurrentClaimIsKept, ClaimHolds

\* So it is after a step.
LEMMA ClaimIsTheNextOnes ==
  ASSUME TypeOK', \A s \in Sessions : attempt' = s => ClaimHolds(s)'
  PROVE  ClaimInv'
  <1>1. attempt' # 0 => attempt' \in Sessions
    BY DEF TypeOK, Sessions
  <1>2. \A s \in Sessions : s # 0
    BY DEF Sessions
  <1> QED BY <1>1, <1>2 DEF ClaimInv, CurrentClaimIsKept, ClaimHolds

\* A step of another session takes nothing from the current attempt's claim.
LEMMA OthersKeepTheClaim ==
  ASSUME TypeOK, ClaimInv, NEW s \in Sessions, AppNext(s), ~Begin(s),
         NEW c \in Sessions, attempt = c, s # c
  PROVE  ClaimHolds(c)'
  <1>1. ClaimHolds(c)
    BY ClaimIsTheCurrentOnes
  <1>2. c # 0
    BY DEF Sessions
  <1>3. \A p \in Pins : records[p] = c => records'[p] = c
    BY <1>2, CurrentRecordStays
  <1>4. /\ UNCHANGED <<pc[c], worker[c], req[c], owned[c], slot[c]>>
        /\ (c \in unclaimed') <=> (c \in unclaimed)
    BY AppOthers
  <1>5. slot[c] \in Pins \cup {NoPin} /\ owned[c] \in Pins \cup {NoPin}
        /\ req[c].add \in Pins \cup {NoPin}
    BY RequestFields DEF TypeOK
  <1> QED BY <1>1, <1>3, <1>4, <1>5 DEF ClaimHolds

\* Neither does a step of its own.
LEMMA OwnStepKeepsTheClaim ==
  ASSUME TypeOK, RequestsInv, ClaimInv, NEW s \in Sessions, AppNext(s), ~Begin(s), attempt = s
  PROVE  ClaimHolds(s)'
  <1> USE DEF TypeOK, helperVars, kernelVars, hostVars, foundVars, claimVars, Goes, DropsPlan
  <1>1. ClaimHolds(s) /\ s # 0
    BY ClaimIsTheCurrentOnes DEF Sessions
  <1>2. \A p \in Pins : records[p] = s => records'[p] = s \/ WorkerSettles(s) \/ GivesUpClaim(s)
    BY <1>1, CurrentRecordStays
  <1>3. slot[s] \in Pins \cup {NoPin} /\ owned[s] \in Pins \cup {NoPin}
        /\ req[s].add \in Pins \cup {NoPin} /\ pin[s] \in Pins \cup {NoPin}
    BY RequestFields
  <1>4. NoRequest.add = NoPin
    BY DEF NoRequest
  <1>5. AskerInv(s)
    BY DEF RequestsInv
  <1>6. req'[s] = req[s] \/ req'[s].add = NoPin \/ worker[s] = "apply"
    BY AppRequests
  <1>7. ASSUME slot'[s] \in {slot[s], NoPin}, owned'[s] \in {owned[s], NoPin},
               pc'[s] = "spawn" => pc[s] = "spawn",
               worker'[s] = "apply" => worker[s] = "apply" \/ pc[s] = "spawn",
               (s \in unclaimed') <=> (s \in unclaimed),
               req'[s] = req[s] \/ req'[s].add = NoPin,
               ~WorkerSettles(s), ~GivesUpClaim(s)
        PROVE  ClaimHolds(s)'
    BY <1>1, <1>2, <1>3, <1>7 DEF ClaimHolds
  <1>a. CASE UserStops(s) \/ WaitsForWorkers(s) \/ ListsPins(s) \/ ForgetsGone(s) \/ Connects(s)
             \/ GivesUp(s) \/ LoadsStale(s) \/ SetupFails(s)
    BY <1>a, <1>7 DEF UserStops, WaitsForWorkers, ListsPins, ForgetsGone, Connects, GivesUp,
       LoadsStale, SetupFails, WorkerSettles, GivesUpClaim
  <1>b. CASE RequestsRemoval(s) \/ ForgetsRemoved(s) \/ RetryCancelled(s) \/ AsksToUnpin(s)
    <2>1. worker[s] # "apply"
      BY <1>b, <1>5 DEF RequestsRemoval, ForgetsRemoved, RetryCancelled, AsksToUnpin, AskerInv
    <2> QED BY <1>b, <1>6, <1>7, <2>1 DEF RequestsRemoval, ForgetsRemoved, RetryCancelled,
            AsksToUnpin, WorkerSettles, GivesUpClaim
  <1>c. CASE Spawns(s) \/ Pushes(s) \/ RelayEnds(s) \/ WaitsForSetup(s) \/ WorkerClears(s)
    BY <1>c, <1>7 DEF Spawns, Pushes, RelayEnds, WaitsForSetup, WorkerClears, WorkerSettles,
       GivesUpClaim
  <1>d. CASE Plans(s)
    <2>1. worker[s] = "none"
      BY <1>d, <1>5 DEF Plans, AskerInv
    <2> QED BY <1>d, <1>1, <2>1 DEF Plans, ClaimHolds
  <1>e. CASE Records(s)
    <2>1. worker[s] = "none" /\ req[s].add = NoPin
      BY <1>e, <1>5 DEF Records, AskerInv
    <2>2. owned[s] # NoPin => records'[owned[s]] = s
      BY <1>3, <1>e, RecordPinKeeps DEF Records, MayRetag
    <2> QED BY <1>e, <2>1, <2>2 DEF Records, ClaimHolds
  <1>f. CASE WorkerApplies(s)
    <2>1. stale[s] \in SUBSET Pins
      OBVIOUS
    <2>2. Asking(stale[s], pin[s]).add = pin[s]
      BY <1>3, <2>1, AskingIs
    <2>3. UNCHANGED <<slot, owned, pc, records>>
      BY <1>f DEF WorkerApplies
    <2>4. CASE stop[s] \/ s \notin tun
      BY <1>f, <1>1, <2>3, <2>4 DEF WorkerApplies, ClaimHolds
    <2>5. CASE ~(stop[s] \/ s \notin tun)
      <3>1. /\ worker[s] = "apply" /\ worker'[s] = "applying" /\ req'[s].add = pin[s]
            /\ s \notin unclaimed' => owned[s] = pin[s]
        BY <1>f, <2>2, <2>5 DEF WorkerApplies
      <3> QED BY <1>1, <2>3, <3>1 DEF ClaimHolds
    <2> QED BY <2>4, <2>5
  <1>g. CASE WorkerSettles(s)
    <2>1. UNCHANGED <<owned, pc>> /\ req'[s].add = NoPin /\ worker'[s] = "clear" /\ pc[s] # "spawn"
      BY <1>g, <1>4, <1>5 DEF WorkerSettles, AskerInv
    <2>2. slot'[s] = NoPin \/ UNCHANGED <<slot, records>>
      BY <1>g DEF WorkerSettles
    <2> QED BY <1>1, <2>1, <2>2 DEF ClaimHolds
  <1>h. CASE GivesUpClaim(s) \/ KeepsPin(s)
    <2>1. worker[s] # "apply"
      BY <1>h, <1>5 DEF GivesUpClaim, KeepsPin, AskerInv
    <2> QED BY <1>h, <1>4, <2>1 DEF GivesUpClaim, KeepsPin, ClaimHolds
  <1> QED BY <1>a, <1>b, <1>c, <1>d, <1>e, <1>f, <1>g, <1>h DEF AppNext

\* Threads and workers keep the claim.
LEMMA AppClaim ==
  ASSUME TypeOK, TypeOK', RequestsInv, ClaimInv, NEW s \in Sessions, AppNext(s)
  PROVE  ClaimInv'
  <1>1. CASE Begin(s)
    <2>1. attempt' = s /\ pc[s] = "off" /\ pc'[s] = "wait" /\ UNCHANGED <<req, slot, worker>>
      BY <1>1 DEF Begin, Goes, claimVars, TypeOK
    <2>2. slot[s] = NoPin /\ worker[s] = "none" /\ req[s].add = NoPin
      BY <2>1 DEF RequestsInv, AskerInv
    <2>3. ClaimHolds(s)'
      BY <2>1, <2>2 DEF ClaimHolds
    <2>4. \A c \in Sessions : attempt' = c => ClaimHolds(c)'
      BY <2>1, <2>3
    <2> QED BY <2>4, ClaimIsTheNextOnes
  <1>2. CASE ~Begin(s)
    <2>1. attempt' = attempt
      BY <1>2, AppAttempt
    <2>2. \A c \in Sessions : attempt' = c => ClaimHolds(c)'
      BY <1>2, <2>1, OthersKeepTheClaim, OwnStepKeepsTheClaim
    <2> QED BY <2>2, ClaimIsTheNextOnes
  <1> QED BY <1>1, <1>2

\* A helper installs what it was asked for, or nothing.
LEMMA HelperClaim ==
  ASSUME TypeOK, TypeOK', RequestsInv, ClaimInv, NEW s \in Sessions, HelperNext(s), AppUnchanged
  PROVE  ClaimInv'
  <1> USE DEF AppUnchanged, hostVars, claimVars
  <1> PICK r : Becomes(s, r) /\ r.add \in {req[s].add, NoPin}
    BY HelperBecomes DEF RequestsInv, Advanced
  <1>1. attempt' = attempt
    BY HelperAsks
  <1>2. \A t \in Sessions : req'[t].add \in {req[t].add, NoPin}
    BY BecomesOnly
  <1>3. \A c \in Sessions : attempt = c => ClaimHolds(c)
    BY ClaimIsTheCurrentOnes
  <1>4. \A c \in Sessions : ClaimHolds(c) => ClaimHolds(c)'
    BY <1>2 DEF ClaimHolds
  <1> QED BY <1>1, <1>3, <1>4, ClaimIsTheNextOnes

\* The host claims nothing, and after a crash nothing is claimed.
LEMMA HostClaim ==
  ASSUME TypeOK, TypeOK', ClaimInv, \/ (NetworkChanges \/ UserAddsRoute) /\ AppUnchanged
                                    \/ Crash
  PROVE  ClaimInv'
  <1>1. \A c \in Sessions : attempt = c => ClaimHolds(c)
    BY ClaimIsTheCurrentOnes
  <1>2. UNCHANGED <<attempt, req, records, unclaimed>>
    BY DEF NetworkChanges, UserAddsRoute, Crash, AppUnchanged, hostVars
  <1>3. CASE (NetworkChanges \/ UserAddsRoute) /\ AppUnchanged
    <2>1. \A c \in Sessions : ClaimHolds(c) => ClaimHolds(c)'
      BY <1>2, <1>3 DEF AppUnchanged, claimVars, ClaimHolds
    <2> QED BY <1>1, <1>2, <2>1, ClaimIsTheNextOnes
  <1>4. CASE Crash
    <2>1. \A c \in Sessions : slot'[c] = NoPin /\ pc'[c] # "spawn" /\ worker'[c] # "apply"
      BY <1>4 DEF Crash
    <2>2. \A c \in Sessions : ClaimHolds(c) => ClaimHolds(c)'
      BY <1>2, <2>1 DEF ClaimHolds
    <2> QED BY <1>1, <1>2, <2>2, ClaimIsTheNextOnes
  <1> QED BY <1>3, <1>4

-----------------------------------------------------------------------------
(* The records of installed pins. *)

\* What was overtaken or unclaimed once stays so.
LEMMA AppHistory ==
  ASSUME TypeOK, NEW s \in Sessions, AppNext(s)
  PROVE  (overtaken => overtaken') /\ unclaimed \subseteq unclaimed'
  <1>1. CASE Begin(s)
    BY <1>1 DEF Begin
  <1>2. CASE WorkerApplies(s)
    <2>1. unclaimed' \in {unclaimed, unclaimed \cup {s}} /\ overtaken' = overtaken
      BY <1>2, Zenon DEF WorkerApplies
    <2> QED BY <2>1
  <1>3. CASE ~Begin(s) /\ ~WorkerApplies(s)
    <2>1. UNCHANGED unclaimed
      BY <1>3 DEF AppNext, hostVars, UserStops, WaitsForWorkers, ListsPins, ForgetsGone,
         RequestsRemoval, ForgetsRemoved, RetryCancelled, Connects, GivesUp, LoadsStale, Plans,
         Records, SetupFails, Spawns, Pushes, WorkerSettles, WorkerClears, RelayEnds,
         WaitsForSetup, AsksToUnpin, GivesUpClaim, KeepsPin
    <2> QED BY <1>3, <2>1, AppAttempt
  <1> QED BY <1>1, <1>2, <1>3

\* A worker that has asked never asks again, what a thread in its setup found stays
\* until it is dropped, and what it owns is settled by its plan.
LEMMA AppProgress ==
  ASSUME TypeOK, RequestsInv, NEW s \in Sessions, AppNext(s)
  PROVE  /\ worker[s] \in {"applying", "clear", "over"} =>
              worker'[s] \in {"applying", "clear", "over"}
         /\ pc'[s] \in SetUp /\ idle'[s] =>
              LoadsStale(s) \/ (pc[s] \in SetUp /\ idle[s] /\ stale'[s] = stale[s])
         /\ owned'[s] \in {owned[s], NoPin} \/ pc[s] = "plan"
  <1> USE DEF TypeOK, helperVars, kernelVars, hostVars, foundVars, claimVars, Goes, DropsPlan, SetUp
  <1>0. AskerInv(s)
    BY DEF RequestsInv
  <1>1. CASE Begin(s) \/ UserStops(s) \/ WaitsForWorkers(s) \/ ListsPins(s) \/ ForgetsGone(s)
    BY <1>1 DEF Begin, UserStops, WaitsForWorkers, ListsPins, ForgetsGone
  <1>6. CASE Connects(s) \/ GivesUp(s)
    BY <1>6 DEF Connects, GivesUp
  <1>7. CASE LoadsStale(s) \/ Plans(s)
    BY <1>7 DEF LoadsStale, Plans
  <1>2. CASE RequestsRemoval(s) \/ ForgetsRemoved(s) \/ RetryCancelled(s)
    BY <1>2 DEF RequestsRemoval, ForgetsRemoved, RetryCancelled
  <1>3. CASE Records(s) \/ SetupFails(s) \/ Spawns(s) \/ Pushes(s) \/ RelayEnds(s)
    BY <1>0, <1>3 DEF Records, SetupFails, Spawns, Pushes, RelayEnds, AskerInv
  <1>4. CASE WorkerApplies(s) \/ WorkerSettles(s) \/ WorkerClears(s)
    BY <1>4 DEF WorkerApplies, WorkerSettles, WorkerClears
  <1>5. CASE WaitsForSetup(s) \/ AsksToUnpin(s) \/ GivesUpClaim(s) \/ KeepsPin(s)
    BY <1>5 DEF WaitsForSetup, AsksToUnpin, GivesUpClaim, KeepsPin
  <1> QED BY <1>1, <1>2, <1>3, <1>4, <1>5, <1>6, <1>7 DEF AppNext

\* Threads and workers forget no installed pin.
LEMMA AppKeepsRecords ==
  ASSUME TypeOK, RequestsInv, RecordInv, NEW s \in Sessions, AppNext(s), Claimed
  PROVE  records'[route.pin] # 0
  <1>1. route.pin \in Pins /\ route.by \in Sessions /\ Has(route.pin)
    BY RouteOfOurs DEF Claimed, Has, Sessions
  <1>2. records[route.pin] # 0 /\ s # 0
    BY DEF RecordInv, Sessions
  <1>3. CASE WorkerSettles(s) /\ IsUsers(s) /\ route.pin = owned[s] /\ records[route.pin] = s
    <2>1. worker[s] = "applying" /\ pc[s] \in SetUp
      BY <1>3 DEF WorkerSettles, RequestsInv, AskerInv, SetUp
    <2>2. req[s].exists /\ idle[s] /\ route.pin \notin stale[s]
      BY <1>3 DEF IsUsers
    <2>3. route.by # s
      BY <2>2 DEF RecordInv, InstalledOnce
    <2>4. ~(route.by < s)
      BY <2>1, <2>2 DEF RecordInv, FoundLeftOver
    <2>5. ~(route.by > s)
      BY <1>3, <2>2 DEF RecordInv, LostRecord
    <2> QED BY <1>1, <2>3, <2>4, <2>5 DEF Sessions
  <1>4. CASE GivesUpClaim(s) /\ route.pin = slot[s]
    BY <1>1, <1>4 DEF GivesUpClaim
  <1> QED BY <1>1, <1>2, <1>3, <1>4, AppRecords

\* Threads and workers keep what keeps the records.
LEMMA AppRecorded ==
  ASSUME TypeOK, TypeOK', RequestsInv, RecordInv, NEW s \in Sessions, AppNext(s)
  PROVE  RecordInv'
  <1>0. route' = route /\ lock' = lock
    BY AppAttempt, AppRequests DEF kernelVars
  <1>1. Claimed' => Claimed
    BY <1>0, AppHistory DEF Claimed
  <1>2. LockIsCurrent'
    <2>1. CASE Begin(s)
      BY <1>0, <2>1 DEF Begin, LockIsCurrent
    <2>2. CASE ~Begin(s)
      BY <1>0, <2>2, AppAttempt DEF RecordInv, LockIsCurrent
    <2> QED BY <2>1, <2>2
  <1>3. Claimed' => records'[route'.pin] # 0
    BY <1>0, <1>1, AppKeepsRecords
  <1>a. ASSUME NEW t \in Sessions, t # s
        PROVE  /\ UNCHANGED <<pc[t], worker[t], req[t], idle[t], stale[t], owned[t]>>
    BY <1>a, AppOthers
  <1>4. ASSUME NEW t \in Sessions PROVE InstalledOnce(t)'
    <2>0. InstalledOnce(t)
      BY DEF RecordInv
    <2>1. CASE t # s
      BY <1>0, <1>a, <2>0, <2>1 DEF InstalledOnce, Deletes
    <2>2. CASE t = s
      <3>1. SUFFICES ASSUME route.by = s PROVE InstalledOnce(s)'
        BY <1>0, <2>2 DEF InstalledOnce
      <3>2. worker[s] \in {"applying", "clear", "over"}
        BY <2>0, <2>2, <3>1 DEF InstalledOnce
      <3>3. worker'[s] \in {"applying", "clear", "over"}
        BY <3>2, AppProgress
      <3>4. req'[s] = req[s] \/ (req'[s].add = NoPin /\ ~req'[s].exists)
        BY <3>2, AppRequests
      <3> QED BY <1>0, <2>0, <2>2, <3>3, <3>4 DEF InstalledOnce, Deletes
    <2> QED BY <2>1, <2>2
  <1>5. ASSUME NEW t \in Sessions PROVE FoundLeftOver(t)'
    <2>0. FoundLeftOver(t)
      BY DEF RecordInv
    <2>1. CASE t # s
      BY <1>0, <1>1, <1>a, <2>0, <2>1 DEF FoundLeftOver
    <2>2. CASE t = s /\ LoadsStale(s)
      <3>1. SUFFICES ASSUME Claimed, idle'[s] PROVE route.pin \in stale'[s]
        BY <1>0, <1>1, <2>2 DEF FoundLeftOver
      <3>2. route.pin \in Recorded /\ Has(route.pin)
        BY <3>1, RouteOfOurs DEF Recorded, Has, RecordInv, Claimed
      <3>3. idle[s]
        BY <2>2, <3>1 DEF LoadsStale
      <3> QED BY <2>2, <3>2, <3>3 DEF LoadsStale, TypeOK
    <2>3. CASE t = s /\ ~LoadsStale(s)
      BY <1>0, <1>1, <2>0, <2>3, AppProgress DEF FoundLeftOver
    <2> QED BY <2>1, <2>2, <2>3
  <1>6. ASSUME NEW t \in Sessions PROVE LostRecord(t)'
    <2>1. SUFFICES ASSUME Claimed, req'[t].exists, owned'[t] = route.pin, route.by > t
                   PROVE  records'[route.pin] # t
      BY <1>0, <1>1 DEF LostRecord
    <2>2. req'[t] = req[t]
      BY <2>1, AppRequests
    <2>3. route.pin \in Pins /\ t # 0
      BY <2>1, RouteOfOurs DEF Claimed, Sessions
    <2>4. pc[t] \notin {"plan", "record"}
      <3>1. req[t].st # "none"
        <4>1. ~NoRequest.exists
          BY DEF NoRequest
        <4>2. req[t].exists
          BY <2>1, <2>2
        <4> QED BY <4>1, <4>2 DEF RequestsInv, WellFormed
      <3>2. AskerInv(t)
        BY DEF RequestsInv
      <3> QED BY <3>1, <3>2 DEF AskerInv
    <2>5. owned[t] = route.pin
      BY <2>1, <2>3, <2>4, <1>a, AppProgress
    <2>6. records[route.pin] # t
      BY <2>1, <2>2, <2>5 DEF RecordInv, LostRecord
    <2>7. ~(Records(s) /\ s = t)
      BY <2>4 DEF Records
    <2> QED BY <2>3, <2>6, <2>7, AppRecords
  <1> QED BY <1>2, <1>3, <1>4, <1>5, <1>6 DEF RecordInv

\* What a helper does to the route and to the lock.
LEMMA HelperRoute ==
  ASSUME TypeOK, NEW s \in Sessions, HelperNext(s)
  PROVE  /\ \/ route' = route
            \/ route'.by = 0
            \/ HelperAdds(s) /\ route = NoRoute /\ route' = [pin |-> req[s].op, by |-> s]
         /\ lock' \in {lock, 0} \/ (lock' = s /\ attempt = s)
  <1> USE DEF kernelVars
  <1>1. CASE HelperRefused(s) \/ HelperChecks(s) \/ HelperTimesOut(s) \/ HelperRejects(s)
             \/ HelperUnregisters(s) \/ HelperRegisters(s) \/ HelperDies(s)
    BY <1>1 DEF HelperRefused, HelperChecks, HelperTimesOut, HelperRejects, HelperUnregisters,
       HelperRegisters, HelperDies
  <1>2. CASE HelperValidates(s)
    <2>1. CASE StillCurrent(s) /\ Valid(s)
      BY <1>2, <2>1 DEF HelperValidates, StillCurrent
    <2>2. CASE ~(StillCurrent(s) /\ Valid(s))
      BY <1>2, <2>2 DEF HelperValidates
    <2> QED BY <2>1, <2>2
  <1>3. CASE HelperDeletes(s)
    BY <1>3, RouteIs DEF HelperDeletes, NoRoute
  <1>4. CASE HelperAdds(s)
    <2>1. CASE route = NoRoute
      BY <1>4, <2>1 DEF HelperAdds
    <2>2. CASE route # NoRoute
      BY <1>4, <2>2 DEF HelperAdds
    <2> QED BY <2>1, <2>2
  <1>5. CASE HelperRollsBack(s)
    <2>1. route' \in {route, NoRoute} /\ lock' = 0
      BY <1>5, Zenon DEF HelperRollsBack, Undone
    <2> QED BY <2>1 DEF NoRoute
  <1> QED BY <1>1, <1>2, <1>3, <1>4, <1>5 DEF HelperNext

\* A pin that a helper installs is on record, and its session is the newest.
LEMMA HelperInstalls ==
  ASSUME TypeOK, RequestsInv, KernelInv, ClaimInv, RecordInv, NEW s \in Sessions, HelperAdds(s),
         route = NoRoute, route' = [pin |-> req[s].op, by |-> s], AppUnchanged
  PROVE  /\ InstalledOnce(s)'
         /\ Claimed' => attempt = s /\ records[route'.pin] = s
  <1> USE DEF AppUnchanged, hostVars, claimVars, foundVars
  <1>0. req[s].st = "valid" /\ ~Deletes(s) /\ WellFormed(req[s]) /\ AskerInv(s)
    BY DEF HelperAdds, RequestsInv
  <1>1. req[s].add = req[s].op /\ req[s].op # NoPin /\ ~req[s].exists /\ route'.by = s
    BY <1>0 DEF WellFormed, Deletes
  <1> PICK r : /\ Becomes(s, r)
               /\ r.st = "ran" /\ r.dels = req[s].dels /\ r.add = req[s].add
               /\ r.op = req[s].op /\ r.exists = req[s].exists
    BY MovesTo DEF HelperAdds, RequestSteps
  <1>2. req'[s] = r
    BY BecomesOnly
  <1>3. worker[s] \in {"applying", "over"}
    BY <1>0, <1>1 DEF AskerInv
  <1>4. InstalledOnce(s)'
    BY <1>0, <1>1, <1>2, <1>3 DEF InstalledOnce, Deletes
  <1>5. ASSUME Claimed' PROVE attempt = s /\ records[route'.pin] = s
    <2>1. lock = s /\ s # 0
      BY <1>0 DEF KernelInv, LockInv, Sessions
    <2>2. attempt = s
      BY <1>5, <2>1 DEF Claimed, RecordInv, LockIsCurrent
    <2>3. s \notin unclaimed
      BY <1>1, <1>5 DEF Claimed
    <2>4. records[req[s].add] = s
      BY <1>1, <2>2, <2>3 DEF ClaimInv
    <2> QED BY <1>1, <2>2, <2>4
  <1> QED BY <1>4, <1>5

\* Helpers keep what keeps the records.
LEMMA HelperRecorded ==
  ASSUME TypeOK, RequestsInv, KernelInv, ClaimInv, RecordInv, NEW s \in Sessions, HelperNext(s),
         AppUnchanged
  PROVE  RecordInv'
  <1> USE DEF AppUnchanged, hostVars, claimVars, foundVars
  <1> PICK r : Advanced(s, r)
    BY HelperBecomes DEF RequestsInv
  <1>0. req'[s] = r /\ \A t \in Sessions : t # s => req'[t] = req[t]
    BY BecomesOnly DEF Advanced
  <1>1. attempt' = attempt /\ s # 0 /\ WellFormed(req[s]) /\ AskerInv(s)
    BY HelperAsks DEF Sessions, RequestsInv
  <1>2. LockIsCurrent'
    BY <1>1, HelperRoute DEF RecordInv, LockIsCurrent
  <1>a. CASE route' = route
    <2>1. (Claimed' <=> Claimed) /\ (Claimed' => records'[route'.pin] # 0)
      BY <1>a DEF RecordInv, Claimed
    <2>2. ASSUME NEW t \in Sessions PROVE InstalledOnce(t)'
      <3>0. InstalledOnce(t)
        BY DEF RecordInv
      <3>1. CASE t # s
        BY <1>0, <1>a, <3>0, <3>1 DEF InstalledOnce, Deletes
      <3>2. CASE t = s /\ route.by = s
        <4>1. r.add = NoPin
          BY <3>0, <3>2 DEF InstalledOnce, Advanced
        <4>2. ~(req[s].st = "valid" /\ ~Deletes(s))
          BY <1>1, <3>0, <3>2 DEF InstalledOnce, WellFormed, Deletes
        <4>3. ~r.exists
          BY <3>0, <3>2, <4>2 DEF InstalledOnce, Advanced
        <4> QED BY <1>0, <3>0, <3>2, <4>1, <4>3 DEF InstalledOnce
      <3>3. CASE t = s /\ route.by # s
        BY <1>a, <3>3 DEF InstalledOnce
      <3> QED BY <3>1, <3>2, <3>3
    <2>3. ASSUME NEW t \in Sessions PROVE FoundLeftOver(t)'
      BY <1>a, <2>1 DEF RecordInv, FoundLeftOver
    <2>4. ASSUME NEW t \in Sessions PROVE LostRecord(t)'
      <3>0. LostRecord(t)
        BY DEF RecordInv
      <3>1. CASE t # s
        BY <1>0, <1>a, <2>1, <3>0, <3>1 DEF LostRecord
      <3>2. CASE t = s /\ req[s].st = "valid" /\ ~Deletes(s)
        <4>1. lock = s
          BY <3>2 DEF KernelInv, LockInv
        <4>2. ~(route.by > s)
          BY <1>1, <4>1, RouteOfOurs DEF KernelInv, AgeInv, Sessions
        <4> QED BY <1>a, <3>2, <4>2 DEF LostRecord
      <3>3. CASE t = s /\ ~(req[s].st = "valid" /\ ~Deletes(s))
        <4>1. r.exists => req[s].exists
          BY <3>3 DEF Advanced
        <4> QED BY <1>0, <1>a, <2>1, <3>0, <3>3, <4>1 DEF LostRecord
      <3> QED BY <3>1, <3>2, <3>3
    <2> QED BY <1>2, <2>1, <2>2, <2>3, <2>4 DEF RecordInv
  <1>b. CASE route'.by = 0
    BY <1>2, <1>b DEF RecordInv, Claimed, InstalledOnce, FoundLeftOver, LostRecord, Sessions
  <1>c. CASE HelperAdds(s) /\ route = NoRoute /\ route' = [pin |-> req[s].op, by |-> s]
    <2>1. route'.by = s
      BY <1>c
    <2>2. InstalledOnce(s)' /\ (Claimed' => attempt = s /\ records[route'.pin] = s)
      BY <1>c, HelperInstalls
    <2>3. \A t \in Sessions : InstalledOnce(t)'
      BY <2>1, <2>2 DEF InstalledOnce
    <2>4. ASSUME NEW t \in Sessions PROVE FoundLeftOver(t)'
      <3>1. (pc[t] = "off") <=> (t > attempt)
        BY DEF RequestsInv, AskerInv
      <3> QED BY <2>1, <2>2, <3>1 DEF FoundLeftOver, SetUp
    <2>5. ASSUME NEW t \in Sessions PROVE LostRecord(t)'
      BY <2>1, <2>2 DEF LostRecord, Sessions
    <2> QED BY <1>1, <1>2, <2>2, <2>3, <2>4, <2>5 DEF RecordInv
  <1> QED BY <1>a, <1>b, <1>c, HelperRoute

\* The host's routes are not on record, and a crash stops every worker.
LEMMA HostRecorded ==
  ASSUME TypeOK, RecordInv, \/ (NetworkChanges \/ UserAddsRoute) /\ AppUnchanged
                            \/ Crash
  PROVE  RecordInv'
  <1>1. UNCHANGED <<attempt, lock, req, records, overtaken, unclaimed>>
    BY DEF NetworkChanges, UserAddsRoute, Crash, AppUnchanged, hostVars
  <1>2. LockIsCurrent'
    BY <1>1 DEF RecordInv, LockIsCurrent
  <1>3. CASE (NetworkChanges \/ UserAddsRoute) /\ AppUnchanged
    <2>1. route' = route \/ route'.by = 0
      BY <1>3 DEF NetworkChanges, UserAddsRoute, NoRoute
    <2>2. CASE route' = route
      BY <1>1, <1>2, <1>3, <2>2 DEF RecordInv, Claimed, InstalledOnce, FoundLeftOver, LostRecord,
         AppUnchanged, foundVars, claimVars, Deletes
    <2>3. CASE route'.by = 0
      BY <1>2, <2>3 DEF RecordInv, Claimed, InstalledOnce, FoundLeftOver, LostRecord, Sessions
    <2> QED BY <2>1, <2>2, <2>3
  <1>4. CASE Crash
    <2>1. route' = route /\ \A s \in Sessions :
            idle'[s] = FALSE /\ owned'[s] = NoPin /\ (worker[s] # "none" => worker'[s] = "over")
      BY <1>4 DEF Crash
    <2>2. Claimed' => Claimed /\ records'[route'.pin] # 0 /\ route'.pin # NoPin
      BY <1>1, <2>1, RouteOfOurs DEF RecordInv, Claimed
    <2>3. \A s \in Sessions : InstalledOnce(s)'
      BY <1>1, <2>1 DEF RecordInv, InstalledOnce, Deletes
    <2>4. \A s \in Sessions : FoundLeftOver(s)' /\ LostRecord(s)'
      BY <2>1, <2>2 DEF FoundLeftOver, LostRecord
    <2> QED BY <1>2, <2>2, <2>3, <2>4 DEF RecordInv
  <1> QED BY <1>3, <1>4

-----------------------------------------------------------------------------
(* Theorems. *)

\* Before the first attempt there is no request, no claim and no route of ours.
LEMMA InitGivesInvariant == ASSUME Init PROVE IInv
  <1> USE DEF Init, HelperInit
  <1>1. route.by = 0 /\ route \in Routes
    <2>1. CASE route = NoRoute
      BY <2>1 DEF NoRoute, Routes
    <2>2. CASE route \in [pin : Pins, by : {0}]
      BY <2>2 DEF Routes
    <2> QED BY <2>1, <2>2
  <1>2. \A s \in Sessions : req[s] = NoRequest
    OBVIOUS
  <1>3. NoRequest.st = "none" /\ NoRequest.add = NoPin /\ ~NoRequest.exists
    BY DEF NoRequest
  <1>4. TypeOK
    <2>1. 0 \in 0 .. MaxSessions /\ attempt = 0 /\ lock = 0 /\ changes = 0 /\ path \in Pins
      BY SessionsAssumption
    <2>2. req \in [Sessions -> Requests] /\ records \in [Pins -> 0 .. MaxSessions]
      BY <2>1, NoRequestIs
    <2>3. pc \in [Sessions -> ThreadSteps] /\ worker \in [Sessions -> WorkerSteps]
      BY DEF ThreadSteps, WorkerSteps
    <2>4. stop \in [Sessions -> BOOLEAN] /\ idle \in [Sessions -> BOOLEAN]
      OBVIOUS
    <2>5. stale \in [Sessions -> SUBSET Pins] /\ gone \in [Sessions -> SUBSET Pins]
      OBVIOUS
    <2>6. pin \in [Sessions -> Pins \cup {NoPin}] /\ owned \in [Sessions -> Pins \cup {NoPin}]
          /\ slot \in [Sessions -> Pins \cup {NoPin}]
      OBVIOUS
    <2>7. stranded \in BOOLEAN /\ overtaken \in BOOLEAN /\ registry = {} /\ tun = {}
          /\ unclaimed = {}
      OBVIOUS
    <2> HIDE DEF Init, HelperInit
    <2> QED BY <1>1, <2>1, <2>2, <2>3, <2>4, <2>5, <2>6, <2>7 DEF TypeOK
  <1>5. RequestsInv
    BY <1>2, <1>3 DEF RequestsInv, WellFormed, AskerInv, Sessions
  <1>6. KernelInv
    BY <1>1, <1>2, <1>3 DEF KernelInv, LockInv, RegistryInv, AgeInv, Sessions
  <1>7. ClaimInv
    BY DEF ClaimInv, CurrentClaimIsKept, Sessions
  <1>8. RecordInv
    BY <1>1, <1>2, <1>3 DEF RecordInv, LockIsCurrent, Claimed, InstalledOnce, FoundLeftOver,
       LostRecord, Sessions
  <1> QED BY <1>4, <1>5, <1>6, <1>7, <1>8 DEF IInv

\* What stays the same keeps the invariant.
LEMMA StutterKeepsInvariant == ASSUME IInv, UNCHANGED vars PROVE IInv'
  <1> USE DEF vars, helperVars, kernelVars, hostVars, foundVars, claimVars
  <1>1. TypeOK'
    BY DEF IInv, TypeOK
  <1>2. RequestsInv'
    BY DEF IInv, RequestsInv, AskerInv
  <1>3. KernelInv'
    BY DEF IInv, KernelInv, LockInv, RegistryInv, AgeInv, Adding, Deletes, Has
  <1>4. ClaimInv'
    BY DEF IInv, ClaimInv, CurrentClaimIsKept
  <1>5. RecordInv'
    BY DEF IInv, RecordInv, LockIsCurrent, Claimed, InstalledOnce, FoundLeftOver, LostRecord, Deletes
  <1> QED BY <1>1, <1>2, <1>3, <1>4, <1>5 DEF IInv

\* Threads, workers, helpers, the host and a crash all keep it.
LEMMA StepKeepsInvariant == ASSUME IInv, Next PROVE IInv'
  <1> USE DEF IInv
  <1>1. ASSUME NEW s \in Sessions, AppNext(s) PROVE IInv'
    <2>1. TypeOK'
      BY <1>1, AppType
    <2> QED BY <1>1, <2>1, AppAsks, AppKernel, AppClaim, AppRecorded
  <1>2. ASSUME NEW s \in Sessions, HelperNext(s), AppUnchanged PROVE IInv'
    <2>1. TypeOK'
      BY <1>2, HelperType DEF RequestsInv
    <2> QED BY <1>2, <2>1, HelperAsks, HelperKernel, HelperClaim, HelperRecorded
  <1>3. ASSUME \/ (NetworkChanges \/ UserAddsRoute) /\ AppUnchanged
               \/ Crash
        PROVE  IInv'
    <2>1. TypeOK'
      BY <1>3, HostType
    <2>2. NetworkChanges \/ UserAddsRoute \/ Crash
      BY <1>3
    <2> QED BY <1>3, <2>1, <2>2, HostAsks, HostKernel, HostClaim, HostRecorded
  <1> QED BY <1>1, <1>2, <1>3 DEF Next, AppUnchanged

\* The invariant holds throughout every run, for any number of attempts and any paths
\* to the gateway, whatever dies, hangs behind a prompt or answers late.
THEOREM InvariantHolds == Spec => []IInv
  <1>1. Init => IInv
    BY InitGivesInvariant
  <1>2. IInv /\ [Next]_vars => IInv'
    BY StepKeepsInvariant, StutterKeepsInvariant
  <1> QED BY <1>1, <1>2, PTL DEF Spec

\* Between two operations of the helper (nethelper.rs, execute), a pin of ours is one
\* that the helper may delete for the caller, unless registering and rolling back both
\* failed.
THEOREM NoPinIsBeyondReach == Spec => []PinsAreRegistered
  <1>1. IInv => PinsAreRegistered
    BY DEF IInv, KernelInv, RegistryInv, Adding, PinsAreRegistered
  <1> QED BY <1>1, InvariantHolds, PTL

\* Whatever the workers and threads of older attempts do to the pin-state file
\* (netcfg.rs), what the current attempt claims stays recorded for it.
THEOREM ClaimIsKept == Spec => []CurrentClaimIsKept
  <1>1. IInv => CurrentClaimIsKept
    BY DEF IInv, ClaimInv
  <1> QED BY <1>1, InvariantHolds, PTL

\* An installed pin that its session claimed can be found and removed later
\* (backend.rs, on_network), crashes included, if no attempt overtook a helper that
\* was past its checks.
THEOREM ClaimedPinsCanBeFound == Spec => []ClaimedPinsAreRecorded
  <1>1. IInv => ClaimedPinsAreRecorded
    BY DEF IInv, RecordInv, Claimed, ClaimedPinsAreRecorded, PinsAreRecorded
  <1> QED BY <1>1, InvariantHolds, PTL

\* A helper that changes the route holds the lock, and the route is one of ours or none.
LEMMA HelperTouches ==
  ASSUME TypeOK, KernelInv, NEW s \in Sessions, HelperNext(s), route' # route
  PROVE  /\ route = NoRoute \/ (route.by # 0 /\ lock = s)
         /\ \A t \in Sessions : t # s => req'[t] = req[t]
  <1> USE DEF kernelVars
  <1>1. HelperDeletes(s) \/ HelperAdds(s) \/ HelperRollsBack(s)
    <2>1. HelperValidates(s) => UNCHANGED route
      BY DEF HelperValidates
    <2> QED BY <2>1 DEF HelperNext, HelperRefused, HelperChecks, HelperTimesOut, HelperRejects,
            HelperUnregisters, HelperRegisters, HelperDies
  <1>2. req[s].st \in {"valid", "ran"}
    BY <1>1 DEF HelperDeletes, HelperAdds, HelperRollsBack
  <1>3. lock = s
    BY <1>2 DEF KernelInv, LockInv
  <1>4. route = NoRoute \/ route.by # 0
    <2>1. CASE HelperDeletes(s)
      BY <2>1 DEF HelperDeletes, Deleted, Has
    <2>2. CASE HelperAdds(s)
      BY <2>2 DEF HelperAdds
    <2>3. CASE HelperRollsBack(s)
      BY <2>3 DEF HelperRollsBack, Undone, Has
    <2> QED BY <1>1, <2>1, <2>2, <2>3
  <1>5. \E r : req' = [req EXCEPT ![s] = r]
    BY <1>1 DEF HelperDeletes, HelperAdds, HelperRollsBack, Moves, OpOver
  <1>6. \A t \in Sessions : t # s => req'[t] = req[t]
    BY <1>5 DEF TypeOK
  <1> QED BY <1>3, <1>4, <1>6

\* A helper never removes or replaces a route of the user's.
THEOREM UsersRouteIsSafe == Spec => UsersRouteStays
  <1> DEFINE Kept == route # NoRoute /\ route.by = 0 /\ route' # route => UNCHANGED req
  <1>1. IInv /\ [Next]_vars => [Kept]_vars
    <2> SUFFICES ASSUME IInv, Next PROVE Kept
      OBVIOUS
    <2>1. ASSUME NEW s \in Sessions, AppNext(s) PROVE Kept
      BY <2>1, AppAttempt DEF IInv
    <2>2. ASSUME NEW s \in Sessions, HelperNext(s) PROVE Kept
      BY <2>2, HelperTouches DEF IInv
    <2>3. NetworkChanges \/ UserAddsRoute \/ Crash => Kept
      BY DEF NetworkChanges, UserAddsRoute, Crash
    <2> QED BY <2>1, <2>2, <2>3 DEF Next
  <1> QED BY <1>1, InvariantHolds, PTL DEF Spec, UsersRouteStays

\* A request that waited for a prompt or the lock never removes the pin of a newer
\* session.
THEOREM NewerPinIsSafe == Spec => NewerPinStays
  <1> DEFINE Kept == \A s \in Sessions : req'[s] # req[s] /\ route' # route => route.by <= s
  <1>1. IInv /\ [Next]_vars => [Kept]_vars
    <2> SUFFICES ASSUME IInv, Next PROVE Kept
      OBVIOUS
    <2>1. ASSUME NEW s \in Sessions, AppNext(s) PROVE Kept
      BY <2>1, AppAttempt DEF IInv
    <2>2. ASSUME NEW s \in Sessions, HelperNext(s), route' # route PROVE Kept
      <3>1. \A t \in Sessions : t # s => req'[t] = req[t]
        BY <2>2, HelperTouches DEF IInv
      <3>2. route.by <= s
        <4>1. CASE route = NoRoute
          BY <4>1 DEF NoRoute, Sessions
        <4>2. CASE lock = s
          BY <4>2 DEF IInv, KernelInv, AgeInv, Sessions
        <4> QED BY <2>2, <4>1, <4>2, HelperTouches DEF IInv
      <3> QED BY <3>1, <3>2
    <2>3. NetworkChanges \/ UserAddsRoute \/ Crash => Kept
      BY DEF NetworkChanges, UserAddsRoute, Crash
    <2> QED BY <2>1, <2>2, <2>3 DEF Next
  <1> QED BY <1>1, InvariantHolds, PTL DEF Spec, NewerPinStays
=============================================================================
