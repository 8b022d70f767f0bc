---------------------------- MODULE SessionProofs ----------------------------
(***************************************************************************)
(* Theorems about Session, for any number of sessions: what the GTK        *)
(* thread, the tray, the relay threads and the setup workers can do to     *)
(* each other in any interleaving.                                         *)
(***************************************************************************)
EXTENDS Session, TLAPS

-----------------------------------------------------------------------------
(* The inductive invariant. *)

\* Every variable in its range; what the backend holds belongs to the last session.
TypeOK ==
  /\ ui \in {"idle", "drained", "checked", "handled", "waiting", "pollWaiting"}
  /\ state \in States /\ cur \in 0 .. MaxSessions /\ log \subseteq Signals
  /\ handle \in {0, cur} /\ stop_flag \in {0, cur} /\ profile \in {0, cur}
  /\ pc \in [Sessions -> ThreadSteps] /\ failed \in [Sessions -> BOOLEAN]
  /\ worker \in [Sessions -> {"none", "running", "prompt", "applied", "announced", "failed", "stopped"}]
  /\ chan \in [Sessions -> SUBSET Signals] /\ stop \in [Sessions -> BOOLEAN]
  /\ cookie \in [Sessions -> BOOLEAN] /\ logouts \in [Sessions -> Nat]

\* The thread has been past the negotiation.
Relayed(s) == pc[s] \in {"relay", "cleanup", "report", "exit", "done"}
\* It announced its tunnel, or needed no setup.
Up(s) == Relayed(s) /\ worker[s] \in {"none", "announced"}
\* It is over or will be.
Ending(s) == pc[s] = "done" \/ stop[s] \/ failed[s] \/ worker[s] = "failed"

\* A worker belongs to a thread that relays or did, and an error to one that leaves.
ThreadsInOrder ==
  \A s \in Sessions :
    /\ s > cur => pc[s] = "none" /\ logouts[s] = 0
    /\ worker[s] # "none" => Relayed(s)
    /\ failed[s] => pc[s] \in {"cleanup", "report", "exit", "done"}

\* A signal is sent only by a session it is true of.
SignalsAreTrue ==
  /\ \A s \in Sessions :
       /\ "UP" \in chan[s] => Up(s)
       /\ "ERROR" \in chan[s] => Ending(s)
  /\ cur = 0 => log = {}
  /\ "UP" \in log => Up(cur)
  /\ "ERROR" \in log => Ending(cur)

\* The state tells how far the last session is.
StateIsTrue ==
  /\ state = "Connected" => cur # 0 /\ Up(cur)
  /\ IsActive(state) => cur # 0 /\ stop_flag = cur
  /\ ~IsActive(state) /\ cur # 0 => Ending(cur)
  /\ ui \in {"waiting", "pollWaiting"} => cur # 0 /\ stop[cur]

\* The profile is given away with the only logout.
LogoutIsPending == profile # 0 => logouts[cur] = 0

\* The error of the last session was logged before its thread ended.
ErrorIsLogged ==
  cur # 0 /\ failed[cur] /\ pc[cur] \in {"exit", "done"} => "ERROR" \in log \cup chan[cur]

IInv ==
  /\ TypeOK /\ ThreadsInOrder /\ SignalsAreTrue /\ StateIsTrue
  /\ LogoutIsPending /\ ErrorIsLogged

-----------------------------------------------------------------------------
(* The GTK thread's steps. *)

USE SessionsAssumption

\* connect() puts a new session in the place of whatever there was.
LEMMA ConnectKeeps ==
  ASSUME IInv, Connect, ui \in {"idle", "checked"}, ui' \in {"idle", "handled"}
  PROVE  IInv'
  <1> USE DEF Connect, FreshFlag, ClearedLog, Sessions
  <1>1. TypeOK'
    BY DEF IInv, TypeOK, States, Signals, ThreadSteps
  <1>a. cur' \in Sessions /\ cur' > cur
    BY DEF IInv, TypeOK
  <1>b. pc[cur'] = "none" /\ logouts[cur'] = 0
    BY <1>a DEF IInv, ThreadsInOrder
  <1>2. pc[cur'] = "none" /\ worker[cur'] = "none" /\ ~failed[cur'] /\ logouts[cur'] = 0
    BY <1>a, <1>b DEF IInv, TypeOK, ThreadsInOrder, Relayed
  <1>3. ThreadsInOrder'
    BY <1>2 DEF IInv, TypeOK, ThreadsInOrder, Relayed
  <1>4. SignalsAreTrue'
    BY DEF IInv, TypeOK, SignalsAreTrue
  <1>5. StateIsTrue'
    BY DEF IInv, TypeOK, StateIsTrue, IsActive
  <1>6. LogoutIsPending' /\ ErrorIsLogged'
    BY <1>2 DEF IInv, TypeOK, LogoutIsPending, ErrorIsLogged
  <1> QED BY <1>1, <1>3, <1>4, <1>5, <1>6 DEF IInv

\* disconnect() raises the flag of the last session.
LEMMA StartDisconnectKeeps ==
  ASSUME IInv, IsActive(state), StartDisconnect, ui' \in {"waiting", "pollWaiting"}
  PROVE  IInv'
  <1> USE DEF StartDisconnect, StopRaised, Sessions
  <1>1. stop' = [stop EXCEPT ![cur] = TRUE] /\ cur \in Sessions
    BY DEF IInv, TypeOK, StateIsTrue
  <1>2. TypeOK'
    BY <1>1 DEF IInv, TypeOK, States
  <1>3. \A s \in Sessions : Ending(s) => Ending(s)'
    BY <1>1 DEF IInv, TypeOK, Ending
  <1>4. ThreadsInOrder'
    BY DEF IInv, ThreadsInOrder, Relayed
  <1>5. SignalsAreTrue'
    BY <1>1, <1>3 DEF IInv, SignalsAreTrue, Up, Relayed
  <1>6. StateIsTrue'
    BY <1>1 DEF IInv, TypeOK, StateIsTrue, IsActive, Ending
  <1>7. LogoutIsPending' /\ ErrorIsLogged'
    BY DEF IInv, LogoutIsPending, ErrorIsLogged
  <1> QED BY <1>2, <1>4, <1>5, <1>6, <1>7 DEF IInv

\* The logout at the end of a session.
LEMMA LogoutKeeps ==
  ASSUME IInv, LogoutSession, UNCHANGED <<cur, log, stop_flag, pc, failed, worker, chan, stop>>,
         handle' \in {0, cur}, state' \in States, ui' \in {"idle", "handled", "checked"},
         ~IsActive(state'), state' # "Connected", cur # 0 => Ending(cur)
  PROVE  IInv'
  <1>1. TypeOK'
    BY DEF IInv, TypeOK, LogoutSession, Sessions
  <1>2. ThreadsInOrder'
    BY DEF IInv, TypeOK, ThreadsInOrder, Relayed, LogoutSession, Sessions
  <1>3. SignalsAreTrue'
    BY DEF IInv, SignalsAreTrue, Up, Relayed, Ending
  <1>4. StateIsTrue'
    BY DEF IInv, StateIsTrue, Ending, IsActive
  <1>5. LogoutIsPending' /\ ErrorIsLogged'
    BY DEF IInv, LogoutIsPending, ErrorIsLogged, LogoutSession
  <1> QED BY <1>1, <1>2, <1>3, <1>4, <1>5 DEF IInv

\* Steps of the GTK thread that change nothing the invariant is about but ui.
LEMMA IdleKeeps ==
  ASSUME IInv, UNCHANGED <<state, cur, log, handle, stop_flag, profile, threadVars, logouts>>,
         ui' = ui \/ ui' \in {"idle", "handled", "checked"}
  PROVE  IInv'
  BY DEF IInv, TypeOK, ThreadsInOrder, SignalsAreTrue, StateIsTrue, LogoutIsPending, ErrorIsLogged,
         Up, Relayed, Ending, threadVars, IsActive

\* drain_log moves signals of the last session.
LEMMA DrainKeeps ==
  ASSUME IInv, PollDrains
  PROVE  IInv'
  <1> USE DEF PollDrains, Sessions
  <1>1. TypeOK'
    BY DEF IInv, TypeOK
  <1>2. ThreadsInOrder' /\ LogoutIsPending'
    BY DEF IInv, ThreadsInOrder, LogoutIsPending, Relayed
  <1>3. SignalsAreTrue' /\ ErrorIsLogged'
    BY DEF IInv, TypeOK, SignalsAreTrue, ErrorIsLogged, Up, Relayed, Ending
  <1>4. StateIsTrue'
    BY DEF IInv, StateIsTrue, Up, Relayed, Ending
  <1> QED BY <1>1, <1>2, <1>3, <1>4 DEF IInv

\* check_status: a finished thread ends the session, a signal promotes the state.
LEMMA CheckKeeps ==
  ASSUME IInv, PollChecks
  PROVE  IInv'
  <1> USE DEF PollChecks
  <1>1. CASE StatusFinal
    BY <1>1, IdleKeeps DEF CheckStatus, threadVars
  <1>2. CASE ~StatusFinal /\ handle # 0 /\ pc[handle] = "done"
    <2>1. handle' = 0 /\ state' \in {"Error", "Disconnected"} /\ LogoutSession
      BY <1>2 DEF CheckStatus
    <2>2. cur # 0 => Ending(cur)
      BY <1>2 DEF IInv, TypeOK, Ending
    <2> QED BY <2>1, <2>2, LogoutKeeps DEF States, IsActive
  <1>3. CASE ~StatusFinal /\ ~(handle # 0 /\ pc[handle] = "done")
    <2>1. state' = Promoted /\ UNCHANGED <<handle, profile, cookie, logouts>>
      BY <1>3 DEF CheckStatus
    <2>2. TypeOK'
      BY <2>1 DEF IInv, TypeOK, Promoted, States
    <2>3. StateIsTrue'
      BY <2>1 DEF IInv, TypeOK, StateIsTrue, SignalsAreTrue, Promoted, IsActive, Up, Relayed, Ending
    <2>4. ThreadsInOrder' /\ SignalsAreTrue' /\ LogoutIsPending' /\ ErrorIsLogged'
      BY <2>1 DEF IInv, ThreadsInOrder, SignalsAreTrue, LogoutIsPending, ErrorIsLogged, Up, Relayed, Ending
    <2> QED BY <2>2, <2>3, <2>4 DEF IInv
  <1> QED BY <1>1, <1>2, <1>3

-----------------------------------------------------------------------------
(* The relay threads' steps. *)

\* A session whose thread was started is the last one or older.
LEMMA StartedIsOld ==
  ASSUME IInv, NEW s \in Sessions, pc[s] # "none"
  PROVE  s <= cur
  BY DEF IInv, TypeOK, ThreadsInOrder, Sessions

\* What a step of one thread, or of its worker, must preserve for what was said of
\* its session to stay true.
LEMMA FactsSurvive ==
  ASSUME IInv, NEW s \in Sessions, UNCHANGED <<uiVars, logouts>>,
         \A t \in Sessions : Up(t) => Up(t)', \A t \in Sessions : Ending(t) => Ending(t)',
         \A t \in Sessions : "UP" \in chan'[t] => "UP" \in chan[t] \/ Up(t)',
         \A t \in Sessions : "ERROR" \in chan'[t] => "ERROR" \in chan[t] \/ Ending(t)',
         \A t \in Sessions : stop[t] => stop'[t]
  PROVE  SignalsAreTrue' /\ StateIsTrue' /\ LogoutIsPending'
  <1> USE DEF uiVars
  <1>1. SignalsAreTrue'
    <2>1. cur' = cur /\ log' = log /\ (cur # 0 => cur \in Sessions)
      BY DEF IInv, TypeOK, Sessions
    <2>2. \A t \in Sessions : /\ "UP" \in chan'[t] => Up(t)'
                              /\ "ERROR" \in chan'[t] => Ending(t)'
      BY DEF IInv, SignalsAreTrue
    <2>3. /\ cur = 0 => log = {}
          /\ "UP" \in log => Up(cur)
          /\ "ERROR" \in log => Ending(cur)
      BY DEF IInv, SignalsAreTrue
    <2>4. /\ "UP" \in log => Up(cur)'
          /\ "ERROR" \in log => Ending(cur)'
      BY <2>1, <2>3
    <2> QED BY <2>1, <2>2, <2>3, <2>4 DEF SignalsAreTrue
  <1>2. StateIsTrue'
    <2>1. cur # 0 => cur \in Sessions
      BY DEF IInv, TypeOK, Sessions
    <2> QED BY <2>1 DEF IInv, StateIsTrue, IsActive
  <1>3. LogoutIsPending'
    BY DEF IInv, LogoutIsPending
  <1> QED BY <1>1, <1>2, <1>3

\* A thread moves on and says nothing.
LEMMA MoveKeeps ==
  ASSUME IInv, NEW s \in Sessions, NEW to \in ThreadSteps \ {"none"}, pc[s] \notin {"none", "done"},
         pc' = [pc EXCEPT ![s] = to], UNCHANGED <<uiVars, worker, chan, logouts>>,
         failed' \in {failed, [failed EXCEPT ![s] = TRUE]}, stop' \in {stop, [stop EXCEPT ![s] = TRUE]},
         cookie' \in [Sessions -> BOOLEAN],
         Relayed(s) => to \in {"relay", "cleanup", "report", "exit", "done"},
         failed'[s] => to \in {"cleanup", "report", "exit", "done"},
         to \in {"exit", "done"} /\ failed'[s] => pc[s] = "exit" /\ failed[s]
  PROVE  IInv'
  <1> USE DEF uiVars
  <1>1. TypeOK'
    BY DEF IInv, TypeOK
  <1>2. \A t \in Sessions : t # s => /\ pc'[t] = pc[t] /\ failed'[t] = failed[t] /\ stop'[t] = stop[t]
    BY DEF IInv, TypeOK
  <1>3. pc'[s] = to /\ (failed[s] => failed'[s]) /\ (stop[s] => stop'[s]) /\ worker' = worker
    BY DEF IInv, TypeOK
  <1>4. ThreadsInOrder'
    <2>1. s <= cur
      BY StartedIsOld
    <2> QED BY <1>2, <1>3, <2>1 DEF IInv, TypeOK, ThreadsInOrder, Relayed, Sessions
  <1>5. \A t \in Sessions : (Up(t) => Up(t)') /\ (Ending(t) => Ending(t)') /\ (stop[t] => stop'[t])
    BY <1>2, <1>3 DEF Up, Ending, Relayed
  <1>6. SignalsAreTrue' /\ StateIsTrue' /\ LogoutIsPending'
    BY <1>5, FactsSurvive
  <1>7. ErrorIsLogged'
    <2>1. cur # 0 => cur \in Sessions
      BY DEF IInv, TypeOK, Sessions
    <2> QED BY <1>2, <1>3, <2>1 DEF IInv, ErrorIsLogged
  <1> QED BY <1>1, <1>4, <1>6, <1>7 DEF IInv

\* Every silent step of a relay thread is such a move.
LEMMA SilentStepKeeps ==
  ASSUME IInv, NEW s \in Sessions,
         \/ ClearsPins(s) \/ PinsAnswered(s) \/ Connects(s) \/ RetryAnswered(s) \/ Authenticates(s)
         \/ PublishesCookie(s) \/ FetchesConfig(s) \/ ChecksStop(s) \/ StartsTunnel(s) 
         \/ RelayStops(s) \/ RelayFails(s) \/ CleansUp(s) \/ Exits(s)
  PROVE  IInv'
  <1>0. /\ pc \in [Sessions -> ThreadSteps] /\ failed \in [Sessions -> BOOLEAN]
        /\ cookie \in [Sessions -> BOOLEAN] /\ stop \in [Sessions -> BOOLEAN]
    BY DEF IInv, TypeOK
  <1>1. failed[s] => pc[s] \in {"cleanup", "report", "exit", "done"}
    BY DEF IInv, ThreadsInOrder
  <1>2. CASE Connects(s)
    BY <1>0, <1>1, <1>2, MoveKeeps DEF Connects, Tries, Goes, Relayed, ThreadSteps
  <1>3. CASE Authenticates(s)
    BY <1>0, <1>1, <1>3, MoveKeeps DEF Authenticates, Tries, Goes, Relayed, ThreadSteps
  <1>4. CASE PublishesCookie(s)
    <2>1. cookie' \in [Sessions -> BOOLEAN]
      BY <1>0, <1>4 DEF PublishesCookie
    <2> QED BY <1>0, <1>1, <1>4, <2>1, MoveKeeps DEF PublishesCookie, Goes, Relayed, ThreadSteps
  <1>5. CASE FetchesConfig(s)
    BY <1>0, <1>1, <1>5, MoveKeeps DEF FetchesConfig, Tries, Goes, Relayed, ThreadSteps
  <1>6. CASE ChecksStop(s)
    BY <1>0, <1>1, <1>6, MoveKeeps DEF ChecksStop, Goes, Relayed, ThreadSteps
  <1>7. CASE StartsTunnel(s)
    BY <1>0, <1>1, <1>7, MoveKeeps DEF StartsTunnel, Tries, Goes, Relayed, ThreadSteps
  <1>8. CASE RelayStops(s)
    BY <1>0, <1>1, <1>8, MoveKeeps DEF RelayStops, Relayed, ThreadSteps
  <1>9. CASE RelayFails(s)
    BY <1>0, <1>1, <1>9, MoveKeeps DEF RelayFails, Relayed, ThreadSteps
  <1>10. CASE CleansUp(s)
    BY <1>0, <1>1, <1>10, MoveKeeps DEF CleansUp, Goes, Relayed, ThreadSteps
  <1>11. CASE Exits(s)
    BY <1>0, <1>1, <1>11, MoveKeeps DEF Exits, Goes, Relayed, ThreadSteps
  <1>12. CASE ClearsPins(s) \/ PinsAnswered(s)
    BY <1>0, <1>1, <1>12, MoveKeeps DEF ClearsPins, PinsAnswered, Goes, Relayed, ThreadSteps
  <1>13. CASE RetryAnswered(s)
    BY <1>0, <1>1, <1>13, MoveKeeps DEF RetryAnswered, Tries, Goes, Relayed, ThreadSteps
  <1> QED BY <1>2, <1>3, <1>4, <1>5, <1>6, <1>7, <1>8, <1>9, <1>10, <1>11, <1>12, <1>13

\* connect_inner logs its error before the thread ends.
LEMMA ReportsKeeps ==
  ASSUME IInv, NEW s \in Sessions, Reports(s)
  PROVE  IInv'
  <1> USE DEF Reports, Goes
  <1>1. /\ pc[s] = "report" /\ pc' = [pc EXCEPT ![s] = "exit"] /\ s <= cur
        /\ UNCHANGED <<uiVars, failed, worker, stop, cookie, logouts>>
    BY StartedIsOld
  <1>2. /\ chan' \in [Sessions -> SUBSET Signals]
        /\ \A t \in Sessions : /\ chan[t] \subseteq chan'[t]
                               /\ "UP" \in chan'[t] => "UP" \in chan[t]
                               /\ "ERROR" \in chan'[t] => "ERROR" \in chan[t] \/ failed[t]
        /\ s = cur /\ failed[s] => "ERROR" \in chan'[s]
    BY DEF Sends, Signals, IInv, TypeOK
  <1>3. TypeOK'
    BY <1>1, <1>2 DEF IInv, TypeOK, ThreadSteps, uiVars
  <1>4. ThreadsInOrder'
    BY <1>1 DEF IInv, TypeOK, ThreadsInOrder, Relayed, Sessions, uiVars
  <1>5. \A t \in Sessions : (Up(t) => Up(t)') /\ (Ending(t) => Ending(t)') /\ (failed[t] => Ending(t)')
    BY <1>1 DEF IInv, TypeOK, Up, Ending, Relayed
  <1>6. SignalsAreTrue' /\ StateIsTrue' /\ LogoutIsPending'
    BY <1>1, <1>2, <1>5, FactsSurvive
  <1>7. ErrorIsLogged'
    <2>1. cur # 0 => cur \in Sessions
      BY DEF IInv, TypeOK, Sessions
    <2>2. /\ log' = log /\ cur' = cur /\ failed' = failed
          /\ cur # s /\ cur # 0 => pc'[cur] = pc[cur]
      BY <1>1, <2>1 DEF IInv, TypeOK, uiVars
    <2> QED BY <1>2, <2>1, <2>2 DEF IInv, ErrorIsLogged
  <1> QED BY <1>3, <1>4, <1>6, <1>7 DEF IInv

\* The network comes up: with nothing to set up, the tunnel is announced at once.
LEMMA NetworkKeeps ==
  ASSUME IInv, NEW s \in Sessions, NetworkComesUp(s)
  PROVE  IInv'
  <1> USE DEF NetworkComesUp, Goes
  <1>1. /\ pc[s] = "negotiate" /\ pc' = [pc EXCEPT ![s] = "relay"] /\ s <= cur
        /\ UNCHANGED <<uiVars, failed, stop, cookie, logouts>>
    BY StartedIsOld
  <1>2. ~failed[s] /\ worker[s] = "none"
    BY <1>1 DEF IInv, TypeOK, ThreadsInOrder, Relayed
  <1>3. /\ \/ worker' = [worker EXCEPT ![s] = "running"] /\ chan' = chan
           \/ worker' = worker /\ "UP" \in Signals
        /\ chan' \in [Sessions -> SUBSET Signals]
        /\ \A t \in Sessions : /\ chan[t] \subseteq chan'[t]
                               /\ "ERROR" \in chan'[t] => "ERROR" \in chan[t]
                               /\ "UP" \in chan'[t] => "UP" \in chan[t] \/ (t = s /\ worker' = worker)
    BY DEF Sends, Signals, IInv, TypeOK
  <1>4. ~Up(s) /\ "UP" \notin chan[s]
    BY <1>1 DEF IInv, SignalsAreTrue, Up, Relayed
  <1>5. TypeOK'
    BY <1>1, <1>3 DEF IInv, TypeOK, ThreadSteps, uiVars
  <1>6. ThreadsInOrder'
    BY <1>1, <1>2, <1>3 DEF IInv, TypeOK, ThreadsInOrder, Relayed, Sessions, uiVars
  <1>7. \A t \in Sessions : Up(t) => Up(t)'
    BY <1>1, <1>3, <1>4 DEF IInv, TypeOK, Up, Relayed
  <1>8. \A t \in Sessions : Ending(t) => Ending(t)'
    BY <1>1, <1>2, <1>3 DEF IInv, TypeOK, Ending
  <1>9. worker' = worker => Up(s)'
    BY <1>1, <1>2 DEF IInv, TypeOK, Up, Relayed
  <1>10. SignalsAreTrue' /\ StateIsTrue' /\ LogoutIsPending'
    BY <1>1, <1>3, <1>7, <1>8, <1>9, FactsSurvive
  <1>11. ErrorIsLogged'
    <2>1. cur # 0 => cur \in Sessions
      BY DEF IInv, TypeOK, Sessions
    <2>2. log' = log /\ cur' = cur /\ failed' = failed /\ (cur # s /\ cur # 0 => pc'[cur] = pc[cur])
      BY <1>1, <2>1 DEF IInv, TypeOK, uiVars
    <2> QED BY <1>2, <1>3, <2>1, <2>2 DEF IInv, ErrorIsLogged
  <1> QED BY <1>5, <1>6, <1>10, <1>11 DEF IInv

\* The setup worker announces the tunnel or the failure it ends with.
LEMMA WorkerKeeps ==
  ASSUME IInv, NEW s \in Sessions,
         WorkerStep(s) \/ WorkerApplies(s, "prompt") \/ WorkerFails(s, "prompt")
  PROVE  IInv'
  <1> USE DEF WorkerStep, WorkerPrompts, WorkerApplies, WorkerIsCancelled, WorkerAnnounces,
              WorkerFails, WorkerStops
  <1>1. /\ UNCHANGED <<uiVars, pc, failed, cookie, logouts>>
        /\ worker[s] \in {"running", "prompt", "applied", "failed"}
    OBVIOUS
  <1>2. PICK w \in {"prompt", "applied", "announced", "failed", "stopped"} : worker' = [worker EXCEPT ![s] = w]
    BY DEF Sends
  <1>3. Relayed(s) /\ s <= cur
    BY <1>1, StartedIsOld DEF IInv, TypeOK, ThreadsInOrder, Relayed
  <1>4. /\ w = "announced" \/ "UP" \notin chan'[s] \/ "UP" \in chan[s]
        /\ w = "failed" \/ "ERROR" \notin chan'[s] \/ "ERROR" \in chan[s]
        /\ worker[s] = "failed" => stop'[s]
        /\ \A t \in Sessions : /\ chan[t] \subseteq chan'[t]
                               /\ t # s => chan'[t] = chan[t] /\ stop'[t] = stop[t]
                               /\ stop[t] => stop'[t]
        /\ chan' \in [Sessions -> SUBSET Signals] /\ stop' \in [Sessions -> BOOLEAN]
    <2>1. worker'[s] = w
      BY <1>2 DEF IInv, TypeOK
    <2>2. /\ chan \in [Sessions -> SUBSET Signals] /\ stop \in [Sessions -> BOOLEAN]
          /\ DOMAIN worker = Sessions
      BY DEF IInv, TypeOK
    <2>3. CASE worker[s] \in {"running", "prompt"} /\ w # "failed"
      BY <2>1, <2>2, <2>3 DEF Sends
    <2>4. CASE worker[s] \in {"running", "prompt"} /\ w = "failed"
      BY <2>1, <2>2, <2>4 DEF Sends, Signals
    <2>5. CASE worker[s] = "applied"
      BY <2>1, <2>2, <2>5 DEF Sends, Signals
    <2>6. CASE worker[s] = "failed"
      BY <2>1, <2>2, <2>6 DEF Sends
    <2> QED BY <1>1, <2>3, <2>4, <2>5, <2>6
  <1>5. ~Up(s) /\ "UP" \notin chan[s]
    BY <1>1 DEF IInv, SignalsAreTrue, Up
  <1>6. TypeOK'
    BY <1>1, <1>2, <1>4 DEF IInv, TypeOK, uiVars
  <1>7. ThreadsInOrder'
    BY <1>1, <1>2, <1>3 DEF IInv, TypeOK, ThreadsInOrder, Relayed, uiVars
  <1>8. \A t \in Sessions : Up(t) => Up(t)'
    BY <1>1, <1>2, <1>5 DEF IInv, TypeOK, Up, Relayed
  <1>9. \A t \in Sessions : Ending(t) => Ending(t)'
    BY <1>1, <1>2, <1>4 DEF IInv, TypeOK, Ending
  <1>10. (w = "announced" => Up(s)') /\ (w = "failed" => Ending(s)')
    BY <1>1, <1>2, <1>3 DEF IInv, TypeOK, Up, Ending, Relayed
  <1>11. SignalsAreTrue' /\ StateIsTrue' /\ LogoutIsPending'
    BY <1>1, <1>4, <1>8, <1>9, <1>10, FactsSurvive
  <1>12. ErrorIsLogged'
    <2>1. cur # 0 => cur \in Sessions
      BY DEF IInv, TypeOK, Sessions
    <2> QED BY <1>1, <1>4, <2>1 DEF IInv, ErrorIsLogged, uiVars
  <1> QED BY <1>6, <1>7, <1>11, <1>12 DEF IInv

-----------------------------------------------------------------------------
(* The callbacks of the GTK thread, and the whole next-state relation. *)

\* disconnect() returns: the flag it raised is why the session is ending.
LEMMA DisconnectReturnsKeeps ==
  ASSUME IInv, DisconnectReturns
  PROVE  IInv'
  <1> USE DEF DisconnectReturns, FinishDisconnect
  <1>1. cur # 0 => Ending(cur)
    BY DEF IInv, StateIsTrue, Ending
  <1>2. handle' \in {0, cur}
    BY DEF IInv, TypeOK
  <1>3. state' = "Disconnected" /\ ui' \in {"idle", "handled"} /\ LogoutSession
    OBVIOUS
  <1>4. UNCHANGED <<cur, log, stop_flag, pc, failed, worker, chan, stop>>
    OBVIOUS
  <1> QED BY <1>1, <1>2, <1>3, <1>4, LogoutKeeps DEF States, IsActive

\* The button, the second launch, the tray and poll().
LEMMA UserStepKeeps ==
  ASSUME IInv, ToggleConnect \/ AutoConnects \/ ToggleDisconnect \/ TrayClick \/ UiStep
  PROVE  IInv'
  <1>1. CASE ToggleConnect \/ AutoConnects
    BY <1>1, ConnectKeeps DEF ToggleConnect, AutoConnects
  <1>2. CASE ToggleDisconnect
    BY <1>2, StartDisconnectKeeps DEF ToggleDisconnect
  <1>3. CASE TrayClick
    BY <1>3, IdleKeeps DEF TrayClick, uiVars
  <1>4. CASE PollDrains
    BY <1>4, DrainKeeps
  <1>5. CASE PollChecks
    BY <1>5, CheckKeeps
  <1>6. CASE PollDisconnects
    <2>1. CASE IsActive(state)
      BY <1>6, <2>1, StartDisconnectKeeps DEF PollDisconnects
    <2>2. CASE ~IsActive(state)
      BY <1>6, <2>2, IdleKeeps DEF PollDisconnects
    <2> QED BY <2>1, <2>2
  <1>7. CASE PollConnects
    <2>1. CASE last_connected /\ ~IsActive(state) /\ cur < MaxSessions
      BY <1>7, <2>1, ConnectKeeps DEF PollConnects
    <2>2. CASE ~(last_connected /\ ~IsActive(state) /\ cur < MaxSessions)
      BY <1>7, <2>2, IdleKeeps DEF PollConnects
    <2> QED BY <2>1, <2>2
  <1>8. CASE PollNoRequest \/ PollSyncs
    BY <1>8, IdleKeeps DEF PollNoRequest, PollSyncs
  <1>9. CASE DisconnectReturns
    BY <1>9, DisconnectReturnsKeeps
  <1> QED BY <1>1, <1>2, <1>3, <1>4, <1>5, <1>6, <1>7, <1>8, <1>9 DEF UiStep

\* Every step keeps the invariant.
LEMMA StepKeeps ==
  ASSUME IInv, [Next]_vars
  PROVE  IInv'
  <1>1. CASE ToggleConnect \/ AutoConnects \/ ToggleDisconnect \/ TrayClick \/ UiStep
    BY <1>1, UserStepKeeps
  <1>2. ASSUME NEW s \in Sessions,
               ThreadStep(s) \/ NetworkComesUp(s) \/ RelayFails(s) \/ WorkerStep(s) \/ PromptAnswered(s)
        PROVE  IInv'
    <2>1. CASE Reports(s)
      BY <2>1, ReportsKeeps
    <2>2. CASE NetworkComesUp(s)
      BY <2>2, NetworkKeeps
    <2>3. CASE WorkerStep(s) \/ WorkerApplies(s, "prompt") \/ WorkerFails(s, "prompt")
      BY <2>3, WorkerKeeps
    <2>4. CASE RelayFails(s) \/ (ThreadStep(s) /\ ~Reports(s)) \/ PinsAnswered(s) \/ RetryAnswered(s)
      BY <2>4, SilentStepKeeps DEF ThreadStep
    <2> QED BY <1>2, <2>1, <2>2, <2>3, <2>4 DEF PromptAnswered
  <1>3. CASE UNCHANGED vars
    BY <1>3, IdleKeeps DEF vars, uiVars
  <1> QED BY <1>1, <1>2, <1>3 DEF Next

\* It holds before the first connect().
LEMMA InitHolds ==
  ASSUME Init
  PROVE  IInv
  BY DEF Init, IInv, TypeOK, ThreadsInOrder, SignalsAreTrue, StateIsTrue, LogoutIsPending, ErrorIsLogged,
         States, Signals, ThreadSteps, Relayed, IsActive, Sessions

-----------------------------------------------------------------------------
(* The theorems. *)

\* The invariant: types, which thread does what, and which log lines and states are
\* true of the last session, for any number of sessions (engine/backend.rs, app.rs).
THEOREM InvariantHolds == Spec => []IInv
  <1>1. Init => IInv
    BY InitHolds
  <1>2. IInv /\ [Next]_vars => IInv'
    BY StepKeeps
  <1> QED BY <1>1, <1>2, PTL DEF Spec

\* "Connected" is only shown for the last session, once its setup succeeded, however
\* late the lines and the steps of other sessions come.
THEOREM ConnectedOnlyWhenUp == Spec => []ConnectedIsUp
  <1>1. IInv => ConnectedIsUp
    BY DEF IInv, StateIsTrue, ConnectedIsUp, Up, Relayed
  <1> QED BY <1>1, InvariantHolds, PTL

\* The button and the tray never leave a session behind that goes on.
THEOREM ReplacedSessionsEnd == Spec => OldSessionsEnd
  <1>1. IInv => (cur # 0 /\ ~IsActive(state)
                   => pc[cur] = "done" \/ stop[cur] \/ failed[cur] \/ worker[cur] = "failed")
    BY DEF IInv, StateIsTrue, Ending
  <1> QED BY <1>1, InvariantHolds, PTL DEF OldSessionsEnd

\* A gateway session is logged out of at most once, and only at the session's end.
THEOREM OneLogout == Spec => LogoutOnlyAtTheEnd
  <1>1. ASSUME IInv, [Next]_vars, NEW s \in Sessions, logouts'[s] # logouts[s]
        PROVE  logouts[s] = 0 /\ (stop[s] \/ pc[s] = "done")
    <2>1. PollChecks \/ DisconnectReturns
      BY <1>1 DEF Next, vars, uiVars, ToggleConnect, AutoConnects, Connect, ToggleDisconnect, StartDisconnect,
                  TrayClick, UiStep, PollDrains, PollDisconnects, PollConnects, PollNoRequest, PollSyncs,
                  ThreadStep, NetworkComesUp, RelayFails, WorkerStep, Connects, Authenticates,
                  PublishesCookie, FetchesConfig, ChecksStop, StartsTunnel, RelayStops, CleansUp, Reports,
                  Exits, ClearsPins, PinsAnswered, RetryAnswered,
                  PromptAnswered, WorkerPrompts, WorkerIsCancelled, WorkerApplies, WorkerAnnounces, WorkerFails, WorkerStops
    <2>2. profile # 0 /\ s = cur
      BY <1>1, <2>1 DEF PollChecks, CheckStatus, DisconnectReturns, FinishDisconnect, LogoutSession, IInv, TypeOK
    <2>3. logouts[s] = 0
      BY <1>1, <2>2 DEF IInv, LogoutIsPending
    <2>4. CASE DisconnectReturns
      BY <1>1, <2>2, <2>3, <2>4 DEF DisconnectReturns, IInv, StateIsTrue
    <2>5. CASE PollChecks
      <3>1. handle # 0 /\ pc[handle] = "done"
        BY <1>1, <2>5 DEF PollChecks, CheckStatus
      <3> QED BY <1>1, <2>2, <2>3, <3>1 DEF IInv, TypeOK
    <2> QED BY <2>1, <2>4, <2>5
  <1>2. IInv /\ [Next]_vars
          => [\A s \in Sessions :
                logouts'[s] # logouts[s] => logouts[s] = 0 /\ (stop[s] \/ pc[s] = "done")]_vars
    BY <1>1
  <1> QED BY <1>2, InvariantHolds, PTL DEF Spec, LogoutOnlyAtTheEnd

\* Nothing but a new connect() leads out of "Disconnected".
THEOREM DisconnectIsAuthoritative == Spec => DisconnectIsFinal
  <1>1. ASSUME [Next]_vars, state = "Disconnected", state' # state
        PROVE  state' = "Connecting" /\ cur' = cur + 1
    BY <1>1 DEF Next, vars, uiVars, ToggleConnect, AutoConnects, Connect, ToggleDisconnect, IsActive,
                TrayClick, UiStep, PollDrains, PollChecks, CheckStatus, StatusFinal, DisconnectReturns,
                FinishDisconnect, PollDisconnects, PollConnects, PollNoRequest, PollSyncs,
                ThreadStep, NetworkComesUp, RelayFails, WorkerStep, Connects, Authenticates,
                PublishesCookie, FetchesConfig, ChecksStop, StartsTunnel, RelayStops, CleansUp, Reports,
                Exits, ClearsPins, PinsAnswered, RetryAnswered,
                  PromptAnswered, WorkerPrompts, WorkerIsCancelled, WorkerApplies, WorkerAnnounces, WorkerFails, WorkerStops
  <1>2. [Next]_vars => [state = "Disconnected" /\ state' # state => state' = "Connecting" /\ cur' = cur + 1]_vars
    BY <1>1
  <1> QED BY <1>2, PTL DEF Spec, DisconnectIsFinal

\* The error of the last session's thread is shown, or was logged too late to be.
THEOREM ErrorsAreShown == Spec => ErrorsAreShownUnlessLate
  <1>1. ASSUME IInv, [Next]_vars, ui = "drained", handle # 0, handle' = 0, failed[handle]
        PROVE  state' = "Error" \/ "ERROR" \in chan[handle]
    <2>1. PollChecks
      BY <1>1 DEF Next, vars, uiVars, ToggleConnect, AutoConnects, ToggleDisconnect,
                  TrayClick, UiStep, PollDrains, PollDisconnects, PollConnects, PollNoRequest, PollSyncs,
                  DisconnectReturns, ThreadStep, NetworkComesUp, RelayFails, WorkerStep, Connects, Authenticates,
                  PublishesCookie, FetchesConfig, ChecksStop, StartsTunnel, RelayStops, CleansUp, Reports,
                  Exits, ClearsPins, PinsAnswered, RetryAnswered,
                  PromptAnswered, WorkerPrompts, WorkerIsCancelled, WorkerApplies, WorkerAnnounces, WorkerFails, WorkerStops
    <2>2. handle = cur /\ pc[cur] = "done" /\ (state' = "Error" \/ "ERROR" \notin log)
      BY <1>1, <2>1 DEF PollChecks, CheckStatus, IInv, TypeOK
    <2> QED BY <1>1, <2>2 DEF IInv, ErrorIsLogged
  <1>2. IInv /\ [Next]_vars
          => [ui = "drained" /\ handle # 0 /\ handle' = 0 /\ failed[handle]
                => state' = "Error" \/ "ERROR" \in chan[handle]]_vars
    BY <1>1
  <1> QED BY <1>2, InvariantHolds, PTL DEF Spec, ErrorsAreShownUnlessLate
=============================================================================
