------------------------- MODULE ExecutionTurn_proofs -------------------------
(***************************************************************************)
(* The invariants of ExecutionTurn hold for any items, required checks and  *)
(* messages.  Each part of IInv depends on few variables, so each has a     *)
(* lemma of its own, with a step for every action that can disturb it.      *)
(***************************************************************************)
EXTENDS ExecutionTurn, TLAPS

-----------------------------------------------------------------------------
(* Turns and the connection *)

(* settleTurn ends a wait exactly when the turn is over or failed, and changes *)
(* nothing else (client.ts, settleTurn).                                       *)
LEMMA Settling ==
  ASSUME NEW t \in Turn
  PROVE  /\ SettleTurn(t) \in Turn
         /\ SettleTurn(t).status = t.status /\ SettleTurn(t).error = t.error
         /\ SettleTurn(t).waiter = "waiting" => t.waiter = "waiting" /\ ~t.error /\ ~Over(t)
  BY DEF SettleTurn, Turn, Waiter, Over

(* failTurn leaves nobody waiting (client.ts, failTurn).                       *)
LEMMA Failing ==
  ASSUME NEW t \in Turn, t.waiter = "waiting" => ~t.error
  PROVE  /\ FailTurn(t) \in Turn
         /\ FailTurn(t).status = t.status
         /\ FailTurn(t).waiter # "waiting"
<1> DEFINE u == [t EXCEPT !.error = TRUE]
<1>1. u \in Turn /\ u.status = t.status /\ u.error = TRUE
  BY DEF Turn
<1>2. FailTurn(t) = IF t.error THEN t ELSE SettleTurn(u)
  BY DEF FailTurn
<1> QED BY <1>1, <1>2, Settling

(* failProtocol rejects every request and ends the wait (client.ts,            *)
(* failProtocol).                                                              *)
LEMMA ProtocolFails ==
  ASSUME TypeOK, NothingWaitsInVain, FailProtocol
  PROVE  /\ request' \in [Requests -> Promise] /\ \A r \in Requests : request'[r] # "pending"
         /\ completed' = completed
         /\ failure' = TRUE
         /\ turn' \in Turn /\ turn'.status = turn.status /\ turn'.waiter # "waiting"
<1>1. request' \in [Requests -> Promise] /\ \A r \in Requests : request'[r] # "pending"
  BY DEF TypeOK, ConnectionType, FailProtocol, Rejected, Promise
<1>2. turn \in Turn /\ (turn.waiter = "waiting" => ~turn.error)
  BY DEF TypeOK, NothingWaitsInVain
<1>3. turn' = FailTurn(turn) /\ failure' = TRUE /\ completed' = completed
  BY DEF FailProtocol
<1> QED BY <1>1, <1>2, <1>3, Failing

(* Sending keeps the requests typed, and none is pending on a failed connection. *)
LEMMA Sending ==
  ASSUME TypeOK, NothingWaitsInVain, NEW r \in Requests
  PROVE  /\ Sent(r) \in [Requests -> Promise]
         /\ failure => \A q \in Requests : Sent(r)[q] # "pending"
  BY DEF TypeOK, ConnectionType, NothingWaitsInVain, Sent, Promise

(* The purposes are requests.                                                  *)
LEMMA Purposes ==
  /\ {"thread", "turn", "pause", "giveUp", "stop"} \subseteq Requests
  /\ RequiredChecks \subseteq Requests
  BY TurnAssumption DEF Purpose, RequiredChecks

LEMMA Pausing ==
  ASSUME TypeOK, NothingWaitsInVain, RequestExecutionPause
  PROVE  /\ request' \in [Requests -> Promise]
         /\ failure => \A r \in Requests : request'[r] # "pending"
         /\ interrupting' \in {"no", "asked", "done"}
  BY Sending, Purposes DEF TypeOK, ConnectionType, NothingWaitsInVain, RequestExecutionPause

-----------------------------------------------------------------------------
(* Types *)

(* An answered request is resolved or rejected, and remembered.                *)
LEMMA Answering ==
  ASSUME TypeOK, NEW r \in Requests, NEW a \in Response, Answered(r, a)
  PROVE  /\ ConnectionType'
         /\ \A q \in Requests : request'[q] = "pending" => request[q] = "pending"
  BY DEF TypeOK, ConnectionType, Answered, Promise, Response

(* A request whose timer fired is rejected.                                    *)
LEMMA TimingOut ==
  ASSUME TypeOK, NEW r \in Requests, TimedOut(r)
  PROVE  /\ ConnectionType'
         /\ \A q \in Requests : request'[q] = "pending" => request[q] = "pending"
  BY DEF TypeOK, ConnectionType, TimedOut, Promise

(* A message of the App Server is received without leaving the types.          *)
LEMMA ServerTypes ==
  ASSUME TypeOK, NothingWaitsInVain, ServerStep
  PROVE  TypeOK'
<1>1. ASSUME NEW r \in Requests, NEW a \in Response, ReceiveResponse(r, a)
      PROVE  TypeOK'
  <2>1. CASE Answered(r, a) /\ UNCHANGED turn
    <3>1. ConnectionType'
      BY <2>1, Answering
    <3> QED BY <1>1, <2>1, <3>1 DEF ReceiveResponse, gateVars, portVars, TypeOK
  <2>2. CASE Corrupt(r, a) /\ FailProtocol /\ UNCHANGED link
    BY <1>1, <2>2, ProtocolFails
       DEF ReceiveResponse, gateVars, portVars, TypeOK, ConnectionType
  <2> QED BY <1>1, <2>1, <2>2 DEF ReceiveResponse
<1>2. ASSUME NEW m \in Notices, ReceiveTurnEvent(m)
      PROVE  TypeOK'
  <2>0. m \in Notification /\ m \in TurnEvent
    BY <1>2, TurnAssumption DEF ReceiveTurnEvent
  <2>1. CASE Accepts(seen, m)
    <3> DEFINE t == [turn EXCEPT !.status = m.status]
    <3>1. t \in Turn
      BY <2>0 DEF TypeOK, Turn, TurnEvent
    <3>2. turn' \in Turn
      BY <1>2, <2>1, <3>1, Settling DEF ReceiveTurnEvent, TypeOK
    <3>3. seen' \subseteq Notification
      BY <1>2, <2>0, <2>1 DEF ReceiveTurnEvent, TypeOK
    <3> QED BY <1>2, <2>1, <3>2, <3>3
            DEF ReceiveTurnEvent, connectionVars, gateVars, portVars, TypeOK, ConnectionType
  <2>2. CASE ~Accepts(seen, m)
    <3>1. FailProtocol /\ UNCHANGED <<link, seen>>
      BY <1>2, <2>2 DEF ReceiveTurnEvent
    <3> QED BY <1>2, <3>1, ProtocolFails
            DEF ReceiveTurnEvent, gateVars, portVars, TypeOK, ConnectionType
  <2> QED BY <2>1, <2>2
<1>3. ASSUME NEW m \in Notices, ReceiveWork(m)
      PROVE  TypeOK'
  <2>1. CASE Accepts(seen, m)
    <3>1. m \in Notification
      BY TurnAssumption
    <3>2. request' \in [Requests -> Promise] /\ interrupting' \in {"no", "asked", "done"}
          /\ deviated' \in BOOLEAN
      <4>1. CASE m.verdict = "outside"
        BY <1>3, <2>1, <4>1, Pausing DEF ReceiveWork
      <4>2. CASE m.verdict # "outside"
        BY <1>3, <2>1, <4>2 DEF ReceiveWork, TypeOK, ConnectionType
      <4> QED BY <4>1, <4>2
    <3>3. seen' \subseteq Notification /\ UNCHANGED <<turn, completed, failure, link>>
      BY <1>3, <2>1, <3>1 DEF ReceiveWork, TypeOK
    <3> QED BY <1>3, <3>2, <3>3 DEF ReceiveWork, portVars, TypeOK, ConnectionType
  <2>2. CASE ~Accepts(seen, m)
    <3>1. FailProtocol /\ UNCHANGED <<link, seen, deviated, interrupting>>
      BY <1>3, <2>2 DEF ReceiveWork
    <3> QED BY <1>3, <3>1, ProtocolFails DEF ReceiveWork, portVars, TypeOK, ConnectionType
  <2> QED BY <2>1, <2>2
<1>4. ASSUME NEW id \in RpcIds, NEW asked \in Asks, ReceiveServerRequest(id, asked)
      PROVE  TypeOK'
  <2>0. /\ asked \in ServerRequest
        /\ UNCHANGED <<seen, interrupting, pauseTimer, deviated, result, passed, aborted, outcome>>
    BY <1>4, TurnAssumption DEF ReceiveServerRequest
  <2>1. CASE FailProtocol /\ UNCHANGED <<link, served, replies, pc>>
    BY <2>0, <2>1, ProtocolFails DEF TypeOK, ConnectionType
  <2>2. CASE /\ served' = [served EXCEPT ![id].asked = asked]
             /\ UNCHANGED <<connectionVars, turn, replies, pc>>
    <3>1. served' \in [RpcIds -> Served]
      BY <2>0, <2>2 DEF TypeOK, Served
    <3> QED BY <2>0, <2>2, <3>1 DEF connectionVars, TypeOK, ConnectionType
  <2>3. CASE /\ served' = [served EXCEPT ![id].repeated = TRUE]
             /\ UNCHANGED <<connectionVars, turn, replies, pc>>
    <3>1. served' \in [RpcIds -> Served]
      BY <2>3 DEF TypeOK, Served
    <3> QED BY <2>0, <2>3, <3>1 DEF connectionVars, TypeOK, ConnectionType
  <2>4. CASE /\ served[id].answer # "none"
             /\ \/ Replied(id, served[id].answer) /\ UNCHANGED pc
                \/ pc' = "crashed" /\ UNCHANGED replies
             /\ UNCHANGED <<connectionVars, turn, served>>
    <3>1. served[id].answer \in Answer
      BY <2>4 DEF TypeOK, Served
    <3>2. replies' \in [RpcIds -> SUBSET Answer] /\ pc' \in PortPc
      BY <2>4, <3>1 DEF Replied, TypeOK, PortPc
    <3> QED BY <2>0, <2>4, <3>2 DEF connectionVars, TypeOK, ConnectionType
  <2> QED BY <1>4, <2>1, <2>2, <2>3, <2>4 DEF ReceiveServerRequest
<1>5. CASE ReceiveGarbage
  BY <1>5, ProtocolFails DEF ReceiveGarbage, gateVars, portVars, TypeOK, ConnectionType
<1>6. CASE Disconnect
  BY <1>6, ProtocolFails DEF Disconnect, gateVars, portVars, TypeOK, ConnectionType
<1> QED BY <1>1, <1>2, <1>3, <1>4, <1>5, <1>6 DEF ServerStep

(* A request of the App Server is handled without leaving the types.           *)
LEMMA HandlingTypes ==
  ASSUME TypeOK, NothingWaitsInVain, NEW id \in RpcIds, HandleServerRequest(id)
  PROVE  TypeOK'
<1> DEFINE asked  == served[id].asked
           answer == IF asked.method = "malformed" THEN "error" ELSE Decision(asked)
           crash  == link # "open" \/ (answer = "error" /\ served[id].repeated)
<1>1. answer \in Answer
  BY DEF Decision, Answer
<1>2. /\ served' = [served EXCEPT ![id].answer = answer]
      /\ deviated' = (deviated \/ answer = "decline")
      /\ pauseTimer' = (pauseTimer \/ (answer = "decline" /\ asked.method # "elicitation"))
      /\ IF crash THEN pc' = "crashed" /\ UNCHANGED replies ELSE Replied(id, answer) /\ UNCHANGED pc
      /\ IF answer = "error" /\ ~crash
         THEN FailProtocol /\ UNCHANGED link
         ELSE UNCHANGED <<connectionVars, turn>>
      /\ UNCHANGED <<seen, interrupting, result, passed, aborted, outcome>>
  BY DEF HandleServerRequest
<1> HIDE DEF asked, answer, crash
<1>3. served' \in [RpcIds -> Served]
  BY <1>1, <1>2 DEF TypeOK, Served
<1>4. deviated' \in BOOLEAN /\ pauseTimer' \in BOOLEAN
  BY <1>2
<1>5. replies' \in [RpcIds -> SUBSET Answer] /\ pc' \in PortPc
  BY <1>1, <1>2 DEF Replied, TypeOK, PortPc
<1>6. ConnectionType' /\ turn' \in Turn
  <2>1. CASE answer = "error" /\ ~crash
    BY <1>2, <2>1, ProtocolFails DEF TypeOK, ConnectionType
  <2>2. CASE ~(answer = "error" /\ ~crash)
    BY <1>2, <2>2 DEF connectionVars, TypeOK, ConnectionType
  <2> QED BY <2>1, <2>2
<1> QED BY <1>2, <1>3, <1>4, <1>5, <1>6 DEF TypeOK

(* So are the timers, the user and the abort signal.                           *)
LEMMA TimerTypes ==
  ASSUME TypeOK, NothingWaitsInVain,
         \/ \E r \in Requests : RequestTimeout(r)
         \/ WaitTimeout \/ PauseAfterDecision \/ PauseAnswered
         \/ Interrupt \/ Abort
  PROVE  TypeOK'
<1>1. ASSUME NEW r \in Requests, RequestTimeout(r)
      PROVE  TypeOK'
  BY <1>1, TimingOut DEF RequestTimeout, turnVars, gateVars, portVars, TypeOK
<1>2. CASE WaitTimeout
  <2>1. turn' \in Turn
    BY <1>2 DEF WaitTimeout, TypeOK, Turn, Waiter
  <2> QED BY <1>2, <2>1 DEF WaitTimeout, connectionVars, gateVars, portVars, TypeOK, ConnectionType
<1>3. CASE PauseAfterDecision
  BY <1>3, Pausing DEF PauseAfterDecision, gateVars, portVars, TypeOK, ConnectionType
<1>4. CASE PauseAnswered
  <2>1. [turn EXCEPT !.status = "interrupted"] \in Turn /\ turn \in Turn
    BY DEF TypeOK, Turn, TurnStatus
  <2>2. turn' \in Turn
    BY <1>4, <2>1, Settling DEF PauseAnswered
  <2> QED BY <1>4, <2>2 DEF PauseAnswered, connectionVars, gateVars, portVars, TypeOK, ConnectionType
<1>5. CASE Interrupt
  BY <1>5, Sending, Purposes
     DEF Interrupt, turnVars, gateVars, portVars, TypeOK, ConnectionType
<1>6. CASE Abort
  <2>1. turn' \in Turn
    BY <1>6 DEF Abort, TypeOK, Turn, Waiter
  <2> QED BY <1>6, <2>1 DEF Abort, connectionVars, gateVars, TypeOK, ConnectionType
<1> QED BY <1>1, <1>2, <1>3, <1>4, <1>5, <1>6

(* And so is what start() does.                                                *)
LEMMA PortTypes ==
  ASSUME TypeOK, NothingWaitsInVain, PortStep
  PROVE  TypeOK'
<1> USE DEF connectionVars, turnVars, gateVars, portVars, TypeOK, ConnectionType, PortPc
<1>1. CASE StartTurn
  BY <1>1, Sending, Purposes DEF StartTurn
<1>2. CASE StartFails
  BY <1>2 DEF StartFails
<1>3. CASE WaitForTurn
  <2>1. \A w \in Waiter : [turn EXCEPT !.waiter = w] \in Turn
    BY DEF Turn
  <2>2. turn' \in Turn
    BY <1>3, <2>1 DEF WaitForTurn, Waiter
  <2> QED BY <1>3, <2>2 DEF WaitForTurn
<1>4. CASE TurnReturns
  BY <1>4 DEF TurnReturns, Over
<1>5. CASE GiveUp
  BY <1>5, Sending, Purposes DEF GiveUp
<1>6. CASE GaveUp
  BY <1>6 DEF GaveUp
<1>7. CASE RunCheck
  BY <1>7, Sending, Purposes DEF RunCheck
<1>8. CASE SkipCheck
  <2>1. deviated' \in BOOLEAN
    BY <1>8, Zenon DEF SkipCheck
  <2> QED BY <1>8, <2>1 DEF SkipCheck
<1>9. CASE CheckEnds
  <2>1. PICK c \in RequiredChecks \ passed :
          \/ passed' = passed \cup {c} /\ pc' = "inspect" /\ UNCHANGED deviated
          \/ deviated' = TRUE /\ pc' = "diff" /\ UNCHANGED passed
    BY <1>9 DEF CheckEnds
  <2>2. deviated' \in BOOLEAN
    BY <2>1, Zenon
  <2>3. passed' \subseteq RequiredChecks /\ pc' \in PortPc
    BY <2>1
  <2> QED BY <1>9, <2>2, <2>3 DEF CheckEnds
<1>10. CASE InspectAfterCheck
  <2>1. deviated' \in BOOLEAN
    BY <1>10, Zenon DEF InspectAfterCheck
  <2> QED BY <1>10, <2>1 DEF InspectAfterCheck
<1>11. CASE ChecksDone
  BY <1>11 DEF ChecksDone
<1>12. CASE InspectAndDecide
  BY <1>12 DEF InspectAndDecide, Outcome
<1>13. CASE InspectionFails
  BY <1>13 DEF InspectionFails
<1>14. CASE CloseClient
  BY <1>14 DEF CloseClient
<1>15. CASE CleanUp
  BY <1>15 DEF CleanUp
<1> QED BY <1>1, <1>2, <1>3, <1>4, <1>5, <1>6, <1>7, <1>8, <1>9, <1>10, <1>11, <1>12, <1>13,
          <1>14, <1>15 DEF PortStep

LEMMA TypePreserved ==
  ASSUME TypeOK, NothingWaitsInVain, [Next]_vars
  PROVE  TypeOK'
<1>1. CASE UNCHANGED vars
  BY <1>1 DEF vars, connectionVars, turnVars, gateVars, portVars, TypeOK, ConnectionType
<1> QED BY <1>1, ServerTypes, HandlingTypes, TimerTypes, PortTypes DEF Next

-----------------------------------------------------------------------------
(* Waits *)

(* A protocol failure ends every wait.                                         *)
LEMMA FailureWaits ==
  ASSUME TypeOK, NothingWaitsInVain, FailProtocol
  PROVE  NothingWaitsInVain'
  BY ProtocolFails DEF NothingWaitsInVain

(* So does every message of the App Server after which the wait is over.       *)
LEMMA ServerWaits ==
  ASSUME TypeOK, NothingWaitsInVain, ServerStep
  PROVE  NothingWaitsInVain'
<1>1. ASSUME NEW r \in Requests, NEW a \in Response, ReceiveResponse(r, a)
      PROVE  NothingWaitsInVain'
  <2>1. CASE Answered(r, a) /\ UNCHANGED turn
    <3>1. \A q \in Requests : request'[q] = "pending" => request[q] = "pending"
      BY <2>1, Answering
    <3>2. UNCHANGED <<failure, turn, aborted>>
      BY <1>1, <2>1 DEF ReceiveResponse, Answered, portVars
    <3> QED BY <3>1, <3>2 DEF NothingWaitsInVain, Over
  <2> QED BY <1>1, <2>1, FailureWaits DEF ReceiveResponse
<1>2. ASSUME NEW m \in Notices, ReceiveTurnEvent(m)
      PROVE  NothingWaitsInVain'
  <2>1. CASE Accepts(seen, m)
    <3> DEFINE t == [turn EXCEPT !.status = m.status]
    <3>1. t \in Turn /\ t.waiter = turn.waiter /\ turn \in Turn
      BY <1>2, TurnAssumption DEF ReceiveTurnEvent, TypeOK, Turn, TurnEvent
    <3>2. turn' = IF m.method = "turn/completed" THEN SettleTurn(t) ELSE turn
      BY <1>2, <2>1 DEF ReceiveTurnEvent
    <3>3. turn'.waiter = "waiting" =>
            turn.waiter = "waiting" /\ ~turn'.error /\ ~Over(turn')
      BY <3>1, <3>2, Settling DEF NothingWaitsInVain, Over
    <3>4. UNCHANGED <<request, failure, aborted>>
      BY <1>2, <2>1 DEF ReceiveTurnEvent, connectionVars, portVars
    <3> QED BY <3>3, <3>4 DEF NothingWaitsInVain, Over
  <2> QED BY <1>2, <2>1, FailureWaits DEF ReceiveTurnEvent
<1>3. ASSUME NEW m \in Notices, ReceiveWork(m)
      PROVE  NothingWaitsInVain'
  <2>1. CASE Accepts(seen, m)
    <3>1. UNCHANGED <<turn, failure, aborted>>
      BY <1>3, <2>1 DEF ReceiveWork, portVars
    <3>2. failure => \A r \in Requests : request'[r] # "pending"
      <4>1. CASE m.verdict = "outside"
        BY <1>3, <2>1, <4>1, Pausing DEF ReceiveWork
      <4>2. CASE m.verdict # "outside"
        BY <1>3, <2>1, <4>2 DEF ReceiveWork, NothingWaitsInVain
      <4> QED BY <4>1, <4>2
    <3> QED BY <3>1, <3>2 DEF NothingWaitsInVain, Over
  <2> QED BY <1>3, <2>1, FailureWaits DEF ReceiveWork
<1>4. ASSUME NEW id \in RpcIds, NEW asked \in Asks, ReceiveServerRequest(id, asked)
      PROVE  NothingWaitsInVain'
  <2>1. CASE UNCHANGED <<connectionVars, turn>>
    BY <1>4, <2>1 DEF ReceiveServerRequest, connectionVars, NothingWaitsInVain, Over
  <2> QED BY <1>4, <2>1, FailureWaits DEF ReceiveServerRequest
<1>5. CASE ReceiveGarbage
  BY <1>5, FailureWaits DEF ReceiveGarbage
<1>6. CASE Disconnect
  BY <1>6, FailureWaits DEF Disconnect, portVars, NothingWaitsInVain, Over
<1> QED BY <1>1, <1>2, <1>3, <1>4, <1>5, <1>6 DEF ServerStep

(* A wait begins only while the turn is in progress, and a request only while  *)
(* the protocol is.                                                            *)
LEMMA WaitsPreserved ==
  ASSUME TypeOK, NothingWaitsInVain, [Next]_vars
  PROVE  NothingWaitsInVain'
<1> USE DEF connectionVars, turnVars, portVars, NothingWaitsInVain, Over
<1>1. CASE ServerStep
  BY <1>1, ServerWaits
<1>2. ASSUME NEW id \in RpcIds, HandleServerRequest(id)
      PROVE  NothingWaitsInVain'
  <2>1. CASE UNCHANGED <<connectionVars, turn>>
    BY <1>2, <2>1 DEF HandleServerRequest
  <2> QED BY <1>2, <2>1, FailureWaits DEF HandleServerRequest
<1>3. ASSUME NEW r \in Requests, RequestTimeout(r)
      PROVE  NothingWaitsInVain'
  BY <1>3, TimingOut DEF RequestTimeout, TimedOut
<1>4. CASE WaitTimeout
  BY <1>4 DEF WaitTimeout, TypeOK, Turn
<1>5. CASE PauseAfterDecision
  BY <1>5, Pausing DEF PauseAfterDecision
<1>6. CASE PauseAnswered
  <2>1. /\ turn \in Turn /\ [turn EXCEPT !.status = "interrupted"] \in Turn
        /\ [turn EXCEPT !.status = "interrupted"].waiter = turn.waiter
    BY DEF TypeOK, Turn, TurnStatus
  <2>2. turn'.waiter = "waiting" => turn.waiter = "waiting" /\ ~turn'.error /\ ~Over(turn')
    BY <1>6, <2>1, Settling DEF PauseAnswered
  <2> QED BY <1>6, <2>2 DEF PauseAnswered
<1>7. CASE Interrupt
  BY <1>7, Sending, Purposes DEF Interrupt
<1>8. CASE Abort
  BY <1>8 DEF Abort, TypeOK, Turn
<1>9. CASE PortStep
  <2>1. CASE StartTurn
    BY <2>1, Sending, Purposes DEF StartTurn
  <2>2. CASE WaitForTurn
    BY <2>2 DEF WaitForTurn, TypeOK, Turn
  <2>3. CASE GiveUp
    BY <2>3, Sending, Purposes DEF GiveUp
  <2>4. CASE RunCheck
    BY <2>4, Sending, Purposes DEF RunCheck
  <2>5. CASE UNCHANGED <<request, failure, turn, aborted>>
    BY <2>5
  <2> QED BY <1>9, <2>1, <2>2, <2>3, <2>4, <2>5
          DEF PortStep, StartFails, TurnReturns, GaveUp, SkipCheck, CheckEnds, InspectAfterCheck,
              ChecksDone, InspectAndDecide, InspectionFails, CloseClient, CleanUp
<1>10. CASE UNCHANGED vars
  BY <1>10 DEF vars
<1> QED BY <1>1, <1>2, <1>3, <1>4, <1>5, <1>6, <1>7, <1>8, <1>9, <1>10 DEF Next

-----------------------------------------------------------------------------
(* The ledger *)

(* The ledger took m.                                                          *)
Takes(m) == m \in Notification /\ Accepts(seen, m) /\ seen' = seen \cup {m}

(* Only a notification that the ledger accepts changes what was seen.          *)
LEMMA SeenGrows ==
  ASSUME [Next]_vars
  PROVE  \/ UNCHANGED seen
         \/ \E m \in TurnEvent : ReceiveTurnEvent(m) /\ Takes(m)
         \/ \E m \in Notification \ TurnEvent : ReceiveWork(m) /\ Takes(m)
<1> USE DEF turnVars
<1>1. ASSUME NEW m \in Notices, ReceiveTurnEvent(m)
      PROVE  UNCHANGED seen \/ (m \in TurnEvent /\ Takes(m))
  BY <1>1, TurnAssumption DEF ReceiveTurnEvent, Takes
<1>2. ASSUME NEW m \in Notices, ReceiveWork(m)
      PROVE  UNCHANGED seen \/ (m \in Notification \ TurnEvent /\ Takes(m))
  BY <1>2, TurnAssumption DEF ReceiveWork, Takes
<1>3. CASE ServerStep
  BY <1>1, <1>2, <1>3
     DEF ServerStep, ReceiveResponse, ReceiveServerRequest, ReceiveGarbage, Disconnect
<1>4. CASE PortStep
  BY <1>4 DEF PortStep, StartTurn, StartFails, WaitForTurn, TurnReturns, GiveUp, GaveUp, RunCheck,
       SkipCheck, CheckEnds, InspectAfterCheck, ChecksDone, InspectAndDecide, InspectionFails,
       CloseClient, CleanUp
<1>5. CASE UNCHANGED vars
  BY <1>5 DEF vars
<1> QED BY <1>3, <1>4, <1>5 DEF Next, HandleServerRequest, RequestTimeout, WaitTimeout,
       PauseAfterDecision, PauseAnswered, Interrupt, Abort

(* What accept() takes keeps the ledger in order (event-ledger.ts, accept).    *)
LEMMA TakingKeepsOrder ==
  ASSUME TypeOK, LedgerInOrder, NEW m, Takes(m)
  PROVE  LedgerInOrder'
<1>1. m \in Notification /\ Accepts(seen, m) /\ seen' = seen \cup {m} /\ seen \subseteq Notification
  BY DEF Takes, TypeOK
<1>2. \A n \in Notification : n \in TurnEvent <=> n.method \in {"turn/started", "turn/completed"}
  BY DEF Notification, TurnEvent, ItemEvent, DiffEvent
<1>3. \A p, q \in seen' : p \in TurnEvent /\ q \in TurnEvent /\ p.method = q.method => p = q
  BY <1>1 DEF Accepts, Conflicting, LedgerInOrder
<1>4. StartedItems(seen') = StartedItems(seen)
        \cup (IF m.method = "item/started" THEN {m.item} ELSE {})
  <2>1. m.method = "item/started" => m.item \in Items
    BY <1>1 DEF Notification, TurnEvent, ItemEvent, DiffEvent
  <2> QED BY <1>1, <2>1 DEF StartedItems
<1>5. CompletedItems(seen') = CompletedItems(seen)
        \cup (IF m.method = "item/completed" THEN {m.item} ELSE {})
  <2>1. m.method = "item/completed" => m.item \in Items
    BY <1>1 DEF Notification, TurnEvent, ItemEvent, DiffEvent
  <2> QED BY <1>1, <2>1 DEF CompletedItems
<1>6. m.method = "item/completed" => m.item \in StartedItems(seen)
  <2>1. m.method = "item/completed" => m.item \in Items
    BY <1>1 DEF Notification, TurnEvent, ItemEvent, DiffEvent
  <2> QED BY <1>1, <2>1 DEF Accepts, StartedAs, StartedItems
<1>7. CompletedItems(seen') \subseteq StartedItems(seen')
  BY <1>4, <1>5, <1>6 DEF LedgerInOrder
<1>8. EndedWell' => StartedItems(seen') \subseteq CompletedItems(seen')
  <2> SUFFICES ASSUME EndedWell' PROVE StartedItems(seen') \subseteq CompletedItems(seen')
    OBVIOUS
  <2>1. CASE m.method = "turn/completed" /\ m.status = "completed"
    BY <1>1, <1>4, <1>5, <2>1 DEF Accepts
  <2>2. CASE ~(m.method = "turn/completed" /\ m.status = "completed")
    <3>1. EndedWell
      BY <1>1, <2>2 DEF EndedWell
    <3>2. TurnCompleted(seen)
      BY <3>1 DEF EndedWell, TurnCompleted
    <3>3. m.method # "item/started"
      BY <1>1, <3>2 DEF Accepts, Active
    <3> QED BY <1>4, <1>5, <3>1, <3>3 DEF LedgerInOrder
  <2> QED BY <2>1, <2>2
<1> QED BY <1>3, <1>7, <1>8 DEF LedgerInOrder

(* Once the turn completed, the ledger takes no work any more.                 *)
LEMMA NoWorkAfterTheTurn ==
  ASSUME TypeOK, EndedWell, NEW m, Takes(m)
  PROVE  m \in TurnEvent
<1>1. m \in Notification /\ Accepts(seen, m)
  BY DEF Takes
<1>2. TurnCompleted(seen)
  BY DEF EndedWell, TurnCompleted
<1>3. m.method \notin {"item/started", "item/completed", "turn/diff/updated"}
  BY <1>1, <1>2 DEF Accepts, Active
<1> QED BY <1>1, <1>3 DEF Notification, ItemEvent, DiffEvent

LEMMA LedgerPreserved ==
  ASSUME TypeOK, LedgerInOrder, [Next]_vars
  PROVE  LedgerInOrder'
<1>1. CASE UNCHANGED seen
  BY <1>1 DEF LedgerInOrder, EndedWell, StartedItems, CompletedItems
<1> QED BY <1>1, SeenGrows, TakingKeepsOrder

-----------------------------------------------------------------------------
(* The status of the turn *)

LEMMA EndedStays ==
  ASSUME [Next]_vars, EndedWell
  PROVE  EndedWell'
  BY SeenGrows DEF EndedWell, Takes

(* A turn is completed only by the notification that says so.                  *)
LEMMA TurnCompletes ==
  ASSUME TypeOK, NothingWaitsInVain, [Next]_vars, turn'.status = "completed"
  PROVE  turn.status = "completed" \/ EndedWell'
<1> USE DEF connectionVars, turnVars
<1>0. FailProtocol => turn'.status = turn.status
  BY ProtocolFails
<1>1. ASSUME NEW m \in Notices, ReceiveTurnEvent(m)
      PROVE  turn.status = "completed" \/ EndedWell'
  <2>1. CASE Accepts(seen, m) /\ m.method = "turn/completed"
    <3> DEFINE t == [turn EXCEPT !.status = m.status]
    <3>1. t \in Turn /\ t.status = m.status
      BY <1>1, TurnAssumption DEF ReceiveTurnEvent, TypeOK, Turn, TurnEvent
    <3>2. turn' = SettleTurn(t) /\ seen' = seen \cup {m}
      BY <1>1, <2>1 DEF ReceiveTurnEvent
    <3>3. m.status = "completed"
      BY <3>1, <3>2, Settling
    <3> QED BY <2>1, <3>2, <3>3 DEF EndedWell
  <2> QED BY <1>0, <1>1, <2>1 DEF ReceiveTurnEvent
<1>2. CASE ServerStep
  BY <1>0, <1>1, <1>2
     DEF ServerStep, ReceiveResponse, ReceiveWork, ReceiveServerRequest, ReceiveGarbage, Disconnect
<1>3. ASSUME NEW id \in RpcIds, HandleServerRequest(id)
      PROVE  turn'.status = turn.status
  BY <1>0, <1>3 DEF HandleServerRequest
<1>4. CASE WaitTimeout \/ Abort
  BY <1>4 DEF WaitTimeout, Abort, TypeOK, Turn
<1>5. CASE PauseAnswered
  <2>1. /\ turn \in Turn /\ [turn EXCEPT !.status = "interrupted"] \in Turn
        /\ [turn EXCEPT !.status = "interrupted"].status = "interrupted"
    BY DEF TypeOK, Turn, TurnStatus
  <2> QED BY <1>5, <2>1, Settling DEF PauseAnswered
<1>6. CASE PortStep
  <2>1. CASE WaitForTurn
    BY <2>1 DEF WaitForTurn, TypeOK, Turn
  <2> QED BY <1>6, <2>1
          DEF PortStep, StartTurn, StartFails, TurnReturns, GiveUp, GaveUp, RunCheck, SkipCheck,
              CheckEnds, InspectAfterCheck, ChecksDone, InspectAndDecide, InspectionFails,
              CloseClient, CleanUp
<1>7. CASE UNCHANGED vars
  BY <1>7 DEF vars
<1> QED BY <1>2, <1>3, <1>4, <1>5, <1>6, <1>7
        DEF Next, RequestTimeout, PauseAfterDecision, Interrupt

(* start() learns the status from the wait, and never looks again.             *)
LEMMA ResultOfTurn ==
  ASSUME [Next]_vars
  PROVE  UNCHANGED result \/ TurnReturns
  BY DEF Next, vars, portVars, ServerStep, ReceiveResponse, ReceiveTurnEvent, ReceiveWork,
         ReceiveServerRequest, ReceiveGarbage, Disconnect, HandleServerRequest, RequestTimeout,
         WaitTimeout, PauseAfterDecision, PauseAnswered, Interrupt, Abort, PortStep, StartTurn,
         StartFails, WaitForTurn, GiveUp, GaveUp, RunCheck, SkipCheck, CheckEnds,
         InspectAfterCheck, ChecksDone, InspectAndDecide, InspectionFails, CloseClient, CleanUp

LEMMA StatusPreserved ==
  ASSUME TypeOK, NothingWaitsInVain, StatusFromLedger, [Next]_vars
  PROVE  StatusFromLedger'
<1>1. turn'.status = "completed" => EndedWell'
  BY TurnCompletes, EndedStays DEF StatusFromLedger
<1>2. result' = "completed" => EndedWell'
  BY ResultOfTurn, EndedStays DEF StatusFromLedger, TurnReturns
<1> QED BY <1>1, <1>2 DEF StatusFromLedger

-----------------------------------------------------------------------------
(* Deviations and the outcome *)

(* A deviation is never forgotten.                                             *)
LEMMA DeviationsStay ==
  ASSUME [Next]_vars, deviated
  PROVE  deviated'
  BY DEF Next, vars, gateVars, ServerStep, ReceiveResponse, ReceiveTurnEvent, ReceiveWork,
         ReceiveServerRequest, ReceiveGarbage, Disconnect, HandleServerRequest, RequestTimeout,
         WaitTimeout, PauseAfterDecision, PauseAnswered, Interrupt, Abort, PortStep, StartTurn,
         StartFails, WaitForTurn, TurnReturns, GiveUp, GaveUp, RunCheck, SkipCheck, CheckEnds,
         InspectAfterCheck, ChecksDone, InspectAndDecide, InspectionFails, CloseClient, CleanUp

(* Work outside the contract that the ledger takes is a deviation.             *)
LEMMA DeviationsPreserved ==
  ASSUME DeviationsSeen, [Next]_vars
  PROVE  DeviationsSeen'
<1> SUFFICES ASSUME ~deviated' PROVE SeenInside'
  BY DEF DeviationsSeen
<1>1. SeenInside
  BY DeviationsStay DEF DeviationsSeen
<1>2. ASSUME NEW m \in Notification \ TurnEvent, ReceiveWork(m), Takes(m)
      PROVE  m.verdict # "outside"
  BY <1>2 DEF ReceiveWork, Takes
<1> QED BY <1>1, <1>2, SeenGrows DEF SeenInside, Takes

(* The outcome is decided once, when nothing outside the contract was seen, and *)
(* nothing more is taken from the turn after it (runtime.ts, start).           *)
LEMMA OutcomePreserved ==
  ASSUME TypeOK, StatusFromLedger, DeviationsSeen, OutcomeDrawn, [Next]_vars
  PROVE  OutcomeDrawn'
<1> USE DEF portVars
<1>1. result = "completed" /\ SeenInside => SeenInside'
  BY SeenGrows, NoWorkAfterTheTurn DEF StatusFromLedger, SeenInside, Takes
<1>2. CASE PortStep
  <2>1. CASE StartTurn \/ WaitForTurn \/ GiveUp \/ RunCheck \/ SkipCheck \/ CheckEnds
             \/ InspectAfterCheck \/ ChecksDone
    BY <2>1 DEF StartTurn, WaitForTurn, GiveUp, RunCheck, SkipCheck, CheckEnds, InspectAfterCheck,
                ChecksDone, OutcomeDrawn
  <2>2. CASE StartFails \/ GaveUp \/ InspectionFails
    BY <2>2 DEF StartFails, GaveUp, InspectionFails, OutcomeDrawn
  <2>3. CASE TurnReturns
    BY <2>3 DEF TurnReturns, Over, OutcomeDrawn
  <2>4. CASE InspectAndDecide
    <3>1. result # "none" /\ pc' = "cleaning" /\ UNCHANGED <<result, passed, seen>>
      BY <2>4 DEF InspectAndDecide, OutcomeDrawn, turnVars
    <3>2. outcome' = "completed" => result = "completed" /\ passed = RequiredChecks /\ ~deviated'
      BY <2>4, <3>1 DEF InspectAndDecide, Outcome, TypeOK
    <3>3. ~deviated' => SeenInside'
      BY DeviationsPreserved DEF DeviationsSeen
    <3> QED BY <3>1, <3>2, <3>3 DEF OutcomeDrawn
  <2>5. CASE CloseClient \/ CleanUp
    BY <1>1, <2>5 DEF CloseClient, CleanUp, OutcomeDrawn
  <2> QED BY <1>2, <2>1, <2>2, <2>3, <2>4, <2>5 DEF PortStep
<1>3. CASE ~PortStep
  <2>1. UNCHANGED <<result, passed, outcome>> /\ pc' \in {pc, "crashed"}
    BY <1>3 DEF Next, vars, ServerStep, ReceiveResponse, ReceiveTurnEvent, ReceiveWork,
         ReceiveServerRequest, ReceiveGarbage, Disconnect, HandleServerRequest, RequestTimeout,
         WaitTimeout, PauseAfterDecision, PauseAnswered, Interrupt, Abort
  <2> QED BY <1>1, <2>1 DEF OutcomeDrawn
<1> QED BY <1>2, <1>3

(* The checks follow a turn that completed, and nothing outside the contract   *)
(* was seen of it until then; nor is it afterwards (runtime.ts, start).        *)
LEMMA ChecksPreserved ==
  ASSUME TypeOK, StatusFromLedger, DeviationsSeen, ChecksAfterTurn, [Next]_vars
  PROVE  ChecksAfterTurn'
<1> USE DEF portVars
<1>1. result = "completed" /\ SeenInside => SeenInside'
  BY SeenGrows, NoWorkAfterTheTurn DEF StatusFromLedger, SeenInside, Takes
<1>2. CASE TurnReturns
  <2>1. pc' = "checks" \/ pc' = "diff"
    BY <1>2 DEF TurnReturns
  <2>2. pc' = "checks" => result' = "completed" /\ ~deviated /\ UNCHANGED seen
    BY <1>2 DEF TurnReturns, turnVars
  <2> QED BY <2>1, <2>2 DEF DeviationsSeen, SeenInside, ChecksAfterTurn
<1>3. CASE PortStep /\ ~TurnReturns
  <2>1. UNCHANGED result
    BY <1>3, ResultOfTurn
  <2>2. pc' \in {"checks", "check", "inspect"} => pc \in {"checks", "check", "inspect"}
    BY <1>3 DEF PortStep, StartTurn, StartFails, WaitForTurn, GiveUp, GaveUp, RunCheck, SkipCheck,
         CheckEnds, InspectAfterCheck, ChecksDone, InspectAndDecide, InspectionFails, CloseClient,
         CleanUp
  <2> QED BY <1>1, <2>1, <2>2 DEF ChecksAfterTurn
<1>4. CASE ~PortStep
  <2>1. UNCHANGED result /\ pc' \in {pc, "crashed"}
    BY <1>4 DEF Next, vars, ServerStep, ReceiveResponse, ReceiveTurnEvent, ReceiveWork,
         ReceiveServerRequest, ReceiveGarbage, Disconnect, HandleServerRequest, RequestTimeout,
         WaitTimeout, PauseAfterDecision, PauseAnswered, Interrupt, Abort
  <2> QED BY <1>1, <2>1 DEF ChecksAfterTurn
<1> QED BY <1>2, <1>3, <1>4

-----------------------------------------------------------------------------
(* Approvals *)

(* A file change that was validated stays so (execution-gate.ts,               *)
(* validatedFileItems only grows).                                             *)
LEMMA ValidationStays ==
  ASSUME [Next]_vars
  PROVE  ValidatedFileItems \subseteq ValidatedFileItems'
  BY SeenGrows DEF ValidatedFileItems, Takes

(* The answer to a request is decided once, and kept for its repetitions.      *)
LEMMA AnswersPreserved ==
  ASSUME TypeOK, AnswersKept, [Next]_vars
  PROVE  AnswersKept'
<1>1. CASE UNCHANGED <<served, replies>>
  BY <1>1, ValidationStays DEF AnswersKept
<1>2. ASSUME NEW id \in RpcIds, NEW asked \in Asks, ReceiveServerRequest(id, asked)
      PROVE  AnswersKept'
  <2>1. asked # NotAsked
    BY TurnAssumption DEF ServerRequest, NotAsked
  <2>2. CASE served[id].asked = NotAsked /\ served' = [served EXCEPT ![id].asked = asked]
             /\ UNCHANGED replies
    <3>1. served[id].answer = "none" /\ served'[id].answer = "none" /\ served'[id].asked = asked
      BY <2>2 DEF AnswersKept, TypeOK, Served
    <3>2. \A q \in RpcIds \ {id} : served'[q] = served[q]
      BY <2>2 DEF TypeOK
    <3>3. \A a \in replies'[id] : a = served'[id].answer
      BY <2>2, <3>1 DEF AnswersKept
    <3> QED BY <2>1, <2>2, <3>1, <3>2, <3>3, ValidationStays DEF AnswersKept
  <2>3. CASE served' = [served EXCEPT ![id].repeated = TRUE] /\ UNCHANGED replies
    <3>1. \A q \in RpcIds : served'[q].asked = served[q].asked /\ served'[q].answer = served[q].answer
      BY <2>3 DEF TypeOK, Served
    <3> QED BY <2>3, <3>1, ValidationStays DEF AnswersKept
  <2>4. CASE Replied(id, served[id].answer) /\ UNCHANGED served
    <3>1. \A q \in RpcIds : \A a \in replies'[q] : a = served[q].answer
      BY <2>4 DEF Replied, AnswersKept, TypeOK
    <3> QED BY <2>4, <3>1, ValidationStays DEF AnswersKept
  <2> QED BY <1>1, <1>2, <2>2, <2>3, <2>4 DEF ReceiveServerRequest
<1>3. ASSUME NEW id \in RpcIds, HandleServerRequest(id)
      PROVE  AnswersKept'
  <2> DEFINE asked  == served[id].asked
             answer == IF asked.method = "malformed" THEN "error" ELSE Decision(asked)
  <2>1. /\ asked # NotAsked /\ served[id].answer = "none" /\ UNCHANGED seen
        /\ served' = [served EXCEPT ![id].answer = answer]
        /\ UNCHANGED replies \/ Replied(id, answer)
    BY <1>3 DEF HandleServerRequest
  <2>2. answer = "accept" /\ asked.method = "fileChange" => asked.item \in ValidatedFileItems
    BY DEF Decision
  <2>3. replies[id] = {}
    BY <2>1 DEF AnswersKept, TypeOK, Answer
  <2> HIDE DEF asked, answer
  <2>4. served'[id].asked = asked /\ served'[id].answer = answer
    BY <2>1 DEF asked, TypeOK, Served
  <2>5. \A a \in replies'[id] : a = answer
    BY <2>1, <2>3 DEF Replied, TypeOK
  <2>6. \A q \in RpcIds \ {id} : served'[q] = served[q] /\ replies'[q] = replies[q]
    BY <2>1 DEF Replied, TypeOK
  <2>7. answer = "accept" /\ asked.method = "fileChange" => asked.item \in ValidatedFileItems'
    BY <2>2, ValidationStays
  <2> QED BY <2>1, <2>4, <2>5, <2>6, <2>7, ValidationStays DEF AnswersKept
<1> QED BY <1>1, <1>2, <1>3
        DEF Next, vars, gateVars, ServerStep, ReceiveResponse, ReceiveTurnEvent, ReceiveWork,
         ReceiveGarbage, Disconnect, RequestTimeout,
         WaitTimeout, PauseAfterDecision, PauseAnswered, Interrupt, Abort, PortStep, StartTurn,
         StartFails, WaitForTurn, TurnReturns, GiveUp, GaveUp, RunCheck, SkipCheck, CheckEnds,
         InspectAfterCheck, ChecksDone, InspectAndDecide, InspectionFails, CloseClient, CleanUp

-----------------------------------------------------------------------------
(* The theorems *)

LEMMA InitIInv == Init => IInv
<1> SUFFICES ASSUME Init PROVE IInv
  OBVIOUS
<1> USE DEF Init
<1>1. TypeOK
  BY Purposes DEF TypeOK, ConnectionType, Promise, Response, Turn, Waiter, TurnStatus, Served,
                  Unserved, NotAsked, PortPc, Answer
<1>2. NothingWaitsInVain /\ LedgerInOrder /\ StatusFromLedger /\ DeviationsSeen
  BY DEF NothingWaitsInVain, LedgerInOrder, EndedWell, StatusFromLedger, DeviationsSeen,
         SeenInside, StartedItems, CompletedItems
<1>3. OutcomeDrawn /\ ChecksAfterTurn /\ AnswersKept
  BY DEF OutcomeDrawn, ChecksAfterTurn, AnswersKept, Unserved
<1> QED BY <1>1, <1>2, <1>3 DEF IInv

LEMMA NextIInv == IInv /\ [Next]_vars => IInv'
<1> SUFFICES ASSUME IInv, [Next]_vars PROVE IInv'
  OBVIOUS
<1>1. TypeOK /\ NothingWaitsInVain /\ LedgerInOrder /\ StatusFromLedger /\ DeviationsSeen
      /\ OutcomeDrawn /\ ChecksAfterTurn /\ AnswersKept
  BY DEF IInv
<1> QED BY <1>1, TypePreserved, WaitsPreserved, LedgerPreserved, StatusPreserved,
           DeviationsPreserved, OutcomePreserved, ChecksPreserved, AnswersPreserved DEF IInv

(* IInv holds whatever the App Server sends, in whatever order.                *)
THEOREM TurnInvariance == Spec => []IInv
  BY InitIInv, NextIInv, PTL DEF Spec

(* Every variable of the turn keeps its type; in particular only a status that *)
(* ends a turn is ever returned (client.ts, runContractExecution).             *)
THEOREM TurnTypes == Spec => []TypeOK
<1>1. IInv => TypeOK
  BY DEF IInv
<1> QED BY <1>1, TurnInvariance, PTL

(* No wait and no request outlives what it waits for (client.ts, waitForTurn,  *)
(* settleTurn, failProtocol).                                                  *)
THEOREM NobodyWaitsInVain == Spec => []NothingWaitsInVain
<1>1. IInv => NothingWaitsInVain
  BY DEF IInv
<1> QED BY <1>1, TurnInvariance, PTL

(* A completed execution completed as its turn said, with every item finished  *)
(* and every check passed, and with nothing outside the contract (runtime.ts,  *)
(* start).                                                                     *)
THEOREM CompletionIsClean == Spec => []CompletedMeansClean
<1>1. ASSUME IInv, outcome = "completed"
      PROVE  CompletedMeansClean
  <2>1. result = "completed" /\ passed = RequiredChecks /\ SeenInside
    BY <1>1 DEF IInv, OutcomeDrawn
  <2>2. EndedWell /\ LedgerInOrder /\ seen \subseteq Notification
    BY <1>1, <2>1 DEF IInv, StatusFromLedger, TypeOK
  <2>3. TurnCompleted(seen) /\ StartedItems(seen) = CompletedItems(seen)
    BY <2>2 DEF EndedWell, TurnCompleted, LedgerInOrder
  <2>4. \A m \in seen : m.method = "turn/completed" => m.status = "completed"
    <3>1. \A m \in seen : m.method = "turn/completed" => m \in TurnEvent
      BY <2>2 DEF Notification, ItemEvent, DiffEvent
    <3> QED BY <2>2, <3>1 DEF EndedWell, LedgerInOrder
  <2> QED BY <2>1, <2>3, <2>4 DEF CompletedMeansClean, SeenInside
<1>2. IInv => CompletedMeansClean
  BY <1>1 DEF CompletedMeansClean
<1> QED BY <1>2, TurnInvariance, PTL

(* Repeated approval requests get one answer, and an accepted file change was  *)
(* announced inside the contract (client.ts, receiveServerRequest;             *)
(* execution-gate.ts, decideApproval).                                         *)
THEOREM RepliesAgree == Spec => []ApprovalsAgree
<1>1. IInv => ApprovalsAgree
  BY DEF IInv, AnswersKept, ApprovalsAgree
<1> QED BY <1>1, TurnInvariance, PTL

-----------------------------------------------------------------------------
(* The execution implements the promise *)

(* What was seen, as far as the promise speaks of it.                          *)
Work == <<StartedItems(seen), CompletedItems(seen), SeenInside, EndingOf(seen)>>

LEMMA StageValues ==
  /\ \A p \in {"thread", "turn"} : StageOf(p) = "starting"
  /\ \A p \in {"waiting", "giveUp", "checks", "check", "inspect", "diff"} : StageOf(p) = "turn"
  /\ \A p \in {"cleaning", "closing"} : StageOf(p) = "concluded"
  /\ StageOf("done") = "returned" /\ StageOf("crashed") = "lost"
BY DEF StageOf

LEMMA StageIsOngoing ==
  ASSUME TypeOK
  PROVE  Promised!Ongoing <=> Ongoing
BY StageValues DEF TypeOK, PortPc, Promised!Ongoing, Ongoing

(* The turn ends as its one notification says (event-ledger.ts).               *)
LEMMA OneEnding ==
  ASSUME TypeOK, LedgerInOrder, NEW m \in seen, m.method = "turn/completed"
  PROVE  EndingOf(seen) = m.status
<1>1. \A n \in seen : n.method = "turn/completed" => n = m
  BY DEF TypeOK, LedgerInOrder, Notification, ItemEvent, DiffEvent
<1>2. TurnCompleted(seen)
  BY DEF TurnCompleted
<1> QED BY <1>1, <1>2 DEF EndingOf

LEMMA NoEndingYet == ~TurnCompleted(seen) => EndingOf(seen) = "none"
BY DEF EndingOf

LEMMA EndedWellEnding ==
  ASSUME TypeOK, LedgerInOrder, EndedWell
  PROVE  EndingOf(seen) = "completed"
BY OneEnding DEF EndedWell

LEMMA UnseenByThePromise ==
  ASSUME UNCHANGED <<StageOf(pc), Work, passed, outcome>>
  PROVE  [Promised!Next]_(Promised!vars)
BY DEF Work, Promised!vars

(* What the ledger takes is a step of the promise: the start or the end of a   *)
(* piece of work, a diff, or the end of the turn.                              *)
LEMMA TakingIsPromised ==
  ASSUME TypeOK, LedgerInOrder, Ongoing, NEW m, m \notin seen, Takes(m),
         UNCHANGED <<pc, passed, outcome>>
  PROVE  [Promised!Next]_(Promised!vars)
<1>1. m \in Notification /\ Accepts(seen, m) /\ seen' = seen \cup {m} /\ seen \subseteq Notification
  BY DEF Takes, TypeOK
<1>2. LedgerInOrder'
  BY TakingKeepsOrder
<1>3. StartedItems(seen)' = StartedItems(seen)
        \cup (IF m.method = "item/started" THEN {m.item} ELSE {})
  <2>1. m.method = "item/started" => m.item \in Items
    BY <1>1 DEF Notification, TurnEvent, ItemEvent, DiffEvent
  <2> QED BY <1>1, <2>1 DEF StartedItems
<1>4. CompletedItems(seen)' = CompletedItems(seen)
        \cup (IF m.method = "item/completed" THEN {m.item} ELSE {})
  <2>1. m.method = "item/completed" => m.item \in Items
    BY <1>1 DEF Notification, TurnEvent, ItemEvent, DiffEvent
  <2> QED BY <1>1, <2>1 DEF CompletedItems
<1>5. UNCHANGED StageOf(pc)
  OBVIOUS
<1>6. Promised!Ongoing
  BY StageIsOngoing
<1>7. CASE m.method = "item/started"
  <2>1. m.item \in Items /\ m.item \notin StartedItems(seen) /\ ~TurnCompleted(seen)
    BY <1>1, <1>7 DEF Accepts, Active, Notification, TurnEvent, ItemEvent, DiffEvent
  <2>2. ~TurnCompleted(seen)'
    BY <1>1, <1>7, <2>1 DEF TurnCompleted
  <2>3. SeenInside' \in {SeenInside, FALSE}
    BY <1>1 DEF SeenInside
  <2>4. EndingOf(seen) = "none" /\ EndingOf(seen)' = "none"
    BY <2>1, <2>2 DEF EndingOf
  <2>5. Promised!TakeUp(m.item)
    BY <1>3, <1>4, <1>5, <1>6, <1>7, <2>1, <2>3, <2>4 DEF Promised!TakeUp
  <2> QED BY <2>1, <2>5 DEF Promised!Next
<1>8. CASE m.method = "item/completed"
  <2>1. m.item \in Items /\ m.item \in StartedItems(seen) /\ ~TurnCompleted(seen)
    <3>1. m.item \in Items /\ m \in ItemEvent
      BY <1>1, <1>8 DEF Notification, TurnEvent, ItemEvent, DiffEvent
    <3> QED BY <1>1, <1>8, <3>1 DEF Accepts, Active, StartedAs, StartedItems
  <2>2. m.item \notin CompletedItems(seen)
    <3>1. m \in ItemEvent
      BY <1>1, <1>8 DEF Notification, TurnEvent, ItemEvent, DiffEvent
    <3>2. ~\E n \in seen : n.method = m.method /\ n.item = m.item /\ n # m
      BY <1>1, <3>1 DEF Accepts, Conflicting
    <3> QED BY <1>8, <3>2 DEF CompletedItems
  <2>3. ~TurnCompleted(seen)'
    BY <1>1, <1>8, <2>1 DEF TurnCompleted
  <2>4. SeenInside' \in {SeenInside, FALSE}
    BY <1>1 DEF SeenInside
  <2>5. EndingOf(seen) = "none" /\ EndingOf(seen)' = "none"
    BY <2>1, <2>3 DEF EndingOf
  <2>6. Promised!Finish(m.item)
    BY <1>3, <1>4, <1>5, <1>6, <1>8, <2>1, <2>2, <2>4, <2>5 DEF Promised!Finish
  <2> QED BY <2>1, <2>6 DEF Promised!Next
<1>9. CASE m.method = "turn/diff/updated"
  <2>1. ~TurnCompleted(seen) /\ ~TurnCompleted(seen)'
    BY <1>1, <1>9 DEF Accepts, Active, TurnCompleted
  <2>2. EndingOf(seen) = "none" /\ EndingOf(seen)' = "none"
    BY <2>1 DEF EndingOf
  <2>3. SeenInside' \in {SeenInside, FALSE}
    BY <1>1 DEF SeenInside
  <2>4. UNCHANGED <<StartedItems(seen), CompletedItems(seen), EndingOf(seen)>>
    BY <1>3, <1>4, <1>9, <2>2
  <2>5. CASE SeenInside' = FALSE
    <3>1. Promised!Stray
      BY <1>5, <1>6, <2>2, <2>4, <2>5 DEF Promised!Stray
    <3> QED BY <3>1 DEF Promised!Next
  <2>6. CASE SeenInside' = SeenInside
    BY <1>5, <2>4, <2>6 DEF Promised!vars
  <2> QED BY <2>3, <2>5, <2>6
<1>10. CASE m \in TurnEvent
  <2>1. UNCHANGED <<StartedItems(seen), CompletedItems(seen), SeenInside>>
    BY <1>1, <1>3, <1>4, <1>10 DEF TurnEvent, SeenInside
  <2>2. CASE m.method = "turn/started"
    <3>1. ~TurnCompleted(seen) /\ ~TurnCompleted(seen)'
      BY <1>1, <2>2 DEF Accepts, TurnCompleted
    <3>2. UNCHANGED EndingOf(seen)
      BY <3>1 DEF EndingOf
    <3> QED BY <1>5, <2>1, <3>2 DEF Promised!vars
  <2>3. CASE m.method = "turn/completed"
    <3>1. ~TurnCompleted(seen)
      BY <1>1, <1>10, <2>3 DEF Accepts, Conflicting, TurnCompleted
    <3>2. EndingOf(seen)' = m.status
      <4>1. \A n \in seen' : n.method = "turn/completed" => n = m
        BY <1>1, <3>1 DEF TurnCompleted
      <4>2. m \in seen' /\ TurnCompleted(seen)'
        BY <1>1, <2>3 DEF TurnCompleted
      <4> QED BY <2>3, <4>1, <4>2 DEF EndingOf
    <3>3. m.status = "completed" => CompletedItems(seen) = StartedItems(seen)
      BY <1>1, <2>3 DEF Accepts, LedgerInOrder
    <3>4. m.status \in TurnStatus
      BY <1>10 DEF TurnEvent
    <3>5. Promised!EndTurn(m.status)
      BY <1>5, <1>6, <2>1, <3>1, <3>2, <3>3, NoEndingYet DEF Promised!EndTurn
    <3> QED BY <3>4, <3>5 DEF Promised!Next
  <2> QED BY <1>10, <2>2, <2>3 DEF TurnEvent
<1> QED BY <1>1, <1>7, <1>8, <1>9, <1>10 DEF Notification, ItemEvent, DiffEvent

(* What start() does itself: it is told of the turn, passes checks, concludes  *)
(* and returns (runtime.ts, start).                                            *)
LEMMA PortIsPromised ==
  ASSUME IInv, PortStep
  PROVE  [Promised!Next]_(Promised!vars)
<1> USE DEF portVars
<1>0. UNCHANGED Work
  BY DEF PortStep, StartTurn, StartFails, WaitForTurn, TurnReturns, GiveUp, GaveUp, RunCheck,
     SkipCheck, CheckEnds, InspectAfterCheck, ChecksDone, InspectAndDecide, InspectionFails,
     CloseClient, CleanUp, Work, turnVars, SeenInside
<1>1. UNCHANGED <<StartedItems(seen), CompletedItems(seen), SeenInside, EndingOf(seen)>>
  BY <1>0 DEF Work
<1>2. CASE StartTurn \/ GiveUp \/ RunCheck \/ SkipCheck \/ InspectAfterCheck \/ ChecksDone
           \/ CloseClient \/ TurnReturns
  <2>1. UNCHANGED <<passed, outcome>>
    BY <1>2 DEF StartTurn, GiveUp, RunCheck, SkipCheck, InspectAfterCheck, ChecksDone, CloseClient,
       TurnReturns
  <2>2. UNCHANGED StageOf(pc)
    BY <1>2, StageValues DEF StartTurn, GiveUp, RunCheck, SkipCheck, InspectAfterCheck, ChecksDone,
       CloseClient, TurnReturns
  <2> QED BY <1>0, <2>1, <2>2, UnseenByThePromise
<1>3. CASE WaitForTurn
  <2>1. StageOf(pc) = "starting" /\ StageOf(pc)' = "turn" /\ UNCHANGED <<passed, outcome>>
    BY <1>3, StageValues DEF WaitForTurn
  <2>2. Promised!Begin
    BY <1>1, <2>1 DEF Promised!Begin
  <2> QED BY <2>2 DEF Promised!Next
<1>4. CASE CheckEnds
  <2>1. PICK c \in RequiredChecks \ passed :
          \/ passed' = passed \cup {c} /\ pc' = "inspect"
          \/ UNCHANGED passed /\ pc' = "diff"
    BY <1>4 DEF CheckEnds
  <2>2. StageOf(pc) = "turn" /\ StageOf(pc)' = "turn" /\ UNCHANGED outcome
    BY <1>4, <2>1, StageValues DEF CheckEnds
  <2>3. CASE UNCHANGED passed
    BY <1>0, <2>2, <2>3, UnseenByThePromise
  <2>4. CASE passed' = passed \cup {c}
    <3>1. result = "completed" /\ SeenInside
      BY <1>4 DEF CheckEnds, IInv, ChecksAfterTurn
    <3>2. EndingOf(seen) = "completed"
      BY <3>1, EndedWellEnding DEF IInv, StatusFromLedger
    <3>3. Promised!PassCheck(c)
      BY <1>1, <2>2, <2>4, <3>1, <3>2 DEF Promised!PassCheck
    <3> QED BY <3>3 DEF Promised!Next
  <2> QED BY <2>1, <2>3, <2>4
<1>5. CASE StartFails \/ GaveUp \/ InspectionFails
  <2>1. PICK o \in {"paused", "failed"} : outcome' = o
    BY <1>5 DEF StartFails, GaveUp, InspectionFails
  <2>2. StageOf(pc) \in {"starting", "turn"} /\ StageOf(pc)' = "concluded" /\ UNCHANGED passed
    BY <1>5, StageValues DEF StartFails, GaveUp, InspectionFails
  <2>3. Promised!Conclude(o)
    BY <1>1, <2>1, <2>2 DEF Promised!Conclude
  <2> QED BY <2>3 DEF Promised!Next
<1>6. CASE InspectAndDecide
  <2>1. StageOf(pc) = "turn" /\ StageOf(pc)' = "concluded" /\ UNCHANGED <<passed, result>>
    BY <1>6, StageValues DEF InspectAndDecide
  <2>2. result # "none" /\ result \in {"none", "completed", "interrupted", "failed"}
    BY <1>6 DEF InspectAndDecide, IInv, OutcomeDrawn, TypeOK
  <2>3. outcome' \in {"completed", "paused", "failed"}
    BY <1>6 DEF InspectAndDecide, Outcome
  <2>4. ASSUME outcome' = "completed"
        PROVE  EndingOf(seen) = "completed" /\ SeenInside /\ passed = RequiredChecks
    <3>1. ~deviated' /\ result = "completed" /\ passed = RequiredChecks
      BY <1>6, <2>1, <2>2, <2>4 DEF InspectAndDecide, Outcome
    <3>2. ~deviated
      BY <1>6, <3>1 DEF InspectAndDecide
    <3>3. SeenInside
      BY <3>2 DEF IInv, DeviationsSeen
    <3>4. EndingOf(seen) = "completed"
      BY <3>1, EndedWellEnding DEF IInv, StatusFromLedger
    <3> QED BY <3>1, <3>3, <3>4
  <2>5. Promised!Conclude(outcome')
    BY <1>1, <2>1, <2>4 DEF Promised!Conclude
  <2> QED BY <2>3, <2>5 DEF Promised!Next
<1>7. CASE CleanUp
  <2>1. StageOf(pc) = "concluded" /\ StageOf(pc)' = "returned" /\ UNCHANGED passed
        /\ outcome' \in {outcome, "failed"}
    BY <1>7, StageValues DEF CleanUp
  <2>2. Promised!Return
    BY <1>1, <2>1 DEF Promised!Return
  <2> QED BY <2>2 DEF Promised!Next
<1> QED BY <1>2, <1>3, <1>4, <1>5, <1>6, <1>7 DEF PortStep

(* Whatever else happens changes nothing the promise speaks of, or ends the    *)
(* process (client.ts, receiveServerRequest and handleServerRequest).          *)
LEMMA ElsewhereIsPromised ==
  ASSUME IInv, Next, ~PortStep, UNCHANGED seen
  PROVE  [Promised!Next]_(Promised!vars)
<1>1. UNCHANGED Work
  BY DEF Work, SeenInside
<1>2. UNCHANGED <<passed, outcome>> /\ (UNCHANGED pc \/ (Ongoing /\ pc' = "crashed"))
  BY DEF Next, ServerStep, ReceiveResponse, ReceiveTurnEvent, ReceiveWork, ReceiveServerRequest,
     ReceiveGarbage, Disconnect, HandleServerRequest, RequestTimeout, WaitTimeout,
     PauseAfterDecision, PauseAnswered, Interrupt, Abort, portVars
<1>3. CASE UNCHANGED pc
  BY <1>1, <1>2, <1>3, UnseenByThePromise
<1>4. CASE Ongoing /\ pc' = "crashed"
  <2>1. Promised!Ongoing /\ StageOf(pc)' = "lost"
    BY <1>4, StageIsOngoing, StageValues DEF IInv
  <2>2. Promised!Lose
    BY <1>1, <1>2, <2>1 DEF Work, Promised!Lose
  <2> QED BY <2>2 DEF Promised!Next
<1> QED BY <1>2, <1>3, <1>4

(* Every execution over the App Server, whatever that sends, is one the        *)
(* promise allows: work is taken up and finished once and before the turn      *)
(* ends, checks are run on the finished work of a turn inside the contract,    *)
(* and the outcome is drawn once, from what does not change any more           *)
(* (runtime.ts, start; client.ts, receive; event-ledger.ts, accept).           *)
THEOREM ExecutionKeepsThePromise == Spec => ImplementsPromise
<1>1. Init => Promised!Init
  <2> SUFFICES ASSUME Init PROVE Promised!Init
    OBVIOUS
  <2>1. StageOf(pc) = "starting" /\ passed = {} /\ outcome = "none" /\ seen = {}
    BY StageValues DEF Init
  <2>2. StartedItems(seen) = {} /\ CompletedItems(seen) = {} /\ SeenInside /\ EndingOf(seen) = "none"
    BY <2>1 DEF StartedItems, CompletedItems, SeenInside, EndingOf, TurnCompleted
  <2> QED BY <2>1, <2>2 DEF Promised!Init, SeenInside
<1>2. IInv /\ [Next]_vars => [Promised!Next]_(Promised!vars)
  <2> SUFFICES ASSUME IInv, [Next]_vars PROVE [Promised!Next]_(Promised!vars)
    OBVIOUS
  <2>1. TypeOK /\ LedgerInOrder
    BY DEF IInv
  <2>2. CASE UNCHANGED vars
    <3>1. UNCHANGED <<StageOf(pc), Work, passed, outcome>>
      BY <2>2 DEF vars, turnVars, portVars, Work, SeenInside
    <3> QED BY <3>1, UnseenByThePromise
  <2>3. CASE PortStep
    BY <2>3, PortIsPromised
  <2>4. CASE Next /\ ~PortStep /\ UNCHANGED seen
    BY <2>4, ElsewhereIsPromised
  <2>5. ASSUME NEW m, ReceiveTurnEvent(m) \/ ReceiveWork(m), Takes(m)
        PROVE  [Promised!Next]_(Promised!vars)
    <3>1. Ongoing /\ m \notin seen /\ UNCHANGED <<pc, passed, outcome>>
      BY <2>5 DEF ReceiveTurnEvent, ReceiveWork, portVars
    <3> QED BY <2>1, <2>5, <3>1, TakingIsPromised
  <2> QED BY <2>2, <2>3, <2>4, <2>5, SeenGrows
<1> QED BY <1>1, <1>2, TurnInvariance, PTL DEF Spec, ImplementsPromise, Promised!Spec
=============================================================================
