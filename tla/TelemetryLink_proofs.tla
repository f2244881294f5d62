------------------------- MODULE TelemetryLink_proofs -------------------------
(***************************************************************************)
(* For every number of streams, vehicles, attempts and every timeout: when *)
(* the channel answers within the acknowledgement timeout and its outages  *)
(* are total, what the configurator counts as configured the autopilot has *)
(* granted.  When it does not, the outcome of a session is final all the   *)
(* same, and a session asks for each stream a bounded number of times.     *)
(***************************************************************************)
EXTENDS TelemetryLink, TLAPS

USE StreamsAssumption, AttemptsAssumption, TimeoutAssumption, VehicleAssumption,
    ResultAssumption, LinkAssumption

LEMMA InitIInv == ASSUME Init PROVE IInv
<1> USE DEF Init, ConfiguratorInit, Connection!ConnectionInit
<1>1. TypeOK
  <2>1. awaitingAck \in BOOLEAN /\ polled \in BOOLEAN
    OBVIOUS
  <2>2. /\ phase \in Phases
        /\ vehicleSystemId \in Vehicles \cup {NoVehicle}
        /\ currentRequest \in 0 .. NumStreams
        /\ completedRequests \in 0 .. NumStreams
        /\ attempt \in 0 .. MaxAttempts
        /\ ackTimer \in 0 .. AckTimeout
        /\ failureResult \in Refusals \cup {NoResult}
        /\ request \in Requests \cup {NoRequest}
    BY DEF Phases
  <2>3. Connection!ConnectionTypeOK
    BY DEF Connection!ConnectionTypeOK, Connection!SilenceLimit
  <2>4. /\ booting \in [Vehicles -> 0 .. BootTime]
        /\ verdict \in [Vehicles -> [Streams -> {"default", "granted", "refused"}]]
    BY DEF Default
  <2> QED
    BY <2>1, <2>2, <2>3, <2>4 DEF TypeOK, ConfiguratorTypeOK
<1>2. CountersAgree
  BY DEF CountersAgree
<1>3. SessionIsCurrent /\ RestartIsSilent
  BY DEF SessionIsCurrent, RestartIsSilent
<1>4. TimerCoversExchange /\ AckTellsVerdict /\ OneOpenExchange
  BY DEF TimerCoversExchange, AckTellsVerdict, OneOpenExchange
<1>5. CountedMeansGranted /\ RefusalNamesTheStream
  BY DEF CountedMeansGranted, RefusalNamesTheStream, InSession
<1> QED
  BY <1>1, <1>2, <1>3, <1>4, <1>5 DEF IInv

\* A session change finds nothing on its way: what is on its way belongs to
\* the connected vehicle.
LEMMA NothingLeftOver ==
  ASSUME IInv, Connection!ReportedVehicle # vehicleSystemId
  PROVE  inFlight = {}
  BY DEF IInv, OneOpenExchange, TimerCoversExchange, InSession,
         Connection!ReportedVehicle, Connection!Admitted

\* A request is sent only when the last one and its answer are gone.
LEMMA NothingOpenAtSend ==
  ASSUME PromptChannel, IInv, SendRequest \/ GiveUp
  PROVE  inFlight = {}
<1> SUFFICES ASSUME NEW m \in inFlight PROVE FALSE
  OBVIOUS
<1>1. ackTimer = 0
  BY DEF IInv, OneOpenExchange, SendRequest, GiveUp, Waiting, Exhausted, TypeOK,
         ConfiguratorTypeOK
<1>2. m.age \in Nat /\ m.age <= MaxRoundTrip
  BY DEF IInv, TypeOK, Message
<1>3. ackTimer + m.age >= AckTimeout
  BY DEF IInv, TimerCoversExchange
<1> QED
  BY <1>1, <1>2, <1>3 DEF PromptChannel

LEMMA ResetIInv ==
  ASSUME IInv, Poll, Connection!ReportedVehicle = NoVehicle, Reset
  PROVE  IInv'
<1> USE DEF Poll, Reset
<1>1. inFlight = {} /\ inFlight' = {}
  <2>1. inFlight = {}
    BY NothingLeftOver DEF IInv, OneOpenExchange, InSession
  <2> QED
    BY <2>1
<1>2. TypeOK'
  <2>1. awaitingAck' \in BOOLEAN /\ polled' \in BOOLEAN
    OBVIOUS
  <2> QED
    BY <1>1, <2>1 DEF IInv, TypeOK, ConfiguratorTypeOK, Phases,
                      Connection!ConnectionTypeOK
<1>3. CountersAgree' /\ SessionIsCurrent'
  BY DEF CountersAgree, SessionIsCurrent
<1>4. RestartIsSilent'
  BY DEF IInv, RestartIsSilent, Connection!Admitted, Connection!Connected
<1>5. TimerCoversExchange' /\ AckTellsVerdict' /\ OneOpenExchange'
  BY <1>1 DEF TimerCoversExchange, AckTellsVerdict, OneOpenExchange
<1>6. CountedMeansGranted' /\ RefusalNamesTheStream'
  BY DEF CountedMeansGranted, RefusalNamesTheStream, InSession
<1> QED
  BY <1>2, <1>3, <1>4, <1>5, <1>6 DEF IInv

\* Sending request s to vehicle v, with nothing on its way, opens an exchange
\* as the invariant describes it.
LEMMA SendOpensExchange ==
  ASSUME NEW v \in Vehicles, NEW s \in Streams, NEW c \in 0 .. MaxAttempts - 1,
         IInv, Poll, Emit(s, c), inFlight = {}, v = Connection!ReportedVehicle,
         phase' = "configuring", vehicleSystemId' = v, currentRequest' = s
  PROVE  /\ inFlight' \subseteq Message
         /\ TimerCoversExchange' /\ AckTellsVerdict' /\ OneOpenExchange'
         /\ attempt' \in 0 .. MaxAttempts /\ ackTimer' \in 0 .. AckTimeout
         /\ request' \in Requests
<1> USE DEF Poll, Emit
<1>1. Connection!Admitted(v)'
  BY DEF Connection!Admitted, Connection!Connected, Connection!ReportedVehicle
<1>2. \A m \in inFlight' : m = RequestMessage(v, s)
  OBVIOUS
<1>3. RequestMessage(v, s) \in Message
  BY DEF RequestMessage, Message
<1>4. RequestMessage(v, s).kind = "request" /\ RequestMessage(v, s).vehicle = v
      /\ RequestMessage(v, s).stream = s /\ RequestMessage(v, s).age = 0
  BY DEF RequestMessage
<1>5. OneOpenExchange'
  <2>1. awaitingAck'
    OBVIOUS
  <2> QED
    BY <1>2, <1>4, <2>1 DEF OneOpenExchange, InSession
<1>6. TimerCoversExchange' /\ AckTellsVerdict'
  BY <1>1, <1>2, <1>4 DEF TimerCoversExchange, AckTellsVerdict
<1> QED
  BY <1>2, <1>3, <1>5, <1>6 DEF Requests

LEMMA BeginIInv ==
  ASSUME NEW v \in Vehicles, v = Connection!ReportedVehicle, v # vehicleSystemId,
         IInv, Poll, BeginSession(v)
  PROVE  IInv'
<1> USE DEF Poll, BeginSession
<1>0. 0 \in Streams /\ 0 \in 0 .. MaxAttempts - 1
  BY DEF Streams
<1>1. Emit(0, 0) /\ inFlight = {}
  BY NothingLeftOver
<1>2. /\ inFlight' \subseteq Message
      /\ TimerCoversExchange' /\ AckTellsVerdict' /\ OneOpenExchange'
      /\ attempt' \in 0 .. MaxAttempts /\ ackTimer' \in 0 .. AckTimeout
      /\ request' \in Requests
  BY <1>0, <1>1, SendOpensExchange
<1>3. TypeOK'
  <2>1. awaitingAck' \in BOOLEAN /\ polled' \in BOOLEAN
    BY DEF Emit
  <2> QED
    BY <1>2, <2>1 DEF IInv, TypeOK, ConfiguratorTypeOK, Phases,
                      Connection!ConnectionTypeOK
<1>4. CountersAgree'
  <2>1. awaitingAck'
    BY DEF Emit
  <2> QED
    BY <2>1 DEF CountersAgree
<1>5. SessionIsCurrent'
  BY DEF SessionIsCurrent, Connection!Admitted, Connection!Connected,
         Connection!ReportedVehicle
<1>6. RestartIsSilent'
  BY DEF IInv, RestartIsSilent, Connection!Admitted, Connection!Connected
<1>7. CountedMeansGranted' /\ RefusalNamesTheStream'
  BY DEF CountedMeansGranted, RefusalNamesTheStream, InSession
<1> QED
  BY <1>2, <1>3, <1>4, <1>5, <1>6, <1>7 DEF IInv

\* The session goes on: the connected vehicle is the session's vehicle.
LEMMA SameSessionKeeps ==
  ASSUME IInv, Poll, vehicleSystemId' = vehicleSystemId,
         vehicleSystemId = Connection!ReportedVehicle,
         vehicleSystemId # NoVehicle
  PROVE  /\ SessionIsCurrent' /\ RestartIsSilent'
         /\ Connection!ConnectionTypeOK'
         /\ polled' \in BOOLEAN
         /\ booting' \in [Vehicles -> 0 .. BootTime]
         /\ verdict' \in [Vehicles -> [Streams -> {"default", "granted", "refused"}]]
<1> USE DEF Poll
<1>1. SessionIsCurrent'
  BY DEF SessionIsCurrent, Connection!Admitted, Connection!Connected,
         Connection!ReportedVehicle
<1>2. RestartIsSilent'
  BY DEF IInv, RestartIsSilent, Connection!Admitted, Connection!Connected
<1>3. polled' \in BOOLEAN
  OBVIOUS
<1>4. Connection!ConnectionTypeOK'
  BY DEF IInv, TypeOK, Connection!ConnectionTypeOK, Connection!SilenceLimit
<1> QED
  BY <1>1, <1>2, <1>3, <1>4 DEF IInv, TypeOK

LEMMA SendIInv ==
  ASSUME PromptChannel, IInv, Poll, SendRequest,
         vehicleSystemId = Connection!ReportedVehicle, vehicleSystemId # NoVehicle
  PROVE  IInv'
<1> USE DEF SendRequest
<1>1. vehicleSystemId \in Vehicles /\ currentRequest \in Streams
  BY DEF IInv, TypeOK, ConfiguratorTypeOK, CountersAgree, Streams
<1>2. attempt \in 0 .. MaxAttempts - 1
  BY DEF IInv, TypeOK, ConfiguratorTypeOK, CountersAgree, Waiting, Exhausted
<1>3. inFlight = {}
  BY NothingOpenAtSend
<1>4. /\ inFlight' \subseteq Message
      /\ TimerCoversExchange' /\ AckTellsVerdict' /\ OneOpenExchange'
      /\ attempt' \in 0 .. MaxAttempts /\ ackTimer' \in 0 .. AckTimeout
      /\ request' \in Requests
  BY <1>1, <1>2, <1>3, SendOpensExchange
<1>5. TypeOK'
  <2>1. awaitingAck' \in BOOLEAN
    BY DEF Emit
  <2> QED
    BY <1>4, <2>1, SameSessionKeeps DEF IInv, TypeOK, ConfiguratorTypeOK
<1>6. CountersAgree'
  <2>1. awaitingAck'
    BY DEF Emit
  <2> QED
    BY <2>1 DEF IInv, CountersAgree
<1>7. CountedMeansGranted' /\ RefusalNamesTheStream'
  BY DEF IInv, CountedMeansGranted, RefusalNamesTheStream, InSession, Poll
<1> QED
  BY <1>4, <1>5, <1>6, <1>7, SameSessionKeeps DEF IInv

LEMMA GiveUpIInv ==
  ASSUME PromptChannel, IInv, Poll, GiveUp,
         vehicleSystemId = Connection!ReportedVehicle, vehicleSystemId # NoVehicle
  PROVE  IInv'
<1> USE DEF GiveUp
<1>1. inFlight = {} /\ inFlight' = {}
  BY NothingOpenAtSend DEF Poll
<1>2. TypeOK'
  <2>1. awaitingAck' \in BOOLEAN
    BY DEF IInv, TypeOK, ConfiguratorTypeOK
  <2> QED
    BY <1>1, <2>1, SameSessionKeeps DEF IInv, TypeOK, ConfiguratorTypeOK, Phases
<1>3. CountersAgree'
  BY DEF IInv, CountersAgree
<1>4. TimerCoversExchange' /\ AckTellsVerdict' /\ OneOpenExchange'
  BY <1>1 DEF TimerCoversExchange, AckTellsVerdict, OneOpenExchange
<1>5. CountedMeansGranted' /\ RefusalNamesTheStream'
  BY DEF IInv, CountedMeansGranted, RefusalNamesTheStream, InSession, Poll
<1> QED
  BY <1>2, <1>3, <1>4, <1>5, SameSessionKeeps DEF IInv

LEMMA IdleIInv ==
  ASSUME IInv, Poll, NothingToSend,
         vehicleSystemId = Connection!ReportedVehicle, vehicleSystemId # NoVehicle
  PROVE  IInv'
<1> USE DEF NothingToSend
<1>1. inFlight' = inFlight
  BY DEF Poll
<1>2. TypeOK'
  <2>1. awaitingAck' \in BOOLEAN
    BY DEF IInv, TypeOK, ConfiguratorTypeOK
  <2> QED
    BY <1>1, <2>1, SameSessionKeeps DEF IInv, TypeOK, ConfiguratorTypeOK
<1>3. CountersAgree'
  BY DEF IInv, CountersAgree
<1>4. TimerCoversExchange' /\ AckTellsVerdict' /\ OneOpenExchange'
  BY <1>1 DEF IInv, TimerCoversExchange, AckTellsVerdict, OneOpenExchange, Poll,
              InSession, Connection!Admitted, Connection!Connected
<1>5. CountedMeansGranted' /\ RefusalNamesTheStream'
  BY DEF IInv, CountedMeansGranted, RefusalNamesTheStream, InSession, Poll
<1> QED
  BY <1>2, <1>3, <1>4, <1>5, SameSessionKeeps DEF IInv

LEMMA PollIInv == ASSUME PromptChannel, IInv, Poll PROVE IInv'
<1> DEFINE v == Connection!ReportedVehicle
<1>1. v \in Vehicles \cup {NoVehicle}
  BY DEF IInv, TypeOK, Connection!ConnectionTypeOK, Connection!ReportedVehicle
<1>2. Update(v)
  BY DEF Poll
<1>3. CASE v = NoVehicle
  BY <1>2, <1>3, ResetIInv DEF Update
<1>4. CASE v # NoVehicle /\ v # vehicleSystemId
  BY <1>1, <1>2, <1>4, BeginIInv DEF Update
<1>5. CASE v # NoVehicle /\ v = vehicleSystemId
  BY <1>2, <1>5, SendIInv, GiveUpIInv, IdleIInv DEF Update
<1> QED
  BY <1>3, <1>4, <1>5

LEMMA StutterIInv == ASSUME IInv, UNCHANGED vars PROVE IInv'
<1> USE DEF vars, configuratorVars, channelVars
<1>1. TypeOK'
  BY DEF IInv, TypeOK, ConfiguratorTypeOK, Connection!ConnectionTypeOK
<1>2. CountersAgree' /\ SessionIsCurrent' /\ RestartIsSilent'
  BY DEF IInv, CountersAgree, SessionIsCurrent, RestartIsSilent,
         Connection!Admitted, Connection!Connected
<1>3. TimerCoversExchange' /\ AckTellsVerdict' /\ OneOpenExchange'
  BY DEF IInv, TimerCoversExchange, AckTellsVerdict, OneOpenExchange, InSession,
         Connection!Admitted, Connection!Connected
<1>4. CountedMeansGranted' /\ RefusalNamesTheStream'
  BY DEF IInv, CountedMeansGranted, RefusalNamesTheStream, InSession
<1> QED
  BY <1>1, <1>2, <1>3, <1>4 DEF IInv

LEMMA HeartbeatIInv ==
  ASSUME IInv, NEW v \in Vehicles, ReceiveHeartbeat(v) PROVE IInv'
<1> USE DEF ReceiveHeartbeat, configuratorVars, channelVars
<1>1. CASE ~Connection!HeartbeatAdmitted(v)
  <2>1. UNCHANGED vars
    BY <1>1 DEF Connection!OnHeartbeat, Connection!connectionVars, vars
  <2> QED
    BY <2>1, StutterIInv
<1>2. CASE Connection!HeartbeatAdmitted(v)
  <2>1. systemId' = v /\ silence' = 0
    BY <1>2 DEF Connection!OnHeartbeat
  <2>2. \A u : Connection!Admitted(u) => Connection!Admitted(u)'
    BY <1>2, <2>1 DEF Connection!Admitted, Connection!Connected,
                      Connection!HeartbeatAdmitted
  <2>3. \A u : Connection!Admitted(u)' => u = v
    BY <2>1 DEF Connection!Admitted
  <2>4. TypeOK'
    BY <2>1 DEF IInv, TypeOK, ConfiguratorTypeOK, Connection!ConnectionTypeOK,
                Connection!SilenceLimit
  <2>5. CountersAgree'
    BY DEF IInv, CountersAgree
  <2>6. SessionIsCurrent' /\ RestartIsSilent'
    BY <2>2, <2>3 DEF IInv, SessionIsCurrent, RestartIsSilent
  <2>7. TimerCoversExchange' /\ AckTellsVerdict' /\ OneOpenExchange'
    BY <2>2 DEF IInv, TimerCoversExchange, AckTellsVerdict, OneOpenExchange, InSession
  <2>8. CountedMeansGranted' /\ RefusalNamesTheStream'
    BY DEF IInv, CountedMeansGranted, RefusalNamesTheStream, InSession
  <2> QED
    BY <2>4, <2>5, <2>6, <2>7, <2>8 DEF IInv
<1> QED
  BY <1>1, <1>2

\* A stray acknowledgement fails one of the tests of on_command_ack().
LEMMA StrayAckIInv ==
  ASSUME IInv, NEW v \in Vehicles, ReceiveStrayAck(v) PROVE IInv'
<1>1. PICK ack \in StrayAcks(v) : Receive(ack)
  BY DEF ReceiveStrayAck
<1>2. ack.command = "REQUEST_MESSAGE" \/ ack.targetComponent = "other"
  BY <1>1 DEF StrayAcks, Ack
<1>3. ~AnswersRequest(ack)
  BY <1>2 DEF AnswersRequest
<1>4. UNCHANGED configuratorVars
  BY <1>1, <1>3 DEF Receive, OnCommandAck
<1> QED
  BY <1>4, StutterIInv DEF ReceiveStrayAck, vars

LEMMA PowerLossIInv ==
  ASSUME IInv, NEW v \in Vehicles, PowerLoss(v) PROVE IInv'
<1> USE DEF PowerLoss, configuratorVars
<1>0. /\ booting \in [Vehicles -> 0 .. BootTime]
      /\ booting' = [booting EXCEPT ![v] = BootTime]
      /\ booting'[v] = BootTime
      /\ \A u \in Vehicles \ {v} : booting'[u] = booting[u] /\ verdict'[u] = verdict[u]
  BY DEF IInv, TypeOK
<1>1. TypeOK'
  <2>1. booting' \in [Vehicles -> 0 .. BootTime]
    BY <1>0
  <2>2. verdict' \in [Vehicles -> [Streams -> {"default", "granted", "refused"}]]
    BY DEF IInv, TypeOK, Default
  <2> QED
    BY <2>1, <2>2 DEF IInv, TypeOK, ConfiguratorTypeOK, Connection!ConnectionTypeOK
<1>2. CountersAgree' /\ SessionIsCurrent'
  BY DEF IInv, CountersAgree, SessionIsCurrent, Connection!Admitted,
         Connection!Connected
<1>3. RestartIsSilent'
  BY <1>0 DEF IInv, RestartIsSilent, Connection!Admitted, Connection!Connected, TypeOK,
              Connection!ConnectionTypeOK
<1>4. TimerCoversExchange' /\ OneOpenExchange'
  BY DEF IInv, TimerCoversExchange, OneOpenExchange, InSession,
         Connection!Admitted, Connection!Connected
<1>5. AckTellsVerdict'
  BY <1>0 DEF IInv, AckTellsVerdict, TypeOK, Message
<1>6. CountedMeansGranted' /\ RefusalNamesTheStream'
  BY <1>0 DEF IInv, CountedMeansGranted, RefusalNamesTheStream, InSession
<1> QED
  BY <1>1, <1>2, <1>3, <1>4, <1>5, <1>6 DEF IInv

\* The autopilot decides on the stream of the open exchange, which is not yet
\* counted.
LEMMA AnswerIInv ==
  ASSUME IInv, NEW m \in inFlight, NEW result \in Results, Answer(m, result)
  PROVE  IInv'
<1> USE DEF Answer, configuratorVars
<1> DEFINE a == [m EXCEPT !.kind = "ack", !.result = result]
           v == m.vehicle
           s == m.stream
<1>1. /\ m \in Message /\ v \in Vehicles /\ s \in Streams
      /\ inFlight = {m}
  BY DEF IInv, TypeOK, OneOpenExchange, Message
<1>2. /\ a.kind = "ack" /\ a.result = result /\ a.vehicle = v
      /\ a.stream = s /\ a.age = m.age
  BY <1>1 DEF Message
<1>3. a \in Message
  BY <1>1 DEF Message
<1>4. inFlight' = {a}
  BY <1>1
<1>5. /\ verdict' \in [Vehicles -> [Streams -> {"default", "granted", "refused"}]]
      /\ result = "accepted" => verdict'[v][s] = "granted"
      /\ result \in Refusals => verdict'[v][s] = "refused"
      /\ \A u \in Vehicles, r \in Streams : u # v \/ r # s => verdict'[u][r] = verdict[u][r]
  <2>0. verdict \in [Vehicles -> [Streams -> {"default", "granted", "refused"}]]
    BY DEF IInv, TypeOK
  <2>1. CASE result = "accepted"
    <3>1. verdict' = [verdict EXCEPT ![v][s] = "granted"]
      BY <2>1
    <3> QED
      BY <1>1, <2>0, <2>1, <3>1
  <2>2. CASE result \in Refusals
    <3>1. verdict' = [verdict EXCEPT ![v][s] = "refused"]
      BY <2>2
    <3> QED
      BY <1>1, <2>0, <2>2, <3>1
  <2>3. CASE result = "in_progress"
    <3>1. verdict' = verdict
      BY <2>3
    <3> QED
      BY <2>0, <2>3, <3>1
  <2> QED
    BY <2>1, <2>2, <2>3 DEF Results
<1>6. TypeOK'
  BY <1>3, <1>4, <1>5 DEF IInv, TypeOK, ConfiguratorTypeOK, Connection!ConnectionTypeOK
<1>7. CountersAgree' /\ SessionIsCurrent' /\ RestartIsSilent'
  BY DEF IInv, CountersAgree, SessionIsCurrent, RestartIsSilent,
         Connection!Admitted, Connection!Connected
<1>8. TimerCoversExchange' /\ OneOpenExchange'
  BY <1>1, <1>2, <1>4 DEF IInv, TimerCoversExchange, OneOpenExchange, InSession,
                          Connection!Admitted, Connection!Connected
<1>9. AckTellsVerdict'
  BY <1>2, <1>4, <1>5 DEF AckTellsVerdict
<1>10. phase = "configuring" /\ s = currentRequest /\ InSession(v)
       /\ completedRequests = currentRequest /\ failureResult = NoResult
       /\ currentRequest \in Streams
  BY <1>1 DEF IInv, OneOpenExchange, CountersAgree
<1>11. CountedMeansGranted' /\ RefusalNamesTheStream'
  <2>1. \A r \in 0 .. completedRequests - 1 : r \in Streams /\ r # s
    BY <1>10 DEF Streams
  <2> QED
    BY <1>5, <1>10, <2>1 DEF IInv, CountedMeansGranted, RefusalNamesTheStream, InSession
<1> QED
  BY <1>6, <1>7, <1>8, <1>9, <1>11 DEF IInv

LEMMA DeliverIInv ==
  ASSUME IInv, NEW m \in inFlight, Deliver(m) PROVE IInv'
<1> USE DEF Deliver
<1> DEFINE v == m.vehicle
           ack == Ack(v, m.result)
           w == [m EXCEPT !.kind = "request", !.result = NoResult, !.age = 0]
<1>1. /\ m \in Message /\ v \in Vehicles /\ inFlight = {m}
      /\ Connection!Admitted(v) /\ vehicleSystemId = v
      /\ phase = "configuring" /\ awaitingAck /\ m.stream = currentRequest
  BY DEF IInv, TypeOK, OneOpenExchange, TimerCoversExchange, Message, InSession
<1>2. OnCommandAck(ack) /\ AnswersRequest(ack) /\ ack.result = m.result
  <2>1. /\ ack.source = v /\ ack.command = "SET_MESSAGE_INTERVAL" /\ ack.targetSystem = v
        /\ ack.targetComponent = "companion" /\ ack.result = m.result
    BY DEF Ack
  <2>2. AnswersRequest(ack)
    BY <1>1, <2>1 DEF AnswersRequest
  <2> QED
    BY <1>1, <2>1, <2>2 DEF Receive
<1>3. /\ SessionIsCurrent' /\ RestartIsSilent' /\ Connection!ConnectionTypeOK'
      /\ \A u : Connection!Admitted(u) <=> Connection!Admitted(u)'
      /\ polled' \in BOOLEAN
      /\ vehicleSystemId' = vehicleSystemId /\ request' = request
  <2>1. vehicleSystemId' = vehicleSystemId /\ request' = request
    BY <1>2 DEF OnCommandAck, Extend, Refuse, Advance, configuratorVars
  <2> QED
    BY <2>1 DEF IInv, TypeOK, SessionIsCurrent, RestartIsSilent, Connection!Admitted,
                Connection!Connected, Connection!ConnectionTypeOK
<1>4. CASE m.result = "in_progress" /\ Extend
  <2>1. inFlight' = {w}
    BY <1>1, <1>4
  <2>2. /\ w.kind = "request" /\ w.vehicle = v /\ w.stream = m.stream /\ w.age = 0
        /\ w \in Message
    <3>1. 0 \in 0 .. MaxRoundTrip
      OBVIOUS
    <3> QED
      BY <1>1, <3>1 DEF Message
  <2>3. TypeOK'
    <3>1. awaitingAck' \in BOOLEAN
      BY <1>4 DEF Extend, IInv, TypeOK, ConfiguratorTypeOK
    <3> QED
      BY <1>3, <1>4, <2>1, <2>2, <3>1 DEF IInv, TypeOK, ConfiguratorTypeOK, Extend
  <2>4. CountersAgree'
    BY <1>4 DEF IInv, CountersAgree, Extend
  <2>5. TimerCoversExchange' /\ AckTellsVerdict'
    <3>1. ackTimer' + w.age >= AckTimeout
      BY <1>4, <2>2 DEF Extend
    <3> QED
      BY <1>1, <1>3, <2>1, <2>2, <3>1 DEF TimerCoversExchange, AckTellsVerdict
  <2>6. OneOpenExchange'
    BY <1>1, <1>4, <2>1, <2>2 DEF IInv, OneOpenExchange, InSession, Extend
  <2>7. CountedMeansGranted' /\ RefusalNamesTheStream'
    BY <1>4 DEF IInv, CountedMeansGranted, RefusalNamesTheStream, InSession, Extend
  <2> QED
    BY <1>3, <2>3, <2>4, <2>5, <2>6, <2>7 DEF IInv
<1>5. CASE m.result \in Refusals /\ Refuse(m.result)
  <2>1. inFlight' = {}
    BY <1>1, <1>5
  <2>2. TypeOK'
    <3>1. awaitingAck' \in BOOLEAN
      BY <1>5 DEF Refuse
    <3> QED
      BY <1>3, <1>5, <2>1, <3>1 DEF IInv, TypeOK, ConfiguratorTypeOK, Refuse, Phases
  <2>3. CountersAgree'
    BY <1>1, <1>5 DEF IInv, CountersAgree, Refuse
  <2>4. TimerCoversExchange' /\ AckTellsVerdict' /\ OneOpenExchange'
    BY <2>1 DEF TimerCoversExchange, AckTellsVerdict, OneOpenExchange
  <2>5. m.kind = "ack" /\ (booting[v] = 0 => verdict[v][currentRequest] = "refused")
    BY <1>1, <1>5 DEF IInv, AckTellsVerdict
  <2>6. CountedMeansGranted' /\ RefusalNamesTheStream'
    BY <1>1, <1>5, <2>5 DEF IInv, CountedMeansGranted, RefusalNamesTheStream, InSession,
                            Refuse
  <2> QED
    BY <1>3, <2>2, <2>3, <2>4, <2>6 DEF IInv
<1>6. CASE m.result = "accepted" /\ Advance
  <2>1. inFlight' = {}
    BY <1>1, <1>6
  <2>2. TypeOK'
    <3>1. awaitingAck' \in BOOLEAN
      BY <1>6 DEF Advance
    <3>2. currentRequest + 1 \in 0 .. NumStreams
      BY <1>1 DEF IInv, CountersAgree, TypeOK, ConfiguratorTypeOK
    <3> QED
      BY <1>3, <1>6, <2>1, <3>1, <3>2
      DEF IInv, CountersAgree, TypeOK, ConfiguratorTypeOK, Advance, Phases
  <2>3. CountersAgree'
    BY <1>1, <1>6 DEF IInv, CountersAgree, TypeOK, ConfiguratorTypeOK, Advance
  <2>4. TimerCoversExchange' /\ AckTellsVerdict' /\ OneOpenExchange'
    BY <2>1 DEF TimerCoversExchange, AckTellsVerdict, OneOpenExchange
  <2>5. booting[v] = 0 => verdict[v][currentRequest] = "granted"
    BY <1>1, <1>6 DEF IInv, AckTellsVerdict
  <2>6. completedRequests' = completedRequests + 1 /\ completedRequests = currentRequest
        /\ currentRequest \in Nat
    BY <1>6 DEF IInv, CountersAgree, TypeOK, ConfiguratorTypeOK, Advance
  <2>7. CountedMeansGranted' /\ RefusalNamesTheStream'
    BY <1>1, <1>6, <2>5, <2>6 DEF IInv, CountedMeansGranted, RefusalNamesTheStream,
                                  InSession, Advance
  <2> QED
    BY <1>3, <2>2, <2>3, <2>4, <2>7 DEF IInv
<1> QED
  BY <1>2, <1>4, <1>5, <1>6 DEF OnCommandAck

SaysTheSame(m, n) ==
    /\ n.kind = m.kind /\ n.vehicle = m.vehicle
    /\ n.stream = m.stream /\ n.result = m.result

\* What is still on its way after a tick belongs to a vehicle that is still
\* connected, and is one tick older, like the timer.
LEMMA TickExchange ==
  ASSUME PromptChannel, IInv, Tick, NEW n \in inFlight'
  PROVE  /\ inFlight' = {n} /\ n \in Message
         /\ \E m \in inFlight : SaysTheSame(m, n)
         /\ Connection!Admitted(n.vehicle)'
         /\ ackTimer' + n.age >= AckTimeout
<1> USE DEF Tick, PromptChannel
<1>1. /\ ~OutageBegins
      /\ inFlight' = {Older(k) : k \in {j \in inFlight : j.age < MaxRoundTrip}}
  OBVIOUS
<1>2. PICK m \in inFlight : m.age < MaxRoundTrip /\ n = Older(m)
  BY <1>1
<1>3. m \in Message /\ m.age \in 0 .. MaxRoundTrip /\ inFlight = {m}
  BY DEF IInv, TypeOK, Message, OneOpenExchange
<1>4. /\ n.kind = m.kind /\ n.vehicle = m.vehicle /\ n.stream = m.stream
      /\ n.result = m.result /\ n.age = m.age + 1
  BY <1>2, <1>3 DEF Older, Message
<1>5. n \in Message
  <2>1. m.age + 1 \in 0 .. MaxRoundTrip
    BY <1>2, <1>3
  <2> QED
    BY <1>2, <1>3, <2>1 DEF Older, Message
<1>6. inFlight' = {n}
  BY <1>1, <1>2, <1>3
<1>7. Connection!Admitted(n.vehicle)'
  <2>1. Connection!Admitted(m.vehicle) /\ silence \in 0 .. HeartbeatTimeout + 1
    BY DEF IInv, TimerCoversExchange, TypeOK, Connection!ConnectionTypeOK,
           Connection!SilenceLimit
  <2>2. silence < HeartbeatTimeout
    BY <1>1, <2>1 DEF OutageBegins, Connection!Admitted, Connection!Connected
  <2> QED
    BY <1>4, <2>1, <2>2 DEF Connection!ConnectionTick, Connection!Admitted,
                            Connection!Connected, Connection!SilenceLimit
<1>8. ackTimer' + n.age >= AckTimeout
  BY <1>3, <1>4 DEF ConfiguratorTick, IInv, TypeOK, ConfiguratorTypeOK,
                    TimerCoversExchange
<1> QED
  BY <1>2, <1>4, <1>5, <1>6, <1>7, <1>8 DEF SaysTheSame

\* An autopilot whose restart ends with this tick has lost its session before.
LEMMA TickBooted ==
  ASSUME IInv, Tick, NEW v \in Vehicles, InSession(v), booting'[v] = 0
  PROVE  booting[v] = 0
<1>1. SUFFICES ASSUME booting[v] = 1 PROVE FALSE
  BY DEF Tick, IInv, TypeOK
<1>2. Connection!Admitted(v)
  BY DEF Tick, IInv, SessionIsCurrent, InSession
<1>3. booting[v] + silence >= BootTime
  BY <1>1, <1>2 DEF IInv, RestartIsSilent
<1>4. silence \in Nat /\ silence <= HeartbeatTimeout
  BY <1>2 DEF Connection!Admitted, Connection!Connected, IInv, TypeOK,
              Connection!ConnectionTypeOK
<1> QED
  BY <1>1, <1>3, <1>4

LEMMA TickIInv == ASSUME PromptChannel, IInv, Tick PROVE IInv'
<1> USE DEF Tick, ConfiguratorTick
<1>1. TypeOK'
  <2>1. awaitingAck' \in BOOLEAN /\ polled' \in BOOLEAN
    BY DEF IInv, TypeOK, ConfiguratorTypeOK
  <2>2. ackTimer' \in 0 .. AckTimeout
    BY DEF IInv, TypeOK, ConfiguratorTypeOK
  <2>3. Connection!ConnectionTypeOK'
    BY DEF IInv, TypeOK, Connection!ConnectionTypeOK, Connection!ConnectionTick,
           Connection!SilenceLimit
  <2>4. inFlight' \subseteq Message
    BY TickExchange
  <2>5. booting' \in [Vehicles -> 0 .. BootTime]
    BY DEF IInv, TypeOK
  <2> QED
    BY <2>1, <2>2, <2>3, <2>4, <2>5 DEF IInv, TypeOK, ConfiguratorTypeOK
<1>2. CountersAgree' /\ SessionIsCurrent'
  BY DEF IInv, CountersAgree, SessionIsCurrent
<1>3. RestartIsSilent'
  <2> SUFFICES ASSUME NEW v \in Vehicles, booting'[v] > 0, Connection!Admitted(v)'
               PROVE  booting'[v] + silence' >= BootTime
    BY DEF RestartIsSilent
  <2>1. silence \in 0 .. HeartbeatTimeout + 1 /\ booting[v] \in 0 .. BootTime
    BY DEF IInv, TypeOK, Connection!ConnectionTypeOK, Connection!SilenceLimit
  <2>2. silence' = silence + 1 /\ Connection!Admitted(v)
    BY <2>1 DEF Connection!ConnectionTick, Connection!SilenceLimit,
                Connection!Admitted, Connection!Connected
  <2>3. booting'[v] = booting[v] - 1
    BY <2>1
  <2>4. booting[v] + silence >= BootTime
    BY <2>1, <2>2, <2>3 DEF IInv, RestartIsSilent
  <2> QED
    BY <2>1, <2>2, <2>3, <2>4
<1>4. TimerCoversExchange'
  BY TickExchange DEF TimerCoversExchange
<1>5. OneOpenExchange'
  BY TickExchange DEF IInv, OneOpenExchange, InSession, SaysTheSame
<1>6. AckTellsVerdict'
  <2> SUFFICES ASSUME NEW n \in inFlight', n.kind = "ack", booting'[n.vehicle] = 0
               PROVE  /\ n.result = "accepted" => verdict'[n.vehicle][n.stream] = "granted"
                      /\ n.result \in Refusals => verdict'[n.vehicle][n.stream] = "refused"
    BY DEF AckTellsVerdict
  <2>1. PICK m \in inFlight : SaysTheSame(m, n)
    BY TickExchange
  <2>2. m.vehicle \in Vehicles /\ InSession(m.vehicle)
    BY DEF IInv, OneOpenExchange, TypeOK, Message
  <2>3. booting[m.vehicle] = 0
    BY <2>1, <2>2, TickBooted DEF SaysTheSame
  <2>4. /\ m.kind = "ack"
        /\ m.result = "accepted" => verdict[m.vehicle][m.stream] = "granted"
        /\ m.result \in Refusals => verdict[m.vehicle][m.stream] = "refused"
    BY <2>1, <2>3 DEF IInv, AckTellsVerdict, SaysTheSame
  <2> QED
    BY <2>1, <2>4 DEF SaysTheSame
<1>7. CountedMeansGranted' /\ RefusalNamesTheStream'
  BY TickBooted DEF IInv, CountedMeansGranted, RefusalNamesTheStream, InSession
<1> QED
  BY <1>1, <1>2, <1>3, <1>4, <1>5, <1>6, <1>7 DEF IInv

LEMMA NextIInv == ASSUME PromptChannel, IInv, [Next]_vars PROVE IInv'
  BY PollIInv, DeliverIInv, StrayAckIInv, HeartbeatIInv, AnswerIInv, PowerLossIInv,
     TickIInv, StutterIInv DEF Next

\* Over a prompt channel IInv, which ties the configurator's timer and counters
\* to what is on its way, holds in every state.
THEOREM Invariance == ASSUME PromptChannel PROVE Spec => []IInv
  BY InitIInv, NextIInv, PTL DEF Spec

\* Over a channel that answers within the timeout, whatever it loses, a stream
\* the configurator counts has been granted by the vehicle of the session:
\* an "active" setup is one in which the vehicle streams everything.
THEOREM CountedStreamsAreGranted ==
  ASSUME PromptChannel PROVE Spec => []CountedMeansGranted
<1>1. IInv => CountedMeansGranted
  BY DEF IInv
<1> QED
  BY <1>1, Invariance, PTL

\* Over such a channel a setup that failed with a MAV_RESULT failed on the
\* stream the autopilot refused.
THEOREM RefusedStreamIsNamed ==
  ASSUME PromptChannel PROVE Spec => []RefusalNamesTheStream
<1>1. IInv => RefusalNamesTheStream
  BY DEF IInv
<1> QED
  BY <1>1, Invariance, PTL

\* Over such a channel no message of an earlier attempt or session can arrive.
THEOREM ExchangesDoNotOverlap ==
  ASSUME PromptChannel PROVE Spec => []OneOpenExchange
<1>1. IInv => OneOpenExchange
  BY DEF IInv
<1> QED
  BY <1>1, Invariance, PTL

-------------------------------------------------------------------------------
(***************************************************************************)
(* Over any channel, however slow: the outcome of a session is final.      *)
(***************************************************************************)
SessionHasPhase == phase = "waiting_for_vehicle" <=> vehicleSystemId = NoVehicle

LEMMA ConfiguratorSteps ==
  ASSUME [Next]_vars
  PROVE  \/ \E v : Update(v)
         \/ \E ack : OnCommandAck(ack)
         \/ UNCHANGED <<phase, vehicleSystemId, completedRequests, failureResult>>
<1>1. CASE Poll
  BY <1>1 DEF Poll
<1>2. ASSUME NEW m \in inFlight, Deliver(m)
      PROVE  (\E ack : OnCommandAck(ack)) \/ UNCHANGED configuratorVars
  BY <1>2 DEF Deliver, Receive
<1>3. ASSUME NEW v \in Vehicles, ReceiveStrayAck(v)
      PROVE  (\E ack : OnCommandAck(ack)) \/ UNCHANGED configuratorVars
  BY <1>3 DEF ReceiveStrayAck, Receive
<1> QED
  BY <1>1, <1>2, <1>3 DEF Next, vars, configuratorVars, ReceiveHeartbeat, Answer,
                          PowerLoss, Tick, ConfiguratorTick

LEMMA PhaseInvariance == Spec => []SessionHasPhase
<1>1. Init => SessionHasPhase
  BY DEF Init, ConfiguratorInit, SessionHasPhase
<1>2. ASSUME SessionHasPhase, [Next]_vars PROVE SessionHasPhase'
  <2>1. ASSUME NEW v, Update(v) PROVE SessionHasPhase'
    BY <1>2, <2>1 DEF SessionHasPhase, Update, Reset, BeginSession, NothingToSend,
                      GiveUp, SendRequest
  <2>2. ASSUME NEW ack, OnCommandAck(ack) PROVE SessionHasPhase'
    BY <1>2, <2>2 DEF SessionHasPhase, OnCommandAck, AnswersRequest, Extend, Refuse,
                      Advance, configuratorVars
  <2> QED
    BY <1>2, <2>1, <2>2, ConfiguratorSteps DEF SessionHasPhase
<1> QED
  BY <1>1, <1>2, PTL DEF Spec

\* No acknowledgement, however late, and no timeout turns a failed setup into
\* an active one or back: only losing the vehicle starts a new setup.
THEOREM OutcomesAreFinal == Spec => OutcomeIsFinal
<1>1. ASSUME SessionHasPhase, [Next]_vars,
             phase \in {"active", "failed"}, vehicleSystemId' = vehicleSystemId
      PROVE  UNCHANGED <<phase, completedRequests, failureResult>>
  <2>1. ASSUME NEW v, Update(v)
        PROVE  UNCHANGED <<phase, completedRequests, failureResult>>
    BY <1>1, <2>1 DEF SessionHasPhase, Update, Reset, BeginSession, NothingToSend,
                      GiveUp, SendRequest
  <2>2. ASSUME NEW ack, OnCommandAck(ack)
        PROVE  UNCHANGED <<phase, completedRequests, failureResult>>
    BY <1>1, <2>2 DEF OnCommandAck, AnswersRequest, configuratorVars
  <2> QED
    BY <1>1, <2>1, <2>2, ConfiguratorSteps
<1> QED
  BY <1>1, PhaseInvariance, PTL DEF Spec, OutcomeIsFinal

(***************************************************************************)
(* Over any channel: types, and the bound on what a session asks for.      *)
(***************************************************************************)
\* While a setup goes on there is a stream left to ask for, and an attempt was
\* made on it only if an answer is awaited.
SetupFits ==
    /\ ConfiguratorTypeOK
    /\ phase = "configuring" =>
         /\ currentRequest < NumStreams /\ completedRequests = currentRequest
         /\ ~awaitingAck => attempt = 0

ChannelTyped ==
    /\ polled \in BOOLEAN
    /\ inFlight \subseteq Message
    /\ booting \in [Vehicles -> 0 .. BootTime]
    /\ verdict \in [Vehicles -> [Streams -> {"default", "granted", "refused"}]]

TypeInv == SetupFits /\ Connection!ConnectionTypeOK /\ ChannelTyped

LEMMA UpdateFits ==
  ASSUME SetupFits, NEW v \in Vehicles \cup {NoVehicle}, Update(v)
  PROVE  SetupFits' /\ vehicleSystemId' = v /\ (v = NoVehicle => request' = NoRequest)
<1>0. vehicleSystemId' = v /\ (v = NoVehicle => request' = NoRequest)
  BY DEF Update, Reset, BeginSession, NothingToSend, GiveUp, SendRequest
<1>1. CASE Reset
  <2>1. 0 \in 0 .. NumStreams /\ 0 \in 0 .. MaxAttempts /\ 0 \in 0 .. AckTimeout
    OBVIOUS
  <2>2. SetupFits'
    BY <1>1, <2>1, Zenon DEF SetupFits, Reset, ConfiguratorTypeOK, Phases
  <2> QED
    BY <1>0, <2>2
<1>2. CASE v \in Vehicles /\ BeginSession(v)
  BY <1>0, <1>2 DEF BeginSession, Emit, SetupFits, ConfiguratorTypeOK, Phases, Requests,
                    Streams
<1>3. CASE NothingToSend
  BY <1>0, <1>3 DEF NothingToSend, SetupFits, ConfiguratorTypeOK
<1>4. CASE GiveUp
  BY <1>0, <1>4 DEF GiveUp, SetupFits, ConfiguratorTypeOK, Phases
<1>5. CASE SendRequest
  <2>1. currentRequest \in 0 .. NumStreams - 1 /\ attempt \in 0 .. MaxAttempts - 1
    BY <1>5 DEF SendRequest, Waiting, Exhausted, SetupFits, ConfiguratorTypeOK
  <2> QED
    BY <1>0, <1>5, <2>1 DEF SendRequest, Emit, SetupFits, ConfiguratorTypeOK, Requests,
                            Streams
<1> QED
  BY <1>1, <1>2, <1>3, <1>4, <1>5 DEF Update

LEMMA AckFits ==
  ASSUME SetupFits, NEW ack, OnCommandAck(ack)
  PROVE  SetupFits'
<1>1. CASE UNCHANGED configuratorVars
  BY <1>1 DEF configuratorVars, SetupFits, ConfiguratorTypeOK
<1>2. CASE Extend
  BY <1>2 DEF OnCommandAck, Extend, SetupFits, ConfiguratorTypeOK
<1>3. CASE ack.result \in Refusals /\ Refuse(ack.result)
  BY <1>3 DEF OnCommandAck, Refuse, SetupFits, ConfiguratorTypeOK, Phases
<1>4. CASE phase = "configuring" /\ Advance
  <2>1. request' = request
    BY DEF OnCommandAck
  <2>2. currentRequest + 1 \in 0 .. NumStreams /\ completedRequests = currentRequest
    BY <1>4 DEF SetupFits, ConfiguratorTypeOK
  <2>3. /\ phase' \in {"active", "configuring"}
        /\ phase' = "configuring" => currentRequest + 1 # NumStreams
    BY <1>4 DEF Advance
  <2>4. awaitingAck' \in BOOLEAN
    BY <1>4 DEF Advance
  <2>5. ConfiguratorTypeOK'
    BY <1>4, <2>1, <2>2, <2>3, <2>4 DEF Advance, SetupFits, ConfiguratorTypeOK, Phases
  <2> QED
    BY <1>4, <2>2, <2>3, <2>5 DEF Advance, SetupFits, ConfiguratorTypeOK
<1> QED
  BY <1>1, <1>2, <1>3, <1>4 DEF OnCommandAck, AnswersRequest

LEMMA ReportedVehicleTyped ==
  Connection!ConnectionTypeOK => Connection!ReportedVehicle \in Vehicles \cup {NoVehicle}
  BY DEF Connection!ConnectionTypeOK, Connection!ReportedVehicle

\* Every step that the configurator takes is one call of its two operations.
LEMMA NextKeepsSetup ==
  ASSUME TypeInv, [Next]_vars
  PROVE  SetupFits'
<1>1. CASE Poll
  BY <1>1, UpdateFits, ReportedVehicleTyped DEF Poll, TypeInv
<1>2. ASSUME NEW ack, Receive(ack)
      PROVE  SetupFits'
  <2>1. CASE UNCHANGED configuratorVars
    BY <2>1 DEF configuratorVars, TypeInv, SetupFits, ConfiguratorTypeOK
  <2>2. OnCommandAck(ack) \/ UNCHANGED configuratorVars
    BY <1>2, Zenon DEF Receive
  <2>3. CASE OnCommandAck(ack)
    BY <2>3, AckFits, Zenon DEF TypeInv
  <2> QED
    BY <2>1, <2>2, <2>3
<1>3. CASE Tick
  BY <1>3 DEF Tick, ConfiguratorTick, TypeInv, SetupFits, ConfiguratorTypeOK
<1>4. CASE UNCHANGED configuratorVars
  BY <1>4 DEF configuratorVars, TypeInv, SetupFits, ConfiguratorTypeOK
<1> QED
  BY <1>1, <1>2, <1>3, <1>4 DEF Next, vars, ReceiveHeartbeat, Deliver, ReceiveStrayAck,
                                Answer, PowerLoss

LEMMA NextKeepsConnection ==
  ASSUME TypeInv, [Next]_vars
  PROVE  Connection!ConnectionTypeOK'
<1> USE DEF TypeInv, Connection!ConnectionTypeOK, Connection!SilenceLimit
<1>1. ASSUME NEW v \in Vehicles, ReceiveHeartbeat(v)
      PROVE  Connection!ConnectionTypeOK'
  BY <1>1 DEF ReceiveHeartbeat, Connection!OnHeartbeat, Connection!connectionVars
<1>2. CASE Tick
  BY <1>2 DEF Tick, Connection!ConnectionTick
<1>3. CASE UNCHANGED <<systemId, silence>>
  BY <1>3
<1> QED
  BY <1>1, <1>2, <1>3 DEF Next, vars, Poll, Deliver, ReceiveStrayAck, Answer, PowerLoss

\* What becomes of a message when it is answered, delivered or grows older is a
\* message.
LEMMA MessageBecomesMessage ==
  ASSUME NEW m \in Message
  PROVE  /\ \A result \in Results : [m EXCEPT !.kind = "ack", !.result = result] \in Message
         /\ [m EXCEPT !.kind = "request", !.result = NoResult, !.age = 0] \in Message
         /\ m.age < MaxRoundTrip => Older(m) \in Message
<1>1. \A result \in Results : [m EXCEPT !.kind = "ack", !.result = result] \in Message
  BY DEF Message
<1>2. [m EXCEPT !.kind = "request", !.result = NoResult, !.age = 0] \in Message
  <2>1. 0 \in 0 .. MaxRoundTrip
    BY LinkAssumption
  <2>2. "request" \in {"request", "ack"} /\ NoResult \in Results \cup {NoResult}
    OBVIOUS
  <2> QED
    BY <2>1, <2>2 DEF Message
<1>3. ASSUME m.age < MaxRoundTrip
      PROVE  Older(m) \in Message
  <2>1. m.age + 1 \in 0 .. MaxRoundTrip
    BY <1>3 DEF Message
  <2> QED
    BY <2>1 DEF Message, Older
<1> QED
  BY <1>1, <1>2, <1>3

LEMMA AnswerTyped ==
  ASSUME ChannelTyped, NEW m \in inFlight, NEW result \in Results, Answer(m, result)
  PROVE  ChannelTyped'
<1> DEFINE a == [m EXCEPT !.kind = "ack", !.result = result]
<1>1. m \in Message /\ m.vehicle \in Vehicles /\ m.stream \in Streams
  BY DEF ChannelTyped, Message
<1>2. inFlight' = (inFlight \ {m}) \cup {a}
  BY DEF Answer
<1>3. a \in Message
  BY <1>1, MessageBecomesMessage
<1>4. verdict' \in {verdict, [verdict EXCEPT ![m.vehicle][m.stream] = "granted"],
                     [verdict EXCEPT ![m.vehicle][m.stream] = "refused"]}
  BY DEF Answer
<1>5. verdict' \in [Vehicles -> [Streams -> {"default", "granted", "refused"}]]
  BY <1>1, <1>4 DEF ChannelTyped
<1> HIDE DEF a
<1> QED
  BY <1>2, <1>3, <1>5 DEF Answer, ChannelTyped

LEMMA DeliverTyped ==
  ASSUME ChannelTyped, NEW m \in inFlight, Deliver(m)
  PROVE  ChannelTyped'
<1>1. [m EXCEPT !.kind = "request", !.result = NoResult, !.age = 0] \in Message
  BY MessageBecomesMessage DEF ChannelTyped
<1>2. inFlight' \subseteq Message
  BY <1>1 DEF Deliver, ChannelTyped
<1> QED
  BY <1>2 DEF Deliver, ChannelTyped

LEMMA PollTyped ==
  ASSUME TypeInv, Poll
  PROVE  ChannelTyped'
<1>1. /\ SetupFits' /\ vehicleSystemId' \in Vehicles \cup {NoVehicle}
      /\ vehicleSystemId' = NoVehicle => request' = NoRequest
  BY UpdateFits, ReportedVehicleTyped DEF Poll, TypeInv
<1>2. ASSUME request' # NoRequest
      PROVE  RequestMessage(vehicleSystemId', request'.stream) \in Message
  <2>1. vehicleSystemId' \in Vehicles /\ request' \in Requests
    BY <1>1, <1>2 DEF SetupFits, ConfiguratorTypeOK
  <2> QED
    BY <2>1 DEF Requests, RequestMessage, Message
<1> QED
  BY <1>2 DEF Poll, TypeInv, ChannelTyped

LEMMA NextKeepsChannel ==
  ASSUME TypeInv, [Next]_vars
  PROVE  ChannelTyped'
<1>0. ChannelTyped
  BY DEF TypeInv
<1>1. CASE Poll
  BY <1>1, PollTyped
<1>2. ASSUME NEW m \in inFlight, Deliver(m)
      PROVE  ChannelTyped'
  BY <1>0, <1>2, DeliverTyped
<1>3. ASSUME NEW m \in inFlight, NEW result \in Results, Answer(m, result)
      PROVE  ChannelTyped'
  BY <1>0, <1>3, AnswerTyped
<1>4. ASSUME NEW v \in Vehicles, PowerLoss(v)
      PROVE  ChannelTyped'
  BY <1>0, <1>4 DEF PowerLoss, ChannelTyped, Default
<1>5. CASE Tick
  <2>1. inFlight' \subseteq Message
    BY <1>0, <1>5, MessageBecomesMessage DEF Tick, ChannelTyped
  <2>2. booting' \in [Vehicles -> 0 .. BootTime]
    BY <1>0, <1>5 DEF Tick, ChannelTyped
  <2> QED
    BY <1>0, <1>5, <2>1, <2>2 DEF Tick, ChannelTyped
<1>6. CASE UNCHANGED <<polled, channelVars>>
  BY <1>0, <1>6 DEF channelVars, ChannelTyped
<1> QED
  BY <1>1, <1>2, <1>3, <1>4, <1>5, <1>6 DEF Next, vars, ReceiveStrayAck, ReceiveHeartbeat

LEMMA TypeInvAlways == Spec => []TypeInv
<1>1. Init => TypeInv
  <2>1. Init => TypeOK
    BY InitIInv DEF IInv
  <2>2. Init => phase # "configuring"
    BY DEF Init, ConfiguratorInit
  <2> QED
    BY <2>1, <2>2 DEF TypeOK, TypeInv, SetupFits, ChannelTyped
<1>2. TypeInv /\ [Next]_vars => TypeInv'
  BY NextKeepsSetup, NextKeepsConnection, NextKeepsChannel DEF TypeInv
<1> QED
  BY <1>1, <1>2, PTL DEF Spec

\* Over any channel, however slow, the configurator's counters stay within their
\* bounds: it never counts or asks for more streams than there are, nor more
\* often than kMaximumAttempts.
THEOREM TypeCorrect == Spec => []TypeOK
<1>1. TypeInv => TypeOK
  BY DEF TypeInv, SetupFits, ChannelTyped, TypeOK
<1> QED
  BY <1>1, TypeInvAlways, PTL

\* Within a session the setup goes from stream to stream and from attempt to
\* attempt and never back, and a request that is sent is a new attempt.  With
\* the bounds of TypeOK, a session sends finitely many requests.
SetupOnlyGoesForward ==
    [][vehicleSystemId # NoVehicle /\ vehicleSystemId' = vehicleSystemId =>
         /\ \/ currentRequest' > currentRequest
            \/ currentRequest' = currentRequest /\ attempt' >= attempt
         /\ request' \notin {request, NoRequest} =>
              currentRequest' = currentRequest /\ attempt' > attempt]_vars

LEMMA CallsGoForward ==
  ASSUME SetupFits, vehicleSystemId # NoVehicle, vehicleSystemId' = vehicleSystemId,
         (\E v : Update(v)) \/ (\E ack : OnCommandAck(ack))
           \/ UNCHANGED <<currentRequest, attempt, request>>
  PROVE  /\ \/ currentRequest' > currentRequest
            \/ currentRequest' = currentRequest /\ attempt' >= attempt
         /\ request' \notin {request, NoRequest} =>
              currentRequest' = currentRequest /\ attempt' > attempt
<1>0. currentRequest \in Nat /\ attempt \in Nat
  BY DEF SetupFits, ConfiguratorTypeOK
<1>1. ASSUME NEW v, Update(v)
      PROVE  NothingToSend \/ GiveUp \/ SendRequest
  BY <1>1 DEF Update, Reset, BeginSession
<1>2. CASE NothingToSend \/ GiveUp
  BY <1>0, <1>2 DEF NothingToSend, GiveUp
<1>3. CASE SendRequest
  BY <1>0, <1>3 DEF SendRequest, Emit
<1>4. ASSUME NEW ack, OnCommandAck(ack)
      PROVE  /\ request' = request
             /\ \/ UNCHANGED <<currentRequest, attempt>>
                \/ currentRequest' = currentRequest + 1
  BY <1>4 DEF OnCommandAck, configuratorVars, Extend, Refuse, Advance
<1> QED
  BY <1>0, <1>1, <1>2, <1>3, <1>4

\* However late, lost or repeated the answers: the setup of a session never asks
\* for a stream again that it has left behind, and so does not send for ever.
THEOREM SessionsGoForward == Spec => SetupOnlyGoesForward
<1>1. ASSUME TypeInv, [Next]_vars
      PROVE  (\E v : Update(v)) \/ (\E ack : OnCommandAck(ack))
               \/ UNCHANGED <<currentRequest, attempt, request>>
  <2>1. ASSUME NEW ack, Receive(ack)
        PROVE  OnCommandAck(ack) \/ UNCHANGED configuratorVars
    BY <2>1 DEF Receive
  <2> QED
    BY <1>1, <2>1 DEF Next, vars, configuratorVars, Poll, Deliver, ReceiveStrayAck,
                      ReceiveHeartbeat, Answer, PowerLoss, Tick, ConfiguratorTick
<1>2. TypeInv /\ [Next]_vars =>
        [vehicleSystemId # NoVehicle /\ vehicleSystemId' = vehicleSystemId =>
           /\ \/ currentRequest' > currentRequest
              \/ currentRequest' = currentRequest /\ attempt' >= attempt
           /\ request' \notin {request, NoRequest} =>
                currentRequest' = currentRequest /\ attempt' > attempt]_vars
  BY <1>1, CallsGoForward DEF TypeInv
<1> QED
  BY <1>2, TypeInvAlways, PTL DEF Spec, SetupOnlyGoesForward
==============================================================================
