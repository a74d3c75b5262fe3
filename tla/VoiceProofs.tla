------------------------------ MODULE VoiceProofs ------------------------------
(***************************************************************************)
(* One live turn per device, nothing left behind by a finished turn, the   *)
(* silence of superseded turns, and answers spoken in order, for any       *)
(* number of sockets, turns, agents and connections, and without the       *)
(* bounds TLC needs.                                                       *)
(***************************************************************************)
EXTENDS VoiceTurns, SequenceTheorems, TLAPS

EntryType ==
    [ws : Sockets \cup {NoSocket}, state : {"idle", "listening", "processing"},
     owner : Turns \cup {NoTurn}]
SockType ==
    [phase : {"fresh", "bound", "closing", "closed"},
     state : {"IDLE", "LISTENING", "PROCESSING"}, gen : 0 .. MaxGen]
ConnType == [phase : {"fresh", "joining", "ready", "closing", "closed"}, gen : 0 .. MaxGen]
AnswerType == [agent : Agents \cup {NoAgent}, sent : 0 .. MaxDeltas]

\* TypeOK by the sets just named; the replies inside TurnType stay closed.
Typed ==
    /\ deviceGen \in 1 .. MaxGen /\ button \in BOOLEAN
    /\ entry \in EntryType
    /\ sock \in [Sockets -> SockType]
    /\ turn \in [Turns -> TurnType]
    /\ agentGen \in [Agents -> 1 .. MaxGen]
    /\ active \in Agents \cup {Direct, NoAgent}
    /\ conn \in [Conns -> ConnType]
    /\ slot \in [Agents -> Conns \cup {NoConn}]
    /\ listener \in Turns \cup {NoTurn}
    /\ answer \in [Turns -> AnswerType]
    /\ retained \subseteq Sockets \cup Conns \cup Turns
    /\ events \in 0 .. MaxEvents

-----------------------------------------------------------------------------
\* What a bounded event does to the counter.
LEMMA EventTyped == ASSUME events \in 0 .. MaxEvents, Event \/ UNCHANGED events PROVE events' \in 0 .. MaxEvents
  BY VoiceConstants DEF Event

LEMMA EventIfTyped == ASSUME NEW f, EventIf(f) PROVE Event \/ UNCHANGED events
  BY DEF EventIf

\* The worker of the segment queue takes a segment of the queue or nothing.
LEMMA FeedTyped == ASSUME NEW r \in ReplyType, NEW b PROVE Feed(r, b) \in ReplyType
<1>1. CASE r.segment # <<>> \/ r.items = <<>> \/ b
  BY <1>1 DEF Feed
<1>2. CASE ~(r.segment # <<>> \/ r.items = <<>> \/ b)
  <2>1. Head(r.items) \in Seq(Delta) /\ Tail(r.items) \in Seq(Seq(Delta))
    BY <1>2 DEF ReplyType
  <2>2. [r EXCEPT !.segment = Head(r.items), !.items = Tail(r.items)] \in ReplyType
    BY <2>1 DEF ReplyType
  <2> QED BY <1>2, <2>2 DEF Feed
<1> QED BY <1>1, <1>2

\* A flush moves the buffer of the segmenter into the queue.
LEMMA FlushedTyped == ASSUME NEW r \in ReplyType, NEW b PROVE Flushed(r, b) \in ReplyType
<1>1. r.buffer \in Seq(Delta) /\ r.items \in Seq(Seq(Delta))
  BY DEF ReplyType
<1>2. Append(r.items, r.buffer) \in Seq(Seq(Delta)) /\ <<>> \in Seq(Delta)
  BY <1>1
<1>3. [r EXCEPT !.items = Append(r.items, r.buffer), !.buffer = <<>>] \in ReplyType
  BY <1>2 DEF ReplyType
<1> QED BY <1>3, FeedTyped DEF Flushed

LEMMA NewReplyTyped == NewReply \in ReplyType
  BY DEF NewReply, ReplyType

LEMMA NewTurnTyped ==
    ASSUME NEW k \in {"voice", "prompt"}, NEW s \in Sockets \cup {NoSocket}, NEW g \in Stages
    PROVE  NewTurn(k, s, g) \in TurnType
  BY NewReplyTyped, VoiceConstants DEF NewTurn, TurnType

\* An abort changes the flag of the turn and nothing else.
LEMMA AbortTyped ==
    ASSUME NEW x \in TurnType
    PROVE  LET y == [x EXCEPT !.aborted = TRUE]
           IN  y \in TurnType /\ y.agent = x.agent /\ y.stage = x.stage /\ y.aborted
  BY DEF TurnType

LEMMA OwnerAbortedTyped ==
    ASSUME turn \in [Turns -> TurnType], entry \in EntryType
    PROVE  OwnerAborted \in [Turns -> TurnType]
<1>1. CASE entry.owner = NoTurn
  BY <1>1 DEF OwnerAborted
<1>2. CASE entry.owner # NoTurn
  <2>1. entry.owner \in Turns
    BY <1>2 DEF EntryType
  <2>2. turn[entry.owner] \in TurnType
    BY <2>1
  <2>3. [turn[entry.owner] EXCEPT !.aborted = TRUE] \in TurnType
    BY <2>2, AbortTyped
  <2> QED BY <1>2, <2>1, <2>3 DEF OwnerAborted
<1> QED BY <1>1, <1>2

\* The callbacks of a listener change the stage and the reply of a waiting turn and no more.
Called(x, y) ==
    /\ y.kind = x.kind /\ y.ws = x.ws /\ y.aborted = x.aborted /\ y.told = x.told
    /\ y.agent = x.agent /\ y.gen = x.gen
    /\ y.stage = x.stage \/ (x.stage = "waiting" /\ y.stage \in {"draining", "failing"})
    /\ y.reply.spoken = x.reply.spoken
    /\ x.stage # "waiting" => y = x

-----------------------------------------------------------------------------
LEMMA InitTyped == ASSUME Init PROVE Typed
<1>1. \A t \in Turns : NewTurn("voice", NoSocket, "unused") \in TurnType
  BY NewTurnTyped DEF Stages
<1>2. turn \in [Turns -> TurnType]
  BY <1>1 DEF Init
<1>3. entry \in EntryType /\ sock \in [Sockets -> SockType] /\ conn \in [Conns -> ConnType]
  BY VoiceConstants DEF Init, NoEntry, EntryType, SockType, ConnType
<1>4. answer \in [Turns -> AnswerType]
  BY VoiceConstants DEF Init, NoAnswer, AnswerType
<1>5. 1 \in 1 .. MaxGen /\ 0 \in 0 .. MaxEvents
  BY VoiceConstants
<1>6. agentGen \in [Agents -> 1 .. MaxGen] /\ slot \in [Agents -> Conns \cup {NoConn}]
  BY <1>5 DEF Init
<1>7. deviceGen \in 1 .. MaxGen /\ button \in BOOLEAN /\ events \in 0 .. MaxEvents
  BY <1>5 DEF Init
<1>8. active \in Agents \cup {Direct, NoAgent} /\ listener \in Turns \cup {NoTurn} /\ retained = {}
  BY VoiceConstants DEF Init
<1> QED BY <1>2, <1>3, <1>4, <1>6, <1>7, <1>8 DEF Typed

\* A socket is bound by its first message, or its capture state changes.
LEMMA BindTyped ==
    ASSUME Typed, NEW s \in Sockets, NEW state \in {"IDLE", "LISTENING", "PROCESSING"},
           Bind(s, state) \/ Continue(s, state)
    PROVE  sock' \in [Sockets -> SockType] /\ retained' \subseteq Sockets \cup Conns \cup Turns
<1>1. CASE Bind(s, state)
  <2>1. [phase |-> "bound", state |-> state, gen |-> deviceGen] \in SockType
    BY VoiceConstants DEF Typed, SockType
  <2> QED BY <1>1, <2>1 DEF Bind, Typed
<1>2. CASE Continue(s, state)
  BY <1>2 DEF Continue, Typed, SockType
<1> QED BY <1>1, <1>2

LEMMA SocketTyped == ASSUME Typed, SocketNext PROVE Typed'
<1> USE VoiceConstants
<1>0. /\ entry \in EntryType /\ turn \in [Turns -> TurnType] /\ sock \in [Sockets -> SockType]
      /\ OwnerAborted \in [Turns -> TurnType] /\ events \in 0 .. MaxEvents
  BY OwnerAbortedTyped DEF Typed
<1>1. \A s \in Sockets : Registered(s, "idle") \in EntryType /\ Registered(s, "listening") \in EntryType
  BY DEF Registered, EntryType
<1>2. NoEntry \in EntryType
  BY DEF NoEntry, EntryType
<1>3. CASE RetireDevice
  BY <1>3, EventTyped DEF RetireDevice, Typed, agentVars
<1>4. CASE DispatchPrompt
  <2>1. CASE UNCHANGED <<entry, turn, events>>
    BY <1>4, <2>1 DEF DispatchPrompt, Typed, agentVars
  <2>2. CASE ~UNCHANGED <<entry, turn, events>>
    <3>1. PICK t \in Turns :
             /\ turn' = [turn EXCEPT ![t] = NewTurn("prompt", entry.ws, "text")]
             /\ entry' = [entry EXCEPT !.state = "processing", !.owner = t]
             /\ Event
      BY <1>4, <2>2 DEF DispatchPrompt
    <3>2. NewTurn("prompt", entry.ws, "text") \in TurnType
      BY <1>0, NewTurnTyped DEF EntryType, Stages
    <3>3. turn' \in [Turns -> TurnType] /\ entry' \in EntryType /\ events' \in 0 .. MaxEvents
      BY <1>0, <3>1, <3>2, EventTyped DEF EntryType
    <3> QED BY <1>4, <3>3 DEF DispatchPrompt, Typed, agentVars
  <2> QED BY <2>1, <2>2
<1>5. ASSUME NEW s \in Sockets, Hello(s) PROVE Typed'
  <2>1. sock' \in [Sockets -> SockType] /\ retained' \subseteq Sockets \cup Conns \cup Turns
    BY <1>5, BindTyped DEF Hello
  <2>2. events' \in 0 .. MaxEvents
    BY <1>0, <1>5, EventTyped, EventIfTyped DEF Hello
  <2> QED BY <1>0, <1>1, <1>5, <2>1, <2>2 DEF Hello, Typed, agentVars
<1>6. ASSUME NEW s \in Sockets, RealtimeStart(s) PROVE Typed'
  <2>1. sock' \in [Sockets -> SockType] /\ retained' \subseteq Sockets \cup Conns \cup Turns
    BY <1>6, BindTyped DEF RealtimeStart
  <2> QED BY <1>0, <1>6, <2>1, EventTyped DEF RealtimeStart, Typed, agentVars
<1>7. ASSUME NEW s \in Sockets, VoiceEnd(s) PROVE Typed'
  <2>1. sock' \in [Sockets -> SockType] /\ retained' \subseteq Sockets \cup Conns \cup Turns
    BY <1>7, BindTyped DEF VoiceEnd
  <2>2. PICK t \in Turns :
           /\ turn' = [turn EXCEPT ![t] = NewTurn("voice", s, "stt")]
           /\ entry' = [entry EXCEPT !.state = "processing", !.owner = t]
    BY <1>7 DEF VoiceEnd
  <2>3. NewTurn("voice", s, "stt") \in TurnType
    BY NewTurnTyped DEF Stages
  <2>4. turn' \in [Turns -> TurnType] /\ entry' \in EntryType
    BY <1>0, <2>2, <2>3 DEF EntryType
  <2> QED BY <1>0, <1>7, <2>1, <2>4, EventTyped DEF VoiceEnd, Typed, agentVars
<1>8. ASSUME NEW s \in Sockets, Abort(s) PROVE Typed'
  <2>1. sock' \in [Sockets -> SockType] /\ retained' \subseteq Sockets \cup Conns \cup Turns
    BY <1>8, BindTyped DEF Abort
  <2>2. entry' \in EntryType
    BY <1>0, <1>8 DEF Abort, EntryType
  <2> QED BY <1>0, <1>8, <2>1, <2>2 DEF Abort, Typed, agentVars
<1>9. ASSUME NEW s \in Sockets, ButtonPress(s) PROVE Typed'
  BY <1>9, <1>0, EventTyped DEF ButtonPress, Typed, agentVars
<1>10. ASSUME NEW s \in Sockets, Denied(s) \/ Disconnect(s) PROVE Typed'
  <2>1. sock' \in [Sockets -> SockType]
    BY <1>0, <1>10 DEF Denied, Disconnect, SockType
  <2> QED BY <1>0, <1>10, <2>1, EventTyped DEF Denied, Disconnect, Typed, agentVars
<1>11. ASSUME NEW s \in Sockets, Cleanup(s) \/ CloseRevokedSocket(s) PROVE Typed'
  <2>1. sock' \in [Sockets -> SockType]
    BY <1>0, <1>11 DEF Cleanup, CloseRevokedSocket, SockType
  <2>2. entry' \in EntryType /\ turn' \in [Turns -> TurnType]
    BY <1>0, <1>2, <1>11 DEF Cleanup, CloseRevokedSocket, Unregister
  <2> QED BY <1>11, <2>1, <2>2 DEF Cleanup, CloseRevokedSocket, Typed, agentVars
<1>12. ASSUME NEW s \in Sockets, NEW available \in BOOLEAN, VoiceStart(s, available) PROVE Typed'
  <2>1. PICK state \in {"IDLE", "LISTENING"} : Bind(s, state) \/ Continue(s, state)
    BY <1>12 DEF VoiceStart
  <2>2. sock' \in [Sockets -> SockType] /\ retained' \subseteq Sockets \cup Conns \cup Turns
    BY <2>1, BindTyped
  <2>3. entry' \in EntryType
    BY <1>0, <1>1, <1>12 DEF VoiceStart, EntryType
  <2>4. events' \in 0 .. MaxEvents
    BY <1>0, <1>12, EventTyped, EventIfTyped DEF VoiceStart
  <2> QED BY <1>0, <1>12, <2>2, <2>3, <2>4 DEF VoiceStart, Typed, agentVars
<1> QED BY <1>3, <1>4, <1>5, <1>6, <1>7, <1>8, <1>9, <1>10, <1>11, <1>12 DEF SocketNext

-----------------------------------------------------------------------------
LEMMA OnDeltaTyped ==
    ASSUME NEW x \in TurnType, NEW d \in Delta
    PROVE  OnDelta(x, d) \in TurnType /\ Called(x, OnDelta(x, d))
<1>1. x.reply \in ReplyType
  BY DEF TurnType
<1> DEFINE y == [x.reply EXCEPT !.accepted = Append(x.reply.accepted, d),
                                !.buffer = Append(x.reply.buffer, d)]
<1>2. y \in ReplyType /\ y.spoken = x.reply.spoken
  <2>1. x.reply.accepted \in Seq(Delta) /\ x.reply.buffer \in Seq(Delta)
    BY <1>1 DEF ReplyType
  <2>2. Append(x.reply.accepted, d) \in Seq(Delta) /\ Append(x.reply.buffer, d) \in Seq(Delta)
    BY <2>1
  <2> QED BY <1>1, <2>2 DEF ReplyType
<1>3. x.stage = "waiting" => OnDelta(x, d) = [x EXCEPT !.reply = y]
  BY <1>1 DEF OnDelta, TurnType, ReplyType
<1>4. x.stage # "waiting" => OnDelta(x, d) = x
  BY DEF OnDelta
<1> HIDE DEF y
<1>5. x.stage = "waiting" => [x EXCEPT !.reply = y] \in TurnType /\ Called(x, [x EXCEPT !.reply = y])
  BY <1>2 DEF TurnType, Called
<1> QED BY <1>3, <1>4, <1>5 DEF Called

\* A flush is silent.
LEMMA FlushedSilent == ASSUME NEW r \in ReplyType, NEW b PROVE Flushed(r, b).spoken = r.spoken
  BY DEF Flushed, Feed, ReplyType

LEMMA OnEndTyped == ASSUME NEW x \in TurnType PROVE OnEnd(x) \in TurnType /\ Called(x, OnEnd(x))
<1>1. x.reply \in ReplyType
  BY DEF TurnType
<1> DEFINE y == Flushed(x.reply, x.aborted)
<1>2. y \in ReplyType /\ y.spoken = x.reply.spoken
  BY <1>1, FlushedTyped, FlushedSilent
<1>3. OnEnd(x) = IF x.stage # "waiting" THEN x ELSE [x EXCEPT !.stage = "draining", !.reply = y]
  BY DEF OnEnd
<1> HIDE DEF y
<1>4. x.stage = "waiting" => /\ [x EXCEPT !.stage = "draining", !.reply = y] \in TurnType
                             /\ Called(x, [x EXCEPT !.stage = "draining", !.reply = y])
  BY <1>2 DEF TurnType, Stages, Called
<1> QED BY <1>3, <1>4 DEF Called

LEMMA OnFailureTyped == ASSUME NEW x \in TurnType PROVE OnFailure(x) \in TurnType /\ Called(x, OnFailure(x))
<1>1. x.reply \in ReplyType
  BY DEF TurnType
<1> DEFINE y == [x.reply EXCEPT !.buffer = <<>>]
<1>2. y \in ReplyType /\ y.spoken = x.reply.spoken
  <2>1. <<>> \in Seq(Delta)
    OBVIOUS
  <2> QED BY <1>1, <2>1 DEF ReplyType
<1>3. x.stage = "waiting" => OnFailure(x) = [x EXCEPT !.stage = "failing", !.reply = y]
  BY DEF OnFailure, TurnType
<1>4. x.stage # "waiting" => OnFailure(x) = x
  BY DEF OnFailure
<1> HIDE DEF y
<1>5. x.stage = "waiting" => /\ [x EXCEPT !.stage = "failing", !.reply = y] \in TurnType
                             /\ Called(x, [x EXCEPT !.stage = "failing", !.reply = y])
  BY <1>2 DEF TurnType, Stages, Called
<1> QED BY <1>3, <1>4, <1>5 DEF Called

\* Every step of the agent channel leaves all of a turn but what Called allows and the abort of
\* a turn whose credential was retired.
Nudged(x, y) == Called(x, y) \/ y = [x EXCEPT !.aborted = TRUE]

LEMMA CallTyped ==
    ASSUME turn \in [Turns -> TurnType], NEW t \in Turns, NEW y \in TurnType, Nudged(turn[t], y),
           turn' = [turn EXCEPT ![t] = y]
    PROVE  turn' \in [Turns -> TurnType] /\ \A u \in Turns : Nudged(turn[u], turn'[u])
<1>1. turn' \in [Turns -> TurnType]
  OBVIOUS
<1>2. ASSUME NEW u \in Turns, u # t PROVE turn'[u] = turn[u]
  BY <1>2
<1>3. turn'[t] = y
  OBVIOUS
<1> QED BY <1>1, <1>2, <1>3 DEF Nudged, Called

LEMMA Unnudged ==
    ASSUME UNCHANGED turn PROVE \A u \in Turns : Nudged(turn[u], turn'[u])
  BY DEF Nudged, Called

LEMMA FrameCalls ==
    ASSUME Typed, NEW c \in Conns, NEW u \in Turns, NEW kind \in {"delta", "end", "error"},
           Frame(c, u, kind)
    PROVE  /\ turn' \in [Turns -> TurnType] /\ \A t \in Turns : Nudged(turn[t], turn'[t])
           /\ listener' \in {listener, NoTurn}
           /\ conn' \in [Conns -> ConnType] /\ answer' \in [Turns -> AnswerType]
<1> USE VoiceConstants
<1>0. turn \in [Turns -> TurnType] /\ conn \in [Conns -> ConnType] /\ answer \in [Turns -> AnswerType]
      /\ listener \in Turns \cup {NoTurn}
  BY DEF Typed
<1>1. conn' \in [Conns -> ConnType]
  <2>1. conn[c] \in ConnType
    BY <1>0
  <2>2. [conn[c] EXCEPT !.phase = "closing"] \in ConnType
    BY <2>1 DEF ConnType
  <2>3. conn' = conn \/ conn' = [conn EXCEPT ![c] = [conn[c] EXCEPT !.phase = "closing"]]
    BY <1>0 DEF Frame
  <2> QED BY <1>0, <2>2, <2>3
<1>2. answer[u] \in AnswerType /\ answer[u].sent \in 0 .. MaxDeltas
  BY <1>0 DEF AnswerType
<1>3. answer' \in [Turns -> AnswerType]
  <2>1. NoAnswer \in AnswerType
    BY DEF NoAnswer, AnswerType
  <2>2. kind = "delta" => [answer[u] EXCEPT !.sent = answer[u].sent + 1] \in AnswerType
    BY <1>2 DEF Frame, AnswerType
  <2>3. \/ kind = "delta" /\ answer' = [answer EXCEPT ![u] = [answer[u] EXCEPT !.sent = answer[u].sent + 1]]
        \/ answer' = [answer EXCEPT ![u] = NoAnswer]
    BY <1>0 DEF Frame
  <2> QED BY <1>0, <2>1, <2>2, <2>3
<1>4. kind = "delta" => [of |-> u, n |-> answer[u].sent + 1] \in Delta
  BY <1>2 DEF Frame, Delta
<1>5. CASE UNCHANGED <<turn, listener>>
  BY <1>0, <1>1, <1>3, <1>5, Unnudged
<1>6. CASE ~UNCHANGED <<turn, listener>>
  <2>1. /\ listener # NoTurn
        /\ \/ kind = "delta" /\ turn' = [turn EXCEPT ![listener] =
                                  OnDelta(turn[listener], [of |-> u, n |-> answer[u].sent + 1])]
           \/ turn' = [turn EXCEPT ![listener] = OnEnd(turn[listener])]
           \/ turn' = [turn EXCEPT ![listener] = OnFailure(turn[listener])]
        /\ listener' \in {listener, NoTurn}
    BY <1>6 DEF Frame, ListenerRemoved
  <2>2. listener \in Turns /\ turn[listener] \in TurnType
    BY <1>0, <2>1
  <2>3. PICK y \in TurnType : turn' = [turn EXCEPT ![listener] = y] /\ Called(turn[listener], y)
    BY <1>4, <2>1, <2>2, OnDeltaTyped, OnEndTyped, OnFailureTyped
  <2>4. Nudged(turn[listener], y)
    BY <2>3 DEF Nudged
  <2> QED BY <1>0, <1>1, <1>3, <2>1, <2>2, <2>3, <2>4, CallTyped
<1> QED BY <1>5, <1>6

\* The steps of the agent channel: what they do to turns and to what belongs to a device.
LEMMA AgentTyped ==
    ASSUME Typed, AgentNext
    PROVE  /\ Typed' /\ \A t \in Turns : Nudged(turn[t], turn'[t])
           /\ listener' \in {listener, NoTurn}
           /\ UNCHANGED <<entry, sock>>
<1> USE VoiceConstants
<1> DEFINE Goal == /\ Typed' /\ \A t \in Turns : Nudged(turn[t], turn'[t])
                   /\ listener' \in {listener, NoTurn}
                   /\ UNCHANGED <<entry, sock>>
<1>0. /\ turn \in [Turns -> TurnType] /\ conn \in [Conns -> ConnType]
      /\ slot \in [Agents -> Conns \cup {NoConn}] /\ agentGen \in [Agents -> 1 .. MaxGen]
      /\ events \in 0 .. MaxEvents
  BY DEF Typed
<1>1. ASSUME NEW c \in Conns, Auth(c) PROVE Goal
  <2>1. agentGen[AgentOf[c]] \in 0 .. MaxGen
    BY <1>0
  <2>2. conn' \in [Conns -> ConnType]
    BY <1>0, <1>1, <2>1 DEF Auth, ConnType
  <2>3. events' \in 0 .. MaxEvents
    BY <1>0, <1>1, EventTyped, EventIfTyped DEF Auth
  <2>4. slot' \in [Agents -> Conns \cup {NoConn}]
    BY <1>0, <1>1 DEF Auth
  <2> QED BY <1>1, <2>2, <2>3, <2>4, Unnudged DEF Auth, Typed, socketVars
<1>2. ASSUME NEW c \in Conns, AuthDone(c) PROVE Goal
  <2>1. conn' \in [Conns -> ConnType] /\ slot' \in [Agents -> Conns \cup {NoConn}]
    BY <1>0, <1>2 DEF AuthDone, ConnType
  <2> QED BY <1>2, <2>1, Unnudged DEF AuthDone, Typed, socketVars
<1>3. ASSUME NEW c \in Conns, AgentDisconnect(c) PROVE Goal
  <2>1. conn' \in [Conns -> ConnType]
    BY <1>0, <1>3 DEF AgentDisconnect, ConnType
  <2> QED BY <1>0, <1>3, <2>1, EventTyped, Unnudged DEF AgentDisconnect, Typed, socketVars
<1>4. ASSUME NEW c \in Conns, AgentCleanup(c) PROVE Goal
  <2>1. conn' \in [Conns -> ConnType] /\ slot' \in [Agents -> Conns \cup {NoConn}]
    BY <1>0, <1>4 DEF AgentCleanup, Vacated, ConnType
  <2> QED BY <1>4, <2>1, Unnudged DEF AgentCleanup, Typed, socketVars
<1>5. ASSUME NEW c \in Conns, CloseRevokedAgent(c) PROVE Goal
  <2>1. conn' \in [Conns -> ConnType] /\ slot' \in [Agents -> Conns \cup {NoConn}]
    BY <1>0, <1>5 DEF CloseRevokedAgent, Vacated, ConnType
  <2>2. turn' \in [Turns -> TurnType] /\ \A t \in Turns : Nudged(turn[t], turn'[t])
    <3>1. CASE UNCHANGED turn
      BY <1>0, <3>1, Unnudged
    <3>2. CASE ~UNCHANGED turn
      <4>1. listener \in Turns /\ turn' = [turn EXCEPT ![listener] = OnFailure(turn[listener])]
        BY <1>5, <3>2 DEF CloseRevokedAgent, Typed
      <4>2. PICK y \in TurnType : turn' = [turn EXCEPT ![listener] = y] /\ Called(turn[listener], y)
        BY <1>0, <4>1, OnFailureTyped
      <4>3. Nudged(turn[listener], y)
        BY <4>2 DEF Nudged
      <4> QED BY <1>0, <4>1, <4>2, <4>3, CallTyped
    <3> QED BY <3>1, <3>2
  <2> QED BY <1>5, <2>1, <2>2 DEF CloseRevokedAgent, Typed, socketVars
<1>6. ASSUME NEW t \in Turns, CloseRevokedMedia(t) PROVE Goal
  <2>0. turn[t] \in TurnType
    BY <1>0
  <2>1. [turn[t] EXCEPT !.aborted = TRUE] \in TurnType
    BY <2>0 DEF TurnType
  <2>2. PICK y \in TurnType : turn' = [turn EXCEPT ![t] = y] /\ y = [turn[t] EXCEPT !.aborted = TRUE]
    BY <1>0, <1>6, <2>1 DEF CloseRevokedMedia
  <2>3. Nudged(turn[t], y)
    BY <2>2 DEF Nudged
  <2>4. turn' \in [Turns -> TurnType] /\ \A u \in Turns : Nudged(turn[u], turn'[u])
    BY <1>0, <2>2, <2>3, CallTyped
  <2> QED BY <1>6, <2>4 DEF CloseRevokedMedia, Typed, socketVars, agentVars
<1>7. ASSUME NEW c \in Conns, NEW u \in Turns, NEW kind \in {"delta", "end", "error"}, Frame(c, u, kind)
      PROVE Goal
  <2>1. /\ turn' \in [Turns -> TurnType] /\ \A t \in Turns : Nudged(turn[t], turn'[t])
        /\ listener' \in {listener, NoTurn}
        /\ conn' \in [Conns -> ConnType] /\ answer' \in [Turns -> AnswerType]
    BY <1>7, FrameCalls
  <2> QED BY <1>7, <2>1 DEF Frame, Typed, socketVars
<1>8. ASSUME NEW a \in Agents \cup {Direct}, Activate(a) PROVE Goal
  BY <1>0, <1>8, EventTyped, Unnudged DEF Activate, Typed, socketVars
<1>9. ASSUME NEW a \in Agents, NEW revoked \in BOOLEAN, RetireAgent(a, revoked) PROVE Goal
  <2>1. agentGen' \in [Agents -> 1 .. MaxGen]
    BY <1>0, <1>9 DEF RetireAgent
  <2> QED BY <1>0, <1>9, <2>1, EventTyped, Unnudged DEF RetireAgent, Typed, socketVars
<1>10. QED
  BY <1>1, <1>2, <1>3, <1>4, <1>5, <1>6, <1>7, <1>8, <1>9 DEF AgentNext

-----------------------------------------------------------------------------
\* The device hears more of a turn.
Louder(x, y) == (y.told /\ ~x.told) \/ Len(y.reply.spoken) > Len(x.reply.spoken)

\* A turn in these stages has been routed to an agent, or is sorry about the direct one.
Routed == {"waiting", "draining", "failing", "apology"}

\* A step of a turn's task that does not end it.
Goes(t, y) ==
    /\ y \in TurnType /\ turn' = [turn EXCEPT ![t] = y]
    /\ y.kind = turn[t].kind /\ y.ws = turn[t].ws /\ y.aborted = turn[t].aborted
    /\ y.stage \notin {"unused", "finished"}
    /\ Louder(turn[t], y) => Hears(t)
    /\ listener' \in {listener, NoTurn, t}
    /\ UNCHANGED <<entry, sock>>
    /\ \/ retained' = retained \cup {t} /\ y.stage \in Routed
       \/ /\ retained' = retained /\ y.agent = turn[t].agent
          /\ turn[t].stage \in Routed => y.stage \in Routed

\* A step that ends it, never without a word unless it was aborted.
Ends(t) == \E what \in SUBSET {"error", "end"} : Finish(t, what) /\ (turn[t].aborted \/ what # {})

LEMMA FinishTyped ==
    ASSUME Typed, NEW t \in Turns, Ends(t)
    PROVE  /\ turn' \in [Turns -> TurnType] /\ entry' \in EntryType /\ sock' \in [Sockets -> SockType]
           /\ listener' \in Turns \cup {NoTurn} /\ retained' \subseteq Sockets \cup Conns \cup Turns
<1>0. /\ turn \in [Turns -> TurnType] /\ entry \in EntryType /\ sock \in [Sockets -> SockType]
      /\ listener \in Turns \cup {NoTurn} /\ retained \subseteq Sockets \cup Conns \cup Turns
  BY DEF Typed
<1>1. PICK what \in SUBSET {"error", "end"} : Finish(t, what)
  BY DEF Ends
<1> DEFINE told == turn[t].told \/ Tells(t, what)
<1>2. told \in BOOLEAN
  <2>1. turn[t] \in TurnType
    BY <1>0
  <2> QED BY <2>1 DEF TurnType, Tells
<1>3. NewTurn("voice", NoSocket, "finished") \in TurnType
  BY NewTurnTyped DEF Stages
<1>4. [NewTurn("voice", NoSocket, "finished") EXCEPT !.told = told] \in TurnType
  <2> HIDE DEF told
  <2> QED BY <1>2, <1>3 DEF TurnType
<1>5. turn' = [turn EXCEPT ![t] = [NewTurn("voice", NoSocket, "finished") EXCEPT !.told = told]]
  BY <1>1 DEF Finish
<1> HIDE DEF told
<1>6. turn' \in [Turns -> TurnType]
  BY <1>0, <1>4, <1>5
<1>7. entry' \in EntryType
  BY <1>0, <1>1 DEF Finish, EntryType
<1>8. sock' \in [Sockets -> SockType]
  BY <1>0, <1>1 DEF Finish, SockType
<1> QED BY <1>0, <1>1, <1>6, <1>7, <1>8 DEF Finish, ListenerRemoved

\* A change of stage, perhaps with an error sent.
LEMMA AdvanceGoes ==
    ASSUME Typed, NEW t \in Turns, NEW g \in Stages \ {"unused", "finished"},
           NEW what \in SUBSET {"error", "end"}, Advance(t, g, what), turn[t].stage \notin Routed
    PROVE  \E y \in TurnType : Goes(t, y)
<1>1. turn \in [Turns -> TurnType] /\ turn[t] \in TurnType
  BY DEF Typed
<1> DEFINE b == turn[t].told \/ Tells(t, what)
<1>2. b \in BOOLEAN /\ (b /\ ~turn[t].told => Hears(t))
  BY <1>1 DEF TurnType, Tells
<1>3. turn' = [turn EXCEPT ![t] = [turn[t] EXCEPT !.stage = g, !.told = b]]
  BY <1>1 DEF Advance
<1> HIDE DEF b
<1> DEFINE y == [turn[t] EXCEPT !.stage = g, !.told = b]
<1>4. /\ y \in TurnType /\ y.kind = turn[t].kind /\ y.ws = turn[t].ws /\ y.aborted = turn[t].aborted
      /\ y.stage = g /\ y.told = b /\ y.reply = turn[t].reply /\ y.agent = turn[t].agent
  BY <1>1, <1>2 DEF TurnType
<1>5. Len(turn[t].reply.spoken) \in Nat
  BY <1>1 DEF TurnType, ReplyType
<1>6. UNCHANGED <<entry, sock, listener, retained>>
  BY DEF Advance
<1>7. turn' = [turn EXCEPT ![t] = y]
  BY <1>3
<1> HIDE DEF y
<1>8. Goes(t, y)
  BY <1>2, <1>4, <1>5, <1>6, <1>7 DEF Goes, Louder
<1> QED BY <1>4, <1>8

\* A call of the listener, the timer or the timeout, as a step of the turn itself.
LEMMA WaitGoes ==
    ASSUME Typed, NEW t \in Turns, NEW x \in TurnType, Wait(t, x), Called(turn[t], x)
    PROVE  \E y \in TurnType : Goes(t, y)
<1>1. turn \in [Turns -> TurnType] /\ turn[t] \in TurnType
  BY DEF Typed
<1>2. Len(turn[t].reply.spoken) \in Nat
  BY <1>1 DEF TurnType, ReplyType
<1>3. Goes(t, x)
  BY <1>1, <1>2 DEF Goes, Louder, Wait, Called, Routed, socketVars
<1> QED BY <1>3

LEMMA StepTyped ==
    ASSUME Typed, NEW t \in Turns, Ends(t) \/ \E y \in TurnType : Goes(t, y),
           retained' \subseteq Sockets \cup Conns \cup Turns, answer' \in [Turns -> AnswerType],
           events' \in 0 .. MaxEvents, UNCHANGED <<deviceGen, button, agentGen, active, conn, slot>>
    PROVE  Typed'
<1>1. CASE Ends(t)
  BY <1>1, FinishTyped DEF Typed
<1>2. CASE \E y \in TurnType : Goes(t, y)
  <2>1. turn' \in [Turns -> TurnType]
    BY <1>2 DEF Goes, Typed
  <2> QED BY <1>2, <2>1 DEF Goes, Typed
<1> QED BY <1>1, <1>2

\* The segment of the worker has been synthesized.
LEMMA SynthesizedGoes ==
    ASSUME Typed, NEW t \in Turns, NEW ok \in BOOLEAN, Synthesized(t, ok),
           turn[t].stage \notin {"unused", "finished"}
    PROVE  \E y \in TurnType : Goes(t, y)
<1> DEFINE r == turn[t].reply
           next == Feed([r EXCEPT !.segment = <<>>], turn[t].aborted)
           reply == IF ~ok THEN [next EXCEPT !.lost = TRUE]
                    ELSE IF Hears(t) /\ ~turn[t].aborted
                    THEN [next EXCEPT !.spoken = r.spoken \o r.segment] ELSE next
           told == turn[t].told \/ (~ok /\ Tells(t, {"error"}))
<1>1. turn \in [Turns -> TurnType] /\ turn[t] \in TurnType
  BY DEF Typed
<1>2. r \in ReplyType
  BY <1>1 DEF TurnType
<1>3. [r EXCEPT !.segment = <<>>] \in ReplyType /\ [r EXCEPT !.segment = <<>>].spoken = r.spoken
  <2>1. <<>> \in Seq(Delta)
    OBVIOUS
  <2> QED BY <1>2, <2>1 DEF ReplyType
<1>4. next \in ReplyType /\ next.spoken = r.spoken
  <2> DEFINE q == [r EXCEPT !.segment = <<>>]
  <2>1. q \in ReplyType /\ q.spoken = r.spoken
    BY <1>3
  <2> HIDE DEF q
  <2>2. Feed(q, turn[t].aborted) \in ReplyType
    BY <2>1, FeedTyped
  <2>3. Feed(q, turn[t].aborted).spoken = q.spoken
    BY <2>1 DEF Feed, ReplyType
  <2> QED BY <2>1, <2>2, <2>3 DEF q
<1>5. turn' = [turn EXCEPT ![t] = [turn[t] EXCEPT !.reply = reply, !.told = told]]
  BY <1>1 DEF Synthesized
<1>6. UNCHANGED <<entry, sock, listener, retained>>
  BY DEF Synthesized, socketVars
<1>7. reply \in ReplyType /\ (Len(reply.spoken) > Len(r.spoken) => Hears(t))
  <2>1. r.spoken \in Seq(Delta) /\ r.segment \in Seq(Delta)
    BY <1>2 DEF ReplyType
  <2>2. r.spoken \o r.segment \in Seq(Delta) /\ Len(r.spoken) \in Nat
    BY <2>1
  <2> HIDE DEF next
  <2>3. /\ [next EXCEPT !.lost = TRUE] \in ReplyType
        /\ [next EXCEPT !.lost = TRUE].spoken = r.spoken
    BY <1>4 DEF ReplyType
  <2>4. [next EXCEPT !.spoken = r.spoken \o r.segment] \in ReplyType
    BY <1>4, <2>2 DEF ReplyType
  <2>5. CASE ~ok
    BY <2>2, <2>3, <2>5
  <2>6. CASE ok /\ Hears(t) /\ ~turn[t].aborted
    BY <2>4, <2>6
  <2>7. CASE ok /\ ~(Hears(t) /\ ~turn[t].aborted)
    <3>1. reply = next
      BY <2>7
    <3>2. next \in ReplyType /\ next.spoken = r.spoken
      BY <1>4
    <3> HIDE DEF reply
    <3> QED BY <2>2, <3>1, <3>2
  <2> QED BY <2>5, <2>6, <2>7
<1>8. told \in BOOLEAN /\ (told /\ ~turn[t].told => Hears(t))
  BY <1>1 DEF TurnType, Tells
<1> HIDE DEF reply, told
<1> DEFINE y == [turn[t] EXCEPT !.reply = reply, !.told = told]
<1>9. /\ y \in TurnType /\ y.kind = turn[t].kind /\ y.ws = turn[t].ws /\ y.aborted = turn[t].aborted
      /\ y.stage = turn[t].stage /\ y.told = told /\ y.reply = reply /\ y.agent = turn[t].agent
  BY <1>1, <1>7, <1>8 DEF TurnType
<1>10. turn' = [turn EXCEPT ![t] = y]
  BY <1>5
<1> HIDE DEF y
<1>11. Goes(t, y)
  BY <1>6, <1>7, <1>8, <1>9, <1>10 DEF Goes, Louder
<1> QED BY <1>9, <1>11

\* A failed wait: an abort ends the turn, anything else is apologised for.
LEMMA FailedGoes ==
    ASSUME Typed, NEW t \in Turns, Failed(t)
    PROVE  Ends(t) \/ \E y \in TurnType : Goes(t, y)
<1>1. CASE turn[t].aborted
  BY <1>1 DEF Failed, Ends
<1>2. CASE ~turn[t].aborted
  <2> DEFINE told == turn[t].told \/ Tells(t, {"error"})
  <2>1. turn \in [Turns -> TurnType] /\ turn[t] \in TurnType
    BY DEF Typed
  <2>2. told \in BOOLEAN /\ (told /\ ~turn[t].told => Hears(t))
    BY <2>1 DEF TurnType, Tells
  <2>3. turn' = [turn EXCEPT ![t] = [turn[t] EXCEPT !.stage = "apology", !.reply = NewReply, !.told = told]]
    BY <1>2, <2>1 DEF Failed
  <2>4. UNCHANGED <<entry, sock, retained>> /\ listener' \in {listener, NoTurn}
    BY <1>2 DEF Failed, ListenerRemoved
  <2>5. Len(NewReply.spoken) = 0 /\ Len(turn[t].reply.spoken) \in Nat
    BY <2>1 DEF NewReply, TurnType, ReplyType
  <2> HIDE DEF told
  <2> DEFINE y == [turn[t] EXCEPT !.stage = "apology", !.reply = NewReply, !.told = told]
  <2>6. /\ y \in TurnType /\ y.kind = turn[t].kind /\ y.ws = turn[t].ws /\ y.aborted = turn[t].aborted
        /\ y.stage = "apology" /\ y.told = told /\ y.reply = NewReply /\ y.agent = turn[t].agent
    BY <2>1, <2>2, NewReplyTyped DEF TurnType, Stages
  <2>7. turn' = [turn EXCEPT ![t] = y]
    BY <2>3
  <2> HIDE DEF y
  <2>8. Goes(t, y)
    BY <2>2, <2>4, <2>5, <2>6, <2>7 DEF Goes, Louder, Routed
  <2> QED BY <2>6, <2>8
<1> QED BY <1>1, <1>2

\* A turn is routed to an agent, to the gateway, or to nobody.
LEMMA RouteGoes ==
    ASSUME Typed, NEW t \in Turns, Route(t)
    PROVE  /\ Ends(t) \/ \E y \in TurnType : Goes(t, y)
           /\ answer' \in [Turns -> AnswerType]
           /\ retained' \subseteq Sockets \cup Conns \cup Turns
<1> USE VoiceConstants
<1>0. /\ turn \in [Turns -> TurnType] /\ turn[t] \in TurnType /\ conn \in [Conns -> ConnType]
      /\ answer \in [Turns -> AnswerType] /\ retained \subseteq Sockets \cup Conns \cup Turns
      /\ slot \in [Agents -> Conns \cup {NoConn}]
  BY DEF Typed
<1>1. CASE /\ \E what \in SUBSET {"error", "end"} : Finish(t, what) /\ (turn[t].aborted \/ what # {})
           /\ UNCHANGED answer
  BY <1>0, <1>1 DEF Ends, Finish
<1>2. CASE turn[t].stage = "text" /\ Advance(t, "chat", {}) /\ UNCHANGED answer
  <2>1. \E y \in TurnType : Goes(t, y)
    BY <1>2, AdvanceGoes DEF Stages, Routed
  <2> QED BY <1>0, <1>2, <2>1 DEF Advance
<1>3. CASE /\ active \in Agents /\ Reachable(active)
           /\ turn' = [turn EXCEPT ![t].stage = "waiting", ![t].agent = active,
                                   ![t].gen = conn[slot[active]].gen]
           /\ listener' = t /\ retained' = retained \cup {t}
           /\ answer' = [answer EXCEPT ![t].agent = active]
           /\ UNCHANGED <<entry, sock>>
  <2> DEFINE gen == conn[slot[active]].gen
  <2>1. gen \in 0 .. MaxGen
    BY <1>0, <1>3 DEF Reachable, ConnType
  <2>2. turn' = [turn EXCEPT ![t] = [turn[t] EXCEPT !.stage = "waiting", !.agent = active, !.gen = gen]]
    BY <1>0, <1>3
  <2>3. answer' \in [Turns -> AnswerType]
    BY <1>0, <1>3 DEF AnswerType
  <2>4. Len(turn[t].reply.spoken) \in Nat
    BY <1>0 DEF TurnType, ReplyType
  <2> HIDE DEF gen
  <2> DEFINE y == [turn[t] EXCEPT !.stage = "waiting", !.agent = active, !.gen = gen]
  <2>5. /\ y \in TurnType /\ y.kind = turn[t].kind /\ y.ws = turn[t].ws /\ y.aborted = turn[t].aborted
        /\ y.stage = "waiting" /\ y.told = turn[t].told /\ y.reply = turn[t].reply
    BY <1>0, <1>3, <2>1 DEF TurnType, Stages
  <2>6. turn' = [turn EXCEPT ![t] = y]
    BY <2>2
  <2> HIDE DEF y
  <2>7. ~Louder(turn[t], y)
    BY <2>4, <2>5 DEF Louder
  <2>8. /\ y.stage \notin {"unused", "finished"} /\ listener' \in {listener, NoTurn, t}
        /\ UNCHANGED <<entry, sock>> /\ retained' = retained \cup {t} /\ y.stage \in Routed
    BY <1>3, <2>5 DEF Routed
  <2>9. Goes(t, y)
    BY <2>5, <2>6, <2>7, <2>8 DEF Goes
  <2> QED BY <1>0, <1>3, <2>3, <2>5, <2>9
<1> QED BY <1>1, <1>2, <1>3 DEF Route

\* A turn that does not run has no segment to speak.
Silent == \A t \in Turns : turn[t].stage \in {"unused", "finished"} => turn[t].reply.segment = <<>>

\* Every step of a turn's task either ends it or goes on.
LEMMA TurnTyped ==
    ASSUME Typed, Silent, NEW t \in Turns, TurnStep(t)
    PROVE  /\ Typed' /\ turn[t].stage \notin {"unused", "finished"}
           /\ Ends(t) \/ \E y \in TurnType : Goes(t, y)
<1> DEFINE Moves == Ends(t) \/ \E y \in TurnType : Goes(t, y)
           Kept == /\ retained' \subseteq Sockets \cup Conns \cup Turns /\ answer' \in [Turns -> AnswerType]
                   /\ events' \in 0 .. MaxEvents
                   /\ UNCHANGED <<deviceGen, button, agentGen, active, conn, slot>>
           Runs == turn[t].stage \notin {"unused", "finished"}
<1>0. /\ turn[t] \in TurnType /\ retained \subseteq Sockets \cup Conns \cup Turns
      /\ answer \in [Turns -> AnswerType] /\ events \in 0 .. MaxEvents
  BY DEF Typed
<1>1. ASSUME NEW what \in SUBSET {"error", "end"}, Finish(t, what), turn[t].aborted \/ what # {}
      PROVE  Ends(t) /\ retained' \subseteq Sockets \cup Conns \cup Turns
  BY <1>0, <1>1 DEF Ends, Finish
<1>2. ASSUME NEW g \in Stages \ {"unused", "finished"}, NEW what \in SUBSET {"error", "end"},
             Advance(t, g, what), turn[t].stage \notin Routed
      PROVE  Moves /\ retained' \subseteq Sockets \cup Conns \cup Turns
  BY <1>0, <1>2, AdvanceGoes DEF Advance
<1>3. ASSUME NEW outcome \in {"error", "empty", "text"}, SttDone(t, outcome)
      PROVE  Moves /\ Kept /\ Runs
  <2>1. \/ \E what \in SUBSET {"error", "end"} : Finish(t, what) /\ (turn[t].aborted \/ what # {})
        \/ Advance(t, "text", {})
    BY <1>3 DEF SttDone
  <2>2. Moves /\ retained' \subseteq Sockets \cup Conns \cup Turns
    BY <1>1, <1>2, <1>3, <2>1 DEF SttDone, Stages, Routed
  <2>3. events' \in 0 .. MaxEvents
    BY <1>0, <1>3, EventTyped, EventIfTyped DEF SttDone
  <2> QED BY <1>0, <1>3, <2>2, <2>3 DEF SttDone, agentVars
<1>4. ASSUME Route(t) PROVE Moves /\ Kept /\ Runs
  BY <1>0, <1>4, RouteGoes DEF Route
<1>5. ASSUME NEW x \in TurnType, Called(turn[t], x), Wait(t, x) PROVE Moves /\ Kept /\ Runs
  BY <1>0, <1>5, WaitGoes DEF Wait, socketVars, agentVars
<1>6. CASE IdleFlush(t)
  <2> DEFINE reply == Flushed(turn[t].reply, turn[t].aborted)
  <2>1. turn[t].stage = "waiting" /\ turn[t].reply \in ReplyType
    BY <1>0, <1>6 DEF IdleFlush, Wait, TurnType
  <2>2. reply \in ReplyType /\ reply.spoken = turn[t].reply.spoken
    BY <2>1, FlushedTyped, FlushedSilent
  <2>3. Wait(t, [turn[t] EXCEPT !.reply = reply])
    BY <1>6 DEF IdleFlush
  <2> HIDE DEF reply
  <2>4. [turn[t] EXCEPT !.reply = reply] \in TurnType /\ Called(turn[t], [turn[t] EXCEPT !.reply = reply])
    BY <1>0, <2>1, <2>2 DEF TurnType, Called
  <2>5. Moves /\ Kept /\ Runs
    BY <1>5, <2>3, <2>4
  <2> QED BY <2>5, StepTyped
<1>7. CASE Timeout(t) \/ OnAbort(t)
  <2>1. OnFailure(turn[t]) \in TurnType /\ Called(turn[t], OnFailure(turn[t]))
    BY <1>0, OnFailureTyped
  <2>2. Wait(t, OnFailure(turn[t]))
    BY <1>7 DEF Timeout, OnAbort
  <2>3. Moves /\ Kept /\ Runs
    BY <1>5, <2>1, <2>2
  <2> QED BY <2>3, StepTyped
<1>8. ASSUME Drained(t) \/ Apologise(t) PROVE Moves /\ Kept /\ Runs
  <2>1. \E what \in SUBSET {"error", "end"} : Finish(t, what) /\ (turn[t].aborted \/ what # {})
    BY <1>8 DEF Drained, Apologise
  <2>2. turn[t].stage \in {"draining", "apology"} /\ UNCHANGED <<deviceGen, button, agentVars, events>>
    BY <1>8 DEF Drained, Apologise
  <2> QED BY <1>0, <1>1, <2>1, <2>2 DEF agentVars
<1>9. ASSUME Failed(t) PROVE Moves /\ Kept /\ Runs
  <2>1. retained' \subseteq Sockets \cup Conns \cup Turns
    BY <1>0, <1>9 DEF Failed, Finish
  <2> QED BY <1>0, <1>9, <2>1, FailedGoes DEF Failed, agentVars
<1>10. ASSUME NEW ok \in BOOLEAN, ChatDone(t, ok) PROVE Moves /\ Kept /\ Runs
  <2>1. (Finish(t, {}) /\ turn[t].aborted) \/ Advance(t, "apology", {"error"}) \/ Advance(t, "speaking", {})
    BY <1>10 DEF ChatDone
  <2>2. Moves /\ retained' \subseteq Sockets \cup Conns \cup Turns
    BY <1>1, <1>2, <1>10, <2>1 DEF ChatDone, Stages, Routed
  <2>3. events' \in 0 .. MaxEvents
    BY <1>0, <1>10, EventTyped, EventIfTyped DEF ChatDone
  <2> QED BY <1>0, <1>10, <2>2, <2>3 DEF ChatDone, agentVars
<1>11. ASSUME NEW ok \in BOOLEAN, SpeechDone(t, ok) PROVE Moves /\ Kept /\ Runs
  <2>1. \E what \in SUBSET {"error", "end"} : Finish(t, what) /\ (turn[t].aborted \/ what # {})
    BY <1>11 DEF SpeechDone
  <2>2. events' \in 0 .. MaxEvents
    BY <1>0, <1>11, EventTyped, EventIfTyped DEF SpeechDone
  <2> QED BY <1>0, <1>1, <1>11, <2>1, <2>2 DEF SpeechDone, agentVars
<1>12. ASSUME NEW ok \in BOOLEAN, Synthesized(t, ok) PROVE Moves /\ Kept /\ Runs
  <2>1. Runs
    BY <1>12 DEF Synthesized, Silent
  <2>2. Moves
    BY <1>12, <2>1, SynthesizedGoes
  <2>3. events' \in 0 .. MaxEvents
    BY <1>0, <1>12, EventTyped, EventIfTyped DEF Synthesized
  <2> QED BY <1>0, <1>12, <2>1, <2>2, <2>3 DEF Synthesized, socketVars, agentVars
<1> HIDE DEF Moves, Kept, Runs
<1>13. IdleFlush(t) \/ Timeout(t) \/ OnAbort(t) \/ (Moves /\ Kept /\ Runs)
  BY <1>3, <1>4, <1>8, <1>9, <1>10, <1>11, <1>12 DEF TurnStep
<1>14. CASE Moves /\ Kept /\ Runs
  BY <1>14, StepTyped DEF Moves, Kept, Runs
<1> QED BY <1>6, <1>7, <1>13, <1>14

-----------------------------------------------------------------------------
Live(t) == Running(t) /\ ~turn[t].aborted

\* Why a new turn never meets a live one: live turns own the registration, a registration with
\* an owner is "processing", and a socket that captures has a registration that is "listening".
OwnersProcess == entry.owner # NoTurn => entry.state = "processing"
CapturesListen == \A s \in Sockets : entry.ws = s /\ sock[s].state = "LISTENING" => entry.state = "listening"
LiveOwns == \A t \in Turns : Live(t) => entry.owner = t

VoiceInv == Typed /\ Silent /\ LiveOwns /\ FinishedLetsGo /\ OwnersProcess /\ CapturesListen

LEMMA InitInv == ASSUME Init PROVE VoiceInv
<1>1. Typed
  BY InitTyped
<1>2. \A t \in Turns : ~Running(t) /\ turn[t].reply.segment = <<>>
  BY DEF Init, Running, NewTurn, NewReply
<1>3. entry.owner = NoTurn /\ listener = NoTurn /\ \A s \in Sockets : sock[s].state = "IDLE"
  BY DEF Init, NoEntry
<1> QED BY <1>1, <1>2, <1>3
        DEF VoiceInv, Silent, LiveOwns, Live, FinishedLetsGo, OwnersProcess, CapturesListen

\* Agents and turns that go on neither start nor end a turn.
LEMMA NudgeInv ==
    ASSUME VoiceInv, Typed', \A t \in Turns : Nudged(turn[t], turn'[t]), listener' \in {listener, NoTurn},
           UNCHANGED <<entry, sock>>
    PROVE  VoiceInv'
<1>1. turn \in [Turns -> TurnType] /\ entry.owner \in Turns \cup {NoTurn} /\ listener \in Turns \cup {NoTurn}
  BY DEF VoiceInv, Typed, EntryType
<1>2. ASSUME NEW t \in Turns
      PROVE  /\ Running(t)' <=> Running(t)
             /\ turn'[t].ws = turn[t].ws /\ (turn[t].aborted => turn'[t].aborted)
             /\ ~Running(t) => turn'[t].reply.segment = turn[t].reply.segment
  <2>1. turn[t] \in TurnType
    BY <1>1
  <2> QED BY <2>1 DEF Nudged, Called, Running, TurnType
<1>3. Silent' /\ LiveOwns'
  BY <1>2 DEF VoiceInv, Silent, LiveOwns, Live, Running
<1>4. FinishedLetsGo'
  BY <1>1, <1>2 DEF VoiceInv, FinishedLetsGo
<1>5. OwnersProcess' /\ CapturesListen'
  BY DEF VoiceInv, OwnersProcess, CapturesListen
<1> QED BY <1>3, <1>4, <1>5 DEF VoiceInv

LEMMA GoesInv ==
    ASSUME VoiceInv, Typed', NEW t \in Turns, NEW y \in TurnType, Goes(t, y), Running(t)
    PROVE  VoiceInv'
<1>1. turn \in [Turns -> TurnType] /\ entry.owner \in Turns \cup {NoTurn} /\ listener \in Turns \cup {NoTurn}
  BY DEF VoiceInv, Typed, EntryType
<1>2. turn'[t] = y /\ \A u \in Turns : u # t => turn'[u] = turn[u]
  BY <1>1 DEF Goes
<1>3. /\ \A u \in Turns : (Running(u)' <=> Running(u)) /\ turn'[u].ws = turn[u].ws
      /\ \A u \in Turns : turn'[u].aborted = turn[u].aborted
  BY <1>2 DEF Goes, Running
<1>4. Silent' /\ LiveOwns'
  <2>1. Silent'
    BY <1>2, <1>3 DEF VoiceInv, Silent, Running, Goes
  <2>2. LiveOwns'
    BY <1>3 DEF VoiceInv, LiveOwns, Live, Goes
  <2> QED BY <2>1, <2>2
<1>5. FinishedLetsGo'
  BY <1>1, <1>3 DEF VoiceInv, FinishedLetsGo, Goes
<1>6. OwnersProcess' /\ CapturesListen'
  BY DEF VoiceInv, OwnersProcess, CapturesListen, Goes
<1> QED BY <1>4, <1>5, <1>6 DEF VoiceInv

LEMMA EndsInv == ASSUME VoiceInv, Typed', NEW t \in Turns, Ends(t) PROVE VoiceInv'
<1>1. /\ turn \in [Turns -> TurnType] /\ entry \in EntryType /\ listener \in Turns \cup {NoTurn}
      /\ sock \in [Sockets -> SockType]
  BY DEF VoiceInv, Typed
<1>2. PICK what \in SUBSET {"error", "end"} : Finish(t, what)
  BY DEF Ends
<1>3. /\ turn'[t].stage = "finished" /\ turn'[t].reply.segment = <<>>
      /\ \A u \in Turns : u # t => turn'[u] = turn[u]
  BY <1>1, <1>2 DEF Finish, NewTurn, NewReply
<1>4. listener' \in {listener, NoTurn} /\ listener' # t
  BY <1>1, <1>2, VoiceConstants DEF Finish, ListenerRemoved
<1>5. Silent'
  BY <1>3 DEF VoiceInv, Silent
<1>6. ~Running(t)' /\ \A u \in Turns : u # t => (Running(u)' <=> Running(u))
  BY <1>3 DEF Running
<1>7. CASE entry.owner # t
  <2>1. UNCHANGED <<entry, sock>>
    BY <1>2, <1>7 DEF Finish
  <2>2. LiveOwns'
    BY <1>3, <1>6, <2>1 DEF VoiceInv, LiveOwns, Live
  <2>3. FinishedLetsGo'
    <3>1. entry.owner # NoTurn => entry.owner \in Turns /\ entry.owner # t
      BY <1>1, <1>7 DEF EntryType
    <3>2. listener' # NoTurn => listener' \in Turns /\ listener' = listener
      BY <1>1, <1>4
    <3> QED BY <1>3, <1>4, <1>6, <2>1, <3>1, <3>2 DEF VoiceInv, FinishedLetsGo
  <2>4. OwnersProcess' /\ CapturesListen'
    BY <2>1 DEF VoiceInv, OwnersProcess, CapturesListen
  <2> QED BY <1>5, <2>2, <2>3, <2>4 DEF VoiceInv
<1>8. CASE entry.owner = t
  <2>1. entry' = [entry EXCEPT !.owner = NoTurn, !.state = "idle"]
    BY <1>2, <1>8 DEF Finish
  <2>2. entry'.owner = NoTurn /\ entry'.ws = entry.ws
    BY <1>1, <2>1 DEF EntryType
  <2>3. LiveOwns'
    BY <1>3, <1>6, <1>8 DEF VoiceInv, LiveOwns, Live
  <2>4. FinishedLetsGo'
    <3>2. listener' # NoTurn => listener' \in Turns /\ listener' = listener
      BY <1>1, <1>4
    <3> QED BY <1>4, <1>6, <2>2, <3>2 DEF VoiceInv, FinishedLetsGo
  <2>5. OwnersProcess'
    BY <2>2 DEF OwnersProcess
  <2>6. CapturesListen'
    <3>1. entry.state = "processing"
      BY <1>8, VoiceConstants DEF VoiceInv, OwnersProcess
    <3>2. \A s \in Sockets : entry.ws = s => sock[s].state # "LISTENING"
      BY <3>1 DEF VoiceInv, CapturesListen
    <3>3. \A s \in Sockets : sock'[s].state \in {sock[s].state, "IDLE"}
      BY <1>1, <1>2, <1>8 DEF Finish, SockType
    <3> QED BY <2>2, <3>2, <3>3 DEF CapturesListen
  <2> QED BY <1>5, <2>3, <2>4, <2>5, <2>6 DEF VoiceInv
<1> QED BY <1>7, <1>8

\* An interruption: the owner is aborted and forgotten, so no turn is live.
LEMMA InterruptedInv ==
    ASSUME VoiceInv, Typed', turn' = OwnerAborted, entry'.owner = NoTurn, UNCHANGED listener, CapturesListen'
    PROVE  VoiceInv'
<1>1. turn \in [Turns -> TurnType] /\ entry.owner \in Turns \cup {NoTurn} /\ listener \in Turns \cup {NoTurn}
  BY DEF VoiceInv, Typed, EntryType
<1>2. ASSUME NEW t \in Turns
      PROVE  /\ Running(t)' <=> Running(t)
             /\ turn'[t].reply = turn[t].reply
             /\ turn'[t].aborted <=> turn[t].aborted \/ t = entry.owner
  <2>1. turn[t] \in TurnType
    BY <1>1
  <2> QED BY <1>1, <2>1, VoiceConstants DEF OwnerAborted, Running, TurnType
<1>3. Silent'
  BY <1>2 DEF VoiceInv, Silent, Running
<1>4. LiveOwns'
  BY <1>2 DEF VoiceInv, LiveOwns, Live
<1>5. FinishedLetsGo' /\ OwnersProcess'
  BY <1>1, <1>2 DEF VoiceInv, FinishedLetsGo, OwnersProcess
<1> QED BY <1>3, <1>4, <1>5 DEF VoiceInv

\* A new turn: nobody owns the registration, so no other turn is live.
LEMMA StartsInv ==
    ASSUME VoiceInv, Typed', NEW t \in Turns, NEW k, NEW g \in {"stt", "text"}, turn[t].stage = "unused",
           entry.owner = NoTurn, turn' = [turn EXCEPT ![t] = NewTurn(k, entry.ws, g)],
           entry' = [entry EXCEPT !.state = "processing", !.owner = t],
           UNCHANGED listener, CapturesListen'
    PROVE  VoiceInv'
<1>1. turn \in [Turns -> TurnType] /\ entry \in EntryType /\ listener \in Turns \cup {NoTurn}
  BY DEF VoiceInv, Typed
<1>2. /\ turn'[t].stage = g /\ turn'[t].ws = entry.ws
      /\ \A u \in Turns : u # t => turn'[u] = turn[u]
  BY <1>1 DEF NewTurn
<1>3. entry'.owner = t /\ entry'.state = "processing" /\ entry'.ws = entry.ws
  BY <1>1 DEF EntryType
<1>4. Running(t)' /\ \A u \in Turns : u # t => (Running(u)' <=> Running(u))
  BY <1>2 DEF Running
<1>5. Silent'
  BY <1>2, <1>4 DEF VoiceInv, Silent, Running
<1>6. LiveOwns'
  <2>1. \A u \in Turns : ~Live(u)
    BY VoiceConstants DEF VoiceInv, LiveOwns
  <2> QED BY <1>2, <1>3, <1>4, <2>1 DEF LiveOwns, Live
<1>7. FinishedLetsGo'
  BY <1>1, <1>2, <1>3, <1>4 DEF VoiceInv, FinishedLetsGo
<1> QED BY <1>3, <1>5, <1>6, <1>7 DEF VoiceInv, OwnersProcess

\* Steps that concern only sockets.
LEMMA QuietInv ==
    ASSUME VoiceInv, Typed', UNCHANGED <<turn, entry, listener>>,
           \A s \in Sockets : sock'[s].state \in {sock[s].state, "IDLE"}
    PROVE  VoiceInv'
<1>1. Silent' /\ LiveOwns' /\ FinishedLetsGo' /\ OwnersProcess'
  BY DEF VoiceInv, Silent, LiveOwns, Live, FinishedLetsGo, OwnersProcess, Running
<1>2. CapturesListen'
  BY DEF VoiceInv, CapturesListen
<1> QED BY <1>1, <1>2 DEF VoiceInv

LEMMA SocketInv == ASSUME VoiceInv, SocketNext PROVE VoiceInv'
<1>0. Typed /\ Typed' /\ sock \in [Sockets -> SockType] /\ entry \in EntryType /\ turn \in [Turns -> TurnType]
  BY SocketTyped DEF VoiceInv, Typed
<1>1. CASE RetireDevice
  BY <1>0, <1>1, QuietInv DEF RetireDevice
<1>2. CASE DispatchPrompt
  <2>1. CASE UNCHANGED <<entry, turn, events>>
    BY <1>0, <1>2, <2>1, QuietInv DEF DispatchPrompt
  <2>2. CASE ~UNCHANGED <<entry, turn, events>>
    <3>1. PICK t \in Turns :
             /\ turn[t].stage = "unused"
             /\ turn' = [turn EXCEPT ![t] = NewTurn("prompt", entry.ws, "text")]
             /\ entry' = [entry EXCEPT !.state = "processing", !.owner = t]
      BY <1>2, <2>2 DEF DispatchPrompt
    <3>2. entry.state \notin {"listening", "processing"} /\ UNCHANGED <<sock, listener>>
      BY <1>2, <2>2 DEF DispatchPrompt
    <3>3. entry.owner = NoTurn
      BY <3>2 DEF VoiceInv, OwnersProcess
    <3>4. entry'.ws = entry.ws
      BY <1>0, <3>1 DEF EntryType
    <3>5. CapturesListen'
      BY <3>2, <3>4 DEF VoiceInv, CapturesListen
    <3> QED BY <1>0, <3>1, <3>2, <3>3, <3>5, StartsInv
  <2> QED BY <2>1, <2>2
<1>3. ASSUME NEW s \in Sockets, Hello(s) PROVE VoiceInv'
  <2>1. /\ turn' = OwnerAborted /\ entry'.owner = NoTurn /\ entry'.ws = s /\ UNCHANGED listener
        /\ sock'[s].state = "IDLE"
    BY <1>0, <1>3 DEF Hello, Registered, Bind
  <2>2. CapturesListen'
    BY <2>1 DEF CapturesListen
  <2> QED BY <1>0, <2>1, <2>2, InterruptedInv
<1>4. ASSUME NEW s \in Sockets, RealtimeStart(s) PROVE VoiceInv'
  <2>1. \A r \in Sockets : sock'[r].state \in {sock[r].state, "IDLE"}
    BY <1>0, <1>4 DEF RealtimeStart, Bind
  <2> QED BY <1>0, <1>4, <2>1, QuietInv DEF RealtimeStart
<1>5. ASSUME NEW s \in Sockets, VoiceEnd(s) PROVE VoiceInv'
  <2>1. /\ sock[s].state = "LISTENING" /\ entry.ws = s /\ UNCHANGED listener
        /\ sock' = [sock EXCEPT ![s].state = "PROCESSING"]
    BY <1>5 DEF VoiceEnd, Continue, Authorized
  <2>2. PICK t \in Turns :
           /\ turn[t].stage = "unused"
           /\ turn' = [turn EXCEPT ![t] = NewTurn("voice", s, "stt")]
           /\ entry' = [entry EXCEPT !.state = "processing", !.owner = t]
    BY <1>5 DEF VoiceEnd
  <2>3. entry.owner = NoTurn
    BY <2>1 DEF VoiceInv, OwnersProcess, CapturesListen
  <2>4. entry'.ws = s /\ sock'[s].state = "PROCESSING"
    BY <1>0, <2>1, <2>2 DEF EntryType, SockType
  <2>5. CapturesListen'
    BY <2>4 DEF CapturesListen
  <2> QED BY <1>0, <2>1, <2>2, <2>3, <2>5, StartsInv
<1>6. ASSUME NEW s \in Sockets, Abort(s) PROVE VoiceInv'
  <2>1. /\ turn' = OwnerAborted /\ UNCHANGED listener
        /\ entry.ws = s /\ entry' = [entry EXCEPT !.state = "idle", !.owner = NoTurn]
        /\ sock' = [sock EXCEPT ![s].state = "IDLE"]
    BY <1>6 DEF Abort, Continue, Authorized
  <2>2. entry'.owner = NoTurn /\ entry'.ws = s /\ sock'[s].state = "IDLE"
    BY <1>0, <2>1 DEF EntryType, SockType
  <2>3. CapturesListen'
    BY <2>2 DEF CapturesListen
  <2> QED BY <1>0, <2>1, <2>2, <2>3, InterruptedInv
<1>7. ASSUME NEW s \in Sockets, ButtonPress(s) PROVE VoiceInv'
  BY <1>0, <1>7, QuietInv DEF ButtonPress
<1>8. ASSUME NEW s \in Sockets, Denied(s) \/ Disconnect(s) PROVE VoiceInv'
  <2>1. \A r \in Sockets : sock'[r].state = sock[r].state
    BY <1>0, <1>8 DEF Denied, Disconnect, SockType
  <2> QED BY <1>0, <1>8, <2>1, QuietInv DEF Denied, Disconnect
<1>9. ASSUME NEW s \in Sockets, Cleanup(s) \/ CloseRevokedSocket(s) PROVE VoiceInv'
  <2>1. \A r \in Sockets : sock'[r].state \in {sock[r].state, "IDLE"}
    BY <1>0, <1>9 DEF Cleanup, CloseRevokedSocket, SockType
  <2>2. UNCHANGED listener /\ (UNCHANGED <<entry, turn>> \/ (entry' = NoEntry /\ turn' = OwnerAborted))
    BY <1>9 DEF Cleanup, CloseRevokedSocket, Unregister
  <2>3. CASE UNCHANGED <<entry, turn>>
    BY <1>0, <2>1, <2>2, <2>3, QuietInv
  <2>4. CASE entry' = NoEntry /\ turn' = OwnerAborted
    <3>1. entry'.owner = NoTurn /\ CapturesListen'
      BY <2>4, VoiceConstants DEF NoEntry, CapturesListen
    <3> QED BY <1>0, <2>2, <2>4, <3>1, InterruptedInv
  <2> QED BY <2>2, <2>3, <2>4
<1>10. ASSUME NEW s \in Sockets, NEW available \in BOOLEAN, VoiceStart(s, available) PROVE VoiceInv'
  <2>1. turn' = OwnerAborted /\ UNCHANGED listener
    BY <1>10 DEF VoiceStart
  <2>2. entry'.owner = NoTurn
    BY <1>0, <1>10 DEF VoiceStart, Registered, EntryType
  <2>3. CASE available
    <3>1. entry'.ws = s /\ entry'.state = "listening"
      BY <1>10, <2>3 DEF VoiceStart, Registered
    <3>2. CapturesListen'
      BY <3>1 DEF CapturesListen
    <3> QED BY <1>0, <2>1, <2>2, <3>2, InterruptedInv
  <2>4. CASE ~available
    <3>1. entry'.ws = entry.ws /\ entry'.state = entry.state
      BY <1>0, <1>10, <2>4 DEF VoiceStart, EntryType
    <3>2. Bind(s, "IDLE") \/ Continue(s, "IDLE")
      BY <1>10, <2>4 DEF VoiceStart
    <3>3. \A r \in Sockets : sock'[r].state \in {sock[r].state, "IDLE"}
      BY <1>0, <3>2 DEF Bind, Continue, SockType
    <3>4. CapturesListen'
      BY <3>1, <3>3 DEF VoiceInv, CapturesListen
    <3> QED BY <1>0, <2>1, <2>2, <3>4, InterruptedInv
  <2> QED BY <2>3, <2>4
<1> QED BY <1>1, <1>2, <1>3, <1>4, <1>5, <1>6, <1>7, <1>8, <1>9, <1>10 DEF SocketNext

LEMMA StepInv == ASSUME VoiceInv, [Next]_vars PROVE VoiceInv'
<1>0. Typed
  BY DEF VoiceInv
<1>1. CASE SocketNext
  BY <1>1, SocketInv
<1>2. CASE AgentNext
  BY <1>0, <1>2, AgentTyped, NudgeInv
<1>3. ASSUME NEW t \in Turns, TurnStep(t) PROVE VoiceInv'
  <2>1. Typed' /\ Running(t) /\ (Ends(t) \/ \E y \in TurnType : Goes(t, y))
    BY <1>0, <1>3, TurnTyped DEF VoiceInv, Running
  <2> QED BY <2>1, EndsInv, GoesInv
<1>4. CASE UNCHANGED vars
  BY <1>4 DEF vars, socketVars, agentVars, VoiceInv, Typed, Silent, LiveOwns, Live, Running,
              FinishedLetsGo, OwnersProcess, CapturesListen
<1> QED BY <1>1, <1>2, <1>3, <1>4 DEF Next

LEMMA InvAlways == Spec => []VoiceInv
<1>1. Init => VoiceInv
  BY InitInv
<1>2. VoiceInv /\ [Next]_vars => VoiceInv'
  BY StepInv
<1> QED BY <1>1, <1>2, PTL DEF Spec

\* At most one turn of the device goes on unaborted, however sockets, buttons, agents and
\* retired credentials interleave (_voice_end, _dispatch_prompt, abort_active_turn).
THEOREM OneTurnAlways == Spec => []OneLiveTurn
<1>1. VoiceInv => OneLiveTurn
  BY DEF VoiceInv, LiveOwns, Live, OneLiveTurn
<1> QED BY <1>1, InvAlways, PTL

\* A finished turn owns neither the registration nor the agent's listener (the finally blocks of
\* _run, _dispatch_prompt and _route_via_agent).
THEOREM FinishedAlwaysLetsGo == Spec => []FinishedLetsGo
<1>1. VoiceInv => FinishedLetsGo
  BY DEF VoiceInv
<1> QED BY <1>1, InvAlways, PTL

\* Registration, sockets, turns, connections and answers have the shapes of the source's
\* dataclasses in every reachable state.
THEOREM VoiceTyped == Spec => []TypeOK
<1>1. VoiceInv => TypeOK
  BY DEF VoiceInv, Typed, TypeOK, EntryType, SockType, ConnType, AnswerType
<1> QED BY <1>1, InvAlways, PTL

-----------------------------------------------------------------------------
\* The device socket's handler leaves what the device has heard of a running turn.
LEMMA SocketsHush ==
    ASSUME Typed, SocketNext, NEW t \in Turns, Running(t)
    PROVE  turn'[t].told = turn[t].told /\ turn'[t].reply = turn[t].reply /\ turn'[t].stage = turn[t].stage
<1>0. turn \in [Turns -> TurnType] /\ turn[t] \in TurnType /\ entry.owner \in Turns \cup {NoTurn}
  BY DEF Typed, EntryType
<1>1. CASE UNCHANGED turn
  BY <1>1
<1>2. CASE turn' = OwnerAborted
  BY <1>0, <1>2, VoiceConstants DEF OwnerAborted, TurnType
<1>3. CASE \E u \in Turns : turn[u].stage = "unused" /\ \E x : turn' = [turn EXCEPT ![u] = x]
  <2>1. PICK u \in Turns : turn[u].stage = "unused" /\ \E x : turn' = [turn EXCEPT ![u] = x]
    BY <1>3
  <2>2. u # t
    BY <2>1 DEF Running
  <2> QED BY <1>0, <2>1, <2>2
<1>4. UNCHANGED turn \/ turn' = OwnerAborted
      \/ \E u \in Turns : turn[u].stage = "unused" /\ \E x : turn' = [turn EXCEPT ![u] = x]
  BY DEF SocketNext, RetireDevice, DispatchPrompt, Hello, VoiceStart, RealtimeStart, VoiceEnd, Abort,
         ButtonPress, Denied, Disconnect, Cleanup, CloseRevokedSocket, Unregister
<1> QED BY <1>1, <1>2, <1>3, <1>4

\* Only a step of the turn's own task makes the device hear more of it, and only through the fence.
LEMMA LouderHears ==
    ASSUME VoiceInv, Next, NEW t \in Turns, Running(t), Louder(turn[t], turn'[t])
    PROVE  Hears(t)
<1>0. Typed /\ turn \in [Turns -> TurnType] /\ turn[t] \in TurnType /\ Len(turn[t].reply.spoken) \in Nat
  <2>1. Typed /\ turn \in [Turns -> TurnType] /\ turn[t] \in TurnType
    BY DEF VoiceInv, Typed
  <2>2. turn[t].reply \in ReplyType
    BY <2>1 DEF TurnType
  <2>3. turn[t].reply.spoken \in Seq(Delta)
    BY <2>2 DEF ReplyType
  <2> QED BY <2>1, <2>3
<1>1. CASE SocketNext
  <2>1. turn'[t].told = turn[t].told /\ turn'[t].reply = turn[t].reply
    BY <1>0, <1>1, SocketsHush
  <2> QED BY <1>0, <2>1 DEF Louder
<1>2. CASE AgentNext
  <2>1. Nudged(turn[t], turn'[t])
    BY <1>0, <1>2, AgentTyped
  <2>2. turn'[t].told = turn[t].told /\ turn'[t].reply.spoken = turn[t].reply.spoken
    BY <1>0, <2>1 DEF Nudged, Called, TurnType
  <2> QED BY <1>0, <2>2 DEF Louder
<1>3. ASSUME NEW u \in Turns, TurnStep(u) PROVE Hears(t)
  <2>1. Ends(u) \/ \E y \in TurnType : Goes(u, y)
    BY <1>0, <1>3, TurnTyped DEF VoiceInv
  <2>2. CASE Ends(u)
    <3>1. PICK what \in SUBSET {"error", "end"} : Finish(u, what)
      BY <2>2 DEF Ends
    <3>2. CASE u # t
      <4>1. turn'[t] = turn[t]
        BY <1>0, <3>1, <3>2 DEF Finish
      <4> QED BY <1>0, <4>1 DEF Louder
    <3>3. CASE u = t
      <4>1. turn'[t].told = (turn[t].told \/ Tells(t, what)) /\ turn'[t].reply = NewReply
        BY <1>0, <3>1, <3>3 DEF Finish, NewTurn
      <4>2. Len(NewReply.spoken) = 0
        BY DEF NewReply
      <4>3. turn'[t].told /\ ~turn[t].told
        BY <1>0, <4>1, <4>2 DEF Louder
      <4> QED BY <4>1, <4>3 DEF Tells
    <3> QED BY <3>2, <3>3
  <2>3. CASE \E y \in TurnType : Goes(u, y)
    <3>1. PICK y \in TurnType : Goes(u, y)
      BY <2>3
    <3>2. CASE u # t
      <4>1. turn'[t] = turn[t]
        BY <1>0, <3>1, <3>2 DEF Goes
      <4> QED BY <1>0, <4>1 DEF Louder
    <3>3. CASE u = t
      BY <1>0, <3>1, <3>3 DEF Goes
    <3> QED BY <3>2, <3>3
  <2> QED BY <2>1, <2>2, <2>3
<1> QED BY <1>1, <1>2, <1>3 DEF Next

\* A voice turn that was aborted, or whose socket lost the registration, is not heard any more:
\* the fence of _VoiceTurnOutput covers every send of the pipeline.
THEOREM SilenceKept == Spec => SupersededIsSilent
<1> DEFINE Hushed ==
        \A t \in Turns :
            /\ turn[t].kind = "voice" /\ Running(t)
            /\ (turn'[t].told /\ ~turn[t].told) \/ Len(turn'[t].reply.spoken) > Len(turn[t].reply.spoken)
            => ~turn[t].aborted /\ entry.ws = turn[t].ws
<1>1. VoiceInv /\ [Next]_vars => [Hushed]_vars
  <2> SUFFICES ASSUME VoiceInv, Next PROVE Hushed
    OBVIOUS
  <2>1. ASSUME NEW t \in Turns, turn[t].kind = "voice", Running(t), Louder(turn[t], turn'[t])
        PROVE  ~turn[t].aborted /\ entry.ws = turn[t].ws
    BY <2>1, LouderHears DEF Hears
  <2> QED BY <2>1 DEF Louder
<1> QED BY <1>1, InvAlways, PTL DEF Spec, SupersededIsSilent

-----------------------------------------------------------------------------
\* What is retained does not wait for its credential to be retired: bound sockets, connections
\* that are or become an agent's, and routed turns that were not aborted, which alone name an agent.
SocketsHeld == \A s \in Sockets : sock[s].phase = "bound" => s \in retained
ConnsHeld == \A c \in Conns : conn[c].phase \in {"joining", "ready"} => c \in retained
TurnsHeld ==
    \A t \in Turns : turn[t].stage \in Routed /\ turn[t].agent \in Agents /\ ~turn[t].aborted => t \in retained
Unrouted == \A t \in Turns : turn[t].stage \notin Routed => turn[t].agent = NoAgent

RetainInv == SocketsHeld /\ ConnsHeld /\ TurnsHeld /\ Unrouted

LEMMA InitRetain == ASSUME Init PROVE RetainInv
  BY DEF Init, NewTurn, RetainInv, SocketsHeld, ConnsHeld, TurnsHeld, Unrouted, Routed

LEMMA SocketRetain == ASSUME Typed, RetainInv, SocketNext PROVE RetainInv'
<1>0. /\ sock \in [Sockets -> SockType] /\ turn \in [Turns -> TurnType]
      /\ entry.owner \in Turns \cup {NoTurn}
  BY DEF Typed, EntryType
<1>1. ASSUME NEW s \in Sockets, NEW state, Bind(s, state) \/ Continue(s, state)
      PROVE  SocketsHeld' /\ retained \subseteq retained'
  <2>1. CASE Bind(s, state)
    BY <1>0, <2>1 DEF Bind, RetainInv, SocketsHeld
  <2>2. CASE Continue(s, state)
    BY <1>0, <2>2 DEF Continue, RetainInv, SocketsHeld, SockType
  <2> QED BY <1>1, <2>1, <2>2
<1>2. ASSUME NEW s \in Sockets, Denied(s) \/ Disconnect(s) PROVE SocketsHeld' /\ retained' = retained
  BY <1>0, <1>2 DEF Denied, Disconnect, RetainInv, SocketsHeld, SockType
<1>3. ASSUME NEW s \in Sockets, Cleanup(s) \/ CloseRevokedSocket(s)
      PROVE  SocketsHeld' /\ retained' = retained \ {s}
  BY <1>0, <1>3 DEF Cleanup, CloseRevokedSocket, RetainInv, SocketsHeld, SockType
<1>4. ASSUME UNCHANGED <<sock, retained>> PROVE SocketsHeld'
  BY <1>4 DEF RetainInv, SocketsHeld
<1>5. /\ SocketsHeld'
      /\ retained \subseteq retained' \/ \E s \in Sockets : retained' = retained \ {s}
  <2>1. \/ UNCHANGED <<sock, retained>>
        \/ \E s \in Sockets : \/ Denied(s) \/ Disconnect(s) \/ Cleanup(s) \/ CloseRevokedSocket(s)
                              \/ \E state : Bind(s, state) \/ Continue(s, state)
    BY DEF SocketNext, RetireDevice, DispatchPrompt, Hello, VoiceStart, RealtimeStart, VoiceEnd, Abort, ButtonPress
  <2> QED BY <1>1, <1>2, <1>3, <1>4, <2>1
<1>6. \A x \in Conns \cup Turns : x \in retained => x \in retained'
  BY <1>5, VoiceConstants
<1>7. ConnsHeld'
  <2>1. UNCHANGED conn
    BY DEF SocketNext, RetireDevice, DispatchPrompt, Hello, VoiceStart, RealtimeStart, VoiceEnd, Abort,
           ButtonPress, Denied, Disconnect, Cleanup, CloseRevokedSocket, agentVars
  <2> QED BY <1>6, <2>1 DEF RetainInv, ConnsHeld
<1>8. \A t \in Turns :
         \/ /\ turn'[t].stage = turn[t].stage /\ turn'[t].agent = turn[t].agent
            /\ turn[t].aborted => turn'[t].aborted
         \/ turn'[t].agent = NoAgent
  <2>1. CASE UNCHANGED turn
    BY <2>1
  <2>2. CASE turn' = OwnerAborted
    <3>1. ASSUME NEW t \in Turns PROVE turn[t] \in TurnType
      BY <1>0
    <3> QED BY <1>0, <2>2, <3>1, VoiceConstants DEF OwnerAborted, TurnType
  <2>3. CASE DispatchPrompt /\ ~UNCHANGED turn
    <3>1. PICK u \in Turns : turn' = [turn EXCEPT ![u] = NewTurn("prompt", entry.ws, "text")]
      BY <2>3 DEF DispatchPrompt
    <3> QED BY <1>0, <3>1 DEF NewTurn
  <2>4. ASSUME NEW s \in Sockets, VoiceEnd(s)
        PROVE  \A t \in Turns : turn'[t] = turn[t] \/ turn'[t].agent = NoAgent
    <3>1. PICK u \in Turns : turn' = [turn EXCEPT ![u] = NewTurn("voice", s, "stt")]
      BY <2>4 DEF VoiceEnd
    <3> QED BY <1>0, <3>1 DEF NewTurn
  <2>5. UNCHANGED turn \/ turn' = OwnerAborted \/ DispatchPrompt \/ \E s \in Sockets : VoiceEnd(s)
    BY DEF SocketNext, RetireDevice, Hello, VoiceStart, RealtimeStart, Abort,
           ButtonPress, Denied, Disconnect, Cleanup, CloseRevokedSocket, Unregister
  <2> QED BY <2>1, <2>2, <2>3, <2>4, <2>5
<1>9. TurnsHeld' /\ Unrouted'
  BY <1>6, <1>8, VoiceConstants DEF RetainInv, TurnsHeld, Unrouted
<1> QED BY <1>5, <1>7, <1>9 DEF RetainInv

LEMMA AgentRetain == ASSUME Typed, RetainInv, AgentNext PROVE RetainInv'
<1>0. /\ conn \in [Conns -> ConnType] /\ turn \in [Turns -> TurnType] /\ UNCHANGED sock
      /\ \A t \in Turns : turn[t] \in TurnType /\ Nudged(turn[t], turn'[t])
  BY AgentTyped DEF Typed
<1>1. ASSUME NEW t \in Turns
      PROVE  /\ turn'[t].agent = turn[t].agent /\ (turn[t].aborted => turn'[t].aborted)
             /\ turn'[t].stage \in Routed <=> turn[t].stage \in Routed
  <2>1. turn[t] \in TurnType /\ (Called(turn[t], turn'[t]) \/ turn'[t] = [turn[t] EXCEPT !.aborted = TRUE])
    BY <1>0 DEF Nudged
  <2>2. CASE Called(turn[t], turn'[t])
    BY <2>2 DEF Called, Routed
  <2>3. CASE turn'[t] = [turn[t] EXCEPT !.aborted = TRUE]
    BY <2>1, <2>3, AbortTyped
  <2> QED BY <2>1, <2>2, <2>3
<1>2. ASSUME NEW c \in Conns, Auth(c) PROVE ConnsHeld' /\ retained \subseteq retained'
  BY <1>0, <1>2 DEF Auth, RetainInv, ConnsHeld, ConnType
<1>3. ASSUME NEW c \in Conns, AuthDone(c) \/ AgentDisconnect(c) PROVE ConnsHeld' /\ retained' = retained
  BY <1>0, <1>3 DEF AuthDone, AgentDisconnect, RetainInv, ConnsHeld, ConnType
<1>4. ASSUME NEW c \in Conns, AgentCleanup(c) \/ CloseRevokedAgent(c)
      PROVE  ConnsHeld' /\ retained' = retained \ {c}
  BY <1>0, <1>4 DEF AgentCleanup, CloseRevokedAgent, RetainInv, ConnsHeld, ConnType
<1>5. ASSUME NEW t \in Turns, CloseRevokedMedia(t)
      PROVE  ConnsHeld' /\ retained' = retained \ {t} /\ turn'[t].aborted
  <2>1. conn' = conn /\ retained' = retained \ {t} /\ turn'[t].aborted
    BY <1>0, <1>5 DEF CloseRevokedMedia, agentVars, TurnType
  <2> QED BY <2>1, VoiceConstants DEF RetainInv, ConnsHeld
<1>6. ASSUME NEW c \in Conns, NEW u \in Turns, NEW kind \in {"delta", "end", "error"}, Frame(c, u, kind)
      PROVE  ConnsHeld' /\ retained' = retained
  BY <1>0, <1>6 DEF Frame, RetainInv, ConnsHeld, ConnType
<1>7. ASSUME UNCHANGED <<conn, retained>> PROVE ConnsHeld'
  BY <1>7 DEF RetainInv, ConnsHeld
<1>8. /\ ConnsHeld'
      /\ \/ retained \subseteq retained' \/ \E c \in Conns : retained' = retained \ {c}
         \/ \E t \in Turns : retained' = retained \ {t} /\ turn'[t].aborted
  <2>1. \/ UNCHANGED <<conn, retained>> \/ \E t \in Turns : CloseRevokedMedia(t)
        \/ \E c \in Conns :
              \/ Auth(c) \/ AuthDone(c) \/ AgentDisconnect(c) \/ AgentCleanup(c) \/ CloseRevokedAgent(c)
              \/ \E u \in Turns, kind \in {"delta", "end", "error"} : Frame(c, u, kind)
    BY DEF AgentNext, Activate, RetireAgent
  <2> QED BY <1>2, <1>3, <1>4, <1>5, <1>6, <1>7, <2>1
<1>9. SocketsHeld'
  BY <1>0, <1>8, VoiceConstants DEF RetainInv, SocketsHeld
<1>10. TurnsHeld' /\ Unrouted'
  BY <1>1, <1>8, VoiceConstants DEF RetainInv, TurnsHeld, Unrouted
<1> QED BY <1>8, <1>9, <1>10 DEF RetainInv

LEMMA TurnRetain ==
    ASSUME Typed, Silent, RetainInv, NEW t \in Turns, TurnStep(t)
    PROVE  RetainInv'
<1>0. /\ turn \in [Turns -> TurnType] /\ sock \in [Sockets -> SockType]
      /\ Ends(t) \/ \E y \in TurnType : Goes(t, y)
  BY TurnTyped DEF Typed
<1>1. UNCHANGED conn
  BY DEF TurnStep, SttDone, Route, IdleFlush, Timeout, OnAbort, Drained, Failed, Apologise, ChatDone,
         SpeechDone, Synthesized, Wait, agentVars
<1>2. CASE Ends(t)
  <2>1. PICK what \in SUBSET {"error", "end"} : Finish(t, what)
    BY <1>2 DEF Ends
  <2>2. /\ retained' = retained \ {t} /\ turn'[t].stage = "finished" /\ turn'[t].agent = NoAgent
        /\ \A u \in Turns : u # t => turn'[u] = turn[u]
    BY <1>0, <2>1 DEF Finish, NewTurn
  <2>3. \A s \in Sockets : sock'[s].phase = sock[s].phase
    BY <1>0, <2>1 DEF Finish, SockType
  <2>4. SocketsHeld' /\ ConnsHeld'
    BY <1>1, <2>2, <2>3, VoiceConstants DEF RetainInv, SocketsHeld, ConnsHeld
  <2>5. TurnsHeld' /\ Unrouted'
    BY <2>2 DEF RetainInv, TurnsHeld, Unrouted, Routed
  <2> QED BY <2>4, <2>5 DEF RetainInv
<1>3. CASE \E y \in TurnType : Goes(t, y)
  <2>1. PICK y \in TurnType : Goes(t, y)
    BY <1>3
  <2>2. turn'[t] = y /\ \A u \in Turns : u # t => turn'[u] = turn[u]
    BY <1>0, <2>1 DEF Goes
  <2>3. UNCHANGED sock /\ retained \subseteq retained'
    BY <2>1 DEF Goes
  <2>4. SocketsHeld' /\ ConnsHeld'
    BY <1>1, <2>3 DEF RetainInv, SocketsHeld, ConnsHeld
  <2>5. ASSUME retained' = retained \cup {t}, y.stage \in Routed PROVE TurnsHeld' /\ Unrouted'
    BY <2>2, <2>5 DEF RetainInv, TurnsHeld, Unrouted
  <2>6. ASSUME retained' = retained, y.agent = turn[t].agent, turn[t].stage \in Routed => y.stage \in Routed
        PROVE  TurnsHeld' /\ Unrouted'
    <3>1. y.aborted = turn[t].aborted
      BY <2>1 DEF Goes
    <3> QED BY <2>2, <2>6, <3>1, VoiceConstants DEF RetainInv, TurnsHeld, Unrouted
  <2>7. TurnsHeld' /\ Unrouted'
    BY <2>1, <2>5, <2>6 DEF Goes
  <2> QED BY <2>4, <2>7 DEF RetainInv
<1> QED BY <1>0, <1>2, <1>3

\* Whatever acts under a credential is where the teardown looks for it, before and after the
\* credential is retired (auth_connections.retain in _authorize_message, _handle_auth and
\* retain_media_turn).
THEOREM StaleStaysRetained == Spec => []StaleIsRetained
<1>1. Init => RetainInv
  BY InitRetain
<1>2. VoiceInv /\ RetainInv /\ [Next]_vars => RetainInv'
  <2> SUFFICES ASSUME VoiceInv, RetainInv, [Next]_vars PROVE RetainInv'
    OBVIOUS
  <2>1. Typed /\ Silent
    BY DEF VoiceInv
  <2>2. CASE UNCHANGED vars
    BY <2>2 DEF vars, socketVars, agentVars, RetainInv, SocketsHeld, ConnsHeld, TurnsHeld, Unrouted
  <2>3. CASE Next
    BY <2>1, <2>3, SocketRetain, AgentRetain, TurnRetain DEF Next
  <2> QED BY <2>2, <2>3
<1>3. RetainInv => StaleIsRetained
  BY DEF RetainInv, SocketsHeld, ConnsHeld, TurnsHeld, StaleIsRetained, Routed
<1> QED BY <1>1, <1>2, <1>3, InvAlways, PTL DEF Spec

-----------------------------------------------------------------------------
\* The last step of a turn that nobody aborted says something, and the fence lets it through: a
\* live turn owns the registration and writes to its socket.
LEMMA LastWord ==
    ASSUME VoiceInv, Next, NEW t \in Turns, Running(t), turn'[t].stage = "finished", ~turn[t].aborted,
           ~Closed(turn[t].ws)
    PROVE  turn'[t].told
<1>0. Typed /\ turn \in [Turns -> TurnType] /\ turn[t] \in TurnType
  BY DEF VoiceInv, Typed
<1>1. turn[t].stage \notin {"unused", "finished"}
  BY DEF Running
<1>2. CASE SocketNext
  BY <1>0, <1>1, <1>2, SocketsHush
<1>3. CASE AgentNext
  <2>1. Nudged(turn[t], turn'[t])
    BY <1>0, <1>3, AgentTyped
  <2> QED BY <1>0, <1>1, <2>1 DEF Nudged, Called, TurnType
<1>4. ASSUME NEW u \in Turns, TurnStep(u) PROVE turn'[t].told
  <2>1. Ends(u) \/ \E y \in TurnType : Goes(u, y)
    BY <1>0, <1>4, TurnTyped DEF VoiceInv
  <2>2. CASE \E y \in TurnType : Goes(u, y)
    BY <1>0, <1>1, <2>2 DEF Goes
  <2>3. CASE Ends(u)
    <3>1. PICK what \in SUBSET {"error", "end"} : Finish(u, what) /\ (turn[u].aborted \/ what # {})
      BY <2>3 DEF Ends
    <3>2. u = t
      BY <1>0, <1>1, <3>1 DEF Finish
    <3>3. turn'[t].told = (turn[t].told \/ Tells(t, what))
      BY <1>0, <3>1, <3>2 DEF Finish, NewTurn
    <3>4. entry.owner = t /\ turn[t].ws = entry.ws
      BY VoiceConstants DEF VoiceInv, LiveOwns, Live, FinishedLetsGo
    <3>5. Tells(t, what)
      BY <3>1, <3>2, <3>4 DEF Tells, Hears
    <3> QED BY <3>3, <3>5
  <2> QED BY <2>1, <2>2, <2>3
<1> QED BY <1>2, <1>3, <1>4 DEF Next

\* A turn that ends without having been aborted has told the device so, on every path of the
\* pipeline (run_voice_turn, run_text_turn and both routes), as long as its socket is open.
THEOREM DeviceAlwaysTold == Spec => DeviceIsTold
<1> DEFINE Told ==
        \A t \in Turns : Running(t) /\ turn'[t].stage = "finished" /\ ~turn[t].aborted /\ ~Closed(turn[t].ws)
           => turn'[t].told
<1>1. VoiceInv /\ [Next]_vars => [Told]_vars
  BY LastWord
<1> QED BY <1>1, InvAlways, PTL DEF Spec, DeviceIsTold
-----------------------------------------------------------------------------
(***************************************************************************)
(* Order.  What the listener accepted is cut into consecutive parts: what  *)
(* was spoken, the segment being spoken, the items of the queue and the    *)
(* buffer of the segmenter.  c[i] is where the i-th item ends, c[0] where  *)
(* the segment does.                                                       *)
(***************************************************************************)
\* q is the part of a after the first m elements, up to the n-th.
Part(q, a, m, n) ==
    /\ m \in Nat /\ n \in Nat /\ m <= n /\ n <= Len(a)
    /\ Len(q) = n - m /\ \A j \in 1 .. n - m : q[j] = a[m + j]

\* The places c cut a into a spoken part, a segment, the items and, if it is whole, a buffer.
Cut(spoken, segment, items, buffer, a, whole, c) ==
    /\ Part(segment, a, Len(spoken), c[0])
    /\ \A i \in 1 .. Len(items) : Part(items[i], a, c[i - 1], c[i])
    /\ c[Len(items)] <= Len(a)
    /\ whole => Part(buffer, a, c[Len(items)], Len(a))

CutUp(spoken, segment, items, buffer, a, whole) ==
    \E c \in [Nat -> Nat] : Cut(spoken, segment, items, buffer, a, whole, c)

Placed(r, whole) == CutUp(r.spoken, r.segment, r.items, r.buffer, r.accepted, whole)

Prefix(r) == Part(r.spoken, r.accepted, 0, Len(r.spoken))

\* After a failure the segmenter has dropped its buffer.
InOrder(x, clear) ==
    /\ ~x.reply.lost => Prefix(x.reply)
    /\ ~x.reply.lost /\ ~x.aborted /\ clear => Placed(x.reply, x.stage # "failing")
    /\ x.stage = "draining" => x.reply.buffer = <<>>

\* What the provers are told of sequences whose elements are sequences themselves.
LEMMA TailFacts ==
    ASSUME NEW S, NEW q \in Seq(S), q # <<>>
    PROVE  /\ Len(q) \in Nat /\ Len(q) >= 1 /\ Len(Tail(q)) = Len(q) - 1
           /\ Head(q) = q[1] /\ \A i \in 1 .. Len(q) - 1 : Tail(q)[i] = q[i + 1]
  OBVIOUS

LEMMA AppendFacts ==
    ASSUME NEW S, NEW q \in Seq(S), NEW x \in S
    PROVE  /\ Len(q) \in Nat /\ Len(Append(q, x)) = Len(q) + 1
           /\ Append(q, x)[Len(q) + 1] = x /\ \A i \in 1 .. Len(q) : Append(q, x)[i] = q[i]
  OBVIOUS

\* Shifted cut points.
LEMMA ShiftFacts ==
    ASSUME NEW c \in [Nat -> Nat]
    PROVE  \E e \in [Nat -> Nat] : \A i \in Nat : e[i] = c[i + 1]
<1>1. [n \in Nat |-> c[n + 1]] \in [Nat -> Nat]
  OBVIOUS
<1> QED BY <1>1

\* Parts: an empty one, one of a longer answer, one that grows with it, two that join, a prefix.
LEMMA PartNone ==
    ASSUME NEW a \in Seq(Delta), NEW m \in 0 .. Len(a)
    PROVE  Part(<<>>, a, m, m)
  BY DEF Part

LEMMA PartKept ==
    ASSUME NEW q, NEW a \in Seq(Delta), NEW d \in Delta, NEW m, NEW n, Part(q, a, m, n)
    PROVE  Part(q, Append(a, d), m, n)
<1>1. Len(a) \in Nat /\ Len(Append(a, d)) = Len(a) + 1
  OBVIOUS
<1>2. \A i \in 1 .. Len(a) : Append(a, d)[i] = a[i]
  OBVIOUS
<1>3. \A j \in 1 .. n - m : m + j \in 1 .. Len(a)
  BY <1>1 DEF Part
<1> QED BY <1>1, <1>2, <1>3 DEF Part

LEMMA PartGrows ==
    ASSUME NEW q \in Seq(Delta), NEW a \in Seq(Delta), NEW d \in Delta, NEW m, Part(q, a, m, Len(a))
    PROVE  Part(Append(q, d), Append(a, d), m, Len(a) + 1)
<1>0. /\ Len(a) \in Nat /\ Len(Append(a, d)) = Len(a) + 1
      /\ Len(q) \in Nat /\ Len(Append(q, d)) = Len(q) + 1
  OBVIOUS
<1>1. m \in Nat /\ m <= Len(a) /\ Len(q) = Len(a) - m
  BY DEF Part
<1>2. ASSUME NEW j \in 1 .. (Len(a) + 1) - m PROVE Append(q, d)[j] = Append(a, d)[m + j]
  <2>1. CASE j <= Len(q)
    <3>1. j \in 1 .. Len(q) /\ m + j \in 1 .. Len(a)
      BY <1>0, <1>1, <2>1
    <3>2. Append(q, d)[j] = q[j] /\ Append(a, d)[m + j] = a[m + j]
      BY <3>1
    <3>3. q[j] = a[m + j]
      BY <1>1, <3>1 DEF Part
    <3> QED BY <3>2, <3>3
  <2>2. CASE j = Len(q) + 1
    <3>1. m + j = Len(a) + 1
      BY <1>0, <1>1, <2>2
    <3>2. Append(q, d)[Len(q) + 1] = d /\ Append(a, d)[Len(a) + 1] = d
      OBVIOUS
    <3> QED BY <2>2, <3>1, <3>2, Zenon
  <2>3. j <= Len(q) \/ j = Len(q) + 1
    BY <1>0, <1>1
  <2> QED BY <2>1, <2>2, <2>3
<1>3. /\ m \in Nat /\ Len(a) + 1 \in Nat /\ m <= Len(a) + 1 /\ Len(a) + 1 <= Len(Append(a, d))
      /\ Len(Append(q, d)) = (Len(a) + 1) - m
  BY <1>0, <1>1
<1>4. \A j \in 1 .. (Len(a) + 1) - m : Append(q, d)[j] = Append(a, d)[m + j]
  BY <1>2, Zenon
<1> QED BY <1>3, <1>4, Zenon DEF Part

LEMMA PartJoin ==
    ASSUME NEW p \in Seq(Delta), NEW q \in Seq(Delta), NEW a, NEW m, NEW n,
           Part(p, a, 0, m), Part(q, a, m, n)
    PROVE  Part(p \o q, a, 0, n) /\ Len(p \o q) = n
<1>0. Len(p) \in Nat /\ Len(q) \in Nat /\ Len(p \o q) = Len(p) + Len(q)
  OBVIOUS
<1>1. /\ Len(p) = m /\ m \in Nat /\ n \in Nat /\ Len(q) = n - m /\ m <= n /\ n <= Len(a)
      /\ Len(p \o q) = n
  <2>1. /\ m \in Nat /\ n \in Nat /\ Len(p) = m - 0 /\ Len(q) = n - m /\ m <= n /\ n <= Len(a)
    BY Zenon DEF Part
  <2> QED BY <1>0, <2>1
<1>2. ASSUME NEW j \in 1 .. n PROVE (p \o q)[j] = a[j]
  <2>1. CASE j <= m
    <3>1. (p \o q)[j] = p[j]
      BY <1>1, <2>1
    <3>2. p[j] = a[0 + j]
      BY <1>1, <2>1 DEF Part
    <3> QED BY <3>1, <3>2
  <2>2. CASE j > m
    <3>1. (p \o q)[j] = q[j - m]
      BY <1>1, <2>2, ConcatProperties
    <3>2. j - m \in 1 .. n - m
      BY <1>1, <2>2
    <3>3. q[j - m] = a[m + (j - m)]
      BY <3>2 DEF Part
    <3> QED BY <1>1, <3>1, <3>3
  <2> QED BY <1>1, <2>1, <2>2
<1> QED BY <1>1, <1>2 DEF Part

LEMMA PrefixIs ==
    ASSUME NEW p \in Seq(Delta), NEW a \in Seq(Delta), Part(p, a, 0, Len(p))
    PROVE  Len(p) \in 0 .. Len(a) /\ p = SubSeq(a, 1, Len(p))
<1>1. Len(p) \in Nat /\ Len(p) <= Len(a) /\ \A j \in 1 .. Len(p) : p[j] = a[j]
  BY DEF Part
<1>2. \A i \in 1 .. Len(p) : a[i] \in Delta
  BY <1>1
<1>3. /\ SubSeq(a, 1, Len(p)) \in Seq(Delta) /\ Len(SubSeq(a, 1, Len(p))) = Len(p)
      /\ \A i \in 1 .. Len(p) : SubSeq(a, 1, Len(p))[i] = a[i]
  BY <1>1, <1>2, SubSeqProperties
<1> QED BY <1>1, <1>3, SeqEqual

-----------------------------------------------------------------------------
\* A reply that has accepted nothing.
LEMMA NothingCut == CutUp(<<>>, <<>>, <<>>, <<>>, <<>>, TRUE) /\ CutUp(<<>>, <<>>, <<>>, <<>>, <<>>, FALSE)
<1>1. [n \in Nat |-> 0] \in [Nat -> Nat] /\ [n \in Nat |-> 0][0] = 0
  OBVIOUS
<1>2. PICK c \in [Nat -> Nat] : c[0] = 0
  BY <1>1
<1>3. Part(<<>>, <<>>, 0, 0)
  BY DEF Part
<1>4. Cut(<<>>, <<>>, <<>>, <<>>, <<>>, TRUE, c) /\ Cut(<<>>, <<>>, <<>>, <<>>, <<>>, FALSE, c)
  BY <1>2, <1>3 DEF Cut
<1> QED BY <1>4 DEF CutUp

\* The worker takes the first item: it ends where it ended in the queue.
LEMMA HeadCut ==
    ASSUME NEW spoken \in Seq(Delta), NEW T, NEW items \in Seq(T), items # <<>>,
           NEW buffer, NEW a \in Seq(Delta), NEW whole,
           CutUp(spoken, <<>>, items, buffer, a, whole)
    PROVE  CutUp(spoken, Head(items), Tail(items), buffer, a, whole)
<1>1. PICK c \in [Nat -> Nat] : Cut(spoken, <<>>, items, buffer, a, whole, c)
  BY DEF CutUp
<1>2. PICK e \in [Nat -> Nat] : \A i \in Nat : e[i] = c[i + 1]
  BY ShiftFacts
<1> DEFINE rest == Tail(items)
<1>3. /\ Len(items) \in Nat /\ Len(items) >= 1 /\ Len(rest) = Len(items) - 1
      /\ Head(items) = items[1] /\ \A i \in 1 .. Len(items) - 1 : rest[i] = items[i + 1]
  BY TailFacts
<1> HIDE DEF rest
<1>4. c[0] = Len(spoken)
  <2>1. Part(<<>>, a, Len(spoken), c[0])
    BY <1>1 DEF Cut
  <2>2. Len(spoken) \in Nat /\ c[0] \in Nat /\ Len(<<>>) = 0
    OBVIOUS
  <2>3. Len(<<>>) = c[0] - Len(spoken)
    BY <2>1, Zenon DEF Part
  <2> QED BY <2>2, <2>3
<1>5. Part(Head(items), a, Len(spoken), e[0])
  <2>1. 1 \in 1 .. Len(items) /\ 1 - 1 = 0 /\ 0 + 1 = 1 /\ 0 \in Nat
    BY <1>3
  <2>2. Part(items[1], a, c[1 - 1], c[1])
    BY <1>1, <2>1, Zenon DEF Cut
  <2>3. e[0] = c[0 + 1]
    BY <1>2, <2>1, Zenon
  <2> QED BY <1>3, <1>4, <2>1, <2>2, <2>3, Zenon
<1>6. ASSUME NEW i \in 1 .. Len(rest) PROVE Part(rest[i], a, e[i - 1], e[i])
  <2>1. /\ i + 1 \in 1 .. Len(items) /\ i \in 1 .. Len(items) - 1 /\ i \in Nat /\ i - 1 \in Nat
        /\ (i - 1) + 1 = i /\ (i + 1) - 1 = i
    BY <1>3
  <2>2. Part(items[i + 1], a, c[(i + 1) - 1], c[i + 1])
    BY <1>1, <2>1, Zenon DEF Cut
  <2>3. e[i - 1] = c[(i - 1) + 1] /\ e[i] = c[i + 1] /\ rest[i] = items[i + 1]
    BY <1>2, <1>3, <2>1, Zenon
  <2> QED BY <2>1, <2>2, <2>3, Zenon
<1>7. e[Len(rest)] = c[Len(items)]
  <2>1. Len(rest) \in Nat /\ Len(rest) + 1 = Len(items)
    BY <1>3
  <2> QED BY <1>2, <2>1, Zenon
<1>8. Cut(spoken, Head(items), rest, buffer, a, whole, e)
  BY <1>1, <1>5, <1>6, <1>7, Zenon DEF Cut
<1> QED BY <1>8, Zenon DEF CutUp, rest

\* A flush makes the buffer the last item.
LEMMA BufferCut ==
    ASSUME NEW spoken, NEW segment, NEW T, NEW items \in Seq(T), NEW buffer \in T,
           NEW a \in Seq(Delta),
           CutUp(spoken, segment, items, buffer, a, TRUE)
    PROVE  CutUp(spoken, segment, Append(items, buffer), <<>>, a, TRUE)
<1>1. PICK c \in [Nat -> Nat] : Cut(spoken, segment, items, buffer, a, TRUE, c)
  BY DEF CutUp
<1> DEFINE more == Append(items, buffer)
<1>11. Len(items) \in Nat /\ Len(a) \in Nat
  OBVIOUS
<1>12. PICK k \in Nat : k = Len(items) + 1
  BY <1>11
<1>2. /\ Len(items) \in Nat /\ Len(more) = k
      /\ more[k] = buffer /\ \A i \in 1 .. Len(items) : more[i] = items[i]
  BY <1>12, AppendFacts
<1>3. k \in Nat /\ k # 0 /\ k # Len(items) /\ k - 1 = Len(items) /\ Len(a) \in Nat
  BY <1>11, <1>12
<1>4. \A i \in 1 .. k : i # k => /\ i \in 1 .. k - 1 /\ i \in Nat /\ i - 1 \in Nat /\ i - 1 # k
  OBVIOUS
<1> HIDE DEF more
<1>5. PICK e \in [Nat -> Nat] : e[k] = Len(a) /\ \A i \in Nat : i # k => e[i] = c[i]
  <2>1. PICK v \in Nat : v = Len(a)
    BY <1>3, Zenon
  <2>2. \E e \in [Nat -> Nat] : e[k] = v /\ \A i \in Nat : i # k => e[i] = c[i]
    <3> DEFINE f == [c EXCEPT ![k] = v]
    <3>1. f \in [Nat -> Nat]
      OBVIOUS
    <3>2. f[k] = v /\ \A i \in Nat : i # k => f[i] = c[i]
      OBVIOUS
    <3> HIDE DEF f
    <3> QED BY <3>1, <3>2, Zenon
  <2> QED BY <2>1, <2>2, Zenon
<1>6. Part(segment, a, Len(spoken), e[0])
  <2>1. 0 \in Nat
    OBVIOUS
  <2> QED BY <1>1, <1>3, <1>5, <2>1, Zenon DEF Cut
<1>7. ASSUME NEW i \in 1 .. Len(more) PROVE Part(more[i], a, e[i - 1], e[i])
  <2>1. CASE i = k
    <3>1. Part(buffer, a, c[Len(items)], Len(a))
      BY <1>1, Zenon DEF Cut
    <3>2. e[i - 1] = c[Len(items)] /\ e[i] = Len(a) /\ more[i] = buffer
      BY <1>2, <1>3, <1>5, <2>1, Zenon
    <3> QED BY <3>1, <3>2, Zenon
  <2>2. CASE i # k
    <3>1. i \in 1 .. Len(items) /\ i \in Nat /\ i - 1 \in Nat /\ i - 1 # k
      BY <1>2, <1>3, <1>4, <2>2, Zenon
    <3>2. e[i - 1] = c[i - 1] /\ e[i] = c[i] /\ more[i] = items[i]
      BY <1>2, <1>5, <2>2, <3>1, Zenon
    <3> QED BY <1>1, <3>1, <3>2, Zenon DEF Cut
  <2> QED BY <2>1, <2>2
<1>8. e[Len(more)] = Len(a)
  BY <1>2, <1>5, Zenon
<1>9. Part(<<>>, a, Len(a), Len(a)) /\ Len(a) <= Len(a)
  <2>1. Len(a) \in 0 .. Len(a) /\ Len(a) <= Len(a)
    BY <1>3
  <2> QED BY <2>1, PartNone
<1>10. Cut(spoken, segment, more, <<>>, a, TRUE, e)
  BY <1>6, <1>7, <1>8, <1>9, Zenon DEF Cut
<1> QED BY <1>10, Zenon DEF CutUp, more

\* A delta that is accepted joins the buffer.
LEMMA DeltaCut ==
    ASSUME NEW spoken, NEW segment, NEW items, NEW buffer \in Seq(Delta),
           NEW a \in Seq(Delta), NEW d \in Delta,
           CutUp(spoken, segment, items, buffer, a, TRUE)
    PROVE  CutUp(spoken, segment, items, Append(buffer, d), Append(a, d), TRUE)
<1>1. PICK c \in [Nat -> Nat] : Cut(spoken, segment, items, buffer, a, TRUE, c)
  BY DEF CutUp
<1>2. Part(segment, Append(a, d), Len(spoken), c[0])
  <2>1. Part(segment, a, Len(spoken), c[0])
    BY <1>1, Zenon DEF Cut
  <2> QED BY <2>1, PartKept, Zenon
<1>3. ASSUME NEW i \in 1 .. Len(items) PROVE Part(items[i], Append(a, d), c[i - 1], c[i])
  <2>1. Part(items[i], a, c[i - 1], c[i])
    BY <1>1, Zenon DEF Cut
  <2> QED BY <2>1, PartKept, Zenon
<1>4. Part(Append(buffer, d), Append(a, d), c[Len(items)], Len(Append(a, d)))
  <2>1. Part(buffer, a, c[Len(items)], Len(a))
    BY <1>1, Zenon DEF Cut
  <2>2. Len(Append(a, d)) = Len(a) + 1
    BY AppendFacts
  <2> QED BY <2>1, <2>2, PartGrows, Zenon
<1>5. c[Len(items)] <= Len(Append(a, d))
  BY <1>4, Zenon DEF Part
<1>6. Cut(spoken, segment, items, Append(buffer, d), Append(a, d), TRUE, c)
  BY <1>2, <1>3, <1>4, <1>5, Zenon DEF Cut
<1> QED BY <1>6, Zenon DEF CutUp

\* The segment has been spoken.
LEMMA SpokenCut ==
    ASSUME NEW spoken \in Seq(Delta), NEW segment \in Seq(Delta), NEW items, NEW buffer,
           NEW a \in Seq(Delta), NEW whole, Part(spoken, a, 0, Len(spoken)),
           CutUp(spoken, segment, items, buffer, a, whole)
    PROVE  /\ CutUp(spoken \o segment, <<>>, items, buffer, a, whole)
           /\ Part(spoken \o segment, a, 0, Len(spoken \o segment))
<1>1. PICK c \in [Nat -> Nat] : Cut(spoken, segment, items, buffer, a, whole, c)
  BY DEF CutUp
<1>2. Part(segment, a, Len(spoken), c[0])
  BY <1>1, Zenon DEF Cut
<1>3. Part(spoken \o segment, a, 0, c[0]) /\ Len(spoken \o segment) = c[0]
  BY <1>2, PartJoin, Zenon
<1>4. Part(<<>>, a, Len(spoken \o segment), c[0])
  <2>1. c[0] <= Len(a) /\ c[0] \in Nat
    BY <1>2, Zenon DEF Part
  <2>2. c[0] \in 0 .. Len(a)
    BY <2>1
  <2> QED BY <1>3, <2>2, PartNone, Zenon
<1>5. Cut(spoken \o segment, <<>>, items, buffer, a, whole, c)
  BY <1>1, <1>4, Zenon DEF Cut
<1> QED BY <1>3, <1>5, Zenon DEF CutUp

\* Nothing is left to speak.
LEMMA AllSpoken ==
    ASSUME NEW spoken \in Seq(Delta), NEW a \in Seq(Delta), Part(spoken, a, 0, Len(spoken)),
           CutUp(spoken, <<>>, <<>>, <<>>, a, TRUE)
    PROVE  spoken = a
<1>1. PICK c \in [Nat -> Nat] : Cut(spoken, <<>>, <<>>, <<>>, a, TRUE, c)
  BY DEF CutUp
<1>2. Part(<<>>, a, Len(spoken), c[0]) /\ Part(<<>>, a, c[0], Len(a))
  <2>1. Len(<<>>) = 0
    OBVIOUS
  <2> QED BY <1>1, <2>1, Zenon DEF Cut
<1>3. Len(<<>>) = c[0] - Len(spoken) /\ Len(<<>>) = Len(a) - c[0]
  BY <1>2, Zenon DEF Part
<1>4. Len(<<>>) = 0 /\ c[0] \in Nat /\ Len(spoken) \in Nat /\ Len(a) \in Nat
  OBVIOUS
<1>5. Len(spoken) = Len(a)
  BY <1>3, <1>4
<1>6. spoken = SubSeq(a, 1, Len(spoken))
  BY PrefixIs
<1>7. SubSeq(a, 1, Len(a)) = a
  BY SubSeqFull
<1> QED BY <1>5, <1>6, <1>7, Zenon
\* The worker of a live turn waits only when there is nothing to speak: no item is empty, and
\* none waits beside an idle worker.
Filled(q) == \A i \in 1 .. Len(q) : q[i] # <<>>
Busy(r, aborted) == Filled(r.items) /\ (r.items # <<>> /\ ~aborted => r.segment # <<>>)
Worked(x) == Busy(x.reply, x.aborted)

\* Every step of a turn but a synthesis keeps what InOrder says of it, however the socket is,
\* and its worker at work.
Carries(x, y) ==
    /\ \A clear \in BOOLEAN : InOrder(x, clear) => InOrder(y, clear)
    /\ Worked(x) => Worked(y)

LEMMA FreshWorked == ASSUME NEW x, x.reply = NewReply PROVE Worked(x)
  BY DEF Worked, Busy, Filled, NewReply

\* An idle worker takes what comes.
LEMMA FeedBusy ==
    ASSUME NEW r \in ReplyType, NEW b \in BOOLEAN, Filled(r.items)
    PROVE  Busy(Feed(r, b), b)
<1>1. r.items \in Seq(Seq(Delta))
  BY DEF ReplyType
<1>2. CASE r.segment # <<>> \/ r.items = <<>> \/ b
  BY <1>2 DEF Feed, Busy
<1>3. CASE ~(r.segment # <<>> \/ r.items = <<>> \/ b)
  <2> DEFINE y == Feed(r, b)
  <2>1. y.segment = Head(r.items) /\ y.items = Tail(r.items)
    BY <1>3 DEF Feed, ReplyType
  <2> HIDE DEF y
  <2>2. /\ Len(r.items) \in Nat /\ Len(r.items) >= 1 /\ Len(Tail(r.items)) = Len(r.items) - 1
        /\ Head(r.items) = r.items[1] /\ \A i \in 1 .. Len(r.items) - 1 : Tail(r.items)[i] = r.items[i + 1]
    BY <1>1, <1>3, TailFacts
  <2>3. Head(r.items) # <<>>
    BY <2>2 DEF Filled
  <2>4. Filled(Tail(r.items))
    <3>1. ASSUME NEW i \in 1 .. Len(r.items) - 1 PROVE Tail(r.items)[i] # <<>>
      <4>1. i + 1 \in 1 .. Len(r.items) /\ Tail(r.items)[i] = r.items[i + 1]
        BY <2>2
      <4> QED BY <4>1 DEF Filled
    <3> QED BY <2>2, <3>1 DEF Filled
  <2>5. Busy(y, b)
    BY <2>1, <2>3, <2>4 DEF Busy
  <2> QED BY <2>5 DEF y
<1> QED BY <1>2, <1>3

LEMMA FlushedBusy ==
    ASSUME NEW r \in ReplyType, NEW b \in BOOLEAN, Busy(r, b)
    PROVE  Busy(Flushed(r, b), b)
<1>1. CASE r.buffer = <<>>
  BY <1>1 DEF Flushed
<1>2. CASE r.buffer # <<>>
  <2> DEFINE q == Append(r.items, r.buffer)
             y == [r EXCEPT !.items = q, !.buffer = <<>>]
  <2>1. r.items \in Seq(Seq(Delta)) /\ r.buffer \in Seq(Delta) /\ <<>> \in Seq(Delta)
    BY DEF ReplyType
  <2>2. /\ Len(r.items) \in Nat /\ q \in Seq(Seq(Delta)) /\ Len(q) = Len(r.items) + 1
        /\ q[Len(r.items) + 1] = r.buffer /\ \A i \in 1 .. Len(r.items) : q[i] = r.items[i]
    BY <2>1, AppendFacts
  <2> HIDE DEF q
  <2>3. y \in ReplyType /\ y.items = q
    BY <2>1, <2>2 DEF ReplyType
  <2>4. Filled(q)
    <3>1. ASSUME NEW i \in 1 .. Len(r.items) + 1 PROVE q[i] # <<>>
      <4>1. i = Len(r.items) + 1 \/ i \in 1 .. Len(r.items)
        BY <2>2
      <4> QED BY <1>2, <2>2, <4>1 DEF Busy, Filled
    <3> QED BY <2>2, <3>1 DEF Filled
  <2>5. Flushed(r, b) = Feed(y, b)
    BY <1>2 DEF Flushed, q
  <2> HIDE DEF y
  <2>6. Busy(Feed(y, b), b)
    BY <2>3, <2>4, FeedBusy
  <2> QED BY <2>5, <2>6
<1> QED BY <1>1, <1>2

\* A turn that starts, ends or apologises has a new reply.
LEMMA FreshOrder ==
    ASSUME NEW x, x.reply = NewReply, NEW clear
    PROVE  InOrder(x, clear)
<1>1. /\ x.reply.spoken = <<>> /\ x.reply.segment = <<>> /\ x.reply.items = <<>>
      /\ x.reply.buffer = <<>> /\ x.reply.accepted = <<>>
  BY DEF NewReply
<1>2. Placed(x.reply, TRUE) /\ Placed(x.reply, FALSE)
  BY <1>1, NothingCut, Zenon DEF Placed
<1>3. Prefix(x.reply)
  <2>1. Part(<<>>, <<>>, 0, 0) /\ Len(<<>>) = 0
    BY DEF Part
  <2> QED BY <1>1, <2>1, Zenon DEF Prefix
<1>5. Placed(x.reply, x.stage # "failing")
  <2>1. (x.stage # "failing") = TRUE \/ (x.stage # "failing") = FALSE
    OBVIOUS
  <2> QED BY <1>2, <2>1
<1> QED BY <1>1, <1>3, <1>5 DEF InOrder

\* The reply stays, and a turn that was aborted stays so.
LEMMA SameCarries ==
    ASSUME NEW x, NEW y, y.reply = x.reply, x.aborted => y.aborted,
           \/ y.stage = x.stage
           \/ x.stage # "failing" /\ y.stage \notin {"failing", "draining"}
    PROVE  Carries(x, y)
<1>1. ~y.aborted => ~x.aborted
  OBVIOUS
<1>2. (y.stage # "failing") = (x.stage # "failing")
  OBVIOUS
<1>3. y.stage = "draining" => x.stage = "draining"
  OBVIOUS
<1>4. Placed(x.reply, x.stage # "failing") => Placed(y.reply, y.stage # "failing")
  BY <1>2
<1>5. Worked(x) => Worked(y)
  BY <1>1 DEF Worked, Busy
<1> QED BY <1>1, <1>3, <1>4, <1>5 DEF Carries, InOrder

\* The worker and the segmenter neither speak nor accept; they keep the cut.
LEMMA FeedKeeps ==
    ASSUME NEW r \in ReplyType, NEW b
    PROVE  LET s == Feed(r, b)
           IN  s.spoken = r.spoken /\ s.accepted = r.accepted /\ s.buffer = r.buffer /\ s.lost = r.lost
  BY DEF Feed, ReplyType

LEMMA FeedOrder ==
    ASSUME NEW r \in ReplyType, NEW whole, Placed(r, whole)
    PROVE  Placed(Feed(r, FALSE), whole)
<1>1. CASE r.segment # <<>> \/ r.items = <<>>
  BY <1>1 DEF Feed
<1>2. CASE r.segment = <<>> /\ r.items # <<>>
  <2> DEFINE s == Feed(r, FALSE)
  <2>1. /\ s.segment = Head(r.items) /\ s.items = Tail(r.items)
        /\ s.accepted = r.accepted /\ s.spoken = r.spoken /\ s.buffer = r.buffer
    BY <1>2 DEF Feed, ReplyType
  <2> HIDE DEF s
  <2>2. r.items \in Seq(Seq(Delta)) /\ r.spoken \in Seq(Delta) /\ r.accepted \in Seq(Delta)
    BY DEF ReplyType
  <2>3. CutUp(r.spoken, <<>>, r.items, r.buffer, r.accepted, whole)
    BY <1>2, Zenon DEF Placed
  <2>4. CutUp(r.spoken, Head(r.items), Tail(r.items), r.buffer, r.accepted, whole)
    BY <1>2, <2>2, <2>3, HeadCut, Zenon
  <2>5. Placed(s, whole)
    BY <2>1, <2>4, Zenon DEF Placed
  <2> QED BY <2>5 DEF s
<1> QED BY <1>1, <1>2

LEMMA FlushedKeeps ==
    ASSUME NEW r \in ReplyType, NEW b
    PROVE  LET s == Flushed(r, b)
           IN  s.spoken = r.spoken /\ s.accepted = r.accepted /\ s.buffer = <<>> /\ s.lost = r.lost
  BY DEF Flushed, Feed, ReplyType

LEMMA FlushedOrder ==
    ASSUME NEW r \in ReplyType, Placed(r, TRUE)
    PROVE  Placed(Flushed(r, FALSE), TRUE)
<1>1. CASE r.buffer = <<>>
  BY <1>1 DEF Flushed
<1>2. CASE r.buffer # <<>>
  <2> DEFINE s == [r EXCEPT !.items = Append(r.items, r.buffer), !.buffer = <<>>]
  <2>0. r.items \in Seq(Seq(Delta)) /\ r.buffer \in Seq(Delta) /\ r.accepted \in Seq(Delta)
    BY DEF ReplyType
  <2>1. /\ s.segment = r.segment /\ s.items = Append(r.items, r.buffer)
        /\ s.accepted = r.accepted /\ s.spoken = r.spoken /\ s.buffer = <<>>
    BY DEF ReplyType
  <2>2. s \in ReplyType
    <3>1. Append(r.items, r.buffer) \in Seq(Seq(Delta)) /\ <<>> \in Seq(Delta)
      BY <2>0
    <3> QED BY <3>1 DEF ReplyType
  <2>3. Flushed(r, FALSE) = Feed(s, FALSE)
    BY <1>2 DEF Flushed
  <2> HIDE DEF s
  <2>4. CutUp(r.spoken, r.segment, r.items, r.buffer, r.accepted, TRUE)
    BY Zenon DEF Placed
  <2>5. CutUp(r.spoken, r.segment, Append(r.items, r.buffer), <<>>, r.accepted, TRUE)
    BY <2>0, <2>4, BufferCut, Zenon
  <2>6. Placed(s, TRUE)
    BY <2>1, <2>5, Zenon DEF Placed
  <2> QED BY <2>2, <2>3, <2>6, FeedOrder
<1> QED BY <1>1, <1>2

\* The callbacks of the listener and the idle timer.
LEMMA FlushCarries ==
    ASSUME NEW x \in TurnType, x.stage = "waiting", NEW y, y.reply = Flushed(x.reply, x.aborted),
           y.aborted = x.aborted, y.stage \in {"waiting", "draining"}
    PROVE  Carries(x, y)
<1>1. x.reply \in ReplyType /\ x.aborted \in BOOLEAN
  BY DEF TurnType
<1>2. /\ y.reply.spoken = x.reply.spoken /\ y.reply.accepted = x.reply.accepted
      /\ y.reply.buffer = <<>> /\ y.reply.lost = x.reply.lost
  BY <1>1, FlushedKeeps
<1>3. Prefix(x.reply) => Prefix(y.reply)
  BY <1>2, Zenon DEF Prefix
<1>4. ASSUME ~x.aborted, Placed(x.reply, TRUE) PROVE Placed(y.reply, TRUE)
  <2>1. x.aborted = FALSE
    BY <1>1, <1>4
  <2> QED BY <1>1, <1>4, <2>1, FlushedOrder
<1>5. (x.stage # "failing") = TRUE /\ (y.stage # "failing") = TRUE
  OBVIOUS
<1>6. Worked(x) => Worked(y)
  BY <1>1, FlushedBusy DEF Worked
<1> QED BY <1>2, <1>3, <1>4, <1>5, <1>6 DEF Carries, InOrder

LEMMA OnDeltaCarries ==
    ASSUME NEW x \in TurnType, NEW d \in Delta
    PROVE  Carries(x, OnDelta(x, d)) /\ OnDelta(x, d).ws = x.ws
<1>1. CASE x.stage # "waiting"
  BY <1>1 DEF OnDelta, Carries
<1>2. CASE x.stage = "waiting"
  <2> DEFINE y == OnDelta(x, d)
  <2>0. x.reply \in ReplyType
    BY DEF TurnType
  <2>5. x.reply.accepted \in Seq(Delta) /\ x.reply.buffer \in Seq(Delta) /\ x.reply.spoken \in Seq(Delta)
    BY <2>0 DEF ReplyType
  <2>1. /\ y.reply.spoken = x.reply.spoken /\ y.reply.segment = x.reply.segment
        /\ y.reply.items = x.reply.items /\ y.reply.lost = x.reply.lost
        /\ y.reply.accepted = Append(x.reply.accepted, d) /\ y.reply.buffer = Append(x.reply.buffer, d)
        /\ y.stage = x.stage /\ y.aborted = x.aborted /\ y.ws = x.ws
    BY <1>2, <2>0 DEF OnDelta, TurnType, ReplyType
  <2> HIDE DEF y
  <2>2. ASSUME Prefix(x.reply) PROVE Prefix(y.reply)
    BY <2>1, <2>2, <2>5, PartKept, Zenon DEF Prefix
  <2>3. ASSUME Placed(x.reply, TRUE) PROVE Placed(y.reply, TRUE)
    BY <2>1, <2>3, <2>5, DeltaCut, Zenon DEF Placed
  <2>4. (x.stage # "failing") = TRUE /\ (y.stage # "failing") = TRUE /\ y.stage # "draining"
    BY <1>2, <2>1
  <2>7. Worked(x) => Worked(y)
    BY <2>1 DEF Worked, Busy
  <2>6. Carries(x, y)
    BY <2>1, <2>2, <2>3, <2>4, <2>7 DEF Carries, InOrder
  <2> QED BY <2>1, <2>6 DEF y
<1> QED BY <1>1, <1>2

LEMMA OnEndCarries ==
    ASSUME NEW x \in TurnType
    PROVE  Carries(x, OnEnd(x)) /\ OnEnd(x).ws = x.ws
<1>1. CASE x.stage # "waiting"
  BY <1>1 DEF OnEnd, Carries
<1>2. CASE x.stage = "waiting"
  <2> DEFINE y == OnEnd(x)
  <2>1. y.reply = Flushed(x.reply, x.aborted) /\ y.aborted = x.aborted /\ y.stage = "draining" /\ y.ws = x.ws
    BY <1>2 DEF OnEnd, TurnType
  <2> HIDE DEF y
  <2>2. Carries(x, y)
    BY <1>2, <2>1, FlushCarries
  <2> QED BY <2>1, <2>2 DEF y
<1> QED BY <1>1, <1>2

LEMMA OnFailureCarries ==
    ASSUME NEW x \in TurnType
    PROVE  Carries(x, OnFailure(x)) /\ OnFailure(x).ws = x.ws
<1>1. CASE x.stage # "waiting"
  BY <1>1 DEF OnFailure, Carries
<1>2. CASE x.stage = "waiting"
  <2> DEFINE y == OnFailure(x)
  <2>0. x.reply \in ReplyType
    BY DEF TurnType
  <2>1. /\ y.reply.spoken = x.reply.spoken /\ y.reply.segment = x.reply.segment
        /\ y.reply.items = x.reply.items /\ y.reply.lost = x.reply.lost
        /\ y.reply.accepted = x.reply.accepted /\ y.reply.buffer = <<>>
        /\ y.stage = "failing" /\ y.aborted = x.aborted /\ y.ws = x.ws
    BY <1>2, <2>0 DEF OnFailure, TurnType, ReplyType
  <2> HIDE DEF y
  <2>2. ASSUME Prefix(x.reply) PROVE Prefix(y.reply)
    BY <2>1, <2>2, Zenon DEF Prefix
  <2>3. ASSUME Placed(x.reply, TRUE) PROVE Placed(y.reply, FALSE)
    BY <2>1, <2>3, Zenon DEF Placed, CutUp, Cut
  <2>4. (x.stage # "failing") = TRUE /\ (y.stage # "failing") = FALSE /\ y.stage # "draining"
    BY <1>2, <2>1
  <2>7. Worked(x) => Worked(y)
    BY <2>1 DEF Worked, Busy
  <2>6. Carries(x, y)
    BY <2>1, <2>2, <2>3, <2>4, <2>7 DEF Carries, InOrder
  <2> QED BY <2>1, <2>6 DEF y
<1> QED BY <1>1, <1>2


-----------------------------------------------------------------------------
\* The socket is there and open.
Clear(s) == s \in Sockets /\ ~Closed(s)

OrderInv ==
    /\ \A t \in Turns : InOrder(turn[t], Clear(turn[t].ws))
    /\ \A t \in Turns : Running(t) => turn[t].ws \in Sockets

\* How a turn changes in a step other than the synthesis of its segment.
Proceeds(x, y) ==
    /\ y.reply = NewReply \/ (Carries(x, y) /\ y.ws = x.ws)
    /\ y.stage \in {"unused", "finished"} \/ y.ws \in Sockets
       \/ (y.ws = x.ws /\ x.stage \notin {"unused", "finished"})

LEMMA SameMoves == ASSUME NEW x PROVE Proceeds(x, x)
  BY DEF Proceeds, Carries

\* A closed socket stays closed.
LEMMA ClosedStays ==
    ASSUME Typed, [Next]_vars, NEW s \in Sockets, Closed(s)
    PROVE  Closed(s)'
<1>0. sock \in [Sockets -> SockType] /\ sock[s].phase \in {"closing", "closed"} /\ sock[s] \in SockType
  BY DEF Typed, Closed
<1>1. CASE SocketNext
  <2>1. ASSUME NEW q \in Sockets, NEW state, Bind(q, state) \/ Continue(q, state) PROVE Closed(s)'
    BY <1>0, <2>1 DEF Bind, Continue, Authorized, Closed, SockType
  <2>2. CASE UNCHANGED sock
    BY <1>0, <2>2 DEF Closed
  <2>3. ASSUME NEW q \in Sockets, sock' = [sock EXCEPT ![q].phase = "closing"] PROVE Closed(s)'
    BY <1>0, <2>3 DEF Closed, SockType
  <2>4. ASSUME NEW q \in Sockets, Cleanup(q) PROVE Closed(s)'
    BY <1>0, <2>4 DEF Closed, Cleanup
  <2>5. ASSUME NEW q \in Sockets, NEW available \in BOOLEAN, VoiceStart(q, available) PROVE Closed(s)'
    BY <2>1, <2>5 DEF VoiceStart
  <2> QED BY <1>1, <2>1, <2>2, <2>3, <2>4, <2>5
       DEF SocketNext, RetireDevice, DispatchPrompt, Hello, RealtimeStart, VoiceEnd, Abort,
           ButtonPress, Denied, Disconnect, CloseRevokedSocket
<1>2. CASE AgentNext
  <2>1. UNCHANGED sock
    BY <1>2, AgentTyped
  <2> QED BY <1>0, <2>1 DEF Closed
<1>3. ASSUME NEW t \in Turns, TurnStep(t) PROVE Closed(s)'
  <2>1. ASSUME NEW what, Finish(t, what) PROVE Closed(s)'
    BY <1>0, <2>1 DEF Finish, Closed, SockType
  <2>2. CASE UNCHANGED sock
    BY <1>0, <2>2 DEF Closed
  <2>3. UNCHANGED sock \/ \E what : Finish(t, what)
    BY <1>3 DEF TurnStep, SttDone, Route, IdleFlush, Timeout, OnAbort, Wait, Drained, Failed, Apologise,
                ChatDone, SpeechDone, Synthesized, Advance, socketVars
  <2> QED BY <2>1, <2>2, <2>3
<1>4. CASE UNCHANGED vars
  BY <1>0, <1>4 DEF vars, Closed
<1> QED BY <1>1, <1>2, <1>3, <1>4 DEF Next

LEMMA AbortedMoves ==
    ASSUME NEW x \in TurnType
    PROVE  Proceeds(x, [x EXCEPT !.aborted = TRUE])
<1> DEFINE y == [x EXCEPT !.aborted = TRUE]
<1>1. y.reply = x.reply /\ y.aborted /\ y.stage = x.stage /\ y.ws = x.ws
  BY DEF TurnType
<1> HIDE DEF y
<1>2. Proceeds(x, y)
  BY <1>1, SameCarries DEF Proceeds
<1> QED BY <1>2 DEF y

LEMMA OneMoves ==
    ASSUME turn \in [Turns -> TurnType], NEW u \in Turns, NEW y, turn' = [turn EXCEPT ![u] = y],
           Proceeds(turn[u], y)
    PROVE  \A t \in Turns : Proceeds(turn[t], turn'[t])
<1>1. turn'[u] = y
  OBVIOUS
<1>2. \A t \in Turns : t # u => turn'[t] = turn[t]
  OBVIOUS
<1> QED BY <1>1, <1>2, SameMoves

LEMMA NewMoves ==
    ASSUME NEW k, NEW s, NEW g, NEW x, s \in Sockets \/ g \in {"unused", "finished"}
    PROVE  Proceeds(x, NewTurn(k, s, g))
  BY DEF NewTurn, Proceeds

LEMMA SocketMoves ==
    ASSUME Typed, SocketNext
    PROVE  \A t \in Turns : Proceeds(turn[t], turn'[t])
<1>0. turn \in [Turns -> TurnType] /\ entry \in EntryType
  BY DEF Typed
<1>1. CASE UNCHANGED turn
  BY <1>1, SameMoves
<1>2. CASE turn' = OwnerAborted
  <2>1. CASE entry.owner = NoTurn
    BY <1>1, <1>2, <2>1 DEF OwnerAborted
  <2>2. CASE entry.owner # NoTurn
    <3>1. entry.owner \in Turns
      BY <1>0, <2>2 DEF EntryType
    <3>2. turn' = [turn EXCEPT ![entry.owner] = [turn[entry.owner] EXCEPT !.aborted = TRUE]]
      BY <1>0, <1>2, <2>2, <3>1 DEF OwnerAborted
    <3>3. Proceeds(turn[entry.owner], [turn[entry.owner] EXCEPT !.aborted = TRUE])
      BY <1>0, <3>1, AbortedMoves
    <3> QED BY <1>0, <3>1, <3>2, <3>3, OneMoves
  <2> QED BY <2>1, <2>2
<1>3. ASSUME NEW u \in Turns, NEW k, NEW s \in Sockets, NEW g, turn' = [turn EXCEPT ![u] = NewTurn(k, s, g)]
      PROVE  \A t \in Turns : Proceeds(turn[t], turn'[t])
  <2>1. Proceeds(turn[u], NewTurn(k, s, g))
    BY NewMoves
  <2> QED BY <1>0, <1>3, <2>1, OneMoves
<1>4. ASSUME DispatchPrompt, ~UNCHANGED turn
      PROVE  \A t \in Turns : Proceeds(turn[t], turn'[t])
  <2>1. entry.ws \in Sockets
    BY <1>0, <1>4 DEF DispatchPrompt, EntryType
  <2>2. PICK u \in Turns : turn' = [turn EXCEPT ![u] = NewTurn("prompt", entry.ws, "text")]
    BY <1>4 DEF DispatchPrompt
  <2> QED BY <1>3, <2>1, <2>2
<1>5. ASSUME NEW s \in Sockets, VoiceEnd(s) PROVE \A t \in Turns : Proceeds(turn[t], turn'[t])
  <2>1. PICK u \in Turns : turn' = [turn EXCEPT ![u] = NewTurn("voice", s, "stt")]
    BY <1>5 DEF VoiceEnd
  <2> QED BY <1>3, <2>1
<1>6. \/ UNCHANGED turn \/ turn' = OwnerAborted
      \/ DispatchPrompt \/ \E s \in Sockets : VoiceEnd(s)
  BY DEF SocketNext, RetireDevice, Hello, VoiceStart, RealtimeStart, Abort,
         ButtonPress, Denied, Disconnect, Cleanup, CloseRevokedSocket, Unregister
<1> QED BY <1>1, <1>2, <1>4, <1>5, <1>6

\* A callback of the listener, seen from the turn.
LEMMA CalledMoves ==
    ASSUME NEW x \in TurnType, NEW y, Called(x, y), Carries(x, y)
    PROVE  Proceeds(x, y)
<1>1. y.ws = x.ws /\ (y.stage = x.stage \/ x.stage = "waiting")
  BY DEF Called
<1> QED BY <1>1 DEF Proceeds

LEMMA AgentMoves ==
    ASSUME Typed, AgentNext
    PROVE  \A t \in Turns : Proceeds(turn[t], turn'[t])
<1>0. turn \in [Turns -> TurnType] /\ listener \in Turns \cup {NoTurn} /\ answer \in [Turns -> AnswerType]
  BY DEF Typed
<1>1. CASE UNCHANGED turn
  BY <1>1, SameMoves
<1>2. ASSUME NEW u \in Turns, NEW y, turn' = [turn EXCEPT ![u] = y], Proceeds(turn[u], y)
      PROVE  \A t \in Turns : Proceeds(turn[t], turn'[t])
  BY <1>0, <1>2, OneMoves
<1>3. ASSUME NEW u \in Turns PROVE Proceeds(turn[u], OnFailure(turn[u])) /\ Proceeds(turn[u], OnEnd(turn[u]))
  <2>1. turn[u] \in TurnType
    BY <1>0
  <2> QED BY <2>1, OnFailureTyped, OnFailureCarries, OnEndTyped, OnEndCarries, CalledMoves
<1>4. ASSUME NEW u \in Turns, NEW d \in Delta PROVE Proceeds(turn[u], OnDelta(turn[u], d))
  <2>1. turn[u] \in TurnType
    BY <1>0
  <2> QED BY <2>1, OnDeltaTyped, OnDeltaCarries, CalledMoves
<1>5. ASSUME NEW c \in Conns, CloseRevokedAgent(c), ~UNCHANGED turn
      PROVE  \A t \in Turns : Proceeds(turn[t], turn'[t])
  <2>1. listener \in Turns /\ turn' = [turn EXCEPT ![listener] = OnFailure(turn[listener])]
    BY <1>0, <1>5 DEF CloseRevokedAgent
  <2> QED BY <1>2, <1>3, <2>1
<1>6. ASSUME NEW u \in Turns, CloseRevokedMedia(u) PROVE \A t \in Turns : Proceeds(turn[t], turn'[t])
  <2>1. turn[u] \in TurnType /\ turn' = [turn EXCEPT ![u] = [turn[u] EXCEPT !.aborted = TRUE]]
    BY <1>0, <1>6 DEF CloseRevokedMedia
  <2> QED BY <1>2, <2>1, AbortedMoves
<1>7. ASSUME NEW c \in Conns, NEW u \in Turns, NEW kind \in {"delta", "end", "error"}, Frame(c, u, kind),
             ~UNCHANGED turn
      PROVE  \A t \in Turns : Proceeds(turn[t], turn'[t])
  <2>1. /\ listener \in Turns
        /\ \/ kind = "delta" /\ turn' = [turn EXCEPT ![listener] =
                                  OnDelta(turn[listener], [of |-> u, n |-> answer[u].sent + 1])]
           \/ turn' = [turn EXCEPT ![listener] = OnEnd(turn[listener])]
           \/ turn' = [turn EXCEPT ![listener] = OnFailure(turn[listener])]
    BY <1>0, <1>7 DEF Frame
  <2>2. kind = "delta" => [of |-> u, n |-> answer[u].sent + 1] \in Delta
    BY <1>0, <1>7, VoiceConstants DEF Frame, Delta, AnswerType
  <2> QED BY <1>2, <1>3, <1>4, <2>1, <2>2
<1> QED BY <1>1, <1>5, <1>6, <1>7
     DEF AgentNext, Auth, AuthDone, AgentDisconnect, AgentCleanup, Activate, RetireAgent

\* A turn's task, but for the synthesis of a segment.
LEMMA TaskMoves ==
    ASSUME Typed, NEW u \in Turns, TurnStep(u), \A ok \in BOOLEAN : ~Synthesized(u, ok)
    PROVE  \A t \in Turns : Proceeds(turn[t], turn'[t])
<1>0. turn \in [Turns -> TurnType] /\ turn[u] \in TurnType
  BY DEF Typed
<1>1. ASSUME NEW y, turn' = [turn EXCEPT ![u] = y], Proceeds(turn[u], y)
      PROVE  \A t \in Turns : Proceeds(turn[t], turn'[t])
  BY <1>0, <1>1, OneMoves
<1>2. ASSUME NEW what, Finish(u, what) PROVE \A t \in Turns : Proceeds(turn[t], turn'[t])
  <2> DEFINE y == [NewTurn("voice", NoSocket, "finished") EXCEPT !.told = turn[u].told \/ Tells(u, what)]
  <2>1. turn' = [turn EXCEPT ![u] = y]
    BY <1>2 DEF Finish
  <2>2. y.reply = NewReply /\ y.stage = "finished"
    BY DEF NewTurn
  <2> HIDE DEF y
  <2>3. Proceeds(turn[u], y)
    BY <2>2 DEF Proceeds
  <2> QED BY <1>1, <2>1, <2>3
<1>3. ASSUME NEW y, turn' = [turn EXCEPT ![u] = y], turn[u].stage \notin {"unused", "finished", "failing"},
             y.reply = turn[u].reply, y.aborted = turn[u].aborted, y.ws = turn[u].ws,
             y.stage \notin {"failing", "draining"}
      PROVE  \A t \in Turns : Proceeds(turn[t], turn'[t])
  <2>1. Carries(turn[u], y)
    BY <1>3, SameCarries
  <2> QED BY <1>1, <1>3, <2>1 DEF Proceeds
<1>4. ASSUME NEW g \in {"text", "chat", "speaking", "apology"}, NEW what, Advance(u, g, what),
             turn[u].stage \notin {"unused", "finished", "failing"}
      PROVE  \A t \in Turns : Proceeds(turn[t], turn'[t])
  <2> DEFINE y == [turn[u] EXCEPT !.stage = g, !.told = turn[u].told \/ Tells(u, what)]
  <2>1. turn' = [turn EXCEPT ![u] = y]
    BY <1>0, <1>4 DEF Advance
  <2>2. y.reply = turn[u].reply /\ y.aborted = turn[u].aborted /\ y.ws = turn[u].ws /\ y.stage = g
    BY <1>0 DEF TurnType
  <2> HIDE DEF y
  <2> QED BY <1>3, <1>4, <2>1, <2>2
<1>5. ASSUME NEW outcome \in {"error", "empty", "text"}, SttDone(u, outcome)
      PROVE  \A t \in Turns : Proceeds(turn[t], turn'[t])
  BY <1>2, <1>4, <1>5 DEF SttDone
<1>6. ASSUME NEW ok \in BOOLEAN, ChatDone(u, ok) \/ SpeechDone(u, ok)
      PROVE  \A t \in Turns : Proceeds(turn[t], turn'[t])
  BY <1>2, <1>4, <1>6 DEF ChatDone, SpeechDone
<1>7. CASE Drained(u) \/ Apologise(u)
  BY <1>2, <1>7 DEF Drained, Apologise
<1>8. CASE Route(u)
  <2>1. ASSUME turn[u].stage = "text",
               turn' = [turn EXCEPT ![u].stage = "waiting", ![u].agent = active,
                                    ![u].gen = conn[slot[active]].gen]
        PROVE  \A t \in Turns : Proceeds(turn[t], turn'[t])
    <3> DEFINE y == [turn[u] EXCEPT !.stage = "waiting", !.agent = active, !.gen = conn[slot[active]].gen]
    <3>1. turn' = [turn EXCEPT ![u] = y]
      BY <1>0, <2>1
    <3>2. y.reply = turn[u].reply /\ y.aborted = turn[u].aborted /\ y.ws = turn[u].ws /\ y.stage = "waiting"
      BY <1>0 DEF TurnType
    <3> HIDE DEF y
    <3> QED BY <1>3, <2>1, <3>1, <3>2
  <2>2. \/ \E what : Finish(u, what)
        \/ turn[u].stage = "text" /\ Advance(u, "chat", {})
        \/ turn[u].stage = "text" /\ turn' = [turn EXCEPT ![u].stage = "waiting", ![u].agent = active,
                                                          ![u].gen = conn[slot[active]].gen]
    BY <1>8 DEF Route
  <2> QED BY <1>2, <1>4, <2>1, <2>2
<1>9. CASE IdleFlush(u)
  <2> DEFINE y == [turn[u] EXCEPT !.reply = Flushed(turn[u].reply, turn[u].aborted)]
  <2>1. turn[u].stage = "waiting" /\ turn' = [turn EXCEPT ![u] = y]
    BY <1>9 DEF IdleFlush, Wait
  <2>2. /\ y.reply = Flushed(turn[u].reply, turn[u].aborted) /\ y.aborted = turn[u].aborted
        /\ y.ws = turn[u].ws /\ y.stage = turn[u].stage
    BY <1>0 DEF TurnType
  <2> HIDE DEF y
  <2>3. Carries(turn[u], y)
    BY <1>0, <2>1, <2>2, FlushCarries
  <2>4. Proceeds(turn[u], y)
    BY <2>1, <2>2, <2>3 DEF Proceeds
  <2> QED BY <1>1, <2>1, <2>4
<1>10. CASE Timeout(u) \/ OnAbort(u)
  <2>1. turn' = [turn EXCEPT ![u] = OnFailure(turn[u])]
    BY <1>10 DEF Timeout, OnAbort, Wait
  <2>2. Proceeds(turn[u], OnFailure(turn[u]))
    BY <1>0, OnFailureTyped, OnFailureCarries, CalledMoves
  <2> QED BY <1>1, <2>1, <2>2
<1>11. CASE Failed(u)
  <2>1. CASE turn[u].aborted
    BY <1>2, <1>11, <2>1 DEF Failed
  <2>2. CASE ~turn[u].aborted
    <3> DEFINE y == [turn[u] EXCEPT !.stage = "apology", !.reply = NewReply,
                                    !.told = turn[u].told \/ Tells(u, {"error"})]
    <3>1. turn' = [turn EXCEPT ![u] = y] /\ turn[u].stage = "failing"
      BY <1>0, <1>11, <2>2 DEF Failed
    <3>2. y.reply = NewReply /\ y.ws = turn[u].ws
      BY <1>0 DEF TurnType
    <3> HIDE DEF y
    <3>3. Proceeds(turn[u], y)
      BY <3>1, <3>2 DEF Proceeds
    <3> QED BY <1>1, <3>1, <3>3
  <2> QED BY <2>1, <2>2
<1> QED BY <1>5, <1>6, <1>7, <1>8, <1>9, <1>10, <1>11 DEF TurnStep

\* A segment that was heard is the next part of the answer.  It is not heard when the turn was
\* aborted or the socket is closed; otherwise the fence lets a live turn through.
LEMMA SynthesizedOrder ==
    ASSUME VoiceInv, NEW u \in Turns, NEW ok \in BOOLEAN, Synthesized(u, ok),
           NEW x, x = turn[u], x.ws \in Sockets, InOrder(x, Clear(x.ws))
    PROVE  InOrder(turn'[u], Clear(x.ws)) /\ turn'[u].ws = x.ws /\ turn'[u].stage = x.stage /\ Running(u)
<1>0. turn \in [Turns -> TurnType] /\ x \in TurnType /\ x.reply \in ReplyType /\ x.aborted \in BOOLEAN
  BY DEF VoiceInv, Typed, TurnType
<1>1. Running(u) /\ x.reply.segment # <<>>
  BY DEF Synthesized, VoiceInv, Silent, Running
<1> DEFINE r == x.reply
           taken == [r EXCEPT !.segment = <<>>]
           next == Feed(taken, x.aborted)
           reply == IF ~ok THEN [next EXCEPT !.lost = TRUE]
                    ELSE IF Hears(u) /\ ~x.aborted
                    THEN [next EXCEPT !.spoken = r.spoken \o r.segment] ELSE next
           y == turn'[u]
<1>2. /\ y.reply = reply /\ y.stage = x.stage /\ y.aborted = x.aborted /\ y.ws = x.ws
  BY <1>0 DEF Synthesized, TurnType
<1>3. /\ taken \in ReplyType /\ taken.spoken = r.spoken /\ taken.accepted = r.accepted
      /\ taken.buffer = r.buffer /\ taken.lost = r.lost /\ taken.items = r.items /\ taken.segment = <<>>
  <2>1. <<>> \in Seq(Delta)
    OBVIOUS
  <2> QED BY <1>0, <2>1 DEF ReplyType
<1> HIDE DEF taken
<1>4. /\ next \in ReplyType /\ next.spoken = r.spoken /\ next.accepted = r.accepted
      /\ next.buffer = r.buffer /\ next.lost = r.lost
  BY <1>3, FeedTyped, FeedKeeps
<1>5. reply.buffer = r.buffer /\ reply.accepted = r.accepted
  <2> HIDE DEF next
  <2>1. CASE ~ok
    BY <1>4, <2>1 DEF ReplyType
  <2>2. CASE ok /\ Hears(u) /\ ~x.aborted
    BY <1>4, <2>2 DEF ReplyType
  <2>3. CASE ok /\ ~(Hears(u) /\ ~x.aborted)
    <3>1. reply = next
      BY <2>3
    <3> HIDE DEF reply
    <3> QED BY <1>4, <3>1
  <2> QED BY <2>1, <2>2, <2>3
<1>6. y.stage = "draining" => y.reply.buffer = <<>>
  <2> HIDE DEF reply, y
  <2> QED BY <1>2, <1>5 DEF InOrder
<1>7. CASE ~ok
  <2>1. y.reply.lost
    <3> HIDE DEF next
    <3>1. reply.lost
      BY <1>4, <1>7 DEF ReplyType
    <3> HIDE DEF y, reply
    <3> QED BY <1>2, <3>1
  <2> HIDE DEF y
  <2> QED BY <1>1, <1>2, <1>6, <2>1 DEF InOrder, y
<1>8. CASE ok /\ Hears(u) /\ ~x.aborted
  <2> DEFINE said == [taken EXCEPT !.spoken = r.spoken \o r.segment]
  <2>0. r.spoken \in Seq(Delta) /\ r.segment \in Seq(Delta) /\ r.accepted \in Seq(Delta)
    BY <1>0 DEF ReplyType
  <2>1. /\ reply.spoken = r.spoken \o r.segment /\ reply.lost = r.lost
        /\ reply.segment = next.segment /\ reply.items = next.items
    <3> HIDE DEF next
    <3> QED BY <1>4, <1>8 DEF ReplyType
  <2>2. Clear(x.ws)
    BY <1>8 DEF Hears, Clear
  <2>3. ASSUME ~r.lost PROVE Prefix(y.reply) /\ Placed(y.reply, x.stage # "failing")
    <3>1. Part(r.spoken, r.accepted, 0, Len(r.spoken)) /\ Placed(r, x.stage # "failing")
      BY <1>8, <2>2, <2>3 DEF InOrder, Prefix
    <3>2. /\ CutUp(r.spoken \o r.segment, <<>>, r.items, r.buffer, r.accepted, x.stage # "failing")
          /\ Part(r.spoken \o r.segment, r.accepted, 0, Len(r.spoken \o r.segment))
      BY <2>0, <3>1, SpokenCut, Zenon DEF Placed
    <3>3. Prefix(y.reply)
      <4> HIDE DEF reply, y
      <4> QED BY <1>2, <1>5, <2>1, <3>2, Zenon DEF Prefix
    <3>4. said \in ReplyType
      <4>1. r.spoken \o r.segment \in Seq(Delta)
        BY <2>0
      <4> QED BY <1>3, <4>1 DEF ReplyType
    <3>5. /\ said.spoken = r.spoken \o r.segment /\ said.segment = <<>> /\ said.items = r.items
          /\ said.buffer = r.buffer /\ said.accepted = r.accepted
      BY <1>3 DEF ReplyType
    <3> DEFINE fed == Feed(said, FALSE)
    <3>6. /\ fed.spoken = r.spoken \o r.segment /\ fed.buffer = r.buffer /\ fed.accepted = r.accepted
          /\ fed.segment = next.segment /\ fed.items = next.items
      <4>1. x.aborted = FALSE
        BY <1>0, <1>8
      <4>2. next = Feed(taken, FALSE)
        BY <4>1
      <4> HIDE DEF next
      <4>3. Feed(taken, FALSE).segment = fed.segment /\ Feed(taken, FALSE).items = fed.items
        BY <1>3, <3>4 DEF Feed, ReplyType
      <4>4. fed.spoken = said.spoken /\ fed.buffer = said.buffer /\ fed.accepted = said.accepted
        <5> HIDE DEF said
        <5> QED BY <3>4, FeedKeeps
      <4> HIDE DEF said, fed
      <4> QED BY <3>5, <4>2, <4>3, <4>4
    <3> HIDE DEF said
    <3>7. Placed(said, x.stage # "failing")
      BY <3>2, <3>5, Zenon DEF Placed
    <3>8. Placed(fed, x.stage # "failing")
      BY <3>4, <3>7, FeedOrder
    <3> HIDE DEF fed, next
    <3>9. Placed(y.reply, x.stage # "failing")
      <4> HIDE DEF reply, y
      <4> QED BY <1>2, <1>5, <2>1, <3>6, <3>8, Zenon DEF Placed
    <3> QED BY <3>3, <3>9
  <2>4. y.reply.lost = r.lost
    <3> HIDE DEF reply, y
    <3> QED BY <1>2, <2>1
  <2> HIDE DEF y
  <2> QED BY <1>1, <1>2, <1>6, <2>3, <2>4 DEF InOrder, y
<1>9. CASE ok /\ ~(Hears(u) /\ ~x.aborted)
  <2>1. reply = next
    BY <1>9
  <2> HIDE DEF reply
  <2>2. y.reply.spoken = r.spoken /\ y.reply.accepted = r.accepted /\ y.reply.lost = r.lost
    BY <1>2, <1>4, <2>1
  <2>3. ~r.lost => Prefix(y.reply)
    BY <2>2, Zenon DEF Prefix, InOrder
  <2>4. ~x.aborted => ~Clear(x.ws)
    <3>1. ASSUME ~x.aborted PROVE entry.owner = u /\ entry.ws = x.ws
      BY <1>1, <3>1, VoiceConstants DEF VoiceInv, LiveOwns, Live, FinishedLetsGo
    <3> QED BY <1>9, <3>1 DEF Hears, Clear
  <2> HIDE DEF y
  <2> QED BY <1>1, <1>2, <1>6, <2>2, <2>3, <2>4 DEF InOrder, y
<1> QED BY <1>7, <1>8, <1>9

\* A turn whose socket has closed meanwhile owes less.
LEMMA LessClear ==
    ASSUME NEW x, NEW c, NEW d, InOrder(x, c), d => c
    PROVE  InOrder(x, d)
  BY DEF InOrder

LEMMA MovesOrder ==
    ASSUME Typed, [Next]_vars, OrderInv, \A t \in Turns : Proceeds(turn[t], turn'[t])
    PROVE  OrderInv'
<1>1. ASSUME NEW t \in Turns PROVE InOrder(turn'[t], Clear(turn[t].ws)')
  <2>1. CASE turn'[t].reply = NewReply
    BY <2>1, FreshOrder
  <2>2. CASE Carries(turn[t], turn'[t]) /\ turn'[t].ws = turn[t].ws
    <3> DEFINE b == Clear(turn[t].ws)
               d == Clear(turn[t].ws)'
    <3>1. b \in BOOLEAN
      BY DEF Clear
    <3>2. InOrder(turn[t], b)
      BY DEF OrderInv
    <3>3. d => b
      <4>1. d = (turn'[t].ws \in Sockets /\ sock'[turn'[t].ws].phase \notin {"closing", "closed"})
        BY DEF Clear, Closed
      <4>2. b = (turn[t].ws \in Sockets /\ sock[turn[t].ws].phase \notin {"closing", "closed"})
        BY DEF Clear, Closed
      <4>3. \A s \in Sockets : sock[s].phase \in {"closing", "closed"} => sock'[s].phase \in {"closing", "closed"}
        BY ClosedStays DEF Closed
      <4> HIDE DEF b, d
      <4> QED BY <2>2, <4>1, <4>2, <4>3
    <3> HIDE DEF b, d
    <3>4. InOrder(turn'[t], b)
      BY <2>2, <3>1, <3>2 DEF Carries
    <3>5. InOrder(turn'[t], d)
      BY <3>3, <3>4, LessClear
    <3> QED BY <3>5 DEF d
  <2>3. Proceeds(turn[t], turn'[t])
    OBVIOUS
  <2> QED BY <2>1, <2>2, <2>3 DEF Proceeds
<1>2. ASSUME NEW t \in Turns, turn'[t].stage \notin {"unused", "finished"} PROVE turn'[t].ws \in Sockets
  <2>1. Proceeds(turn[t], turn'[t])
    OBVIOUS
  <2> QED BY <1>2, <2>1 DEF Proceeds, OrderInv, Running
<1> QED BY <1>1, <1>2 DEF OrderInv, Running

LEMMA OrderStep == ASSUME VoiceInv, OrderInv, [Next]_vars PROVE OrderInv'
<1>0. Typed
  BY DEF VoiceInv
<1>1. CASE SocketNext
  BY <1>0, <1>1, SocketMoves, MovesOrder
<1>2. CASE AgentNext
  BY <1>0, <1>2, AgentMoves, MovesOrder
<1>3. ASSUME NEW u \in Turns, TurnStep(u), \A ok \in BOOLEAN : ~Synthesized(u, ok) PROVE OrderInv'
  BY <1>0, <1>3, TaskMoves, MovesOrder
<1>4. ASSUME NEW u \in Turns, NEW ok \in BOOLEAN, Synthesized(u, ok) PROVE OrderInv'
  <2>1. UNCHANGED sock
    BY <1>4 DEF Synthesized, socketVars
  <2>2. turn[u].ws \in Sockets /\ InOrder(turn[u], Clear(turn[u].ws))
    BY <1>4 DEF VoiceInv, Silent, Synthesized, OrderInv, Running
  <2>3. InOrder(turn'[u], Clear(turn[u].ws)) /\ turn'[u].ws = turn[u].ws /\ turn'[u].stage = turn[u].stage
    BY <1>4, <2>2, SynthesizedOrder
  <2>4. \A t \in Turns : t # u => turn'[t] = turn[t]
    BY <1>0, <1>4 DEF Synthesized, Typed
  <2>5. ASSUME NEW t \in Turns PROVE Clear(turn[t].ws)' = Clear(turn[t].ws) /\ turn'[t].ws = turn[t].ws
                                     /\ turn'[t].stage = turn[t].stage
    <3>1. turn'[t].ws = turn[t].ws /\ turn'[t].stage = turn[t].stage
      BY <2>3, <2>4
    <3> QED BY <2>1, <3>1 DEF Clear, Closed
  <2>6. ASSUME NEW t \in Turns PROVE InOrder(turn'[t], Clear(turn[t].ws))
    BY <2>3, <2>4, <2>6 DEF OrderInv
  <2>7. \A t \in Turns : InOrder(turn'[t], Clear(turn[t].ws)')
    BY <2>5, <2>6
  <2>8. \A t \in Turns : Running(t)' => turn'[t].ws \in Sockets
    BY <2>5 DEF OrderInv, Running
  <2> QED BY <2>7, <2>8 DEF OrderInv
<1>5. CASE UNCHANGED vars
  <2>1. \A t \in Turns : Proceeds(turn[t], turn'[t])
    BY <1>5, SameMoves DEF vars
  <2> QED BY <1>0, <2>1, MovesOrder
<1> QED BY <1>1, <1>2, <1>3, <1>4, <1>5 DEF Next

LEMMA InitOrder == Init => OrderInv
<1> SUFFICES ASSUME Init PROVE OrderInv
  OBVIOUS
<1>1. \A t \in Turns : turn[t] = NewTurn("voice", NoSocket, "unused")
  BY DEF Init
<1>2. \A t \in Turns : turn[t].reply = NewReply /\ turn[t].stage = "unused"
  BY <1>1 DEF NewTurn
<1> QED BY <1>2, FreshOrder DEF OrderInv, Running

\* The device hears what the listener accepted, in that order, and all of it when the turn ends
\* normally with its socket open (IdleSegmenter, SegmentQueue, _route_via_agent).
THEOREM SpokenAlwaysInOrder == Spec => []SpokenInOrder
<1>1. VoiceInv /\ OrderInv => SpokenInOrder
  <2> SUFFICES ASSUME VoiceInv, OrderInv, NEW t \in Turns
               PROVE  LET r == turn[t].reply
                      IN  /\ ~r.lost => \E n \in 0 .. Len(r.accepted) : r.spoken = SubSeq(r.accepted, 1, n)
                          /\ turn[t].stage = "draining" /\ QueueDone(t) /\ ~turn[t].aborted /\ ~r.lost
                                /\ ~Closed(turn[t].ws)
                             => r.spoken = r.accepted
    BY DEF SpokenInOrder
  <2> DEFINE r == turn[t].reply
  <2>1. turn[t] \in TurnType /\ r \in ReplyType /\ r.spoken \in Seq(Delta) /\ r.accepted \in Seq(Delta)
    BY DEF VoiceInv, Typed, TurnType, ReplyType
  <2>2. InOrder(turn[t], Clear(turn[t].ws)) /\ (Running(t) => turn[t].ws \in Sockets)
    BY DEF OrderInv
  <2>3. ASSUME ~r.lost PROVE \E n \in 0 .. Len(r.accepted) : r.spoken = SubSeq(r.accepted, 1, n)
    <3>1. Part(r.spoken, r.accepted, 0, Len(r.spoken))
      BY <2>2, <2>3 DEF InOrder, Prefix
    <3> QED BY <2>1, <3>1, PrefixIs, Zenon
  <2>4. ASSUME turn[t].stage = "draining", QueueDone(t), ~turn[t].aborted, ~r.lost, ~Closed(turn[t].ws)
        PROVE  r.spoken = r.accepted
    <3>1. Clear(turn[t].ws)
      BY <2>2, <2>4 DEF Clear, Running
    <3>2. r.segment = <<>> /\ r.items = <<>> /\ r.buffer = <<>>
      BY <2>2, <2>4 DEF QueueDone, InOrder
    <3>3. Part(r.spoken, r.accepted, 0, Len(r.spoken)) /\ Placed(r, TRUE)
      BY <2>2, <2>4, <3>1 DEF InOrder, Prefix
    <3>4. CutUp(r.spoken, <<>>, <<>>, <<>>, r.accepted, TRUE)
      BY <3>2, <3>3, Zenon DEF Placed
    <3> QED BY <2>1, <3>3, <3>4, AllSpoken, Zenon
  <2> QED BY <2>3, <2>4
<1>2. VoiceInv /\ OrderInv /\ [Next]_vars => OrderInv'
  BY OrderStep
<1> QED BY <1>1, <1>2, InitOrder, InvAlways, PTL DEF Spec
-----------------------------------------------------------------------------
WorkInv == \A t \in Turns : Worked(turn[t])

\* When the synthesis of a segment ends, the worker takes the next one.
LEMMA SynthesizedWorks ==
    ASSUME Typed, NEW u \in Turns, NEW ok \in BOOLEAN, Synthesized(u, ok), Worked(turn[u])
    PROVE  Worked(turn'[u])
<1> DEFINE r == turn[u].reply
           b == turn[u].aborted
           taken == [r EXCEPT !.segment = <<>>]
           next == Feed(taken, b)
           reply == IF ~ok THEN [next EXCEPT !.lost = TRUE]
                    ELSE IF Hears(u) /\ ~b THEN [next EXCEPT !.spoken = r.spoken \o r.segment] ELSE next
<1>1. turn \in [Turns -> TurnType] /\ turn[u] \in TurnType /\ r \in ReplyType /\ b \in BOOLEAN
  BY DEF Typed, TurnType
<1>2. turn'[u].reply = reply /\ turn'[u].aborted = b
  BY <1>1 DEF Synthesized, TurnType
<1>3. taken \in ReplyType /\ taken.items = r.items
  <2>1. <<>> \in Seq(Delta)
    OBVIOUS
  <2> QED BY <1>1, <2>1 DEF ReplyType
<1>4. Filled(r.items)
  BY DEF Worked, Busy
<1> HIDE DEF taken
<1>5. next \in ReplyType /\ Busy(next, b)
  BY <1>1, <1>3, <1>4, FeedTyped, FeedBusy
<1>6. reply.items = next.items /\ reply.segment = next.segment
  <2> HIDE DEF next
  <2>1. /\ [next EXCEPT !.lost = TRUE].items = next.items
        /\ [next EXCEPT !.lost = TRUE].segment = next.segment
        /\ [next EXCEPT !.spoken = r.spoken \o r.segment].items = next.items
        /\ [next EXCEPT !.spoken = r.spoken \o r.segment].segment = next.segment
    BY <1>5 DEF ReplyType
  <2> QED BY <2>1
<1> HIDE DEF next, reply
<1>7. Busy(reply, b)
  BY <1>5, <1>6 DEF Busy
<1> QED BY <1>2, <1>7 DEF Worked

LEMMA WorkStep == ASSUME VoiceInv, WorkInv, [Next]_vars PROVE WorkInv'
<1>0. Typed
  BY DEF VoiceInv
<1>1. ASSUME \A t \in Turns : Proceeds(turn[t], turn'[t]) PROVE WorkInv'
  BY <1>1, FreshWorked DEF WorkInv, Proceeds, Carries
<1>2. CASE SocketNext
  BY <1>0, <1>1, <1>2, SocketMoves
<1>3. CASE AgentNext
  BY <1>0, <1>1, <1>3, AgentMoves
<1>4. ASSUME NEW u \in Turns, TurnStep(u), \A ok \in BOOLEAN : ~Synthesized(u, ok) PROVE WorkInv'
  BY <1>0, <1>1, <1>4, TaskMoves
<1>5. ASSUME NEW u \in Turns, NEW ok \in BOOLEAN, Synthesized(u, ok) PROVE WorkInv'
  <2>1. Worked(turn'[u])
    BY <1>0, <1>5, SynthesizedWorks DEF WorkInv
  <2>2. \A t \in Turns : t # u => turn'[t] = turn[t]
    BY <1>0, <1>5 DEF Synthesized, Typed
  <2> QED BY <2>1, <2>2 DEF WorkInv
<1>6. CASE UNCHANGED vars
  <2>1. \A t \in Turns : Proceeds(turn[t], turn'[t])
    BY <1>6, SameMoves DEF vars
  <2> QED BY <1>1, <2>1
<1> QED BY <1>2, <1>3, <1>4, <1>5, <1>6 DEF Next

LEMMA InitWork == Init => WorkInv
<1> SUFFICES ASSUME Init PROVE WorkInv
  OBVIOUS
<1>1. \A t \in Turns : turn[t] = NewTurn("voice", NoSocket, "unused")
  BY DEF Init
<1>2. \A t \in Turns : turn[t].reply = NewReply
  BY <1>1 DEF NewTurn
<1> QED BY <1>2, FreshWorked DEF WorkInv

\* Where the task of a turn stands, with what lets it go on from there: every await but that of
\* the queue ends by itself or by its time limit, and the queue is done or its worker is speaking
\* (_route_via_agent, SegmentQueue.done).
GoesOn(t) ==
    \/ turn[t].stage \in {"stt", "text", "chat", "speaking", "waiting", "apology"}
    \/ turn[t].stage \in {"draining", "failing"} /\ (QueueDone(t) \/ turn[t].reply.segment # <<>>)

\* A running turn never waits for a queue that holds segments while its worker is idle.
THEOREM TurnsGoOn == Spec => [](\A t \in Turns : Running(t) => GoesOn(t))
<1>1. VoiceInv /\ WorkInv => \A t \in Turns : Running(t) => GoesOn(t)
  <2> SUFFICES ASSUME VoiceInv, WorkInv, NEW t \in Turns, Running(t) PROVE GoesOn(t)
    OBVIOUS
  <2>1. turn[t].stage \in Stages \ {"unused", "finished"}
    BY DEF VoiceInv, Typed, TurnType, Running
  <2>2. turn[t].reply.segment = <<>> => QueueDone(t)
    BY DEF WorkInv, Worked, Busy, QueueDone
  <2> QED BY <2>1, <2>2 DEF Stages, GoesOn
<1>2. VoiceInv /\ WorkInv /\ [Next]_vars => WorkInv'
  BY WorkStep
<1> QED BY <1>1, <1>2, InitWork, InvAlways, PTL DEF Spec
=============================================================================
