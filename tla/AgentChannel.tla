------------------------------ MODULE AgentChannel ------------------------------
(***************************************************************************)
(* The agent channel (agents/server.py): connections of agents, their      *)
(* authority, and the response frames they send.  The agent itself is      *)
(* outside: it answers every transcript with up to MaxDeltas deltas and an *)
(* end or an error, whenever it likes and over any of its connections.     *)
(* The channel has no message that would tell it of an aborted turn.       *)
(***************************************************************************)
EXTENDS VoiceState

CurrentConn(c) == conn[c].gen = agentGen[AgentOf[c]]

\* SegmentQueue._run, its worker free: the next segment is taken.  An abort ends the worker.
Feed(r, aborted) ==
    IF r.segment # <<>> \/ r.items = <<>> \/ aborted THEN r
    ELSE [r EXCEPT !.segment = Head(r.items), !.items = Tail(r.items)]

\* IdleSegmenter._flush and the flush of end(): the buffer becomes a segment of the queue.
Flushed(r, aborted) ==
    IF r.buffer = <<>> THEN r
    ELSE Feed([r EXCEPT !.items = Append(r.items, r.buffer), !.buffer = <<>>], aborted)

\* A turn after the callbacks of its listener, which ignore a reply that has its result.
OnDelta(x, d) ==
    IF x.stage # "waiting" THEN x
    ELSE [x EXCEPT !.reply.accepted = Append(x.reply.accepted, d),
                   !.reply.buffer = Append(x.reply.buffer, d)]

\* Mutant of OnEnd: what the segmenter still holds is not flushed.
OnEndUnflushed(x) == IF x.stage # "waiting" THEN x ELSE [x EXCEPT !.stage = "draining"]

OnEnd(x) ==
    IF x.stage # "waiting" THEN x
    ELSE [x EXCEPT !.stage = "draining", !.reply = Flushed(x.reply, x.aborted)]

\* on_error, the abort callback and the timeout: the segmenter drops its buffer.
OnFailure(x) ==
    IF x.stage # "waiting" THEN x ELSE [x EXCEPT !.stage = "failing", !.reply.buffer = <<>>]

-----------------------------------------------------------------------------
\* _handle_auth.  An older connection of the agent is closed first, which yields.
Auth(c) ==
    LET a == AgentOf[c]
    IN  /\ conn[c].phase = "fresh"
        /\ retained' = retained \cup {c}
        /\ conn' = [d \in Conns |->
                      IF d = c THEN [phase |-> IF slot[a] = NoConn THEN "ready" ELSE "joining",
                                     gen |-> agentGen[a]]
                      ELSE IF d = slot[a] THEN [conn[d] EXCEPT !.phase = "closing"] ELSE conn[d]]
        /\ slot' = IF slot[a] = NoConn THEN [slot EXCEPT ![a] = c] ELSE slot
        /\ EventIf(\E d \in Conns : conn[d].phase # "fresh")
        /\ UNCHANGED <<socketVars, turn, agentGen, active, listener, answer>>

\* The rest of _handle_auth: the credential may have been retired meanwhile.
AuthDone(c) ==
    /\ conn[c].phase = "joining"
    /\ IF CurrentConn(c)
       THEN /\ slot' = [slot EXCEPT ![AgentOf[c]] = c]
            /\ conn' = [conn EXCEPT ![c].phase = "ready"]
       ELSE conn' = [conn EXCEPT ![c].phase = "closing"] /\ UNCHANGED slot
    /\ UNCHANGED <<socketVars, turn, agentGen, active, listener, answer, retained, events>>

AgentDisconnect(c) ==
    /\ conn[c].phase = "ready"
    /\ conn' = [conn EXCEPT ![c].phase = "closing"]
    /\ Event
    /\ UNCHANGED <<socketVars, turn, agentGen, active, slot, listener, answer, retained>>

\* A connection leaves its slot only if it is still the one in it.
Vacated(c) == IF slot[AgentOf[c]] = c THEN [slot EXCEPT ![AgentOf[c]] = NoConn] ELSE slot

\* The finally of handle_connection.
AgentCleanup(c) ==
    /\ conn[c].phase = "closing"
    /\ conn' = [conn EXCEPT ![c] = [phase |-> "closed", gen |-> 0]]
    /\ retained' = retained \ {c}
    /\ slot' = Vacated(c)
    /\ UNCHANGED <<socketVars, turn, agentGen, active, listener, answer, events>>

\* close_revoked of the connection: its slot is freed and the waiting listener is told.
CloseRevokedAgent(c) ==
    /\ c \in retained /\ ~CurrentConn(c)
    /\ conn' = [conn EXCEPT ![c].phase = "closing"]
    /\ slot' = Vacated(c)
    /\ turn' = IF slot[AgentOf[c]] = c /\ listener # NoTurn /\ turn[listener].agent = AgentOf[c]
               THEN [turn EXCEPT ![listener] = OnFailure(turn[listener])]
               ELSE turn
    /\ retained' = retained \ {c}
    /\ UNCHANGED <<socketVars, agentGen, active, listener, answer, events>>

\* Mutant of CloseRevokedMedia: the authority is released and the media goes on.
CloseRevokedMediaUnaborted(t) ==
    /\ t \in retained /\ turn[t].gen # agentGen[turn[t].agent]
    /\ retained' = retained \ {t}
    /\ UNCHANGED <<socketVars, agentVars, turn, listener, events>>

\* close_revoked of a media turn (retain_media_turn).
CloseRevokedMedia(t) ==
    /\ t \in retained /\ turn[t].gen # agentGen[turn[t].agent]
    /\ turn' = [turn EXCEPT ![t].aborted = TRUE]
    /\ retained' = retained \ {t}
    /\ UNCHANGED <<socketVars, agentVars, listener, events>>

-----------------------------------------------------------------------------
\* _handle_authenticated_message: the next frame of the answer to u arrives over c.
Frame(c, u, kind) ==
    LET a == AgentOf[c]
        step(x) == CASE kind = "delta" -> OnDelta(x, [of |-> u, n |-> answer[u].sent + 1])
                     [] kind = "end" -> OnEnd(x)
                     [] kind = "error" -> OnFailure(x)
    IN  /\ conn[c].phase = "ready" /\ answer[u].agent = a
        /\ kind = "delta" => answer[u].sent < MaxDeltas
        /\ answer' = IF kind = "delta" THEN [answer EXCEPT ![u].sent = answer[u].sent + 1]
                                       ELSE [answer EXCEPT ![u] = NoAnswer]
        /\ IF CurrentConn(c) /\ active = a /\ slot[a] = c
           THEN /\ IF listener # NoTurn /\ turn[listener].agent = a
                   THEN /\ turn' = [turn EXCEPT ![listener] = step(turn[listener])]
                        /\ listener' = IF turn'[listener].stage = "draining" THEN ListenerRemoved(listener) ELSE listener
                   ELSE UNCHANGED <<turn, listener>>
                /\ UNCHANGED conn
           ELSE conn' = [conn EXCEPT ![c].phase = "closing"] /\ UNCHANGED <<turn, listener>>
        /\ UNCHANGED <<socketVars, agentGen, active, slot, retained, events>>

\* The owner selects another agent (agents/registry.py activate).
Activate(a) ==
    /\ active # a
    /\ active' = a
    /\ Event
    /\ UNCHANGED <<socketVars, turn, agentGen, conn, slot, listener, answer, retained>>

\* An agent's credential is rotated, or the agent is revoked, which deselects it (retire_invalid).
RetireAgent(a, revoked) ==
    /\ agentGen[a] < MaxGen
    /\ agentGen' = [agentGen EXCEPT ![a] = agentGen[a] + 1]
    /\ active' = IF revoked /\ active = a THEN NoAgent ELSE active
    /\ Event
    /\ UNCHANGED <<socketVars, turn, conn, slot, listener, answer, retained>>

AgentNext ==
    \/ \E c \in Conns :
          \/ Auth(c) \/ AuthDone(c) \/ AgentDisconnect(c) \/ AgentCleanup(c) \/ CloseRevokedAgent(c)
          \/ \E u \in Turns, kind \in {"delta", "end", "error"} : Frame(c, u, kind)
    \/ \E t \in Turns : CloseRevokedMedia(t)
    \/ \E a \in Agents \cup {Direct} : Activate(a)
    \/ \E a \in Agents, revoked \in BOOLEAN : RetireAgent(a, revoked)
=============================================================================
