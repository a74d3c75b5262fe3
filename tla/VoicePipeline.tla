------------------------------ MODULE VoicePipeline ------------------------------
(***************************************************************************)
(* A voice turn as a task (pipeline.py, segment_queue.py, and _run of      *)
(* server.py): transcription, routing, the wait for the agent, the queue   *)
(* of segments with its worker, and the end of the turn.  Speech services  *)
(* and the OpenClaw gateway are outside: they answer or fail.              *)
(***************************************************************************)
EXTENDS AgentChannel

\* Mutant of Hears: a turn reaches whatever socket it was started on.
HearsOpen(t) == ~Closed(turn[t].ws)

\* _VoiceTurnOutput.closed: a voice turn reaches the device only while it owns the registration.
\* A prompt turn writes to the socket itself.
Hears(t) ==
    /\ ~Closed(turn[t].ws)
    /\ turn[t].kind = "voice" => ~turn[t].aborted /\ entry.ws = turn[t].ws /\ entry.owner = t

\* Whether one of the frames "what" (error, audio.end) reaches the device.  The audio.end of a
\* prompt has its own fence (send_audio_end of _dispatch_prompt).
Tells(t, what) ==
    \E w \in what : Hears(t) /\ (w = "end" => entry.owner = t /\ ~turn[t].aborted)

\* One step of the task that does not end it.
Advance(t, stage, what) ==
    /\ turn' = [turn EXCEPT ![t].stage = stage, ![t].told = turn[t].told \/ Tells(t, what)]
    /\ UNCHANGED <<entry, sock, listener, retained>>

\* The finally blocks: the listener and the media authority are given back, and the turn that
\* still owns the registration clears it.  Nothing remains of the task but whether the device
\* was told.
Finish(t, what) ==
    /\ turn' = [turn EXCEPT ![t] = [NewTurn("voice", NoSocket, "finished")
                                        EXCEPT !.told = turn[t].told \/ Tells(t, what)]]
    /\ listener' = ListenerRemoved(t)
    /\ retained' = retained \ {t}
    /\ IF entry.owner # t THEN UNCHANGED <<entry, sock>>
       ELSE /\ entry' = [entry EXCEPT !.owner = NoTurn, !.state = "idle"]
            /\ sock' = IF turn[t].kind = "voice" THEN [sock EXCEPT ![turn[t].ws].state = "IDLE"] ELSE sock

\* run_voice_turn after transcribe, up to the transcript sent by run_text_turn.
SttDone(t, outcome) ==
    /\ turn[t].stage = "stt"
    /\ CASE outcome = "error" -> Finish(t, {"error"})
         [] outcome = "empty" -> Finish(t, IF turn[t].aborted THEN {} ELSE {"end"})
         [] outcome = "text" -> IF turn[t].aborted THEN Finish(t, {}) ELSE Advance(t, "text", {})
    /\ EventIf(outcome = "error")
    /\ UNCHANGED <<deviceGen, button, agentVars>>

\* send_transcript finds the connection of the active agent.
Reachable(a) == slot[a] # NoConn /\ conn[slot[a]].phase = "ready" /\ CurrentConn(slot[a])

\* run_text_turn chooses the route; _route_via_agent sends the transcript and listens.  Without
\* an OpenClaw client (none was created at the start) the direct agent is not available either.
Route(t) ==
    /\ turn[t].stage = "text"
    /\ \/ turn[t].aborted /\ Finish(t, {}) /\ UNCHANGED answer
       \/ ~turn[t].aborted /\ active = Direct /\ Advance(t, "chat", {}) /\ UNCHANGED answer
       \/ /\ ~turn[t].aborted
          /\ active \in Agents => ~Reachable(active)
          /\ Finish(t, {"error", "end"}) /\ UNCHANGED answer
       \/ /\ ~turn[t].aborted /\ active \in Agents /\ Reachable(active)
          /\ turn' = [turn EXCEPT ![t].stage = "waiting", ![t].agent = active,
                                  ![t].gen = conn[slot[active]].gen]
          /\ listener' = t
          /\ retained' = retained \cup {t}
          /\ answer' = [answer EXCEPT ![t].agent = active]
          /\ UNCHANGED <<entry, sock>>
    /\ UNCHANGED <<deviceGen, button, agentGen, active, conn, slot, events>>

-----------------------------------------------------------------------------
\* _route_via_openclaw_direct: the chat, then the speech of the whole reply.
ChatDone(t, ok) ==
    /\ turn[t].stage = "chat"
    /\ CASE ~ok -> Advance(t, "apology", {"error"})
         [] ok /\ turn[t].aborted -> Finish(t, {})
         [] ok /\ ~turn[t].aborted -> Advance(t, "speaking", {})
    /\ EventIf(~ok)
    /\ UNCHANGED <<deviceGen, button, agentVars>>

SpeechDone(t, ok) ==
    /\ turn[t].stage = "speaking"
    /\ Finish(t, (IF ok THEN {} ELSE {"error"}) \cup (IF turn[t].aborted THEN {} ELSE {"end"}))
    /\ EventIf(~ok)
    /\ UNCHANGED <<deviceGen, button, agentVars>>

\* _synthesize_error_message, spoken or not, then audio.end.
Apologise(t) ==
    /\ turn[t].stage = "apology"
    /\ Finish(t, IF turn[t].aborted THEN {} ELSE {"end"})
    /\ UNCHANGED <<deviceGen, button, agentVars, events>>

-----------------------------------------------------------------------------
\* The idle timer, the timeout and the abort callback of a turn that waits for its agent.
Wait(t, x) ==
    /\ turn[t].stage = "waiting"
    /\ turn' = [turn EXCEPT ![t] = x]
    /\ UNCHANGED <<socketVars, agentVars, listener, retained, events>>

IdleFlush(t) ==
    /\ turn[t].reply.buffer # <<>>
    /\ Wait(t, [turn[t] EXCEPT !.reply = Flushed(turn[t].reply, turn[t].aborted)])

\* Mutant of Timeout: only the first delta is waited for.
TimeoutFirst(t) == turn[t].reply.accepted = <<>> /\ Wait(t, OnFailure(turn[t]))

Timeout(t) == Wait(t, OnFailure(turn[t]))
OnAbort(t) == turn[t].aborted /\ Wait(t, OnFailure(turn[t]))

\* The synthesis of a segment ends: spoken, cut off by an abort, or failed, which the device is
\* told and the queue goes on.
Synthesized(t, ok) ==
    LET r == turn[t].reply
        next == Feed([r EXCEPT !.segment = <<>>], turn[t].aborted)
    IN  /\ r.segment # <<>>
        /\ turn' = [turn EXCEPT
                      ![t].reply = IF ~ok THEN [next EXCEPT !.lost = TRUE]
                                   ELSE IF Hears(t) /\ ~turn[t].aborted
                                   THEN [next EXCEPT !.spoken = r.spoken \o r.segment] ELSE next,
                      ![t].told = turn[t].told \/ (~ok /\ Tells(t, {"error"}))]
        /\ EventIf(~ok)
        /\ UNCHANGED <<socketVars, agentVars, listener, retained>>

\* The worker of the queue has returned: the queue is closed in these stages.
QueueDone(t) == turn[t].reply.segment = <<>> /\ (turn[t].aborted \/ turn[t].reply.items = <<>>)

\* Mutant of Drained: audio.end is not sent.
DrainedSilently(t) ==
    /\ turn[t].stage = "draining" /\ QueueDone(t)
    /\ Finish(t, {})
    /\ UNCHANGED <<deviceGen, button, agentVars, events>>

\* queue.done() has returned after an answer.
Drained(t) ==
    /\ turn[t].stage = "draining" /\ QueueDone(t)
    /\ Finish(t, IF turn[t].aborted THEN {} ELSE {"end"})
    /\ UNCHANGED <<deviceGen, button, agentVars, events>>

\* After a failure the listener is removed when the worker is done.
Failed(t) ==
    /\ turn[t].stage = "failing" /\ QueueDone(t)
    /\ IF turn[t].aborted THEN Finish(t, {})
       ELSE /\ turn' = [turn EXCEPT ![t].stage = "apology", ![t].reply = NewReply,
                                    ![t].told = turn[t].told \/ Tells(t, {"error"})]
            /\ listener' = ListenerRemoved(t)
            /\ UNCHANGED <<entry, sock, retained>>
    /\ UNCHANGED <<deviceGen, button, agentVars, events>>

TurnStep(t) ==
    \/ \E outcome \in {"error", "empty", "text"} : SttDone(t, outcome)
    \/ Route(t) \/ IdleFlush(t) \/ Timeout(t) \/ OnAbort(t) \/ Drained(t) \/ Failed(t) \/ Apologise(t)
    \/ \E ok \in BOOLEAN : ChatDone(t, ok) \/ SpeechDone(t, ok) \/ Synthesized(t, ok)
=============================================================================
