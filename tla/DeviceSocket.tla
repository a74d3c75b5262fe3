------------------------------ MODULE DeviceSocket ------------------------------
(***************************************************************************)
(* The device socket: authorization of each message, registration, voice   *)
(* capture, abort, buttons, and the ways a socket ends (server.py,         *)
(* devices/registry.py, buttons.py).  The device is configured for the     *)
(* WebSocket transport: realtime.start is refused.  hello is the first     *)
(* message of a socket, as firmware and web client send it.                *)
(***************************************************************************)
EXTENDS VoiceState

\* _authorize_message on a bound socket: its credential is in force and it owns the registration.
Authorized(s) == sock[s].phase = "bound" /\ sock[s].gen = deviceGen /\ entry.ws = s

\* _authorize_message binds a socket with its first message.
Bind(s, state) ==
    /\ sock[s].phase = "fresh"
    /\ sock' = [sock EXCEPT ![s] = [phase |-> "bound", state |-> state, gen |-> deviceGen]]
    /\ retained' = retained \cup {s}

\* The socket is bound already, and its capture state becomes "state".
Continue(s, state) ==
    /\ Authorized(s)
    /\ sock' = [sock EXCEPT ![s].state = state]
    /\ UNCHANGED retained

\* The first message of a socket is a reconnect when there has been another socket.
Reconnects(s) == sock[s].phase = "fresh" /\ \E r \in Sockets : sock[r].phase # "fresh"

Hello(s) ==
    /\ Bind(s, "IDLE")
    /\ entry' = Registered(s, "idle")
    /\ turn' = OwnerAborted
    /\ EventIf(Reconnects(s))
    /\ UNCHANGED <<deviceGen, button, agentVars, listener>>

\* _voice_start; without a configured speech provider only the old turn is aborted.
VoiceStart(s, available) ==
    /\ LET state == IF available THEN "LISTENING" ELSE "IDLE"
       IN  Bind(s, state) \/ Continue(s, state)
    /\ entry' = IF available THEN Registered(s, "listening") ELSE [entry EXCEPT !.owner = NoTurn]
    /\ turn' = OwnerAborted
    /\ EventIf(~available \/ Reconnects(s))
    /\ UNCHANGED <<deviceGen, button, agentVars, listener>>

\* _realtime_start, refused for this device: a new socket is bound and nothing else happens.
RealtimeStart(s) ==
    /\ Bind(s, "IDLE")
    /\ Event
    /\ UNCHANGED <<deviceGen, entry, button, turn, agentVars, listener>>

\* _voice_end: the captured audio becomes a turn, which owns the registration from here on.
VoiceEnd(s) ==
    /\ sock[s].state = "LISTENING"
    /\ Continue(s, "PROCESSING")
    /\ \E t \in Turns :
          /\ turn[t].stage = "unused"
          /\ turn' = [turn EXCEPT ![t] = NewTurn("voice", s, "stt")]
          /\ entry' = [entry EXCEPT !.state = "processing", !.owner = t]
    /\ Event
    /\ UNCHANGED <<deviceGen, button, agentVars, listener>>

\* _voice_abort, also reached through realtime.stop.
Abort(s) ==
    /\ Continue(s, "IDLE")
    /\ entry' = [entry EXCEPT !.state = "idle", !.owner = NoTurn]
    /\ turn' = OwnerAborted
    /\ UNCHANGED <<deviceGen, button, agentVars, listener, events>>

\* _device_button starts a task ...
ButtonPress(s) ==
    /\ Authorized(s) /\ ~button
    /\ button' = TRUE
    /\ Event
    /\ UNCHANGED <<deviceGen, entry, sock, turn, agentVars, listener, retained>>

\* ... that runs _dispatch_prompt: dropped without a registration or when the device is busy.
DispatchPrompt ==
    /\ button
    /\ button' = FALSE
    /\ IF entry.ws = NoSocket \/ entry.state \in {"listening", "processing"}
       THEN UNCHANGED <<entry, turn, events>>
       ELSE \E t \in Turns :
               /\ turn[t].stage = "unused"
               /\ turn' = [turn EXCEPT ![t] = NewTurn("prompt", entry.ws, "text")]
               /\ entry' = [entry EXCEPT !.state = "processing", !.owner = t]
               /\ Event
    /\ UNCHANGED <<deviceGen, sock, agentVars, listener, retained>>

-----------------------------------------------------------------------------
\* A message or audio frame that is not authorized closes the socket; so does the device.
Denied(s) ==
    /\ sock[s].phase = "bound" /\ ~Authorized(s)
    /\ sock' = [sock EXCEPT ![s].phase = "closing"]
    /\ UNCHANGED <<deviceGen, entry, button, turn, agentVars, listener, retained, events>>

Disconnect(s) ==
    /\ sock[s].phase = "bound"
    /\ sock' = [sock EXCEPT ![s].phase = "closing"]
    /\ Event
    /\ UNCHANGED <<deviceGen, entry, button, turn, agentVars, listener, retained>>

\* abort_active_turn and unregister, only by the socket that owns the registration.
Unregister(s) ==
    IF entry.ws = s THEN entry' = NoEntry /\ turn' = OwnerAborted ELSE UNCHANGED <<entry, turn>>

\* The finally of device_ws_handler.
Cleanup(s) ==
    /\ sock[s].phase = "closing"
    /\ sock' = [sock EXCEPT ![s] = [phase |-> "closed", state |-> "IDLE", gen |-> 0]]
    /\ retained' = retained \ {s}
    /\ Unregister(s)
    /\ UNCHANGED <<deviceGen, button, agentVars, listener, events>>

\* close_revoked, run to its success by disconnect_stale (module Connections).
CloseRevokedSocket(s) ==
    /\ s \in retained /\ sock[s].gen # deviceGen
    /\ retained' = retained \ {s}
    /\ sock' = [sock EXCEPT ![s].phase = "closing"]
    /\ Unregister(s)
    /\ UNCHANGED <<deviceGen, button, agentVars, listener, events>>

\* The device's credential is rotated or revoked (module Provisioning).
RetireDevice ==
    /\ deviceGen < MaxGen
    /\ deviceGen' = deviceGen + 1
    /\ Event
    /\ UNCHANGED <<entry, sock, button, turn, agentVars, listener, retained>>

SocketNext ==
    \/ RetireDevice \/ DispatchPrompt
    \/ \E s \in Sockets :
          \/ Hello(s) \/ RealtimeStart(s) \/ VoiceEnd(s) \/ Abort(s) \/ ButtonPress(s)
          \/ Denied(s) \/ Disconnect(s) \/ Cleanup(s) \/ CloseRevokedSocket(s)
          \/ \E available \in BOOLEAN : VoiceStart(s, available)
=============================================================================
