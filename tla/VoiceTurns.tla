------------------------------- MODULE VoiceTurns -------------------------------
(***************************************************************************)
(* Voice turns of one device: the device socket, the agent channel and the *)
(* pipeline on one event loop, with barge-in, reconnects of both sides,    *)
(* credentials retired under way and answers that come late.               *)
(***************************************************************************)
EXTENDS DeviceSocket, VoicePipeline

Init ==
    /\ deviceGen = 1 /\ entry = NoEntry /\ button = FALSE
    /\ sock = [s \in Sockets |-> [phase |-> "fresh", state |-> "IDLE", gen |-> 0]]
    /\ turn = [t \in Turns |-> NewTurn("voice", NoSocket, "unused")]
    /\ agentGen = [a \in Agents |-> 1]
    /\ active = Selected
    /\ conn = [c \in Conns |-> [phase |-> "fresh", gen |-> 0]]
    /\ slot = [a \in Agents |-> NoConn]
    /\ listener = NoTurn
    /\ answer = [t \in Turns |-> NoAnswer]
    /\ retained = {} /\ events = 0

Next == SocketNext \/ AgentNext \/ \E t \in Turns : TurnStep(t)

Spec == Init /\ [][Next]_vars

-----------------------------------------------------------------------------
TypeOK ==
    /\ deviceGen \in 1 .. MaxGen /\ button \in BOOLEAN
    /\ entry \in [ws : Sockets \cup {NoSocket}, state : {"idle", "listening", "processing"},
                  owner : Turns \cup {NoTurn}]
    /\ sock \in [Sockets -> [phase : {"fresh", "bound", "closing", "closed"},
                             state : {"IDLE", "LISTENING", "PROCESSING"}, gen : 0 .. MaxGen]]
    /\ turn \in [Turns -> TurnType]
    /\ agentGen \in [Agents -> 1 .. MaxGen]
    /\ active \in Agents \cup {Direct, NoAgent}
    /\ conn \in [Conns -> [phase : {"fresh", "joining", "ready", "closing", "closed"}, gen : 0 .. MaxGen]]
    /\ slot \in [Agents -> Conns \cup {NoConn}]
    /\ listener \in Turns \cup {NoTurn}
    /\ answer \in [Turns -> [agent : Agents \cup {NoAgent}, sent : 0 .. MaxDeltas]]
    /\ retained \subseteq Sockets \cup Conns \cup Turns
    /\ events \in 0 .. MaxEvents

\* "Lock before any await so a second gesture cannot run another turn" (buttons.py), and a new
\* utterance aborts the turn it interrupts: at most one turn of the device goes on unaborted.
OneLiveTurn == \A t, u \in Turns : Running(t) /\ Running(u) /\ ~turn[t].aborted /\ ~turn[u].aborted => t = u

\* No finished turn owns the registration or receives an agent's answer (the finally blocks of
\* _run, _dispatch_prompt and _route_via_agent), and the owner writes to the registered socket.
FinishedLetsGo ==
    /\ entry.owner # NoTurn => Running(entry.owner) /\ turn[entry.owner].ws = entry.ws
    /\ listener # NoTurn => Running(listener)

\* Nothing that acts under a retired credential has escaped auth.connections, where the
\* teardown finds it: bound device sockets, agent connections, and turns routed to an agent,
\* which outlive the connection they were sent over.
StaleIsRetained ==
    /\ \A s \in Sockets : sock[s].phase = "bound" /\ sock[s].gen # deviceGen => s \in retained
    /\ \A c \in Conns : conn[c].phase \in {"joining", "ready"} /\ ~CurrentConn(c) => c \in retained
    /\ \A t \in Turns : /\ turn[t].stage \in {"waiting", "draining", "failing", "apology"}
                        /\ turn[t].agent \in Agents /\ turn[t].gen # agentGen[turn[t].agent]
                        /\ ~turn[t].aborted
                        => t \in retained

\* What the device hears is what the listener accepted, in that order, and when the turn ends
\* normally all of it has been offered, unless the speech service failed on a segment
\* (SegmentQueue) or the socket is gone.
SpokenInOrder ==
    \A t \in Turns :
        LET r == turn[t].reply
        IN  /\ ~r.lost => \E n \in 0 .. Len(r.accepted) : r.spoken = SubSeq(r.accepted, 1, n)
            /\ turn[t].stage = "draining" /\ QueueDone(t) /\ ~turn[t].aborted /\ ~r.lost
                  /\ ~Closed(turn[t].ws)
               => r.spoken = r.accepted

\* A device whose turn ends without having been aborted is told so: by audio.end or an error.
DeviceIsTold ==
    [][\A t \in Turns : Running(t) /\ turn'[t].stage = "finished" /\ ~turn[t].aborted /\ ~Closed(turn[t].ws)
          => turn'[t].told]_vars

\* "Provider callbacks can finish after abort ... They must never address the replacement turn's
\* browser" (_VoiceTurnOutput): a voice turn is silent from its abort on, and when another
\* socket has taken the registration.
SupersededIsSilent ==
    [][\A t \in Turns :
          /\ turn[t].kind = "voice" /\ Running(t)
          /\ (turn'[t].told /\ ~turn[t].told) \/ Len(turn'[t].reply.spoken) > Len(turn[t].reply.spoken)
          => ~turn[t].aborted /\ entry.ws = turn[t].ws]_vars

\* A running turn can go on by itself: it never waits for an agent, a queue or a worker that
\* will not come back.
NeverStuck == \A t \in Turns : Running(t) => ENABLED TurnStep(t)

=============================================================================
