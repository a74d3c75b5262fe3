------------------------------- MODULE VoiceState -------------------------------
(***************************************************************************)
(* State shared by the device socket (server.py), the agent channel        *)
(* (agents/server.py) and the voice turns (pipeline.py) of one device.     *)
(* All of them run on one event loop: a step is what runs between two      *)
(* awaits.  An abort event belongs to one turn, so a turn stands for its   *)
(* event and the object identity of a registration follows from it.        *)
(***************************************************************************)
EXTENDS Naturals, Sequences, FiniteSets

CONSTANTS Sockets,      \* device sockets, one per connection attempt
          Turns,        \* turns, each used once: bounds how many are started
          Agents,       \* enrolled agents
          Conns,        \* sockets of agents, one per connection attempt
          AgentOf,      \* the agent that opens a connection
          MaxDeltas,    \* deltas in an agent's answer
          MaxGen,       \* credential generations per subject
          MaxEvents,    \* what interferes with turns: lost connections, retired credentials,
                        \* selections, buttons, refused starts, failing services
          Selected,     \* the agent selected when the server starts
          NoSocket, NoTurn, NoConn, NoAgent,
          Direct        \* the builtin openclaw-direct agent

ASSUME VoiceConstants ==
    /\ MaxDeltas \in Nat /\ MaxGen \in Nat \ {0} /\ MaxEvents \in Nat
    /\ AgentOf \in [Conns -> Agents] /\ Selected \in Agents \cup {Direct, NoAgent}
    /\ NoSocket \notin Sockets /\ NoTurn \notin Turns /\ NoConn \notin Conns
    /\ NoAgent \notin Agents \cup {Direct} /\ Direct \notin Agents
    /\ Sockets \cap Turns = {} /\ Sockets \cap Conns = {} /\ Turns \cap Conns = {}

VARIABLES deviceGen,    \* generation of the device's credential in force
          entry,        \* registry: the registration of the device
          sock,         \* ConnectionCtx and websocket of each device socket
          button,       \* a prompt button was pressed and its task has not run
          turn,         \* the turns
          agentGen,     \* generation of each agent's credential in force
          active,       \* the selected agent
          conn,         \* agent connections
          slot,         \* AgentServer._connections
          listener,     \* AgentServer._response_listeners of the device
          answer,       \* what agents have sent in answer to each transcript
          retained,     \* authorities in auth.connections
          events        \* how many of the events bounded by MaxEvents have happened

socketVars == <<deviceGen, entry, sock, button>>
agentVars == <<agentGen, active, conn, slot, answer>>
vars == <<deviceGen, entry, sock, button, turn, agentGen, active, conn, slot, listener, answer, retained, events>>

\* One of the bounded events.
Event == events < MaxEvents /\ events' = events + 1
EventIf(fault) == IF fault THEN Event ELSE UNCHANGED events

-----------------------------------------------------------------------------
\* A piece of an agent's answer: which transcript it answers and its position.
Delta == [of : Turns, n : 1 .. MaxDeltas]

\* The reply of a turn: the buffer of the idle segmenter, the items of the segment queue, and
\* the segment its worker speaks (none while it waits).  Recorded for the properties: the
\* accepted deltas, those spoken, and whether a segment failed.
ReplyType ==
    [buffer : Seq(Delta), items : Seq(Seq(Delta)), segment : Seq(Delta),
     accepted : Seq(Delta), spoken : Seq(Delta), lost : BOOLEAN]

NewReply ==
    [buffer |-> <<>>, items |-> <<>>, segment |-> <<>>, accepted |-> <<>>, spoken |-> <<>>, lost |-> FALSE]

\* Where the task of a turn is.  The future response_done is pending in "waiting", has its text
\* in "draining" and its exception in "failing": until the task wakes with the result, the
\* listener ignores what it gets, so the two are one step.
Stages == {"unused", "stt", "text", "chat", "speaking", "waiting", "draining", "failing",
           "apology", "finished"}

\* "told": an error or audio.end of the turn has reached the device; "agent" and "gen": whom it
\* was routed to and the generation of the connection it was sent over.
TurnType ==
    [kind : {"voice", "prompt"}, stage : Stages, ws : Sockets \cup {NoSocket}, aborted : BOOLEAN,
     agent : Agents \cup {Direct, NoAgent}, gen : 0 .. MaxGen,
     told : BOOLEAN, reply : ReplyType]

NewTurn(kind, s, stage) ==
    [kind |-> kind, stage |-> stage, ws |-> s, aborted |-> FALSE, agent |-> NoAgent, gen |-> 0,
     told |-> FALSE, reply |-> NewReply]

\* Nothing is to come from an agent in answer to a turn.
NoAnswer == [agent |-> NoAgent, sent |-> 0]

\* No registration of the device (registry.get returns None).
NoEntry == [ws |-> NoSocket, state |-> "idle", owner |-> NoTurn]

Running(t) == turn[t].stage \notin {"unused", "finished"}
Closed(s) == sock[s].phase \in {"closing", "closed"}

\* Mutant of OwnerAborted: the interrupted turn is only forgotten.
OwnerForgotten == turn

\* registry.abort_active_turn: the turns afterwards (the caller clears the owner).
OwnerAborted == IF entry.owner = NoTurn THEN turn ELSE [turn EXCEPT ![entry.owner].aborted = TRUE]

\* registry.register
Registered(s, state) == [ws |-> s, state |-> state, owner |-> NoTurn]

\* Mutant of ListenerRemoved: whoever ends leaves the listener in place.
ListenerKept(t) == listener

\* remove_response_listener: only the turn's own listener.
ListenerRemoved(t) == IF listener = t THEN NoTurn ELSE listener
=============================================================================
