------------------------------ MODULE OpenClaw ------------------------------
(***************************************************************************)
(* The client of the OpenClaw gateway (agents/openclaw.py): one connection *)
(* with a handshake, chats multiplexed over it, and a reconnect after it   *)
(* was lost.  The server's start connects it when the direct agent is      *)
(* selected (server.py), its cleanup closes it.                            *)
(*                                                                         *)
(* The reader task of a connection handles every frame and, when it ends,  *)
(* rejects what still waits.  The answer to the connect request is handled *)
(* by a task of its own (HelloEnds), possibly after the reader has ended.  *)
(* The reconnect delay is at least a second: whatever is ready runs        *)
(* before.  Its doubling is left out.                                      *)
(***************************************************************************)
EXTENDS Naturals

CONSTANTS Chats,
          MaxEvents   \* budget of what goes wrong: the network, the gateway, the shutdown

\* Who is in connect() or in _teardown().
Callers == {"startup", "retry", "cleanup"}

VARIABLES
    client,   \* _should_reconnect, _connected, and whether _ws is set
    link,     \* the connection: "open" while its reader reads, "cut" once it is to end
    hello,    \* the connect request of the connection
    shake,    \* its handshake_done
    caller,   \* where each caller is
    chat,
    events
vars == <<client, link, hello, shake, caller, chat, events>>

Init ==
    /\ client = [should |-> TRUE, connected |-> FALSE, ws |-> FALSE]
    /\ link = "none" /\ hello = "none" /\ shake = "none"
    /\ caller = [d \in Callers |-> IF d = "startup" THEN "dialing" ELSE "none"]
    /\ chat = [c \in Chats |-> "idle"]
    /\ events = 0

Event == events < MaxEvents /\ events' = events + 1
CallerGoes(d, at) == caller' = [caller EXCEPT ![d] = at]

\* Pending requests and running chats fail with the connection.
Waits(c) == chat[c] \in {"sent", "listening"}
Rejected == [c \in Chats |-> IF Waits(c) THEN "failed" ELSE chat[c]]

-----------------------------------------------------------------------------
\* connect, by the server's start or by the reconnect task.

Connects(d) ==
    /\ caller[d] = "dialing"
    /\ CallerGoes(d, "shaking")
    /\ link' = "open" /\ hello' = "none" /\ shake' = "pending"
    /\ client' = [client EXCEPT !.ws = TRUE]
    /\ UNCHANGED <<chat, events>>

\* ws_connect raises: into the start, or into the reconnect task, which logs it.
DialFails(d) ==
    /\ caller[d] = "dialing"
    /\ Event
    /\ CallerGoes(d, "none")
    /\ UNCHANGED <<client, link, hello, shake, chat>>

Returns(d) ==
    /\ caller[d] = "shaking" /\ shake \in {"done", "failed"}
    /\ CallerGoes(d, "none")
    /\ UNCHANGED <<client, link, hello, shake, chat, events>>

\* The first half of _teardown: the reader is cancelled.
Cuts == link' = IF link = "open" THEN "cut" ELSE link

TimesOut(d) ==
    /\ caller[d] = "shaking" /\ shake = "pending"
    /\ Event
    /\ CallerGoes(d, "tearing")
    /\ Cuts
    /\ shake' = "failed"
    /\ client' = [client EXCEPT !.connected = FALSE]
    /\ UNCHANGED <<hello, chat>>

\* The second half, when the WebSocket is closed.  It closes the session and forgets the socket
\* that are there by now, which after the start's time-out may be those of the reconnect.
TornDown(d) ==
    /\ caller[d] = "tearing" /\ link # "cut"
    /\ CallerGoes(d, "none")
    /\ Cuts
    /\ client' = [client EXCEPT !.ws = FALSE]
    /\ chat' = Rejected
    /\ UNCHANGED <<hello, shake, events>>

Close ==
    /\ caller["startup"] = "none" /\ caller["cleanup"] = "none"
    /\ Event
    /\ CallerGoes("cleanup", "tearing")
    /\ Cuts
    /\ client' = [client EXCEPT !.should = FALSE, !.connected = FALSE]
    /\ UNCHANGED <<hello, shake, chat>>

\* _reconnect_after, when its delay is over.
RetryWakes ==
    /\ caller["retry"] = "waiting"
    /\ caller["startup"] # "shaking" /\ hello \notin {"granted", "refused", "unpaired"}
    /\ CallerGoes("retry", IF client.should THEN "dialing" ELSE "none")
    /\ UNCHANGED <<client, link, hello, shake, chat, events>>

-----------------------------------------------------------------------------
\* The reader.

Challenged ==
    /\ link = "open" /\ hello = "none"
    /\ hello' = "asked"
    /\ UNCHANGED <<client, link, shake, caller, chat, events>>

\* The gateway grants the connection, refuses it, or wants the server to be paired first.
HelloAnswered ==
    /\ link = "open" /\ hello = "asked"
    /\ \/ hello' = "granted" /\ UNCHANGED events
       \/ hello' \in {"refused", "unpaired"} /\ Event
    /\ UNCHANGED <<client, link, shake, caller, chat>>

HelloEnds ==
    /\ hello \in {"granted", "refused", "unpaired"}
    /\ hello' = "over"
    /\ client' = [client EXCEPT !.connected = @ \/ hello = "granted"]
    /\ shake' = IF shake # "pending" THEN shake ELSE IF hello = "refused" THEN "failed" ELSE "done"
    /\ UNCHANGED <<link, caller, chat, events>>

\* The connection is lost, or the reader was cancelled.  No reconnect is scheduled while the
\* reconnect task is still in its connect.
ReaderEnds ==
    /\ \/ link = "cut" /\ UNCHANGED events
       \/ link = "open" /\ Event
    /\ link' = "none"
    /\ client' = [client EXCEPT !.connected = FALSE]
    /\ chat' = Rejected
    /\ shake' = IF shake = "pending" THEN "failed" ELSE shake
    /\ hello' = IF hello = "asked" THEN "over" ELSE hello
    /\ caller' = [caller EXCEPT !["retry"] = IF client.should /\ @ = "none" THEN "waiting" ELSE @]

-----------------------------------------------------------------------------
\* Chats, once the server has started.

\* The request is registered and sent; on a closed socket that raises.
ChatBegins(c) ==
    /\ chat[c] = "idle" /\ caller["startup"] = "none"
    /\ chat' = [chat EXCEPT ![c] = IF client.connected /\ client.ws /\ link = "open" THEN "sent" ELSE "failed"]
    /\ UNCHANGED <<client, link, hello, shake, caller, events>>

\* The response installs the listener, or is an error, or names no run.
ChatAnswered(c) ==
    /\ link = "open" /\ chat[c] = "sent"
    /\ \E to \in {"listening", "failed"} : chat' = [chat EXCEPT ![c] = to]
    /\ UNCHANGED <<client, link, hello, shake, caller, events>>

\* final, aborted or error.
ChatEnds(c) ==
    /\ link = "open" /\ chat[c] = "listening"
    /\ \E to \in {"done", "failed"} : chat' = [chat EXCEPT ![c] = to]
    /\ UNCHANGED <<client, link, hello, shake, caller, events>>

-----------------------------------------------------------------------------
ClientStep ==
    \/ \E d \in {"startup", "retry"} : Connects(d) \/ DialFails(d) \/ Returns(d) \/ TimesOut(d)
    \/ (\E d \in Callers : TornDown(d)) \/ Close \/ RetryWakes \/ HelloEnds \/ ReaderEnds
GatewayStep ==
    \/ Challenged \/ HelloAnswered
    \/ \E c \in Chats : ChatBegins(c) \/ ChatAnswered(c) \/ ChatEnds(c)
Next == ClientStep \/ GatewayStep
Spec == Init /\ [][Next]_vars

\* Ready tasks run, dialling and closing end, timers fire, and the gateway talks when it is asked.
FairSpec ==
    /\ Spec
    /\ WF_vars(RetryWakes) /\ WF_vars(HelloEnds) /\ WF_vars(link = "cut" /\ ReaderEnds)
    /\ WF_vars(Challenged) /\ WF_vars(HelloAnswered)
    /\ \A d \in Callers : /\ WF_vars(Connects(d) \/ DialFails(d))
                          /\ WF_vars(Returns(d))
                          /\ WF_vars(TornDown(d))

-----------------------------------------------------------------------------
\* A client that has no connection and is not closed gets one again.
Reconnects ==
    (caller["startup"] = "none" /\ link = "none" /\ client.should) ~> (link = "open" \/ ~client.should)
=============================================================================
