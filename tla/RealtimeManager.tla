--------------------------- MODULE RealtimeManager ---------------------------
(***************************************************************************)
(* The realtime sessions of one device (realtime/session.py, the realtime  *)
(* messages of server.py, the offers of realtime/app.py).  A wake is what  *)
(* realtime.start arms; an offer turns it into a peer, that is a           *)
(* RealtimeSession with its WebRTC connection.  Sockets, offers, startup   *)
(* failures and peers run concurrently; a step is what one of them does    *)
(* between two awaits.                                                     *)
(*                                                                         *)
(* A device arms wakes with a generation and a startup buffer (begin_      *)
(* startup); a browser's explicit live mode arms only the live flag.       *)
(***************************************************************************)
EXTENDS Naturals, FiniteSets

CONSTANTS Setups,      \* what may be configured: "standard" and "live" devices, "browser"
          MaxSockets, MaxWakes, MaxPeers, MaxOffers,
          Budget       \* per setup, how many sockets and offers come, and how much interferes:
                       \* stops, losses, failures

ASSUME SetupsAssumption == Setups \subseteq {"standard", "live", "browser"}
ASSUME BoundsAssumption ==
    /\ {MaxSockets, MaxWakes, MaxPeers, MaxOffers} \subseteq Nat
    /\ Budget \in [Setups -> [sockets : 0..MaxSockets, offers : 0..MaxOffers, events : Nat]]

Sockets == 1..MaxSockets
Wakes == 1..MaxWakes
Peers == 1..MaxPeers
Offers == 1..MaxOffers
\* Who may run _stop_wake: a socket's handler, a failed startup's task, a failed offer.
Stoppers == ({"socket"} \X Sockets) \cup ({"startup"} \X Wakes) \cup ({"offer"} \X Offers)

VARIABLES
    setup,
    mgr,        \* the device's entries in RealtimeManager and its registration
    armed,      \* the socket that armed each wake, 0 before
    spent,      \* wakes whose startup buffer is closed
    failing,    \* where the failure callback of a startup is
    sock, peer, offer,
    lock,       \* the offer that holds the device's offer lock, 0 if none
    stopping,   \* what each _stop_wake in progress captured
    events
vars == <<setup, mgr, armed, spent, failing, sock, peer, offer, lock, stopping, events>>

NoStop == [peer |-> 0, wake |-> 0, ws |-> 0]
NoPeer == [at |-> "none", wake |-> 0, startup |-> 0, ws |-> 0,
           closed |-> FALSE, down |-> FALSE, leaving |-> FALSE]
NoOffer == [at |-> "none", wake |-> 0, startup |-> 0, peer |-> 0, failed |-> FALSE]

Init ==
    /\ setup \in Setups
    /\ mgr = [ws |-> 0, wake |-> 0, startup |-> 0, live |-> FALSE, current |-> 0]
    /\ armed = [k \in Wakes |-> 0]
    /\ spent = {}
    /\ failing = [k \in Wakes |-> "no"]
    /\ sock = [w \in Sockets |-> [at |-> "new", realtime |-> "no", startup |-> 0]]
    /\ peer = [s \in Peers |-> NoPeer]
    /\ offer = [o \in Offers |-> NoOffer]
    /\ lock = 0
    /\ stopping = [a \in Stoppers |-> NoStop]
    /\ events = 0

Event == events < Budget[setup].events /\ events' = events + 1

-----------------------------------------------------------------------------
\* What the callers share.

Open(s) == peer[s].at # "none" /\ ~peer[s].closed
CanAccept(x) == x.current # 0 \/ x.live \/ x.wake # 0
\* The peer of the very wake that is armed: an offer for it is a duplicate.
Connected(x) == x.startup # 0 /\ x.current # 0 /\ peer[x.current].startup = x.startup

\* The first half of session.close: it is marked, its startup buffer is closed, and its
\* teardown begins.
PeersClosing(s) == [peer EXCEPT ![s].closed = TRUE]
SpentBy(s) == spent \cup ({peer[s].startup} \ {0})

\* A mutant: a peer that ends forgets whatever peer the device has.
ForgottenBlindly(x, s) == [x EXCEPT !.current = 0, !.startup = IF @ = peer[s].startup THEN 0 ELSE @]

\* The second half, once the teardown succeeded.
Forgotten(x, s) ==
    [x EXCEPT !.current = IF @ = s THEN 0 ELSE @,
              !.startup = IF @ = peer[s].startup THEN 0 ELSE @]

\* A mutant: the wake is not compared.
SupersededByPeer(x, st) == x.current \notin {0, st.peer} \/ x.ws # st.ws

\* A newer peer, wake or socket took over while the stop awaited the old peer's teardown.
Superseded(x, st) ==
    \/ x.current \notin {0, st.peer}
    \/ x.wake # st.wake
    \/ x.ws # st.ws
Disarmed(x) == [x EXCEPT !.startup = 0, !.wake = 0, !.live = FALSE]
Stopped(x, st) == IF Superseded(x, st) THEN x ELSE Disarmed(x)

\* _stop_wake when the device has no peer.
StopsAtOnce ==
    /\ mgr.current = 0
    /\ mgr' = Disarmed(mgr)
    /\ spent' = spent \cup ({mgr.startup} \ {0})
    /\ UNCHANGED <<peer, stopping>>

\* _stop_wake up to its await of the peer's teardown.
StopWaits(a) ==
    /\ mgr.current # 0
    /\ peer' = PeersClosing(mgr.current)
    /\ spent' = SpentBy(mgr.current) \cup ({mgr.startup} \ {0})
    /\ stopping' = [stopping EXCEPT ![a] = [peer |-> mgr.current, wake |-> mgr.wake, ws |-> mgr.ws]]
    /\ UNCHANGED mgr

\* The teardown that a stop awaits has ended; what the manager is once the stop returns.
StopReturns(a) ==
    /\ stopping[a].peer # 0
    /\ peer[stopping[a].peer].down
    /\ stopping' = [stopping EXCEPT ![a] = NoStop]
AfterStop(a) == Stopped(Forgotten(mgr, stopping[a].peer), stopping[a])

\* A mutant: close waits for as long as the teardown takes.
NeverRaises(a) == FALSE /\ UNCHANGED <<mgr, peer, spent, events, stopping>>

\* A teardown failed or took too long: close raises in whoever awaits it, here a stop.
StopRaises(a) ==
    /\ stopping[a].peer # 0
    /\ ~peer[stopping[a].peer].down
    /\ stopping' = [stopping EXCEPT ![a] = NoStop]
    /\ UNCHANGED <<mgr, peer, spent, events>>

-----------------------------------------------------------------------------
\* Sockets.  A handler takes one message at a time; "left" is a handler whose loop is over.

SocketGoes(w, at, realtime, startup) ==
    sock' = [sock EXCEPT ![w] = [at |-> at, realtime |-> realtime, startup |-> startup]]

Serving(w) == sock[w].at = "rest" /\ mgr.ws = w

Hello(w) ==
    /\ sock[w].at = "new" /\ w <= Budget[setup].sockets
    /\ \A v \in Sockets : v < w => sock[v].at # "new"
    /\ mgr' = [mgr EXCEPT !.ws = w]
    /\ SocketGoes(w, "rest", "no", 0)
    /\ UNCHANGED <<setup, armed, spent, failing, peer, offer, lock, stopping, events>>

\* The rest of realtime.start once the old wake was stopped and left the manager as x: the
\* socket gives up if it was replaced meanwhile, else it arms the new wake.
Arms(w, x, k) ==
    IF x.ws # w THEN /\ mgr' = x
                     /\ SocketGoes(w, "left", "on", 0)
                     /\ UNCHANGED armed
    ELSE IF setup = "browser" THEN /\ mgr' = [x EXCEPT !.live = TRUE]
                                   /\ SocketGoes(w, "rest", "on", 0)
                                   /\ UNCHANGED armed
    ELSE /\ armed[k] = 0
         /\ \A j \in Wakes : j < k => armed[j] # 0
         /\ armed' = [armed EXCEPT ![k] = w]
         /\ mgr' = [x EXCEPT !.wake = k, !.startup = k, !.live = (setup = "live")]
         /\ SocketGoes(w, "rest", "on", k)
\* begin_startup closes the buffer it replaces.
Replaced(x) == spent' = spent \cup ({x.startup} \ {0})

\* realtime.start without a startup id while the peer is connected.
Rewake(w) ==
    /\ Serving(w) /\ sock[w].realtime # "on"
    /\ mgr.current # 0
    /\ peer[mgr.current].at = "running" /\ Open(mgr.current)
    /\ SocketGoes(w, "rest", "on", sock[w].startup)
    /\ UNCHANGED <<setup, mgr, armed, spent, failing, peer, offer, lock, stopping, events>>

WakeLeft == setup = "browser" \/ \E k \in Wakes : armed[k] = 0

\* realtime.start; register() gives the device a fresh entry.
Start(w, k) ==
    /\ Serving(w) /\ WakeLeft
    /\ setup = "browser" => Event
    /\ setup # "browser" => UNCHANGED events
    /\ \/ /\ mgr.current = 0
          /\ Arms(w, Disarmed(mgr), k)
          /\ Replaced(mgr)
          /\ UNCHANGED <<peer, stopping>>
       \/ /\ StopWaits(<<"socket", w>>)
          /\ SocketGoes(w, "starting", "on", 0)
          /\ UNCHANGED armed
    /\ UNCHANGED <<setup, failing, offer, lock>>

StartResumes(w, k) ==
    /\ sock[w].at = "starting"
    /\ StopReturns(<<"socket", w>>)
    /\ Arms(w, AfterStop(<<"socket", w>>), k)
    /\ Replaced(AfterStop(<<"socket", w>>))
    /\ UNCHANGED <<setup, failing, peer, offer, lock, events>>

\* realtime.stop, or abort: _voice_abort, then the wake.
Stop(w) ==
    /\ Serving(w)
    /\ Event
    /\ \/ StopsAtOnce /\ SocketGoes(w, "rest", "off", 0)
       \/ StopWaits(<<"socket", w>>) /\ SocketGoes(w, "stopping", "off", 0)
    /\ UNCHANGED <<setup, armed, failing, offer, lock>>

StopResumes(w) ==
    /\ sock[w].at = "stopping"
    /\ StopReturns(<<"socket", w>>)
    /\ mgr' = AfterStop(<<"socket", w>>)
    /\ SocketGoes(w, "rest", "off", 0)
    /\ UNCHANGED <<setup, armed, spent, failing, peer, offer, lock, events>>

\* The exception ends the handler's loop.
HandlerFails(w) ==
    /\ sock[w].at \in {"starting", "stopping"}
    /\ StopRaises(<<"socket", w>>)
    /\ SocketGoes(w, "left", sock[w].realtime, 0)
    /\ UNCHANGED <<setup, armed, failing, offer, lock>>

\* unregister drops the registration only if it is still this socket's.
Unregistered(x, w) == IF x.ws = w THEN [x EXCEPT !.ws = 0] ELSE x

\* The connection is lost, or the loop ended: the handler's finally.
Leave(w) ==
    /\ \/ sock[w].at = "rest" /\ Event
       \/ sock[w].at = "left" /\ UNCHANGED events
    /\ LET owner == mgr.ws \in {0, w} /\ sock[w].realtime = "on"
       IN  \/ /\ ~owner
              /\ mgr' = Unregistered(mgr, w)
              /\ SocketGoes(w, "gone", "no", 0)
              /\ UNCHANGED <<peer, spent, stopping>>
           \/ /\ owner /\ mgr.current = 0
              /\ mgr' = Unregistered(Disarmed(mgr), w)
              /\ spent' = spent \cup ({mgr.startup} \ {0})
              /\ SocketGoes(w, "gone", "no", 0)
              /\ UNCHANGED <<peer, stopping>>
           \/ /\ owner
              /\ StopWaits(<<"socket", w>>)
              /\ SocketGoes(w, "leaving", "on", sock[w].startup)
    /\ UNCHANGED <<setup, armed, failing, offer, lock>>

LeaveResumes(w) ==
    /\ sock[w].at = "leaving"
    /\ StopReturns(<<"socket", w>>)
    /\ mgr' = Unregistered(AfterStop(<<"socket", w>>), w)
    /\ SocketGoes(w, "gone", "no", 0)
    /\ UNCHANGED <<setup, armed, spent, failing, peer, offer, lock, events>>

\* The exception leaves the finally block before unregister.
LeaveFails(w) ==
    /\ sock[w].at = "leaving"
    /\ StopRaises(<<"socket", w>>)
    /\ SocketGoes(w, "gone", "no", 0)
    /\ UNCHANGED <<setup, armed, failing, offer, lock>>

-----------------------------------------------------------------------------
\* Startup failures: timeout, overflow, a gap in the packets, or a session that cannot start.

Fails(k) == failing' = [failing EXCEPT ![k] = IF k \in spent THEN @ ELSE "called"]

StartupFails(k) ==
    /\ armed[k] # 0 /\ k \notin spent
    /\ Event
    /\ spent' = spent \cup {k}
    /\ Fails(k)
    /\ UNCHANGED <<setup, mgr, armed, sock, peer, offer, lock, stopping>>

\* The callback still speaks for this socket's wake.
Concerned(k) == sock[armed[k]].startup = k /\ mgr.startup = k

FailureTold(k) ==
    /\ failing[k] = "called"
    /\ failing' = [failing EXCEPT ![k] = IF Concerned(k) /\ mgr.ws = armed[k] THEN "telling" ELSE "no"]
    /\ UNCHANGED <<setup, mgr, armed, spent, sock, peer, offer, lock, stopping, events>>

\* After the error was sent: _realtime_stop for the socket that armed the wake.
FailureStops(k) ==
    /\ failing[k] = "telling"
    /\ \/ /\ ~Concerned(k)
          /\ failing' = [failing EXCEPT ![k] = "no"]
          /\ UNCHANGED <<mgr, sock, spent, peer, stopping>>
       \/ /\ Concerned(k)
          /\ \/ StopsAtOnce /\ failing' = [failing EXCEPT ![k] = "no"]
             \/ StopWaits(<<"startup", k>>) /\ failing' = [failing EXCEPT ![k] = "stopping"]
          /\ SocketGoes(armed[k], sock[armed[k]].at, "off", 0)
    /\ UNCHANGED <<setup, armed, offer, lock, events>>

FailureEnds(k) ==
    /\ failing[k] = "stopping"
    /\ \/ /\ StopReturns(<<"startup", k>>)
          /\ mgr' = AfterStop(<<"startup", k>>)
          /\ UNCHANGED <<spent, peer, events>>
       \/ StopRaises(<<"startup", k>>)
    /\ failing' = [failing EXCEPT ![k] = "no"]
    /\ UNCHANGED <<setup, armed, sock, offer, lock>>

-----------------------------------------------------------------------------
\* Offers: _offer_handler, handle_offer and the callback Pipecat makes in between.

OfferGoes(o, at) == offer' = [offer EXCEPT ![o].at = at]

\* The offer names the startup that is registered, which must not be closed.
OfferArrives(o) ==
    /\ offer[o].at = "none" /\ o <= Budget[setup].offers
    /\ \A n \in Offers : n < o => offer[n].at # "none"
    /\ CanAccept(mgr)
    /\ mgr.startup \notin spent
    /\ offer' = [offer EXCEPT ![o] = [NoOffer EXCEPT !.at = "waiting", !.wake = mgr.wake,
                                                     !.startup = mgr.startup]]
    /\ UNCHANGED <<setup, mgr, armed, spent, failing, sock, peer, lock, stopping, events>>

\* It is still an offer for the wake it was made for.
Timely(o, x) == x.wake = offer[o].wake

OfferEnters(o) ==
    /\ offer[o].at = "waiting" /\ lock = 0
    /\ IF Timely(o, mgr) /\ CanAccept(mgr) /\ ~Connected(mgr)
       THEN OfferGoes(o, "negotiating") /\ lock' = o
       ELSE OfferGoes(o, "refused") /\ lock' = lock
    /\ UNCHANGED <<setup, mgr, armed, spent, failing, sock, peer, stopping, events>>

\* _sessions[device] = session, then session.start: a standard pipeline is built without an
\* await, a live one first asks the agent for its context.
Creates(o, x, s) ==
    /\ peer[s].at = "none"
    /\ \A t \in Peers : t < s => peer[t].at # "none"
    /\ peer' = [peer EXCEPT ![s] = [NoPeer EXCEPT !.at = IF x.live THEN "starting" ELSE "running",
                                                  !.wake = x.wake, !.startup = x.startup, !.ws = x.ws]]
    /\ mgr' = [x EXCEPT !.current = s]
    /\ offer' = [offer EXCEPT ![o].at = IF x.live THEN "starting" ELSE "answering", ![o].peer = s]

\* The callback: the offer is refused, which disconnects its connection first, or the existing
\* peer is closed, or a peer is made.
OfferConnects(o, s) ==
    /\ offer[o].at = "negotiating"
    /\ \/ /\ ~(Timely(o, mgr) /\ CanAccept(mgr)) \/ Connected(mgr)
          /\ OfferGoes(o, "dropping")
          /\ UNCHANGED <<mgr, peer, spent>>
       \/ /\ Timely(o, mgr) /\ CanAccept(mgr) /\ mgr.current = 0
          /\ Creates(o, mgr, s)
          /\ UNCHANGED spent
       \/ /\ Timely(o, mgr) /\ mgr.current # 0 /\ ~Connected(mgr)
          /\ peer' = PeersClosing(mgr.current)
          /\ spent' = SpentBy(mgr.current)
          /\ offer' = [offer EXCEPT ![o].at = "replacing", ![o].peer = mgr.current]
          /\ UNCHANGED mgr
    /\ UNCHANGED <<setup, armed, failing, sock, lock, stopping, events>>

\* The existing peer is gone.  Only the wake is looked at again.
OfferReplaces(o, s) ==
    /\ offer[o].at = "replacing"
    /\ peer[offer[o].peer].down
    /\ LET x == Forgotten(mgr, offer[o].peer)
       IN  \/ Timely(o, x) /\ Creates(o, x, s)
           \/ ~Timely(o, x) /\ mgr' = x /\ OfferGoes(o, "dropping") /\ UNCHANGED peer
    /\ UNCHANGED <<setup, armed, spent, failing, sock, lock, stopping, events>>

\* The refused connection is disconnected, or that raised, which may take any time; Pipecat logs
\* the callback's exception and answers.
Dropped(o) ==
    /\ offer[o].at = "dropping"
    /\ OfferGoes(o, "answering")
    /\ UNCHANGED <<setup, mgr, armed, spent, failing, sock, peer, lock, stopping, events>>

\* Closing the existing peer raises; Pipecat logs it and answers.
ReplacingFails(o) ==
    /\ offer[o].at = "replacing"
    /\ ~peer[offer[o].peer].down
    /\ OfferGoes(o, "answering")
    /\ UNCHANGED <<setup, mgr, armed, spent, failing, sock, peer, lock, stopping, events>>

\* The wake has been superseded: close the new peer again.
Undo(o, failed) ==
    /\ peer' = PeersClosing(offer[o].peer)
    /\ spent' = SpentBy(offer[o].peer)
    /\ offer' = [offer EXCEPT ![o].at = "undoing", ![o].failed = failed]

\* start raises: the startup fails and the peer is closed.
StartRaises(o) ==
    /\ Undo(o, TRUE)
    /\ LET k == peer[offer[o].peer].startup
       IN  IF k = 0 THEN UNCHANGED failing ELSE Fails(k)
    /\ UNCHANGED mgr

\* What start_live looks at when the agent's context has come.
Cancelled(s) == peer[s].closed \/ peer[s].startup \in spent

Bootstrapped(o) ==
    /\ offer[o].at = "starting"
    /\ LET s == offer[o].peer
       IN  \/ Cancelled(s) /\ StartRaises(o)
           \/ /\ ~Cancelled(s) /\ ~(Timely(o, mgr) /\ CanAccept(mgr))
              /\ Undo(o, FALSE)
              /\ UNCHANGED <<mgr, failing>>
           \/ /\ ~Cancelled(s) /\ Timely(o, mgr) /\ CanAccept(mgr)
              /\ peer' = [peer EXCEPT ![s].at = "running"]
              /\ mgr' = [mgr EXCEPT !.current = s]
              /\ OfferGoes(o, "answering")
              /\ UNCHANGED <<spent, failing>>
    /\ UNCHANGED <<setup, armed, sock, lock, stopping, events>>

BootstrapFails(o) ==
    /\ offer[o].at = "starting"
    /\ Event
    /\ StartRaises(o)
    /\ UNCHANGED <<setup, armed, sock, lock, stopping>>

\* The new peer is closed, or its close raised.
Undone(o) ==
    /\ offer[o].at = "undoing"
    /\ \/ /\ peer[offer[o].peer].down
          /\ mgr' = Forgotten(mgr, offer[o].peer)
       \/ ~peer[offer[o].peer].down /\ UNCHANGED mgr
    /\ OfferGoes(o, "answering")
    /\ UNCHANGED <<setup, armed, spent, failing, sock, peer, lock, stopping, events>>

\* abort_wake for the wake the failed offer was made for.
AbortsWake(o) ==
    \/ /\ ~Timely(o, mgr)
       /\ OfferGoes(o, "refused")
       /\ UNCHANGED <<mgr, spent, peer, stopping>>
    \/ Timely(o, mgr) /\ StopsAtOnce /\ OfferGoes(o, "refused")
    \/ Timely(o, mgr) /\ StopWaits(<<"offer", o>>) /\ OfferGoes(o, "aborting")

\* Negotiation itself fails, or ends without an answer.
OfferFails(o) ==
    /\ offer[o].at \in {"negotiating", "answering"}
    /\ Event
    /\ AbortsWake(o)
    /\ lock' = 0
    /\ UNCHANGED <<setup, armed, failing, sock>>

\* The startup the offer was made for failed, ended or was superseded.
Lost(o) ==
    /\ offer[o].startup # 0
    /\ offer[o].failed \/ offer[o].startup \in spent \/ ~Timely(o, mgr)

\* handle_offer raises and so releases the lock; the error of a session that could not start
\* aborts the wake.
Raises(o) ==
    /\ lock' = 0
    /\ \/ offer[o].failed /\ AbortsWake(o)
       \/ /\ ~offer[o].failed
          /\ OfferGoes(o, "refused")
          /\ UNCHANGED <<mgr, spent, peer, stopping>>

\* Back in handle_offer with an answer, which stands without a startup.  The peer of a lost
\* startup is disconnected first, if Pipecat still has it.
OfferAnswers(o) ==
    /\ offer[o].at = "answering"
    /\ \/ /\ ~Lost(o)
          /\ lock' = 0
          /\ OfferGoes(o, "answered")
          /\ UNCHANGED <<mgr, spent, peer, stopping>>
       \/ /\ Lost(o)
          /\ OfferGoes(o, "retiring")
          /\ UNCHANGED <<mgr, spent, peer, lock, stopping>>
       \/ Lost(o) /\ Raises(o)
    /\ UNCHANGED <<setup, armed, failing, sock, events>>

\* That peer is disconnected, which may take any time; the lock is still held.
Retired(o) ==
    /\ offer[o].at = "retiring"
    /\ Raises(o)
    /\ UNCHANGED <<setup, armed, failing, sock, events>>

\* Its disconnect raises, which is a failed offer whatever became of the startup.
RetireFails(o) ==
    /\ offer[o].at = "retiring"
    /\ Event
    /\ AbortsWake(o)
    /\ lock' = 0
    /\ UNCHANGED <<setup, armed, failing, sock>>

AbortResumes(o) ==
    /\ offer[o].at = "aborting"
    /\ StopReturns(<<"offer", o>>)
    /\ mgr' = AfterStop(<<"offer", o>>)
    /\ OfferGoes(o, "refused")
    /\ UNCHANGED <<setup, armed, spent, failing, sock, peer, lock, events>>

AbortFails(o) ==
    /\ offer[o].at = "aborting"
    /\ StopRaises(<<"offer", o>>)
    /\ OfferGoes(o, "refused")
    /\ UNCHANGED <<setup, armed, failing, sock, lock>>

-----------------------------------------------------------------------------
\* Peers.

\* The WebRTC peer or the provider is gone, or the session was idle for too long.
PeerEnds(s) ==
    /\ peer[s].at = "running" /\ Open(s)
    /\ Event
    /\ peer' = [peer EXCEPT ![s].closed = TRUE, ![s].leaving = TRUE]
    /\ spent' = SpentBy(s)
    /\ UNCHANGED <<setup, mgr, armed, failing, sock, offer, lock, stopping>>

\* All teardown attempts of a closed peer have succeeded.
PeerDown(s) ==
    /\ peer[s].closed /\ ~peer[s].down
    /\ peer' = [peer EXCEPT ![s].down = TRUE]
    /\ UNCHANGED <<setup, mgr, armed, spent, failing, sock, offer, lock, stopping, events>>

PeerForgets(s) ==
    /\ peer[s].leaving /\ peer[s].down
    /\ mgr' = Forgotten(mgr, s)
    /\ peer' = [peer EXCEPT ![s].leaving = FALSE]
    /\ UNCHANGED <<setup, armed, spent, failing, sock, offer, lock, stopping, events>>

-----------------------------------------------------------------------------
SocketStep ==
    \E w \in Sockets :
       \/ Hello(w) \/ Rewake(w) \/ Stop(w) \/ StopResumes(w) \/ HandlerFails(w)
       \/ Leave(w) \/ LeaveResumes(w) \/ LeaveFails(w)
       \/ \E k \in Wakes : Start(w, k) \/ StartResumes(w, k)
StartupStep == \E k \in Wakes : StartupFails(k) \/ FailureTold(k) \/ FailureStops(k) \/ FailureEnds(k)
OfferRuns(o) ==
    \/ OfferEnters(o) \/ Bootstrapped(o) \/ ReplacingFails(o) \/ Undone(o)
    \/ OfferAnswers(o) \/ AbortResumes(o) \/ AbortFails(o)
    \/ \E s \in Peers : OfferConnects(o, s) \/ OfferReplaces(o, s)
OfferStep ==
    \E o \in Offers :
       \/ OfferArrives(o) \/ OfferRuns(o) \/ BootstrapFails(o) \/ OfferFails(o)
       \/ Dropped(o) \/ Retired(o) \/ RetireFails(o)
PeerStep == \E s \in Peers : PeerEnds(s) \/ PeerDown(s) \/ PeerForgets(s)

Next == SocketStep \/ StartupStep \/ OfferStep \/ PeerStep
Spec == Init /\ [][Next]_vars

\* The event loop runs what is ready, and close gives up waiting for a teardown that hangs.
\* The disconnects that handle_offer awaits itself have no time limit and are not fair.
FairSpec == Spec /\ \A o \in Offers : WF_vars(OfferRuns(o))

-----------------------------------------------------------------------------
MgrType == [ws : Sockets \cup {0}, wake : Wakes \cup {0}, startup : Wakes \cup {0},
            live : BOOLEAN, current : Peers \cup {0}]
SockType == [at : {"new", "rest", "left", "starting", "stopping", "leaving", "gone"},
             realtime : {"no", "on", "off"}, startup : Wakes \cup {0}]
PeerType == [at : {"none", "starting", "running"}, wake : Wakes \cup {0}, startup : Wakes \cup {0},
             ws : Sockets \cup {0}, closed : BOOLEAN, down : BOOLEAN, leaving : BOOLEAN]
OfferType == [at : {"none", "waiting", "negotiating", "replacing", "dropping", "starting", "undoing",
                    "answering", "retiring", "aborting", "answered", "refused"},
              wake : Wakes \cup {0}, startup : Wakes \cup {0}, peer : Peers \cup {0}, failed : BOOLEAN]
StopType == [peer : Peers \cup {0}, wake : Wakes \cup {0}, ws : Sockets \cup {0}]
TypeOK ==
    /\ setup \in Setups
    /\ mgr \in MgrType
    /\ armed \in [Wakes -> Sockets \cup {0}]
    /\ spent \in SUBSET Wakes
    /\ failing \in [Wakes -> {"no", "called", "telling", "stopping"}]
    /\ sock \in [Sockets -> SockType]
    /\ peer \in [Peers -> PeerType]
    /\ offer \in [Offers -> OfferType]
    /\ lock \in Offers \cup {0}
    /\ stopping \in [Stoppers -> StopType]
    /\ events \in Nat

\* One peer per device: no peer is admitted, and none is forgotten, while another one of the
\* device is not fully torn down, whatever offers, stops and failures overlap.
OnePeer == \A s \in Peers : peer[s].at # "none" /\ ~peer[s].down => mgr.current = s

\* A registered socket that waits with an open startup has exactly that wake armed: what
\* cleans up after an older wake, peer, offer or socket never takes it away.
Waiting(k) ==
    /\ armed[k] # 0 /\ k \notin spent
    /\ mgr.ws = armed[k] /\ sock[armed[k]].startup = k
WaitingIsArmed == \A k \in Wakes : Waiting(k) => mgr.wake = k /\ mgr.startup = k

\* Every offer gets its outcome, although peers that an offer closes under the lock may never
\* go down, unless a disconnect that handle_offer awaits itself never returns: the lock is
\* held across it, and every later offer of the device waits (session.py:1382, 1426).
Disconnecting(o) == offer[o].at \in {"dropping", "retiring"}
OffersEnd ==
    (\A o \in Offers : []<>~Disconnecting(o)) =>
        \A o \in Offers : offer[o].at = "waiting" ~> offer[o].at \in {"answered", "refused"}
=============================================================================
