---------------------------- MODULE RealtimeProofs ----------------------------
(***************************************************************************)
(* One peer per device, for any numbers of sockets, wakes, peers and       *)
(* offers.  A peer is admitted after an await of the teardown of the one   *)
(* before it; that nothing else was admitted meanwhile rests on the offer  *)
(* lock, and on every way to forget a peer waiting for its teardown.       *)
(***************************************************************************)
EXTENDS RealtimeManager, TLAPS

\* Where an offer holds the device's lock.
Holding == {"negotiating", "dropping", "replacing", "starting", "undoing", "answering", "retiring"}
LockHeld == \A o \in Offers : offer[o].at \in Holding => lock = o

\* While an offer replaces a peer, the device has that peer or none.
Replacing ==
    \A o \in Offers : offer[o].at = "replacing" =>
       offer[o].peer \in Peers /\ mgr.current \in {0, offer[o].peer}

\* The peer an offer starts or undoes has been made.
Admitted ==
    \A o \in Offers : offer[o].at \in {"starting", "undoing"} =>
       offer[o].peer \in Peers /\ peer[offer[o].peer].at # "none"

DownIsClosed == \A s \in Peers : peer[s].down => peer[s].closed

ManagerInv == TypeOK /\ OnePeer /\ LockHeld /\ Replacing /\ Admitted /\ DownIsClosed

-----------------------------------------------------------------------------
\* The manager's record under the functions the callers share.

LEMMA Counts ==
  /\ 0 \notin Peers /\ 0 \notin Offers /\ 0 \notin Wakes /\ 0 \notin Sockets
BY BoundsAssumption DEF Peers, Offers, Wakes, Sockets

LEMMA DisarmedKeeps ==
  ASSUME NEW x \in MgrType
  PROVE  Disarmed(x) \in MgrType /\ Disarmed(x).current = x.current /\ Disarmed(x).ws = x.ws
BY DEF Disarmed, MgrType

LEMMA ForgottenKeeps ==
  ASSUME NEW x \in MgrType, NEW s \in Peers
  PROVE  /\ Forgotten(x, s) \in MgrType
         /\ Forgotten(x, s).current = IF x.current = s THEN 0 ELSE x.current
         /\ Forgotten(x, s).ws = x.ws
BY DEF Forgotten, MgrType

LEMMA StoppedKeeps ==
  ASSUME NEW x \in MgrType, NEW st
  PROVE  Stopped(x, st) \in MgrType /\ Stopped(x, st).current = x.current
BY DisarmedKeeps DEF Stopped

LEMMA UnregisteredKeeps ==
  ASSUME NEW x \in MgrType, NEW w
  PROVE  Unregistered(x, w) \in MgrType /\ Unregistered(x, w).current = x.current
BY DEF Unregistered, MgrType

\* What may happen to the peers, and to the current one, beside the admission of a peer.
PeersKept ==
    \A t \in Peers : /\ peer'[t].at = peer[t].at
                     /\ peer[t].down => peer'[t].down
                     /\ peer'[t].down => peer'[t].closed
CurrentKept ==
    \/ mgr'.current = mgr.current
    \/ mgr.current \in Peers /\ peer[mgr.current].down /\ mgr'.current = 0

LEMMA PeerBecomes ==
  ASSUME TypeOK, DownIsClosed, NEW s \in Peers, NEW r \in PeerType, peer' = [peer EXCEPT ![s] = r],
         r.at = peer[s].at, peer[s].down => r.down, r.down => r.closed
  PROVE  peer' \in [Peers -> PeerType] /\ PeersKept
<1>1. peer' \in [Peers -> PeerType]
  BY DEF TypeOK
<1>2. ASSUME NEW t \in Peers
      PROVE  /\ peer'[t].at = peer[t].at
             /\ peer[t].down => peer'[t].down
             /\ peer'[t].down => peer'[t].closed
  <2>1. CASE t = s
    BY <2>1 DEF TypeOK
  <2>2. CASE t # s
    BY <2>2 DEF TypeOK, DownIsClosed
  <2> QED
    BY <2>1, <2>2
<1> QED
  BY <1>1, <1>2 DEF PeersKept

LEMMA ClosingKeeps ==
  ASSUME TypeOK, DownIsClosed, NEW s \in Peers, peer' = PeersClosing(s)
  PROVE  peer' \in [Peers -> PeerType] /\ PeersKept
<1> DEFINE r == [peer[s] EXCEPT !.closed = TRUE]
<1>1. peer[s] \in PeerType
  BY DEF TypeOK
<1>2. r \in PeerType /\ r.at = peer[s].at /\ r.down = peer[s].down /\ r.closed
  BY <1>1 DEF PeerType
<1>3. peer' = [peer EXCEPT ![s] = r]
  BY DEF PeersClosing
<1> HIDE DEF r
<1> QED
  BY <1>2, <1>3, PeerBecomes

LEMMA Unmoved ==
  ASSUME TypeOK, DownIsClosed, UNCHANGED peer
  PROVE  peer' \in [Peers -> PeerType] /\ PeersKept
BY DEF TypeOK, DownIsClosed, PeersKept

LEMMA SpentTyped ==
  ASSUME TypeOK, NEW s \in Peers
  PROVE  SpentBy(s) \in SUBSET Wakes /\ {mgr.startup} \ {0} \in SUBSET Wakes
<1>1. peer[s].startup \in Wakes \cup {0} /\ mgr.startup \in Wakes \cup {0}
  BY DEF TypeOK, PeerType, MgrType
<1> QED
  BY <1>1 DEF SpentBy, TypeOK

\* The four outcomes of _stop_wake.
StopKeeps == mgr' \in MgrType /\ peer' \in [Peers -> PeerType] /\ spent' \in SUBSET Wakes
             /\ stopping' \in [Stoppers -> StopType] /\ PeersKept /\ CurrentKept

LEMMA StopsAtOnceKeeps ==
  ASSUME TypeOK, DownIsClosed, StopsAtOnce
  PROVE  StopKeeps
<1>1. mgr' \in MgrType /\ mgr'.current = mgr.current
  BY DisarmedKeeps DEF TypeOK, StopsAtOnce
<1>2. spent' \in SUBSET Wakes
  BY DEF TypeOK, MgrType, StopsAtOnce
<1> QED
  BY <1>1, <1>2, Unmoved DEF StopKeeps, CurrentKept, StopsAtOnce, TypeOK

LEMMA StopWaitsKeeps ==
  ASSUME TypeOK, DownIsClosed, NEW a, StopWaits(a)
  PROVE  StopKeeps
<1>1. mgr.current \in Peers
  BY DEF TypeOK, MgrType, StopWaits
<1>2. peer' \in [Peers -> PeerType] /\ PeersKept
  BY <1>1, ClosingKeeps DEF StopWaits
<1>3. spent' \in SUBSET Wakes
  BY <1>1, SpentTyped DEF StopWaits
<1>4. [peer |-> mgr.current, wake |-> mgr.wake, ws |-> mgr.ws] \in StopType
  BY <1>1 DEF TypeOK, MgrType, StopType
<1>5. stopping' \in [Stoppers -> StopType]
  BY <1>4 DEF TypeOK, StopWaits
<1> QED
  BY <1>2, <1>3, <1>5 DEF StopKeeps, CurrentKept, StopWaits, TypeOK

LEMMA StopForgets ==
  ASSUME TypeOK, NEW a \in Stoppers, stopping' = [stopping EXCEPT ![a] = NoStop]
  PROVE  stopping' \in [Stoppers -> StopType]
<1>1. NoStop \in StopType
  BY DEF NoStop, StopType
<1> QED
  BY <1>1 DEF TypeOK

LEMMA StopReturnsKeeps ==
  ASSUME TypeOK, DownIsClosed, NEW a \in Stoppers, StopReturns(a)
  PROVE  /\ stopping' \in [Stoppers -> StopType]
         /\ AfterStop(a) \in MgrType
         /\ \/ AfterStop(a).current = mgr.current
            \/ mgr.current \in Peers /\ peer[mgr.current].down /\ AfterStop(a).current = 0
<1> DEFINE p == stopping[a].peer
<1>1. p \in Peers /\ peer[p].down
  BY DEF TypeOK, StopType, StopReturns
<1>2. /\ Forgotten(mgr, p) \in MgrType
      /\ Forgotten(mgr, p).current = IF mgr.current = p THEN 0 ELSE mgr.current
  BY <1>1, ForgottenKeeps DEF TypeOK
<1> HIDE DEF p
<1>3. AfterStop(a) = Stopped(Forgotten(mgr, p), stopping[a])
  BY DEF AfterStop, p
<1>4. AfterStop(a) \in MgrType /\ AfterStop(a).current = Forgotten(mgr, p).current
  BY <1>2, <1>3, StoppedKeeps
<1>5. stopping' \in [Stoppers -> StopType]
  BY StopForgets DEF StopReturns
<1> QED
  BY <1>1, <1>2, <1>4, <1>5

LEMMA StopRaisesKeeps ==
  ASSUME TypeOK, DownIsClosed, NEW a \in Stoppers, StopRaises(a)
  PROVE  StopKeeps /\ UNCHANGED events
<1>1. stopping' \in [Stoppers -> StopType]
  BY StopForgets DEF StopRaises
<1> QED
  BY <1>1, Unmoved DEF StopKeeps, CurrentKept, StopRaises, TypeOK

LEMMA Still ==
  ASSUME TypeOK, DownIsClosed, UNCHANGED <<mgr, peer, spent, stopping>>
  PROVE  StopKeeps
BY Unmoved DEF StopKeeps, CurrentKept, TypeOK

LEMMA EventTyped == ASSUME TypeOK, Event \/ UNCHANGED events PROVE events' \in Nat
BY DEF TypeOK, Event

-----------------------------------------------------------------------------
\* Steps that admit no peer and move no offer.

LEMMA QuietInv ==
  ASSUME ManagerInv, StopKeeps, armed' \in [Wakes -> Sockets \cup {0}],
         failing' \in [Wakes -> {"no", "called", "telling", "stopping"}],
         sock' \in [Sockets -> SockType], events' \in Nat, UNCHANGED <<setup, offer, lock>>
  PROVE  ManagerInv'
<1> USE DEF ManagerInv, StopKeeps
<1>1. TypeOK'
  BY DEF TypeOK
<1>2. OnePeer'
  BY DEF OnePeer, PeersKept, CurrentKept
<1>3. LockHeld'
  BY DEF LockHeld
<1>4. Replacing'
  BY DEF Replacing, CurrentKept
<1>5. Admitted'
  BY DEF Admitted, PeersKept
<1>6. DownIsClosed'
  BY DEF DownIsClosed, PeersKept
<1> QED
  BY <1>1, <1>2, <1>3, <1>4, <1>5, <1>6

LEMMA SocketGoesTyped ==
  ASSUME TypeOK, NEW w, NEW at \in {"new", "rest", "left", "starting", "stopping", "leaving", "gone"},
         NEW realtime \in {"no", "on", "off"}, NEW k \in Wakes \cup {0}, SocketGoes(w, at, realtime, k)
  PROVE  sock' \in [Sockets -> SockType]
<1>1. [at |-> at, realtime |-> realtime, startup |-> k] \in SockType
  BY DEF SockType
<1> QED
  BY <1>1 DEF SocketGoes, TypeOK

LEMMA ArmsKeeps ==
  ASSUME TypeOK, NEW w \in Sockets, NEW k \in Wakes, NEW x \in MgrType, Arms(w, x, k)
  PROVE  /\ mgr' \in MgrType /\ mgr'.current = x.current
         /\ armed' \in [Wakes -> Sockets \cup {0}]
         /\ sock' \in [Sockets -> SockType]
<1>1. CASE x.ws # w
  BY <1>1, SocketGoesTyped DEF Arms, TypeOK
<1>2. CASE x.ws = w /\ setup = "browser"
  <2>1. mgr' \in MgrType /\ mgr'.current = x.current
    BY <1>2 DEF Arms, MgrType
  <2> QED
    BY <1>2, <2>1, SocketGoesTyped DEF Arms, TypeOK
<1>3. CASE x.ws = w /\ setup # "browser"
  <2>1. mgr' = [x EXCEPT !.wake = k, !.startup = k, !.live = (setup = "live")]
    BY <1>3 DEF Arms
  <2>2. (setup = "live") \in BOOLEAN
    OBVIOUS
  <2>3. mgr' \in MgrType /\ mgr'.current = x.current
    BY <2>1, <2>2 DEF MgrType
  <2>4. armed' \in [Wakes -> Sockets \cup {0}]
    BY <1>3 DEF Arms, TypeOK
  <2>5. sock' \in [Sockets -> SockType]
    BY <1>3, SocketGoesTyped DEF Arms
  <2> QED
    BY <2>3, <2>4, <2>5
<1> QED
  BY <1>1, <1>2, <1>3

LEMMA ReplacedTyped ==
  ASSUME TypeOK, NEW x \in MgrType, Replaced(x)
  PROVE  spent' \in SUBSET Wakes
BY DEF Replaced, TypeOK, MgrType

LEMMA SocketStepInv == ASSUME ManagerInv, SocketStep PROVE ManagerInv'
<1> USE DEF ManagerInv
<1>1. PICK w \in Sockets :
         \/ Hello(w) \/ Rewake(w) \/ Stop(w) \/ StopResumes(w) \/ HandlerFails(w)
         \/ Leave(w) \/ LeaveResumes(w) \/ LeaveFails(w)
         \/ \E k \in Wakes : Start(w, k) \/ StartResumes(w, k)
  BY DEF SocketStep
<1>2. <<"socket", w>> \in Stoppers
  BY DEF Stoppers
<1>s. sock[w] \in SockType /\ mgr \in MgrType
  BY DEF TypeOK
<1>3. CASE Hello(w)
  <2>1. mgr' \in MgrType /\ mgr'.current = mgr.current
    BY <1>3, <1>s DEF Hello, MgrType
  <2>2. StopKeeps
    BY <1>3, <2>1, Unmoved DEF Hello, StopKeeps, CurrentKept, TypeOK
  <2>3. sock' \in [Sockets -> SockType]
    BY <1>3, SocketGoesTyped DEF Hello
  <2> QED
    BY <1>3, <2>2, <2>3, QuietInv DEF Hello, TypeOK
<1>4. CASE Rewake(w)
  <2>1. StopKeeps
    BY <1>4, Still DEF Rewake
  <2>2. sock' \in [Sockets -> SockType]
    BY <1>4, <1>s, SocketGoesTyped DEF Rewake, SockType
  <2> QED
    BY <1>4, <2>1, <2>2, QuietInv DEF Rewake, TypeOK
<1>5. CASE Stop(w)
  <2>1. StopKeeps
    BY <1>5, StopsAtOnceKeeps, StopWaitsKeeps DEF Stop
  <2>2. sock' \in [Sockets -> SockType]
    BY <1>5, SocketGoesTyped DEF Stop
  <2> QED
    BY <1>5, <2>1, <2>2, EventTyped, QuietInv DEF Stop, TypeOK
<1>6. CASE StopResumes(w)
  <2>1. StopKeeps
    BY <1>2, <1>6, StopReturnsKeeps, Unmoved DEF StopResumes, StopKeeps, CurrentKept, TypeOK
  <2>2. sock' \in [Sockets -> SockType]
    BY <1>6, SocketGoesTyped DEF StopResumes
  <2> QED
    BY <1>6, <2>1, <2>2, QuietInv DEF StopResumes, TypeOK
<1>7. CASE HandlerFails(w)
  <2>1. StopKeeps /\ UNCHANGED events
    BY <1>2, <1>7, StopRaisesKeeps DEF HandlerFails
  <2>2. sock' \in [Sockets -> SockType]
    BY <1>7, <1>s, SocketGoesTyped DEF HandlerFails, SockType
  <2> QED
    BY <1>7, <2>1, <2>2, QuietInv DEF HandlerFails, TypeOK
<1>8. CASE Leave(w)
  <2>1. StopKeeps
    <3>1. CASE UNCHANGED <<peer, spent, stopping>> /\ mgr' = Unregistered(mgr, w)
      BY <1>s, <3>1, UnregisteredKeeps, Unmoved DEF StopKeeps, CurrentKept, TypeOK
    <3>2. CASE /\ UNCHANGED <<peer, stopping>> /\ mgr' = Unregistered(Disarmed(mgr), w)
               /\ spent' = spent \cup ({mgr.startup} \ {0})
      <4>1. mgr' \in MgrType /\ mgr'.current = mgr.current
        BY <1>s, <3>2, DisarmedKeeps, UnregisteredKeeps
      <4>2. spent' \in SUBSET Wakes
        BY <1>s, <3>2 DEF TypeOK, MgrType
      <4> QED
        BY <3>2, <4>1, <4>2, Unmoved DEF StopKeeps, CurrentKept, TypeOK
    <3>3. CASE StopWaits(<<"socket", w>>)
      BY <3>3, StopWaitsKeeps
    <3> QED
      BY <1>8, <3>1, <3>2, <3>3 DEF Leave
  <2>2. sock' \in [Sockets -> SockType]
    <3>1. sock[w].startup \in Wakes \cup {0} /\ 0 \in Wakes \cup {0}
      BY <1>s DEF SockType
    <3>2. \/ SocketGoes(w, "gone", "no", 0)
          \/ SocketGoes(w, "leaving", "on", sock[w].startup)
      BY <1>8 DEF Leave
    <3> QED
      BY <3>1, <3>2, SocketGoesTyped
  <2>3. events' \in Nat
    BY <1>8, EventTyped DEF Leave
  <2>4. UNCHANGED <<setup, armed, failing, offer, lock>>
    BY <1>8 DEF Leave
  <2> QED
    BY <2>1, <2>2, <2>3, <2>4, QuietInv DEF TypeOK
<1>9. CASE LeaveResumes(w)
  <2>1. StopKeeps
    BY <1>2, <1>9, StopReturnsKeeps, UnregisteredKeeps, Unmoved
       DEF LeaveResumes, StopKeeps, CurrentKept, TypeOK
  <2>2. sock' \in [Sockets -> SockType]
    BY <1>9, SocketGoesTyped DEF LeaveResumes
  <2> QED
    BY <1>9, <2>1, <2>2, QuietInv DEF LeaveResumes, TypeOK
<1>10. CASE LeaveFails(w)
  <2>1. StopKeeps /\ UNCHANGED events
    BY <1>2, <1>10, StopRaisesKeeps DEF LeaveFails
  <2>2. sock' \in [Sockets -> SockType]
    BY <1>10, SocketGoesTyped DEF LeaveFails
  <2> QED
    BY <1>10, <2>1, <2>2, QuietInv DEF LeaveFails, TypeOK
<1>11. ASSUME NEW k \in Wakes, Start(w, k) PROVE ManagerInv'
  <2>1. CASE mgr.current = 0 /\ Arms(w, Disarmed(mgr), k) /\ Replaced(mgr) /\ UNCHANGED <<peer, stopping>>
    <3>1. Disarmed(mgr) \in MgrType /\ Disarmed(mgr).current = mgr.current
      BY <1>s, DisarmedKeeps
    <3>2. /\ mgr' \in MgrType /\ mgr'.current = mgr.current
          /\ armed' \in [Wakes -> Sockets \cup {0}] /\ sock' \in [Sockets -> SockType]
      BY <2>1, <3>1, ArmsKeeps
    <3>3. StopKeeps
      BY <1>s, <2>1, <3>2, ReplacedTyped, Unmoved DEF StopKeeps, CurrentKept, TypeOK
    <3> QED
      BY <1>11, <3>2, <3>3, EventTyped, QuietInv DEF Start, TypeOK
  <2>2. CASE StopWaits(<<"socket", w>>) /\ SocketGoes(w, "starting", "on", 0) /\ UNCHANGED armed
    <3>1. StopKeeps
      BY <2>2, StopWaitsKeeps
    <3>2. sock' \in [Sockets -> SockType]
      BY <2>2, SocketGoesTyped
    <3> QED
      BY <1>11, <2>2, <3>1, <3>2, EventTyped, QuietInv DEF Start, TypeOK
  <2> QED
    BY <1>11, <2>1, <2>2 DEF Start
<1>12. ASSUME NEW k \in Wakes, StartResumes(w, k) PROVE ManagerInv'
  <2> DEFINE x == AfterStop(<<"socket", w>>)
  <2>1. /\ stopping' \in [Stoppers -> StopType] /\ x \in MgrType
        /\ \/ x.current = mgr.current
           \/ mgr.current \in Peers /\ peer[mgr.current].down /\ x.current = 0
    BY <1>2, <1>12, StopReturnsKeeps DEF StartResumes
  <2>2. Arms(w, x, k) /\ Replaced(x) /\ UNCHANGED <<setup, failing, peer, offer, lock, events>>
    BY <1>12 DEF StartResumes
  <2> HIDE DEF x
  <2>3. /\ mgr' \in MgrType /\ mgr'.current = x.current
        /\ armed' \in [Wakes -> Sockets \cup {0}] /\ sock' \in [Sockets -> SockType]
    BY <2>1, <2>2, ArmsKeeps
  <2>4. StopKeeps
    BY <2>1, <2>2, <2>3, ReplacedTyped, Unmoved DEF StopKeeps, CurrentKept
  <2> QED
    BY <2>2, <2>3, <2>4, QuietInv DEF TypeOK
<1> QED
  BY <1>1, <1>3, <1>4, <1>5, <1>6, <1>7, <1>8, <1>9, <1>10, <1>11, <1>12

\* Whoever has the failure callback of a startup: its place is one of four.
LEMMA FailingTyped ==
  ASSUME TypeOK, NEW k \in Wakes, NEW place \in {"no", "called", "telling", "stopping"},
         failing' = [failing EXCEPT ![k] = place]
  PROVE  failing' \in [Wakes -> {"no", "called", "telling", "stopping"}]
BY DEF TypeOK

LEMMA FailsTyped ==
  ASSUME TypeOK, NEW k \in Wakes, Fails(k)
  PROVE  failing' \in [Wakes -> {"no", "called", "telling", "stopping"}]
<1>1. failing[k] \in {"no", "called", "telling", "stopping"}
  BY DEF TypeOK
<1>2. PICK place \in {"no", "called", "telling", "stopping"} : failing' = [failing EXCEPT ![k] = place]
  BY <1>1 DEF Fails
<1> QED
  BY <1>2, FailingTyped

LEMMA StartupStepInv == ASSUME ManagerInv, StartupStep PROVE ManagerInv'
<1> USE DEF ManagerInv
<1>1. PICK k \in Wakes : StartupFails(k) \/ FailureTold(k) \/ FailureStops(k) \/ FailureEnds(k)
  BY DEF StartupStep
<1>2. <<"startup", k>> \in Stoppers
  BY DEF Stoppers
<1>3. CASE StartupFails(k)
  <2>1. StopKeeps
    BY <1>3, Unmoved DEF StartupFails, StopKeeps, CurrentKept, TypeOK
  <2> QED
    BY <1>3, <2>1, FailsTyped, EventTyped, QuietInv DEF StartupFails, TypeOK
<1>4. CASE FailureTold(k)
  <2>1. StopKeeps
    BY <1>4, Still DEF FailureTold
  <2>2. failing' \in [Wakes -> {"no", "called", "telling", "stopping"}]
    BY <1>4, FailingTyped DEF FailureTold
  <2> QED
    BY <1>4, <2>1, <2>2, QuietInv DEF FailureTold, TypeOK
<1>5. CASE FailureStops(k)
  <2>1. StopKeeps
    BY <1>5, Still, StopsAtOnceKeeps, StopWaitsKeeps DEF FailureStops
  <2>2. failing' \in [Wakes -> {"no", "called", "telling", "stopping"}]
    BY <1>5, FailingTyped DEF FailureStops
  <2>3. sock' \in [Sockets -> SockType]
    <3>1. CASE UNCHANGED sock
      BY <3>1 DEF TypeOK
    <3>2. CASE SocketGoes(armed[k], sock[armed[k]].at, "off", 0) /\ armed[k] \in Sockets
      <4>1. sock[armed[k]] \in SockType
        BY <3>2 DEF TypeOK
      <4> QED
        BY <3>2, <4>1, SocketGoesTyped DEF SockType
    <3>3. CASE SocketGoes(armed[k], sock[armed[k]].at, "off", 0) /\ armed[k] \notin Sockets
      BY <3>3 DEF SocketGoes, TypeOK
    <3> QED
      BY <1>5, <3>1, <3>2, <3>3 DEF FailureStops
  <2> QED
    BY <1>5, <2>1, <2>2, <2>3, QuietInv DEF FailureStops, TypeOK
<1>6. CASE FailureEnds(k)
  <2>1. StopKeeps /\ UNCHANGED events
    BY <1>2, <1>6, StopReturnsKeeps, StopRaisesKeeps, Unmoved DEF FailureEnds, StopKeeps, CurrentKept, TypeOK
  <2>2. failing' \in [Wakes -> {"no", "called", "telling", "stopping"}]
    BY <1>6, FailingTyped DEF FailureEnds
  <2> QED
    BY <1>6, <2>1, <2>2, QuietInv DEF FailureEnds, TypeOK
<1> QED
  BY <1>1, <1>3, <1>4, <1>5, <1>6

LEMMA PeerStepInv == ASSUME ManagerInv, PeerStep PROVE ManagerInv'
<1> USE DEF ManagerInv
<1>1. PICK s \in Peers : PeerEnds(s) \/ PeerDown(s) \/ PeerForgets(s)
  BY DEF PeerStep
<1>s. peer[s] \in PeerType /\ mgr \in MgrType
  BY DEF TypeOK
<1>2. CASE PeerEnds(s)
  <2> DEFINE r == [peer[s] EXCEPT !.closed = TRUE, !.leaving = TRUE]
  <2>1. r \in PeerType /\ r.at = peer[s].at /\ r.down = peer[s].down /\ r.closed
    BY <1>s DEF PeerType
  <2>2. peer' = [peer EXCEPT ![s] = r]
    BY <1>2 DEF PeerEnds, TypeOK
  <2> HIDE DEF r
  <2>3. peer' \in [Peers -> PeerType] /\ PeersKept
    BY <2>1, <2>2, PeerBecomes
  <2>4. StopKeeps
    BY <1>2, <2>3, SpentTyped DEF PeerEnds, StopKeeps, CurrentKept, TypeOK
  <2> QED
    BY <1>2, <2>4, EventTyped, QuietInv DEF PeerEnds, TypeOK
<1>3. CASE PeerDown(s)
  <2> DEFINE r == [peer[s] EXCEPT !.down = TRUE]
  <2>1. r \in PeerType /\ r.at = peer[s].at /\ r.down /\ r.closed
    BY <1>s, <1>3 DEF PeerType, PeerDown
  <2>2. peer' = [peer EXCEPT ![s] = r]
    BY <1>3 DEF PeerDown, TypeOK
  <2> HIDE DEF r
  <2>3. peer' \in [Peers -> PeerType] /\ PeersKept
    BY <2>1, <2>2, PeerBecomes
  <2>4. StopKeeps
    BY <1>3, <2>3 DEF PeerDown, StopKeeps, CurrentKept, TypeOK
  <2> QED
    BY <1>3, <2>4, QuietInv DEF PeerDown, TypeOK
<1>4. CASE PeerForgets(s)
  <2> DEFINE r == [peer[s] EXCEPT !.leaving = FALSE]
  <2>1. r \in PeerType /\ r.at = peer[s].at /\ r.down = peer[s].down /\ r.closed = peer[s].closed
    BY <1>s DEF PeerType
  <2>2. peer' = [peer EXCEPT ![s] = r]
    BY <1>4 DEF PeerForgets, TypeOK
  <2> HIDE DEF r
  <2>3. peer' \in [Peers -> PeerType] /\ PeersKept
    BY <2>1, <2>2, PeerBecomes DEF DownIsClosed
  <2>4. mgr' \in MgrType /\ CurrentKept
    BY <1>s, <1>4, ForgottenKeeps DEF PeerForgets, CurrentKept
  <2>5. StopKeeps
    BY <1>4, <2>3, <2>4 DEF PeerForgets, StopKeeps, TypeOK
  <2> QED
    BY <1>4, <2>5, QuietInv DEF PeerForgets, TypeOK
<1> QED
  BY <1>1, <1>2, <1>3, <1>4

-----------------------------------------------------------------------------
\* Steps of offers.

LEMMA OfferInv ==
  ASSUME ManagerInv, StopKeeps, NEW o \in Offers, NEW q \in OfferType, offer' = [offer EXCEPT ![o] = q],
         failing' \in [Wakes -> {"no", "called", "telling", "stopping"}], events' \in Nat,
         lock' \in Offers \cup {0}, q.at \in Holding => lock' = o,
         \A n \in Offers \ {o} : lock = n => lock' = n,
         q.at = "replacing" => q.peer \in Peers /\ mgr'.current \in {0, q.peer},
         q.at \in {"starting", "undoing"} => q.peer \in Peers /\ peer[q.peer].at # "none",
         UNCHANGED <<setup, armed, sock>>
  PROVE  ManagerInv'
<1> USE DEF ManagerInv, StopKeeps
<1>1. TypeOK'
  BY DEF TypeOK
<1>2. OnePeer'
  BY DEF OnePeer, PeersKept, CurrentKept
<1>3. ASSUME NEW n \in Offers PROVE offer'[n] = IF n = o THEN q ELSE offer[n]
  BY DEF TypeOK
<1>4. LockHeld'
  BY <1>3 DEF LockHeld
<1>5. Replacing'
  BY <1>3 DEF Replacing, CurrentKept
<1>6. Admitted'
  BY <1>3 DEF Admitted, PeersKept
<1>7. DownIsClosed'
  BY DEF DownIsClosed, PeersKept
<1> QED
  BY <1>1, <1>2, <1>4, <1>5, <1>6, <1>7

\* An offer that waits, or ends, or holds the lock without a peer of its own.
LEMMA OfferGoesInv ==
  ASSUME ManagerInv, StopKeeps, NEW o \in Offers,
         NEW at \in {"waiting", "negotiating", "dropping", "answering", "retiring", "aborting",
                    "answered", "refused"},
         OfferGoes(o, at),
         failing' \in [Wakes -> {"no", "called", "telling", "stopping"}], events' \in Nat,
         lock' \in Offers \cup {0}, at \in Holding => lock' = o,
         \A n \in Offers \ {o} : lock = n => lock' = n,
         UNCHANGED <<setup, armed, sock>>
  PROVE  ManagerInv'
<1> DEFINE q == [offer[o] EXCEPT !.at = at]
<1>1. offer[o] \in OfferType
  BY DEF ManagerInv, TypeOK
<1>2. q \in OfferType /\ q.at = at
  BY <1>1 DEF OfferType
<1>3. offer' = [offer EXCEPT ![o] = q]
  BY DEF OfferGoes
<1> HIDE DEF q
<1> QED
  BY <1>2, <1>3, OfferInv

\* The admission of a peer: every other one must be gone.
LEMMA CreatesInv ==
  ASSUME ManagerInv, NEW o \in Offers, NEW x \in MgrType, NEW s \in Peers, Creates(o, x, s),
         offer[o].at \in Holding, \A t \in Peers : peer[t].at # "none" => peer[t].down,
         UNCHANGED <<setup, armed, spent, failing, sock, lock, stopping, events>>
  PROVE  ManagerInv'
<1> USE DEF ManagerInv
<1> DEFINE r == [NoPeer EXCEPT !.at = IF x.live THEN "starting" ELSE "running",
                               !.wake = x.wake, !.startup = x.startup, !.ws = x.ws]
           q == [offer[o] EXCEPT !.at = IF x.live THEN "starting" ELSE "answering", !.peer = s]
<1>1. r \in PeerType /\ r.at # "none" /\ ~r.down
  BY DEF NoPeer, PeerType, MgrType
<1>2. offer[o] \in OfferType
  BY DEF TypeOK
<1>3. q \in OfferType /\ q.at \in {"starting", "answering"} /\ q.peer = s
  BY <1>2 DEF OfferType
<1>4. peer' = [peer EXCEPT ![s] = r] /\ offer' = [offer EXCEPT ![o] = q] /\ mgr' = [x EXCEPT !.current = s]
  BY DEF Creates, TypeOK
<1> HIDE DEF r, q
<1>5. mgr' \in MgrType /\ mgr'.current = s
  BY <1>4 DEF MgrType
<1>6. peer' \in [Peers -> PeerType] /\ offer' \in [Offers -> OfferType]
  BY <1>1, <1>3, <1>4 DEF TypeOK
<1>7. TypeOK'
  BY <1>5, <1>6 DEF TypeOK
<1>8. ASSUME NEW t \in Peers PROVE peer'[t] = IF t = s THEN r ELSE peer[t]
  BY <1>4 DEF TypeOK
<1>9. ASSUME NEW n \in Offers PROVE offer'[n] = IF n = o THEN q ELSE offer[n]
  BY <1>4 DEF TypeOK
<1>10. lock = o
  BY DEF LockHeld
<1>11. OnePeer'
  BY <1>5, <1>8 DEF OnePeer
<1>12. LockHeld'
  BY <1>9, <1>10 DEF LockHeld
<1>13. Replacing'
  <2>1. \A n \in Offers : offer'[n].at # "replacing"
    BY <1>3, <1>9, <1>10 DEF LockHeld, Holding
  <2> QED
    BY <2>1 DEF Replacing
<1>14. Admitted'
  BY <1>1, <1>3, <1>8, <1>9 DEF Admitted
<1>15. DownIsClosed'
  BY <1>1, <1>8 DEF DownIsClosed
<1> QED
  BY <1>7, <1>11, <1>12, <1>13, <1>14, <1>15

\* Undo and what follows a start that raises.
LEMMA UndoInv ==
  ASSUME ManagerInv, NEW o \in Offers, NEW failed \in BOOLEAN, Undo(o, failed), offer[o].at = "starting",
         failing' \in [Wakes -> {"no", "called", "telling", "stopping"}], events' \in Nat,
         UNCHANGED <<setup, mgr, armed, sock, lock, stopping>>
  PROVE  ManagerInv'
<1> USE DEF ManagerInv
<1> DEFINE s == offer[o].peer
           q == [offer[o] EXCEPT !.at = "undoing", !.failed = failed]
<1>1. offer[o] \in OfferType /\ s \in Peers /\ peer[s].at # "none"
  BY DEF TypeOK, Admitted
<1>2. q \in OfferType /\ q.at = "undoing" /\ q.peer = s
  BY <1>1 DEF OfferType
<1>3. peer' = PeersClosing(s) /\ spent' = SpentBy(s) /\ offer' = [offer EXCEPT ![o] = q]
  BY DEF Undo, TypeOK
<1>4. lock = o
  BY DEF LockHeld, Holding
<1> HIDE DEF s, q
<1>5. peer' \in [Peers -> PeerType] /\ PeersKept /\ spent' \in SUBSET Wakes
  BY <1>1, <1>3, ClosingKeeps, SpentTyped
<1>6. StopKeeps
  BY <1>5 DEF StopKeeps, CurrentKept, TypeOK
<1> QED
  BY <1>1, <1>2, <1>3, <1>4, <1>6, OfferInv

LEMMA StartRaisesInv ==
  ASSUME ManagerInv, NEW o \in Offers, StartRaises(o), offer[o].at = "starting", events' \in Nat,
         UNCHANGED <<setup, armed, sock, lock, stopping>>
  PROVE  ManagerInv'
<1> USE DEF ManagerInv
<1> DEFINE k == peer[offer[o].peer].startup
<1>1. k \in Wakes \cup {0}
  BY DEF TypeOK, Admitted, PeerType
<1>2. IF k = 0 THEN UNCHANGED failing ELSE Fails(k)
  BY DEF StartRaises
<1> HIDE DEF k
<1>3. failing' \in [Wakes -> {"no", "called", "telling", "stopping"}]
  BY <1>1, <1>2, FailsTyped DEF TypeOK
<1> QED
  BY <1>3, UndoInv DEF StartRaises

LEMMA AbortsWakeInv ==
  ASSUME ManagerInv, NEW o \in Offers, AbortsWake(o), lock = o, lock' = 0, events' \in Nat,
         UNCHANGED <<setup, armed, failing, sock>>
  PROVE  ManagerInv'
<1> USE DEF ManagerInv
<1>1. StopKeeps
  BY Still, StopsAtOnceKeeps, StopWaitsKeeps DEF AbortsWake
<1>2. OfferGoes(o, "refused") \/ OfferGoes(o, "aborting")
  BY DEF AbortsWake
<1> QED
  BY <1>1, <1>2, Counts, OfferGoesInv DEF Holding, TypeOK

LEMMA OfferStepInv == ASSUME ManagerInv, OfferStep PROVE ManagerInv'
<1> USE DEF ManagerInv
<1>1. PICK o \in Offers : \/ OfferArrives(o) \/ OfferRuns(o) \/ BootstrapFails(o) \/ OfferFails(o)
                          \/ Dropped(o) \/ Retired(o) \/ RetireFails(o)
  BY DEF OfferStep
<1>2. <<"offer", o>> \in Stoppers
  BY DEF Stoppers
<1>s. offer[o] \in OfferType /\ mgr \in MgrType /\ lock \in Offers \cup {0} /\ events \in Nat
  BY DEF TypeOK
<1>f. failing \in [Wakes -> {"no", "called", "telling", "stopping"}]
  BY DEF TypeOK
<1>3. CASE OfferArrives(o)
  <2> DEFINE q == [NoOffer EXCEPT !.at = "waiting", !.wake = mgr.wake, !.startup = mgr.startup]
  <2>1. q \in OfferType /\ q.at = "waiting"
    BY <1>s DEF NoOffer, OfferType, MgrType
  <2>2. offer' = [offer EXCEPT ![o] = q]
    BY <1>3 DEF OfferArrives
  <2> HIDE DEF q
  <2>3. StopKeeps
    BY <1>3, Still DEF OfferArrives
  <2> QED
    BY <1>3, <1>s, <1>f, <2>1, <2>2, <2>3, OfferInv DEF OfferArrives, Holding
<1>4. CASE OfferEnters(o)
  <2>1. StopKeeps
    BY <1>4, Still DEF OfferEnters
  <2>2. CASE OfferGoes(o, "negotiating") /\ lock' = o
    BY <1>4, <1>s, <1>f, <2>1, <2>2, Counts, OfferGoesInv DEF OfferEnters
  <2>3. CASE OfferGoes(o, "refused") /\ lock' = lock
    BY <1>4, <1>s, <1>f, <2>1, <2>3, OfferGoesInv DEF OfferEnters, Holding
  <2> QED
    BY <1>4, <2>2, <2>3 DEF OfferEnters
<1>5. ASSUME NEW s \in Peers, OfferConnects(o, s) PROVE ManagerInv'
  <2>1. lock = o /\ UNCHANGED <<setup, armed, failing, sock, lock, stopping, events>>
    BY <1>5 DEF OfferConnects, LockHeld, Holding
  <2>2. CASE OfferGoes(o, "dropping") /\ UNCHANGED <<mgr, peer, spent>>
    <3>1. StopKeeps
      BY <2>1, <2>2, Still
    <3> QED
      BY <1>s, <1>f, <2>1, <2>2, <3>1, OfferGoesInv
  <2>3. CASE mgr.current = 0 /\ Creates(o, mgr, s) /\ UNCHANGED spent
    <3>1. \A t \in Peers : peer[t].at # "none" => peer[t].down
      BY <2>3, Counts DEF OnePeer
    <3> QED
      BY <1>s, <1>5, <2>1, <2>3, <3>1, CreatesInv DEF OfferConnects, Holding
  <2>4. CASE /\ mgr.current # 0 /\ peer' = PeersClosing(mgr.current) /\ spent' = SpentBy(mgr.current)
             /\ offer' = [offer EXCEPT ![o].at = "replacing", ![o].peer = mgr.current]
             /\ UNCHANGED mgr
    <3> DEFINE q == [offer[o] EXCEPT !.at = "replacing", !.peer = mgr.current]
    <3>1. mgr.current \in Peers
      BY <1>s, <2>4 DEF MgrType
    <3>2. q \in OfferType /\ q.at = "replacing" /\ q.peer = mgr.current
      BY <1>s, <3>1 DEF OfferType
    <3>3. offer' = [offer EXCEPT ![o] = q]
      BY <2>4 DEF TypeOK
    <3> HIDE DEF q
    <3>4. StopKeeps
      BY <2>1, <2>4, <3>1, ClosingKeeps, SpentTyped DEF StopKeeps, CurrentKept, TypeOK
    <3> QED
      BY <1>s, <1>f, <2>1, <2>4, <3>1, <3>2, <3>3, <3>4, OfferInv
  <2> QED
    BY <1>5, <2>2, <2>3, <2>4 DEF OfferConnects
<1>6. ASSUME NEW s \in Peers, OfferReplaces(o, s) PROVE ManagerInv'
  <2> DEFINE p == offer[o].peer
             x == Forgotten(mgr, p)
  <2>1. lock = o /\ UNCHANGED <<setup, armed, spent, failing, sock, lock, stopping, events>>
    BY <1>6 DEF OfferReplaces, LockHeld, Holding
  <2>2. p \in Peers /\ peer[p].down /\ mgr.current \in {0, p}
    BY <1>6 DEF OfferReplaces, Replacing
  <2>3. x \in MgrType /\ x.current = 0
    BY <1>s, <2>2, ForgottenKeeps
  <2>4. \/ Creates(o, x, s)
        \/ mgr' = x /\ OfferGoes(o, "dropping") /\ UNCHANGED peer
    BY <1>6 DEF OfferReplaces
  <2>5. offer[o].at \in Holding
    BY <1>6 DEF OfferReplaces, Holding
  <2> HIDE DEF p, x
  <2>6. CASE Creates(o, x, s)
    <3>1. \A t \in Peers : peer[t].at # "none" => peer[t].down
      BY <2>2, Counts DEF OnePeer
    <3> QED
      BY <2>1, <2>3, <2>5, <2>6, <3>1, CreatesInv
  <2>7. CASE mgr' = x /\ OfferGoes(o, "dropping") /\ UNCHANGED peer
    <3>1. StopKeeps
      BY <2>1, <2>2, <2>3, <2>7, Unmoved DEF StopKeeps, CurrentKept, TypeOK
    <3> QED
      BY <1>s, <1>f, <2>1, <2>7, <3>1, OfferGoesInv
  <2> QED
    BY <2>4, <2>6, <2>7
<1>7. CASE ReplacingFails(o) \/ Dropped(o)
  <2>1. lock = o
    BY <1>7 DEF ReplacingFails, Dropped, LockHeld, Holding
  <2>2. StopKeeps
    BY <1>7, Still DEF ReplacingFails, Dropped
  <2> QED
    BY <1>7, <1>s, <1>f, <2>1, <2>2, OfferGoesInv DEF ReplacingFails, Dropped
<1>8. CASE Bootstrapped(o)
  <2> DEFINE s == offer[o].peer
  <2>1. /\ lock = o /\ offer[o].at = "starting" /\ s \in Peers /\ peer[s].at # "none"
        /\ UNCHANGED <<setup, armed, sock, lock, stopping, events>>
    BY <1>8 DEF Bootstrapped, LockHeld, Holding, Admitted
  <2>2. CASE StartRaises(o)
    BY <1>s, <2>1, <2>2, StartRaisesInv
  <2>3. CASE Undo(o, FALSE) /\ UNCHANGED <<mgr, failing>>
    BY <1>s, <1>f, <2>1, <2>3, UndoInv
  <2>4. CASE /\ ~Cancelled(s) /\ peer' = [peer EXCEPT ![s].at = "running"]
             /\ mgr' = [mgr EXCEPT !.current = s] /\ OfferGoes(o, "answering")
             /\ UNCHANGED <<spent, failing>>
    <3> DEFINE r == [peer[s] EXCEPT !.at = "running"]
               q == [offer[o] EXCEPT !.at = "answering"]
    <3>1. peer[s] \in PeerType
      BY <2>1 DEF TypeOK
    <3>2. mgr.current = s
      BY <2>1, <2>4 DEF Cancelled, OnePeer, DownIsClosed
    <3>3. mgr' = mgr
      BY <1>s, <2>4, <3>2 DEF MgrType
    <3>4. r \in PeerType /\ r.at # "none" /\ r.down = peer[s].down /\ r.closed = peer[s].closed
      BY <3>1 DEF PeerType
    <3>5. q \in OfferType /\ q.at = "answering"
      BY <1>s DEF OfferType
    <3>6. peer' = [peer EXCEPT ![s] = r] /\ offer' = [offer EXCEPT ![o] = q]
      BY <2>1, <2>4 DEF OfferGoes, TypeOK
    <3> HIDE DEF r, q, s
    <3>7. TypeOK'
      BY <2>1, <2>4, <3>3, <3>4, <3>5, <3>6 DEF TypeOK
    <3>8. ASSUME NEW t \in Peers PROVE peer'[t] = IF t = s THEN r ELSE peer[t]
      BY <3>6 DEF TypeOK
    <3>9. ASSUME NEW n \in Offers PROVE offer'[n] = IF n = o THEN q ELSE offer[n]
      BY <3>6 DEF TypeOK
    <3>10. OnePeer' /\ DownIsClosed'
      BY <2>1, <3>3, <3>4, <3>8 DEF OnePeer, DownIsClosed
    <3>11. LockHeld' /\ Replacing'
      BY <2>1, <3>3, <3>5, <3>9 DEF LockHeld, Replacing
    <3>12. Admitted'
      BY <3>4, <3>5, <3>8, <3>9 DEF Admitted
    <3> QED
      BY <3>7, <3>10, <3>11, <3>12
  <2> QED
    BY <1>8, <2>2, <2>3, <2>4 DEF Bootstrapped
<1>9. CASE BootstrapFails(o)
  BY <1>9, EventTyped, StartRaisesInv DEF BootstrapFails
<1>10. CASE Undone(o)
  <2>1. lock = o /\ offer[o].peer \in Peers
    BY <1>10 DEF Undone, LockHeld, Holding, Admitted
  <2>2. mgr' \in MgrType /\ CurrentKept
    <3>1. CASE peer[offer[o].peer].down /\ mgr' = Forgotten(mgr, offer[o].peer)
      BY <1>s, <2>1, <3>1, ForgottenKeeps DEF CurrentKept
    <3>2. CASE UNCHANGED mgr
      BY <1>s, <3>2 DEF CurrentKept
    <3> QED
      BY <1>10, <3>1, <3>2 DEF Undone
  <2>3. StopKeeps
    BY <1>10, <2>2, Unmoved DEF Undone, StopKeeps, TypeOK
  <2> QED
    BY <1>10, <1>s, <1>f, <2>1, <2>3, OfferGoesInv DEF Undone
<1>11. CASE OfferFails(o) \/ RetireFails(o)
  <2>1. lock = o
    BY <1>11 DEF OfferFails, RetireFails, LockHeld, Holding
  <2> QED
    BY <1>11, <2>1, EventTyped, AbortsWakeInv DEF OfferFails, RetireFails
<1>12. CASE OfferAnswers(o) \/ Retired(o)
  <2>1. lock = o /\ UNCHANGED <<setup, armed, failing, sock, events>>
    BY <1>12 DEF OfferAnswers, Retired, LockHeld, Holding
  <2>2. CASE AbortsWake(o) /\ lock' = 0
    BY <1>s, <2>1, <2>2, AbortsWakeInv
  <2>3. CASE UNCHANGED <<mgr, spent, peer, stopping>>
    <3>1. StopKeeps
      BY <2>3, Still
    <3>2. CASE OfferGoes(o, "retiring") /\ lock' = lock
      BY <1>s, <1>f, <2>1, <3>1, <3>2, OfferGoesInv
    <3>3. CASE (OfferGoes(o, "refused") \/ OfferGoes(o, "answered")) /\ lock' = 0
      BY <1>s, <1>f, <2>1, <3>1, <3>3, Counts, OfferGoesInv DEF Holding
    <3> QED
      BY <1>12, <2>2, <3>2, <3>3 DEF OfferAnswers, Retired, Raises
  <2> QED
    BY <1>12, <2>2, <2>3 DEF OfferAnswers, Retired, Raises
<1>13. CASE AbortResumes(o)
  <2>1. StopKeeps
    BY <1>2, <1>13, StopReturnsKeeps, Unmoved DEF AbortResumes, StopKeeps, CurrentKept, TypeOK
  <2> QED
    BY <1>13, <1>s, <1>f, <2>1, OfferGoesInv DEF AbortResumes, Holding
<1>14. CASE AbortFails(o)
  <2>1. StopKeeps /\ UNCHANGED events
    BY <1>2, <1>14, StopRaisesKeeps DEF AbortFails
  <2> QED
    BY <1>14, <1>s, <1>f, <2>1, OfferGoesInv DEF AbortFails, Holding
<1> QED
  BY <1>1, <1>3, <1>4, <1>5, <1>6, <1>7, <1>8, <1>9, <1>10, <1>11, <1>12, <1>13, <1>14 DEF OfferRuns

-----------------------------------------------------------------------------
LEMMA ManagerInit == Init => ManagerInv
<1> SUFFICES ASSUME Init PROVE ManagerInv
  OBVIOUS
<1>1. NoPeer \in PeerType /\ NoOffer \in OfferType /\ NoStop \in StopType
  BY DEF NoPeer, NoOffer, NoStop, PeerType, OfferType, StopType
<1>2. mgr \in MgrType
  BY DEF Init, MgrType
<1>3. sock \in [Sockets -> SockType]
  BY DEF Init, SockType
<1>4. TypeOK
  BY <1>1, <1>2, <1>3 DEF Init, TypeOK
<1>5. OnePeer /\ DownIsClosed
  BY DEF Init, NoPeer, OnePeer, DownIsClosed
<1>6. LockHeld /\ Replacing /\ Admitted
  BY DEF Init, NoOffer, LockHeld, Holding, Replacing, Admitted
<1> QED
  BY <1>4, <1>5, <1>6 DEF ManagerInv

LEMMA ManagerAlways == Spec => []ManagerInv
<1>1. ManagerInv /\ [Next]_vars => ManagerInv'
  <2> SUFFICES ASSUME ManagerInv, [Next]_vars PROVE ManagerInv'
    OBVIOUS
  <2>1. CASE UNCHANGED vars
    BY <2>1 DEF vars, ManagerInv, TypeOK, OnePeer, LockHeld, Replacing, Admitted, DownIsClosed
  <2> QED
    BY <2>1, SocketStepInv, StartupStepInv, OfferStepInv, PeerStepInv DEF Next
<1> QED
  BY <1>1, ManagerInit, PTL DEF Spec

\* For any numbers of sockets, wakes, peers and offers, the variables keep their types: every
\* record of the manager, of handlers and of stops in progress is one its code can make.
THEOREM ManagerTyped == Spec => []TypeOK
BY ManagerAlways, PTL DEF ManagerInv

\* However offers, stops, failures and sockets overlap, handle_offer admits a peer only when
\* every other one of the device is torn down, and the manager forgets none before.
THEOREM OnePeerAlways == Spec => []OnePeer
BY ManagerAlways, PTL DEF ManagerInv
-----------------------------------------------------------------------------
(***************************************************************************)
(* The wake of a socket that waits.  Whoever disarms the device does so    *)
(* for a wake whose startup buffer it has closed: at once, or when an      *)
(* await of a teardown returns, by the wake it captured before.            *)
(***************************************************************************)

\* The armed wake is that of the registered startup, or over.
Sane(x, over) == x.wake # 0 => x.startup = x.wake \/ x.wake \in over
\* A closed peer's startup is over, and so is the wake a stop in progress captured.
ClosedIsOver == \A s \in Peers : peer[s].closed => peer[s].startup \in spent \cup {0}
CapturedIsOver == \A a \in Stoppers : stopping[a].peer # 0 => stopping[a].wake \in spent \cup {0}

WakeInv == Sane(mgr, spent) /\ ClosedIsOver /\ CapturedIsOver /\ WaitingIsArmed

\* From x to y no wake is lost but one that is over.
Keeps(x, y, over) ==
    \A k \in Wakes \ over : x.wake = k /\ x.startup = k => y.wake = k /\ y.startup = k
Lapses(x, y, over) == Keeps(x, y, over) /\ Sane(y, over)

LEMMA DisarmedLapses ==
  ASSUME NEW x \in MgrType, NEW over, x.startup \in over \cup {0} \/ x.wake \in over \cup {0}
  PROVE  Lapses(x, Disarmed(x), over)
<1>1. Disarmed(x).wake = 0
  BY DEF Disarmed, MgrType
<1>2. \A k \in Wakes \ over : ~(x.wake = k /\ x.startup = k)
  BY Counts
<1> QED
  BY <1>1, <1>2 DEF Lapses, Keeps, Sane

LEMMA ForgottenLapses ==
  ASSUME NEW x \in MgrType, NEW s, NEW over, Sane(x, over), peer[s].startup \in over \cup {0}
  PROVE  Lapses(x, Forgotten(x, s), over)
<1> DEFINE y == Forgotten(x, s)
<1>1. y.wake = x.wake /\ y.startup = IF x.startup = peer[s].startup THEN 0 ELSE x.startup
  BY DEF Forgotten, MgrType
<1> HIDE DEF y
<1>2. Keeps(x, y, over)
  BY <1>1, Counts DEF Keeps
<1>3. Sane(y, over)
  BY <1>1 DEF Sane
<1> QED
  BY <1>2, <1>3 DEF Lapses, y

LEMMA StoppedLapses ==
  ASSUME NEW x \in MgrType, NEW st, NEW over, Sane(x, over), st.wake \in over \cup {0}
  PROVE  Lapses(x, Stopped(x, st), over)
<1>1. CASE Superseded(x, st)
  BY <1>1 DEF Stopped, Lapses, Keeps
<1>2. CASE ~Superseded(x, st)
  BY <1>2, DisarmedLapses DEF Stopped, Superseded
<1> QED
  BY <1>1, <1>2

LEMMA LapsesAgain ==
  ASSUME NEW x, NEW y, NEW z, NEW over, NEW more, over \subseteq more,
         Lapses(x, y, over), Lapses(y, z, more)
  PROVE  Lapses(x, z, more)
BY DEF Lapses, Keeps

LEMMA SameLapses ==
  ASSUME NEW x, NEW y, NEW over, NEW more, over \subseteq more, Sane(x, over),
         y.wake = x.wake, y.startup = x.startup
  PROVE  Lapses(x, y, more)
BY DEF Lapses, Keeps, Sane

LEMMA UnregisteredSame ==
  ASSUME NEW x \in MgrType, NEW w
  PROVE  /\ Unregistered(x, w).wake = x.wake /\ Unregistered(x, w).startup = x.startup
         /\ Unregistered(x, w).ws \in {x.ws, 0}
BY DEF Unregistered, MgrType

\* A step that leaves sockets and arms as they are, or makes them forget their startup.
Unwoken ==
    /\ armed' = armed /\ mgr'.ws \in {mgr.ws, 0}
    /\ \A v \in Sockets : sock'[v].startup \in {sock[v].startup, 0}

\* What every step does to the wakes.
Woken(k) == mgr'.wake = k /\ mgr'.startup = k
Calm ==
    /\ spent \subseteq spent' /\ Lapses(mgr, mgr', spent') /\ ClosedIsOver' /\ CapturedIsOver'
    /\ \A k \in Wakes : Waiting(k)' => Waiting(k) \/ Woken(k)

LEMMA CalmInv ==
  ASSUME WakeInv, Calm
  PROVE  WakeInv'
<1>1. ASSUME NEW k \in Wakes, Waiting(k)' PROVE mgr'.wake = k /\ mgr'.startup = k
  <2>1. CASE Woken(k)
    BY <2>1 DEF Woken
  <2>2. CASE Waiting(k)
    <3>1. mgr.wake = k /\ mgr.startup = k
      BY <2>2 DEF WakeInv, WaitingIsArmed
    <3>2. k \notin spent'
      BY <1>1 DEF Waiting
    <3> QED
      BY <3>1, <3>2 DEF Calm, Lapses, Keeps
  <2> QED
    BY <1>1, <2>1, <2>2 DEF Calm
<1>2. WaitingIsArmed'
  BY <1>1 DEF WaitingIsArmed
<1> QED
  BY <1>2 DEF WakeInv, Calm, Lapses

LEMMA UnwokenBack ==
  ASSUME TypeOK, Unwoken, spent \subseteq spent'
  PROVE  \A k \in Wakes : Waiting(k)' => Waiting(k)
<1> SUFFICES ASSUME NEW k \in Wakes, Waiting(k)' PROVE Waiting(k)
  OBVIOUS
<1>1. armed[k] \in Sockets /\ k # 0
  BY Counts DEF TypeOK, Waiting, Unwoken
<1> QED
  BY <1>1 DEF Waiting, Unwoken

\* Startups that go, and stops that are over.
LEMMA OverKept ==
  ASSUME TypeOK, WakeInv, spent \subseteq spent'
  PROVE  /\ UNCHANGED peer => ClosedIsOver'
         /\ UNCHANGED stopping => CapturedIsOver'
BY DEF WakeInv, ClosedIsOver, CapturedIsOver

LEMMA NoStopKept ==
  ASSUME TypeOK, WakeInv, spent \subseteq spent', NEW a \in Stoppers, stopping' = [stopping EXCEPT ![a] = NoStop]
  PROVE  CapturedIsOver'
<1> SUFFICES ASSUME NEW b \in Stoppers, stopping'[b].peer # 0 PROVE stopping'[b].wake \in spent' \cup {0}
  BY DEF CapturedIsOver
<1>1. CASE b = a
  BY <1>1 DEF TypeOK, NoStop
<1>2. CASE b # a
  BY <1>2 DEF TypeOK, WakeInv, CapturedIsOver
<1> QED
  BY <1>1, <1>2

\* A peer that changes and keeps its startup, which is over if the peer is closed now.
LEMMA PeerKept ==
  ASSUME TypeOK, WakeInv, spent \subseteq spent', NEW s \in Peers, NEW r, peer' = [peer EXCEPT ![s] = r],
         r.closed => r.startup \in spent' \cup {0}
  PROVE  ClosedIsOver'
<1> SUFFICES ASSUME NEW t \in Peers, peer'[t].closed PROVE peer'[t].startup \in spent' \cup {0}
  BY DEF ClosedIsOver
<1>1. CASE t = s
  BY <1>1 DEF TypeOK
<1>2. CASE t # s
  BY <1>2 DEF TypeOK, WakeInv, ClosedIsOver
<1> QED
  BY <1>1, <1>2

LEMMA ClosingOver ==
  ASSUME TypeOK, WakeInv, NEW s \in Peers, peer' = PeersClosing(s), SpentBy(s) \subseteq spent'
  PROVE  ClosedIsOver' /\ spent \subseteq spent'
<1> DEFINE r == [peer[s] EXCEPT !.closed = TRUE]
<1>1. peer' = [peer EXCEPT ![s] = r]
  BY DEF PeersClosing
<1>2. r.startup = peer[s].startup
  BY DEF TypeOK, PeerType
<1>3. spent \subseteq spent' /\ peer[s].startup \in spent' \cup {0}
  BY DEF SpentBy
<1> HIDE DEF r
<1> QED
  BY <1>1, <1>2, <1>3, PeerKept

-----------------------------------------------------------------------------
\* What the four outcomes of _stop_wake do to the wakes: all but sockets.
StopLapses == spent \subseteq spent' /\ Lapses(mgr, mgr', spent') /\ ClosedIsOver' /\ CapturedIsOver'
              /\ mgr'.ws \in {mgr.ws, 0}

LEMMA CalmStop ==
  ASSUME TypeOK, StopLapses, armed' = armed,
         \A v \in Sockets : sock'[v].startup \in {sock[v].startup, 0}
  PROVE  Calm
BY UnwokenBack DEF StopLapses, Unwoken, Calm

LEMMA StopsAtOnceLapses ==
  ASSUME TypeOK, WakeInv, StopsAtOnce
  PROVE  StopLapses
<1>1. mgr \in MgrType /\ mgr' = Disarmed(mgr) /\ mgr.startup \in spent' \cup {0} /\ spent \subseteq spent'
      /\ UNCHANGED <<peer, stopping>>
  BY DEF TypeOK, StopsAtOnce
<1>2. Lapses(mgr, mgr', spent') /\ mgr'.ws = mgr.ws
  BY <1>1, DisarmedLapses, DisarmedKeeps
<1> QED
  BY <1>1, <1>2, OverKept DEF StopLapses

LEMMA StopWaitsLapses ==
  ASSUME TypeOK, WakeInv, NEW a \in Stoppers, StopWaits(a)
  PROVE  StopLapses
<1> DEFINE st == [peer |-> mgr.current, wake |-> mgr.wake, ws |-> mgr.ws]
<1>1. /\ mgr \in MgrType /\ mgr.current \in Peers /\ mgr' = mgr /\ peer' = PeersClosing(mgr.current)
      /\ SpentBy(mgr.current) \subseteq spent' /\ mgr.startup \in spent' \cup {0}
      /\ stopping' = [stopping EXCEPT ![a] = st]
  BY DEF TypeOK, StopWaits, MgrType
<1>2. ClosedIsOver' /\ spent \subseteq spent'
  BY <1>1, ClosingOver
<1>3. Lapses(mgr, mgr', spent')
  BY <1>1, <1>2, SameLapses DEF WakeInv
<1>4. st.wake \in spent' \cup {0}
  BY <1>1, <1>2 DEF WakeInv, Sane
<1> HIDE DEF st
<1>5. ASSUME NEW b \in Stoppers, stopping'[b].peer # 0 PROVE stopping'[b].wake \in spent' \cup {0}
  <2>1. CASE b = a
    BY <1>1, <1>4, <2>1 DEF TypeOK
  <2>2. CASE b # a
    BY <1>1, <1>2, <1>5, <2>2 DEF TypeOK, WakeInv, CapturedIsOver
  <2> QED
    BY <2>1, <2>2
<1> QED
  BY <1>1, <1>2, <1>3, <1>5 DEF StopLapses, CapturedIsOver

LEMMA StopReturnsLapses ==
  ASSUME TypeOK, DownIsClosed, WakeInv, NEW a \in Stoppers, StopReturns(a)
  PROVE  /\ Lapses(mgr, AfterStop(a), spent) /\ AfterStop(a).ws = mgr.ws
         /\ spent \subseteq spent' => CapturedIsOver'
<1> DEFINE p == stopping[a].peer
           x == Forgotten(mgr, p)
           st == stopping[a]
<1>1. /\ p \in Peers /\ peer[p].down /\ mgr \in MgrType /\ Sane(mgr, spent)
      /\ stopping' = [stopping EXCEPT ![a] = NoStop]
  BY DEF TypeOK, StopType, StopReturns, WakeInv
<1>2. peer[p].startup \in spent \cup {0}
  BY <1>1 DEF DownIsClosed, WakeInv, ClosedIsOver
<1>3. st.wake \in spent \cup {0}
  BY DEF StopReturns, WakeInv, CapturedIsOver
<1>4. x \in MgrType /\ x.ws = mgr.ws /\ Lapses(mgr, x, spent)
  BY <1>1, <1>2, ForgottenKeeps, ForgottenLapses
<1> HIDE DEF x, st
<1>5. Lapses(x, Stopped(x, st), spent)
  BY <1>3, <1>4, StoppedLapses DEF Lapses
<1>6. Lapses(mgr, Stopped(x, st), spent)
  BY <1>4, <1>5, LapsesAgain
<1>7. Stopped(x, st).ws = x.ws
  BY <1>4, DisarmedKeeps DEF Stopped
<1>8. AfterStop(a) = Stopped(x, st)
  BY DEF AfterStop, x, st
<1> QED
  BY <1>1, <1>4, <1>6, <1>7, <1>8, NoStopKept

LEMMA StopRaisesLapses ==
  ASSUME TypeOK, WakeInv, NEW a \in Stoppers, StopRaises(a)
  PROVE  StopLapses
<1>1. UNCHANGED <<mgr, peer, spent>> /\ stopping' = [stopping EXCEPT ![a] = NoStop]
  BY DEF StopRaises
<1> QED
  BY <1>1, NoStopKept, OverKept, SameLapses DEF StopLapses, WakeInv

LEMMA StillLapses ==
  ASSUME TypeOK, WakeInv, UNCHANGED <<mgr, peer, spent, stopping>>
  PROVE  StopLapses
BY OverKept, SameLapses DEF StopLapses, WakeInv

-----------------------------------------------------------------------------
LEMMA SocketForgets ==
  ASSUME TypeOK, NEW w, NEW at, NEW realtime, NEW j, SocketGoes(w, at, realtime, j), j \in {sock[w].startup, 0}
  PROVE  \A v \in Sockets : sock'[v].startup \in {sock[v].startup, 0}
<1> SUFFICES ASSUME NEW v \in Sockets PROVE sock'[v].startup \in {sock[v].startup, 0}
  OBVIOUS
<1>1. CASE v = w
  BY <1>1 DEF SocketGoes, TypeOK
<1>2. CASE v # w
  BY <1>2 DEF SocketGoes, TypeOK
<1> QED
  BY <1>1, <1>2

\* A new wake replaces one whose buffer begin_startup has closed.
LEMMA ArmsCalm ==
  ASSUME TypeOK, WakeInv, NEW w \in Sockets, NEW k \in Wakes, NEW x \in MgrType, Arms(w, x, k),
         spent \subseteq spent', Lapses(mgr, x, spent'), x.ws = mgr.ws, x.startup \in spent' \cup {0},
         ClosedIsOver', CapturedIsOver'
  PROVE  Calm
<1>1. CASE x.ws # w
  <2>1. mgr' = x /\ armed' = armed /\ SocketGoes(w, "left", "on", 0)
    BY <1>1 DEF Arms
  <2>2. StopLapses
    BY <2>1 DEF StopLapses
  <2> QED
    BY <2>1, <2>2, SocketForgets, CalmStop
<1>2. CASE x.ws = w /\ setup = "browser"
  <2>1. mgr' = [x EXCEPT !.live = TRUE] /\ armed' = armed /\ SocketGoes(w, "rest", "on", 0)
    BY <1>2 DEF Arms
  <2>2. mgr'.wake = x.wake /\ mgr'.startup = x.startup /\ mgr'.ws = x.ws
    BY <2>1 DEF MgrType
  <2>3. Lapses(mgr, mgr', spent')
    BY <2>2 DEF Lapses, Keeps, Sane
  <2>4. StopLapses
    BY <2>2, <2>3 DEF StopLapses
  <2> QED
    BY <2>1, <2>4, SocketForgets, CalmStop
<1>3. CASE x.ws = w /\ setup # "browser"
  <2>1. /\ mgr' = [x EXCEPT !.wake = k, !.startup = k, !.live = (setup = "live")]
        /\ sock' = [sock EXCEPT ![w] = [at |-> "rest", realtime |-> "on", startup |-> k]]
    BY <1>3 DEF Arms, SocketGoes
  <2>2. mgr'.wake = k /\ mgr'.startup = k /\ mgr'.ws = w
    BY <1>3, <2>1 DEF MgrType
  <2>3. sock'[w].startup = k
    BY <2>1 DEF TypeOK
  <2>4. Lapses(mgr, mgr', spent')
    BY <2>2, Counts DEF Lapses, Keeps, Sane
  <2>5. \A j \in Wakes : Waiting(j)' => Woken(j)
    BY <2>2, <2>3 DEF Waiting, Woken
  <2> QED
    BY <2>4, <2>5 DEF Calm
<1> QED
  BY <1>1, <1>2, <1>3

LEMMA SocketCalm == ASSUME ManagerInv, WakeInv, SocketStep PROVE Calm
<1> USE DEF ManagerInv
<1>1. PICK w \in Sockets :
         \/ Hello(w) \/ Rewake(w) \/ Stop(w) \/ StopResumes(w) \/ HandlerFails(w)
         \/ Leave(w) \/ LeaveResumes(w) \/ LeaveFails(w)
         \/ \E k \in Wakes : Start(w, k) \/ StartResumes(w, k)
  BY DEF SocketStep
<1>a. <<"socket", w>> \in Stoppers
  BY DEF Stoppers
<1>m. mgr \in MgrType
  BY DEF TypeOK
<1>2. CASE Hello(w)
  <2>1. /\ mgr' = [mgr EXCEPT !.ws = w] /\ UNCHANGED <<spent, peer, stopping>>
        /\ sock' = [sock EXCEPT ![w] = [at |-> "rest", realtime |-> "no", startup |-> 0]]
    BY <1>2 DEF Hello, SocketGoes
  <2>2. mgr'.wake = mgr.wake /\ mgr'.startup = mgr.startup /\ mgr'.ws = w
    BY <1>m, <2>1 DEF MgrType
  <2>3. sock'[w].startup = 0
    BY <2>1 DEF TypeOK
  <2>4. \A k \in Wakes : ~Waiting(k)'
    BY <2>2, <2>3, Counts DEF Waiting
  <2>5. Lapses(mgr, mgr', spent')
    BY <2>1, <2>2, SameLapses DEF WakeInv
  <2> QED
    BY <2>1, <2>4, <2>5, OverKept DEF Calm
<1>3. CASE Rewake(w)
  BY <1>3, StillLapses, SocketForgets, CalmStop DEF Rewake
<1>4. CASE Stop(w)
  <2>1. StopLapses
    BY <1>4, <1>a, StopsAtOnceLapses, StopWaitsLapses DEF Stop
  <2>2. \A v \in Sockets : sock'[v].startup \in {sock[v].startup, 0}
    BY <1>4, SocketForgets DEF Stop
  <2> QED
    BY <1>4, <2>1, <2>2, CalmStop DEF Stop
<1>5. CASE StopResumes(w)
  <2>1. StopLapses
    BY <1>5, <1>a, StopReturnsLapses, OverKept DEF StopResumes, StopLapses
  <2> QED
    BY <1>5, <2>1, SocketForgets, CalmStop DEF StopResumes
<1>6. CASE HandlerFails(w) \/ LeaveFails(w)
  <2>1. StopLapses
    BY <1>6, <1>a, StopRaisesLapses DEF HandlerFails, LeaveFails
  <2> QED
    BY <1>6, <2>1, SocketForgets, CalmStop DEF HandlerFails, LeaveFails
<1>7. CASE Leave(w)
  <2>1. \A v \in Sockets : sock'[v].startup \in {sock[v].startup, 0}
    BY <1>7, SocketForgets DEF Leave
  <2>2. CASE mgr' = Unregistered(mgr, w) /\ UNCHANGED <<peer, spent, stopping>>
    <3>1. Lapses(mgr, mgr', spent') /\ mgr'.ws \in {mgr.ws, 0}
      BY <1>m, <2>2, UnregisteredSame, SameLapses DEF WakeInv
    <3>2. StopLapses
      BY <2>2, <3>1, OverKept DEF StopLapses
    <3> QED
      BY <1>7, <2>1, <3>2, CalmStop DEF Leave
  <2>3. CASE /\ mgr' = Unregistered(Disarmed(mgr), w) /\ UNCHANGED <<peer, stopping>>
             /\ spent' = spent \cup ({mgr.startup} \ {0})
    <3> DEFINE x == Disarmed(mgr)
    <3>1. x \in MgrType /\ x.ws = mgr.ws /\ Lapses(mgr, x, spent')
      BY <1>m, <2>3, DisarmedKeeps, DisarmedLapses
    <3> HIDE DEF x
    <3>2. Lapses(mgr, mgr', spent') /\ mgr'.ws \in {mgr.ws, 0}
      BY <2>3, <3>1, UnregisteredSame DEF x, Lapses, Keeps, Sane
    <3>3. StopLapses
      BY <2>3, <3>2, OverKept DEF StopLapses
    <3> QED
      BY <1>7, <2>1, <3>3, CalmStop DEF Leave
  <2>4. CASE StopWaits(<<"socket", w>>)
    BY <1>7, <1>a, <2>1, <2>4, StopWaitsLapses, CalmStop DEF Leave
  <2> QED
    BY <1>7, <2>2, <2>3, <2>4 DEF Leave
<1>8. CASE LeaveResumes(w)
  <2> DEFINE x == AfterStop(<<"socket", w>>)
  <2>1. /\ Lapses(mgr, x, spent) /\ x.ws = mgr.ws /\ CapturedIsOver' /\ x \in MgrType
        /\ UNCHANGED <<armed, spent, peer>> /\ mgr' = Unregistered(x, w)
    BY <1>8, <1>a, StopReturnsLapses, StopReturnsKeeps DEF LeaveResumes
  <2> HIDE DEF x
  <2>2. Lapses(mgr, mgr', spent') /\ mgr'.ws \in {mgr.ws, 0}
    BY <2>1, UnregisteredSame DEF Lapses, Keeps, Sane
  <2>3. StopLapses
    BY <2>1, <2>2, OverKept DEF StopLapses
  <2> QED
    BY <1>8, <2>1, <2>3, SocketForgets, CalmStop DEF LeaveResumes
<1>9. ASSUME NEW k \in Wakes, Start(w, k) PROVE Calm
  <2>1. CASE mgr.current = 0 /\ Arms(w, Disarmed(mgr), k) /\ Replaced(mgr) /\ UNCHANGED <<peer, stopping>>
    <3> DEFINE x == Disarmed(mgr)
    <3>1. spent \subseteq spent' /\ mgr.startup \in spent' \cup {0}
      BY <2>1 DEF Replaced
    <3>2. x \in MgrType /\ x.ws = mgr.ws /\ Lapses(mgr, x, spent')
      BY <1>m, <3>1, DisarmedKeeps, DisarmedLapses
    <3>3. x.startup = 0
      BY <1>m DEF Disarmed, MgrType
    <3> HIDE DEF x
    <3>4. Arms(w, x, k)
      BY <2>1 DEF x
    <3> QED
      BY <2>1, <3>1, <3>2, <3>3, <3>4, OverKept, ArmsCalm
  <2>2. CASE StopWaits(<<"socket", w>>) /\ SocketGoes(w, "starting", "on", 0) /\ UNCHANGED armed
    BY <1>a, <2>2, StopWaitsLapses, SocketForgets, CalmStop
  <2> QED
    BY <1>9, <2>1, <2>2 DEF Start
<1>10. ASSUME NEW k \in Wakes, StartResumes(w, k) PROVE Calm
  <2> DEFINE x == AfterStop(<<"socket", w>>)
  <2>1. /\ Lapses(mgr, x, spent) /\ x.ws = mgr.ws /\ x \in MgrType
        /\ spent \subseteq spent' => CapturedIsOver'
    BY <1>10, <1>a, StopReturnsLapses, StopReturnsKeeps DEF StartResumes
  <2>2. Arms(w, x, k) /\ Replaced(x) /\ UNCHANGED peer
    BY <1>10 DEF StartResumes
  <2> HIDE DEF x
  <2>3. spent \subseteq spent' /\ x.startup \in spent' \cup {0}
    BY <2>2 DEF Replaced
  <2>4. Lapses(mgr, x, spent')
    BY <2>1, <2>3 DEF Lapses, Keeps, Sane
  <2> QED
    BY <2>1, <2>2, <2>3, <2>4, OverKept, ArmsCalm
<1> QED
  BY <1>1, <1>2, <1>3, <1>4, <1>5, <1>6, <1>7, <1>8, <1>9, <1>10

LEMMA StartupCalm == ASSUME ManagerInv, WakeInv, StartupStep PROVE Calm
<1> USE DEF ManagerInv
<1>1. PICK k \in Wakes : StartupFails(k) \/ FailureTold(k) \/ FailureStops(k) \/ FailureEnds(k)
  BY DEF StartupStep
<1>a. <<"startup", k>> \in Stoppers
  BY DEF Stoppers
<1>2. armed' = armed /\ \A v \in Sockets : sock'[v].startup \in {sock[v].startup, 0}
  BY <1>1, SocketForgets DEF StartupFails, FailureTold, FailureStops, FailureEnds
<1>3. CASE StartupFails(k)
  <2>1. spent \subseteq spent' /\ UNCHANGED <<mgr, peer, stopping>>
    BY <1>3 DEF StartupFails
  <2>2. StopLapses
    BY <2>1, OverKept, SameLapses DEF StopLapses, WakeInv
  <2> QED
    BY <1>2, <2>2, CalmStop
<1>4. CASE FailureTold(k)
  BY <1>2, <1>4, StillLapses, CalmStop DEF FailureTold
<1>5. CASE FailureStops(k)
  <2>1. StopsAtOnce \/ StopWaits(<<"startup", k>>) \/ UNCHANGED <<mgr, peer, spent, stopping>>
    BY <1>5 DEF FailureStops
  <2> QED
    BY <1>2, <1>a, <2>1, StopsAtOnceLapses, StopWaitsLapses, StillLapses, CalmStop
<1>6. CASE FailureEnds(k)
  <2>1. CASE StopRaises(<<"startup", k>>)
    BY <1>2, <1>a, <2>1, StopRaisesLapses, CalmStop
  <2>2. CASE StopReturns(<<"startup", k>>) /\ mgr' = AfterStop(<<"startup", k>>) /\ UNCHANGED <<spent, peer>>
    <3>1. StopLapses
      BY <1>a, <2>2, StopReturnsLapses, OverKept DEF StopLapses
    <3> QED
      BY <1>2, <3>1, CalmStop
  <2> QED
    BY <1>6, <2>1, <2>2 DEF FailureEnds
<1> QED
  BY <1>1, <1>3, <1>4, <1>5, <1>6

\* A peer that is torn down is forgotten, and with it only a startup that is over.
LEMMA DownLapses ==
  ASSUME TypeOK, DownIsClosed, WakeInv, NEW s \in Peers, peer[s].down
  PROVE  /\ Forgotten(mgr, s) \in MgrType /\ Forgotten(mgr, s).ws = mgr.ws
         /\ Lapses(mgr, Forgotten(mgr, s), spent)
<1>1. mgr \in MgrType /\ Sane(mgr, spent) /\ peer[s].startup \in spent \cup {0}
  BY DEF TypeOK, DownIsClosed, WakeInv, ClosedIsOver
<1> QED
  BY <1>1, ForgottenKeeps, ForgottenLapses

LEMMA CreatesLapses ==
  ASSUME TypeOK, WakeInv, NEW o, NEW x \in MgrType, NEW s \in Peers, Creates(o, x, s),
         Lapses(mgr, x, spent), x.ws = mgr.ws, UNCHANGED <<spent, stopping>>
  PROVE  StopLapses
<1> DEFINE r == [NoPeer EXCEPT !.at = IF x.live THEN "starting" ELSE "running",
                               !.wake = x.wake, !.startup = x.startup, !.ws = x.ws]
<1>1. peer' = [peer EXCEPT ![s] = r] /\ mgr' = [x EXCEPT !.current = s]
  BY DEF Creates
<1>2. ~r.closed
  BY DEF NoPeer
<1> HIDE DEF r
<1>3. ClosedIsOver'
  BY <1>1, <1>2, PeerKept
<1>4. mgr'.wake = x.wake /\ mgr'.startup = x.startup /\ mgr'.ws = x.ws
  BY <1>1 DEF MgrType
<1>5. Lapses(mgr, mgr', spent')
  BY <1>4 DEF Lapses, Keeps, Sane
<1> QED
  BY <1>3, <1>4, <1>5, OverKept DEF StopLapses

LEMMA ClosingLapses ==
  ASSUME TypeOK, WakeInv, NEW s \in Peers, peer' = PeersClosing(s), spent' = SpentBy(s), UNCHANGED <<mgr, stopping>>
  PROVE  StopLapses
<1>1. ClosedIsOver' /\ spent \subseteq spent'
  BY ClosingOver
<1>2. Lapses(mgr, mgr', spent')
  BY <1>1, SameLapses DEF WakeInv
<1> QED
  BY <1>1, <1>2, OverKept DEF StopLapses

LEMMA OfferCalm == ASSUME ManagerInv, WakeInv, OfferStep PROVE Calm
<1> USE DEF ManagerInv
<1> SUFFICES StopLapses /\ UNCHANGED <<armed, sock>>
  BY CalmStop
<1>1. PICK o \in Offers : \/ OfferArrives(o) \/ OfferRuns(o) \/ BootstrapFails(o) \/ OfferFails(o)
                          \/ Dropped(o) \/ Retired(o) \/ RetireFails(o)
  BY DEF OfferStep
<1>a. <<"offer", o>> \in Stoppers
  BY DEF Stoppers
<1>m. mgr \in MgrType /\ Sane(mgr, spent)
  BY DEF TypeOK, WakeInv
<1>2. CASE OfferArrives(o) \/ OfferEnters(o) \/ ReplacingFails(o) \/ Dropped(o)
  BY <1>2, StillLapses DEF OfferArrives, OfferEnters, ReplacingFails, Dropped
<1>3. ASSUME NEW s \in Peers, OfferConnects(o, s) PROVE StopLapses /\ UNCHANGED <<armed, sock>>
  <2>1. UNCHANGED <<armed, sock, stopping>>
    BY <1>3 DEF OfferConnects
  <2>2. CASE UNCHANGED <<mgr, peer, spent>>
    BY <2>1, <2>2, StillLapses
  <2>3. CASE Creates(o, mgr, s) /\ UNCHANGED spent
    <3>1. Lapses(mgr, mgr, spent)
      BY <1>m DEF Lapses, Keeps
    <3> QED
      BY <1>m, <2>1, <2>3, <3>1, CreatesLapses
  <2>4. CASE mgr.current # 0 /\ peer' = PeersClosing(mgr.current) /\ spent' = SpentBy(mgr.current) /\ UNCHANGED mgr
    <3>1. mgr.current \in Peers
      BY <1>m, <2>4 DEF MgrType
    <3> QED
      BY <2>1, <2>4, <3>1, ClosingLapses
  <2> QED
    BY <1>3, <2>2, <2>3, <2>4 DEF OfferConnects
<1>4. ASSUME NEW s \in Peers, OfferReplaces(o, s) PROVE StopLapses /\ UNCHANGED <<armed, sock>>
  <2> DEFINE x == Forgotten(mgr, offer[o].peer)
  <2>1. UNCHANGED <<armed, sock, spent, stopping>> /\ offer[o].peer \in Peers /\ peer[offer[o].peer].down
    BY <1>4 DEF OfferReplaces, Replacing
  <2>2. x \in MgrType /\ x.ws = mgr.ws /\ Lapses(mgr, x, spent)
    BY <2>1, DownLapses
  <2>3. Creates(o, x, s) \/ (mgr' = x /\ UNCHANGED peer)
    BY <1>4 DEF OfferReplaces
  <2> HIDE DEF x
  <2>4. CASE Creates(o, x, s)
    BY <2>1, <2>2, <2>4, CreatesLapses
  <2>5. CASE mgr' = x /\ UNCHANGED peer
    BY <2>1, <2>2, <2>5, OverKept DEF StopLapses
  <2> QED
    BY <2>1, <2>3, <2>4, <2>5
<1>5. ASSUME NEW failed, Undo(o, failed), offer[o].at = "starting", UNCHANGED <<armed, sock, mgr, stopping>>
      PROVE  StopLapses /\ UNCHANGED <<armed, sock>>
  <2>1. offer[o].peer \in Peers
    BY <1>5 DEF Admitted
  <2> QED
    BY <1>5, <2>1, ClosingLapses DEF Undo
<1>6. CASE Bootstrapped(o)
  <2> DEFINE s == offer[o].peer
  <2>1. offer[o].at = "starting" /\ s \in Peers /\ UNCHANGED <<armed, sock, stopping>>
    BY <1>6 DEF Bootstrapped, Admitted
  <2>2. CASE (StartRaises(o) \/ Undo(o, FALSE)) /\ UNCHANGED mgr
    BY <1>5, <2>1, <2>2 DEF StartRaises
  <2>3. CASE /\ ~Cancelled(s) /\ peer' = [peer EXCEPT ![s].at = "running"]
             /\ mgr' = [mgr EXCEPT !.current = s] /\ UNCHANGED spent
    <3> DEFINE r == [peer[s] EXCEPT !.at = "running"]
    <3>1. peer' = [peer EXCEPT ![s] = r] /\ ~r.closed
      BY <2>1, <2>3 DEF Cancelled, TypeOK, PeerType
    <3> HIDE DEF r, s
    <3>2. ClosedIsOver'
      BY <2>1, <2>3, <3>1, PeerKept
    <3>3. mgr'.wake = mgr.wake /\ mgr'.startup = mgr.startup /\ mgr'.ws = mgr.ws
      BY <1>m, <2>3 DEF MgrType
    <3>4. Lapses(mgr, mgr', spent')
      BY <1>m, <2>3, <3>3, SameLapses
    <3> QED
      BY <2>1, <2>3, <3>2, <3>3, <3>4, OverKept DEF StopLapses
  <2> QED
    BY <1>6, <2>2, <2>3 DEF Bootstrapped, StartRaises
<1>7. CASE BootstrapFails(o)
  BY <1>5, <1>7 DEF BootstrapFails, StartRaises
<1>8. CASE Undone(o)
  <2>1. UNCHANGED <<armed, sock, spent, peer, stopping>> /\ offer[o].peer \in Peers
    BY <1>8 DEF Undone, Admitted
  <2>2. CASE peer[offer[o].peer].down /\ mgr' = Forgotten(mgr, offer[o].peer)
    BY <2>1, <2>2, DownLapses, OverKept DEF StopLapses
  <2>3. CASE UNCHANGED mgr
    BY <2>1, <2>3, StillLapses
  <2> QED
    BY <1>8, <2>1, <2>2, <2>3 DEF Undone
<1>9. CASE OfferFails(o) \/ OfferAnswers(o) \/ Retired(o) \/ RetireFails(o)
  <2>1. UNCHANGED <<armed, sock>>
    BY <1>9 DEF OfferFails, OfferAnswers, Retired, RetireFails
  <2>2. StopsAtOnce \/ StopWaits(<<"offer", o>>) \/ UNCHANGED <<mgr, peer, spent, stopping>>
    BY <1>9 DEF OfferFails, OfferAnswers, Retired, RetireFails, Raises, AbortsWake
  <2> QED
    BY <1>a, <2>1, <2>2, StopsAtOnceLapses, StopWaitsLapses, StillLapses
<1>10. CASE AbortResumes(o)
  <2>1. /\ StopReturns(<<"offer", o>>) /\ mgr' = AfterStop(<<"offer", o>>)
        /\ UNCHANGED <<armed, sock, spent, peer>>
    BY <1>10 DEF AbortResumes
  <2> QED
    BY <1>a, <2>1, StopReturnsLapses, OverKept DEF StopLapses
<1>11. CASE AbortFails(o)
  BY <1>a, <1>11, StopRaisesLapses DEF AbortFails
<1> QED
  BY <1>1, <1>2, <1>3, <1>4, <1>6, <1>7, <1>8, <1>9, <1>10, <1>11 DEF OfferRuns

LEMMA PeerCalm == ASSUME ManagerInv, WakeInv, PeerStep PROVE Calm
<1> USE DEF ManagerInv
<1> SUFFICES StopLapses /\ UNCHANGED <<armed, sock>>
  BY CalmStop
<1>1. PICK s \in Peers : PeerEnds(s) \/ PeerDown(s) \/ PeerForgets(s)
  BY DEF PeerStep
<1>2. UNCHANGED <<armed, sock, stopping>> /\ peer[s] \in PeerType /\ Sane(mgr, spent)
  BY <1>1 DEF PeerEnds, PeerDown, PeerForgets, TypeOK, WakeInv
<1>3. CASE PeerEnds(s)
  <2> DEFINE r == [peer[s] EXCEPT !.closed = TRUE, !.leaving = TRUE]
  <2>1. peer' = [peer EXCEPT ![s] = r] /\ r.startup = peer[s].startup
    BY <1>2, <1>3 DEF PeerEnds, TypeOK, PeerType
  <2>2. spent \subseteq spent' /\ peer[s].startup \in spent' \cup {0} /\ UNCHANGED mgr
    BY <1>3 DEF PeerEnds, SpentBy
  <2> HIDE DEF r
  <2>3. ClosedIsOver'
    BY <2>1, <2>2, PeerKept
  <2> QED
    BY <1>2, <2>2, <2>3, OverKept, SameLapses DEF StopLapses
<1>4. CASE PeerDown(s)
  <2> DEFINE r == [peer[s] EXCEPT !.down = TRUE]
  <2>1. peer' = [peer EXCEPT ![s] = r] /\ r.startup = peer[s].startup
    BY <1>2, <1>4 DEF PeerDown, TypeOK, PeerType
  <2>2. UNCHANGED <<spent, mgr>> /\ peer[s].startup \in spent' \cup {0}
    BY <1>4 DEF PeerDown, WakeInv, ClosedIsOver
  <2> HIDE DEF r
  <2>3. ClosedIsOver'
    BY <2>1, <2>2, PeerKept
  <2> QED
    BY <1>2, <2>2, <2>3, OverKept, SameLapses DEF StopLapses
<1>5. CASE PeerForgets(s)
  <2> DEFINE r == [peer[s] EXCEPT !.leaving = FALSE]
  <2>1. /\ peer' = [peer EXCEPT ![s] = r] /\ r.startup = peer[s].startup
        /\ peer[s].down /\ mgr' = Forgotten(mgr, s) /\ UNCHANGED spent
    BY <1>2, <1>5 DEF PeerForgets, TypeOK, PeerType
  <2>2. peer[s].startup \in spent' \cup {0}
    BY <2>1 DEF DownIsClosed, WakeInv, ClosedIsOver
  <2> HIDE DEF r
  <2>3. ClosedIsOver'
    BY <2>1, <2>2, PeerKept
  <2> QED
    BY <1>2, <2>1, <2>3, DownLapses, OverKept DEF StopLapses
<1> QED
  BY <1>1, <1>3, <1>4, <1>5

LEMMA WakeInit == Init => WakeInv
<1> SUFFICES ASSUME Init PROVE WakeInv
  OBVIOUS
<1>1. mgr.wake = 0 /\ (\A s \in Peers : ~peer[s].closed) /\ (\A a \in Stoppers : stopping[a].peer = 0)
  BY DEF Init, NoPeer, NoStop
<1>2. \A k \in Wakes : ~Waiting(k)
  BY DEF Init, Waiting
<1> QED
  BY <1>1, <1>2 DEF WakeInv, Sane, ClosedIsOver, CapturedIsOver, WaitingIsArmed

\* However late an older wake's stop, offer, failure or peer is cleaned up, it never disarms the
\* wake a newer realtime.start armed: the captures of _stop_wake compare enough.
THEOREM WaitingStaysArmed == Spec => []WaitingIsArmed
<1>1. ManagerInv /\ WakeInv /\ [Next]_vars => WakeInv'
  <2> SUFFICES ASSUME ManagerInv, WakeInv, [Next]_vars PROVE WakeInv'
    OBVIOUS
  <2>1. CASE UNCHANGED vars
    BY <2>1 DEF vars, WakeInv, Sane, ClosedIsOver, CapturedIsOver, WaitingIsArmed, Waiting
  <2> QED
    BY <2>1, SocketCalm, StartupCalm, OfferCalm, PeerCalm, CalmInv DEF Next
<1>2. WakeInv => WaitingIsArmed
  BY DEF WakeInv
<1> QED
  BY <1>1, <1>2, ManagerAlways, WakeInit, PTL DEF Spec

-----------------------------------------------------------------------------
(***************************************************************************)
(* Offers are never stranded: the lock is held by the one offer that is    *)
(* being served, whatever raises, and an offer that gave it up only waits  *)
(* for a stop that is in progress.                                         *)
(***************************************************************************)
LockIsServed == \A o \in Offers : lock = o <=> offer[o].at \in Holding
AbortAwaits == \A o \in Offers : offer[o].at = "aborting" => stopping[<<"offer", o>>].peer # 0
OffersServed == LockIsServed /\ AbortAwaits

LEMMA OfferServed ==
  ASSUME OffersServed, NEW o \in Offers, NEW at,
         offer'[o].at = at, \A n \in Offers \ {o} : offer'[n] = offer[n],
         \/ lock' = lock /\ (offer[o].at \in Holding <=> at \in Holding)
         \/ lock = 0 /\ lock' = o /\ at \in Holding
         \/ lock = o /\ lock' = 0 /\ at \notin Holding,
         \A n \in Offers \ {o} : stopping'[<<"offer", n>>] = stopping[<<"offer", n>>],
         at = "aborting" => stopping'[<<"offer", o>>].peer # 0
  PROVE  OffersServed'
<1>1. lock' = o <=> offer'[o].at \in Holding
  BY Counts DEF OffersServed, LockIsServed
<1>2. ASSUME NEW n \in Offers \ {o} PROVE lock' = n <=> offer'[n].at \in Holding
  BY <1>2, Counts DEF OffersServed, LockIsServed
<1>3. LockIsServed'
  BY <1>1, <1>2 DEF LockIsServed
<1>4. AbortAwaits'
  BY DEF OffersServed, AbortAwaits
<1> QED
  BY <1>3, <1>4 DEF OffersServed

\* An offer moves without its lock and without any stop.
LEMMA OfferMoves ==
  ASSUME TypeOK, OffersServed, NEW o \in Offers, NEW at,
         offer'[o].at = at, \A n \in Offers \ {o} : offer'[n] = offer[n],
         offer[o].at \in Holding <=> at \in Holding, at # "aborting", UNCHANGED <<lock, stopping>>
  PROVE  OffersServed'
BY OfferServed

LEMMA OffersStay ==
  ASSUME OffersServed, UNCHANGED <<offer, lock>>,
         \A n \in Offers : stopping'[<<"offer", n>>] = stopping[<<"offer", n>>]
  PROVE  OffersServed'
BY DEF OffersServed, LockIsServed, AbortAwaits

LEMMA OtherStops ==
  ASSUME TypeOK, NEW a \in Stoppers, StopWaits(a) \/ StopReturns(a) \/ StopRaises(a)
  PROVE  \A b \in Stoppers \ {a} : stopping'[b] = stopping[b]
BY DEF TypeOK, StopWaits, StopReturns, StopRaises

LEMMA SocketStepServed == ASSUME TypeOK, OffersServed, SocketStep PROVE OffersServed'
<1>1. PICK w \in Sockets :
         \/ Hello(w) \/ Rewake(w) \/ Stop(w) \/ StopResumes(w) \/ HandlerFails(w)
         \/ Leave(w) \/ LeaveResumes(w) \/ LeaveFails(w)
         \/ \E k \in Wakes : Start(w, k) \/ StartResumes(w, k)
  BY DEF SocketStep
<1> DEFINE a == <<"socket", w>>
<1>2. a \in Stoppers /\ \A n \in Offers : <<"offer", n>> \in Stoppers \ {a}
  BY DEF Stoppers
<1>3. UNCHANGED <<offer, lock>>
  BY <1>1 DEF Hello, Rewake, Stop, StopResumes, HandlerFails, Leave, LeaveResumes, LeaveFails, Start, StartResumes
<1>4. UNCHANGED stopping \/ StopWaits(a) \/ StopReturns(a) \/ StopRaises(a)
  BY <1>1 DEF Hello, Rewake, Stop, StopResumes, HandlerFails, Leave, LeaveResumes, LeaveFails, Start, StartResumes,
              StopsAtOnce
<1> HIDE DEF a
<1>5. \A n \in Offers : stopping'[<<"offer", n>>] = stopping[<<"offer", n>>]
  BY <1>2, <1>4, OtherStops
<1> QED
  BY <1>3, <1>5, OffersStay

LEMMA StartupStepServed == ASSUME TypeOK, OffersServed, StartupStep PROVE OffersServed'
<1>1. PICK k \in Wakes : StartupFails(k) \/ FailureTold(k) \/ FailureStops(k) \/ FailureEnds(k)
  BY DEF StartupStep
<1> DEFINE a == <<"startup", k>>
<1>2. a \in Stoppers /\ \A n \in Offers : <<"offer", n>> \in Stoppers \ {a}
  BY DEF Stoppers
<1>3. UNCHANGED <<offer, lock>>
  BY <1>1 DEF StartupFails, FailureTold, FailureStops, FailureEnds
<1>4. UNCHANGED stopping \/ StopWaits(a) \/ StopReturns(a) \/ StopRaises(a)
  BY <1>1 DEF StartupFails, FailureTold, FailureStops, FailureEnds, StopsAtOnce
<1> HIDE DEF a
<1>5. \A n \in Offers : stopping'[<<"offer", n>>] = stopping[<<"offer", n>>]
  BY <1>2, <1>4, OtherStops
<1> QED
  BY <1>3, <1>5, OffersStay

\* abort_wake, after the lock was given up.
LEMMA AbortsServed ==
  ASSUME TypeOK, OffersServed, NEW o \in Offers, AbortsWake(o), offer[o].at \in Holding, lock' = 0
  PROVE  OffersServed'
<1>1. lock = o
  BY DEF OffersServed, LockIsServed
<1>2. <<"offer", o>> \in Stoppers
  BY DEF Stoppers
<1>3. CASE OfferGoes(o, "refused") /\ UNCHANGED stopping
  <2>1. offer'[o].at = "refused" /\ \A n \in Offers \ {o} : offer'[n] = offer[n]
    BY <1>3 DEF OfferGoes, TypeOK, OfferType
  <2> QED
    BY <1>1, <1>3, <2>1, OfferServed DEF Holding
<1>4. CASE OfferGoes(o, "aborting") /\ StopWaits(<<"offer", o>>)
  <2>1. offer'[o].at = "aborting" /\ \A n \in Offers \ {o} : offer'[n] = offer[n]
    BY <1>4 DEF OfferGoes, TypeOK, OfferType
  <2>2. stopping'[<<"offer", o>>].peer # 0
    BY <1>2, <1>4 DEF StopWaits, TypeOK
  <2>3. \A n \in Offers \ {o} : stopping'[<<"offer", n>>] = stopping[<<"offer", n>>]
    BY <1>2, <1>4, OtherStops DEF Stoppers
  <2> QED
    BY <1>1, <2>1, <2>2, <2>3, OfferServed DEF Holding
<1> QED
  BY <1>3, <1>4 DEF AbortsWake, StopsAtOnce

LEMMA OfferStepServed == ASSUME TypeOK, OffersServed, OfferStep PROVE OffersServed'
<1>1. PICK o \in Offers : \/ OfferArrives(o) \/ OfferRuns(o) \/ BootstrapFails(o) \/ OfferFails(o)
                          \/ Dropped(o) \/ Retired(o) \/ RetireFails(o)
  BY DEF OfferStep
<1>2. ASSUME NEW at, OfferGoes(o, at) PROVE offer'[o].at = at /\ \A n \in Offers \ {o} : offer'[n] = offer[n]
  BY <1>2 DEF OfferGoes, TypeOK, OfferType
<1>3. CASE OfferArrives(o)
  <2>1. offer[o].at = "none" /\ offer'[o].at = "waiting" /\ \A n \in Offers \ {o} : offer'[n] = offer[n]
    BY <1>3 DEF OfferArrives, TypeOK, NoOffer
  <2> QED
    BY <1>3, <2>1, OfferMoves DEF OfferArrives, Holding
<1>4. CASE OfferEnters(o)
  <2>1. CASE OfferGoes(o, "negotiating") /\ lock' = o
    <3>1. /\ offer[o].at = "waiting" /\ lock = 0 /\ UNCHANGED stopping
          /\ offer'[o].at = "negotiating" /\ \A n \in Offers \ {o} : offer'[n] = offer[n]
      BY <1>2, <1>4, <2>1 DEF OfferEnters
    <3> QED
      BY <2>1, <3>1, OfferServed DEF Holding
  <2>2. CASE OfferGoes(o, "refused") /\ lock' = lock
    BY <1>2, <1>4, <2>2, OfferMoves DEF OfferEnters, Holding
  <2> QED
    BY <1>4, <2>1, <2>2 DEF OfferEnters
<1>5. ASSUME NEW x, NEW s, Creates(o, x, s)
      PROVE  /\ offer'[o].at \in {"starting", "answering"}
             /\ \A n \in Offers \ {o} : offer'[n] = offer[n]
  BY <1>5 DEF Creates, TypeOK, OfferType
<1>6. ASSUME NEW s \in Peers, OfferConnects(o, s) \/ OfferReplaces(o, s) PROVE OffersServed'
  <2>1. UNCHANGED <<lock, stopping>> /\ offer[o].at \in Holding
    BY <1>6 DEF OfferConnects, OfferReplaces, Holding
  <2>2. /\ offer'[o].at \in {"starting", "answering", "dropping", "replacing"}
        /\ \A n \in Offers \ {o} : offer'[n] = offer[n]
    <3>1. CASE OfferGoes(o, "dropping")
      BY <1>2, <3>1
    <3>2. CASE offer' = [offer EXCEPT ![o].at = "replacing", ![o].peer = mgr.current]
      BY <3>2 DEF TypeOK, OfferType
    <3>3. CASE \E x : Creates(o, x, s)
      BY <1>5, <3>3
    <3> QED
      BY <1>6, <3>1, <3>2, <3>3 DEF OfferConnects, OfferReplaces
  <2> QED
    BY <2>1, <2>2, OfferMoves DEF Holding
<1>7. CASE ReplacingFails(o) \/ Undone(o) \/ Dropped(o)
  BY <1>2, <1>7, OfferMoves DEF ReplacingFails, Undone, Dropped, Holding
<1>8. CASE Bootstrapped(o) \/ BootstrapFails(o)
  <2>1. UNCHANGED <<lock, stopping>> /\ offer[o].at \in Holding
    BY <1>8 DEF Bootstrapped, BootstrapFails, Holding
  <2>2. ASSUME NEW failed, Undo(o, failed)
        PROVE  offer'[o].at = "undoing" /\ \A n \in Offers \ {o} : offer'[n] = offer[n]
    BY <2>2 DEF Undo, TypeOK, OfferType
  <2>3. CASE StartRaises(o) \/ Undo(o, FALSE)
    BY <2>1, <2>2, <2>3, OfferMoves DEF StartRaises, Holding
  <2>4. CASE OfferGoes(o, "answering")
    BY <1>2, <2>1, <2>4, OfferMoves DEF Holding
  <2> QED
    BY <1>8, <2>3, <2>4 DEF Bootstrapped, BootstrapFails
<1>9. CASE OfferFails(o) \/ RetireFails(o)
  BY <1>9, AbortsServed DEF OfferFails, RetireFails, Holding
<1>10. CASE OfferAnswers(o) \/ Retired(o)
  <2>1. offer[o].at \in Holding /\ lock = o
    BY <1>10 DEF OfferAnswers, Retired, Holding, OffersServed, LockIsServed
  <2>2. CASE AbortsWake(o) /\ lock' = 0
    BY <2>1, <2>2, AbortsServed
  <2>3. CASE (OfferGoes(o, "refused") \/ OfferGoes(o, "answered")) /\ lock' = 0 /\ UNCHANGED stopping
    BY <1>2, <2>1, <2>3, OfferServed DEF Holding
  <2>4. CASE OfferGoes(o, "retiring") /\ UNCHANGED <<lock, stopping>>
    BY <1>2, <2>1, <2>4, OfferMoves DEF Holding
  <2> QED
    BY <1>10, <2>2, <2>3, <2>4 DEF OfferAnswers, Retired, Raises
<1>11. CASE AbortResumes(o) \/ AbortFails(o)
  <2>1. <<"offer", o>> \in Stoppers /\ \A n \in Offers : <<"offer", n>> \in Stoppers
    BY DEF Stoppers
  <2>2. /\ StopReturns(<<"offer", o>>) \/ StopRaises(<<"offer", o>>)
        /\ offer[o].at = "aborting" /\ OfferGoes(o, "refused") /\ UNCHANGED lock
    BY <1>11 DEF AbortResumes, AbortFails
  <2>3. \A n \in Offers \ {o} : stopping'[<<"offer", n>>] = stopping[<<"offer", n>>]
    BY <2>1, <2>2, OtherStops
  <2> QED
    BY <1>2, <2>2, <2>3, OfferServed DEF Holding
<1> QED
  BY <1>1, <1>3, <1>4, <1>6, <1>7, <1>8, <1>9, <1>10, <1>11 DEF OfferRuns

\* The lock of handle_offer belongs to exactly the offer that is being served, on every path by
\* which negotiation, a replaced peer's close, the bootstrap, its undoing or a disconnect may
\* fail: no offer ends with it.  And an offer that aborts its wake has a stop in progress that
\* ends or raises.  That the offer being served gets on is what OffersEnd adds, under fairness.
THEOREM LockIsGivenBack == Spec => []OffersServed
<1>1. Init => OffersServed
  <2> SUFFICES ASSUME Init PROVE OffersServed
    OBVIOUS
  <2>1. lock = 0 /\ \A o \in Offers : offer[o].at = "none"
    BY DEF Init, NoOffer
  <2> QED
    BY <2>1, Counts DEF OffersServed, LockIsServed, AbortAwaits, Holding
<1>2. TypeOK /\ OffersServed /\ [Next]_vars => OffersServed'
  <2> SUFFICES ASSUME TypeOK, OffersServed, [Next]_vars PROVE OffersServed'
    OBVIOUS
  <2>1. CASE PeerStep
    BY <2>1, OffersStay DEF PeerStep, PeerEnds, PeerDown, PeerForgets
  <2>2. CASE UNCHANGED vars
    BY <2>2, OffersStay DEF vars
  <2> QED
    BY <2>1, <2>2, SocketStepServed, StartupStepServed, OfferStepServed DEF Next
<1> QED
  BY <1>1, <1>2, ManagerTyped, PTL DEF Spec
=============================================================================
