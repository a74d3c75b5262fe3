------------------------- MODULE RealtimeTurnsProofs -------------------------
(***************************************************************************)
(* For any number of agents, turns, segments and events: the turns of a    *)
(* standard session keep the authority of what they still play, tell ends  *)
(* in order and only after their audio, and become quiet only by an end    *)
(* that no later speech has overtaken.                                     *)
(*                                                                         *)
(* The inductive invariant has four parts, over the session x, the user    *)
(* turn u, the context c, the LLM step l and the output o: no turn is      *)
(* ahead of the user's (Past); ends wait and are told in turn order, all   *)
(* of them before the turn the LLM works on (Order); what is still to be   *)
(* played has media, comes before its end marker and is not drained        *)
(* (Owned); and a send that may still change the device's state belongs to *)
(* the latest user turn (Sends).                                           *)
(***************************************************************************)
EXTENDS RealtimeTurns, SequenceTheorems, WellFoundedInduction, TLAPS

End == [turn : Turns, followUp : BOOLEAN]
Tell == [turn : Turns \cup {NoTurn}, resolved : BOOLEAN, followUp : BOOLEAN]
Send == [turn : Turns \cup {NoTurn}, followUp : BOOLEAN, resume : BOOLEAN, gen : 0 .. MaxTurns,
         latest : BOOLEAN, current : BOOLEAN]
Media == [turn : Turns, agent : Agents]
Played == [turn : Turns, kind : {"audio", "end"}]
Session ==
    [gen : 0 .. MaxTurns, active : BOOLEAN, awaiting : BOOLEAN, barged : BOOLEAN, paused : BOOLEAN,
     expected : BOOLEAN, speaking : BOOLEAN, timer : BOOLEAN, owns : BOOLEAN, failed : BOOLEAN,
     ended : {"no", "telling", "yes"}, closed : BOOLEAN, down : BOOLEAN, state : {"listening", "idle"},
     media : SUBSET Media, drained : SUBSET Turns,
     pending : Seq(End), sends : SUBSET Send, told : Seq(Tell)]
Service ==
    [turn : Turns \cup {NoTurn}, stage : {"idle", "waiting", "ended", "failed"},
     segments : 0 .. MaxSegments, followUp : BOOLEAN]

TypeOK ==
    /\ s \in Session
    /\ user \in {"none", "open", "mute"} /\ context \in {"none", "turn", "skip"}
    /\ llm \in Service
    /\ out \in Seq(Played)
    /\ agent \in Agents
    /\ interrupted \subseteq Turns
    /\ events \in 0 .. MaxEvents

-----------------------------------------------------------------------------
\* A turn the user opened and the LLM service has not taken yet.
Awaited(u, c) == u = "open" \/ c = "turn"
Old(t, x, u, c) == t <= x.gen /\ (Awaited(u, c) => t < x.gen)

Past(x, u, c, l, o) ==
    /\ u # "none" => c = "none"
    /\ Old(NoTurn, x, u, c) /\ Old(l.turn, x, u, c)
    /\ \A i \in 1 .. Len(o) : Old(o[i].turn, x, u, c)
    /\ \A i \in 1 .. Len(x.pending) : Old(x.pending[i].turn, x, u, c)
    /\ \A i \in 1 .. Len(x.told) : Old(x.told[i].turn, x, u, c)
    /\ \A t \in x.drained : Old(t, x, u, c)

Order(x, l) ==
    /\ l.stage = "idle" <=> l.turn = NoTurn
    /\ \A i, j \in 1 .. Len(x.pending) : i < j => x.pending[i].turn < x.pending[j].turn
    /\ \A i \in 1 .. Len(x.told), j \in 1 .. Len(x.pending) : x.told[i].turn < x.pending[j].turn
    /\ \A i, j \in 1 .. Len(x.told) :
          i < j /\ x.told[i].turn # NoTurn /\ x.told[j].turn # NoTurn => x.told[i].turn < x.told[j].turn
    /\ l.turn # NoTurn => /\ \A i \in 1 .. Len(x.pending) : x.pending[i].turn < l.turn
                          /\ \A i \in 1 .. Len(x.told) : x.told[i].turn < l.turn

HasMedia(t, x) == \E r \in x.media : r.turn = t
Owned(x, l, o) ==
    /\ \A i \in 1 .. Len(o) : HasMedia(o[i].turn, x) /\ o[i].turn \notin x.drained
    /\ \A i, j \in 1 .. Len(o) : i < j /\ o[i].kind = "end" => o[i].turn # o[j].turn
    /\ \A i \in 1 .. Len(x.told), j \in 1 .. Len(o) : x.told[i].turn # o[j].turn
    /\ l.stage = "waiting" => /\ HasMedia(l.turn, x) /\ l.turn \notin x.drained
                              /\ \A i \in 1 .. Len(o) : o[i].kind = "end" => o[i].turn # l.turn

Sends(x) ==
    \A m \in x.sends : /\ m.latest \/ m.current => m.gen = x.gen
                       /\ m.turn # NoTurn => \E i \in 1 .. Len(x.told) : x.told[i].turn = m.turn

Keeps(x, u, c, l, o) == x \in Session /\ Past(x, u, c, l, o) /\ Order(x, l) /\ Owned(x, l, o) /\ Sends(x)

TurnsInv == TypeOK /\ Keeps(s, user, context, llm, out)

-----------------------------------------------------------------------------
\* Sequences.

LEMMA TailFacts ==
    ASSUME NEW S, NEW q \in Seq(S), q # <<>>
    PROVE  /\ Len(q) \in Nat /\ Len(q) >= 1 /\ Head(q) = q[1] /\ q[1] \in S
           /\ Tail(q) \in Seq(S) /\ Len(Tail(q)) = Len(q) - 1
           /\ \A i \in 1 .. Len(q) - 1 : Tail(q)[i] = q[i + 1]
<1>1. Len(q) \in Nat /\ Len(q) # 0
  BY EmptySeq
<1> QED
  BY <1>1, HeadTailProperties

LEMMA AppendFacts ==
    ASSUME NEW S, NEW q \in Seq(S), NEW e \in S
    PROVE  /\ Len(q) \in Nat /\ Append(q, e) \in Seq(S) /\ Len(Append(q, e)) = Len(q) + 1
           /\ Append(q, e)[Len(q) + 1] = e /\ \A i \in 1 .. Len(q) : Append(q, e)[i] = q[i]
  BY AppendProperties

LEMMA RestFacts ==
    ASSUME NEW S, NEW q \in Seq(S), NEW n \in 0 .. Len(q)
    PROVE  /\ SubSeq(q, n + 1, Len(q)) \in Seq(S)
           /\ Len(SubSeq(q, n + 1, Len(q))) = Len(q) - n
           /\ \A i \in 1 .. Len(q) - n : SubSeq(q, n + 1, Len(q))[i] = q[i + n]
<1>1. Len(q) \in Nat /\ n \in Nat /\ \A i \in n + 1 .. Len(q) : q[i] \in S
  BY ElementOfSeq
<1> DEFINE m == n + 1
           r == SubSeq(q, m, Len(q))
<1>2. m \in Int /\ Len(q) \in Int
  BY <1>1
<1>3. /\ r \in Seq(S)
      /\ Len(r) = IF m <= Len(q) THEN Len(q) - m + 1 ELSE 0
      /\ \A i \in 1 .. Len(q) - m + 1 : r[i] = q[m + i - 1]
  <2> HIDE DEF m
  <2>1. \A i \in m .. Len(q) : q[i] \in S
    BY <1>1 DEF m
  <2> QED
    BY <2>1, <1>2, SubSeqProperties
<1>4. Len(q) - m + 1 = Len(q) - n
  BY <1>1
<1>5. Len(r) = Len(q) - n
  <2> HIDE DEF r
  <2> QED
    BY <1>1, <1>3
<1>6. \A i \in 1 .. Len(q) - n : r[i] = q[i + n]
  <2> SUFFICES ASSUME NEW i \in 1 .. Len(q) - n PROVE r[i] = q[i + n]
    OBVIOUS
  <2>1. i \in 1 .. Len(q) - m + 1 /\ m + i - 1 = i + n
    BY <1>1
  <2> HIDE DEF r, m
  <2> QED
    BY <1>3, <2>1
<1> QED
  BY <1>3, <1>5, <1>6

\* A set of positions that is not empty has a first one.
LEMMA FirstPosition ==
    ASSUME NEW B, B \subseteq Nat, B # {}
    PROVE  \E i \in B : \A j \in B : i <= j
<1>1. PICK i \in B : \A j \in B : ~ (<<j, i>> \in OpToRel(<, Nat))
  BY NatLessThanWellFounded, WFMin
<1>2. \A j \in B : ~ (j < i)
  BY <1>1 DEF OpToRel
<1> QED
  BY <1>2

-----------------------------------------------------------------------------
\* The session's functions, by what they do to the parts the invariant speaks of.

Weakened(m, x) ==
    \E k \in x.sends : k.turn = m.turn /\ k.gen = m.gen /\ (m.latest => k.latest) /\ (m.current => k.current)

SameTurns(x, y) == y \in Session /\ y.gen = x.gen /\ y.media = x.media /\ y.drained = x.drained

\* Only the microphone, the state and what a send may still do change.
Kin(x, y) ==
    /\ SameTurns(x, y) /\ y.pending = x.pending /\ y.told = x.told
    /\ \A m \in y.sends : Weakened(m, x)

\* The end of turn t is told.
Tells(x, y, t) ==
    /\ SameTurns(x, y) /\ y.pending = x.pending
    /\ Len(y.told) = Len(x.told) + 1 /\ y.told[Len(x.told) + 1].turn = t
    /\ \A i \in 1 .. Len(x.told) : y.told[i] = x.told[i]
    /\ \A m \in y.sends : Weakened(m, x) \/ (m.gen = x.gen /\ m.turn = t)

\* The first n ends, drained all of them, are no longer pending, and their media is released.
Pops(x, y, n) ==
    /\ y \in Session /\ y.gen = x.gen /\ y.told = x.told /\ y.sends = x.sends
    /\ n \in 0 .. Len(x.pending)
    /\ \A i \in 1 .. n : x.pending[i].turn \in x.drained
    /\ Len(y.pending) = Len(x.pending) - n
    /\ \A i \in 1 .. Len(y.pending) : y.pending[i] = x.pending[i + n]
    /\ y.drained \subseteq x.drained
    /\ \A r \in x.media : (\A i \in 1 .. n : r.turn # x.pending[i].turn) => r \in y.media

LEMMA ExpectingKin ==
    ASSUME NEW x \in Session, NEW expected \in BOOLEAN
    PROVE  Kin(x, Expecting(x, expected))
<1> DEFINE w == {[m EXCEPT !.latest = FALSE, !.current = @ /\ ~expected] : m \in x.sends}
<1>1. ASSUME NEW m \in x.sends
      PROVE  /\ [m EXCEPT !.latest = FALSE, !.current = @ /\ ~expected] \in Send
             /\ Weakened([m EXCEPT !.latest = FALSE, !.current = @ /\ ~expected], x)
  BY DEF Session, Send, Weakened
<1>2. w \subseteq Send /\ \A m \in w : Weakened(m, x)
  BY <1>1
<1>3. Expecting(x, expected) = [x EXCEPT !.expected = expected, !.sends = w]
  BY DEF Expecting
<1> HIDE DEF w
<1> DEFINE y == [x EXCEPT !.expected = expected, !.sends = w]
<1>4. y \in Session
  BY <1>2 DEF Session
<1>5. /\ y.sends = w /\ y.gen = x.gen /\ y.media = x.media /\ y.drained = x.drained
      /\ y.pending = x.pending /\ y.told = x.told
  BY DEF Session
<1>6. Kin(x, y)
  <2> HIDE DEF y
  <2> QED
    BY <1>2, <1>4, <1>5 DEF Kin, SameTurns
<1> QED
  BY <1>3, <1>6

LEMMA KinSelf == ASSUME NEW x \in Session PROVE Kin(x, x)
  BY DEF Kin, SameTurns, Weakened

LEMMA KinKin ==
    ASSUME NEW x, NEW y, NEW z, Kin(x, y), Kin(y, z)
    PROVE  Kin(x, z)
  BY DEF Kin, SameTurns, Weakened

LEMMA MicPausedKin ==
    ASSUME NEW x \in Session, NEW paused \in BOOLEAN
    PROVE  Kin(x, MicPaused(x, paused))
<1> DEFINE y == Expecting(x, ~paused)
<1>1. Kin(x, y)
  BY ExpectingKin
<1>2. MicPaused(x, paused) = [y EXCEPT !.paused = paused, !.active = @ /\ ~paused]
  BY DEF MicPaused
<1> HIDE DEF y
<1> QED
  BY <1>1, <1>2 DEF Kin, SameTurns, Session, Weakened

LEMMA ToldKin ==
    ASSUME NEW x \in Session, NEW m \in Send
    PROVE  Kin(x, Told(x, m))
<1> DEFINE a == IF m.resume /\ m.followUp /\ m.latest THEN MicPaused(x, FALSE) ELSE x
           b == IF ~m.followUp /\ m.latest THEN Expecting(a, FALSE) ELSE a
           y == [b EXCEPT !.state = IF m.followUp /\ ~b.paused THEN "listening" ELSE "idle"]
<1>1. Kin(x, a)
  BY MicPausedKin, KinSelf
<1>2. a \in Session
  BY <1>1 DEF Kin, SameTurns
<1>3. Kin(a, b)
  <2> HIDE DEF a
  <2> QED
    BY <1>2, ExpectingKin, KinSelf
<1>4. Kin(x, b)
  <2> HIDE DEF a, b
  <2> QED
    BY <1>1, <1>3, KinKin
<1>5. Kin(x, y)
  <2> HIDE DEF b
  <2> QED
    BY <1>4 DEF Kin, SameTurns, Session, Weakened
<1>6. Told(x, m) = IF ~m.current \/ Over(x) \/ ~x.owns THEN x ELSE y
  BY DEF Told
<1> HIDE DEF y
<1> QED
  BY <1>5, <1>6, KinSelf

LEMMA TellingTells ==
    ASSUME NEW x \in Session, NEW t \in Turns \cup {NoTurn},
           NEW resolved \in BOOLEAN, NEW followUp \in BOOLEAN, NEW resume \in BOOLEAN
    PROVE  LET y == Telling(x, t, resolved, followUp, resume)
           IN  IF Over(x) \/ ~x.owns THEN y = x ELSE Tells(x, y, t)
<1> DEFINE y == Telling(x, t, resolved, followUp, resume)
           e == Expecting(x, TRUE)
           new == [turn |-> t, followUp |-> followUp, resume |-> resume,
                   gen |-> x.gen, latest |-> TRUE, current |-> TRUE]
           tell == [turn |-> t, resolved |-> resolved, followUp |-> followUp]
<1>1. CASE Over(x) \/ ~x.owns
  BY <1>1 DEF Telling
<1>2. CASE ~(Over(x) \/ ~x.owns)
  <2>1. Kin(x, e)
    BY ExpectingKin
  <2>2. y = [e EXCEPT !.sends = @ \cup {new}, !.told = Append(@, tell)]
    BY <1>2 DEF Telling
  <2>3. new \in Send /\ new.gen = x.gen /\ new.turn = t
    BY DEF Send, Session
  <2>4. tell \in Tell /\ tell.turn = t
    BY DEF Tell
  <2>5. e \in Session /\ e.told = x.told /\ x.told \in Seq(Tell) /\ e.sends \subseteq Send
    BY <2>1 DEF Kin, SameTurns, Session
  <2> HIDE DEF e, new, tell, y
  <2>6. /\ Append(x.told, tell) \in Seq(Tell) /\ Len(Append(x.told, tell)) = Len(x.told) + 1
        /\ Append(x.told, tell)[Len(x.told) + 1] = tell
        /\ \A i \in 1 .. Len(x.told) : Append(x.told, tell)[i] = x.told[i]
    BY <2>4, <2>5, AppendFacts
  <2>7. y.told = Append(x.told, tell) /\ y.sends = e.sends \cup {new} /\ y \in Session
    BY <2>2, <2>3, <2>5, <2>6 DEF Session
  <2>8. y.gen = e.gen /\ y.media = e.media /\ y.drained = e.drained /\ y.pending = e.pending
    BY <2>2, <2>5 DEF Session
  <2>9. \A m \in y.sends : Weakened(m, x) \/ (m.gen = x.gen /\ m.turn = t)
    BY <2>1, <2>3, <2>7 DEF Kin
  <2>10. Tells(x, y, t)
    BY <2>1, <2>4, <2>6, <2>7, <2>8, <2>9 DEF Kin, Tells, SameTurns
  <2> QED
    BY <1>2, <2>10 DEF y
<1> QED
  BY <1>1, <1>2

\* _drain_ends either leaves the session alone, or pops drained ends; of an owned session it
\* pops one and tells it.
Drains(x, y) ==
    \/ y = x
    \/ \E n \in Nat : Pops(x, y, n)
    \/ \E p : Pops(x, p, 1) /\ Tells(p, y, x.pending[1].turn)

LEMMA PopsOne ==
    ASSUME NEW x \in Session, x.pending # <<>>, Head(x.pending).turn \in x.drained
    PROVE  LET p == [Released(x, Head(x.pending).turn) EXCEPT !.pending = Tail(@), !.barged = FALSE]
           IN  Pops(x, p, 1) /\ Over(p) = Over(x) /\ p.owns = x.owns
<1> DEFINE t == Head(x.pending).turn
           md == {r \in x.media : r.turn # t}
           dr == x.drained \ {t}
           q == Tail(x.pending)
           p == [Released(x, t) EXCEPT !.pending = Tail(@), !.barged = FALSE]
<1>1. x.pending \in Seq(End) /\ x.media \subseteq Media /\ x.drained \subseteq Turns
  BY DEF Session
<1>2. /\ Len(x.pending) \in Nat /\ Len(x.pending) >= 1 /\ Head(x.pending) = x.pending[1]
      /\ q \in Seq(End) /\ Len(q) = Len(x.pending) - 1
      /\ \A i \in 1 .. Len(x.pending) - 1 : q[i] = x.pending[i + 1]
  BY <1>1, TailFacts
<1>3. p = [x EXCEPT !.media = md, !.drained = dr, !.pending = q, !.barged = FALSE]
  BY DEF Released, Session
<1>4. md \subseteq Media /\ dr \subseteq Turns
  BY <1>1
<1>5. t = x.pending[1].turn /\ t \in x.drained
  BY <1>2
<1>6. \A r \in x.media : r.turn # t => r \in md
  OBVIOUS
<1>7. dr \subseteq x.drained
  OBVIOUS
<1> HIDE DEF md, dr, q, t, p
<1>8. p \in Session
  BY <1>2, <1>3, <1>4 DEF Session
<1>9. /\ p.gen = x.gen /\ p.told = x.told /\ p.sends = x.sends /\ p.owns = x.owns
      /\ p.closed = x.closed /\ p.ended = x.ended
      /\ p.media = md /\ p.drained = dr /\ p.pending = q
  BY <1>3 DEF Session
<1>10. Len(p.pending) = Len(x.pending) - 1 /\ \A i \in 1 .. Len(p.pending) : p.pending[i] = x.pending[i + 1]
  BY <1>2, <1>9
<1>11. 1 \in 0 .. Len(x.pending) /\ \A i \in 1 .. 1 : x.pending[i].turn \in x.drained
  BY <1>2, <1>5
<1>12. \A r \in x.media : (\A i \in 1 .. 1 : r.turn # x.pending[i].turn) => r \in p.media
  BY <1>5, <1>6, <1>9
<1>13. Pops(x, p, 1)
  BY <1>7, <1>8, <1>9, <1>10, <1>11, <1>12 DEF Pops
<1>14. Over(p) = Over(x)
  BY <1>9 DEF Over
<1> QED
  BY <1>9, <1>13, <1>14 DEF p, t

LEMMA PopsDrained ==
    ASSUME NEW x \in Session, NEW n \in 0 .. Len(x.pending),
           \A i \in 1 .. n : x.pending[i].turn \in x.drained
    PROVE  LET gone == {x.pending[i].turn : i \in 1 .. n}
           IN  Pops(x, [x EXCEPT !.pending = SubSeq(@, n + 1, Len(@)), !.drained = @ \ gone,
                                 !.media = {r \in @ : r.turn \notin gone}], n)
<1> DEFINE gone == {x.pending[i].turn : i \in 1 .. n}
           md == {r \in x.media : r.turn \notin gone}
           dr == x.drained \ gone
           q == SubSeq(x.pending, n + 1, Len(x.pending))
           p == [x EXCEPT !.pending = SubSeq(@, n + 1, Len(@)), !.drained = @ \ gone,
                          !.media = {r \in @ : r.turn \notin gone}]
<1>1. x.pending \in Seq(End) /\ x.media \subseteq Media /\ x.drained \subseteq Turns
  BY DEF Session
<1>2. /\ q \in Seq(End) /\ Len(q) = Len(x.pending) - n
      /\ \A i \in 1 .. Len(x.pending) - n : q[i] = x.pending[i + n]
  BY <1>1, RestFacts
<1>3. p = [x EXCEPT !.pending = q, !.drained = dr, !.media = md]
  BY DEF Session
<1>4. md \subseteq Media /\ dr \subseteq Turns /\ dr \subseteq x.drained
  BY <1>1
<1>5. \A r \in x.media : (\A i \in 1 .. n : r.turn # x.pending[i].turn) => r \in md
  OBVIOUS
<1> HIDE DEF md, dr, q, gone, p
<1>6. p \in Session
  BY <1>2, <1>3, <1>4 DEF Session
<1>7. /\ p.gen = x.gen /\ p.told = x.told /\ p.sends = x.sends
      /\ p.media = md /\ p.drained = dr /\ p.pending = q
  BY <1>3 DEF Session
<1>8. Pops(x, p, n)
  BY <1>2, <1>4, <1>5, <1>6, <1>7 DEF Pops
<1> QED
  BY <1>8 DEF p, gone

LEMMA DrainedDrains ==
    ASSUME NEW x \in Session
    PROVE  Drains(x, Drained(x))
<1>1. CASE ~Ready(x)
  BY <1>1 DEF Drained, Drains
<1>2. CASE Ready(x) /\ x.owns
  <2> DEFINE front == Head(x.pending)
             p == [Released(x, front.turn) EXCEPT !.pending = Tail(@), !.barged = FALSE]
  <2>1. x.pending # <<>> /\ front.turn \in x.drained /\ ~Over(x) /\ x.pending \in Seq(End)
    BY <1>2 DEF Ready, Session
  <2>2. Pops(x, p, 1) /\ ~Over(p) /\ p.owns
    BY <1>2, <2>1, PopsOne
  <2>3. front \in End /\ front = x.pending[1]
    BY <2>1, TailFacts
  <2>4. front.turn \in Turns \cup {NoTurn} /\ front.followUp \in BOOLEAN /\ x.barged \in BOOLEAN
    BY <2>3 DEF End, Session
  <2>5. Drained(x) = Telling(p, front.turn, front.followUp, front.followUp \/ x.barged, FALSE)
    BY <1>2 DEF Drained
  <2>6. p \in Session
    BY <2>2 DEF Pops
  <2> HIDE DEF p, front
  <2>7. Tells(p, Drained(x), front.turn)
    BY <2>2, <2>4, <2>5, <2>6, TellingTells
  <2> QED
    BY <2>2, <2>3, <2>7 DEF Drains
<1>3. CASE Ready(x) /\ ~x.owns
  <2> DEFINE blocked == {i \in 1 .. Len(x.pending) : x.pending[i].turn \notin x.drained}
             n == IF blocked = {} THEN Len(x.pending)
                                  ELSE (CHOOSE i \in blocked : \A j \in blocked : i <= j) - 1
             gone == {x.pending[i].turn : i \in 1 .. n}
             p == [x EXCEPT !.pending = SubSeq(@, n + 1, Len(@)), !.drained = @ \ gone,
                            !.media = {r \in @ : r.turn \notin gone}]
  <2>1. Len(x.pending) \in Nat
    BY DEF Session
  <2>2. n \in 0 .. Len(x.pending) /\ \A i \in 1 .. n : x.pending[i].turn \in x.drained
    <3>1. CASE blocked = {}
      BY <2>1, <3>1
    <3>2. CASE blocked # {}
      <4>1. \E i \in blocked : \A j \in blocked : i <= j
        <5>1. blocked \subseteq Nat
          BY <2>1
        <5> HIDE DEF blocked
        <5> QED
          BY <3>2, <5>1, FirstPosition
      <4> DEFINE k == CHOOSE i \in blocked : \A j \in blocked : i <= j
      <4>2. k \in blocked /\ \A j \in blocked : k <= j
        <5> HIDE DEF blocked
        <5> QED
          BY <4>1
      <4>3. n = k - 1
        BY <3>2
      <4> HIDE DEF k
      <4> HIDE DEF n
      <4> QED
        BY <2>1, <4>2, <4>3
    <3> QED
      BY <3>1, <3>2
  <2>3. Drained(x) = p
    BY <1>3 DEF Drained
  <2> HIDE DEF n
  <2>4. Pops(x, p, n)
    BY <2>2, PopsDrained
  <2> HIDE DEF p
  <2> QED
    <3>1. n \in Nat
      BY <2>1, <2>2
    <3> QED
      BY <3>1, <2>3, <2>4 DEF Drains
<1> QED
  BY <1>1, <1>2, <1>3

-----------------------------------------------------------------------------
\* The invariant survives those changes, whatever user, context, LLM step and output are.

LEMMA TurnsAreNat == MaxTurns \in Nat /\ \A t \in Turns : t \in Nat /\ t > 0 /\ t # NoTurn
  BY TurnBoundsAssumption DEF Turns, NoTurn

LEMMA SessionTypes ==
    ASSUME NEW x \in Session
    PROVE  /\ x.gen \in Nat /\ Len(x.told) \in Nat /\ Len(x.pending) \in Nat
           /\ \A i \in 1 .. Len(x.told) : x.told[i].turn \in Nat
           /\ \A i \in 1 .. Len(x.pending) : x.pending[i].turn \in Turns /\ x.pending[i].turn \in Nat
           /\ \A t \in x.drained : t \in Nat
<1>1. /\ x.gen \in 0 .. MaxTurns /\ x.told \in Seq(Tell) /\ x.pending \in Seq(End) /\ x.drained \subseteq Turns
  BY DEF Session
<1>2. \A i \in 1 .. Len(x.told) : x.told[i] \in Tell
  BY <1>1, ElementOfSeq
<1>3. \A i \in 1 .. Len(x.pending) : x.pending[i] \in End
  BY <1>1, ElementOfSeq
<1> QED
  BY <1>1, <1>2, <1>3, TurnsAreNat DEF Tell, End, NoTurn

LEMMA OtherTypes ==
    ASSUME NEW l \in Service, NEW o \in Seq(Played)
    PROVE  /\ l.turn \in Nat /\ Len(o) \in Nat
           /\ \A i \in 1 .. Len(o) : o[i] \in Played /\ o[i].turn \in Nat /\ o[i].turn # NoTurn
<1>1. \A i \in 1 .. Len(o) : o[i] \in Played
  BY ElementOfSeq
<1> QED
  BY <1>1, TurnsAreNat DEF Service, Played, NoTurn

LEMMA KinKeeps ==
    ASSUME NEW x, NEW y, NEW u, NEW c, NEW l, NEW o, Keeps(x, u, c, l, o), Kin(x, y)
    PROVE  Keeps(y, u, c, l, o)
<1> USE DEF Keeps, Kin, SameTurns
<1>1. Past(y, u, c, l, o)
  BY DEF Past, Old
<1>2. Order(y, l) /\ Owned(y, l, o)
  BY DEF Order, Owned, HasMedia
<1>3. Sends(y)
  BY DEF Sends, Weakened
<1> QED
  BY <1>1, <1>2, <1>3

\* When telling the end of turn t keeps the invariant.
Tellable(x, t, u, c, l, o) ==
    /\ Old(t, x, u, c)
    /\ t # NoTurn => \A i \in 1 .. Len(x.told) : x.told[i].turn < t
    /\ \A i \in 1 .. Len(x.pending) : t < x.pending[i].turn
    /\ l.turn # NoTurn => t < l.turn
    /\ \A i \in 1 .. Len(o) : t # o[i].turn

LEMMA TellKeeps ==
    ASSUME NEW x, NEW y, NEW t, NEW u, NEW c, NEW l \in Service, NEW o \in Seq(Played),
           Keeps(x, u, c, l, o), Tells(x, y, t), Tellable(x, t, u, c, l, o)
    PROVE  Keeps(y, u, c, l, o)
<1> DEFINE k == Len(x.told) + 1
<1>1. /\ x \in Session /\ y \in Session /\ y.gen = x.gen /\ y.media = x.media /\ y.drained = x.drained
      /\ y.pending = x.pending
  BY DEF Keeps, Tells, SameTurns
<1>2. /\ Len(x.told) \in Nat /\ Len(y.told) = k /\ y.told[k].turn = t
      /\ \A i \in 1 .. k : i \in 1 .. Len(x.told) \/ i = k
      /\ \A i \in 1 .. Len(x.told) : y.told[i] = x.told[i] /\ i \in 1 .. k /\ i < k
      /\ k \in 1 .. k
  BY <1>1, SessionTypes DEF Tells
<1> HIDE DEF k
<1>3. Past(y, u, c, l, o)
  BY <1>1, <1>2 DEF Keeps, Past, Old, Tellable
<1>4. Order(y, l)
  <2>1. \A i \in 1 .. k, j \in 1 .. Len(y.pending) : y.told[i].turn < y.pending[j].turn
    BY <1>1, <1>2 DEF Keeps, Order, Tellable
  <2>2. \A i, j \in 1 .. k :
           i < j /\ y.told[i].turn # NoTurn /\ y.told[j].turn # NoTurn => y.told[i].turn < y.told[j].turn
    <3> SUFFICES ASSUME NEW i \in 1 .. k, NEW j \in 1 .. k, i < j,
                        y.told[i].turn # NoTurn, y.told[j].turn # NoTurn
                 PROVE  y.told[i].turn < y.told[j].turn
      OBVIOUS
    <3>1. i \in 1 .. Len(x.told)
      BY <1>2 DEF k
    <3>2. CASE j \in 1 .. Len(x.told)
      BY <1>2, <3>1, <3>2 DEF Keeps, Order
    <3>3. CASE j = k
      BY <1>2, <3>1, <3>3 DEF Tellable
    <3> QED
      BY <1>2, <3>2, <3>3
  <2>3. l.turn # NoTurn => \A i \in 1 .. k : y.told[i].turn < l.turn
    BY <1>1, <1>2 DEF Keeps, Order, Tellable
  <2> QED
    BY <1>1, <1>2, <2>1, <2>2, <2>3 DEF Keeps, Order
<1>5. Owned(y, l, o)
  BY <1>1, <1>2 DEF Keeps, Owned, HasMedia, Tellable
<1>6. Sends(y)
  BY <1>1, <1>2 DEF Keeps, Sends, Tells, Weakened
<1> QED
  BY <1>1, <1>3, <1>4, <1>5, <1>6 DEF Keeps

LEMMA PopKeeps ==
    ASSUME NEW x, NEW y, NEW n, NEW u, NEW c, NEW l \in Service, NEW o \in Seq(Played),
           Keeps(x, u, c, l, o), Pops(x, y, n)
    PROVE  Keeps(y, u, c, l, o)
<1>1. /\ x \in Session /\ y \in Session /\ y.gen = x.gen /\ y.told = x.told /\ y.sends = x.sends
      /\ y.drained \subseteq x.drained
  BY DEF Keeps, Pops
<1>2. /\ n \in Nat /\ Len(x.pending) \in Nat
      /\ \A i \in 1 .. Len(y.pending) : i + n \in 1 .. Len(x.pending) /\ y.pending[i] = x.pending[i + n]
      /\ \A i, j \in 1 .. Len(y.pending) : i < j => i + n < j + n
      /\ \A i \in 1 .. n : i \in 1 .. Len(x.pending) /\ x.pending[i].turn \in x.drained
  BY <1>1, SessionTypes DEF Pops
<1>3. Past(y, u, c, l, o)
  BY <1>1, <1>2 DEF Keeps, Past, Old
<1>4. Order(y, l)
  BY <1>1, <1>2 DEF Keeps, Order
<1>5. \A t : t \notin x.drained /\ HasMedia(t, x) => HasMedia(t, y)
  BY <1>2 DEF HasMedia, Pops
<1>6. Owned(y, l, o)
  BY <1>1, <1>5 DEF Keeps, Owned
<1>7. Sends(y)
  BY <1>1 DEF Keeps, Sends
<1> QED
  BY <1>1, <1>3, <1>4, <1>6, <1>7 DEF Keeps

LEMMA PopTellable ==
    ASSUME NEW x, NEW p, NEW u, NEW c, NEW l \in Service, NEW o \in Seq(Played),
           Keeps(x, u, c, l, o), Pops(x, p, 1)
    PROVE  Tellable(p, x.pending[1].turn, u, c, l, o)
<1> DEFINE t == x.pending[1].turn
<1>1. /\ x \in Session /\ p \in Session /\ p.gen = x.gen /\ p.told = x.told
  BY DEF Keeps, Pops
<1>2. /\ 1 \in 1 .. Len(x.pending) /\ x.pending[1].turn \in x.drained
      /\ \A i \in 1 .. Len(p.pending) : i + 1 \in 1 .. Len(x.pending) /\ 1 < i + 1 /\ p.pending[i] = x.pending[i + 1]
  BY <1>1, SessionTypes DEF Pops
<1>3. Old(t, p, u, c)
  BY <1>1, <1>2 DEF Keeps, Past, Old
<1>4. \A i \in 1 .. Len(p.told) : p.told[i].turn < t
  BY <1>1, <1>2 DEF Keeps, Order
<1>5. \A i \in 1 .. Len(p.pending) : t < p.pending[i].turn
  BY <1>1, <1>2 DEF Keeps, Order
<1>6. l.turn # NoTurn => t < l.turn
  BY <1>1, <1>2 DEF Keeps, Order
<1>7. \A i \in 1 .. Len(o) : t # o[i].turn
  BY <1>2 DEF Keeps, Owned
<1> QED
  BY <1>3, <1>4, <1>5, <1>6, <1>7 DEF Tellable

LEMMA DrainedKeeps ==
    ASSUME NEW x, NEW u, NEW c, NEW l \in Service, NEW o \in Seq(Played), Keeps(x, u, c, l, o)
    PROVE  Keeps(Drained(x), u, c, l, o)
<1> DEFINE y == Drained(x)
<1>1. Drains(x, y)
  BY DrainedDrains DEF Keeps
<1> HIDE DEF y
<1>2. ASSUME NEW n \in Nat, Pops(x, y, n) PROVE Keeps(y, u, c, l, o)
  BY <1>2, PopKeeps
<1>3. ASSUME NEW p, Pops(x, p, 1), Tells(p, y, x.pending[1].turn) PROVE Keeps(y, u, c, l, o)
  BY <1>3, PopKeeps, PopTellable, TellKeeps
<1>4. Keeps(y, u, c, l, o)
  BY <1>1, <1>2, <1>3 DEF Drains
<1> QED
  BY <1>4 DEF y

\* The end of no turn may be told at any time.
LEMMA NoTurnTellable ==
    ASSUME NEW x, NEW u, NEW c, NEW l \in Service, NEW o \in Seq(Played), Keeps(x, u, c, l, o)
    PROVE  Tellable(x, NoTurn, u, c, l, o)
<1>1. \A i \in 1 .. Len(x.pending) : NoTurn < x.pending[i].turn
  BY SessionTypes, TurnsAreNat DEF NoTurn, Keeps
<1>2. l.turn # NoTurn => NoTurn < l.turn
  BY OtherTypes DEF NoTurn
<1>3. \A i \in 1 .. Len(o) : NoTurn # o[i].turn
  BY OtherTypes
<1> QED
  BY <1>1, <1>2, <1>3 DEF Tellable, Keeps, Past

LEMMA TellingKeeps ==
    ASSUME NEW x, NEW u, NEW c, NEW l \in Service, NEW o \in Seq(Played), Keeps(x, u, c, l, o),
           NEW followUp \in BOOLEAN, NEW resume \in BOOLEAN
    PROVE  Keeps(Telling(x, NoTurn, followUp, followUp, resume), u, c, l, o)
<1> DEFINE y == Telling(x, NoTurn, followUp, followUp, resume)
<1>1. x \in Session /\ NoTurn \in Turns \cup {NoTurn}
  BY DEF Keeps
<1>2. y = x \/ Tells(x, y, NoTurn)
  BY <1>1, TellingTells
<1>3. Tellable(x, NoTurn, u, c, l, o)
  BY NoTurnTellable
<1> HIDE DEF y
<1>4. Keeps(y, u, c, l, o)
  BY <1>2, <1>3, TellKeeps
<1> QED
  BY <1>4 DEF y

-----------------------------------------------------------------------------
\* What the steps of the user, the LLM service and the output do to it.

LEMMA IdleType == Idle \in Service /\ Idle.stage = "idle" /\ Idle.turn = NoTurn
  BY TurnBoundsAssumption DEF Idle, Service, NoTurn

LEMMA ContextKeeps ==
    ASSUME NEW x, NEW u, NEW c, NEW v, NEW d, NEW l, NEW o, Keeps(x, u, c, l, o),
           Awaited(v, d) => Awaited(u, c), v # "none" => d = "none"
    PROVE  Keeps(x, v, d, l, o)
  BY DEF Keeps, Past, Old

LEMMA DropKeeps ==
    ASSUME NEW x, NEW u, NEW c, NEW l \in Service, NEW o \in Seq(Played), Keeps(x, u, c, l, o),
           NEW k \in {l, Idle}, NEW q \in {o, <<>>}
    PROVE  Keeps(x, u, c, k, q)
<1>1. \A i \in 1 .. Len(q) : i \in 1 .. Len(o) /\ q[i] = o[i]
  BY OtherTypes
<1>2. k.turn = l.turn \/ k.turn = NoTurn
  BY IdleType
<1>3. Past(x, u, c, k, q)
  BY <1>1, <1>2 DEF Keeps, Past
<1>4. Order(x, k)
  BY IdleType DEF Keeps, Order
<1>5. Owned(x, k, q)
  <2>1. k.stage = "waiting" => k = l
    BY IdleType
  <2>2. Owned(x, l, q)
    BY <1>1 DEF Keeps, Owned
  <2> QED
    BY <2>1, <2>2 DEF Owned
<1> QED
  BY <1>3, <1>4, <1>5 DEF Keeps

LEMMA TailKeeps ==
    ASSUME NEW x, NEW u, NEW c, NEW l \in Service, NEW o \in Seq(Played), Keeps(x, u, c, l, o), o # <<>>
    PROVE  Tail(o) \in Seq(Played) /\ Keeps(x, u, c, l, Tail(o))
<1>1. Tail(o) \in Seq(Played) /\ \A i \in 1 .. Len(Tail(o)) : i + 1 \in 1 .. Len(o) /\ Tail(o)[i] = o[i + 1]
  BY TailFacts
<1>2. \A i, j \in 1 .. Len(Tail(o)) : i < j => i + 1 < j + 1
  BY <1>1, TailFacts
<1>3. Past(x, u, c, l, Tail(o))
  BY <1>1 DEF Keeps, Past
<1>4. Owned(x, l, Tail(o))
  BY <1>1, <1>2 DEF Keeps, Owned
<1> QED
  BY <1>1, <1>3, <1>4 DEF Keeps

\* The end marker of a turn is the last of it: once it passed, the turn is drained.
LEMMA MarkerKeeps ==
    ASSUME NEW x, NEW u, NEW c, NEW l \in Service, NEW o \in Seq(Played), Keeps(x, u, c, l, o),
           o # <<>>, Head(o).kind = "end"
    PROVE  Keeps([x EXCEPT !.drained = @ \cup {Head(o).turn}], u, c, l, Tail(o))
<1> DEFINE t == Head(o).turn
           y == [x EXCEPT !.drained = @ \cup {t}]
<1>1. /\ Len(o) \in Nat /\ 1 \in 1 .. Len(o) /\ o[1].turn = t /\ o[1].kind = "end" /\ o[1] \in Played
      /\ \A i \in 1 .. Len(Tail(o)) : i + 1 \in 1 .. Len(o) /\ 1 < i + 1 /\ Tail(o)[i] = o[i + 1]
  BY TailFacts
<1>2. Keeps(x, u, c, l, Tail(o))
  BY TailKeeps
<1>3. t \in Turns
  BY <1>1 DEF Played
<1>4. \A i \in 1 .. Len(Tail(o)) : Tail(o)[i].turn # t
  BY <1>1 DEF Keeps, Owned
<1>5. l.stage = "waiting" => l.turn # t
  BY <1>1 DEF Keeps, Owned
<1>6. Old(t, x, u, c)
  BY <1>1 DEF Keeps, Past
<1> HIDE DEF t
<1>7. y \in Session
  BY <1>3 DEF Keeps, Session
<1>8. /\ y.gen = x.gen /\ y.pending = x.pending /\ y.told = x.told /\ y.media = x.media
      /\ y.sends = x.sends /\ y.drained = x.drained \cup {t}
  BY DEF Keeps, Session
<1> HIDE DEF y
<1>9. Past(y, u, c, l, Tail(o))
  BY <1>2, <1>6, <1>8 DEF Keeps, Past, Old
<1>10. Order(y, l) /\ Sends(y)
  BY <1>2, <1>8 DEF Keeps, Order, Sends
<1>11. Owned(y, l, Tail(o))
  BY <1>2, <1>4, <1>5, <1>8 DEF Keeps, Owned, HasMedia
<1>12. Keeps(y, u, c, l, Tail(o))
  BY <1>7, <1>9, <1>10, <1>11 DEF Keeps
<1> QED
  BY <1>12 DEF y, t

\* What the LLM service speaks, and the end marker of its turn.
LEMMA SpokenKeeps ==
    ASSUME NEW x, NEW u, NEW c, NEW l \in Service, NEW o \in Seq(Played), Keeps(x, u, c, l, o),
           l.stage = "waiting", NEW k \in Service, k.turn = l.turn,
           NEW kind \in {"audio", "end"},
           IF kind = "end" THEN k.stage \in {"ended", "failed"} ELSE k.stage = "waiting"
    PROVE  LET q == Append(o, [turn |-> l.turn, kind |-> kind])
           IN  q \in Seq(Played) /\ Keeps(x, u, c, k, q)
<1> DEFINE e == [turn |-> l.turn, kind |-> kind]
           q == Append(o, e)
           n == Len(o) + 1
<1>1. l.turn # NoTurn /\ l.turn \in Turns
  BY DEF Keeps, Order, Service
<1>2. e \in Played /\ e.turn = l.turn /\ e.kind = kind
  BY <1>1 DEF Played
<1> HIDE DEF e
<1>3. /\ q \in Seq(Played) /\ Len(o) \in Nat /\ Len(q) = n /\ q[n] = e
      /\ \A i \in 1 .. Len(o) : q[i] = o[i]
  BY <1>2, AppendFacts
<1>4. /\ \A i \in 1 .. n : i \in 1 .. Len(o) \/ i = n
      /\ \A i \in 1 .. Len(o) : i < n
      /\ \A i, j \in 1 .. n : i < j => i \in 1 .. Len(o)
  BY <1>3
<1> HIDE DEF q, n
<1>5. Past(x, u, c, k, q)
  BY <1>2, <1>3, <1>4 DEF Keeps, Past
<1>6. Order(x, k)
  BY <1>1 DEF Keeps, Order
<1>7. \A i \in 1 .. n : HasMedia(q[i].turn, x) /\ q[i].turn \notin x.drained
  BY <1>2, <1>3, <1>4 DEF Keeps, Owned
<1>8. \A i, j \in 1 .. n : i < j /\ q[i].kind = "end" => q[i].turn # q[j].turn
  BY <1>2, <1>3, <1>4 DEF Keeps, Owned
<1>9. \A i \in 1 .. Len(x.told), j \in 1 .. n : x.told[i].turn # q[j].turn
  <2>1. \A i \in 1 .. Len(x.told) : x.told[i].turn # l.turn
    BY <1>1, SessionTypes, OtherTypes DEF Keeps, Order
  <2> QED
    BY <2>1, <1>2, <1>3, <1>4 DEF Keeps, Owned
<1>10. k.stage = "waiting" => /\ HasMedia(k.turn, x) /\ k.turn \notin x.drained
                              /\ \A i \in 1 .. n : q[i].kind = "end" => q[i].turn # k.turn
  BY <1>2, <1>3, <1>4 DEF Keeps, Owned
<1>11. Owned(x, k, q)
  BY <1>3, <1>7, <1>8, <1>9, <1>10 DEF Owned
<1>12. Keeps(x, u, c, k, q)
  BY <1>5, <1>6, <1>11 DEF Keeps
<1> QED
  BY <1>3, <1>12 DEF q, e

\* A turn that was awaited is the LLM service's, with media of its own.
LEMMA TakenKeeps ==
    ASSUME NEW x, NEW u, NEW l, NEW o \in Seq(Played), Keeps(x, u, "turn", l, o), l.stage = "idle",
           NEW a \in Agents
    PROVE  LET k == [Idle EXCEPT !.turn = x.gen, !.stage = "waiting"]
               y == [x EXCEPT !.media = @ \cup {[turn |-> x.gen, agent |-> a]}]
           IN  k \in Service /\ Keeps(y, u, "none", k, o)
<1> DEFINE k == [Idle EXCEPT !.turn = x.gen, !.stage = "waiting"]
           r == [turn |-> x.gen, agent |-> a]
           y == [x EXCEPT !.media = @ \cup {r}]
<1>1. x \in Session /\ x.gen \in 0 .. MaxTurns /\ MaxTurns \in Nat
  BY TurnsAreNat DEF Keeps, Session
<1>2. Awaited(u, "turn") /\ u = "none" /\ ~Awaited(u, "none")
  BY DEF Keeps, Past, Awaited
<1>3. x.gen \in Turns /\ x.gen \in Nat
  BY <1>1, <1>2 DEF Keeps, Past, Old, Turns, NoTurn
<1>4. r \in Media /\ r.turn = x.gen
  BY <1>3 DEF Media
<1>5. k \in Service /\ k.turn = x.gen /\ k.stage = "waiting"
  BY <1>3, IdleType DEF Service
<1> HIDE DEF r, k
<1>6. y \in Session /\ y.gen = x.gen /\ y.pending = x.pending /\ y.told = x.told /\ y.drained = x.drained
      /\ y.sends = x.sends /\ y.media = x.media \cup {r}
  BY <1>1, <1>4 DEF Session
<1> HIDE DEF y
<1>7. /\ \A i \in 1 .. Len(o) : o[i].turn < x.gen
      /\ \A i \in 1 .. Len(x.pending) : x.pending[i].turn < x.gen
      /\ \A i \in 1 .. Len(x.told) : x.told[i].turn < x.gen
      /\ \A t \in x.drained : t < x.gen
  BY <1>2 DEF Keeps, Past, Old
<1>8. Past(y, u, "none", k, o)
  <2>1. NoTurn <= x.gen
    BY <1>3 DEF NoTurn
  <2> QED
    BY <1>2, <1>3, <1>5, <1>6, <2>1 DEF Keeps, Past, Old
<1>9. Order(y, k)
  BY <1>3, <1>5, <1>6, <1>7, TurnsAreNat DEF Keeps, Order
<1>10. Owned(y, k, o)
  <2>1. x.gen \notin x.drained /\ \A i \in 1 .. Len(o) : o[i].turn # x.gen
    BY <1>3, <1>7
  <2> QED
    BY <1>4, <1>5, <1>6, <2>1 DEF Keeps, Owned, HasMedia
<1>11. Sends(y)
  BY <1>6 DEF Keeps, Sends
<1>12. Keeps(y, u, "none", k, o)
  BY <1>6, <1>8, <1>9, <1>10, <1>11 DEF Keeps
<1> QED
  BY <1>5, <1>12 DEF y, k, r

\* The end of the LLM service's turn joins the ends that wait.
LEMMA QueuedKeeps ==
    ASSUME NEW x, NEW u, NEW c, NEW l \in Service, NEW o \in Seq(Played), Keeps(x, u, c, l, o),
           l.stage # "idle"
    PROVE  Keeps([x EXCEPT !.pending = Append(@, [turn |-> l.turn, followUp |-> l.followUp])], u, c, Idle, o)
<1> DEFINE e == [turn |-> l.turn, followUp |-> l.followUp]
           q == Append(x.pending, e)
           n == Len(x.pending) + 1
           y == [x EXCEPT !.pending = Append(@, e)]
<1>1. l.turn # NoTurn /\ l.turn \in Turns /\ l.followUp \in BOOLEAN /\ l.turn \in Nat
  BY TurnsAreNat DEF Keeps, Order, Service
<1>2. e \in End /\ e.turn = l.turn
  BY <1>1 DEF End
<1>3. x \in Session /\ x.pending \in Seq(End)
  BY DEF Keeps, Session
<1> HIDE DEF e
<1>4. /\ q \in Seq(End) /\ Len(x.pending) \in Nat /\ Len(q) = n /\ q[n] = e
      /\ \A i \in 1 .. Len(x.pending) : q[i] = x.pending[i]
  BY <1>2, <1>3, AppendFacts
<1>5. /\ \A i \in 1 .. n : i \in 1 .. Len(x.pending) \/ i = n
      /\ \A i, j \in 1 .. n : i < j => i \in 1 .. Len(x.pending)
  BY <1>4
<1>6. y = [x EXCEPT !.pending = q]
  OBVIOUS
<1> HIDE DEF q, n, y
<1>7. /\ y \in Session /\ y.gen = x.gen /\ y.pending = q /\ y.told = x.told /\ y.drained = x.drained
      /\ y.sends = x.sends /\ y.media = x.media
  BY <1>3, <1>4, <1>6 DEF Session
<1>8. Past(y, u, c, Idle, o)
  BY <1>2, <1>4, <1>5, <1>7, IdleType DEF Keeps, Past, Old
<1>9. Order(y, Idle)
  <2>1. \A i \in 1 .. Len(x.pending) : x.pending[i].turn < e.turn
    BY <1>1, <1>2 DEF Keeps, Order
  <2>2. \A i \in 1 .. Len(x.told) : x.told[i].turn < e.turn
    BY <1>1, <1>2 DEF Keeps, Order
  <2>3. \A i, j \in 1 .. n : i < j => q[i].turn < q[j].turn
    BY <1>4, <1>5, <2>1 DEF Keeps, Order
  <2>4. \A i \in 1 .. Len(x.told), j \in 1 .. n : x.told[i].turn < q[j].turn
    BY <1>4, <1>5, <2>2 DEF Keeps, Order
  <2> QED
    BY <1>4, <1>7, <2>3, <2>4, IdleType DEF Keeps, Order
<1>10. Owned(y, Idle, o) /\ Sends(y)
  BY <1>7, IdleType DEF Keeps, Owned, HasMedia, Sends
<1>11. Keeps(y, u, c, Idle, o)
  BY <1>7, <1>8, <1>9, <1>10 DEF Keeps
<1> QED
  BY <1>11 DEF y, e

-----------------------------------------------------------------------------
\* Every step keeps the invariant.

LEMMA TurnsInit == Init => TurnsInv
<1> SUFFICES ASSUME Init PROVE TurnsInv
  OBVIOUS
<1>1. MaxTurns \in Nat /\ MaxEvents \in Nat /\ MaxSegments \in Nat
  BY TurnBoundsAssumption
<1>2. /\ s.gen = 0 /\ s.media = {} /\ s.drained = {} /\ s.pending = <<>> /\ s.sends = {} /\ s.told = <<>>
  BY DEF Init
<1>3. s \in Session
  <2>1. <<>> \in Seq(End) /\ <<>> \in Seq(Tell) /\ 0 \in 0 .. MaxTurns
    BY <1>1
  <2> QED
    BY <2>1 DEF Init, Session
<1>4. llm \in Service /\ llm.stage = "idle" /\ llm.turn = NoTurn
  BY IdleType DEF Init
<1>5. TypeOK
  BY <1>1, <1>3, <1>4 DEF Init, TypeOK
<1>6. Past(s, user, context, llm, out)
  BY <1>2, <1>4 DEF Init, Past, Old, Awaited, NoTurn
<1>7. Order(s, llm) /\ Owned(s, llm, out) /\ Sends(s)
  BY <1>2, <1>4 DEF Init, Order, Owned, Sends
<1> QED
  BY <1>3, <1>5, <1>6, <1>7 DEF TurnsInv, Keeps

\* Only flags of the session change, none of which the invariant depends on, and sends go away.
Flagged(x, y) ==
    /\ y \in Session /\ y.gen = x.gen /\ y.media = x.media /\ y.drained = x.drained
    /\ y.pending = x.pending /\ y.told = x.told /\ y.sends \subseteq x.sends

LEMMA FlaggedKin == ASSUME NEW x, NEW y, Flagged(x, y) PROVE Kin(x, y)
  BY DEF Flagged, Kin, SameTurns, Weakened

LEMMA OnsetKin ==
    ASSUME NEW x \in Session, NEW kept \in SUBSET x.sends
    PROVE  Kin(x, [x EXCEPT !.barged = @ \/ (x.speaking \/ x.timer), !.sends = kept])
<1> DEFINE y == [x EXCEPT !.barged = @ \/ (x.speaking \/ x.timer), !.sends = kept]
<1>1. Flagged(x, y)
  BY DEF Session, Flagged
<1> HIDE DEF y
<1>2. Kin(x, y)
  BY <1>1, FlaggedKin
<1> QED
  BY <1>2 DEF y

\* A user turn makes every earlier turn an earlier one, and every send that goes on a stale one.
LEMMA OpenedKeeps ==
    ASSUME NEW x, NEW u, NEW c, NEW l \in Service, NEW o \in Seq(Played), Keeps(x, u, c, l, o),
           x.gen < MaxTurns
    PROVE  Keeps([Expecting(x, TRUE) EXCEPT !.gen = @ + 1, !.active = TRUE], "open", "none", l, o)
<1> DEFINE e == Expecting(x, TRUE)
           y == [e EXCEPT !.gen = @ + 1, !.active = TRUE]
<1>1. x \in Session
  BY DEF Keeps
<1>2. Kin(x, e)
  BY <1>1, ExpectingKin
<1>3. \A m \in e.sends : ~m.latest /\ ~m.current
  <2> DEFINE w == {[m EXCEPT !.latest = FALSE, !.current = @ /\ ~TRUE] : m \in x.sends}
  <2>1. \A m \in x.sends : m \in Send
    BY <1>1 DEF Session
  <2>2. \A m \in w : ~m.latest /\ ~m.current
    BY <2>1 DEF Send
  <2>3. e = [x EXCEPT !.expected = TRUE, !.sends = w]
    BY DEF Expecting
  <2> HIDE DEF w, e
  <2>4. e.sends = w
    BY <2>3, <1>1 DEF Session
  <2> QED
    BY <2>2, <2>4
<1>4. Keeps(e, u, c, l, o)
  BY <1>2, KinKeeps
<1> HIDE DEF e
<1>5. e \in Session /\ e.gen = x.gen /\ MaxTurns \in Nat
  BY <1>2, TurnsAreNat DEF Kin, SameTurns
<1>6. e.gen + 1 \in 0 .. MaxTurns /\ e.gen \in Nat
  BY <1>1, <1>5 DEF Session
<1>7. /\ y \in Session /\ y.gen = e.gen + 1 /\ y.pending = e.pending /\ y.told = e.told
      /\ y.drained = e.drained /\ y.sends = e.sends /\ y.media = e.media
  BY <1>5, <1>6 DEF Session
<1> HIDE DEF y
<1>8. \A t \in Nat : Old(t, e, u, c) => Old(t, y, "open", "none")
  BY <1>6, <1>7 DEF Old
<1>9. Past(y, "open", "none", l, o)
  <2>1. NoTurn \in Nat
    BY DEF NoTurn
  <2> QED
    BY <1>4, <1>5, <1>7, <1>8, <2>1, SessionTypes, OtherTypes DEF Keeps, Past
<1>10. Order(y, l) /\ Owned(y, l, o) /\ Sends(y)
  <2>1. Order(e, l) /\ Owned(e, l, o) /\ Sends(e)
    BY <1>4 DEF Keeps
  <2>2. Order(y, l)
    BY <1>7, <2>1 DEF Order
  <2>3. Owned(y, l, o)
    BY <1>7, <2>1 DEF Owned, HasMedia
  <2>4. Sends(y)
    BY <1>3, <1>7, <2>1 DEF Sends
  <2> QED
    BY <2>2, <2>3, <2>4
<1>11. Keeps(y, "open", "none", l, o)
  BY <1>7, <1>9, <1>10 DEF Keeps
<1> QED
  BY <1>11 DEF y, e

LEMMA InterruptedTypes ==
    ASSUME TurnsInv, Interrupts
    PROVE  llm' \in Service /\ out' \in Seq(Played) /\ context' = "none" /\ interrupted' \subseteq Turns
<1>1. \A i \in 1 .. Len(out) : out[i].turn \in Turns
  BY OtherTypes DEF TurnsInv, TypeOK, Played
<1>2. \A i \in 1 .. Len(s.pending) : s.pending[i].turn \in Turns
  BY SessionTypes DEF TurnsInv, TypeOK
<1>3. {llm.turn} \ {NoTurn} \subseteq Turns
  BY DEF TurnsInv, TypeOK, Service
<1>4. {out[i].turn : i \in 1 .. Len(out)} \subseteq Turns
  BY <1>1
<1>5. {s.pending[i].turn : i \in 1 .. Len(s.pending)} \subseteq Turns
  BY <1>2
<1>6. interrupted' \subseteq Turns
  BY <1>3, <1>4, <1>5 DEF Interrupts, TurnsInv, TypeOK
<1>7. llm' \in Service /\ out' \in Seq(Played) /\ context' = "none"
  BY IdleType DEF Interrupts, TurnsInv, TypeOK
<1> QED
  BY <1>6, <1>7

LEMMA EventTypes == ASSUME TypeOK, Event PROVE events' \in 0 .. MaxEvents
<1>1. MaxEvents \in Nat
  BY TurnBoundsAssumption
<1> QED
  BY <1>1 DEF TypeOK, Event

\* What TypeOK asks beyond the session.
Rest(u, c, l, o, a, i, n) ==
    /\ u \in {"none", "open", "mute"} /\ c \in {"none", "turn", "skip"}
    /\ l \in Service /\ o \in Seq(Played) /\ a \in Agents /\ i \subseteq Turns /\ n \in 0 .. MaxEvents

LEMMA Both ==
    Keeps(s', user', context', llm', out') /\ Rest(user', context', llm', out', agent', interrupted', events')
       => TurnsInv'
  BY DEF TurnsInv, Keeps, Rest, TypeOK

LEMMA SpeechKeeps == TurnsInv /\ (SpeechStarts \/ SpeechUnavailable) => TurnsInv'
<1> SUFFICES ASSUME TurnsInv, SpeechStarts \/ SpeechUnavailable PROVE TurnsInv'
  OBVIOUS
<1>1. Interrupts
  BY DEF SpeechStarts, SpeechUnavailable
<1>2. llm' \in Service /\ out' \in Seq(Played) /\ context' = "none" /\ interrupted' \subseteq Turns
  BY <1>1, InterruptedTypes
<1>3. llm' \in {llm, Idle} /\ out' \in {out, <<>>}
  BY <1>1 DEF Interrupts
<1>4. s \in Session /\ llm \in Service /\ out \in Seq(Played) /\ Keeps(s, user, context, llm, out)
  BY DEF TurnsInv, TypeOK
<1>5. Keeps(s, user, context, llm', out')
  BY <1>3, <1>4, DropKeeps
<1>6. ASSUME NEW kept \in Kept PROVE Kin(s, SpokenOver(kept)) /\ Keeps(SpokenOver(kept), user, context, llm', out')
  <2>1. kept \in SUBSET s.sends
    BY <1>6 DEF Kept
  <2>2. Kin(s, SpokenOver(kept))
    BY <1>4, <2>1, OnsetKin DEF SpokenOver, ReplyActive
  <2> QED
    BY <1>5, <2>2, KinKeeps
<1>7. CASE SpeechStarts
  <2>1. PICK kept \in Kept : s' = [Expecting(SpokenOver(kept), TRUE) EXCEPT !.gen = @ + 1, !.active = TRUE]
    BY <1>7 DEF SpeechStarts
  <2> DEFINE x == SpokenOver(kept)
  <2>2. Keeps(x, user, context, llm', out') /\ x.gen < MaxTurns
    BY <1>6, <1>7 DEF Kin, SameTurns, SpeechStarts
  <2>3. s' = [Expecting(x, TRUE) EXCEPT !.gen = @ + 1, !.active = TRUE]
    BY <2>1
  <2> HIDE DEF x
  <2>4. Keeps(s', "open", "none", llm', out')
    BY <1>2, <2>2, <2>3, OpenedKeeps
  <2>5. user' = "open" /\ agent' = agent /\ events' = events
    BY <1>7 DEF SpeechStarts
  <2> QED
    BY <1>2, <2>4, <2>5, Both DEF Rest, TurnsInv, TypeOK
<1>8. CASE SpeechUnavailable
  <2>1. PICK kept \in Kept :
          s' = Telling([Expecting(SpokenOver(kept), TRUE) EXCEPT !.active = FALSE], NoTurn, FALSE, FALSE, FALSE)
    BY <1>8 DEF SpeechUnavailable
  <2> DEFINE x == SpokenOver(kept)
             e == Expecting(x, TRUE)
             y == [e EXCEPT !.active = FALSE]
  <2>2. Keeps(x, user, context, llm', out') /\ x \in Session
    BY <1>6 DEF Keeps
  <2>3. s' = Telling(y, NoTurn, FALSE, FALSE, FALSE)
    BY <2>1
  <2> HIDE DEF x
  <2>4. Kin(x, e) /\ e \in Session
    BY <2>2, ExpectingKin DEF Kin, SameTurns
  <2> HIDE DEF e
  <2>5. y \in Session /\ y.gen = e.gen /\ y.media = e.media /\ y.drained = e.drained /\ y.pending = e.pending
        /\ y.told = e.told /\ y.sends = e.sends
    BY <2>4 DEF Session
  <2> HIDE DEF y
  <2>6. Kin(x, y)
    BY <2>4, <2>5 DEF Kin, SameTurns, Weakened
  <2>7. Keeps(y, user, context, llm', out')
    BY <2>2, <2>6, KinKeeps
  <2>8. Keeps(y, "mute", "none", llm', out')
    BY <2>7, ContextKeeps DEF Awaited
  <2>9. Keeps(s', "mute", "none", llm', out')
    BY <1>2, <2>3, <2>8, TellingKeeps
  <2>10. user' = "mute" /\ agent' = agent /\ events' \in 0 .. MaxEvents
    BY <1>8, EventTypes DEF SpeechUnavailable, TurnsInv
  <2> QED
    BY <1>2, <2>9, <2>10, Both DEF Rest, TurnsInv, TypeOK
<1> QED
  BY <1>7, <1>8

LEMMA TranscriptKeeps == TurnsInv /\ (Transcribed \/ Unheard \/ Skips) => TurnsInv'
<1> SUFFICES ASSUME TurnsInv, Transcribed \/ Unheard \/ Skips PROVE TurnsInv'
  OBVIOUS
<1>1. s \in Session /\ Keeps(s, user, context, llm, out)
  BY DEF TurnsInv, TypeOK
<1>2. Flagged(s, s')
  BY <1>1 DEF Flagged, Session, Transcribed, Unheard, Skips
<1>3. Keeps(s', user, context, llm, out)
  BY <1>1, <1>2, FlaggedKin, KinKeeps
<1>4. /\ Awaited(user', context') => Awaited(user, context)
      /\ user' # "none" => context' = "none"
      /\ user' \in {"none", "open", "mute"} /\ context' \in {"none", "turn", "skip"}
  BY <1>1 DEF Transcribed, Unheard, Skips, Awaited, TurnsInv, TypeOK
<1>5. /\ llm' = llm /\ out' = out /\ agent' = agent /\ interrupted' = interrupted /\ events' = events
  BY DEF Transcribed, Unheard, Skips
<1>6. Keeps(s', user', context', llm', out')
  BY <1>3, <1>4, <1>5, ContextKeeps
<1> QED
  BY <1>4, <1>5, <1>6, Both DEF Rest, TurnsInv, TypeOK

LEMMA TakesKeeps == TurnsInv /\ Takes => TurnsInv'
<1> SUFFICES ASSUME TurnsInv, Takes PROVE TurnsInv'
  OBVIOUS
<1>1. /\ s \in Session /\ Keeps(s, user, "turn", llm, out) /\ llm \in Service /\ out \in Seq(Played)
      /\ llm.stage = "idle" /\ context' = "none" /\ user' = user /\ out' = out /\ agent \in Agents
      /\ agent' = agent /\ interrupted' = interrupted /\ events' = events
  BY DEF TurnsInv, TypeOK, Takes
<1>2. Keeps(s, user, "none", llm, out)
  BY <1>1, ContextKeeps DEF Awaited
<1>3. CASE s' = s /\ llm' = llm
  BY <1>1, <1>2, <1>3, Both DEF Rest, TurnsInv, TypeOK
<1>4. CASE s' = Closing(s) /\ llm' = llm
  <2>1. Flagged(s, s')
    BY <1>1, <1>4 DEF Closing, Flagged, Session
  <2>2. Keeps(s', user, "none", llm, out)
    BY <1>2, <2>1, FlaggedKin, KinKeeps
  <2> QED
    BY <1>1, <1>4, <2>2, Both DEF Rest, TurnsInv, TypeOK
<1>5. CASE /\ s' = [s EXCEPT !.media = @ \cup {[turn |-> s.gen, agent |-> agent]}]
           /\ llm' = [Idle EXCEPT !.turn = s.gen, !.stage = "waiting"]
  <2>1. llm' \in Service /\ Keeps(s', user, "none", llm', out)
    BY <1>1, <1>5, TakenKeeps
  <2> QED
    BY <1>1, <2>1, Both DEF Rest, TurnsInv, TypeOK
<1> QED
  BY <1>3, <1>4, <1>5 DEF Takes

LEMMA SpeaksKeeps == TurnsInv /\ (Segment \/ ReplyEnds \/ ReplyFails) => TurnsInv'
<1> SUFFICES ASSUME TurnsInv, Segment \/ ReplyEnds \/ ReplyFails PROVE TurnsInv'
  OBVIOUS
<1>1. /\ Keeps(s, user, context, llm, out) /\ llm \in Service /\ out \in Seq(Played) /\ llm.stage = "waiting"
      /\ s' = s /\ user' = user /\ context' = context
      /\ agent' = agent /\ interrupted' = interrupted /\ events' = events
  BY DEF TurnsInv, TypeOK, Segment, ReplyEnds, ReplyFails
<1>2. \E kind \in {"audio", "end"} :
        /\ out' = Append(out, [turn |-> llm.turn, kind |-> kind])
        /\ llm' \in Service /\ llm'.turn = llm.turn
        /\ IF kind = "end" THEN llm'.stage \in {"ended", "failed"} ELSE llm'.stage = "waiting"
  <2>1. MaxSegments \in Nat
    BY TurnBoundsAssumption
  <2>2. CASE Segment
    BY <1>1, <2>1, <2>2 DEF Segment, Service
  <2>3. CASE ReplyEnds \/ ReplyFails
    BY <1>1, <2>3 DEF ReplyEnds, ReplyFails, Ends, Service
  <2> QED
    BY <2>2, <2>3
<1>3. out' \in Seq(Played) /\ Keeps(s, user, context, llm', out') /\ llm' \in Service
  <2>1. PICK kind \in {"audio", "end"} :
          /\ out' = Append(out, [turn |-> llm.turn, kind |-> kind])
          /\ llm' \in Service /\ llm'.turn = llm.turn
          /\ IF kind = "end" THEN llm'.stage \in {"ended", "failed"} ELSE llm'.stage = "waiting"
    BY <1>2
  <2> DEFINE k == llm'
  <2>2. k \in Service /\ k.turn = llm.turn
        /\ IF kind = "end" THEN k.stage \in {"ended", "failed"} ELSE k.stage = "waiting"
    BY <2>1
  <2> HIDE DEF k
  <2>3. LET q == Append(out, [turn |-> llm.turn, kind |-> kind])
        IN  q \in Seq(Played) /\ Keeps(s, user, context, k, q)
    BY <1>1, <2>2, SpokenKeeps
  <2> QED
    BY <2>1, <2>3 DEF k
<1> QED
  BY <1>1, <1>3, Both DEF Rest, TurnsInv, TypeOK

LEMMA GatesFlagged ==
    ASSUME NEW x \in Session, NEW awaiting \in BOOLEAN, NEW active \in BOOLEAN, NEW timer \in BOOLEAN
    PROVE  Flagged(x, [x EXCEPT !.awaiting = awaiting, !.active = active, !.timer = timer])
  BY DEF Flagged, Session

LEMMA CompletesKeeps == TurnsInv /\ Completes => TurnsInv'
<1> SUFFICES ASSUME TurnsInv, Completes PROVE TurnsInv'
  OBVIOUS
<1>1. /\ s \in Session /\ Keeps(s, user, context, llm, out) /\ llm \in Service /\ out \in Seq(Played)
      /\ llm.stage # "idle" /\ s' = Completed(s) /\ llm' = Idle
      /\ user' = user /\ context' = context /\ out' = out
      /\ agent' = agent /\ interrupted' = interrupted /\ events' = events
  BY DEF TurnsInv, TypeOK, Completes
<1>2. CASE Over(s)
  <2>1. s' = s
    BY <1>1, <1>2 DEF Completed
  <2>2. Keeps(s, user, context, Idle, out)
    BY <1>1, DropKeeps
  <2> QED
    BY <1>1, <2>1, <2>2, IdleType, Both DEF Rest, TurnsInv, TypeOK
<1>3. CASE ~Over(s)
  <2> DEFINE current == (llm.turn = s.gen)
             hasAudio == (llm.stage = "ended" /\ llm.segments > 0)
             y == [s EXCEPT !.awaiting = @ /\ ~current, !.active = @ /\ ~current,
                            !.timer = @ \/ (hasAudio /\ ~s.speaking)]
             q == [y EXCEPT !.pending = Append(@, [turn |-> llm.turn, followUp |-> llm.followUp])]
  <2>1. s' = Drained(q)
    BY <1>1, <1>3 DEF Completed, Queued
  <2>2. Flagged(s, y)
    <3> DEFINE awaiting == s.awaiting /\ ~current
               active == s.active /\ ~current
               timer == s.timer \/ (hasAudio /\ ~s.speaking)
    <3>1. awaiting \in BOOLEAN /\ active \in BOOLEAN /\ timer \in BOOLEAN
      OBVIOUS
    <3>2. y = [s EXCEPT !.awaiting = awaiting, !.active = active, !.timer = timer]
      OBVIOUS
    <3> HIDE DEF awaiting, active, timer, y
    <3> QED
      BY <1>1, <3>1, <3>2, GatesFlagged
  <2> HIDE DEF y
  <2>3. Keeps(y, user, context, llm, out)
    BY <1>1, <2>2, FlaggedKin, KinKeeps
  <2>4. Keeps(q, user, context, Idle, out)
    BY <1>1, <2>3, QueuedKeeps
  <2> HIDE DEF q
  <2>5. Keeps(s', user, context, Idle, out)
    BY <1>1, <2>1, <2>4, IdleType, DrainedKeeps
  <2> QED
    BY <1>1, <2>5, IdleType, Both DEF Rest, TurnsInv, TypeOK
<1> QED
  BY <1>2, <1>3

LEMMA OutputKeeps == TurnsInv /\ (Plays \/ MarkerPasses) => TurnsInv'
<1> SUFFICES ASSUME TurnsInv, Plays \/ MarkerPasses PROVE TurnsInv'
  OBVIOUS
<1>1. /\ s \in Session /\ Keeps(s, user, context, llm, out) /\ llm \in Service /\ out \in Seq(Played)
      /\ out # <<>> /\ out' = Tail(out) /\ user' = user /\ context' = context /\ llm' = llm
      /\ agent' = agent /\ interrupted' = interrupted /\ events' = events
  BY DEF TurnsInv, TypeOK, Plays, MarkerPasses
<1>2. out' \in Seq(Played) /\ Keeps(s, user, context, llm, out')
  BY <1>1, TailKeeps
<1>3. CASE Plays
  <2>1. Flagged(s, s')
    BY <1>1, <1>3 DEF Plays, Flagged, Session
  <2>2. Keeps(s', user, context, llm, out')
    BY <1>2, <2>1, FlaggedKin, KinKeeps
  <2> QED
    BY <1>1, <1>2, <2>2, Both DEF Rest, TurnsInv, TypeOK
<1>4. CASE MarkerPasses /\ s' = s
  BY <1>1, <1>2, <1>4, Both DEF Rest, TurnsInv, TypeOK
<1>5. CASE MarkerPasses /\ s' # s
  <2> DEFINE y == [s EXCEPT !.drained = @ \cup {Head(out).turn}]
  <2>1. Head(out).kind = "end" /\ s' = Drained(y)
    BY <1>5 DEF MarkerPasses
  <2>2. Keeps(y, user, context, llm, out')
    BY <1>1, <2>1, MarkerKeeps
  <2> HIDE DEF y
  <2>3. Keeps(s', user, context, llm, out')
    BY <1>1, <1>2, <2>1, <2>2, DrainedKeeps
  <2> QED
    BY <1>1, <1>2, <2>3, Both DEF Rest, TurnsInv, TypeOK
<1> QED
  BY <1>3, <1>4, <1>5

LEMMA ReturnKeeps == ASSUME TurnsInv, NEW m \in s.sends, SendReturns(m) PROVE TurnsInv'
<1> DEFINE x == [s EXCEPT !.sends = @ \ {m}]
<1>1. /\ s \in Session /\ Keeps(s, user, context, llm, out) /\ llm \in Service /\ out \in Seq(Played)
      /\ out' = out /\ user' = user /\ context' = context /\ llm' = llm
      /\ agent' = agent /\ interrupted' = interrupted /\ events' = events
  BY DEF TurnsInv, TypeOK, SendReturns
<1>2. PICK delivered \in BOOLEAN :
        LET y == IF delivered THEN Told(x, m) ELSE x
        IN  s' = IF m.turn = NoTurn THEN y ELSE Drained(y)
  BY DEF SendReturns
<1>3. Flagged(s, x) /\ x \in Session /\ m \in Send
  BY <1>1 DEF Flagged, Session
<1> DEFINE y == IF delivered THEN Told(x, m) ELSE x
<1>4. s' = y \/ s' = Drained(y)
  BY <1>2
<1> HIDE DEF x
<1>5. Kin(x, y)
  BY <1>3, ToldKin, KinSelf
<1> HIDE DEF y
<1>6. Keeps(y, user, context, llm, out)
  BY <1>1, <1>3, <1>5, FlaggedKin, KinKeeps
<1>7. Keeps(s', user, context, llm, out)
  BY <1>1, <1>4, <1>6, DrainedKeeps
<1> QED
  BY <1>1, <1>7, Both DEF Rest, TurnsInv, TypeOK

LEMMA ControlKeeps ==
    ASSUME TurnsInv,
           \/ Silence \/ DebounceEnds \/ WriteFails \/ LosesControl
           \/ \E b \in BOOLEAN : Pauses(b) \/ PromptEnds(b)
           \/ \E a \in Agents : SelectAgent(a)
    PROVE  TurnsInv'
<1>1. /\ s \in Session /\ Keeps(s, user, context, llm, out) /\ llm \in Service /\ out \in Seq(Played)
      /\ out' = out /\ user' = user /\ context' = context /\ llm' = llm /\ interrupted' = interrupted
  BY DEF TurnsInv, TypeOK, Silence, DebounceEnds, WriteFails, LosesControl, Pauses, PromptEnds, SelectAgent
<1>2. agent' \in Agents
  BY DEF TurnsInv, TypeOK, Silence, DebounceEnds, WriteFails, LosesControl, Pauses, PromptEnds, SelectAgent
<1>3. events' \in 0 .. MaxEvents
  <2>1. events' = events \/ Event
    BY DEF Silence, DebounceEnds, WriteFails, LosesControl, Pauses, PromptEnds, SelectAgent
  <2> QED
    BY <2>1, EventTypes DEF TurnsInv, TypeOK
<1>4. Keeps(s', user, context, llm, out)
  <2>1. CASE \/ Silence \/ DebounceEnds \/ WriteFails \/ LosesControl \/ \E a \in Agents : SelectAgent(a)
    <3>1. ASSUME Silence PROVE Flagged(s, s')
      BY <1>1, <3>1 DEF Flagged, Session, Silence
    <3>2. ASSUME DebounceEnds PROVE Flagged(s, s')
      BY <1>1, <3>2 DEF Flagged, Session, DebounceEnds
    <3>3. ASSUME WriteFails PROVE Flagged(s, s')
      BY <1>1, <3>3 DEF Flagged, Session, WriteFails
    <3>4. ASSUME LosesControl PROVE Flagged(s, s')
      BY <1>1, <3>4 DEF Flagged, Session, LosesControl
    <3>5. ASSUME NEW a \in Agents, SelectAgent(a) PROVE Flagged(s, s')
      BY <1>1, <3>5 DEF Flagged, Session, SelectAgent
    <3>6. Flagged(s, s')
      BY <2>1, <3>1, <3>2, <3>3, <3>4, <3>5
    <3> QED
      BY <1>1, <3>6, FlaggedKin, KinKeeps
  <2>2. ASSUME NEW b \in BOOLEAN, Pauses(b) PROVE Keeps(s', user, context, llm, out)
    BY <1>1, <2>2, MicPausedKin, KinKeeps DEF Pauses
  <2>3. ASSUME NEW b \in BOOLEAN, PromptEnds(b) PROVE Keeps(s', user, context, llm, out)
    BY <1>1, <2>3, TellingKeeps DEF PromptEnds
  <2> QED
    BY <2>1, <2>2, <2>3
<1> QED
  BY <1>1, <1>2, <1>3, <1>4, Both DEF Rest, TurnsInv, TypeOK

\* _notify_ended drops the ends that wait, and tells that of no turn.
LEMMA ForgottenKeeps ==
    ASSUME NEW x, NEW u, NEW c, NEW l, NEW o, Keeps(x, u, c, l, o)
    PROVE  Keeps([x EXCEPT !.pending = <<>>], u, c, l, o)
<1> DEFINE y == [x EXCEPT !.pending = <<>>]
<1>1. <<>> \in Seq(End) /\ x \in Session
  BY DEF Keeps
<1>2. /\ y \in Session /\ y.gen = x.gen /\ y.media = x.media /\ y.drained = x.drained /\ y.pending = <<>>
      /\ y.told = x.told /\ y.sends = x.sends
  BY <1>1 DEF Session
<1> HIDE DEF y
<1>3. Past(y, u, c, l, o)
  BY <1>2 DEF Keeps, Past, Old
<1>4. Order(y, l)
  BY <1>2 DEF Keeps, Order
<1>5. Owned(y, l, o) /\ Sends(y)
  BY <1>2 DEF Keeps, Owned, HasMedia, Sends
<1>6. Keeps(y, u, c, l, o)
  BY <1>2, <1>3, <1>4, <1>5 DEF Keeps
<1> QED
  BY <1>6 DEF y

LEMMA EndingTells ==
    ASSUME NEW x \in Session
    PROVE  Tells([x EXCEPT !.pending = <<>>], Ending(x), NoTurn)
<1> DEFINE p == [x EXCEPT !.pending = <<>>]
           y == Ending(x)
           tell == [turn |-> NoTurn, resolved |-> FALSE, followUp |-> FALSE]
<1>1. <<>> \in Seq(End) /\ x.told \in Seq(Tell) /\ tell \in Tell /\ tell.turn = NoTurn
  BY DEF Session, Tell
<1>2. y = [x EXCEPT !.ended = "telling", !.pending = <<>>, !.timer = FALSE, !.told = Append(@, tell)]
  BY DEF Ending
<1> HIDE DEF y, tell
<1>3. /\ Append(x.told, tell) \in Seq(Tell) /\ Len(Append(x.told, tell)) = Len(x.told) + 1
      /\ Append(x.told, tell)[Len(x.told) + 1] = tell
      /\ \A i \in 1 .. Len(x.told) : Append(x.told, tell)[i] = x.told[i]
  BY <1>1, AppendFacts
<1>4. /\ y \in Session /\ y.gen = x.gen /\ y.media = x.media /\ y.drained = x.drained /\ y.pending = <<>>
      /\ y.told = Append(x.told, tell) /\ y.sends = x.sends
  BY <1>1, <1>2, <1>3 DEF Session
<1>5. /\ p.gen = x.gen /\ p.media = x.media /\ p.drained = x.drained /\ p.pending = <<>>
      /\ p.told = x.told /\ p.sends = x.sends
  BY DEF Session
<1> HIDE DEF p
<1>6. Tells(p, y, NoTurn)
  BY <1>1, <1>3, <1>4, <1>5 DEF Tells, SameTurns, Weakened
<1> QED
  BY <1>6 DEF p, y

LEMMA ClosesKeeps == TurnsInv /\ (Closes \/ PeerLost \/ EndTold) => TurnsInv'
<1> SUFFICES ASSUME TurnsInv, Closes \/ PeerLost \/ EndTold PROVE TurnsInv'
  OBVIOUS
<1>1. /\ s \in Session /\ Keeps(s, user, context, llm, out) /\ llm \in Service /\ out \in Seq(Played)
      /\ out' = out /\ user' = user /\ context' = context /\ llm' = llm /\ agent' = agent
      /\ interrupted' = interrupted
  BY DEF TurnsInv, TypeOK, Closes, PeerLost, EndTold
<1>2. events' \in 0 .. MaxEvents
  <2>1. events' = events \/ Event
    BY DEF Closes, PeerLost, EndTold
  <2> QED
    BY <2>1, EventTypes DEF TurnsInv, TypeOK
<1>3. Keeps(s', user, context, llm, out)
  <2> DEFINE p == [s EXCEPT !.pending = <<>>]
  <2>1. Keeps(p, user, context, llm, out)
    BY <1>1, ForgottenKeeps
  <2>2. CASE PeerLost /\ s.owns
    <3>1. s' = Ending(s) /\ Tells(p, Ending(s), NoTurn)
      BY <1>1, <2>2, EndingTells DEF PeerLost
    <3> HIDE DEF p
    <3> QED
      BY <1>1, <2>1, <3>1, NoTurnTellable, TellKeeps
  <2>3. CASE PeerLost /\ ~s.owns
    <3>1. s' = [s EXCEPT !.closed = TRUE, !.timer = FALSE, !.ended = "yes", !.pending = <<>>]
      BY <1>1, <2>3 DEF PeerLost, Closing, Session
    <3>2. p \in Session /\ s' = [p EXCEPT !.closed = TRUE, !.timer = FALSE, !.ended = "yes"]
      BY <1>1, <2>1, <3>1 DEF Session, Keeps
    <3> HIDE DEF p
    <3>3. Flagged(p, s')
      BY <3>2 DEF Flagged, Session
    <3> QED
      BY <2>1, <3>2, <3>3, FlaggedKin, KinKeeps
  <2>4. CASE Closes \/ EndTold
    <3>1. Flagged(s, s')
      BY <1>1, <2>4 DEF Closes, EndTold, Closing, Flagged, Session
    <3> QED
      BY <1>1, <3>1, FlaggedKin, KinKeeps
  <2> QED
    BY <2>2, <2>3, <2>4
<1> QED
  BY <1>1, <1>2, <1>3, Both DEF Rest, TurnsInv, TypeOK

LEMMA DownKeeps == TurnsInv /\ Down => TurnsInv'
<1> SUFFICES ASSUME TurnsInv, Down PROVE TurnsInv'
  OBVIOUS
<1>1. /\ s \in Session /\ Keeps(s, user, context, llm, out) /\ llm \in Service /\ out \in Seq(Played)
      /\ out' = <<>> /\ user' = user /\ context' = "none" /\ llm' = Idle /\ agent' = agent
      /\ interrupted' = interrupted /\ events' = events
  BY DEF TurnsInv, TypeOK, Down
<1>2. <<>> \in Seq(End) /\ <<>> \in Seq(Played)
  OBVIOUS
<1>3. s' = [s EXCEPT !.down = TRUE, !.media = {}, !.drained = {}, !.pending = <<>>]
  BY DEF Down
<1>4. /\ s' \in Session /\ s'.gen = s.gen /\ s'.media = {} /\ s'.drained = {} /\ s'.pending = <<>>
      /\ s'.told = s.told /\ s'.sends = s.sends
  BY <1>1, <1>2, <1>3 DEF Session
<1>5. Keeps(s, user, context, Idle, <<>>)
  BY <1>1, DropKeeps
<1>6. Past(s', user, "none", Idle, <<>>)
  BY <1>4, <1>5 DEF Keeps, Past, Old, Awaited
<1>7. Order(s', Idle) /\ Owned(s', Idle, <<>>) /\ Sends(s')
  BY <1>4, <1>5, IdleType DEF Keeps, Order, Owned, Sends
<1>8. Keeps(s', user', context', llm', out')
  BY <1>1, <1>4, <1>6, <1>7 DEF Keeps
<1> QED
  BY <1>1, <1>2, <1>8, IdleType, Both DEF Rest, TurnsInv, TypeOK

LEMMA TurnsStep == TurnsInv /\ [Next]_vars => TurnsInv'
<1> SUFFICES ASSUME TurnsInv, [Next]_vars PROVE TurnsInv'
  OBVIOUS
<1>1. CASE SpeechStarts \/ SpeechUnavailable
  BY <1>1, SpeechKeeps
<1>2. CASE Transcribed \/ Unheard \/ Skips
  BY <1>2, TranscriptKeeps
<1>3. CASE Takes
  BY <1>3, TakesKeeps
<1>4. CASE Segment \/ ReplyEnds \/ ReplyFails
  BY <1>4, SpeaksKeeps
<1>5. CASE Completes
  BY <1>5, CompletesKeeps
<1>6. CASE Plays \/ MarkerPasses
  BY <1>6, OutputKeeps
<1>7. CASE \E m \in s.sends : SendReturns(m)
  BY <1>7, ReturnKeeps
<1>8. CASE \/ Silence \/ DebounceEnds \/ WriteFails \/ LosesControl
           \/ \E b \in BOOLEAN : Pauses(b) \/ PromptEnds(b)
           \/ \E a \in Agents : SelectAgent(a)
  BY <1>8, ControlKeeps
<1>9. CASE Closes \/ PeerLost \/ EndTold
  BY <1>9, ClosesKeeps
<1>10. CASE Down
  BY <1>10, DownKeeps
<1>11. CASE UNCHANGED vars
  BY <1>11 DEF vars, TurnsInv, TypeOK, Keeps, Past, Old, Order, Owned, HasMedia, Sends
<1> QED
  BY <1>1, <1>2, <1>3, <1>4, <1>5, <1>6, <1>7, <1>8, <1>9, <1>10, <1>11
     DEF Next, LLMStep, OutputStep, ControlStep

-----------------------------------------------------------------------------
\* The inductive invariant holds throughout, for any number of turns, segments and events.
THEOREM TurnsInvariant == Spec => []TurnsInv
  BY TurnsInit, TurnsStep, PTL DEF Spec

\* Whatever TTS and transport still have to play belongs to a turn whose agent media is
\* retained: _on_turn_complete, _drain_ends and the teardown release it only after that.
THEOREM MediaIsAlwaysOwned == Spec => []MediaIsOwned
<1>1. TurnsInv => MediaIsOwned
  BY DEF TurnsInv, Keeps, Owned, HasMedia, MediaIsOwned
<1> QED
  BY <1>1, TurnsInvariant, PTL

\* audio.end is told in turn order, once per turn, and after the turn's audio, whatever is
\* interrupted, drained late or dropped (_drain_ends).
THEOREM EndsAlwaysFollowMedia == Spec => []EndsFollowMedia
<1>1. TurnsInv => EndsFollowMedia
  BY DEF TurnsInv, Keeps, Owned, Order, EndsFollowMedia
<1> QED
  BY <1>1, TurnsInvariant, PTL

-----------------------------------------------------------------------------
\* Which steps may make the device quiet.

\* y is no quieter than x.
Loud(x, y) == y.state = x.state /\ (y.expected \/ y.expected = x.expected)

LEMMA ExpectingSends ==
    ASSUME NEW x \in Session, NEW expected \in BOOLEAN
    PROVE  LET e == Expecting(x, expected)
           IN  /\ e \in Session /\ e.state = x.state /\ e.expected = expected /\ e.paused = x.paused
               /\ \A k \in e.sends : ~k.latest /\ (expected => ~k.current)
<1> DEFINE w == {[m EXCEPT !.latest = FALSE, !.current = @ /\ ~expected] : m \in x.sends}
           e == Expecting(x, expected)
<1>1. \A m \in x.sends : m \in Send
  BY DEF Session
<1>2. \A k \in w : ~k.latest /\ (expected => ~k.current)
  BY <1>1 DEF Send
<1>3. e = [x EXCEPT !.expected = expected, !.sends = w]
  BY DEF Expecting
<1>4. e \in Session
  BY ExpectingKin DEF Kin, SameTurns
<1> HIDE DEF w, e
<1>5. e.sends = w /\ e.state = x.state /\ e.expected = expected /\ e.paused = x.paused
  BY <1>3 DEF Session
<1>6. /\ e \in Session /\ e.state = x.state /\ e.expected = expected /\ e.paused = x.paused
      /\ \A k \in e.sends : ~k.latest /\ (expected => ~k.current)
  BY <1>2, <1>4, <1>5
<1> QED
  BY <1>6 DEF e

LEMMA TellingSends ==
    ASSUME NEW x \in Session, NEW t, NEW resolved, NEW followUp, NEW resume
    PROVE  /\ Loud(x, Telling(x, t, resolved, followUp, resume))
           /\ \A k \in Telling(x, t, resolved, followUp, resume).sends :
                 k \in x.sends \/ ~k.current \/ k.turn = t
<1> DEFINE y == Telling(x, t, resolved, followUp, resume)
           e == Expecting(x, TRUE)
           new == [turn |-> t, followUp |-> followUp, resume |-> resume,
                   gen |-> x.gen, latest |-> TRUE, current |-> TRUE]
           tell == [turn |-> t, resolved |-> resolved, followUp |-> followUp]
<1>1. CASE Over(x) \/ ~x.owns
  BY <1>1 DEF Telling, Loud
<1>2. CASE ~(Over(x) \/ ~x.owns)
  <2>1. e \in Session /\ e.state = x.state /\ e.expected = TRUE /\ \A k \in e.sends : ~k.current
    BY ExpectingSends
  <2>2. y = [e EXCEPT !.sends = @ \cup {new}, !.told = Append(@, tell)]
    BY <1>2 DEF Telling
  <2>3. new.turn = t
    OBVIOUS
  <2> HIDE DEF e, new, y, tell
  <2>4. y.sends = e.sends \cup {new} /\ y.state = e.state /\ y.expected = e.expected
    BY <2>1, <2>2 DEF Session
  <2>5. Loud(x, y) /\ \A k \in y.sends : k \in x.sends \/ ~k.current \/ k.turn = t
    BY <2>1, <2>3, <2>4 DEF Loud
  <2> QED
    BY <2>5 DEF y
<1> QED
  BY <1>1, <1>2

LEMMA DrainedSends ==
    ASSUME NEW x \in Session
    PROVE  LET y == Drained(x)
           IN  /\ Loud(x, y)
               /\ \A k \in y.sends : k \in x.sends \/ ~k.current
                                       \/ (x.pending # <<>> /\ k.turn = x.pending[1].turn)
<1> DEFINE y == Drained(x)
<1>1. CASE ~Ready(x)
  BY <1>1 DEF Drained, Loud
<1>2. CASE Ready(x) /\ x.owns
  <2> DEFINE front == Head(x.pending)
             p == [Released(x, front.turn) EXCEPT !.pending = Tail(@), !.barged = FALSE]
             followUp == front.followUp \/ x.barged
  <2>1. x.pending # <<>> /\ front.turn \in x.drained /\ x.pending \in Seq(End)
    BY <1>2 DEF Ready, Session
  <2>2. p \in Session /\ p.sends = x.sends /\ front = x.pending[1]
    BY <2>1, PopsOne, TailFacts DEF Pops
  <2>3. p.state = x.state /\ p.expected = x.expected
    BY DEF Released, Session
  <2>4. y = Telling(p, front.turn, front.followUp, followUp, FALSE)
    BY <1>2 DEF Drained
  <2> HIDE DEF p, front, y, followUp
  <2>5. Loud(p, y) /\ \A k \in y.sends : k \in p.sends \/ ~k.current \/ k.turn = front.turn
    <3>1. \A t, resolved, f, resume :
            /\ Loud(p, Telling(p, t, resolved, f, resume))
            /\ \A k \in Telling(p, t, resolved, f, resume).sends : k \in p.sends \/ ~k.current \/ k.turn = t
      BY <2>2, TellingSends
    <3> QED
      BY <2>4, <3>1
  <2>6. /\ Loud(x, y)
        /\ \A k \in y.sends : k \in x.sends \/ ~k.current \/ (x.pending # <<>> /\ k.turn = x.pending[1].turn)
    BY <2>1, <2>2, <2>3, <2>5 DEF Loud
  <2> QED
    BY <2>6 DEF y
<1>3. CASE Ready(x) /\ ~x.owns
  <2> DEFINE blocked == {i \in 1 .. Len(x.pending) : x.pending[i].turn \notin x.drained}
             n == IF blocked = {} THEN Len(x.pending)
                                  ELSE (CHOOSE i \in blocked : \A j \in blocked : i <= j) - 1
             gone == {x.pending[i].turn : i \in 1 .. n}
             q == SubSeq(x.pending, n + 1, Len(x.pending))
             dr == x.drained \ gone
             md == {r \in x.media : r.turn \notin gone}
  <2>1. y = [x EXCEPT !.pending = q, !.drained = dr, !.media = md]
    BY <1>3 DEF Drained
  <2> HIDE DEF q, dr, md, y
  <2>2. y.sends = x.sends /\ y.state = x.state /\ y.expected = x.expected
    BY <2>1 DEF Session
  <2>3. Loud(x, y) /\ \A k \in y.sends : k \in x.sends
    BY <2>2 DEF Loud
  <2> QED
    BY <2>3 DEF y
<1> QED
  BY <1>1, <1>2, <1>3

\* A send that makes the device quiet is current, and it leaves none like it behind.
LEMMA ToldSends ==
    ASSUME NEW x \in Session, NEW m \in Send
    PROVE  LET y == Told(x, m)
           IN  /\ ~m.current => y = x
               /\ \A k \in y.sends : k \in x.sends \/ ~k.current \/ (m.latest /\ ~k.latest)
<1> DEFINE a == IF m.resume /\ m.followUp /\ m.latest THEN MicPaused(x, FALSE) ELSE x
           b == IF ~m.followUp /\ m.latest THEN Expecting(a, FALSE) ELSE a
           y == [b EXCEPT !.state = IF m.followUp /\ ~b.paused THEN "listening" ELSE "idle"]
<1>1. Told(x, m) = IF ~m.current \/ Over(x) \/ ~x.owns THEN x ELSE y
  BY DEF Told
<1>2. a \in Session /\ \A k \in a.sends : k \in x.sends \/ ~k.current
  <2>1. CASE a = x
    BY <2>1
  <2>2. CASE a = MicPaused(x, FALSE)
    <3> DEFINE e == Expecting(x, TRUE)
    <3>1. e \in Session /\ \A k \in e.sends : ~k.current
      BY ExpectingSends
    <3>2. a = [e EXCEPT !.paused = FALSE, !.active = @ /\ ~FALSE]
      BY <2>2 DEF MicPaused
    <3> HIDE DEF a, e
    <3> QED
      BY <3>1, <3>2 DEF Session
  <2> QED
    BY <2>1, <2>2
<1>3. b \in Session /\ \A k \in b.sends : k \in a.sends \/ (m.latest /\ ~k.latest)
  <2> HIDE DEF a
  <2>1. CASE b = a
    BY <1>2, <2>1
  <2>2. CASE b # a
    <3>1. b = Expecting(a, FALSE) /\ m.latest
      BY <2>2
    <3> HIDE DEF b
    <3> QED
      BY <1>2, <3>1, ExpectingSends
  <2> QED
    BY <2>1, <2>2
<1>4. y.sends = b.sends
  <2> HIDE DEF b
  <2> QED
    BY <1>3 DEF Session
<1> HIDE DEF a, b, y
<1>5. \A k \in y.sends : k \in x.sends \/ ~k.current \/ (m.latest /\ ~k.latest)
  BY <1>2, <1>3, <1>4
<1> QED
  BY <1>1, <1>5

Quietens ==
    \/ s.expected /\ ~s'.expected /\ ~s'.paused
    \/ s.state # "idle" /\ s'.state = "idle"

LEMMA QuietReturn ==
    ASSUME TurnsInv, NEW m \in s.sends, SendReturns(m), Quietens
    PROVE  m \notin s'.sends /\ m.gen = s.gen
<1> DEFINE x == [s EXCEPT !.sends = @ \ {m}]
<1>1. s \in Session /\ Sends(s) /\ Order(s, llm)
  BY DEF TurnsInv, Keeps
<1>2. PICK delivered \in BOOLEAN :
        LET y == IF delivered THEN Told(x, m) ELSE x
        IN  s' = IF m.turn = NoTurn THEN y ELSE Drained(y)
  BY DEF SendReturns
<1> DEFINE y == IF delivered THEN Told(x, m) ELSE x
<1>3. s' = IF m.turn = NoTurn THEN y ELSE Drained(y)
  BY <1>2
<1>4. /\ x \in Session /\ m \in Send /\ m \notin x.sends /\ x.sends \subseteq s.sends
      /\ x.state = s.state /\ x.expected = s.expected /\ x.told = s.told /\ x.pending = s.pending
  BY <1>1 DEF Session
<1> HIDE DEF x
<1>5. Kin(x, y)
  BY <1>4, ToldKin, KinSelf
<1>6. /\ ~m.current => y = x
      /\ \A k \in y.sends : k \in x.sends \/ ~k.current \/ (m.latest /\ ~k.latest)
  BY <1>4, ToldSends
<1> HIDE DEF y
<1>7. y \in Session /\ y.pending = s.pending
  BY <1>4, <1>5 DEF Kin, SameTurns
<1>8. /\ Loud(y, Drained(y))
      /\ \A k \in Drained(y).sends : k \in y.sends \/ ~k.current
                                       \/ (y.pending # <<>> /\ k.turn = y.pending[1].turn)
  BY <1>7, DrainedSends
<1>9. Loud(y, s')
  BY <1>3, <1>8 DEF Loud
<1>10. m.current
  BY <1>4, <1>6, <1>9 DEF Quietens, Loud
<1>11. m.gen = s.gen
  BY <1>1, <1>10 DEF Sends
<1>12. m \notin y.sends
  BY <1>4, <1>6, <1>10
<1>13. m.turn # NoTurn /\ y.pending # <<>> => m.turn # y.pending[1].turn
  <2> SUFFICES ASSUME m.turn # NoTurn, s.pending # <<>> PROVE m.turn # s.pending[1].turn
    BY <1>7
  <2>1. PICK i \in 1 .. Len(s.told) : s.told[i].turn = m.turn
    BY <1>1 DEF Sends
  <2>2. 1 \in 1 .. Len(s.pending)
    <3>1. s.pending \in Seq(End)
      BY <1>1 DEF Session
    <3> QED
      BY <3>1, TailFacts
  <2>3. s.told[i].turn < s.pending[1].turn
    BY <1>1, <2>2 DEF Order
  <2> QED
    BY <1>1, <2>1, <2>2, <2>3, SessionTypes
<1>14. m \notin s'.sends
  BY <1>3, <1>8, <1>10, <1>12, <1>13
<1> QED
  BY <1>11, <1>14

\* What may make the device quiet: the latest end, or that of a session in control.
Justified ==
    \/ \E m \in s.sends : m \notin s'.sends /\ m.gen = s.gen
    \/ s.ended = "telling" /\ s.owns /\ ~s.down /\ s'.closed

LEMMA QuietStep == ASSUME TurnsInv, [Next]_vars, Quietens PROVE Justified
<1>1. s \in Session /\ llm \in Service
  BY DEF TurnsInv, TypeOK
<1>2. CASE \E m \in s.sends : SendReturns(m)
  BY <1>2, QuietReturn DEF Justified
<1>3. ASSUME s' = s PROVE FALSE
  BY <1>3 DEF Quietens
<1>4. ASSUME Loud(s, s') PROVE FALSE
  BY <1>4 DEF Quietens, Loud
<1>5. CASE SpeechStarts
  <2>1. PICK kept \in Kept : s' = [Expecting(SpokenOver(kept), TRUE) EXCEPT !.gen = @ + 1, !.active = TRUE]
    BY <1>5 DEF SpeechStarts
  <2> DEFINE x == SpokenOver(kept)
             e == Expecting(x, TRUE)
  <2>2. x \in Session /\ x.state = s.state
    BY <1>1, OnsetKin DEF SpokenOver, ReplyActive, Kept, Kin, SameTurns, Session
  <2> HIDE DEF x
  <2>3. e \in Session /\ e.state = x.state /\ e.expected = TRUE
    BY <2>2, ExpectingSends
  <2>4. s' = [e EXCEPT !.gen = @ + 1, !.active = TRUE]
    BY <2>1 DEF x
  <2> HIDE DEF e
  <2>5. s'.state = e.state /\ s'.expected = e.expected
    BY <2>3, <2>4 DEF Session
  <2> QED
    BY <1>4, <2>2, <2>3, <2>5 DEF Loud
<1>6. CASE SpeechUnavailable
  <2>1. PICK kept \in Kept :
          s' = Telling([Expecting(SpokenOver(kept), TRUE) EXCEPT !.active = FALSE], NoTurn, FALSE, FALSE, FALSE)
    BY <1>6 DEF SpeechUnavailable
  <2> DEFINE x == SpokenOver(kept)
             e == Expecting(x, TRUE)
             y == [e EXCEPT !.active = FALSE]
  <2>2. x \in Session /\ x.state = s.state
    BY <1>1, OnsetKin DEF SpokenOver, ReplyActive, Kept, Kin, SameTurns, Session
  <2> HIDE DEF x
  <2>3. e \in Session /\ e.state = x.state /\ e.expected = TRUE
    BY <2>2, ExpectingSends
  <2>4. s' = Telling(y, NoTurn, FALSE, FALSE, FALSE)
    BY <2>1 DEF x
  <2> HIDE DEF e
  <2>5. y \in Session /\ y.state = e.state /\ y.expected = e.expected
    BY <2>3 DEF Session
  <2> HIDE DEF y
  <2>6. Loud(y, s')
    BY <2>4, <2>5, TellingSends
  <2> QED
    BY <1>4, <2>2, <2>3, <2>5, <2>6 DEF Loud
<1>7. CASE \/ Transcribed \/ Unheard \/ Skips \/ Takes \/ Segment \/ ReplyEnds \/ ReplyFails
           \/ Plays \/ Silence \/ DebounceEnds \/ WriteFails \/ LosesControl \/ Closes \/ PeerLost \/ Down
           \/ \E a \in Agents : SelectAgent(a)
  <2>1. s'.state = s.state /\ s'.expected = s.expected
    BY <1>1, <1>7 DEF Session, Closing, Ending, Closes, PeerLost, Transcribed, Unheard, Skips, Takes, Segment, ReplyEnds, ReplyFails,
                      Plays, Silence, DebounceEnds, WriteFails, LosesControl, Down, SelectAgent
  <2> QED
    BY <1>4, <2>1 DEF Loud
<1>8. CASE Completes
  <2> DEFINE current == (llm.turn = s.gen)
             hasAudio == (llm.stage = "ended" /\ llm.segments > 0)
             awaiting == s.awaiting /\ ~current
             active == s.active /\ ~current
             timer == s.timer \/ (hasAudio /\ ~s.speaking)
             y == [s EXCEPT !.awaiting = awaiting, !.active = active, !.timer = timer]
             q == Append(y.pending, [turn |-> llm.turn, followUp |-> llm.followUp])
             z == [y EXCEPT !.pending = q]
  <2>1. s' = s \/ s' = Drained(z)
    BY <1>8 DEF Completes, Completed, Queued
  <2>2. Keeps(z, user, context, Idle, out)
    <3>1. Flagged(s, y)
      BY <1>1, GatesFlagged
    <3> HIDE DEF y
    <3>2. Keeps(y, user, context, llm, out)
      BY <1>1, <3>1, FlaggedKin, KinKeeps DEF TurnsInv
    <3> QED
      BY <1>8, <3>2, QueuedKeeps DEF Completes, TurnsInv, TypeOK
  <2> HIDE DEF current, hasAudio, awaiting, active, timer, q
  <2>3. z.state = s.state /\ z.expected = s.expected
    BY <1>1 DEF Session
  <2> HIDE DEF z
  <2>4. Loud(z, Drained(z))
    BY <2>2, DrainedSends DEF Keeps
  <2> QED
    BY <1>3, <1>4, <2>1, <2>3, <2>4 DEF Loud
<1>9. CASE MarkerPasses
  <2> DEFINE t == Head(out).turn
             y == [s EXCEPT !.drained = @ \cup {t}]
  <2>1. s' = s \/ s' = Drained(y)
    BY <1>9 DEF MarkerPasses
  <2>2. Keeps(y, user, context, llm, Tail(out))
    BY <1>9, MarkerKeeps DEF MarkerPasses, TurnsInv, TypeOK
  <2> HIDE DEF t
  <2>3. y.state = s.state /\ y.expected = s.expected
    BY <1>1 DEF Session
  <2> HIDE DEF y
  <2>4. Loud(y, Drained(y))
    BY <2>2, DrainedSends DEF Keeps
  <2> QED
    BY <1>3, <1>4, <2>1, <2>3, <2>4 DEF Loud
<1>10. ASSUME NEW b \in BOOLEAN, Pauses(b) PROVE FALSE
  <2> DEFINE e == Expecting(s, ~b)
  <2>1. e \in Session /\ e.state = s.state /\ e.expected = ~b
    BY <1>1, ExpectingSends
  <2>2. s' = [e EXCEPT !.paused = b, !.active = @ /\ ~b]
    BY <1>10 DEF Pauses, MicPaused
  <2> HIDE DEF e
  <2>3. s'.state = s.state /\ s'.expected = ~b /\ s'.paused = b
    BY <2>1, <2>2 DEF Session
  <2> QED
    BY <2>3 DEF Quietens
<1>11. ASSUME NEW b \in BOOLEAN, PromptEnds(b) PROVE FALSE
  BY <1>1, <1>4, <1>11, TellingSends DEF PromptEnds
<1>12. CASE EndTold
  <2> DEFINE state == IF s.owns /\ ~s.down THEN "idle" ELSE s.state
  <2>1. s' = [s EXCEPT !.closed = TRUE, !.timer = FALSE, !.ended = "yes", !.state = state]
    BY <1>1, <1>12 DEF EndTold, Closing, Session
  <2> HIDE DEF state
  <2>2. s'.state = state /\ s'.expected = s.expected /\ s'.closed
    BY <1>1, <2>1 DEF Session
  <2> QED
    BY <1>12, <2>2 DEF EndTold, Justified, Quietens, state
<1>13. CASE UNCHANGED vars
  BY <1>3, <1>13 DEF vars
<1> QED
  BY <1>2, <1>5, <1>6, <1>7, <1>8, <1>9, <1>10, <1>11, <1>12, <1>13
     DEF Next, LLMStep, OutputStep, ControlStep

\* Only an end sent since the last speech onset makes the device quiet, however late the sends
\* of older ends return (_send_audio_end checks both revisions after its await); or the end of a
\* session that still has the device's control when it was told (_notify_ended).
THEOREM QuietIsAlwaysCurrent == Spec => QuietIsCurrent
<1>1. TurnsInv /\ [Next]_vars
        => [\/ s.expected /\ ~s'.expected /\ ~s'.paused
            \/ s.state # "idle" /\ s'.state = "idle"
            => \/ \E m \in s.sends : m \notin s'.sends /\ m.gen = s.gen
               \/ s.ended = "telling" /\ s.owns /\ ~s.down /\ s'.closed]_vars
  BY QuietStep DEF Quietens, Justified
<1> QED
  BY <1>1, TurnsInvariant, PTL DEF Spec, QuietIsCurrent

-----------------------------------------------------------------------------
\* A transcript that was routed keeps somebody who owes the release of its gate: its context
\* waits for the LLM service, or the service works on the latest user turn.
Owed(x, c, l) == c = "turn" \/ (l.stage # "idle" /\ l.turn = x.gen)
GateIsOwed ==
    [][s.awaiting /\ Owed(s, context, llm) => ~s'.awaiting \/ Over(s') \/ Owed(s', context', llm')]_vars

\* Neither the gate nor the user's turn moves.
SameGate(x, y) == y \in Session /\ y.gen = x.gen /\ y.awaiting = x.awaiting

LEMMA ExpectingGate ==
    ASSUME NEW x \in Session, NEW expected \in BOOLEAN
    PROVE  SameGate(x, Expecting(x, expected))
<1> DEFINE w == {[m EXCEPT !.latest = FALSE, !.current = @ /\ ~expected] : m \in x.sends}
<1>1. Expecting(x, expected) \in Session /\ Expecting(x, expected).gen = x.gen
  BY ExpectingKin DEF Kin, SameTurns
<1>2. Expecting(x, expected) = [x EXCEPT !.expected = expected, !.sends = w]
  BY DEF Expecting
<1> HIDE DEF w
<1>3. Expecting(x, expected).awaiting = x.awaiting
  BY <1>2 DEF Session
<1> QED
  BY <1>1, <1>3 DEF SameGate

LEMMA MicPausedGate ==
    ASSUME NEW x \in Session, NEW paused \in BOOLEAN
    PROVE  SameGate(x, MicPaused(x, paused))
<1> DEFINE e == Expecting(x, ~paused)
<1>1. SameGate(x, e)
  BY ExpectingGate
<1>2. MicPaused(x, paused) = [e EXCEPT !.paused = paused, !.active = @ /\ ~paused]
  BY DEF MicPaused
<1> HIDE DEF e
<1> QED
  BY <1>1, <1>2 DEF SameGate, Session

LEMMA ToldGate ==
    ASSUME NEW x \in Session, NEW m \in Send
    PROVE  SameGate(x, Told(x, m))
<1> DEFINE a == IF m.resume /\ m.followUp /\ m.latest THEN MicPaused(x, FALSE) ELSE x
           b == IF ~m.followUp /\ m.latest THEN Expecting(a, FALSE) ELSE a
           state == IF m.followUp /\ ~b.paused THEN "listening" ELSE "idle"
           y == [b EXCEPT !.state = state]
<1>1. SameGate(x, a)
  BY MicPausedGate DEF SameGate
<1> HIDE DEF a
<1>2. SameGate(a, b)
  BY <1>1, ExpectingGate DEF SameGate
<1> HIDE DEF b
<1>3. state \in {"listening", "idle"}
  OBVIOUS
<1> HIDE DEF state
<1>4. SameGate(x, y)
  BY <1>1, <1>2, <1>3 DEF SameGate, Session
<1>5. Told(x, m) = IF ~m.current \/ Over(x) \/ ~x.owns THEN x ELSE y
  BY DEF Told, a, b, state
<1> HIDE DEF y
<1> QED
  BY <1>4, <1>5 DEF SameGate

LEMMA TellingGate ==
    ASSUME NEW x \in Session, NEW t \in Turns \cup {NoTurn},
           NEW resolved \in BOOLEAN, NEW followUp \in BOOLEAN, NEW resume \in BOOLEAN
    PROVE  SameGate(x, Telling(x, t, resolved, followUp, resume))
<1> DEFINE y == Telling(x, t, resolved, followUp, resume)
           e == Expecting(x, TRUE)
           new == [turn |-> t, followUp |-> followUp, resume |-> resume,
                   gen |-> x.gen, latest |-> TRUE, current |-> TRUE]
           tell == [turn |-> t, resolved |-> resolved, followUp |-> followUp]
<1>1. SameGate(x, e)
  BY ExpectingGate
<1>2. y = x \/ y = [e EXCEPT !.sends = @ \cup {new}, !.told = Append(@, tell)]
  BY DEF Telling
<1>3. y \in Session
  <2>1. IF Over(x) \/ ~x.owns THEN y = x ELSE Tells(x, y, t)
    BY TellingTells
  <2> HIDE DEF y
  <2> QED
    BY <2>1 DEF Tells, SameTurns
<1> HIDE DEF y, e, new, tell
<1>4. SameGate(x, y)
  BY <1>1, <1>2, <1>3 DEF SameGate, Session
<1> QED
  BY <1>4 DEF y

LEMMA DrainedGate ==
    ASSUME NEW x \in Session
    PROVE  SameGate(x, Drained(x))
<1> DEFINE y == Drained(x)
<1>1. y \in Session /\ y.gen = x.gen
  BY DrainedDrains DEF Drains, Pops, Tells, SameTurns
<1>2. CASE ~Ready(x)
  BY <1>2 DEF Drained, SameGate
<1>3. CASE Ready(x) /\ x.owns
  <2> DEFINE front == Head(x.pending)
             p == [Released(x, front.turn) EXCEPT !.pending = Tail(@), !.barged = FALSE]
             followUp == front.followUp \/ x.barged
  <2>1. x.pending # <<>> /\ front.turn \in x.drained /\ x.pending \in Seq(End)
    BY <1>3 DEF Ready, Session
  <2>2. p \in Session /\ front \in End
    BY <2>1, PopsOne, TailFacts DEF Pops
  <2>3. p.awaiting = x.awaiting /\ p.gen = x.gen
    BY DEF Released, Session
  <2>4. y = Telling(p, front.turn, front.followUp, followUp, FALSE)
    BY <1>3 DEF Drained
  <2>5. front.turn \in Turns \cup {NoTurn} /\ front.followUp \in BOOLEAN /\ followUp \in BOOLEAN
    BY <2>2 DEF End, Session
  <2> HIDE DEF p, front, y, followUp
  <2>6. SameGate(p, y)
    BY <2>2, <2>4, <2>5, TellingGate
  <2>7. SameGate(x, y)
    BY <2>3, <2>6 DEF SameGate
  <2> QED
    BY <2>7 DEF y
<1>4. CASE Ready(x) /\ ~x.owns
  <2> DEFINE blocked == {i \in 1 .. Len(x.pending) : x.pending[i].turn \notin x.drained}
             n == IF blocked = {} THEN Len(x.pending)
                                  ELSE (CHOOSE i \in blocked : \A j \in blocked : i <= j) - 1
             gone == {x.pending[i].turn : i \in 1 .. n}
             q == SubSeq(x.pending, n + 1, Len(x.pending))
             dr == x.drained \ gone
             md == {r \in x.media : r.turn \notin gone}
  <2>1. y = [x EXCEPT !.pending = q, !.drained = dr, !.media = md]
    BY <1>4 DEF Drained
  <2> HIDE DEF q, dr, md, y
  <2>2. SameGate(x, y)
    BY <1>1, <2>1 DEF SameGate, Session
  <2> QED
    BY <2>2 DEF y
<1> QED
  BY <1>2, <1>3, <1>4

LEMMA GateStep ==
    ASSUME TurnsInv, [Next]_vars, s.awaiting, Owed(s, context, llm)
    PROVE  ~s'.awaiting \/ Over(s') \/ Owed(s', context', llm')
<1>1. s \in Session /\ llm \in Service
  BY DEF TurnsInv, TypeOK
<1>2. ASSUME s'.gen = s.gen, context = "turn" => context' = "turn", llm' = llm PROVE Owed(s', context', llm')
  BY <1>2 DEF Owed
<1>3. ~SpeechStarts /\ ~SpeechUnavailable
  BY DEF SpeechStarts, SpeechUnavailable, Suppressed
<1>4. CASE Transcribed \/ Segment \/ Plays \/ Silence \/ DebounceEnds \/ WriteFails \/ LosesControl
           \/ \E a \in Agents : SelectAgent(a)
  <2>1. s'.gen = s.gen /\ (context = "turn" => context' = "turn")
    BY <1>1, <1>4 DEF Session, Transcribed, Segment, Plays, Silence, DebounceEnds, WriteFails, LosesControl,
                      SelectAgent
  <2>2. llm'.turn = llm.turn /\ (llm.stage # "idle" => llm'.stage # "idle")
    BY <1>1, <1>4 DEF Service, Transcribed, Segment, Plays, Silence, DebounceEnds, WriteFails, LosesControl,
                      SelectAgent
  <2> QED
    BY <2>1, <2>2 DEF Owed
<1>5. CASE ReplyEnds \/ ReplyFails
  <2>1. s' = s /\ context' = context /\ llm'.turn = llm.turn /\ llm'.stage # "idle"
    BY <1>1, <1>5 DEF ReplyEnds, ReplyFails, Ends, Service
  <2> QED
    BY <2>1 DEF Owed
<1>6. CASE Unheard
  <2>1. context = "none" /\ s' = s /\ llm' = llm
    BY <1>6 DEF Unheard, TurnsInv, Keeps, Past
  <2> QED
    BY <1>2, <2>1
<1>7. ~Skips
  BY DEF Skips, Owed
<1>8. CASE Takes
  <2>1. CASE s.closed
    BY <1>8, <2>1 DEF Takes, Over
  <2>2. CASE s' = Closing(s)
    BY <1>1, <2>2 DEF Closing, Session, Over
  <2>3. CASE /\ s' = [s EXCEPT !.media = @ \cup {[turn |-> s.gen, agent |-> agent]}]
             /\ llm' = [Idle EXCEPT !.turn = s.gen, !.stage = "waiting"]
    BY <1>1, <2>3 DEF Session, Idle, Owed
  <2> QED
    BY <1>8, <2>1, <2>2, <2>3 DEF Takes
<1>9. CASE Completes
  <2>1. CASE Over(s)
    BY <1>9, <2>1 DEF Completes, Completed
  <2>2. CASE ~Over(s)
    <3> DEFINE current == (llm.turn = s.gen)
               hasAudio == (llm.stage = "ended" /\ llm.segments > 0)
               awaiting == s.awaiting /\ ~current
               active == s.active /\ ~current
               timer == s.timer \/ (hasAudio /\ ~s.speaking)
               y == [s EXCEPT !.awaiting = awaiting, !.active = active, !.timer = timer]
               q == Append(y.pending, [turn |-> llm.turn, followUp |-> llm.followUp])
               z == [y EXCEPT !.pending = q]
    <3>1. s' = Drained(z) /\ context' = context /\ llm.stage # "idle"
      BY <1>9, <2>2 DEF Completes, Completed, Queued
    <3>2. z \in Session
      <4>1. Flagged(s, y)
        BY <1>1, GatesFlagged
      <4> HIDE DEF y
      <4>2. Keeps(y, user, context, llm, out)
        BY <1>1, <4>1, FlaggedKin, KinKeeps DEF TurnsInv
      <4>3. Keeps(z, user, context, Idle, out)
        BY <1>9, <4>2, QueuedKeeps DEF Completes, TurnsInv, TypeOK
      <4> QED
        BY <4>3 DEF Keeps
    <3>3. current => ~awaiting
      OBVIOUS
    <3> HIDE DEF awaiting, active, timer, q
    <3>4. z.awaiting = awaiting
      BY <1>1 DEF Session
    <3> HIDE DEF z
    <3>5. s'.awaiting = awaiting
      BY <3>1, <3>2, <3>4, DrainedGate DEF SameGate
    <3> QED
      BY <3>1, <3>3, <3>5 DEF Owed
  <2> QED
    BY <2>1, <2>2
<1>10. CASE MarkerPasses
  <2> DEFINE t == Head(out).turn
             y == [s EXCEPT !.drained = @ \cup {t}]
  <2>1. (s' = s \/ s' = Drained(y)) /\ context' = context /\ llm' = llm
    BY <1>10 DEF MarkerPasses
  <2>2. Keeps(y, user, context, llm, Tail(out))
    BY <1>10, MarkerKeeps DEF MarkerPasses, TurnsInv, TypeOK
  <2> HIDE DEF t
  <2>3. y.gen = s.gen
    BY <1>1 DEF Session
  <2> HIDE DEF y
  <2>4. s'.gen = s.gen
    BY <2>1, <2>2, <2>3, DrainedGate DEF Keeps, SameGate
  <2> QED
    BY <1>2, <2>1, <2>4
<1>11. ASSUME NEW m \in s.sends, SendReturns(m) PROVE Owed(s', context', llm')
  <2> DEFINE x == [s EXCEPT !.sends = @ \ {m}]
  <2>1. m \in Send /\ x \in Session /\ x.gen = s.gen
    BY <1>1 DEF Session
  <2>2. PICK y \in {x, Told(x, m)} : s' \in {y, Drained(y)}
    BY <1>11 DEF SendReturns
  <2> HIDE DEF x
  <2>3. SameGate(x, y)
    BY <2>1, <2>2, ToldGate DEF SameGate
  <2>4. SameGate(y, s')
    BY <2>2, <2>3, DrainedGate DEF SameGate
  <2>5. context' = context /\ llm' = llm
    BY <1>11 DEF SendReturns
  <2> QED
    BY <1>2, <2>1, <2>3, <2>4, <2>5 DEF SameGate
<1>12. ASSUME NEW b \in BOOLEAN, Pauses(b) \/ PromptEnds(b) PROVE Owed(s', context', llm')
  <2>1. context' = context /\ llm' = llm
    BY <1>12 DEF Pauses, PromptEnds
  <2>2. SameGate(s, s')
    BY <1>1, <1>12, MicPausedGate, TellingGate DEF Pauses, PromptEnds
  <2> QED
    BY <1>2, <2>1, <2>2 DEF SameGate
<1>13. CASE Closes \/ PeerLost \/ EndTold
  BY <1>1, <1>13 DEF Closes, PeerLost, EndTold, Closing, Ending, Session, Over
<1>14. CASE Down
  <2>1. s'.closed = s.closed
    BY <1>1, <1>14 DEF Down, Session
  <2> QED
    BY <1>14, <2>1 DEF Down, Over
<1>15. CASE UNCHANGED vars
  BY <1>2, <1>15 DEF vars
<1> QED
  BY <1>3, <1>4, <1>5, <1>6, <1>7, <1>8, <1>9, <1>10, <1>11, <1>12, <1>13, <1>14, <1>15
     DEF Next, LLMStep, OutputStep, ControlStep

\* While the PROCESSING gate holds the microphone, the transcript it waits for is never lost:
\* no interruption, skip, end of another turn or late send drops it, so that only the release
\* or the end of the session ends the duty to answer (on_llm_transcript and
\* _on_turn_complete).  RoutedTurnsRelease adds, under fairness, that the duty is met.
THEOREM GateAlwaysOwed == Spec => GateIsOwed
<1>1. TurnsInv /\ [Next]_vars
        => [s.awaiting /\ Owed(s, context, llm) => ~s'.awaiting \/ Over(s') \/ Owed(s', context', llm')]_vars
  BY GateStep
<1> QED
  BY <1>1, TurnsInvariant, PTL DEF Spec, GateIsOwed
=============================================================================
