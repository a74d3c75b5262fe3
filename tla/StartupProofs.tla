----------------------------- MODULE StartupProofs -----------------------------
(***************************************************************************)
(* StartupAudio for every budget, drift and number of packets and frames.  *)
(* The order of what is heard needs, for every place of the drain task, to *)
(* know how much has been heard and which frames the queue holds.          *)
(***************************************************************************)
EXTENDS StartupAudio, SequenceTheorems, TLAPS

\* The queue holds the last Len(rtp) frames that arrived, in order.
QueueInOrder ==
    /\ Len(rtp) <= arrived
    /\ ~closed => \A k \in 1 .. Len(rtp) : rtp[k] = Piece("rtp", arrived - Len(rtp) + k)

\* How far the drain task is.
DrainPlace ==
    /\ drain # "none" => complete
    /\ drain \in {"none", "starting"} => Len(heard) = 0 /\ fed = 0
    /\ fed <= accepted
    /\ drained => drain = "over"
    /\ ~closed =>
          /\ drain \in {"none", "starting", "ws"} => Len(rtp) = arrived
          /\ drain = "ws" => Len(heard) = fed
          /\ drain = "rtp" => fed = accepted /\ Len(heard) = accepted + arrived - Len(rtp)
          /\ drain = "over" => drained /\ Len(heard) = accepted + arrived /\ Len(rtp) = 0

StartupInv == TypeOK /\ QueueInOrder /\ DrainPlace /\ HeardInOrder

LEMMA StartupInit == Init => StartupInv
<1>1. <<>> \in Seq(Pieces) /\ Len(<<>>) = 0
  BY EmptySeq
<1>2. Init => TypeOK
  <2> SUFFICES ASSUME Init PROVE TypeOK
    OBVIOUS
  <2>1. rtp \in Seq(Pieces) /\ heard \in Seq(Pieces)
    BY <1>1 DEF Init
  <2>2. /\ accepted \in Nat /\ arrived \in Nat /\ fed \in Nat /\ pcm \in Int
        /\ charged \in Int
    BY DEF Init
  <2>3. /\ closed \in BOOLEAN /\ complete \in BOOLEAN /\ bound \in BOOLEAN
        /\ ready \in BOOLEAN /\ drained \in BOOLEAN
    BY Zenon DEF Init
  <2> QED
    BY <2>1, <2>2, <2>3, Zenon DEF Init, TypeOK
<1>3. Init => QueueInOrder /\ HeardInOrder
  BY <1>1 DEF Init, QueueInOrder, HeardInOrder
<1>4. Init => DrainPlace
  BY <1>1 DEF Init, DrainPlace
<1> QED
  BY <1>2, <1>3, <1>4 DEF StartupInv

\* Closing, with or without a report, empties the queue and leaves what was heard.
LEMMA CloseInv ==
  ASSUME StartupInv, NEW task, task \in {Cancelled, drain, "over"}, CloseAnd(task),
         task = "over" => drain # "none"
  PROVE  StartupInv'
<1> USE DEF StartupInv, CloseAnd, counts
<1>1. TypeOK'
  BY DEF TypeOK, Cancelled
<1>2. QueueInOrder' /\ HeardInOrder'
  BY DEF TypeOK, QueueInOrder, HeardInOrder
<1>3. DrainPlace'
  BY DEF TypeOK, DrainPlace, Cancelled
<1> QED
  BY <1>1, <1>2, <1>3

\* The three conditions of the drain may come in any order.
LEMMA FlagInv ==
  ASSUME StartupInv, NEW done \in BOOLEAN, NEW consumer \in BOOLEAN, NEW provider \in BOOLEAN,
         MaybeDrain(done, consumer, provider), done => complete', complete => complete',
         complete' \in BOOLEAN, bound' \in BOOLEAN, ready' \in BOOLEAN,
         UNCHANGED <<closed, drained, counts, rtp, charged, heard>>
  PROVE  StartupInv'
<1> USE DEF StartupInv, counts
<1>1. TypeOK'
  BY DEF TypeOK, MaybeDrain
<1>2. QueueInOrder' /\ HeardInOrder'
  BY DEF TypeOK, QueueInOrder, HeardInOrder
<1>3. DrainPlace'
  BY DEF TypeOK, DrainPlace, MaybeDrain
<1> QED
  BY <1>1, <1>2, <1>3

\* The drain task runs on after it has handed over everything up to fed, and the frames
\* before the queue.
LEMMA RunOnInv ==
  ASSUME StartupInv, NEW ch \in Int, RunOn(fed, ch), pcm' \in Int,
         drain \in {"starting", "ws", "rtp"}
  PROVE  StartupInv'
<1> USE DEF StartupInv
<1>1. CASE Stopped(ch)
  <2>1. TypeOK'
    BY <1>1 DEF RunOn, Stopped, TypeOK
  <2>2. QueueInOrder' /\ HeardInOrder'
    BY <1>1 DEF RunOn, Stopped, TypeOK, QueueInOrder, HeardInOrder
  <2>3. DrainPlace'
    BY <1>1 DEF RunOn, Stopped, TypeOK, DrainPlace
  <2> QED
    BY <2>1, <2>2, <2>3
<1>2. CASE FeedWs(fed, ch)
  <2>0. Piece("ws", fed + 1) \in Pieces
    BY DEF TypeOK, Piece, Pieces
  <2>1. TypeOK'
    BY <1>2, <2>0 DEF RunOn, FeedWs, TypeOK
  <2>2. QueueInOrder'
    BY <1>2 DEF RunOn, FeedWs, TypeOK, QueueInOrder
  <2>3. drain \in {"starting", "ws"} /\ Len(heard) = fed
    BY <1>2 DEF FeedWs, TypeOK, DrainPlace
  <2>4. DrainPlace'
    BY <1>2, <2>3 DEF RunOn, FeedWs, TypeOK, DrainPlace
  <2>5. HeardInOrder'
    BY <1>2, <2>0, <2>3 DEF RunOn, FeedWs, TypeOK, HeardInOrder
  <2> QED
    BY <2>1, <2>2, <2>4, <2>5
<1>3. CASE FeedRtp(fed, ch)
  <2>1. Len(heard) = accepted + arrived - Len(rtp) /\ Len(rtp) \in Nat \ {0} /\ Len(rtp) <= arrived
    <3>1. Len(rtp) \in Nat \ {0} /\ Len(rtp) <= arrived
      BY <1>3, EmptySeq DEF FeedRtp, TypeOK, QueueInOrder
    <3>2. ~closed /\ fed = accepted /\ fed \in Nat /\ arrived \in Nat /\ Len(heard) \in Nat
      BY <1>3 DEF FeedRtp, TypeOK
    <3>3. CASE drain = "starting"
      BY <3>1, <3>2, <3>3 DEF DrainPlace
    <3>4. CASE drain = "ws"
      BY <3>1, <3>2, <3>4 DEF DrainPlace
    <3>5. CASE drain = "rtp"
      BY <3>1, <3>2, <3>5 DEF DrainPlace
    <3> QED
      BY <3>1, <3>3, <3>4, <3>5
  <2>2. Head(rtp) = Piece("rtp", arrived - Len(rtp) + 1) /\ Head(rtp) \in Pieces
    BY <1>3, <2>1 DEF FeedRtp, TypeOK, QueueInOrder
  <2>3. /\ Tail(rtp) \in Seq(Pieces) /\ Len(Tail(rtp)) = Len(rtp) - 1
        /\ \A k \in 1 .. Len(rtp) - 1 : Tail(rtp)[k] = rtp[k + 1]
    BY <1>3 DEF FeedRtp, TypeOK
  <2>4. TypeOK'
    BY <1>3, <2>2, <2>3 DEF RunOn, FeedRtp, TypeOK
  <2>5. QueueInOrder'
    <3>1. ASSUME NEW k \in 1 .. Len(rtp) - 1
          PROVE  Tail(rtp)[k] = Piece("rtp", arrived - (Len(rtp) - 1) + k)
      BY <1>3, <2>1, <2>3 DEF FeedRtp, TypeOK, QueueInOrder
    <3> QED
      BY <1>3, <2>1, <2>3, <3>1 DEF RunOn, FeedRtp, TypeOK, QueueInOrder
  <2>6. /\ Len(heard') = Len(heard) + 1 /\ heard'[Len(heard) + 1] = Head(rtp)
        /\ \A i \in 1 .. Len(heard) : heard'[i] = heard[i]
    BY <1>3, <2>2 DEF FeedRtp, TypeOK
  <2>7. DrainPlace'
    <3>1. /\ drain' = "rtp" /\ ~closed' /\ fed' = accepted' /\ accepted' = accepted /\ arrived' = arrived
          /\ Len(rtp') = Len(rtp) - 1 /\ accepted \in Nat /\ arrived \in Nat /\ Len(heard) \in Nat
      BY <1>3, <2>3 DEF RunOn, FeedRtp, TypeOK
    <3>2. complete' /\ ~drained'
      BY <1>3 DEF RunOn, FeedRtp, TypeOK, DrainPlace
    <3> QED
      BY <2>1, <2>6, <3>1, <3>2 DEF DrainPlace
  <2>8. HeardInOrder'
    <3>1. /\ accepted' = accepted /\ accepted \in Nat /\ arrived \in Nat /\ Len(heard) \in Nat
          /\ DOMAIN heard = 1 .. Len(heard) /\ DOMAIN heard' = 1 .. Len(heard) + 1
      BY <1>3, <2>4, <2>6 DEF RunOn, FeedRtp, TypeOK
    <3>2. Head(rtp) = Piece("rtp", Len(heard) + 1 - accepted) /\ ~(Len(heard) + 1 <= accepted)
      BY <2>1, <2>2, <3>1
    <3> SUFFICES ASSUME NEW i \in 1 .. Len(heard) + 1
                 PROVE  heard'[i] = IF i <= accepted THEN Piece("ws", i) ELSE Piece("rtp", i - accepted)
      BY <3>1 DEF HeardInOrder
    <3>3. CASE i = Len(heard) + 1
      BY <2>6, <3>1, <3>2, <3>3
    <3>4. CASE i \in 1 .. Len(heard)
      BY <2>6, <3>1, <3>4 DEF HeardInOrder
    <3> QED
      BY <3>1, <3>3, <3>4
  <2> QED
    BY <2>4, <2>5, <2>7, <2>8
<1>4. CASE CutOver(fed, ch)
  <2>1. TypeOK'
    BY <1>4 DEF RunOn, CutOver, TypeOK
  <2>2. QueueInOrder' /\ HeardInOrder'
    BY <1>4 DEF RunOn, CutOver, TypeOK, QueueInOrder, HeardInOrder
  <2>3. DrainPlace'
    BY <1>4 DEF RunOn, CutOver, TypeOK, DrainPlace
  <2> QED
    BY <2>1, <2>2, <2>3
<1> QED
  BY <1>1, <1>2, <1>3, <1>4 DEF RunOn

LEMMA StartupStep == StartupInv /\ [Next]_vars => StartupInv'
<1> SUFFICES ASSUME StartupInv, [Next]_vars PROVE StartupInv'
  OBVIOUS
<1> USE StartupConstants
<1>1. CASE Close
  BY <1>1, CloseInv DEF Close, StartupInv, TypeOK, Cancelled
<1>2. CASE CloseInside
  BY <1>2, CloseInv DEF CloseInside, StartupInv, TypeOK
<1>3. ASSUME Fail(Cancelled) PROVE StartupInv'
  BY <1>3, CloseInv DEF Fail, StartupInv, TypeOK, Cancelled
<1>4. ASSUME NEW seq \in 0 .. SEQ - 1, NEW wellFormed \in BOOLEAN, AppendWs(seq, wellFormed)
      PROVE  StartupInv'
  <2>1. TypeOK'
    BY <1>4 DEF StartupInv, AppendWs, TypeOK, flags
  <2>2. drain = "none" /\ Len(heard) = 0
    BY <1>4 DEF StartupInv, AppendWs, TypeOK, DrainPlace
  <2>3. QueueInOrder' /\ HeardInOrder'
    BY <1>4, <2>2 DEF StartupInv, AppendWs, TypeOK, QueueInOrder, HeardInOrder, flags
  <2>4. DrainPlace'
    BY <1>4, <2>2 DEF StartupInv, AppendWs, TypeOK, DrainPlace, flags
  <2> QED
    BY <2>1, <2>3, <2>4 DEF StartupInv
<1>5. CASE PassRtp
  <2>1. Piece("rtp", arrived + 1) \in Pieces /\ Len(rtp) = 0 /\ Len(heard) = accepted + arrived
    BY <1>5, EmptySeq DEF StartupInv, PassRtp, Live, TypeOK, Piece, Pieces, DrainPlace
  <2>2. TypeOK'
    BY <1>5, <2>1 DEF StartupInv, PassRtp, TypeOK, flags
  <2>3. QueueInOrder' /\ DrainPlace'
    BY <1>5, <2>1 DEF StartupInv, PassRtp, Live, TypeOK, QueueInOrder, DrainPlace, flags
  <2>4. HeardInOrder'
    BY <1>5, <2>1 DEF StartupInv, PassRtp, TypeOK, HeardInOrder, flags
  <2> QED
    BY <2>2, <2>3, <2>4 DEF StartupInv
<1>6. CASE AppendRtp
  <2>1. Piece("rtp", arrived + 1) \in Pieces
    BY DEF StartupInv, TypeOK, Piece, Pieces
  <2>2. TypeOK'
    BY <1>6, <2>1 DEF StartupInv, AppendRtp, TypeOK, flags
  <2>3. QueueInOrder' /\ HeardInOrder'
    <3>1. /\ Len(rtp') = Len(rtp) + 1 /\ rtp'[Len(rtp) + 1] = Piece("rtp", arrived + 1)
          /\ \A k \in 1 .. Len(rtp) : rtp'[k] = rtp[k]
      BY <1>6, <2>1 DEF StartupInv, AppendRtp, TypeOK
    <3>2. QueueInOrder'
      <4>1. /\ arrived' = arrived + 1 /\ arrived \in Nat /\ Len(rtp) \in Nat /\ ~closed /\ ~closed'
            /\ Len(rtp) <= arrived
        BY <1>6 DEF StartupInv, AppendRtp, TypeOK, QueueInOrder, flags
      <4>2. ASSUME NEW k \in 1 .. Len(rtp) + 1
            PROVE  rtp'[k] = Piece("rtp", arrived' - Len(rtp') + k)
        <5>1. arrived' - Len(rtp') + k = arrived - Len(rtp) + k
          BY <3>1, <4>1
        <5>2. CASE k = Len(rtp) + 1
          <6>1. arrived - Len(rtp) + k = arrived + 1
            BY <4>1, <5>2
          <6> QED
            BY <3>1, <5>1, <5>2, <6>1
        <5>3. CASE k \in 1 .. Len(rtp)
          BY <3>1, <4>1, <5>1, <5>3 DEF StartupInv, QueueInOrder
        <5> QED
          BY <4>1, <5>2, <5>3
      <4> QED
        BY <3>1, <4>1, <4>2 DEF QueueInOrder
    <3> QED
      BY <1>6, <3>2 DEF StartupInv, AppendRtp, HeardInOrder
  <2>4. DrainPlace'
    <3>1. Len(rtp) \in Nat /\ Len(rtp') = Len(rtp) + 1
      BY <1>6, <2>1 DEF StartupInv, AppendRtp, TypeOK
    <3>2. /\ ~closed /\ ~drained /\ arrived \in Nat /\ arrived' = arrived + 1
          /\ UNCHANGED <<closed, complete, drained, accepted, fed, drain, heard>>
      BY <1>6 DEF StartupInv, AppendRtp, Live, TypeOK, flags
    <3>3. /\ accepted \in Nat /\ drain \in {"none", "starting", "ws", "rtp", "over"}
          /\ DrainPlace
      BY DEF StartupInv, TypeOK
    <3>4. accepted + (arrived + 1) - (Len(rtp) + 1) = accepted + arrived - Len(rtp)
      BY <3>1, <3>2, <3>3
    <3> QED
      BY <3>1, <3>2, <3>3, <3>4 DEF DrainPlace
  <2> QED
    BY <2>2, <2>3, <2>4 DEF StartupInv
<1>7. ASSUME NEW next \in 0 .. SEQ - 1, FinishWs(next) PROVE StartupInv'
  BY <1>7, FlagInv DEF FinishWs, StartupInv, TypeOK
<1>8. CASE Bind
  BY <1>8, FlagInv DEF Bind, StartupInv, TypeOK
<1>9. CASE Ready
  BY <1>9, FlagInv DEF Ready, StartupInv, TypeOK
<1>10. ASSUME NEW size \in 0 .. MAX + Drift, Resampled(size) PROVE StartupInv'
  <2>1. fed = 0 /\ charged \in Int /\ pcm' \in Int
    BY <1>10 DEF Resampled, StartupInv, TypeOK, DrainPlace
  <2> QED
    BY <1>10, <2>1, RunOnInv DEF Resampled
<1>11. CASE Consumed
  <2>1. charged - Refund \in Int /\ pcm' \in Int
    BY <1>11 DEF Consumed, StartupInv, TypeOK, Refund
  <2> QED
    BY <1>11, <2>1, RunOnInv DEF Consumed
<1>12. CASE DrainFails
  BY <1>12, CloseInv DEF DrainFails, Fail, StartupInv, TypeOK
<1>13. CASE UNCHANGED vars
  BY <1>13 DEF vars, flags, counts, StartupInv, TypeOK, QueueInOrder, DrainPlace, HeardInOrder
<1> QED
  BY <1>1, <1>2, <1>3, <1>4, <1>5, <1>6, <1>7, <1>8, <1>9, <1>10, <1>11, <1>12, <1>13
     DEF Next, SessionFails, Timeout, RefuseWs, RefuseRtp, RefuseFinish

\* Audio of a cold wake reaches the consumer in order, whatever interleaves (_drain).
THEOREM OrderKept == Spec => []HeardInOrder
<1>1. StartupInv => HeardInOrder
  BY DEF StartupInv
<1> QED
  BY <1>1, StartupInit, StartupStep, PTL DEF Spec

-----------------------------------------------------------------------------
(***************************************************************************)
(* The budget.  The early frames cost COST each.  The socket's audio is    *)
(* charged packet by packet and given back as the length of its resampled  *)
(* whole, which may be Drift more: that much may be missing afterwards.    *)
(***************************************************************************)
Charge ==
    /\ charged <= MAX /\ pcm >= 0
    /\ ~closed =>
          /\ drain \in {"none", "starting", "ws"} => charged = accepted * COST + Len(rtp) * COST
          /\ drain = "ws" => pcm <= accepted * COST + Drift
          /\ drain = "rtp" => charged + Drift >= Len(rtp) * COST + COST
          /\ drain = "over" => fed = accepted

LEMMA OneMore == ASSUME NEW n \in Nat, NEW c \in Nat PROVE (n + 1) * c = n * c + c
OBVIOUS

LEMMA Cost == COST \in Nat /\ Drift \in Nat /\ MAX \in Nat
BY StartupConstants

\* What a run of the drain task leaves, from what was charged before it ran on.
LEMMA RunOnCharge ==
  ASSUME StartupInv, NEW n \in Nat, NEW ch \in Int, n = fed, RunOn(n, ch), ch <= MAX,
         pcm' \in Int, pcm' >= 0,
         ~closed /\ n < accepted =>
             ch = accepted * COST + Len(rtp) * COST /\ pcm' <= accepted * COST + Drift,
         ~closed /\ n = accepted => ch + Drift >= Len(rtp) * COST
  PROVE  Charge'
<1>1. accepted' = accepted /\ closed' = closed /\ charged' = ch
  BY DEF RunOn, Stopped, FeedWs, FeedRtp, CutOver
<1>2. CASE closed
  BY <1>1, <1>2 DEF Charge
<1>3. CASE ~closed /\ n < accepted
  <2>1. drain' = "ws" /\ rtp' = rtp
    BY <1>3 DEF RunOn, Stopped, FeedWs, FeedRtp, CutOver, StartupInv, TypeOK
  <2> QED
    BY <1>1, <1>3, <2>1 DEF Charge
<1>4. CASE ~closed /\ n = accepted /\ rtp # <<>>
  <2>1. drain' = "rtp" /\ rtp' = Tail(rtp)
    BY <1>4 DEF RunOn, Stopped, FeedWs, FeedRtp, CutOver, StartupInv, TypeOK
  <2>2. Len(rtp') \in Nat /\ Len(rtp) = Len(rtp') + 1
    BY <1>4, <2>1 DEF StartupInv, TypeOK
  <2>3. Len(rtp) * COST = Len(rtp') * COST + COST
    BY <2>2, OneMore, Cost
  <2> QED
    BY <1>1, <1>4, <2>1, <2>3 DEF Charge
<1>5. CASE ~closed /\ n = accepted /\ rtp = <<>>
  <2>1. drain' = "over" /\ fed' = fed
    BY <1>5 DEF RunOn, Stopped, FeedWs, FeedRtp, CutOver, StartupInv, TypeOK
  <2> QED
    BY <1>1, <1>5, <2>1 DEF Charge
<1> QED
  BY <1>2, <1>3, <1>4, <1>5 DEF RunOn, Stopped, FeedWs, FeedRtp, CutOver

LEMMA ChargeStep == StartupInv /\ Charge /\ [Next]_vars => Charge'
<1> SUFFICES ASSUME StartupInv, Charge, [Next]_vars PROVE Charge'
  OBVIOUS
<1>0. /\ accepted \in Nat /\ fed \in Nat /\ pcm \in Int /\ charged \in Int /\ Len(rtp) \in Nat
      /\ drain \in {"none", "starting", "ws", "rtp", "over"}
  BY DEF StartupInv, TypeOK
<1>1. ASSUME NEW task, CloseAnd(task) PROVE Charge'
  BY <1>1, Cost DEF CloseAnd, counts, Charge
<1>2. ASSUME NEW seq \in 0 .. SEQ - 1, NEW wellFormed \in BOOLEAN, AppendWs(seq, wellFormed)
      PROVE  Charge'
  <2>1. ~closed /\ drain = "none" /\ drain' = drain
    BY <1>2, <1>0 DEF StartupInv, AppendWs, DrainPlace
  <2>2. /\ accepted' = accepted + 1 /\ charged' = charged + COST /\ charged' <= MAX
        /\ rtp' = rtp /\ pcm' = pcm
    BY <1>2 DEF AppendWs, Fits
  <2>3. accepted' * COST = accepted * COST + COST
    BY <1>0, <2>2, OneMore, Cost
  <2> QED
    BY <1>0, <2>1, <2>2, <2>3, Cost DEF Charge
<1>3. CASE PassRtp
  <2>1. drain = "over" /\ UNCHANGED <<drain, pcm, charged, fed, accepted, closed>>
    BY <1>3 DEF PassRtp, Live, flags, StartupInv, DrainPlace
  <2> QED
    BY <2>1 DEF Charge
<1>4. CASE AppendRtp
  <2>1. /\ charged' = charged + COST /\ charged' <= MAX
        /\ UNCHANGED <<closed, accepted, fed, pcm, drain>>
    BY <1>4 DEF AppendRtp, Fits, flags
  <2>2. Len(rtp') = Len(rtp) + 1
    <3>1. Piece("rtp", arrived + 1) \in Pieces
      BY DEF StartupInv, TypeOK, Piece, Pieces
    <3> QED
      BY <1>4, <3>1 DEF AppendRtp, StartupInv, TypeOK
  <2>3. Len(rtp') * COST = Len(rtp) * COST + COST
    BY <1>0, <2>2, OneMore, Cost
  <2>4. accepted * COST \in Nat /\ Len(rtp) * COST \in Nat
    BY <1>0, Cost
  <2> QED
    BY <1>0, <2>1, <2>3, <2>4, Cost DEF Charge
<1>5. ASSUME NEW done, NEW consumer, NEW provider, MaybeDrain(done, consumer, provider),
             UNCHANGED <<closed, counts, rtp, charged>>
      PROVE  Charge'
  BY <1>5 DEF MaybeDrain, counts, Charge
<1>6. ASSUME NEW size \in 0 .. MAX + Drift, Resampled(size) PROVE Charge'
  <2>1. drain = "starting" /\ pcm' = size /\ RunOn(0, charged)
    BY <1>6 DEF Resampled
  <2>7. fed = 0
    BY <2>1 DEF StartupInv, DrainPlace
  <2>2. size \in Int /\ size >= 0 /\ (accepted # 0 => size <= accepted * COST + Drift)
    <3>1. accepted * COST \in Nat
      BY <1>0, Cost
    <3> QED
      BY <1>0, <1>6, <3>1, Cost DEF Resampled
  <2>3. ~closed => charged = accepted * COST + Len(rtp) * COST
    BY <2>1 DEF Charge
  <2>4. accepted = 0 => accepted * COST = 0
    BY Cost
  <2>5. Len(rtp) * COST \in Nat
    BY <1>0, Cost
  <2>6. ~closed /\ 0 = accepted => charged + Drift >= Len(rtp) * COST
    BY <1>0, <2>3, <2>4, <2>5, Cost
  <2> QED
    BY <1>0, <2>1, <2>2, <2>3, <2>6, <2>7, RunOnCharge DEF Charge
<1>7. CASE Consumed
  <2>1. drain \in {"ws", "rtp"} /\ RunOn(fed, charged - Refund) /\ pcm' = pcm
    BY <1>7 DEF Consumed
  <2>2. Refund \in Int /\ Refund >= 0
    BY <1>0, Cost DEF Refund, Charge
  <2>3. ~closed /\ fed < accepted
        => drain = "ws" /\ charged - Refund = accepted * COST + Len(rtp) * COST
    <3>1. ~closed /\ fed < accepted => drain = "ws" /\ Refund = 0
      BY <1>0, <2>1 DEF StartupInv, DrainPlace, Refund
    <3> QED
      BY <1>0, <3>1 DEF Charge
  <2>4. ~closed /\ fed = accepted => charged - Refund + Drift >= Len(rtp) * COST
    <3>1. accepted * COST \in Nat /\ Len(rtp) * COST \in Nat
      BY <1>0, Cost
    <3>2. CASE drain = "ws"
      <4>1. fed = accepted => Refund = pcm
        BY <3>2 DEF Refund
      <4>2. ~closed => charged = accepted * COST + Len(rtp) * COST /\ pcm <= accepted * COST + Drift
        BY <3>2 DEF Charge
      <4> QED
        BY <1>0, <3>1, <4>1, <4>2, Cost
    <3>3. CASE drain = "rtp"
      <4>1. Refund = COST
        BY <3>3 DEF Refund
      <4>2. ~closed => charged + Drift >= Len(rtp) * COST + COST
        BY <3>3 DEF Charge
      <4> QED
        BY <1>0, <3>1, <4>1, <4>2, Cost
    <3> QED
      BY <2>1, <3>2, <3>3
  <2>5. ~closed /\ fed < accepted => pcm <= accepted * COST + Drift
    BY <2>3 DEF Charge
  <2>6. charged - Refund \in Int /\ charged - Refund <= MAX /\ pcm' \in Int /\ pcm' >= 0
    BY <1>0, <2>1, <2>2, Cost DEF Charge
  <2> QED
    BY <1>0, <2>1, <2>3, <2>4, <2>5, <2>6, RunOnCharge
<1>8. CASE UNCHANGED vars
  BY <1>8 DEF vars, flags, counts, Charge
<1> QED
  BY <1>1, <1>2, <1>3, <1>4, <1>5, <1>6, <1>7, <1>8
     DEF Next, Close, CloseInside, SessionFails, Timeout, DrainFails, Fail, RefuseWs, RefuseRtp,
         FinishWs, RefuseFinish, Bind, Ready

LEMMA ChargeBounds == StartupInv /\ Charge => BufferBounded
<1> SUFFICES ASSUME StartupInv, Charge, ~closed
             PROVE  (accepted - fed + Len(rtp)) * COST <= MAX + Drift
  BY DEF BufferBounded
<1>0. /\ accepted \in Nat /\ fed \in Nat /\ charged \in Int /\ Len(rtp) \in Nat
      /\ drain \in {"none", "starting", "ws", "rtp", "over"} /\ charged <= MAX
  BY DEF StartupInv, TypeOK, Charge
<1>1. accepted * COST \in Nat /\ Len(rtp) * COST \in Nat /\ fed * COST \in Nat
  BY <1>0, Cost
<1>2. (accepted - fed + Len(rtp)) * COST = accepted * COST - fed * COST + Len(rtp) * COST
  BY <1>0, Cost
<1>3. CASE drain \in {"none", "starting", "ws"}
  <2>1. charged = accepted * COST + Len(rtp) * COST
    BY <1>3 DEF Charge
  <2> QED
    BY <1>0, <1>1, <1>2, <2>1, Cost
<1>4. CASE drain = "rtp"
  <2>1. fed = accepted /\ charged + Drift >= Len(rtp) * COST + COST
    BY <1>4 DEF Charge, StartupInv, DrainPlace
  <2> QED
    BY <1>0, <1>1, <1>2, <2>1, Cost
<1>5. CASE drain = "over"
  <2>1. fed = accepted /\ Len(rtp) = 0
    BY <1>5 DEF StartupInv, DrainPlace, Charge
  <2>2. accepted - fed + Len(rtp) = 0 /\ 0 * COST = 0
    BY <1>0, <2>1, Cost
  <2> QED
    BY <2>2, Cost
<1> QED
  BY <1>0, <1>3, <1>4, <1>5

\* Audio that waits stays within the budget, whatever it costs (_reserve, the refunds of _drain).
THEOREM WaitingFits == Spec => []BufferBounded
<1>1. Init => Charge
  <2>1. Len(<<>>) = 0 /\ 0 * COST = 0
    BY EmptySeq, Cost
  <2> QED
    BY <2>1, Cost DEF Init, Charge
<1> QED
  BY <1>1, StartupInit, StartupStep, ChargeStep, ChargeBounds, PTL DEF Spec

\* A closed wake is never heard again (close, and the checks of _closed after every await).
THEOREM ClosedStaysSilent == Spec => ClosedIsSilent
<1>1. ASSUME [Next]_vars, closed PROVE heard' = heard
  BY <1>1 DEF Next, Close, CloseInside, SessionFails, Timeout, DrainFails, Fail, CloseAnd, AppendWs,
     RefuseWs, PassRtp, Live, AppendRtp, RefuseRtp, FinishWs, RefuseFinish, Bind, Ready, Resampled,
     Consumed, RunOn, Stopped, FeedWs, FeedRtp, CutOver, vars, flags, counts
<1> QED
  BY <1>1, PTL DEF Spec, ClosedIsSilent

-----------------------------------------------------------------------------
\* Live input is not released over audio that still waits.
NothingLost == drained /\ ~closed => rtp = <<>> /\ Len(heard) = accepted + arrived

LEMMA CueStep == StartupInv /\ DrainOnCue /\ [Next]_vars => DrainOnCue'
<1> SUFFICES ASSUME StartupInv, DrainOnCue, [Next]_vars PROVE DrainOnCue'
  OBVIOUS
<1>0. drained => drain = "over"
  BY DEF StartupInv, DrainPlace
<1>1. ASSUME NEW task, CloseAnd(task) PROVE DrainOnCue'
  BY <1>1 DEF CloseAnd, DrainOnCue
<1>2. ASSUME UNCHANGED <<closed, complete, bound, ready, drain>> PROVE DrainOnCue'
  BY <1>2 DEF DrainOnCue
\* The caller that sets the last flag starts the task, and no other does.
<1>3. ASSUME MaybeDrain(complete', bound', ready'), closed' = closed,
             complete => complete', bound => bound', ready => ready'
      PROVE  DrainOnCue'
  BY <1>0, <1>3 DEF MaybeDrain, DrainOnCue
<1>4. ASSUME NEW n, NEW ch, RunOn(n, ch), drain # "none" PROVE DrainOnCue'
  BY <1>4 DEF RunOn, Stopped, FeedWs, FeedRtp, CutOver, DrainOnCue
<1>5. ASSUME NEW next, FinishWs(next) PROVE DrainOnCue'
  BY <1>3, <1>5 DEF FinishWs
<1>6. CASE Bind
  BY <1>3, <1>6 DEF Bind
<1>7. CASE Ready
  BY <1>3, <1>7 DEF Ready
<1>8. ASSUME NEW size, Resampled(size) PROVE DrainOnCue'
  BY <1>4, <1>8 DEF Resampled
<1>9. CASE Consumed
  BY <1>4, <1>9 DEF Consumed
<1>10. ASSUME NEW seq, NEW wellFormed, AppendWs(seq, wellFormed) PROVE DrainOnCue'
  BY <1>2, <1>10 DEF AppendWs, flags
<1>11. CASE PassRtp \/ AppendRtp \/ UNCHANGED vars
  BY <1>2, <1>11 DEF PassRtp, AppendRtp, vars, flags
<1> QED
  BY <1>1, <1>5, <1>6, <1>7, <1>8, <1>9, <1>10, <1>11
     DEF Next, Close, CloseInside, SessionFails, Timeout, DrainFails, Fail, RefuseWs, RefuseRtp,
         RefuseFinish

\* An open wake has its drain task exactly when all three conditions hold, whichever of
\* finish_ws, bind_consumer and mark_provider_ready came last: none of them is the one that
\* finds the others missing and leaves the audio waiting for the timer (_maybe_drain).
THEOREM DrainStarts == Spec => []DrainOnCue
<1>1. Init => DrainOnCue
  BY DEF Init, DrainOnCue
<1> QED
  BY <1>1, StartupInit, StartupStep, CueStep, PTL DEF Spec

\* When live input has been released, every packet and every frame taken in before and since
\* has been heard: the cutover discards nothing (_drain, append_rtp).
THEOREM CutOverLosesNothing == Spec => []NothingLost
<1>1. StartupInv => NothingLost
  BY EmptySeq DEF StartupInv, TypeOK, DrainPlace, NothingLost
<1> QED
  BY <1>1, StartupInit, StartupStep, PTL DEF Spec
=============================================================================
