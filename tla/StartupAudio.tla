----------------------------- MODULE StartupAudio -----------------------------
(***************************************************************************)
(* One cold wake's input (realtime/startup.py).  While WebRTC connects the *)
(* device sends its microphone over the socket; RTP frames may arrive at   *)
(* the same time.  Once the device has named the end of its socket audio   *)
(* and the provider is ready, a drain task feeds the socket's audio and    *)
(* then the early RTP frames to the consumer, and releases live input.     *)
(*                                                                         *)
(* Audio is counted in pieces: a packet, the chunk it becomes and an RTP   *)
(* frame each cost one COST of the byte budget.  Everything between two    *)
(* awaits of the drain task is one step.                                   *)
(***************************************************************************)
EXTENDS Integers, Sequences

CONSTANTS SEQ,       \* 0x10000, numbers of socket packets
          MAX,       \* MAX_AUDIO_SECONDS in bytes at 24 kHz
          COST,      \* bytes at 24 kHz of one piece
          Drift,     \* how far the resampler's length is from the exact ratio
          MaxRtp     \* bound: RTP frames that arrive

ASSUME StartupConstants ==
    /\ SEQ \in Nat \ {0} /\ MAX \in Nat /\ COST \in Nat \ {0}
    /\ Drift \in Nat /\ MaxRtp \in Nat

VARIABLES
    closed, complete, bound, ready, drained,   \* flags; bound: _consume is set
    accepted,   \* socket packets taken so far; next_seq is accepted % SEQ
    rtp,        \* _rtp
    arrived,    \* RTP frames taken or passed on so far
    charged,    \* _bytes_24k
    drain,      \* the drain task: none, starting, awaiting a consumed piece, over
    fed,        \* pieces of the socket's audio the drain task has handed over
    pcm,        \* length of the resampled socket audio
    heard       \* history: what reached the consumer

flags == <<closed, complete, bound, ready, drained>>
counts == <<accepted, arrived, fed, pcm>>
vars == <<flags, counts, rtp, charged, drain, heard>>

Piece(source, n) == [source |-> source, n |-> n]
Pieces == [source : {"ws", "rtp"}, n : Nat]

\* Flags, counters, queue and history have their types; the budget may dip below zero.
TypeOK ==
    /\ closed \in BOOLEAN /\ complete \in BOOLEAN /\ bound \in BOOLEAN
    /\ ready \in BOOLEAN /\ drained \in BOOLEAN
    /\ accepted \in Nat /\ arrived \in Nat /\ fed \in Nat /\ pcm \in Int
    /\ rtp \in Seq(Pieces) /\ heard \in Seq(Pieces)
    /\ charged \in Int
    /\ drain \in {"none", "starting", "ws", "rtp", "over"}

Init ==
    /\ closed = FALSE /\ complete = FALSE /\ bound = FALSE /\ ready = FALSE /\ drained = FALSE
    /\ accepted = 0 /\ arrived = 0 /\ fed = 0 /\ pcm = 0
    /\ rtp = <<>> /\ charged = 0 /\ drain = "none" /\ heard = <<>>

-----------------------------------------------------------------------------
\* close(): buffers are dropped; the drain task is cancelled, unless it is the caller.
CloseAnd(task) ==
    /\ closed' = TRUE
    /\ rtp' = <<>> /\ charged' = 0
    /\ drain' = task
    /\ UNCHANGED <<complete, bound, ready, drained, counts, heard>>

\* A drain task under way is cancelled; it ends at the await it is at.
Cancelled == IF drain = "none" THEN "none" ELSE "over"

\* fail(): only the first failure is reported.
Fail(task) ==
    /\ ~closed
    /\ CloseAnd(task)

\* The session around the startup could not be started (handle_offer).
SessionFails == Fail(Cancelled)

\* The session, the pipeline or a newer wake closes the startup.
Close == CloseAnd(Cancelled)

\* The same from inside the consumer, in the drain task itself.
CloseInside == drain \in {"ws", "rtp"} /\ CloseAnd(drain)

\* The timer runs until the startup is closed or drained.
Armed == ~closed /\ ~drained

Timeout == Armed /\ Fail(Cancelled)

\* _reserve: the piece is charged first and compared then.
Fits == charged + COST <= MAX

\* append_ws: any packet out of sequence, empty or of odd length ends the startup.
AppendWs(seq, wellFormed) ==
    /\ ~closed /\ ~complete
    /\ seq = accepted % SEQ /\ wellFormed
    /\ Fits
    /\ accepted' = accepted + 1
    /\ charged' = charged + COST
    /\ UNCHANGED <<flags, arrived, fed, pcm, rtp, drain, heard>>

RefuseWs(seq, wellFormed) ==
    /\ ~closed /\ ~complete
    /\ ~(seq = accepted % SEQ /\ wellFormed /\ Fits)
    /\ Fail(Cancelled)

\* Mutant of Live: a startup that was drained and then closed still passes frames on.
LiveWhenClosed == drained

\* append_rtp returns False: the frame goes straight to the consumer.
Live == ~closed /\ drained

PassRtp ==
    /\ Live
    /\ arrived < MaxRtp
    /\ arrived' = arrived + 1
    /\ heard' = Append(heard, Piece("rtp", arrived + 1))
    /\ UNCHANGED <<flags, accepted, fed, pcm, rtp, charged, drain>>

\* append_rtp returns True: the frame waits its turn, or ends the startup when it is too much.
AppendRtp ==
    /\ ~closed /\ ~Live
    /\ arrived < MaxRtp
    /\ Fits
    /\ arrived' = arrived + 1
    /\ rtp' = Append(rtp, Piece("rtp", arrived + 1))
    /\ charged' = charged + COST
    /\ UNCHANGED <<flags, accepted, fed, pcm, drain, heard>>

RefuseRtp ==
    /\ ~closed /\ ~Live
    /\ ~Fits
    /\ Fail(Cancelled)

-----------------------------------------------------------------------------
\* Mutant of MaybeDrain: the end of the socket's audio is not awaited.
MaybeDrainEarly(done, consumer, provider) ==
    drain' = IF ~closed /\ ~drained /\ consumer /\ provider /\ drain = "none"
             THEN "starting" ELSE drain

\* _maybe_drain: one drain task, once the last of the three conditions holds.
MaybeDrain(done, consumer, provider) ==
    drain' = IF ~closed /\ ~drained /\ done /\ consumer /\ provider /\ drain = "none"
             THEN "starting" ELSE drain

\* finish_ws for this startup: the device names the number after its last packet.
FinishWs(next) ==
    /\ ~closed
    /\ next = accepted % SEQ
    /\ complete' = TRUE
    /\ MaybeDrain(TRUE, bound, ready)
    /\ UNCHANGED <<closed, bound, ready, drained, counts, rtp, charged, heard>>

\* It names another one: packets were lost.  This ends a drained startup too.
RefuseFinish(next) ==
    /\ ~closed
    /\ next # accepted % SEQ
    /\ Fail(Cancelled)

Bind ==
    /\ bound' = TRUE
    /\ MaybeDrain(complete, TRUE, ready)
    /\ UNCHANGED <<closed, complete, ready, drained, counts, rtp, charged, heard>>

\* Mutant of Ready: a provider that is ready last starts nothing.
ReadyQuietly ==
    /\ ready' = TRUE
    /\ UNCHANGED <<closed, complete, bound, drained, drain, counts, rtp, charged, heard>>

Ready ==
    /\ ready' = TRUE
    /\ MaybeDrain(complete, bound, TRUE)
    /\ UNCHANGED <<closed, complete, bound, drained, counts, rtp, charged, heard>>

-----------------------------------------------------------------------------
(***************************************************************************)
(* _drain, from one await to the next: n pieces of the socket's audio are  *)
(* fed and ch is charged when it runs on.                                  *)
(***************************************************************************)
\* Closed meanwhile: nothing more is handed over.
Stopped(ch) ==
    /\ closed
    /\ drain' = "over" /\ charged' = ch
    /\ UNCHANGED <<drained, fed, rtp, heard>>

FeedWs(n, ch) ==
    /\ ~closed /\ n < accepted
    /\ heard' = Append(heard, Piece("ws", n + 1)) /\ fed' = n + 1
    /\ drain' = "ws" /\ charged' = ch
    /\ UNCHANGED <<drained, rtp>>

FeedRtp(n, ch) ==
    /\ ~closed /\ n = accepted /\ rtp # <<>>
    /\ heard' = Append(heard, Head(rtp)) /\ rtp' = Tail(rtp)
    /\ drain' = "rtp" /\ charged' = ch
    /\ UNCHANGED <<drained, fed>>

\* The queue is seen empty and live input released without an await in between.
CutOver(n, ch) ==
    /\ ~closed /\ n = accepted /\ rtp = <<>>
    /\ drained' = TRUE
    /\ drain' = "over" /\ charged' = ch
    /\ UNCHANGED <<fed, rtp, heard>>

RunOn(n, ch) ==
    /\ Stopped(ch) \/ FeedWs(n, ch) \/ FeedRtp(n, ch) \/ CutOver(n, ch)
    /\ UNCHANGED <<closed, complete, bound, ready, accepted, arrived>>

\* The whole segment went through the resampler in one batch; silence needs none.
Resampled(size) ==
    /\ drain = "starting"
    /\ IF accepted = 0 THEN size = 0 ELSE size \in accepted * COST - Drift .. accepted * COST + Drift
    /\ pcm' = size
    /\ RunOn(0, charged)

\* Mutant of Refund: the socket's audio is given back with every piece of it.
RefundEach == pcm

\* What is given back when the consumer has taken a piece: the socket's audio as a whole.
Refund == IF drain = "rtp" THEN COST ELSE IF fed = accepted THEN pcm ELSE 0

\* The consumer took the piece it was handed.
Consumed ==
    /\ drain \in {"ws", "rtp"}
    /\ RunOn(fed, charged - Refund)
    /\ UNCHANGED pcm

\* The resampler or the consumer raises.
DrainFails == drain \in {"starting", "ws", "rtp"} /\ Fail("over")

Next ==
    \/ Close \/ CloseInside \/ SessionFails \/ Timeout
    \/ \E seq \in 0 .. SEQ - 1, wellFormed \in BOOLEAN : AppendWs(seq, wellFormed) \/ RefuseWs(seq, wellFormed)
    \/ PassRtp \/ AppendRtp \/ RefuseRtp
    \/ \E next \in 0 .. SEQ - 1 : FinishWs(next) \/ RefuseFinish(next)
    \/ Bind \/ Ready
    \/ \E size \in 0 .. MAX + Drift : Resampled(size)
    \/ Consumed \/ DrainFails

Spec == Init /\ [][Next]_vars

-----------------------------------------------------------------------------
\* What reaches the consumer is the socket's audio from its first packet, then RTP from its
\* first frame, without gap, repetition or overtaking, however packets, frames, readiness and
\* the drain interleave ("A later process_frame cannot overtake the final drain", _drain).
HeardInOrder ==
    \A i \in DOMAIN heard :
        heard[i] = IF i <= accepted THEN Piece("ws", i) ELSE Piece("rtp", i - accepted)

\* Nothing of a wake is heard once it is closed, not even by a drain task that was under way
\* or a frame that arrives late (close, append_rtp: "including discarded closed wakes").
ClosedIsSilent == [][closed => heard' = heard]_vars

\* Audio that waits to be heard stays within the budget, up to what the resampler's rounding
\* gives back too much (_reserve and the refunds of _drain).
BufferBounded == ~closed => (accepted - fed + Len(rtp)) * COST <= MAX + Drift

\* The end of the socket's audio, the consumer and the provider are announced by three callers
\* in any order, and packets, frames and failures come between them: an open wake has its drain
\* task as soon as the last of the three has spoken, and never before (_maybe_drain).
DrainOnCue == ~closed => (drain # "none" <=> complete /\ bound /\ ready)
=============================================================================
