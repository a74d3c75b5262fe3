---------------------------- MODULE RealtimeTurns ----------------------------
(***************************************************************************)
(* The turns of one standard realtime session (realtime/session.py,        *)
(* realtime/llm.py, realtime/transport.py, realtime/turn.py): speech opens *)
(* a turn, its transcript goes to the agent, the reply is spoken, and once *)
(* its audio was consumed the device is told with audio.end whether to     *)
(* stay listening.  The user may speak over a reply at any time.           *)
(*                                                                         *)
(* Pipecat is outside the repository.  As the session uses it, a user turn *)
(* that starts interrupts everything downstream: the LLM step that runs,   *)
(* what waits in the output queue, and control sends made from there.      *)
(*                                                                         *)
(* Every turn of the pipeline is an agent's, so that the credits for ends  *)
(* without media are never needed; they are left out, and so are the cold  *)
(* seeds, which nothing calls.                                             *)
(***************************************************************************)
EXTENDS Naturals, Sequences, FiniteSets

CONSTANTS Agents,
          BargeIn,       \* whether the device lets the user speak over a reply
          MaxTurns,      \* user turns
          MaxSegments,   \* spoken segments of a reply
          MaxEvents      \* budget of pauses, prompts, losses and failures

ASSUME BargeInAssumption == BargeIn \in BOOLEAN
ASSUME TurnBoundsAssumption == {MaxTurns, MaxSegments, MaxEvents} \subseteq Nat

Turns == 1..MaxTurns
NoTurn == 0

VARIABLES
    s,           \* the RealtimeSession, with its control messages and the device's state
    user,        \* "open" from the start of a user turn until it is finalized, "mute" one that
                 \* no speech provider hears
    context,     \* what the LLM service has still to take: "none", a new "turn", or a "skip"
    llm,         \* the turn _run_turn works on, and where it is
    out,         \* what TTS and transport still have to play, and the end markers
    agent,       \* the active agent
    interrupted, \* turns the user spoke over before the device was told of their end
    events
vars == <<s, user, context, llm, out, agent, interrupted, events>>

Idle == [turn |-> NoTurn, stage |-> "idle", segments |-> 0, followUp |-> FALSE]

Init ==
    /\ s = [gen |-> 0, active |-> FALSE, awaiting |-> FALSE, barged |-> FALSE, paused |-> FALSE,
            expected |-> TRUE, speaking |-> FALSE, timer |-> FALSE, owns |-> TRUE, failed |-> FALSE,
            ended |-> "no", closed |-> FALSE, down |-> FALSE, state |-> "listening",
            media |-> {}, drained |-> {}, pending |-> <<>>, sends |-> {}, told |-> <<>>]
    /\ user = "none" /\ context = "none" /\ llm = Idle /\ out = <<>>
    /\ agent \in Agents
    /\ interrupted = {}
    /\ events = 0

Event == events < MaxEvents /\ events' = events + 1

-----------------------------------------------------------------------------
\* The session, as functions of its record.

\* _closed or _ended_notified: nothing is told any more.
Over(x) == x.closed \/ x.ended # "no"

ReplyActive == s.speaking \/ s.timer

\* A mutant: speech may interrupt a reply that was not heard yet.
SuppressedByPause == s.paused \/ (~BargeIn /\ ReplyActive)

\* _turns_suppressed.
Suppressed == s.awaiting \/ s.paused \/ (~BargeIn /\ ReplyActive)

\* A mutant: sends in progress do not learn of it.
ExpectingQuietly(x, expected) == [x EXCEPT !.expected = expected]

\* _set_audio_input_expected: a send in progress is no longer the latest word on the
\* microphone, nor, if input is expected now, on the device's state.
Expecting(x, expected) ==
    [x EXCEPT !.expected = expected,
              !.sends = {[m EXCEPT !.latest = FALSE, !.current = @ /\ ~expected] : m \in @}]

MicPaused(x, paused) ==
    [Expecting(x, ~paused) EXCEPT !.paused = paused, !.active = @ /\ ~paused]

\* _send_audio_end up to its await.
Telling(x, turn, resolved, followUp, resume) ==
    IF Over(x) \/ ~x.owns THEN x
    ELSE [Expecting(x, TRUE) EXCEPT
            !.sends = @ \cup {[turn |-> turn, followUp |-> followUp, resume |-> resume,
                               gen |-> x.gen, latest |-> TRUE, current |-> TRUE]},
            !.told = Append(@, [turn |-> turn, resolved |-> resolved, followUp |-> followUp])]

\* The rest of it, when the message was delivered.
Told(x, m) ==
    LET a == IF m.resume /\ m.followUp /\ m.latest THEN MicPaused(x, FALSE) ELSE x
        b == IF ~m.followUp /\ m.latest THEN Expecting(a, FALSE) ELSE a
    IN  IF ~m.current \/ Over(x) \/ ~x.owns THEN x
        ELSE [b EXCEPT !.state = IF m.followUp /\ ~b.paused THEN "listening" ELSE "idle"]

Released(x, turn) == [x EXCEPT !.media = {r \in @ : r.turn # turn}, !.drained = @ \ {turn}]

\* How far _drain_ends gets without waiting: past every leading end whose media was
\* consumed if another peer has control, else to the first of them, which it sends.
\* The mutant takes a silent bot for the end of the media.
ReadyWhenSilent(x) == ~Over(x) /\ x.pending # <<>> /\ ~x.speaking
Ready(x) == ~Over(x) /\ x.pending # <<>> /\ Head(x.pending).turn \in x.drained
Drained(x) ==
    LET front == Head(x.pending)
        popped == [Released(x, front.turn) EXCEPT !.pending = Tail(@)]
        blocked == {i \in 1..Len(x.pending) : x.pending[i].turn \notin x.drained}
        n == IF blocked = {} THEN Len(x.pending)
                             ELSE (CHOOSE i \in blocked : \A j \in blocked : i <= j) - 1
        gone == {x.pending[i].turn : i \in 1..n}
    IN  IF ~Ready(x) THEN x
        ELSE IF x.owns
        THEN Telling([popped EXCEPT !.barged = FALSE], front.turn, front.followUp,
                     front.followUp \/ x.barged, FALSE)
        ELSE [x EXCEPT !.pending = SubSeq(@, n + 1, Len(@)), !.drained = @ \ gone,
                       !.media = {r \in @ : r.turn \notin gone}]

Closing(x) == [x EXCEPT !.closed = TRUE, !.timer = FALSE]

-----------------------------------------------------------------------------
\* The user.

\* Pipecat's interruption: what was not played yet is dropped, end markers included, and what
\* the LLM service does, has queued or is sending is cancelled unless it just got through.
Interrupts ==
    /\ llm' \in {llm, Idle}
    /\ out' = <<>>
    /\ context' = "none"
    /\ interrupted' = interrupted \cup {out[i].turn : i \in 1..Len(out)} \cup ({llm.turn} \ {NoTurn})
                        \cup {s.pending[i].turn : i \in 1..Len(s.pending)}
SpokenOver(kept) == [s EXCEPT !.barged = @ \/ ReplyActive, !.sends = kept]
Kept == {kept \in SUBSET s.sends : {m \in s.sends : m.resume} \subseteq kept}

\* Speech onset that the start strategy promotes to a user turn.
SpeechStarts ==
    /\ user = "none" /\ ~s.closed /\ ~Suppressed
    /\ s.gen < MaxTurns
    /\ Interrupts /\ user' = "open"
    /\ \E kept \in Kept :
          s' = [Expecting(SpokenOver(kept), TRUE) EXCEPT !.gen = @ + 1, !.active = TRUE]
    /\ UNCHANGED <<agent, events>>

\* The same without a configured speech provider: nothing will be transcribed.
SpeechUnavailable ==
    /\ user = "none" /\ ~s.closed /\ ~Suppressed
    /\ Event
    /\ Interrupts /\ user' = "mute"
    /\ \E kept \in Kept :
          s' = Telling([Expecting(SpokenOver(kept), TRUE) EXCEPT !.active = FALSE],
                       NoTurn, FALSE, FALSE, FALSE)
    /\ UNCHANGED agent

\* A transcript while the user turn is open finalizes it; one that comes later only passes by.
Transcribed ==
    /\ s.gen > 0 /\ ~s.closed
    /\ user = "open" \/ s.active
    /\ s' = [s EXCEPT !.active = FALSE, !.awaiting = @ \/ s.active]
    /\ context' = IF user = "open" THEN "turn" ELSE context
    /\ user' = "none"
    /\ UNCHANGED <<llm, out, agent, interrupted, events>>

\* No transcript shows up after the silence: the turn is finalized without one.
Unheard ==
    /\ user # "none" /\ ~s.closed
    /\ user' = "none"
    /\ context' = "skip"
    /\ UNCHANGED <<s, llm, out, agent, interrupted, events>>

-----------------------------------------------------------------------------
\* The LLM service, which takes one context after the other.

\* Nothing new was said: _on_turn_skipped.
Skips ==
    /\ llm.stage = "idle" /\ context = "skip"
    /\ context' = "none"
    /\ s' = [s EXCEPT !.active = FALSE]
    /\ UNCHANGED <<user, llm, out, agent, interrupted, events>>

\* _run_turn up to the transcript's way to the agent.  Media of another agent retires the peer.
Takes ==
    /\ llm.stage = "idle" /\ context = "turn"
    /\ context' = "none"
    /\ IF s.closed THEN UNCHANGED <<s, llm>>
       ELSE IF \E r \in s.media : r.agent # agent THEN s' = Closing(s) /\ UNCHANGED llm
       ELSE /\ s' = [s EXCEPT !.media = @ \cup {[turn |-> s.gen, agent |-> agent]}]
            /\ llm' = [Idle EXCEPT !.turn = s.gen, !.stage = "waiting"]
    /\ UNCHANGED <<user, out, agent, interrupted, events>>

Segment ==
    /\ llm.stage = "waiting" /\ llm.segments < MaxSegments
    /\ llm' = [llm EXCEPT !.segments = @ + 1]
    /\ out' = Append(out, [turn |-> llm.turn, kind |-> "audio"])
    /\ UNCHANGED <<s, user, context, agent, interrupted, events>>

\* The reply ends, or fails: the agent is not connected, reports an error or stays silent for
\* too long.  The end marker goes out before the completion is called.
Ends(stage, followUp) ==
    /\ llm' = [llm EXCEPT !.stage = stage, !.followUp = followUp]
    /\ out' = Append(out, [turn |-> llm.turn, kind |-> "end"])

ReplyEnds ==
    /\ llm.stage = "waiting"
    /\ \E followUp \in BOOLEAN : Ends("ended", followUp)
    /\ UNCHANGED <<s, user, context, agent, interrupted, events>>
ReplyFails ==
    /\ llm.stage = "waiting"
    /\ Ends("failed", FALSE)
    /\ UNCHANGED <<s, user, context, agent, interrupted, events>>

\* _on_turn_complete, then what _drain_ends can do.
\* The mutant releases the agent's media with the text.
QueuedReleased(x) ==
    [Released(x, llm.turn) EXCEPT !.pending = Append(@, [turn |-> llm.turn, followUp |-> llm.followUp])]
Queued(x) == [x EXCEPT !.pending = Append(@, [turn |-> llm.turn, followUp |-> llm.followUp])]
Completed(x) ==
    LET hasAudio == llm.stage = "ended" /\ llm.segments > 0
        current == llm.turn = x.gen
    IN  IF Over(x) THEN x
        ELSE Drained(Queued([x EXCEPT !.awaiting = @ /\ ~current, !.active = @ /\ ~current,
                                      !.timer = @ \/ (hasAudio /\ ~x.speaking)]))
Completes ==
    /\ llm.stage \in {"ended", "failed"}
    /\ s' = Completed(s)
    /\ llm' = Idle
    /\ UNCHANGED <<user, context, out, agent, interrupted, events>>

-----------------------------------------------------------------------------
\* The output.

Plays ==
    /\ out # <<>> /\ Head(out).kind = "audio" /\ ~s.closed
    /\ out' = Tail(out)
    /\ s' = IF s.speaking THEN s ELSE [s EXCEPT !.speaking = TRUE, !.awaiting = FALSE, !.timer = FALSE]
    /\ UNCHANGED <<user, context, llm, agent, interrupted, events>>

\* The bot is silent, between two segments as well as at the end.
Silence ==
    /\ s.speaking /\ ~s.closed
    /\ s' = [s EXCEPT !.speaking = FALSE, !.timer = TRUE]
    /\ UNCHANGED <<user, context, llm, out, agent, interrupted, events>>

\* _drain_after_idle.
DebounceEnds ==
    /\ s.timer
    /\ s' = [s EXCEPT !.timer = FALSE]
    /\ UNCHANGED <<user, context, llm, out, agent, interrupted, events>>

\* The tap sees the end marker: if every write before it was consumed, its turn is drained.
MarkerPasses ==
    /\ out # <<>> /\ Head(out).kind = "end" /\ ~s.closed
    /\ out' = Tail(out)
    /\ LET turn == Head(out).turn
       IN  s' = IF s.failed \/ \A r \in s.media : r.turn # turn THEN s
                ELSE Drained([s EXCEPT !.drained = @ \cup {turn}])
    /\ UNCHANGED <<user, context, llm, agent, interrupted, events>>

\* An audio write fails, and no later marker proves anything.
WriteFails ==
    /\ out # <<>> /\ ~s.failed
    /\ Event
    /\ s' = [s EXCEPT !.failed = TRUE]
    /\ UNCHANGED <<user, context, llm, out, agent, interrupted>>

\* A send of _send_audio_end returns, and the _drain_ends that made it goes on.
SendReturns(m) ==
    /\ m \in s.sends
    /\ LET x == [s EXCEPT !.sends = @ \ {m}]
       IN  \E delivered \in BOOLEAN :
              LET y == IF delivered THEN Told(x, m) ELSE x
              IN  s' = IF m.turn = NoTurn THEN y ELSE Drained(y)
    /\ UNCHANGED <<user, context, llm, out, agent, interrupted, events>>

-----------------------------------------------------------------------------
\* The device, the owner and the manager.

\* realtime.pause and realtime.resume; the budget counts a resume with its pause.
Pauses(paused) ==
    /\ IF s.paused /\ ~paused THEN UNCHANGED events ELSE Event
    /\ ~s.closed
    /\ s' = MicPaused(s, paused)
    /\ UNCHANGED <<user, context, llm, out, agent, interrupted>>

\* A button prompt has been played to the device.
PromptEnds(followUp) ==
    /\ Event
    /\ ~s.closed
    /\ s' = Telling(s, NoTurn, followUp, followUp, TRUE)
    /\ UNCHANGED <<user, context, llm, out, agent, interrupted>>

SelectAgent(a) ==
    /\ agent # a
    /\ Event
    /\ agent' = a
    /\ UNCHANGED <<s, user, context, llm, out, interrupted>>

\* The device connects with another socket: the peer loses the control of its wake.  The budget
\* counts it with the loss of a peer that is being told.
LosesControl ==
    /\ s.owns
    /\ IF s.ended = "telling" THEN UNCHANGED events ELSE Event
    /\ s' = [s EXCEPT !.owns = FALSE]
    /\ UNCHANGED <<user, context, llm, out, agent, interrupted>>

\* A stop or a revocation closes the session, and so does a second loss while the device is
\* being told of the first.
Closes ==
    /\ ~s.closed
    /\ Event
    /\ s' = Closing(s)
    /\ UNCHANGED <<user, context, llm, out, agent, interrupted>>

\* _notify_ended up to its await: the peer dropped or was idle for too long, and the device is
\* told unless another peer has its control.
Ending(x) == [x EXCEPT !.ended = "telling", !.pending = <<>>, !.timer = FALSE,
                       !.told = Append(@, [turn |-> NoTurn, resolved |-> FALSE, followUp |-> FALSE])]
PeerLost ==
    /\ ~Over(s)
    /\ Event
    /\ s' = IF s.owns THEN Ending(s) ELSE [Closing(s) EXCEPT !.ended = "yes", !.pending = <<>>]
    /\ UNCHANGED <<user, context, llm, out, agent, interrupted>>

\* The rest of it, delivered or not, and the close.  A session that is down was forgotten by
\* the manager and controls nothing.
EndTold ==
    /\ s.ended = "telling"
    /\ s' = [Closing(s) EXCEPT !.ended = "yes",
                               !.state = IF s.owns /\ ~s.down THEN "idle" ELSE @]
    /\ UNCHANGED <<user, context, llm, out, agent, interrupted, events>>

\* The teardown succeeded: nothing plays any more and the media is released.
Down ==
    /\ s.closed /\ ~s.down
    /\ s' = [s EXCEPT !.down = TRUE, !.media = {}, !.drained = {}, !.pending = <<>>]
    /\ out' = <<>> /\ llm' = Idle /\ context' = "none"
    /\ UNCHANGED <<user, agent, interrupted, events>>

-----------------------------------------------------------------------------
LLMStep == Skips \/ Takes \/ Segment \/ ReplyEnds \/ ReplyFails \/ Completes
OutputStep == Plays \/ Silence \/ DebounceEnds \/ MarkerPasses \/ WriteFails \/ \E m \in s.sends : SendReturns(m)
ControlStep ==
    \/ \E b \in BOOLEAN : Pauses(b) \/ PromptEnds(b)
    \/ \E a \in Agents : SelectAgent(a)
    \/ LosesControl \/ Closes \/ PeerLost \/ EndTold \/ Down
Next == SpeechStarts \/ SpeechUnavailable \/ Transcribed \/ Unheard \/ LLMStep \/ OutputStep \/ ControlStep
Spec == Init /\ [][Next]_vars

\* The LLM service runs, and its wait for the agent has a time limit.
FairSpec == Spec /\ WF_vars(Takes) /\ WF_vars(ReplyEnds \/ ReplyFails) /\ WF_vars(Completes)

-----------------------------------------------------------------------------
\* Audio that waits to be played belongs to a turn whose agent authority is retained.
MediaIsOwned == \A i \in 1..Len(out) : \E r \in s.media : r.turn = out[i].turn

\* Ends are told in turn order, once per turn, and none while audio of its turn is left.
EndsFollowMedia ==
    /\ \A i, j \in 1..Len(s.told) :
          i < j /\ s.told[i].turn # NoTurn /\ s.told[j].turn # NoTurn => s.told[i].turn < s.told[j].turn
    /\ \A i \in 1..Len(s.told), j \in 1..Len(out) : s.told[i].turn # out[j].turn

\* Only an end sent since the last speech onset makes the device quiet, however late the
\* sends of older ends return; or the end of the session itself, at the moment it closes and
\* if no other peer has taken the control over while the device was being told.
QuietIsCurrent ==
    [][\/ s.expected /\ ~s'.expected /\ ~s'.paused
       \/ s.state # "idle" /\ s'.state = "idle"
       => \/ \E m \in s.sends : m \notin s'.sends /\ m.gen = s.gen
          \/ s.ended = "telling" /\ s.owns /\ ~s.down /\ s'.closed]_vars

\* A transcript that was routed to the agent releases the PROCESSING gate again, unless the
\* session ends.
RoutedTurnsRelease == (s.awaiting /\ context = "turn") ~> (~s.awaiting \/ Over(s))

\* Only a turn the user spoke over stays listening against its own follow_up.
OnlyInterruptedReopens ==
    \A i \in 1..Len(s.told) :
       s.told[i].followUp # s.told[i].resolved => s.told[i].turn \in interrupted
=============================================================================
