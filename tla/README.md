# vauxr: models, checks and proofs

vauxr is a voice server: devices and browsers speak to it over WebSocket and
WebRTC, agents (OpenClaw integrations) answer, an owner administers it.  This
directory holds TLA+ models of its protocols, TLC configurations that check
them on small instances, and proofs that hold for instances of every size.
`PROJECT.json` lists components, runs, hazards, theorems and, for every
definition that models code, the source lines it translates.  Paths below are
relative to `src/src/vauxr/`.

    tlc -workers 2 -config MCProvisioning.cfg MCProvisioning # one run
    tlapm ProvisioningProofs.tla                             # one set of proofs

## 1. Inventory

| component | state it keeps | operations | what is hard | what makes it correct |
|---|---|---|---|---|
| credential store `auth/store.py` | `authz.json`: credential records, owner, lifecycle and enrollment namespaces; a copy in every process | `transaction`, `load`, `replace`, `authenticate`, `current`, `usable` | two processes (server, console), failures after the rename, power loss, readers without the lock | atomic updates, nothing reported is lost, memory never disagrees with the visible file after a transaction |
| credential lifecycle `provisioning/lifecycle*.py` | operations, tombstones, key bindings, recovery pointers | `sweep`, rotate, revoke, recover, poll, deliver, ack, maintenance loop | deadlines racing acknowledgements, overlapping operations, full history | one operation per subject, predecessors retired, lost access never returns, revoking always possible, everything ends |
| device enrollment `provisioning/enrollment*.py` | pairing requests, bindings | request, prove, initiate, approve, redeem, cancel, deny, list, `initialize` | authority changes between approval and redemption, truncated ids that collide, restarts with another configuration | one stable identity per key, redeeming exclusive and backed by decisions that still hold |
| owner authority `auth/owner.py`, `auth/cli.py`, `web/owner.py` | mode, generation, verifier, claim code, pending token, sessions, bound origin | claim and recover at the console, claim, acknowledge, login, logout, `initialize` | old and new server processes, origin changed and changed back, environment override set and removed | a session or token works only in the generation and at the origin it belongs to |
| retained transports `auth/connections.py` | open connections with the principal that opened them, close attempts | `retain`, `release`, `disconnect_stale`, `Teardown.run` | concurrent callers, closes that hang, fail or ignore cancellation | success reported only when closed, nothing open forgotten, one attempt at a time |
| realtime startup audio `realtime/startup.py`, `startup_input.py` | buffered socket audio, early RTP, byte budget, drain task, timer | `append_ws`, `append_rtp`, `finish_ws`, `bind`, `ready`, `close`, `fail` | four conditions in any order, frames arriving while draining, teardown mid-drain | heard in order, no gap, within the budget, silent after closing, the drain starts when the last condition holds |
| integration enrollment `provisioning/integration*.py` | its namespace in `authz.json`, rows in `agents.json` | request, proof, approve, redeem, acknowledge, deny, cancel, sweep, start | two files written one after the other, each write may fail or be the last of its process | the next start is never refused, authority has its row |
| agent registry `agents/registry.py` | `agents.json`: rows and the selection | register, activate, retire_invalid, load, validate_authority | the start refuses what an earlier failure left | the selection follows authority, and stays while it lasts |
| agent channel `agents/server.py` | agent sockets, listeners, media turns | auth, transcripts, responses | late answers of aborted turns | an answer reaches its own turn only |
| OpenClaw client `agents/openclaw.py` | connection, handshake, chats, reconnect task | connect, reconnect, chat, close | three callers of connect and teardown, a reader that ends at any time | a lost connection comes back, every chat ends once |
| device socket `server.py`, `devices/registry.py` | connection context, registration, turn | hello, voice.start/end/abort, realtime.start/stop | reconnect before the old socket is cleaned up | the newest socket owns the device |
| voice pipeline `pipeline.py`, `segment_queue.py`, `idle_segmenter.py` | turn state, segments, synthesis queue | transcription, streamed answer, segmentation, synthesis | cancellation at every await | segments in order, one audio.end per turn |
| realtime sessions `realtime/session.py`, `app.py`, `llm.py`, `transport.py`, `turn.py`, `live.py` | wake, startup, peer and offer lock of a device; turns, media, ends and microphone of a session | start, stop, offer, close; turn, transcript, reply, end, interruption, pause | a wake or peer superseded during an await, teardowns that hang, barge-in at every await | one peer per device, a waiting wake stays armed, ends follow their audio, the gate on new turns reopens |
| output and transcript `realtime/output_buffer.py`, `transcript.py`, `device_activity.py` | pacing buffer, transcript relay, activity | push, flush, report | bounds | outside the models, see section 6 |
| device configuration, firmware, speech configuration and back ends, web API, webhooks, TLS, diagnostics, web client | mostly files and adapters | parsing, validation, forwarding | little concurrent state | outside the models, see section 6 |

Interactions.  Every handler of lifecycle, enrollment and owner runs in
`CredentialStore.transaction()`, which is synchronous: between its load and its
commit no other handler of the process runs, and the flock keeps the other
process out.  Enrollment calls lifecycle (sweep first, `_retire`, recovery
pointers, bindings).  Both record the owner's generation and the public origin
and end what was begun under others.  After each commit that removes authority
the HTTP layer calls `disconnect_stale`, and the maintenance loop does so every
second.  Realtime sessions, sockets and turns are retained there with the
credential that opened them; a realtime session owns its wake's startup audio.
Integration enrollment writes both `authz.json`, through the same transaction,
and `agents.json`; `prune` after each commit removes rows without authority, and
the start refuses to run when the two files disagree.

The hazards of this code, each at its line and with the properties that would
catch it, are in `PROJECT.json` under `hazards`.

## 2. Modules

| module | models | composed of |
|---|---|---|
| `AuthzStore` | the snapshot in `authz.json` and the rules over it: `usable`, `current`, `has_capacity`, `validate_lifecycle`, `_retire`, `_invalidate_approvals` | |
| `Lifecycle` | `provisioning/lifecycle.py`: one action per operation | `AuthzStore` |
| `Enrollment` | `provisioning/enrollment.py`: one action per operation | `Lifecycle` |
| `Provisioning` | both over one snapshot, with owner changes, restarts with another configuration, the clock, and all properties | `Enrollment` |
| `CredentialStore` | the file protocol of `auth/store.py` step by step | implements `AtomicStore` |
| `AtomicStore` | abstract: updates apply one at a time, reported ones are never lost | |
| `OwnerAuth` | `auth/owner.py` and the console's two commands | implements `OwnerAuthority` |
| `OwnerAuthority` | abstract: a generation names one grant of authority | |
| `Connections` | `auth/connections.py` | |
| `StartupAudio` | `realtime/startup.py` and its callers | |
| `VoiceState` | the state that sockets, agents and turns of a device share, and the operations on it that several of them call | |
| `DeviceSocket` | `server.py`'s socket handler, `devices/registry.py`, prompt buttons | `VoiceState` |
| `AgentChannel` | `agents/server.py`, agent selection | `VoiceState` |
| `VoicePipeline` | `pipeline.py` with `segment_queue.py` and `idle_segmenter.py`: the task of a turn, await by await | `AgentChannel` |
| `VoiceTurns` | the three on one event loop, and their properties | `DeviceSocket`, `VoicePipeline` |
| `RealtimeManager` | the sessions of a device: `RealtimeManager` and `RealtimeSession.close` of `realtime/session.py`, the realtime messages of `server.py`, the offers of `realtime/app.py` | |
| `RealtimeTurns` | the turns inside one standard session: `session.py`, `llm.py`, `transport.py`, `turn.py` | |
| `Integrations` | `provisioning/integration.py`, `agents/registry.py` and the part of `lifecycle.py` that ends an agent | |
| `OpenClaw` | `agents/openclaw.py` | |
| `MC*` | instances for TLC | the module of that name |
| `*Proofs` | theorems for all constants | the module of that name; `AuthProofs` is about `CredentialStore` and `Connections`, `AgentsProofs` about `Integrations` and `OpenClaw` |

How they fit together.  `Provisioning` takes a handler as one atomic step on
`store`; `CredentialStore` shows that the file protocol makes commits atomic
and durable, so the two together cover `transaction` from rename to rules.
`Provisioning` lets the owner change by `OwnerReplaced` and
`OwnerAcknowledged`; these are the two actions of `OwnerAuthority`, which
`OwnerAuth` is proved to implement, and `Provisioning` is proved to move the owner
in no other way (`OwnerStaysAuthority`).  `Connections` takes "the credential is no
longer current" as an input, which `Provisioning` produces.  `VoiceTurns` takes
both from them: a credential is retired at any time, and what is retained under
it is then closed or aborted one by one.  `RealtimeManager` takes a startup
buffer by its one outcome (closed, with a failure callback or without), which
`StartupAudio` models, and the teardown of a peer by whether it succeeds or the
caller gets an error, which is what `Connections` shows of the same code.
`RealtimeTurns` looks inside one peer of `RealtimeManager`; a pause, a prompt and
the teardown reach it as inputs.  `Integrations` takes a commit to `authz.json`
as one write that may fail before or after its rename, which is what
`CredentialStore` shows.

### State and actions

*Provisioning.* `store` is the snapshot: `records`, `owner`, `blocked`
(tombstones), `ops`, `bindings`, `recovery`, `requests`.  A call of the code
first sweeps, then checks, then saves; the actions therefore start from
`Swept(store)` (lifecycle) or `Opened` (enrollment, which also persists stale
requests) and commit the whole result.  A call that is refused after its sweep
leaves the swept snapshot: `Maintain` and `Examine` are these steps as well as
the maintenance loop and the list and status calls.  `Charge` is the separate
transaction in which every HTTP call is counted.  `Restart` is
`Enrollment.initialize` under a possibly different origin and id length.

*CredentialStore.* One action per system call: flock and load, building the
temporary file, rename, directory fsync, pruning `agents.json`, and for each
its failure with the reload the code does.  `Crash` drops one process,
`PowerLoss` all of them, and may or may not undo a rename that was not fsynced.
A snapshot is the set of updates it contains; the variables `mine` and
`promised` record which updates were committed and reported.

*OwnerAuth.* `owner` is the owner namespace field by field; a generation is
numbered by its place in time.  `handed` and `born` are history variables:
which generation handed out a token, and for which generation and origin a
cookie was issued.  `StartCut` is a start that dies between the two saves of
`initialize`.

*Connections.* A connection has its use, whether it is retained, whether it
lost its authority, and its close attempt; an attempt runs, is being cancelled,
or is done.  `Call`, `Join`, `Timeout`, `Wake` and `Return` are the stretches
of `disconnect_stale` and `Teardown.run` between awaits.  `owed` is a history
variable.

*StartupAudio.* Everything between two awaits of `_drain` is one step
(`RunOn`), which is what the code's comment on the cutover relies on.  `heard`
records what reached the consumer.

*VoiceTurns.* `entry` is the registration of the device (`registry.get`), `sock`
the `ConnectionCtx` and the WebSocket of each connection, `turn` the tasks of
`pipeline.py`, `slot` and `listener` the two dictionaries of `AgentServer`,
`retained` what `auth/connections.py` holds.  A step is what runs between two
awaits.  An abort event belongs to one turn, so the turn stands for it: the
registration's `owner` is its `abort_event`.  A turn's `stage` names the await
its task is at.  The future `response_done` is pending in `waiting`, has its
text in `draining` and its exception in `failing`.  `reply` is the segmenter's
buffer, the segment queue and the segment its worker speaks; `accepted`,
`spoken`, `lost` and `told` are history variables.

*RealtimeManager.* `mgr` holds the device's entries in the manager's
dictionaries (`wake`, `startup`, `live`, `current` peer) and `ws`, the
registration.  A wake is numbered when `realtime.start` arms it; `armed` says by
which socket, `spent` whether its startup buffer is closed.  `stopping` is what
each `_stop_wake` in progress captured before its await: it runs in a socket's
handler, in a startup's failure task or in a failed offer, hence `Stoppers`.
The functions over the manager's record (`Forgotten`, `Superseded`, `Disarmed`)
are those the three share.  `offer` is where each `_offer_handler` is between
its awaits; `lock` is the device's offer lock.  "dropping" and "retiring" are the
awaits of a disconnect that no time limit bounds: of a refused connection, and of
the peer of a startup that was lost meanwhile.

*RealtimeTurns.* `s` is the `RealtimeSession` field by field: `gen`, `active`,
`awaiting`, `barged` (the interruption mark), `paused`, `expected`, `media`,
`drained`, `pending` (ends), `sends` (control messages awaiting the channel) and
what was `told`.  `ended` is "telling" while `_notify_ended` awaits its message to the
device (`PeerLost`); the write of the device's state and the close follow when it
returns (`EndTold`).  `llm` is the turn `_run_turn` works on, `out` what TTS and
transport have still to play.  What Pipecat does with an interruption is
external and taken from how the session uses it.

*Integrations.* `authz` is the integration part of `authz.json` and `agents`
the file `agents.json`.  `call` is the call that holds the lock: which write
comes next and what it commits.  Every write is a step of its own, with its
failure (before or after the rename) and the death of its process between any
two.  `Start`, `StartSweeps` and `Checks` are the start of the server up to
`validate_authority`.

*OpenClaw.* `caller` is where each of the three tasks is that connect or tear
down (the server's start, the reconnect task, the cleanup), `link` and `hello`
the connection and its handshake request, `shake` the future `connect` awaits.

### Abstractions

- All of a transaction happens at one instant of `time.time()`; the clock is a
  counter, `Tick` may happen between any two steps.
- A credential id stands for its verifier digest as well; both are fresh and
  one to one.  Signatures, codes and CSRF tokens are right or wrong.
- `recovery[...].request_id` is written and never read, and is left out.
- Rate windows only delay callers; their transaction shows as `Charge`.
- The integration namespace has a module of its own; `Provisioning` leaves it
  out of `usable()`.  `Integrations` has no clock: a request may expire at any
  time (`Expires`).  A failed pruning leaves rows in memory that `_valid` hides,
  so memory is not kept apart from the file.  `registry.remove` is left out:
  DELETE on agents answers 501 and nothing else calls it.  `OPENCLAW_URL`
  stays set, so that the builtin agent `openclaw-direct` always has a row and may
  always be selected.  A rotation is one commit: the stages it goes through are in
  `Lifecycle`, and only its outcome bears on `agents.json`.
- In the voice modules audio, text and wording are left out: a segment is the
  deltas it was made of.  The worker takes a segment in the step that offers it
  when it is idle, and a task wakes in the step that sets its future; in
  between, the listener ignores everything, so nothing could tell the
  difference.  A device says hello once, as the first message
  (`src/web-client/src/hooks/useWebSocket.ts:56`).  `realtime.start` is the
  WebSocket transport's refusal.  Agents and speech services are external: they
  answer, fail, or stay silent.  An exception that escapes the pipeline
  ("Pipeline error") is left out.
- In `StartupAudio` a packet, the chunk it becomes and a frame are one piece of
  the same cost; the resampler may return a little more or less (`Drift`).
- In `RealtimeManager` left out are functions nothing calls (`begin_preroll`,
  `handle_cold_voice_end`, `stop_all`, the seeds), malformed or repeated startup
  ids, and the registration's `state`.  A browser's start without a startup id
  is the `browser` setup.
- In `RealtimeTurns` every turn is an agent's, so the credits for ends without
  media are never used; one agent's answers are never mixed with another's
  frames.
- `OpenClaw` leaves out the doubling of the delay, the keepalive ping, and the
  device key of the handshake.

## 3. Runs

| run | checks | shows |
|---|---|---|
| `provisioning` | `SweepNeverRefused`, `RevokeNeverRefused`, `IdentityStable`, `OneActiveOperation`, `PredecessorsRetired`, `FinishedForever`, `AccessNeverReturns` | from an empty installation, two devices with colliding ids pair, rotate, recover, are revoked and paired again, through deadlines, restarts with another id length, and tombstones and records at their limits |
| `endings` | `AuthorityChangeEndsWork`, `OperationsFinish`, `RevokeIsTotal` | owner and origin change under operations and requests; every operation ends; a revoke leaves no way in |
| `store` | `ImplementsAtomicStore`, `LeavesWithVisibleSnapshot`, `MemoryCatchesUp` | the file protocol through failures, crashes, power loss |
| `connections` | `SuccessMeansClosed`, `OpenIsRetained`, `StaleIsClosed` | two callers, two transports, attempts that fail and hang |
| `owner` | `SessionsBoundToBirth`, `OneTokenPerGeneration`, `RecoverNeverRefused`, `ImplementsOwnerAuthority` | two server processes, two origins, one environment token, the console |
| `startup` | `HeardInOrder`, `BufferBounded`, `ClosedIsSilent`, `DrainOnCue` | one cold wake with every order of packets, frames, readiness, failures and teardown |
| `voice` | `OneLiveTurn`, `FinishedLetsGo`, `StaleIsRetained`, `SpokenInOrder`, `NeverStuck`, `DeviceIsTold`, `SupersededIsSilent` | two turns of a device with barge-in, buttons, reconnects of device and agent, retired credentials, failing services and late answers |
| `sessions` | `OnePeer`, `WaitingIsArmed`, `OffersEnd` | wakes, offers, peers, startup failures and stops of one device in its three configurations, with closes and disconnects that hang |
| `turns` | `MediaIsOwned`, `EndsFollowMedia`, `QuietIsCurrent`, `RoutedTurnsRelease` | two turns of a warm session with barge-in, pauses, late sends, failing speech services, an agent switch and a peer that is lost |
| `integrations` | `StartsAgain`, `SelectionKept` | two integrations enroll, rotate and end while either file's write fails and processes die in between |
| `reopens` | `OnlyInterruptedReopens` (violated) | finding 1 |
| `reconnects` | `Reconnects` (violated) | finding 2 |

Type invariants are part of proved inductive invariants (`TypeCorrect`,
`VoiceTyped`, `ManagerTyped`, and `TypeOK` inside the invariants of the other
proof modules; that of `OpenClaw` is `ClawType`), so the runs do not check them
again.

Each property of a passing run has a mutant in `PROJECT.json`: a change of one
modelled definition, as a bug in that code would make it, under which TLC finds
the property violated in the same run.

### Findings

1. `OnlyInterruptedReopens` (run `reopens`).  An interruption leaves a mark that
   the next end to drain consumes, turning its `follow_up` into true
   (`realtime/session.py:940`).  The comment at line 852 says that end is the
   interrupted turn's.  When the interruption comes before that turn's own end
   was queued, no end of it ever drains, and the next turn, which nobody spoke
   over, reopens the microphone although its agent said false; the docstring at
   line 734 names this as what must not happen.
2. `Reconnects` (run `reconnects`).  `_reconnect_after` dials once
   (`agents/openclaw.py:271`): when that fails nothing schedules another
   attempt, because only a reader schedules one, and either none was started or
   it ends while the reconnect task itself is still in `connect`.  A dial that
   fails at the server's start schedules nothing either (a handshake that fails
   there does, as its reader was started).  The class docstring says
   "Single-connection gateway client with reconnect + chat streaming."

### Observations

Met while modelling, visible in the models, and not the subject of a run:

- A new pairing request puts a delivered recovery back to pending and keeps its
  credential and deadline (`provisioning/enrollment.py:355`); `usable()` looks
  at the deadline of delivered operations only, so the credential works past it
  until the next sweep.  The docstring at `auth/store.py:354` says "pending
  delivery is deadline bound".  The maintenance loop bounds the excess to about
  a second.
- The ids a rotation replaces are fixed when it is queued
  (`provisioning/lifecycle.py:199`); a credential from a re-pairing in between
  survives the acknowledgement.  The owner's panel then says "predecessor access
  retired" (`src/web-client/src/components/AccessPanel.tsx:25`).
- The agent channel routes deltas by device (`agents/server.py:339`): after a
  barge-in the rest of the old answer is taken for the new turn's.
- A device that reconnects, says hello and leaves without `realtime.start` after
  its old socket left keeps peer and wake of the old socket until the backstop
  closes them.  A browser that offers twice and stops while the second offer
  replaces the first's peer keeps the new peer.  When the teardown in a
  handler's `finally` raises, `unregister` is skipped.  Hence `OnePeer` does not
  say that a stopped device has no peer.
- A turn whose end marker is dropped by an interruption after it completed
  blocks the ends behind it until teardown (`realtime/llm.py:93` says they
  "deliberately retain authority until teardown").  A transcript that comes
  after its turn was finalized leaves `awaiting` set, and the device deaf until
  the backstop.  Hence the liveness property is `RoutedTurnsRelease`, about turns
  that reached the agent.
- `handle_offer` awaits `connection.disconnect()` of a connection it refuses
  (`realtime/session.py:1382`, 1387, 1391) and `peer.disconnect()` of a lost
  startup's peer (line 1426) while it holds the device's offer lock, and without the
  time limit that `close` has.  If one of them never returns, neither this offer nor any
  later one of the device is answered.  Hence the hypothesis of `OffersEnd`:
  without it TLC finds the offers waiting.
- `voice.start` refused for want of a speech provider leaves the registration's
  state behind.  A direct chat has no time limit while its connection is open.

### Bounds, and why they are enough

- `provisioning`: an empty installation; three credentials, two devices, four
  operations and two requests give a predecessor, a successor and a re-paired
  credential.  `LIMIT`, `TOMBSTONE_LIMIT` and `MAX_REQUESTS` are 2, so that all
  are reached and a third credential is retired when two tombstones exist.
  `Horizon` is 1: a queued operation and its overlap meet their deadline.
- `endings`: one agent, one device and one operation, two origins and two owner
  generations, so every change happens under every stage of the operation.
  Operations that would outlive the horizon are not begun, so liveness is about
  operations that can end in it.  With one operation the part of `RevokeIsTotal`
  about other operations is empty here; `OneActiveOperation` and the theorem
  `RevokeEndsAccess` cover it.
- `DeviceIdOf`: all keys collide (`Collide`), or collide at the short length
  only (`Truncated`).
- Symmetry is used for ids that are only compared for equality, and in no run
  with a liveness property.
- `store`: two processes, three updates.  `connections`: two callers, two
  transports, two attempts that are reused once nobody refers to them.
- `owner`: four generations: claim, recover, override, override removed.
- `startup`: a budget of six pieces, eight frames; `SEQ` is 3, so that packet
  numbers wrap.
- `voice`: two sockets, two turns and two agent connections of one agent.
  `MaxEvents` is one budget of 3 for all that interferes: turns started,
  connections lost and made again, credentials retired, selections, buttons,
  refused starts and failing services.  So two turns meet every single
  interference, and one turn every pair of them, at every await.  One delta in
  an answer is enough to tell whose it is.
- `sessions`: `Plan` gives each configuration the sockets, offers and events its
  hard cases need: three offers for a peer that is replaced after one was lost,
  two sockets for a reconnect, two wakes for a newer one, one more event for a
  browser, which spends one to start.
- `turns`: two turns, two segments each, so that an end can wait behind audio and
  behind another end; one event on top of the barge-in that is always possible, and a
  reconnect of the device while it is told that its peer was lost, which costs none.
- `integrations`: two requests at limits of two, two origins, two attempts, and
  four events, enough for a failed write, a death, an owner's change and a
  rotation in one history (1.2 million states).

### Fairness

- `endings`: the maintenance loop runs once a second for the life of the server
  (`provisioning/lifecycle_http.py`, weak fairness of `Maintain`) and time
  passes (`Tick`).  No client, owner or enrollment step is fair.
  `SweepNeverRefused` is what keeps the loop from dying of a refusal.
- `store`: a process inside a transaction runs on, as there is no await in
  there; the server opens transactions again and again and flock wakes a waiter
  (strong fairness of `Begin(Server)`).  Crashes and failures are not fair.
- `connections`: the maintenance loop calls again (`Call`), the event loop
  resumes what is ready and fires timers.  `StaleIsClosed` further assumes that
  a transport told to close again and again closes in the end (strong fairness
  of a successful `Finish`): that part belongs to the transport library.
- `sessions`: each offer's handler runs on; `OfferRuns` includes the way out
  when the close of a peer hangs, since `close` gives up waiting for it.  The
  disconnects `handle_offer` awaits without a limit (`Dropped`, `Retired`) are not fair;
  `OffersEnd` is claimed for behaviours in which none of them lasts forever.  No
  socket, peer or failure is fair.
- `turns`: the LLM service takes what waits for it, a reply ends or fails (the
  agent route has a time limit), and the turn's task completes.  The playing of
  audio, the user and the message of `_notify_ended` owe nothing.
- `reconnects`: ready tasks run, dialling and closing end, the handshake's timer
  fires, and the gateway answers; failures are bounded by the budget, so from
  some point on nothing goes wrong any more.

## 4. Proofs

All proofs are checked by TLAPS for every value of the constants that satisfies
the modules' `ASSUME`s (limits are naturals, ids are disjoint and finite, the
initial records fit).

*`ProvisioningProofs`.* The inductive invariant `ProvInv` is `TypeOK` and
`Committable(store)`: the snapshot has its shape, its lifecycle references are
intact, and the headroom `has_capacity` reserves is there.  The second part is
needed for the first (a recovery pointer must name an operation) and is itself
what `load()` demands at the next start.  The argument for capacity
(`CapacityMonotone`): the reserve counts history, credentials that are not
tombstoned and unfinished operations; sweeping, retiring and revoking only move
items from the latter two to the former.  From it follow `ReloadsAlways` (every
committed snapshot can be loaded again), `TypeCorrect`, `SweepAlways` and
`RevokeAlways`.

On top of it, `OpInv` says that a subject has one unfinished operation
(`OneActive`), that the credentials an acknowledged operation replaces are
tombstoned (`PredecessorsHeld`: a tombstone, unlike a passed deadline, is never
taken back) and that what waits has a deadline (`DeadlinesSet`): hence
`OneActiveAlways` and `PredecessorsAlways`.  `IdInv` adds that all requests of
a key ask for one device id, the one the key is bound to if it is, whatever name
length each was begun under: `IdentityAlways`.  For the action properties each handler is shown to keep what
lasts (`CredsLast`, `RowsLast`).  Access is lost for good (`Dead`: tombstone,
disabled record, failed issuance) or by a deadline that passes; the second is
turned into the first by the sweep that every call starts with, before anything
could move the deadline: `AccessStaysLost` and `HistoryStays`.  The same sweep
ends the work of another authority before any handler sees it: `AuthorityEnds`.
`Withdrawn` leaves no credential, operation or request of its subject, and what a
revoke or a recovery puts on top of it opens nothing (`NoWayIn`):
`RevokeEndsAccess`.  What a step may do to an operation is `Moves`: its subject,
action, predecessors, deadline and authority are fixed, and an ended one stays as
it is.  As the sweep ends what is overdue before any handler sees it, no polling,
delivery or re-pairing prolongs an operation (`DeadlineEndsWork`): `DeadlinesHold`,
the safety half of `OperationsFinish`.

Where access comes from is `GrantsAreBacked`: every new credential was handed over
in a rotation under way to the holder of a usable one of the same subject
(`HandedOver`), or redeemed for an approved request (`Paired`).  The second needs
`Decided`, an invariant about decisions taken earlier: initiator and approver were
controllers of that request when they decided, and an integration stays the subject
it was.  The commit that redeems has just dropped the requests whose authority is
lost, so those two are also still current.  `OwnerStaysAuthority` is the other end of
the composition with `OwnerAuth`: no sweep, withdrawal or restart commits another
owner than the one it found.

*`AuthProofs`.* For the credential store, `StoreInv` says for every place in a transaction how
memory, file, durable content and staged snapshot relate, that only the lock's
holder is in one, and `promised \subseteq durable \subseteq file`.  Hence
`BuildsOnCurrentAlways`, `LeavesWithVisible`, and `StoreRefinement`: rename is
the abstract apply, power loss the abstract forget, `End` the abstract promise.

For the retained transports, `ConnInv`: an unfinished attempt is the one its
connection names, an attempt that reports success has closed its transport, and
a call without failure so far still has every owed transport closed, awaited or
to be joined.  Hence `SuccessIsHonest`, `OpenStaysRetained`,
`AttemptsNeverPileUp`.

*`OwnerProofs`.* `OwnerInv`: the namespace is valid, every stored session
carries the namespace's own generation and origin, and a generation whose code
was traded has no code any more.  Hence `SessionsStayBound`, `TokensStayCurrent`,
`OwnerRefinement`, and `RecoveryNeverRefused`: whatever a recovery finds, what it
writes is valid.

*`StartupProofs`.* `StartupInv`: the queue holds the frames that arrived last,
in order, and for each place of the drain task how much has been heard.  Hence
`OrderKept`, `ClosedStaysSilent`, and `CutOverLosesNothing`: once live input is
released, all that was taken in has been heard.  `DrainStarts` says that an open wake
has its drain task exactly when cue, consumer and provider are there, in whichever
order they came.  `Charge` relates the budget charged at each place of
the drain task to what still waits, the resampler's rounding included: `WaitingFits`.

*`VoiceProofs`.* `VoiceInv` says why a new turn never meets a live one: a turn
that runs unaborted owns the registration (`LiveOwns`), a registration with an
owner is "processing" (`OwnersProcess`), and a socket that captures audio has a
registration that is "listening" (`CapturesListen`); so an utterance or a prompt
that may start finds no owner, hence no live turn.  Hence `OneTurnAlways` and
`FinishedAlwaysLetsGo`.  Every step of a turn's task is shown to be either an
end or a step that keeps kind, socket and abort flag (`TurnTyped`), whatever
makes the device hear more passes the fence (`LouderHears`), and the fence lets
the last word of a live turn through (`LastWord`): `SilenceKept` and
`DeviceAlwaysTold`.  `RetainInv` drops the condition of `StaleIsRetained` that
the credential is retired already; `StaleStaysRetained` follows.  For the order of
speech, `CutUp` says that the accepted answer is cut into consecutive parts: what
was spoken, the segment at the worker, the items of the queue, the buffer of the
segmenter.  Taking an item, flushing, accepting and speaking move the cut points
(`HeadCut`, `BufferCut`, `DeltaCut`, `SpokenCut`); a live turn whose socket is open
is always heard, so no part is skipped: `SpokenAlwaysInOrder`.  `Worked` says that
the worker of a live turn never idles beside items that wait for it; with it each
place of a turn's task has an event left that moves it (`GoesOn`): `TurnsGoOn`.
That is the guard form of `NeverStuck`; on the instance of `voice` TLC finds the
two equal in every state.  The bounds of
TLC (`MaxEvents`, the number of turns, sockets and deltas) are parameters here.

*`RealtimeProofs`.* `ManagerInv` says why a peer is never admitted beside another:
whoever is between entering and answering holds the offer lock (`LockHeld`), an
offer that replaces a peer finds that peer or none when its await returns
(`Replacing`), and only a peer that is down is forgotten.  Each of the four
outcomes of `_stop_wake` is a lemma (`StopKeeps`), since sockets, startups and
offers share them.  Hence `OnePeerAlways`.  `WakeInv` says why a stop that wakes up
late is harmless: the wake it captured, like the startup of any closed peer, is
over (`CapturedIsOver`, `ClosedIsOver`), and every step keeps an armed wake that is
not (`Lapses`).  Hence `WaitingStaysArmed`.  `OffersServed` says that the lock
belongs to exactly the offer being served, whichever of its awaits fails, and that
an offer aborting its wake has a stop in progress: `LockIsGivenBack`, the safety
half of `OffersEnd`.

*`RealtimeTurnsProofs`.* `TurnsInv` is `TypeOK` and four parts.  `Past`: no turn that
plays, waits or was told is ahead of the user's.  `Order`: ends wait and are told in
turn order, all before the turn the LLM works on.  `Owned`: what is still to be
played has media, precedes its end marker and is not drained.  `Sends`: a send
that may still change the device's state belongs to the latest user turn.  None is
inductive alone: an end is told once because the ends before it are older, and its
media is still there because nothing told is still to be played.  What a helper of
the session does is summarised by a relation between the session before and after
(`Kin` weakens sends only, `Tells` tells one end, `Pops` takes drained ends off the
queue), and each step of the specification is shown to compose them.  Hence
`MediaIsAlwaysOwned` and `EndsAlwaysFollowMedia`.  For `QuietIsAlwaysCurrent`, a speech onset strips
every send in flight of the revisions it was taken at, and the ends a returning send drains
are newer than its own, so that a late send cannot pass for theirs; the only other
step that makes the device quiet is `EndTold`, of a session that still has the
device's control.  For the
gate, an onset is suppressed while the gate is held, and by `Past` a skipped turn
never overwrites the context another turn waits with: `GateAlwaysOwed`, the safety
half of `RoutedTurnsRelease`.

*`AgentsProofs`.* `IntegrationInv`: every snapshot, on disk or about to be
committed, is sound; authority has its routing row, that of the agent being
acknowledged excepted; the selection has authority unless the lifecycle has
retired something, in which case the start prunes before it checks; and a commit
about to happen gives authority to nobody who has none and does not deserve it
(`Pending`).  The last part is needed because a call decides on its commit before it
writes `agents.json`, and lasts over every failure in between.  What a call
commits is summarised by `Change`: no agent gains authority, and none loses it
without leaving a mark; one lemma per operation shows it of that operation.  Hence
`StartsAgainAlways` and `SelectionKeptAlways`; `AuthorityGrantedAlways` (authority
comes by the acknowledgement of a delivered credential, under the owner and the
origin it was asked for, after the routing row) and `AuthorityStaysGone` (an
enrollment that is over and has no authority never has it again).

For the OpenClaw client, `ClawInv`: the start dials before any reader could have
scheduled a reconnect, and a reconnect that waits or dials finds no connection.
Hence `OneConnectionAlways`, which is also why the model has one `link`, and
`NoWaitIsForgotten`: what waits, a chat or a handshake, has a reader.

Only model-checked: the liveness properties (`OperationsFinish`,
`MemoryCatchesUp`, `StaleIsClosed`, `OffersEnd`,
`RoutedTurnsRelease`), which need fairness, and `NeverStuck`, which is about
`ENABLED`; neither is within the provers' reach.  For most the safety they rest
on is proved: `DeadlinesHold`, `OpenStaysRetained`, `LockIsGivenBack`,
`GateAlwaysOwed` and `TurnsGoOn`.  Of the OpenClaw client a
run checks a liveness property only, and that one is violated.

Proved without being the property of a run: `DeadlinesHold`, `GrantsAreBacked`,
`OwnerStaysAuthority`, `CutOverLosesNothing`, `LockIsGivenBack`,
`GateAlwaysOwed`, `TurnsGoOn`, `AuthorityGrantedAlways`, `AuthorityStaysGone`,
`NoWaitIsForgotten`, `OneConnectionAlways`, besides the inductive invariants.  TLC
found each of them to hold on the instance of its component's run before it was
proved.

## 5. Plan

The order was: credential store, lifecycle, enrollment, owner, retained
transports, startup audio and voice turns, since authority is what everything
else rests on; then realtime sessions and their turns, integration enrollment with
the agent registry, and the OpenClaw client.  What would come next:

1. Live sessions (`realtime/live.py`): the dialogue with the provider and its
   tool calls, inside one peer of `RealtimeManager`.
2. The media authorities of `realtime/app.py` between two peers of a device.
3. In the voice modules: the escaping exception, and a start refused for want of
   a speech provider.

Every safety property that a passing run checks is a theorem, `NeverStuck` in its
guard form.  Theorems to come are those of the modules above.

## 6. Not modelled

The parts of section 5 not yet done.  Left out for good: realtime output buffer,
transcript relay and activity reports (bounded queues no other component waits
for), device configuration, firmware delivery, speech configuration and back ends,
TLS and configuration, diagnostics (files, validation, codecs and adapters without
shared state), webhooks (sent once, not retried), HTTP parsing, rate windows and
origin checks in front of the modelled handlers, and the web client, whose texts
are quoted where they state what the server does.
