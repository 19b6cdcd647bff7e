# Verification of oss-lma

TLA+ modules, TLC models and TLAPS proofs for the protocol core of oss-lma, the
local meeting assistant: a desktop shell (Rust, Tauri) that captures system and
microphone audio, and a Python sidecar that transcribes it and keeps the
meeting's record in SQLite. Paths are relative to `src/`.

## The system

```
 window (React) --commands--> shell: meeting control --requests--> worker --> native sources
      ^                          |   ^                               |---> mixer, WAV recorder
      |                          |   |                               |---> link client --websocket--+
      +------ capture-state -----+   +-- endpoint watchers (one thread per meeting)                |
                                        |                                                          v
                                        +--> supervisor --spawn/kill--> sidecar: one Session per connection
                                                                          main task, pump task(s)
                                                                          |--> speech provider (Deepgram)
                                                                          |--> segment assembler
                                                                          +--> SQLite (meetings, segments)
```

| component | code | state it keeps | operations | made correct by |
|---|---|---|---|---|
| Link client | `crates/lma-link` | command channel, session, reconnect buffer, frame assembler, retry delay, socket | `start`, `send_chunk`, `pause`, `resume`, `end`, dropping the handle; connect, START, flush, live loop, retry wait | audio leaves in order, once, under its meeting's START; the buffer keeps its bound; `start()` is answered; a task without handles sends what it holds and returns |
| Meeting control | `crates/app/src/commands/capture.rs`, `capture_state.rs` | phase, generation, operation lock; the worker's sources, mixer, recorder, link | `start`, `pause`, `resume`, `stop`, the worker's failures, one watcher thread per meeting | an idle or failed shell holds nothing, an active one records its own meeting, meetings never mix, every START gets one END |
| Window | `src/src` | phase shown, transcript rows | four meeting buttons | buttons follow the phase |
| Supervisor | `crates/app/src/sidecar.rs` | child, endpoint, configuration, respawn counter and its window | `spawn`, `endpoint`, `respawn`, `shutdown` | one child, respawns bounded by the cap, an intended restart starts afresh |
| Audio | `crates/lma-capture/src/mixer.rs`, `recorder.rs` | two queues of samples, pause flag, WAV file | push, drain, pause, finish | channels stay aligned, memory bounded |
| Native sources | `crates/lma-capture/src/macos` | the native stream of each source, events on their way, pending rebuild | start, rebuild, stop | a source that is lost is rebuilt or retried, a retry never stops one that is back |
| Sidecar session | `python/sidecar/session.py`, `reconnect.py` | call id, stream, pump task, paused, reconnecting, reset counter, time offset | START, audio, PAUSE, RESUME, END, socket closed; provider results and resets | END finalizes the record, a transcript holds its own meeting, a reset neither loses the session nor resurrects it |
| Sidecar server | `python/sidecar/server.py`, `__main__.py` | sessions, port, token | bind, authorize, stop | one session per connection, all shut down on stop |
| Meeting store | `python/sidecar/storage` | meetings, segments, offsets; pending deletes | write, sweep after a crash, delete | a meeting's status follows its life, times never go backwards, no partial outlives a crash |
| Segment assembler | `python/lma_pipeline` | windows and speakers per channel | `on_result` | segment ids are stable from partial to final |
| Speech engines | `python/lma_stt` | provider connection, keepalive | start, feed, close, results | a lost connection is a reset, a close ends the results |
| Settings, history, shell wiring, contracts | `crates/app/src/settings.rs`, `meetings.rs`, `lib.rs`, `contracts/` | keyring, files, queries | save, list, run | validation and I/O |

What makes it hard. Four kinds of threads change the meeting: the call that
holds the operation lock, the audio worker, a watcher per meeting, and the
commands of the window; each reads state under a lock, lets it go, and acts on
what it read. The link is a task that talks to its caller through an unbounded
channel while its socket comes and goes. The sidecar interleaves a main task and
its pumps at every `await`, and a provider may die, reset or answer late at each
of them. The sidecar itself may die and be replaced on another port, and the
meeting must go on under the same call id. `PROJECT.json` lists these hazards
one by one, each at the line where it bites and with the properties aimed at it.

## The modules

| module | models |
|---|---|
| `LinkClient` | the link's task and its caller, network and peer |
| `AudioStream` | what the link promises: a lossy, in-order stream of audio per meeting |
| `LinkStream` | the mapping under which `LinkClient` implements `AudioStream` |
| `LinkStream_proofs` | theorems about the task of `LinkClient` and about where audio ends up, and their proofs |
| `CaptureControl` | the shell: lock holder, worker, watchers, window, supervisor's answers |
| `CaptureControl_proofs` | theorems about `CaptureControl` and their proofs |
| `MeetingBook` | what the shell promises: meetings opened one at a time and ended for good |
| `CaptureBook` | the mapping under which `CaptureControl` implements `MeetingBook` |
| `Supervisor` | the sidecar's supervisor with those who call it: main thread, watchers, window's close |
| `Supervisor_proofs` | the theorems about `Supervisor` and their proofs |
| `SidecarSession` | one connection of the sidecar: main task, pumps, provider streams, status table |
| `ResetPolicy` | the budget of provider resets the documents state, beside the one `SidecarSession` keeps |
| `SidecarSession_proofs` | theorems about `SidecarSession` and their proofs |
| `CaptureWorker` | the worker thread's turn and the two native sources it rebuilds, retries and stops |
| `CaptureWorker_proofs` | theorems about `CaptureWorker` and their proofs |
| `AudioPath` | samples from the callbacks through resampler, mixer, recorder and link |
| `AudioPath_proofs` | theorems about `AudioPath` and their proofs |
| `ShellStores` | what the shell keeps between launches: settings row, keys, refused permission |
| `ShellStores_proofs` | theorems about `ShellStores` and their proofs |
| `MeetingStore` | the rows of one meeting across sessions, crashes and deletion |
| `MeetingStore_proofs` | theorems about `MeetingStore` and their proofs |

The modules overlap where components meet. `CaptureControl` lets the worker fail
a session at any moment; `CaptureWorker` says when it does. `CaptureWorker` and
`AudioPath` take from `CaptureControl` in which order the shell makes its
requests. `Supervisor` is asked by the watchers `CaptureControl` describes.
`MeetingStore` runs several of the sessions of which `SidecarSession` describes
one, and abstracts their awaits.

`map` in `PROJECT.json` gives for every definition the lines it translates.

### LinkClient

One action per arm of the task's `select!` in each of its places: `idle` (no
session), `connect`, `starting` (START), `flush` (the backlog), `live`,
`sending` (the frames of one chunk), `wait` (`wait_for_retry`), `done`, and
`panicked` for a failing `expect`. Audio is a stream of numbered units: a chunk
is a sequence of them, a frame has exactly `FrameUnits`, so cutting, carrying
the remainder over, buffering and dropping the oldest are what the code does
with bytes, and every property can tell which unit went where. `heard` is what
the sidecar received and under which START; `owner` the session the caller was
in when it passed a unit. The network is external: a connection is up, or lost
and not yet noticed, and a send on a lost one may succeed and reach nobody.
`EndpointDies` lets the sidecar exit for good. Incoming text and pings change
nothing in the task and are left out.

### CaptureControl

The lock holder (`op`) goes through the steps of `start`, `pause`, `resume` and
`stop`, each an action between two requests to the worker, with every early
return and what it closes. The worker serves one request at a time, and may fail
the session on its own account at any moment it has sources. Each meeting has a
watcher that sleeps, reads the phase, asks the supervisor for the endpoint,
replaces the link, pauses it, and fails the meeting, each a step of its own
because the code lets the state lock go between them. Status events are sent
after the lock is released and may overtake each other (`notices`), which is
what the window's buttons then follow (`shown`). A meeting is its generation.

`set_devices` takes the operation lock, looks at the phase, asks the worker for
the devices there are and stores a valid choice; `captured` is the choice the
running sources were started with. The window has no page for it yet, but the
command is registered.

With `Orderly` the user presses a button only when the window is up to date and
no call is running; without it, whenever a button is enabled. Permissions,
levels and samples are left out.

### Supervisor

Each action is one hold of the supervisor's lock. A start happens wholly under
it, so nobody sees a child that is not ready, and it succeeds or fails: all the
ways it may fail (the program, the pipe, the readiness line, the five seconds)
end with the child killed. `Ask` is `endpoint()`: it reaps a child that exited,
then answers, refuses, or starts another with the configuration it has.
`respawn` is a shutdown and a spawn with a lock each, and watchers may ask in
between. The main thread launches, saves settings (a key may fail to be written,
after the old one was deleted; the table may refuse) and closes the window; its
commands are not async, so one save runs at a time. A configuration is its
provider, a process a number, and a process may exit whenever it likes.
`attempts` is a history variable: the times of the starts since the last
shutdown. The meeting is reduced to the process its link was given.

### SidecarSession

An action is the code between two awaits. `main` is the main task: it takes a
message, closes (`_close_session`: first empties the session, then awaits the
provider's close, then the pump, at most ten seconds, which `wait_for` ends by
cancelling it), starts an engine, shuts down. `session` has the fields of the
`Session` object. Each START makes a pump, which reads results, waits out a
backoff, restarts the engine, closes the old stream and installs the new one.
The stream is Deepgram's: `close()` is idempotent and raises on a connection that
is dead, the iterator looks at the flag only before it waits for a message, and
a receive that is pending when the connection closes fails, which the session
takes for a provider reset. Audio is reduced to the meeting it was spoken in.
Messages are received as long as the main task runs, after the socket closed
too, because what a client sent before it left is still read.

### CaptureWorker

The worker's loop is one turn after another: a request or none, the source events
that have arrived, the retries that are due, the link's events; `pc` says where
in its turn it is. A source is a `SourceHandle` (`up`, `down` or not there) and
the stream macOS has for it. Streams report the loss of their device, or a buffer
they cannot read, from threads of their own (`Reports` times in a meeting), so events
wait in a queue while the worker does something else. Watcher and callbacks are
installed before the stream runs, and `Started` is sent when its start has returned:
a report may lie before the `Started` of its own stream, and a stream may be lost
when its start succeeds (`Openings`). Stopping a stream succeeds, fails with the
stream stopped (the microphone's tap cannot be removed), or fails with the stream
still running (ScreenCaptureKit refuses or does not answer): `rebuild` then fails the
meeting, and `start_sources` returns. `Scheduled` doubles the delay to its ceiling;
`Pass` is the clock. `failure` is a history variable: which meeting was failed for
whose event.

Two things leave the model. `Stopped` and `CleanupWarning` events, of which the
worker takes no notice. And a native stream nobody holds any more, with what it may
still report: one whose stop is refused when its handle is dropped, one whose start
was not answered in time. No property says that a kind has one native stream at most;
it is not true of the code (see below).

### AudioPath

A sample is the time it was captured at, in frames of 48 kHz, so a chunk says of
each frame which two moments it pairs, whatever came between: buffers of uneven
sizes, a microphone at another rate (the resampler's position is exact, in parts
of a native sample), a lost stretch while a source is rebuilt, a worker that was
busy, a pause. `ProcessAudio` pushes what waits of the system and then what waits
of the microphone, as the code does, and writes each chunk to the recording and
then to the link; `WriteFails` is a failure between any two of those. The loop of
`process` is stated by the position at which it ends (`Ends`): its outputs are a step
apart, and there are as many as it takes to get there. `push_frames` is a recursive
function over the buffers that wait.

### ShellStores

`save_provider_settings` step by step, each of which may fail or be the last
before a crash: delete the old key, write the new one (a file is first truncated),
write the row, look the key up, restart the sidecar with what is found. `Launch`
chooses the store for the whole run by one probe of the keychain. The screen
permission is the system's (`allowed`), but a refusal is remembered by the
application (`refused`, in the process and in UserDefaults), because macOS does
not tell it. Settings are their provider.

### MeetingStore

Sessions of one meeting over one database. The link connects, loses the
connection and connects again; the sidecar notices later, so two sessions may
overlap; the provider resets; the process dies and starts again. A segment is an
utterance of one provider stream with its start and end on the meeting's clock:
the session's `offset` plus what the stream has heard. `Resumed`, `Restarts` and
the sweep in `Boot` are where these times and the partials left by a crash are
decided. `Delete` is the shell's, on a connection of its own.

## What is checked

Passing runs:

| run | bounds | shows |
|---|---|---|
| `Link` | 2 sessions, frames of 2 units, buffer of 1 frame, chunks of 1 and 4 units, delays 1 and 2, 4 calls, 2 faults, endpoint may die | `HeardInItsMeeting`: units are heard only under the START of the session they were passed in. `LosslessWithoutFault`: with no fault, nothing is lost. `BacklogFirst`. `ImplementsStream`: refinement of `AudioStream`, hence heard in order and once. `StartAnswered`. `BacklogFlushed`, while the sidecar lives. `OrphanReturns`: a task without handles returns, unless that leaves it in a meeting whose sidecar is gone for good |
| `CaptureRaces` | 2 generations, 2 endpoints, 1 microphone besides the default, buttons at any time | `IdleMeansClosed`, `PausedMeansSilent`, `EndedForGood`, `CapturesSelection` |
| `CaptureOrderly` | 3 generations, 2 endpoints, orderly user | `NoMixedAudio`, `ActiveMeansRecording`, `FailedMeansClosed`. `KeepsBook`: refinement of `MeetingBook`. `StaleWatcherLeaves`, `LostEndpointFailsMeeting` |
| `SupervisorSafety` | 2 providers, a cap of 2, a window of 2 ticks, 2 saves, 6 processes, 5 ticks | `OneProcess`, `StoppedMeansSilent`, `StormBounded`, `MeetingServed` |
| `SessionMeeting` | 1 meeting, 3 chunks, 4 provider faults, a budget of 2 resets | `AudioGoesWhereItIsRead`, `EndedTranscriptIsFinal`, `FailsAfterBarrenResets` (the budget as the code counts it), `EndFinalizes`, `ReconnectingEnds` |
| `SessionRestart` | 2 meetings, 3 STARTs on one connection, sound provider | `TranscriptOfItsMeeting` |
| `WorkerSources` | 2 meetings, delays 1 and 2, 3 reports in a meeting | `LostOnlyByStarted`: the worker loses sight of a source only where a `Started` event clears a retry scheduled since. `SourceReturns`: a source it has in sight comes back with its device. `RetriesOnlyLost`: a retry never stops a source that is back. `FailsItsOwn`: a meeting whose link has started is failed only by what is its own |
| `AudioPath` | chunks of 2 frames, mixer buffers of 2, 10 frames, microphone rates 4 and 9 for a target of 6, buffers of 2 and 5 samples, a lead of 2 | `InStep`: while nothing is lost, both channels of a frame were captured at the same time. `BoundedShift`: losses on one side take them at most a bounded amount apart. `StreamedIsRecorded` |
| `ShellStores` | 2 providers, 2 keys, 3 launches, 3 saves | `ServesWhatWasTyped`, `RowHasItsKey`, `RefusalSticks` |
| `MeetingStore` | 2 sessions, 3 provider streams, 2 runs of the sidecar, 3 chunks, 1 deletion | `LaterSessionsFollow`: times never go back from one session to the next. `StaleIsDeleted`: partials a crash left are deleted by the next START. `DeletedStaysDeleted` |

Why the bounds are enough. A buffer of one frame overflows, and a chunk of four
units is two frames, so a batch can fail with one frame sent and one not, and a
chunk of one unit leaves a remainder; two faults reach a failure during the
flush that follows a failure; two sessions are what one task can confuse. Three
generations give a watcher of the first meeting a second meeting to disturb (a
`stop` takes a generation too). With a cap of 2 and a window of 2 ticks, five ticks
hold two windows that meet, which is where 2 * Cap starts come close together,
and a tripped breaker; when the six processes are used up, starts fail, which the
code must bear anyway. A budget of two resets is spent, and spared by a
result in between, within four faults. In `SessionMeeting` one START per
connection is what the link does: it drops its socket after END and before a
START for another session. The link's four calls
are two meetings started and two chunks, or a chunk amid a change of session.
`WorkerSources` needs two meetings for an ERROR the first leaves behind and two
delays for the doubling and its ceiling; three reports let a source be lost in its
start, in the rebuild that follows and once more, or both sources at once.
In `AudioPath` a rate below and one above the target and a buffer that is
no multiple of either make the resampler carry its position over; ten frames are
five chunks, so audio overflows, is lost on one side, paused and resumed within
them. `MeetingStore` has a session, its successor, and one provider reset more
than either needs; a crash needs two runs; a third session does not fit the time
a run has.

Fairness. `LinkClient`: the task is polled, so its steps are weakly fair; and a wait
that comes back again and again reads the command channel at some time
(`WaitReceives`, strongly fair), because a command that waits is ready when the wait
begins and its timer half a second later at the earliest. The caller, the faults and
the endpoint's death owe nothing.
`CaptureControl`: the lock holder, the worker, the watchers and a refused start
are threads that run, and each sends its events; buttons, faults and the
supervisor's answers owe nothing. `CaptureWorker`: the worker's thread runs, its
wait for a request times out (5 ms), and time passes; devices, streams and the
sidecar owe nothing. `Supervisor`: the main thread runs and a meeting's watcher
polls; processes exit when they like, and nobody has to save. `SidecarSession`:
awaits of the session's own making end, by an answer, an error or the deadline;
clients and providers owe nothing.
Deadlock checking is off in every configuration: each model really stops, when
its bounds are spent or the task has returned.

Every property of a passing run has a mutant in `PROJECT.json`: a plausible
mistake in a mapped definition under which TLC finds the property violated. The
type invariants are stated in the modules and are no property of a run; they are
proved instead.

Runs that show a disagreement between the code and what the repository says of it:

| run | what happens |
|---|---|
| `SourceRetryLost` | a stream reports its loss while it is being started, so its `Started` event lies behind the report. The worker handles both in one turn: the report's rebuild finds the device gone and schedules a retry, and `Started` clears it (capture.rs:801). One report is enough. The meeting stays active without the source, although `docs/developer-guide.md` promises that an unavailable selected microphone is retried while the meeting stays active |
| `ResetPolicy` | the provider resets twice, its third stream runs for more than ten seconds in which nobody speaks, and the next reset fails the meeting: the counter is reset where a result is read (session.py:246-248) and nowhere else. `docs/developer-guide.md`, `docs/troubleshooting.md` and `docs/transcription-and-translation.md` say that a session that survived ten seconds resets it. With a `Survives` that resets the session's counter too the property holds |

Also seen while modelling, with no run of their own.

Link and shell:

- A `pause()` passed while the link is disconnected is thrown away
  (client.rs:329), and the START of every reconnect un-pauses the sidecar
  (session.py:165). The shell's own mixer is paused too, so nothing reaches it.
- A watcher pauses the link it replaced for the phase it read before it asked for
  the endpoint (capture.rs:526): when the user has resumed in between, an active
  meeting stays mute until the next pause and resume.
- Settings saved for a provider without a key leave the running sidecar as it is
  (commands/settings.rs:42): meetings started afterwards are transcribed by the
  provider selected before.
- With every handle gone, `recv()` returns at once and the link's retry loop spins
  without its delay (client.rs:313, `WaitAbandoned`), although
  `docs/websocket-streaming-api.md` and `docs/desktop-capture-app.md` promise 0.5 s
  doubling to 10 s. The shell drops a handle without END just when it replaces the
  link of a sidecar that is gone (capture.rs:512-525, 1050): that task is still in
  its meeting, its port is dead, and it connects for ever. `OrphanReturns` excepts
  this case and no other.
- A start refused for want of a sidecar fails whatever meeting is running,
  without closing it (capture.rs:370, `WebviewRefuses`): `FailedMeansClosed`
  is checked for the orderly user only.
- `endpoint()` starts a sidecar without looking at `next_respawn_at`, and
  `respawn()` clears it before `spawn()` reads it, so the 200 ms backoff of the
  supervisor never delays anything. `StormBounded` holds without it.
- The breaker, once tripped, does not look at its window again: only a save or a
  restart of the application revives the sidecar. After a restart whose spawn
  failed there is no configuration, and `endpoint()` does not try again either,
  although settings and key are stored.
- `send_chunk()` after `end()` while the link is disconnected meets
  `expect("assembler follows session")` (client.rs:325) and ends the task;
  `WaitChunkPanics` is that step. The shell passes no such chunk.
- Snapshots leave after the state lock is released (capture.rs:448), so an
  Active event may overtake the Failed event of another thread and a failed
  meeting is shown as running; that is why `Orderly` waits for `UpToDate`.
- `fail_watched_session` checks the generation, lets the lock go and then closes
  the backend (capture.rs:551-564): with buttons pressed at any time a newer
  meeting can be the one closed. `ActiveMeansRecording` is checked for the
  orderly user only.
- End takes the link but leaves its event receiver (capture.rs:1077), so an
  ERROR of the ended meeting's link is read in the next one, and fails it if its
  own link has not started yet; `FailsItsOwn` is about meetings whose link has.
- The handle of a system stream whose stop is refused is dropped all the same
  (capture.rs:882-886, macos/mod.rs:202-207), and a start that is not answered within
  its deadline is taken for a failed one (macos/screen_capture.rs:133). Either stream
  may run on beside the next one of its kind. After a refused stop `start_sources`
  returns an error (capture.rs:1108); the next start finds no handle to stop.
- `docs/prerequisites-and-install.md` says that a meeting fails if the rebuild of a
  source fails; a rebuild whose start fails is retried (capture.rs:845), and only one
  whose stop is refused fails the meeting.
- Between the halves of a restart (sidecar.rs:327) a watcher finds no endpoint and no
  configuration and fails the running meeting: a save of settings may end it.
  `MeetingServed` accepts that.
- Every rebuild of the microphone asks for its permission again (`ensure_access`),
  which opens System Settings at every retry while it is refused.

Audio:

- `docs/desktop-capture-app.md` says that stalling one side "never shifts the
  other". A source that loses audio while it is rebuilt comes back shifted against
  the other, by up to the mixer's three seconds, what waited for the worker and what
  the sources deliver unevenly (`BoundedShift`):
  the mixer pairs samples by their order, not by their time. A remainder of less
  than a tick from before the loss is paired with audio from after it.
- Frames captured just before Resume, and not read yet, are recorded.
- `set_muted` has no caller. The rounding of the resampler's f64 position is left
  out.

Settings and permission:

- The store is chosen per launch: a key saved in files while the keychain did not
  answer is not seen by a launch whose probe succeeds.
- A crash between truncating and writing a key file leaves an empty key, which is
  served as a key (`Torn`).
- A save deletes the old key first (settings.rs:141): if the new one cannot be
  written the old one is gone; `RowHasItsKey` counts the key as replaced from then.
- The settings page may say a key is present although the launch's own look timed
  out and no sidecar runs.
- The choice of devices is not persisted, and the window has no page for it.

Sidecar:

- The documents stop a stream at "five consecutive failures"; with the budget of five
  of `contracts/errors.yaml` the sixth does (session.py:300).
- A provider reset that is under way while END closes its session installs its new
  stream in the closed session, or in the one started since (session.py:334).
  `AudioGoesWhereItIsRead` is about sessions that have their pump.
- END on a Deepgram stream whose socket stays open makes the pump take the
  session's own close for a reset: it starts a provider stream and puts it into the
  ended session (session.py:334), and END waits for the ten-second deadline.
- Times can go backwards within the record when a session is still writing as its
  successor starts, or when a provider reset follows a flushed backlog, whose
  audio is longer than the clock that the new offset is computed from
  (session.py:321): `LaterSessionsFollow` is about sessions that start alone.
- Partials left by a provider reset or by a close that was not drained are never
  marked when the meeting completes; the sweep looks at RECORDING meetings only.
- A START whose client goes away amid the deletes of stale partials forgets the
  rest, and so does a process that exits before a START, which
  `docs/superpowers/specs/2026-08-28-sidecar-resilience-amendment.md` decides.
- A FAILED meeting becomes RECORDING again: it is closed with 1013, the link
  reconnects and sends START (session.py:340).
- Deleting a meeting that is being recorded brings its row back at the next
  reconnect, without its segments.
- A pump cancelled while it closes its old stream (session.py:331), or one left
  behind by a close that raised (session.py:214), leaves a provider connection
  open; with two meetings on one connection, the second kind transcribes the
  second meeting's audio under the first one's call id.
- The Deepgram iterator stops at the closing flag (deepgram.py:127): of the
  results that arrive during the closing handshake at most one is stored.
- `docs/websocket-streaming-api.md` says PAUSE "does not additionally discard
  locally"; the shell's mixer does discard while paused.

## What is proved

`LinkStream_proofs`, for every set of sessions, frame size, capacity, chunk size
and bound that meets `SizesAssumption` (naturals, positive where the code
divides or indexes by them), `DelayAssumption` (a positive base delay below the
ceiling) and `NothingAssumption` (None is not a value of the options):

| theorem | states |
|---|---|
| `TypeCorrect` | `Spec => []TypeOK`: in particular whatever is buffered or sent is whole frames |
| `OptionsAgree` | `Spec => []OptionsFollowSession`: session, buffer and assembler are `Some` together, so the `expect` calls of the connected path never fire |
| `BacklogBounded` | `Spec => []BufferBounded` |
| `BacklogLeavesFirst` | `Spec => []BacklogFirst`: no live frame is sent while a buffered one waits |

They follow from one inductive invariant, `IInv`: the four properties and
`SendingFrames`, which says where frames may be left to send. `BacklogFirst`
alone is not inductive: the send of a batch starts in `live`, which is entered
from `flush` only with an empty buffer, and fails into `wait` with frames in it;
`SendingFrames` rules out the frames that would otherwise remain from a batch
begun elsewhere. `OptionsFollowSession` is what makes the buffer a sequence
where it is used as one, and `BufferBounded` rests on a lemma that `Push` keeps
at most `Capacity` frames whatever it is given. The proof has one step per
action; lemmas about `Cut`, `Rest` and `Push` carry the arithmetic.

In the same module, about where audio ends up:

| theorem | states |
|---|---|
| `AudioStaysInItsMeeting` | `Spec => []HeardInItsMeeting` |
| `HeardInOrder` | `Spec => []Rising(HeardUnits)`: what is heard is in capture order, and nothing twice |
| `StreamImplemented` | `Spec => ImplementsStream`: every step of the client accepts, loses or delivers units in order, or stutters |
| `NothingLost` | `Spec => []LosslessWithoutFault`: on a network that does not fail, what fits the buffer is heard or waits for its frame to fill |

The first three rest on one invariant about the places a unit can be in: heard, in the
buffer, in a batch being sent, in the assembler, in the command channel. `InOrder`
and `Hands` say that these hold rising units and lie one behind the other in this
order, so that what leaves at the front is older than all that stays. `Theirs` says
whose they are. A chunk in the channel belongs to the session the task will have
when it gets there (`Finds`: the last START or END before it, or the task's own
session), and what the task has in hand belongs to the session it has now; it is
`CurrentIsLast`, that the caller's session is the one the whole channel leads to,
which makes that true of a new chunk. `PeerIsTold` (on a connection that is up and
past its START the sidecar was told the task's session) then puts the right name on
what is heard. The two invariants have to be carried together: that the units of a
frame are one session's rests on the assembler being emptied with the buffer.
`AudioStream` takes the units on the way as a set, which is all it promises about
them, since a unit is its place in the capture; the lemmas about `Cut`, `Rest` and
`Push` (`CutUnits`, `PushUnits`) say what they do to units and to their order.

`NothingLost` rests on `CInv` besides. While there was no fault and the endpoint
lives (`Calm`), a connection in use is up, so a frame that is sent is heard; the
other places where audio goes are the buffer's oldest frames and what a change of
session discards. For the first, `PushKeepsRecent` counts: a buffer that dropped
unit `n` is full of frames behind it, which take `FrameUnits` places each, so that
at least `Capacity * FrameUnits` units were passed after `n` (`FramesTakeRoom`, by
an injection between finite sets). For the second, `SteadyAhead` says that behind
what the caller passed to its session no command in the channel leads the task
anywhere else: starting another session makes none of the units the caller's,
ending does too, and a start of the same session discards nothing. `AllThere` then
is inductive: what is the caller's and fits the buffer is heard or held.

`Supervisor_proofs`, for every set of providers, cap, window and backoff that
meets `LimitsAssumption` and `ProvidersAssumption`:

| theorem | states |
|---|---|
| `TypeCorrect` | `Spec => []TypeOK` |
| `OneSidecar` | `Spec => []OneProcess` |
| `StaysStopped` | `Spec => []StoppedMeansSilent` |
| `CrashLoopBounded` | `Spec => []StormBounded`: 2 * Cap + 1 starts in a row take longer than the window |
| `TrippedByStorm` | `Spec => []TripsOnlyInStorm` |

The inductive invariant is about the history of starts. `CountsThisWindow` says
that the counter counts the last ones, the first of which began the window, and
`QuietBefore` that fewer than `Cap` starts lie in the stretch before it: when a
window ends untripped it held at most `Cap`, and the one that began it is more
than `Window` ago. A new start is then the last of at most `Cap - 1` before the
window and `Cap + 1` in it. `StoppedMeansEmpty` (no child and no configuration
wherever the supervisor is stopped) is what keeps `endpoint()` from starting
anything there, and what makes the counter fresh when `spawn()` counts. The
proof treats the child, the counter and the settings apart, as they are disturbed
by different steps.

`CaptureControl_proofs`, for any number of meetings, endpoints and microphones that
meets `BoundsAssumption`, whether the window is orderly or not:

| theorem | states |
|---|---|
| `TypeCorrect` | `Spec => []TypeOK` |
| `IdleIsClosed` | `Spec => []IdleMeansClosed` |
| `NeverReopened` | `Spec => []EndedForGood` |
| `PauseHolds` | `Spec => []PausedMeansSilent` |
| `SelectionHolds` | `Spec => []CapturesSelection` |

These are the invariants of the run `CaptureRaces`, and none is inductive. What
`IInv` adds is about the call under way. `StartIsCurrent`: while start is between two of
its steps the generation is its own and nothing but it makes the phase active.
`NotYetSourced` and `NoneFromTheFuture`: before its sources start no link can have
been the meeting's, so that the meeting whose sources run has not been ended, which
is what a watcher's or a start's link rests on. `PauseIsTold` and
`StartsWithSelection` carry what the backend was told up to the step that changes
the phase, `ChoosingAtRest` keeps the selection from changing under a start, and
`ClosedAtRest` says that after stop has closed everything only a start opens it
again. Most steps fall under one of four lemmas, by what they do to the backend
(`AsideKeeps`, `StoppedKeeps`, `ReturnKeeps`, `BackendStartLinkKeeps`).

The second half of the module is about the run `CaptureOrderly`. Its theorems assume
`Orderly`, that buttons are pressed one at a time on a window that is up to date.
TLC refutes all four without it: a button pressed on a window that is behind is
carried out on a meeting that has moved on.

| theorem | states, `ASSUME Orderly` |
|---|---|
| `NeverMixed` | `Spec => []NoMixedAudio` |
| `ActiveRecords` | `Spec => []ActiveMeansRecording` |
| `FailedCloses` | `Spec => []FailedMeansClosed` |
| `BookIsKept` | `Spec => KeepsBook`: each step opens the next meeting, ends the open one, or is nothing to the book |

`OInv` adds to `IInv` what an orderly window brings about. `OneCallAtATime`: what
was asked for waits for no other call. `StartsAtRest`: start finds everything closed
and nobody about to close, for which `FailedIsClosed`, `FailingIsClosed` and
`ClosingIsOver` say how far the failing of the last meeting is. `SourcesAreCurrent`
and `OneOpen` say that sources, recorder and link are the current generation's or
gone, and `StartOpensInTurn`, `StartIsWhole` and `RunningIsWhole` follow a start from
its first source to the phase it sets.


`CaptureWorker_proofs`, under `BoundsAssumption`:

| theorem | states |
|---|---|
| `TypeCorrect` | `Spec => []TypeOK` |
| `EventsOfSession` | `Spec => []OfThisSession`: every source event in the channel and the batch is of the session there is |
| `RetriedWhenLost` | `Spec => []RetriesOnlyLost` |
| `LostAtOnePlace` | `Spec => LostOnlyByStarted` |
| `FailedByItsOwn` | `Spec => []FailsItsOwn` |

`NoSessionMeansNothing` (without a session there are no sources, events or retries)
and `EmptyElsewhere` (batch and due kinds are empty outside their places) carry
`OfThisSession` through the ends of sessions, and `Delayed` (a retry that is
scheduled has a delay) tells a retry that is due from none at all. `ReceiverOfLink`
says that a link that is there is the one whose events are read: the ERROR of an
ended meeting's link can then only hit a session without a link of its own, which
`FailsItsOwn` excepts.

`LostAtOnePlace` goes through the steps by what they do to `Accounted`, of which
each kind has three parts: its stream, its retry, its reports on the way. A start
that succeeds with a stream already lost has its report before `Started`
(`OpeningIsKnown`); a rebuild ends with a stream or a retry (`RebuildAccounts`);
collecting moves the reports from the channel to the batch, and handling one takes
nothing but the head (`AwaitedInTail`). A `Started` event clears a retry and touches
nothing else: if no retry was scheduled it takes nothing away (`StartedAccounts`).

`SidecarSession_proofs`, for every set of meetings, budget of resets and bound:

| theorem | states |
|---|---|
| `TypeCorrect` | `Spec => []TypeOK` |
| `AudioIsRead` | `Spec /\ []Alone => []AudioGoesWhereItIsRead` |
| `TranscriptIsOfItsMeeting` | `Spec /\ []Alone => []TranscriptOfItsMeeting` |
| `EndedIsFinal` | `Spec /\ []Alone => EndedTranscriptIsFinal` |
| `FailedLate` | `Spec /\ []Alone => FailsAfterBarrenResets` |
| `NoneAbandonedIsAlone` | `Spec /\ [][~Abandons]_vars => []Alone` |
| `FaultlessIsAlone` | with `MaxFaults = 0`, `Spec => []Alone` |
| `FirstIsAlone` | with `MaxStarts <= 1`, `Spec => []Alone` |

`Alone` says that a START that is being answered finds no pump of an earlier meeting
alive, and the four properties are not true without it. When `close()` raises on a
dead provider connection, `_close_session` goes on without waiting for the pump
(`Abandons`); that pump may find the session of the next meeting and swap its stream
into it, and TLC then refutes all four. The link never gets there, as it uses a
connection for one session. The last three theorems say when the hypothesis holds:
unless a close is abandoned, whatever is started, and in the settings of both runs,
one meeting per connection (`SessionMeeting`) and a sound provider
(`SessionRestart`). `OnlyTheLast` and `LastOwned` make the last pump the only one that
lives and the one main task and session hold; `SameStream`, `ReadsOwnAudio` and
`SameMeeting` tie its stream, what that stream was fed and its call id to the
session's; `SpareUnused` keeps a stream that was opened for a swap apart until it is
swapped in; `CountsBarren` and `ClosedIsRead` carry the resets and the results that a
failure, and the end of a transcript, rest on.

`ShellStores_proofs`, under `StoresAssumption`:

| theorem | states |
|---|---|
| `TypeCorrect` | `Spec => []TypeOK` |
| `SidecarServesWhatWasTyped` | `Spec => []ServesWhatWasTyped` |
| `SavedKeyIsKept` | `Spec => []RowHasItsKey` |
| `RefusalIsRemembered` | `Spec => RefusalSticks` |

`KeyIsWritten` (a save past its keys has stored the one it was given) makes the row
point at a key that is there; `OldKeyIsGone` (a save about to store a key has no
chosen one to overwrite) keeps later saves from it; `StoredWasTyped` and
`OneAnswer` carry what is served and what was answered; `RefusalIsStored` puts every
refusal the window has seen into UserDefaults, where a restart finds it.

`MeetingStore_proofs`, for every value of the constants:

| theorem | states |
|---|---|
| `TypeCorrect` | `Spec => []TypeOK` |
| `StalePartialsAreDeleted` | `Spec => []StaleIsDeleted` |
| `SessionsFollow` | `Spec => []LaterSessionsFollow` |
| `DeletedNeverReturns` | `Spec => []DeletedStaysDeleted` |

`StaleIsDeleted` needs that a session owes deletes only while it answers START
(`OwesWhileDeleting`), so that no other end of a session forgets any, and that a
sidecar that is down owes none (`NothingOwedWhileDown`), so that the next sweep
overwrites none.

The type invariant is the first inductive one here (`TInv`): a time is bounded by
what the streams opened so far can have heard, so it says of each session and row how
many streams and chunks its times stand for (`Sound`, `SoundSegment`). On it rests
`OInv`. `UsedInOrder` orders the sessions; `OpenIsSettled` and `WrittenIsSettled` say
that a session that found itself alone found every earlier one gone, so that none of
them writes again; `OpenFollows` puts its time behind every segment of theirs, and
`StreamsAreFresh` lets it write only under ids that were never deleted. The offset is a maximum over the
rows: that a bounded set of numbers that is not empty has one (`BoundedHasMax`) comes
from the well-foundedness of subsets in the library, since its induction theorems
cannot be instantiated here.

`AudioPath_proofs`, for every tick, mixer buffer, target and microphone rate, every
size of the callbacks' buffers and every bound that meets `SizesAssumption`:

| theorem | states |
|---|---|
| `TypeCorrect` | `Spec => []TypeOK`: in particular the mixer's buffers keep their limit, one of them is always below a tick, and every chunk is a tick |
| `LinkFollowsRecording` | `Spec => []StreamedIsRecorded` |
| `ShiftBounded` | `Spec => []BoundedShift` |
| `ChannelsInStep` | `Spec => []InStep` |

The types are not inductive alone. `Typed` adds that every sample, from the channels
to the recording and the stream, is of a time its source has captured (never `Never`), and `ResamplerIsExact`: what the resampler has seen and its position add
up to the time the microphone has captured to (`Exact`), so that its outputs go on
where those of the buffer before ended (`ProcessIsExact`), whatever the rate and
wherever the buffers are cut.

`LinkFollows` says that the stream is, chunk by chunk, what follows the first `begun`
chunks of the recording. For that a recorder that has had a link and has none must
be paused, as `End` leaves it.

`ShiftInv` is about a source that has lost nothing. It is `Paced`: its samples
follow each other without a gap from the mixer's buffer through its channel to its
clock, and what waits of the other source was captured at most `MaxLead` before what
has been pushed of it (`Awaited`). Every loss pairs the source that is whole with
later samples of the other, but never later than the mixer's buffer of the whole one
is long, what waits and `MaxLead`: then that buffer overflows and drops what is too
old. Dropping moves the whole source ahead of the other's old samples in turn, and
`Gap` bounds that, position by position: a sample of the other that may end a chunk
was captured at most `MaxLead + backlog + MaxBuffered` before the one it will meet.
The lemmas say what a push of either source and a whole pass of the worker do to
that distance (`SteadyPushKeepsGap`, `OtherPushKeepsGap`, `MixedKeepsGap`,
`MixedIsNear`).
`Aligned` adds that, as long as nothing was lost, dropped or cleared, both buffers begin
at the same time, from which the pairing in step follows.

The attempt to prove `BoundedShift` showed an earlier form of it to be false: it bounded
the distance by `MaxLead + backlog + MaxBuffered`. With a mixer that keeps less than
one buffer brings, the part of that buffer it keeps can meet samples that have waited
as long as the whole backlog; TLC found the trace with a tick and a mixer of one
frame and buffers of 1 and 4. Hence the second term of the maximum,
`Tick + backlog`. With the code's 144000 and 4800 frames the first is the larger one as
long as fewer than 139200 samples wait for the worker.

What loops over data is proved by induction here: the number of outputs of
`process`, the buffers of `PushAll`, the lengths that `FlattenSeq` adds up. The library's
induction theorems cannot be instantiated, so `SetInduction` states it for a set of
numbers that has 0 and with `n` also `n + 1`; it follows from the well-foundedness
of the finite subsets of a set.

Only model-checked:

- liveness (`StartAnswered`, `BacklogFlushed`, `OrphanReturns`, `StaleWatcherLeaves`,
  `LostEndpointFailsMeeting`, `MeetingServed`, `EndFinalizes`, `ReconnectingEnds`,
  `SourceReturns`), which is outside the prover's reach.

`LostMeansPending` and `FailsWithinPolicy` are what the documents say, and are false of
the code.

## Not modelled, and the plan

What could follow, in this order:

1. `SidecarSession` over `MeetingStore`: the awaits of one with the sessions and
   rows of the other, and the link in front of them.
2. `SegmentAssembler`: pure operators against a reference definition. It is
   sequential, and its windows and words are data no other module carries.

Left out for good: the bindings to macOS, the unregistered speech engines,
provider message formats, rendering, settings validation, the keyring's bindings,
SQL migrations, the sidecar's bind attempts and token gate, and the bundling of
the application, which keep no protocol state; the contracts, which are data.
