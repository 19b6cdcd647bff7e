------------------------------ MODULE AudioPath ------------------------------
(***************************************************************************)
(* The audio of a meeting, from the callbacks of the two native streams to *)
(* the recording and the link: the microphone's StreamingResampler, the    *)
(* channels the worker reads (process_audio), the Mixer, the WavRecorder   *)
(* and write_chunk, under the requests that open, pause and close them.    *)
(*                                                                         *)
(* Times are counted in frames of 48 kHz from the start of the sources.  A *)
(* sample is the time it was captured at, Never if no such time exists: an *)
(* interpolation of the wrong samples or at the wrong place.  A chunk is a *)
(* sequence of <<system, microphone>> frames.  Amplitudes, levels and the  *)
(* conversion to 16 bits are left out, and muting, which nothing asks for. *)
(***************************************************************************)
EXTENDS Integers, Sequences, SequencesExt

CONSTANTS
  Tick,         \* TICK_FRAMES
  MaxBuffered,  \* MAX_BUFFERED_FRAMES
  Target,       \* TARGET_SAMPLE_RATE
  Rates,        \* the rates of a microphone
  SystemSizes,  \* sizes of the buffers the system delivers, in frames
  NativeSizes,  \* sizes of the buffers the microphone delivers, in its samples
  MaxTime,      \* bound: frames captured of each source
  MaxLead,      \* bound: how far one source may deliver ahead of the other
  MaxWaiting    \* bound: buffers that wait for the worker in each channel

ASSUME SizesAssumption ==
  /\ Tick \in Nat \ {0}
  /\ MaxBuffered \in Nat /\ MaxBuffered >= Tick
  /\ Target \in Nat \ {0} /\ Rates \subseteq Nat \ {0}
  /\ SystemSizes \subseteq Nat /\ NativeSizes \subseteq Nat
  /\ MaxTime \in Nat /\ MaxLead \in Nat /\ MaxWaiting \in Nat

VARIABLES
  sources,    \* the sources of a meeting run: "before", "running", "after"
  resampler,  \* of the microphone's tap
  clock,      \* the time each source has captured up to
  frames,     \* channels of buffers from the callbacks to the worker
  buffer,     \* system and microphone of the Mixer
  paused,     \* of the Mixer
  recorder,   \* a WavRecorder is open
  link,       \* the worker has a link
  recorded,   \* chunks written to the recording
  streamed,   \* chunks passed to a link
  begun,      \* chunks recorded before the first link, None if there is none
  disturbed,  \* history: audio of a source was lost, dropped or cleared
  lossy,      \* history: the sources that have lost audio
  backlog     \* history: the most samples the worker found in a channel

nativeVars == <<resampler, clock, lossy>>
mixerVars == <<buffer, paused>>
sinkVars == <<recorder, link, recorded, streamed, begun>>
pastVars == <<disturbed, backlog>>
vars == <<sources, nativeVars, frames, mixerVars, sinkVars, pastVars>>

Kinds == {"System", "Microphone"}
Never == -1
None == -1
Samples == Never .. MaxTime
Frames == Samples \X Samples

\* StreamingResampler: its rate, its position in parts of a native sample (of
\* which there are Target), the native samples it has seen, the time of the
\* first.
Resampler(rate, origin) == [rate |-> rate, position |-> 0, seen |-> 0, origin |-> origin]
NoResampler == [rate |-> 0, position |-> 0, seen |-> 0, origin |-> 0]

TypeOK ==
  /\ sources \in {"before", "running", "after"}
  /\ resampler.rate \in Rates \cup {0}
  /\ clock \in [Kinds -> 0 .. MaxTime]
  /\ \A k \in Kinds :
       /\ Len(frames[k]) <= MaxWaiting
       /\ ToSet(buffer[k]) \subseteq Samples /\ Len(buffer[k]) <= MaxBuffered
  /\ \E k \in Kinds : Len(buffer[k]) < Tick
  /\ paused \in BOOLEAN
  /\ recorder \in BOOLEAN /\ link \in BOOLEAN
  /\ \A chunk \in ToSet(recorded) \cup ToSet(streamed) :
       Len(chunk) = Tick /\ ToSet(chunk) \subseteq Frames
  /\ begun \in None .. Len(recorded)
  /\ disturbed \in BOOLEAN /\ lossy \subseteq Kinds /\ backlog \in 0 .. MaxTime

Silent == [k \in Kinds |-> <<>>]

Init ==
  /\ sources = "before"
  /\ resampler = NoResampler
  /\ clock = [k \in Kinds |-> 0]
  /\ frames = Silent /\ buffer = Silent
  /\ paused = FALSE
  /\ recorder = FALSE /\ link = FALSE
  /\ recorded = <<>> /\ streamed = <<>> /\ begun = None
  /\ disturbed = FALSE /\ lossy = {} /\ backlog = 0

-----------------------------------------------------------------------------
(* The callbacks of the native streams *)

\* The time of an output between native samples i and j, at `part` of the way:
\* native sample i was captured at i * Target / rate.
TimeOf(r, i, j, part) ==
  LET sum == i * Target + part
  IN  IF sum % r.rate = 0 /\ (part = 0 \/ j = i + 1)
        THEN r.origin + sum \div r.rate ELSE Never

\* The loop of StreamingResampler::process ends at a position, among n samples.
Ends(n, position) ==
  \/ position >= n * Target
  \/ position % Target # 0 /\ position \div Target + 1 >= n

\* The outputs of StreamingResampler::process for n more native samples, a
\* step apart, and the position where its loop ends.
Outputs(r, n) ==
  LET at(i) == r.position + i * r.rate
      count == CHOOSE c \in 0 .. (n + 1) * Target :
                 Ends(n, at(c)) /\ \A i \in 0 .. c - 1 : ~Ends(n, at(i))
      output(position) ==
        LET base == position \div Target
        IN  TimeOf(r, r.seen + base, r.seen + base + 1, position % Target)
  IN  [outputs |-> [i \in 1 .. count |-> output(at(i - 1))], position |-> at(count)]

\* Mutant of Process: the position starts anew with every buffer.
ProcessAnew(r, n) ==
  LET done == Outputs(r, n)
  IN  [outputs |-> done.outputs,
       resampler |-> [r EXCEPT !.position = 0, !.seen = @ + n]]

\* StreamingResampler::process
Process(r, n) ==
  LET done == Outputs(r, n)
  IN  [outputs |-> done.outputs,
       resampler |-> [r EXCEPT !.position = done.position - n * Target, !.seen = @ + n]]

Other(k) == IF k = "System" THEN "Microphone" ELSE "System"

\* Samples of k arrive at its channel.  Both sources keep up with real time.
Send(k, samples) ==
  /\ Len(frames[k]) < MaxWaiting
  /\ clock[k] + Len(samples) <= MaxTime
  /\ clock[k] + Len(samples) <= clock[Other(k)] + MaxLead
  /\ clock' = [clock EXCEPT ![k] = @ + Len(samples)]
  /\ frames' = [frames EXCEPT ![k] = IF samples = <<>> THEN @ ELSE Append(@, samples)]

\* stream:didOutputSampleBuffer:
CaptureSystem(n) ==
  /\ sources = "running"
  /\ Send("System", [i \in 1 .. n |-> clock["System"] + i - 1])
  /\ UNCHANGED <<sources, resampler, lossy, mixerVars, sinkVars, pastVars>>

\* The tap of the input node; the first buffer tells the rate.
CaptureMicrophone(n) ==
  /\ sources = "running"
  /\ \E r \in IF resampler # NoResampler THEN {resampler}
              ELSE {Resampler(rate, clock["Microphone"]) : rate \in Rates} :
       LET done == Process(r, n)
       IN  resampler' = done.resampler /\ Send("Microphone", done.outputs)
  /\ UNCHANGED <<sources, lossy, mixerVars, sinkVars, pastVars>>

\* A source is rebuilt, and what it would have captured meanwhile is lost.
Lose(k) ==
  /\ sources = "running"
  /\ \E n \in SystemSizes :
       /\ clock[k] + n <= MaxTime /\ clock[k] + n <= clock[Other(k)] + MaxLead
       /\ clock' = [clock EXCEPT ![k] = @ + n]
  /\ resampler' = IF k = "Microphone" THEN NoResampler ELSE resampler
  /\ lossy' = lossy \cup {k}
  /\ disturbed' = TRUE
  /\ UNCHANGED <<sources, frames, mixerVars, sinkVars, backlog>>

-----------------------------------------------------------------------------
(* The mixer *)

Least(a, b) == IF a < b THEN a ELSE b

\* drain_chunks: the chunks of a pair of buffers, and what stays.
Chunks(both) ==
  LET count == Least(Len(both["System"]), Len(both["Microphone"])) \div Tick
  IN  [i \in 1 .. count |-> [j \in 1 .. Tick |->
        <<both["System"][(i - 1) * Tick + j], both["Microphone"][(i - 1) * Tick + j]>>]]

Remainder(both) ==
  [k \in Kinds |-> SubSeq(both[k], Len(Chunks(both)) * Tick + 1, Len(both[k]))]

\* Mutant of Kept: the samples that do not fit are the newest.
KeptOldest(samples) == SubSeq(samples, 1, Least(Len(samples), MaxBuffered))

\* What a buffer keeps of its samples: the latest MaxBuffered.
Kept(samples) ==
  LET overflow == Len(samples) - Least(Len(samples), MaxBuffered)
  IN  SubSeq(samples, overflow + 1, Len(samples))

\* Mixer::push, as the chunks it returns and the buffers it leaves.
Push(both, k, samples) ==
  LET filled == [both EXCEPT ![k] = Kept(@ \o samples)]
  IN  [chunks |-> Chunks(filled), buffer |-> Remainder(filled),
       dropped |-> Len(both[k]) + Len(samples) > MaxBuffered]

\* push_frames for every buffer of a channel in turn.
PushAll(both, k, waiting) ==
  LET after[i \in 0 .. Len(waiting)] ==
        IF i = 0 THEN [chunks |-> <<>>, buffer |-> both, dropped |-> FALSE]
        ELSE LET before == after[i - 1]
                 pushed == Push(before.buffer, k, waiting[i])
             IN  [chunks |-> before.chunks \o pushed.chunks, buffer |-> pushed.buffer,
                  dropped |-> before.dropped \/ pushed.dropped]
  IN  after[Len(waiting)]

\* What process_audio gets out of the mixer: it pushes what waits of the
\* system, then what waits of the microphone.
Mixed ==
  LET system == PushAll(buffer, "System", frames["System"])
      both == PushAll(system.buffer, "Microphone", frames["Microphone"])
  IN  [chunks |-> system.chunks \o both.chunks, buffer |-> both.buffer,
       dropped |-> system.dropped \/ both.dropped]

-----------------------------------------------------------------------------
(* The worker *)

Waiting(k) == Len(FlattenSeq(frames[k]))

Look == backlog' = Max({backlog} \cup {Waiting(k) : k \in Kinds})

\* WavRecorder::write
Record(chunks) == recorded' = IF recorder THEN recorded \o chunks ELSE recorded

\* LinkClient::send_chunk
Stream(chunks) == streamed' = IF link THEN streamed \o chunks ELSE streamed

\* process_audio and write_chunk: the recording first, then the link.
ProcessAudio ==
  /\ sources = "running" /\ frames # Silent
  /\ Look /\ frames' = Silent
  /\ IF paused
       THEN disturbed' = TRUE /\ UNCHANGED <<buffer, recorded, streamed>>
       ELSE /\ buffer' = Mixed.buffer
            /\ disturbed' = (disturbed \/ Mixed.dropped)
            /\ Record(Mixed.chunks) /\ Stream(Mixed.chunks)
  /\ UNCHANGED <<sources, nativeVars, paused, recorder, link, begun>>

\* A chunk cannot be written or passed on: fail_session, which closes all.
\* The recording may have the chunk that the link refused.
WriteFails ==
  /\ sources = "running" /\ recorder /\ ~paused
  /\ \E n \in 1 .. Len(Mixed.chunks), refused \in BOOLEAN :
       /\ Record(SubSeq(Mixed.chunks, 1, IF refused THEN n ELSE n - 1))
       /\ Stream(SubSeq(Mixed.chunks, 1, n - 1))
       /\ refused => link
  /\ sources' = "after" /\ recorder' = FALSE /\ link' = FALSE
  /\ Look /\ frames' = Silent /\ buffer' = Silent /\ resampler' = NoResampler
  /\ paused' = FALSE
  /\ disturbed' = (disturbed \/ Mixed.dropped)
  /\ UNCHANGED <<clock, lossy, begun>>

StartSources ==
  /\ sources = "before" /\ sources' = "running"
  /\ UNCHANGED <<nativeVars, frames, mixerVars, sinkVars, pastVars>>

OpenRecorder ==
  /\ sources = "running" /\ ~recorder /\ begun = None
  /\ recorder' = TRUE
  /\ UNCHANGED <<sources, nativeVars, frames, mixerVars, link, recorded, streamed, begun,
                 pastVars>>

\* StartLink, also of a watcher that replaces the link.
StartLink ==
  /\ sources = "running" /\ recorder
  /\ link' = TRUE
  /\ begun' = IF begun = None THEN Len(recorded) ELSE begun
  /\ UNCHANGED <<sources, nativeVars, frames, mixerVars, recorder, recorded, streamed,
                 pastVars>>

\* Mixer::pause
PauseMixer ==
  /\ paused' = TRUE /\ buffer' = Silent /\ disturbed' = TRUE

Pause ==
  /\ link
  /\ PauseMixer
  /\ UNCHANGED <<sources, nativeVars, frames, sinkVars, backlog>>

Resume ==
  /\ link
  /\ paused' = FALSE
  /\ UNCHANGED <<sources, nativeVars, frames, buffer, sinkVars, pastVars>>

\* Mutant of End: the mixer goes on.
EndUnpaused ==
  /\ sources = "running" /\ recorder
  /\ link' = FALSE
  /\ UNCHANGED <<sources, nativeVars, frames, mixerVars, recorder, recorded, streamed, begun,
                 pastVars>>

\* End takes the link, if there is one, and pauses the mixer.
End ==
  /\ sources = "running" /\ recorder
  /\ link' = FALSE
  /\ PauseMixer
  /\ UNCHANGED <<sources, nativeVars, frames, recorder, recorded, streamed, begun, backlog>>

FinishRecorder ==
  /\ sources = "running" /\ recorder /\ ~link /\ paused
  /\ recorder' = FALSE
  /\ UNCHANGED <<sources, nativeVars, frames, mixerVars, link, recorded, streamed, begun,
                 pastVars>>

\* StopSources drops the channels and makes a new mixer.
StopSources ==
  /\ sources = "running" /\ ~link /\ ~recorder
  /\ sources' = "after"
  /\ frames' = Silent /\ buffer' = Silent /\ resampler' = NoResampler
  /\ paused' = FALSE
  /\ UNCHANGED <<clock, lossy, sinkVars, pastVars>>

Native ==
  \/ \E n \in SystemSizes : CaptureSystem(n)
  \/ \E n \in NativeSizes : CaptureMicrophone(n)
  \/ \E k \in Kinds : Lose(k)

Worker ==
  \/ ProcessAudio \/ WriteFails
  \/ StartSources \/ OpenRecorder \/ StartLink
  \/ Pause \/ Resume \/ End \/ FinishRecorder \/ StopSources

Next == Native \/ Worker

Spec == Init /\ [][Next]_vars

-----------------------------------------------------------------------------
(* Properties *)

AllFrames == UNION {ToSet(chunk) : chunk \in ToSet(recorded) \cup ToSet(streamed)}

\* While neither source loses audio, and the worker keeps up, a frame pairs
\* the two channels at the very same time, whatever the sizes of the buffers
\* and the rate of the microphone.
InStep == ~disturbed => \A frame \in AllFrames : frame[1] = frame[2]

Apart(frame) == IF frame[1] < frame[2] THEN frame[2] - frame[1] ELSE frame[1] - frame[2]

\* While only one source loses audio, the channels end every chunk at most as
\* far apart as a buffer of the mixer is long (or, when a single buffer brings
\* more than the mixer keeps, as that buffer and a tick), but for what the
\* sources deliver unevenly and what has waited for a busy worker.  (A chunk
\* may begin with less than a tick that the source had left before the loss.)
BoundedShift ==
  lossy # Kinds =>
    \A chunk \in ToSet(recorded) \cup ToSet(streamed) :
      Apart(Last(chunk)) < MaxLead + backlog + Max({MaxBuffered, Tick + backlog})

\* Once a link is there, what is recorded is what is streamed, across pauses
\* and replaced links; the recording may end with one chunk more.
StreamedIsRecorded ==
  begun # None =>
    LET since == SubSeq(recorded, begun + 1, Len(recorded))
    IN  /\ IsPrefix(streamed, since)
        /\ Len(since) <= Len(streamed) + (IF sources = "after" THEN 1 ELSE 0)
=============================================================================
