# OmaType in TLA+

OmaType (`src/`, built on voxtype) is a push-to-talk dictation daemon in Rust. A key or a
command starts a recording, a speech engine transcribes it, and the text is typed at the
cursor. It also types live from streaming engines and records meetings. One
`tokio::select!` loop in `src/src/daemon.rs` (`Daemon::run`, some 1,700 lines) owns the
state; everything else is a thread, a task, a subprocess or a file it talks to.

What is hard about it is not any one handler but their order: some twenty arms and tasks
share about as many `Option` fields that must be set and cleared together on every way out
of a recording, while key listeners, capture threads, backends, tools and other processes
move between any two of the daemon's steps. That is what these modules are about.

| Module | Models | TLC | TLAPS |
| --- | --- | --- | --- |
| `Dictation` | the dictation arms of the event loop, the record commands | `MCDictation` | `DictationProofs` |
| `EventLoop` | when the timed arms of the `select!` run at all | `MCEventLoop` | `DaemonProofs` |
| `Meeting` | the meeting arms, `MeetingDaemon`, dual capture, meeting commands | `MCMeeting` | `MeetingProofs` |
| `LiveText` | what live typing promises (the abstract specification) | through `LiveTyping` | `LiveTypingProofs` |
| `LiveTyping` | streaming backends, event channel, pump, typing session | `MCLiveTyping` | `LiveTypingProofs` |
| `EagerGeometry` | where the chunks of an eager recording lie (pure) | through `EagerChunks` | `AudioProofs` |
| `EagerChunks` | chunk tasks, the tail, the combination of their texts | `MCEagerChunks` | `AudioProofs` |
| `ModelManager` | the model cache, prepared and spawned workers | `MCModelManager` | `ModelManagerProofs` |
| `Hotkey` | kernel queue, listener, capture by the settings, channel | `MCHotkey` | `HotkeyProofs` |
| `Output` | the chain of output methods, modifier guard, paste | `MCOutput` | `OutputProofs` |
| `AudioPath` | callback, capture thread, level emitter, hub, display | `MCAudioPath` | `AudioProofs` |
| `Startup` | several daemons starting, crashing, stopping; the lock | `MCStartup` | `DaemonProofs` |

`DaemonProofs` and `AudioProofs` extend two modules each; where those would share a name,
`EventLoop` and `EagerChunks` prefix theirs (`LoopInit`, `LoopSpec`, `EagerInit`, `EagerSpec`).

`PROJECT.json` maps every definition to the lines it translates, lists the runs, one mutant
per checked property, the hazards at their lines, the findings and the theorems.

## 1. Inventory

Line numbers are of `src/src/daemon.rs` unless another file is named.

**The event loop: dictation.** State: the `State` enum (`src/src/state.rs`),
`audio_capture`, `model_load_task`, `transcription_task`, the streaming handle, session,
chain and drain pump, the two hybrid flags, the eager transcriber, chunk tasks and results,
the paused media players. Operations: hotkey press and release in three modes
(push-to-talk, toggle, hybrid); cancel key; cancel file; SIGUSR1 and SIGUSR2; five timers;
the end of the transcription task; the events of the streaming backend; startup. It talks
to the hotkey listener by a channel, to the command line (`src/src/main.rs`) by signals and
files, to blocking tasks that load and transcribe, to the streaming backend by a channel of
64 events, to `playerctl` and to the output chain. Hard: a cancel while a task runs; chunk
tasks that outlive the tick that spawned them; a stop of a stream whose last words are still
to come; a hybrid press that is a tap, a hold or neither; failures after the state has been
half updated. Correct when `Transcribing` always has its task; text is made of the audio of
its own recording and never of one that was cancelled; events of an old stream never reach a
new session; Idle holds nothing; overrides and paused players end with the recording; every
recording ends.

**The event loop: timers.** Each turn of `select!` builds its timers anew (25 ms for an
undecided hybrid press, 50 ms for an active meeting, 100 ms for recording, transcribing and
the meeting commands, 500 ms for idle). Hard: a timer slower than another enabled one never
fires; a stream that was stopped stays in its state without a microphone. Correct when every
tick that others rely on does run.

**Meeting mode.** State: `meeting_daemon` with the meeting's state and the offset per
source, two sample buffers, an event channel of 32, the row in SQLite, the meeting state
file, four command files. Operations: start, pause, resume, stop (from two arms and by the
limit), fetch samples, process a chunk pair, align the sources, receive an event; cleanup at
startup. Hard: an arm that awaits its own channel; two sources with one clock each; commands
that meet the meeting in any arm; storage, devices or chunks that fail; a daemon that is
killed. Correct when stamps follow the microphone, a stop flushes and takes effect, and the
database and the state file agree with the daemon.

**Streaming session and backends.** `output/streaming.rs` keeps the finalized text and the
partial at the cursor and types the difference; `transcribe/soniox.rs`
(`Reconciler::process`) and `transcribe/parakeet_streaming.rs` turn what is heard into
partials, finals and replacements. Hard: the server revises what it said; a tool fails
between backspaces and typing; an output that succeeds types more than the text, or nothing;
the bounded channel; every way a stream can end. Correct when what is at the cursor is what
was finalized followed by the pending partial, and the session takes back what it typed and
nothing of what the user had.

**Eager chunks.** `eager.rs` cuts a recording into overlapping chunks, counts them and
combines their texts without the duplicates of the overlap; the daemon runs a task for each.
Correct when the chunks cover the audio, each is combined once and in order, and no word is
doubled at a boundary.

**Model manager and workers.** `model_manager.rs` caches engines under a limit, prepares
worker subprocesses, evicts the least recently used and the idle; `transcribe/worker.rs` and
`subprocess.rs` are a worker's life. Hard: prepared workers share the map of the cache; a
cancelled recording leaves its worker, its chunks in flight and perhaps its transcriber
behind; the chunks' tick does not wait for what is being prepared. Correct when the primary
model stays, the limit holds, and a recording and its chunks get their own model.

**Hotkey listener.** `hotkey/evdev_listener.rs` keeps the modifiers it believes held, the
last profile and whether the hotkey is pressed; `hotkey/capture.rs` lets the settings grab a
key by a lock file. Hard: devices unplugged with keys down, captured keys queued in the
kernel and in the channel, a release while the channel is full. Correct when no key is
believed down that is up, and captured keys start nothing.

**Output chain and modifier guard.** `output/mod.rs` tries methods in order; each is calls
of tools that may be missing or fail. Hard: failure halfway, a user who still holds a
modifier, a user who copies during a paste. Correct when the text arrives once or not at all
and the clipboard ends as promised.

**Capture and levels.** `audio/cpal_capture.rs`: a thread with a command channel and a
buffer shared with the device's callback; `audio/levels.rs`: emitter, hub, watchdog;
`osd/ipc.rs`: the display that connects for ever. Hard: a call given up whose answer comes
late, full channels, hub tasks that die. Correct when no sample is given twice or out of
order, a subscriber misses no frame the hub took, and the hub heals.

**Startup and shutdown.** The head and tail of `run()`: cleanup of stale files and meetings,
pid file, level socket, lock. Hard: two at once, a lock of a dead process, a crash anywhere.
Correct when the lock names the running daemon and a lone daemon finds a clean desk.

**The rest.** Engines, diarization, VAD, export, summary and text rules keep no state
between calls; configuration, setup, terminal interface, menu bar and frontends edit files.
`PROJECT.json` lists every component with its status; section 8 says why some are left out.

## 2. How the modules correspond to the code

### Dictation

Every arm of the `select!` that belongs to dictation is one action, and a handler that
several arms call is an operator they share: `StopRecording` is `start_transcription_task`
with the transcriber it needs, `StopEager` is `finish_eager_recording`, `StopStreaming` is
`stop_streaming_capture`; `ResetToIdle`, `CancelStreaming` and `CloseStream` keep their
names. An arm runs to its end before the loop looks at another event, so an arm is atomic;
the environment (key, command line, tasks, backend) moves between arms.

Recordings are numbered in the order they are attempted, and a field that is an `Option` in
the code holds the number of the recording its content was made for. A resource that outlives
its recording is thereby visible: `audio_capture = 1` while `rec = 2`. `output`, `discarded`
and `live_text` are history: whose audio went into whose text, which recordings were
cancelled, whose streamed text stands at the cursor. The options that change control flow are
the fields of `ConfigType`; a daemon is started with any member of `Configs` and keeps it.

Choices made: a start may be ignored by a settings window that captures the key
(`PressIgnored`); a record command writes its files in one step and signals in another, and
two commands do not overlap; the hold threshold is shorter than the recording limit, as with
the defaults; `IdleTick` is an over-approximation, since `EventLoop` shows that its arm never
runs; `State::Outputting` is never left between two turns and is not modelled; hooks, sounds
and notifications have no part in the properties.

### EventLoop

Time goes in units of 25 ms, the shortest period, and `waited` counts those since this turn
began. `Elapse` lets time pass while no enabled timer is due; `Fire(arm)` is any due arm,
since `select!` chooses at random; `Event` and `RequestCancel` stand for everything else. The
bodies of the arms are reduced to what the timers decide: the limit, a cancel, the end of the
hybrid window, the eviction. `InRecording` is `State::is_recording`, true of a stream too, and
`capture` says whether the microphone is open, without which the limit is not looked at
(`TooLong`): a batch recording is stopped (`StopBatch`), a stream begins its drain and stays
what it is (`BeginDrain`). The daemon's task is assumed to run as soon as a timer is due
and to take no time, which favours the code: a slow body starves nothing more.

### Meeting

`arm` says where the daemon's task is: in `select!`, or within an arm at one of its awaits.
Capture (`Hear`), commands (`Command`) and a kill (`Restart`) happen between any two of the
daemon's steps. Audio is counted in units; `heard`, `fetched` and `taken` say how far the
capture, the meeting's buffer and the chunk loop have come, and each unit of the transcript
is kept with the stamp it got. `Hear` is one of two independent capture threads: the loopback
may deliver early, late, in bursts or never.

`process_chunk_with_source` is `Process`: nothing unless the meeting is active, the offset
advanced in any case, then the transcription and the send, which waits while the channel is
full (`events < Capacity` is the guard). `stop_meeting` is `BeginStop`, the chunk loop with
`ending` set, `SaveMeeting` and `FinishStop`, with the failures of each.

### LiveTyping and LiveText

A stream from the press to the end of its text. The recogniser (`ServerMessage`, external) says
more and revises what is not final; `FinalEvents` and `StillPartial` are `Reconciler::process`,
and `DecodeChunk` is Parakeet's loop, which sends deltas. `outbox` is what the task is about to
send, `channel` what it has sent; `Pump` is the daemon's arm for one event, in which
`TypePartialDelta`, `CommitSegment`, `ReplaceAndCommit` and `Rewind` are the session's operations.
`Deliveries` is what `output_with_fallback` may do with a text and report of it, by what can go
wrong with the configured chain (`Faults`): all fails; its last drivers, the clipboard's, succeed
and type nothing; a tool types a part and fails, and the next types all; and what it types after
each text, `append_text` and the Enter of `auto_submit` (`trailer`). The session sees success or
failure only; `lost` counts the letters of the user's own text that backspaces beyond the stream's
have erased. Every end is there: the key, a cancel, the server's or the model's end, and the drain
deadline.

`LiveText` says what the user is promised: text that is revised at its end, a committed part
that stays, and an end at which all is kept or all goes. `KeepsThePromise` checks that
`LiveTyping` implements it, with `shown` as the cursor and `committed` as the finalized text
of the session; the mapping is constant where something can go wrong (not `Sound`), and the
code promises nothing.

### EagerGeometry and EagerChunks

`EagerGeometry` has the arithmetic of `eager.rs` on its own. In `EagerChunks` a sample is the word
spoken in it, so that a chunk's text is a sequence of words and a doubled or swallowed word can be
seen. `RecordingTick` spawns a task for each complete chunk and polls those that ended;
`StopEager` and `Finish` wait for the rest, transcribe the tail and combine by index with
`DeduplicateBoundary`. What the code does in place, partitioning the tasks and sorting the
results, is `Arranged`: the elements at some places in the order of their keys. That this takes a
repeated word for a duplicate is in the model: `NoWordIsDoubled` holds of every recording,
`TextIsWhatWasHeard` of one in which no word is spoken twice.

### ModelManager

`loaded_models` is the one map the code has, from keys (`model`, or `_prepared_` with the
model) to transcribers, each of which is known by the recording that made it. `Press` prepares
(push-to-talk, toggle and record start), `HybridPress` does not; `Stop` waits for the press's
prepare task and takes what is prepared or cached, or loads it; `CancelByFile` and `CancelByKey`
leave map and worker alone, and the key leaves the loop's `eager_transcriber` too; `EvictLru`
takes the least recently used and `EvictIdleModels` those that aged. `EagerTick` takes the
transcriber of the chunks without waiting for anything and starts chunks on the blocking pool,
where a cancel does not reach them; `StopEager` obtains a second transcriber, and `FinishEager`
waits for the chunks and runs the tail. A worker is one of a transcriber in `preparing` or
`ready` or of a task in `spawning` or `transcribing`; a prepared one lives as long as map, loop
or task holds its transcriber. Two tasks of one transcriber spawn in turn in the code, under its
lock, and in any order here. Models that are loaded on demand have no manager that lasts and are
left out, as are the chunks that a stop without a transcriber leaves behind.

### Hotkey

The kernel's queue, the batch the listener has polled, and the channel to the daemon are
three queues of the same events; `Handle` is the listener's match on one event, which waits
while the channel is full. `Unplug` loses what was queued; `StartCapture` and `EndCapture` are
the settings' process with its lock file. It ends by the clock, 150 ms after the key's release,
whether or not the listener, which may sleep as long itself or wait for room in the channel, has
polled what the capture took; `overtaken` remembers that it had not.

### Output

`pc` follows `output_with_fallback`; a method is the list of calls of external tools it has
still to make (`CallsOf`): one that does not start is an error, one that exits with an error
only if it is `needed`. dotool is given its commands by lines, so of a text of several lines it
types the first and takes the others for commands (`DotoolText`). The application that is
pasted into reads the clipboard in a step of its own, and the user may copy once and hold or
release a modifier at any time. `DelayIsOver` assumes that `restore_clipboard_delay_ms` is
long enough for that application.

### AudioPath

The device's callback hands over chunks of samples; the thread answers the daemon's `GetSamples`
and `Stop` on a channel per call, and `CallFails` is the daemon's timeout, after which the answer
is lost with its samples. The hub's tasks may die (`AcceptDies`, `BroadcastDies`); `WatchdogWakes`
and `Rebind` are the watchdog. The display subscribes, reads, loses its connection and connects
again.

### Startup

`run()` up to the lock in the order of the code, one step per file or database it touches, for any
set of processes; the steps that the code runs on without (completing meetings, pid file, level
socket) may fail and are then in `missing`; `Crash` at any of them, `Shutdown`, and the command
line, which reads the lock, removes it if its process is dead, and sends a command file. The lock
crate's create-if-absent is external. A process id is not used twice.

### How they fit together

The modules share what the code shares through the daemon and are not composed into one: the
product of their states is out of reach and the interfaces are narrow. `Dictation` says when a
recording, a stream or an eager recording starts, stops and is cancelled; `LiveTyping`,
`EagerChunks` and `ModelManager` repeat that skeleton as their environment, each with the orders
of those events that matter to it (in `ModelManager` of preloaded Whisper models, which
`Dictation` leaves out of its properties about chunks and transcribers). `Dictation` takes the
recording tick for granted; `EventLoop` shows that it runs while no meeting is active, and never
during one (`MeetingStarvesDictation`), which is why `Meeting` may assume that the 50 ms arm
starves the slower poll (`PollStart`). `Startup` is what happens before and after all of them.

## 3. Runs

Every property of a passing run has a mutant in `PROJECT.json`: an operator in the module,
marked *Mutant*, that changes one definition the way a plausible slip in the code would, and
under which the run finds the property violated.

| Run | Bounds | States | Shows |
| --- | --- | --- | --- |
| `dictation` | eight configurations, three recordings | 751,000 | ownership of tasks, chunks, streams, microphone, text, players, override files; Idle is clean; every recording ends |
| `meeting` | three setups, two meetings, 4 units of audio of each source, chunks of 2, channel of 8 | 362,000 | stamps, alignment, database and state file, flush at a stop, stops take effect |
| `event_loop` | four events, hold 50 ms, limit 150 ms | 2,300 | without a meeting a cancel is seen and the limit closes the microphone |
| `live_typing` | two letters, texts of 2, two messages, channel of 2, both backends, four outputs (sound; failing; failing halfway with a trailer; only copying) | 803,000 | the cursor follows the server, the session knows the cursor, a cancel erases no more than was typed, `LiveText` is implemented, a stopped stream is over |
| `eager_chunks` | five words, three geometries (also an overlap beyond half, and none) | 76,000 | each chunk once, nothing skipped, nothing doubled |
| `model_manager` | three models and an unknown one, cache of two, three recordings, one chunk | 868,000 | the limit and the primary model, own model and own worker, chunks of the own model, no second worker |
| `hotkey` | five keys, with and without a required modifier, three strokes, one disturbance, channel of 1 | 3,164,000 | no phantom keys, captured keys start nothing, a bare hotkey is followed |
| `output` | every mode, two driver orders, four sets of tools, every option, a text of two lines | 102,000 | once or not at all, no keys after the time-out, the clipboard |
| `audio_path` | four samples, frames of two, channels of 1, two faults | 402,000 | samples once and in order, no frame missed, the hub heals |
| `startup` | three processes up to symmetry, one command | 2,017,000 | the lock names the daemon, a lone daemon is clean of what its start could deal with |
| `hotkey_release` | as `hotkey` | | violated: a modifier that goes up first takes the release with it |
| `startup_meeting` | as `startup`, two commands | | violated: a refused start ends the running daemon's meeting |

Why the bounds suffice. *Dictation*: a resource of the first recording can survive the second and
be met by the third; the configurations combine the options so that each pair of handlers that
could disagree meets. *Meeting*: four units and chunks of two give two whole chunks, a tail, a
source that is behind, ahead or silent, and an empty remainder; the second meeting meets what the
first left; the channel holds what such a meeting can queue, the case of a backlog that fits (the
other one is a deadlock, section 6). *EventLoop*: only the order of the periods matters; the
threshold spans two hybrid ticks, the limit more than one recording tick. *LiveTyping*: two
letters of each message give a common prefix, a revision and an extension, the second message
revises what the first left, and a partial, a final and the end fill a channel of two with the
task about to send; an output of each kind meets each event. *EagerChunks*: five words are three
overlapping chunks and a tail. *ModelManager*: a cache of two with three models must evict; three
recordings let what one left, cancelled in any way, be met by the next two, in the map and as a
chunk in flight; one chunk is the one that takes the worker. *Hotkey*: three strokes press hotkey
and two modifiers; a channel of one is full with one event behind it. *Output*: the chain ends by
itself. *AudioPath*: every channel can be full, and two faults kill both hub tasks. *Startup*: two
that race over the lock of a third.

Some properties are stated under a condition that names the code's own exception: `Reliable` (the
stop path cannot fail to obtain a transcriber), `StreamsLeftAlone` (no record commands next to a
stream), `Endless` (a stop signal between press and release of a hybrid key), setups without the
fault in question, `~copied` and `~halfway` in `Output`, `~stolen` and `missing` in `Startup`,
`~overtaken` in `Hotkey`, `~hybrid`, `~cancel_key` and `~eager_processing` in `ModelManager`, and
in `LiveTyping` `Truthful` (outputs report what they typed) and `Sound` (nothing goes wrong), or
that no output only copies. Where the condition fails the property fails; section 6 says how.

`PrivateFinals` is FALSE in `live_typing`: the server finalizes nothing before a hybrid press
is decided. Otherwise the text is scrambled (section 6). `CHECK_DEADLOCK FALSE` stands where
the bounds, or the end of one stream, recording, text or process, let the system stop.

## 4. Fairness

- `Dictation`: weak fairness of the cancel tick and of the limit of a batch recording
  (timers), of the end of a transcription (a blocking task with a result or an error), and of
  the end of a backend whose audio was cut (its input channel is closed). None for the key,
  the commands or the backend's text. That a stream reaches its limit is not claimed: its
  events end turns of the loop, and each turn starts the timers anew.
- `EventLoop`: weak fairness of time; strong fairness of each arm, which is the random choice
  `select!` makes among the arms that are ready.
- `Meeting`: weak fairness of `DaemonStep`, the daemon's own task: the runtime runs a task
  that can run. A send on a full channel cannot, and gets none.
- `LiveTyping`: weak fairness of the backend's task, step by step, of its drain timer and of
  the daemon's pump. None for the server, which may fall silent, for a connection other than
  that its attempt ends, or for the user.
- `AudioPath`: weak fairness of the hub's tasks, of the watchdog's timer and of the display,
  which all are loops that the runtime runs. None for faults, device or daemon.

The other modules are checked for safety and state none.

## 5. Theorems

They hold for every value of the constants that satisfies the named assumptions of the
module: any configurations, any number of recordings, meetings, keys, processes or models,
any texts, thresholds and capacities. TLC evaluates the assumptions in the runs.

| Module | Theorems | Inductive invariant and argument |
| --- | --- | --- |
| `DictationProofs` | `TypeCorrect`; `TranscribingTask`, `HybridFlags`, `StateFile` (`StateMeaning`); `StreamOwnership`; `DiscardedStaysDiscarded`; `OwnAudio`; `OverridesEnd`; `RecordingHasMic`; `CleanIdle`; `MediaPlayAgain` | every step is one of some seventeen handlers (`StepIsAHandler`) and each invariant is proved handler by handler. `Lifecycle`: the four about state, task, flags and stream hold one another up. `ChunksAreWanted` and `ChunksAreCurrent`: no chunk waits that was discarded, and with an engine that is always there chunks wait only while their recording runs. For the microphone, Idle and the players: which configurations reach which flags |
| `DaemonProofs`, `EventLoop` | `LoopTypeCorrect`, `IdleArmStarves`, `MeetingStarvesDictation` | the meeting poll has no guard, so a turn lasts 100 ms at most, 50 ms during a meeting; the idle arm takes five times as long |
| `MeetingProofs` | `TypeCorrect`, `StampsAreRight`, `SourcesStayAligned`, `OthersAreTold`, `NothingSaidIsLost` | `Control`: where the task is fits the meeting, and the published state is right in every arm; `Sound`: what was fetched, taken and transcribed are beginnings of what was heard, and each source's clock follows from what was taken, so that a stop that has gone through its arms has flushed |
| `LiveTypingProofs` | `TypeCorrect`, `CountIsRight`, `CancelTakesItBack`; `CursorWillAgree`, `SessionIsRight`, `PromiseIsKept` | the session's letter count is the cursor's length after any step if the outputs report what they typed, and no greater unless one only copied; a cancel deletes that many. For the other three `Believed`: the session's finalized text and partial are the cursor, and the events on their way lead, one at a time (`Leads`), from there to what the reconciler takes to be committed and shown. `PromiseIsKept` maps every step of `LiveTyping` to one of `LiveText` or to a stutter |
| `ModelManagerProofs` | `TypeCorrect`, `OwnModel`, `ChunksOwnModel`, `OneWorker`, `CacheLimit` | `Recorded`: what a key maps to has that key's model, and so has every transcriber that a task, the loop or the recording got from it (`TranscriberIsCurrent` without a cancel key); a worker that is taken was made by this recording's press, for those of earlier ones are replaced (`PressKeepsItsPromise`, `MadeByThePress`), a hybrid press excepted; tasks of earlier recordings are told apart (`TasksAreInOrder`); an insertion evicts first |
| `HotkeyProofs` | `TypeCorrect`, `NoKeyStays`, `CaptureIsPrivate`, `BareHotkey` | a belief about a key that is up is put right by a release on its way: the last event of a key in queue and batch tells its true state. `Follows` carries the same through the listener and the channel to the daemon. A captured event is looked at under the lock, unless a capture was `overtaken` |
| `OutputProofs` | `TypeCorrect`, `NoKeys`, `AllOrNothing`, `ClipboardLeft` | stage by stage, what is at the cursor and on the clipboard; for a typing tool `Progress`, which ties the calls left to the text typed, line by line |
| `DaemonProofs`, `Startup` | `TypeCorrect`, `LockOwner`, `AtMostOneDaemon`, `CleanStart` | a daemon past the lock holds it unless it was stolen; for one that was alone, each file is its own from the step on that writes it, or the step is in `missing` |
| `AudioProofs`, `AudioPath` | `AudioTypeCorrect`, `SamplesOnce`, `NothingMissed` | `OneAnswer`: the numbers of the commands grow, and no more than one answer is on its way, that of the present call. `SamplesRight`: what was delivered, the answer and the buffer are in this order a list of what was heard and not lost, and nothing unheard is lost, so the callback only appends. `HubRight`: the hub's channel is the end of what found room in it, and a subscriber's frames and queue before that channel are everything since it came |
| `AudioProofs`, `EagerChunks` | `EagerTypeCorrect`, `ChunksOnce`, `TextHeard`, `AudioCovered`, `NoneDoubled`; of the operators `CompleteChunksFit`, `BoundaryIsJoined`, `CombinedInOrder` | `Unfinished`: the indices in tasks and results are those sent, each once; a task holds the samples of its chunk and a result its words or none, also after more was heard; what was heard begins what was spoken. `DoneRight`, of a recording that is over: the text picks words from the audio in order, and the results are the chunks and perhaps the tail. See below |

**Combining the chunks.** The argument has three parts. The texts that are combined are
segments of the audio that begin and end in the order of their indices (`Covers`): for chunks
because `CompleteChunksFit`, for the tail because it begins where the next chunk would.
`BoundaryIsJoined` is the one step: if the text so far ends with the audio from `c` to `e`, and
the next segment begins at `a >= c` and ends no earlier than `e`, then the true overlap
`e - a` is one of the matches, so the longest match drops at least that; what is left picks from
the audio in order, and the result ends with the new segment, which is the premise of the next
step. A longer, accidental match only leaves words out. `PathMerges` repeats the step along the
sorted results and `CombinedInOrder` undoes the sorting (`ArrangedIs`).

**Induction over data.** The library's induction theorems take an operator and cannot be
instantiated here. `Induction` in `AudioProofs` says the same of a *set* of numbers, from the
library's fact that the order of the naturals is well founded (`WFMin`, `NatLessThanWellFounded`),
and is used for the recursive function in `CombineChunkResults` (`PathExists`, `CombineIs`,
`PathMerges`); `LiveTypingProofs` has it for `AfterEvents`. That each place of a sort has its
element (`EveryRank`) follows by counting. For this the sort and the filter are stated with
`Cardinality` (`Arranged`) and the fold as a recursive function, instead of the community modules'
operators, which take operators as parameters.

**Hypotheses.** The theorems about `LiveTyping` marked so in their statement assume
`PrivateFinals = FALSE`, that the server finalizes nothing while a hybrid press is undecided:
without it the text is scrambled (section 6, `:3731`) and the properties fail. Those of
`EagerChunks` assume `EagerAssumption`, an overlap shorter than the chunk, without which the
code divides by zero. No other theorem has a hypothesis beyond the assumptions of its module
and the conditions within the property.

**Only model-checked**: the liveness properties `RecordingEnds`, `CancelIsSeen`,
`RecordingStopsAtItsLimit`, `StopIsCarriedOut`, `StopEndsTheStream` and `HubHeals`, since the
prover treats neither fairness nor `ENABLED`. Every invariant, every action property and the
refinement that a passing run checks is proved as well.

## 6. What the code does

Two runs end with a counterexample to what the repository says of itself:

| Where | What | Run |
| --- | --- | --- |
| `hotkey/evdev_listener.rs:615` | the hotkey's release is looked at only while all modifiers are held: release the modifier first, and the recording goes on with every key up | `hotkey_release` |
| `daemon.rs:2355` | a second start completes the running daemon's meeting (and takes pid file, socket and command files) before it is refused at the lock | `startup_meeting` |

Other divergences met while modelling. The models contain the behaviour, and the properties
exclude it by the condition named:

- *The microphone stays open* when a stop cannot obtain its transcriber (`:2799`); overrides,
  chunk tasks and paused players stay too. `Reliable`.
- *The cancel file while streaming* (`:3302`) leaves backend, session and typed text.
  `StreamsLeftAlone`.
- *A cancel does not resume players*, and the next pause forgets them (`:805`).
  `discarded = {}` in `MediaResumes`.
- *The cancel key keeps the eager transcriber* (`:3188`), which the cancel file drops
  (`:3341`): the chunks of the next eager recording are transcribed with the model of the
  cancelled one. `~cancel_key` in `EagerModelIsCurrent`.
- *The chunks' tick does not wait for the prepare task* (`:3369`): it takes the prepared
  transcriber, whose chunk loads a worker of its own beside the one that is loading, and the
  stop obtains yet another. `model_manager.rs:250` says the caller must await the handle "so
  that we don't race against the in-flight prepare and end up spawning a second worker".
  `~eager_processing` in `NoSecondWorker`.
- *The hybrid press prepares nothing* (`:3101`) and so replaces nothing: its stop takes the
  worker that a cancelled recording of the same model left. `~hybrid` in
  `RecordingGetsItsModel`; the model is the right one all the same.
- *The `auto_submit` and `shift_enter` override files* outlive a cancelled recording (`:2139`);
  `OverridesEndWithTheRecording` names the others.
- *A stop signal during a hybrid press* closes the capture of the stream; if the key's release
  is then a tap, the batch recording it leaves has no microphone, and nothing times it out
  (`:3418`). `Endless`; `capture` in `RecordingStopsAtItsLimit`.
- *A meeting's pause does not pause the capture* (`:1473`): what is said is transcribed on
  resume, if capture kept it. The stamps are right of it.
- *The meeting's event channel is received by the task that sends* (`meeting/mod.rs:395`):
  more than 32 chunk events in one arm, after a long pause, stop the daemon for good.
  `Capacity` in the run.
- *A loopback that delivers nothing at first* is not aligned: it has no entry in
  `source_offsets` while it is empty (`meeting/mod.rs:284-294` aligns the entries there are), so
  that its first audio is stamped from 0, although the comment there says that a source with "a
  short or empty chunk (e.g. loopback monitor lagging at startup) catches up to wall-clock".
  Audio it delivers late or in a burst is stamped with the microphone's it is fetched with, and
  a tail longer than the microphone's runs past the end of the meeting. `StampsFollowTheMic`
  promises of the loopback's stamps no more than their order and that they stay behind the
  microphone's until the tail.
- *A daemon killed between saving a meeting and announcing it*: the next start rewrites the
  meeting's state file only if it completed a row (`:504`), so the file goes on saying
  "recording". `~setup.restarts` in the second half of `PublishedStateIsCurrent`.
- *A meeting whose capture fails to open* leaves the state file at recording (`:1317`).
  `setup.faults`.
- *During a meeting* the recording's limit, its cancel file and its eager chunks are never
  looked at (`:3300`); *the idle arm never runs at all* (`:3862`), so nothing idle is evicted.
  Proved: `MeetingStarvesDictation`, `IdleArmStarves`.
- *Finals that arrive while a hybrid press is undecided* are typed at once and the buffered
  partials after them (`:3731`). `PrivateFinals`.
- *A chain that ends in the clipboard drivers* (the default one, `output/mod.rs:251`) returns
  success for a text that was copied, and the session counts it as typed
  (`output/streaming.rs:123`, `:191`, `:249`): the next revision or cancel sends that many
  backspaces into the user's own text. `streaming.rs:66` says "For accurate
  rewinding we count *typed* output". `"clipboard" \notin faults`.
- *`append_text` and `auto_submit`* of the configured chain are typed after every delta
  (`:922`, `output/wtype.rs:183`) and not counted: revisions erase the wrong letters and a
  cancel leaves a residue. `trailer = <<>>` in `Truthful`.
- *An empty final* clears the partial without adding it to the session's text
  (`output/streaming.rs:170`): the cursor keeps it, the history does not.
- *Parakeet drops a delta equal to the one before* (`parakeet_streaming.rs:219`):
  `CursorFollowsServer` is of Soniox.
- *A cancel that meets a full event channel hangs* (`:1058`): it awaits the backend without
  receiving. `~cancel` in `StopEndsTheStream`.
- *An overlap as long as the chunk* divides by zero (`eager.rs:103`). The assumption
  `EagerAssumption` excludes it; the code does not check it.
- *`max_loaded_models = 1`* keeps two: the primary is never evicted. `MaxLoaded >= 2`.
- *A cancelled press leaves its prepared worker* until the next press of that model or an idle
  eviction (which never comes, see above).
- *A wait for modifiers that times out* says the text is on the clipboard even if the chain has
  no clipboard method (`output/mod.rs:483`), and a *paste key that no tool can send* leaves the
  user's clipboard replaced (`paste.rs:850`).
- *A tool that fails halfway* has the next one type all of the text again, also if only the
  call for Enter or `append_text` could not be started (`output/wtype.rs:138`). `~halfway`.
- *dotool and a text of several lines* (`output/dotool.rs:157`): "type" is written before the
  first line only, so the others are read as commands of dotool, and the output is a success.
  `Bodies` in `TextArrivesOnce`.
- *A capture by the settings that ends before the daemon's listener has polled* what it took:
  the program sleeps 150 ms (`hotkey/evdev_listener.rs:425`, "Drain the daemon's queued
  press/release before relinquishing the lock"), while the listener may sleep as long and
  enumerate devices (`:321`), or wait for room in the channel (`:606`, `:645`). The captured key
  then starts a recording. `~overtaken`.
- *A start runs on without a pid file* (`:122`), *without the level socket* (`:2382`) *and with
  the meetings of a dead daemon open* (`:512`), if it cannot write, bind or open the storage;
  `tui/app.rs:509` reads the pid file, displays connect to the socket. `missing` in
  `StartIsClean`.
- *Two starts over one stale lock*: the second removes the first one's new lock and both run
  (`:153`); a command can do the same (`main.rs:1019`). `~stolen`.

## 7. Assumptions about the environment

The paste target reads the clipboard within the restore delay; process ids are not used again;
two record commands do not overlap; the pidlock crate creates its file if and only if there is
none; tools type in order what they are given; `emit_backspaces` sends all backspaces or none,
as its comment says, and one tool of a chain at most fails halfway in a text of live typing.

## 8. Not modelled

- *Configuration, setup, terminal interface, menu bar, notifications, frontends, packaging*
  (about half of the implementation's lines: `config.rs`, `cli.rs`, `setup/`, `tui/`): they
  parse, print and edit files or draw. What they decide is in `ConfigType` and the constants.
- *Inference engines* (`transcribe/whisper.rs` and the rest), *VAD*, *audio enhancement and
  feedback*, *diarization*, *summaries*: functions of their input or of a network, numeric or
  outside TLC's reach. Their outcome is a choice: text, nothing, an error.
- *Text processing, export*: rewriting of strings with no state. *History*: a bounded file.
- *macOS listeners and drivers* (`hotkey_macos.rs`, `cgevent.rs`, `osascript.rs`,
  `pbcopy.rs`): a second implementation of what `Hotkey` and `Output` model for Linux.
- *The OSD supervisor's child process*, which is spawned and restarted without effect on the
  daemon; only the display's connection is in `AudioPath`.
- *Meeting commands other than start, stop, pause, resume*, the transcript and metadata files.

The map covers about a ninth of the lines the repository has, and nearly all of those in
which order, concurrency and failure decide: the rest is the list above.

## 9. What is left of the plan

The abstract specification of a recorder (each recording ends transcribed or discarded, in
order) that `Dictation` would implement, with its refinement proved; the same for a meeting; a
composition of `LiveTyping` with `Dictation`'s ends of a stream. The number of runs is kept to
what a reader can follow, one for each module and each finding.

## 10. Running

    tlc -config Dictation.cfg MCDictation          tlapm DictationProofs.tla
    tlc -config EventLoop.cfg MCEventLoop          tlapm DaemonProofs.tla
    tlc -config Meeting.cfg MCMeeting              tlapm MeetingProofs.tla
    tlc -config LiveTyping.cfg MCLiveTyping        tlapm LiveTypingProofs.tla
    tlc -config EagerChunks.cfg MCEagerChunks      tlapm AudioProofs.tla
    tlc -config ModelManager.cfg MCModelManager    tlapm ModelManagerProofs.tla
    tlc -config Hotkey.cfg MCHotkey                tlapm HotkeyProofs.tla
    tlc -config HotkeyRelease.cfg MCHotkey
    tlc -config Output.cfg MCOutput                tlapm OutputProofs.tla
    tlc -config AudioPath.cfg MCAudioPath
    tlc -config Startup.cfg MCStartup
    tlc -config StartupMeeting.cfg MCStartup

`HotkeyRelease.cfg` and `StartupMeeting.cfg` end with a counterexample. `live_typing`, `startup`
and `hotkey` take about two minutes with two workers, the others less than one.
