----------------------------- MODULE Dictation -----------------------------
(***************************************************************************)
(* The daemon's dictation lifecycle: src/src/daemon.rs, Daemon::run.       *)
(*                                                                         *)
(* One task owns every variable below and loops on tokio::select!.  An arm *)
(* of the select! runs to its end before the loop looks at another event,  *)
(* so each action is one arm, or one handler the arm calls.  What happens  *)
(* between two arms is up to the outside: the key, the record commands of  *)
(* the command line (files, then a signal), the transcription threads and  *)
(* the streaming backend.                                                  *)
(*                                                                         *)
(* Recordings are numbered 1, 2, ... in the order they are attempted; 0    *)
(* stands for Rust's None.  A variable that holds an Option of a recording *)
(* resource holds the number of the recording the resource was made for,   *)
(* so that a resource that outlives its recording can be told apart.       *)
(***************************************************************************)
EXTENDS Naturals

CONSTANTS
  Configs,       (* the configurations the daemon may be started with       *)
  MaxRecordings  (* the number of recordings attempted in a behaviour       *)

Modes == {"push_to_talk", "toggle", "hybrid"}

(* The per-recording override files of the runtime directory.              *)
OverrideFiles == {"output_mode", "model", "profile", "smart_auto_submit",
                  "auto_submit", "shift_enter"}

(* What of the configuration file decides the control flow.                *)
ConfigType ==
  [ mode        : Modes,                 \* [hotkey] mode, as configured
    streaming   : BOOLEAN,               \* the preloaded engine streams
    on_demand   : BOOLEAN,               \* models are loaded per recording
    fallible    : BOOLEAN,               \* the model manager may fail (Whisper)
    eager       : BOOLEAN,               \* eager_processing
    pause_media : BOOLEAN,               \* [audio] pause_media
    level_hub   : BOOLEAN,               \* the OSD is enabled
    hotkey      : BOOLEAN,               \* [hotkey] enabled
    cancel_key  : BOOLEAN,               \* [hotkey] cancel_key is set
    cli         : BOOLEAN,               \* record commands are in use
    flags       : SUBSET OverrideFiles ] \* the override flags they pass

(* An engine streams only when it was preloaded, and handing out a         *)
(* preloaded engine never fails.                                           *)
ASSUME ConfigsAssumption ==
  /\ Configs \subseteq ConfigType
  /\ \A c \in Configs : c.streaming => ~c.on_demand /\ ~c.fallible

ASSUME MaxRecordingsAssumption == MaxRecordings \in Nat

VARIABLES
  config,                \* fixed at startup
  state,                 \* the State enum
  rec,                   \* recordings attempted so far (not in the code)
  audio_capture,
  model_load_task,
  transcription_task,
  streaming_handle,      \* the backend: event channel, cancel sender, task
  streaming_session,     \* with streaming_chain, which is set when it is
  streaming_drain_pump,
  hybrid_pending,
  hybrid_live,
  eager_transcriber,
  eager_chunk_tasks,     \* recordings with a chunk being transcribed
  chunk_results,         \* recordings with a chunk in State::EagerRecording
  paused_media_players,  \* is the list of players to resume non-empty?
  music,                 \* "playing", "paused" by the daemon, or "off"
  overrides,             \* the override files present
  state_file,
  cancel_file,
  key_down,              \* the push-to-talk key
  cli,                   \* a record command between its files and its signal
  sigusr1, sigusr2,      \* signals sent and not yet received
  live_text,             \* recordings with streamed text at the cursor
  output,                \* <<r, s>>: r's output contained audio of s
  discarded              \* recordings cancelled, or lost in a restart

streamVars == <<streaming_handle, streaming_session, streaming_drain_pump>>
hybridVars == <<hybrid_pending, hybrid_live>>
eagerVars  == <<eager_transcriber, eager_chunk_tasks, chunk_results>>
mediaVars  == <<paused_media_players, music>>
textVars   == <<live_text, output, discarded>>
signalVars == <<cli, sigusr1, sigusr2>>
stateVars  == <<state, state_file>>

vars == <<config, stateVars, rec, audio_capture, model_load_task,
          transcription_task, streamVars, hybridVars, eagerVars, mediaVars,
          overrides, cancel_file, key_down, signalVars, textVars>>

Recordings == 0 .. MaxRecordings

States == {"Idle", "Recording", "EagerRecording", "Streaming", "Transcribing"}

(* State::is_recording.                                                    *)
IsRecording == state \in {"Recording", "EagerRecording", "Streaming"}

(* Streaming and push-to-talk exclude each other: the daemon promotes the  *)
(* mode to toggle for the session.                                         *)
Mode == IF config.streaming /\ config.mode = "push_to_talk"
        THEN "toggle" ELSE config.mode

Init ==
  /\ config \in Configs
  /\ state = "Idle"
  /\ state_file = "idle"
  /\ rec = 0
  /\ audio_capture = 0
  /\ model_load_task = 0
  /\ transcription_task = 0
  /\ streaming_handle = 0
  /\ streaming_session = 0
  /\ streaming_drain_pump = FALSE
  /\ hybrid_pending = FALSE
  /\ hybrid_live = FALSE
  /\ eager_transcriber = 0
  /\ eager_chunk_tasks = {}
  /\ chunk_results = {}
  /\ paused_media_players = FALSE
  /\ music \in {"playing", "off"}
  /\ overrides = {}
  /\ cancel_file = FALSE
  /\ key_down = FALSE
  /\ cli = "none"
  /\ sigusr1 = FALSE
  /\ sigusr2 = FALSE
  /\ live_text = {}
  /\ output = {}
  /\ discarded = {}

-----------------------------------------------------------------------------
(* Helpers of the handlers.                                                *)

GoTo(s, name) == state' = s /\ state_file' = name

(* pause_media_players replaces the list by the players playing now.       *)
PauseMedia ==
  IF config.pause_media
  THEN /\ paused_media_players' = (music = "playing")
       /\ music' = IF music = "playing" THEN "paused" ELSE music
  ELSE UNCHANGED mediaVars

ResumeMedia ==
  /\ paused_media_players' = FALSE
  /\ music' = IF paused_media_players THEN "playing" ELSE music

(* Mutants: the players stay paused; the state file is not updated.        *)
ResetToIdleSilently ==
  overrides' = {} /\ UNCHANGED mediaVars /\ GoTo("Idle", "idle")

ResetToIdleUnannounced ==
  overrides' = {} /\ ResumeMedia /\ state' = "Idle" /\ UNCHANGED state_file

(* reset_to_idle: every override file goes, the players resume.            *)
ResetToIdle ==
  /\ overrides' = {}
  /\ ResumeMedia
  /\ GoTo("Idle", "idle")

(* Mutant: the output mode is forgotten.                                   *)
CancelCleansButTheMode == {"model", "profile", "smart_auto_submit"}

(* The files the cancel paths and the recording timeout remove.            *)
CancelCleans == {"output_mode", "model", "profile", "smart_auto_submit"}

ClearHybrid == hybrid_pending' = FALSE /\ hybrid_live' = FALSE

(* Mutant: the pump outlives the stream it drains the microphone for.      *)
CloseStreamButThePump ==
  /\ audio_capture' = 0
  /\ streaming_handle' = 0
  /\ streaming_session' = 0
  /\ UNCHANGED streaming_drain_pump

(* The end of a stream: the capture, the backend, the session, the pump.   *)
CloseStream ==
  /\ audio_capture' = 0
  /\ streaming_handle' = 0
  /\ streaming_session' = 0
  /\ streaming_drain_pump' = FALSE

(* Mutant: the running chunk tasks are forgotten, not aborted.             *)
DropResultsOnly == chunk_results' = {} /\ UNCHANGED eager_chunk_tasks

(* A cancel aborts the running chunk tasks; the results so far go with the *)
(* state that holds them.                                                  *)
DropChunks == chunk_results' = {} /\ eager_chunk_tasks' = {}

(* get_transcriber_for_recording: the load task is consumed either way.    *)
TakeTranscriber ==
  /\ config.on_demand => model_load_task # 0
  /\ model_load_task' = IF config.on_demand THEN 0 ELSE model_load_task

(* Its error path: the caller goes to Idle and does nothing else.          *)
NoTranscriber ==
  /\ config.on_demand \/ config.fallible
  /\ model_load_task' = IF config.on_demand THEN 0 ELSE model_load_task
  /\ GoTo("Idle", "idle")

(* handle_transcription_result with a text: the override files it reads    *)
(* are consumed.  Output to a file returns before the two key flags.       *)
Deliver(sources, files) ==
  /\ output' = output \cup {<<rec, s>> : s \in sources}
  /\ \E toFile \in BOOLEAN :
       overrides' = files \ (IF toFile
                             THEN {"output_mode", "profile", "smart_auto_submit"}
                             ELSE OverrideFiles \ {"model"})
  /\ ResumeMedia
  /\ GoTo("Idle", "idle")
  /\ UNCHANGED <<live_text, discarded>>

-----------------------------------------------------------------------------
(* Starting a recording from Idle.                                         *)

(* Mutant: a session that is still there goes on.                          *)
OpenStreamOnce ==
  /\ streaming_handle' = rec + 1
  /\ streaming_session' = IF streaming_session = 0 THEN rec + 1
                                                   ELSE streaming_session

OpenStream == streaming_handle' = rec + 1 /\ streaming_session' = rec + 1

(* try_start_streaming succeeds; hybrid keeps the first partials private.  *)
StartStreaming(hybrid) ==
  /\ config.streaming
  /\ audio_capture' = rec + 1
  /\ OpenStream
  /\ hybrid_pending' = (hybrid \/ hybrid_pending)
  /\ hybrid_live' = (hybrid_live /\ ~hybrid)
  /\ PauseMedia
  /\ GoTo("Streaming", "streaming")
  /\ UNCHANGED <<streaming_drain_pump, chunk_results>>

(* The batch path: no streaming engine, or the stream did not start.       *)
StartBatch(eager) ==
  /\ audio_capture' = rec + 1
  /\ chunk_results' = {}
  /\ PauseMedia
  /\ GoTo(IF eager THEN "EagerRecording" ELSE "Recording", "recording")
  /\ UNCHANGED <<streamVars, hybridVars>>

(* Mutant: the state is entered before the device is known to be open.     *)
StartFailsRecording ==
  /\ GoTo("Recording", "recording")
  /\ UNCHANGED <<audio_capture, streamVars, hybridVars, mediaVars, chunk_results>>

(* The audio device could not be opened.                                   *)
StartFails ==
  UNCHANGED <<stateVars, audio_capture, streamVars, hybridVars, mediaVars,
              chunk_results>>

CanStart == state = "Idle" /\ rec < MaxRecordings

(* A start with the override files as the arm leaves them on success and   *)
(* on failure.  The hybrid press loads no model and records no chunks.     *)
Start(hybrid, files, filesOnFailure) ==
  /\ CanStart
  /\ rec' = rec + 1
  /\ model_load_task' =
       IF config.on_demand /\ ~hybrid THEN rec + 1 ELSE model_load_task
  /\ \/ /\ StartStreaming(hybrid) \/ StartBatch(~hybrid /\ config.eager)
        /\ overrides' = files
     \/ /\ StartFails
        /\ overrides' = filesOnFailure
  /\ UNCHANGED <<transcription_task, eager_transcriber, eager_chunk_tasks,
                 textVars>>

(* From the key: a profile modifier may be held.                           *)
StartFromKey(hybrid) ==
  \E held \in SUBSET {"profile"} :
    Start(hybrid, overrides \cup held, overrides \ {"profile"})

-----------------------------------------------------------------------------
(* Stopping a recording.                                                   *)

(* start_transcription_task, after get_transcriber_for_recording.  Audio   *)
(* that is missing, too short or silent resets the daemon.                 *)
StopRecording(files, tasks) ==
  /\ state = "Recording"
  /\ \/ /\ NoTranscriber
        /\ overrides' = files
        /\ UNCHANGED <<audio_capture, transcription_task, eager_chunk_tasks,
                       mediaVars>>
     \/ /\ TakeTranscriber
        /\ audio_capture' = 0
        /\ eager_chunk_tasks' = tasks
        /\ \/ /\ ResetToIdle
              /\ UNCHANGED transcription_task
           \/ /\ audio_capture # 0
              /\ transcription_task' = audio_capture
              /\ overrides' = files
              /\ GoTo("Transcribing", "transcribing")
              /\ UNCHANGED mediaVars
  /\ UNCHANGED <<rec, streamVars, hybridVars, eager_transcriber,
                 chunk_results, textVars>>

(* finish_eager_recording waits for every chunk task there is, transcribes *)
(* the tail and combines the results.                                      *)
StopEager(files, captureOnFailure) ==
  /\ state = "EagerRecording"
  /\ chunk_results' = {}
  /\ \/ /\ NoTranscriber
        /\ audio_capture' = captureOnFailure
        /\ overrides' = files
        /\ UNCHANGED <<eager_transcriber, eager_chunk_tasks, mediaVars, textVars>>
     \/ /\ TakeTranscriber
        /\ audio_capture' = 0
        /\ eager_chunk_tasks' = {}
        /\ eager_transcriber' = 0
        /\ \/ Deliver(chunk_results \cup eager_chunk_tasks \cup {rec}, files)
           \/ ResetToIdle /\ UNCHANGED textVars
  /\ UNCHANGED <<rec, transcription_task, streamVars, hybridVars>>

(* stop_streaming_capture; a disowned session types nothing any more.      *)
StopStreaming(disown) ==
  /\ state = "Streaming"
  /\ streaming_drain_pump' = (streaming_drain_pump \/ config.level_hub)
  /\ audio_capture' = 0
  /\ streaming_session' = IF disown THEN 0 ELSE streaming_session
  /\ UNCHANGED <<stateVars, rec, model_load_task, transcription_task,
                 streaming_handle, eagerVars, mediaVars, overrides, textVars>>

Stop(disown) ==
  \/ StopRecording(overrides, eager_chunk_tasks)
  \/ StopEager(overrides, 0)
  \/ StopStreaming(disown) /\ UNCHANGED hybridVars

(* A hybrid press released before the threshold: the decoder is cancelled, *)
(* the capture goes on as an ordinary recording.                           *)
KeepAsBatch ==
  /\ hybrid_pending
  /\ state = "Streaming"
  /\ ClearHybrid
  /\ streaming_handle' = 0
  /\ streaming_session' = 0
  /\ GoTo("Recording", "recording")
  /\ UNCHANGED <<rec, audio_capture, model_load_task, transcription_task,
                 streaming_drain_pump, eagerVars, mediaVars, overrides, textVars>>

(* A hybrid press released after it: the stream is finalized.              *)
EndHold ==
  /\ ~hybrid_pending
  /\ hybrid_live
  /\ hybrid_live' = FALSE
  /\ StopStreaming(FALSE)
  /\ UNCHANGED hybrid_pending

-----------------------------------------------------------------------------
(* Cancelling.                                                             *)

(* cancel_streaming_to_idle: what was typed is deleted again, if the       *)
(* session still knows it.                                                 *)
CancelStreaming ==
  /\ state = "Streaming"
  /\ ClearHybrid
  /\ CloseStream
  /\ live_text' = IF streaming_session # 0 THEN live_text \ {rec} ELSE live_text
  /\ ResetToIdle
  /\ discarded' = discarded \cup {rec}
  /\ UNCHANGED <<rec, model_load_task, transcription_task, eagerVars, output>>

(* The cancel key while recording without a stream.                        *)
CancelRecording ==
  /\ state \in {"Recording", "EagerRecording"}
  /\ audio_capture' = 0
  /\ model_load_task' = 0
  /\ DropChunks
  /\ overrides' = overrides \ CancelCleans
  /\ GoTo("Idle", "idle")
  /\ discarded' = discarded \cup {rec}
  /\ UNCHANGED <<rec, transcription_task, streamVars, hybridVars,
                 eager_transcriber, mediaVars, live_text, output>>

(* Mutant: the aborted task stays where the loop waits for it.             *)
CancelTranscriptionInPlace ==
  /\ state = "Transcribing"
  /\ overrides' = overrides \ CancelCleans
  /\ GoTo("Idle", "idle")
  /\ discarded' = discarded \cup {rec}
  /\ UNCHANGED <<rec, audio_capture, model_load_task, transcription_task,
                 streamVars, hybridVars, eagerVars, mediaVars, live_text, output>>

(* The cancel key, or the cancel file, while transcribing.                 *)
CancelTranscription ==
  /\ state = "Transcribing"
  /\ transcription_task' = 0
  /\ overrides' = overrides \ CancelCleans
  /\ GoTo("Idle", "idle")
  /\ discarded' = discarded \cup {rec}
  /\ UNCHANGED <<rec, audio_capture, model_load_task, streamVars, hybridVars,
                 eagerVars, mediaVars, live_text, output>>

(* The cancel file while recording, a stream included.                     *)
CancelByFile ==
  /\ IsRecording
  /\ ClearHybrid
  /\ audio_capture' = 0
  /\ model_load_task' = 0
  /\ DropChunks
  /\ eager_transcriber' = 0
  /\ overrides' = overrides \ CancelCleans
  /\ GoTo("Idle", "idle")
  /\ discarded' = discarded \cup {rec}
  /\ UNCHANGED <<rec, transcription_task, streamVars, mediaVars, live_text, output>>

-----------------------------------------------------------------------------
(* The arms of the select!.                                                *)

coreVars == <<stateVars, rec, audio_capture, model_load_task,
              transcription_task, streamVars, hybridVars, eagerVars,
              mediaVars, overrides, textVars>>

(* A press that does nothing: the arm ignores it in this state, or a       *)
(* settings window is capturing the key.                                   *)
PressIgnored ==
  /\ \/ state \in {"Idle", "Transcribing"}
     \/ Mode = "push_to_talk"
     \/ Mode = "hybrid" /\ state # "Recording"
  /\ UNCHANGED coreVars

HotkeyPressed ==
  /\ config.hotkey
  /\ ~key_down
  /\ key_down' = TRUE
  /\ \/ StartFromKey(Mode = "hybrid")
     \/ Mode = "toggle" /\ Stop(FALSE)
     \/ Mode = "hybrid" /\ StopRecording(overrides, eager_chunk_tasks)
     \/ PressIgnored
  /\ UNCHANGED <<config, cancel_file, signalVars>>

(* In hybrid mode the release decides by the flags; in toggle mode it is   *)
(* ignored.                                                                *)
ReleaseIgnored ==
  /\ \/ Mode = "toggle"
     \/ Mode = "push_to_talk" /\ ~IsRecording
     \/ Mode = "hybrid" /\ ~((hybrid_pending \/ hybrid_live) /\ state = "Streaming")
  /\ UNCHANGED coreVars

HotkeyReleased ==
  /\ key_down
  /\ key_down' = FALSE
  /\ \/ Mode = "push_to_talk" /\ Stop(TRUE)
     \/ Mode = "hybrid" /\ (KeepAsBatch \/ EndHold)
     \/ ReleaseIgnored
  /\ UNCHANGED <<config, cancel_file, signalVars>>

CancelKey ==
  /\ config.hotkey /\ config.cancel_key
  /\ CancelStreaming \/ CancelRecording \/ CancelTranscription
  /\ UNCHANGED <<config, cancel_file, key_down, signalVars>>

(* The 25 ms arm: once the hold threshold is reached, live typing begins   *)
(* with what was buffered, which may be nothing.  If there were no stream, *)
(* the press would be forgotten.                                           *)
HybridPromote ==
  /\ hybrid_pending
  /\ hybrid_pending' = FALSE
  /\ hybrid_live' = (hybrid_live \/ state = "Streaming")
  /\ \E typed \in SUBSET (IF state = "Streaming" /\ streaming_session # 0
                           THEN {rec} ELSE {}) :
       live_text' = live_text \cup typed
  /\ UNCHANGED <<config, stateVars, rec, audio_capture, model_load_task,
                 transcription_task, streamVars, eagerVars, mediaVars,
                 overrides, output, discarded, cancel_file, key_down, signalVars>>

(* The 100 ms arm while recording looks at the cancel file first.          *)
RecordingCancelled ==
  /\ cancel_file
  /\ cancel_file' = FALSE
  /\ CancelByFile
  /\ UNCHANGED <<config, key_down, signalVars>>

(* The same arm of an eager recording: get a transcriber once, spawn tasks *)
(* for the chunks that are complete, collect the tasks that have finished. *)
EagerTick ==
  /\ ~cancel_file
  /\ state = "EagerRecording"
  /\ eager_transcriber' \in
       IF eager_transcriber # 0 THEN {eager_transcriber}
       ELSE {rec} \cup (IF config.on_demand \/ config.fallible THEN {0} ELSE {})
  /\ \E spawned \in SUBSET (IF eager_transcriber' # 0 THEN {rec} ELSE {}) :
       \E finished \in SUBSET (eager_chunk_tasks \cup spawned) :
         /\ eager_chunk_tasks' = (eager_chunk_tasks \cup spawned) \ finished
         /\ chunk_results' = chunk_results \cup finished
  /\ UNCHANGED <<config, stateVars, rec, audio_capture, model_load_task,
                 transcription_task, streamVars, hybridVars, mediaVars,
                 overrides, textVars, cancel_file, key_down, signalVars>>

(* Mutant: eager recordings have no limit.                                 *)
TimeoutOfPlainRecording ==
  /\ ~cancel_file
  /\ audio_capture # 0
  /\ StopRecording(overrides \ CancelCleans, {})
  /\ UNCHANGED <<config, cancel_file, key_down, signalVars>>

(* The end of the same arm once max_duration has passed.  Of an eager      *)
(* recording the chunk work before it in the same tick adds nothing here:  *)
(* finish_eager_recording waits for every chunk.  The hold threshold (2 s  *)
(* by default) is taken to be shorter than max_duration (60 s), so that a  *)
(* hybrid press has been promoted by then.                                 *)
RecordingTimeout ==
  /\ ~cancel_file
  /\ ~hybrid_pending
  /\ audio_capture # 0
  /\ \/ StopStreaming(FALSE) /\ UNCHANGED hybridVars
     \/ StopRecording(overrides \ CancelCleans, {})
     \/ StopEager(overrides \ CancelCleans, audio_capture)
  /\ UNCHANGED <<config, cancel_file, key_down, signalVars>>

(* SIGUSR1 starts a recording when idle and consumes the model override.   *)
StartSignal ==
  /\ sigusr1
  /\ sigusr1' = FALSE
  /\ \/ Start(FALSE, overrides \ {"model"}, overrides \ {"model"})
     \/ state # "Idle" /\ UNCHANGED coreVars
  /\ UNCHANGED <<config, cancel_file, key_down, cli, sigusr2>>

StopSignal ==
  /\ sigusr2
  /\ sigusr2' = FALSE
  /\ \/ Stop(TRUE)
     \/ ~IsRecording /\ UNCHANGED coreVars
  /\ UNCHANGED <<config, cancel_file, key_down, cli, sigusr1>>

(* The transcription task has finished, with a text, with none, or with an *)
(* error.                                                                  *)
TranscriptionDone ==
  /\ transcription_task # 0
  /\ transcription_task' = 0
  /\ \/ Deliver({transcription_task}, overrides)
     \/ ResetToIdle /\ UNCHANGED textVars
  /\ UNCHANGED <<config, rec, audio_capture, model_load_task, streamVars,
                 hybridVars, eagerVars, cancel_file, key_down, signalVars>>

TranscriptionCancelled ==
  /\ cancel_file
  /\ cancel_file' = FALSE
  /\ CancelTranscription
  /\ UNCHANGED <<config, key_down, signalVars>>

(* The condition of the arm that pumps the backend's events.               *)
PumpEnabled == state = "Streaming" /\ streaming_handle # 0

(* A Partial is typed unless the hybrid press is still private; a Final or *)
(* a Replace is typed whenever there is a session.                         *)
StreamText(partial) ==
  /\ PumpEnabled
  /\ streaming_session # 0
  /\ partial => ~hybrid_pending
  /\ live_text' = live_text \cup {streaming_handle}
  /\ UNCHANGED <<config, stateVars, rec, audio_capture, model_load_task,
                 transcription_task, streamVars, hybridVars, eagerVars,
                 mediaVars, overrides, output, discarded, cancel_file,
                 key_down, signalVars>>

(* The backend reports an error or its end, or its channel is closed:      *)
(* end_streaming.  No override file is read or removed.                    *)
StreamEnd ==
  /\ PumpEnabled
  /\ ClearHybrid
  /\ CloseStream
  /\ ResumeMedia
  /\ GoTo("Idle", "idle")
  /\ UNCHANGED <<config, rec, model_load_task, transcription_task, eagerVars,
                 overrides, textVars, cancel_file, key_down, signalVars>>

(* The 500 ms arm drops a cancel request that found nothing to cancel.     *)
IdleTick ==
  /\ state = "Idle"
  /\ cancel_file
  /\ cancel_file' = FALSE
  /\ UNCHANGED <<config, coreVars, key_down, signalVars>>

(* The daemon is stopped or dies, and the service manager starts it again. *)
(* Startup removes the cancel file and the profile override only, and      *)
(* nobody remembers the players that were paused.                          *)
Restart ==
  /\ GoTo("Idle", "idle")
  /\ model_load_task' = 0
  /\ transcription_task' = 0
  /\ CloseStream
  /\ ClearHybrid
  /\ DropChunks
  /\ eager_transcriber' = 0
  /\ paused_media_players' = FALSE
  /\ overrides' = overrides \ {"profile"}
  /\ cancel_file' = FALSE
  /\ sigusr1' = FALSE
  /\ sigusr2' = FALSE
  /\ discarded' = IF state = "Idle" THEN discarded ELSE discarded \cup {rec}
  /\ UNCHANGED <<config, rec, music, key_down, cli, live_text, output>>

-----------------------------------------------------------------------------
(* The record commands of the command line: a process of its own.          *)

(* record start, stop or toggle writes the override files of its flags;    *)
(* stop has the output mode alone.                                         *)
RecordCommand ==
  /\ config.cli
  /\ cli = "none"
  /\ cli' \in {"start", "stop", "toggle"}
  /\ \E written \in SUBSET (IF cli' = "stop" THEN config.flags \cap {"output_mode"}
                                              ELSE config.flags) :
       overrides' = overrides \cup written
  /\ UNCHANGED <<config, stateVars, rec, audio_capture, model_load_task,
                 transcription_task, streamVars, hybridVars, eagerVars,
                 mediaVars, textVars, cancel_file, key_down, sigusr1, sigusr2>>

(* It then sends its signal; toggle chooses by the state file.             *)
RecordSignal ==
  /\ cli # "none"
  /\ cli' = "none"
  /\ LET stop == \/ cli = "stop"
                 \/ cli = "toggle" /\ state_file \in {"recording", "streaming"}
     IN  /\ sigusr1' = (sigusr1 \/ ~stop)
         /\ sigusr2' = (sigusr2 \/ stop)
  /\ UNCHANGED <<config, coreVars, cancel_file, key_down>>

(* record cancel writes the cancel file whatever the daemon is doing.      *)
RecordCancel ==
  /\ config.cli
  /\ ~cancel_file
  /\ cancel_file' = TRUE
  /\ UNCHANGED <<config, coreVars, key_down, signalVars>>

-----------------------------------------------------------------------------

Next ==
  \/ HotkeyPressed \/ HotkeyReleased \/ CancelKey \/ HybridPromote
  \/ RecordingCancelled \/ EagerTick \/ RecordingTimeout
  \/ StartSignal \/ StopSignal
  \/ TranscriptionDone \/ TranscriptionCancelled
  \/ \E partial \in BOOLEAN : StreamText(partial)
  \/ StreamEnd \/ IdleTick \/ Restart
  \/ RecordCommand \/ RecordSignal \/ RecordCancel

(* What happens without the user.  The timers of the recording arm run out *)
(* while a batch recording keeps no other arm busy, a transcription ends,  *)
(* and a backend whose audio was cut finishes.                             *)
Fairness ==
  /\ WF_vars(RecordingCancelled)
  /\ WF_vars(state # "Streaming" /\ RecordingTimeout)
  /\ WF_vars(TranscriptionDone)
  /\ WF_vars(audio_capture = 0 /\ StreamEnd)

Spec == Init /\ [][Next]_vars

FairSpec == Spec /\ Fairness

-----------------------------------------------------------------------------
(* Correctness.                                                            *)

(* The state of the daemon is well formed.                                 *)
TypeOK ==
  /\ config \in Configs
  /\ state \in States
  /\ state_file \in {"idle", "recording", "streaming", "transcribing"}
  /\ rec \in Recordings
  /\ audio_capture \in Recordings
  /\ model_load_task \in Recordings
  /\ transcription_task \in Recordings
  /\ streaming_handle \in Recordings
  /\ streaming_session \in Recordings
  /\ eager_transcriber \in Recordings
  /\ eager_chunk_tasks \subseteq Recordings
  /\ chunk_results \subseteq Recordings
  /\ {streaming_drain_pump, hybrid_pending, hybrid_live, paused_media_players,
      cancel_file, key_down, sigusr1, sigusr2} \subseteq BOOLEAN
  /\ music \in {"playing", "paused", "off"}
  /\ overrides \subseteq OverrideFiles
  /\ cli \in {"none", "start", "stop", "toggle"}
  /\ live_text \subseteq Recordings
  /\ output \subseteq Recordings \X Recordings
  /\ discarded \subseteq Recordings

(* The stop path cannot fail to obtain a transcriber: the engine was       *)
(* preloaded and is not served by the model manager.                       *)
Reliable == ~config.on_demand /\ ~config.fallible

(* The record commands do not interfere with a stream: they are not used,  *)
(* or the engine does not stream.                                          *)
StreamsLeftAlone == config.streaming => ~config.cli

(* The daemon is transcribing exactly while it holds a transcription task, *)
(* and the task works on the recording that was stopped last.  The arm     *)
(* that waits for the task is its only way out of State::Transcribing.     *)
TranscribingHasItsTask ==
  /\ state = "Transcribing" <=> transcription_task # 0
  /\ transcription_task \in {0, rec}

(* While streaming, the event pump listens to the backend of this very     *)
(* recording and types into its session or into none: events of an earlier *)
(* stream are never typed as text of this one, and the pump arm is never   *)
(* disabled by a missing handle with the daemon stuck in State::Streaming. *)
StreamIsThisRecording ==
  state = "Streaming" =>
    /\ streaming_handle = rec
    /\ streaming_session \in {0, rec}
    /\ audio_capture \in {0, rec}

(* A batch recording has the microphone open, on its own capture: it will  *)
(* time out, and its stop has audio to transcribe.  A stop signal during a *)
(* hybrid press breaks this, hence the exception.                          *)
RecordingHasItsMic ==
  state \in {"Recording", "EagerRecording"} =>
    \/ audio_capture = rec
    \/ Mode = "hybrid" /\ config.streaming /\ config.cli

(* Every way back to Idle releases everything a recording holds: capture,  *)
(* backend, typing session, drain pump, tasks and hybrid flags.            *)
IdleIsClean ==
  state = "Idle" /\ Reliable /\ StreamsLeftAlone =>
    /\ audio_capture = 0
    /\ streaming_handle = 0
    /\ streaming_session = 0
    /\ ~streaming_drain_pump
    /\ transcription_task = 0
    /\ eager_chunk_tasks = {}
    /\ ~hybrid_pending /\ ~hybrid_live

(* The hybrid flags are never both set and never outlive their stream: a   *)
(* stale hybrid_pending would keep the next stream's text private for ever.*)
HybridFlagsBelongToAStream ==
  /\ ~(hybrid_pending /\ hybrid_live)
  /\ hybrid_pending \/ hybrid_live => state = "Streaming"

(* The output of a recording contains audio of that recording only, even   *)
(* though chunk tasks outlive the tick that spawned them.                  *)
OutputIsOwnAudio ==
  Reliable => \A p \in output : p[1] = p[2]

(* Audio of a recording that was cancelled, or lost in a restart, is never *)
(* in any batch output, that of a later recording included.                *)
DiscardedIsNeverOutput ==
  \A p \in output : p[2] \notin discarded

(* The state file, by which record toggle decides between start and stop,  *)
(* names the state the daemon is in.                                       *)
StateFileAgrees ==
  state_file = CASE state = "Idle"         -> "idle"
                 [] state = "Streaming"    -> "streaming"
                 [] state = "Transcribing" -> "transcribing"
                 [] OTHER                  -> "recording"

(* What the state promises to those who act on it: the select! arms, the   *)
(* pump with its hybrid flags, and the command line with the state file.   *)
StateMeansWhatItSays ==
  TranscribingHasItsTask /\ HybridFlagsBelongToAStream /\ StateFileAgrees

(* If nothing was ever cancelled or lost, the players the daemon paused    *)
(* play again whenever it is idle.                                         *)
MediaResumes ==
  state = "Idle" /\ Reliable /\ discarded = {} => music # "paused"

(* An end of a batch recording leaves none of the override files that      *)
(* select where and how its text goes to the recording after it.           *)
OverridesEndWithTheRecording ==
  [][ \/ ~(state # "Idle" /\ state' = "Idle" /\ Reliable /\ ~config.streaming)
      \/ overrides' \cap {"output_mode", "profile", "smart_auto_submit"} = {}
      \/ Restart ]_vars

(* A stop signal between press and release of the hybrid key leaves a      *)
(* recording without a capture, which nothing but the user ends.           *)
Endless == Mode = "hybrid" /\ config.streaming /\ config.cli

(* A batch recording comes back to Idle, at the latest by its timeout, and *)
(* once the microphone of a stream is closed, the stream is torn down.     *)
RecordingEnds ==
  /\ state \in {"Recording", "EagerRecording", "Transcribing"} /\ ~Endless
       ~> state = "Idle"
  /\ state = "Streaming" /\ audio_capture = 0 /\ ~Endless ~> state = "Idle"

=============================================================================
