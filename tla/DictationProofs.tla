-------------------------- MODULE DictationProofs --------------------------
(***************************************************************************)
(* Theorems about Dictation, for every set of configurations and every     *)
(* number of recordings.                                                   *)
(*                                                                         *)
(* The actions of Next share a dozen handlers.  Lemma StepIsAHandler says  *)
(* once what every step does to the variables of the event loop; each      *)
(* invariant is then proved handler by handler.                            *)
(***************************************************************************)
EXTENDS Dictation, TLAPS

(* The part of TypeOK that the handlers change.                            *)
LoopTypeOK ==
  /\ state \in States
  /\ state_file \in {"idle", "recording", "streaming", "transcribing"}
  /\ rec \in Recordings
  /\ audio_capture \in Recordings
  /\ model_load_task \in Recordings
  /\ transcription_task \in Recordings
  /\ streaming_handle \in Recordings
  /\ streaming_session \in Recordings
  /\ eager_transcriber \in Recordings
  /\ eager_chunk_tasks \subseteq Recordings
  /\ chunk_results \subseteq Recordings
  /\ streaming_drain_pump \in BOOLEAN
  /\ hybrid_pending \in BOOLEAN
  /\ hybrid_live \in BOOLEAN
  /\ paused_media_players \in BOOLEAN
  /\ music \in {"playing", "paused", "off"}
  /\ overrides \subseteq OverrideFiles
  /\ live_text \subseteq Recordings
  /\ output \subseteq Recordings \X Recordings
  /\ discarded \subseteq Recordings

(* The part that the environment changes.                                  *)
EnvTypeOK ==
  /\ config \in Configs
  /\ cancel_file \in BOOLEAN
  /\ key_down \in BOOLEAN
  /\ sigusr1 \in BOOLEAN
  /\ sigusr2 \in BOOLEAN
  /\ cli \in {"none", "start", "stop", "toggle"}

(* The handlers, on the variables of the event loop.                       *)
SomeStart == \E hybrid \in BOOLEAN : \E f, g \in SUBSET OverrideFiles :
  Start(hybrid, f, g)

SomeStopRecording == \E f \in SUBSET OverrideFiles :
  \E tasks \in {eager_chunk_tasks, {}} : StopRecording(f, tasks)

SomeStopEager == \E f \in SUBSET OverrideFiles :
  \E capture \in {0, audio_capture} : StopEager(f, capture)

SomeStopStreaming == \E disown \in BOOLEAN :
  /\ StopStreaming(disown)
  /\ hybrid_pending' = hybrid_pending
  /\ hybrid_live' \in {FALSE, hybrid_live}

OverridesWritten ==
  /\ overrides' \in SUBSET OverrideFiles
  /\ UNCHANGED <<stateVars, rec, audio_capture, model_load_task,
                 transcription_task, streamVars, hybridVars, eagerVars,
                 mediaVars, textVars>>

Handler ==
  \/ SomeStart \/ SomeStopRecording \/ SomeStopEager \/ SomeStopStreaming
  \/ KeepAsBatch \/ CancelStreaming \/ CancelRecording \/ CancelTranscription
  \/ CancelByFile \/ HybridPromote \/ EagerTick \/ TranscriptionDone
  \/ (\E partial \in BOOLEAN : StreamText(partial)) \/ StreamEnd \/ Restart
  \/ OverridesWritten \/ UNCHANGED coreVars

-----------------------------------------------------------------------------

LEMMA TypeParts == TypeOK <=> LoopTypeOK /\ EnvTypeOK
BY DEF TypeOK, LoopTypeOK, EnvTypeOK

(* What a start, a stop and the other arms do is what a handler does.      *)
LEMMA StopIsAHandler ==
  ASSUME LoopTypeOK, NEW disown \in BOOLEAN, Stop(disown)
  PROVE  Handler
<1>1. CASE StopRecording(overrides, eager_chunk_tasks)
  BY <1>1 DEF LoopTypeOK, SomeStopRecording, Handler
<1>2. CASE StopEager(overrides, 0)
  BY <1>2 DEF LoopTypeOK, SomeStopEager, Handler
<1>3. CASE StopStreaming(disown) /\ UNCHANGED hybridVars
  BY <1>3 DEF hybridVars, SomeStopStreaming, Handler
<1> QED
  BY <1>1, <1>2, <1>3 DEF Stop

LEMMA StartFromKeyIsAHandler ==
  ASSUME LoopTypeOK, NEW hybrid \in BOOLEAN, StartFromKey(hybrid)
  PROVE  Handler
<1>1. PICK held \in SUBSET {"profile"} :
        Start(hybrid, overrides \cup held, overrides \ {"profile"})
  BY DEF StartFromKey
<1>2. /\ overrides \cup held \in SUBSET OverrideFiles
      /\ overrides \ {"profile"} \in SUBSET OverrideFiles
  BY DEF LoopTypeOK, OverrideFiles
<1> QED
  BY <1>1, <1>2 DEF SomeStart, Handler

LEMMA StepIsAHandler ==
  ASSUME LoopTypeOK, config \in Configs, [Next]_vars
  PROVE  Handler
<1>1. CASE HotkeyPressed
  <2>1. CASE StartFromKey(Mode = "hybrid")
    BY <2>1, StartFromKeyIsAHandler
  <2>2. CASE Stop(FALSE)
    BY <2>2, StopIsAHandler
  <2>3. CASE StopRecording(overrides, eager_chunk_tasks)
    BY <2>3 DEF LoopTypeOK, SomeStopRecording, Handler
  <2>4. CASE PressIgnored
    BY <2>4 DEF PressIgnored, Handler
  <2> QED
    BY <1>1, <2>1, <2>2, <2>3, <2>4 DEF HotkeyPressed
<1>2. CASE HotkeyReleased
  <2>1. CASE Stop(TRUE)
    BY <2>1, StopIsAHandler
  <2>2. CASE KeepAsBatch
    BY <2>2 DEF Handler
  <2>3. CASE EndHold
    BY <2>3 DEF EndHold, SomeStopStreaming, Handler
  <2>4. CASE ReleaseIgnored
    BY <2>4 DEF ReleaseIgnored, Handler
  <2> QED
    BY <1>2, <2>1, <2>2, <2>3, <2>4 DEF HotkeyReleased
<1>3. CASE CancelKey
  BY <1>3 DEF CancelKey, Handler
<1>4. CASE RecordingCancelled \/ TranscriptionCancelled
  BY <1>4 DEF RecordingCancelled, TranscriptionCancelled, Handler
<1>5. CASE RecordingTimeout
  <2> DEFINE kept == overrides \ CancelCleans
  <2>1. kept \in SUBSET OverrideFiles
    BY DEF LoopTypeOK
  <2>2. CASE StopStreaming(FALSE) /\ UNCHANGED hybridVars
    BY <2>2 DEF hybridVars, SomeStopStreaming, Handler
  <2>3. CASE StopRecording(kept, {})
    BY <2>1, <2>3 DEF SomeStopRecording, Handler
  <2>4. CASE StopEager(kept, audio_capture)
    BY <2>1, <2>4 DEF SomeStopEager, Handler
  <2> QED
    BY <1>5, <2>2, <2>3, <2>4 DEF RecordingTimeout
<1>6. CASE StartSignal
  <2>1. overrides \ {"model"} \in SUBSET OverrideFiles
    BY DEF LoopTypeOK
  <2> QED
    BY <1>6, <2>1 DEF StartSignal, SomeStart, Handler
<1>7. CASE StopSignal
  <2>1. CASE Stop(TRUE)
    BY <2>1, StopIsAHandler
  <2> QED
    BY <1>7, <2>1 DEF StopSignal, Handler
<1>8. CASE HybridPromote \/ EagerTick \/ TranscriptionDone \/ StreamEnd \/ Restart
  BY <1>8 DEF Handler
<1>9. CASE \E partial \in BOOLEAN : StreamText(partial)
  BY <1>9 DEF Handler
<1>10. CASE RecordCommand
  <2>1. overrides' \in SUBSET OverrideFiles
    <3>1. PICK written \in SUBSET (IF cli' = "stop"
                                   THEN config.flags \cap {"output_mode"}
                                   ELSE config.flags) :
            overrides' = overrides \cup written
      BY <1>10 DEF RecordCommand
    <3>2. config.flags \in SUBSET OverrideFiles
      BY ConfigsAssumption DEF ConfigType
    <3> QED
      BY <3>1, <3>2 DEF LoopTypeOK
  <2> QED
    BY <1>10, <2>1 DEF RecordCommand, OverridesWritten, Handler
<1>11. CASE IdleTick \/ RecordSignal \/ RecordCancel
  BY <1>11 DEF IdleTick, RecordSignal, RecordCancel, Handler
<1>12. CASE UNCHANGED vars
  BY <1>12 DEF vars, coreVars, Handler
<1> QED
  BY <1>1, <1>2, <1>3, <1>4, <1>5, <1>6, <1>7, <1>8, <1>9, <1>10, <1>11, <1>12
  DEF Next

-----------------------------------------------------------------------------
(* Type correctness.                                                       *)

LEMMA TypeInit == Init => TypeOK
<1> SUFFICES ASSUME Init PROVE LoopTypeOK /\ EnvTypeOK
  BY TypeParts
<1>1. LoopTypeOK
  <2>1. 0 \in Recordings
    BY MaxRecordingsAssumption DEF Recordings
  <2>2. /\ hybrid_pending \in BOOLEAN /\ hybrid_live \in BOOLEAN
        /\ streaming_drain_pump \in BOOLEAN
        /\ paused_media_players \in BOOLEAN
    BY DEF Init
  <2> QED
    BY <2>1, <2>2 DEF Init, LoopTypeOK, States
<1>2. EnvTypeOK
  BY DEF Init, EnvTypeOK
<1> QED
  BY <1>1, <1>2

LEMMA EnvTypeNext ==
  ASSUME EnvTypeOK, [Next]_vars
  PROVE  EnvTypeOK'
<1> USE DEF EnvTypeOK
<1>1. CASE HotkeyPressed \/ HotkeyReleased \/ CancelKey
  BY <1>1 DEF HotkeyPressed, HotkeyReleased, CancelKey, signalVars
<1>2. CASE RecordingCancelled \/ TranscriptionCancelled \/ RecordingTimeout \/ IdleTick
  BY <1>2
  DEF RecordingCancelled, TranscriptionCancelled, RecordingTimeout, IdleTick, signalVars
<1>3. CASE HybridPromote \/ EagerTick \/ TranscriptionDone \/ StreamEnd \/ Restart
  BY <1>3
  DEF HybridPromote, EagerTick, TranscriptionDone, StreamEnd, Restart, signalVars
<1>4. CASE \E partial \in BOOLEAN : StreamText(partial)
  BY <1>4 DEF StreamText, signalVars
<1>5. CASE StartSignal \/ StopSignal
  BY <1>5 DEF StartSignal, StopSignal
<1>6. CASE RecordCommand \/ RecordSignal \/ RecordCancel
  BY <1>6 DEF RecordCommand, RecordSignal, RecordCancel, signalVars
<1>7. CASE UNCHANGED vars
  BY <1>7 DEF vars, signalVars
<1> QED
  BY <1>1, <1>2, <1>3, <1>4, <1>5, <1>6, <1>7 DEF Next

LEMMA DeliverType ==
  ASSUME LoopTypeOK, NEW sources \in SUBSET Recordings,
         NEW files \in SUBSET OverrideFiles, Deliver(sources, files)
  PROVE  /\ output' \subseteq Recordings \X Recordings
         /\ overrides' \subseteq OverrideFiles
         /\ paused_media_players' \in BOOLEAN
         /\ music' \in {"playing", "paused", "off"}
         /\ state' \in States
         /\ state_file' \in {"idle", "recording", "streaming", "transcribing"}
         /\ live_text' \subseteq Recordings
         /\ discarded' \subseteq Recordings
<1>1. output' \subseteq Recordings \X Recordings
  <2>1. {<<rec, s>> : s \in sources} \subseteq Recordings \X Recordings
    BY DEF LoopTypeOK
  <2> QED
    BY <2>1 DEF LoopTypeOK, Deliver
<1>2. overrides' \subseteq OverrideFiles
  BY DEF Deliver
<1> QED
  BY <1>1, <1>2 DEF LoopTypeOK, Deliver, ResumeMedia, GoTo, States

LEMMA LoopTypeNext ==
  ASSUME LoopTypeOK, Handler
  PROVE  LoopTypeOK'
<1>0. /\ 0 \in Recordings
      /\ States = {"Idle", "Recording", "EagerRecording", "Streaming", "Transcribing"}
      /\ \A r \in Recordings : r < MaxRecordings => r + 1 \in Recordings
  BY MaxRecordingsAssumption DEF Recordings, States
<1>1. CASE SomeStart
  <2>1. PICK hybrid \in BOOLEAN, f \in SUBSET OverrideFiles,
             g \in SUBSET OverrideFiles : Start(hybrid, f, g)
    BY <1>1 DEF SomeStart
  <2>2. /\ rec' = rec + 1
        /\ rec' \in Recordings
        /\ model_load_task' \in {rec', model_load_task}
        /\ overrides' \in SUBSET OverrideFiles
        /\ UNCHANGED <<transcription_task, eager_transcriber,
                       eager_chunk_tasks, live_text, output, discarded>>
    BY <1>0, <2>1 DEF LoopTypeOK, Start, CanStart, textVars
  <2>3. CASE StartStreaming(hybrid)
    <3>1. hybrid_pending' \in BOOLEAN /\ hybrid_live' \in BOOLEAN
      BY <2>3, Zenon DEF StartStreaming, LoopTypeOK
    <3> QED
      BY <1>0, <2>2, <2>3, <3>1
      DEF LoopTypeOK, StartStreaming, OpenStream, PauseMedia, GoTo, mediaVars
  <2>4. CASE StartBatch(~hybrid /\ config.eager)
    BY <1>0, <2>2, <2>4
    DEF LoopTypeOK, StartBatch, PauseMedia, GoTo, streamVars, hybridVars, mediaVars
  <2>5. CASE StartFails
    BY <1>0, <2>2, <2>5
    DEF LoopTypeOK, StartFails, stateVars, streamVars, hybridVars, mediaVars
  <2> QED
    BY <2>1, <2>3, <2>4, <2>5 DEF Start
<1>2. CASE SomeStopRecording
  BY <1>0, <1>2
  DEF LoopTypeOK, SomeStopRecording, StopRecording, NoTranscriber,
      TakeTranscriber, ResetToIdle, ResumeMedia, GoTo, streamVars, hybridVars,
      mediaVars, textVars
<1>3. CASE SomeStopEager
  <2>1. PICK f \in SUBSET OverrideFiles, capture \in {0, audio_capture} :
          StopEager(f, capture)
    BY <1>3 DEF SomeStopEager
  <2>2. chunk_results \cup eager_chunk_tasks \cup {rec} \in SUBSET Recordings
    BY DEF LoopTypeOK
  <2>3. CASE Deliver(chunk_results \cup eager_chunk_tasks \cup {rec}, f)
    BY <1>0, <2>1, <2>2, <2>3, DeliverType
    DEF LoopTypeOK, StopEager, NoTranscriber, TakeTranscriber, streamVars, hybridVars
  <2>4. CASE ~Deliver(chunk_results \cup eager_chunk_tasks \cup {rec}, f)
    BY <1>0, <2>1, <2>4
    DEF LoopTypeOK, StopEager, NoTranscriber, TakeTranscriber, ResetToIdle,
        ResumeMedia, GoTo, streamVars, hybridVars, mediaVars, textVars
  <2> QED
    BY <2>3, <2>4
<1>4. CASE SomeStopStreaming
  BY <1>0, <1>4
  DEF LoopTypeOK, SomeStopStreaming, StopStreaming, stateVars, eagerVars,
      mediaVars, textVars, ConfigType
<1>5. CASE KeepAsBatch \/ CancelByFile \/ CancelRecording \/ CancelTranscription
  BY <1>0, <1>5
  DEF LoopTypeOK, KeepAsBatch, CancelByFile, CancelRecording,
      CancelTranscription, ClearHybrid, DropChunks, GoTo, streamVars,
      hybridVars, eagerVars, mediaVars, textVars
<1>6. CASE CancelStreaming \/ StreamEnd \/ Restart
  BY <1>0, <1>6
  DEF LoopTypeOK, CancelStreaming, StreamEnd, Restart, ClearHybrid, CloseStream,
      DropChunks, ResetToIdle, ResumeMedia, GoTo, eagerVars, mediaVars, textVars
<1>7. CASE HybridPromote \/ EagerTick \/ \E partial \in BOOLEAN : StreamText(partial)
  BY <1>0, <1>7
  DEF LoopTypeOK, HybridPromote, EagerTick, StreamText, PumpEnabled, stateVars,
      streamVars, hybridVars, eagerVars, mediaVars, textVars
<1>8. CASE TranscriptionDone
  <2>1. {transcription_task} \in SUBSET Recordings
    BY DEF LoopTypeOK
  <2>2. CASE Deliver({transcription_task}, overrides)
    BY <1>0, <1>8, <2>1, <2>2, DeliverType
    DEF LoopTypeOK, TranscriptionDone, streamVars, hybridVars, eagerVars
  <2>3. CASE ~Deliver({transcription_task}, overrides)
    BY <1>0, <1>8, <2>3
    DEF LoopTypeOK, TranscriptionDone, ResetToIdle, ResumeMedia, GoTo,
        streamVars, hybridVars, eagerVars, textVars
  <2> QED
    BY <2>2, <2>3
<1>9. CASE OverridesWritten \/ UNCHANGED coreVars
  BY <1>9
  DEF LoopTypeOK, OverridesWritten, coreVars, stateVars, streamVars, hybridVars,
      eagerVars, mediaVars, textVars
<1> QED
  BY <1>1, <1>2, <1>3, <1>4, <1>5, <1>6, <1>7, <1>8, <1>9 DEF Handler

LEMMA TypeNext ==
  ASSUME TypeOK, [Next]_vars
  PROVE  TypeOK'
<1>1. LoopTypeOK /\ EnvTypeOK
  BY TypeParts
<1>2. LoopTypeOK'
  BY <1>1, StepIsAHandler, LoopTypeNext DEF EnvTypeOK
<1>3. EnvTypeOK'
  BY <1>1, EnvTypeNext
<1> QED
  BY <1>2, <1>3 DEF TypeOK, LoopTypeOK, EnvTypeOK

(* The daemon's state is well formed whatever the user, the command line,  *)
(* the engine and the service manager do.                                  *)
THEOREM TypeCorrect == Spec => []TypeOK
BY TypeInit, TypeNext, PTL DEF Spec

-----------------------------------------------------------------------------
(* The lifecycle of one recording.                                         *)

(* The parts hold one another up: a stop may hand its capture to a task    *)
(* only because the capture is the current recording's, and a hybrid press *)
(* may become a batch recording only because its flags mean a stream.      *)
Lifecycle ==
  /\ TranscribingHasItsTask
  /\ StreamIsThisRecording
  /\ HybridFlagsBelongToAStream
  /\ StateFileAgrees
  /\ state \in {"Recording", "EagerRecording"} => audio_capture \in {0, rec}

LEMMA LifecycleInit == Init => Lifecycle
BY DEF Init, Lifecycle, TranscribingHasItsTask, StreamIsThisRecording,
       HybridFlagsBelongToAStream, StateFileAgrees

LEMMA LifecycleNext ==
  ASSUME LoopTypeOK, Lifecycle, Handler
  PROVE  Lifecycle'
<1> USE DEF Lifecycle, TranscribingHasItsTask, StreamIsThisRecording,
            HybridFlagsBelongToAStream, StateFileAgrees
<1>0. rec \in Nat /\ States = {"Idle", "Recording", "EagerRecording", "Streaming", "Transcribing"}
  BY MaxRecordingsAssumption DEF LoopTypeOK, Recordings, States
<1>1. CASE SomeStart
  <2>1. PICK hybrid \in BOOLEAN, f \in SUBSET OverrideFiles,
             g \in SUBSET OverrideFiles : Start(hybrid, f, g)
    BY <1>1 DEF SomeStart
  <2>2. state = "Idle" /\ rec' = rec + 1 /\ UNCHANGED transcription_task
    BY <2>1 DEF Start, CanStart
  <2>3. CASE StartStreaming(hybrid)
    BY <1>0, <2>2, <2>3 DEF StartStreaming, OpenStream, GoTo
  <2>4. CASE StartBatch(~hybrid /\ config.eager)
    BY <1>0, <2>2, <2>4 DEF StartBatch, GoTo, streamVars, hybridVars
  <2>5. CASE StartFails
    BY <1>0, <2>2, <2>5 DEF StartFails, stateVars, streamVars, hybridVars
  <2> QED
    BY <2>1, <2>3, <2>4, <2>5 DEF Start
<1>2. CASE SomeStopRecording
  BY <1>0, <1>2
  DEF SomeStopRecording, StopRecording, NoTranscriber, TakeTranscriber,
      ResetToIdle, GoTo, streamVars, hybridVars
<1>3. CASE SomeStopEager
  BY <1>0, <1>3
  DEF SomeStopEager, StopEager, NoTranscriber, TakeTranscriber, Deliver,
      ResetToIdle, GoTo, streamVars, hybridVars
<1>4. CASE SomeStopStreaming
  <2>1. PICK disown \in BOOLEAN : /\ StopStreaming(disown)
                                  /\ hybrid_pending' = hybrid_pending
                                  /\ hybrid_live' \in {FALSE, hybrid_live}
    BY <1>4 DEF SomeStopStreaming
  <2>2. hybrid_live' => hybrid_live
    BY <2>1, Zenon
  <2> QED
    BY <1>0, <2>1, <2>2 DEF StopStreaming, stateVars
<1>5. CASE KeepAsBatch \/ CancelByFile \/ CancelRecording \/ CancelTranscription
  BY <1>0, <1>5
  DEF KeepAsBatch, CancelByFile, CancelRecording, CancelTranscription,
      IsRecording, ClearHybrid, DropChunks, GoTo, streamVars, hybridVars
<1>6. CASE CancelStreaming \/ StreamEnd \/ Restart
  BY <1>0, <1>6
  DEF CancelStreaming, StreamEnd, Restart, PumpEnabled, ClearHybrid,
      CloseStream, ResetToIdle, GoTo
<1>7. CASE HybridPromote \/ EagerTick \/ \E partial \in BOOLEAN : StreamText(partial)
  BY <1>0, <1>7
  DEF HybridPromote, EagerTick, StreamText, stateVars, streamVars, hybridVars
<1>8. CASE TranscriptionDone
  BY <1>0, <1>8
  DEF TranscriptionDone, Deliver, ResetToIdle, GoTo, streamVars, hybridVars
<1>9. CASE OverridesWritten \/ UNCHANGED coreVars
  BY <1>9 DEF OverridesWritten, coreVars, stateVars, streamVars, hybridVars
<1> QED
  BY <1>1, <1>2, <1>3, <1>4, <1>5, <1>6, <1>7, <1>8, <1>9 DEF Handler

(* A recording's lifecycle holds together in every reachable state.        *)
THEOREM LifecycleInvariant == Spec => []Lifecycle
<1>1. TypeOK /\ Lifecycle /\ [Next]_vars => Lifecycle'
  BY TypeParts, StepIsAHandler, LifecycleNext DEF EnvTypeOK
<1> QED
  BY <1>1, LifecycleInit, TypeCorrect, PTL DEF Spec

(* The daemon waits for a task in State::Transcribing, always, and for the *)
(* task of the recording it stopped last.                                  *)
THEOREM TranscribingTask == Spec => []TranscribingHasItsTask
BY LifecycleInvariant, PTL DEF Lifecycle

(* The event pump never serves a backend or a session of another stream.   *)
THEOREM StreamOwnership == Spec => []StreamIsThisRecording
BY LifecycleInvariant, PTL DEF Lifecycle

(* The hybrid flags exclude each other and end with their stream.          *)
THEOREM HybridFlags == Spec => []HybridFlagsBelongToAStream
BY LifecycleInvariant, PTL DEF Lifecycle

(* The state file names the daemon's state.                                *)
THEOREM StateFile == Spec => []StateFileAgrees
BY LifecycleInvariant, PTL DEF Lifecycle

-----------------------------------------------------------------------------
(* Audio that was thrown away stays thrown away.                           *)

(* DiscardedIsNeverOutput is not inductive: a discarded recording's chunk  *)
(* could still be waiting.  No chunk waits that belongs to a discarded     *)
(* recording, and while a recording runs, nothing of it is discarded or    *)
(* output, so that discarding it now contradicts neither.  All numbers are *)
(* at most rec, so that the next recording starts with none of this.       *)
ChunksAreWanted ==
  /\ DiscardedIsNeverOutput
  /\ (eager_chunk_tasks \cup chunk_results) \cap discarded = {}
  /\ state # "EagerRecording" => chunk_results = {}
  /\ state # "Idle" => rec \notin discarded /\ \A p \in output : p[2] # rec
  /\ state \notin {"Idle", "EagerRecording"} => rec \notin eager_chunk_tasks
  /\ \A r \in discarded \cup eager_chunk_tasks \cup chunk_results : r <= rec
  /\ \A p \in output : p[2] <= rec

LEMMA ChunksInit == Init => ChunksAreWanted
BY DEF Init, ChunksAreWanted, DiscardedIsNeverOutput

LEMMA ChunksNext ==
  ASSUME LoopTypeOK, Lifecycle, ChunksAreWanted, Handler
  PROVE  ChunksAreWanted'
<1> USE DEF ChunksAreWanted, DiscardedIsNeverOutput
<1>0. /\ rec \in Nat /\ Recordings \subseteq Nat
      /\ eager_chunk_tasks \subseteq Nat /\ discarded \subseteq Nat
      /\ \A p \in output : p[2] \in Nat
  BY MaxRecordingsAssumption DEF LoopTypeOK, Recordings
<1>1. CASE SomeStart
  <2>1. PICK hybrid \in BOOLEAN, f \in SUBSET OverrideFiles,
             g \in SUBSET OverrideFiles : Start(hybrid, f, g)
    BY <1>1 DEF SomeStart
  <2>2. /\ state = "Idle" /\ rec' = rec + 1 /\ chunk_results = {}
        /\ UNCHANGED <<eager_chunk_tasks, output, discarded>>
    BY <2>1 DEF Start, CanStart, textVars
  <2>3. chunk_results' = {}
    BY <2>1, <2>2 DEF Start, StartStreaming, StartBatch, StartFails
  <2>4. /\ \A r \in discarded \cup eager_chunk_tasks : r < rec'
        /\ \A p \in output : p[2] < rec'
    BY <1>0, <2>2
  <2> QED
    BY <1>0, <2>2, <2>3, <2>4
<1>2. CASE SomeStopRecording
  <2>1. /\ state = "Recording" /\ chunk_results' = chunk_results
        /\ eager_chunk_tasks' \subseteq eager_chunk_tasks
        /\ state' # "EagerRecording"
        /\ UNCHANGED <<rec, output, discarded>>
    BY <1>2
    DEF SomeStopRecording, StopRecording, NoTranscriber, ResetToIdle, GoTo, textVars
  <2> QED
    BY <1>0, <2>1
<1>3. CASE SomeStopEager
  <2>1. /\ state = "EagerRecording" /\ state' = "Idle"
        /\ chunk_results' = {} /\ rec' = rec /\ discarded' = discarded
        /\ eager_chunk_tasks' \subseteq eager_chunk_tasks
        /\ \/ output' = output
           \/ output' = output \cup
                {<<rec, s>> : s \in chunk_results \cup eager_chunk_tasks \cup {rec}}
    BY <1>3
    DEF SomeStopEager, StopEager, NoTranscriber, Deliver, ResetToIdle, GoTo,
        textVars
  <2>2. \A p \in output' :
          \/ p \in output
          \/ p[2] \in chunk_results \cup eager_chunk_tasks \cup {rec}
    BY <2>1
  <2>3. \A r \in chunk_results \cup eager_chunk_tasks \cup {rec} :
          r \notin discarded /\ r <= rec
    <3>1. rec \notin discarded /\ rec <= rec
      BY <1>0, <2>1
    <3>2. \A r \in chunk_results \cup eager_chunk_tasks :
            r \notin discarded /\ r <= rec
      OBVIOUS
    <3> QED
      BY <3>1, <3>2
  <2>4. \A p \in output' : p[2] \notin discarded' /\ p[2] <= rec'
    BY <2>1, <2>2, <2>3
  <2>5. /\ (eager_chunk_tasks' \cup chunk_results') \cap discarded' = {}
        /\ \A r \in discarded' \cup eager_chunk_tasks' \cup chunk_results' : r <= rec'
    BY <2>1
  <2> QED
    BY <2>1, <2>4, <2>5
<1>4. CASE SomeStopStreaming \/ KeepAsBatch
  <2>1. /\ state = "Streaming" /\ state' \in {"Streaming", "Recording"}
        /\ UNCHANGED <<rec, eager_chunk_tasks, chunk_results, output, discarded>>
    BY <1>4
    DEF SomeStopStreaming, StopStreaming, KeepAsBatch, GoTo, stateVars,
        eagerVars, textVars
  <2> QED
    BY <1>0, <2>1
<1>5. CASE CancelByFile \/ CancelRecording \/ CancelTranscription \/ CancelStreaming
  <2>1. /\ state # "Idle" /\ state' = "Idle"
        /\ discarded' = discarded \cup {rec}
        /\ UNCHANGED <<rec, output>>
    BY <1>5
    DEF CancelByFile, CancelRecording, CancelTranscription, CancelStreaming,
        IsRecording, ResetToIdle, GoTo
  <2>2. \/ eager_chunk_tasks' = {} /\ chunk_results' = {}
        \/ /\ state \in {"Transcribing", "Streaming"}
           /\ UNCHANGED <<eager_chunk_tasks, chunk_results>>
    BY <1>5
    DEF CancelByFile, CancelRecording, CancelTranscription, CancelStreaming,
        DropChunks, eagerVars
  <2> QED
    BY <1>0, <2>1, <2>2
<1>6. CASE EagerTick
  <2>1. /\ state = "EagerRecording"
        /\ eager_chunk_tasks' \cup chunk_results' \subseteq
             eager_chunk_tasks \cup chunk_results \cup {rec}
        /\ UNCHANGED <<state, rec, output, discarded>>
    <3>1. PICK spawned \in SUBSET (IF eager_transcriber' # 0 THEN {rec} ELSE {}) :
            \E finished \in SUBSET (eager_chunk_tasks \cup spawned) :
              /\ eager_chunk_tasks' = (eager_chunk_tasks \cup spawned) \ finished
              /\ chunk_results' = chunk_results \cup finished
      BY <1>6 DEF EagerTick
    <3>2. spawned \subseteq {rec}
      OBVIOUS
    <3> QED
      BY <1>6, <3>1, <3>2 DEF EagerTick, stateVars, textVars
  <2> QED
    BY <1>0, <2>1
<1>7. CASE TranscriptionDone
  <2>1. transcription_task = rec /\ state = "Transcribing"
    BY <1>7 DEF TranscriptionDone, Lifecycle, TranscribingHasItsTask
  <2>2. /\ state' = "Idle"
        /\ \/ output' = output \/ output' = output \cup {<<rec, rec>>}
        /\ UNCHANGED <<rec, eager_chunk_tasks, chunk_results, discarded>>
    BY <1>7, <2>1
    DEF TranscriptionDone, Deliver, ResetToIdle, GoTo, eagerVars, textVars
  <2> QED
    BY <1>0, <2>1, <2>2
<1>8. CASE Restart
  BY <1>0, <1>8 DEF Restart, DropChunks, GoTo
<1>9. CASE HybridPromote \/ StreamEnd \/ \E partial \in BOOLEAN : StreamText(partial)
  BY <1>9
  DEF HybridPromote, StreamEnd, StreamText, PumpEnabled, GoTo, stateVars,
      eagerVars, textVars
<1>10. CASE OverridesWritten \/ UNCHANGED coreVars
  BY <1>10 DEF OverridesWritten, coreVars, stateVars, eagerVars, textVars
<1> QED
  BY <1>1, <1>2, <1>3, <1>4, <1>5, <1>6, <1>7, <1>8, <1>9, <1>10 DEF Handler

LEMMA ChunksInvariant == Spec => []ChunksAreWanted
<1>1. TypeOK /\ Lifecycle /\ ChunksAreWanted /\ [Next]_vars => ChunksAreWanted'
  BY TypeParts, StepIsAHandler, ChunksNext DEF EnvTypeOK
<1> QED
  BY <1>1, ChunksInit, TypeCorrect, LifecycleInvariant, PTL DEF Spec

(* Audio of a cancelled or lost recording is in no batch output, although  *)
(* its chunk tasks may still run when it is cancelled.                     *)
THEOREM DiscardedStaysDiscarded == Spec => []DiscardedIsNeverOutput
BY ChunksInvariant, PTL DEF ChunksAreWanted

-----------------------------------------------------------------------------
(* With an engine that is always there, outputs do not mix recordings.     *)

(* The chunks that wait are of the eager recording in progress; when none  *)
(* is in progress, no chunk waits.                                         *)
ChunksAreCurrent ==
  /\ OutputIsOwnAudio
  /\ Reliable => /\ eager_chunk_tasks \cup chunk_results \subseteq {rec}
                 /\ state # "EagerRecording" =>
                      eager_chunk_tasks = {} /\ chunk_results = {}

LEMMA CurrentInit == Init => ChunksAreCurrent
BY DEF Init, ChunksAreCurrent, OutputIsOwnAudio

LEMMA ConfigIsFixed == [Next]_vars => config' = config
BY DEF Next, vars, HotkeyPressed, HotkeyReleased, CancelKey, HybridPromote,
       RecordingCancelled, EagerTick, RecordingTimeout, StartSignal, StopSignal,
       TranscriptionDone, TranscriptionCancelled, StreamText, StreamEnd,
       IdleTick, Restart, RecordCommand, RecordSignal, RecordCancel

LEMMA CurrentNext ==
  ASSUME Reliable, Lifecycle, ChunksAreCurrent, Handler
  PROVE  /\ \A p \in output' : p[1] = p[2]
         /\ eager_chunk_tasks' \cup chunk_results' \subseteq {rec'}
         /\ state' # "EagerRecording" =>
              eager_chunk_tasks' = {} /\ chunk_results' = {}
<1> USE DEF ChunksAreCurrent, OutputIsOwnAudio
<1>0. ~NoTranscriber
  BY DEF Reliable, NoTranscriber
<1>1. CASE SomeStart
  <2>1. PICK hybrid \in BOOLEAN, f \in SUBSET OverrideFiles,
             g \in SUBSET OverrideFiles : Start(hybrid, f, g)
    BY <1>1 DEF SomeStart
  <2>2. /\ eager_chunk_tasks = {} /\ chunk_results = {}
        /\ UNCHANGED <<eager_chunk_tasks, output>>
    BY <2>1 DEF Start, CanStart, textVars
  <2>3. chunk_results' = {}
    BY <2>1, <2>2 DEF Start, StartStreaming, StartBatch, StartFails
  <2> QED
    BY <2>2, <2>3
<1>2. CASE SomeStopRecording
  <2>1. /\ state = "Recording" /\ state' # "EagerRecording"
        /\ UNCHANGED <<chunk_results, output>>
        /\ eager_chunk_tasks' \subseteq eager_chunk_tasks
    BY <1>0, <1>2 DEF SomeStopRecording, StopRecording, ResetToIdle, GoTo, textVars
  <2> QED
    BY <2>1
<1>3. CASE SomeStopEager
  <2>1. /\ chunk_results' = {} /\ eager_chunk_tasks' = {}
        /\ \/ output' = output
           \/ output' = output \cup
                {<<rec, s>> : s \in chunk_results \cup eager_chunk_tasks \cup {rec}}
    BY <1>0, <1>3 DEF SomeStopEager, StopEager, Deliver, textVars
  <2> QED
    BY <2>1
<1>4. CASE SomeStopStreaming \/ KeepAsBatch \/ HybridPromote \/ StreamEnd
  BY <1>4
  DEF SomeStopStreaming, StopStreaming, KeepAsBatch, HybridPromote, StreamEnd,
      PumpEnabled, GoTo, stateVars, eagerVars, textVars
<1>5. CASE CancelByFile \/ CancelRecording \/ CancelTranscription \/ CancelStreaming
  BY <1>5
  DEF CancelByFile, CancelRecording, CancelTranscription, CancelStreaming,
      DropChunks, ResetToIdle, GoTo, eagerVars
<1>6. CASE EagerTick
  <2>1. PICK spawned \in SUBSET (IF eager_transcriber' # 0 THEN {rec} ELSE {}) :
          \E finished \in SUBSET (eager_chunk_tasks \cup spawned) :
            /\ eager_chunk_tasks' = (eager_chunk_tasks \cup spawned) \ finished
            /\ chunk_results' = chunk_results \cup finished
    BY <1>6 DEF EagerTick
  <2>2. spawned \subseteq {rec}
    OBVIOUS
  <2> QED
    BY <1>6, <2>1, <2>2 DEF EagerTick, stateVars, textVars
<1>7. CASE TranscriptionDone
  <2>1. transcription_task = rec /\ state = "Transcribing"
    BY <1>7 DEF TranscriptionDone, Lifecycle, TranscribingHasItsTask
  <2>2. /\ \/ output' = output \/ output' = output \cup {<<rec, rec>>}
        /\ UNCHANGED <<eager_chunk_tasks, chunk_results>>
    BY <1>7, <2>1 DEF TranscriptionDone, Deliver, eagerVars, textVars
  <2> QED
    BY <2>1, <2>2
<1>8. CASE Restart
  BY <1>8 DEF Restart, DropChunks
<1>9. CASE \/ \E partial \in BOOLEAN : StreamText(partial)
           \/ OverridesWritten \/ UNCHANGED coreVars
  BY <1>9
  DEF StreamText, OverridesWritten, coreVars, stateVars, eagerVars, textVars
<1> QED
  BY <1>1, <1>2, <1>3, <1>4, <1>5, <1>6, <1>7, <1>8, <1>9 DEF Handler

LEMMA CurrentInvariant == Spec => []ChunksAreCurrent
<1>1. TypeOK /\ Lifecycle /\ ChunksAreCurrent /\ [Next]_vars => ChunksAreCurrent'
  <2> SUFFICES ASSUME TypeOK, Lifecycle, ChunksAreCurrent, [Next]_vars
               PROVE  Reliable' => /\ \A p \in output' : p[1] = p[2]
                                   /\ eager_chunk_tasks' \cup chunk_results'
                                        \subseteq {rec'}
                                   /\ state' # "EagerRecording" =>
                                        /\ eager_chunk_tasks' = {}
                                        /\ chunk_results' = {}
    BY DEF ChunksAreCurrent, OutputIsOwnAudio
  <2>1. Reliable' => Reliable
    BY ConfigIsFixed DEF Reliable
  <2>2. Handler
    BY TypeParts, StepIsAHandler DEF EnvTypeOK
  <2> QED
    BY <2>1, <2>2, CurrentNext
<1> QED
  BY <1>1, CurrentInit, TypeCorrect, LifecycleInvariant, PTL DEF Spec

(* With a preloaded engine the text of a recording is made of its own      *)
(* audio, whatever was cancelled, timed out or restarted before it.        *)
THEOREM OwnAudio == Spec => []OutputIsOwnAudio
BY CurrentInvariant, PTL DEF ChunksAreCurrent

-----------------------------------------------------------------------------
(* The end of a batch recording takes the output settings with it.         *)

(* Only an engine that streams gets the daemon into State::Streaming.      *)
StreamsAreConfigured == state = "Streaming" => config.streaming

LEMMA StreamsNext ==
  ASSUME StreamsAreConfigured, Handler, config' = config
  PROVE  StreamsAreConfigured'
<1> USE DEF StreamsAreConfigured
<1>1. CASE SomeStart
  BY <1>1
  DEF SomeStart, Start, StartStreaming, StartBatch, StartFails, GoTo, stateVars
<1>2. CASE SomeStopRecording \/ SomeStopEager
  BY <1>2
  DEF SomeStopRecording, SomeStopEager, StopRecording, StopEager,
      NoTranscriber, Deliver, ResetToIdle, GoTo
<1>3. CASE SomeStopStreaming \/ HybridPromote \/ EagerTick
  BY <1>3 DEF SomeStopStreaming, StopStreaming, HybridPromote, EagerTick, stateVars
<1>4. CASE \/ KeepAsBatch \/ CancelByFile \/ CancelRecording
           \/ CancelTranscription \/ CancelStreaming
  BY <1>4
  DEF KeepAsBatch, CancelByFile, CancelRecording, CancelTranscription,
      CancelStreaming, ResetToIdle, GoTo
<1>5. CASE TranscriptionDone \/ StreamEnd \/ Restart
  BY <1>5 DEF TranscriptionDone, Deliver, ResetToIdle, StreamEnd, Restart, GoTo
<1>6. CASE \/ \E partial \in BOOLEAN : StreamText(partial)
           \/ OverridesWritten \/ UNCHANGED coreVars
  BY <1>6 DEF StreamText, OverridesWritten, coreVars, stateVars
<1> QED
  BY <1>1, <1>2, <1>3, <1>4, <1>5, <1>6 DEF Handler

LEMMA StreamsInvariant == Spec => []StreamsAreConfigured
<1>1. Init => StreamsAreConfigured
  BY DEF Init, StreamsAreConfigured
<1>2. TypeOK /\ StreamsAreConfigured /\ [Next]_vars => StreamsAreConfigured'
  <2> SUFFICES ASSUME TypeOK, StreamsAreConfigured, [Next]_vars
               PROVE  StreamsAreConfigured'
    OBVIOUS
  <2>1. Handler
    BY TypeParts, StepIsAHandler DEF EnvTypeOK
  <2> QED
    BY <2>1, ConfigIsFixed, StreamsNext
<1> QED
  BY <1>1, <1>2, TypeCorrect, PTL DEF Spec

(* The end of a recording, as the action property says it.                 *)
EndKeepsNoOutputSettings ==
  \/ ~(state # "Idle" /\ state' = "Idle" /\ Reliable /\ ~config.streaming)
  \/ overrides' \cap {"output_mode", "profile", "smart_auto_submit"} = {}
  \/ Restart

LEMMA EndStep ==
  ASSUME StreamsAreConfigured, Handler
  PROVE  EndKeepsNoOutputSettings
<1> SUFFICES ASSUME state # "Idle", state' = "Idle", Reliable,
                    ~config.streaming, ~Restart
             PROVE  overrides' \cap {"output_mode", "profile", "smart_auto_submit"} = {}
  BY DEF EndKeepsNoOutputSettings
<1>0. ~NoTranscriber /\ state # "Streaming"
  BY DEF Reliable, NoTranscriber, StreamsAreConfigured
<1>1. ~SomeStart
  BY DEF SomeStart, Start, CanStart
<1>2. CASE SomeStopRecording
  BY <1>0, <1>2 DEF SomeStopRecording, StopRecording, ResetToIdle, GoTo
<1>3. CASE SomeStopEager
  BY <1>0, <1>3 DEF SomeStopEager, StopEager, Deliver, ResetToIdle, OverrideFiles
<1>4. CASE TranscriptionDone
  BY <1>4 DEF TranscriptionDone, Deliver, ResetToIdle, OverrideFiles
<1>5. CASE CancelByFile \/ CancelRecording \/ CancelTranscription
  BY <1>5 DEF CancelByFile, CancelRecording, CancelTranscription, CancelCleans
<1>6. ~(SomeStopStreaming \/ KeepAsBatch \/ CancelStreaming)
  BY <1>0 DEF SomeStopStreaming, StopStreaming, KeepAsBatch, CancelStreaming
<1>7. ~(StreamEnd \/ \E partial \in BOOLEAN : StreamText(partial))
  BY <1>0 DEF StreamEnd, StreamText, PumpEnabled
<1>8. ~(HybridPromote \/ EagerTick \/ OverridesWritten \/ UNCHANGED coreVars)
  BY DEF HybridPromote, EagerTick, OverridesWritten, coreVars, stateVars
<1> QED
  BY <1>1, <1>2, <1>3, <1>4, <1>5, <1>6, <1>7, <1>8 DEF Handler

(* With a preloaded batch engine, no end of a recording, by stop, cancel,  *)
(* timeout or result, leaves the output mode, the profile or the smart     *)
(* auto-submit flag to the next one.                                       *)
THEOREM OverridesEnd == Spec => OverridesEndWithTheRecording
<1>1. TypeOK /\ StreamsAreConfigured /\ [Next]_vars
        => [EndKeepsNoOutputSettings]_vars
  BY TypeParts, StepIsAHandler, EndStep DEF EnvTypeOK
<1>2. [EndKeepsNoOutputSettings]_vars <=>
        [ \/ ~(state # "Idle" /\ state' = "Idle" /\ Reliable /\ ~config.streaming)
          \/ overrides' \cap {"output_mode", "profile", "smart_auto_submit"} = {}
          \/ Restart ]_vars
  BY DEF EndKeepsNoOutputSettings
<1> QED
  BY <1>1, <1>2, TypeCorrect, StreamsInvariant, PTL
  DEF Spec, OverridesEndWithTheRecording

-----------------------------------------------------------------------------
(* What a recording leaves behind when it ends: the invariants that depend *)
(* on which arm ended it.                                                  *)

(* The state, the state file, the task and the hybrid flags agree, so that *)
(* the arms, the event pump and record toggle act on what is there.        *)
THEOREM StateMeaning == Spec => []StateMeansWhatItSays
BY TranscribingTask, HybridFlags, StateFile, PTL DEF StateMeansWhatItSays

-----------------------------------------------------------------------------
(* What the user and the command line may have asked for.                  *)

(* Without record commands no signal and no cancel file ever arrives; the  *)
(* hybrid flags need a hybrid key and an engine that streams.              *)
AskedFor ==
  /\ ~config.cli => cli = "none" /\ ~sigusr1 /\ ~sigusr2 /\ ~cancel_file
  /\ hybrid_pending \/ hybrid_live => Mode = "hybrid" /\ config.streaming

(* What the handlers leave open and the arms decide.                       *)

(* A press that is still undecided loses its microphone to a signal only.  *)
PressKeepsItsMic ==
  state = "Streaming" /\ state' = "Streaming" /\ hybrid_pending /\ ~config.cli =>
    UNCHANGED <<audio_capture, streaming_drain_pump>>

(* A stream is left open by the cancel file only.                          *)
StreamIsClosed ==
  state = "Streaming" /\ state' = "Idle" /\ ~config.cli =>
    /\ audio_capture' = 0
    /\ streaming_handle' = 0
    /\ streaming_session' = 0
    /\ ~streaming_drain_pump'

ArmsDecide == PressKeepsItsMic /\ StreamIsClosed

LEMMA AskedForInit == Init => AskedFor
BY DEF Init, AskedFor

(* A stop from the key or a signal, outside an undecided press.            *)
LEMMA StopDecides ==
  ASSUME AskedFor, NEW disown \in BOOLEAN, Stop(disown),
         hybrid_pending => config.cli
  PROVE  /\ ArmsDecide
         /\ UNCHANGED hybridVars
<1> USE DEF ArmsDecide, PressKeepsItsMic, StreamIsClosed,
            Reliable, NoTranscriber
<1>1. CASE StopRecording(overrides, eager_chunk_tasks)
  BY <1>1 DEF StopRecording, hybridVars
<1>2. CASE StopEager(overrides, 0)
  BY <1>2 DEF StopEager, hybridVars
<1>3. CASE StopStreaming(disown) /\ UNCHANGED hybridVars
  BY <1>3 DEF StopStreaming, stateVars
<1> QED
  BY <1>1, <1>2, <1>3 DEF Stop

LEMMA StartDecides ==
  ASSUME AskedFor, NEW hybrid \in BOOLEAN, hybrid => Mode = "hybrid",
         NEW f, NEW g, Start(hybrid, f, g)
  PROVE  /\ ArmsDecide
         /\ hybrid_pending' \/ hybrid_live' => Mode = "hybrid" /\ config.streaming
<1>1. state = "Idle"
  BY DEF Start, CanStart
<1>2. ArmsDecide
  BY <1>1 DEF ArmsDecide, PressKeepsItsMic, StreamIsClosed
<1>3. CASE StartStreaming(hybrid)
  <2>1. /\ config.streaming
        /\ hybrid_pending' = (hybrid \/ hybrid_pending)
        /\ hybrid_live' = (hybrid_live /\ ~hybrid)
    BY <1>3, Zenon DEF StartStreaming
  <2>2. hybrid_pending' \/ hybrid_live' => hybrid \/ hybrid_pending \/ hybrid_live
    BY <2>1, Zenon
  <2> QED
    BY <1>2, <2>1, <2>2, Zenon DEF AskedFor
<1>4. CASE StartBatch(~hybrid /\ config.eager)
  BY <1>2, <1>4 DEF StartBatch, hybridVars, AskedFor
<1>5. CASE StartFails
  BY <1>2, <1>5 DEF StartFails, hybridVars, AskedFor
<1> QED
  BY <1>3, <1>4, <1>5 DEF Start

LEMMA ArmsNext ==
  ASSUME AskedFor, TranscribingHasItsTask, [Next]_vars
  PROVE  /\ ArmsDecide
         /\ hybrid_pending' \/ hybrid_live' => Mode = "hybrid" /\ config.streaming
<1> USE DEF ArmsDecide, PressKeepsItsMic, StreamIsClosed
<1>1. CASE HotkeyPressed
  <2>1. CASE StartFromKey(Mode = "hybrid")
    BY <2>1, StartDecides DEF StartFromKey
  <2>2. CASE Mode = "toggle" /\ Stop(FALSE)
    BY <2>2, StopDecides DEF AskedFor, hybridVars
  <2>3. CASE StopRecording(overrides, eager_chunk_tasks)
    BY <2>3 DEF StopRecording, AskedFor, hybridVars
  <2>4. CASE PressIgnored
    BY <2>4 DEF PressIgnored, coreVars, stateVars, streamVars, hybridVars, AskedFor
  <2> QED
    BY <1>1, <2>1, <2>2, <2>3, <2>4 DEF HotkeyPressed
<1>2. CASE HotkeyReleased
  <2>1. CASE Mode = "push_to_talk" /\ Stop(TRUE)
    BY <2>1, StopDecides DEF AskedFor, hybridVars
  <2>2. CASE KeepAsBatch
    BY <2>2 DEF KeepAsBatch, ClearHybrid, GoTo
  <2>3. CASE EndHold
    BY <2>3 DEF EndHold, StopStreaming, stateVars, AskedFor
  <2>4. CASE ReleaseIgnored
    BY <2>4 DEF ReleaseIgnored, coreVars, stateVars, streamVars, hybridVars, AskedFor
  <2> QED
    BY <1>2, <2>1, <2>2, <2>3, <2>4 DEF HotkeyReleased
<1>3. CASE CancelKey
  BY <1>3
  DEF CancelKey, CancelStreaming, CancelRecording, CancelTranscription,
      ClearHybrid, CloseStream, ResetToIdle, GoTo, hybridVars, AskedFor
<1>4. CASE RecordingCancelled
  BY <1>4 DEF RecordingCancelled, CancelByFile, ClearHybrid, GoTo, AskedFor
<1>5. CASE RecordingTimeout
  <2>1. CASE StopStreaming(FALSE) /\ UNCHANGED hybridVars
    <3>1. ~hybrid_pending
      BY <1>5 DEF RecordingTimeout
    <3> QED
      BY <2>1, <3>1, Zenon DEF StopStreaming, stateVars, hybridVars, AskedFor
  <2>2. CASE StopRecording(overrides \ CancelCleans, {})
    BY <2>2 DEF StopRecording, hybridVars, AskedFor
  <2>3. CASE StopEager(overrides \ CancelCleans, audio_capture)
    BY <2>3 DEF StopEager, Reliable, NoTranscriber, hybridVars, AskedFor
  <2> QED
    BY <1>5, <2>1, <2>2, <2>3 DEF RecordingTimeout
<1>6. CASE StartSignal
  <2>1. CASE Start(FALSE, overrides \ {"model"}, overrides \ {"model"})
    BY <2>1, StartDecides
  <2>2. CASE UNCHANGED coreVars
    BY <2>2 DEF coreVars, stateVars, streamVars, hybridVars, AskedFor
  <2> QED
    BY <1>6, <2>1, <2>2 DEF StartSignal
<1>7. CASE StopSignal
  <2>1. config.cli
    BY <1>7 DEF StopSignal, AskedFor
  <2>2. CASE Stop(TRUE)
    BY <2>1, <2>2, StopDecides DEF AskedFor, hybridVars
  <2>3. CASE UNCHANGED coreVars
    BY <2>3 DEF coreVars, stateVars, streamVars, hybridVars, AskedFor
  <2> QED
    BY <1>7, <2>2, <2>3 DEF StopSignal
<1>8. CASE HybridPromote
  <2>1. hybrid_pending
    BY <1>8, Zenon DEF HybridPromote
  <2>2. UNCHANGED <<state, audio_capture, streaming_drain_pump>>
    BY <1>8 DEF HybridPromote, stateVars, streamVars
  <2> QED
    BY <2>1, <2>2 DEF AskedFor
<1>9. CASE TranscriptionDone \/ TranscriptionCancelled
  BY <1>9
  DEF TranscriptionDone, TranscriptionCancelled, CancelTranscription,
      TranscribingHasItsTask, GoTo, hybridVars, AskedFor
<1>10. CASE StreamEnd \/ Restart
  BY <1>10
  DEF StreamEnd, Restart, PumpEnabled, ClearHybrid, CloseStream, GoTo
<1>11. CASE EagerTick \/ \E partial \in BOOLEAN : StreamText(partial)
  BY <1>11
  DEF EagerTick, StreamText, stateVars, streamVars, hybridVars, AskedFor
<1>12. CASE IdleTick \/ RecordCommand \/ RecordSignal \/ RecordCancel \/ UNCHANGED vars
  BY <1>12
  DEF IdleTick, RecordCommand, RecordSignal, RecordCancel, vars, coreVars,
      stateVars, streamVars, hybridVars, AskedFor
<1> QED
  BY <1>1, <1>2, <1>3, <1>4, <1>5, <1>6, <1>7, <1>8, <1>9, <1>10, <1>11, <1>12
  DEF Next

LEMMA AskedForNext ==
  ASSUME AskedFor, TranscribingHasItsTask, [Next]_vars
  PROVE  AskedFor'
<1>1. config' = config /\ Mode' = Mode
  BY ConfigIsFixed DEF Mode
<1>2. ~config.cli => cli' = "none" /\ ~sigusr1' /\ ~sigusr2' /\ ~cancel_file'
  <2> SUFFICES ASSUME ~config.cli, cli = "none", ~sigusr1, ~sigusr2, ~cancel_file
               PROVE  cli' = "none" /\ ~sigusr1' /\ ~sigusr2' /\ ~cancel_file'
    BY DEF AskedFor
  <2>1. ASSUME cli' = cli, sigusr1' = sigusr1, sigusr2' = sigusr2,
               cancel_file' = cancel_file
        PROVE  cli' = "none" /\ ~sigusr1' /\ ~sigusr2' /\ ~cancel_file'
    BY <2>1, Zenon
  <2>2. CASE HotkeyPressed \/ HotkeyReleased \/ CancelKey
    BY <2>1, <2>2 DEF HotkeyPressed, HotkeyReleased, CancelKey, signalVars
  <2>3. CASE EagerTick \/ RecordingTimeout \/ TranscriptionDone \/ HybridPromote
    BY <2>1, <2>3
    DEF EagerTick, RecordingTimeout, TranscriptionDone, HybridPromote, signalVars
  <2>4. CASE StreamEnd \/ \E partial \in BOOLEAN : StreamText(partial)
    BY <2>1, <2>4 DEF StreamEnd, StreamText, signalVars
  <2>5. CASE Restart
    <3>1. /\ sigusr1' = FALSE /\ sigusr2' = FALSE /\ cancel_file' = FALSE
          /\ cli' = cli
      BY <2>5 DEF Restart
    <3> QED
      BY <3>1, Zenon
  <2>6. ~(\/ RecordingCancelled \/ TranscriptionCancelled \/ StartSignal
          \/ StopSignal \/ IdleTick \/ RecordCommand \/ RecordSignal
          \/ RecordCancel)
    BY DEF RecordingCancelled, TranscriptionCancelled, StartSignal, StopSignal,
           IdleTick, RecordCommand, RecordSignal, RecordCancel
  <2>7. CASE UNCHANGED vars
    BY <2>1, <2>7 DEF vars, signalVars
  <2> QED
    BY <2>2, <2>3, <2>4, <2>5, <2>6, <2>7 DEF Next
<1>3. hybrid_pending' \/ hybrid_live' => Mode = "hybrid" /\ config.streaming
  BY ArmsNext
<1> QED
  BY <1>1, <1>2, <1>3 DEF AskedFor

LEMMA AskedForInvariant == Spec => []AskedFor
<1>1. AskedFor /\ Lifecycle /\ [Next]_vars => AskedFor'
  BY AskedForNext DEF Lifecycle
<1> QED
  BY <1>1, AskedForInit, LifecycleInvariant, PTL DEF Spec

-----------------------------------------------------------------------------
(* A batch recording has its microphone.                                   *)

(* RecordingHasItsMic is not inductive: a short hybrid press turns a       *)
(* stream into a batch recording, so the stream must have it before.       *)
MicIsHeld ==
  ~(Mode = "hybrid" /\ config.streaming /\ config.cli) =>
    /\ state \in {"Recording", "EagerRecording"} => audio_capture = rec
    /\ hybrid_pending => audio_capture = rec

LEMMA MicNext ==
  ASSUME Lifecycle, AskedFor, MicIsHeld, Handler, ArmsDecide,
         hybrid_pending' \/ hybrid_live' => Mode = "hybrid" /\ config.streaming,
         ~(Mode = "hybrid" /\ config.streaming /\ config.cli)
  PROVE  /\ state' \in {"Recording", "EagerRecording"} => audio_capture' = rec'
         /\ hybrid_pending' => audio_capture' = rec'
<1>0. /\ hybrid_pending => state = "Streaming"
      /\ hybrid_pending => Mode = "hybrid" /\ config.streaming /\ ~config.cli
      /\ state \in {"Recording", "EagerRecording"} => audio_capture = rec
      /\ hybrid_pending => audio_capture = rec
  BY DEF Lifecycle, HybridFlagsBelongToAStream, AskedFor, MicIsHeld
<1>1. CASE SomeStart
  <2>1. PICK hybrid \in BOOLEAN, f \in SUBSET OverrideFiles,
             g \in SUBSET OverrideFiles : Start(hybrid, f, g)
    BY <1>1 DEF SomeStart
  <2>2. state = "Idle" /\ rec' = rec + 1
    BY <2>1 DEF Start, CanStart
  <2>3. CASE StartStreaming(hybrid) \/ StartBatch(~hybrid /\ config.eager)
    BY <2>2, <2>3 DEF StartStreaming, StartBatch
  <2>4. CASE StartFails
    BY <1>0, <2>2, <2>4 DEF StartFails, stateVars, hybridVars
  <2> QED
    BY <2>1, <2>3, <2>4 DEF Start
<1>2. CASE SomeStopRecording
  BY <1>0, <1>2
  DEF SomeStopRecording, StopRecording, NoTranscriber, ResetToIdle, GoTo, hybridVars
<1>3. CASE SomeStopEager
  BY <1>0, <1>3
  DEF SomeStopEager, StopEager, NoTranscriber, Deliver, ResetToIdle, GoTo, hybridVars
<1>4. CASE SomeStopStreaming
  <2>1. /\ state = "Streaming" /\ state' = "Streaming" /\ rec' = rec
        /\ hybrid_pending' = hybrid_pending
    BY <1>4 DEF SomeStopStreaming, StopStreaming, stateVars
  <2>2. hybrid_pending => audio_capture' = audio_capture
    BY <1>0, <2>1 DEF ArmsDecide, PressKeepsItsMic
  <2> QED
    BY <1>0, <2>1, <2>2
<1>5. CASE KeepAsBatch
  BY <1>0, <1>5 DEF KeepAsBatch, ClearHybrid, GoTo
<1>6. CASE CancelByFile \/ CancelRecording \/ CancelTranscription \/ CancelStreaming
  BY <1>0, <1>6
  DEF CancelByFile, CancelRecording, CancelTranscription, CancelStreaming,
      ClearHybrid, ResetToIdle, GoTo, hybridVars
<1>7. CASE StreamEnd \/ Restart
  BY <1>7 DEF StreamEnd, Restart, ClearHybrid, GoTo
<1>8. CASE HybridPromote
  BY <1>0, <1>8 DEF HybridPromote, stateVars
<1>9. CASE TranscriptionDone
  BY <1>0, <1>9 DEF TranscriptionDone, Deliver, ResetToIdle, GoTo, hybridVars
<1>10. CASE \/ EagerTick \/ \E partial \in BOOLEAN : StreamText(partial)
            \/ OverridesWritten \/ UNCHANGED coreVars
  BY <1>0, <1>10
  DEF EagerTick, StreamText, OverridesWritten, coreVars, stateVars, hybridVars
<1> QED
  BY <1>1, <1>2, <1>3, <1>4, <1>5, <1>6, <1>7, <1>8, <1>9, <1>10 DEF Handler

LEMMA MicInvariant == Spec => []MicIsHeld
<1>1. Init => MicIsHeld
  BY DEF Init, MicIsHeld
<1>2. TypeOK /\ Lifecycle /\ AskedFor /\ MicIsHeld /\ [Next]_vars => MicIsHeld'
  <2> SUFFICES ASSUME TypeOK, Lifecycle, AskedFor, MicIsHeld, [Next]_vars
               PROVE  MicIsHeld'
    OBVIOUS
  <2>1. Handler
    BY TypeParts, StepIsAHandler DEF EnvTypeOK
  <2>2. /\ ArmsDecide
        /\ hybrid_pending' \/ hybrid_live' => Mode = "hybrid" /\ config.streaming
    BY ArmsNext DEF Lifecycle
  <2>3. config' = config /\ Mode' = Mode
    BY ConfigIsFixed DEF Mode
  <2> QED
    BY <2>1, <2>2, <2>3, MicNext DEF MicIsHeld
<1> QED
  BY <1>1, <1>2, TypeCorrect, LifecycleInvariant, AskedForInvariant, PTL DEF Spec

(* A batch recording, one made of a short hybrid press included, has the   *)
(* microphone open on its own capture, unless a stop signal reached an     *)
(* undecided press.                                                        *)
THEOREM RecordingHasMic == Spec => []RecordingHasItsMic
<1>1. MicIsHeld => RecordingHasItsMic
  BY DEF MicIsHeld, RecordingHasItsMic
<1> QED
  BY <1>1, MicInvariant, PTL

-----------------------------------------------------------------------------
(* Idle is clean.                                                          *)

(* IdleIsClean looks at Idle; the stream's resources are gone whenever the *)
(* daemon is not streaming, since a batch recording ends without touching  *)
(* them, and no drain pump runs in an undecided press, which may become a  *)
(* batch recording.                                                        *)
Released ==
  Reliable /\ StreamsLeftAlone =>
    /\ state # "Streaming" =>
         streaming_handle = 0 /\ streaming_session = 0 /\ ~streaming_drain_pump
    /\ state \in {"Idle", "Transcribing"} => audio_capture = 0
    /\ hybrid_pending => ~streaming_drain_pump

LEMMA ReleasedNext ==
  ASSUME Lifecycle, StreamsAreConfigured, Released, Handler, ArmsDecide,
         Reliable, StreamsLeftAlone
  PROVE  /\ state' # "Streaming" =>
              /\ streaming_handle' = 0
              /\ streaming_session' = 0
              /\ ~streaming_drain_pump'
         /\ state' \in {"Idle", "Transcribing"} => audio_capture' = 0
         /\ hybrid_pending' => ~streaming_drain_pump'
<1>0. /\ ~NoTranscriber
      /\ state = "Streaming" => ~config.cli
      /\ state # "Streaming" =>
           streaming_handle = 0 /\ streaming_session = 0 /\ ~streaming_drain_pump
      /\ state \in {"Idle", "Transcribing"} => audio_capture = 0
      /\ hybrid_pending => state = "Streaming" /\ ~streaming_drain_pump
  BY DEF Reliable, NoTranscriber, StreamsLeftAlone, StreamsAreConfigured,
         Released, Lifecycle, HybridFlagsBelongToAStream
<1> DEFINE StreamGone == /\ streaming_handle' = 0
                         /\ streaming_session' = 0
                         /\ ~streaming_drain_pump'
<1>1. ASSUME state # "Streaming", UNCHANGED streamVars
      PROVE  StreamGone
  BY <1>0, <1>1, Zenon DEF streamVars
<1>2. CASE SomeStart
  <2>1. PICK hybrid \in BOOLEAN, f \in SUBSET OverrideFiles,
             g \in SUBSET OverrideFiles : Start(hybrid, f, g)
    BY <1>2 DEF SomeStart
  <2>2. state = "Idle"
    BY <2>1 DEF Start, CanStart
  <2>3. CASE StartStreaming(hybrid)
    <3>1. state' = "Streaming" /\ streaming_drain_pump' = streaming_drain_pump
      BY <2>3 DEF StartStreaming, GoTo
    <3>2. ~streaming_drain_pump'
      BY <1>0, <2>2, <3>1, Zenon
    <3> QED
      BY <3>1, <3>2
  <2>4. CASE StartBatch(~hybrid /\ config.eager)
    <3>1. StreamGone /\ state' \notin {"Idle", "Transcribing"}
      BY <1>1, <2>2, <2>4 DEF StartBatch, GoTo
    <3> QED
      BY <3>1
  <2>5. CASE StartFails
    <3>1. StreamGone
      BY <1>1, <2>2, <2>5 DEF StartFails
    <3> QED
      BY <1>0, <2>2, <2>5, <3>1 DEF StartFails
  <2> QED
    BY <2>1, <2>3, <2>4, <2>5 DEF Start
<1>3. CASE SomeStopRecording
  <2>1. state = "Recording" /\ UNCHANGED streamVars /\ audio_capture' = 0
    BY <1>0, <1>3 DEF SomeStopRecording, StopRecording
  <2> QED
    BY <1>1, <2>1
<1>4. CASE SomeStopEager
  <2>1. state = "EagerRecording" /\ UNCHANGED streamVars /\ audio_capture' = 0
    BY <1>0, <1>4 DEF SomeStopEager, StopEager
  <2> QED
    BY <1>1, <2>1
<1>5. CASE SomeStopStreaming
  <2>1. /\ state = "Streaming" /\ state' = "Streaming"
        /\ hybrid_pending' = hybrid_pending
    BY <1>5 DEF SomeStopStreaming, StopStreaming, stateVars
  <2>2. hybrid_pending => streaming_drain_pump' = streaming_drain_pump
    BY <1>0, <2>1 DEF ArmsDecide, PressKeepsItsMic
  <2>3. hybrid_pending' => ~streaming_drain_pump'
    BY <1>0, <2>1, <2>2, Zenon
  <2> QED
    BY <2>1, <2>3
<1>6. CASE KeepAsBatch
  <2>1. /\ streaming_handle' = 0 /\ streaming_session' = 0
        /\ state' = "Recording"
        /\ hybrid_pending /\ streaming_drain_pump' = streaming_drain_pump
    BY <1>6 DEF KeepAsBatch, GoTo
  <2>2. ~streaming_drain_pump'
    BY <1>0, <2>1, Zenon
  <2> QED
    BY <2>1, <2>2
<1>7. CASE CancelStreaming \/ StreamEnd \/ Restart
  <2>1. StreamGone /\ audio_capture' = 0
    BY <1>7 DEF CancelStreaming, StreamEnd, Restart, CloseStream
  <2> QED
    BY <2>1
<1>8. CASE CancelByFile
  <2>1. state' = "Idle" /\ audio_capture' = 0 /\ UNCHANGED streamVars
    BY <1>8 DEF CancelByFile, GoTo
  <2>2. CASE state = "Streaming"
    BY <1>0, <2>1, <2>2 DEF ArmsDecide, StreamIsClosed
  <2>3. CASE state # "Streaming"
    BY <1>1, <2>1, <2>3
  <2> QED
    BY <2>2, <2>3
<1>9. CASE CancelRecording
  <2>1. state # "Streaming" /\ UNCHANGED streamVars /\ audio_capture' = 0
    BY <1>9 DEF CancelRecording
  <2> QED
    BY <1>1, <2>1
<1>10. CASE CancelTranscription \/ TranscriptionDone
  <2>1. state = "Transcribing"
    BY <1>10
    DEF CancelTranscription, TranscriptionDone, Lifecycle, TranscribingHasItsTask
  <2>2. UNCHANGED streamVars /\ UNCHANGED audio_capture
    BY <1>10 DEF CancelTranscription, TranscriptionDone
  <2> QED
    BY <1>0, <1>1, <2>1, <2>2
<1>11. CASE \/ HybridPromote \/ EagerTick
            \/ \E partial \in BOOLEAN : StreamText(partial)
            \/ OverridesWritten \/ UNCHANGED coreVars
  <2>1. /\ state' = state /\ audio_capture' = audio_capture
        /\ UNCHANGED streamVars
        /\ hybrid_pending' \in {FALSE, hybrid_pending}
    BY <1>11
    DEF HybridPromote, EagerTick, StreamText, OverridesWritten, coreVars,
        stateVars, hybridVars
  <2>2. state' # "Streaming" => StreamGone
    BY <1>1, <2>1
  <2>3. hybrid_pending' => hybrid_pending /\ ~streaming_drain_pump'
    BY <1>0, <2>1, Zenon DEF streamVars
  <2> QED
    BY <1>0, <2>1, <2>2, <2>3
<1> QED
  BY <1>2, <1>3, <1>4, <1>5, <1>6, <1>7, <1>8, <1>9, <1>10, <1>11 DEF Handler

LEMMA ReleasedInvariant == Spec => []Released
<1>1. Init => Released
  BY DEF Init, Released
<1>2. /\ TypeOK /\ Lifecycle /\ StreamsAreConfigured /\ AskedFor /\ Released
      /\ [Next]_vars
      => Released'
  <2> SUFFICES ASSUME TypeOK, Lifecycle, StreamsAreConfigured, AskedFor,
                      Released, [Next]_vars
               PROVE  Released'
    OBVIOUS
  <2>1. Handler
    BY TypeParts, StepIsAHandler DEF EnvTypeOK
  <2>2. ArmsDecide
    BY ArmsNext DEF Lifecycle
  <2>3. /\ Reliable' => Reliable
        /\ StreamsLeftAlone' => StreamsLeftAlone
    BY ConfigIsFixed DEF Reliable, StreamsLeftAlone
  <2> QED
    BY <2>1, <2>2, <2>3, ReleasedNext DEF Released
<1> QED
  BY <1>1, <1>2, TypeCorrect, LifecycleInvariant, StreamsInvariant,
     AskedForInvariant, PTL DEF Spec

(* With a preloaded engine every way back to Idle, by a result, a cancel,  *)
(* a timeout, the end of the stream or a restart, releases the capture,    *)
(* the backend, the session, the drain pump, the tasks and the flags.      *)
THEOREM CleanIdle == Spec => []IdleIsClean
<1>1. Released /\ Lifecycle /\ ChunksAreCurrent => IdleIsClean
  BY DEF Released, Lifecycle, TranscribingHasItsTask, HybridFlagsBelongToAStream,
         ChunksAreCurrent, IdleIsClean
<1> QED
  BY <1>1, ReleasedInvariant, LifecycleInvariant, CurrentInvariant, PTL

-----------------------------------------------------------------------------
(* The players resume.                                                     *)

(* While a recording runs, a paused player is on the list that the end of  *)
(* the recording plays; when none runs, no player is paused.               *)
MediaWillResume ==
  Reliable /\ discarded = {} =>
    /\ music = "paused" => state # "Idle" /\ paused_media_players = TRUE

LEMMA MediaNext ==
  ASSUME MediaWillResume, Lifecycle, Handler, Reliable, discarded' = {}
  PROVE  music' = "paused" => state' # "Idle" /\ paused_media_players' = TRUE
<1>1. CASE SomeStart
  <2>1. PICK hybrid \in BOOLEAN, f \in SUBSET OverrideFiles,
             g \in SUBSET OverrideFiles : Start(hybrid, f, g)
    BY <1>1 DEF SomeStart
  <2>2. state = "Idle" /\ discarded = {} /\ music # "paused"
    BY <2>1 DEF Start, CanStart, textVars, MediaWillResume
  <2>3. CASE StartStreaming(hybrid) \/ StartBatch(~hybrid /\ config.eager)
    BY <2>2, <2>3 DEF StartStreaming, StartBatch, PauseMedia, GoTo, mediaVars
  <2>4. CASE StartFails
    BY <2>2, <2>4 DEF StartFails, mediaVars
  <2> QED
    BY <2>1, <2>3, <2>4 DEF Start
<1>2. CASE SomeStopRecording \/ SomeStopEager
  <2>1. ~NoTranscriber /\ discarded = {}
    BY <1>2
    DEF Reliable, NoTranscriber, SomeStopRecording, SomeStopEager, StopRecording,
        StopEager, Deliver, textVars
  <2> QED
    BY <1>2, <2>1
    DEF MediaWillResume, SomeStopRecording, SomeStopEager, StopRecording,
        StopEager, Deliver, ResetToIdle, ResumeMedia, GoTo, mediaVars
<1>3. CASE SomeStopStreaming \/ KeepAsBatch
  BY <1>3
  DEF MediaWillResume, SomeStopStreaming, StopStreaming, KeepAsBatch, GoTo,
      stateVars, mediaVars, textVars
<1>4. ~(CancelByFile \/ CancelRecording \/ CancelTranscription \/ CancelStreaming)
  BY DEF CancelByFile, CancelRecording, CancelTranscription, CancelStreaming
<1>5. CASE TranscriptionDone \/ StreamEnd
  BY <1>5
  DEF MediaWillResume, TranscriptionDone, StreamEnd, Deliver, ResetToIdle,
      ResumeMedia, GoTo, textVars
<1>6. CASE Restart
  <2>1. state = "Idle" /\ discarded = {} /\ music' = music
    BY <1>6 DEF Restart
  <2> QED
    BY <2>1 DEF MediaWillResume
<1>7. CASE \/ HybridPromote \/ EagerTick
           \/ \E partial \in BOOLEAN : StreamText(partial)
           \/ OverridesWritten \/ UNCHANGED coreVars
  BY <1>7
  DEF MediaWillResume, HybridPromote, EagerTick, StreamText, OverridesWritten,
      coreVars, stateVars, mediaVars, textVars
<1> QED
  BY <1>1, <1>2, <1>3, <1>4, <1>5, <1>6, <1>7 DEF Handler

(* As long as no recording was cancelled or lost, an idle daemon leaves no *)
(* player paused.                                                          *)
THEOREM MediaPlayAgain == Spec => []MediaResumes
<1>1. Init => MediaWillResume
  BY DEF Init, MediaWillResume
<1>2. TypeOK /\ Lifecycle /\ MediaWillResume /\ [Next]_vars => MediaWillResume'
  <2> SUFFICES ASSUME TypeOK, Lifecycle, MediaWillResume, [Next]_vars
               PROVE  MediaWillResume'
    OBVIOUS
  <2>1. Handler
    BY TypeParts, StepIsAHandler DEF EnvTypeOK
  <2>2. Reliable' => Reliable
    BY ConfigIsFixed DEF Reliable
  <2> QED
    BY <2>1, <2>2, MediaNext DEF MediaWillResume
<1>3. MediaWillResume => MediaResumes
  BY DEF MediaWillResume, MediaResumes
<1> QED
  BY <1>1, <1>2, <1>3, TypeCorrect, LifecycleInvariant, PTL DEF Spec

=============================================================================
