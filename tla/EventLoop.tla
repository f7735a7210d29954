----------------------------- MODULE EventLoop -----------------------------
(***************************************************************************)
(* The timers of the daemon's select! (src/src/daemon.rs).                 *)
(*                                                                         *)
(* Every turn of the loop builds its timers anew, so the first that is due *)
(* ends the turn and the others start again from zero: an arm runs only if *)
(* no enabled arm is faster.  Of those due together select! picks one at   *)
(* random.  Dictation and Meeting take it for granted that their ticks     *)
(* run; this module says when they do.                                     *)
(*                                                                         *)
(* Time is counted in units of 25 ms, the shortest period.  The daemon's   *)
(* task is taken to run as soon as a timer is due: arms take no time.      *)
(***************************************************************************)
EXTENDS Naturals

CONSTANTS
  HoldThreshold,  (* units after which a hybrid press is a hold             *)
  MaxDuration,    (* units after which a recording is too long              *)
  EvictEvery,     (* idle ticks from one eviction to the next, 120          *)
  MaxEvents       (* events other than timers in a behaviour                *)

ASSUME EventLoopAssumption ==
  /\ HoldThreshold \in Nat
  /\ MaxDuration \in Nat
  /\ HoldThreshold <= MaxDuration
  /\ EvictEvery \in Nat \ {0}
  /\ MaxEvents \in Nat

VARIABLES
  state,           \* "idle", "recording", "streaming", "transcribing"
  capture,         \* audio_capture: is the microphone of dictation open?
  hybrid_pending,  \* the press may still be a tap
  age,             \* units since the recording started
  meetings,        \* does the user hold meetings?
  meeting_active,
  cancel,          \* is the cancel file there?
  cold_model,      \* is a secondary model loaded and long unused?
  count,           \* EVICTION_COUNTER
  waited,          \* units since this turn of the loop began
  received         \* events other than timers (not in the code)

dictationVars == <<state, capture, hybrid_pending, age, cancel>>
modelVars == <<cold_model, count>>

meetingVars == <<meetings, meeting_active>>

loopVars == <<dictationVars, modelVars, meetingVars, waited, received>>

Arms == {"hybrid", "meeting_audio", "recording", "transcribing", "idle", "meeting_poll"}

(* Mutant: the recording tick is slower than the meeting poll.             *)
SlowerRecordingTick ==
  [ hybrid |-> 1, meeting_audio |-> 2, recording |-> 5, transcribing |-> 4,
    idle |-> 20, meeting_poll |-> 4 ]

Period ==
  [ hybrid |-> 1, meeting_audio |-> 2, recording |-> 4, transcribing |-> 4,
    idle |-> 20, meeting_poll |-> 4 ]

(* State::is_recording is true of a stream, too.                           *)
InRecording == state \in {"recording", "streaming"}

Tick == IF InRecording THEN "recording" ELSE state

(* The arms' preconditions.                                                *)
Guard(arm) ==
  \/ arm = "hybrid"        /\ hybrid_pending
  \/ arm = "meeting_audio" /\ meeting_active
  \/ arm = "meeting_poll"
  \/ arm = Tick

Due(arm) == Guard(arm) /\ waited >= Period[arm]

LoopInit ==
  /\ state = "idle"
  /\ capture = FALSE
  /\ hybrid_pending = FALSE
  /\ age = 0
  /\ cancel = FALSE
  /\ meetings \in BOOLEAN
  /\ meeting_active = FALSE
  /\ cold_model = FALSE
  /\ count = 0
  /\ waited = 0
  /\ received = 0

-----------------------------------------------------------------------------

Elapse ==
  /\ \A arm \in Arms : ~Due(arm)
  /\ waited' = waited + 1
  /\ age' = IF InRecording /\ age < MaxDuration THEN age + 1 ELSE age
  /\ UNCHANGED <<state, capture, hybrid_pending, cancel, modelVars, meetingVars, received>>

(* A recording or transcription ends: cancelled, too long, stopped, done.  *)
Ends(next) ==
  /\ state' = next
  /\ hybrid_pending' = FALSE
  /\ age' = 0

(* 25 ms: a press that has lasted is a hold; without a stream it is over.  *)
Undecided == state = "streaming" /\ age < HoldThreshold

(* Mutant: the limit is looked at only where the batch stop follows.       *)
LimitOfBatchOnly(arm) ==
  arm = "recording" /\ capture /\ age = MaxDuration /\ state = "recording"

(* 100 ms, of the recording: it has reached its limit.  One whose capture  *)
(* is gone is not looked at any more.                                      *)
TooLong(arm) == arm = "recording" /\ capture /\ age = MaxDuration

(* stop_streaming_capture: the stream goes on without the microphone until *)
(* its backend has ended it.                                               *)
BeginDrain ==
  /\ state = "streaming"
  /\ capture' = FALSE
  /\ UNCHANGED <<state, hybrid_pending, age>>

(* A batch recording is stopped: transcribed, or found too short, or no    *)
(* transcriber is to be had, which leaves the microphone open.             *)
StopBatch ==
  /\ state = "recording"
  /\ \/ Ends("transcribing") /\ capture' = FALSE
     \/ Ends("idle") /\ capture' \in {FALSE, capture}

(* 100 ms, 100 ms, 500 ms: the tick of every state takes a cancel away.    *)
Cancelled(arm) == arm = Tick /\ cancel

(* 500 ms: the first tick and every EvictEvery-th after it evict.          *)
Evicts(arm) == arm = "idle" /\ count = 0

(* 100 ms: a meeting is started, stopped, paused or resumed, or not.       *)
(* 50 ms: the same for a stop or a pause, or the samples are fetched.      *)
MeetingAfter(arm) ==
  IF arm = "meeting_audio" \/ (arm = "meeting_poll" /\ meetings)
  THEN BOOLEAN ELSE {meeting_active}

(* A timer ends the turn: the body of its arm.                             *)
Fire(arm) ==
  /\ Due(arm)
  /\ waited' = 0
  /\ \/ /\ Cancelled(arm)
        /\ Ends("idle")
        /\ capture' = (capture /\ ~InRecording)
     \/ ~Cancelled(arm) /\ TooLong(arm) /\ (BeginDrain \/ StopBatch)
     \/ /\ ~Cancelled(arm) /\ ~TooLong(arm)
        /\ hybrid_pending' = (hybrid_pending /\ (arm = "hybrid" => Undecided))
        /\ UNCHANGED <<state, capture, age>>
  /\ cancel' = (cancel /\ ~Cancelled(arm))
  /\ count' = IF arm = "idle" THEN (count + 1) % EvictEvery ELSE count
  /\ cold_model' = (cold_model /\ ~Evicts(arm))
  /\ meeting_active' \in MeetingAfter(arm)
  /\ UNCHANGED <<meetings, received>>

(* The key or a signal starts a recording or a stream; a hybrid press of a *)
(* stream may still be a tap.                                              *)
Press ==
  /\ state = "idle"
  /\ state' \in {"recording", "streaming"}
  /\ capture' = TRUE
  /\ hybrid_pending' \in {FALSE, state' = "streaming"}
  /\ age' = 0

(* The tap of a hybrid key turns the stream into a batch recording with    *)
(* its capture, if a stop signal has not closed that before.               *)
Tap ==
  /\ state = "streaming" /\ hybrid_pending
  /\ state' = "recording"
  /\ hybrid_pending' = FALSE
  /\ UNCHANGED <<capture, age>>

(* The cancel key, or the end of the backend.                              *)
Abandon ==
  /\ InRecording
  /\ Ends("idle")
  /\ capture' = FALSE

(* An arm that is no timer.  A recording may have used a secondary model,  *)
(* which is cold in due time.                                              *)
Event ==
  /\ received < MaxEvents
  /\ received' = received + 1
  /\ waited' = 0
  /\ \/ Press \/ Tap \/ BeginDrain \/ StopBatch \/ Abandon
     \/ state = "transcribing" /\ Ends("idle") /\ UNCHANGED capture
  /\ cold_model' \in {cold_model, cold_model \/ state = "transcribing"}
  /\ UNCHANGED <<cancel, count, meetingVars>>

(* The command line asks for a cancel.                                     *)
RequestCancel ==
  /\ received < MaxEvents
  /\ received' = received + 1
  /\ state # "idle"
  /\ cancel' = TRUE
  /\ UNCHANGED <<state, capture, hybrid_pending, age, modelVars, meetingVars, waited>>

LoopNext ==
  \/ Elapse
  \/ \E arm \in Arms : Fire(arm)
  \/ Event
  \/ RequestCancel

(* Time passes and the loop runs; a random choice among the arms that are  *)
(* due is not for ever the same.                                           *)
LoopSpec ==
  /\ LoopInit /\ [][LoopNext]_loopVars
  /\ WF_loopVars(Elapse)
  /\ \A arm \in Arms : SF_loopVars(Fire(arm))

-----------------------------------------------------------------------------
(* Correctness.                                                            *)

(* The state is well formed, and a turn of the loop lasts 100 ms at most.  *)
LoopTypeOK ==
  /\ state \in {"idle", "recording", "streaming", "transcribing"}
  /\ capture \in BOOLEAN
  /\ hybrid_pending \in BOOLEAN
  /\ cancel \in BOOLEAN
  /\ meetings \in BOOLEAN
  /\ meeting_active \in BOOLEAN
  /\ cold_model \in BOOLEAN
  /\ age \in 0 .. MaxDuration
  /\ count \in 0 .. EvictEvery - 1
  /\ waited \in 0 .. Period["meeting_poll"]
  /\ received \in 0 .. MaxEvents

(* A cancel asked for during a recording or a transcription is seen by the *)
(* tick of the one or of the other, as long as no meeting is held.         *)
CancelIsSeen ==
  ~meetings /\ cancel /\ state # "idle" ~> ~cancel \/ state = "idle"

(* As long as no meeting is held, the microphone does not stay open beyond *)
(* the limit: a batch recording is stopped, a stream begins its drain.     *)
(* (Without a capture the limit is not looked at: the end of a stream that *)
(* drains is its backend's, and a tap after a stop signal may last.)       *)
RecordingStopsAtItsLimit ==
  ~meetings /\ InRecording /\ capture /\ age = MaxDuration ~> ~(InRecording /\ capture)

=============================================================================
