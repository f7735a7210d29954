---------------------------- MODULE MeetingProofs ----------------------------
(***************************************************************************)
(* Theorems about Meeting, for any setups, any length of chunks, any       *)
(* length of audio, any number of meetings and any channel that holds at   *)
(* least the three events a single poll may send.                          *)
(***************************************************************************)
EXTENDS Meeting, TLAPS

-----------------------------------------------------------------------------
(* The daemon's task: where it is, what it has published, what waits.      *)

PairArms == {"mic", "loopback", "sync"}

ControlType ==
  /\ setup \in Setups
  /\ meeting_daemon \in {"none", "active", "paused"}
  /\ capture \in BOOLEAN /\ stored \in BOOLEAN
  /\ ending \in BOOLEAN /\ polled \in BOOLEAN
  /\ events \in 0 .. Capacity
  /\ files \subseteq Commands
  /\ state_file \in {"idle", "recording", "paused"}
  /\ meetings \in 0 .. MaxMeetings
  /\ arm \in {"select", "starting", "poll_stop", "poll_pause", "poll_resume",
              "chunks", "mic", "loopback", "sync", "saved"}

(* The chunk loop runs for a meeting, an active one unless it is ending.   *)
ArmFitsMeeting ==
  /\ arm = "starting" => meeting_daemon = "none"
  /\ arm \in PairArms \cup {"chunks"} => ending \/ meeting_daemon = "active"
  /\ arm = "saved" => ending
  /\ ending => arm \in PairArms \cup {"chunks", "saved"} /\ meeting_daemon # "none"
  /\ capture <=> meeting_daemon # "none" /\ ~ending

(* One poll sends at most a start, a pause and a resume.                   *)
PollFits ==
  /\ arm = "starting" => events = 0
  /\ arm \in {"poll_stop", "poll_pause"} =>
       events <= 1 \/ (meeting_daemon = "none" /\ events <= 2)
  /\ arm = "poll_resume" => events <= 2

DaemonStateFile ==
  CASE meeting_daemon = "none"   -> "idle"
    [] meeting_daemon = "active" -> "recording"
    [] meeting_daemon = "paused" -> "paused"

(* Not only in select!: at every await of an arm.                          *)
PublishedInEveryArm ==
  /\ "storage" \notin setup.faults /\ stored => meeting_daemon # "none" /\ arm # "saved"
  /\ setup.faults \subseteq {"transcribe"} /\ ~setup.restarts => state_file = DaemonStateFile

Control == ControlType /\ ArmFitsMeeting /\ PollFits /\ PublishedInEveryArm

LEMMA ControlInit == Init => Control
<1> SUFFICES ASSUME Init PROVE Control
  OBVIOUS
<1>1. ControlType
  <2>1. 0 \in 0 .. Capacity /\ 0 \in 0 .. MaxMeetings
    BY MeetingAssumption
  <2> QED
    BY <2>1 DEF Init, ControlType
<1>2. ArmFitsMeeting /\ PollFits
  BY DEF Init, ArmFitsMeeting, PollFits, PairArms
<1>3. PublishedInEveryArm
  BY DEF Init, PublishedInEveryArm, DaemonStateFile
<1> QED
  BY <1>1, <1>2, <1>3 DEF Control

LEMMA EventsFit ==
  ASSUME ControlType
  PROVE  /\ events \in Nat /\ events <= Capacity /\ Capacity \in Nat /\ 3 <= Capacity
         /\ \A n \in Nat : n <= Capacity => n \in 0 .. Capacity
BY MeetingAssumption DEF ControlType

(* The poll of the command files.                                          *)
LEMMA PollKeepsControl ==
  ASSUME Control, PollStart \/ StartMeeting \/ StartFails \/ PollPause \/ PollResume \/ TickPause
  PROVE  Control'
<1> USE EventsFit DEF Control
<1>1. CASE PollStart
  BY <1>1
  DEF PollStart, TimerFires, audioVars, textVars, ControlType, ArmFitsMeeting, PollFits,
      PublishedInEveryArm, DaemonStateFile, PairArms
<1>2. CASE StartMeeting
  <2>1. meetings' \in 0 .. MaxMeetings
    BY <1>2, MeetingAssumption DEF StartMeeting, ControlType
  <2> QED
    BY <1>2, <2>1
    DEF StartMeeting, ControlType, ArmFitsMeeting, PollFits, PublishedInEveryArm,
        DaemonStateFile, PairArms
<1>3. CASE StartFails
  <2>1. ControlType'
    <3>1. stored' \in BOOLEAN
      BY <1>3 DEF StartFails, IfStorageFails, ControlType
    <3>2. events' \in {0, 2} /\ {0, 2} \subseteq 0 .. Capacity
      BY <1>3, EventsFit DEF StartFails
    <3> QED
      BY <1>3, <3>1, <3>2 DEF StartFails, audioVars, ControlType
  <2>2. ArmFitsMeeting'
    BY <1>3
    DEF StartFails, IfStorageFails, audioVars, textVars, Control, ControlType, ArmFitsMeeting, PairArms
  <2>3. PollFits'
    BY <1>3, EventsFit
    DEF StartFails, IfStorageFails, audioVars, textVars, Control, ControlType, ArmFitsMeeting, PollFits
  <2>4. PublishedInEveryArm'
    BY <1>3
    DEF StartFails, IfStorageFails, audioVars, textVars, Control, ControlType, ArmFitsMeeting, PublishedInEveryArm, DaemonStateFile
  <2> QED
    BY <2>1, <2>2, <2>3, <2>4 DEF Control
<1>4. CASE PollPause
  BY <1>4
  DEF PollPause, Pause, audioVars, textVars, ControlType, ArmFitsMeeting, PollFits,
      PublishedInEveryArm, DaemonStateFile, PairArms
<1>5. CASE PollResume
  BY <1>5
  DEF PollResume, Resume, audioVars, textVars, ControlType, ArmFitsMeeting, PollFits,
      PublishedInEveryArm, DaemonStateFile, PairArms
<1>6. CASE TickPause
  BY <1>6
  DEF TickPause, TimerFires, Pause, audioVars, textVars, armVars, ControlType,
      ArmFitsMeeting, PollFits, PublishedInEveryArm, DaemonStateFile, PairArms
<1> QED
  BY <1>1, <1>2, <1>3, <1>4, <1>5, <1>6

(* The chunk loop and the stop.                                            *)
LEMMA ChunksKeepControl ==
  ASSUME Control,
         PollStop \/ TickStop \/ TickAudio \/ NextPair \/ ProcessMic \/ ProcessLoopback
           \/ SyncSourceOffsets \/ ChunksDone \/ SaveMeeting \/ FinishStop
  PROVE  Control'
<1> USE EventsFit DEF Control
<1>1. CASE PollStop \/ TickStop
  <2>1. ControlType'
    BY <1>1, EventsFit
    DEF PollStop, TickStop, TimerFires, BeginStop, audioVars, textVars, Control, ControlType
  <2>2. ArmFitsMeeting'
    BY <1>1
    DEF PollStop, TickStop, TimerFires, BeginStop, audioVars, textVars, Control, ControlType, ArmFitsMeeting, PairArms
  <2>3. PollFits'
    BY <1>1, EventsFit
    DEF PollStop, TickStop, TimerFires, BeginStop, audioVars, textVars, Control, ControlType, ArmFitsMeeting, PollFits
  <2>4. PublishedInEveryArm'
    BY <1>1
    DEF PollStop, TickStop, TimerFires, BeginStop, audioVars, textVars, Control, ControlType, ArmFitsMeeting, PublishedInEveryArm, DaemonStateFile
  <2> QED
    BY <2>1, <2>2, <2>3, <2>4 DEF Control
<1>2. CASE TickAudio \/ NextPair \/ SyncSourceOffsets
  <2>1. ControlType'
    BY <1>2, EventsFit
    DEF TickAudio, NextPair, SyncSourceOffsets, TakePair, TimerFires, audioVars, textVars, Control, ControlType
  <2>2. ArmFitsMeeting'
    BY <1>2
    DEF TickAudio, NextPair, SyncSourceOffsets, TakePair, TimerFires, audioVars, textVars, Control, ControlType, ArmFitsMeeting, PairArms
  <2>3. PollFits'
    BY <1>2, EventsFit
    DEF TickAudio, NextPair, SyncSourceOffsets, TakePair, TimerFires, audioVars, textVars, Control, ControlType, ArmFitsMeeting, PollFits
  <2>4. PublishedInEveryArm'
    BY <1>2
    DEF TickAudio, NextPair, SyncSourceOffsets, TakePair, TimerFires, audioVars, textVars, Control, ControlType, ArmFitsMeeting, PublishedInEveryArm, DaemonStateFile
  <2> QED
    BY <2>1, <2>2, <2>3, <2>4 DEF Control
<1>3. CASE ProcessMic \/ ProcessLoopback
  <2>1. events' \in 0 .. Capacity
    BY <1>3 DEF ProcessMic, ProcessLoopback, Process, ControlType
  <2> QED
    BY <1>3, <2>1
    DEF ProcessMic, ProcessLoopback, audioVars, ControlType, ArmFitsMeeting, PollFits,
        PublishedInEveryArm, DaemonStateFile, PairArms
<1>4. CASE ChunksDone
  <2>1. ControlType'
    BY <1>4, EventsFit
    DEF ChunksDone, BeginStop, audioVars, textVars, Control, ControlType
  <2>2. ArmFitsMeeting'
    BY <1>4
    DEF ChunksDone, BeginStop, audioVars, textVars, Control, ControlType, ArmFitsMeeting, PairArms
  <2>3. PollFits'
    BY <1>4, EventsFit
    DEF ChunksDone, BeginStop, audioVars, textVars, Control, ControlType, ArmFitsMeeting, PollFits
  <2>4. PublishedInEveryArm'
    BY <1>4
    DEF ChunksDone, BeginStop, audioVars, textVars, Control, ControlType, ArmFitsMeeting, PublishedInEveryArm, DaemonStateFile
  <2> QED
    BY <2>1, <2>2, <2>3, <2>4 DEF Control
<1>5. CASE SaveMeeting \/ FinishStop
  <2>1. ControlType'
    <3>1. stored' \in BOOLEAN
      BY <1>5 DEF SaveMeeting, FinishStop, IfStorageFails, ControlType
    <3>2. events' \in {0, events} /\ 0 \in 0 .. Capacity
      BY <1>5, EventsFit DEF SaveMeeting, FinishStop, DropMeeting
    <3> QED
      BY <1>5, <3>1, <3>2 DEF SaveMeeting, FinishStop, DropMeeting, audioVars, ControlType
  <2>2. ArmFitsMeeting'
    BY <1>5
    DEF SaveMeeting, FinishStop, DropMeeting, IfStorageFails, audioVars, textVars, Control, ControlType, ArmFitsMeeting, PairArms
  <2>3. PollFits'
    BY <1>5, EventsFit
    DEF SaveMeeting, FinishStop, DropMeeting, IfStorageFails, audioVars, textVars, Control, ControlType, ArmFitsMeeting, PollFits
  <2>4. PublishedInEveryArm'
    BY <1>5
    DEF SaveMeeting, FinishStop, DropMeeting, IfStorageFails, audioVars, textVars, Control, ControlType, ArmFitsMeeting, PublishedInEveryArm, DaemonStateFile
  <2> QED
    BY <2>1, <2>2, <2>3, <2>4 DEF Control
<1> QED
  BY <1>1, <1>2, <1>3, <1>4, <1>5

LEMMA ControlNext ==
  ASSUME Control, [Next]_vars
  PROVE  Control'
<1>1. CASE ReceiveEvent
  <2>1. events' \in 0 .. Capacity
    BY <1>1, EventsFit DEF ReceiveEvent, Control, ControlType
  <2> QED
    BY <1>1, <2>1
    DEF ReceiveEvent, audioVars, textVars, armVars, Control, ControlType, ArmFitsMeeting,
        PollFits, PublishedInEveryArm, DaemonStateFile, PairArms
<1>2. ASSUME NEW s \in Sources, Hear(s) PROVE Control'
  BY <1>2
  DEF Hear, textVars, armVars, Control, ControlType, ArmFitsMeeting, PollFits,
      PublishedInEveryArm, DaemonStateFile, PairArms
<1>3. ASSUME NEW name \in Commands, Command(name) PROVE Control'
  BY <1>3
  DEF Command, audioVars, textVars, armVars, Control, ControlType, ArmFitsMeeting,
      PollFits, PublishedInEveryArm, DaemonStateFile, PairArms
<1>4. CASE Restart
  <2>1. ControlType'
    <3>1. stored' \in {FALSE} \cup IfStorageFails({stored}) /\ stored \in BOOLEAN
      BY <1>4 DEF Restart, Control, ControlType
    <3>2. stored' \in BOOLEAN
      BY <3>1 DEF IfStorageFails
    <3>3. state_file' \in {"idle", state_file} /\ 0 \in 0 .. Capacity
      BY <1>4, EventsFit DEF Restart, Control
    <3> QED
      BY <1>4, <3>2, <3>3 DEF Restart, Control, ControlType
  <2>2. ArmFitsMeeting'
    BY <1>4
    DEF Restart, IfStorageFails, Control, ControlType, ArmFitsMeeting, PairArms
  <2>3. PollFits'
    BY <1>4, EventsFit
    DEF Restart, IfStorageFails, Control, ControlType, ArmFitsMeeting, PollFits
  <2>4. PublishedInEveryArm'
    BY <1>4
    DEF Restart, IfStorageFails, Control, ControlType, ArmFitsMeeting, PublishedInEveryArm, DaemonStateFile
  <2> QED
    BY <2>1, <2>2, <2>3, <2>4 DEF Control
<1>5. CASE UNCHANGED vars
  BY <1>5
  DEF vars, audioVars, textVars, armVars, Control, ControlType, ArmFitsMeeting, PollFits,
      PublishedInEveryArm, DaemonStateFile, PairArms
<1> QED
  BY <1>1, <1>2, <1>3, <1>4, <1>5, PollKeepsControl, ChunksKeepControl
  DEF Next, DaemonStep

-----------------------------------------------------------------------------
(* The audio, the clock and the transcript.                                *)

SoundType ==
  /\ heard \in [Sources -> Units] /\ fetched \in [Sources -> Units]
  /\ taken \in [Sources -> Units] /\ pair \in [Sources -> Units]
  /\ DOMAIN source_offsets \subseteq Sources
  /\ \A s \in DOMAIN source_offsets : source_offsets[s] \in Nat
  /\ transcript \subseteq Sources \X Units \X Nat

(* What is not heard cannot be fetched, nor taken if not fetched.          *)
AudioFlows ==
  /\ \A s \in Sources : pair[s] <= taken[s] /\ taken[s] <= fetched[s] /\ fetched[s] <= heard[s]
  /\ ending => fetched["mic"] = heard["mic"]

Before(s) == taken[s] - pair[s]

(* Nothing is left in the buffers.                                         *)
Tail == ending /\ taken = fetched

(* The loopback's part of a pair is no longer than the microphone's, but   *)
(* for the last pair of a meeting.                                         *)
PairIsLevel ==
  arm \in PairArms => Tail \/ (0 < pair["mic"] /\ pair["loopback"] <= pair["mic"])

(* A paused meeting that ends takes its audio without a clock.             *)
Tracked == meeting_daemon # "none" /\ (ending => meeting_daemon = "active")

(* Every clock is at m, and a source that has none has had nothing.        *)
ClocksAt(m, units) ==
  /\ \A s \in DOMAIN source_offsets : source_offsets[s] = m
  /\ "mic" \notin DOMAIN source_offsets => m = 0
  /\ "loopback" \notin DOMAIN source_offsets => units = 0

ClocksAreRight ==
  /\ Tracked /\ arm \notin PairArms => Tail \/ ClocksAt(taken["mic"], taken["loopback"])
  /\ Tracked /\ arm = "mic" => ClocksAt(Before("mic"), Before("loopback"))
  /\ Tracked /\ arm = "loopback" =>
       /\ IF "mic" \in DOMAIN source_offsets THEN source_offsets["mic"] = taken["mic"]
          ELSE taken["mic"] = 0
       /\ IF "loopback" \in DOMAIN source_offsets THEN source_offsets["loopback"] = Before("mic")
          ELSE Before("loopback") = 0
  /\ Tracked /\ arm = "sync" =>
       \/ Tail
       \/ /\ "mic" \in DOMAIN source_offsets
          /\ source_offsets["mic"] = taken["mic"]
          /\ \A s \in DOMAIN source_offsets : source_offsets[s] <= taken["mic"]
          /\ "loopback" \notin DOMAIN source_offsets => taken["loopback"] = 0

(* The audio of a source that had its turn, and its stamps, are past.      *)
Past(s) ==
  IF arm = "mic" \/ (arm = "loopback" /\ s = "loopback") THEN Before(s) ELSE taken[s]

TextIsPast ==
  \A e \in transcript :
    /\ e[2] <= Past(e[1])
    /\ e[1] \in DOMAIN source_offsets
    /\ e[3] <= source_offsets[e[1]]

(* With no chunk failing, the transcript has all the microphone audio      *)
(* that was processed.                                                     *)
MicTimes == {e[2] : e \in {x \in transcript : x[1] = "mic"}}

MicIsTranscribed ==
  Tracked /\ setup.faults = {} =>
    MicTimes = 1 .. (IF arm = "mic" THEN Before("mic") ELSE taken["mic"])

Sound ==
  /\ SoundType
  /\ AudioFlows
  /\ PairIsLevel
  /\ ClocksAreRight
  /\ TextIsPast
  /\ StampsFollowTheMic
  /\ MicIsTranscribed

LEMMA Numbers ==
  ASSUME SoundType
  PROVE  /\ MaxClock \in Nat
         /\ \A s \in Sources :
              /\ heard[s] \in Nat /\ fetched[s] \in Nat /\ taken[s] \in Nat /\ pair[s] \in Nat
              /\ heard[s] <= MaxClock
         /\ \A e \in transcript : e[1] \in Sources /\ e[2] \in Nat /\ e[3] \in Nat
         /\ "mic" \in Sources /\ "loopback" \in Sources
BY MeetingAssumption DEF SoundType, Sources, Units

(* A step that touches neither audio nor text, nor leaves the pair arms.   *)
LEMMA SoundFrame ==
  ASSUME Sound, UNCHANGED <<setup, audioVars, textVars, pair, ending>>, Tracked' => Tracked,
         arm' = arm \/ (arm \notin PairArms /\ arm' \notin PairArms)
  PROVE  Sound'
<1>1. SoundType' /\ AudioFlows' /\ StampsFollowTheMic'
  BY DEF Sound, SoundType, AudioFlows, StampsFollowTheMic, audioVars, textVars
<1>2. Tail' = Tail /\ \A s : Before(s)' = Before(s)
  BY DEF Tail, Before, audioVars
<1>3. PairIsLevel'
  BY <1>2 DEF Sound, PairIsLevel, audioVars
<1>4. ClocksAreRight'
  BY <1>2 DEF Sound, ClocksAreRight, ClocksAt, PairArms, audioVars, textVars
<1>5. MicIsTranscribed'
  BY <1>2 DEF Sound, MicIsTranscribed, MicTimes, PairArms, audioVars, textVars
<1>6. TextIsPast'
  BY <1>2 DEF Sound, TextIsPast, Past, PairArms, audioVars, textVars
<1> QED
  BY <1>1, <1>3, <1>4, <1>5, <1>6 DEF Sound

(* A meeting begins, or the daemon has none.                               *)
LEMMA FreshIsSound ==
  ASSUME FreshMeeting, arm' \notin PairArms, ~ending'
  PROVE  Sound'
<1>1. Nothing \in [Sources -> Units] /\ 0 \in Units /\ DOMAIN <<>> = {}
      /\ Nothing["mic"] = 0 /\ Nothing["loopback"] = 0 /\ \A s \in Sources : Nothing[s] = 0
  BY MeetingAssumption DEF Nothing, Units, Sources
<1>2. /\ heard' = Nothing /\ fetched' = Nothing /\ taken' = Nothing /\ pair' = Nothing
      /\ source_offsets' = <<>> /\ transcript' = {}
  BY DEF FreshMeeting
<1>3. SoundType' /\ AudioFlows' /\ PairIsLevel' /\ TextIsPast' /\ StampsFollowTheMic'
  BY <1>1, <1>2 DEF SoundType, AudioFlows, PairIsLevel, TextIsPast, StampsFollowTheMic
<1>4. ClocksAreRight'
  BY <1>1, <1>2 DEF ClocksAreRight, ClocksAt, PairArms
<1>5. MicIsTranscribed'
  BY <1>1, <1>2 DEF MicIsTranscribed, MicTimes, PairArms
<1> QED
  BY <1>3, <1>4, <1>5 DEF Sound

(* The capture threads deliver.                                            *)
LEMMA HearKeeps ==
  ASSUME Control, Sound, NEW source \in Sources, Hear(source)
  PROVE  Sound'
<1>1. ~ending
  BY DEF Control, ArmFitsMeeting, Hear
<1>2. /\ heard' = [heard EXCEPT ![source] = @ + 1] /\ heard[source] < MaxClock
      /\ UNCHANGED <<setup, meeting_daemon, fetched, taken, textVars, arm, pair, ending>>
  BY DEF Hear, armVars
<1>3. /\ heard \in [Sources -> Units] /\ MaxClock \in Nat
      /\ \A s \in Sources : heard[s] \in Nat /\ fetched[s] \in Nat /\ fetched[s] <= heard[s]
  BY Numbers DEF Sound, SoundType, AudioFlows
<1>4. /\ heard' \in [Sources -> Units]
      /\ \A s \in Sources : heard'[s] \in Nat /\ heard[s] <= heard'[s]
  BY <1>2, <1>3 DEF Units
<1>5. SoundType'
  BY <1>2, <1>4 DEF Sound, SoundType, textVars
<1>6. AudioFlows'
  <2>1. \A s \in Sources : fetched[s] <= heard'[s]
    BY <1>3, <1>4
  <2> QED
    BY <1>1, <1>2, <2>1 DEF Sound, AudioFlows
<1>7. Tail' = Tail /\ \A s : Before(s)' = Before(s)
  BY <1>2 DEF Tail, Before
<1>8. PairIsLevel' /\ ClocksAreRight'
  BY <1>2, <1>7 DEF Sound, PairIsLevel, ClocksAreRight, ClocksAt, Tracked, textVars
<1>9. TextIsPast' /\ StampsFollowTheMic'
  BY <1>2, <1>7 DEF Sound, TextIsPast, Past, StampsFollowTheMic, textVars
<1>10. MicIsTranscribed'
  BY <1>2, <1>7 DEF Sound, MicIsTranscribed, MicTimes, Tracked, textVars
<1> QED
  BY <1>5, <1>6, <1>8, <1>9, <1>10 DEF Sound

(* What was heard is fetched, by a tick or by the stop of the capture.     *)
LEMMA FetchKeeps ==
  ASSUME Control, Sound, arm \notin PairArms, arm' \notin PairArms, ~ending,
         fetched' \in {fetched, heard}, ending' => fetched'["mic"] = heard["mic"],
         UNCHANGED <<setup, meeting_daemon, heard, taken, textVars, pair>>
  PROVE  Sound'
<1>1. SoundType'
  BY DEF Sound, SoundType, textVars
<1>2. AudioFlows'
  <2>1. \A s \in Sources : taken[s] <= fetched'[s] /\ fetched'[s] <= heard[s]
    BY Numbers DEF Sound, AudioFlows
  <2> QED
    BY <2>1 DEF Sound, AudioFlows
<1>3. PairIsLevel'
  BY DEF PairIsLevel
<1>4. Tracked' => Tracked
  BY DEF Tracked
<1>5. ClocksAreRight'
  BY <1>4 DEF Sound, ClocksAreRight, ClocksAt, Tail, PairArms, textVars
<1>6. MicIsTranscribed'
  BY <1>4 DEF Sound, MicIsTranscribed, MicTimes, PairArms, textVars
<1>7. StampsFollowTheMic' /\ TextIsPast'
  BY DEF Sound, StampsFollowTheMic, TextIsPast, Past, PairArms, textVars
<1> QED
  BY <1>1, <1>2, <1>3, <1>5, <1>6, <1>7 DEF Sound

LEMMA StopKeeps ==
  ASSUME Control, Sound, NEW fromPoll, BeginStop(fromPoll), arm \notin PairArms, ~ending,
         meeting_daemon # "none", UNCHANGED <<setup, meeting_daemon, textVars>>
  PROVE  Sound'
<1>1. capture
  BY DEF Control, ArmFitsMeeting
<1>2. /\ fetched' = IF heard["mic"] > fetched["mic"] THEN heard ELSE fetched
      /\ arm' = "chunks" /\ UNCHANGED <<heard, taken, pair>>
  BY <1>1 DEF BeginStop
<1>3. heard["mic"] > fetched["mic"] \/ heard["mic"] = fetched["mic"]
  BY Numbers DEF Sound, AudioFlows
<1>4. fetched' \in {fetched, heard} /\ fetched'["mic"] = heard["mic"]
  BY <1>2, <1>3
<1> QED
  BY <1>2, <1>4, FetchKeeps DEF PairArms

(* The chunk loop.                                                         *)

LEMMA WhatAPairTakes ==
  ASSUME Sound, NextPair
  PROVE  \E m, l \in Nat :
           /\ TakePair(m, l)
           /\ taken["mic"] + m <= fetched["mic"]
           /\ taken["loopback"] + l <= fetched["loopback"]
           /\ \/ 0 < m /\ l <= m
              \/ /\ ending /\ 0 < m + l
                 /\ taken["mic"] + m = fetched["mic"]
                 /\ taken["loopback"] + l = fetched["loopback"]
<1>1. /\ taken["mic"] \in Nat /\ taken["loopback"] \in Nat
      /\ fetched["mic"] \in Nat /\ fetched["loopback"] \in Nat
      /\ taken["mic"] <= fetched["mic"] /\ taken["loopback"] <= fetched["loopback"]
  BY Numbers DEF Sound, AudioFlows
<1>2. /\ Buffered("mic") = fetched["mic"] - taken["mic"] /\ Buffered("mic") \in Nat
      /\ Buffered("loopback") = fetched["loopback"] - taken["loopback"]
      /\ Buffered("loopback") \in Nat
  BY <1>1 DEF Buffered
<1>3. ChunkLen \in Nat /\ 0 < ChunkLen
  BY MeetingAssumption
<1>4. CASE /\ Buffered("mic") >= ChunkLen
           /\ TakePair(ChunkLen, Lower(Buffered("loopback"), ChunkLen))
  <2> DEFINE l == Lower(Buffered("loopback"), ChunkLen)
  <2>1. l \in Nat /\ l <= ChunkLen /\ l <= Buffered("loopback")
    BY <1>2, <1>3 DEF Lower
  <2> HIDE DEF l
  <2>2. /\ taken["mic"] + ChunkLen <= fetched["mic"]
        /\ taken["loopback"] + l <= fetched["loopback"]
    BY <1>1, <1>2, <1>3, <1>4, <2>1
  <2>3. TakePair(ChunkLen, l)
    BY <1>4 DEF l
  <2> QED
    BY <1>3, <2>1, <2>2, <2>3
<1>5. CASE /\ ending /\ Buffered("mic") + Buffered("loopback") > 0
           /\ TakePair(Buffered("mic"), Buffered("loopback"))
  BY <1>1, <1>2, <1>5
<1> QED
  BY <1>4, <1>5 DEF NextPair

LEMMA NextPairKeeps ==
  ASSUME Sound, NextPair
  PROVE  Sound'
<1>1. PICK m, l \in Nat :
        /\ TakePair(m, l)
        /\ taken["mic"] + m <= fetched["mic"]
        /\ taken["loopback"] + l <= fetched["loopback"]
        /\ \/ 0 < m /\ l <= m
           \/ /\ ending /\ 0 < m + l
              /\ taken["mic"] + m = fetched["mic"]
              /\ taken["loopback"] + l = fetched["loopback"]
  BY WhatAPairTakes
<1>2. /\ taken["mic"] \in Nat /\ taken["loopback"] \in Nat
      /\ fetched["mic"] \in Nat /\ fetched["loopback"] \in Nat /\ MaxClock \in Nat
      /\ fetched["mic"] <= MaxClock /\ fetched["loopback"] <= MaxClock
  BY Numbers DEF Sound, AudioFlows, SoundType, Units
<1>3. /\ taken' = [mic |-> taken["mic"] + m, loopback |-> taken["loopback"] + l]
      /\ pair' = [mic |-> m, loopback |-> l]
      /\ arm = "chunks" /\ arm' = "mic"
      /\ UNCHANGED <<setup, meeting_daemon, capture, heard, fetched, textVars, ending>>
  BY <1>1 DEF TakePair, NextPair
<1>4. /\ taken'["mic"] = taken["mic"] + m /\ taken'["loopback"] = taken["loopback"] + l
      /\ pair'["mic"] = m /\ pair'["loopback"] = l
      /\ Before("mic")' = taken["mic"] /\ Before("loopback")' = taken["loopback"]
  BY <1>2, <1>3 DEF Before
<1>5. taken' \in [Sources -> Units] /\ pair' \in [Sources -> Units]
  <2>1. {taken["mic"] + m, taken["loopback"] + l, m, l} \subseteq Units
    BY <1>1, <1>2 DEF Units
  <2> QED
    BY <1>3, <2>1 DEF Sources
<1>6. SoundType'
  BY <1>3, <1>5 DEF Sound, SoundType, textVars
<1>7. AudioFlows'
  <2>1. \A s \in Sources :
          pair'[s] <= taken'[s] /\ taken'[s] <= fetched[s] /\ fetched[s] <= heard[s]
    BY <1>1, <1>2, <1>4 DEF Sound, AudioFlows, Sources
  <2> QED
    BY <1>1, <1>3, <1>4, <2>1 DEF Sound, AudioFlows
<1>8. (0 < m /\ l <= m) \/ Tail'
  <2>1. CASE /\ ending
             /\ taken["mic"] + m = fetched["mic"]
             /\ taken["loopback"] + l = fetched["loopback"]
    <3>1. fetched \in [Sources -> Units] /\ taken' \in [Sources -> Units]
      BY <1>5 DEF Sound, SoundType
    <3>2. \A s \in Sources : taken'[s] = fetched[s]
      BY <1>4, <2>1 DEF Sources
    <3> QED
      BY <1>3, <2>1, <3>1, <3>2 DEF Tail
  <2> QED
    BY <1>1, <2>1
<1>9. PairIsLevel'
  BY <1>2, <1>3, <1>4, <1>8 DEF PairIsLevel
<1>10. ~Tail
  BY <1>1, <1>2 DEF Tail
<1>11. ClocksAreRight'
  BY <1>3, <1>4, <1>10 DEF Sound, ClocksAreRight, ClocksAt, Tracked, PairArms, textVars
<1>12. StampsFollowTheMic' /\ TextIsPast'
  <2>1. \A e \in transcript : e[1] = "mic" \/ e[1] = "loopback"
    BY Numbers DEF Sound, Sources
  <2>2. TextIsPast'
    BY <1>3, <1>4, <2>1 DEF Sound, TextIsPast, Past, textVars
  <2>3. ~ending => \A e \in transcript : e[3] <= taken["mic"] + m
    BY <1>1, <1>2, Numbers DEF Sound, StampsFollowTheMic
  <2> QED
    BY <1>3, <1>4, <2>2, <2>3 DEF Sound, StampsFollowTheMic, textVars
<1>13. MicIsTranscribed'
  BY <1>3, <1>4 DEF Sound, MicIsTranscribed, MicTimes, Tracked, textVars
<1> QED
  BY <1>6, <1>7, <1>9, <1>11, <1>12, <1>13 DEF Sound

(* What the clock of a source says of the chunk in hand.                   *)
LEMMA EntriesAreNext ==
  ASSUME Sound, NEW s \in Sources, Offset(s) \in Nat
  PROVE  /\ Entries(s) \subseteq Sources \X Units \X Nat
         /\ \A e \in Entries(s) : \E i \in 1 .. pair[s] :
              e[1] = s /\ e[2] = Before(s) + i /\ e[3] = Offset(s) + i
         /\ \A i \in 1 .. pair[s] : <<s, Before(s) + i, Offset(s) + i>> \in Entries(s)
<1>1. /\ taken[s] \in Nat /\ pair[s] \in Nat /\ pair[s] <= taken[s] /\ MaxClock \in Nat
      /\ fetched[s] \in Nat /\ heard[s] \in Nat
      /\ taken[s] <= fetched[s] /\ fetched[s] <= heard[s] /\ heard[s] <= MaxClock
      /\ Before(s) = taken[s] - pair[s]
  BY Numbers DEF Sound, AudioFlows, Before
<1>2. ASSUME NEW i \in 1 .. pair[s]
      PROVE  Before(s) + i \in Units /\ Offset(s) + i \in Nat
  BY <1>1 DEF Units
<1>3. Entries(s) = {<<s, Before(s) + i, Offset(s) + i>> : i \in 1 .. pair[s]}
  BY DEF Entries, Before
<1> QED
  BY <1>2, <1>3

LEMMA PairNumbers ==
  ASSUME Sound, arm \in PairArms
  PROVE  /\ taken["mic"] \in Nat /\ taken["loopback"] \in Nat
         /\ pair["mic"] \in Nat /\ pair["loopback"] \in Nat
         /\ Before("mic") \in Nat /\ Before("loopback") \in Nat
         /\ taken["mic"] = Before("mic") + pair["mic"]
         /\ taken["loopback"] = Before("loopback") + pair["loopback"]
         /\ Tail \/ (0 < pair["mic"] /\ pair["loopback"] <= pair["mic"])
BY Numbers DEF Sound, AudioFlows, PairIsLevel, Before

(* A chunk that is not processed, or one that is: what both have in common.*)
LEMMA ProcessKeeps ==
  ASSUME Control, Sound, NEW s \in Sources, Process(s),
         \/ s = "mic" /\ arm = "mic" /\ arm' = "loopback"
         \/ s = "loopback" /\ arm = "loopback" /\ arm' = "sync",
         UNCHANGED <<setup, meeting_daemon, audioVars, pair, ending>>,
         meeting_daemon = "active" =>
           /\ s = "mic" => Offset(s) = Before(s)
           /\ ~ending => Offset(s) <= Before("mic")
  PROVE  SoundType' /\ AudioFlows' /\ PairIsLevel' /\ TextIsPast' /\ StampsFollowTheMic'
<1>1. Tail' = Tail /\ \A x : Before(x)' = Before(x)
  BY DEF Tail, Before, audioVars
<1>2. AudioFlows' /\ PairIsLevel'
  BY <1>1 DEF Sound, AudioFlows, PairIsLevel, PairArms, audioVars
<1>3. /\ \A x \in Sources : taken[x] \in Nat /\ pair[x] \in Nat /\ Before(x) \in Nat
                          /\ taken[x] = Before(x) + pair[x]
      /\ \A e \in transcript : e[1] \in Sources /\ e[2] \in Nat /\ e[3] \in Nat
      /\ Offset(s) \in Nat
  BY Numbers DEF Sound, AudioFlows, SoundType, Before, Offset
<1>4. /\ Past(s) = Before(s) /\ Past(s)' = taken[s]
      /\ \A x \in Sources \ {s} : Past(x)' = Past(x)
  BY <1>1 DEF Past, audioVars, Sources
<1>5. CASE UNCHANGED <<source_offsets, transcript>>
  <2>1. \A x \in Sources : Past(x) <= Past(x)' /\ Past(x) \in Nat /\ Past(x)' \in Nat
    BY <1>3, <1>4, <1>1 DEF Past
  <2>2. TextIsPast'
    BY <1>3, <1>5, <2>1 DEF Sound, TextIsPast
  <2> QED
    BY <1>2, <1>5, <2>2 DEF Sound, SoundType, StampsFollowTheMic, audioVars
<1>6. CASE /\ meeting_daemon = "active"
           /\ source_offsets' = Advanced(s)
           /\ transcript' \in {transcript, transcript \cup Entries(s)}
  <2>1. /\ Entries(s) \subseteq Sources \X Units \X Nat
        /\ \A e \in Entries(s) : \E i \in 1 .. pair[s] :
             e[1] = s /\ e[2] = Before(s) + i /\ e[3] = Offset(s) + i
    BY <1>3, EntriesAreNext
  <2>2. \A e \in Entries(s) :
          /\ e[1] = s /\ e[2] \in Nat /\ e[3] \in Nat
          /\ Before(s) < e[2] /\ e[2] <= taken[s]
          /\ Offset(s) < e[3] /\ e[3] <= Offset(s) + pair[s]
          /\ e[2] - Before(s) = e[3] - Offset(s)
    BY <1>3, <2>1
  <2>3. /\ DOMAIN source_offsets' = DOMAIN source_offsets \cup {s}
        /\ source_offsets'[s] = Offset(s) + pair[s]
        /\ \A x \in DOMAIN source_offsets \ {s} : source_offsets'[x] = source_offsets[x]
    BY <1>6 DEF Advanced
  <2>4. SoundType'
    <3>1. Offset(s) + pair[s] \in Nat
      BY <1>3
    <3>2. \A x \in DOMAIN source_offsets' : x \in Sources /\ source_offsets'[x] \in Nat
      BY <2>3, <3>1 DEF Sound, SoundType
    <3>3. transcript' \subseteq Sources \X Units \X Nat
      BY <1>6, <2>1 DEF Sound, SoundType
    <3> QED
      BY <3>2, <3>3 DEF Sound, SoundType, audioVars
  <2>5. \A e \in transcript : e[1] = s => e[2] <= Before(s) /\ e[3] <= Offset(s)
    BY <1>4 DEF Sound, TextIsPast, Offset
  <2>6. TextIsPast'
    <3>1. ASSUME NEW e \in transcript
          PROVE  /\ e[2] <= Past(e[1])'
                 /\ e[1] \in DOMAIN source_offsets' /\ e[3] <= source_offsets'[e[1]]
      <4>1. CASE e[1] = s
        BY <1>3, <1>4, <2>3, <2>5, <4>1
      <4>2. CASE e[1] # s
        BY <1>3, <1>4, <2>3, <4>2 DEF Sound, TextIsPast
      <4> QED
        BY <4>1, <4>2
    <3>2. ASSUME NEW e \in Entries(s)
          PROVE  /\ e[2] <= Past(e[1])'
                 /\ e[1] \in DOMAIN source_offsets' /\ e[3] <= source_offsets'[e[1]]
      BY <1>4, <2>2, <2>3
    <3> QED
      BY <1>6, <3>1, <3>2 DEF TextIsPast
  <2>7. StampsFollowTheMic'
    <3>1. \A e \in transcript' : e[1] = "mic" => e[3] = e[2]
      <4>1. ASSUME NEW e \in Entries(s), e[1] = "mic" PROVE e[3] = e[2]
        BY <1>3, <1>6, <2>2, <4>1
      <4> QED
        BY <1>6, <4>1 DEF Sound, StampsFollowTheMic
    <3>2. ASSUME NEW e \in transcript', NEW f \in transcript', e[1] = f[1], e[2] < f[2]
          PROVE  e[3] < f[3]
      <4>1. CASE e \in transcript /\ f \in transcript
        BY <3>2, <4>1 DEF Sound, StampsFollowTheMic
      <4>2. CASE e \in transcript /\ f \in Entries(s)
        BY <1>3, <2>2, <2>5, <3>2, <4>2
      <4>3. CASE e \in Entries(s) /\ f \in transcript
        BY <1>3, <2>2, <2>5, <3>2, <4>3
      <4>4. CASE e \in Entries(s) /\ f \in Entries(s)
        BY <1>3, <2>2, <3>2, <4>4
      <4> QED
        BY <1>6, <4>1, <4>2, <4>3, <4>4
    <3>3. ASSUME ~ending, NEW e \in transcript' PROVE e[3] <= taken["mic"]
      <4>1. CASE e \in transcript
        BY <3>3, <4>1 DEF Sound, StampsFollowTheMic
      <4>2. CASE e \in Entries(s)
        <5>1. pair[s] <= pair["mic"] /\ pair["mic"] \in Nat
          BY <1>3, <3>3 DEF Sound, PairIsLevel, PairArms, Tail, Sources
        <5>2. taken["mic"] = Before("mic") + pair["mic"] /\ Before("mic") \in Nat
          BY <1>3 DEF Sources
        <5> QED
          BY <1>3, <1>6, <2>2, <3>3, <4>2, <5>1, <5>2
      <4> QED
        BY <1>6, <3>3, <4>1, <4>2
    <3> QED
      BY <3>1, <3>2, <3>3 DEF StampsFollowTheMic, audioVars
  <2> QED
    BY <1>2, <2>4, <2>6, <2>7
<1> QED
  BY <1>5, <1>6 DEF Process

LEMMA ProcessMicKeeps ==
  ASSUME Control, Sound, ProcessMic
  PROVE  Sound'
<1>1. /\ arm = "mic" /\ arm' = "loopback" /\ Process("mic")
      /\ UNCHANGED <<setup, meeting_daemon, audioVars, pair, ending>>
  BY DEF ProcessMic
<1>2. arm \in PairArms /\ arm' \in PairArms /\ "mic" \in Sources
  BY <1>1 DEF PairArms, Sources
<1>3. (meeting_daemon = "active" <=> Tracked) /\ Tracked' = Tracked
  BY <1>1, <1>2 DEF Control, ArmFitsMeeting, Tracked
<1>4. /\ taken["mic"] = Before("mic") + pair["mic"]
      /\ Before("mic") \in Nat /\ pair["mic"] \in Nat
  BY <1>2, PairNumbers
<1>5. \A x : Before(x)' = Before(x)
  BY <1>1 DEF Before, audioVars
<1>6. ASSUME Tracked
      PROVE  /\ Offset("mic") = Before("mic")
             /\ "loopback" \in DOMAIN source_offsets =>
                  source_offsets["loopback"] = Before("mic")
             /\ "loopback" \notin DOMAIN source_offsets => Before("loopback") = 0
             /\ "mic" \notin DOMAIN source_offsets => Before("mic") = 0
             /\ "mic" \in DOMAIN source_offsets => source_offsets["mic"] = Before("mic")
  BY <1>1, <1>6 DEF Sound, ClocksAreRight, ClocksAt, Offset
<1>7. SoundType' /\ AudioFlows' /\ PairIsLevel' /\ TextIsPast' /\ StampsFollowTheMic'
  BY <1>1, <1>2, <1>3, <1>4, <1>6, ProcessKeeps
<1>8. ASSUME Tracked
      PROVE  /\ IF "mic" \in DOMAIN source_offsets' THEN source_offsets'["mic"] = taken["mic"]
                ELSE taken["mic"] = 0
             /\ IF "loopback" \in DOMAIN source_offsets'
                THEN source_offsets'["loopback"] = Before("mic") ELSE Before("loopback") = 0
  <2>1. CASE pair["mic"] = 0 /\ UNCHANGED source_offsets
    BY <1>4, <1>6, <1>8, <2>1
  <2>2. CASE source_offsets' = Advanced("mic")
    <3>1. /\ DOMAIN source_offsets' = DOMAIN source_offsets \cup {"mic"}
          /\ source_offsets'["mic"] = Offset("mic") + pair["mic"]
          /\ "loopback" \in DOMAIN source_offsets =>
               source_offsets'["loopback"] = source_offsets["loopback"]
      BY <2>2 DEF Advanced
    <3> QED
      BY <1>4, <1>6, <1>8, <3>1
  <2> QED
    BY <1>1, <1>3, <1>8, <2>1, <2>2 DEF Process
<1>9. ClocksAreRight'
  BY <1>1, <1>3, <1>5, <1>7, <1>8 DEF ClocksAreRight, PairArms, audioVars
<1>10. ASSUME Tracked, setup.faults = {}
       PROVE  MicTimes' = 1 .. taken["mic"]
  <2>1. MicTimes = 1 .. Before("mic")
    BY <1>1, <1>10 DEF Sound, MicIsTranscribed
  <2>2. CASE pair["mic"] = 0 /\ UNCHANGED transcript
    BY <1>4, <2>1, <2>2 DEF MicTimes
  <2>3. CASE transcript' = transcript \cup Entries("mic")
    <3>1. MicTimes' = MicTimes \cup {e[2] : e \in Entries("mic")}
      BY <2>3 DEF MicTimes, Entries
    <3>2. {e[2] : e \in Entries("mic")} = {Before("mic") + i : i \in 1 .. pair["mic"]}
      <4>1. Offset("mic") \in Nat
        BY <1>4, <1>6, <1>10
      <4>2. /\ \A e \in Entries("mic") : \E i \in 1 .. pair["mic"] : e[2] = Before("mic") + i
            /\ \A i \in 1 .. pair["mic"] :
                 <<"mic", Before("mic") + i, Offset("mic") + i>> \in Entries("mic")
        BY <1>2, <4>1, EntriesAreNext
      <4>3. ASSUME NEW i \in 1 .. pair["mic"]
            PROVE  \E e \in Entries("mic") : e[2] = Before("mic") + i
        BY <4>2
      <4> QED
        BY <4>2, <4>3
    <3>3. {Before("mic") + i : i \in 1 .. pair["mic"]} = (Before("mic") + 1) .. taken["mic"]
      <4>1. ASSUME NEW n \in (Before("mic") + 1) .. taken["mic"]
            PROVE  n - Before("mic") \in 1 .. pair["mic"] /\ n = Before("mic") + (n - Before("mic"))
        BY <1>4
      <4>2. ASSUME NEW i \in 1 .. pair["mic"]
            PROVE  Before("mic") + i \in (Before("mic") + 1) .. taken["mic"]
        BY <1>4
      <4> QED
        BY <4>1, <4>2
    <3>4. (1 .. Before("mic")) \cup ((Before("mic") + 1) .. taken["mic"]) = 1 .. taken["mic"]
      BY <1>4
    <3> QED
      BY <2>1, <3>1, <3>2, <3>3, <3>4
  <2> QED
    BY <1>1, <1>3, <1>10, <2>2, <2>3 DEF Process
<1>11. MicIsTranscribed'
  BY <1>1, <1>3, <1>10 DEF MicIsTranscribed, audioVars
<1> QED
  BY <1>7, <1>9, <1>11 DEF Sound

LEMMA ProcessLoopbackKeeps ==
  ASSUME Control, Sound, ProcessLoopback
  PROVE  Sound'
<1>1. /\ arm = "loopback" /\ arm' = "sync" /\ Process("loopback")
      /\ UNCHANGED <<setup, meeting_daemon, audioVars, pair, ending>>
  BY DEF ProcessLoopback
<1>2. arm \in PairArms /\ arm' \in PairArms /\ "loopback" \in Sources
  BY <1>1 DEF PairArms, Sources
<1>3. (meeting_daemon = "active" <=> Tracked) /\ Tracked' = Tracked
  BY <1>1, <1>2 DEF Control, ArmFitsMeeting, Tracked
<1>4. /\ taken["mic"] = Before("mic") + pair["mic"]
      /\ taken["loopback"] = Before("loopback") + pair["loopback"]
      /\ Before("mic") \in Nat /\ Before("loopback") \in Nat
      /\ pair["mic"] \in Nat /\ pair["loopback"] \in Nat
      /\ Tail \/ (0 < pair["mic"] /\ pair["loopback"] <= pair["mic"])
  BY <1>2, PairNumbers
<1>5. Tail' = Tail /\ \A x : Before(x)' = Before(x)
  BY <1>1 DEF Tail, Before, audioVars
<1>6. ASSUME Tracked
      PROVE  /\ IF "mic" \in DOMAIN source_offsets THEN source_offsets["mic"] = taken["mic"]
                ELSE taken["mic"] = 0
             /\ IF "loopback" \in DOMAIN source_offsets
                THEN source_offsets["loopback"] = Before("mic") ELSE Before("loopback") = 0
             /\ Offset("loopback") \in {Before("mic"), 0}
  <2>1. /\ IF "mic" \in DOMAIN source_offsets THEN source_offsets["mic"] = taken["mic"]
           ELSE taken["mic"] = 0
        /\ IF "loopback" \in DOMAIN source_offsets
           THEN source_offsets["loopback"] = Before("mic") ELSE Before("loopback") = 0
    BY <1>1, <1>6 DEF Sound, ClocksAreRight
  <2> QED
    BY <1>4, <2>1 DEF Offset
<1>7. SoundType' /\ AudioFlows' /\ PairIsLevel' /\ TextIsPast' /\ StampsFollowTheMic'
  <2>1. meeting_daemon = "active" => Offset("loopback") <= Before("mic")
    BY <1>3, <1>4, <1>6
  <2> QED
    BY <1>1, <1>2, <2>1, ProcessKeeps
<1>8. ASSUME Tracked, ~Tail
      PROVE  /\ "mic" \in DOMAIN source_offsets'
             /\ source_offsets'["mic"] = taken["mic"]
             /\ \A x \in DOMAIN source_offsets' : source_offsets'[x] <= taken["mic"]
             /\ "loopback" \notin DOMAIN source_offsets' => taken["loopback"] = 0
  <2>1. /\ 0 < pair["mic"] /\ pair["loopback"] <= pair["mic"] /\ 0 < taken["mic"]
        /\ taken["mic"] \in Nat /\ Before("mic") <= taken["mic"]
    BY <1>4, <1>8
  <2>2. "mic" \in DOMAIN source_offsets /\ source_offsets["mic"] = taken["mic"]
    BY <1>6, <1>8, <2>1
  <2>3. DOMAIN source_offsets' \subseteq {"mic", "loopback"}
    BY <1>7 DEF SoundType, Sources
  <2>4. CASE pair["loopback"] = 0 /\ UNCHANGED source_offsets
    BY <1>4, <1>6, <1>8, <2>1, <2>2, <2>3, <2>4
  <2>5. CASE source_offsets' = Advanced("loopback")
    <3>1. /\ DOMAIN source_offsets' = DOMAIN source_offsets \cup {"loopback"}
          /\ source_offsets'["loopback"] = Offset("loopback") + pair["loopback"]
          /\ source_offsets'["mic"] = source_offsets["mic"]
      BY <2>2, <2>5 DEF Advanced
    <3>2. source_offsets'["loopback"] <= taken["mic"]
      BY <1>4, <1>6, <1>8, <2>1, <3>1
    <3> QED
      BY <2>1, <2>2, <2>3, <3>1, <3>2
  <2> QED
    BY <1>1, <1>3, <1>8, <2>4, <2>5 DEF Process
<1>9. ClocksAreRight'
  BY <1>1, <1>3, <1>5, <1>7, <1>8 DEF ClocksAreRight, PairArms, audioVars
<1>10. MicTimes' = MicTimes
  <2>1. transcript' \in {transcript, transcript \cup Entries("loopback")}
    BY <1>1 DEF Process
  <2>2. \A e \in Entries("loopback") : e[1] # "mic"
    BY DEF Entries
  <2> QED
    BY <2>1, <2>2 DEF MicTimes
<1>11. MicIsTranscribed'
  BY <1>1, <1>3, <1>10 DEF Sound, MicIsTranscribed, audioVars
<1> QED
  BY <1>7, <1>9, <1>11 DEF Sound

LEMMA SyncKeeps ==
  ASSUME Control, Sound, SyncSourceOffsets
  PROVE  Sound'
<1>1. /\ arm = "sync" /\ arm' = "chunks" /\ source_offsets' = Synced(source_offsets)
      /\ UNCHANGED <<setup, meeting_daemon, audioVars, transcript, pair, ending>>
  BY DEF SyncSourceOffsets
<1> DEFINE D == DOMAIN source_offsets
           stamps == {source_offsets[y] : y \in D}
           latest == CHOOSE o \in stamps : \A y \in D : source_offsets[y] <= o
<1>2. DOMAIN source_offsets' = D /\ \A x \in D : source_offsets'[x] = latest
  BY <1>1 DEF Synced
<1>3. \A x \in D : source_offsets[x] \in Nat
  BY DEF Sound, SoundType
<1>4. D # {} => latest \in stamps /\ \A y \in D : source_offsets[y] <= latest
  <2> SUFFICES ASSUME D # {}
               PROVE  \E o \in stamps : \A y \in D : source_offsets[y] <= o
    OBVIOUS
  <2>1. D \subseteq {"mic", "loopback"}
    BY DEF Sound, SoundType, Sources
  <2>2. CASE "mic" \in D /\ "loopback" \in D
    <3>1. CASE source_offsets["mic"] <= source_offsets["loopback"]
      BY <1>3, <2>1, <2>2, <3>1
    <3>2. CASE source_offsets["loopback"] <= source_offsets["mic"]
      BY <1>3, <2>1, <2>2, <3>2
    <3> QED
      BY <1>3, <2>2, <3>1, <3>2
  <2>3. CASE ~("mic" \in D /\ "loopback" \in D)
    <3>1. PICK x \in D : D = {x}
      BY <2>1, <2>3
    <3> QED
      BY <1>3, <3>1
  <2> QED
    BY <2>2, <2>3
<1>5. \A x \in D : source_offsets'[x] \in Nat /\ source_offsets[x] <= source_offsets'[x]
  BY <1>2, <1>3, <1>4
<1>6. SoundType' /\ AudioFlows' /\ StampsFollowTheMic' /\ PairIsLevel' /\ TextIsPast'
  <2>1. \A e \in transcript :
          e[1] \in D /\ e[3] <= source_offsets[e[1]] => e[3] <= source_offsets'[e[1]]
    BY <1>3, <1>5, Numbers DEF Sound
  <2>2. TextIsPast'
    BY <1>1, <1>2, <2>1 DEF Sound, TextIsPast, Past, audioVars
  <2> QED
    BY <1>1, <1>2, <1>5, <2>2
    DEF Sound, SoundType, AudioFlows, StampsFollowTheMic, PairIsLevel, PairArms, audioVars
<1>7. Tail' = Tail /\ Tracked' = Tracked
  BY <1>1 DEF Tail, Tracked, audioVars
<1>8. ASSUME Tracked, ~Tail PROVE ClocksAt(taken["mic"], taken["loopback"])'
  <2>1. /\ "mic" \in D /\ source_offsets["mic"] = taken["mic"]
        /\ \A x \in D : source_offsets[x] <= taken["mic"]
        /\ "loopback" \notin D => taken["loopback"] = 0
    BY <1>1, <1>8 DEF Sound, ClocksAreRight
  <2>2. latest = taken["mic"]
    <3>1. taken["mic"] <= latest /\ latest <= taken["mic"] /\ latest \in Nat
      BY <1>3, <1>4, <2>1
    <3>2. taken["mic"] \in Nat
      BY <1>3, <2>1
    <3> QED
      BY <3>1, <3>2
  <2> QED
    BY <1>1, <1>2, <2>1, <2>2 DEF ClocksAt, audioVars
<1>9. ClocksAreRight'
  BY <1>1, <1>2, <1>5, <1>7, <1>8 DEF ClocksAreRight, PairArms, audioVars
<1>10. MicIsTranscribed'
  BY <1>1, <1>7 DEF Sound, MicIsTranscribed, MicTimes, audioVars
<1> QED
  BY <1>6, <1>9, <1>10 DEF Sound

(* All steps.                                                              *)

LEMMA SoundNext ==
  ASSUME Control, Sound, [Next]_vars
  PROVE  Sound'
<1>0. /\ arm \notin PairArms \cup {"chunks", "saved"} => ~ending
      /\ arm \in {"chunks"} /\ ~ending => meeting_daemon = "active"
  BY DEF Control, ArmFitsMeeting
<1>1. CASE PollStart \/ StartFails \/ PollPause \/ PollResume \/ TickPause \/ ReceiveEvent
             \/ (\E name \in Commands : Command(name)) \/ UNCHANGED vars
  <2>1. UNCHANGED <<setup, audioVars, textVars, pair, ending>>
    BY <1>1
    DEF PollStart, StartFails, PollPause, PollResume, TickPause, ReceiveEvent, Command,
        vars, armVars
  <2>2. arm' = arm \/ (arm \notin PairArms /\ arm' \notin PairArms)
    BY <1>1
    DEF PollStart, TimerFires, StartFails, PollPause, PollResume, TickPause,
        ReceiveEvent, Command, vars, armVars, PairArms
  <2>3. Tracked' => Tracked
    <3>1. CASE UNCHANGED meeting_daemon
      BY <2>1, <3>1 DEF Tracked
    <3>2. CASE ~UNCHANGED meeting_daemon
      <4>1. PollPause \/ PollResume \/ TickPause
        BY <1>1, <3>2
        DEF PollStart, StartFails, ReceiveEvent, Command, vars
      <4>2. ~ending /\ meeting_daemon # "none"
        BY <1>0, <3>2, <4>1
        DEF PollPause, PollResume, TickPause, TimerFires, PairArms
      <4> QED
        BY <4>2 DEF Tracked
    <3> QED
      BY <3>1, <3>2
  <2> QED
    BY <2>1, <2>2, <2>3, SoundFrame
<1>2. CASE StartMeeting \/ FinishStop \/ Restart
  <2>1. FreshMeeting /\ arm' \notin PairArms /\ ~ending'
    <3>1. CASE StartMeeting
      BY <1>0, <3>1 DEF StartMeeting, PairArms
    <3>2. CASE FinishStop
      BY <3>2 DEF FinishStop, DropMeeting, PairArms
    <3>3. CASE Restart
      BY <3>3 DEF Restart, PairArms
    <3> QED
      BY <1>2, <3>1, <3>2, <3>3
  <2> QED
    BY <2>1, FreshIsSound
<1>3. CASE PollStop \/ TickStop \/ ChunksDone
  <2>1. /\ arm \notin PairArms /\ ~ending
        /\ UNCHANGED <<setup, meeting_daemon, textVars>>
    BY <1>0, <1>3 DEF PollStop, TickStop, ChunksDone, TimerFires, PairArms
  <2>2. CASE \E fromPoll \in BOOLEAN : BeginStop(fromPoll)
    <3>1. meeting_daemon # "none"
      BY <1>0, <1>3, <2>2 DEF PollStop, TickStop, ChunksDone, BeginStop
    <3> QED
      BY <2>1, <2>2, <3>1, StopKeeps
  <2>3. CASE UNCHANGED <<audioVars, pair, ending>> /\ arm' \in {"select", "poll_pause"}
    <3>1. arm' \notin PairArms /\ (Tracked' => Tracked)
      BY <2>1, <2>3 DEF PairArms, Tracked
    <3> QED
      BY <2>1, <2>3, <3>1, SoundFrame
  <2> QED
    BY <1>3, <2>2, <2>3 DEF PollStop, TickStop, ChunksDone
<1>4. CASE TickAudio
  <2>1. /\ arm \notin PairArms /\ arm' \notin PairArms /\ ~ending /\ ~ending'
        /\ fetched' = heard
        /\ UNCHANGED <<setup, meeting_daemon, heard, taken, textVars, pair>>
    BY <1>0, <1>4 DEF TickAudio, TimerFires, PairArms
  <2> QED
    BY <2>1, FetchKeeps
<1>5. CASE SaveMeeting
  <2>1. CASE DropMeeting
    <3>1. FreshMeeting /\ arm' \notin PairArms /\ ~ending'
      BY <2>1 DEF DropMeeting, PairArms
    <3> QED
      BY <3>1, FreshIsSound
  <2>2. CASE arm' = "saved" /\ UNCHANGED <<meeting_daemon, audioVars, textVars, pair, ending>>
    <3>1. arm \notin PairArms /\ arm' \notin PairArms /\ UNCHANGED setup
          /\ (Tracked' => Tracked)
      BY <1>5, <2>2 DEF SaveMeeting, PairArms, Tracked
    <3> QED
      BY <2>2, <3>1, SoundFrame
  <2> QED
    BY <1>5, <2>1, <2>2 DEF SaveMeeting
<1> QED
  BY <1>1, <1>2, <1>3, <1>4, <1>5, HearKeeps, NextPairKeeps, ProcessMicKeeps,
     ProcessLoopbackKeeps, SyncKeeps DEF Next, DaemonStep

LEMMA SoundInit == Init => Sound
<1> SUFFICES ASSUME Init PROVE Sound
  OBVIOUS
<1>1. Nothing \in [Sources -> Units] /\ 0 \in Units /\ DOMAIN <<>> = {}
      /\ Nothing["mic"] = 0 /\ Nothing["loopback"] = 0 /\ \A s \in Sources : Nothing[s] = 0
  BY MeetingAssumption DEF Nothing, Units, Sources
<1>2. /\ heard = Nothing /\ fetched = Nothing /\ taken = Nothing /\ pair = Nothing
      /\ source_offsets = <<>> /\ transcript = {} /\ arm = "select"
      /\ meeting_daemon = "none" /\ ~ending
  BY DEF Init
<1>3. SoundType /\ AudioFlows /\ PairIsLevel /\ TextIsPast /\ StampsFollowTheMic
  BY <1>1, <1>2 DEF SoundType, AudioFlows, PairIsLevel, TextIsPast, StampsFollowTheMic, PairArms
<1>4. ClocksAreRight /\ MicIsTranscribed
  BY <1>1, <1>2 DEF ClocksAreRight, MicIsTranscribed, Tracked
<1> QED
  BY <1>3, <1>4 DEF Sound

Inv == Control /\ Sound

LEMMA InductiveInvariant == Spec => []Inv
<1>1. Init => Inv
  BY ControlInit, SoundInit DEF Inv
<1>2. Inv /\ [Next]_vars => Inv'
  BY ControlNext, SoundNext DEF Inv
<1> QED
  BY <1>1, <1>2, PTL DEF Spec

-----------------------------------------------------------------------------
(* Whatever is asked, fails or is killed, the daemon's task, the channel   *)
(* of its own events, the buffers and the clocks are well formed.          *)
THEOREM TypeCorrect == Spec => []TypeOK
<1>1. Inv => TypeOK
  <2> SUFFICES ASSUME Inv PROVE TypeOK
    OBVIOUS
  <2> QED
    BY DEF Inv, Control, ControlType, Sound, SoundType, TypeOK
<1> QED
  BY <1>1, InductiveInvariant, PTL

(* The microphone is stamped with its own time, and the loopback in order  *)
(* and not ahead of it, whatever the two deliver, however chunks fail and  *)
(* meetings are paused.                                                    *)
THEOREM StampsAreRight == Spec => []StampsFollowTheMic
BY InductiveInvariant, PTL DEF Inv, Sound

(* Between two pairs of chunks no source has fallen behind the other.      *)
THEOREM SourcesStayAligned == Spec => []SourcesAreAligned
<1>1. Inv => SourcesAreAligned
  BY DEF Inv, Sound, ClocksAreRight, ClocksAt, Tracked, Tail, PairArms, SourcesAreAligned
<1> QED
  BY <1>1, InductiveInvariant, PTL

(* Database and state file tell others of a meeting while the daemon has   *)
(* one, and of none when it has none.                                      *)
THEOREM OthersAreTold == Spec => []PublishedStateIsCurrent
<1>1. Inv => PublishedStateIsCurrent
  BY DEF Inv, Control, PublishedInEveryArm, DaemonStateFile, PublishedStateIsCurrent
<1> QED
  BY <1>1, InductiveInvariant, PTL

(* When an active meeting that met no fault is saved, everything its       *)
(* microphone heard is in the transcript.                                  *)
THEOREM NothingSaidIsLost == Spec => StopFlushesTheMic
<1>1. ASSUME Inv, SaveMeeting, meeting_daemon = "active", setup.faults = {}
      PROVE  MicTimes = 1 .. heard["mic"]
  <2>1. arm = "chunks" /\ ending /\ Buffered("mic") + Buffered("loopback") = 0
    BY <1>1 DEF SaveMeeting
  <2>2. taken["mic"] = fetched["mic"]
    <3>1. /\ taken["mic"] \in Nat /\ fetched["mic"] \in Nat /\ taken["mic"] <= fetched["mic"]
          /\ taken["loopback"] \in Nat /\ fetched["loopback"] \in Nat
          /\ taken["loopback"] <= fetched["loopback"]
      BY <1>1, Numbers DEF Inv, Sound, AudioFlows
    <3>2. /\ Buffered("mic") = fetched["mic"] - taken["mic"]
          /\ Buffered("loopback") = fetched["loopback"] - taken["loopback"]
          /\ Buffered("mic") \in Nat /\ Buffered("loopback") \in Nat
      BY <3>1 DEF Buffered
    <3>3. Buffered("mic") = 0
      BY <2>1, <3>2
    <3>4. fetched["mic"] - taken["mic"] = 0
      BY <3>2, <3>3
    <3> QED
      BY <3>1, <3>4
  <2>3. fetched["mic"] = heard["mic"]
    BY <1>1, <2>1 DEF Inv, Sound, AudioFlows
  <2>4. MicTimes = 1 .. taken["mic"]
    BY <1>1, <2>1 DEF Inv, Sound, MicIsTranscribed, Tracked
  <2> QED
    BY <2>2, <2>3, <2>4
<1>2. Inv /\ [Next]_vars =>
        [ SaveMeeting /\ meeting_daemon = "active" /\ setup.faults = {} =>
            {e[2] : e \in {x \in transcript : x[1] = "mic"}} = 1 .. heard["mic"] ]_vars
  BY <1>1 DEF MicTimes
<1> QED
  BY <1>2, InductiveInvariant, PTL DEF Spec, StopFlushesTheMic

=============================================================================
