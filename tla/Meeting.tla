------------------------------ MODULE Meeting ------------------------------
(***************************************************************************)
(* Meeting mode: the meeting arms of the daemon's select! (src/src/        *)
(* daemon.rs), the MeetingDaemon they drive (src/src/meeting/mod.rs), the  *)
(* dual audio capture that feeds it and the command line that controls it  *)
(* by files in the runtime directory.                                      *)
(*                                                                         *)
(* An arm runs to its end before select! looks again, but it awaits: the   *)
(* model load of a start, every chunk's transcription, and every send on   *)
(* the event channel, whose only receiver is another arm of the same       *)
(* select!.  arm says where the daemon's task is.                          *)
(*                                                                         *)
(* The audio of a source is counted in units of the time it lasts.  The    *)
(* capture has heard units 1 .. heard of it, the meeting's buffer holds    *)
(* taken + 1 .. fetched, and what is before is transcribed or lost.        *)
(***************************************************************************)
EXTENDS Naturals, FiniteSets

CONSTANTS
  Setups,       (* what varies from one daemon to the next: SetupType       *)
  ChunkLen,     (* units of audio in a chunk                                *)
  Capacity,     (* of the event channel, 32 in the code                     *)
  MaxClock,     (* units of audio of a source heard per meeting             *)
  MaxMeetings   (* meetings started in a behaviour                          *)

Sources == {"mic", "loopback"}

Commands == {"start", "stop", "pause", "resume"}

Faults == {"transcribe", "device", "storage"}

SetupType ==
  [ loopback : BOOLEAN,          \* a monitor source is captured as well
    limited  : BOOLEAN,          \* max_duration_mins > 0
    restarts : BOOLEAN,          \* the daemon may be killed and restarted
    faults   : SUBSET Faults ]   \* what may fail

ASSUME MeetingAssumption ==
  /\ Setups \subseteq SetupType
  /\ ChunkLen \in Nat \ {0}
  /\ Capacity \in Nat \ 0 .. 2
  /\ MaxClock \in Nat
  /\ MaxMeetings \in Nat

VARIABLES
  setup,
  meeting_daemon,   \* "none", "active", "paused": Option<MeetingDaemon>, state
  capture,          \* is the dual capture open?
  heard,            \* [source -> units in the capture's own buffer or fetched]
  fetched,          \* [source -> units moved to the meeting's buffer]
  taken,            \* [source -> units drained from that buffer]
  source_offsets,   \* [source -> stamp], of the sources that have an entry
  transcript,       \* <<source, unit, stamp>>
  events,           \* messages in the event channel
  files,            \* the command files present
  state_file,
  stored,           \* is a meeting "active" in the database?
  meetings,         \* meetings started (not in the code)
  arm,              \* where the daemon's task is
  pair,             \* [source -> units of the chunk pair in hand]
  ending,           \* the buffered audio is processed for stop_meeting
  polled            \* ... which the 100 ms arm called

audioVars == <<capture, heard, fetched, taken>>
textVars  == <<source_offsets, transcript>>
armVars   == <<arm, pair, ending, polled>>

vars == <<setup, meeting_daemon, audioVars, textVars, events, files,
          state_file, stored, meetings, armVars>>

Units == 0 .. MaxClock

Nothing == [s \in Sources |-> 0]

Lower(a, b) == IF a <= b THEN a ELSE b

Buffered(s) == fetched[s] - taken[s]

Init ==
  /\ setup \in Setups
  /\ meeting_daemon = "none"
  /\ capture = FALSE
  /\ heard = Nothing
  /\ fetched = Nothing
  /\ taken = Nothing
  /\ source_offsets = <<>>
  /\ transcript = {}
  /\ events = 0
  /\ files = {}
  /\ state_file = "idle"
  /\ stored = FALSE
  /\ meetings = 0
  /\ arm = "select"
  /\ pair = Nothing
  /\ ending = FALSE
  /\ polled = FALSE

-----------------------------------------------------------------------------
(* The capture threads, one of the stream and one that reads what parec    *)
(* writes: nothing keeps them together.  A monitor may deliver nothing for *)
(* a while, and parec late and much.  Nothing stops them during a pause.   *)
Hear(s) ==
  /\ capture
  /\ s = "loopback" => setup.loopback
  /\ heard[s] < MaxClock
  /\ heard' = [heard EXCEPT ![s] = @ + 1]
  /\ UNCHANGED <<setup, meeting_daemon, capture, fetched, taken, textVars, events,
                 files, state_file, stored, meetings, armVars>>

-----------------------------------------------------------------------------
(* The command line looks at the state file, then writes a command file.   *)
Command(name) ==
  /\ \/ name = "start" /\ state_file = "idle"
     \/ name = "stop" /\ state_file # "idle"
     \/ name = "pause" /\ state_file = "recording"
     \/ name = "resume" /\ state_file = "paused"
  /\ name \notin files
  /\ files' = files \cup {name}
  /\ UNCHANGED <<setup, meeting_daemon, audioVars, textVars, events, state_file,
                 stored, meetings, armVars>>

-----------------------------------------------------------------------------
(* Pieces of the arms.                                                     *)

(* The database may fail, before or after it changed the meeting's row.    *)
IfStorageFails(outcomes) == IF "storage" \in setup.faults THEN outcomes ELSE {}

Pause ==
  /\ meeting_daemon' = "paused"
  /\ state_file' = "paused"
  /\ events' = events + 1

Resume ==
  /\ meeting_daemon' = "active"
  /\ state_file' = "recording"
  /\ events' = events + 1

(* The buffers are cleared and the transcript is a new one, or gone.       *)
FreshMeeting ==
  /\ heard' = Nothing /\ fetched' = Nothing /\ taken' = Nothing /\ pair' = Nothing
  /\ source_offsets' = <<>>
  /\ transcript' = {}

(* Mutant: what arrived since the last poll goes with the capture.         *)
BeginStopUnfetched(fromPoll) ==
  /\ capture' = FALSE
  /\ arm' = "chunks"
  /\ ending' = TRUE
  /\ polled' = fromPoll
  /\ UNCHANGED <<heard, fetched, taken, pair>>

(* stop_meeting up to its flush.  The capture reports an empty microphone  *)
(* buffer as an error, and the loopback's samples are then not fetched.    *)
BeginStop(fromPoll) ==
  /\ capture' = FALSE
  /\ fetched' = IF capture /\ heard["mic"] > fetched["mic"] THEN heard ELSE fetched
  /\ arm' = "chunks"
  /\ ending' = TRUE
  /\ polled' = fromPoll
  /\ UNCHANGED <<heard, taken, pair>>

TakePair(mic, loop) ==
  /\ taken' = [mic |-> taken["mic"] + mic, loopback |-> taken["loopback"] + loop]
  /\ pair' = [mic |-> mic, loopback |-> loop]
  /\ arm' = "mic"

-----------------------------------------------------------------------------
(* The arms.  A timer of the select! is started anew with every turn of    *)
(* the loop, so an event that waits is received before it fires.           *)
TimerFires == arm = "select" /\ events = 0

(* The 100 ms arm.  The faster arm starves it while a meeting is active.   *)
(* It looks for the four commands in turn.                                 *)
PollStart ==
  /\ TimerFires
  /\ meeting_daemon # "active"
  /\ files # {}
  /\ files' = files \ {"start"}
  /\ arm' = IF "start" \in files /\ meeting_daemon = "none"
            THEN "starting" ELSE "poll_stop"
  /\ UNCHANGED <<setup, meeting_daemon, audioVars, textVars, events, state_file,
                 stored, meetings, pair, ending, polled>>

(* start_meeting, after the model has been loaded.                         *)
StartMeeting ==
  /\ arm = "starting"
  /\ meetings < MaxMeetings
  /\ meetings' = meetings + 1
  /\ arm' = "poll_stop"
  /\ events' = 1
  /\ state_file' = "recording"
  /\ meeting_daemon' = "active"
  /\ stored' = TRUE
  /\ capture' = TRUE
  /\ FreshMeeting
  /\ UNCHANGED <<setup, files, ending, polled>>

(* It fails: before the meeting exists (so does every start beyond the     *)
(* bound), or with the microphone: the meeting is stopped again, but the   *)
(* state file is left as it is.                                            *)
StartFails ==
  /\ arm = "starting"
  /\ setup.faults # {} \/ meetings = MaxMeetings
  /\ arm' = "poll_stop"
  /\ stored' \in {stored} \cup IfStorageFails({TRUE})
  /\ \/ /\ events' = 0
        /\ UNCHANGED state_file
     \/ /\ "device" \in setup.faults
        /\ events' = 2
        /\ state_file' = "recording"
  /\ UNCHANGED <<setup, meeting_daemon, audioVars, textVars, files, meetings,
                 pair, ending, polled>>

(* Mutant: the command is for active meetings only.                        *)
PollStopActiveOnly ==
  /\ arm = "poll_stop"
  /\ files' = files \ {"stop"}
  /\ \/ /\ "stop" \in files /\ meeting_daemon = "active"
        /\ BeginStop(TRUE)
     \/ /\ "stop" \notin files \/ meeting_daemon # "active"
        /\ arm' = "poll_pause"
        /\ UNCHANGED <<audioVars, pair, ending, polled>>
  /\ UNCHANGED <<setup, meeting_daemon, textVars, events, state_file, stored, meetings>>

PollStop ==
  /\ arm = "poll_stop"
  /\ files' = files \ {"stop"}
  /\ \/ /\ "stop" \in files /\ meeting_daemon # "none"
        /\ BeginStop(TRUE)
     \/ /\ "stop" \notin files \/ meeting_daemon = "none"
        /\ arm' = "poll_pause"
        /\ UNCHANGED <<audioVars, pair, ending, polled>>
  /\ UNCHANGED <<setup, meeting_daemon, textVars, events, state_file, stored, meetings>>

PollPause ==
  /\ arm = "poll_pause"
  /\ arm' = "poll_resume"
  /\ files' = files \ {"pause"}
  /\ IF "pause" \in files /\ meeting_daemon = "active" THEN Pause
     ELSE UNCHANGED <<meeting_daemon, state_file, events>>
  /\ UNCHANGED <<setup, audioVars, textVars, stored, meetings, pair, ending, polled>>

PollResume ==
  /\ arm = "poll_resume"
  /\ arm' = "select"
  /\ files' = files \ {"resume"}
  /\ IF "resume" \in files /\ meeting_daemon = "paused" THEN Resume
     ELSE UNCHANGED <<meeting_daemon, state_file, events>>
  /\ UNCHANGED <<setup, audioVars, textVars, stored, meetings, pair, ending, polled>>

(* The 50 ms arm of an active meeting: a stop, else a pause, else the      *)
(* samples heard so far are fetched.                                       *)
TickStop ==
  /\ TimerFires
  /\ meeting_daemon = "active"
  /\ "stop" \in files
  /\ files' = files \ {"stop"}
  /\ BeginStop(FALSE)
  /\ UNCHANGED <<setup, meeting_daemon, textVars, events, state_file, stored, meetings>>

TickPause ==
  /\ TimerFires
  /\ meeting_daemon = "active"
  /\ "stop" \notin files /\ "pause" \in files
  /\ files' = files \ {"pause"}
  /\ Pause
  /\ UNCHANGED <<setup, audioVars, textVars, stored, meetings, armVars>>

TickAudio ==
  /\ TimerFires
  /\ meeting_daemon = "active"
  /\ files \cap {"stop", "pause"} = {}
  /\ files' = files \ {"resume"}
  /\ fetched' = heard
  /\ arm' = "chunks"
  /\ ending' = FALSE
  /\ UNCHANGED <<setup, meeting_daemon, capture, heard, taken,
                 textVars, events, state_file, stored, meetings, pair, polled>>

(* process_buffered_meeting_audio: whole chunks, and at the end the tail.  *)
NextPair ==
  /\ arm = "chunks"
  /\ \/ /\ Buffered("mic") >= ChunkLen
        /\ TakePair(ChunkLen, Lower(Buffered("loopback"), ChunkLen))
     \/ /\ Buffered("mic") < ChunkLen
        /\ ending
        /\ Buffered("mic") + Buffered("loopback") > 0
        /\ TakePair(Buffered("mic"), Buffered("loopback"))
  /\ UNCHANGED <<setup, meeting_daemon, capture, heard, fetched,
                 textVars, events, files, state_file, stored, meetings, ending, polled>>

Offset(s) == IF s \in DOMAIN source_offsets THEN source_offsets[s] ELSE 0

(* The chunk in hand: its units with the stamps they get.                  *)
Entries(s) ==
  { <<s, taken[s] - pair[s] + i, Offset(s) + i>> : i \in 1 .. pair[s] }

Advanced(s) ==
  [x \in DOMAIN source_offsets \cup {s} |->
     IF x = s THEN Offset(s) + pair[s] ELSE source_offsets[x]]

(* Mutant: no source catches up.                                           *)
SyncedNot(offsets) == offsets

(* sync_source_offsets: every source that has an entry catches up.         *)
Synced(offsets) ==
  [x \in DOMAIN offsets |->
     CHOOSE o \in {offsets[y] : y \in DOMAIN offsets} :
       \A y \in DOMAIN offsets : offsets[y] <= o]

(* Mutant: only a chunk that was transcribed advances the clock.           *)
ProcessOnSuccess(s) ==
  \/ /\ meeting_daemon # "active" \/ pair[s] = 0 \/ "transcribe" \in setup.faults
     /\ UNCHANGED <<source_offsets, transcript, events>>
  \/ /\ meeting_daemon = "active" /\ pair[s] > 0
     /\ events < Capacity
     /\ source_offsets' = Advanced(s)
     /\ transcript' = transcript \cup Entries(s)
     /\ events' = events + 1

(* process_chunk_with_source: nothing unless the meeting is active.  The   *)
(* offset advances in any case; a transcription error sends no event.      *)
Process(s) ==
  \/ /\ meeting_daemon # "active" \/ pair[s] = 0
     /\ UNCHANGED <<source_offsets, transcript, events>>
  \/ /\ meeting_daemon = "active" /\ pair[s] > 0
     /\ source_offsets' = Advanced(s)
     /\ \/ /\ events < Capacity
           /\ transcript' = transcript \cup Entries(s)
           /\ events' = events + 1
        \/ /\ "transcribe" \in setup.faults
           /\ UNCHANGED <<transcript, events>>

ProcessMic ==
  /\ arm = "mic"
  /\ Process("mic")
  /\ arm' = "loopback"
  /\ UNCHANGED <<setup, meeting_daemon, audioVars, files, state_file, stored,
                 meetings, pair, ending, polled>>

ProcessLoopback ==
  /\ arm = "loopback"
  /\ Process("loopback")
  /\ arm' = "sync"
  /\ UNCHANGED <<setup, meeting_daemon, audioVars, files, state_file, stored,
                 meetings, pair, ending, polled>>

SyncSourceOffsets ==
  /\ arm = "sync"
  /\ source_offsets' = Synced(source_offsets)
  /\ arm' = "chunks"
  /\ UNCHANGED <<setup, meeting_daemon, audioVars, transcript, events, files,
                 state_file, stored, meetings, pair, ending, polled>>

(* The 50 ms arm ends, or finds the meeting too long and stops it.         *)
ChunksDone ==
  /\ arm = "chunks"
  /\ ~ending
  /\ Buffered("mic") < ChunkLen
  /\ \/ /\ arm' = "select"
        /\ UNCHANGED <<audioVars, pair, ending, polled>>
     \/ /\ setup.limited
        /\ BeginStop(FALSE)
  /\ UNCHANGED <<setup, meeting_daemon, textVars, events, files, state_file, stored,
                 meetings>>

(* The daemon drops its MeetingDaemon and what stop_meeting worked on.     *)
DropMeeting ==
  /\ meeting_daemon' = "none"
  /\ events' = 0
  /\ ending' = FALSE /\ polled' = FALSE
  /\ arm' = IF polled THEN "poll_pause" ELSE "select"
  /\ FreshMeeting

(* MeetingDaemon::stop saves the transcript, then completes the meeting in *)
(* the database; if either fails, the daemon logs it and drops the meeting.*)
SaveMeeting ==
  /\ arm = "chunks"
  /\ ending
  /\ Buffered("mic") + Buffered("loopback") = 0
  /\ \/ /\ stored' = FALSE
        /\ arm' = "saved"
        /\ UNCHANGED <<meeting_daemon, audioVars, textVars, events, pair, ending, polled>>
     \/ /\ stored' \in IfStorageFails(BOOLEAN)
        /\ DropMeeting
        /\ UNCHANGED capture
  /\ UNCHANGED <<setup, files, state_file, meetings>>

(* The rest of stop_meeting: the event, then the state file.               *)
FinishStop ==
  /\ arm = "saved"
  /\ events < Capacity
  /\ state_file' = "idle"
  /\ DropMeeting
  /\ UNCHANGED <<setup, capture, files, stored, meetings>>

(* The arm that receives the events.                                       *)
ReceiveEvent ==
  /\ arm = "select"
  /\ events > 0
  /\ events' = events - 1
  /\ UNCHANGED <<setup, meeting_daemon, audioVars, textVars, files, state_file,
                 stored, meetings, armVars>>

(* Mutant: startup leaves the database as it finds it.                     *)
RestartUncompleted ==
  /\ setup.restarts
  /\ meeting_daemon' = "none"
  /\ capture' = FALSE
  /\ events' = 0
  /\ files' = {}
  /\ arm' = "select"
  /\ ending' = FALSE /\ polled' = FALSE
  /\ FreshMeeting
  /\ UNCHANGED <<setup, state_file, stored, meetings>>

(* The daemon is killed and started again.  Startup removes the command    *)
(* files and completes what is active in the database; only if there was   *)
(* something to complete does it reset the state file.                     *)
Restart ==
  /\ setup.restarts
  /\ meeting_daemon' = "none"
  /\ capture' = FALSE
  /\ events' = 0
  /\ files' = {}
  /\ stored' \in {FALSE} \cup IfStorageFails({stored})
  /\ state_file' = IF stored # stored' THEN "idle" ELSE state_file
  /\ arm' = "select"
  /\ ending' = FALSE /\ polled' = FALSE
  /\ FreshMeeting
  /\ UNCHANGED <<setup, meetings>>

-----------------------------------------------------------------------------

(* The steps that are the daemon's own.                                    *)
DaemonStep ==
  \/ PollStart \/ StartMeeting \/ StartFails \/ PollStop \/ PollPause \/ PollResume
  \/ TickStop \/ TickPause \/ TickAudio
  \/ NextPair \/ ProcessMic \/ ProcessLoopback \/ SyncSourceOffsets
  \/ ChunksDone \/ SaveMeeting \/ FinishStop \/ ReceiveEvent

Next ==
  \/ DaemonStep
  \/ \E s \in Sources : Hear(s)
  \/ \E name \in Commands : Command(name)
  \/ Restart

Spec == Init /\ [][Next]_vars

(* The daemon's task is never kept from running.                           *)
FairSpec == Spec /\ WF_vars(DaemonStep)

-----------------------------------------------------------------------------
(* Correctness.                                                            *)

(* The state is well formed.                                               *)
TypeOK ==
  /\ setup \in Setups
  /\ meeting_daemon \in {"none", "active", "paused"}
  /\ {capture, stored, ending, polled} \subseteq BOOLEAN
  /\ heard \in [Sources -> Units]
  /\ fetched \in [Sources -> Units]
  /\ taken \in [Sources -> Units]
  /\ pair \in [Sources -> Units]
  /\ DOMAIN source_offsets \subseteq Sources
  /\ \A s \in DOMAIN source_offsets : source_offsets[s] \in Nat
  /\ transcript \subseteq Sources \X Units \X Nat
  /\ events \in 0 .. Capacity
  /\ files \subseteq Commands
  /\ state_file \in {"idle", "recording", "paused"}
  /\ meetings \in 0 .. MaxMeetings
  /\ arm \in {"select", "starting", "poll_stop", "poll_pause", "poll_resume",
              "chunks", "mic", "loopback", "sync", "saved"}

(* A stop of an active meeting flushes: all the microphone heard is in the *)
(* transcript that is saved, whatever the arms were doing at the time.     *)
StopFlushesTheMic ==
  [][SaveMeeting /\ meeting_daemon = "active" /\ setup.faults = {} =>
       {e[2] : e \in {x \in transcript : x[1] = "mic"}} = 1 .. heard["mic"]]_vars

(* The microphone's audio is stamped with its own time, whatever the       *)
(* loopback delivers and whichever chunks fail: the loopback never moves   *)
(* the meeting's clock.  The loopback's is stamped in order, and until the *)
(* tail never later than the microphone's that is transcribed, which is    *)
(* what would inflate the meeting.                                         *)
StampsFollowTheMic ==
  /\ \A e \in transcript : e[1] = "mic" => e[3] = e[2]
  /\ \A e, f \in transcript : e[1] = f[1] /\ e[2] < f[2] => e[3] < f[3]
  /\ ~ending => \A e \in transcript : e[3] <= taken["mic"]

(* Between two pairs every source that has had a chunk stands at the same  *)
(* time, that of the microphone audio consumed: a source whose chunk was   *)
(* short, empty or failed does not fall behind for good.                   *)
SourcesAreAligned ==
  meeting_daemon = "active" /\ arm \in {"select", "chunks"} /\ ~ending =>
    \A s \in DOMAIN source_offsets : source_offsets[s] = taken["mic"]

(* What others read of the meeting is current.  The database has an active *)
(* meeting only while the daemon has, so that listings and the next start  *)
(* do not see a meeting that is over.  The state file, by which the        *)
(* command line refuses or writes a command, agrees with the daemon        *)
(* whenever it waits in select!, as long as neither the microphone nor the *)
(* database failed and the daemon was not killed.                          *)
PublishedStateIsCurrent ==
  /\ "storage" \notin setup.faults /\ stored => meeting_daemon # "none"
  /\ arm = "select" /\ setup.faults \subseteq {"transcribe"} /\ ~setup.restarts =>
       state_file = CASE meeting_daemon = "none"   -> "idle"
                      [] meeting_daemon = "active" -> "recording"
                      [] meeting_daemon = "paused" -> "paused"

(* A stop that was asked for during a meeting ends it, whatever arm it     *)
(* meets and however much audio is buffered.  A restart forgets the stop,  *)
(* and ends the meeting.                                                   *)
StopIsCarriedOut ==
  "stop" \in files /\ meeting_daemon # "none" ~> meeting_daemon = "none"

=============================================================================
