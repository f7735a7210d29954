----------------------------- MODULE AudioPath -----------------------------
(***************************************************************************)
(* The way of the samples of one recording: from the sound device's        *)
(* callback to the daemon, which asks the capture thread for them          *)
(* (src/src/audio/cpal_capture.rs), and through the level emitter and the  *)
(* hub to a display that reads the level socket (src/src/audio/levels.rs,  *)
(* src/src/osd/ipc.rs).  The hub's tasks may die; its watchdog starts them *)
(* again.  Samples are numbered as they are heard, a frame is the samples  *)
(* it summarises.                                                          *)
(***************************************************************************)
EXTENDS Naturals, SequencesExt

CONSTANTS
  MaxSamples,       \* samples of the recording
  ChunkSizes,       \* samples the device may hand over at once
  SamplesPerFrame,  \* SAMPLES_PER_FRAME
  ChunkCapacity,    \* of the channel of the callback's chunks (64)
  FrameCapacity,    \* of the hub's channel (200)
  QueueDepth,       \* SUBSCRIBER_QUEUE_DEPTH
  MaxGets,          \* calls of get_samples
  MaxFaults         \* deaths of a task of the hub, and failures to bind

ASSUME AudioPathAssumption ==
  /\ MaxSamples \in Nat
  /\ ChunkSizes \subseteq Nat \ {0}
  /\ {SamplesPerFrame, ChunkCapacity, FrameCapacity, QueueDepth} \subseteq Nat \ {0}
  /\ MaxGets \in Nat
  /\ MaxFaults \in Nat

VARIABLES
  \* the capture thread and the daemon
  thread,       \* "building", "running" or "ended"
  heard,        \* samples heard so far
  samples,      \* the buffer the callback and the thread share
  commands,     \* the command channel
  cmd_tx,       \* has the daemon still its end of it?
  call,         \* the call the daemon waits for: its number, or 0
  calls,        \* calls so far
  replies,      \* answers on their way, one channel for each call
  delivered,    \* what the daemon was given
  lost,         \* samples given to a caller that had gone (not in the code)
  \* the emitter
  chunks,       \* the channel of chunks
  emitting,     \* is the emitter alive?
  bucket,       \* samples of the frame to come
  \* the hub
  accepting,    \* is the accept loop alive, with the listener?
  broadcasting, \* is the broadcast loop alive?
  respawns,     \* how often the watchdog has replaced the hub's state
  rebinding,    \* has the watchdog aborted both and not yet replaced them?
  faults,       \* deaths and failures to bind so far
  frames,       \* the hub's channel
  sent,         \* the frames that found room in it (not in the code)
  \* the display
  client,       \* "away", "connecting" or "connected"
  slot,         \* is it in new_subs, or among the subscribers, or neither?
  queue,        \* its queue
  got,          \* the frames it read in this connection
  since         \* how many of sent came before it subscribed (not in the code)

capture == <<thread, heard, samples>>
requests == <<commands, cmd_tx, call, calls, replies, delivered, lost>>
emitter == <<emitting, bucket>>
hub == <<accepting, broadcasting, respawns, rebinding, faults>>
stream == <<frames, sent>>
display == <<client, slot, queue, got, since>>
vars == <<capture, requests, chunks, emitter, hub, stream, display>>

Init ==
  /\ thread = "building"
  /\ heard = 0
  /\ samples = <<>>
  /\ commands = <<>>
  /\ cmd_tx = TRUE
  /\ call = 0
  /\ calls = 0
  /\ replies = {}
  /\ delivered = <<>>
  /\ lost = {}
  /\ chunks = <<>>
  /\ emitting = TRUE
  /\ bucket = <<>>
  /\ accepting = TRUE
  /\ broadcasting = TRUE
  /\ respawns = 0
  /\ rebinding = FALSE
  /\ faults = 0
  /\ frames = <<>>
  /\ sent = <<>>
  /\ client = "away"
  /\ slot = "none"
  /\ queue = <<>>
  /\ got = <<>>
  /\ since = 0

-----------------------------------------------------------------------------
(* The capture thread.  start() has returned Ok before the stream is       *)
(* built; that it cannot be built is only logged.                          *)

Play ==
  /\ thread = "building"
  /\ thread' = "running"
  /\ UNCHANGED <<heard, samples, requests, chunks, emitter, hub, stream, display>>

(* The callers of the commands it has not seen find their channels closed. *)
BuildFails ==
  /\ thread = "building"
  /\ thread' = "ended"
  /\ commands' = <<>>
  /\ UNCHANGED <<heard, samples, cmd_tx, call, calls, replies, delivered, lost,
                 chunks, emitter, hub, stream, display>>

(* The callback: the chunk is kept, and sent if there is room.             *)
Callback(n) ==
  /\ thread = "running"
  /\ heard + n <= MaxSamples
  /\ LET chunk == [i \in 1 .. n |-> heard + i]
     IN /\ samples' = samples \o chunk
        /\ chunks' = IF Len(chunks) < ChunkCapacity /\ emitting THEN Append(chunks, chunk)
                     ELSE chunks
  /\ heard' = heard + n
  /\ UNCHANGED <<thread, requests, emitter, hub, stream, display>>

(* An answer of a call that is no longer waited for goes nowhere.          *)
Answer(id, s) ==
  IF id = call THEN replies' = replies \cup {[id |-> id, samples |-> s]} /\ UNCHANGED lost
  ELSE lost' = lost \cup ToSet(s) /\ UNCHANGED replies

(* Mutant: the buffer is copied, as it is for a stop.                      *)
LeftOver(s) == s

Taken(s) == <<>>

HandleGetSamples ==
  /\ thread = "running"
  /\ commands # <<>>
  /\ Head(commands).kind = "GetSamples"
  /\ commands' = Tail(commands)
  /\ Answer(Head(commands).id, samples)
  /\ samples' = Taken(samples)
  /\ UNCHANGED <<thread, heard, cmd_tx, call, calls, delivered, chunks, emitter,
                 hub, stream, display>>

(* The stream is dropped first: no callback comes after it.                *)
HandleStop ==
  /\ thread = "running"
  /\ commands # <<>>
  /\ Head(commands).kind = "Stop"
  /\ commands' = <<>>
  /\ Answer(Head(commands).id, samples)
  /\ samples' = <<>>
  /\ thread' = "ended"
  /\ UNCHANGED <<heard, cmd_tx, call, calls, delivered, chunks, emitter, hub,
                 stream, display>>

(* The daemon has dropped the capture without a stop.                      *)
ChannelClosed ==
  /\ thread = "running"
  /\ commands = <<>>
  /\ ~cmd_tx
  /\ thread' = "ended"
  /\ lost' = lost \cup ToSet(samples)
  /\ samples' = <<>>
  /\ UNCHANGED <<heard, commands, cmd_tx, call, calls, replies, delivered, chunks,
                 emitter, hub, stream, display>>

-----------------------------------------------------------------------------
(* The daemon, one call at a time.                                         *)

Request(kind) ==
  /\ cmd_tx
  /\ call = 0
  /\ calls' = calls + 1
  /\ IF thread = "ended" THEN UNCHANGED <<commands, call>>
     ELSE /\ commands' = Append(commands, [kind |-> kind, id |-> calls + 1])
          /\ call' = calls + 1

GetSamples ==
  /\ calls < MaxGets
  /\ Request("GetSamples")
  /\ UNCHANGED <<capture, cmd_tx, replies, delivered, lost, chunks, emitter, hub,
                 stream, display>>

(* The emitter is aborted: with the chunks it has not received.            *)
Cut == emitting' = FALSE /\ chunks' = <<>> /\ UNCHANGED bucket

(* stop() gives up the command channel.  A streaming recording is cut      *)
(* before it (cut_streaming_audio), a batch recording after it.            *)
Stop ==
  /\ Request("Stop")
  /\ cmd_tx' = FALSE
  /\ Cut \/ UNCHANGED <<chunks, emitter>>
  /\ UNCHANGED <<capture, replies, delivered, lost, hub, stream, display>>

Drop ==
  /\ cmd_tx
  /\ call = 0
  /\ cmd_tx' = FALSE
  /\ UNCHANGED <<capture, commands, call, calls, replies, delivered, lost, chunks,
                 emitter, hub, stream, display>>

StopEmitter ==
  /\ ~cmd_tx
  /\ call = 0
  /\ emitting
  /\ Cut
  /\ UNCHANGED <<capture, requests, hub, stream, display>>

CallReturns ==
  /\ \E r \in replies :
       /\ r.id = call
       /\ delivered' = delivered \o r.samples
       /\ replies' = replies \ {r}
  /\ call' = 0
  /\ UNCHANGED <<capture, commands, cmd_tx, calls, lost, chunks, emitter, hub,
                 stream, display>>

(* After 500 ms, or 2 s for a stop; or the thread is gone.                 *)
CallFails ==
  /\ call # 0
  /\ replies = {}
  /\ call' = 0
  /\ UNCHANGED <<capture, commands, cmd_tx, calls, replies, delivered, lost, chunks,
                 emitter, hub, stream, display>>

-----------------------------------------------------------------------------
(* The emitter: spawn_emitter, LevelBucketer::push, FrameSink::publish.    *)

(* Mutant: a sink keeps the channel it was made with.                      *)
ReachesFirstHub == respawns = 0 /\ broadcasting /\ Len(frames) < FrameCapacity

Reaches == broadcasting /\ Len(frames) < FrameCapacity

Publish(frame) ==
  /\ frames' = IF Reaches THEN Append(frames, frame) ELSE frames
  /\ sent' = IF broadcasting /\ Len(frames) < FrameCapacity THEN Append(sent, frame) ELSE sent

(* One sample of the chunk at the head of the channel.                     *)
Emit ==
  /\ emitting
  /\ chunks # <<>>
  /\ LET chunk == Head(chunks)
         full == Append(bucket, Head(chunk))
     IN /\ chunks' = (IF Len(chunk) = 1 THEN <<>> ELSE <<Tail(chunk)>>) \o Tail(chunks)
        /\ IF Len(full) < SamplesPerFrame THEN bucket' = full /\ UNCHANGED stream
           ELSE bucket' = <<>> /\ Publish(full)
  /\ UNCHANGED <<capture, requests, emitting, hub, display>>

-----------------------------------------------------------------------------
(* The hub.  The display's connection is dropped with the listener while   *)
(* it waits to be accepted; once it is accepted, with its queue's sender.  *)

Refuse == client' = IF client = "connecting" THEN "away" ELSE client

Accept ==
  /\ accepting
  /\ client = "connecting"
  /\ IF broadcasting
     THEN client' = "connected" /\ slot' = "new" /\ UNCHANGED accepting
     ELSE client' = "away" /\ accepting' = FALSE /\ UNCHANGED slot
  /\ queue' = <<>>
  /\ got' = <<>>
  /\ UNCHANGED <<capture, requests, chunks, emitter, broadcasting, respawns,
                 rebinding, faults, stream, since>>

AddSubscriber ==
  /\ broadcasting
  /\ slot = "new"
  /\ slot' = "subscriber"
  /\ since' = Len(sent) - Len(frames)
  /\ UNCHANGED <<capture, requests, chunks, emitter, hub, stream, client, queue, got>>

(* A new subscriber is taken in before the frame goes out; one whose queue *)
(* is full is dropped.                                                     *)
FanOut ==
  /\ broadcasting
  /\ frames # <<>>
  /\ frames' = Tail(frames)
  /\ since' = IF slot = "new" THEN Len(sent) - Len(frames) ELSE since
  /\ IF slot = "none" THEN UNCHANGED <<slot, queue>>
     ELSE IF Len(queue) < QueueDepth
     THEN slot' = "subscriber" /\ queue' = Append(queue, Head(frames))
     ELSE slot' = "none" /\ UNCHANGED queue
  /\ UNCHANGED <<capture, requests, chunks, emitter, hub, sent, client, got>>

AcceptDies ==
  /\ accepting
  /\ faults < MaxFaults
  /\ faults' = faults + 1
  /\ accepting' = FALSE
  /\ Refuse
  /\ UNCHANGED <<capture, requests, chunks, emitter, broadcasting, respawns,
                 rebinding, stream, slot, queue, got, since>>

BroadcastDies ==
  /\ broadcasting
  /\ faults < MaxFaults
  /\ faults' = faults + 1
  /\ broadcasting' = FALSE
  /\ frames' = <<>>
  /\ slot' = "none"
  /\ UNCHANGED <<capture, requests, chunks, emitter, accepting, respawns, rebinding,
                 sent, client, queue, got, since>>

(* Without the accept loop new_subs is closed, and the broadcast loop ends *)
(* too, whatever frames there are.                                         *)
BroadcastEnds ==
  /\ broadcasting
  /\ ~accepting
  /\ slot # "new"
  /\ broadcasting' = FALSE
  /\ frames' = <<>>
  /\ slot' = "none"
  /\ UNCHANGED <<capture, requests, chunks, emitter, accepting, respawns, rebinding,
                 faults, sent, client, queue, got, since>>

(* Mutant: the tasks are detached, and nobody awaits them.                 *)
NobodyLooks == FALSE

TaskIsOver == ~accepting \/ ~broadcasting

(* The watchdog aborts what is left of the two.                            *)
WatchdogWakes ==
  /\ ~rebinding
  /\ TaskIsOver
  /\ rebinding' = TRUE
  /\ accepting' = FALSE
  /\ broadcasting' = FALSE
  /\ frames' = <<>>
  /\ slot' = "none"
  /\ Refuse
  /\ UNCHANGED <<capture, requests, chunks, emitter, respawns, faults, sent, queue,
                 got, since>>

BindFails ==
  /\ rebinding
  /\ faults < MaxFaults
  /\ faults' = faults + 1
  /\ UNCHANGED <<capture, requests, chunks, emitter, accepting, broadcasting,
                 respawns, rebinding, stream, display>>

Rebind ==
  /\ rebinding
  /\ rebinding' = FALSE
  /\ accepting' = TRUE
  /\ broadcasting' = TRUE
  /\ respawns' = respawns + 1
  /\ UNCHANGED <<capture, requests, chunks, emitter, faults, stream, display>>

-----------------------------------------------------------------------------
(* The display: run_ipc_loop.                                              *)

Connect ==
  /\ client = "away"
  /\ accepting
  /\ client' = "connecting"
  /\ UNCHANGED <<capture, requests, chunks, emitter, hub, stream, slot, queue, got, since>>

Read ==
  /\ client = "connected"
  /\ queue # <<>>
  /\ got' = Append(got, Head(queue))
  /\ queue' = Tail(queue)
  /\ UNCHANGED <<capture, requests, chunks, emitter, hub, stream, client, slot, since>>

Eof ==
  /\ client = "connected"
  /\ queue = <<>>
  /\ slot = "none"
  /\ client' = "away"
  /\ UNCHANGED <<capture, requests, chunks, emitter, hub, stream, slot, queue, got, since>>

-----------------------------------------------------------------------------

Capture ==
  \/ Play \/ BuildFails \/ HandleGetSamples \/ HandleStop \/ ChannelClosed
  \/ \E n \in ChunkSizes : Callback(n)
  \/ GetSamples \/ Stop \/ Drop \/ StopEmitter \/ CallReturns \/ CallFails

Hub ==
  \/ Accept \/ AddSubscriber \/ FanOut \/ BroadcastEnds
  \/ WatchdogWakes \/ Rebind \/ Connect \/ Read \/ Eof

Next == Capture \/ Emit \/ Hub \/ AcceptDies \/ BroadcastDies \/ BindFails

(* The runtime runs every task that can run; the display tries again; a    *)
(* bind succeeds in the end.                                               *)
Fairness ==
  /\ WF_vars(Accept) /\ WF_vars(AddSubscriber) /\ WF_vars(FanOut)
  /\ WF_vars(BroadcastEnds) /\ WF_vars(WatchdogWakes) /\ WF_vars(Rebind)
  /\ WF_vars(Connect) /\ WF_vars(Read) /\ WF_vars(Eof)

Spec == Init /\ [][Next]_vars /\ Fairness

-----------------------------------------------------------------------------

Reply == IF \E r \in replies : r.id = call
         THEN (CHOOSE r \in replies : r.id = call).samples ELSE <<>>

(* The daemon is given every sample once and in order, however its calls   *)
(* interleave with the callback; only a call that was given up loses       *)
(* samples, and after a stop nothing else is missing.                      *)
SamplesComeOnce ==
  LET handed == delivered \o Reply \o samples
  IN /\ ToSet(handed) = (1 .. heard) \ lost
     /\ \A i, j \in DOMAIN handed : i < j => handed[i] < handed[j]

(* A display that subscribes reads from then on every frame that found     *)
(* room in the hub, in order, until it is disconnected for being slow;     *)
(* also when the hub has been started anew during the recording.           *)
SubscriberMissesNothing ==
  slot = "subscriber" => got \o queue \o frames = SubSeq(sent, since + 1, Len(sent))

(* Whichever task of the hub dies, a display is subscribed again in the    *)
(* end: there is no listener without a hub behind it (issue #391).         *)
HubHeals == []<>(slot = "subscriber")

=============================================================================
