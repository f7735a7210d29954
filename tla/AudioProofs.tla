---------------------------- MODULE AudioProofs -----------------------------
(***************************************************************************)
(* Theorems about the audio of a recording: AudioPath, for every capacity  *)
(* of its channels, every number of samples, calls and faults, and         *)
(* EagerChunks, for every sound geometry and every length of a recording.  *)
(***************************************************************************)
EXTENDS AudioPath, EagerChunks, SequenceTheorems, FiniteSetTheorems,
        WellFoundedInduction, TLAPS

-----------------------------------------------------------------------------
(* AudioPath: the types, and what fits into the channels.                  *)

Frames == Seq(Nat)

Chunks == Seq(Nat) \ {<<>>}

Commands == [kind : {"GetSamples", "Stop"}, id : Nat \ {0}]

Bounded(s, S, capacity) == s \in Seq(S) /\ Len(s) <= capacity

CaptureOK ==
  /\ thread \in {"building", "running", "ended"}
  /\ heard \in Nat
  /\ samples \in Seq(Nat)

RequestsOK ==
  /\ commands \in Seq(Commands)
  /\ call \in Nat /\ calls \in Nat
  /\ replies \subseteq [id : Nat, samples : Seq(Nat)]
  /\ delivered \in Seq(Nat)
  /\ lost \subseteq Nat

EmitterOK ==
  /\ Bounded(chunks, Chunks, ChunkCapacity)
  /\ bucket \in Frames

HubOK ==
  /\ respawns \in Nat /\ faults \in Nat
  /\ Bounded(frames, Frames, FrameCapacity)
  /\ sent \in Seq(Frames) /\ Len(frames) <= Len(sent)

DisplayOK ==
  /\ client \in {"away", "connecting", "connected"}
  /\ slot \in {"none", "new", "subscriber"}
  /\ Bounded(queue, Frames, QueueDepth)
  /\ got \in Seq(Frames)
  /\ since \in Nat

AudioTypeOK == CaptureOK /\ RequestsOK /\ EmitterOK /\ HubOK /\ DisplayOK

LEMMA Capacities ==
  /\ ChunkCapacity \in Nat /\ 0 < ChunkCapacity
  /\ FrameCapacity \in Nat /\ 0 < FrameCapacity
  /\ QueueDepth \in Nat /\ 0 < QueueDepth
  /\ SamplesPerFrame \in Nat /\ 0 < SamplesPerFrame
  /\ \A n \in ChunkSizes : n \in Nat /\ 0 < n
BY AudioPathAssumption

LEMMA BoundedSequences ==
  ASSUME NEW S, NEW n \in Nat
  PROVE  /\ Bounded(<<>>, S, n)
         /\ \A s, e : Bounded(s, S, n) /\ Len(s) < n /\ e \in S => Bounded(Append(s, e), S, n)
         /\ \A s : Bounded(s, S, n) /\ s # <<>> => Bounded(Tail(s), S, n) /\ Head(s) \in S
<1>1. Bounded(<<>>, S, n)
  BY EmptySeq DEF Bounded
<1>2. ASSUME NEW s, NEW e, Bounded(s, S, n), Len(s) < n, e \in S
      PROVE  Bounded(Append(s, e), S, n)
  BY <1>2, AppendProperties DEF Bounded
<1>3. ASSUME NEW s, Bounded(s, S, n), s # <<>>
      PROVE  Bounded(Tail(s), S, n) /\ Head(s) \in S
  BY <1>3, HeadTailProperties, LenProperties DEF Bounded
<1> QED
  BY <1>1, <1>2, <1>3

LEMMA NothingSent ==
  /\ <<>> \in Frames /\ <<>> \in Seq(Nat) /\ <<>> \in Seq(Frames) /\ <<>> \in Seq(Commands)
  /\ Bounded(<<>>, Chunks, ChunkCapacity)
  /\ Bounded(<<>>, Frames, FrameCapacity)
  /\ Bounded(<<>>, Frames, QueueDepth)
BY Capacities, BoundedSequences, EmptySeq DEF Frames

LEMMA AudioTypeInit == Init => AudioTypeOK
<1> SUFFICES ASSUME Init PROVE AudioTypeOK
  OBVIOUS
<1> QED
  BY NothingSent, EmptySeq
  DEF Init, AudioTypeOK, CaptureOK, RequestsOK, EmitterOK, HubOK, DisplayOK

LEMMA CaptureStep ==
  ASSUME AudioTypeOK, Capture
  PROVE  AudioTypeOK'
<1> USE NothingSent DEF AudioTypeOK
<1>1. CASE Play \/ BuildFails
  BY <1>1
  DEF Play, BuildFails, CaptureOK, RequestsOK, EmitterOK, HubOK, DisplayOK, requests,
      emitter, hub, stream, display
<1>2. ASSUME NEW n \in ChunkSizes, Callback(n)
      PROVE  AudioTypeOK'
  <2> DEFINE chunk == [i \in 1 .. n |-> heard + i]
  <2>1. n \in Nat /\ n # 0 /\ heard \in Nat
    BY Capacities DEF CaptureOK
  <2>2. chunk \in Seq(Nat) /\ Len(chunk) = n
    BY <2>1
  <2>3. chunk \in Chunks
    BY <2>1, <2>2 DEF Chunks
  <2> HIDE DEF chunk
  <2>4. CaptureOK'
    BY <1>2, <2>1, <2>2, ConcatProperties DEF Callback, chunk, CaptureOK
  <2>5. /\ chunks' = IF Len(chunks) < ChunkCapacity /\ emitting THEN Append(chunks, chunk)
                     ELSE chunks
        /\ bucket' = bucket
    BY <1>2 DEF Callback, chunk, emitter
  <2>6. EmitterOK'
    BY <2>3, <2>5, Capacities, BoundedSequences DEF EmitterOK
  <2> QED
    BY <1>2, <2>4, <2>6
    DEF Callback, RequestsOK, HubOK, DisplayOK, requests, hub, stream, display
<1>3. CASE HandleGetSamples \/ HandleStop
  <2>1. /\ commands # <<>>
        /\ Head(commands) \in Commands /\ Tail(commands) \in Seq(Commands)
    BY <1>3, HeadTailProperties DEF HandleGetSamples, HandleStop, RequestsOK
  <2>2. ToSet(samples) \subseteq Nat
    BY ElementOfSeq, LenProperties DEF ToSet, CaptureOK
  <2>3. Answer(Head(commands).id, samples) /\ commands' \in {Tail(commands), <<>>}
    BY <1>3 DEF HandleGetSamples, HandleStop
  <2>4. /\ [id |-> Head(commands).id, samples |-> samples]
             \in [id : Nat, samples : Seq(Nat)]
        /\ replies \subseteq [id : Nat, samples : Seq(Nat)] /\ lost \subseteq Nat
    BY <2>1 DEF RequestsOK, CaptureOK, Commands
  <2>5. replies' \subseteq [id : Nat, samples : Seq(Nat)] /\ lost' \subseteq Nat
    BY <2>2, <2>3, <2>4 DEF Answer
  <2> QED
    BY <1>3, <2>1, <2>3, <2>5
    DEF HandleGetSamples, HandleStop, Taken, CaptureOK, RequestsOK, EmitterOK, HubOK,
        DisplayOK, emitter, hub, stream, display
<1>4. CASE ChannelClosed
  <2>1. ToSet(samples) \subseteq Nat
    BY ElementOfSeq, LenProperties DEF ToSet, CaptureOK
  <2> QED
    BY <1>4, <2>1
    DEF ChannelClosed, CaptureOK, RequestsOK, EmitterOK, HubOK, DisplayOK, emitter, hub,
        stream, display
<1>5. CASE GetSamples \/ Stop
  <2>1. PICK kind \in {"GetSamples", "Stop"} : Request(kind)
    BY <1>5 DEF GetSamples, Stop
  <2>2. [kind |-> kind, id |-> calls + 1] \in Commands
    BY DEF Commands, RequestsOK
  <2>3. commands \in Seq(Commands) /\ call \in Nat /\ calls \in Nat
    BY DEF RequestsOK
  <2>4. commands' \in Seq(Commands) /\ call' \in Nat /\ calls' \in Nat
    <3>1. CASE thread = "ended"
      BY <2>1, <2>3, <3>1 DEF Request
    <3>2. CASE thread # "ended"
      BY <2>1, <2>2, <2>3, <3>2 DEF Request
    <3> QED
      BY <3>1, <3>2
  <2>5. chunks' \in {chunks, <<>>} /\ bucket' = bucket
    <3>1. CASE GetSamples
      BY <3>1 DEF GetSamples, emitter
    <3>2. CASE Stop
      <4>1. Cut \/ UNCHANGED <<chunks, emitter>>
        BY <3>2, Zenon DEF Stop
      <4> QED
        BY <4>1, Zenon DEF Cut, emitter
    <3> QED
      BY <1>5, <3>1, <3>2
  <2>6. EmitterOK'
    BY <2>5 DEF EmitterOK
  <2> QED
    BY <1>5, <2>4, <2>6
    DEF GetSamples, Stop, CaptureOK, RequestsOK, HubOK, DisplayOK, capture, hub, stream,
        display
<1>6. CASE Drop \/ StopEmitter \/ CallFails
  <2>1. chunks' \in {chunks, <<>>} /\ bucket' = bucket
    <3>1. CASE Drop \/ CallFails
      BY <3>1 DEF Drop, CallFails, emitter
    <3>2. CASE StopEmitter
      BY <3>2, Zenon DEF StopEmitter, Cut
    <3> QED
      BY <1>6, <3>1, <3>2
  <2>2. call' \in Nat /\ UNCHANGED <<commands, calls, replies, delivered, lost>>
    BY <1>6 DEF Drop, StopEmitter, CallFails, RequestsOK, requests
  <2>3. EmitterOK' /\ RequestsOK'
    BY <2>1, <2>2 DEF EmitterOK, RequestsOK
  <2> QED
    BY <1>6, <2>3
    DEF Drop, StopEmitter, CallFails, CaptureOK, HubOK, DisplayOK, capture, hub, stream,
        display
<1>7. CASE CallReturns
  <2>1. PICK r \in replies : delivered' = delivered \o r.samples /\ replies' = replies \ {r}
    BY <1>7 DEF CallReturns
  <2>2. delivered' \in Seq(Nat) /\ replies' \subseteq [id : Nat, samples : Seq(Nat)]
    BY <2>1, ConcatProperties DEF RequestsOK
  <2> QED
    BY <1>7, <2>2
    DEF CallReturns, CaptureOK, RequestsOK, EmitterOK, HubOK, DisplayOK, capture, emitter,
        hub, stream, display
<1> QED
  BY <1>1, <1>2, <1>3, <1>4, <1>5, <1>6, <1>7 DEF Capture

LEMMA EmitStep ==
  ASSUME AudioTypeOK, Emit
  PROVE  AudioTypeOK'
<1> DEFINE chunk == Head(chunks)
           rest == Tail(chunks)
           full == Append(bucket, Head(chunk))
           first == IF Len(chunk) = 1 THEN <<>> ELSE <<Tail(chunk)>>
<1>1. /\ chunk \in Chunks /\ rest \in Seq(Chunks)
      /\ Len(rest) = Len(chunks) - 1 /\ Len(chunks) \in Nat /\ Len(rest) \in Nat
  BY HeadTailProperties, LenProperties DEF Emit, AudioTypeOK, EmitterOK, Bounded
<1>2. chunk \in Seq(Nat) /\ chunk # <<>>
  BY <1>1 DEF Chunks
<1>3. full \in Frames
  BY <1>2, HeadTailProperties, AppendProperties DEF AudioTypeOK, EmitterOK, Frames
<1>4. first \in Seq(Chunks) /\ Len(first) <= 1 /\ Len(first) \in Nat
  <2>1. CASE Len(chunk) = 1
    BY <2>1, EmptySeq
  <2>2. CASE Len(chunk) # 1
    <3>1. /\ Tail(chunk) \in Seq(Nat) /\ Len(Tail(chunk)) = Len(chunk) - 1
          /\ Len(chunk) \in Nat
      BY <1>2, HeadTailProperties, LenProperties
    <3> HIDE DEF chunk
    <3>2. Len(Tail(chunk)) # 0
      BY <2>2, <3>1
    <3>3. Tail(chunk) \in Chunks
      BY <3>1, <3>2, EmptySeq, Zenon DEF Chunks
    <3>4. first = <<Tail(chunk)>>
      BY <2>2
    <3> QED
      BY <3>3, <3>4
  <2> QED
    BY <2>1, <2>2
<1>5. /\ chunks' = first \o rest
      /\ bucket' = full \/ bucket' = <<>>
  BY Zenon DEF Emit, full, first, rest, chunk
<1>6. UNCHANGED stream \/ Publish(full)
  BY Zenon DEF Emit, full, chunk
<1> HIDE DEF chunk, rest, full, first
<1>7. EmitterOK'
  <2>1. first \o rest \in Seq(Chunks) /\ Len(first \o rest) = Len(first) + Len(rest)
    BY <1>1, <1>4, ConcatProperties
  <2>2. Bounded(first \o rest, Chunks, ChunkCapacity)
    BY <1>1, <1>4, <2>1, Capacities DEF AudioTypeOK, EmitterOK, Bounded
  <2> QED
    BY <1>3, <1>5, <2>2, NothingSent DEF AudioTypeOK, EmitterOK
<1>8. HubOK' /\ DisplayOK'
  <2>1. UNCHANGED <<respawns, faults, client, slot, queue, got, since>>
    BY DEF Emit, hub, display
  <2>2. \/ UNCHANGED <<frames, sent>>
        \/ /\ Len(frames) < FrameCapacity
           /\ frames' = Append(frames, full) /\ sent' = Append(sent, full)
    BY <1>6, Zenon DEF Publish, Reaches, stream
  <2>3. CASE UNCHANGED <<frames, sent>>
    BY <2>1, <2>3 DEF AudioTypeOK, HubOK, DisplayOK
  <2>4. CASE Len(frames) < FrameCapacity /\ frames' = Append(frames, full)
             /\ sent' = Append(sent, full)
    <3>1. Bounded(frames', Frames, FrameCapacity)
      BY <1>3, <2>4, Capacities, BoundedSequences DEF AudioTypeOK, HubOK
    <3>2. sent' \in Seq(Frames) /\ Len(sent') = Len(sent) + 1
      BY <1>3, <2>4, AppendProperties DEF AudioTypeOK, HubOK
    <3>3. Len(frames') = Len(frames) + 1 /\ Len(frames) \in Nat /\ Len(sent) \in Nat
      BY <1>3, <2>4, AppendProperties, LenProperties DEF AudioTypeOK, HubOK, Bounded
    <3>4. Len(frames') <= Len(sent')
      BY <3>2, <3>3 DEF AudioTypeOK, HubOK
    <3> QED
      BY <2>1, <3>1, <3>2, <3>4 DEF AudioTypeOK, HubOK, DisplayOK
  <2> QED
    BY <2>2, <2>3, <2>4
<1> QED
  BY <1>7, <1>8 DEF Emit, AudioTypeOK, CaptureOK, RequestsOK, capture, requests

LEMMA HubStep ==
  ASSUME AudioTypeOK, Hub \/ AcceptDies \/ BroadcastDies \/ BindFails
  PROVE  AudioTypeOK'
<1> USE NothingSent DEF AudioTypeOK
<1>1. UNCHANGED <<capture, requests, chunks, emitter>>
  BY DEF Hub, Accept, AddSubscriber, FanOut, BroadcastEnds, WatchdogWakes, Rebind,
         Connect, Read, Eof, AcceptDies, BroadcastDies, BindFails
<1>2. CaptureOK' /\ RequestsOK' /\ EmitterOK'
  BY <1>1 DEF CaptureOK, RequestsOK, EmitterOK, capture, requests, emitter
<1>3. /\ Len(sent) \in Nat /\ Len(frames) \in Nat /\ Len(frames) <= Len(sent)
      /\ Len(<<>>) = 0
  BY LenProperties DEF HubOK, Bounded
<1> USE DEF HubOK, DisplayOK
<1>4. CASE Accept \/ AcceptDies
  <2>1. /\ \/ queue' = <<>> /\ got' = <<>>
           \/ UNCHANGED <<queue, got>>
        /\ UNCHANGED <<stream, since, respawns>>
    BY <1>4 DEF Accept, AcceptDies
  <2>2. /\ client' = client \/ client' = "away" \/ client' = "connected"
        /\ slot' = slot \/ slot' = "new"
    BY <1>4, Zenon DEF Accept, AcceptDies, Refuse
  <2>3. faults' \in Nat
    BY <1>4 DEF Accept, AcceptDies
  <2> QED
    BY <1>2, <2>1, <2>2, <2>3 DEF stream
<1>5. CASE BroadcastDies \/ BroadcastEnds \/ WatchdogWakes
  <2>1. frames' = <<>> /\ slot' = "none" /\ UNCHANGED <<sent, queue, got, since, respawns>>
    BY <1>5 DEF BroadcastDies, BroadcastEnds, WatchdogWakes
  <2>2. faults' \in Nat /\ client' \in {client, "away"}
    BY <1>5 DEF BroadcastDies, BroadcastEnds, WatchdogWakes, Refuse
  <2> QED
    BY <1>2, <1>3, <2>1, <2>2
<1>6. CASE AddSubscriber
  BY <1>2, <1>3, <1>6 DEF AddSubscriber, hub, stream
<1>7. CASE BindFails \/ Rebind
  BY <1>2, <1>7 DEF BindFails, Rebind, stream, display
<1>8. CASE FanOut
  <2>1. frames # <<>> /\ frames' = Tail(frames) /\ UNCHANGED <<sent, client, got, hub>>
    BY <1>8 DEF FanOut
  <2>2. Bounded(frames', Frames, FrameCapacity) /\ Head(frames) \in Frames
    BY <2>1, Capacities, BoundedSequences
  <2>3. Len(frames') = Len(frames) - 1
    BY <2>1, HeadTailProperties DEF Bounded
  <2>4. \/ queue' = queue
        \/ Len(queue) < QueueDepth /\ queue' = Append(queue, Head(frames))
    BY <1>8, Zenon DEF FanOut
  <2>5. Bounded(queue', Frames, QueueDepth)
    BY <2>2, <2>4, Capacities, BoundedSequences
  <2>6. slot' \in {"none", "new", "subscriber"} /\ since' \in Nat
    BY <1>3, <1>8 DEF FanOut
  <2> QED
    BY <1>2, <1>3, <2>1, <2>2, <2>3, <2>5, <2>6 DEF hub
<1>9. CASE Connect \/ Eof
  BY <1>2, <1>9 DEF Connect, Eof, hub, stream
<1>10. CASE Read
  <2>1. Bounded(queue', Frames, QueueDepth) /\ Head(queue) \in Frames
    BY <1>10, Capacities, BoundedSequences DEF Read
  <2>2. got' \in Seq(Frames)
    BY <1>10, <2>1, AppendProperties DEF Read
  <2> QED
    BY <1>2, <1>10, <2>1, <2>2 DEF Read, hub, stream
<1> QED
  BY <1>4, <1>5, <1>6, <1>7, <1>8, <1>9, <1>10 DEF Hub

(* The capture thread, the emitter, the hub and a display are well formed, *)
(* and no channel holds more than its capacity (cpal_capture.rs,           *)
(* levels.rs), for every capacity and any number of faults.                *)
THEOREM AudioTypeCorrect == Spec => []AudioTypeOK
<1>1. AudioTypeOK /\ UNCHANGED vars => AudioTypeOK'
  BY DEF AudioTypeOK, CaptureOK, RequestsOK, EmitterOK, HubOK, DisplayOK, vars, capture,
         requests, emitter, hub, stream, display
<1>2. AudioTypeOK /\ [Next]_vars => AudioTypeOK'
  BY <1>1, CaptureStep, EmitStep, HubStep DEF Next
<1> QED
  BY <1>2, AudioTypeInit, PTL DEF Spec

-----------------------------------------------------------------------------
(* Calls and answers.                                                      *)

(* Each call is answered once at most: its command is unique, no answer is *)
(* kept that is not awaited, and once there is one the command has gone.   *)
OneAnswer ==
  /\ call <= calls
  /\ \A i \in 1 .. Len(commands) : commands[i].id <= calls
  /\ \A i, j \in 1 .. Len(commands) : i < j => commands[i].id < commands[j].id
  /\ \A q, r \in replies : q = r
  /\ \A r \in replies : r.id = call /\ call # 0
  /\ replies # {} => \A i \in 1 .. Len(commands) : commands[i].id # call

LEMMA OneAnswerInit == Init => OneAnswer
<1> SUFFICES ASSUME Init PROVE OneAnswer
  OBVIOUS
<1>1. commands = <<>> /\ replies = {} /\ call = 0 /\ calls = 0
  BY DEF Init
<1>2. 1 .. Len(commands) = {}
  BY <1>1
<1> QED
  BY <1>1, <1>2 DEF OneAnswer

LEMMA IdsAreNumbers ==
  ASSUME AudioTypeOK
  PROVE  \A i \in 1 .. Len(commands) : commands[i].id \in Nat
<1>1. \A i \in 1 .. Len(commands) : commands[i] \in Commands
  BY ElementOfSeq DEF AudioTypeOK, RequestsOK
<1> QED
  BY <1>1 DEF Commands

(* The thread answers the first command, or drops it with all others.      *)
LEMMA AnswerOnce ==
  ASSUME AudioTypeOK, OneAnswer, commands # <<>>,
         commands' = Tail(commands) \/ commands' = <<>>,
         NEW s \in Seq(Nat), Answer(Head(commands).id, s), UNCHANGED <<call, calls>>
  PROVE  /\ OneAnswer'
         /\ Head(commands).id = call => replies = {} /\ replies' = {[id |-> call, samples |-> s]}
<1> USE DEF AudioTypeOK, RequestsOK
<1>1. /\ Len(commands) \in Nat /\ Head(commands) = commands[1] /\ Len(commands) >= 1
      /\ \A i \in 1 .. Len(commands) : commands[i] \in Commands
  BY ElementOfSeq, EmptySeq, LenProperties
<1>2. Head(commands).id = call => replies = {}
  BY <1>1 DEF OneAnswer
<1>3. Head(commands).id # 0 /\ Head(commands).id \in Nat
  BY <1>1 DEF Commands
<1>4. /\ Len(commands') \in Nat
      /\ \A i \in 1 .. Len(commands') : i + 1 \in 1 .. Len(commands) /\ commands'[i] = commands[i + 1]
  <2>1. CASE commands' = Tail(commands)
    BY <1>1, <2>1, HeadTailProperties
  <2>2. CASE commands' = <<>>
    <3>1. Len(commands') = 0
      BY <2>2, EmptySeq
    <3> QED
      BY <3>1
  <2> QED
    BY <2>1, <2>2
<1>5. \A i \in 1 .. Len(commands') :
        commands'[i].id <= calls /\ commands[1].id < commands'[i].id
  BY <1>1, <1>4 DEF OneAnswer
<1>6. ASSUME NEW i \in 1 .. Len(commands'), NEW j \in 1 .. Len(commands'), i < j
      PROVE  commands'[i].id < commands'[j].id
  <2>1. i + 1 \in 1 .. Len(commands) /\ j + 1 \in 1 .. Len(commands) /\ i + 1 < j + 1
    BY <1>4, <1>6
  <2>2. commands[i + 1].id < commands[j + 1].id
    BY <2>1 DEF OneAnswer
  <2> QED
    BY <1>4, <2>2
<1>7. \A i \in 1 .. Len(commands') : commands'[i].id # commands[1].id
  BY <1>1, <1>4, <1>5, IdsAreNumbers
<1>8. CASE Head(commands).id = call
  <2>1. replies' = {[id |-> call, samples |-> s]}
    BY <1>2, <1>8 DEF Answer
  <2> QED
    BY <1>1, <1>2, <1>3, <1>5, <1>6, <1>7, <1>8, <2>1 DEF OneAnswer
<1>9. CASE Head(commands).id # call
  <2>1. replies' = replies
    BY <1>9 DEF Answer
  <2>2. replies # {} => \A i \in 1 .. Len(commands') : commands'[i].id # call
    BY <1>4 DEF OneAnswer
  <2> QED
    BY <1>5, <1>6, <1>9, <2>1, <2>2 DEF OneAnswer
<1> QED
  BY <1>8, <1>9

LEMMA OneAnswerNext ==
  ASSUME AudioTypeOK, OneAnswer, [Next]_vars
  PROVE  OneAnswer'
<1> USE DEF AudioTypeOK, RequestsOK
<1>1. ASSUME UNCHANGED <<commands, call, calls, replies>>
      PROVE  OneAnswer'
  BY <1>1 DEF OneAnswer
<1>2. CASE HandleGetSamples \/ HandleStop
  <2>1. /\ commands # <<>> /\ Answer(Head(commands).id, samples)
        /\ commands' = Tail(commands) \/ commands' = <<>>
        /\ UNCHANGED <<call, calls>>
    BY <1>2, Zenon DEF HandleGetSamples, HandleStop
  <2> QED
    BY <2>1, AnswerOnce DEF CaptureOK
<1>3. CASE BuildFails
  <2>1. /\ commands' = <<>> /\ UNCHANGED <<call, calls, replies>>
    BY <1>3 DEF BuildFails
  <2>2. Len(commands') = 0
    BY <2>1, EmptySeq
  <2> QED
    BY <2>1, <2>2 DEF OneAnswer
<1>4. CASE GetSamples \/ Stop
  <2>1. PICK kind \in {"GetSamples", "Stop"} : Request(kind)
    BY <1>4 DEF GetSamples, Stop
  <2>2. call = 0 /\ calls' = calls + 1 /\ UNCHANGED replies
    BY <1>4, <2>1 DEF GetSamples, Stop, Request
  <2>3. replies = {}
    BY <2>2 DEF OneAnswer
  <2>4. CASE UNCHANGED <<commands, call>>
    BY <2>2, <2>3, <2>4, IdsAreNumbers DEF OneAnswer
  <2>5. CASE commands' = Append(commands, [kind |-> kind, id |-> calls + 1]) /\ call' = calls + 1
    <3> DEFINE new == [kind |-> kind, id |-> calls + 1]
    <3>1. new \in Commands /\ new.id = calls + 1
      BY DEF Commands
    <3> HIDE DEF new
    <3>2. /\ Len(commands') = Len(commands) + 1 /\ Len(commands) \in Nat
          /\ \A i \in 1 .. Len(commands) : commands'[i] = commands[i] /\ commands[i].id \in Nat
          /\ commands'[Len(commands) + 1] = new
      <4>1. commands' = Append(commands, new)
        BY <2>5 DEF new
      <4> QED
        BY <3>1, <4>1, IdsAreNumbers, AppendProperties, LenProperties
    <3>3. \A i \in 1 .. Len(commands') :
            \/ i \in 1 .. Len(commands) /\ commands'[i] = commands[i]
               /\ commands[i].id <= calls /\ commands[i].id \in Nat
            \/ i = Len(commands) + 1 /\ commands'[i].id = calls + 1
      BY <3>1, <3>2 DEF OneAnswer
    <3>4. \A i \in 1 .. Len(commands') : commands'[i].id <= calls'
      BY <2>2, <3>3
    <3>5. \A i, j \in 1 .. Len(commands') : i < j => commands'[i].id < commands'[j].id
      <4> SUFFICES ASSUME NEW i \in 1 .. Len(commands'), NEW j \in 1 .. Len(commands'), i < j
                   PROVE  commands'[i].id < commands'[j].id
        OBVIOUS
      <4>1. i \in 1 .. Len(commands) /\ commands'[i] = commands[i] /\ commands[i].id <= calls
            /\ commands[i].id \in Nat
        BY <3>2, <3>3
      <4>2. CASE j \in 1 .. Len(commands)
        BY <3>2, <4>1, <4>2 DEF OneAnswer
      <4>3. CASE j = Len(commands) + 1
        BY <3>1, <3>2, <4>1, <4>3
      <4> QED
        BY <3>3, <4>2, <4>3
    <3> QED
      BY <2>2, <2>3, <2>5, <3>4, <3>5 DEF OneAnswer
  <2> QED
    BY <2>1, <2>4, <2>5 DEF Request
<1>5. CASE CallReturns \/ CallFails
  <2>1. replies' = {} /\ call' = 0 /\ UNCHANGED <<commands, calls>>
    BY <1>5 DEF CallReturns, CallFails, OneAnswer
  <2> QED
    BY <2>1 DEF OneAnswer
<1>6. CASE Play \/ ChannelClosed \/ (\E n \in ChunkSizes : Callback(n)) \/ Drop \/ StopEmitter
  BY <1>1, <1>6 DEF Play, ChannelClosed, Callback, Drop, StopEmitter, requests
<1>7. CASE Emit \/ Hub \/ AcceptDies \/ BroadcastDies \/ BindFails
  BY <1>1, <1>7
  DEF Emit, Hub, Accept, AddSubscriber, FanOut, BroadcastEnds, WatchdogWakes, Rebind,
      Connect, Read, Eof, AcceptDies, BroadcastDies, BindFails, requests
<1>8. CASE UNCHANGED vars
  BY <1>1, <1>8 DEF vars, requests
<1> QED
  BY <1>2, <1>3, <1>4, <1>5, <1>6, <1>7, <1>8 DEF Next, Capture

-----------------------------------------------------------------------------
(* The samples the daemon has, will have with the answer under way, and    *)
(* those in the buffer.                                                    *)
Handed == delivered \o Reply \o samples

(* s lists the members of S in ascending order.                            *)
Lists(s, S) ==
  /\ ToSet(s) = S
  /\ \A i, j \in DOMAIN s : i < j => s[i] < s[j]

LEMMA ListsLonger ==
  ASSUME NEW s \in Seq(Nat), NEW S, NEW h \in Nat, NEW n \in Nat, Lists(s, S),
         S \subseteq 1 .. h
  PROVE  Lists(s \o [i \in 1 .. n |-> h + i], S \cup (h + 1 .. h + n))
<1> DEFINE t == [i \in 1 .. n |-> h + i]
           u == s \o t
           m == Len(s)
<1>1. t \in Seq(Nat) /\ Len(t) = n /\ \A i \in 1 .. n : t[i] = h + i
  OBVIOUS
<1> HIDE DEF t
<1>2. m \in Nat /\ DOMAIN s = 1 .. m /\ \A i \in 1 .. m : s[i] \in Nat
  BY LenProperties, ElementOfSeq
<1>3. /\ DOMAIN u = 1 .. m + n
      /\ \A i \in 1 .. m + n : u[i] = IF i <= m THEN s[i] ELSE t[i - m]
  <2>1. u \in Seq(Nat) /\ Len(u) = m + n
    BY <1>1, ConcatProperties
  <2> QED
    BY <1>1, <2>1, ConcatProperties, LenProperties
<1> HIDE DEF u, m
<1>4. /\ \A i \in 1 .. m : i \in 1 .. m + n /\ u[i] = s[i]
      /\ \A i \in m + 1 .. m + n : i \in 1 .. m + n /\ u[i] = h + (i - m)
  <2>1. \A i \in m + 1 .. m + n : i \in 1 .. m + n /\ ~(i <= m) /\ i - m \in 1 .. n
    BY <1>2
  <2> QED
    BY <1>1, <1>2, <1>3, <2>1
<1>5. \A i \in 1 .. m : s[i] \in S /\ s[i] \in 1 .. h
  BY <1>2 DEF Lists, ToSet
<1>6. ToSet(u) = S \cup (h + 1 .. h + n)
  <2>1. ASSUME NEW x \in S
        PROVE  x \in ToSet(u)
    <3>1. PICK i \in 1 .. m : s[i] = x
      BY <1>2 DEF Lists, ToSet
    <3> QED
      BY <1>3, <1>4, <3>1 DEF ToSet
  <2>2. ASSUME NEW x \in h + 1 .. h + n
        PROVE  x \in ToSet(u)
    <3>1. m + (x - h) \in m + 1 .. m + n /\ h + (m + (x - h) - m) = x
      BY <1>2
    <3> DEFINE i == m + (x - h)
    <3>2. i \in m + 1 .. m + n /\ h + (i - m) = x
      BY <1>2, <3>1
    <3> HIDE DEF i
    <3>3. i \in 1 .. m + n /\ u[i] = x
      BY <1>4, <3>2
    <3> QED
      BY <1>3, <3>3 DEF ToSet
  <2>3. ASSUME NEW i \in 1 .. m + n
        PROVE  u[i] \in S \cup (h + 1 .. h + n)
    <3>1. CASE i \in 1 .. m
      BY <1>4, <1>5, <3>1
    <3>2. CASE i \in m + 1 .. m + n
      <4>1. h + (i - m) \in h + 1 .. h + n
        BY <1>2, <3>2
      <4> QED
        BY <1>4, <3>2, <4>1
    <3> QED
      BY <1>2, <3>1, <3>2
  <2> QED
    BY <1>3, <2>1, <2>2, <2>3 DEF ToSet
<1>7. ASSUME NEW i \in 1 .. m + n, NEW j \in 1 .. m + n, i < j
      PROVE  u[i] < u[j]
  <2>1. CASE i \in 1 .. m /\ j \in 1 .. m
    BY <1>2, <1>4, <1>7, <2>1 DEF Lists
  <2>2. CASE i \in 1 .. m /\ j \in m + 1 .. m + n
    <3>1. u[i] \in 1 .. h /\ u[j] = h + (j - m) /\ j - m \in 1 .. n
      BY <1>2, <1>4, <1>5, <2>2
    <3> QED
      BY <3>1
  <2>3. CASE i \in m + 1 .. m + n /\ j \in m + 1 .. m + n
    <3>1. u[i] = h + (i - m) /\ u[j] = h + (j - m)
      BY <1>4, <2>3
    <3> QED
      BY <1>2, <1>7, <3>1
  <2> QED
    BY <1>2, <1>7, <2>1, <2>2, <2>3
<1> QED
  BY <1>3, <1>6, <1>7 DEF Lists, t, u

LEMMA ListsShorter ==
  ASSUME NEW s \in Seq(Nat), NEW t \in Seq(Nat), NEW S, Lists(s \o t, S)
  PROVE  Lists(s, S \ ToSet(t))
<1> DEFINE u == s \o t
           m == Len(s)
           n == Len(t)
<1>1. /\ m \in Nat /\ n \in Nat /\ DOMAIN s = 1 .. m /\ DOMAIN t = 1 .. n
      /\ DOMAIN u = 1 .. m + n
      /\ \A i \in 1 .. m : s[i] \in Nat
      /\ \A i \in 1 .. n : t[i] \in Nat
  <2>1. u \in Seq(Nat) /\ Len(u) = m + n
    BY ConcatProperties
  <2> QED
    BY <2>1, LenProperties, ElementOfSeq
<1>2. /\ \A i \in 1 .. m : i \in 1 .. m + n /\ u[i] = s[i]
      /\ \A i \in 1 .. n : m + i \in 1 .. m + n /\ u[m + i] = t[i]
  <2>1. \A i \in 1 .. m + n : u[i] = IF i <= m THEN s[i] ELSE t[i - m]
    BY ConcatProperties
  <2>2. \A i \in 1 .. n : m + i \in 1 .. m + n /\ ~(m + i <= m) /\ m + i - m = i
    BY <1>1
  <2> QED
    BY <1>1, <2>1, <2>2
<1>3. Lists(u, S)
  OBVIOUS
<1> HIDE DEF u, m, n
<1>4. \A i \in 1 .. m, j \in 1 .. n : s[i] < t[j]
  <2> SUFFICES ASSUME NEW i \in 1 .. m, NEW j \in 1 .. n
               PROVE  u[i] < u[m + j]
    BY <1>2
  <2>1. i \in 1 .. m + n /\ m + j \in 1 .. m + n /\ i < m + j
    BY <1>1
  <2> QED
    BY <1>1, <1>3, <2>1 DEF Lists
<1>5. ToSet(s) = S \ ToSet(t)
  <2>1. ASSUME NEW i \in 1 .. m
        PROVE  s[i] \in S \ ToSet(t)
    <3>1. s[i] \in S
      BY <1>1, <1>2, <1>3 DEF Lists, ToSet
    <3>2. ASSUME s[i] \in ToSet(t) PROVE FALSE
      <4>1. PICK j \in 1 .. n : t[j] = s[i]
        BY <1>1, <3>2 DEF ToSet
      <4> QED
        BY <1>1, <1>4, <4>1
    <3> QED
      BY <3>1, <3>2
  <2>2. ASSUME NEW x \in S, x \notin ToSet(t)
        PROVE  x \in ToSet(s)
    <3>1. PICK i \in 1 .. m + n : u[i] = x
      BY <1>1, <1>3 DEF Lists, ToSet
    <3>2. i \notin 1 .. m => i - m \in 1 .. n /\ m + (i - m) = i
      BY <1>1
    <3> QED
      BY <1>1, <1>2, <2>2, <3>1, <3>2 DEF ToSet
  <2> QED
    BY <1>1, <2>1, <2>2 DEF ToSet
<1>6. \A i, j \in 1 .. m : i < j => s[i] < s[j]
  BY <1>1, <1>2, <1>3 DEF Lists
<1> QED
  BY <1>1, <1>5, <1>6 DEF Lists

(* A sample is lost after it was heard, so it is not heard again.          *)
SamplesRight ==
  /\ Lists(Handed, (1 .. heard) \ lost)
  /\ lost \subseteq 1 .. heard

LEMMA SamplesRightImplies == SamplesRight => SamplesComeOnce
BY DEF SamplesRight, Handed, Lists, SamplesComeOnce

LEMMA ReplyIs ==
  ASSUME OneAnswer
  PROVE  /\ replies = {} => Reply = <<>>
         /\ \A r \in replies : Reply = r.samples
BY DEF OneAnswer, Reply

LEMMA HandedType ==
  ASSUME AudioTypeOK, OneAnswer
  PROVE  Reply \in Seq(Nat) /\ delivered \in Seq(Nat) /\ samples \in Seq(Nat)
BY ReplyIs, NothingSent DEF AudioTypeOK, RequestsOK, CaptureOK

LEMMA SamplesInit == Init => SamplesRight
<1> SUFFICES ASSUME Init PROVE SamplesRight
  OBVIOUS
<1>1. Reply = <<>>
  BY DEF Init, Reply
<1>2. Handed = <<>> /\ heard = 0 /\ lost = {}
  BY <1>1 DEF Init, Handed
<1>3. DOMAIN <<>> = {} /\ 1 .. 0 = {}
  OBVIOUS
<1> QED
  BY <1>2, <1>3 DEF SamplesRight, Lists, ToSet

(* The thread gives the buffer away: to the caller that waits for it, or   *)
(* to nobody.                                                              *)
LEMMA SamplesAnswered ==
  ASSUME AudioTypeOK, AudioTypeOK', OneAnswer, OneAnswer', SamplesRight,
         UNCHANGED <<delivered, heard, call>>, samples' = <<>>,
         \/ replies = {} /\ replies' = {[id |-> call, samples |-> samples]} /\ UNCHANGED lost
         \/ UNCHANGED replies /\ lost' = lost \cup ToSet(samples)
  PROVE  SamplesRight'
<1>1. /\ Reply \in Seq(Nat) /\ delivered \in Seq(Nat) /\ samples \in Seq(Nat)
      /\ Reply' \in Seq(Nat)
      /\ replies' = {} => Reply' = <<>>
      /\ \A r \in replies' : Reply' = r.samples
  <2>1. /\ replies' = {} => Reply' = <<>>
        /\ \A r \in replies' : Reply' = r.samples
    BY DEF OneAnswer, Reply
  <2>2. Reply' \in Seq(Nat)
    BY <2>1, NothingSent DEF AudioTypeOK, RequestsOK
  <2> QED
    BY <2>1, <2>2, HandedType
<1>2. Handed' = delivered \o Reply'
  BY <1>1, ConcatProperties, ConcatEmptySeq DEF Handed
<1>3. CASE replies = {} /\ replies' = {[id |-> call, samples |-> samples]} /\ UNCHANGED lost
  <2>1. Reply = <<>> /\ Reply' = samples
    <3>1. [id |-> call, samples |-> samples] \in replies'
      BY <1>3
    <3> QED
      BY <1>1, <1>3, <3>1, ReplyIs
  <2>2. Handed' = Handed
    BY <1>1, <1>2, <2>1, ConcatEmptySeq DEF Handed
  <2> QED
    BY <1>3, <2>2 DEF SamplesRight
<1>4. CASE UNCHANGED replies /\ lost' = lost \cup ToSet(samples)
  <2>1. Reply' = Reply
    BY <1>4 DEF Reply
  <2>2. Lists(delivered \o Reply, ((1 .. heard) \ lost) \ ToSet(samples))
    BY <1>1, ConcatProperties, ListsShorter DEF SamplesRight, Handed
  <2>3. ((1 .. heard) \ lost) \ ToSet(samples) = (1 .. heard) \ (lost \cup ToSet(samples))
    OBVIOUS
  <2>4. ToSet(samples) \subseteq 1 .. heard
    <3>1. \A i \in DOMAIN samples : samples[i] \in ToSet(Handed)
      <4> DEFINE front == delivered \o Reply
                 k == Len(front)
                 n == Len(samples)
      <4>1. front \in Seq(Nat) /\ k \in Nat /\ n \in Nat /\ DOMAIN samples = 1 .. n
        BY <1>1, ConcatProperties, LenProperties
      <4>2. /\ Handed = front \o samples /\ DOMAIN Handed = 1 .. k + n
            /\ \A i \in 1 .. k + n : Handed[i] = IF i <= k THEN front[i] ELSE samples[i - k]
        <5>1. /\ Handed = front \o samples /\ Handed \in Seq(Nat) /\ Len(Handed) = k + n
          BY <1>1, <4>1, ConcatProperties DEF Handed
        <5> QED
          BY <1>1, <4>1, <5>1, ConcatProperties, LenProperties
      <4> HIDE DEF front, k, n
      <4>3. \A i \in 1 .. n : k + i \in 1 .. k + n /\ ~(k + i <= k) /\ k + i - k = i
        BY <4>1
      <4>4. ASSUME NEW i \in 1 .. n
            PROVE  k + i \in 1 .. k + n /\ Handed[k + i] = samples[i]
        <5> DEFINE x == k + i
        <5>1. x \in 1 .. k + n /\ ~(x <= k) /\ x - k = i
          BY <4>1, <4>3
        <5> HIDE DEF x
        <5>2. Handed[x] = samples[x - k]
          BY <4>2, <5>1
        <5>3. Handed[x] = samples[i]
          BY <5>1, <5>2
        <5> QED
          BY <5>1, <5>3 DEF x
      <4> QED
        BY <4>1, <4>2, <4>4 DEF ToSet
    <3> QED
      BY <3>1 DEF SamplesRight, Lists, ToSet
  <2> QED
    BY <1>2, <1>4, <2>1, <2>2, <2>3, <2>4 DEF SamplesRight
<1> QED
  BY <1>3, <1>4

LEMMA SamplesNext ==
  ASSUME AudioTypeOK, AudioTypeOK', OneAnswer, OneAnswer', SamplesRight, [Next]_vars
  PROVE  SamplesRight'
<1>0. /\ Reply \in Seq(Nat) /\ delivered \in Seq(Nat) /\ samples \in Seq(Nat)
      /\ heard \in Nat
  BY HandedType DEF AudioTypeOK, CaptureOK
<1>1. ASSUME UNCHANGED <<delivered, replies, call, samples, heard, lost>>
      PROVE  SamplesRight'
  BY <1>1 DEF SamplesRight, Handed, Reply
<1>2. ASSUME NEW n \in ChunkSizes, Callback(n)
      PROVE  SamplesRight'
  <2>1. n \in Nat /\ n >= 1
    BY Capacities
  <2> DEFINE chunk == [i \in 1 .. n |-> heard + i]
  <2>2. /\ samples' = samples \o chunk /\ heard' = heard + n
        /\ UNCHANGED <<delivered, replies, call, lost>>
    BY <1>2 DEF Callback, requests
  <2>3. chunk \in Seq(Nat)
    BY <1>0, <2>1
  <2>4. Reply' = Reply
    BY <2>2 DEF Reply
  <2>5. Handed \in Seq(Nat) /\ Handed' = Handed \o chunk
    <3> DEFINE front == delivered \o Reply
    <3>1. front \in Seq(Nat)
      BY <1>0, ConcatProperties
    <3>2. Handed = front \o samples
      BY DEF Handed
    <3>3. Handed' = front \o (samples \o chunk)
      BY <2>2, <2>4 DEF Handed
    <3> HIDE DEF chunk, front
    <3>4. (front \o samples) \o chunk = front \o (samples \o chunk)
      <4>1. \A s, t, u \in Seq(Nat) : (s \o t) \o u = s \o (t \o u)
        BY ConcatAssociative
      <4> QED
        BY <1>0, <2>3, <3>1, <4>1
    <3>5. Handed \in Seq(Nat)
      BY <1>0, <3>1, <3>2, ConcatProperties
    <3> QED
      BY <3>2, <3>3, <3>4, <3>5
  <2>6. Lists(Handed', ((1 .. heard) \ lost) \cup (heard + 1 .. heard + n))
    BY <1>0, <2>1, <2>5, ListsLonger DEF SamplesRight
  <2>7. /\ ((1 .. heard) \ lost) \cup (heard + 1 .. heard + n) = (1 .. heard + n) \ lost
        /\ lost \subseteq 1 .. heard + n
    BY <1>0, <2>1 DEF SamplesRight
  <2> QED
    BY <2>2, <2>6, <2>7 DEF SamplesRight
<1>3. CASE HandleGetSamples \/ HandleStop
  <2>1. /\ commands # <<>> /\ Answer(Head(commands).id, samples)
        /\ commands' = Tail(commands) \/ commands' = <<>>
        /\ samples' = <<>>
        /\ UNCHANGED <<call, calls, delivered, heard>>
    BY <1>3, Zenon DEF HandleGetSamples, HandleStop, Taken
  <2>2. \/ replies = {} /\ replies' = {[id |-> call, samples |-> samples]} /\ UNCHANGED lost
        \/ UNCHANGED replies /\ lost' = lost \cup ToSet(samples)
    BY <1>0, <2>1, AnswerOnce DEF Answer
  <2> QED
    BY <2>1, <2>2, SamplesAnswered
<1>4. CASE ChannelClosed
  BY <1>4, SamplesAnswered DEF ChannelClosed
<1>5. CASE GetSamples \/ Stop
  <2>1. PICK kind \in {"GetSamples", "Stop"} : Request(kind)
    BY <1>5 DEF GetSamples, Stop
  <2>2. replies = {} /\ UNCHANGED <<replies, delivered, samples, heard, lost>>
    BY <1>5, <2>1 DEF GetSamples, Stop, Request, OneAnswer, capture
  <2>3. Reply = <<>> /\ Reply' = <<>>
    BY <2>2 DEF Reply
  <2> QED
    BY <2>2, <2>3 DEF SamplesRight, Handed
<1>6. CASE CallReturns
  <2>1. PICK r \in replies : delivered' = delivered \o r.samples /\ replies' = replies \ {r}
    BY <1>6 DEF CallReturns
  <2>2. UNCHANGED <<samples, heard, lost>>
    BY <1>6 DEF CallReturns, capture
  <2>3. Reply = r.samples /\ replies' = {}
    BY <2>1, ReplyIs DEF OneAnswer
  <2>4. Reply' = <<>> /\ delivered' = delivered \o Reply
    BY <2>1, <2>3 DEF Reply
  <2>5. delivered' \o Reply' = delivered \o Reply
    BY <1>0, <2>4, ConcatProperties, ConcatEmptySeq
  <2> QED
    BY <2>2, <2>5 DEF SamplesRight, Handed
<1>7. CASE CallFails
  <2>1. replies = {} /\ UNCHANGED <<replies, delivered, samples, heard, lost>>
    BY <1>7 DEF CallFails, capture
  <2>2. Reply = <<>> /\ Reply' = <<>>
    BY <2>1 DEF Reply
  <2> QED
    BY <2>1, <2>2 DEF SamplesRight, Handed
<1>8. CASE Play \/ BuildFails \/ Drop \/ StopEmitter
  BY <1>1, <1>8 DEF Play, BuildFails, Drop, StopEmitter, requests, capture
<1>9. CASE Emit \/ Hub \/ AcceptDies \/ BroadcastDies \/ BindFails
  BY <1>1, <1>9
  DEF Emit, Hub, Accept, AddSubscriber, FanOut, BroadcastEnds, WatchdogWakes, Rebind,
      Connect, Read, Eof, AcceptDies, BroadcastDies, BindFails, requests, capture
<1>10. CASE UNCHANGED vars
  BY <1>1, <1>10 DEF vars, requests, capture
<1> QED
  BY <1>2, <1>3, <1>4, <1>5, <1>6, <1>7, <1>8, <1>9, <1>10 DEF Next, Capture

(* The daemon is given every sample once and in order, whatever chunks the *)
(* device hands over and whichever calls are given up; only what a call    *)
(* that was given up had asked for is missing (CpalCapture::get_samples    *)
(* and stop).                                                              *)
THEOREM SamplesOnce == Spec => []SamplesComeOnce
<1>1. AudioTypeOK /\ OneAnswer /\ [Next]_vars => OneAnswer'
  BY OneAnswerNext
<1>2. AudioTypeOK /\ AudioTypeOK' /\ OneAnswer /\ OneAnswer' /\ SamplesRight /\ [Next]_vars
        => SamplesRight'
  BY SamplesNext
<1> QED
  BY <1>1, <1>2, OneAnswerInit, SamplesInit, AudioTypeCorrect, SamplesRightImplies, PTL
  DEF Spec

-----------------------------------------------------------------------------
(* The hub's frames and what a display reads of them.                      *)

(* s follows the first k frames sent.                                      *)
Follows(k, s) == \E before \in Seq(Frames) : Len(before) = k /\ sent = before \o s

(* The hub's channel holds the last frames sent; a display that has been   *)
(* accepted but not taken in has read nothing; one that has been taken in  *)
(* has read, and will read, what came since.                               *)
HubRight ==
  /\ \E k \in Nat : Follows(k, frames)
  /\ broadcasting \/ slot = "none"
  /\ slot = "new" => queue = <<>> /\ got = <<>>
  /\ slot = "subscriber" => Follows(since, (got \o queue) \o frames)

(* A frame moves from the front of one sequence to the end of the one      *)
(* before it, and nothing else changes.                                    *)
LEMMA Shift ==
  ASSUME NEW S, NEW s \in Seq(S), NEW t \in Seq(S), t # <<>>
  PROVE  Append(s, Head(t)) \o Tail(t) = s \o t
<1>1. Head(t) \in S /\ Tail(t) \in Seq(S) /\ Len(Tail(t)) = Len(t) - 1
      /\ \A i \in 1 .. Len(Tail(t)) : Tail(t)[i] = t[i + 1]
  BY HeadTailProperties
<1>2. Head(t) = t[1] /\ Len(t) \in Nat /\ Len(s) \in Nat /\ Len(t) # 0
  BY LenProperties, EmptySeq
<1> DEFINE h == Head(t)
           r == Tail(t)
           a == Append(s, h)
           m == Len(s)
           n == Len(t)
           u == a \o r
           v == s \o t
<1>3. /\ a \in Seq(S) /\ Len(a) = m + 1 /\ a[m + 1] = h
      /\ \A i \in 1 .. m : a[i] = s[i]
  BY <1>1, AppendProperties
<1>4. /\ r \in Seq(S) /\ Len(r) = n - 1 /\ h = t[1] /\ m \in Nat /\ n \in Nat /\ n >= 1
      /\ \A i \in 1 .. n - 1 : r[i] = t[i + 1]
  BY <1>1, <1>2
<1> HIDE DEF h, r, a
<1>5. /\ u \in Seq(S) /\ Len(u) = m + n
      /\ \A i \in 1 .. m + n : u[i] = IF i <= m + 1 THEN a[i] ELSE r[i - (m + 1)]
  <2>1. /\ u \in Seq(S) /\ Len(u) = Len(a) + Len(r)
        /\ \A i \in 1 .. Len(a) + Len(r) : u[i] = IF i <= Len(a) THEN a[i] ELSE r[i - Len(a)]
    BY <1>3, <1>4, ConcatProperties
  <2>2. Len(a) = m + 1 /\ Len(a) + Len(r) = m + n
    BY <1>3, <1>4
  <2> HIDE DEF u, m, n
  <2> QED
    BY <2>1, <2>2
<1>6. /\ v \in Seq(S) /\ Len(v) = m + n
      /\ \A i \in 1 .. m + n : v[i] = IF i <= m THEN s[i] ELSE t[i - m]
  BY <1>4, ConcatProperties
<1>7. ASSUME NEW i \in 1 .. m + n
      PROVE  u[i] = v[i]
  <2> HIDE DEF u, v, m, n
  <2>1. CASE i \in 1 .. m
    <3>1. i <= m + 1 /\ i <= m
      BY <1>4, <2>1
    <3> QED
      BY <1>3, <1>5, <1>6, <2>1, <3>1
  <2>2. CASE i = m + 1
    <3>1. i <= m + 1 /\ ~(i <= m) /\ i - m = 1
      BY <1>4, <2>2
    <3>2. u[i] = a[i] /\ v[i] = t[i - m]
      BY <1>5, <1>6, <3>1
    <3> QED
      BY <1>3, <1>4, <2>2, <3>1, <3>2
  <2>3. CASE i \in m + 2 .. m + n
    <3> DEFINE j == i - (m + 1)
    <3>1. ~(i <= m + 1) /\ ~(i <= m) /\ j \in 1 .. n - 1 /\ i - m = j + 1
      BY <1>4, <2>3
    <3> HIDE DEF j
    <3>2. u[i] = r[j] /\ v[i] = t[j + 1]
      BY <1>5, <1>6, <3>1 DEF j
    <3> QED
      BY <1>4, <3>1, <3>2
  <2> QED
    BY <1>4, <2>1, <2>2, <2>3
<1> HIDE DEF u, v
<1>8. u = v
  BY <1>5, <1>6, <1>7, SeqEqual
<1> QED
  BY <1>8 DEF u, v, a, h, r

LEMMA FrameLast ==
  \A s, t \in Seq(Frames), e \in Frames : Append(s \o t, e) = s \o Append(t, e)
<1> SUFFICES ASSUME NEW s \in Seq(Frames), NEW t \in Seq(Frames), NEW e \in Frames
             PROVE  Append(s \o t, e) = s \o Append(t, e)
  OBVIOUS
<1> DEFINE last == <<e>>
<1>1. last \in Seq(Frames) /\ s \o t \in Seq(Frames)
  BY ConcatProperties
<1>2. Append(s \o t, e) = (s \o t) \o last /\ Append(t, e) = t \o last
  BY <1>1, AppendIsConcat
<1> HIDE DEF last
<1>3. (s \o t) \o last = s \o (t \o last)
  BY <1>1, ConcatAssociative
<1> QED
  BY <1>2, <1>3

LEMMA FrameFacts ==
  /\ \A s, t \in Seq(Frames) : s \o t \in Seq(Frames) /\ Len(s \o t) = Len(s) + Len(t)
                               /\ Len(s) \in Nat
  /\ \A s \in Seq(Frames) : s \o <<>> = s /\ <<>> \o s = s
  /\ \A s, t \in Seq(Frames) : t # <<>> => /\ Append(s, Head(t)) \o Tail(t) = s \o t
                                           /\ Append(s, Head(t)) \in Seq(Frames)
                                           /\ Tail(t) \in Seq(Frames)
<1>1. \A s, t \in Seq(Frames) : s \o t \in Seq(Frames) /\ Len(s \o t) = Len(s) + Len(t)
                                /\ Len(s) \in Nat
  BY ConcatProperties, LenProperties
<1>2. \A s \in Seq(Frames) : s \o <<>> = s /\ <<>> \o s = s
  BY ConcatEmptySeq
<1>3. \A s, t \in Seq(Frames) : t # <<>> => /\ Append(s, Head(t)) \o Tail(t) = s \o t
                                            /\ Append(s, Head(t)) \in Seq(Frames)
                                            /\ Tail(t) \in Seq(Frames)
  BY Shift, HeadTailProperties, AppendProperties
<1> QED
  BY <1>1, <1>2, <1>3

LEMMA HubRightImplies == AudioTypeOK /\ HubRight => SubscriberMissesNothing
<1> SUFFICES ASSUME AudioTypeOK, HubRight, slot = "subscriber"
             PROVE  (got \o queue) \o frames = SubSeq(sent, since + 1, Len(sent))
  BY DEF SubscriberMissesNothing
<1> DEFINE s == (got \o queue) \o frames
<1>1. s \in Seq(Frames)
  BY FrameFacts DEF AudioTypeOK, HubOK, DisplayOK, Bounded
<1>2. PICK p \in Seq(Frames) : Len(p) = since /\ sent = p \o s
  BY DEF HubRight, Follows
<1> DEFINE k == since
           n == Len(s)
           w == SubSeq(sent, k + 1, k + n)
<1> HIDE DEF s
<1>3. /\ k \in Nat /\ n \in Nat /\ sent \in Seq(Frames) /\ Len(sent) = k + n
      /\ \A i \in 1 .. k + n : sent[i] = IF i <= k THEN p[i] ELSE s[i - k]
  BY <1>1, <1>2, ConcatProperties, LenProperties
<1> HIDE DEF n
<1>4. \A i \in k + 1 .. k + n : sent[i] \in Frames
  BY <1>3, ElementOfSeq
<1>5. /\ w \in Seq(Frames) /\ Len(w) = IF k + 1 <= k + n THEN k + n - (k + 1) + 1 ELSE 0
      /\ \A i \in 1 .. k + n - (k + 1) + 1 : w[i] = sent[k + 1 + i - 1]
  BY <1>3, <1>4, SubSeqProperties
<1> HIDE DEF w, k
<1>6. Len(w) = n
  BY <1>3, <1>5
<1>7. ASSUME NEW i \in 1 .. n
      PROVE  w[i] = s[i]
  <2> DEFINE j == k + i
  <2>1. /\ i \in 1 .. k + n - (k + 1) + 1 /\ k + 1 + i - 1 = j
        /\ j \in 1 .. k + n /\ ~(j <= k) /\ j - k = i
    BY <1>3
  <2> HIDE DEF j
  <2>2. w[i] = sent[j] /\ sent[j] = s[j - k]
    BY <1>3, <1>5, <2>1
  <2> QED
    BY <2>1, <2>2
<1>8. w = s
  BY <1>1, <1>5, <1>6, <1>7, SeqEqual DEF n
<1> QED
  BY <1>3, <1>8 DEF w, s, k

LEMMA HubRightInit == Init => HubRight
<1> SUFFICES ASSUME Init PROVE HubRight
  OBVIOUS
<1>1. frames = <<>> /\ sent = <<>> /\ slot = "none"
  BY DEF Init
<1>2. sent = <<>> \o frames /\ Len(<<>>) = 0
  BY <1>1, NothingSent, FrameFacts
<1>3. Follows(0, frames)
  BY <1>2, NothingSent DEF Follows
<1> QED
  BY <1>1, <1>3 DEF HubRight

(* The channel is emptied: with the task that reads it.                    *)
LEMMA HubEmptied ==
  ASSUME AudioTypeOK, UNCHANGED sent, frames' = <<>>, slot' = "none"
  PROVE  HubRight'
<1>1. sent \in Seq(Frames)
  BY DEF AudioTypeOK, HubOK
<1>2. Len(sent) \in Nat /\ sent' = sent \o <<>>
  BY <1>1, FrameFacts
<1>3. Follows(Len(sent), <<>>)'
  BY <1>1, <1>2 DEF Follows
<1> QED
  BY <1>2, <1>3 DEF HubRight

LEMMA HubRightNext ==
  ASSUME AudioTypeOK, HubRight, [Next]_vars
  PROVE  HubRight'
<1>0. /\ frames \in Seq(Frames) /\ sent \in Seq(Frames) /\ queue \in Seq(Frames)
      /\ got \in Seq(Frames) /\ <<>> \in Seq(Frames)
  BY NothingSent DEF AudioTypeOK, HubOK, DisplayOK, Bounded
<1>1. ASSUME UNCHANGED <<frames, sent, queue, got, since>>,
             slot' = slot \/ slot' = "none", broadcasting' \/ slot' = "none"
      PROVE  HubRight'
  BY <1>1 DEF HubRight, Follows
<1>2. CASE Emit
  <2>1. UNCHANGED <<broadcasting, slot, queue, got, since>>
    BY <1>2 DEF Emit, hub, display
  <2>2. PICK frame \in Frames : UNCHANGED stream \/ Publish(frame)
    <3> DEFINE full == Append(bucket, Head(Head(chunks)))
    <3>1. Head(chunks) \in Chunks
      BY <1>2, HeadTailProperties DEF Emit, AudioTypeOK, EmitterOK, Bounded
    <3>2. full \in Frames
      BY <3>1, HeadTailProperties, AppendProperties DEF AudioTypeOK, EmitterOK, Frames, Chunks
    <3>3. UNCHANGED stream \/ Publish(full)
      BY <1>2, Zenon DEF Emit
    <3> QED
      BY <3>2, <3>3
  <2>3. \/ UNCHANGED <<frames, sent>>
        \/ frames' = Append(frames, frame) /\ sent' = Append(sent, frame)
    BY <2>2, Zenon DEF Publish, Reaches, stream
  <2>4. CASE UNCHANGED <<frames, sent>>
    <3>1. broadcasting' \/ slot' = "none"
      BY <2>1, Zenon DEF HubRight
    <3> QED
      BY <1>1, <2>1, <2>4, <3>1
  <2>5. CASE frames' = Append(frames, frame) /\ sent' = Append(sent, frame)
    <3>1. ASSUME NEW k, NEW s \in Seq(Frames), Follows(k, s \o frames)
          PROVE  Follows(k, s \o frames)'
      <4>1. PICK p \in Seq(Frames) : Len(p) = k /\ sent = p \o (s \o frames)
        BY <3>1 DEF Follows
      <4>2. sent' = p \o Append(s \o frames, frame)
        <5>1. s \o frames \in Seq(Frames)
          BY <1>0, FrameFacts
        <5>2. Append(p \o (s \o frames), frame) = p \o Append(s \o frames, frame)
          BY <4>1, <5>1, FrameLast, Zenon
        <5> QED
          BY <2>5, <4>1, <5>2, Zenon
      <4>3. Append(s \o frames, frame) = s \o frames'
        BY <1>0, <2>5, FrameLast, Zenon
      <4> QED
        BY <4>1, <4>2, <4>3 DEF Follows
    <3>2. frames' \in Seq(Frames)
      BY <1>0, <2>5, AppendProperties
    <3>3. PICK k \in Nat : Follows(k, frames)
      BY DEF HubRight
    <3>4. Follows(k, <<>> \o frames)'
      BY <1>0, <3>1, <3>3, FrameFacts
    <3>5. Follows(k, frames)'
      BY <3>2, <3>4, FrameFacts DEF Follows
    <3>6. slot = "subscriber" => Follows(since, (got \o queue) \o frames)'
      <4> SUFFICES ASSUME slot = "subscriber"
                   PROVE  Follows(since, (got \o queue) \o frames)'
        OBVIOUS
      <4>1. Follows(since, (got \o queue) \o frames) /\ got \o queue \in Seq(Frames)
        BY <1>0, FrameFacts DEF HubRight
      <4> QED
        BY <2>1, <3>1, <4>1
    <3>7. broadcasting' \/ slot' = "none"
      BY <2>1, Zenon DEF HubRight
    <3> QED
      BY <2>1, <3>5, <3>6, <3>7 DEF HubRight
  <2> QED
    BY <2>3, <2>4, <2>5
<1>3. CASE Accept
  <2>1. /\ queue' = <<>> /\ got' = <<>> /\ UNCHANGED <<frames, sent>>
        /\ broadcasting' \/ slot' = "none"
        /\ slot' = "new" \/ slot' = "none"
    BY <1>3, Zenon DEF Accept, stream, HubRight
  <2> QED
    BY <2>1 DEF HubRight, Follows
<1>4. PICK k \in Nat : Follows(k, frames)
  BY DEF HubRight
<1>5. k = Len(sent) - Len(frames)
  <2>1. PICK p \in Seq(Frames) : Len(p) = k /\ sent = p \o frames
    BY <1>4 DEF Follows
  <2>2. Len(sent) = k + Len(frames) /\ Len(frames) \in Nat
    BY <1>0, <2>1, FrameFacts
  <2> QED
    BY <2>2
<1>6. CASE AddSubscriber
  <2>1. /\ slot = "new" /\ slot' = "subscriber" /\ since' = k
        /\ UNCHANGED <<frames, sent, queue, got>>
    BY <1>5, <1>6 DEF AddSubscriber, stream
  <2>2. broadcasting'
    BY <1>6, Zenon DEF AddSubscriber, hub
  <2>3. (got \o queue) \o frames = frames
    BY <1>0, <2>1, FrameFacts DEF HubRight
  <2> QED
    BY <1>4, <2>1, <2>2, <2>3 DEF HubRight, Follows
<1>7. CASE FanOut
  <2>1. frames # <<>> /\ frames' = Tail(frames) /\ UNCHANGED <<sent, got>>
    BY <1>7 DEF FanOut
  <2>2. broadcasting'
    BY <1>7, Zenon DEF FanOut, hub
  <2>3. Follows(k + 1, frames)'
    <3>1. PICK p \in Seq(Frames) : Len(p) = k /\ sent = p \o frames
      BY <1>4 DEF Follows
    <3> DEFINE q == Append(p, Head(frames))
    <3>2. q \in Seq(Frames) /\ sent = q \o Tail(frames)
      BY <1>0, <2>1, <3>1, FrameFacts
    <3>3. Len(q) = k + 1
      BY <1>0, <2>1, <3>1, HeadTailProperties, AppendProperties
    <3> QED
      BY <2>1, <3>2, <3>3 DEF Follows
  <2>4. /\ slot = "none" => slot' = "none"
        /\ slot # "none" => \/ slot' = "none"
                            \/ slot' = "subscriber" /\ queue' = Append(queue, Head(frames))
        /\ slot # "new" => since' = since
        /\ slot = "new" => since' = k
    BY <1>5, <1>7 DEF FanOut
  <2>5. ASSUME slot' = "subscriber"
        PROVE  Follows(since, (got \o queue) \o frames)'
    <3>1. slot # "none" /\ queue' = Append(queue, Head(frames))
      BY <2>4, <2>5
    <3>2. Follows(since', (got \o queue) \o frames)
      <4>1. CASE slot = "new"
        <5>1. (got \o queue) \o frames = frames
          BY <1>0, <4>1, FrameFacts DEF HubRight
        <5> QED
          BY <1>4, <2>4, <4>1, <5>1
      <4>2. CASE slot = "subscriber"
        BY <2>4, <4>2 DEF HubRight
      <4> QED
        BY <3>1, <4>1, <4>2 DEF AudioTypeOK, DisplayOK
    <3>3. (got' \o queue') \o frames' = (got \o queue) \o frames
      <4>1. got' \o queue' = Append(got \o queue, Head(frames))
        <5>1. Head(frames) \in Frames
          BY <1>0, <2>1, HeadTailProperties
        <5> QED
          BY <1>0, <2>1, <3>1, <5>1, FrameLast, Zenon
      <4>2. got \o queue \in Seq(Frames)
        BY <1>0, FrameFacts
      <4>3. Append(got \o queue, Head(frames)) \o Tail(frames) = (got \o queue) \o frames
        BY <1>0, <2>1, <4>2, Shift
      <4> QED
        BY <2>1, <4>1, <4>3
    <3> QED
      BY <2>1, <3>2, <3>3 DEF Follows
  <2>6. slot' # "new" /\ k + 1 \in Nat
    BY <2>4 DEF AudioTypeOK, DisplayOK
  <2> QED
    BY <2>2, <2>3, <2>5, <2>6 DEF HubRight
<1>8. CASE Read
  <2>1. /\ queue # <<>> /\ got' = Append(got, Head(queue)) /\ queue' = Tail(queue)
        /\ UNCHANGED <<frames, sent, slot, since>>
    BY <1>8 DEF Read, stream
  <2>2. broadcasting' \/ slot' = "none"
    BY <1>8, Zenon DEF Read, hub, HubRight
  <2>3. got' \o queue' = got \o queue
    BY <1>0, <2>1, FrameFacts
  <2> QED
    BY <2>1, <2>2, <2>3 DEF HubRight, Follows
<1>9. CASE BroadcastDies \/ BroadcastEnds \/ WatchdogWakes
  BY <1>9, HubEmptied DEF BroadcastDies, BroadcastEnds, WatchdogWakes
<1>10. CASE AcceptDies \/ BindFails \/ Rebind \/ Connect \/ Eof
  <2>1. UNCHANGED <<frames, sent, queue, got, since, slot>>
    BY <1>10 DEF AcceptDies, BindFails, Rebind, Connect, Eof, stream, display
  <2>2. broadcasting' \/ slot' = "none"
    BY <1>10, Zenon
    DEF AcceptDies, BindFails, Rebind, Connect, Eof, stream, display, hub, HubRight
  <2> QED
    BY <1>1, <2>1, <2>2
<1>11. CASE Capture \/ UNCHANGED vars
  <2>1. UNCHANGED <<hub, stream, display>>
    BY <1>11
    DEF Capture, Play, BuildFails, HandleGetSamples, HandleStop, ChannelClosed, Callback,
        GetSamples, Stop, Drop, StopEmitter, CallReturns, CallFails, vars
  <2>2. broadcasting' \/ slot' = "none"
    BY <2>1, Zenon DEF hub, display, HubRight
  <2> QED
    BY <1>1, <2>1, <2>2 DEF stream, display
<1> QED
  BY <1>2, <1>3, <1>6, <1>7, <1>8, <1>9, <1>10, <1>11 DEF Next, Hub

(* A display that has been taken in reads every frame that found room in   *)
(* the hub since, in order, until it is disconnected: however the tasks of *)
(* the hub interleave, die and are started again (levels.rs, ipc.rs).      *)
THEOREM NothingMissed == Spec => []SubscriberMissesNothing
<1>1. AudioTypeOK /\ HubRight /\ [Next]_vars => HubRight'
  BY HubRightNext
<1> QED
  BY <1>1, HubRightInit, AudioTypeCorrect, HubRightImplies, PTL DEF Spec

-----------------------------------------------------------------------------
(* Numbers: induction, as a fact about sets of them, and the greatest.     *)

Less == {p \in Nat \X Nat : p[1] < p[2]}

LEMMA LessIsWellFounded == IsWellFoundedOn(Less, Nat)
BY NatLessThanWellFounded DEF OpToRel, Less

LEMMA LeastOf ==
  ASSUME NEW S, S \subseteq Nat, S # {}
  PROVE  \E n \in S : \A m \in S : n <= m
<1>1. PICK n \in S : \A m \in S : ~ (<<m, n>> \in Less)
  BY LessIsWellFounded, WFMin
<1>2. \A m \in S : <<m, n>> \in Nat \X Nat /\ <<m, n>>[1] = m /\ <<m, n>>[2] = n
  OBVIOUS
<1>3. \A m \in S : ~(m < n)
  BY <1>1, <1>2 DEF Less
<1> QED
  BY <1>3

LEMMA Induction ==
  ASSUME NEW S, S \subseteq Nat, 0 \in S, \A n \in S : n + 1 \in S
  PROVE  S = Nat
<1> SUFFICES ASSUME Nat \ S # {} PROVE FALSE
  OBVIOUS
<1>1. PICK n \in Nat \ S : \A m \in Nat \ S : n <= m
  BY LeastOf
<1>2. n # 0 /\ n - 1 \in Nat /\ n - 1 < n /\ n - 1 + 1 = n
  BY <1>1
<1>3. n - 1 \in S
  BY <1>1, <1>2
<1>4. n - 1 + 1 \in S
  BY <1>3
<1> QED
  BY <1>1, <1>2, <1>4

LEMMA MaxIs ==
  ASSUME NEW S, S \subseteq Nat, S # {}, NEW bound \in Nat, \A n \in S : n <= bound
  PROVE  Max(S) \in S /\ \A n \in S : n <= Max(S)
<1> DEFINE T == {m \in Nat : bound - m \in S}
<1>1. T # {}
  <2>1. PICK n \in S : n \in Nat /\ n <= bound
    OBVIOUS
  <2>2. bound - n \in Nat /\ bound - (bound - n) = n
    BY <2>1
  <2>3. bound - n \in T
    BY <2>1, <2>2
  <2> QED
    BY <2>3
<1>2. PICK m \in T : \A k \in T : m <= k
  BY <1>1, LeastOf
<1>3. m \in Nat /\ bound - m \in S
  BY <1>2
<1>4. ASSUME NEW n \in S PROVE n <= bound - m
  <2>1. n \in Nat /\ n <= bound
    OBVIOUS
  <2>2. bound - n \in Nat /\ bound - (bound - n) = n
    BY <2>1
  <2>3. bound - n \in T
    BY <2>1, <2>2
  <2>4. m <= bound - n
    BY <1>2, <2>3
  <2> QED
    BY <1>3, <2>1, <2>4
<1> DEFINE greatest == bound - m
<1>5. greatest \in S /\ \A n \in S : greatest >= n
  BY <1>3, <1>4
<1> HIDE DEF greatest
<1>6. \E x \in S : \A y \in S : x >= y
  BY <1>5
<1>7. Max(S) \in S /\ \A y \in S : Max(S) >= y
  BY <1>6 DEF Max
<1> QED
  BY <1>7

-----------------------------------------------------------------------------
(* Arranged: each of the places once, in the order of their keys.          *)

Keyed(places, key) ==
  /\ IsFiniteSet(places)
  /\ \A i \in places : key[i] \in Nat
  /\ \A i, j \in places : key[i] = key[j] => i = j

Rank(places, key, i) == Cardinality(Before(places, key, i))

LEMMA RankGrows ==
  ASSUME NEW places, NEW key, Keyed(places, key)
  PROVE  /\ \A i \in places : Rank(places, key, i) \in 0 .. Cardinality(places) - 1
         /\ \A i, j \in places : key[i] < key[j] => Rank(places, key, i) < Rank(places, key, j)
<1>0. Cardinality(places) \in Nat
  BY FS_CardinalityType DEF Keyed
<1>1. ASSUME NEW i \in places
      PROVE  /\ IsFiniteSet(Before(places, key, i)) /\ Rank(places, key, i) \in Nat
             /\ i \notin Before(places, key, i)
             /\ Rank(places, key, i) \in 0 .. Cardinality(places) - 1
  <2> DEFINE B == Before(places, key, i)
  <2>1. B \subseteq places \ {i} /\ i \notin B
    BY DEF Before, Keyed
  <2>2. IsFiniteSet(places \ {i}) /\ Cardinality(places \ {i}) = Cardinality(places) - 1
    BY FS_RemoveElement DEF Keyed
  <2>3. IsFiniteSet(B) /\ Cardinality(B) <= Cardinality(places) - 1
    BY <2>1, <2>2, FS_Subset
  <2>4. Cardinality(B) \in Nat
    BY <2>3, FS_CardinalityType
  <2> QED
    BY <1>0, <2>1, <2>3, <2>4 DEF Rank
<1>2. ASSUME NEW i \in places, NEW j \in places, key[i] < key[j]
      PROVE  Rank(places, key, i) < Rank(places, key, j)
  <2> DEFINE B == Before(places, key, i)
             C == Before(places, key, j)
  <2>1. B \cup {i} \subseteq C
    BY <1>2 DEF Before, Keyed
  <2>2. IsFiniteSet(B) /\ i \notin B /\ IsFiniteSet(C) /\ Cardinality(B) \in Nat
        /\ Cardinality(C) \in Nat
    BY <1>1 DEF Rank
  <2>3. Cardinality(B \cup {i}) = Cardinality(B) + 1
    BY <2>2, FS_AddElement
  <2>4. Cardinality(B \cup {i}) <= Cardinality(C)
    BY <2>1, <2>2, FS_Subset
  <2> QED
    BY <2>2, <2>3, <2>4 DEF Rank
<1> QED
  BY <1>1, <1>2

LEMMA EveryRank ==
  ASSUME NEW places, NEW key, Keyed(places, key)
  PROVE  \A n \in 0 .. Cardinality(places) - 1 : \E i \in places : Rank(places, key, i) = n
<1> DEFINE N == Cardinality(places)
           rank == [i \in places |-> Rank(places, key, i)]
<1>1. N \in Nat
  BY FS_CardinalityType DEF Keyed
<1>2. IsFiniteSet(0 .. N - 1) /\ Cardinality(0 .. N - 1) = N
  BY <1>1, FS_Interval
<1>3. \A i, j \in places : rank[i] = rank[j] => i = j
  <2> SUFFICES ASSUME NEW i \in places, NEW j \in places,
                      Rank(places, key, i) = Rank(places, key, j), i # j
               PROVE  FALSE
    OBVIOUS
  <2>1. key[i] \in Nat /\ key[j] \in Nat /\ key[i] # key[j]
    BY DEF Keyed
  <2>2. key[i] < key[j] \/ key[j] < key[i]
    BY <2>1
  <2>3. Rank(places, key, i) \in Nat
    BY RankGrows
  <2>4. Rank(places, key, i) < Rank(places, key, j) \/ Rank(places, key, j) < Rank(places, key, i)
    BY <2>2, RankGrows
  <2> QED
    BY <2>3, <2>4
<1>4. rank \in [places -> 0 .. N - 1]
  BY RankGrows
<1>5. rank \in Injection(places, 0 .. N - 1)
  BY <1>3, <1>4 DEF Injection, IsInjective
<1>6. rank \in Surjection(places, 0 .. N - 1)
  <2> HIDE DEF rank, N
  <2> QED
    BY <1>2, <1>5, FS_Injection DEF N
<1> QED
  BY <1>6 DEF Surjection

(* Arranged lists the elements at the places, each once, in the order of   *)
(* their keys: the nth is the one at the nth place.                        *)
Place(places, key, n) == CHOOSE i \in places : Cardinality(Before(places, key, i)) = n - 1

LEMMA ArrangedIs ==
  ASSUME NEW s, NEW places, NEW key, Keyed(places, key), NEW N, N = Cardinality(places)
  PROVE  /\ N \in Nat
         /\ Arranged(s, places, key) = [n \in 1 .. N |-> Arranged(s, places, key)[n]]
         /\ \A n \in 1 .. N : /\ Place(places, key, n) \in places
                              /\ Arranged(s, places, key)[n] = s[Place(places, key, n)]
         /\ \A m, n \in 1 .. N :
              m < n => key[Place(places, key, m)] < key[Place(places, key, n)]
         /\ \A i \in places : \E n \in 1 .. N : Place(places, key, n) = i
<1> DEFINE at(n) == Place(places, key, n)
<1>1. N \in Nat
  BY FS_CardinalityType DEF Keyed
<1>2. ASSUME NEW n \in 1 .. N
      PROVE  at(n) \in places /\ Rank(places, key, at(n)) = n - 1
  <2>1. n - 1 \in 0 .. N - 1
    BY <1>1
  <2>2. \E i \in places : Cardinality(Before(places, key, i)) = n - 1
    BY <2>1, EveryRank DEF Rank
  <2> QED
    BY <2>2 DEF Rank, Place
<1>3. /\ Arranged(s, places, key) = [n \in 1 .. N |-> Arranged(s, places, key)[n]]
      /\ \A n \in 1 .. N : Arranged(s, places, key)[n] = s[at(n)]
  BY DEF Arranged, Place
<1>4. \A n \in 1 .. N : at(n) \in places
  BY <1>2
<1> HIDE DEF at
<1>5. ASSUME NEW m \in 1 .. N, NEW n \in 1 .. N, m < n
      PROVE  key[at(m)] < key[at(n)]
  <2> DEFINE i == at(m)
             j == at(n)
  <2>1. i \in places /\ j \in places /\ Rank(places, key, i) = m - 1 /\ Rank(places, key, j) = n - 1
    BY <1>2
  <2> HIDE DEF i, j
  <2>2. key[i] \in Nat /\ key[j] \in Nat
    BY <2>1 DEF Keyed
  <2>3. key[j] < key[i] => Rank(places, key, j) < Rank(places, key, i)
    BY <2>1, RankGrows
  <2>4. key[i] # key[j]
    BY <1>1, <1>5, <2>1 DEF Keyed
  <2> QED
    BY <1>1, <1>5, <2>1, <2>2, <2>3, <2>4 DEF i, j
<1>6. ASSUME NEW i \in places PROVE \E n \in 1 .. N : at(n) = i
  <2> DEFINE n == Rank(places, key, i) + 1
  <2>1. Rank(places, key, i) \in 0 .. N - 1
    BY RankGrows
  <2>2. n \in 1 .. N /\ n - 1 = Rank(places, key, i)
    BY <1>1, <2>1
  <2>3. at(n) \in places /\ Rank(places, key, at(n)) = Rank(places, key, i)
    BY <1>2, <2>2
  <2> HIDE DEF n
  <2>4. key[i] \in Nat /\ key[at(n)] \in Nat
    BY <2>3 DEF Keyed
  <2>5. ~(key[i] < key[at(n)]) /\ ~(key[at(n)] < key[i])
    BY <2>1, <2>3, RankGrows
  <2>6. at(n) = i
    BY <2>3, <2>4, <2>5 DEF Keyed
  <2> QED
    BY <2>2, <2>6
<1> QED
  BY <1>1, <1>3, <1>4, <1>5, <1>6 DEF at

-----------------------------------------------------------------------------
(* Where the chunks lie.                                                   *)

Sound(g) == g \in Geometries /\ g.overlap < g.chunk

LEMMA Times ==
  ASSUME NEW a \in Nat, NEW b \in Nat, NEW s \in Nat
  PROVE  a * s \in Nat /\ (a + 1) * s = a * s + s /\ (a <= b => a * s <= b * s)
<1>1. a * s \in Nat /\ (a + 1) * s = a * s + s
  OBVIOUS
<1>2. ASSUME a <= b PROVE a * s <= b * s
  <2> DEFINE d == b - a
  <2>1. d \in Nat /\ b = a + d
    BY <1>2
  <2> HIDE DEF d
  <2>2. (a + d) * s = a * s + d * s /\ d * s >= 0 /\ d * s \in Nat
    BY <2>1
  <2> QED
    BY <1>1, <2>1, <2>2
<1> QED
  BY <1>1, <1>2

LEMMA StrideIs ==
  ASSUME NEW g, Sound(g)
  PROVE  /\ g.chunk \in Nat /\ g.overlap \in Nat /\ g.min_tail \in Nat
         /\ StrideSamples(g) \in Nat /\ 0 < StrideSamples(g)
         /\ StrideSamples(g) + g.overlap = g.chunk
BY DEF Sound, Geometries, StrideSamples, Monus

(* The chunks that count_complete_chunks counts are those that             *)
(* extract_chunk can take from the audio: each lies within it, and no      *)
(* other does (src/src/eager.rs).                                          *)
THEOREM CompleteChunksFit ==
  ASSUME NEW g \in Geometries, g.overlap < g.chunk, NEW len \in Nat, NEW k \in Nat
  PROVE  k < CountCompleteChunks(g, len) <=> CanExtract(g, len, k)
<1> DEFINE s == StrideSamples(g)
           c == g.chunk
<1>1. s \in Nat /\ 0 < s /\ c \in Nat
  BY StrideIs DEF Sound
<1>2. CanExtract(g, len, k) <=> k * s + c <= len
  BY DEF CanExtract, ChunkEnd, ChunkStart
<1>3. CountCompleteChunks(g, len) = IF len < c THEN 0 ELSE 1 + (Monus(len, c) \div s)
  BY DEF CountCompleteChunks
<1> HIDE DEF s, c
<1>4. k * s \in Nat
  BY <1>1, Times
<1>5. CASE len < c
  BY <1>1, <1>2, <1>3, <1>4, <1>5
<1>6. CASE len >= c
  <2> DEFINE rest == len - c
             q == rest \div s
  <2>1. rest \in Nat /\ Monus(len, c) = rest
    BY <1>1, <1>6 DEF Monus
  <2> HIDE DEF rest
  <2>2. q \in Nat /\ q * s <= rest /\ rest < q * s + s
    BY <1>1, <2>1
  <2> HIDE DEF q
  <2>3. CountCompleteChunks(g, len) = 1 + q
    BY <1>1, <1>3, <1>6, <2>1 DEF q
  <2>4. CanExtract(g, len, k) <=> k * s <= rest
    BY <1>1, <1>2, <1>4, <1>6 DEF rest
  <2>5. (q + 1) * s = q * s + s /\ q * s \in Nat /\ q + 1 \in Nat
    BY <1>1, <2>2, Times
  <2>6. k <= q => k * s <= q * s
    BY <1>1, <2>2, Times
  <2>7. q + 1 <= k => (q + 1) * s <= k * s
    BY <1>1, <2>5, Times
  <2> QED
    BY <1>1, <1>4, <2>1, <2>2, <2>3, <2>4, <2>5, <2>6, <2>7
<1> QED
  BY <1>1, <1>5, <1>6

LEMMA SliceIs ==
  ASSUME NEW audio \in Text, NEW start \in Nat, NEW end \in Nat,
         start <= end, end <= Len(audio)
  PROVE  /\ Slice(audio, start, end) \in Text
         /\ Len(Slice(audio, start, end)) = end - start
         /\ \A i \in 1 .. end - start : Slice(audio, start, end)[i] = audio[start + i]
<1>0. Len(audio) \in Nat
  BY LenProperties DEF Text
<1>1. \A i \in start + 1 .. end : audio[i] \in Words
  BY <1>0, ElementOfSeq DEF Text
<1> DEFINE part == SubSeq(audio, start + 1, end)
<1>2. /\ part \in Seq(Words)
      /\ Len(part) = IF start + 1 <= end THEN end - (start + 1) + 1 ELSE 0
      /\ \A i \in 1 .. end - (start + 1) + 1 : part[i] = audio[start + 1 + i - 1]
  BY <1>1, SubSeqProperties
<1> HIDE DEF part
<1>3. Len(part) = end - start
  BY <1>2
<1>4. ASSUME NEW i \in 1 .. end - start
      PROVE  part[i] = audio[start + i]
  <2>1. i \in 1 .. end - (start + 1) + 1 /\ start + 1 + i - 1 = start + i
    OBVIOUS
  <2> QED
    BY <1>2, <2>1
<1> QED
  BY <1>2, <1>3, <1>4 DEF part, Slice, Text

LEMMA ConfigIsSound ==
  ASSUME EagerTypeOK
  PROVE  /\ Sound(config)
         /\ \A k \in Nat : /\ ChunkStart(config, k) \in Nat /\ ChunkEnd(config, k) \in Nat
                           /\ ChunkEnd(config, k) = ChunkStart(config, k) + config.chunk
                           /\ TailStart(config, k) = ChunkStart(config, k)
<1>1. Sound(config)
  BY EagerAssumption DEF Sound, EagerTypeOK
<1>2. ASSUME NEW k \in Nat
      PROVE  ChunkStart(config, k) \in Nat
  BY <1>1, StrideIs, Times DEF ChunkStart
<1> QED
  BY <1>1, <1>2, StrideIs DEF ChunkEnd, TailStart, ChunkStart

LEMMA ExtractIs ==
  ASSUME EagerTypeOK, NEW audio \in Text, NEW k \in Nat, CanExtract(config, Len(audio), k)
  PROVE  /\ ExtractChunk(audio, k) \in Text
         /\ Len(ExtractChunk(audio, k)) = config.chunk
         /\ \A i \in 1 .. config.chunk :
              ExtractChunk(audio, k)[i] = audio[ChunkStart(config, k) + i]
<1> DEFINE a == ChunkStart(config, k)
           b == ChunkEnd(config, k)
<1>1. /\ a \in Nat /\ b \in Nat /\ b = a + config.chunk /\ config.chunk \in Nat
      /\ b <= Len(audio)
  BY ConfigIsSound, StrideIs DEF CanExtract
<1>2. ExtractChunk(audio, k) = Slice(audio, a, b)
  BY DEF ExtractChunk
<1> HIDE DEF a, b
<1>3. a <= b /\ b - a = config.chunk
  BY <1>1
<1>4. /\ Slice(audio, a, b) \in Text
      /\ Len(Slice(audio, a, b)) = b - a
      /\ \A i \in 1 .. b - a : Slice(audio, a, b)[i] = audio[a + i]
  BY <1>1, <1>3, SliceIs
<1> QED
  BY <1>2, <1>3, <1>4 DEF a

(* What was cut from the audio stays what it was when more is heard.       *)
LEMMA ExtractStays ==
  ASSUME EagerTypeOK, NEW s \in Text, NEW t \in Text, NEW k \in Nat,
         CanExtract(config, Len(s), k)
  PROVE  /\ CanExtract(config, Len(s \o t), k)
         /\ ExtractChunk(s \o t, k) = ExtractChunk(s, k)
<1> DEFINE a == ChunkStart(config, k)
           c == config.chunk
           m == Len(s)
           u == s \o t
<1>1. a \in Nat /\ c \in Nat /\ a + c <= m /\ m \in Nat /\ Len(t) \in Nat
  BY ConfigIsSound, StrideIs, LenProperties DEF CanExtract, Text
<1>2. /\ u \in Text /\ Len(u) = m + Len(t)
      /\ \A i \in 1 .. m + Len(t) : u[i] = IF i <= m THEN s[i] ELSE t[i - m]
  BY ConcatProperties DEF Text
<1>3. CanExtract(config, Len(u), k)
  <2>1. ChunkEnd(config, k) \in Nat /\ ChunkEnd(config, k) <= m
    BY ConfigIsSound DEF CanExtract
  <2> QED
    BY <1>1, <1>2, <2>1 DEF CanExtract
<1> DEFINE x == ExtractChunk(u, k)
           y == ExtractChunk(s, k)
<1>4. /\ x \in Text /\ Len(x) = c /\ \A i \in 1 .. c : x[i] = u[a + i]
      /\ y \in Text /\ Len(y) = c /\ \A i \in 1 .. c : y[i] = s[a + i]
  BY <1>2, <1>3, ExtractIs
<1> HIDE DEF a, c, m, u, x, y
<1>5. ASSUME NEW i \in 1 .. c PROVE x[i] = y[i]
  <2>1. a + i \in 1 .. m + Len(t) /\ a + i <= m
    BY <1>1
  <2>2. u[a + i] = s[a + i]
    BY <1>2, <2>1
  <2> QED
    BY <1>4, <2>2
<1>6. x = y
  BY <1>4, <1>5, SeqEqual DEF Text
<1> QED
  BY <1>3, <1>6 DEF x, y, u

-----------------------------------------------------------------------------
(* The tasks: those that are finished and those that remain.               *)

LEMMA IndicesConcat ==
  ASSUME NEW S, NEW s \in Seq(S), NEW t \in Seq(S)
  PROVE  IndicesOf(s \o t) = IndicesOf(s) \cup IndicesOf(t)
<1> DEFINE m == Len(s)
           n == Len(t)
           u == s \o t
<1>1. /\ m \in Nat /\ n \in Nat /\ DOMAIN s = 1 .. m /\ DOMAIN t = 1 .. n
      /\ u \in Seq(S) /\ Len(u) = m + n
      /\ \A i \in 1 .. m + n : u[i] = IF i <= m THEN s[i] ELSE t[i - m]
  BY ConcatProperties, LenProperties
<1>2. DOMAIN u = 1 .. m + n
  BY <1>1, LenProperties
<1> HIDE DEF m, n, u
<1>3. /\ \A i \in 1 .. m : i \in 1 .. m + n /\ i <= m
      /\ \A i \in 1 .. n : m + i \in 1 .. m + n /\ ~(m + i <= m) /\ m + i - m = i
      /\ \A i \in 1 .. m + n : i \in 1 .. m \/ (~(i <= m) /\ i - m \in 1 .. n)
  BY <1>1
<1>4. ASSUME NEW i \in 1 .. n
      PROVE  \E x \in 1 .. m + n : u[x] = t[i]
  <2> DEFINE x == m + i
  <2>1. x \in 1 .. m + n /\ ~(x <= m) /\ x - m = i
    BY <1>1
  <2> HIDE DEF x
  <2>2. u[x] = t[x - m]
    BY <1>1, <2>1
  <2> QED
    BY <2>1, <2>2
<1>5. \A i \in 1 .. m : i \in 1 .. m + n /\ u[i] = s[i]
  BY <1>1, <1>3
<1>6. \A i \in 1 .. m + n : (i \in 1 .. m /\ u[i] = s[i]) \/ (i - m \in 1 .. n /\ u[i] = t[i - m])
  BY <1>1, <1>3
<1>7. IndicesOf(u) \subseteq IndicesOf(s) \cup IndicesOf(t)
  BY <1>1, <1>2, <1>6, Zenon DEF IndicesOf
<1>8. IndicesOf(s) \cup IndicesOf(t) \subseteq IndicesOf(u)
  <2>1. \A i \in DOMAIN s : s[i].chunk_index \in IndicesOf(u)
    BY <1>1, <1>2, <1>5 DEF IndicesOf
  <2>2. \A i \in DOMAIN t : t[i].chunk_index \in IndicesOf(u)
    BY <1>1, <1>2, <1>4 DEF IndicesOf
  <2> QED
    BY <2>1, <2>2 DEF IndicesOf
<1> QED
  BY <1>7, <1>8 DEF u

LEMMA TasksAtIs ==
  ASSUME NEW S, NEW tasks \in Seq(S), NEW places \in SUBSET DOMAIN tasks
  PROVE  /\ TasksAt(tasks, places) \in Seq(S)
         /\ Len(TasksAt(tasks, places)) = Cardinality(places)
         /\ Cardinality(places) \in Nat
         /\ \A n \in DOMAIN TasksAt(tasks, places) :
              \E i \in places : TasksAt(tasks, places)[n] = tasks[i]
         /\ \A i \in places :
              \E n \in DOMAIN TasksAt(tasks, places) : TasksAt(tasks, places)[n] = tasks[i]
<1> DEFINE key == [i \in places |-> i]
           N == Cardinality(places)
           arranged == TasksAt(tasks, places)
<1>1. DOMAIN tasks = 1 .. Len(tasks) /\ Len(tasks) \in Nat
      /\ \A i \in DOMAIN tasks : tasks[i] \in S
  BY LenProperties, ElementOfSeq
<1>2. Keyed(places, key)
  <2>1. IsFiniteSet(1 .. Len(tasks))
    BY <1>1, FS_Interval
  <2>2. IsFiniteSet(places)
    BY <1>1, <2>1, FS_Subset
  <2> QED
    BY <1>1, <2>2 DEF Keyed
<1>3. arranged = Arranged(tasks, places, key)
  BY DEF TasksAt
<1> HIDE DEF key
<1> DEFINE at == [n \in 1 .. N |-> Place(places, key, n)]
<1>4. N \in Nat /\ arranged = [n \in 1 .. N |-> arranged[n]]
  BY <1>2, <1>3, ArrangedIs
<1>5. \A n \in 1 .. N : at[n] \in places /\ arranged[n] = tasks[at[n]]
  BY <1>2, <1>3, ArrangedIs
<1>6. \A i \in places : \E n \in 1 .. N : at[n] = i
  BY <1>2, <1>3, ArrangedIs
<1> HIDE DEF arranged, N, at
<1>7. \A n \in 1 .. N : tasks[at[n]] \in S
  BY <1>1, <1>5
<1>8. arranged \in Seq(S) /\ Len(arranged) = N /\ DOMAIN arranged = 1 .. N
  BY <1>4, <1>5, <1>7
<1>9. \A n \in DOMAIN arranged : \E i \in places : arranged[n] = tasks[i]
  BY <1>5, <1>8
<1>10. ASSUME NEW i \in places
       PROVE  \E n \in DOMAIN arranged : arranged[n] = tasks[i]
  <2>1. PICK n \in 1 .. N : at[n] = i
    BY <1>6
  <2> QED
    BY <1>5, <1>8, <2>1
<1> QED
  BY <1>4, <1>8, <1>9, <1>10 DEF arranged, N

LEMMA FinishedAndRemaining ==
  ASSUME NEW tasks \in Seq(Tasks)
  PROVE  /\ FinishedTasks(tasks) \in Seq(Tasks) /\ RemainingTasks(tasks) \in Seq(Tasks)
         /\ Len(FinishedTasks(tasks)) + Len(RemainingTasks(tasks)) = Len(tasks)
         /\ IndicesOf(FinishedTasks(tasks)) \cup IndicesOf(RemainingTasks(tasks))
              = IndicesOf(tasks)
         /\ \A n \in DOMAIN FinishedTasks(tasks) :
              \E i \in DOMAIN tasks : FinishedTasks(tasks)[n] = tasks[i]
         /\ \A n \in DOMAIN RemainingTasks(tasks) :
              \E i \in DOMAIN tasks : RemainingTasks(tasks)[n] = tasks[i]
<1> DEFINE F == {i \in DOMAIN tasks : Finished(tasks[i])}
           R == {i \in DOMAIN tasks : ~Finished(tasks[i])}
           done == FinishedTasks(tasks)
           running == RemainingTasks(tasks)
<1>1. F \in SUBSET DOMAIN tasks /\ R \in SUBSET DOMAIN tasks
      /\ F \cup R = DOMAIN tasks /\ F \cap R = {}
  OBVIOUS
<1>2. done = TasksAt(tasks, F) /\ running = TasksAt(tasks, R)
  BY DEF FinishedTasks, RemainingTasks
<1> HIDE DEF F, R, done, running
<1>3. /\ done \in Seq(Tasks) /\ Len(done) = Cardinality(F) /\ Cardinality(F) \in Nat
      /\ \A n \in DOMAIN done : \E i \in F : done[n] = tasks[i]
      /\ \A i \in F : \E n \in DOMAIN done : done[n] = tasks[i]
  BY <1>1, <1>2, TasksAtIs
<1>4. /\ running \in Seq(Tasks) /\ Len(running) = Cardinality(R) /\ Cardinality(R) \in Nat
      /\ \A n \in DOMAIN running : \E i \in R : running[n] = tasks[i]
      /\ \A i \in R : \E n \in DOMAIN running : running[n] = tasks[i]
  BY <1>1, <1>2, TasksAtIs
<1>5. Cardinality(F) + Cardinality(R) = Len(tasks)
  <2>1. DOMAIN tasks = 1 .. Len(tasks) /\ Len(tasks) \in Nat
    BY LenProperties
  <2>2. IsFiniteSet(DOMAIN tasks) /\ Cardinality(DOMAIN tasks) = Len(tasks)
    BY <2>1, FS_Interval
  <2>3. IsFiniteSet(F) /\ IsFiniteSet(R)
    BY <1>1, <2>2, FS_Subset
  <2>4. Cardinality(F \cup R) = Cardinality(F) + Cardinality(R) - Cardinality(F \cap R)
    BY <2>3, FS_Union
  <2>5. Cardinality(F \cap R) = 0
    BY <1>1, FS_EmptySet
  <2> QED
    BY <1>1, <1>3, <1>4, <2>2, <2>4, <2>5
<1>6. IndicesOf(done) \cup IndicesOf(running) = IndicesOf(tasks)
  <2>1. IndicesOf(done) \cup IndicesOf(running) \subseteq IndicesOf(tasks)
    BY <1>1, <1>3, <1>4 DEF IndicesOf
  <2>2. ASSUME NEW i \in DOMAIN tasks
        PROVE  tasks[i].chunk_index \in IndicesOf(done) \cup IndicesOf(running)
    <3>1. CASE i \in F
      BY <1>3, <3>1 DEF IndicesOf
    <3>2. CASE i \in R
      BY <1>4, <3>2 DEF IndicesOf
    <3> QED
      BY <1>1, <3>1, <3>2
  <2> QED
    BY <2>1, <2>2 DEF IndicesOf
<1> QED
  BY <1>1, <1>3, <1>4, <1>5, <1>6 DEF done, running

LEMMA ResultsOfIs ==
  ASSUME NEW tasks \in Seq(Tasks)
  PROVE  /\ ResultsOf(tasks) \in Seq(Results)
         /\ Len(ResultsOf(tasks)) = Len(tasks)
         /\ IndicesOf(ResultsOf(tasks)) = IndicesOf(tasks)
         /\ \A i \in DOMAIN ResultsOf(tasks) :
              /\ i \in DOMAIN tasks
              /\ ResultsOf(tasks)[i].chunk_index = tasks[i].chunk_index
              /\ ResultsOf(tasks)[i].text \in {tasks[i].audio, <<>>}
<1>1. /\ DOMAIN tasks = 1 .. Len(tasks) /\ Len(tasks) \in Nat
      /\ \A i \in DOMAIN tasks : tasks[i] \in Tasks
  BY LenProperties, ElementOfSeq
<1>2. <<>> \in Text
  BY EmptySeq DEF Text
<1>3. ASSUME NEW t \in Tasks
      PROVE  /\ ResultOf(t) \in Results /\ ResultOf(t).chunk_index = t.chunk_index
             /\ ResultOf(t).text \in {t.audio, <<>>}
  <2>1. t.chunk_index \in Nat /\ t.audio \in Text
    BY DEF Tasks
  <2> QED
    BY <1>2, <2>1 DEF ResultOf, Result, Results
<1>4. /\ DOMAIN ResultsOf(tasks) = 1 .. Len(tasks)
      /\ \A i \in 1 .. Len(tasks) : ResultsOf(tasks)[i] = ResultOf(tasks[i])
      /\ ResultsOf(tasks) = [i \in 1 .. Len(tasks) |-> ResultsOf(tasks)[i]]
  BY <1>1 DEF ResultsOf
<1>5. \A i \in 1 .. Len(tasks) :
        /\ ResultsOf(tasks)[i] \in Results
        /\ ResultsOf(tasks)[i].chunk_index = tasks[i].chunk_index
        /\ ResultsOf(tasks)[i].text \in {tasks[i].audio, <<>>}
  BY <1>1, <1>3, <1>4
<1>6. ResultsOf(tasks) \in Seq(Results) /\ Len(ResultsOf(tasks)) = Len(tasks)
  BY <1>1, <1>4, <1>5
<1>7. IndicesOf(ResultsOf(tasks)) = IndicesOf(tasks)
  BY <1>1, <1>4, <1>5 DEF IndicesOf
<1> QED
  BY <1>1, <1>4, <1>5, <1>6, <1>7

-----------------------------------------------------------------------------
(* A recording until it is combined.                                       *)

(* A task has the samples of its chunk, also after more have been heard.   *)
Held(audio, tasks) ==
  \A i \in DOMAIN tasks :
    /\ CanExtract(config, Len(audio), tasks[i].chunk_index)
    /\ tasks[i].audio = ExtractChunk(audio, tasks[i].chunk_index)

TasksRight == Held(accumulated_audio, eager_chunk_tasks)

(* A result is the words of its chunk, or none.                            *)
Heard(audio, results) ==
  \A i \in DOMAIN results :
    /\ CanExtract(config, Len(audio), results[i].chunk_index)
    /\ results[i].text \in {ExtractChunk(audio, results[i].chunk_index), <<>>}

ResultsRight == phase # "done" => Heard(accumulated_audio, chunk_results)

(* What was heard is the beginning of what was spoken.                     *)
SpokenRight ==
  \E rest \in Text : /\ spoken = accumulated_audio \o rest
                     /\ phase = "recording" => rest = captured

(* Words of which none is repeated are numbered as they are spoken.        *)
Numbered == IsInjective(spoken) => \A i \in DOMAIN spoken : spoken[i] = i

LEMMA TextFacts ==
  /\ <<>> \in Text
  /\ \A s, t \in Text : s \o t \in Text /\ Len(s \o t) = Len(s) + Len(t)
  /\ \A s \in Text : Len(s) \in Nat /\ DOMAIN s = 1 .. Len(s) /\ s \o <<>> = s
                     /\ \A i \in 1 .. Len(s) : s[i] \in Words
  /\ \A s \in Text, w \in Words : Append(s, w) \in Text
BY EmptySeq, ConcatProperties, ConcatEmptySeq, LenProperties, ElementOfSeq, AppendProperties
DEF Text

LEMMA TextLast ==
  \A s, t \in Text, w \in Words : Append(s \o t, w) = s \o Append(t, w)
<1> SUFFICES ASSUME NEW s \in Text, NEW t \in Text, NEW w \in Words
             PROVE  Append(s \o t, w) = s \o Append(t, w)
  OBVIOUS
<1> DEFINE last == <<w>>
<1>1. last \in Seq(Words) /\ s \o t \in Seq(Words) /\ s \in Seq(Words) /\ t \in Seq(Words)
  BY ConcatProperties DEF Text
<1>2. Append(s \o t, w) = (s \o t) \o last /\ Append(t, w) = t \o last
  BY <1>1, AppendIsConcat
<1> HIDE DEF last
<1>3. (s \o t) \o last = s \o (t \o last)
  BY <1>1, ConcatAssociative
<1> QED
  BY <1>2, <1>3

Spawned(audio) ==
  [i \in 1 .. Monus(CountCompleteChunks(config, Len(audio)), chunks_sent) |->
     Task(chunks_sent + i - 1, ExtractChunk(audio, chunks_sent + i - 1))]

LEMMA SpawnedIs ==
  ASSUME EagerTypeOK, NEW audio \in Text
  PROVE  /\ Spawned(audio) \in Seq(Tasks)
         /\ Len(Spawned(audio)) \in Nat
         /\ IndicesOf(Spawned(audio)) = chunks_sent .. chunks_sent + Len(Spawned(audio)) - 1
         /\ \A i \in DOMAIN Spawned(audio) :
              /\ CanExtract(config, Len(audio), Spawned(audio)[i].chunk_index)
              /\ Spawned(audio)[i].audio = ExtractChunk(audio, Spawned(audio)[i].chunk_index)
<1> DEFINE complete == CountCompleteChunks(config, Len(audio))
           N == Monus(complete, chunks_sent)
           tasks == Spawned(audio)
<1>1. Len(audio) \in Nat /\ chunks_sent \in Nat
  BY TextFacts DEF EagerTypeOK
<1>2. config \in Geometries /\ config.overlap < config.chunk
  BY ConfigIsSound DEF Sound
<1>3. complete \in Nat
  <2>1. /\ config.chunk \in Nat /\ StrideSamples(config) \in Nat /\ 0 < StrideSamples(config)
    BY ConfigIsSound, StrideIs
  <2> DEFINE s == StrideSamples(config)
             r == Monus(Len(audio), config.chunk)
  <2>2. r \in Nat
    BY <1>1, <2>1 DEF Monus
  <2> HIDE DEF s, r
  <2>3. r \div s \in Nat
    BY <2>1, <2>2 DEF s
  <2> QED
    BY <2>3 DEF CountCompleteChunks, s, r
<1> HIDE DEF complete
<1>4. N \in Nat /\ \A i \in 1 .. N : chunks_sent + i - 1 \in Nat /\ chunks_sent + i - 1 < complete
  BY <1>1, <1>3 DEF Monus
<1> HIDE DEF N
<1>5. ASSUME NEW k \in Nat, k < complete
      PROVE  CanExtract(config, Len(audio), k) /\ ExtractChunk(audio, k) \in Text
  <2>1. CanExtract(config, Len(audio), k)
    BY <1>1, <1>2, <1>5, CompleteChunksFit DEF complete
  <2> QED
    BY <2>1, ExtractIs
<1>6. tasks = [i \in 1 .. N |-> Task(chunks_sent + i - 1, ExtractChunk(audio, chunks_sent + i - 1))]
  BY DEF Spawned, N, complete
<1> HIDE DEF tasks
<1>7. ASSUME NEW i \in 1 .. N
      PROVE  /\ tasks[i] \in Tasks /\ tasks[i].chunk_index = chunks_sent + i - 1
             /\ CanExtract(config, Len(audio), tasks[i].chunk_index)
             /\ tasks[i].audio = ExtractChunk(audio, tasks[i].chunk_index)
  <2> DEFINE k == chunks_sent + i - 1
  <2>1. k \in Nat /\ k < complete
    BY <1>4
  <2>2. tasks[i] = Task(k, ExtractChunk(audio, k))
    BY <1>6
  <2> HIDE DEF k
  <2>3. CanExtract(config, Len(audio), k) /\ ExtractChunk(audio, k) \in Text
    BY <1>5, <2>1
  <2> QED
    BY <2>1, <2>2, <2>3 DEF Task, Tasks, k
<1>8. tasks \in Seq(Tasks) /\ Len(tasks) = N /\ DOMAIN tasks = 1 .. N
  BY <1>4, <1>6, <1>7
<1>9. IndicesOf(tasks) = chunks_sent .. chunks_sent + N - 1
  <2>1. \A i \in 1 .. N : tasks[i].chunk_index \in chunks_sent .. chunks_sent + N - 1
    BY <1>1, <1>4, <1>7
  <2>2. ASSUME NEW k \in chunks_sent .. chunks_sent + N - 1
        PROVE  \E i \in 1 .. N : tasks[i].chunk_index = k
    <3> DEFINE i == k - chunks_sent + 1
    <3>1. i \in 1 .. N /\ chunks_sent + i - 1 = k
      BY <1>1, <1>4
    <3> HIDE DEF i
    <3> QED
      BY <1>7, <3>1
  <2> QED
    BY <1>8, <2>1, <2>2 DEF IndicesOf
<1> QED
  BY <1>4, <1>7, <1>8, <1>9 DEF tasks

Unfinished == EveryChunkOnce /\ TasksRight /\ ResultsRight /\ SpokenRight /\ Numbered

LEMMA EagerInitRight == EagerInit => EagerTypeOK /\ Unfinished
<1> SUFFICES ASSUME EagerInit PROVE EagerTypeOK /\ Unfinished
  OBVIOUS
<1> USE DEF EagerInit
<1>1. <<>> \in Text /\ <<>> \in Seq(Tasks) /\ <<>> \in Seq(Results) /\ DOMAIN <<>> = {}
      /\ Len(<<>>) = 0 /\ 0 .. -1 = {}
  BY EmptySeq, TextFacts
<1>2. EagerTypeOK
  BY <1>1 DEF EagerTypeOK
<1>3. EveryChunkOnce
  <2>1. IndicesOf(<<>>) = {}
    BY <1>1 DEF IndicesOf
  <2>2. 0 .. 0 - 1 = {}
    OBVIOUS
  <2> QED
    BY <1>1, <2>1, <2>2 DEF EveryChunkOnce
<1>4. TasksRight /\ ResultsRight /\ Numbered
  BY <1>1 DEF TasksRight, Held, ResultsRight, Heard, Numbered
<1>5. SpokenRight
  BY TextFacts DEF SpokenRight
<1> QED
  BY <1>2, <1>3, <1>4, <1>5 DEF Unfinished

LEMMA SpeakStep ==
  ASSUME EagerTypeOK, Unfinished, Speak
  PROVE  EagerTypeOK' /\ Unfinished'
<1>1. PICK w \in {Cardinality(ToSet(spoken)) + 1} \cup ToSet(spoken) :
        spoken' = Append(spoken, w) /\ captured' = Append(captured, w)
  BY DEF Speak
<1>2. /\ phase = "recording" /\ Len(spoken) < MaxSpoken
      /\ UNCHANGED <<config, transcriber, accumulated_audio, chunks_sent, tasks_in_flight,
                     eager_chunk_tasks, chunk_results, phase, combined>>
  BY DEF Speak
<1>3. /\ Len(spoken) \in Nat /\ DOMAIN spoken = 1 .. Len(spoken) /\ spoken \in Text
      /\ \A i \in 1 .. Len(spoken) : spoken[i] \in Words
      /\ MaxSpoken \in Nat
  BY TextFacts, EagerAssumption DEF EagerTypeOK
<1>4. ToSet(spoken) \subseteq Words
  BY <1>3 DEF ToSet
<1>5. Cardinality(ToSet(spoken)) \in Nat /\ Cardinality(ToSet(spoken)) <= Len(spoken)
  <2>1. IsFiniteSet(1 .. Len(spoken)) /\ Cardinality(1 .. Len(spoken)) = Len(spoken)
    BY <1>3, FS_Interval
  <2> DEFINE word == [i \in 1 .. Len(spoken) |-> spoken[i]]
  <2>2. word \in Surjection(1 .. Len(spoken), ToSet(spoken))
    BY <1>3 DEF ToSet, Surjection
  <2>3. IsFiniteSet(ToSet(spoken)) /\ Cardinality(ToSet(spoken)) <= Len(spoken)
    <3> HIDE DEF word
    <3> QED
      BY <2>1, <2>2, FS_Surjection
  <2> QED
    BY <2>3, FS_CardinalityType
<1>6. w \in Words
  <2>1. CASE w \in ToSet(spoken)
    BY <1>4, <2>1
  <2>2. CASE w = Cardinality(ToSet(spoken)) + 1
    BY <1>2, <1>3, <1>5, <2>2 DEF Words
  <2> QED
    BY <1>1, <2>1, <2>2
<1>7. EagerTypeOK'
  BY <1>1, <1>2, <1>6, TextFacts DEF EagerTypeOK
<1>8. EveryChunkOnce' /\ TasksRight' /\ ResultsRight'
  BY <1>2 DEF Unfinished, EveryChunkOnce, TasksRight, Held, ResultsRight, Heard, ExtractChunk
<1>9. SpokenRight'
  <2>1. spoken = accumulated_audio \o captured
    BY <1>2 DEF Unfinished, SpokenRight
  <2>2. spoken' = accumulated_audio \o captured'
    BY <1>1, <1>6, <2>1, TextLast DEF EagerTypeOK
  <2>3. captured' \in Text
    BY <1>7 DEF EagerTypeOK
  <2> QED
    BY <1>2, <2>2, <2>3 DEF SpokenRight
<1>10. Numbered'
  <2> DEFINE n == Len(spoken)
  <2>1. /\ DOMAIN spoken' = 1 .. n + 1
        /\ \A i \in 1 .. n : i \in 1 .. n + 1 /\ spoken'[i] = spoken[i]
        /\ spoken'[n + 1] = w /\ n + 1 \in 1 .. n + 1
    <3>1. /\ Append(spoken, w) \in Seq(Words) /\ Len(Append(spoken, w)) = n + 1
          /\ \A i \in 1 .. n : Append(spoken, w)[i] = spoken[i]
          /\ Append(spoken, w)[n + 1] = w
      BY <1>3, <1>6, AppendProperties DEF Text
    <3>2. DOMAIN Append(spoken, w) = 1 .. n + 1
      BY <3>1, LenProperties
    <3> QED
      BY <1>1, <1>3, <3>1, <3>2
  <2> SUFFICES ASSUME IsInjective(spoken)'
               PROVE  \A i \in DOMAIN spoken' : spoken'[i] = i
    BY DEF Numbered
  <2> HIDE DEF n
  <2>2. \A a, b \in 1 .. n + 1 : spoken'[a] = spoken'[b] => a = b
    BY <2>1 DEF IsInjective
  <2>3. \A a, b \in 1 .. n : spoken[a] = spoken[b] => a = b
    BY <2>1, <2>2
  <2>4. \A i \in 1 .. n : spoken[i] = i
    BY <1>3, <2>3 DEF Unfinished, Numbered, IsInjective, n
  <2>5. \A i \in 1 .. n : i # n + 1
    BY <1>3 DEF n
  <2>6. \A i \in 1 .. n : spoken[i] # w
    BY <2>1, <2>2, <2>5
  <2>7. ToSet(spoken) = 1 .. n
    <3>1. DOMAIN spoken = 1 .. n
      BY <1>3 DEF n
    <3> QED
      BY <2>4, <3>1 DEF ToSet
  <2>8. Cardinality(1 .. n) = n
    BY <1>3, FS_Interval DEF n
  <2>9. w = n + 1
    BY <1>1, <2>4, <2>6, <2>7, <2>8
  <2> QED
    <3>1. \A i \in 1 .. n + 1 : i \in 1 .. n \/ i = n + 1
      BY <1>3 DEF n
    <3> QED
      BY <2>1, <2>4, <2>9, <3>1
<1> QED
  BY <1>7, <1>8, <1>9, <1>10 DEF Unfinished

(* The results of tasks that had their chunks.                             *)
LEMMA HeardMore ==
  ASSUME NEW audio, NEW results \in Seq(Results), NEW tasks \in Seq(Tasks),
         Heard(audio, results), Held(audio, tasks)
  PROVE  Heard(audio, results \o ResultsOf(tasks))
<1> DEFINE new == ResultsOf(tasks)
           all == results \o new
           m == Len(results)
           n == Len(new)
<1>1. /\ new \in Seq(Results)
      /\ \A i \in DOMAIN new : /\ i \in DOMAIN tasks
                               /\ new[i].chunk_index = tasks[i].chunk_index
                               /\ new[i].text \in {tasks[i].audio, <<>>}
  BY ResultsOfIs
<1> HIDE DEF new
<1>2. /\ m \in Nat /\ n \in Nat /\ DOMAIN results = 1 .. m /\ DOMAIN new = 1 .. n
      /\ \A i \in 1 .. m + n : all[i] = IF i <= m THEN results[i] ELSE new[i - m]
      /\ all \in Seq(Results) /\ Len(all) = m + n
  BY <1>1, ConcatProperties, LenProperties
<1>3. DOMAIN all = 1 .. m + n
  BY <1>2, LenProperties
<1> HIDE DEF m, n, all
<1>4. ASSUME NEW i \in DOMAIN new
      PROVE  /\ CanExtract(config, Len(audio), new[i].chunk_index)
             /\ new[i].text \in {ExtractChunk(audio, new[i].chunk_index), <<>>}
  BY <1>1 DEF Held
<1>5. ASSUME NEW i \in 1 .. m + n
      PROVE  (i \in DOMAIN results /\ all[i] = results[i])
               \/ (i - m \in DOMAIN new /\ all[i] = new[i - m])
  BY <1>2
<1>6. ASSUME NEW i \in DOMAIN all
      PROVE  /\ CanExtract(config, Len(audio), all[i].chunk_index)
             /\ all[i].text \in {ExtractChunk(audio, all[i].chunk_index), <<>>}
  BY <1>3, <1>4, <1>5 DEF Heard
<1> QED
  BY <1>6 DEF Heard, all, new

LEMMA HeldMore ==
  ASSUME NEW audio, NEW s \in Seq(Tasks), NEW t \in Seq(Tasks), Held(audio, s), Held(audio, t)
  PROVE  Held(audio, s \o t)
<1> DEFINE all == s \o t
           m == Len(s)
           n == Len(t)
<1>1. /\ m \in Nat /\ n \in Nat /\ DOMAIN s = 1 .. m /\ DOMAIN t = 1 .. n
      /\ \A i \in 1 .. m + n : all[i] = IF i <= m THEN s[i] ELSE t[i - m]
      /\ all \in Seq(Tasks) /\ Len(all) = m + n
  BY ConcatProperties, LenProperties
<1>2. DOMAIN all = 1 .. m + n
  BY <1>1, LenProperties
<1> HIDE DEF m, n, all
<1>3. ASSUME NEW i \in 1 .. m + n
      PROVE  (i \in DOMAIN s /\ all[i] = s[i]) \/ (i - m \in DOMAIN t /\ all[i] = t[i - m])
  BY <1>1
<1>4. ASSUME NEW i \in DOMAIN all
      PROVE  /\ CanExtract(config, Len(audio), all[i].chunk_index)
             /\ all[i].audio = ExtractChunk(audio, all[i].chunk_index)
  BY <1>2, <1>3 DEF Held
<1> QED
  BY <1>4 DEF Held, all

LEMMA StaysRight ==
  ASSUME EagerTypeOK, NEW audio \in Text, NEW more \in Text
  PROVE  /\ \A tasks \in Seq(Tasks) : Held(audio, tasks) => Held(audio \o more, tasks)
         /\ \A results \in Seq(Results) : Heard(audio, results) => Heard(audio \o more, results)
<1>1. \A k \in Nat : CanExtract(config, Len(audio), k) =>
                       /\ CanExtract(config, Len(audio \o more), k)
                       /\ ExtractChunk(audio \o more, k) = ExtractChunk(audio, k)
  BY ExtractStays
<1> DEFINE all == audio \o more
<1> HIDE DEF all
<1>2. ASSUME NEW tasks \in Seq(Tasks), Held(audio, tasks)
      PROVE  Held(all, tasks)
  <2>1. \A i \in DOMAIN tasks : tasks[i].chunk_index \in Nat
    <3>1. DOMAIN tasks = 1 .. Len(tasks)
      BY LenProperties
    <3>2. \A i \in 1 .. Len(tasks) : tasks[i] \in Tasks
      BY ElementOfSeq
    <3> QED
      BY <3>1, <3>2 DEF Tasks
  <2> QED
    BY <1>1, <1>2, <2>1 DEF Held, all
<1>3. ASSUME NEW results \in Seq(Results), Heard(audio, results)
      PROVE  Heard(all, results)
  <2>1. \A i \in DOMAIN results : results[i].chunk_index \in Nat
    <3>1. DOMAIN results = 1 .. Len(results)
      BY LenProperties
    <3>2. \A i \in 1 .. Len(results) : results[i] \in Results
      BY ElementOfSeq
    <3> QED
      BY <3>1, <3>2 DEF Results
  <2> QED
    BY <1>1, <1>3, <2>1 DEF Heard, all
<1> QED
  BY <1>2, <1>3 DEF all

LEMMA TickStep ==
  ASSUME EagerTypeOK, Unfinished, RecordingTick
  PROVE  EagerTypeOK' /\ Unfinished'
<1> DEFINE audio == accumulated_audio \o captured
           spawned == Spawned(audio)
           done == FinishedTasks(eager_chunk_tasks)
           running == RemainingTasks(eager_chunk_tasks)
<1>1. /\ phase = "recording" /\ transcriber' \in {transcriber, TRUE}
      /\ accumulated_audio' = audio /\ captured' = <<>>
      /\ chunk_results' = chunk_results \o ResultsOf(done)
      /\ UNCHANGED <<speech, phase, combined>>
  BY DEF RecordingTick
<1>2. \/ /\ chunks_sent' = chunks_sent + Len(spawned)
         /\ eager_chunk_tasks' = running \o spawned
         /\ tasks_in_flight' = Monus(tasks_in_flight + Len(spawned), Len(done))
      \/ /\ UNCHANGED chunks_sent
         /\ eager_chunk_tasks' = running
         /\ tasks_in_flight' = Monus(tasks_in_flight, Len(done))
  BY Zenon DEF RecordingTick, Spawned
<1>3. /\ audio \in Text /\ accumulated_audio \in Text /\ captured \in Text
      /\ eager_chunk_tasks \in Seq(Tasks) /\ chunk_results \in Seq(Results)
      /\ chunks_sent \in Nat /\ tasks_in_flight \in Nat
  BY TextFacts DEF EagerTypeOK
<1> HIDE DEF audio
<1>4. /\ spawned \in Seq(Tasks) /\ Len(spawned) \in Nat
      /\ IndicesOf(spawned) = chunks_sent .. chunks_sent + Len(spawned) - 1
      /\ Held(audio, spawned)
  BY <1>3, SpawnedIs DEF Held
<1>5. /\ done \in Seq(Tasks) /\ running \in Seq(Tasks)
      /\ Len(done) + Len(running) = Len(eager_chunk_tasks)
      /\ IndicesOf(done) \cup IndicesOf(running) = IndicesOf(eager_chunk_tasks)
      /\ \A n \in DOMAIN done : \E i \in DOMAIN eager_chunk_tasks : done[n] = eager_chunk_tasks[i]
      /\ \A n \in DOMAIN running :
           \E i \in DOMAIN eager_chunk_tasks : running[n] = eager_chunk_tasks[i]
  BY <1>3, FinishedAndRemaining
<1> HIDE DEF spawned, done, running
<1>6. /\ Len(done) \in Nat /\ Len(running) \in Nat /\ Len(eager_chunk_tasks) \in Nat
      /\ Len(chunk_results) \in Nat
  BY <1>3, <1>5, LenProperties
<1>7. /\ IndicesOf(eager_chunk_tasks) \cup IndicesOf(chunk_results) = 0 .. chunks_sent - 1
      /\ Len(eager_chunk_tasks) + Len(chunk_results) = chunks_sent
      /\ tasks_in_flight = Len(eager_chunk_tasks)
  BY <1>1 DEF Unfinished, EveryChunkOnce
<1>8. /\ ResultsOf(done) \in Seq(Results) /\ Len(ResultsOf(done)) = Len(done)
      /\ IndicesOf(ResultsOf(done)) = IndicesOf(done)
  BY <1>5, ResultsOfIs
<1>9. /\ chunk_results' \in Seq(Results) /\ Len(chunk_results') = Len(chunk_results) + Len(done)
      /\ IndicesOf(chunk_results') = IndicesOf(chunk_results) \cup IndicesOf(done)
  <2>1. /\ chunk_results \o ResultsOf(done) \in Seq(Results)
        /\ Len(chunk_results \o ResultsOf(done)) = Len(chunk_results) + Len(ResultsOf(done))
        /\ IndicesOf(chunk_results \o ResultsOf(done))
             = IndicesOf(chunk_results) \cup IndicesOf(ResultsOf(done))
    <3> DEFINE new == ResultsOf(done)
    <3> HIDE DEF new
    <3>1. new \in Seq(Results)
      BY <1>8 DEF new
    <3>2. /\ chunk_results \o new \in Seq(Results)
          /\ Len(chunk_results \o new) = Len(chunk_results) + Len(new)
      BY <1>3, <3>1, ConcatProperties
    <3>3. IndicesOf(chunk_results \o new) = IndicesOf(chunk_results) \cup IndicesOf(new)
      BY <1>3, <3>1, IndicesConcat
    <3> QED
      BY <3>2, <3>3 DEF new
  <2> QED
    BY <1>1, <1>8, <2>1
<1>10. Held(audio, eager_chunk_tasks) /\ Heard(audio, chunk_results)
  BY <1>1, <1>3, StaysRight DEF Unfinished, TasksRight, ResultsRight, audio
<1>11. Held(audio, done) /\ Held(audio, running)
  BY <1>5, <1>10 DEF Held
<1>12. Heard(audio, chunk_results')
  BY <1>1, <1>3, <1>5, <1>10, <1>11, HeardMore
<1>13. /\ chunks_sent' \in Nat /\ tasks_in_flight' \in Nat /\ eager_chunk_tasks' \in Seq(Tasks)
       /\ Held(audio, eager_chunk_tasks')
       /\ IndicesOf(eager_chunk_tasks') \cup IndicesOf(chunk_results') = 0 .. chunks_sent' - 1
       /\ Len(eager_chunk_tasks') + Len(chunk_results') = chunks_sent'
       /\ tasks_in_flight' = Len(eager_chunk_tasks')
  <2>1. CASE /\ chunks_sent' = chunks_sent + Len(spawned)
             /\ eager_chunk_tasks' = running \o spawned
             /\ tasks_in_flight' = Monus(tasks_in_flight + Len(spawned), Len(done))
    <3>1. /\ running \o spawned \in Seq(Tasks)
          /\ Len(running \o spawned) = Len(running) + Len(spawned)
          /\ IndicesOf(running \o spawned) = IndicesOf(running) \cup IndicesOf(spawned)
          /\ Held(audio, running \o spawned)
      <4>1. /\ running \o spawned \in Seq(Tasks)
            /\ Len(running \o spawned) = Len(running) + Len(spawned)
        BY <1>4, <1>5, ConcatProperties
      <4>2. IndicesOf(running \o spawned) = IndicesOf(running) \cup IndicesOf(spawned)
        <5>1. running \in Seq(Tasks) /\ spawned \in Seq(Tasks)
          BY <1>4, <1>5
        <5> QED
          BY <5>1, IndicesConcat
      <4>3. Held(audio, running \o spawned)
        BY <1>4, <1>5, <1>11, HeldMore
      <4> QED
        BY <4>1, <4>2, <4>3
    <3>2. tasks_in_flight' = Len(running) + Len(spawned)
      BY <1>4, <1>5, <1>6, <1>7, <2>1 DEF Monus
    <3>3. (0 .. chunks_sent - 1) \cup (chunks_sent .. chunks_sent + Len(spawned) - 1)
            = 0 .. chunks_sent' - 1
      BY <1>3, <1>4, <2>1
    <3>4. IndicesOf(eager_chunk_tasks') \cup IndicesOf(chunk_results') = 0 .. chunks_sent' - 1
      BY <1>4, <1>5, <1>7, <1>9, <2>1, <3>1, <3>3
    <3>5. /\ Len(eager_chunk_tasks') = Len(running) + Len(spawned)
          /\ Len(eager_chunk_tasks') + Len(chunk_results') = chunks_sent'
          /\ chunks_sent' \in Nat /\ Len(eager_chunk_tasks') \in Nat
      <4>1. Len(eager_chunk_tasks') = Len(running) + Len(spawned)
        BY <2>1, <3>1
      <4>2. chunks_sent' = chunks_sent + Len(spawned)
        BY <2>1
      <4>3. Len(chunk_results') = Len(chunk_results) + Len(done)
        BY <1>9
      <4> QED
        BY <1>3, <1>4, <1>5, <1>6, <1>7, <4>1, <4>2, <4>3
    <3>6. eager_chunk_tasks' \in Seq(Tasks) /\ Held(audio, eager_chunk_tasks')
      BY <2>1, <3>1
    <3> QED
      BY <3>2, <3>4, <3>5, <3>6
  <2>2. CASE /\ UNCHANGED chunks_sent
             /\ eager_chunk_tasks' = running
             /\ tasks_in_flight' = Monus(tasks_in_flight, Len(done))
    <3>1. tasks_in_flight' = Len(running)
      BY <1>5, <1>6, <1>7, <2>2 DEF Monus
    <3>2. IndicesOf(running) \cup IndicesOf(chunk_results') = 0 .. chunks_sent - 1
      BY <1>5, <1>7, <1>9
    <3>3. /\ Len(eager_chunk_tasks') = Len(running)
          /\ Len(eager_chunk_tasks') + Len(chunk_results') = chunks_sent'
      BY <1>3, <1>5, <1>6, <1>7, <1>9, <2>2
    <3>4. eager_chunk_tasks' \in Seq(Tasks) /\ Held(audio, eager_chunk_tasks')
      BY <1>5, <1>11, <2>2
    <3> QED
      BY <1>3, <1>6, <2>2, <3>1, <3>2, <3>3, <3>4
  <2> QED
    BY <1>2, <2>1, <2>2
<1>14. config' = config /\ spoken' = spoken /\ phase' = phase
  BY <1>1 DEF speech
<1>15. EagerTypeOK'
  BY <1>1, <1>3, <1>9, <1>13, <1>14, TextFacts DEF EagerTypeOK
<1>16. EveryChunkOnce' /\ TasksRight' /\ ResultsRight'
  BY <1>1, <1>12, <1>13, <1>14
  DEF EveryChunkOnce, TasksRight, ResultsRight, Held, Heard, ExtractChunk
<1>17. SpokenRight'
  <2>1. spoken = audio \o <<>>
    BY <1>1, <1>3, TextFacts DEF Unfinished, SpokenRight, audio
  <2> QED
    BY <1>1, <1>14, <2>1, TextFacts DEF SpokenRight
<1>18. Numbered'
  BY <1>14 DEF Unfinished, Numbered
<1> QED
  BY <1>15, <1>16, <1>17, <1>18 DEF Unfinished

LEMMA ReturnStep ==
  ASSUME EagerTypeOK, Unfinished, TaskReturns
  PROVE  EagerTypeOK' /\ Unfinished'
<1>1. PICK i \in DOMAIN eager_chunk_tasks, outcome \in {"ok", "failed"} :
        eager_chunk_tasks' = [eager_chunk_tasks EXCEPT ![i].outcome = outcome]
  BY DEF TaskReturns
<1>2. UNCHANGED <<config, spoken, captured, transcriber, accumulated_audio, chunks_sent,
                  tasks_in_flight, chunk_results, phase, combined>>
  BY DEF TaskReturns, speech
<1>3. /\ eager_chunk_tasks \in Seq(Tasks)
      /\ DOMAIN eager_chunk_tasks = 1 .. Len(eager_chunk_tasks)
      /\ Len(eager_chunk_tasks) \in Nat
      /\ \A j \in DOMAIN eager_chunk_tasks : eager_chunk_tasks[j] \in Tasks
  BY LenProperties, ElementOfSeq DEF EagerTypeOK
<1> DEFINE tasks == eager_chunk_tasks
           new == [tasks EXCEPT ![i].outcome = outcome]
<1>4. ASSUME NEW j \in DOMAIN tasks
      PROVE  /\ new[j] \in Tasks /\ new[j].chunk_index = tasks[j].chunk_index
             /\ new[j].audio = tasks[j].audio
  <2>1. tasks[j] \in Tasks
    BY <1>3
  <2>2. CASE j = i
    <3>1. new[j] = [tasks[j] EXCEPT !.outcome = outcome]
      BY <2>2
    <3> QED
      BY <2>1, <3>1 DEF Tasks
  <2>3. CASE j # i
    BY <2>1, <2>3
  <2> QED
    BY <2>2, <2>3
<1>5. DOMAIN new = DOMAIN tasks /\ new = [j \in DOMAIN tasks |-> new[j]]
  OBVIOUS
<1> HIDE DEF new
<1>6. new \in Seq(Tasks) /\ Len(new) = Len(tasks)
  BY <1>3, <1>4, <1>5
<1>7. IndicesOf(new) = IndicesOf(tasks)
  BY <1>4, <1>5 DEF IndicesOf
<1>8. eager_chunk_tasks' = new
  BY <1>1 DEF new
<1>9. EagerTypeOK'
  BY <1>2, <1>6, <1>8 DEF EagerTypeOK
<1>10. EveryChunkOnce'
  BY <1>2, <1>6, <1>7, <1>8 DEF Unfinished, EveryChunkOnce
<1>11. Held(accumulated_audio, new)
  BY <1>4, <1>5 DEF Unfinished, TasksRight, Held
<1>12. TasksRight' /\ ResultsRight' /\ SpokenRight' /\ Numbered'
  BY <1>2, <1>8, <1>11
  DEF Unfinished, TasksRight, ResultsRight, SpokenRight, Numbered, Held, Heard, ExtractChunk
<1> QED
  BY <1>9, <1>10, <1>12 DEF Unfinished

LEMMA StopStep ==
  ASSUME EagerTypeOK, Unfinished, StopEager
  PROVE  EagerTypeOK' /\ Unfinished'
<1>1. /\ phase = "recording" /\ phase' = "finishing" /\ captured' = <<>>
      /\ UNCHANGED <<config, spoken, transcriber, chunks_sent, tasks_in_flight,
                     eager_chunk_tasks, chunk_results, combined>>
  BY DEF StopEager, speech
<1>2. /\ accumulated_audio \in Text /\ captured \in Text
      /\ eager_chunk_tasks \in Seq(Tasks) /\ chunk_results \in Seq(Results)
  BY DEF EagerTypeOK
<1>3. PICK more \in {<<>>, captured} : accumulated_audio' = accumulated_audio \o more
  BY <1>2, TextFacts DEF StopEager
<1>4. more \in Text /\ accumulated_audio' \in Text
  BY <1>2, <1>3, TextFacts
<1>5. EagerTypeOK'
  BY <1>1, <1>4, TextFacts DEF EagerTypeOK
<1>6. Held(accumulated_audio', eager_chunk_tasks) /\ Heard(accumulated_audio', chunk_results)
  BY <1>1, <1>2, <1>3, <1>4, StaysRight DEF Unfinished, TasksRight, ResultsRight
<1>7. EveryChunkOnce' /\ TasksRight' /\ ResultsRight' /\ Numbered'
  BY <1>1, <1>6
  DEF Unfinished, EveryChunkOnce, TasksRight, ResultsRight, Numbered, Held, Heard, ExtractChunk
<1>8. SpokenRight'
  <2>1. spoken = accumulated_audio \o captured
    BY <1>1 DEF Unfinished, SpokenRight
  <2>2. CASE more = captured
    <3>1. spoken = accumulated_audio' \o <<>>
      BY <1>3, <1>4, <2>1, <2>2, TextFacts
    <3> QED
      BY <1>1, <3>1, TextFacts DEF SpokenRight
  <2>3. CASE more = <<>>
    <3>1. spoken = accumulated_audio' \o captured
      BY <1>2, <1>3, <2>1, <2>3, TextFacts
    <3> QED
      BY <1>1, <1>2, <3>1 DEF SpokenRight
  <2> QED
    BY <2>2, <2>3
<1> QED
  BY <1>5, <1>7, <1>8 DEF Unfinished

-----------------------------------------------------------------------------
(* The boundary of two texts.                                              *)

(* s ends with the samples of audio from c + 1 to e.                       *)
EndsWith(s, audio, c, e) ==
  e - c <= Len(s) /\ \A i \in 1 .. e - c : s[Len(s) - (e - c) + i] = audio[c + i]

LEMMA EndsWithIs ==
  ASSUME NEW s, NEW audio, NEW a \in Nat, NEW l \in Nat
  PROVE  EndsWith(s, audio, a, a + l) <=>
           l <= Len(s) /\ \A i \in 1 .. l : s[Len(s) - l + i] = audio[a + i]
<1> DEFINE d == a + l - a
<1>1. EndsWith(s, audio, a, a + l) <=>
        d <= Len(s) /\ \A i \in 1 .. d : s[Len(s) - d + i] = audio[a + i]
  BY DEF EndsWith
<1>2. d = l
  OBVIOUS
<1> HIDE DEF d
<1> QED
  BY <1>1, <1>2

LEMMA SuffixIs ==
  ASSUME NEW s \in Text, NEW t \in Text, Len(s) <= Len(t)
  PROVE  IsSuffix(s, t) <=> \A i \in 1 .. Len(s) : s[i] = t[Len(t) - Len(s) + i]
<1> DEFINE m == Len(s)
           n == Len(t)
           r == Reverse(s)
           q == Reverse(t)
           x == SubSeq(r, 1, m)
           y == SubSeq(q, 1, m)
<1>1. m \in Nat /\ n \in Nat /\ m <= n
      /\ (\A i \in 1 .. m : s[i] \in Words) /\ \A i \in 1 .. n : t[i] \in Words
  BY TextFacts
<1>2. r = [i \in 1 .. m |-> s[m - i + 1]] /\ q = [i \in 1 .. n |-> t[n - i + 1]]
  BY DEF Reverse
<1> HIDE DEF m, n, r, q
<1>3. /\ r \in Text /\ Len(r) = m /\ \A i \in 1 .. m : r[i] = s[m - i + 1]
      /\ q \in Text /\ Len(q) = n /\ \A i \in 1 .. n : q[i] = t[n - i + 1]
  <2>1. (\A i \in 1 .. m : s[m - i + 1] \in Words) /\ \A i \in 1 .. n : t[n - i + 1] \in Words
    <3>1. (\A i \in 1 .. m : m - i + 1 \in 1 .. m) /\ \A i \in 1 .. n : n - i + 1 \in 1 .. n
      BY <1>1
    <3> QED
      BY <1>1, <3>1
  <2> QED
    BY <1>1, <1>2, <2>1 DEF Text
<1>4. IsSuffix(s, t) <=> x = y
  BY <1>1, <1>3 DEF IsSuffix, IsPrefix, r, q
<1>5. /\ x \in Seq(Words) /\ Len(x) = m /\ \A i \in 1 .. m : x[i] = r[i]
      /\ y \in Seq(Words) /\ Len(y) = m /\ \A i \in 1 .. m : y[i] = q[i]
  <2>1. /\ \A i \in 1 .. m : r[i] \in Words /\ i \in 1 .. n /\ q[i] \in Words
        /\ 1 <= m => m - 1 + 1 = m
        /\ ~(1 <= m) => m = 0
        /\ \A i \in 1 .. m : i \in 1 .. m - 1 + 1 /\ 1 + i - 1 = i
    BY <1>1, <1>3, ElementOfSeq DEF Text
  <2>2. /\ x \in Seq(Words) /\ Len(x) = IF 1 <= m THEN m - 1 + 1 ELSE 0
        /\ \A i \in 1 .. m - 1 + 1 : x[i] = r[1 + i - 1]
    BY <1>1, <2>1, SubSeqProperties
  <2>3. /\ y \in Seq(Words) /\ Len(y) = IF 1 <= m THEN m - 1 + 1 ELSE 0
        /\ \A i \in 1 .. m - 1 + 1 : y[i] = q[1 + i - 1]
    BY <1>1, <2>1, SubSeqProperties
  <2> HIDE DEF x, y
  <2> QED
    BY <1>1, <2>1, <2>2, <2>3
<1> HIDE DEF x, y
<1>6. x = y <=> \A i \in 1 .. m : x[i] = y[i]
  BY <1>5, SeqEqual
<1>7. \A i \in 1 .. m : i \in 1 .. n /\ x[i] = s[m - i + 1] /\ y[i] = t[n - i + 1]
  BY <1>1, <1>3, <1>5
<1>8. ASSUME x = y, NEW i \in 1 .. m
      PROVE  s[i] = t[n - m + i]
  <2> DEFINE k == m - i + 1
  <2>1. k \in 1 .. m /\ m - k + 1 = i /\ n - k + 1 = n - m + i
    BY <1>1
  <2> HIDE DEF k
  <2>2. x[k] = s[m - k + 1] /\ y[k] = t[n - k + 1]
    BY <1>7, <2>1
  <2> QED
    BY <1>8, <2>1, <2>2
<1>9. ASSUME \A i \in 1 .. m : s[i] = t[n - m + i]
      PROVE  x = y
  <2> SUFFICES ASSUME NEW k \in 1 .. m PROVE x[k] = y[k]
    BY <1>6
  <2> DEFINE i == m - k + 1
  <2>1. i \in 1 .. m /\ n - m + i = n - k + 1
    BY <1>1
  <2>2. s[i] = t[n - m + i]
    BY <1>9, <2>1
  <2> QED
    BY <1>7, <2>1, <2>2
<1> QED
  BY <1>4, <1>8, <1>9 DEF m, n

(* deduplicate_boundary drops the beginning of the new text that ends the  *)
(* previous one, the longest there is: what is left follows it.            *)
LEMMA OverlapIs ==
  ASSUME NEW previous \in Text, NEW new \in Text
  PROVE  LET m == Len(previous)
             l == Len(new)
             b == BestOverlap(previous, new)
         IN /\ b \in 0 .. l /\ b <= m
            /\ \A i \in 1 .. b : new[i] = previous[m - b + i]
            /\ \A n \in 1 .. l :
                 n <= m /\ (\A i \in 1 .. n : new[i] = previous[m - n + i]) => n <= b
<1> DEFINE m == Len(previous)
           l == Len(new)
           O == {0} \cup {n \in 1 .. l : IsSuffix(SubSeq(new, 1, n), previous)}
           b == BestOverlap(previous, new)
<1>1. m \in Nat /\ l \in Nat
  BY TextFacts
<1>2. b = Max(O)
  BY DEF BestOverlap
<1> HIDE DEF m, l, b
<1>3. O \subseteq Nat /\ O # {} /\ \A n \in O : n <= l
  BY <1>1
<1>4. b \in O /\ \A n \in O : n <= b
  <2> HIDE DEF O
  <2> QED
    BY <1>1, <1>2, <1>3, MaxIs
<1>5. ASSUME NEW n \in 1 .. l
      PROVE  /\ IsSuffix(SubSeq(new, 1, n), previous) => n <= m
             /\ n <= m => (IsSuffix(SubSeq(new, 1, n), previous) <=>
                             \A i \in 1 .. n : new[i] = previous[m - n + i])
  <2> DEFINE p == SubSeq(new, 1, n)
  <2>1. /\ p \in Text /\ Len(p) = n /\ \A i \in 1 .. n : p[i] = new[i]
    <3>1. /\ 0 \in Nat /\ n \in Nat /\ 0 <= n /\ n <= Len(new) /\ n - 0 = n
          /\ \A i \in 1 .. n : 0 + i = i
      BY <1>1 DEF l
    <3>2. /\ Slice(new, 0, n) \in Text /\ Len(Slice(new, 0, n)) = n - 0
          /\ \A i \in 1 .. n - 0 : Slice(new, 0, n)[i] = new[0 + i]
      BY <3>1, SliceIs
    <3>3. p = Slice(new, 0, n)
      BY DEF Slice
    <3> QED
      BY <3>1, <3>2, <3>3
  <2> HIDE DEF p
  <2>2. IsSuffix(p, previous) => n <= m
    <3> DEFINE r == Reverse(p)
               q == Reverse(previous)
    <3>1. Len(r) = n /\ Len(q) = m
      BY <1>1, <2>1 DEF Reverse, m
    <3>2. IsSuffix(p, previous) => Len(r) <= Len(q)
      BY DEF IsSuffix, IsPrefix
    <3> QED
      BY <3>1, <3>2
  <2>3. n <= m => (IsSuffix(p, previous) <=> \A i \in 1 .. n : p[i] = previous[m - n + i])
    BY <2>1, SuffixIs DEF m
  <2> QED
    BY <2>1, <2>2, <2>3 DEF p
<1>6. b \in 0 .. l
  BY <1>1, <1>4
<1>7. b <= m /\ \A i \in 1 .. b : new[i] = previous[m - b + i]
  <2>1. CASE b = 0
    BY <1>1, <2>1
  <2>2. CASE b # 0
    <3>1. b \in 1 .. l /\ IsSuffix(SubSeq(new, 1, b), previous)
      BY <1>4, <2>2
    <3> QED
      BY <1>5, <3>1
  <2> QED
    BY <2>1, <2>2
<1>8. ASSUME NEW n \in 1 .. l, n <= m, \A i \in 1 .. n : new[i] = previous[m - n + i]
      PROVE  n <= b
  <2>1. n \in O
    BY <1>5, <1>8
  <2> QED
    BY <1>4, <2>1
<1> QED
  BY <1>6, <1>7, <1>8 DEF b, m, l

(* s leaves out some of the first e words of audio, and keeps their order. *)
PicksFrom(s, audio, e) ==
  \E place \in [1 .. Len(s) -> 1 .. e] :
    /\ \A i, j \in 1 .. Len(s) : i < j => place[i] < place[j]
    /\ \A i \in 1 .. Len(s) : s[i] = audio[place[i]]

(* What the texts up to word e make, the last of which began after word c. *)
Merges(s, audio, c, e) ==
  /\ s \in Text /\ c \in Nat /\ e \in Nat /\ c <= e /\ e <= Len(audio)
  /\ EndsWith(s, audio, c, e)
  /\ PicksFrom(s, audio, e)

(* new is the words of audio after word a.                                 *)
Segment(audio, new, a) ==
  /\ new \in Text /\ a \in Nat /\ a + Len(new) <= Len(audio)
  /\ \A i \in 1 .. Len(new) : new[i] = audio[a + i]

(* A text that begins and ends no earlier than the one before it is        *)
(* appended without a word doubled, and so that the result ends with it:   *)
(* if it begins within the one before, at least their overlap is dropped   *)
(* (deduplicate_boundary).                                                 *)
THEOREM BoundaryIsJoined ==
  ASSUME NEW audio \in Text, NEW s, NEW c, NEW e, Merges(s, audio, c, e),
         NEW new, NEW a, Segment(audio, new, a), c <= a, e <= a + Len(new)
  PROVE  /\ Merges(s \o DeduplicateBoundary(s, new), audio, a, a + Len(new))
         /\ ToSet(s \o DeduplicateBoundary(s, new)) = ToSet(s) \cup ToSet(new)
<1> DEFINE m == Len(s)
           l == Len(new)
           b == BestOverlap(s, new)
           rest == DeduplicateBoundary(s, new)
           u == s \o rest
           L == Len(audio)
<1>1. /\ s \in Text /\ c \in Nat /\ e \in Nat /\ c <= e /\ e <= L
      /\ e - c <= m
      /\ \A i \in 1 .. e - c : s[m - (e - c) + i] = audio[c + i]
      /\ new \in Text /\ a \in Nat /\ a + l <= L /\ c <= a /\ e <= a + l
      /\ \A i \in 1 .. l : new[i] = audio[a + i]
  BY DEF Merges, Segment, EndsWith
<1>2. m \in Nat /\ l \in Nat /\ L \in Nat
  BY <1>1, TextFacts
<1>3. /\ b \in 0 .. l /\ b <= m
      /\ \A i \in 1 .. b : new[i] = s[m - b + i]
      /\ \A n \in 1 .. l :
           n <= m /\ (\A i \in 1 .. n : new[i] = s[m - n + i]) => n <= b
  BY <1>1, OverlapIs
<1>4. /\ rest \in Text /\ Len(rest) = l - b /\ \A i \in 1 .. l - b : rest[i] = new[b + i]
  <2>1. rest = Slice(new, b, l)
    BY DEF DeduplicateBoundary, Slice
  <2>2. b \in Nat /\ l \in Nat /\ b <= l /\ l <= Len(new)
    BY <1>2, <1>3
  <2> HIDE DEF rest, b, l
  <2> QED
    BY <1>1, <2>1, <2>2, SliceIs
<1>5. PICK place \in [1 .. m -> 1 .. e] :
        /\ \A i, j \in 1 .. m : i < j => place[i] < place[j]
        /\ \A i \in 1 .. m : s[i] = audio[place[i]]
  BY DEF Merges, PicksFrom
<1> HIDE DEF m, l, b, rest, L
<1>6. /\ u \in Text /\ Len(u) = m + (l - b)
      /\ \A i \in 1 .. m + (l - b) : u[i] = IF i <= m THEN s[i] ELSE rest[i - m]
  <2>1. /\ u \in Text /\ Len(u) = Len(s) + Len(rest)
        /\ \A i \in 1 .. Len(s) + Len(rest) : u[i] = IF i <= Len(s) THEN s[i] ELSE rest[i - Len(s)]
    BY <1>1, <1>4, ConcatProperties DEF Text
  <2> HIDE DEF u
  <2> QED
    BY <1>4, <2>1 DEF m
<1> DEFINE N == m + (l - b)
<1>7. N \in Nat /\ m <= N /\ l <= N /\ DOMAIN u = 1 .. N
  BY <1>2, <1>3, <1>6, TextFacts
<1>8. /\ \A i \in 1 .. m : i \in 1 .. N /\ u[i] = s[i]
      /\ \A i \in 1 .. N : i \notin 1 .. m => i - m \in 1 .. l - b /\ u[i] = rest[i - m]
  <2>1. /\ \A i \in 1 .. m : i \in 1 .. N /\ i <= m
        /\ \A i \in 1 .. N : i \notin 1 .. m => i - m \in 1 .. l - b /\ ~(i <= m)
    BY <1>2, <1>3
  <2> QED
    BY <1>6, <2>1
<1> HIDE DEF u
<1>9. e <= a + b
  <2>1. CASE e <= a
    BY <1>1, <1>2, <1>3, <2>1
  <2>2. CASE a < e
    <3> DEFINE n == e - a
    <3>1. n \in 1 .. l /\ n <= m /\ a + n = e
      BY <1>1, <1>2, <2>2
    <3>2. ASSUME NEW i \in 1 .. n PROVE new[i] = s[m - n + i]
      <4> DEFINE k == a - c + i
      <4>1. k \in 1 .. e - c /\ m - (e - c) + k = m - n + i /\ c + k = a + i /\ i \in 1 .. l
        BY <1>1, <1>2, <2>2
      <4> HIDE DEF k, n
      <4>2. s[m - (e - c) + k] = audio[c + k]
        BY <1>1, <4>1
      <4> QED
        BY <1>1, <4>1, <4>2
    <3>3. n <= b
      BY <1>3, <3>1, <3>2
    <3> QED
      BY <1>1, <1>2, <1>3, <3>3
  <2> QED
    BY <1>1, <2>1, <2>2
<1>10. ASSUME NEW i \in 1 .. l PROVE N - l + i \in 1 .. N /\ u[N - l + i] = audio[a + i]
  <2> DEFINE k == m - b + i
  <2>1. N - l + i = k /\ k \in 1 .. N
    BY <1>2, <1>3
  <2>2. CASE i <= b
    <3>1. k \in 1 .. m /\ i \in 1 .. b
      BY <1>2, <1>3, <2>2
    <3>2. u[k] = s[k]
      BY <1>8, <3>1
    <3>3. new[i] = s[m - b + i]
      BY <1>3, <3>1
    <3> QED
      BY <1>1, <2>1, <3>2, <3>3
  <2>3. CASE ~(i <= b)
    <3>1. k \notin 1 .. m /\ k - m = i - b /\ i - b \in 1 .. l - b /\ b + (i - b) = i
      BY <1>2, <1>3, <2>3
    <3> HIDE DEF k, N
    <3>2. u[k] = rest[i - b]
      BY <1>8, <2>1, <3>1
    <3>3. rest[i - b] = new[b + (i - b)]
      BY <1>4, <3>1
    <3> QED
      BY <1>1, <2>1, <3>1, <3>2, <3>3
  <2> QED
    BY <2>2, <2>3
<1>11. EndsWith(u, audio, a, a + l)
  <2>1. l <= Len(u) /\ Len(u) = N
    BY <1>1, <1>2, <1>6, <1>7
  <2>2. \A i \in 1 .. l : u[N - l + i] = audio[a + i]
    BY <1>10
  <2> HIDE DEF N
  <2> QED
    BY <1>1, <1>2, <2>1, <2>2, EndsWithIs
<1>12. PicksFrom(u, audio, a + l)
  <2> DEFINE spot == [i \in 1 .. N |-> IF i \in 1 .. m THEN place[i] ELSE a + b + (i - m)]
  <2>1. \A i \in 1 .. m : place[i] \in 1 .. e
    BY <1>5
  <2>2. ASSUME NEW i \in 1 .. N PROVE spot[i] \in 1 .. a + l
    <3>1. CASE i \in 1 .. m
      BY <1>1, <1>2, <2>1, <3>1
    <3>2. CASE i \notin 1 .. m
      BY <1>1, <1>2, <1>3, <3>2
    <3> QED
      BY <3>1, <3>2
  <2>3. ASSUME NEW i \in 1 .. N PROVE u[i] = audio[spot[i]]
    <3>1. CASE i \in 1 .. m
      BY <1>5, <1>8, <3>1
    <3>2. CASE i \notin 1 .. m
      <4> DEFINE k == i - m
      <4>1. k \in 1 .. l - b /\ u[i] = rest[k]
        BY <1>8, <3>2
      <4>2. b + k \in 1 .. l /\ a + (b + k) = a + b + (i - m)
        BY <1>1, <1>2, <1>3, <4>1
      <4>3. spot[i] = a + (b + k)
        BY <3>2, <4>2
      <4> HIDE DEF k, spot
      <4> QED
        BY <1>1, <1>4, <4>1, <4>2, <4>3
    <3> QED
      BY <3>1, <3>2
  <2>4. ASSUME NEW i \in 1 .. N, NEW j \in 1 .. N, i < j PROVE spot[i] < spot[j]
    <3>1. CASE j \in 1 .. m
      <4>1. i \in 1 .. m
        BY <1>2, <2>4, <3>1
      <4> QED
        BY <1>5, <2>4, <3>1, <4>1
    <3>2. CASE i \in 1 .. m /\ j \notin 1 .. m
      <4>1. spot[i] \in 1 .. e /\ spot[j] = a + b + (j - m) /\ j - m \in 1 .. l - b
        BY <1>8, <2>1, <3>2
      <4> HIDE DEF spot
      <4> QED
        BY <1>1, <1>2, <1>3, <1>9, <4>1
    <3>3. CASE i \notin 1 .. m /\ j \notin 1 .. m
      BY <1>1, <1>2, <1>3, <2>4, <3>3
    <3> QED
      BY <1>2, <2>4, <3>1, <3>2, <3>3
  <2>5. spot \in [1 .. N -> 1 .. a + l]
    BY <2>2
  <2> HIDE DEF spot
  <2> QED
    BY <1>6, <2>3, <2>4, <2>5 DEF PicksFrom
<1>13. ToSet(u) = ToSet(s) \cup ToSet(new)
  <2>1. DOMAIN s = 1 .. m /\ DOMAIN new = 1 .. l
    BY <1>1, TextFacts DEF m, l
  <2>2. ASSUME NEW i \in 1 .. N PROVE u[i] \in ToSet(s) \cup ToSet(new)
    <3>1. CASE i \in 1 .. m
      BY <1>8, <2>1, <3>1 DEF ToSet
    <3>2. CASE i \notin 1 .. m
      <4>1. u[i] = rest[i - m] /\ i - m \in 1 .. l - b
        BY <1>8, <3>2
      <4>2. b + (i - m) \in 1 .. l
        BY <1>2, <1>3, <4>1
      <4>3. u[i] = new[b + (i - m)]
        BY <1>4, <4>1
      <4> QED
        BY <2>1, <4>2, <4>3 DEF ToSet
    <3> QED
      BY <3>1, <3>2
  <2>3. ASSUME NEW i \in 1 .. m PROVE s[i] \in ToSet(u)
    BY <1>7, <1>8 DEF ToSet
  <2>4. ASSUME NEW i \in 1 .. l PROVE new[i] \in ToSet(u)
    <3>1. u[N - l + i] = audio[a + i] /\ N - l + i \in 1 .. N
      BY <1>10
    <3> QED
      BY <1>1, <1>7, <3>1 DEF ToSet
  <2> HIDE DEF N
  <2> QED
    BY <1>7, <2>1, <2>2, <2>3, <2>4 DEF ToSet
<1>14. a + l \in Nat /\ a <= a + l
  BY <1>1, <1>2
<1> QED
  BY <1>1, <1>6, <1>11, <1>12, <1>13, <1>14 DEF Merges, u, rest, l, L

-----------------------------------------------------------------------------
(* The combination of the results.                                         *)

(* The text after each of the sorted results.                              *)
Path(f, sorted) ==
  /\ f \in [0 .. Len(sorted) -> Text]
  /\ f[0] = <<>>
  /\ \A n \in 1 .. Len(sorted) :
       f[n] = f[n - 1] \o DeduplicateBoundary(f[n - 1], sorted[n].text)

LEMMA DeduplicateType ==
  \A s, t \in Text : /\ DeduplicateBoundary(s, t) \in Text
                     /\ DeduplicateBoundary(s, <<>>) = <<>>
<1> SUFFICES ASSUME NEW s \in Text, NEW t \in Text
             PROVE  DeduplicateBoundary(s, t) \in Text /\ DeduplicateBoundary(s, <<>>) = <<>>
  OBVIOUS
<1>1. ASSUME NEW x \in Text
      PROVE  /\ DeduplicateBoundary(s, x) \in Text
             /\ Len(DeduplicateBoundary(s, x)) <= Len(x)
  <2> DEFINE b == BestOverlap(s, x)
             l == Len(x)
  <2>1. b \in 0 .. l /\ l \in Nat
    BY OverlapIs, TextFacts
  <2>2. DeduplicateBoundary(s, x) = Slice(x, b, l)
    BY DEF DeduplicateBoundary, Slice
  <2>3. b \in Nat /\ b <= l /\ l <= Len(x) /\ l \in Nat
    BY <2>1
  <2> HIDE DEF b, l
  <2>4. Slice(x, b, l) \in Text /\ Len(Slice(x, b, l)) = l - b
    BY <2>3, SliceIs
  <2> QED
    BY <2>2, <2>3, <2>4 DEF l
<1>2. DeduplicateBoundary(s, <<>>) = <<>>
  <2>1. /\ DeduplicateBoundary(s, <<>>) \in Text
        /\ Len(DeduplicateBoundary(s, <<>>)) <= 0
    BY <1>1, TextFacts
  <2> QED
    BY <2>1, EmptySeq, LenProperties DEF Text
<1> QED
  BY <1>1, <1>2

LEMMA PathExists ==
  ASSUME NEW sorted \in Seq(Results)
  PROVE  \E f : Path(f, sorted)
<1> DEFINE N == Len(sorted)
           text(n) == sorted[n].text
           next(s, n) == s \o DeduplicateBoundary(s, text(n))
           long(f, n) == /\ f \in [0 .. n -> Text] /\ f[0] = <<>>
                         /\ \A k \in 1 .. n : f[k] = next(f[k - 1], k)
           S == {n \in Nat : n <= N => \E f : long(f, n)}
<1>1. N \in Nat
  BY LenProperties
<1>2. \A n \in 1 .. N : text(n) \in Text
  <2>1. \A n \in 1 .. N : sorted[n] \in Results
    BY ElementOfSeq
  <2> QED
    BY <2>1 DEF Results
<1>3. \A s \in Text, n \in 1 .. N : next(s, n) \in Text
  BY <1>2, DeduplicateType, TextFacts
<1> HIDE DEF next, N
<1>4. 0 \in S
  <2>1. long([k \in 0 .. 0 |-> <<>>], 0)
    BY TextFacts
  <2> HIDE DEF long
  <2> QED
    BY <2>1
<1>5. ASSUME NEW n \in S PROVE n + 1 \in S
  <2>0. n \in Nat /\ (n <= N => \E f : long(f, n))
    OBVIOUS
  <2> SUFFICES ASSUME n + 1 <= N PROVE \E f : long(f, n + 1)
    BY <2>0
  <2>1. PICK f : long(f, n)
    BY <1>1, <2>0
  <2> DEFINE o == n + 1
             g == [k \in 0 .. o |-> IF k <= n THEN f[k] ELSE next(f[n], o)]
  <2>2. /\ o \in 1 .. N /\ n \in 0 .. n /\ ~(o <= n) /\ o \in 0 .. o
        /\ \A k \in 0 .. o : (k \in 0 .. n /\ k <= n) \/ k = o
        /\ \A k \in 0 .. n : k \in 0 .. o /\ k <= n
        /\ \A k \in 1 .. o : (k \in 1 .. n /\ k \in 0 .. n /\ k - 1 \in 0 .. n) \/ k = o
        /\ o - 1 = n /\ 0 \in 0 .. n
    BY <1>1, <2>0
  <2> HIDE DEF o
  <2>3. f[n] \in Text /\ next(f[n], o) \in Text
    BY <1>3, <2>1, <2>2
  <2>4. g \in [0 .. o -> Text]
    BY <2>1, <2>2, <2>3
  <2>5. g[o] = next(f[n], o) /\ \A k \in 0 .. n : g[k] = f[k]
    BY <2>2
  <2> HIDE DEF g
  <2>6. \A k \in 1 .. o : g[k] = next(g[k - 1], k)
    BY <2>1, <2>2, <2>5
  <2>7. g[0] = <<>>
    BY <2>1, <2>2, <2>5
  <2>8. long(g, o)
    BY <2>4, <2>6, <2>7
  <2> HIDE DEF long
  <2> QED
    BY <2>8 DEF o
<1>6. S = Nat
  <2> HIDE DEF S
  <2>1. S \subseteq Nat
    BY DEF S
  <2> QED
    BY <1>4, <1>5, <2>1, Induction
<1>7. PICK f : long(f, N)
  <2>1. N \in S
    BY <1>1, <1>6
  <2> HIDE DEF long
  <2>2. N <= N
    BY <1>1
  <2> QED
    BY <2>1, <2>2
<1> QED
  BY <1>7 DEF Path, N, next

LEMMA CombineIs ==
  ASSUME NEW results, ByIndex(results) \in Seq(Results), NEW f, Path(f, ByIndex(results))
  PROVE  CombineChunkResults(results) = f[Len(ByIndex(results))]
<1> DEFINE sorted == ByIndex(results)
           N == Len(sorted)
           next(s, n) == s \o DeduplicateBoundary(s, sorted[n].text)
           Once(h) == [n \in 0 .. N |-> IF n = 0 THEN <<>> ELSE next(h[n - 1], n)]
           merged == CHOOSE h : h = Once(h)
<1>1. CombineChunkResults(results) = merged[N]
  BY DEF CombineChunkResults
<1>2. N \in Nat /\ f \in [0 .. N -> Text] /\ f[0] = <<>>
      /\ \A n \in 1 .. N : f[n] = next(f[n - 1], n)
  BY LenProperties DEF Path
<1> HIDE DEF N, next, sorted
<1>3. f = Once(f)
  <2>1. \A n \in 0 .. N : n # 0 => n \in 1 .. N
    OBVIOUS
  <2>2. \A n \in 0 .. N : f[n] = IF n = 0 THEN <<>> ELSE next(f[n - 1], n)
    BY <1>2, <2>1
  <2>3. f = [n \in 0 .. N |-> f[n]]
    BY <1>2
  <2> QED
    BY <2>2, <2>3
<1>4. merged = Once(merged)
  <2> HIDE DEF Once
  <2> QED
    BY <1>3
<1> HIDE DEF merged
<1>5. merged[0] = <<>> /\ \A n \in 1 .. N : merged[n] = next(merged[n - 1], n)
  <2>1. \A n \in 0 .. N : merged[n] = IF n = 0 THEN <<>> ELSE next(merged[n - 1], n)
    BY <1>4, Zenon
  <2>2. 0 \in 0 .. N /\ \A n \in 1 .. N : n \in 0 .. N /\ n # 0
    BY <1>2
  <2> QED
    BY <2>1, <2>2
<1> DEFINE same == {n \in Nat : n <= N => merged[n] = f[n]}
<1>6. 0 \in same
  BY <1>2, <1>5
<1>7. ASSUME NEW n \in same PROVE n + 1 \in same
  <2>0. n \in Nat /\ n + 1 \in Nat /\ (n <= N => merged[n] = f[n])
    OBVIOUS
  <2> SUFFICES ASSUME n + 1 <= N PROVE merged[n + 1] = f[n + 1]
    BY <2>0
  <2> DEFINE m == n + 1
  <2>1. m \in 1 .. N /\ m - 1 = n /\ n <= N
    BY <1>2, <2>0
  <2> HIDE DEF m
  <2>2. merged[m] = next(merged[m - 1], m) /\ f[m] = next(f[m - 1], m)
    BY <1>2, <1>5, <2>1
  <2>3. merged[m] = f[m]
    BY <2>0, <2>1, <2>2
  <2> QED
    BY <2>3 DEF m
<1>8. same = Nat
  <2> HIDE DEF same
  <2>1. same \subseteq Nat
    BY DEF same
  <2> QED
    BY <1>6, <1>7, <2>1, Induction
<1>9. N \in same
  BY <1>2, <1>8
<1> QED
  BY <1>1, <1>2, <1>9 DEF N, sorted

Starts(r) == ChunkStart(config, r.chunk_index)
Ends(r) == Starts(r) + Len(r.text)

(* Results whose texts are segments of the audio, which begin and end in   *)
(* the order of their indices.                                             *)
Covers(audio, results) ==
  /\ \A i \in DOMAIN results : Segment(audio, results[i].text, Starts(results[i]))
  /\ \A i, j \in DOMAIN results :
       results[i].chunk_index < results[j].chunk_index =>
         /\ Starts(results[i]) <= Starts(results[j])
         /\ results[i].text # <<>> /\ results[j].text # <<>> =>
              Ends(results[i]) <= Ends(results[j])

LEMMA PathMerges ==
  ASSUME NEW audio \in Text, NEW sorted \in Seq(Results), Covers(audio, sorted),
         \A m, n \in DOMAIN sorted : m < n => sorted[m].chunk_index < sorted[n].chunk_index,
         NEW f, Path(f, sorted)
  PROVE  /\ \E c, e : Merges(f[Len(sorted)], audio, c, e)
         /\ ToSet(f[Len(sorted)]) = UNION {ToSet(sorted[k].text) : k \in 1 .. Len(sorted)}
<1> DEFINE N == Len(sorted)
           text(n) == sorted[n].text
           from(n) == Starts(sorted[n])
           to(n) == Ends(sorted[n])
           heard_by(n) == UNION {ToSet(text(k)) : k \in 1 .. n}
           ahead(c, e, n) == \A k \in n + 1 .. N : text(k) # <<>> => c <= from(k) /\ e <= to(k)
           S == {n \in Nat : n <= N =>
                   /\ \E c, e : Merges(f[n], audio, c, e) /\ ahead(c, e, n)
                   /\ ToSet(f[n]) = heard_by(n)}
<1>1. N \in Nat /\ DOMAIN sorted = 1 .. N
  BY LenProperties
<1>2. /\ \A n \in 1 .. N : Segment(audio, text(n), from(n)) /\ to(n) = from(n) + Len(text(n))
      /\ \A m, n \in 1 .. N : m < n => /\ from(m) <= from(n)
                                       /\ text(m) # <<>> /\ text(n) # <<>> => to(m) <= to(n)
  BY <1>1 DEF Covers, Ends
<1>3. /\ f \in [0 .. N -> Text] /\ f[0] = <<>>
      /\ \A n \in 1 .. N : f[n] = f[n - 1] \o DeduplicateBoundary(f[n - 1], text(n))
  BY DEF Path
<1> HIDE DEF N, text, from, to
<1>4. 0 \in S
  <2>1. Merges(<<>>, audio, 0, 0)
    <3>1. Len(<<>>) = 0 /\ Len(audio) \in Nat /\ <<>> \in Text /\ 0 - 0 = 0 /\ 1 .. 0 = {}
      BY TextFacts
    <3>2. PicksFrom(<<>>, audio, 0)
      <4> DEFINE none == [i \in 1 .. 0 |-> 0]
      <4>1. none \in [1 .. Len(<<>>) -> 1 .. 0] /\ \A i \in 1 .. Len(<<>>) : FALSE
        BY <3>1
      <4> HIDE DEF none
      <4> QED
        BY <4>1 DEF PicksFrom
    <3> QED
      BY <3>1, <3>2 DEF Merges, EndsWith
  <2>2. ahead(0, 0, 0)
    <3>1. \A k \in 1 .. N : from(k) \in Nat /\ to(k) \in Nat
      BY <1>2, TextFacts DEF Segment
    <3> QED
      BY <3>1
  <2>3. ToSet(<<>>) = {} /\ heard_by(0) = {}
    BY DEF ToSet
  <2> HIDE DEF ahead, heard_by
  <2> QED
    BY <1>3, <2>1, <2>2, <2>3
<1>5. ASSUME NEW n \in S PROVE n + 1 \in S
  <2> DEFINE o == n + 1
  <2>0. n \in Nat /\ o \in Nat
    OBVIOUS
  <2> SUFFICES ASSUME o <= N
               PROVE  /\ \E c, e : Merges(f[o], audio, c, e) /\ ahead(c, e, o)
                      /\ ToSet(f[o]) = heard_by(o)
    BY <2>0
  <2>1. o \in 1 .. N /\ o - 1 = n /\ n <= N
    BY <1>1, <2>0
  <2>2. /\ \E c, e : Merges(f[n], audio, c, e) /\ ahead(c, e, n)
        /\ ToSet(f[n]) = heard_by(n)
    BY <2>1
  <2>3. PICK c, e : Merges(f[n], audio, c, e) /\ ahead(c, e, n)
    BY <2>2
  <2>4. f[o] = f[n] \o DeduplicateBoundary(f[n], text(o)) /\ f[n] \in Text
    BY <1>3, <2>1, <2>3 DEF Merges
  <2>5. heard_by(o) = heard_by(n) \cup ToSet(text(o))
    <3>1. 1 .. o = (1 .. n) \cup {o}
      BY <2>0
    <3> HIDE DEF o
    <3> QED
      BY <3>1
  <2>6. \A k \in o + 1 .. N : k \in n + 1 .. N /\ k \in 1 .. N /\ o < k
    BY <1>1, <2>0
  <2>7. o \in n + 1 .. N
    BY <1>1, <2>0, <2>1
  <2> HIDE DEF o, heard_by
  <2>8. CASE text(o) = <<>>
    <3>1. f[o] = f[n]
      BY <2>4, <2>8, DeduplicateType, TextFacts
    <3>2. ahead(c, e, o)
      BY <2>3, <2>6
    <3>3. ToSet(text(o)) = {}
      BY <2>8 DEF ToSet
    <3> HIDE DEF ahead
    <3> QED
      BY <2>2, <2>3, <2>5, <3>1, <3>2, <3>3
  <2>9. CASE text(o) # <<>>
    <3>1. c <= from(o) /\ e <= to(o)
      BY <2>3, <2>7, <2>9
    <3>2. /\ Merges(f[o], audio, from(o), from(o) + Len(text(o)))
          /\ ToSet(f[o]) = ToSet(f[n]) \cup ToSet(text(o))
      BY <1>2, <2>1, <2>3, <2>4, <3>1, BoundaryIsJoined
    <3>3. ahead(from(o), to(o), o)
      BY <1>2, <2>1, <2>6, <2>9
    <3>4. Merges(f[o], audio, from(o), to(o))
      BY <1>2, <2>1, <3>2
    <3> HIDE DEF ahead
    <3> QED
      BY <2>2, <2>5, <3>2, <3>3, <3>4
  <2> QED
    BY <2>8, <2>9
<1>6. S = Nat
  <2> HIDE DEF S
  <2>1. S \subseteq Nat
    BY DEF S
  <2> QED
    BY <1>4, <1>5, <2>1, Induction
<1>7. N \in S /\ N <= N
  BY <1>1, <1>6
<1>8. (\E c, e : Merges(f[N], audio, c, e)) /\ ToSet(f[N]) = heard_by(N)
  <2> HIDE DEF ahead, heard_by
  <2> QED
    BY <1>7
<1> QED
  BY <1>8 DEF N, text

OneEach(results) ==
  \A i, j \in DOMAIN results : results[i].chunk_index = results[j].chunk_index => i = j

(* In whatever order the results come to combine_chunk_results, its text   *)
(* is the words of all of them, in the order of the audio and none         *)
(* doubled: if no two are of one chunk, and each is a segment of the audio *)
(* that begins and ends no earlier than those of lesser indices.           *)
THEOREM CombinedInOrder ==
  ASSUME NEW audio \in Text, NEW results \in Seq(Results), OneEach(results),
         Covers(audio, results)
  PROVE  /\ CombineChunkResults(results) \in Text
         /\ \E e \in Nat : e <= Len(audio) /\ PicksFrom(CombineChunkResults(results), audio, e)
         /\ ToSet(CombineChunkResults(results))
              = UNION {ToSet(results[i].text) : i \in DOMAIN results}
<1> DEFINE places == DOMAIN results
           key == [i \in places |-> results[i].chunk_index]
           N == Cardinality(places)
           at == [n \in 1 .. N |-> Place(places, key, n)]
           sorted == ByIndex(results)
<1>1. places = 1 .. Len(results) /\ Len(results) \in Nat
      /\ \A i \in places : results[i] \in Results
  BY LenProperties, ElementOfSeq
<1>2. Keyed(places, key)
  <2>1. IsFiniteSet(places)
    BY <1>1, FS_Interval
  <2>2. \A i \in places : key[i] \in Nat
    BY <1>1 DEF Results
  <2> QED
    BY <2>1, <2>2 DEF Keyed, OneEach
<1>3. sorted = Arranged(results, places, key)
  BY DEF ByIndex
<1>4. \A i \in places : key[i] = results[i].chunk_index
  OBVIOUS
<1> HIDE DEF key
<1>5. N \in Nat /\ sorted = [n \in 1 .. N |-> sorted[n]]
  BY <1>2, <1>3, ArrangedIs
<1>6. \A n \in 1 .. N : at[n] \in places /\ sorted[n] = results[at[n]]
  BY <1>2, <1>3, ArrangedIs
<1>7. \A m, n \in 1 .. N : m < n => key[at[m]] < key[at[n]]
  <2>1. \A m, n \in 1 .. N :
          m < n => key[Place(places, key, m)] < key[Place(places, key, n)]
    BY <1>2, ArrangedIs
  <2>2. \A n \in 1 .. N : at[n] = Place(places, key, n)
    OBVIOUS
  <2> HIDE DEF at
  <2> QED
    BY <2>1, <2>2
<1>8. \A i \in places : \E n \in 1 .. N : at[n] = i
  <2>1. \A n \in 1 .. N : at[n] = Place(places, key, n)
    OBVIOUS
  <2>2. N = Cardinality(places)
    OBVIOUS
  <2> HIDE DEF at, N, places, sorted
  <2>3. \A i \in places : \E n \in 1 .. N : Place(places, key, n) = i
    BY <1>2, <1>3, <2>2, ArrangedIs
  <2> QED
    BY <2>1, <2>3
<1> HIDE DEF at, N, sorted, places
<1>9. \A n \in 1 .. N : sorted[n] \in Results
  BY <1>1, <1>6
<1>10. sorted \in Seq(Results) /\ Len(sorted) = N /\ DOMAIN sorted = 1 .. N
  BY <1>5, <1>9
<1>11. Covers(audio, sorted)
  BY <1>6, <1>10 DEF Covers, places
<1>12. \A m, n \in DOMAIN sorted : m < n => sorted[m].chunk_index < sorted[n].chunk_index
  BY <1>4, <1>6, <1>7, <1>10
<1>13. PICK f : Path(f, sorted)
  BY <1>10, PathExists
<1>14. CombineChunkResults(results) = f[N]
  BY <1>10, <1>13, CombineIs DEF sorted
<1>15. /\ \E c, e : Merges(f[N], audio, c, e)
       /\ ToSet(f[N]) = UNION {ToSet(sorted[k].text) : k \in 1 .. N}
  BY <1>10, <1>11, <1>12, <1>13, PathMerges
<1>16. UNION {ToSet(sorted[k].text) : k \in 1 .. N} = UNION {ToSet(results[i].text) : i \in places}
  <2>1. ASSUME NEW k \in 1 .. N
        PROVE  \E i \in places : ToSet(sorted[k].text) = ToSet(results[i].text)
    BY <1>6
  <2>2. ASSUME NEW i \in places
        PROVE  \E k \in 1 .. N : ToSet(sorted[k].text) = ToSet(results[i].text)
    <3>1. PICK k \in 1 .. N : at[k] = i
      BY <1>8
    <3> QED
      BY <1>6, <3>1
  <2> QED
    BY <2>1, <2>2
<1> QED
  BY <1>14, <1>15, <1>16 DEF Merges, places

LEMMA HeardCovers ==
  ASSUME EagerTypeOK, NEW audio \in Text, NEW results \in Seq(Results), Heard(audio, results)
  PROVE  /\ Covers(audio, results)
         /\ \A i \in DOMAIN results : Ends(results[i]) <= Len(audio)
<1>1. \A i \in DOMAIN results : results[i].chunk_index \in Nat
  <2>1. DOMAIN results = 1 .. Len(results)
    BY LenProperties
  <2>2. \A i \in 1 .. Len(results) : results[i] \in Results
    BY ElementOfSeq
  <2> QED
    BY <2>1, <2>2 DEF Results
<1>2. Len(audio) \in Nat /\ config.chunk \in Nat
  BY TextFacts, ConfigIsSound, StrideIs
<1>3. ASSUME NEW i \in DOMAIN results
      PROVE  /\ Segment(audio, results[i].text, Starts(results[i]))
             /\ Starts(results[i]) \in Nat /\ Ends(results[i]) <= Len(audio)
             /\ results[i].text # <<>> => Len(results[i].text) = config.chunk
  <2> DEFINE k == results[i].chunk_index
             a == ChunkStart(config, k)
             t == results[i].text
  <2>1. k \in Nat /\ CanExtract(config, Len(audio), k) /\ t \in {ExtractChunk(audio, k), <<>>}
    BY <1>1 DEF Heard
  <2>2. a \in Nat /\ a + config.chunk <= Len(audio)
    BY <2>1, ConfigIsSound DEF CanExtract
  <2>3. Starts(results[i]) = a /\ Ends(results[i]) = a + Len(t)
    BY DEF Starts, Ends
  <2>4. CASE t = ExtractChunk(audio, k)
    <3>1. /\ ExtractChunk(audio, k) \in Text
          /\ Len(ExtractChunk(audio, k)) = config.chunk
          /\ \A j \in 1 .. config.chunk : ExtractChunk(audio, k)[j] = audio[a + j]
      BY <2>1, ExtractIs
    <3> HIDE DEF a, t, k
    <3>2. Len(t) = config.chunk /\ t \in Text /\ \A j \in 1 .. config.chunk : t[j] = audio[a + j]
      BY <2>4, <3>1
    <3> QED
      BY <2>2, <2>3, <3>2 DEF Segment, t
  <2>5. CASE t = <<>>
    <3> HIDE DEF a, k
    <3>1. t \in Text /\ Len(t) = 0
      BY <2>5, TextFacts
    <3>2. a + Len(t) <= Len(audio) /\ \A j \in 1 .. Len(t) : t[j] = audio[a + j]
      BY <1>2, <2>2, <3>1
    <3> HIDE DEF t
    <3> QED
      BY <2>2, <2>3, <2>5, <3>1, <3>2 DEF Segment, t
  <2> QED
    BY <2>1, <2>4, <2>5
<1>4. ASSUME NEW i \in DOMAIN results, NEW j \in DOMAIN results,
             results[i].chunk_index < results[j].chunk_index
      PROVE  /\ Starts(results[i]) <= Starts(results[j])
             /\ results[i].text # <<>> /\ results[j].text # <<>> =>
                  Ends(results[i]) <= Ends(results[j])
  <2>1. Starts(results[i]) <= Starts(results[j])
    <3> DEFINE k == results[i].chunk_index
               l == results[j].chunk_index
    <3>1. k \in Nat /\ l \in Nat /\ k < l
      BY <1>1, <1>4
    <3>2. StrideSamples(config) \in Nat
      BY ConfigIsSound, StrideIs
    <3>3. Starts(results[i]) = k * StrideSamples(config)
          /\ Starts(results[j]) = l * StrideSamples(config)
      BY DEF Starts, ChunkStart
    <3> HIDE DEF k, l
    <3>4. k <= l
      BY <3>1
    <3> QED
      BY <3>1, <3>2, <3>3, <3>4, Times
  <2> QED
    BY <1>2, <1>3, <2>1 DEF Ends
<1> QED
  BY <1>3, <1>4 DEF Covers

-----------------------------------------------------------------------------
(* The end of a recording.                                                 *)

LEMMA WaitedIs ==
  ASSUME EagerTypeOK, Unfinished, phase = "finishing",
         NEW waited, waited = chunk_results \o ResultsOf(eager_chunk_tasks)
  PROVE  /\ waited \in Seq(Results) /\ Len(waited) = chunks_sent /\ chunks_sent \in Nat
         /\ Heard(accumulated_audio, waited)
         /\ IndicesOf(waited) = 0 .. chunks_sent - 1
         /\ OneEach(waited)
         /\ chunks_sent = Max({0} \cup {waited[i].chunk_index + 1 : i \in DOMAIN waited})
<1> DEFINE new == ResultsOf(eager_chunk_tasks)
           N == chunks_sent
<1>1. /\ chunk_results \in Seq(Results) /\ eager_chunk_tasks \in Seq(Tasks) /\ N \in Nat
  BY DEF EagerTypeOK
<1>2. /\ new \in Seq(Results) /\ Len(new) = Len(eager_chunk_tasks)
      /\ IndicesOf(new) = IndicesOf(eager_chunk_tasks)
  BY <1>1, ResultsOfIs
<1>3. Heard(accumulated_audio, waited)
  <2>1. Heard(accumulated_audio, chunk_results) /\ Held(accumulated_audio, eager_chunk_tasks)
    BY DEF Unfinished, ResultsRight, TasksRight
  <2> QED
    BY <1>1, <2>1, HeardMore
<1> HIDE DEF new
<1>4. waited = chunk_results \o new
  BY DEF new
<1>5. waited \in Seq(Results) /\ Len(waited) = Len(chunk_results) + Len(new)
  BY <1>1, <1>2, <1>4, ConcatProperties
<1>6. IndicesOf(waited) = IndicesOf(chunk_results) \cup IndicesOf(new)
  BY <1>1, <1>2, <1>4, IndicesConcat
<1>7. IndicesOf(waited) = 0 .. N - 1 /\ Len(waited) = N
  <2>1. /\ Len(chunk_results) \in Nat /\ Len(eager_chunk_tasks) \in Nat
    BY <1>1, LenProperties
  <2> QED
    BY <1>2, <1>5, <1>6, <2>1 DEF Unfinished, EveryChunkOnce
<1>8. DOMAIN waited = 1 .. N /\ \A i \in 1 .. N : waited[i].chunk_index \in 0 .. N - 1
  <2>1. DOMAIN waited = 1 .. N
    BY <1>5, <1>7, LenProperties
  <2> QED
    BY <1>7, <2>1 DEF IndicesOf
<1>9. \A k \in 0 .. N - 1 : \E i \in 1 .. N : waited[i].chunk_index = k
  BY <1>7, <1>8 DEF IndicesOf
<1>10. OneEach(waited)
  <2> DEFINE f == [i \in 1 .. N |-> waited[i].chunk_index]
             S == 1 .. N
             T == 0 .. N - 1
  <2>1. \A i \in S : f[i] = waited[i].chunk_index
    OBVIOUS
  <2>2. f \in [S -> T]
    BY <1>8
  <2>3. IsFiniteSet(S) /\ Cardinality(S) = N /\ Cardinality(T) = N
    <3>1. Cardinality(S) = IF 1 > N THEN 0 ELSE N - 1 + 1
      BY <1>1, FS_Interval
    <3>2. Cardinality(T) = IF 0 > N - 1 THEN 0 ELSE N - 1 - 0 + 1
      BY <1>1, FS_Interval
    <3>3. IsFiniteSet(S)
      BY <1>1, FS_Interval
    <3> QED
      BY <1>1, <3>1, <3>2, <3>3
  <2> HIDE DEF f
  <2>4. \A k \in T : \E i \in S : f[i] = k
    BY <1>9, <2>1
  <2> HIDE DEF S, T
  <2>5. f \in Surjection(S, T)
    BY <2>2, <2>4 DEF Surjection
  <2>6. f \in Injection(S, T)
    BY <2>3, <2>5, FS_SurjSameCardinalityImpliesInj
  <2>7. \A i, j \in S : f[i] = f[j] => i = j
    BY <2>6 DEF Injection, IsInjective
  <2>8. DOMAIN waited = S
    BY <1>8 DEF S
  <2> QED
    BY <2>1, <2>7, <2>8 DEF OneEach
<1>11. N = Max({0} \cup {waited[i].chunk_index + 1 : i \in DOMAIN waited})
  <2> DEFINE S == {0} \cup {waited[i].chunk_index + 1 : i \in DOMAIN waited}
  <2>1. \A n \in S : n \in Nat /\ n <= N
    BY <1>1, <1>8
  <2>2. N \in S
    <3>1. CASE N = 0
      BY <3>1
    <3>2. CASE N # 0
      <4>1. N - 1 \in 0 .. N - 1 /\ N - 1 + 1 = N
        BY <1>1, <3>2
      <4>2. PICK i \in 1 .. N : waited[i].chunk_index = N - 1
        BY <1>9, <4>1
      <4>3. i \in DOMAIN waited /\ waited[i].chunk_index + 1 = N
        BY <1>8, <4>1, <4>2
      <4> QED
        BY <4>3
    <3> QED
      BY <3>1, <3>2
  <2> HIDE DEF S
  <2>3. Max(S) \in S /\ \A n \in S : n <= Max(S)
    <3>1. S \subseteq Nat /\ S # {} /\ \A n \in S : n <= N
      BY <2>1, <2>2
    <3> QED
      BY <1>1, <3>1, MaxIs
  <2>4. Max(S) = N
    <3> DEFINE max == Max(S)
    <3>1. max \in Nat /\ max <= N /\ N <= max
      BY <2>1, <2>2, <2>3
    <3> HIDE DEF max
    <3> QED
      BY <1>1, <3>1 DEF max
  <2> QED
    BY <2>4 DEF S
<1> QED
  BY <1>1, <1>3, <1>5, <1>7, <1>10, <1>11

TailOf(audio, K) == Slice(audio, TailStart(config, K), Len(audio))
WithTail(audio, waited, K) == Append(waited, Result(K, TailOf(audio, K)))

(* The tail comes after every chunk, and ends with the audio.              *)
LEMMA TailCovers ==
  ASSUME EagerTypeOK, NEW audio \in Text, NEW K \in Nat, NEW waited \in Seq(Results),
         Heard(audio, waited), OneEach(waited), IndicesOf(waited) = 0 .. K - 1,
         HasTail(config, Len(audio), K)
  PROVE  /\ WithTail(audio, waited, K) \in Seq(Results)
         /\ Covers(audio, WithTail(audio, waited, K))
         /\ OneEach(WithTail(audio, waited, K))
         /\ DOMAIN WithTail(audio, waited, K) = 1 .. Len(waited) + 1
         /\ WithTail(audio, waited, K)[Len(waited) + 1] = Result(K, TailOf(audio, K))
         /\ \A i \in 1 .. Len(waited) : WithTail(audio, waited, K)[i] = waited[i]
<1> DEFINE r == WithTail(audio, waited, K)
           tail == TailOf(audio, K)
           a == TailStart(config, K)
           L == Len(audio)
           m == Len(waited)
           last == Result(K, tail)
<1>1. a \in Nat /\ a = ChunkStart(config, K) /\ L \in Nat /\ a < L
  BY ConfigIsSound, TextFacts DEF HasTail
<1>2. tail \in Text /\ Len(tail) = L - a /\ \A i \in 1 .. L - a : tail[i] = audio[a + i]
  <2> HIDE DEF a, L
  <2>1. L = Len(audio) /\ a <= L
    BY <1>1 DEF L
  <2>2. tail = Slice(audio, a, L)
    BY DEF a, L, TailOf
  <2>3. a \in Nat /\ L \in Nat /\ a <= L /\ L <= Len(audio)
    BY <1>1, <2>1
  <2>4. /\ Slice(audio, a, L) \in Text /\ Len(Slice(audio, a, L)) = L - a
        /\ \A i \in 1 .. L - a : Slice(audio, a, L)[i] = audio[a + i]
    BY <2>3, SliceIs
  <2> QED
    BY <2>2, <2>4
<1>3. last \in Results /\ last.chunk_index = K /\ last.text = tail
  BY <1>2 DEF Result, Results
<1>4. m \in Nat /\ DOMAIN waited = 1 .. m /\ \A i \in 1 .. m : waited[i] \in Results
  BY LenProperties, ElementOfSeq
<1>0. r = Append(waited, last)
  BY DEF WithTail
<1> HIDE DEF a, L, m, last, r
<1>5. /\ r \in Seq(Results) /\ Len(r) = m + 1
      /\ \A i \in 1 .. m : r[i] = waited[i]
      /\ r[m + 1] = last
  BY <1>3, <1>0, AppendProperties DEF m
<1>6. DOMAIN r = 1 .. m + 1
  BY <1>4, <1>5, LenProperties
<1>7. \A i \in 1 .. m : waited[i].chunk_index \in 0 .. K - 1
  BY <1>4 DEF IndicesOf
<1>8. /\ Covers(audio, waited)
      /\ \A i \in 1 .. m : Ends(waited[i]) <= L
  BY <1>4, HeardCovers DEF L
<1>9. Starts(last) = a /\ Ends(last) = L
  <2>1. Starts(last) = a
    BY <1>1, <1>3 DEF Starts
  <2>2. Ends(last) = a + (L - a)
    BY <1>2, <1>3, <2>1 DEF Ends
  <2> QED
    BY <1>1, <2>1, <2>2
<1>10. Segment(audio, last.text, Starts(last))
  <2>1. a + Len(tail) <= L /\ \A i \in 1 .. Len(tail) : tail[i] = audio[a + i]
    BY <1>1, <1>2
  <2> QED
    BY <1>1, <1>2, <1>3, <1>9, <2>1 DEF Segment, L
<1>11. ASSUME NEW i \in 1 .. m PROVE Starts(waited[i]) <= a
  <2> DEFINE k == waited[i].chunk_index
             s == StrideSamples(config)
  <2>1. k \in Nat /\ k <= K
    BY <1>7
  <2>2. s \in Nat
    BY ConfigIsSound, StrideIs
  <2>3. Starts(waited[i]) = k * s /\ a = K * s
    BY <1>1 DEF Starts, ChunkStart
  <2> HIDE DEF k, s
  <2>4. k * s <= K * s
    BY <2>1, <2>2, Times
  <2> QED
    BY <2>3, <2>4
<1>12. \A i \in DOMAIN r : (i \in 1 .. m /\ r[i] = waited[i] /\ r[i].chunk_index \in 0 .. K - 1)
                             \/ (i = m + 1 /\ r[i] = last)
  BY <1>4, <1>5, <1>6, <1>7
<1>13. \A n \in 0 .. K - 1 : n < K /\ ~(K < n) /\ n # K
  OBVIOUS
<1>14. ASSUME NEW i \in DOMAIN r PROVE Segment(audio, r[i].text, Starts(r[i]))
  BY <1>4, <1>8, <1>10, <1>12 DEF Covers
<1>15. ASSUME NEW i \in DOMAIN r, NEW j \in DOMAIN r, r[i].chunk_index < r[j].chunk_index
       PROVE  /\ Starts(r[i]) <= Starts(r[j])
              /\ r[i].text # <<>> /\ r[j].text # <<>> => Ends(r[i]) <= Ends(r[j])
  <2>1. CASE i = m + 1 /\ r[i] = last
    <3>1. ~(K < r[j].chunk_index)
      BY <1>3, <1>12, <1>13
    <3> QED
      BY <1>3, <1>15, <2>1, <3>1
  <2>2. CASE i \in 1 .. m /\ r[i] = waited[i]
    <3>1. CASE j \in 1 .. m /\ r[j] = waited[j]
      BY <1>4, <1>8, <1>15, <2>2, <3>1 DEF Covers
    <3>2. CASE j = m + 1 /\ r[j] = last
      BY <1>8, <1>9, <1>11, <2>2, <3>2
    <3> QED
      BY <1>12, <3>1, <3>2
  <2> QED
    BY <1>12, <2>1, <2>2
<1>16. Covers(audio, r)
  BY <1>14, <1>15 DEF Covers
<1>17. OneEach(r)
  BY <1>3, <1>4, <1>12, <1>13 DEF OneEach
<1> QED
  BY <1>4, <1>5, <1>6, <1>16, <1>17 DEF m, last, r

(* What is in the results of a recording: every chunk, and the tail if     *)
(* there is one more of them.                                              *)
AllOf(audio, results) ==
  /\ \A k \in 0 .. chunks_sent - 1 :
       /\ CanExtract(config, Len(audio), k)
       /\ \E i \in DOMAIN results : results[i].text \in {ExtractChunk(audio, k), <<>>}
  /\ \/ Len(results) = chunks_sent
     \/ \E i \in DOMAIN results :
          results[i].text = Slice(audio, TailStart(config, chunks_sent), Len(audio))

DoneRight ==
  phase = "done" =>
    /\ ToSet(combined) = HeardWords
    /\ \E e \in Nat : e <= Len(accumulated_audio) /\ PicksFrom(combined, accumulated_audio, e)
    /\ AllOf(accumulated_audio, chunk_results)

LEMMA ChunksAreThere ==
  ASSUME EagerTypeOK, NEW audio \in Text, NEW waited \in Seq(Results),
         Heard(audio, waited), IndicesOf(waited) = 0 .. chunks_sent - 1
  PROVE  \A k \in 0 .. chunks_sent - 1 :
           /\ CanExtract(config, Len(audio), k)
           /\ \E i \in DOMAIN waited : waited[i].text \in {ExtractChunk(audio, k), <<>>}
<1> SUFFICES ASSUME NEW k \in 0 .. chunks_sent - 1
             PROVE  /\ CanExtract(config, Len(audio), k)
                    /\ \E i \in DOMAIN waited :
                         waited[i].text \in {ExtractChunk(audio, k), <<>>}
  OBVIOUS
<1>1. PICK i \in DOMAIN waited : waited[i].chunk_index = k
  BY DEF IndicesOf
<1> QED
  BY <1>1 DEF Heard

LEMMA FinishStep ==
  ASSUME EagerTypeOK, Unfinished, Finish
  PROVE  EagerTypeOK' /\ Unfinished' /\ DoneRight'
<1> DEFINE audio == accumulated_audio
           K == chunks_sent
           waited == chunk_results \o ResultsOf(eager_chunk_tasks)
           tail == Slice(audio, TailStart(config, K), Len(audio))
           longer == Append(waited, Result(K, tail))
<1>1. /\ phase = "finishing" /\ phase' = "done" /\ eager_chunk_tasks' = <<>>
      /\ UNCHANGED <<config, spoken, captured, transcriber, accumulated_audio, chunks_sent,
                     tasks_in_flight>>
  BY DEF Finish, speech
<1>2. audio \in Text /\ K \in Nat
  BY DEF EagerTypeOK
<1>3. /\ waited \in Seq(Results) /\ Len(waited) = K
      /\ Heard(audio, waited) /\ IndicesOf(waited) = 0 .. K - 1 /\ OneEach(waited)
      /\ K = Max({0} \cup {waited[i].chunk_index + 1 : i \in DOMAIN waited})
  BY <1>1, WaitedIs
<1>4. \E r \in {waited, longer} :
        /\ r # waited => HasTail(config, Len(audio), K)
        /\ chunk_results' = r /\ combined' = CombineChunkResults(r)
  <2> DEFINE results == IF HasTail(config, Len(audio), K) THEN {waited, longer} ELSE {waited}
  <2>1. \E r \in results : chunk_results' = r /\ combined' = CombineChunkResults(r)
    BY <1>3, Zenon DEF Finish
  <2> HIDE DEF audio, K, waited, longer
  <2> QED
    BY <2>1
<1> HIDE DEF audio, waited, tail, longer
<1>5. PICK r \in {waited, longer} :
        /\ r # waited => HasTail(config, Len(audio), K)
        /\ chunk_results' = r /\ combined' = CombineChunkResults(r)
  BY <1>4
<1>6. \A k \in 0 .. K - 1 :
        /\ CanExtract(config, Len(audio), k)
        /\ \E i \in DOMAIN waited : waited[i].text \in {ExtractChunk(audio, k), <<>>}
  BY <1>2, <1>3, ChunksAreThere
<1>7. r \in Seq(Results) /\ Covers(audio, r) /\ OneEach(r) /\ AllOf(audio, r)
  <2>1. CASE r = waited
    <3>1. Covers(audio, waited)
      BY <1>2, <1>3, HeardCovers
    <3> QED
      BY <1>3, <1>6, <2>1, <3>1 DEF AllOf
  <2>2. CASE r # waited
    <3>1. r = WithTail(audio, waited, K) /\ HasTail(config, Len(audio), K)
      BY <1>5, <2>2 DEF longer, WithTail, TailOf, tail
    <3>2. tail = Slice(audio, TailStart(config, K), Len(audio)) /\ tail = TailOf(audio, K)
      BY DEF tail, TailOf
    <3>3. /\ r \in Seq(Results) /\ Covers(audio, r) /\ OneEach(r)
          /\ r[Len(waited) + 1] = Result(K, tail)
          /\ DOMAIN r = 1 .. Len(waited) + 1 /\ \A i \in 1 .. Len(waited) : r[i] = waited[i]
      <4> DEFINE w == WithTail(audio, waited, K)
      <4>1. /\ w \in Seq(Results) /\ Covers(audio, w) /\ OneEach(w)
            /\ DOMAIN w = 1 .. Len(waited) + 1
        BY <1>2, <1>3, <3>1, TailCovers
      <4>2. w[Len(waited) + 1] = Result(K, TailOf(audio, K))
        BY <1>2, <1>3, <3>1, TailCovers
      <4>3. \A i \in 1 .. Len(waited) : w[i] = waited[i]
        BY <1>2, <1>3, <3>1, TailCovers
      <4>4. r = w
        BY <3>1
      <4> HIDE DEF w
      <4> QED
        BY <3>2, <4>1, <4>2, <4>3, <4>4
    <3>4. DOMAIN waited = 1 .. K
      BY <1>3, LenProperties
    <3>5. \A i \in DOMAIN waited : i \in DOMAIN r /\ r[i] = waited[i]
      <4>1. \A i \in 1 .. K : i \in 1 .. K + 1
        BY <1>2
      <4>2. DOMAIN r = 1 .. K + 1
        BY <1>3, <3>3
      <4> QED
        BY <1>3, <3>3, <3>4, <4>1, <4>2
    <3>6. K + 1 \in DOMAIN r /\ r[K + 1].text = tail
      BY <1>2, <1>3, <3>3 DEF Result
    <3>7. \A k \in 0 .. K - 1 :
            /\ CanExtract(config, Len(audio), k)
            /\ \E i \in DOMAIN r : r[i].text \in {ExtractChunk(audio, k), <<>>}
      BY <1>6, <3>5
    <3>8. AllOf(audio, r)
      BY <3>2, <3>6, <3>7 DEF AllOf
    <3> QED
      BY <3>3, <3>8
  <2> QED
    BY <2>1, <2>2
<1>8. /\ combined' \in Text
      /\ \E e \in Nat : e <= Len(audio) /\ PicksFrom(combined', audio, e)
      /\ ToSet(combined') = UNION {ToSet(r[i].text) : i \in DOMAIN r}
  BY <1>2, <1>5, <1>7, CombinedInOrder
<1>9. EagerTypeOK'
  BY <1>1, <1>5, <1>7, <1>8, EmptySeq DEF EagerTypeOK
<1>10. DoneRight'
  <2>1. ToSet(combined') = HeardWords'
    BY <1>5, <1>8 DEF HeardWords
  <2>2. AllOf(accumulated_audio, chunk_results)'
    BY <1>1, <1>5, <1>7 DEF AllOf, ExtractChunk, audio
  <2>3. (\E e \in Nat : e <= Len(accumulated_audio) /\ PicksFrom(combined, accumulated_audio, e))'
    BY <1>1, <1>8 DEF audio, PicksFrom
  <2> QED
    BY <2>1, <2>2, <2>3 DEF DoneRight
<1>11. EveryChunkOnce' /\ ResultsRight'
  BY <1>1 DEF EveryChunkOnce, ResultsRight
<1>12. TasksRight'
  <2>1. DOMAIN <<>> = {}
    OBVIOUS
  <2> QED
    BY <1>1, <2>1 DEF TasksRight, Held
<1>13. SpokenRight' /\ Numbered'
  BY <1>1 DEF Unfinished, SpokenRight, Numbered
<1> QED
  BY <1>9, <1>10, <1>11, <1>12, <1>13 DEF Unfinished

LEMMA DoneStays ==
  ASSUME DoneRight, [EagerNext]_eagerVars, ~Finish
  PROVE  DoneRight'
<1> SUFFICES ASSUME phase' = "done" PROVE DoneRight'
  BY DEF DoneRight
<1>1. UNCHANGED <<config, accumulated_audio, chunks_sent, chunk_results, phase, combined>>
  <2>1. CASE TaskReturns
    BY <2>1 DEF TaskReturns, speech
  <2>2. CASE UNCHANGED eagerVars
    BY <2>2 DEF eagerVars, speech
  <2>3. ~Speak /\ ~RecordingTick /\ ~StopEager
    BY DEF Speak, RecordingTick, StopEager
  <2> QED
    BY <2>1, <2>2, <2>3 DEF EagerNext
<1>2. UNCHANGED HeardWords
  BY <1>1 DEF HeardWords
<1>3. (AllOf(accumulated_audio, chunk_results))' = AllOf(accumulated_audio, chunk_results)
  BY <1>1 DEF AllOf, ExtractChunk
<1>4. (\E e \in Nat : e <= Len(accumulated_audio) /\ PicksFrom(combined, accumulated_audio, e))'
        = (\E e \in Nat : e <= Len(accumulated_audio) /\ PicksFrom(combined, accumulated_audio, e))
  BY <1>1 DEF PicksFrom
<1> QED
  BY <1>1, <1>2, <1>3, <1>4 DEF DoneRight

EagerRight == EagerTypeOK /\ Unfinished /\ DoneRight

LEMMA EagerInvariant == EagerSpec => []EagerRight
<1>1. EagerInit => EagerRight
  <2> SUFFICES ASSUME EagerInit PROVE EagerRight
    OBVIOUS
  <2>1. phase = "recording"
    BY DEF EagerInit
  <2> QED
    BY <2>1, EagerInitRight DEF EagerRight, DoneRight
<1>2. EagerRight /\ [EagerNext]_eagerVars => EagerRight'
  <2> SUFFICES ASSUME EagerRight, [EagerNext]_eagerVars PROVE EagerRight'
    OBVIOUS
  <2>0. EagerTypeOK /\ Unfinished /\ DoneRight
    BY DEF EagerRight
  <2>1. CASE Finish
    BY <2>0, <2>1, FinishStep DEF EagerRight
  <2>2. CASE ~Finish
    <3>1. DoneRight'
      BY <2>0, <2>2, DoneStays
    <3>2. EagerTypeOK' /\ Unfinished'
      <4>1. CASE Speak
        BY <2>0, <4>1, SpeakStep
      <4>2. CASE RecordingTick
        BY <2>0, <4>2, TickStep
      <4>3. CASE TaskReturns
        BY <2>0, <4>3, ReturnStep
      <4>4. CASE StopEager
        BY <2>0, <4>4, StopStep
      <4>5. CASE UNCHANGED eagerVars
        BY <2>0, <4>5
        DEF eagerVars, speech, EagerTypeOK, Unfinished, EveryChunkOnce, TasksRight, Held,
            ResultsRight, Heard, ExtractChunk, SpokenRight, Numbered
      <4> QED
        BY <2>2, <4>1, <4>2, <4>3, <4>4, <4>5 DEF EagerNext
    <3> QED
      BY <3>1, <3>2 DEF EagerRight
  <2> QED
    BY <2>1, <2>2
<1> QED
  BY <1>1, <1>2, PTL DEF EagerSpec

(* The state of an eager recording is well formed, for every geometry and  *)
(* any number of words (EagerRecording in src/src/state.rs).               *)
THEOREM EagerTypeCorrect == EagerSpec => []EagerTypeOK
<1>1. EagerRight => EagerTypeOK
  BY DEF EagerRight
<1> QED
  BY <1>1, EagerInvariant, PTL

(* Each chunk sent is in one task or in one result, in whatever order the  *)
(* tasks end and whichever tick collects them (poll_chunk_tasks).          *)
THEOREM ChunksOnce == EagerSpec => []EveryChunkOnce
<1>1. EagerRight => EveryChunkOnce
  BY DEF EagerRight, Unfinished
<1> QED
  BY <1>1, EagerInvariant, PTL

(* What was heard was spoken, in that order.                               *)
LEMMA HeardWasSpoken ==
  ASSUME EagerRight
  PROVE  /\ Len(accumulated_audio) \in Nat /\ Len(combined) \in Nat
         /\ DOMAIN combined = 1 .. Len(combined)
         /\ DOMAIN accumulated_audio = 1 .. Len(accumulated_audio)
         /\ \A i \in 1 .. Len(accumulated_audio) :
              i \in DOMAIN spoken /\ spoken[i] = accumulated_audio[i]
<1>1. accumulated_audio \in Text /\ combined \in Text
  BY DEF EagerRight, EagerTypeOK
<1>2. PICK rest \in Text : spoken = accumulated_audio \o rest
  BY DEF EagerRight, Unfinished, SpokenRight
<1> DEFINE m == Len(accumulated_audio)
           n == Len(rest)
<1>3. m \in Nat /\ n \in Nat
  BY <1>1, TextFacts
<1>4. /\ spoken \in Text /\ Len(spoken) = m + n
      /\ \A i \in 1 .. m + n :
           spoken[i] = IF i <= m THEN accumulated_audio[i] ELSE rest[i - m]
  BY <1>1, <1>2, ConcatProperties DEF Text
<1>5. DOMAIN spoken = 1 .. m + n
  BY <1>4, TextFacts
<1> HIDE DEF m, n
<1>6. \A i \in 1 .. m : i \in 1 .. m + n /\ i <= m
  BY <1>3
<1>7. \A i \in 1 .. m : i \in DOMAIN spoken /\ spoken[i] = accumulated_audio[i]
  BY <1>4, <1>5, <1>6
<1> QED
  BY <1>1, <1>7, TextFacts DEF m

(* deduplicate_boundary leaves no word doubled, whatever was repeated in   *)
(* the speech and whichever transcriptions failed: the text is what        *)
(* remains of the speech when some of its words are left out.              *)
THEOREM NoneDoubled == EagerSpec => []NoWordIsDoubled
<1>1. EagerRight => NoWordIsDoubled
  <2> SUFFICES ASSUME EagerRight, phase = "done" PROVE IsSubsequence(combined, spoken)
    BY DEF NoWordIsDoubled
  <2> DEFINE m == Len(accumulated_audio)
             N == Len(combined)
  <2>1. /\ m \in Nat /\ N \in Nat /\ DOMAIN combined = 1 .. N
        /\ \A i \in 1 .. m : i \in DOMAIN spoken /\ spoken[i] = accumulated_audio[i]
    BY HeardWasSpoken
  <2>2. PICK e \in Nat : e <= m /\ PicksFrom(combined, accumulated_audio, e)
    BY DEF EagerRight, DoneRight
  <2> HIDE DEF m
  <2>3. PICK place \in [1 .. N -> 1 .. e] :
          /\ \A i, j \in 1 .. N : i < j => place[i] < place[j]
          /\ \A i \in 1 .. N : combined[i] = accumulated_audio[place[i]]
    BY <2>2 DEF PicksFrom
  <2> HIDE DEF N
  <2>4. \A i \in 1 .. N : place[i] \in 1 .. m
    BY <2>1, <2>2, <2>3
  <2>5. place \in [DOMAIN combined -> DOMAIN spoken]
    BY <2>1, <2>3, <2>4
  <2>6. \A i \in 1 .. N : combined[i] = spoken[place[i]]
    BY <2>1, <2>3, <2>4
  <2> QED
    BY <2>1, <2>3, <2>5, <2>6 DEF IsSubsequence
<1> QED
  BY <1>1, EagerInvariant, PTL

(* If no word was spoken twice the text of finish_eager_recording is the   *)
(* words heard, each once and in order, whichever transcriptions failed.   *)
THEOREM TextHeard == EagerSpec => []TextIsWhatWasHeard
<1>1. EagerRight => TextIsWhatWasHeard
  <2> SUFFICES ASSUME EagerRight, phase = "done", IsInjective(spoken)
               PROVE  /\ ToSet(combined) = HeardWords
                      /\ \A i, j \in DOMAIN combined : i < j => combined[i] < combined[j]
    BY DEF TextIsWhatWasHeard
  <2> DEFINE m == Len(accumulated_audio)
             N == Len(combined)
  <2>1. /\ m \in Nat /\ N \in Nat /\ DOMAIN combined = 1 .. N
        /\ \A i \in 1 .. m : i \in DOMAIN spoken /\ spoken[i] = accumulated_audio[i]
    BY HeardWasSpoken
  <2>2. PICK e \in Nat : e <= m /\ PicksFrom(combined, accumulated_audio, e)
    BY DEF EagerRight, DoneRight
  <2>3. \A i \in DOMAIN spoken : spoken[i] = i
    BY DEF EagerRight, Unfinished, Numbered
  <2> HIDE DEF m
  <2>4. PICK place \in [1 .. N -> 1 .. e] :
          /\ \A i, j \in 1 .. N : i < j => place[i] < place[j]
          /\ \A i \in 1 .. N : combined[i] = accumulated_audio[place[i]]
    BY <2>2 DEF PicksFrom
  <2> HIDE DEF N
  <2>5. \A i \in 1 .. N : place[i] \in 1 .. m
    BY <2>1, <2>2, <2>4
  <2>6. \A i \in 1 .. N : combined[i] = place[i]
    BY <2>1, <2>3, <2>4, <2>5
  <2>7. \A i, j \in DOMAIN combined : i < j => combined[i] < combined[j]
    BY <2>1, <2>4, <2>6
  <2> QED
    BY <2>7 DEF EagerRight, DoneRight
<1> QED
  BY <1>1, EagerInvariant, PTL

(* A word of the audio after word a, in a text that has the words from     *)
(* there on.                                                               *)
LEMMA WordIsHeard ==
  ASSUME NEW audio, NEW t \in Text, NEW a \in Nat, NEW l \in Nat, Len(t) = l,
         \A i \in 1 .. l : t[i] = audio[a + i],
         NEW p \in Nat, a < p, p <= a + l,
         NEW i \in DOMAIN chunk_results, chunk_results[i].text = t
  PROVE  audio[p] \in HeardWords
<1>1. p - a \in 1 .. l /\ a + (p - a) = p
  OBVIOUS
<1>2. DOMAIN t = 1 .. l
  BY TextFacts
<1>3. t[p - a] = audio[p]
  BY <1>1
<1>4. audio[p] \in ToSet(t)
  BY <1>1, <1>2, <1>3 DEF ToSet
<1> QED
  BY <1>4 DEF HeardWords

(* No audio falls between chunks and tail (extract_chunk, the tail of      *)
(* finish_eager_recording), for every geometry whose overlap is not        *)
(* shorter than the least tail.                                            *)
THEOREM AudioCovered == EagerSpec => []NoAudioIsSkipped
<1>1. EagerRight => NoAudioIsSkipped
  <2> DEFINE audio == accumulated_audio
             L == Len(audio)
             K == chunks_sent
             s == StrideSamples(config)
             c == config.chunk
             o == config.overlap
             least == config.min_tail
  <2> SUFFICES ASSUME EagerRight, phase = "done", NothingFailed, least <= o, least <= L,
                      NEW p \in 1 .. L
               PROVE  audio[p] \in HeardWords
    <3> HIDE DEF audio
    <3>1. EagerRight => audio \in Text
      BY DEF EagerRight, EagerTypeOK, audio
    <3>2. EagerRight => least \in Nat /\ L \in Nat
      BY <3>1, TextFacts, ConfigIsSound, StrideIs DEF EagerRight
    <3>3. ASSUME EagerRight, \A p \in 1 .. L : audio[p] \in HeardWords
          PROVE  ToSet(audio) \subseteq HeardWords
      BY <3>1, <3>3, TextFacts DEF ToSet
    <3> QED
      BY <3>2, <3>3 DEF NoAudioIsSkipped, audio
  <2>1. EagerTypeOK /\ audio \in Text /\ L \in Nat /\ K \in Nat /\ p \in Nat /\ p <= L /\ 0 < p
    BY TextFacts DEF EagerRight, EagerTypeOK
  <2>2. /\ s \in Nat /\ 0 < s /\ c \in Nat /\ o \in Nat /\ least \in Nat /\ s + o = c
    BY <2>1, ConfigIsSound, StrideIs
  <2>3. \A k \in Nat : ChunkStart(config, k) = k * s /\ TailStart(config, k) = k * s /\ k * s \in Nat
    BY <2>2, Times DEF ChunkStart, TailStart
  <2>4. AllOf(audio, chunk_results)
    BY DEF EagerRight, DoneRight
  <2>5. ASSUME NEW k \in Nat, k < K, k * s < p, p <= k * s + c
        PROVE  audio[p] \in HeardWords
    <3> DEFINE t == ExtractChunk(audio, k)
    <3>0. k \in 0 .. K - 1
      BY <2>1, <2>5
    <3>1. /\ CanExtract(config, L, k)
          /\ \E i \in DOMAIN chunk_results : chunk_results[i].text \in {t, <<>>}
      BY <2>4, <3>0 DEF AllOf
    <3>2. PICK i \in DOMAIN chunk_results : chunk_results[i].text = t
      BY <3>1 DEF NothingFailed
    <3>3. /\ t \in Text /\ Len(t) = c
          /\ \A j \in 1 .. c : t[j] = audio[ChunkStart(config, k) + j]
      BY <2>1, <3>1, ExtractIs
    <3> DEFINE a == k * s
    <3>4. a \in Nat /\ ChunkStart(config, k) = a /\ a < p /\ p <= a + c
      BY <2>3, <2>5
    <3> HIDE DEF a, t, audio, c
    <3>5. \A j \in 1 .. c : t[j] = audio[a + j]
      BY <3>3, <3>4
    <3> QED
      BY <2>1, <2>2, <3>2, <3>3, <3>4, <3>5, WordIsHeard
  <2>6. CASE K * s < p /\ HasTail(config, L, K)
    <3> DEFINE a == K * s
               t == Slice(audio, TailStart(config, K), L)
    <3>1. Len(chunk_results) = K + 1
      BY <2>6 DEF NothingFailed
    <3>2. PICK i \in DOMAIN chunk_results : chunk_results[i].text = t
      BY <2>1, <2>4, <3>1 DEF AllOf
    <3>3. a \in Nat /\ TailStart(config, K) = a /\ a < p /\ a <= L
      BY <2>1, <2>3, <2>6
    <3> HIDE DEF a
    <3>4. /\ t \in Text /\ Len(t) = L - a
          /\ \A j \in 1 .. L - a : t[j] = audio[a + j]
      <4>1. t = Slice(audio, a, L)
        BY <3>3
      <4> HIDE DEF t
      <4>2. L = Len(audio) /\ L <= L
        BY <2>1
      <4> HIDE DEF audio, L
      <4> QED
        BY <2>1, <3>3, <4>1, <4>2, SliceIs
    <3> DEFINE l == L - a
    <3>5. l \in Nat /\ p <= a + l
      BY <2>1, <3>3
    <3> HIDE DEF t, audio, l
    <3>6. Len(t) = l /\ \A j \in 1 .. l : t[j] = audio[a + j]
      BY <3>4 DEF l
    <3> QED
      BY <2>1, <3>2, <3>3, <3>4, <3>5, <3>6, WordIsHeard
  <2>7. CASE K * s < p /\ ~HasTail(config, L, K)
    <3> DEFINE k == K - 1
    <3>1. K * s < L /\ L - K * s < least
      <4> DEFINE b == TailStart(config, K)
      <4>1. b = K * s /\ b \in Nat
        BY <2>1, <2>3
      <4> HIDE DEF b
      <4>2. b < L
        BY <2>1, <2>7, <4>1
      <4>3. ~(b < L /\ L - b >= least)
        BY <2>7 DEF HasTail, b
      <4> HIDE DEF L, least
      <4> QED
        BY <2>1, <2>2, <4>1, <4>2, <4>3
    <3>2. K # 0
      <4>1. 0 * s = 0
        BY <2>2
      <4> QED
        BY <2>1, <2>2, <3>1, <4>1
    <3>3. k \in Nat /\ k < K /\ k + 1 = K
      BY <2>1, <3>2
    <3> HIDE DEF k
    <3>4. (k + 1) * s = k * s + s /\ k * s \in Nat
      BY <2>2, <3>3, Times
    <3>5. k * s < p /\ p <= k * s + c
      <4> DEFINE a == k * s
                 b == K * s
      <4>1. a \in Nat /\ b = a + s
        BY <3>3, <3>4
      <4>2. b < p /\ L - b < least
        BY <2>7, <3>1
      <4> HIDE DEF a, b, s, c, o, least, L
      <4>3. a < p /\ p <= a + c
        BY <2>1, <2>2, <4>1, <4>2
      <4> QED
        BY <4>3 DEF a
    <3> QED
      BY <2>5, <3>3, <3>5
  <2>8. CASE p <= K * s
    <3> DEFINE q == p - 1
               k == q \div s
    <3>1. q \in Nat /\ q + 1 = p
      BY <2>1
    <3> HIDE DEF q
    <3>2. k \in Nat /\ k * s <= q /\ q < k * s + s /\ k * s \in Nat
      BY <2>2, <3>1
    <3> HIDE DEF k
    <3>3. k < K
      <4>1. K <= k => K * s <= k * s
        BY <2>1, <2>2, <3>2, Times
      <4> QED
        BY <2>1, <2>3, <2>8, <3>1, <3>2, <4>1
    <3>4. k * s < p /\ p <= k * s + c
      <4> DEFINE a == k * s
      <4>1. a \in Nat /\ a <= q /\ q < a + s
        BY <3>2
      <4> HIDE DEF a, s, c, o
      <4>2. a < p /\ p <= a + c
        BY <2>1, <2>2, <3>1, <4>1
      <4> QED
        BY <4>2 DEF a
    <3> QED
      BY <2>5, <3>2, <3>3, <3>4
  <2>9. K * s \in Nat
    BY <2>1, <2>3
  <2> QED
    BY <2>1, <2>6, <2>7, <2>8, <2>9
<1> QED
  BY <1>1, EagerInvariant, PTL

=============================================================================
