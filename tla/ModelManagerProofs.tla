------------------------- MODULE ModelManagerProofs -------------------------
(***************************************************************************)
(* Theorems about ModelManager, for every set of models, every limit of    *)
(* the cache and every number of recordings.                               *)
(***************************************************************************)
EXTENDS ModelManager, FiniteSetTheorems, TLAPS

(* What the map holds under a key.                                         *)
Loaded == [transcriber : Transcribers, last_used : Nat, is_primary : BOOLEAN]

Fits(k, entry) ==
  /\ entry \in Loaded
  /\ entry.transcriber.how = k[1]
  /\ entry.transcriber.model = k[2]

MapOK(map) == DOMAIN map \subseteq Keys /\ \A k \in DOMAIN map : Fits(k, map[k])

(* The part of TypeOK that is not about the map.                           *)
TasksOK ==
  /\ gpu_isolation \in BOOLEAN
  /\ eager_processing \in BOOLEAN
  /\ cancel_key \in BOOLEAN
  /\ clock \in Nat
  /\ whisper_prepare_task \in Transcribers \cup {NoTranscriber}
  /\ preparing \subseteq Transcribers
  /\ ready \subseteq Transcribers
  /\ spawning \subseteq Tasks
  /\ transcribing \subseteq Tasks
  /\ eager_transcriber \in Transcribers \cup {NoTranscriber}
  /\ state \in {"idle", "recording", "eager", "waiting", "tail", "transcribing"}
  /\ requested \in Models
  /\ hybrid \in BOOLEAN
  /\ active \in IF state \in {"idle", "recording", "eager"} THEN {NoTask} ELSE Tasks
  /\ recordings \in 0 .. MaxRecordings
  /\ chunks \in 0 .. MaxChunks

LEMMA TypeParts == TypeOK <=> MapOK(loaded_models) /\ TasksOK
BY DEF TypeOK, MapOK, Fits, Loaded, TasksOK

(* Helpers of the map.                                                     *)
LEMMA WithoutFits ==
  ASSUME MapOK(loaded_models), NEW gone
  PROVE  /\ MapOK(Without(gone))
         /\ DOMAIN Without(gone) = DOMAIN loaded_models \ gone
         /\ \A k \in DOMAIN Without(gone) : Without(gone)[k] = loaded_models[k]
BY DEF MapOK, Without, Restrict

LEMMA WithFits ==
  ASSUME NEW map, MapOK(map), NEW key \in Keys, NEW entry, Fits(key, entry)
  PROVE  /\ MapOK(With(map, key, entry))
         /\ DOMAIN With(map, key, entry) = DOMAIN map \cup {key}
         /\ With(map, key, entry)[key] = entry
         /\ \A k \in DOMAIN map \ {key} : With(map, key, entry)[k] = map[k]
BY DEF MapOK, With

LEMMA NewTranscriber ==
  ASSUME TasksOK, NEW m \in Models, NEW how \in {"cached", "prepared", "fresh"}
  PROVE  /\ Transcriber(m, how) \in Transcribers
         /\ Transcriber(m, how).model = m
         /\ Transcriber(m, how).how = how
         /\ Transcriber(m, how).made = recordings
BY DEF TasksOK, Transcriber, Transcribers

LEMMA ModelIsAvailable ==
  ASSUME NEW m \in Models
  PROVE  Model(m) \in Available /\ Model(m) \in Models
BY ModelManagerAssumption DEF Model, IsModelAvailable

LEMMA NewTask ==
  ASSUME TasksOK, NEW t \in Transcribers, NEW chunk \in 0 .. MaxChunks
  PROVE  /\ Task(t, chunk) \in Tasks
         /\ Task(t, chunk).transcriber = t
         /\ Task(t, chunk).recording = recordings
         /\ Task(t, chunk).chunk = chunk
BY DEF TasksOK, Task, Tasks

LEMMA RunType ==
  ASSUME TasksOK, NEW task \in Tasks, Run(task)
  PROVE  /\ ready' = ready \ {task.transcriber}
         /\ spawning' \subseteq spawning \cup {task} /\ spawning' \subseteq Tasks
         /\ transcribing' \subseteq transcribing \cup {task} /\ transcribing' \subseteq Tasks
         /\ \/ spawning' = spawning
            \/ gpu_isolation /\ task.transcriber \notin ready
BY DEF Run, TasksOK

LEMMA BeginType ==
  ASSUME TasksOK, NEW t \in Transcribers, Begin(t)
  PROVE  \/ /\ state' = "transcribing" /\ active' = Task(t, 0) /\ active' \in Tasks
            /\ Run(Task(t, 0))
         \/ state' = "idle" /\ active' = NoTask /\ UNCHANGED <<ready, tasks>>
<1>1. 0 \in 0 .. MaxChunks
  BY ModelManagerAssumption
<1> QED
  BY <1>1, NewTask DEF Begin

(* What get_prepared_transcriber does to the map, and what it gives.       *)
LEMMA GetType ==
  ASSUME TypeOK, NEW t, GetPrepared(t)
  PROVE  /\ MapOK(loaded_models') /\ clock' \in Nat
         /\ t \in Transcribers
<1>0. MapOK(loaded_models) /\ TasksOK
  BY TypeParts
<1>1. requested \in Models /\ clock \in Nat /\ Model(requested) \in Models
  BY <1>0, ModelIsAvailable DEF TasksOK
<1>2. CASE TakePrepared(t)
  <2>1. MapOK(loaded_models')
    BY <1>0, <1>2, WithoutFits DEF TakePrepared
  <2>2. loaded_models[PreparedKey(requested)].transcriber \in Transcribers
    BY <1>0, <1>2 DEF TakePrepared, MapOK, Fits, Loaded
  <2> QED
    BY <1>1, <1>2, <2>1, <2>2 DEF TakePrepared
<1>3. CASE CreateSubprocess(t)
  <2>1. Transcriber(Model(requested), "fresh") \in Transcribers
    BY <1>0, <1>1, NewTranscriber
  <2> QED
    BY <1>0, <1>1, <1>3, <2>1 DEF CreateSubprocess, cache
<1>4. CASE UseCached(t)
  <2> DEFINE key == <<"cached", Model(requested)>>
  <2>1. /\ key \in DOMAIN loaded_models
        /\ clock' = clock + 1
        /\ loaded_models' = [loaded_models EXCEPT ![key].last_used = clock']
        /\ t = loaded_models[key].transcriber
    BY <1>4 DEF UseCached
  <2>2. /\ DOMAIN loaded_models' = DOMAIN loaded_models
        /\ \A k \in DOMAIN loaded_models :
             loaded_models'[k] = IF k = key
                                 THEN [loaded_models[k] EXCEPT !.last_used = clock']
                                 ELSE loaded_models[k]
    BY <2>1
  <2>3. \A k \in DOMAIN loaded_models : Fits(k, loaded_models'[k])
    BY <1>0, <1>1, <2>1, <2>2 DEF MapOK, Fits, Loaded
  <2>4. loaded_models[key].transcriber \in Transcribers
    BY <1>0, <2>1 DEF MapOK, Fits, Loaded
  <2> QED
    BY <1>0, <1>1, <2>1, <2>2, <2>3, <2>4 DEF MapOK
<1>5. CASE LoadCached(t)
  <2> DEFINE m == Model(requested)
             key == <<"cached", m>>
             entry == LoadedModel(t, clock', m = Primary)
  <2>1. /\ clock' = clock + 1
        /\ loaded_models' = With(Without(EvictLru), key, entry)
        /\ t = Transcriber(m, "cached")
    BY <1>5 DEF LoadCached
  <2>2. t \in Transcribers /\ t.how = "cached" /\ t.model = m
    BY <1>0, <1>1, <2>1, NewTranscriber
  <2>3. key \in Keys /\ Fits(key, entry)
    BY <1>1, <2>1, <2>2 DEF Keys, Fits, Loaded, LoadedModel
  <2>4. MapOK(loaded_models')
    BY <1>0, <2>1, <2>3, WithoutFits, WithFits
  <2> QED
    BY <1>1, <2>1, <2>2, <2>4
<1> QED
  BY <1>2, <1>3, <1>4, <1>5 DEF GetPrepared

LEMMA LoadFailsType ==
  ASSUME TypeOK, LoadFails
  PROVE  MapOK(loaded_models') /\ clock' \in Nat
BY TypeParts, WithoutFits DEF LoadFails, TasksOK

(* A stop, eager or not, goes on with a transcriber or fails to load.      *)
LEMMA StopCases ==
  ASSUME TypeOK, Stop
  PROVE  /\ whisper_prepare_task' = NoTranscriber
         /\ UNCHANGED <<config, preparing, eager_transcriber, recording, chunks>>
         /\ MapOK(loaded_models') /\ clock' \in Nat
         /\ \/ \E t \in Transcribers : GetPrepared(t) /\ Begin(t)
            \/ LoadFails /\ state' = "idle" /\ UNCHANGED <<ready, tasks, active>>
BY GetType, LoadFailsType DEF Stop

LEMMA TypeNext ==
  ASSUME TypeOK, [Next]_vars
  PROVE  TypeOK'
<1> SUFFICES MapOK(loaded_models') /\ TasksOK'
  BY TypeParts DEF TypeOK, MapOK, Fits, Loaded, TasksOK
<1>0. MapOK(loaded_models) /\ TasksOK
  BY TypeParts
<1>1. ASSUME NEW m \in Models, Press(m) \/ HybridPress(m)
      PROVE  MapOK(loaded_models') /\ TasksOK'
  <2> DEFINE t == [model |-> m, how |-> "prepared", made |-> recordings + 1]
  <2>0. recordings \in 0 .. MaxRecordings /\ clock \in Nat /\ preparing \subseteq Transcribers
    BY <1>0 DEF TasksOK
  <2>1. /\ state = "idle" /\ requested' = m /\ hybrid' \in BOOLEAN
        /\ recordings' = recordings + 1 /\ recordings' \in 0 .. MaxRecordings
        /\ chunks' = 0 /\ chunks' \in 0 .. MaxChunks
        /\ UNCHANGED <<config, ready, tasks, eager_transcriber, active>>
    <3>1. Starts(m, FALSE) \/ Starts(m, TRUE)
      BY <1>1 DEF Press, HybridPress
    <3> QED
      <4>1. /\ state = "idle" /\ requested' = m /\ hybrid' \in BOOLEAN
            /\ recordings < MaxRecordings /\ recordings' = recordings + 1 /\ chunks' = 0
            /\ UNCHANGED <<config, ready, tasks, eager_transcriber, active>>
        BY <3>1, Zenon DEF Starts
      <4> QED
        BY <2>0, <4>1, ModelManagerAssumption
  <2>2. t \in Transcribers
    BY <2>0, <2>1 DEF Transcribers
  <2>3. PreparedKey(m) \in Keys /\ Fits(PreparedKey(m), LoadedModel(t, clock, FALSE))
    BY <1>0, <2>2 DEF PreparedKey, Keys, Fits, Loaded, LoadedModel, TasksOK
  <2>4. /\ MapOK(loaded_models')
        /\ clock' \in Nat
        /\ preparing' \subseteq Transcribers
        /\ whisper_prepare_task' \in Transcribers \cup {NoTranscriber}
    <3>1. CASE Press(m) /\ Prepares(m)
      <4>1. /\ loaded_models' = With(loaded_models, PreparedKey(m),
                                     LoadedModel(t, clock, FALSE))
            /\ preparing' = preparing \cup {t}
            /\ whisper_prepare_task' = t
            /\ clock' = clock + 1
        BY <3>1 DEF Press, PrepareModel
      <4>2. MapOK(loaded_models')
        BY <1>0, <2>3, <4>1, WithFits
      <4>3. /\ preparing' \subseteq Transcribers
            /\ whisper_prepare_task' \in Transcribers \cup {NoTranscriber}
        BY <2>0, <2>2, <4>1, Zenon
      <4>4. clock' \in Nat
        BY <2>0, <4>1
      <4> QED
        BY <4>1, <4>2, <4>3, <4>4
    <3>2. CASE Press(m) /\ ~Prepares(m)
      BY <1>0, <3>2 DEF Press, PrepareModel, TasksOK
    <3>3. CASE HybridPress(m)
      BY <1>0, <3>3 DEF HybridPress, cache, TasksOK
    <3> QED
      BY <1>1, <3>1, <3>2, <3>3
  <2>5. state' \in {"idle", "recording", "eager"}
    BY <1>1 DEF Press, HybridPress
  <2>6. active = NoTask
    BY <1>0, <2>1 DEF TasksOK
  <2> QED
    BY <1>0, <2>1, <2>4, <2>5, <2>6 DEF TasksOK, config, tasks
<1>2. ASSUME NEW t \in preparing, PrepareEnds(t)
      PROVE  MapOK(loaded_models') /\ TasksOK'
  BY <1>0, <1>2 DEF PrepareEnds, TasksOK, config, cache, tasks, recording, dictation
<1>3. ASSUME NEW task \in spawning, SpawnEnds(task)
      PROVE  MapOK(loaded_models') /\ TasksOK'
  BY <1>0, <1>3 DEF SpawnEnds, EndOf, TasksOK, config, cache, recording
<1>4. ASSUME NEW task \in transcribing, TranscriptionEnds(task)
      PROVE  MapOK(loaded_models') /\ TasksOK'
  BY <1>0, <1>4 DEF TranscriptionEnds, EndOf, TasksOK, config, cache, recording
<1>5. ASSUME NEW t \in ready, WorkerExits(t)
      PROVE  MapOK(loaded_models') /\ TasksOK'
  BY <1>0, <1>5 DEF WorkerExits, TasksOK, config, cache, tasks, recording, dictation
<1>6. CASE CancelByFile \/ CancelByKey \/ CancelTranscription
  BY <1>0, <1>6
  DEF CancelByFile, CancelByKey, CancelTranscription, TasksOK, config, cache, workers,
      tasks, recording
<1>7. CASE Stop
  <2>1. /\ whisper_prepare_task' = NoTranscriber
        /\ UNCHANGED <<config, preparing, eager_transcriber, recording, chunks>>
        /\ MapOK(loaded_models') /\ clock' \in Nat
    BY <1>7, StopCases
  <2>0. state = "recording" /\ active = NoTask
    BY <1>0, <1>7 DEF Stop, TasksOK
  <2>2. CASE LoadFails /\ state' = "idle" /\ UNCHANGED <<ready, tasks, active>>
    BY <1>0, <2>0, <2>1, <2>2 DEF TasksOK, config, recording, tasks
  <2>3. ASSUME NEW t \in Transcribers, Begin(t)
        PROVE  TasksOK'
    <3>1. Task(t, 0) \in Tasks
      BY <1>0, NewTask, ModelManagerAssumption
    <3>2. /\ \/ state' = "idle" /\ active' = NoTask
             \/ state' = "transcribing" /\ active' \in Tasks
          /\ ready' \subseteq Transcribers
          /\ spawning' \subseteq Tasks /\ transcribing' \subseteq Tasks
      BY <1>0, <2>3, <3>1, BeginType, RunType DEF TasksOK, tasks
    <3> QED
      BY <1>0, <2>1, <3>2 DEF TasksOK, config, recording
  <2> QED
    BY <1>7, <2>1, <2>2, <2>3, StopCases
<1>8. CASE StopEager
  <2>1. MapOK(loaded_models') /\ clock' \in Nat
    BY <1>8, GetType, LoadFailsType DEF StopEager
  <2>2. \/ state' = "waiting" /\ active' \in Tasks
        \/ state' = "idle" /\ active' = NoTask
    <3>1. state = "eager" /\ active = NoTask /\ 0 \in 0 .. MaxChunks
      BY <1>0, <1>8, ModelManagerAssumption DEF StopEager, TasksOK
    <3> QED
      BY <1>0, <1>8, <3>1, NewTask DEF StopEager
  <2>3. /\ whisper_prepare_task' = NoTranscriber
        /\ UNCHANGED <<config, workers, eager_transcriber, recording, chunks>>
    BY <1>8 DEF StopEager
  <2> QED
    BY <1>0, <2>1, <2>2, <2>3 DEF TasksOK, config, workers, tasks, recording
<1>9. CASE EagerTick
  <2>1. PICK t \in Transcribers \cup {NoTranscriber} :
          /\ Populate(t)
          /\ eager_transcriber' = t
          /\ \/ UNCHANGED <<ready, tasks, chunks>>
             \/ /\ t # NoTranscriber
                /\ chunks < MaxChunks
                /\ chunks' = chunks + 1
                /\ Run(Task(t, chunks'))
    BY <1>9 DEF EagerTick
  <2>2. MapOK(loaded_models') /\ clock' \in Nat
    BY <1>0, <2>1, GetType, LoadFailsType DEF Populate, cache, TasksOK
  <2>3. /\ ready' \subseteq Transcribers /\ chunks' \in 0 .. MaxChunks
        /\ spawning' \subseteq Tasks /\ transcribing' \subseteq Tasks
    <3>1. CASE UNCHANGED <<ready, tasks, chunks>>
      BY <1>0, <3>1 DEF TasksOK, tasks
    <3>2. CASE /\ t # NoTranscriber
               /\ chunks < MaxChunks
               /\ chunks' = chunks + 1
               /\ Run(Task(t, chunks'))
      <4>1. chunks' \in 0 .. MaxChunks
        BY <1>0, <3>2, ModelManagerAssumption DEF TasksOK
      <4>2. Task(t, chunks') \in Tasks
        BY <1>0, <3>2, <4>1, NewTask
      <4> QED
        BY <1>0, <3>2, <4>1, <4>2, RunType DEF TasksOK
    <3> QED
      BY <2>1, <3>1, <3>2
  <2> QED
    BY <1>0, <1>9, <2>1, <2>2, <2>3 DEF EagerTick, TasksOK, config, recording
<1>10. CASE FinishEager
  <2>1. active \in Tasks
    BY <1>0, <1>10 DEF FinishEager, TasksOK
  <2>2. Run(active) => /\ ready' \subseteq Transcribers
                       /\ spawning' \subseteq Tasks
                       /\ transcribing' \subseteq Tasks
    BY <1>0, <2>1, RunType DEF TasksOK
  <2> QED
    BY <1>0, <1>10, <2>1, <2>2 DEF FinishEager, TasksOK, config, cache, tasks, recording
<1>11. CASE EvictIdleModels
  BY <1>0, <1>11, WithoutFits
  DEF EvictIdleModels, TasksOK, config, workers, tasks, recording, dictation
<1>12. CASE UNCHANGED vars
  BY <1>0, <1>12 DEF vars, TasksOK, config, cache, workers, tasks, recording, dictation
<1> QED
  BY <1>1, <1>2, <1>3, <1>4, <1>5, <1>6, <1>7, <1>8, <1>9, <1>10, <1>11, <1>12 DEF Next

(* The cache, the workers and the tasks are well formed; what the map      *)
(* holds under a key is of the key's model and kind.                       *)
THEOREM TypeCorrect == Spec => []TypeOK
<1>1. Init => TypeOK
  <2> SUFFICES ASSUME Init PROVE TypeOK
    OBVIOUS
  <2>1. TasksOK
    <3>1. 0 \in 0 .. MaxRecordings /\ 0 \in 0 .. MaxChunks /\ Primary \in Models
      BY ModelManagerAssumption
    <3> QED
      BY <3>1 DEF Init, TasksOK
  <2>2. MapOK(loaded_models)
    <3>1. Primary \in Models /\ <<"cached", Primary>> \in Keys
      BY ModelManagerAssumption DEF Keys
    <3>2. Fits(<<"cached", Primary>>, LoadedModel(Transcriber(Primary, "cached"), 0, TRUE))
      BY <2>1, <3>1, NewTranscriber DEF Fits, Loaded, LoadedModel
    <3> QED
      BY <3>1, <3>2 DEF Init, MapOK
  <2> QED
    BY <2>1, <2>2, TypeParts
<1> QED
  BY <1>1, TypeNext, PTL DEF Spec

-----------------------------------------------------------------------------
(* A recording gets its own model and its own worker.                      *)

(* RecordingGetsItsModel needs the promise the press makes to the stop:    *)
(* what is prepared under the requested model is what the prepare task of  *)
(* this recording prepares, and nothing is prepared for a model that is    *)
(* not available or without workers.                                       *)
PreparedIsAvailable ==
  \A m \in Models : PreparedKey(m) \in DOMAIN loaded_models =>
    gpu_isolation /\ IsModelAvailable(m)

PressKeepsItsPromise ==
  /\ PreparedIsAvailable
  /\ (/\ state \in {"recording", "eager"} /\ ~hybrid
      /\ PreparedKey(requested) \in DOMAIN loaded_models) =>
       /\ loaded_models[PreparedKey(requested)].transcriber = whisper_prepare_task
       /\ whisper_prepare_task.made = recordings

(* Tasks and transcribers are of the recordings so far; the recording's    *)
(* own task does not run before the rest of it is transcribed.             *)
TasksAreInOrder ==
  /\ \A task \in spawning \cup transcribing : task.recording <= recordings
  /\ \A t \in preparing \cup ready : t.made <= recordings
  /\ active # NoTask => active.recording = recordings /\ active.chunk = 0
  /\ state \in {"recording", "eager", "waiting"} =>
       \A task \in spawning \cup transcribing :
         task.recording = recordings => task.chunk # 0

(* NoSecondWorker needs that what the press prepared is what the stop will *)
(* find in the map.                                                        *)
MadeByThePress ==
  ~eager_processing =>
    /\ state \notin {"eager", "waiting", "tail"}
    /\ state = "recording" =>
         \A t \in preparing \cup ready : t.made = recordings =>
           /\ t = whisper_prepare_task
           /\ PreparedKey(requested) \in DOMAIN loaded_models
           /\ loaded_models[PreparedKey(requested)].transcriber = t

(* EagerModelIsCurrent needs that the loop's transcriber does not outlive  *)
(* its recording.                                                          *)
TranscriberIsCurrent ==
  ~cancel_key /\ eager_transcriber # NoTranscriber =>
    /\ state \in {"eager", "waiting", "tail"}
    /\ eager_transcriber.model = Model(requested)
    /\ state = "eager" /\ ~gpu_isolation =>
         <<"cached", Model(requested)>> \in DOMAIN loaded_models

Recorded ==
  /\ PressKeepsItsPromise
  /\ TasksAreInOrder
  /\ RecordingGetsItsModel
  /\ MadeByThePress
  /\ NoSecondWorker
  /\ TranscriberIsCurrent
  /\ EagerModelIsCurrent

(* What the map has after a transcriber was taken, or could not be.        *)
LEMMA GetLeavesThePrepared ==
  ASSUME NEW t, GetPrepared(t) \/ LoadFails
  PROVE  \A m \in Models : PreparedKey(m) \in DOMAIN loaded_models' =>
           /\ PreparedKey(m) \in DOMAIN loaded_models
           /\ loaded_models'[PreparedKey(m)].transcriber =
                loaded_models[PreparedKey(m)].transcriber
<1>1. CASE TakePrepared(t) \/ LoadFails
  BY <1>1 DEF TakePrepared, LoadFails, Without, Restrict
<1>2. CASE CreateSubprocess(t)
  BY <1>2 DEF CreateSubprocess, cache
<1>3. CASE UseCached(t)
  BY <1>3 DEF UseCached, PreparedKey
<1>4. CASE LoadCached(t)
  BY <1>4 DEF LoadCached, With, Without, Restrict, PreparedKey
<1> QED
  BY <1>1, <1>2, <1>3, <1>4 DEF GetPrepared

(* The transcriber of a recording is of its model; a worker is its own.    *)
LEMMA GetsItsModel ==
  ASSUME TypeOK, PressKeepsItsPromise, NEW t, GetPrepared(t)
  PROVE  /\ t \in Transcribers
         /\ t.model = Model(requested)
         /\ state \in {"recording", "eager"} /\ gpu_isolation /\ ~hybrid => t.made = recordings
         /\ ~gpu_isolation => <<"cached", Model(requested)>> \in DOMAIN loaded_models'
<1>0. MapOK(loaded_models) /\ TasksOK
  BY TypeParts
<1>1. requested \in Models /\ Model(requested) \in Models /\ t \in Transcribers
  BY <1>0, ModelIsAvailable, GetType DEF TasksOK
<1>2. CASE TakePrepared(t)
  <2> DEFINE key == PreparedKey(requested)
  <2>1. key \in DOMAIN loaded_models /\ t = loaded_models[key].transcriber
    BY <1>2 DEF TakePrepared
  <2>2. t.model = requested
    BY <1>0, <2>1 DEF MapOK, Fits, Loaded, PreparedKey
  <2>3. IsModelAvailable(requested) /\ gpu_isolation
    BY <1>1, <2>1 DEF PressKeepsItsPromise, PreparedIsAvailable
  <2>4. state \in {"recording", "eager"} /\ ~hybrid => t.made = recordings
    BY <2>1 DEF PressKeepsItsPromise
  <2> QED
    BY <1>1, <2>2, <2>3, <2>4 DEF Model
<1>3. CASE CreateSubprocess(t)
  BY <1>0, <1>1, <1>3, NewTranscriber DEF CreateSubprocess
<1>4. CASE UseCached(t)
  <2> DEFINE key == <<"cached", Model(requested)>>
  <2>1. /\ ~gpu_isolation /\ key \in DOMAIN loaded_models
        /\ t = loaded_models[key].transcriber
        /\ DOMAIN loaded_models' = DOMAIN loaded_models
    BY <1>4 DEF UseCached
  <2> QED
    BY <1>0, <1>1, <2>1 DEF MapOK, Fits, Loaded
<1>5. CASE LoadCached(t)
  BY <1>0, <1>1, <1>5, NewTranscriber DEF LoadCached, With
<1> QED
  BY <1>2, <1>3, <1>4, <1>5 DEF GetPrepared

(* A press adds at most one prepared worker, of the next recording.        *)
LEMMA PressCases ==
  ASSUME TypeOK, PressKeepsItsPromise, NEW m \in Models, Press(m) \/ HybridPress(m)
  PROVE  /\ state = "idle" /\ state' \in {"idle", "recording", "eager"}
         /\ state' = "eager" => eager_processing
         /\ recordings' = recordings + 1 /\ requested' = m /\ active' = NoTask
         /\ UNCHANGED <<gpu_isolation, eager_processing, cancel_key, ready, spawning,
                        transcribing, eager_transcriber>>
         /\ PressKeepsItsPromise'
         /\ \A t \in preparing' \ preparing :
              /\ t.made = recordings + 1
              /\ t = whisper_prepare_task'
              /\ PreparedKey(m) \in DOMAIN loaded_models'
              /\ loaded_models'[PreparedKey(m)].transcriber = t
<1> DEFINE t == [model |-> m, how |-> "prepared", made |-> recordings + 1]
           key == PreparedKey(m)
<1>1. /\ state = "idle" /\ state' \in {"idle", "recording", "eager"}
      /\ state' = "eager" => eager_processing
      /\ recordings' = recordings + 1 /\ requested' = m /\ active' = active
      /\ UNCHANGED <<gpu_isolation, eager_processing, cancel_key, ready, spawning,
                     transcribing, eager_transcriber>>
  BY DEF Press, HybridPress, Starts, config, tasks
<1>2. active = NoTask
  BY <1>1 DEF TypeOK
<1>3. CASE Press(m) /\ Prepares(m)
  <2>1. /\ loaded_models' = With(loaded_models, key, LoadedModel(t, clock, FALSE))
        /\ whisper_prepare_task' = t
        /\ preparing' = preparing \cup {t}
    BY <1>3 DEF Press, PrepareModel
  <2>2. /\ DOMAIN loaded_models' = DOMAIN loaded_models \cup {key}
        /\ loaded_models'[key].transcriber = t
    BY <2>1 DEF With, LoadedModel
  <2>3. PreparedIsAvailable'
    BY <1>1, <1>3, <2>2
    DEF PressKeepsItsPromise, PreparedIsAvailable, Prepares, PreparedKey, IsModelAvailable
  <2>4. PressKeepsItsPromise'
    BY <1>1, <2>1, <2>2, <2>3 DEF PressKeepsItsPromise, PreparedKey
  <2>5. t.made = recordings + 1
    OBVIOUS
  <2> QED
    BY <1>1, <1>2, <2>1, <2>2, <2>4, <2>5
<1>4. CASE Press(m) /\ ~Prepares(m)
  <2>1. /\ loaded_models' = loaded_models /\ key \notin DOMAIN loaded_models
        /\ preparing' = preparing
    BY <1>4 DEF Press, PrepareModel, Prepares, PressKeepsItsPromise, PreparedIsAvailable
  <2>2. PressKeepsItsPromise'
    BY <1>1, <2>1
    DEF PressKeepsItsPromise, PreparedIsAvailable, PreparedKey, IsModelAvailable
  <2> QED
    BY <1>1, <1>2, <2>1, <2>2
<1>5. CASE HybridPress(m)
  <2>1. /\ loaded_models' = loaded_models
        /\ preparing' = preparing /\ hybrid' = TRUE
    BY <1>5 DEF HybridPress, Starts, cache
  <2>2. PressKeepsItsPromise'
    BY <1>1, <2>1
    DEF PressKeepsItsPromise, PreparedIsAvailable, PreparedKey, IsModelAvailable
  <2> QED
    BY <1>1, <1>2, <2>1, <2>2
<1> QED
  BY <1>3, <1>4, <1>5

(* A step that takes nothing but leaves the recording as it is, or ends it. *)
LEMMA PromiseKept ==
  ASSUME PressKeepsItsPromise,
         UNCHANGED <<gpu_isolation, recording, whisper_prepare_task>>
           \/ (UNCHANGED <<gpu_isolation, recording>>
               /\ state' \notin {"recording", "eager"}),
         state' \in {"recording", "eager"} => state' = state,
         \A m \in Models : PreparedKey(m) \in DOMAIN loaded_models' =>
           /\ PreparedKey(m) \in DOMAIN loaded_models
           /\ loaded_models'[PreparedKey(m)].transcriber =
                loaded_models[PreparedKey(m)].transcriber,
         requested \in Models
  PROVE  PressKeepsItsPromise'
<1>1. PreparedIsAvailable'
  BY DEF PressKeepsItsPromise, PreparedIsAvailable, IsModelAvailable, PreparedKey, recording
<1> QED
  BY <1>1 DEF PressKeepsItsPromise, PreparedKey, recording

(* A step that starts no task and takes no transcriber, and leaves the     *)
(* recording as it is, or ends it.                                         *)
LEMMA QuietStep ==
  ASSUME TypeOK, Recorded,
         UNCHANGED <<config, recording>>,
         spawning' \subseteq spawning,
         transcribing' \subseteq spawning \cup transcribing,
         preparing' \cup ready' \subseteq preparing \cup ready,
         \/ UNCHANGED <<loaded_models, whisper_prepare_task>>
         \/ /\ state' = "idle"
            /\ \A m \in Models : PreparedKey(m) \in DOMAIN loaded_models' =>
                                   PreparedKey(m) \in DOMAIN loaded_models,
         \/ UNCHANGED <<state, active, eager_transcriber>>
         \/ /\ state' = "idle" /\ active' = NoTask
            /\ \/ eager_transcriber' = NoTranscriber
               \/ cancel_key
               \/ /\ eager_transcriber' = eager_transcriber
                  /\ state \notin {"eager", "waiting", "tail"}
  PROVE  Recorded'
<1> USE DEF config, recording
<1>1. PressKeepsItsPromise'
  BY DEF Recorded, PressKeepsItsPromise, PreparedIsAvailable, IsModelAvailable, PreparedKey
<1>2. TasksAreInOrder'
  BY DEF Recorded, TasksAreInOrder
<1>3. RecordingGetsItsModel'
  BY DEF Recorded, RecordingGetsItsModel, Model, IsModelAvailable
<1>4. MadeByThePress'
  BY DEF Recorded, MadeByThePress, PreparedKey
<1>5. NoSecondWorker'
  BY DEF Recorded, NoSecondWorker
<1>6. TranscriberIsCurrent'
  BY DEF Recorded, TranscriberIsCurrent, Model, IsModelAvailable
<1>7. EagerModelIsCurrent'
  BY DEF Recorded, EagerModelIsCurrent, Model, IsModelAvailable
<1> QED
  BY <1>1, <1>2, <1>3, <1>4, <1>5, <1>6, <1>7 DEF Recorded

(* The end of a task ends the recording only if it is its own, which runs  *)
(* after the chunks.                                                       *)
LEMMA EndOfKeeps ==
  ASSUME TypeOK, Recorded, NEW task \in spawning \cup transcribing, EndOf(task)
  PROVE  \/ UNCHANGED <<state, active, eager_transcriber>>
         \/ /\ state' = "idle" /\ active' = NoTask
            /\ \/ eager_transcriber' = NoTranscriber
               \/ /\ eager_transcriber' = eager_transcriber
                  /\ state \notin {"eager", "waiting", "tail"}
<1>1. CASE active = task
  <2>1. /\ state' = "idle" /\ active' = NoTask
        /\ eager_transcriber' = IF state = "tail" THEN NoTranscriber ELSE eager_transcriber
    BY <1>1 DEF EndOf
  <2>2. active # NoTask
    BY <1>1 DEF TypeOK, Tasks, Transcribers, NoTask, NoTranscriber
  <2>3. state \in {"waiting", "tail", "transcribing"}
    BY <2>2 DEF TypeOK
  <2>4. state # "waiting"
    BY <1>1, <2>2 DEF Recorded, TasksAreInOrder
  <2> QED
    BY <2>1, <2>3, <2>4
<1>2. CASE active # task
  BY <1>2 DEF EndOf
<1> QED
  BY <1>1, <1>2

(* A task of this recording, by a transcriber of its model, starts.        *)
LEMMA RunKeeps ==
  ASSUME TypeOK, Recorded, NEW task \in Tasks, Run(task),
         task.recording = recordings,
         task.transcriber.model = Model(requested),
         ~eager_processing => task.transcriber \in ready \/ ~gpu_isolation
           \/ \A t \in preparing \cup ready : t.made # recordings,
         UNCHANGED <<config, preparing, recording>>
  PROVE  /\ NoSecondWorker' /\ EagerModelIsCurrent'
         /\ spawning' \subseteq spawning \cup {task}
         /\ transcribing' \subseteq transcribing \cup {task}
         /\ ready' \subseteq ready
<1>1. /\ spawning' \subseteq spawning \cup {task}
      /\ transcribing' \subseteq transcribing \cup {task}
      /\ ready' \subseteq ready
      /\ spawning' = spawning \/ (gpu_isolation /\ task.transcriber \notin ready)
  BY DEF Run
<1>2. NoSecondWorker'
  BY <1>1 DEF Recorded, NoSecondWorker, config, recording
<1>3. EagerModelIsCurrent'
  BY <1>1 DEF Recorded, EagerModelIsCurrent, config, recording, Model, IsModelAvailable
<1> QED
  BY <1>1, <1>2, <1>3

LEMMA PressRecords ==
  ASSUME TypeOK, Recorded, NEW m \in Models, Press(m) \/ HybridPress(m)
  PROVE  Recorded'
<1>0. /\ recordings \in Nat
      /\ \A task \in spawning \cup transcribing : task.recording \in Nat
      /\ \A t \in preparing \cup ready : t.made \in Nat
  BY ModelManagerAssumption DEF TypeOK, Tasks, Transcribers
<1>1. /\ state = "idle" /\ state' \in {"idle", "recording", "eager"}
      /\ state' = "eager" => eager_processing
      /\ recordings' = recordings + 1 /\ requested' = m /\ active' = NoTask
      /\ UNCHANGED <<gpu_isolation, eager_processing, cancel_key, ready, spawning,
                     transcribing, eager_transcriber>>
      /\ PressKeepsItsPromise'
      /\ \A t \in preparing' \ preparing :
           /\ t.made = recordings + 1
           /\ t = whisper_prepare_task'
           /\ PreparedKey(m) \in DOMAIN loaded_models'
           /\ loaded_models'[PreparedKey(m)].transcriber = t
  BY PressCases DEF Recorded
<1>2. /\ \A task \in spawning \cup transcribing : task.recording <= recordings
      /\ \A t \in preparing \cup ready : t.made <= recordings
  BY DEF Recorded, TasksAreInOrder
<1>3. \A task \in spawning' \cup transcribing' :
        task.recording <= recordings' /\ task.recording # recordings'
  BY <1>0, <1>1, <1>2
<1>4. \A t \in preparing' \cup ready' :
        /\ t.made <= recordings'
        /\ t \in preparing \cup ready => t.made # recordings'
  BY <1>0, <1>1, <1>2
<1>5. TasksAreInOrder'
  BY <1>1, <1>3, <1>4 DEF TasksAreInOrder
<1>6. RecordingGetsItsModel'
  BY <1>1 DEF RecordingGetsItsModel
<1>7. MadeByThePress'
  BY <1>1, <1>4 DEF MadeByThePress
<1>8. NoSecondWorker'
  <2>1. \A t \in preparing' \ preparing : \A task \in spawning : t.made # task.recording
    BY <1>0, <1>1, <1>2
  <2> QED
    BY <1>1, <2>1 DEF Recorded, NoSecondWorker
<1>9. TranscriberIsCurrent'
  BY <1>1 DEF Recorded, TranscriberIsCurrent
<1>10. EagerModelIsCurrent'
  BY <1>1, <1>3 DEF EagerModelIsCurrent
<1> QED
  BY <1>1, <1>5, <1>6, <1>7, <1>8, <1>9, <1>10 DEF Recorded

(* The stop finds what the press prepared, and it is ready.                *)
LEMMA StopFindsThePrepared ==
  ASSUME TypeOK, Recorded, ~eager_processing, state = "recording", PrepareAwaited,
         NEW t, GetPrepared(t)
  PROVE  \/ t \in ready \/ ~gpu_isolation
         \/ \A other \in preparing \cup ready : other.made # recordings
<1> SUFFICES ASSUME NEW other \in preparing \cup ready, other.made = recordings,
                    gpu_isolation
             PROVE  t \in ready
  OBVIOUS
<1>1. /\ other = whisper_prepare_task
      /\ PreparedKey(requested) \in DOMAIN loaded_models
      /\ loaded_models[PreparedKey(requested)].transcriber = other
  BY DEF Recorded, MadeByThePress
<1>2. other \in ready
  BY <1>1 DEF PrepareAwaited
<1>3. t = other
  BY <1>1 DEF GetPrepared, TakePrepared, CreateSubprocess, UseCached, LoadCached
<1> QED
  BY <1>2, <1>3

LEMMA StopRecords ==
  ASSUME TypeOK, Recorded, Stop
  PROVE  Recorded'
<1>0. /\ state = "recording" /\ active = NoTask /\ requested \in Models
      /\ PrepareAwaited
      /\ UNCHANGED <<config, preparing, eager_transcriber, recording, chunks>>
  BY DEF Stop, TypeOK
<1>1. state' \notin {"recording", "eager", "waiting", "tail"}
      /\ (state' = "idle" => active' = NoTask)
  BY <1>0 DEF Stop, Begin
<1>2. PressKeepsItsPromise'
  <2>1. \A m \in Models : PreparedKey(m) \in DOMAIN loaded_models' =>
           /\ PreparedKey(m) \in DOMAIN loaded_models
           /\ loaded_models'[PreparedKey(m)].transcriber =
                loaded_models[PreparedKey(m)].transcriber
    BY GetLeavesThePrepared DEF Stop
  <2> QED
    BY <1>0, <1>1, <2>1, PromiseKept DEF Recorded, config
<1>3. MadeByThePress'
  BY <1>1 DEF MadeByThePress
<1>4. TranscriberIsCurrent'
  BY <1>0, <1>1 DEF Recorded, TranscriberIsCurrent, config
<1>5. CASE UNCHANGED <<ready, tasks>> /\ active' = NoTask
  <2>1. TasksAreInOrder'
    BY <1>0, <1>1, <1>5 DEF Recorded, TasksAreInOrder, recording, tasks
  <2>2. NoSecondWorker' /\ EagerModelIsCurrent'
    BY <1>0, <1>5
    DEF Recorded, NoSecondWorker, EagerModelIsCurrent, config, recording, tasks, Model,
        IsModelAvailable
  <2> QED
    BY <1>2, <1>3, <1>4, <1>5, <2>1, <2>2 DEF Recorded, RecordingGetsItsModel
<1>6. ASSUME NEW t \in Transcribers, GetPrepared(t),
             active' = Task(t, 0), Run(Task(t, 0))
      PROVE  Recorded'
  <2>1. /\ t.model = Model(requested)
        /\ gpu_isolation /\ ~hybrid => t.made = recordings
    BY <1>0, <1>6, GetsItsModel DEF Recorded
  <2> DEFINE task == Task(t, 0)
  <2>2. /\ task \in Tasks /\ task.transcriber = t
        /\ task.recording = recordings /\ task.chunk = 0
    BY NewTask, TypeParts, ModelManagerAssumption
  <2> HIDE DEF task
  <2>3. ~eager_processing => t \in ready \/ ~gpu_isolation
           \/ \A other \in preparing \cup ready : other.made # recordings
    BY <1>0, <1>6, StopFindsThePrepared
  <2>4. Run(task) /\ active' = task
    BY <1>6 DEF task
  <2>5. /\ NoSecondWorker' /\ EagerModelIsCurrent'
        /\ spawning' \subseteq spawning \cup {task}
        /\ transcribing' \subseteq transcribing \cup {task}
        /\ ready' \subseteq ready
    BY <1>0, <2>1, <2>2, <2>3, <2>4, RunKeeps
  <2>6. TasksAreInOrder'
    <3>1. recordings \in Nat
      BY ModelManagerAssumption DEF TypeOK
    <3> QED
      BY <1>0, <1>1, <2>2, <2>4, <2>5, <3>1 DEF Recorded, TasksAreInOrder, recording
  <2>7. RecordingGetsItsModel'
    BY <1>0, <2>1, <2>2, <2>4
    DEF RecordingGetsItsModel, recording, config, Model, IsModelAvailable
  <2> QED
    BY <1>2, <1>3, <1>4, <2>5, <2>6, <2>7 DEF Recorded
<1> QED
  BY <1>0, <1>5, <1>6 DEF Stop, Begin

LEMMA StopEagerRecords ==
  ASSUME TypeOK, Recorded, StopEager
  PROVE  Recorded'
<1>0. /\ state = "eager" /\ active = NoTask /\ requested \in Models /\ recordings \in Nat
      /\ UNCHANGED <<config, workers, eager_transcriber, recording, chunks>>
      /\ state' \in {"waiting", "idle"}
  BY ModelManagerAssumption DEF StopEager, TypeOK
<1>1. PressKeepsItsPromise'
  <2>1. \A m \in Models : PreparedKey(m) \in DOMAIN loaded_models' =>
           /\ PreparedKey(m) \in DOMAIN loaded_models
           /\ loaded_models'[PreparedKey(m)].transcriber =
                loaded_models[PreparedKey(m)].transcriber
    BY GetLeavesThePrepared DEF StopEager
  <2> QED
    BY <1>0, <2>1, PromiseKept DEF Recorded, config
<1>2. eager_processing
  BY <1>0 DEF Recorded, MadeByThePress, TypeOK
<1>3. MadeByThePress' /\ NoSecondWorker'
  BY <1>0, <1>2 DEF MadeByThePress, NoSecondWorker, config
<1>4. EagerModelIsCurrent'
  BY <1>0
  DEF Recorded, EagerModelIsCurrent, config, recording, workers, tasks, Model,
      IsModelAvailable
<1>5. CASE \E t \in Transcribers :
             GetPrepared(t) /\ state' = "waiting" /\ active' = Task(t, 0)
  <2>1. PICK t \in Transcribers :
          GetPrepared(t) /\ state' = "waiting" /\ active' = Task(t, 0)
    BY <1>5
  <2>2. /\ t.model = Model(requested)
        /\ gpu_isolation /\ ~hybrid => t.made = recordings
    BY <1>0, <2>1, GetsItsModel DEF Recorded
  <2>3. /\ active'.transcriber = t
        /\ active'.recording = recordings /\ active'.chunk = 0
    BY <2>1 DEF Task
  <2>4. TasksAreInOrder'
    BY <1>0, <2>1, <2>3 DEF Recorded, TasksAreInOrder, recording, workers, tasks
  <2>5. RecordingGetsItsModel'
    BY <1>0, <2>2, <2>3
    DEF RecordingGetsItsModel, recording, config, Model, IsModelAvailable
  <2>6. TranscriberIsCurrent'
    BY <1>0, <2>1
    DEF Recorded, TranscriberIsCurrent, config, recording, Model, IsModelAvailable
  <2> QED
    BY <1>1, <1>3, <1>4, <2>4, <2>5, <2>6 DEF Recorded
<1>6. CASE LoadFails /\ state' = "idle" /\ UNCHANGED active
  <2>1. TasksAreInOrder'
    BY <1>0, <1>6 DEF Recorded, TasksAreInOrder, recording, workers, tasks
  <2>2. TranscriberIsCurrent'
    <3>1. /\ ~gpu_isolation
          /\ <<"cached", Model(requested)>> \notin DOMAIN loaded_models
      BY <1>6 DEF LoadFails
    <3>2. ~cancel_key => eager_transcriber = NoTranscriber
      BY <1>0, <3>1 DEF Recorded, TranscriberIsCurrent, TypeOK
    <3> QED
      BY <1>0, <3>2 DEF TranscriberIsCurrent, config
  <2> QED
    BY <1>0, <1>1, <1>3, <1>4, <1>6, <2>1, <2>2 DEF Recorded, RecordingGetsItsModel
<1> QED
  BY <1>5, <1>6 DEF StopEager

LEMMA EagerTickRecords ==
  ASSUME TypeOK, Recorded, EagerTick
  PROVE  Recorded'
<1>0. /\ state = "eager" /\ active = NoTask /\ requested \in Models /\ recordings \in Nat
      /\ chunks \in Nat
      /\ UNCHANGED <<config, whisper_prepare_task, preparing, state, active, recording>>
  BY ModelManagerAssumption DEF EagerTick, TypeOK
<1>1. PICK t \in Transcribers \cup {NoTranscriber} :
        /\ Populate(t)
        /\ eager_transcriber' = t
        /\ \/ UNCHANGED <<ready, tasks, chunks>>
           \/ /\ t # NoTranscriber
              /\ chunks < MaxChunks
              /\ chunks' = chunks + 1
              /\ Run(Task(t, chunks'))
  BY DEF EagerTick
<1>2. PressKeepsItsPromise'
  <2>1. \A m \in Models : PreparedKey(m) \in DOMAIN loaded_models' =>
           /\ PreparedKey(m) \in DOMAIN loaded_models
           /\ loaded_models'[PreparedKey(m)].transcriber =
                loaded_models[PreparedKey(m)].transcriber
    BY <1>1, GetLeavesThePrepared DEF Populate, cache
  <2> QED
    BY <1>0, <2>1, PromiseKept DEF Recorded, config
<1>3. eager_processing
  BY <1>0 DEF Recorded, MadeByThePress, TypeOK
<1>4. MadeByThePress' /\ NoSecondWorker'
  BY <1>0, <1>3 DEF MadeByThePress, NoSecondWorker, config
<1>5. ~cancel_key /\ t # NoTranscriber =>
        /\ t.model = Model(requested)
        /\ ~gpu_isolation => <<"cached", Model(requested)>> \in DOMAIN loaded_models'
  <2>1. CASE t = eager_transcriber /\ UNCHANGED cache
    BY <1>0, <2>1 DEF Recorded, TranscriberIsCurrent, cache
  <2>2. CASE GetPrepared(t)
    BY <2>2, GetsItsModel DEF Recorded
  <2> QED
    BY <1>1, <2>1, <2>2 DEF Populate
<1>6. TranscriberIsCurrent'
  BY <1>0, <1>1, <1>5
  DEF TranscriberIsCurrent, config, recording, Model, IsModelAvailable
<1>7. RecordingGetsItsModel'
  BY <1>0 DEF RecordingGetsItsModel
<1>8. CASE UNCHANGED <<ready, tasks, chunks>>
  <2>1. TasksAreInOrder'
    BY <1>0, <1>8 DEF Recorded, TasksAreInOrder, recording, tasks
  <2>2. EagerModelIsCurrent'
    BY <1>0, <1>8
    DEF Recorded, EagerModelIsCurrent, config, recording, tasks, Model, IsModelAvailable
  <2> QED
    BY <1>2, <1>4, <1>6, <1>7, <2>1, <2>2 DEF Recorded
<1>9. CASE /\ t # NoTranscriber
           /\ chunks < MaxChunks
           /\ chunks' = chunks + 1
           /\ Run(Task(t, chunks'))
  <2> DEFINE task == Task(t, chunks')
  <2>1. task.transcriber = t /\ task.recording = recordings /\ task.chunk # 0
    BY <1>0, <1>9 DEF Task
  <2> HIDE DEF task
  <2>2. /\ spawning' \subseteq spawning \cup {task}
        /\ transcribing' \subseteq transcribing \cup {task}
        /\ ready' \subseteq ready
    BY <1>9 DEF Run, task
  <2>3. TasksAreInOrder'
    BY <1>0, <2>1, <2>2 DEF Recorded, TasksAreInOrder, recording
  <2>4. EagerModelIsCurrent'
    BY <1>0, <1>5, <1>9, <2>1, <2>2
    DEF Recorded, EagerModelIsCurrent, config, recording, Model, IsModelAvailable
  <2> QED
    BY <1>2, <1>4, <1>6, <1>7, <2>3, <2>4 DEF Recorded
<1> QED
  BY <1>1, <1>8, <1>9

LEMMA FinishEagerRecords ==
  ASSUME TypeOK, Recorded, FinishEager
  PROVE  Recorded'
<1>0. /\ state = "waiting" /\ active \in Tasks /\ recordings \in Nat
      /\ UNCHANGED <<config, cache, whisper_prepare_task, preparing, recording, chunks>>
      /\ requested \in Models /\ state' \in {"tail", "idle"}
  BY ModelManagerAssumption DEF FinishEager, TypeOK
<1>1. active # NoTask
  BY <1>0 DEF Tasks, Transcribers, NoTask, NoTranscriber
<1>2. /\ active.recording = recordings /\ active.chunk = 0
      /\ active.transcriber.model = Model(requested)
      /\ gpu_isolation /\ ~hybrid => active.transcriber.made = active.recording
  BY <1>1 DEF Recorded, TasksAreInOrder, RecordingGetsItsModel
<1>3. eager_processing
  BY <1>0 DEF Recorded, MadeByThePress, TypeOK
<1>4. PressKeepsItsPromise'
  BY <1>0
  DEF Recorded, PressKeepsItsPromise, PreparedIsAvailable, PreparedKey, IsModelAvailable,
      config, cache, recording
<1>5. MadeByThePress' /\ NoSecondWorker'
  BY <1>0, <1>3 DEF MadeByThePress, NoSecondWorker, config
<1>6. CASE state' = "tail" /\ Run(active) /\ UNCHANGED <<active, eager_transcriber>>
  <2>1. /\ spawning' \subseteq spawning \cup {active}
        /\ transcribing' \subseteq transcribing \cup {active}
        /\ ready' \subseteq ready
    BY <1>6 DEF Run
  <2>2. TasksAreInOrder'
    BY <1>0, <1>2, <1>6, <2>1 DEF Recorded, TasksAreInOrder, recording
  <2>3. EagerModelIsCurrent'
    BY <1>0, <1>2, <2>1
    DEF Recorded, EagerModelIsCurrent, config, recording, Model, IsModelAvailable
  <2>4. RecordingGetsItsModel'
    BY <1>0, <1>2, <1>6
    DEF RecordingGetsItsModel, recording, config, Model, IsModelAvailable
  <2>5. TranscriberIsCurrent'
    BY <1>0, <1>6
    DEF Recorded, TranscriberIsCurrent, config, recording, Model, IsModelAvailable
  <2> QED
    BY <1>4, <1>5, <2>2, <2>3, <2>4, <2>5 DEF Recorded
<1>7. CASE /\ state' = "idle" /\ active' = NoTask
           /\ eager_transcriber' = NoTranscriber
           /\ UNCHANGED <<ready, tasks>>
  <2>1. TasksAreInOrder'
    BY <1>0, <1>7 DEF Recorded, TasksAreInOrder, recording, tasks
  <2>2. EagerModelIsCurrent'
    BY <1>0, <1>7
    DEF Recorded, EagerModelIsCurrent, config, recording, tasks, Model, IsModelAvailable
  <2> QED
    BY <1>4, <1>5, <1>7, <2>1, <2>2 DEF Recorded, RecordingGetsItsModel, TranscriberIsCurrent
<1> QED
  BY <1>6, <1>7 DEF FinishEager

LEMMA RecordedNext ==
  ASSUME TypeOK, Recorded, [Next]_vars
  PROVE  Recorded'
<1> USE DEF config, cache, workers, tasks, recording, dictation
<1>1. ASSUME NEW m \in Models, Press(m) \/ HybridPress(m)
      PROVE  Recorded'
  BY <1>1, PressRecords
<1>2. CASE \/ \E t \in preparing : PrepareEnds(t)
           \/ \E t \in ready : WorkerExits(t)
           \/ UNCHANGED vars
  <2>1. /\ UNCHANGED <<config, recording, tasks, loaded_models, whisper_prepare_task>>
        /\ UNCHANGED <<state, active, eager_transcriber>>
        /\ preparing' \cup ready' \subseteq preparing \cup ready
    BY <1>2 DEF PrepareEnds, WorkerExits, vars
  <2> QED
    BY <2>1, QuietStep
<1>3. ASSUME NEW task \in spawning, SpawnEnds(task)
      PROVE  Recorded'
  <2>1. /\ UNCHANGED <<config, recording, loaded_models, whisper_prepare_task, preparing, ready>>
        /\ spawning' \subseteq spawning /\ transcribing' \subseteq spawning \cup transcribing
        /\ UNCHANGED <<state, active, eager_transcriber>> \/ EndOf(task)
    BY <1>3 DEF SpawnEnds
  <2> QED
    BY <2>1, EndOfKeeps, QuietStep
<1>4. ASSUME NEW task \in transcribing, TranscriptionEnds(task)
      PROVE  Recorded'
  <2>1. /\ UNCHANGED <<config, recording, loaded_models, whisper_prepare_task, preparing, ready>>
        /\ spawning' \subseteq spawning /\ transcribing' \subseteq spawning \cup transcribing
        /\ EndOf(task)
    BY <1>4 DEF TranscriptionEnds
  <2> QED
    BY <2>1, EndOfKeeps, QuietStep
<1>5. CASE CancelByFile \/ CancelByKey \/ CancelTranscription
  <2>1. /\ UNCHANGED <<config, recording, workers, loaded_models, whisper_prepare_task>>
        /\ state' = "idle" /\ active' = NoTask
        /\ \/ eager_transcriber' = NoTranscriber
           \/ cancel_key
           \/ /\ eager_transcriber' = eager_transcriber
              /\ state \notin {"eager", "waiting", "tail"}
    BY <1>5 DEF CancelByFile, CancelByKey, CancelTranscription, TypeOK
  <2> QED
    BY <2>1, QuietStep
<1>6. CASE EvictIdleModels
  <2>1. /\ UNCHANGED <<config, workers, recording, state, active, eager_transcriber>>
        /\ state' = "idle"
        /\ DOMAIN loaded_models' \subseteq DOMAIN loaded_models
    BY <1>6 DEF EvictIdleModels, Without, Restrict
  <2> QED
    BY <2>1, QuietStep
<1> QED
  BY <1>1, <1>2, <1>3, <1>4, <1>5, <1>6, StopRecords, StopEagerRecords, EagerTickRecords,
     FinishEagerRecords DEF Next

LEMMA RecordedInvariant == Spec => []Recorded
<1>1. Init => Recorded
  <2> SUFFICES ASSUME Init PROVE Recorded
    OBVIOUS
  <2>1. PressKeepsItsPromise
    BY DEF Init, PressKeepsItsPromise, PreparedIsAvailable, PreparedKey
  <2> QED
    BY <2>1
    DEF Init, Recorded, TasksAreInOrder, RecordingGetsItsModel, MadeByThePress,
        NoSecondWorker, TranscriberIsCurrent, EagerModelIsCurrent
<1> QED
  BY <1>1, RecordedNext, TypeCorrect, PTL DEF Spec

(* Every recording is transcribed with the model it asks for, and by a     *)
(* worker of its own, whatever earlier recordings left prepared, unless    *)
(* the hybrid key started it.                                              *)
THEOREM OwnModel == Spec => []RecordingGetsItsModel
BY RecordedInvariant, PTL DEF Recorded

(* No task waits for a worker of its own beside one that is being prepared *)
(* for it, without eager processing.                                       *)
THEOREM OneWorker == Spec => []NoSecondWorker
BY RecordedInvariant, PTL DEF Recorded

(* Where there is no cancel key, the chunks of a recording are transcribed *)
(* with its model, whatever was cancelled, failed or evicted before.       *)
THEOREM ChunksOwnModel == Spec => []EagerModelIsCurrent
BY RecordedInvariant, PTL DEF Recorded

-----------------------------------------------------------------------------
(* The cache.                                                              *)

(* A set of uses has a first one.                                          *)
LEMMA FirstUse ==
  ASSUME NEW uses \in SUBSET Nat, uses # {}
  PROVE  \E first \in uses : \A use \in uses : first <= use
<1> DEFINE Upto(n) == 0 .. n
           family == {Upto(n) : n \in uses}
           ordering == StrictSubsetOrdering(Nat)
<1>1. \A n \in Nat : Upto(n) \in FiniteSubsetsOf(Nat)
  BY FS_Interval DEF FiniteSubsetsOf
<1>2. family \subseteq FiniteSubsetsOf(Nat) /\ family # {}
  BY <1>1
<1>3. IsWellFoundedOn(ordering, FiniteSubsetsOf(Nat))
  BY FS_StrictSubsetOrderingWellFounded
<1> HIDE DEF family, ordering
<1>4. PICK least \in family : \A other \in family : <<other, least>> \notin ordering
  BY <1>2, <1>3, WFMin
<1>5. PICK first \in uses : least = Upto(first)
  BY <1>4 DEF family
<1>6. ASSUME NEW use \in uses, use < first
      PROVE  FALSE
  <2>1. Upto(use) \subseteq Upto(first) /\ Upto(use) # Upto(first)
    <3>1. first \in Upto(first) /\ first \notin Upto(use)
      BY <1>6
    <3> QED
      BY <1>6, <3>1
  <2>2. <<Upto(use), Upto(first)>> \in ordering
    BY <2>1 DEF ordering, StrictSubsetOrdering
  <2> QED
    BY <1>4, <1>5, <2>2 DEF family
<1> QED
  BY <1>6

(* The limit of the cache holds because only the primary model is spared   *)
(* an eviction, and the primary model stays because it is marked.          *)
CacheIsKept ==
  ~gpu_isolation =>
    /\ IsFiniteSet(DOMAIN loaded_models)
    /\ \A k \in DOMAIN loaded_models :
         loaded_models[k].is_primary <=> k = <<"cached", Primary>>
    /\ CacheKeepsThePrimary

(* A full cache of two or more has something to evict.                     *)
LEMMA EvictLruMakesRoom ==
  ASSUME MapOK(loaded_models), CacheIsKept, ~gpu_isolation
  PROVE  /\ EvictLru \subseteq Evictable
         /\ IsFiniteSet(DOMAIN loaded_models \ EvictLru)
         /\ MaxLoaded >= 2 => Cardinality(DOMAIN loaded_models \ EvictLru) < MaxLoaded
<1> DEFINE D == DOMAIN loaded_models
<1>0. /\ IsFiniteSet(D) /\ Cardinality(D) \in Nat /\ MaxLoaded \in Nat
      /\ MaxLoaded >= 2 => Cardinality(D) <= MaxLoaded
      /\ Evictable = D \ {<<"cached", Primary>>}
  BY FS_CardinalityType, ModelManagerAssumption
  DEF CacheIsKept, CacheKeepsThePrimary, Evictable
<1>1. EvictLru \subseteq Evictable
  BY DEF EvictLru
<1>2. IsFiniteSet(D \ EvictLru) /\ Cardinality(D \ EvictLru) <= Cardinality(D)
  BY <1>0, FS_Subset, D \ EvictLru \in SUBSET D
<1>3. ASSUME MaxLoaded >= 2, Cardinality(D) >= MaxLoaded
      PROVE  Cardinality(D \ EvictLru) < Cardinality(D)
  <2>1. Evictable # {}
    <3>1. Cardinality(D) >= 2
      BY <1>0, <1>3
    <3>2. Cardinality(D \ {<<"cached", Primary>>}) \in {Cardinality(D), Cardinality(D) - 1}
      BY <1>0, FS_RemoveElement, Zenon
    <3>3. Cardinality(Evictable) # 0
      BY <1>0, <3>1, <3>2
    <3> QED
      BY <3>3, FS_EmptySet
  <2> DEFINE uses == {loaded_models[k].last_used : k \in Evictable}
  <2>2. uses \in SUBSET Nat /\ uses # {}
    BY <1>0, <2>1 DEF MapOK, Fits, Loaded
  <2>3. PICK first \in uses : \A use \in uses : first <= use
    BY <2>2, FirstUse
  <2>4. PICK k \in Evictable : first = loaded_models[k].last_used
    BY <2>3
  <2>5. k \in EvictLru
    BY <1>3, <2>3, <2>4 DEF EvictLru, LeastRecentlyUsed
  <2>6. D \ EvictLru # D
    BY <1>0, <2>5
  <2>7. Cardinality(D \ EvictLru) \in Nat
    BY <1>2, FS_CardinalityType
  <2> QED
    BY <1>0, <1>2, <2>6, <2>7, FS_Subset, D \ EvictLru \in SUBSET D
<1>4. Cardinality(D \ EvictLru) \in Nat
  BY <1>2, FS_CardinalityType
<1> QED
  BY <1>0, <1>1, <1>2, <1>3, <1>4

LEMMA CacheNext ==
  ASSUME TypeOK, CacheIsKept, PressKeepsItsPromise, [Next]_vars
  PROVE  CacheIsKept'
<1>0. MapOK(loaded_models) /\ TasksOK
  BY TypeParts
<1> SUFFICES ASSUME ~gpu_isolation'
             PROVE  /\ IsFiniteSet(DOMAIN loaded_models')
                    /\ \A k \in DOMAIN loaded_models' :
                         loaded_models'[k].is_primary <=> k = <<"cached", Primary>>
                    /\ <<"cached", Primary>> \in DOMAIN loaded_models'
                    /\ MaxLoaded >= 2 => Cardinality(DOMAIN loaded_models') <= MaxLoaded
  BY DEF CacheIsKept, CacheKeepsThePrimary
<1>1. ~gpu_isolation
  <2>1. UNCHANGED config
    BY DEF Next, Press, HybridPress, Starts, PrepareEnds, SpawnEnds, TranscriptionEnds,
       WorkerExits, CancelByFile, CancelByKey, EagerTick, Stop, StopEager, FinishEager,
       CancelTranscription, EvictIdleModels, vars
  <2> QED
    BY <2>1 DEF config
<1>2. /\ IsFiniteSet(DOMAIN loaded_models)
      /\ \A k \in DOMAIN loaded_models :
           loaded_models[k].is_primary <=> k = <<"cached", Primary>>
      /\ <<"cached", Primary>> \in DOMAIN loaded_models
      /\ MaxLoaded >= 2 => Cardinality(DOMAIN loaded_models) <= MaxLoaded
      /\ Cardinality(DOMAIN loaded_models) \in Nat /\ MaxLoaded \in Nat
  BY <1>1, FS_CardinalityType, ModelManagerAssumption DEF CacheIsKept, CacheKeepsThePrimary
<1> DEFINE Kept == /\ IsFiniteSet(DOMAIN loaded_models')
                   /\ \A k \in DOMAIN loaded_models' :
                        loaded_models'[k].is_primary <=> k = <<"cached", Primary>>
                   /\ <<"cached", Primary>> \in DOMAIN loaded_models'
                   /\ MaxLoaded >= 2 => Cardinality(DOMAIN loaded_models') <= MaxLoaded
<1>3. ASSUME NEW gone \in SUBSET Evictable, loaded_models' = Without(gone)
      PROVE  Kept
  <2>1. /\ DOMAIN loaded_models' = DOMAIN loaded_models \ gone
        /\ \A k \in DOMAIN loaded_models' : loaded_models'[k] = loaded_models[k]
    BY <1>0, <1>3, WithoutFits
  <2>2. <<"cached", Primary>> \notin gone
    BY <1>2 DEF Evictable
  <2>3. /\ IsFiniteSet(DOMAIN loaded_models')
        /\ Cardinality(DOMAIN loaded_models') <= Cardinality(DOMAIN loaded_models)
    BY <1>2, <2>1, FS_Subset, DOMAIN loaded_models \ gone \in SUBSET DOMAIN loaded_models
  <2>4. Cardinality(DOMAIN loaded_models') \in Nat
    BY <2>3, FS_CardinalityType
  <2> QED
    BY <1>2, <2>1, <2>2, <2>3, <2>4
<1>4. ASSUME loaded_models' = loaded_models
      PROVE  Kept
  BY <1>2, <1>4
<1>5. ASSUME NEW t, GetPrepared(t) \/ LoadFails
      PROVE  Kept
  <2>1. CASE TakePrepared(t)
    BY <1>0, <1>1, <2>1
    DEF TakePrepared, PressKeepsItsPromise, PreparedIsAvailable, TasksOK
  <2>2. CASE CreateSubprocess(t)
    BY <1>1, <2>2 DEF CreateSubprocess
  <2>3. CASE UseCached(t)
    <3> DEFINE key == <<"cached", Model(requested)>>
    <3>1. /\ key \in DOMAIN loaded_models
          /\ loaded_models' = [loaded_models EXCEPT ![key].last_used = clock']
      BY <2>3 DEF UseCached
    <3>2. DOMAIN loaded_models' = DOMAIN loaded_models
      BY <3>1
    <3>3. \A k \in DOMAIN loaded_models :
            loaded_models'[k].is_primary = loaded_models[k].is_primary
      BY <1>0, <3>1 DEF MapOK, Fits, Loaded
    <3> QED
      BY <1>2, <3>2, <3>3
  <2>4. CASE LoadCached(t)
    <3> DEFINE m == Model(requested)
               key == <<"cached", m>>
               entry == LoadedModel(t, clock', m = Primary)
               D == DOMAIN loaded_models \ EvictLru
    <3>1. /\ key \notin DOMAIN loaded_models
          /\ loaded_models' = With(Without(EvictLru), key, entry)
      BY <2>4 DEF LoadCached
    <3>2. /\ EvictLru \subseteq Evictable
          /\ IsFiniteSet(D)
          /\ MaxLoaded >= 2 => Cardinality(D) < MaxLoaded
      BY <1>0, <1>1, EvictLruMakesRoom
    <3>3. /\ DOMAIN loaded_models' = D \cup {key}
          /\ loaded_models'[key] = entry
          /\ \A k \in D : loaded_models'[k] = loaded_models[k]
      BY <3>1 DEF With, Without, Restrict
    <3>4. key \notin D /\ <<"cached", Primary>> \in D
      BY <1>2, <3>1, <3>2 DEF Evictable
    <3>5. /\ IsFiniteSet(D \cup {key})
          /\ Cardinality(D \cup {key}) = Cardinality(D) + 1
          /\ Cardinality(D) \in Nat
      BY <3>2, <3>4, FS_AddElement, FS_CardinalityType
    <3>6. \A k \in DOMAIN loaded_models' :
            loaded_models'[k].is_primary <=> k = <<"cached", Primary>>
      <4>1. m # Primary
        BY <3>4
      <4>2. entry.is_primary = FALSE
        BY <4>1 DEF LoadedModel
      <4>3. ~loaded_models'[key].is_primary /\ key # <<"cached", Primary>>
        BY <3>3, <4>1, <4>2
      <4>4. \A k \in D :
              loaded_models'[k].is_primary <=> k = <<"cached", Primary>>
        BY <1>2, <3>3
      <4> QED
        BY <3>3, <4>3, <4>4
    <3> QED
      BY <1>2, <3>2, <3>3, <3>4, <3>5, <3>6
  <2>5. CASE LoadFails
    BY <1>0, <1>1, <1>3, <2>5, EvictLruMakesRoom DEF LoadFails
  <2> QED
    BY <1>5, <2>1, <2>2, <2>3, <2>4, <2>5 DEF GetPrepared
<1>6. CASE EvictIdleModels
  BY <1>3, <1>6 DEF EvictIdleModels
<1>7. CASE Stop \/ StopEager \/ EagerTick
  <2>1. \/ \E t \in Transcribers \cup {NoTranscriber} : GetPrepared(t)
        \/ LoadFails
        \/ UNCHANGED cache
    BY <1>7 DEF Stop, StopEager, EagerTick, Populate
  <2> QED
    BY <1>4, <1>5, <2>1 DEF cache
<1>8. CASE \E m \in Models : Press(m) \/ HybridPress(m)
  BY <1>1, <1>4, <1>8 DEF Press, HybridPress, PrepareModel, Prepares, cache
<1>9. CASE \/ \E t \in preparing : PrepareEnds(t)
           \/ \E t \in ready : WorkerExits(t)
           \/ \E task \in spawning : SpawnEnds(task)
           \/ \E task \in transcribing : TranscriptionEnds(task)
           \/ CancelByFile \/ CancelByKey \/ FinishEager \/ CancelTranscription
           \/ UNCHANGED vars
  BY <1>4, <1>9
  DEF PrepareEnds, WorkerExits, SpawnEnds, TranscriptionEnds, CancelByFile, CancelByKey,
      FinishEager, CancelTranscription, vars, cache
<1> QED
  BY <1>6, <1>7, <1>8, <1>9 DEF Next

(* Whatever is loaded and evicted, the cache never holds more models than  *)
(* it may, if it may hold two, and the primary model stays in it.          *)
THEOREM CacheLimit == Spec => []CacheKeepsThePrimary
<1>1. Init => CacheIsKept
  <2> SUFFICES ASSUME Init, ~gpu_isolation PROVE CacheIsKept
    BY DEF CacheIsKept
  <2>1. /\ DOMAIN loaded_models = {<<"cached", Primary>>}
        /\ \A k \in DOMAIN loaded_models : loaded_models[k].is_primary = TRUE
    BY DEF Init, LoadedModel
  <2>2. /\ IsFiniteSet(DOMAIN loaded_models)
        /\ Cardinality(DOMAIN loaded_models) = 1
    BY <2>1, FS_Singleton
  <2> QED
    BY <2>1, <2>2, ModelManagerAssumption DEF CacheIsKept, CacheKeepsThePrimary
<1>2. TypeOK /\ CacheIsKept /\ PressKeepsItsPromise /\ [Next]_vars => CacheIsKept'
  BY CacheNext
<1>3. CacheIsKept => CacheKeepsThePrimary
  BY DEF CacheIsKept, CacheKeepsThePrimary
<1>4. Recorded => PressKeepsItsPromise
  BY DEF Recorded
<1> QED
  BY <1>1, <1>2, <1>3, <1>4, TypeCorrect, RecordedInvariant, PTL DEF Spec

=============================================================================
