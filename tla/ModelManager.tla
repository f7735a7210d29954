---------------------------- MODULE ModelManager ----------------------------
(***************************************************************************)
(* The Whisper models of the daemon (src/src/model_manager.rs) and, with   *)
(* gpu_isolation, their worker processes (src/src/transcribe/subprocess.rs *)
(* and worker.rs).  Models are kept in a cache, or each recording has a    *)
(* worker of its own that loads the model while the user speaks.  With     *)
(* eager processing chunks of it are transcribed meanwhile.                *)
(*                                                                         *)
(* The cache and the prepared workers share one map, loaded_models.  A     *)
(* worker lives as long as something holds its transcriber: the map, the   *)
(* thread that prepares it, the loop's eager_transcriber, or a task.       *)
(***************************************************************************)
EXTENDS Naturals, FiniteSets, Functions

CONSTANTS
  Models,         \* the names a recording may ask for
  Available,      \* config: primary, secondary and available_models
  Primary,        \* config: model
  MaxLoaded,      \* config: max_loaded_models
  MaxRecordings,  \* recordings in a behaviour
  MaxChunks       \* chunks of an eager recording

ASSUME ModelManagerAssumption ==
  /\ Available \subseteq Models
  /\ Primary \in Available
  /\ MaxLoaded \in Nat
  /\ MaxRecordings \in Nat
  /\ MaxChunks \in Nat

VARIABLES
  gpu_isolation,         \* config
  eager_processing,      \* config
  cancel_key,            \* config: is there one?
  loaded_models,         \* from keys to what is loaded
  clock,                 \* orders the uses (not in the code)
  whisper_prepare_task,  \* the transcriber the last press prepares
  preparing,             \* transcribers whose prepare() loads a worker
  ready,                 \* transcribers that hold a prepared worker
  spawning,              \* tasks that wait for a worker of their own
  transcribing,          \* tasks that transcribe
  eager_transcriber,     \* of the loop: transcribes the chunks
  state,                 \* "idle", "recording", "eager", "waiting", "tail",
                         \* "transcribing"
  requested,             \* the model the recording asks for
  hybrid,                \* did the hybrid key start it?
  active,                \* the recording's task
  recordings,            \* recordings so far
  chunks                 \* chunks of this one so far

config == <<gpu_isolation, eager_processing, cancel_key>>
cache == <<loaded_models, clock>>
tasks == <<spawning, transcribing>>
workers == <<preparing, ready, tasks>>
recording == <<requested, hybrid, recordings>>
dictation == <<state, active, recording, chunks>>
vars == <<config, cache, whisper_prepare_task, workers, eager_transcriber, dictation>>

Keys == {"cached", "prepared"} \X Models

(* A transcriber is known by the recording that made it.                   *)
Transcribers ==
  [model : Models, how : {"cached", "prepared", "fresh"}, made : 0 .. MaxRecordings]

NoTranscriber == [model |-> Primary, how |-> "none", made |-> 0]

(* A transcription on the blocking pool, by a transcriber: of a chunk of a *)
(* recording, or 0, of the rest or all of it.                              *)
Tasks ==
  [transcriber : Transcribers, recording : 0 .. MaxRecordings, chunk : 0 .. MaxChunks]

NoTask == [transcriber |-> NoTranscriber, recording |-> 0, chunk |-> 0]

Task(t, chunk) == [transcriber |-> t, recording |-> recordings, chunk |-> chunk]

Transcriber(m, how) == [model |-> m, how |-> how, made |-> recordings]

LoadedModel(t, used, primary) ==
  [transcriber |-> t, last_used |-> used, is_primary |-> primary]

Without(keys) == Restrict(loaded_models, DOMAIN loaded_models \ keys)

With(f, key, value) == [k \in DOMAIN f \cup {key} |-> IF k = key THEN value ELSE f[k]]

IsModelAvailable(m) == m \in Available

(* preload_primary: the daemon does not start without its primary model.   *)
Init ==
  /\ gpu_isolation \in BOOLEAN
  /\ eager_processing \in BOOLEAN
  /\ cancel_key \in BOOLEAN
  /\ recordings = 0
  /\ chunks = 0
  /\ clock = 0
  /\ loaded_models =
       IF gpu_isolation THEN [k \in {} |-> NoTranscriber]
       ELSE [k \in {<<"cached", Primary>>} |->
               LoadedModel(Transcriber(Primary, "cached"), 0, TRUE)]
  /\ whisper_prepare_task = NoTranscriber
  /\ preparing = {}
  /\ ready = {}
  /\ spawning = {}
  /\ transcribing = {}
  /\ eager_transcriber = NoTranscriber
  /\ state = "idle"
  /\ requested = Primary
  /\ hybrid = FALSE
  /\ active = NoTask

-----------------------------------------------------------------------------
(* A press, and prepare_model before the capture starts.  An entry of the  *)
(* same model that an earlier recording left is replaced.                  *)

(* Mutant: one prepared worker for all models.                             *)
PreparedKeyOfAny(m) == <<"prepared", Primary>>

PreparedKey(m) == <<"prepared", m>>

Prepares(m) == gpu_isolation /\ IsModelAvailable(m)

PrepareModel(m) ==
  LET t == [model |-> m, how |-> "prepared", made |-> recordings + 1]
  IN IF Prepares(m)
     THEN /\ loaded_models' = With(loaded_models, PreparedKey(m),
                                   LoadedModel(t, clock, FALSE))
          /\ preparing' = preparing \cup {t}
          /\ whisper_prepare_task' = t
     ELSE /\ whisper_prepare_task' = NoTranscriber
          /\ UNCHANGED <<loaded_models, preparing>>

Starts(m, by_hybrid) ==
  /\ state = "idle"
  /\ recordings < MaxRecordings
  /\ recordings' = recordings + 1
  /\ requested' = m
  /\ hybrid' = by_hybrid
  /\ chunks' = 0
  /\ UNCHANGED <<config, ready, tasks, eager_transcriber, active>>

(* The press of push-to-talk and toggle, and the record start, in any mode. *)
(* The microphone may refuse: what is prepared stays.                      *)
Press(m) ==
  /\ Starts(m, FALSE)
  /\ clock' = clock + 1
  /\ PrepareModel(m)
  /\ state' \in {"idle", IF eager_processing THEN "eager" ELSE "recording"}

(* The press of the hybrid mode prepares nothing, and is never eager.      *)
HybridPress(m) ==
  /\ Starts(m, TRUE)
  /\ state' \in {"idle", "recording"}
  /\ UNCHANGED <<cache, whisper_prepare_task, preparing>>

(* SubprocessTranscriber::prepare on its thread: READY, or no worker.      *)
PrepareEnds(t) ==
  /\ t \in preparing
  /\ preparing' = preparing \ {t}
  /\ ready' \in {ready, ready \cup {t}}
  /\ UNCHANGED <<config, cache, whisper_prepare_task, tasks, eager_transcriber, dictation>>

(* Mutant: the file leaves the chunks' transcriber, as the key does.       *)
CancelByFileLikeTheKey ==
  /\ state \in {"recording", "eager"}
  /\ state' = "idle"
  /\ UNCHANGED <<config, cache, whisper_prepare_task, workers, eager_transcriber,
                 active, recording, chunks>>

(* A cancel before the stop leaves the map alone; an abort does not reach  *)
(* the chunks on the blocking pool.                                        *)
CancelByFile ==
  /\ state \in {"recording", "eager"}
  /\ state' = "idle"
  /\ eager_transcriber' = NoTranscriber
  /\ UNCHANGED <<config, cache, whisper_prepare_task, workers, active, recording, chunks>>

CancelByKey ==
  /\ cancel_key
  /\ state \in {"recording", "eager"}
  /\ state' = "idle"
  /\ UNCHANGED <<config, cache, whisper_prepare_task, workers, eager_transcriber,
                 active, recording, chunks>>

-----------------------------------------------------------------------------
(* get_prepared_transcriber, for the model of the recording, gives t.      *)

Model(m) == IF IsModelAvailable(m) THEN m ELSE Primary

(* The prepared one is taken out of the map.                               *)
TakePrepared(t) ==
  LET key == PreparedKey(requested)
  IN /\ key \in DOMAIN loaded_models
     /\ t = loaded_models[key].transcriber
     /\ loaded_models' = Without({key})
     /\ UNCHANGED clock

CreateSubprocess(t) ==
  /\ PreparedKey(requested) \notin DOMAIN loaded_models
  /\ gpu_isolation
  /\ t = Transcriber(Model(requested), "fresh")
  /\ UNCHANGED cache

UseCached(t) ==
  LET key == <<"cached", Model(requested)>>
  IN /\ ~gpu_isolation
     /\ key \in DOMAIN loaded_models
     /\ t = loaded_models[key].transcriber
     /\ clock' = clock + 1
     /\ loaded_models' = [loaded_models EXCEPT ![key].last_used = clock']

Evictable == {k \in DOMAIN loaded_models : ~loaded_models[k].is_primary}

LeastRecentlyUsed(k) ==
  \A other \in Evictable : loaded_models[k].last_used <= loaded_models[other].last_used

(* Mutant: a cache is full when it exceeds its limit.                      *)
EvictLruLate ==
  IF Cardinality(DOMAIN loaded_models) > MaxLoaded
  THEN {k \in Evictable : LeastRecentlyUsed(k)}
  ELSE {}

(* evict_lru, when the map is full: nothing goes if all is primary.        *)
EvictLru ==
  IF Cardinality(DOMAIN loaded_models) >= MaxLoaded
  THEN {k \in Evictable : LeastRecentlyUsed(k)}
  ELSE {}

(* get_or_load_cached: room is made before the model is loaded.            *)
LoadCached(t) ==
  LET m == Model(requested)
      key == <<"cached", m>>
  IN /\ ~gpu_isolation
     /\ key \notin DOMAIN loaded_models
     /\ t = Transcriber(m, "cached")
     /\ clock' = clock + 1
     /\ loaded_models' =
          With(Without(EvictLru), key, LoadedModel(t, clock', m = Primary))

LoadFails ==
  /\ ~gpu_isolation
  /\ <<"cached", Model(requested)>> \notin DOMAIN loaded_models
  /\ loaded_models' = Without(EvictLru)
  /\ UNCHANGED clock

GetPrepared(t) == TakePrepared(t) \/ CreateSubprocess(t) \/ UseCached(t) \/ LoadCached(t)

(* A task starts, with the worker of its transcriber if that has one.      *)
Run(task) ==
  /\ ready' = ready \ {task.transcriber}
  /\ IF task.transcriber \in ready \/ ~gpu_isolation
     THEN transcribing' = transcribing \cup {task} /\ UNCHANGED spawning
     ELSE spawning' = spawning \cup {task} /\ UNCHANGED transcribing

-----------------------------------------------------------------------------
(* The tick of an eager recording: the chunks get a transcriber, whether   *)
(* or not it is prepared yet, and a chunk may be complete.                 *)

Populate(t) ==
  \/ eager_transcriber # NoTranscriber /\ t = eager_transcriber /\ UNCHANGED cache
  \/ eager_transcriber = NoTranscriber /\ GetPrepared(t)
  \/ eager_transcriber = NoTranscriber /\ t = NoTranscriber /\ LoadFails

EagerTick ==
  /\ state = "eager"
  /\ \E t \in Transcribers \cup {NoTranscriber} :
       /\ Populate(t)
       /\ eager_transcriber' = t
       /\ \/ UNCHANGED <<ready, tasks, chunks>>
          \/ /\ t # NoTranscriber
             /\ chunks < MaxChunks
             /\ chunks' = chunks + 1
             /\ Run(Task(t, chunks'))
  /\ UNCHANGED <<config, whisper_prepare_task, preparing, state, active, recording>>

-----------------------------------------------------------------------------
(* The stop: get_transcriber_for_recording, which waits for the prepare    *)
(* task, then the capture's samples.                                       *)

(* Mutant: the stop does not wait.                                         *)
PrepareIgnored == TRUE

PrepareAwaited == whisper_prepare_task \notin preparing

(* The task starts; or the recording was too short or silent, and the      *)
(* transcriber is dropped.                                                 *)
Begin(t) ==
  \/ /\ state' = "transcribing"
     /\ active' = Task(t, 0)
     /\ Run(active')
  \/ /\ state' = "idle"
     /\ active' = NoTask
     /\ UNCHANGED <<ready, tasks>>

Stop ==
  /\ state = "recording"
  /\ PrepareAwaited
  /\ whisper_prepare_task' = NoTranscriber
  /\ \/ \E t \in Transcribers : GetPrepared(t) /\ Begin(t)
     \/ LoadFails /\ state' = "idle" /\ UNCHANGED <<ready, tasks, active>>
  /\ UNCHANGED <<config, preparing, eager_transcriber, recording, chunks>>

(* The loop waits for the chunks, and transcribes what is left after them. *)
StopEager ==
  /\ state = "eager"
  /\ PrepareAwaited
  /\ whisper_prepare_task' = NoTranscriber
  /\ \/ \E t \in Transcribers :
          GetPrepared(t) /\ state' = "waiting" /\ active' = Task(t, 0)
     \/ LoadFails /\ state' = "idle" /\ UNCHANGED active
  /\ UNCHANGED <<config, workers, eager_transcriber, recording, chunks>>

ChunksAreDone ==
  \A task \in spawning \cup transcribing : task.recording # recordings

FinishEager ==
  /\ state = "waiting"
  /\ ChunksAreDone
  /\ \/ /\ state' = "tail"
        /\ Run(active)
        /\ UNCHANGED <<active, eager_transcriber>>
     \/ /\ state' = "idle"
        /\ active' = NoTask
        /\ eager_transcriber' = NoTranscriber
        /\ UNCHANGED <<ready, tasks>>
  /\ UNCHANGED <<config, cache, whisper_prepare_task, preparing, recording, chunks>>

-----------------------------------------------------------------------------
(* The task.  A worker serves one transcription and exits; a failure to    *)
(* spawn, write, read or decode ends the task, and drops the worker.       *)

EndOf(task) ==
  IF active = task
  THEN /\ state' = "idle"
       /\ active' = NoTask
       /\ eager_transcriber' = IF state = "tail" THEN NoTranscriber ELSE eager_transcriber
  ELSE UNCHANGED <<state, active, eager_transcriber>>

SpawnEnds(task) ==
  /\ task \in spawning
  /\ spawning' = spawning \ {task}
  /\ \/ /\ transcribing' = transcribing \cup {task}
        /\ UNCHANGED <<state, active, eager_transcriber>>
     \/ EndOf(task) /\ UNCHANGED transcribing
  /\ UNCHANGED <<config, cache, whisper_prepare_task, preparing, ready, recording, chunks>>

TranscriptionEnds(task) ==
  /\ task \in transcribing
  /\ transcribing' = transcribing \ {task}
  /\ EndOf(task)
  /\ UNCHANGED <<config, cache, whisper_prepare_task, preparing, ready, spawning,
                 recording, chunks>>

(* An abort does not reach a thread of the blocking pool: it goes on.      *)
CancelTranscription ==
  /\ state = "transcribing"
  /\ state' = "idle"
  /\ active' = NoTask
  /\ UNCHANGED <<config, cache, whisper_prepare_task, workers, eager_transcriber,
                 recording, chunks>>

-----------------------------------------------------------------------------

(* evict_idle_models on the idle tick: what was last used before a cutoff. *)
EvictIdleModels ==
  /\ state = "idle"
  /\ \E cutoff \in 1 .. clock + 1 :
       loaded_models' = Without({k \in Evictable : loaded_models[k].last_used < cutoff})
  /\ UNCHANGED <<config, clock, whisper_prepare_task, workers, eager_transcriber, dictation>>

Held(t) ==
  \/ \E k \in DOMAIN loaded_models : loaded_models[k].transcriber = t
  \/ eager_transcriber = t
  \/ \E task \in {active} \cup spawning \cup transcribing : task.transcriber = t

(* Nobody holds the transcriber: its worker reads the end of its input,    *)
(* and exits.                                                              *)
WorkerExits(t) ==
  /\ t \in ready
  /\ ~Held(t)
  /\ ready' = ready \ {t}
  /\ UNCHANGED <<config, cache, whisper_prepare_task, preparing, tasks,
                 eager_transcriber, dictation>>

Next ==
  \/ \E m \in Models : Press(m) \/ HybridPress(m)
  \/ \E t \in preparing : PrepareEnds(t)
  \/ \E task \in spawning : SpawnEnds(task)
  \/ \E task \in transcribing : TranscriptionEnds(task)
  \/ \E t \in ready : WorkerExits(t)
  \/ CancelByFile \/ CancelByKey \/ EagerTick \/ Stop \/ StopEager \/ FinishEager
  \/ CancelTranscription \/ EvictIdleModels

Spec == Init /\ [][Next]_vars

-----------------------------------------------------------------------------

TypeOK ==
  /\ gpu_isolation \in BOOLEAN
  /\ eager_processing \in BOOLEAN
  /\ cancel_key \in BOOLEAN
  /\ DOMAIN loaded_models \subseteq Keys
  /\ \A k \in DOMAIN loaded_models :
       /\ loaded_models[k] \in
            [transcriber : Transcribers, last_used : Nat, is_primary : BOOLEAN]
       /\ loaded_models[k].transcriber.how = k[1]
       /\ loaded_models[k].transcriber.model = k[2]
  /\ clock \in Nat
  /\ whisper_prepare_task \in Transcribers \cup {NoTranscriber}
  /\ preparing \subseteq Transcribers
  /\ ready \subseteq Transcribers
  /\ spawning \subseteq Tasks
  /\ transcribing \subseteq Tasks
  /\ eager_transcriber \in Transcribers \cup {NoTranscriber}
  /\ state \in {"idle", "recording", "eager", "waiting", "tail", "transcribing"}
  /\ requested \in Models
  /\ hybrid \in BOOLEAN
  /\ active \in IF state \in {"idle", "recording", "eager"} THEN {NoTask} ELSE Tasks
  /\ recordings \in 0 .. MaxRecordings
  /\ chunks \in 0 .. MaxChunks

(* The cache holds no more models than it may ("Maximum number of models   *)
(* to keep loaded", CONFIGURATION.md), with room for a second model, and   *)
(* the primary model is one of them, whatever is loaded and evicted.       *)
CacheKeepsThePrimary ==
  ~gpu_isolation =>
    /\ <<"cached", Primary>> \in DOMAIN loaded_models
    /\ MaxLoaded >= 2 => Cardinality(DOMAIN loaded_models) <= MaxLoaded

(* A recording is transcribed with the model it asks for, or the primary   *)
(* one if that is not available; and by a worker of its own, never by one  *)
(* that an earlier, cancelled recording left prepared, unless the hybrid   *)
(* key started it.                                                         *)
RecordingGetsItsModel ==
  active # NoTask =>
    /\ active.transcriber.model = Model(requested)
    /\ gpu_isolation /\ ~hybrid => active.transcriber.made = active.recording

(* The chunks of an eager recording are transcribed with its model too,    *)
(* not with that of a cancelled one, if recordings are cancelled by the    *)
(* file alone: the key leaves the loop its transcriber.                    *)
EagerModelIsCurrent ==
  ~cancel_key =>
    \A task \in spawning \cup transcribing :
      task.recording = recordings => task.transcriber.model = Model(requested)

(* The task of a recording does not load a second worker while the one its *)
(* press prepares is loading or stands by (model_manager.rs: "so that we   *)
(* don't race against the in-flight prepare"), without eager processing:   *)
(* a chunk does not wait.                                                  *)
NoSecondWorker ==
  ~eager_processing =>
    \A task \in spawning : \A t \in preparing \cup ready : t.made # task.recording

=============================================================================
