---------------------------- MODULE EagerChunks -----------------------------
(***************************************************************************)
(* An eager recording (src/src/daemon.rs, src/src/eager.rs): while the     *)
(* user speaks, complete chunks of the audio are transcribed by tasks of   *)
(* their own; a stop waits for them, transcribes the tail and combines     *)
(* the texts.  Dictation says when a recording starts, stops and is        *)
(* cancelled; here the audio and the text count.                           *)
(*                                                                         *)
(* A sample is the word spoken in it, and a transcription of samples gives *)
(* these words or fails.                                                   *)
(***************************************************************************)
EXTENDS EagerGeometry, SequencesExt

CONSTANTS
  Configs,    \* chunk, overlap and least tail of the instances
  MaxSpoken   \* words of a recording

ASSUME EagerAssumption ==
  /\ Configs \subseteq {g \in Geometries : g.overlap < g.chunk}
  /\ MaxSpoken \in Nat

VARIABLES
  config,             \* the geometry
  spoken,             \* every word so far (not in the code)
  captured,           \* words the capture has not handed over
  transcriber,        \* eager_transcriber is there
  accumulated_audio,
  chunks_sent,
  tasks_in_flight,
  eager_chunk_tasks,  \* chunk_index, its audio, and how the task stands
  chunk_results,      \* chunk_index and text
  phase,              \* "recording", "finishing", "done"
  combined            \* the text of the recording

speech == <<config, spoken>>
eagerVars == <<speech, captured, transcriber, accumulated_audio, chunks_sent,
               tasks_in_flight, eager_chunk_tasks, chunk_results, phase, combined>>

Words == 1 .. MaxSpoken
Text == Seq(Words)

Slice(audio, start, end) == SubSeq(audio, start + 1, end)

(* extract_chunk                                                           *)
ExtractChunk(audio, k) == Slice(audio, ChunkStart(config, k), ChunkEnd(config, k))

Task(k, audio) == [chunk_index |-> k, audio |-> audio, outcome |-> "running"]
Result(k, t) == [chunk_index |-> k, text |-> t]

(* Mutant: the first match is taken, not the longest.                      *)
ShortestOverlap(previous, new) ==
  LET matches == {n \in 1 .. Len(new) : IsSuffix(SubSeq(new, 1, n), previous)}
  IN IF matches = {} THEN 0 ELSE Min(matches)

(* deduplicate_boundary: the longest beginning of the new words that ends  *)
(* the previous ones.                                                      *)
BestOverlap(previous, new) ==
  Max({0} \cup {n \in 1 .. Len(new) : IsSuffix(SubSeq(new, 1, n), previous)})

DeduplicateBoundary(previous, new) == SubSeq(new, BestOverlap(previous, new) + 1, Len(new))

(* The elements of s at the given places, in the order of their keys.      *)
Before(places, key, i) == {j \in places : key[j] < key[i]}

Arranged(s, places, key) ==
  [n \in 1 .. Cardinality(places) |->
     s[CHOOSE i \in places : Cardinality(Before(places, key, i)) = n - 1]]

(* Mutant: the results are combined in the order they came in.             *)
ByArrival(results) == results

ByIndex(results) ==
  Arranged(results, DOMAIN results, [i \in DOMAIN results |-> results[i].chunk_index])

CombineChunkResults(results) ==
  LET sorted == ByIndex(results)
      merged[n \in 0 .. Len(sorted)] ==
        IF n = 0 THEN <<>>
        ELSE LET t == merged[n - 1] IN t \o DeduplicateBoundary(t, sorted[n].text)
  IN merged[Len(sorted)]

EagerInit ==
  /\ config \in Configs
  /\ spoken = <<>>
  /\ captured = <<>>
  /\ transcriber = FALSE
  /\ accumulated_audio = <<>>
  /\ chunks_sent = 0
  /\ tasks_in_flight = 0
  /\ eager_chunk_tasks = <<>>
  /\ chunk_results = <<>>
  /\ phase = "recording"
  /\ combined = <<>>

(* A new word, or one that was spoken before.                              *)
Speak ==
  /\ phase = "recording"
  /\ Len(spoken) < MaxSpoken
  /\ \E w \in {Cardinality(ToSet(spoken)) + 1} \cup ToSet(spoken) :
       /\ spoken' = Append(spoken, w)
       /\ captured' = Append(captured, w)
  /\ UNCHANGED <<config, transcriber, accumulated_audio, chunks_sent, tasks_in_flight,
                 eager_chunk_tasks, chunk_results, phase, combined>>

Finished(t) == t.outcome # "running"

(* A task that failed leaves an empty result, to keep the order.           *)
ResultOf(t) == Result(t.chunk_index, IF t.outcome = "ok" THEN t.audio ELSE <<>>)

ResultsOf(tasks) == [i \in DOMAIN tasks |-> ResultOf(tasks[i])]

(* Mutant: a finished task is collected and kept.                          *)
AllTasks(tasks) == tasks

(* poll_chunk_tasks: the tasks that are not finished stay, in their order. *)
TasksAt(tasks, places) == Arranged(tasks, places, [i \in places |-> i])

FinishedTasks(tasks) == TasksAt(tasks, {i \in DOMAIN tasks : Finished(tasks[i])})

RemainingTasks(tasks) == TasksAt(tasks, {i \in DOMAIN tasks : ~Finished(tasks[i])})

(* The recording tick: a transcriber is looked for until there is one,     *)
(* the capture emptied, complete chunks spawned, finished tasks collected. *)
RecordingTick ==
  LET audio == accumulated_audio \o captured
      complete == CountCompleteChunks(config, Len(audio))
      spawned == [i \in 1 .. Monus(complete, chunks_sent) |->
                    Task(chunks_sent + i - 1, ExtractChunk(audio, chunks_sent + i - 1))]
      done == FinishedTasks(eager_chunk_tasks)
      running == RemainingTasks(eager_chunk_tasks)
  IN /\ phase = "recording"
     /\ transcriber' \in {transcriber, TRUE}
     /\ accumulated_audio' = audio
     /\ captured' = <<>>
     /\ IF transcriber'
        THEN /\ chunks_sent' = chunks_sent + Len(spawned)
             /\ eager_chunk_tasks' = running \o spawned
             /\ tasks_in_flight' = Monus(tasks_in_flight + Len(spawned), Len(done))
        ELSE /\ UNCHANGED chunks_sent
             /\ eager_chunk_tasks' = running
             /\ tasks_in_flight' = Monus(tasks_in_flight, Len(done))
     /\ chunk_results' = chunk_results \o ResultsOf(done)
     /\ UNCHANGED <<speech, phase, combined>>

(* A task on the blocking pool returns, in any order, or fails.            *)
TaskReturns ==
  /\ \E i \in DOMAIN eager_chunk_tasks, outcome \in {"ok", "failed"} :
       /\ ~Finished(eager_chunk_tasks[i])
       /\ eager_chunk_tasks' = [eager_chunk_tasks EXCEPT ![i].outcome = outcome]
  /\ UNCHANGED <<speech, captured, transcriber, accumulated_audio, chunks_sent,
                 tasks_in_flight, chunk_results, phase, combined>>

(* A stop: the capture gives its last samples, or none if it fails.        *)
StopEager ==
  /\ phase = "recording"
  /\ phase' = "finishing"
  /\ accumulated_audio' \in {accumulated_audio, accumulated_audio \o captured}
  /\ captured' = <<>>
  /\ UNCHANGED <<speech, transcriber, chunks_sent, tasks_in_flight,
                 eager_chunk_tasks, chunk_results, combined>>

(* finish_eager_recording, once every task is waited for.                  *)
Finish ==
  LET waited == chunk_results \o ResultsOf(eager_chunk_tasks)
      index == Max({0} \cup {waited[i].chunk_index + 1 : i \in DOMAIN waited})
      tail == Slice(accumulated_audio, TailStart(config, index), Len(accumulated_audio))
      results == IF HasTail(config, Len(accumulated_audio), index)
                 THEN {waited, Append(waited, Result(index, tail))}
                 ELSE {waited}
  IN /\ phase = "finishing"
     /\ \A i \in DOMAIN eager_chunk_tasks : Finished(eager_chunk_tasks[i])
     /\ eager_chunk_tasks' = <<>>
     /\ \E r \in results : chunk_results' = r /\ combined' = CombineChunkResults(r)
     /\ phase' = "done"
     /\ UNCHANGED <<speech, captured, transcriber, accumulated_audio, chunks_sent,
                    tasks_in_flight>>

EagerNext == Speak \/ RecordingTick \/ TaskReturns \/ StopEager \/ Finish

EagerSpec == EagerInit /\ [][EagerNext]_eagerVars

-----------------------------------------------------------------------------

Tasks == [chunk_index : Nat, audio : Text, outcome : {"running", "ok", "failed"}]
Results == [chunk_index : Nat, text : Text]

EagerTypeOK ==
  /\ config \in Configs
  /\ spoken \in Text
  /\ captured \in Text
  /\ transcriber \in BOOLEAN
  /\ accumulated_audio \in Text
  /\ chunks_sent \in Nat
  /\ tasks_in_flight \in Nat
  /\ eager_chunk_tasks \in Seq(Tasks)
  /\ chunk_results \in Seq(Results)
  /\ phase \in {"recording", "finishing", "done"}
  /\ combined \in Text

(* Each chunk sent is in one task or one result, whatever order the tasks  *)
(* end in and whichever tick collects them.                                *)
IndicesOf(s) == {s[i].chunk_index : i \in DOMAIN s}

EveryChunkOnce ==
  phase # "done" =>
    /\ IndicesOf(eager_chunk_tasks) \cup IndicesOf(chunk_results) = 0 .. chunks_sent - 1
    /\ Len(eager_chunk_tasks) + Len(chunk_results) = chunks_sent
    /\ tasks_in_flight = Len(eager_chunk_tasks)

(* The words that reached a transcription that succeeded.                  *)
HeardWords == UNION {ToSet(chunk_results[i].text) : i \in DOMAIN chunk_results}

(* The text is the words heard, each once and in the order they were       *)
(* spoken, if no word was spoken twice (deduplicate_boundary): such words  *)
(* are numbered as they are spoken.                                        *)
TextIsWhatWasHeard ==
  phase = "done" /\ IsInjective(spoken) =>
    /\ ToSet(combined) = HeardWords
    /\ \A i, j \in DOMAIN combined : i < j => combined[i] < combined[j]

(* No audio falls between the chunks, or between them and the tail: if     *)
(* every transcription succeeded, every word handed over was heard, as     *)
(* long as the overlap is not shorter than the least tail.                 *)
NothingFailed ==
  /\ \A i \in DOMAIN chunk_results : chunk_results[i].text # <<>>
  /\ HasTail(config, Len(accumulated_audio), chunks_sent) =>
       Len(chunk_results) = chunks_sent + 1

NoAudioIsSkipped ==
  phase = "done" /\ NothingFailed /\ config.min_tail <= config.overlap
    /\ Len(accumulated_audio) >= config.min_tail =>
      ToSet(accumulated_audio) \subseteq HeardWords

(* Words may be missing at a boundary, but none is doubled: the text       *)
(* is what remains of the speech when some of its words are left out.      *)
IsSubsequence(s, t) ==
  \E place \in [DOMAIN s -> DOMAIN t] :
    /\ \A i, j \in DOMAIN s : i < j => place[i] < place[j]
    /\ \A i \in DOMAIN s : s[i] = t[place[i]]

NoWordIsDoubled == phase = "done" => IsSubsequence(combined, spoken)

=============================================================================
