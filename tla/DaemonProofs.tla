---------------------------- MODULE DaemonProofs ----------------------------
(***************************************************************************)
(* Theorems about the daemon's process: Startup, for every set of          *)
(* processes and every number of commands, and EventLoop, for every        *)
(* threshold, limit, eviction period and number of events.                 *)
(***************************************************************************)
EXTENDS Startup, EventLoop, TLAPS

Stages == {"new", "launched", "cleaned", "completed", "written", "bound",
           "refused", "stale", "removed", "locked", "running", "dead"}

(* The part of TypeOK that the proofs below need.                          *)
StagesOK ==
  /\ pc \in [Pids -> Stages]
  /\ lock \in Pids \cup {None}
  /\ pid_file \in Pids \cup {None}
  /\ socket \in Pids \cup {None}
  /\ status \in [Pids -> {"none", "active", "paused", "completed"}]
  /\ stale \in [Pids -> Pids \cup {None}]
  /\ missing \in [Pids -> SUBSET {"pid_file", "socket", "meetings"}]
  /\ cli \in Pids \cup {None}
  /\ commands \in Nat
  /\ alone \subseteq Pids

LEMMA StagesNext ==
  ASSUME StagesOK, [Next]_vars
  PROVE  StagesOK'
<1> USE StartupAssumption DEF StagesOK, Stages, Step, starts
<1>1. ASSUME NEW p \in Pids,
             Launch(p) \/ CleanupFiles(p) \/ CompleteStaleMeetings(p) \/ WritePidFile(p)
      PROVE  StagesOK'
  BY <1>1
  DEF Launch, CleanupFiles, CompleteStaleMeetings, WritePidFile, Completed,
      Misses, files, records, user, ghosts
<1>2. ASSUME NEW p \in Pids, BindSocket(p) \/ Acquire(p) \/ AcquireFails(p) \/ Ready(p)
      PROVE  StagesOK'
  BY <1>2
  DEF BindSocket, Misses, Acquire, AcquireFails, Ready, files, records, user, ghosts
<1>3. ASSUME NEW p \in Pids, FindStale(p) \/ RemoveStale(p) \/ Refuse(p)
      PROVE  StagesOK'
  BY <1>3 DEF FindStale, RemoveStale, Refuse, Forgets, files, records, user, ghosts
<1>4. ASSUME NEW p \in Pids, LoadFails(p) \/ Crash(p) \/ Shutdown(p)
      PROVE  StagesOK'
  BY <1>4 DEF LoadFails, Crash, Shutdown, Released, Forgets, Saved, files, records, user, ghosts
<1>5. ASSUME NEW p \in Pids,
             StartMeeting(p) \/ PauseMeeting(p) \/ StopMeeting(p) \/ TakeCommand(p)
      PROVE  StagesOK'
  BY <1>5
  DEF StartMeeting, PauseMeeting, StopMeeting, Saved, TakeCommand, files, records, user, ghosts
<1>6. CASE CliRead \/ CliSend \/ CliRemovesStale
  BY <1>6 DEF CliRead, CliSend, CliRemovesStale, files, records, ghosts
<1>7. CASE UNCHANGED vars
  BY <1>7 DEF vars, files, records, user, ghosts
<1> QED
  BY <1>1, <1>2, <1>3, <1>4, <1>5, <1>6, <1>7 DEF Next, Start

LEMMA StagesInvariant == Spec => []StagesOK
<1>1. Init => StagesOK
  BY DEF Init, StagesOK, Stages
<1> QED
  BY <1>1, StagesNext, PTL DEF Spec

-----------------------------------------------------------------------------
(* The lock.                                                               *)

(* LockNamesTheDaemon is not inductive: a start that found a dead holder   *)
(* may remove the lock much later, and so may a command.  What they read   *)
(* names a process that was once launched, and a start goes on to remove   *)
(* only if that process is dead for good.                                  *)
LockIsHeld ==
  /\ ~stolen => \A p \in Pids : pc[p] \in {"locked", "running"} => lock = p
  /\ lock # None => pc[lock] # "new"
  /\ cli # None => pc[cli] # "new"
  /\ \A p \in Pids : pc[p] = "stale" => stale[p] # None /\ pc[stale[p]] = "dead"

LEMMA LockNext ==
  ASSUME StagesOK, LockIsHeld, [Next]_vars
  PROVE  LockIsHeld'
<1> USE StartupAssumption DEF StagesOK, Stages, LockIsHeld, Step, starts
<1>1. ASSUME NEW p \in Pids,
             \/ Launch(p) \/ CleanupFiles(p) \/ CompleteStaleMeetings(p)
             \/ WritePidFile(p) \/ BindSocket(p) \/ AcquireFails(p) \/ Ready(p)
      PROVE  LockIsHeld'
  <2>1. /\ \A q \in Pids : \/ pc'[q] = pc[q]
                           \/ /\ q = p /\ pc[p] # "dead"
                              /\ pc'[p] \notin {"new", "stale", "dead"}
                              /\ pc'[p] \in {"locked", "running"} => pc[p] = "locked"
        /\ UNCHANGED <<lock, cli, stale, stolen>>
    BY <1>1
    DEF Launch, CleanupFiles, CompleteStaleMeetings, WritePidFile, BindSocket,
        AcquireFails, Ready, files, user, ghosts
  <2> QED
    BY <2>1
<1>2. ASSUME NEW p \in Pids, Acquire(p)
      PROVE  LockIsHeld'
  BY <1>2 DEF Acquire, user, ghosts
<1>3. ASSUME NEW p \in Pids, FindStale(p)
      PROVE  LockIsHeld'
  BY <1>3 DEF FindStale, Alive, files, user, ghosts
<1>4. ASSUME NEW p \in Pids, RemoveStale(p)
      PROVE  LockIsHeld'
  <2>1. stale[p] \in Pids /\ pc[stale[p]] = "dead"
    BY <1>4 DEF RemoveStale
  <2>2. ~stolen' => ~stolen /\ lock = stale[p]
    BY <1>4, Zenon DEF RemoveStale
  <2>3. ~stolen' => \A q \in Pids : pc[q] \notin {"locked", "running"}
    BY <2>1, <2>2
  <2> QED
    BY <1>4, <2>3 DEF RemoveStale, user
<1>5. ASSUME NEW p \in Pids, Refuse(p) \/ Crash(p)
      PROVE  LockIsHeld'
  BY <1>5 DEF Refuse, Crash, Forgets, Alive, files, user, ghosts
<1>6. ASSUME NEW p \in Pids, LoadFails(p) \/ Shutdown(p)
      PROVE  LockIsHeld'
  <2>1. CASE LoadFails(p)
    BY <2>1 DEF LoadFails, Forgets, Released, user, ghosts
  <2>2. CASE Shutdown(p)
    BY <2>2 DEF Shutdown, Forgets, Released, user, ghosts
  <2> QED
    BY <1>6, <2>1, <2>2
<1>7. ASSUME NEW p \in Pids,
             StartMeeting(p) \/ PauseMeeting(p) \/ StopMeeting(p) \/ TakeCommand(p)
      PROVE  LockIsHeld'
  BY <1>7
  DEF StartMeeting, PauseMeeting, StopMeeting, TakeCommand, files, user, ghosts
<1>8. CASE CliRead \/ CliSend
  BY <1>8 DEF CliRead, CliSend, files, ghosts
<1>9. CASE CliRemovesStale
  <2>1. cli \in Pids /\ pc[cli] = "dead"
    BY <1>9 DEF CliRemovesStale, Alive
  <2>2. ~stolen' => ~stolen /\ lock \in {None, cli}
    BY <1>9, Zenon DEF CliRemovesStale
  <2>3. ~stolen' => \A q \in Pids : pc[q] \notin {"locked", "running"}
    BY <2>1, <2>2
  <2> QED
    BY <1>9, <2>3 DEF CliRemovesStale
<1>10. CASE UNCHANGED vars
  BY <1>10 DEF vars, files, user, ghosts
<1> QED
  BY <1>1, <1>2, <1>3, <1>4, <1>5, <1>6, <1>7, <1>8, <1>9, <1>10 DEF Next, Start

LEMMA LockInvariant == Spec => []LockIsHeld
<1>1. Init => LockIsHeld
  BY DEF Init, LockIsHeld
<1>2. StagesOK /\ LockIsHeld /\ [Next]_vars => LockIsHeld'
  BY LockNext
<1> QED
  BY <1>1, <1>2, StagesInvariant, PTL DEF Spec

(* Whatever daemons crash, stop and start beside each other, the lock      *)
(* names the one that runs, as long as no lock was removed that had been   *)
(* taken meanwhile.                                                        *)
THEOREM LockOwner == Spec => []LockNamesTheDaemon
<1>1. LockIsHeld => LockNamesTheDaemon
  BY DEF LockIsHeld, LockNamesTheDaemon, Running
<1> QED
  BY <1>1, LockInvariant, PTL

OneDaemon == ~stolen => \A p, q \in Running : p = q

(* Under the same condition one daemon runs at most.                       *)
THEOREM AtMostOneDaemon == Spec => []OneDaemon
<1>1. LockNamesTheDaemon => OneDaemon
  BY DEF LockNamesTheDaemon, OneDaemon
<1> QED
  BY <1>1, LockOwner, PTL

-----------------------------------------------------------------------------
(* The desk of a daemon that is alone.                                     *)

After(stage) ==
  CASE stage = "completed" -> Stages \ {"new", "launched", "cleaned", "dead"}
    [] stage = "written"   -> Stages \ {"new", "launched", "cleaned", "completed", "dead"}
    [] stage = "bound"     -> {"bound", "refused", "stale", "removed", "locked", "running"}

(* What a start has put in order stays so, step by step, since nobody else *)
(* is there to change it: a crashed daemon does nothing any more, and the  *)
(* next start ends the solitude.                                           *)
DeskIsClean ==
  /\ meeting \subseteq Running
  /\ \A p \in alone :
       /\ Alive \subseteq {p}
       /\ pc[p] \in After("completed") =>
            \/ "meetings" \in missing[p]
            \/ \A q \in Pids : status[q] \in {"active", "paused"} => q = p
       /\ pc[p] \in After("written") => "pid_file" \in missing[p] \/ pid_file = p
       /\ pc[p] \in After("bound") => "socket" \in missing[p] \/ socket = p

LEMMA DeskNext ==
  ASSUME StagesOK, DeskIsClean, [Next]_vars
  PROVE  DeskIsClean'
<1> USE StartupAssumption
    DEF StagesOK, Stages, DeskIsClean, Alive, Running, After, Step, starts
<1>1. ASSUME NEW p \in Pids, Launch(p)
      PROVE  DeskIsClean'
  BY <1>1 DEF Launch, files, records
<1>2. ASSUME NEW p \in Pids, CleanupFiles(p)
      PROVE  DeskIsClean'
  BY <1>2 DEF CleanupFiles, records, ghosts
<1>3. ASSUME NEW p \in Pids, CompleteStaleMeetings(p)
      PROVE  DeskIsClean'
  BY <1>3 DEF CompleteStaleMeetings, Completed, Misses, files, ghosts
<1>4. ASSUME NEW p \in Pids, WritePidFile(p) \/ BindSocket(p)
      PROVE  DeskIsClean'
  BY <1>4 DEF WritePidFile, BindSocket, Misses, records, ghosts
<1>5. ASSUME NEW p \in Pids, Acquire(p) \/ AcquireFails(p) \/ FindStale(p) \/ Ready(p)
      PROVE  DeskIsClean'
  BY <1>5 DEF Acquire, AcquireFails, FindStale, Ready, files, records, ghosts
<1>6. ASSUME NEW p \in Pids, RemoveStale(p) \/ Refuse(p) \/ LoadFails(p)
      PROVE  DeskIsClean'
  BY <1>6 DEF RemoveStale, Refuse, LoadFails, Forgets, files, records, ghosts
<1>7. ASSUME NEW p \in Pids, Crash(p) \/ Shutdown(p)
      PROVE  DeskIsClean'
  BY <1>7 DEF Crash, Shutdown, Forgets, Saved, files, ghosts
<1>8. ASSUME NEW p \in Pids, StartMeeting(p) \/ PauseMeeting(p) \/ StopMeeting(p)
      PROVE  DeskIsClean'
  BY <1>8 DEF StartMeeting, PauseMeeting, StopMeeting, Saved, files, ghosts
<1>9. ASSUME NEW p \in Pids, TakeCommand(p)
      PROVE  DeskIsClean'
  BY <1>9 DEF TakeCommand, records, ghosts
<1>10. CASE CliRead \/ CliSend \/ CliRemovesStale
  BY <1>10 DEF CliRead, CliSend, CliRemovesStale, files, records, ghosts
<1>11. CASE UNCHANGED vars
  BY <1>11 DEF vars, files, records, ghosts
<1> QED
  BY <1>1, <1>2, <1>3, <1>4, <1>5, <1>6, <1>7, <1>8, <1>9, <1>10, <1>11
  DEF Next, Start

LEMMA DeskInvariant == Spec => []DeskIsClean
<1>1. Init => DeskIsClean
  BY DEF Init, DeskIsClean
<1>2. StagesOK /\ DeskIsClean /\ [Next]_vars => DeskIsClean'
  BY DeskNext
<1> QED
  BY <1>1, <1>2, StagesInvariant, PTL DEF Spec

(* A daemon beside which no other was alive runs with the pid file and the *)
(* socket it could make and finds no other daemon's meeting open unless it *)
(* could not complete it, whatever the daemons before it left.             *)
THEOREM CleanStart == Spec => []StartIsClean
<1>1. DeskIsClean => StartIsClean
  BY DEF DeskIsClean, StartIsClean, Running, After, Stages
<1> QED
  BY <1>1, DeskInvariant, PTL

FlagsOK == command \in BOOLEAN /\ stolen \in BOOLEAN

LEMMA FlagsNext == FlagsOK /\ [Next]_vars => FlagsOK'
<1> SUFFICES ASSUME FlagsOK, [Next]_vars PROVE FlagsOK'
  OBVIOUS
<1> USE DEF FlagsOK, files, records, starts, user, ghosts
<1>1. ASSUME NEW p \in Pids, Start(p)
      PROVE  FlagsOK'
  <2>1. CASE RemoveStale(p)
    BY <2>1, Zenon DEF RemoveStale
  <2> QED
    BY <1>1, <2>1
    DEF Start, CleanupFiles, CompleteStaleMeetings, WritePidFile, BindSocket,
        Acquire, AcquireFails, FindStale, Refuse, Ready
<1>2. ASSUME NEW p \in Pids,
             \/ Launch(p) \/ LoadFails(p) \/ Crash(p) \/ Shutdown(p)
             \/ StartMeeting(p) \/ PauseMeeting(p) \/ StopMeeting(p) \/ TakeCommand(p)
      PROVE  FlagsOK'
  BY <1>2
  DEF Launch, LoadFails, Crash, Shutdown, StartMeeting, PauseMeeting, StopMeeting,
      TakeCommand
<1>3. CASE CliRemovesStale
  BY <1>3, Zenon DEF CliRemovesStale
<1>4. CASE CliRead \/ CliSend
  BY <1>4 DEF CliRead, CliSend
<1>5. CASE UNCHANGED vars
  BY <1>5 DEF vars
<1> QED
  BY <1>1, <1>2, <1>3, <1>4, <1>5 DEF Next

(* The files, the database and the processes are well formed; a meeting is *)
(* a running daemon's.                                                     *)
THEOREM TypeCorrect == Spec => []TypeOK
<1>1. Init => FlagsOK
  BY DEF Init, FlagsOK
<1>2. StagesOK /\ DeskIsClean /\ FlagsOK => TypeOK
  BY DEF StagesOK, Stages, DeskIsClean, FlagsOK, TypeOK
<1> QED
  BY <1>1, <1>2, FlagsNext, StagesInvariant, DeskInvariant, PTL DEF Spec


-----------------------------------------------------------------------------
(* The timers of the event loop.                                           *)

(* LoopTypeOK in two parts: the flags, and what is counted or named.       *)
LoopFlagsOK ==
  /\ capture \in BOOLEAN
  /\ hybrid_pending \in BOOLEAN
  /\ cancel \in BOOLEAN
  /\ meetings \in BOOLEAN
  /\ meeting_active \in BOOLEAN
  /\ cold_model \in BOOLEAN

LoopCountsOK ==
  /\ state \in {"idle", "recording", "streaming", "transcribing"}
  /\ age \in 0 .. MaxDuration
  /\ count \in 0 .. EvictEvery - 1
  /\ waited \in 0 .. 4
  /\ received \in 0 .. MaxEvents

LEMMA LoopTypeParts == LoopTypeOK <=> LoopFlagsOK /\ LoopCountsOK
BY DEF LoopTypeOK, LoopFlagsOK, LoopCountsOK, Period

LEMMA LoopTypeInit == LoopInit => LoopTypeOK
<1> SUFFICES ASSUME LoopInit
             PROVE  LoopFlagsOK /\ LoopCountsOK
  BY LoopTypeParts
<1>1. LoopFlagsOK
  BY DEF LoopInit, LoopFlagsOK
<1>2. LoopCountsOK
  BY EventLoopAssumption DEF LoopInit, LoopCountsOK
<1> QED
  BY <1>1, <1>2

LEMMA LoopFlagsNext == LoopFlagsOK /\ [LoopNext]_loopVars => LoopFlagsOK'
<1> SUFFICES ASSUME LoopFlagsOK, [LoopNext]_loopVars
             PROVE  LoopFlagsOK'
  OBVIOUS
<1> USE DEF LoopFlagsOK, modelVars, meetingVars
<1>1. CASE Elapse
  BY <1>1 DEF Elapse
<1>2. ASSUME NEW arm \in Arms, Fire(arm)
      PROVE  LoopFlagsOK'
  <2>1. hybrid_pending' \in BOOLEAN /\ capture' \in BOOLEAN
    BY <1>2 DEF Fire, Ends, BeginDrain, StopBatch
  <2>2. cancel' \in BOOLEAN /\ cold_model' \in BOOLEAN
    BY <1>2 DEF Fire
  <2>3. meeting_active' \in BOOLEAN
    BY <1>2 DEF Fire, MeetingAfter
  <2>4. meetings' = meetings
    BY <1>2 DEF Fire
  <2> QED
    BY <2>1, <2>2, <2>3, <2>4
<1>3. CASE Event
  BY <1>3 DEF Event, Press, Tap, BeginDrain, StopBatch, Abandon, Ends
<1>4. CASE RequestCancel
  BY <1>4 DEF RequestCancel
<1>5. CASE UNCHANGED loopVars
  BY <1>5 DEF loopVars, dictationVars
<1> QED
  BY <1>1, <1>2, <1>3, <1>4, <1>5 DEF LoopNext

(* A timer ends what the state is about or leaves the state and its age.   *)
LEMMA FireEndsOrKeeps ==
  ASSUME NEW arm \in Arms, Fire(arm)
  PROVE  Ends("idle") \/ Ends("transcribing") \/ UNCHANGED <<state, age>>
BY DEF Fire, BeginDrain, StopBatch

(* No turn outlasts the meeting poll's period: the poll is always enabled, *)
(* and time passes only while no enabled timer is due.                     *)
LEMMA LoopCountsNext == LoopCountsOK /\ [LoopNext]_loopVars => LoopCountsOK'
<1> SUFFICES ASSUME LoopCountsOK, [LoopNext]_loopVars
             PROVE  LoopCountsOK'
  OBVIOUS
<1> USE EventLoopAssumption DEF LoopCountsOK, modelVars, meetingVars
<1>1. CASE Elapse
  <2>1. ~Due("meeting_poll")
    BY <1>1 DEF Elapse, Arms
  <2>2. waited < 4
    BY <2>1 DEF Due, Guard, Period
  <2> QED
    BY <1>1, <2>2 DEF Elapse
<1>2. ASSUME NEW arm \in Arms, Fire(arm)
      PROVE  LoopCountsOK'
  <2>1. waited' = 0 /\ received' = received
    BY <1>2 DEF Fire
  <2>2. count' \in 0 .. EvictEvery - 1
    BY <1>2 DEF Fire
  <2>3. CASE Ends("idle") \/ Ends("transcribing")
    BY <2>1, <2>2, <2>3 DEF Ends
  <2>4. CASE UNCHANGED <<state, age>>
    BY <2>1, <2>2, <2>4
  <2> QED
    BY <1>2, <2>3, <2>4, FireEndsOrKeeps
<1>3. CASE Event
  <2>1. waited' = 0 /\ received' \in 0 .. MaxEvents /\ count' = count
    BY <1>3 DEF Event
  <2>2. /\ state' \in {"idle", "recording", "streaming", "transcribing"}
        /\ age' \in {0, age}
    BY <1>3 DEF Event, Press, Tap, BeginDrain, StopBatch, Abandon, Ends
  <2> QED
    BY <2>1, <2>2
<1>4. CASE RequestCancel
  BY <1>4 DEF RequestCancel
<1>5. CASE UNCHANGED loopVars
  BY <1>5 DEF loopVars, dictationVars
<1> QED
  BY <1>1, <1>2, <1>3, <1>4, <1>5 DEF LoopNext

(* The state is always well formed, and a turn of the loop lasts no longer *)
(* than the period of the meeting poll, which is always enabled.           *)
THEOREM LoopTypeCorrect == LoopSpec => []LoopTypeOK
<1>1. LoopTypeOK /\ [LoopNext]_loopVars => LoopTypeOK'
  <2> SUFFICES ASSUME LoopTypeOK, [LoopNext]_loopVars
               PROVE  LoopTypeOK'
    OBVIOUS
  <2>1. LoopFlagsOK' /\ LoopCountsOK'
    BY LoopTypeParts, LoopFlagsNext, LoopCountsNext
  <2> QED
    BY <2>1 DEF LoopTypeOK, LoopFlagsOK, LoopCountsOK, Period
<1> QED
  BY <1>1, LoopTypeInit, PTL DEF LoopSpec

(* The idle arm, which takes a stale cancel away and evicts cold models    *)
(* (evict_idle_models), never runs, whatever happens.                      *)
THEOREM IdleArmStarves == LoopSpec => [][~Fire("idle")]_loopVars
<1>1. LoopTypeOK => ~Fire("idle")
  BY DEF LoopTypeOK, Fire, Due, Period
<1> QED
  BY <1>1, LoopTypeCorrect, PTL DEF LoopSpec

(* During a meeting a turn lasts 50 ms at most.                            *)
MeetingTurnsAreShort == meeting_active => waited <= 2

LEMMA MeetingTurnsNext ==
  LoopCountsOK /\ MeetingTurnsAreShort /\ [LoopNext]_loopVars => MeetingTurnsAreShort'
<1> SUFFICES ASSUME LoopCountsOK, MeetingTurnsAreShort, [LoopNext]_loopVars
             PROVE  MeetingTurnsAreShort'
  OBVIOUS
<1> USE DEF LoopCountsOK, MeetingTurnsAreShort, meetingVars
<1>1. CASE Elapse
  <2>1. ~Due("meeting_audio")
    BY <1>1 DEF Elapse, Arms
  <2>2. meeting_active => waited < 2
    BY <2>1 DEF Due, Guard, Period
  <2> QED
    BY <1>1, <2>2 DEF Elapse
<1>2. ASSUME NEW arm \in Arms, Fire(arm)
      PROVE  MeetingTurnsAreShort'
  BY <1>2 DEF Fire
<1>3. CASE Event
  BY <1>3 DEF Event
<1>4. CASE RequestCancel
  BY <1>4 DEF RequestCancel
<1>5. CASE UNCHANGED loopVars
  BY <1>5 DEF loopVars
<1> QED
  BY <1>1, <1>2, <1>3, <1>4, <1>5 DEF LoopNext

(* While a meeting is active neither the recording's tick, which looks at  *)
(* the limit and at the cancel file and spawns eager chunks, nor that of a *)
(* transcription ever runs: the restriction of CancelIsSeen and            *)
(* RecordingStopsAtItsLimit to users without meetings is needed.           *)
THEOREM MeetingStarvesDictation ==
  LoopSpec => [][meeting_active => ~Fire("recording") /\ ~Fire("transcribing")]_loopVars
<1>1. LoopInit => MeetingTurnsAreShort
  BY DEF LoopInit, MeetingTurnsAreShort
<1>2. LoopTypeOK /\ MeetingTurnsAreShort /\ [LoopNext]_loopVars => MeetingTurnsAreShort'
  BY MeetingTurnsNext, LoopTypeParts
<1>3. MeetingTurnsAreShort /\ LoopTypeOK =>
        (meeting_active => ~Fire("recording") /\ ~Fire("transcribing"))
  BY DEF MeetingTurnsAreShort, LoopTypeOK, Fire, Due, Period
<1> QED
  BY <1>1, <1>2, <1>3, LoopTypeCorrect, PTL DEF LoopSpec

=============================================================================
