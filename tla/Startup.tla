------------------------------ MODULE Startup ------------------------------
(***************************************************************************)
(* Daemons that start, run, stop and crash beside each other: the head and *)
(* the tail of Daemon::run, and the command line's look at the lock        *)
(* (src/src/daemon.rs, src/src/main.rs).  They share the files of the      *)
(* runtime directory and the meetings' database.  The lock's create-if-    *)
(* absent is the pidlock crate's (external).  A process id is not used     *)
(* twice.                                                                  *)
(***************************************************************************)
EXTENDS Naturals, FiniteSets

CONSTANTS
  Pids,        \* the processes that may be started as a daemon
  MaxCommands  \* commands given by the user

None == "none"

ASSUME StartupAssumption ==
  /\ None \notin Pids
  /\ MaxCommands \in Nat

VARIABLES
  pc,          \* where each process is in run()
  \* the runtime directory
  lock,        \* voxtype.lock: the pid it holds, or None
  pid_file,    \* pid
  socket,      \* audio.sock: whose listener is behind the path
  command,     \* does a command file (cancel, meeting_stop, ...) wait?
  \* the database, and each daemon's meeting_daemon
  status,      \* of each daemon's last meeting
  meeting,     \* the daemons that have a meeting
  \* what processes have read
  stale,       \* the pid a start read in the lock
  missing,     \* what each start could not do (pid_file_path or level_hub None)
  cli,         \* the pid a command read in the lock, or None
  commands,    \* commands given so far
  \* not in the code
  stolen,      \* was a lock removed that had been taken meanwhile?
  alone        \* the processes beside which no other was alive since their start

files == <<lock, pid_file, socket, command>>
records == <<status, meeting>>
starts == <<stale, missing>>
user == <<cli, commands>>
ghosts == <<stolen, alone>>
vars == <<pc, files, records, starts, user, ghosts>>

Alive == {p \in Pids : pc[p] \notin {"new", "dead"}}
Running == {p \in Pids : pc[p] = "running"}

Init ==
  /\ pc = [p \in Pids |-> "new"]
  /\ lock = None
  /\ pid_file = None
  /\ socket = None
  /\ command = FALSE
  /\ status = [p \in Pids |-> "none"]
  /\ meeting = {}
  /\ stale = [p \in Pids |-> None]
  /\ missing = [p \in Pids |-> {}]
  /\ cli = None
  /\ commands = 0
  /\ stolen = FALSE
  /\ alone = {}

Step(p, from, to) == pc[p] = from /\ pc' = [pc EXCEPT ![p] = to]

-----------------------------------------------------------------------------
(* The head of run(), in its order.                                        *)

Launch(p) ==
  /\ Step(p, "new", "launched")
  /\ alone' = IF Alive = {} THEN {p} ELSE {}
  /\ UNCHANGED <<files, records, starts, user, stolen>>

CleanupFiles(p) ==
  /\ Step(p, "launched", "cleaned")
  /\ command' = FALSE
  /\ UNCHANGED <<lock, pid_file, socket, records, starts, user, ghosts>>

(* Mutant: a paused meeting is not taken for an orphan.                    *)
CompletedIfActive(s) == IF s = "active" THEN "completed" ELSE s

Completed(s) == IF s \in {"active", "paused"} THEN "completed" ELSE s

(* A step of the start fails, which is logged, and the start goes on.      *)
Misses(p, what) == missing' = [missing EXCEPT ![p] = @ \cup {what}]

CompleteStaleMeetings(p) ==
  /\ Step(p, "cleaned", "completed")
  /\ \/ /\ status' = [q \in Pids |-> Completed(status[q])]
        /\ UNCHANGED missing
     \/ UNCHANGED status /\ Misses(p, "meetings")
  /\ UNCHANGED <<files, meeting, stale, user, ghosts>>

(* A write that fails leaves the old file, or an empty one.                *)
WritePidFile(p) ==
  /\ Step(p, "completed", "written")
  /\ \/ pid_file' = p /\ UNCHANGED missing
     \/ pid_file' \in {pid_file, None} /\ Misses(p, "pid_file")
  /\ UNCHANGED <<lock, socket, command, records, stale, user, ghosts>>

(* LevelHub::start removes what is at the path and binds it.               *)
BindSocket(p) ==
  /\ Step(p, "written", "bound")
  /\ \/ socket' = p /\ UNCHANGED missing
     \/ socket' \in {socket, None} /\ Misses(p, "socket")
  /\ UNCHANGED <<lock, pid_file, command, records, stale, user, ghosts>>

(* The lock: taken if there is none, at first or after a stale one is      *)
(* removed.                                                                *)
Acquire(p) ==
  /\ pc[p] \in {"bound", "removed"}
  /\ lock = None
  /\ lock' = p
  /\ pc' = [pc EXCEPT ![p] = "locked"]
  /\ UNCHANGED <<pid_file, socket, command, records, starts, user, ghosts>>

AcquireFails(p) ==
  /\ Step(p, "bound", "refused")
  /\ lock # None
  /\ UNCHANGED <<files, records, starts, user, ghosts>>

(* cleanup_stale_lockfile reads the lock and looks for its process.        *)
FindStale(p) ==
  /\ Step(p, "refused", "stale")
  /\ lock # None
  /\ lock \notin Alive
  /\ stale' = [stale EXCEPT ![p] = lock]
  /\ UNCHANGED <<files, records, missing, user, ghosts>>

(* And removes it, whosever it is by now.                                  *)
RemoveStale(p) ==
  /\ Step(p, "stale", "removed")
  /\ lock # None
  /\ lock' = None
  /\ stolen' = (stolen \/ lock # stale[p])
  /\ stale' = [stale EXCEPT ![p] = None]
  /\ UNCHANGED <<pid_file, socket, command, records, missing, user, alone>>

(* What a process knows goes with it.                                      *)
Forgets(p) ==
  /\ stale' = [stale EXCEPT ![p] = None]
  /\ missing' = [missing EXCEPT ![p] = {}]

(* Mutant: a refused start cleans up like one that ends.                   *)
RefuseAndCleanUp(p) ==
  /\ \/ pc[p] = "refused" /\ (lock = None \/ lock \in Alive)
     \/ pc[p] = "stale" /\ lock = None
     \/ pc[p] = "removed" /\ lock # None
  /\ pc' = [pc EXCEPT ![p] = "dead"]
  /\ lock' = None
  /\ Forgets(p)
  /\ UNCHANGED <<pid_file, socket, command, records, user, ghosts>>

(* Another instance is running, or seems to: the start returns its error,  *)
(* and what it has done stays.                                             *)
Refuse(p) ==
  /\ \/ pc[p] = "refused" /\ (lock = None \/ lock \in Alive)
     \/ pc[p] = "stale" /\ lock = None
     \/ pc[p] = "removed" /\ lock # None
  /\ pc' = [pc EXCEPT ![p] = "dead"]
  /\ Forgets(p)
  /\ UNCHANGED <<files, records, user, ghosts>>

Ready(p) ==
  /\ Step(p, "locked", "running")
  /\ UNCHANGED <<files, records, starts, user, ghosts>>

(* Whether the lock's file goes with its guard is the crate's affair.      *)
Released(p) == {lock} \cup (IF lock = p THEN {None} ELSE {})

(* The listener or the model cannot be had.                                *)
LoadFails(p) ==
  /\ Step(p, "locked", "dead")
  /\ lock' \in Released(p)
  /\ Forgets(p)
  /\ UNCHANGED <<pid_file, socket, command, records, user, ghosts>>

Crash(p) ==
  /\ p \in Alive
  /\ pc' = [pc EXCEPT ![p] = "dead"]
  /\ meeting' = meeting \ {p}
  /\ Forgets(p)
  /\ UNCHANGED <<files, status, user, ghosts>>

-----------------------------------------------------------------------------
(* A daemon that runs, and its end.                                        *)

StartMeeting(p) ==
  /\ p \in Running \ meeting
  /\ status[p] = "none"
  /\ status' = [status EXCEPT ![p] = "active"]
  /\ meeting' = meeting \cup {p}
  /\ UNCHANGED <<pc, files, starts, user, ghosts>>

PauseMeeting(p) ==
  /\ p \in Running \cap meeting
  /\ status' = [status EXCEPT ![p] = "paused"]
  /\ UNCHANGED <<pc, files, meeting, starts, user, ghosts>>

(* The row of a meeting that is stopped stays open if it cannot be saved.  *)
Saved(p) == {status, [status EXCEPT ![p] = "completed"]}

StopMeeting(p) ==
  /\ p \in Running \cap meeting
  /\ status' \in Saved(p)
  /\ meeting' = meeting \ {p}
  /\ UNCHANGED <<pc, files, starts, user, ghosts>>

TakeCommand(p) ==
  /\ p \in Running
  /\ command
  /\ command' = FALSE
  /\ UNCHANGED <<pc, lock, pid_file, socket, records, starts, user, ghosts>>

(* SIGTERM: the meeting is stopped, and the files it made are removed,     *)
(* whosever they are by now.                                               *)
Shutdown(p) ==
  /\ Step(p, "running", "dead")
  /\ status' \in IF p \in meeting THEN Saved(p) ELSE {status}
  /\ meeting' = meeting \ {p}
  /\ pid_file' = IF "pid_file" \in missing[p] THEN pid_file ELSE None
  /\ socket' = IF "socket" \in missing[p] THEN socket ELSE None
  /\ lock' \in Released(p)
  /\ Forgets(p)
  /\ UNCHANGED <<command, user, ghosts>>

-----------------------------------------------------------------------------
(* A command reads the lock; then it writes a file, or removes the lock of *)
(* a process that is gone.                                                 *)

CliRead ==
  /\ cli = None
  /\ lock # None
  /\ commands < MaxCommands
  /\ cli' = lock
  /\ commands' = commands + 1
  /\ UNCHANGED <<pc, files, records, starts, ghosts>>

CliSend ==
  /\ cli \in Alive
  /\ cli' = None
  /\ command' = TRUE
  /\ UNCHANGED <<pc, lock, pid_file, socket, records, starts, commands, ghosts>>

CliRemovesStale ==
  /\ cli # None
  /\ cli \notin Alive
  /\ cli' = None
  /\ lock' = None
  /\ stolen' = (stolen \/ lock \notin {None, cli})
  /\ UNCHANGED <<pc, pid_file, socket, command, records, starts, commands, alone>>

-----------------------------------------------------------------------------

Start(p) ==
  \/ CleanupFiles(p) \/ CompleteStaleMeetings(p) \/ WritePidFile(p) \/ BindSocket(p)
  \/ Acquire(p) \/ AcquireFails(p) \/ FindStale(p) \/ RemoveStale(p) \/ Refuse(p)
  \/ Ready(p)

Next ==
  \/ \E p \in Pids :
       \/ Launch(p) \/ Start(p) \/ LoadFails(p) \/ Crash(p) \/ Shutdown(p)
       \/ StartMeeting(p) \/ PauseMeeting(p) \/ StopMeeting(p) \/ TakeCommand(p)
  \/ CliRead \/ CliSend \/ CliRemovesStale

Spec == Init /\ [][Next]_vars

-----------------------------------------------------------------------------

TypeOK ==
  /\ pc \in [Pids -> {"new", "launched", "cleaned", "completed", "written", "bound",
                      "refused", "stale", "removed", "locked", "running", "dead"}]
  /\ lock \in Pids \cup {None}
  /\ pid_file \in Pids \cup {None}
  /\ socket \in Pids \cup {None}
  /\ command \in BOOLEAN
  /\ status \in [Pids -> {"none", "active", "paused", "completed"}]
  /\ meeting \subseteq Running
  /\ stale \in [Pids -> Pids \cup {None}]
  /\ missing \in [Pids -> SUBSET {"pid_file", "socket", "meetings"}]
  /\ cli \in Pids \cup {None}
  /\ commands \in Nat
  /\ stolen \in BOOLEAN
  /\ alone \subseteq Pids

(* The lock is the running daemon's, so that one runs at most and every    *)
(* command finds it; unless a stale lock was removed by two at once, the   *)
(* second of whom removed that of a living process.                        *)
LockNamesTheDaemon == ~stolen => \A p \in Running : lock = p

(* A daemon beside which no other was alive finds a clean desk, whatever   *)
(* the crashed ones before it left: what its start could do was not in     *)
(* vain, by the time it runs.  The pid file and the socket are its own,    *)
(* and no other daemon's meeting is open, each unless the start could not  *)
(* write, bind or complete it and went on (daemon.rs).                     *)
StartIsClean ==
  \A p \in Running \cap alone :
    /\ "pid_file" \in missing[p] \/ pid_file = p
    /\ "socket" \in missing[p] \/ socket = p
    /\ \/ "meetings" \in missing[p]
       \/ \A q \in Pids : status[q] \in {"active", "paused"} => q = p

(* Startup completes meetings "orphaned by a crash or daemon restart"      *)
(* (daemon.rs): those of a running daemon stay open.                       *)
RunningMeetingsStayOpen == \A p \in meeting : status[p] \in {"active", "paused"}

=============================================================================
