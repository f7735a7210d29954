----------------------------- MODULE MCMeeting -----------------------------
(* Instances of Meeting for TLC.                                           *)
EXTENDS Meeting

Plain == [ loopback |-> TRUE, limited |-> FALSE, restarts |-> FALSE, faults |-> {} ]

(* Both sources without a fault, and with chunks that fail and a daemon    *)
(* that is killed; the microphone alone with everything that may go wrong. *)
MeetingSetups ==
  { [Plain EXCEPT !.limited = TRUE],
    [Plain EXCEPT !.restarts = TRUE, !.faults = {"transcribe"}],
    [Plain EXCEPT !.loopback = FALSE, !.restarts = TRUE, !.faults = Faults] }

=============================================================================
