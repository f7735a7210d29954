---------------------------- MODULE MCEventLoop ----------------------------
(* Instances of EventLoop for TLC: a hold is decided after 50 ms and a     *)
(* recording ends after 150 ms, so that the decision, the tick and the     *)
(* limit fall into different turns.                                        *)
EXTENDS EventLoop

MCHoldThreshold == 2
MCMaxDuration == 6
MCEvictEvery == 2

=============================================================================
