---------------------------- MODULE MCLiveTyping ----------------------------
(* Instances of LiveTyping for TLC: two letters, so that a revision can    *)
(* agree with what was typed or not.                                       *)
EXTENDS LiveTyping

MCLetters == {"a", "b"}
MCOutput(f, t) == [faults |-> f, trailer |-> t]
MCOutputs == { MCOutput({}, <<>>), MCOutput({"output", "backspace"}, <<>>),
               MCOutput({"halfway"}, <<"b">>), MCOutput({"clipboard"}, <<>>) }
MCBackends == {"soniox", "parakeet"}

=============================================================================
