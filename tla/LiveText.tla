------------------------------ MODULE LiveText ------------------------------
(***************************************************************************)
(* What live typing promises: text appears at the cursor while the user    *)
(* speaks, its last part may still be revised, and what is committed stays *)
(* until the stream is over, when all of the text is kept or all of it     *)
(* goes.  Nothing here knows of a server, of a channel or of a session.    *)
(***************************************************************************)
EXTENDS Naturals, Sequences

CONSTANT Letters

VARIABLES
  shown,      \* the text typed at the cursor
  committed,  \* how many of its letters no longer change
  phase       \* "open", then "done"

vars == <<shown, committed, phase>>

TypeOK ==
  /\ shown \in Seq(Letters)
  /\ committed \in 0 .. Len(shown)
  /\ phase \in {"open", "done"}

Init ==
  /\ shown = <<>>
  /\ committed = 0
  /\ phase = "open"

(* The end of the text is retyped, and more of it may be committed.        *)
Revise ==
  /\ phase = "open"
  /\ shown' \in Seq(Letters)
  /\ committed' \in committed .. Len(shown')
  /\ SubSeq(shown', 1, committed) = SubSeq(shown, 1, committed)
  /\ UNCHANGED phase

(* The stream is over: its text stays as it is, or is taken back.          *)
Finish ==
  /\ phase = "open"
  /\ phase' = "done"
  /\ shown' \in {shown, <<>>}
  /\ committed' = Len(shown')

Next == Revise \/ Finish

Spec == Init /\ [][Next]_vars

=============================================================================
