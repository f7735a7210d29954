----------------------------- MODULE LiveTyping -----------------------------
(***************************************************************************)
(* One stream of live typing, from the key press to the end of its text:   *)
(*   - the recogniser: the Soniox server (external), or the Parakeet model; *)
(*   - the backend's task, src/src/transcribe/soniox.rs (run loop and      *)
(*     Reconciler) or parakeet_streaming.rs, which turns what it hears     *)
(*     into events on a bounded channel;                                   *)
(*   - the daemon's event pump (src/src/daemon.rs) and its                 *)
(*     StreamingSession (src/src/output/streaming.rs), which types them.   *)
(* The daemon's states around a stream are those of Dictation; here only   *)
(* what happens to the text counts.  A text is a sequence of letters.      *)
(***************************************************************************)
EXTENDS Naturals, SequencesExt

CONSTANTS
  Letters,        \* what a text is made of
  Capacity,       \* of the event channel (64)
  Backends,       \* a subset of {"soniox", "parakeet"}
  Outputs,        \* the chains of drivers: what may go wrong and the trailer
  PrivateFinals,  \* may the server finalize before a hybrid press is decided?
  MaxText,        \* letters the recogniser commits itself to in a stream
  MaxLetters,     \* letters of one message
  MaxMessages     \* messages of the server, or chunks of the model

(* What may go wrong at the cursor: the whole chain of drivers fails; the  *)
(* chain ends in its clipboard drivers, which succeed and type nothing; a  *)
(* tool fails halfway; no tool can send backspaces.                        *)
Faults == {"output", "clipboard", "halfway", "backspace"}

ASSUME LiveTypingAssumption ==
  /\ Capacity \in Nat \ {0}
  /\ Backends \subseteq {"soniox", "parakeet"}
  /\ Outputs \subseteq [faults : SUBSET Faults, trailer : Seq(Letters)]
  /\ PrivateFinals \in BOOLEAN
  /\ MaxText \in Nat
  /\ MaxLetters \in Nat
  /\ MaxMessages \in Nat

VARIABLES
  backend,         \* which backend decodes
  faults,          \* what may go wrong
  trailer,         \* config: append_text and the Enter of auto_submit
  type_partials,   \* config: does Soniox send partials?
  \* the recogniser and the backend's task
  transcript,      \* what the recogniser has committed itself to
  messages,        \* messages so far (not in the code)
  task,            \* "connecting", "running", "closing", "done"
  typed_partial,   \* Reconciler: non-final tail sent as partials
  last_text,       \* Parakeet: the last chunk's text
  outbox,          \* events the task is about to send
  channel,         \* events sent and not received
  eof,             \* the daemon's samples sender is gone
  sent_eoa,        \* drain_deadline is set
  cancel,          \* the cancel signal is sent
  \* the daemon
  phase,           \* "streaming", awaiting the task, or over
  hybrid_pending,  \* the press may still be a tap: partials are kept back
  partial_buffer,  \* State::Streaming.partial_buffer
  session,         \* streaming_session
  cursor,          \* what this stream has typed and not erased
  lost,            \* letters erased of the user's own text before it
  history          \* what remember_transcript recorded

config == <<backend, faults, trailer, type_partials>>
recogniser == <<transcript, messages>>
decoder == <<task, typed_partial, last_text, sent_eoa>>
signals == <<eof, cancel>>
text == <<session, cursor, lost, history>>
daemon == <<phase, hybrid_pending, partial_buffer>>

vars == <<config, recogniser, decoder, signals, outbox, channel, daemon, text>>

Text == Seq(Letters)

Rest(t, n) == SubSeq(t, n + 1, Len(t))
Shorter(t, n) == SubSeq(t, 1, IF n < Len(t) THEN Len(t) - n ELSE 0)

Event(kind, backspace, t) == [kind |-> kind, backspace |-> backspace, text |-> t]
Partial(t) == Event("Partial", 0, t)
Final(t) == Event("Final", 0, t)
Replace(n, t) == Event("Replace", n, t)
Error == Event("Error", 0, <<>>)
Ended == Event("Ended", 0, <<>>)

NoSession == [open |-> FALSE, finalized |-> <<>>, typed_chars |-> 0, partial |-> <<>>]
NewSession == [NoSession EXCEPT !.open = TRUE]

(* try_start_streaming: the capture runs and the stream is open.           *)
Init ==
  /\ backend \in Backends
  /\ \E output \in Outputs : faults = output.faults /\ trailer = output.trailer
  /\ type_partials \in BOOLEAN
  /\ transcript = <<>>
  /\ messages = 0
  /\ task = IF backend = "soniox" THEN "connecting" ELSE "running"
  /\ typed_partial = <<>>
  /\ last_text = <<>>
  /\ outbox = <<>>
  /\ channel = <<>>
  /\ eof = FALSE
  /\ sent_eoa = FALSE
  /\ cancel = FALSE
  /\ phase = "streaming"
  /\ hybrid_pending \in BOOLEAN
  /\ partial_buffer = <<>>
  /\ session = NewSession
  /\ cursor = <<>>
  /\ lost = 0
  /\ history = <<>>

-----------------------------------------------------------------------------
(* The backend's task.  A send waits for room in the channel; until it is  *)
(* done the task looks at nothing else, the cancel signal included.        *)

Send ==
  /\ outbox # <<>>
  /\ Len(channel) < Capacity
  /\ channel' = Append(channel, Head(outbox))
  /\ outbox' = Tail(outbox)
  /\ UNCHANGED <<config, recogniser, decoder, signals, daemon, text>>

Running(b) == backend = b /\ task = "running" /\ outbox = <<>>

(* The loop is left: a last Ended, after what else is to be sent.          *)
Close(events) ==
  /\ outbox' = Append(events, Ended)
  /\ task' = "closing"

Connect ==
  /\ task = "connecting"
  /\ task' = "running"
  /\ UNCHANGED <<config, recogniser, typed_partial, last_text, sent_eoa, signals,
                 outbox, channel, daemon, text>>

ConnectFails ==
  /\ task = "connecting"
  /\ outbox = <<>>
  /\ Close(<<Error>>)
  /\ UNCHANGED <<config, recogniser, typed_partial, last_text, sent_eoa, signals,
                 channel, daemon, text>>

(* The cancel signal is the first arm of Soniox's select!.                 *)
SeeCancel ==
  /\ Running("soniox")
  /\ cancel
  /\ Close(<<>>)
  /\ UNCHANGED <<config, recogniser, typed_partial, last_text, sent_eoa, signals,
                 channel, daemon, text>>

SendEndOfAudio ==
  /\ Running("soniox")
  /\ ~cancel
  /\ eof
  /\ ~sent_eoa
  /\ sent_eoa' = TRUE
  /\ UNCHANGED <<config, recogniser, task, typed_partial, last_text, signals,
                 outbox, channel, daemon, text>>

(* Mutant: the server is given more time while a partial is not final.     *)
DrainTimeoutWhenFinal ==
  /\ Running("soniox")
  /\ ~cancel
  /\ sent_eoa
  /\ typed_partial = <<>>
  /\ Close(<<>>)
  /\ UNCHANGED <<config, recogniser, typed_partial, last_text, sent_eoa, signals,
                 channel, daemon, text>>

DrainTimeout ==
  /\ Running("soniox")
  /\ ~cancel
  /\ sent_eoa
  /\ Close(<<>>)
  /\ UNCHANGED <<config, recogniser, typed_partial, last_text, sent_eoa, signals,
                 channel, daemon, text>>

(* The server closes the socket, or the connection breaks: with an error,  *)
(* but for a request timeout (408) once the end of audio is sent.          *)
ServerCloses ==
  /\ Running("soniox")
  /\ ~cancel
  /\ \E events \in {<<>>, <<Error>>} : Close(events)
  /\ UNCHANGED <<config, recogniser, typed_partial, last_text, sent_eoa, signals,
                 channel, daemon, text>>

(* Reconciler::process: what a message's final text does.                  *)

CommonPrefix(s, t) == Cardinality({n \in DOMAIN s : IsPrefix(SubSeq(s, 1, n), t)})

(* Mutant: one letter too many is erased.                                  *)
FinalEventsOneMore(typed, f) ==
  IF IsPrefix(typed, f) THEN IF f = typed THEN <<>> ELSE <<Final(Rest(f, Len(typed)))>>
  ELSE IF IsPrefix(f, typed) THEN <<>>
  ELSE LET n == CommonPrefix(typed, f)
       IN <<Replace(Len(typed) - n + 1, Rest(f, n))>>

FinalEvents(typed, f) ==
  IF IsPrefix(typed, f) THEN IF f = typed THEN <<>> ELSE <<Final(Rest(f, Len(typed)))>>
  ELSE IF IsPrefix(f, typed) THEN <<>>
  ELSE LET n == CommonPrefix(typed, f)
       IN <<Replace(Len(typed) - n, Rest(f, n))>>

(* Mutant: an acknowledged partial is forgotten.                           *)
StillPartialNothing(typed, f) == IF f = <<>> THEN typed ELSE <<>>

StillPartial(typed, f) ==
  IF IsStrictPrefix(f, typed) THEN Rest(typed, Len(f)) ELSE <<>>

(* A message: finals, a partial that extends what was sent or is dropped.  *)
ServerMessage(f, p, finished) ==
  LET typed == StillPartial(typed_partial, f)
      extends == type_partials /\ IsStrictPrefix(typed, p)
      events == (IF f = <<>> THEN <<>> ELSE FinalEvents(typed_partial, f))
                \o (IF extends THEN <<Partial(Rest(p, Len(typed)))>> ELSE <<>>)
  IN /\ Running("soniox")
     /\ ~cancel
     /\ messages < MaxMessages
     /\ Len(f \o p) <= MaxLetters
     /\ hybrid_pending /\ ~PrivateFinals => f = <<>>
     /\ Len(transcript \o f) <= MaxText
     /\ messages' = messages + 1
     /\ transcript' = transcript \o f
     /\ typed_partial' = IF extends THEN p ELSE typed
     /\ IF finished THEN Close(events) ELSE outbox' = events /\ UNCHANGED task
     /\ UNCHANGED <<config, last_text, sent_eoa, signals, channel, daemon, text>>

(* Parakeet: the next chunk, whose text is sent unless it equals the last. *)
(* A cancel is looked for between two chunks, and chunks may wait at eof.  *)
DecodeChunk(t) ==
  /\ Running("parakeet")
  /\ messages < MaxMessages
  /\ Len(transcript \o t) <= MaxText
  /\ messages' = messages + 1
  /\ transcript' = transcript \o t
  /\ last_text' = t
  /\ outbox' = IF t = last_text THEN <<>> ELSE <<Partial(t)>>
  /\ UNCHANGED <<config, task, typed_partial, sent_eoa, signals, channel, daemon, text>>

DecodeFails ==
  /\ Running("parakeet")
  /\ Close(<<Error>>)
  /\ UNCHANGED <<config, recogniser, typed_partial, last_text, sent_eoa, signals,
                 channel, daemon, text>>

(* At the end of the audio, or a cancel, the model gives the rest; if it   *)
(* fails to, the last chunk's text is sent once more.                      *)
Flush(t) ==
  /\ Running("parakeet")
  /\ eof \/ cancel
  /\ Len(transcript \o t) <= MaxText
  /\ transcript' = transcript \o t
  /\ \E rest \in {t, last_text} :
       Close(IF rest = <<>> THEN <<>> ELSE <<Final(rest)>>)
  /\ UNCHANGED <<config, messages, typed_partial, last_text, sent_eoa, signals,
                 channel, daemon, text>>

TaskEnds ==
  /\ task = "closing"
  /\ outbox = <<>>
  /\ task' = "done"
  /\ UNCHANGED <<config, recogniser, typed_partial, last_text, sent_eoa, signals,
                 outbox, channel, daemon, text>>

-----------------------------------------------------------------------------
(* output_with_fallback, for a text that is not empty: whether it succeeds *)
(* and what it leaves at the cursor.  The chain is the configured one: its *)
(* drivers type the trailer after each text, and its last two only copy.   *)
(* A tool may type a part before it fails; the next one types everything.  *)

Delivery(ok, shown) == [ok |-> ok, shown |-> shown]

Parts(t) == IF "halfway" \in faults
            THEN {SubSeq(t \o trailer, 1, n) : n \in 0 .. Len(t \o trailer)} ELSE {<<>>}

Deliveries(t) ==
  {Delivery(TRUE, part \o (t \o trailer)) : part \in Parts(t)}
  \cup (IF "clipboard" \in faults THEN {Delivery(TRUE, part) : part \in Parts(t)} ELSE {})
  \cup (IF "output" \in faults THEN {Delivery(FALSE, part) : part \in Parts(t)} ELSE {})

(* StreamingSession: [session, cursor, lost] after an operation.  It knows *)
(* only whether the output succeeded; the backspaces of emit_backspaces    *)
(* are sent all or none, and erase what is there.                          *)

Surface(s, c, l) == [session |-> s, cursor |-> c, lost |-> l]

TypePartialDelta(at, t, given) ==
  IF t = <<>> THEN at
  ELSE Surface(IF given.ok
               THEN [at.session EXCEPT !.typed_chars = @ + Len(t), !.partial = @ \o t]
               ELSE at.session,
               at.cursor \o given.shown, at.lost)

CommitSegment(at, t, given) ==
  IF t = <<>> THEN [at EXCEPT !.session.partial = <<>>]
  ELSE Surface(IF given.ok
               THEN [at.session EXCEPT !.typed_chars = @ + Len(t),
                                       !.finalized = @ \o at.session.partial \o t,
                                       !.partial = <<>>]
               ELSE at.session,
               at.cursor \o given.shown, at.lost)

BeyondTheCursor(at, m) == IF m > Len(at.cursor) THEN m - Len(at.cursor) ELSE 0

Erase(at, s, m) == Surface(s, Shorter(at.cursor, m), at.lost + BeyondTheCursor(at, m))

(* Mutant: the count of what was typed is left alone.                      *)
BackspaceUncounted(at, n, erased) ==
  LET m == IF n < at.session.typed_chars THEN n ELSE at.session.typed_chars
  IN IF m = 0 \/ ~erased THEN at
     ELSE Erase(at, [at.session EXCEPT !.partial = Shorter(@, m)], m)

Backspace(at, n, erased) ==
  LET m == IF n < at.session.typed_chars THEN n ELSE at.session.typed_chars
  IN IF m = 0 \/ ~erased THEN at
     ELSE Erase(at, [at.session EXCEPT !.typed_chars = @ - m, !.partial = Shorter(@, m)], m)

ReplaceAndCommit(at, n, t, given, erased) ==
  CommitSegment(Backspace(at, n, erased), t, given)

(* What an event does to an open session's text.                           *)
Typed(at, e, given, erased) ==
  CASE e.kind = "Partial" -> TypePartialDelta(at, e.text, given)
    [] e.kind = "Final" -> CommitSegment(at, e.text, given)
    [] e.kind = "Replace" -> ReplaceAndCommit(at, e.backspace, e.text, given, erased)

Now == Surface(session, cursor, lost)

Show(at) == session' = at.session /\ cursor' = at.cursor /\ lost' = at.lost

Erased == IF "backspace" \in faults THEN BOOLEAN ELSE {TRUE}

-----------------------------------------------------------------------------
(* The daemon.                                                             *)

Pumping == phase = "streaming" /\ channel # <<>>

Receive == channel' = Tail(channel)

(* A partial: kept back while the press is undecided.                      *)
ReceivePartial ==
  /\ Pumping
  /\ Head(channel).kind = "Partial"
  /\ Receive
  /\ partial_buffer' = IF hybrid_pending THEN partial_buffer \o Head(channel).text
                       ELSE Head(channel).text
  /\ IF hybrid_pending \/ ~session.open THEN UNCHANGED <<session, cursor, lost>>
     ELSE \E given \in Deliveries(Head(channel).text) :
            Show(TypePartialDelta(Now, Head(channel).text, given))
  /\ UNCHANGED <<config, recogniser, decoder, signals, outbox, phase, hybrid_pending, history>>

(* A final or a replacement: typed if there is a session, decided or not.  *)
ReceiveFinal ==
  /\ Pumping
  /\ Head(channel).kind \in {"Final", "Replace"}
  /\ Receive
  /\ IF ~session.open THEN UNCHANGED <<session, cursor, lost>>
     ELSE \E given \in Deliveries(Head(channel).text), erased \in Erased :
            Show(Typed(Now, Head(channel), given, erased))
  /\ UNCHANGED <<config, recogniser, decoder, signals, outbox, daemon, history>>

(* Error or Ended: end_streaming stops the capture and awaits the task.    *)
ReceiveEnd ==
  /\ Pumping
  /\ Head(channel).kind \in {"Error", "Ended"}
  /\ Receive
  /\ hybrid_pending' = FALSE
  /\ eof' = TRUE
  /\ phase' = "ending"
  /\ UNCHANGED <<config, recogniser, decoder, cancel, outbox, partial_buffer, text>>

EndStreaming ==
  /\ phase = "ending"
  /\ task = "done"
  /\ phase' = "closed"
  /\ history' = session.finalized
  /\ session' = NoSession
  /\ UNCHANGED <<config, recogniser, decoder, signals, outbox, channel,
                 hybrid_pending, partial_buffer, cursor, lost>>

(* The hold threshold: what was kept back is typed.                        *)
Promote ==
  /\ phase = "streaming"
  /\ hybrid_pending
  /\ hybrid_pending' = FALSE
  /\ IF ~session.open THEN UNCHANGED <<session, cursor, lost>>
     ELSE \E given \in Deliveries(partial_buffer) :
            Show(TypePartialDelta(Now, partial_buffer, given))
  /\ UNCHANGED <<config, recogniser, decoder, signals, outbox, channel, phase,
                 partial_buffer, history>>

(* The release of a tap: the decoder is cancelled, the capture goes on as  *)
(* a batch recording.                                                      *)
Tap ==
  /\ phase = "streaming"
  /\ hybrid_pending
  /\ hybrid_pending' = FALSE
  /\ cancel' = TRUE
  /\ phase' = "tapping"
  /\ UNCHANGED <<config, recogniser, decoder, eof, outbox, channel, partial_buffer, text>>

TapDone ==
  /\ phase = "tapping"
  /\ task = "done"
  /\ phase' = "batch"
  /\ session' = NoSession
  /\ UNCHANGED <<config, recogniser, decoder, signals, outbox, channel,
                 hybrid_pending, partial_buffer, cursor, lost, history>>

(* A stop by the toggle key, the end of a hold or the time limit keeps the *)
(* session for the finals that are still to come.                          *)
Stop ==
  /\ phase = "streaming"
  /\ ~hybrid_pending
  /\ ~eof
  /\ eof' = TRUE
  /\ UNCHANGED <<config, recogniser, decoder, cancel, outbox, channel, daemon, text>>

(* A push-to-talk release or record stop gives it up.                      *)
StopAndDisown ==
  /\ phase = "streaming"
  /\ ~eof \/ session.open
  /\ eof' = TRUE
  /\ session' = NoSession
  /\ UNCHANGED <<config, recogniser, decoder, cancel, outbox, channel, daemon, cursor, lost,
                 history>>

(* cancel_streaming_to_idle, up to the wait for the task and after it.     *)
Cancel ==
  /\ phase = "streaming"
  /\ hybrid_pending' = FALSE
  /\ cancel' = TRUE
  /\ phase' = "cancelling"
  /\ UNCHANGED <<config, recogniser, decoder, eof, outbox, channel, partial_buffer, text>>

(* Mutant: only the part that may still be revised is taken back.          *)
RewindPartial == Erase(Now, NoSession, Len(session.partial))

Rewind == Erase(Now, NoSession, session.typed_chars)

CancelDone ==
  /\ phase = "cancelling"
  /\ task = "done"
  /\ phase' = "cancelled"
  /\ eof' = TRUE
  /\ \E erased \in Erased :
       Show(IF session.open /\ erased THEN Rewind ELSE Surface(NoSession, cursor, lost))
  /\ UNCHANGED <<config, recogniser, decoder, cancel, outbox, channel,
                 hybrid_pending, partial_buffer, history>>

-----------------------------------------------------------------------------

Heard == UNION {[1 .. n -> Letters] : n \in 0 .. MaxLetters}

Backend ==
  \/ Send \/ Connect \/ ConnectFails \/ SeeCancel \/ SendEndOfAudio
  \/ DrainTimeout \/ ServerCloses \/ TaskEnds \/ DecodeFails
  \/ \E f, p \in Heard, finished \in BOOLEAN : ServerMessage(f, p, finished)
  \/ \E t \in Heard : DecodeChunk(t) \/ Flush(t)

Pump == ReceivePartial \/ ReceiveFinal \/ ReceiveEnd \/ EndStreaming \/ TapDone \/ CancelDone

Next == Backend \/ Pump \/ Promote \/ Tap \/ Stop \/ StopAndDisown \/ Cancel

(* The connection is made or times out, the drain deadline passes, sends   *)
(* and receives are not put off for ever.  Nothing obliges the server.     *)
Fairness ==
  /\ WF_vars(Send) /\ WF_vars(Connect \/ ConnectFails) /\ WF_vars(SeeCancel)
  /\ WF_vars(SendEndOfAudio) /\ WF_vars(DrainTimeout) /\ WF_vars(TaskEnds)
  /\ WF_vars(\E t \in Heard : Flush(t))
  /\ WF_vars(Pump)

Spec == Init /\ [][Next]_vars /\ Fairness

-----------------------------------------------------------------------------

Events == [kind : {"Partial", "Final", "Replace", "Error", "Ended"},
           backspace : Nat, text : Text]

TypeOK ==
  /\ backend \in Backends
  /\ faults \subseteq Faults
  /\ trailer \in Text
  /\ type_partials \in BOOLEAN
  /\ transcript \in Text
  /\ messages \in Nat
  /\ task \in {"connecting", "running", "closing", "done"}
  /\ typed_partial \in Text
  /\ last_text \in Text
  /\ outbox \in Seq(Events)
  /\ channel \in Seq(Events)
  /\ Len(channel) <= Capacity
  /\ eof \in BOOLEAN /\ sent_eoa \in BOOLEAN /\ cancel \in BOOLEAN
  /\ phase \in {"streaming", "ending", "tapping", "cancelling",
                "closed", "batch", "cancelled"}
  /\ hybrid_pending \in BOOLEAN
  /\ partial_buffer \in Text
  /\ session \in [open : BOOLEAN, finalized : Text, typed_chars : Nat, partial : Text]
  /\ cursor \in Text
  /\ lost \in Nat
  /\ history \in Text

(* What the output reports is what it did: a success typed the text and no *)
(* more, a failure typed nothing.                                          *)
Truthful == trailer = <<>> /\ faults \subseteq {"output", "backspace"}

(* Nothing can go wrong at the cursor.                                     *)
Sound == trailer = <<>> /\ faults = {}

(* With nothing failing, the text the user will see once every event on    *)
(* its way is typed is what the server committed itself to, and the        *)
(* partial the Reconciler believes typed.                                  *)
AfterEvents(t, events) ==
  LET shown[n \in 0 .. Len(events)] ==
        IF n = 0 THEN t
        ELSE Shorter(shown[n - 1], events[n].backspace) \o events[n].text
  IN shown[Len(events)]

CursorFollowsServer ==
  Sound /\ backend = "soniox" /\ phase = "streaming" /\ session.open =>
    AfterEvents(IF hybrid_pending THEN partial_buffer ELSE cursor, channel \o outbox)
      = transcript \o typed_partial

(* The session's count, which a cancel and a revision erase by, is that of *)
(* the letters at the cursor if the output reports what it did, whatever   *)
(* fails (StreamingSession.typed_chars).  With a trailer or a tool that    *)
(* fails halfway it may be too small, but only a clipboard driver makes it *)
(* too great, so that the user's own text is erased.  With nothing failing *)
(* what the session remembers is what it typed.                            *)
SessionKnowsTheCursor ==
  /\ "clipboard" \notin faults => lost = 0
  /\ session.open =>
       /\ "clipboard" \notin faults => session.typed_chars <= Len(cursor)
       /\ Truthful => session.typed_chars = Len(cursor)
       /\ Sound => session.finalized \o session.partial = cursor

(* Live typing implements LiveText: no event, however the server revises   *)
(* itself, takes back a letter of a segment that was committed, and a      *)
(* stream's text is kept or taken back as a whole.                         *)
Promise == INSTANCE LiveText WITH
  shown <- IF Sound THEN cursor ELSE <<>>,
  committed <- IF ~Sound THEN 0 ELSE IF session.open THEN Len(session.finalized)
               ELSE Len(cursor),
  phase <- IF session.open \/ ~Sound THEN "open" ELSE "done"

KeepsThePromise == Promise!Spec

(* A cancel of an owned session leaves the user's own text alone if no     *)
(* text went to the clipboard, and takes back all that was typed if the    *)
(* output reports what it did, whatever failed before; if its own          *)
(* backspaces fail all of it stays.                                        *)
CancelTakesTheTextBack ==
  [][ phase' = "cancelled" /\ phase # "cancelled" /\ session.open =>
        /\ "clipboard" \notin faults => lost' = 0
        /\ Truthful => cursor' = <<>> \/ ("backspace" \in faults /\ cursor' = cursor) ]_vars

(* A stream whose audio has ended is over in the end: the server may be    *)
(* silent and the channel full.                                            *)
StopEndsTheStream == eof ~> phase # "streaming" /\ (~cancel => phase = "closed")

=============================================================================
