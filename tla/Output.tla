------------------------------- MODULE Output -------------------------------
(***************************************************************************)
(* The output of one text (src/src/output/): the chain of methods that is  *)
(* made from the configuration, the wait for the modifier keys, and the    *)
(* methods, each of them calls of external tools that may fail:            *)
(*   wtype, eitype, dotool, ydotool   type at the cursor;                  *)
(*   wl_copy, xclip                   leave the text on the clipboard;     *)
(*   paste                            copies it, and sends a paste key.    *)
(* Meanwhile the user holds keys and copies, and the application that is   *)
(* pasted into reads the clipboard when it gets round to it.  This is the  *)
(* output of Linux; texts are not empty.                                   *)
(***************************************************************************)
EXTENDS Naturals, SequencesExt

CONSTANTS
  Configs,   \* the configurations and the tools installed
  Text       \* the text: a sequence of lines

KeyTools == {"wtype", "eitype", "dotool", "ydotool"}
Clipboards == {"wl_copy", "xclip"}
Methods == KeyTools \cup Clipboards \cup {"paste"}

ConfigType ==
  [ mode : {"type", "clipboard", "paste", "file"},
    driver_order : Seq(KeyTools \cup Clipboards),
    fallback_to_clipboard : BOOLEAN, restore_clipboard : BOOLEAN,
    available : SUBSET Methods,   \* the tools installed
    append_text : BOOLEAN, auto_submit : BOOLEAN, shift_enter_newlines : BOOLEAN,
    wait_for_modifier_release : BOOLEAN,
    fallible : BOOLEAN ]          \* may a tool fail?

ASSUME OutputAssumption ==
  /\ Configs \subseteq ConfigType
  /\ Text \in Seq(Range(Text))
  /\ Text # <<>>

VARIABLES
  config,       \* config.output, the override files, and what is installed
  pc,           \* where output_with_fallback is
  skip_keystroke_methods,
  chain,        \* the methods not tried yet
  calls,        \* the calls the method at hand has still to make
  saved,        \* paste: the user's clipboard, or Nothing
  result,       \* has a method succeeded?
  typed,        \* what was typed or pasted at the cursor
  clipboard,
  pasting,      \* has the application still to handle the paste key?
  held,         \* does the user hold a modifier?
  copied,       \* has the user copied meanwhile?
  halfway       \* has a tool failed after some of the text was typed?

user == <<held, copied>>
screen == <<typed, clipboard, pasting>>
run == <<pc, skip_keystroke_methods, chain, calls, saved, result>>
vars == <<config, run, screen, user, halfway>>

Nothing == "nothing"

-----------------------------------------------------------------------------
(* create_output_chain.                                                    *)

DefaultDriverOrder == <<"wtype", "eitype", "dotool", "ydotool", "wl_copy", "xclip">>

TypeChain(order, fallback) ==
  IF order = <<>> THEN DefaultDriverOrder
  ELSE IF fallback /\ ~Contains(order, "wl_copy") THEN Append(order, "wl_copy")
  ELSE order

OutputChain(c) ==
  CASE c.mode = "type" -> TypeChain(c.driver_order, c.fallback_to_clipboard)
    [] c.mode = "clipboard" -> <<"wl_copy", "xclip">>
    [] c.mode = "paste" -> <<"paste">>
    [] c.mode = "file" -> <<"wl_copy">>

Init ==
  /\ config \in Configs
  /\ pc = "guard"
  /\ skip_keystroke_methods = FALSE
  /\ chain = OutputChain(config)
  /\ calls = <<>>
  /\ saved = Nothing
  /\ result = FALSE
  /\ typed = <<>>
  /\ clipboard = "user's"
  /\ pasting = FALSE
  /\ held \in BOOLEAN
  /\ copied = FALSE
  /\ halfway = FALSE

-----------------------------------------------------------------------------
(* The user, and the application.                                          *)

HoldOrRelease ==
  /\ pc # "done"
  /\ held' = ~held
  /\ UNCHANGED <<config, run, screen, copied, halfway>>

Copy ==
  /\ pc # "done"
  /\ ~copied
  /\ copied' = TRUE
  /\ clipboard' = "user's new"
  /\ UNCHANGED <<config, run, typed, pasting, held, halfway>>

AppendText == IF config.append_text THEN <<"append">> ELSE <<>>

Paste ==
  /\ pasting
  /\ pasting' = FALSE
  /\ typed' = typed \o (IF clipboard = "text" THEN Text \o AppendText ELSE <<clipboard>>)
  /\ UNCHANGED <<config, run, clipboard, user, halfway>>

-----------------------------------------------------------------------------
(* wait_for_release, and the hook before the output.                       *)

ModifiersReleased ==
  /\ pc = "guard"
  /\ held => ~config.wait_for_modifier_release
  /\ pc' = "next"
  /\ UNCHANGED <<config, skip_keystroke_methods, chain, calls, saved, result,
                 screen, user, halfway>>

(* The user is told that the text is on the clipboard.                     *)
WaitTimesOut ==
  /\ pc = "guard"
  /\ config.wait_for_modifier_release
  /\ held
  /\ skip_keystroke_methods' = TRUE
  /\ pc' = "next"
  /\ UNCHANGED <<config, chain, calls, saved, result, screen, user, halfway>>

(* Mutant: "paste (clipboard + keystroke)" is not taken for a paste.       *)
TypesOnly(method) == method \in KeyTools

IsKeystrokeMethod(method) == method \in KeyTools \cup {"paste"}

(* A call that is not needed to succeed may exit with an error.            *)
Call(types, needed) == [types |-> types, needed |-> needed]

Enter == IF config.auto_submit THEN <<Call(<<"enter">>, FALSE)>> ELSE <<>>

Appended(needed) == IF config.append_text THEN <<Call(<<"append">>, needed)>> ELSE <<>>

(* wtype and eitype: a newline may be sent as Shift+Enter, between calls.  *)
LineCalls ==
  (IF config.shift_enter_newlines THEN [i \in DOMAIN Text |-> Call(<<Text[i]>>, TRUE)]
   ELSE <<Call(Text, TRUE)>>) \o Appended(TRUE) \o Enter

(* dotool is given everything at once, as commands it reads line by line:  *)
(* "type" stands before the first line of the text, and the others are     *)
(* commands themselves.                                                    *)
DotoolText == [i \in DOMAIN Text |-> IF i = 1 THEN Text[i] ELSE "command"]

DotoolCalls ==
  <<Call(DotoolText \o AppendText \o (IF config.auto_submit THEN <<"enter">> ELSE <<>>), TRUE)>>

YdotoolCalls == <<Call(Text, TRUE)>> \o Appended(FALSE) \o Enter

CallsOf(tool) ==
  CASE tool \in {"wtype", "eitype"} -> LineCalls
    [] tool = "dotool" -> DotoolCalls
    [] tool = "ydotool" -> YdotoolCalls

Usable(method) ==
  /\ method \in config.available
  /\ skip_keystroke_methods => ~IsKeystrokeMethod(method)

(* The next method of the chain, if it is available; at the end the hook   *)
(* after the output runs, whatever the result.                             *)
TryNext ==
  /\ pc = "next"
  /\ chain # <<>>
  /\ chain' = Tail(chain)
  /\ LET method == Head(chain)
     IN IF ~Usable(method) THEN UNCHANGED <<pc, calls>>
        ELSE /\ pc' = (CASE method \in KeyTools -> "typing"
                         [] method \in Clipboards -> "copying"
                         [] method = "paste" -> "saving")
             /\ calls' = IF method \in KeyTools THEN CallsOf(method) ELSE <<>>
  /\ UNCHANGED <<config, skip_keystroke_methods, saved, result, screen, user, halfway>>

ChainEnds ==
  /\ pc = "next"
  /\ chain = <<>>
  /\ pc' = "done"
  /\ UNCHANGED <<config, skip_keystroke_methods, chain, calls, saved, result,
                 screen, user, halfway>>

(* Mutant: the loop is not left.                                           *)
SucceedsAndGoesOn == pc' = "next" /\ result' = TRUE

Succeeds == pc' = "done" /\ result' = TRUE

Fails == pc' = "next" /\ UNCHANGED result

-----------------------------------------------------------------------------
(* A typing tool.  A call that fails to start is an error even where its   *)
(* exit status does not matter; one that exits with an error may have      *)
(* typed all the same.                                                     *)

TypeCall ==
  /\ pc = "typing"
  /\ calls # <<>>
  /\ \/ /\ typed' = typed \o Head(calls).types
        /\ calls' = Tail(calls)
        /\ UNCHANGED <<pc, result, halfway>>
     \/ /\ config.fallible
        /\ Fails
        /\ typed' \in {typed, typed \o Head(calls).types}
        /\ halfway' = (halfway \/ typed' # <<>>)
        /\ calls' = <<>>
     \/ /\ config.fallible
        /\ ~Head(calls).needed
        /\ calls' = Tail(calls)
        /\ UNCHANGED <<pc, result, halfway, typed>>
  /\ UNCHANGED <<config, skip_keystroke_methods, chain, saved, clipboard, pasting, user>>

TypingDone ==
  /\ pc = "typing"
  /\ calls = <<>>
  /\ Succeeds
  /\ UNCHANGED <<config, skip_keystroke_methods, chain, calls, saved, screen, user, halfway>>

(* ClipboardOutput and XclipOutput.                                        *)
CopyOnly ==
  /\ pc = "copying"
  /\ \/ Succeeds /\ clipboard' = "text"
     \/ config.fallible /\ Fails /\ UNCHANGED clipboard
  /\ UNCHANGED <<config, skip_keystroke_methods, chain, calls, saved, typed, pasting, user, halfway>>

-----------------------------------------------------------------------------
(* PasteOutput.                                                            *)

PasteSave ==
  /\ pc = "saving"
  /\ pc' = "placing"
  /\ saved' \in (IF config.restore_clipboard THEN {clipboard} ELSE {Nothing})
                \cup (IF config.fallible THEN {Nothing} ELSE {})
  /\ UNCHANGED <<config, skip_keystroke_methods, chain, calls, result, screen, user, halfway>>

PastePlace ==
  /\ pc = "placing"
  /\ \/ clipboard' = "text" /\ pc' = "keying" /\ UNCHANGED result
     \/ config.fallible /\ Fails /\ UNCHANGED clipboard
  /\ UNCHANGED <<config, skip_keystroke_methods, chain, calls, saved, typed, pasting, user, halfway>>

(* The paste key by wtype, eitype or ydotool: if none can, what was saved  *)
(* is not restored.                                                        *)
PasteKey ==
  /\ pc = "keying"
  /\ \/ pasting' = TRUE /\ pc' = "entering" /\ UNCHANGED result
     \/ config.fallible /\ Fails /\ UNCHANGED pasting
  /\ UNCHANGED <<config, skip_keystroke_methods, chain, calls, saved, typed, clipboard, user, halfway>>

(* Mutant: Enter is the last step, and nothing is restored after it.       *)
RestoresIfNotSubmitted == saved # Nothing /\ ~config.auto_submit

Restores == saved # Nothing

(* Enter, on a best effort, after the application's paste: it handles its  *)
(* keys in order.                                                          *)
PasteEnter ==
  /\ pc = "entering"
  /\ \/ config.auto_submit /\ ~pasting /\ typed' = Append(typed, "enter")
     \/ (config.auto_submit => config.fallible) /\ UNCHANGED typed
  /\ IF Restores THEN pc' = "restoring" /\ UNCHANGED result ELSE Succeeds
  /\ UNCHANGED <<config, skip_keystroke_methods, chain, calls, saved, clipboard,
                 pasting, user, halfway>>

(* restore_clipboard_delay_ms is taken to be enough for the application.   *)
DelayIsOver == ~pasting

PasteRestore ==
  /\ pc = "restoring"
  /\ DelayIsOver
  /\ clipboard' \in {saved} \cup (IF config.fallible THEN {clipboard} ELSE {})
  /\ Succeeds
  /\ UNCHANGED <<config, skip_keystroke_methods, chain, calls, saved, typed, pasting,
                 user, halfway>>

Next ==
  \/ HoldOrRelease \/ Copy \/ Paste
  \/ ModifiersReleased \/ WaitTimesOut \/ TryNext \/ ChainEnds
  \/ TypeCall \/ TypingDone \/ CopyOnly
  \/ PasteSave \/ PastePlace \/ PasteKey \/ PasteEnter \/ PasteRestore

Spec == Init /\ [][Next]_vars

-----------------------------------------------------------------------------

Contents == {"text", "user's", "user's new"}
Typed == Range(Text) \cup {"command", "append", "enter", "user's", "user's new"}
CallType == [types : Seq(Typed), needed : BOOLEAN]

TypeOK ==
  /\ config \in ConfigType
  /\ pc \in {"guard", "next", "typing", "copying", "saving", "placing", "keying",
            "entering", "restoring", "done"}
  /\ skip_keystroke_methods \in BOOLEAN
  /\ chain \in Seq(Methods)
  /\ calls \in Seq(CallType)
  /\ saved \in Contents \cup {Nothing}
  /\ pc = "restoring" => saved # Nothing
  /\ result \in BOOLEAN
  /\ typed \in Seq(Typed)
  /\ clipboard \in Contents
  /\ pasting \in BOOLEAN
  /\ held \in BOOLEAN
  /\ copied \in BOOLEAN
  /\ halfway \in BOOLEAN

Done == pc = "done" /\ ~pasting

(* What a typing tool makes of the text: dotool keeps its first line.      *)
ByDotool == config.mode = "type" /\ "dotool" \in config.available

Bodies == {Text} \cup (IF ByDotool THEN {DotoolText} ELSE {})

(* What an output that is not interrupted halfway may leave at the cursor: *)
(* the text, what is appended, Enter; the last two may be missing if their *)
(* tools fail.                                                             *)
Whole(t) ==
  \E body \in Bodies, append \in {<<>>, AppendText}, enter \in {<<>>, <<"enter">>} :
    t = body \o append \o enter

(* All of the text arrives at the cursor, once and in order, or nothing at *)
(* all, whatever tools are tried: unless one fails after it has typed some *)
(* of it, or the user copies between copy and paste.  Of several lines     *)
(* dotool types the first alone.                                           *)
TextArrivesOnce ==
  Done /\ ~halfway /\ ~copied => typed = <<>> \/ Whole(typed)

(* After the wait for the modifiers timed out no key is sent, for the      *)
(* compositor would take it for a shortcut.                                *)
NoKeysAfterTimeout == skip_keystroke_methods => typed = <<>> /\ ~pasting

(* A successful output leaves the text where the user has it, at the       *)
(* cursor or on the clipboard; with restore_clipboard, and tools that do   *)
(* not fail, a paste gives the user's clipboard back.                      *)
ClipboardIsLeftRight ==
  Done /\ result /\ ~copied =>
    /\ typed = <<>> => clipboard = "text"
    /\ config.mode = "paste" /\ config.restore_clipboard /\ ~config.fallible =>
         clipboard = "user's"

=============================================================================
