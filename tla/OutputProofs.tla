---------------------------- MODULE OutputProofs ----------------------------
(***************************************************************************)
(* Theorems about Output, for every text, every chain of drivers, every    *)
(* set of installed tools and every setting of the options.                *)
(***************************************************************************)
EXTENDS Output, SequenceTheorems, TLAPS

(* Two facts about sequences: the front of a concatenation.                *)
LEMMA FrontOfConcat ==
  ASSUME NEW S, NEW s \in Seq(S), s # <<>>, NEW t \in Seq(S)
  PROVE  /\ s \o t # <<>>
         /\ Head(s \o t) = Head(s)
         /\ Tail(s \o t) = Tail(s) \o t
<1>1. /\ Len(s) \in Nat \ {0}
      /\ Len(t) \in Nat
  BY EmptySeq, LenProperties
<1>2. /\ s \o t \in Seq(S)
      /\ Len(s \o t) = Len(s) + Len(t)
      /\ \A i \in 1 .. Len(s) + Len(t) :
           (s \o t)[i] = IF i <= Len(s) THEN s[i] ELSE t[i - Len(s)]
  BY ConcatProperties
<1>3. s \o t # <<>>
  BY <1>1, <1>2, EmptySeq
<1>4. Head(s \o t) = Head(s)
  BY <1>1, <1>2, <1>3
<1>5. /\ Tail(s) \in Seq(S)
      /\ Len(Tail(s)) = Len(s) - 1
      /\ \A i \in 1 .. Len(Tail(s)) : Tail(s)[i] = s[i + 1]
  BY HeadTailProperties
<1>6. /\ Tail(s \o t) \in Seq(S)
      /\ Len(Tail(s \o t)) = Len(s \o t) - 1
      /\ \A i \in 1 .. Len(Tail(s \o t)) : Tail(s \o t)[i] = (s \o t)[i + 1]
  BY <1>2, <1>3, HeadTailProperties
<1>7. /\ Tail(s) \o t \in Seq(S)
      /\ Len(Tail(s) \o t) = Len(Tail(s)) + Len(t)
      /\ \A i \in 1 .. Len(Tail(s)) + Len(t) :
           (Tail(s) \o t)[i] = IF i <= Len(Tail(s)) THEN Tail(s)[i] ELSE t[i - Len(Tail(s))]
  BY <1>5, ConcatProperties
<1>8. /\ Len(Tail(s \o t)) = Len(Tail(s) \o t)
      /\ \A i \in 1 .. Len(Tail(s \o t)) : Tail(s \o t)[i] = (Tail(s) \o t)[i]
  BY <1>1, <1>2, <1>5, <1>6, <1>7
<1>9. Tail(s \o t) = Tail(s) \o t
  BY <1>6, <1>7, <1>8, SeqEqual
<1> QED
  BY <1>3, <1>4, <1>9

LEMMA FrontOfCalls ==
  \A s, t \in Seq(CallType) :
    s # <<>> => /\ Head(s \o t) = Head(s)
                /\ Tail(s \o t) = Tail(s) \o t
<1> TAKE s, t \in Seq(CallType)
<1> HAVE s # <<>>
<1> QED
  BY FrontOfConcat

-----------------------------------------------------------------------------
(* The calls of the typing tools.                                          *)

Lines == [i \in 1 .. Len(Text) |-> Call(<<Text[i]>>, TRUE)]

LEMMA TextFacts ==
  /\ Text \in Seq(Typed)
  /\ Text # <<>>
  /\ Len(Text) \in Nat \ {0}
  /\ DOMAIN Text = 1 .. Len(Text)
<1>1. Text \in Seq(Typed)
  BY OutputAssumption, SeqMonotonic DEF Typed
<1> QED
  BY <1>1, OutputAssumption, EmptySeq, LenProperties

(* dotool's reading of the text: as long, and with the same first line.    *)
LEMMA DotoolFacts ==
  /\ DotoolText \in Seq(Typed)
  /\ DotoolText # <<>>
<1>1. \A i \in DOMAIN Text : Text[i] \in Typed
  BY TextFacts, ElementOfSeq
<1>2. DotoolText \in [1 .. Len(Text) -> Typed]
  BY <1>1, TextFacts DEF DotoolText, Typed
<1>3. DotoolText \in Seq(Typed)
  BY <1>2, TextFacts
<1>4. Len(DotoolText) = Len(Text)
  BY <1>2, <1>3, TextFacts, LenProperties
<1>5. Len(DotoolText) # 0
  BY <1>4, TextFacts
<1> HIDE DEF DotoolText
<1> QED
  BY <1>3, <1>5

LEMMA OneOf == ASSUME NEW S PROVE \A x \in S : <<x>> \in Seq(S)
OBVIOUS

LEMMA CallFacts ==
  ASSUME NEW types \in Seq(Typed), NEW needed \in BOOLEAN
  PROVE  /\ Call(types, needed) \in CallType
         /\ Call(types, needed).types = types
         /\ Call(types, needed).needed = needed
         /\ <<Call(types, needed)>> \in Seq(CallType)
BY DEF Call, CallType

LEMMA AppendFacts ==
  /\ AppendText \in Seq(Typed)
  /\ "enter" \in Typed
  /\ <<"enter">> \in Seq(Typed)
  /\ Enter \in Seq(CallType)
  /\ \A needed \in BOOLEAN : Appended(needed) \in Seq(CallType)
<1>1. <<"append">> \in Seq(Typed) /\ <<"enter">> \in Seq(Typed)
  BY DEF Typed
<1>2. AppendText \in Seq(Typed)
  BY <1>1, EmptySeq DEF AppendText
<1>3. Enter \in Seq(CallType)
  BY <1>1, CallFacts, EmptySeq DEF Enter
<1>4. ASSUME NEW needed \in BOOLEAN PROVE Appended(needed) \in Seq(CallType)
  BY <1>1, CallFacts, EmptySeq DEF Appended
<1> QED
  BY <1>1, <1>2, <1>3, <1>4 DEF Typed

LEMMA LinesFacts ==
  /\ Lines \in Seq(CallType)
  /\ Len(Lines) = Len(Text)
  /\ \A i \in 1 .. Len(Text) : Lines[i] = Call(<<Text[i]>>, TRUE)
<1>1. \A i \in 1 .. Len(Text) : <<Text[i]>> \in Seq(Typed)
  BY TextFacts, ElementOfSeq
<1>2. \A i \in 1 .. Len(Text) : Call(<<Text[i]>>, TRUE) \in CallType
  BY <1>1, CallFacts
<1>3. Lines \in [1 .. Len(Text) -> CallType]
  BY <1>2 DEF Lines
<1>4. Lines \in Seq(CallType)
  BY <1>3, TextFacts
<1>5. Len(Lines) = Len(Text)
  BY <1>3, <1>4, TextFacts, LenProperties DEF Lines
<1> QED
  BY <1>4, <1>5 DEF Lines

LEMMA LineCallsAre ==
  LineCalls = (IF config.shift_enter_newlines THEN Lines ELSE <<Call(Text, TRUE)>>)
                \o Appended(TRUE) \o Enter
BY TextFacts DEF LineCalls, Lines

LEMMA CallsType == \A tool \in KeyTools : CallsOf(tool) \in Seq(CallType)
<1>1. LineCalls \in Seq(CallType)
  BY LineCallsAre, LinesFacts, TextFacts, CallFacts, AppendFacts, ConcatProperties
<1>2. YdotoolCalls \in Seq(CallType)
  BY TextFacts, CallFacts, AppendFacts, ConcatProperties DEF YdotoolCalls
<1>3. DotoolCalls \in Seq(CallType)
  <2>1. (IF config.auto_submit THEN <<"enter">> ELSE <<>>) \in Seq(Typed)
    BY AppendFacts, EmptySeq
  <2>2. DotoolText \o AppendText \o (IF config.auto_submit THEN <<"enter">> ELSE <<>>)
          \in Seq(Typed)
    BY <2>1, DotoolFacts, AppendFacts, ConcatProperties
  <2> QED
    BY <2>2, CallFacts DEF DotoolCalls
<1> QED
  BY <1>1, <1>2, <1>3 DEF CallsOf, KeyTools

-----------------------------------------------------------------------------
(* Type correctness.                                                       *)

LEMMA ChainType ==
  ASSUME NEW c \in ConfigType
  PROVE  /\ OutputChain(c) \in Seq(Methods)
         /\ c.mode = "paste" => OutputChain(c) = <<"paste">>
         /\ c.mode # "paste" => OutputChain(c) \in Seq(KeyTools \cup Clipboards)
         /\ c.mode \notin {"paste", "type"} => OutputChain(c) \in Seq(Clipboards)
<1>1. DefaultDriverOrder \in Seq(KeyTools \cup Clipboards)
  BY DEF DefaultDriverOrder, KeyTools, Clipboards
<1>2. TypeChain(c.driver_order, c.fallback_to_clipboard) \in Seq(KeyTools \cup Clipboards)
  <2>1. c.driver_order \in Seq(KeyTools \cup Clipboards)
    BY DEF ConfigType
  <2>2. "wl_copy" \in KeyTools \cup Clipboards
    BY DEF Clipboards
  <2>3. Append(c.driver_order, "wl_copy") \in Seq(KeyTools \cup Clipboards)
    BY <2>1, <2>2, AppendProperties
  <2> QED
    BY <1>1, <2>1, <2>3 DEF TypeChain
<1>3. <<"wl_copy", "xclip">> \in Seq(KeyTools \cup Clipboards)
      /\ <<"wl_copy">> \in Seq(KeyTools \cup Clipboards)
  BY DEF Clipboards
<1>4. <<"paste">> \in Seq(Methods)
  BY DEF Methods
<1>5. Seq(KeyTools \cup Clipboards) \subseteq Seq(Methods)
  BY SeqMonotonic DEF Methods
<1>6. c.mode \in {"type", "clipboard", "paste", "file"}
  BY DEF ConfigType
<1>7. c.mode # "paste" => OutputChain(c) \in Seq(KeyTools \cup Clipboards)
  BY <1>2, <1>3, <1>6 DEF OutputChain
<1>8. c.mode = "paste" => OutputChain(c) = <<"paste">>
  BY DEF OutputChain
<1>9. c.mode \notin {"paste", "type"} => OutputChain(c) \in Seq(Clipboards)
  <2>1. <<"wl_copy", "xclip">> \in Seq(Clipboards) /\ <<"wl_copy">> \in Seq(Clipboards)
    BY DEF Clipboards
  <2> QED
    BY <1>6, <2>1 DEF OutputChain
<1> QED
  BY <1>4, <1>5, <1>6, <1>7, <1>8, <1>9

LEMMA TypeInit == Init => TypeOK
<1> SUFFICES ASSUME Init PROVE TypeOK
  OBVIOUS
<1>1. config \in ConfigType
  BY OutputAssumption DEF Init
<1>2. chain \in Seq(Methods)
  BY <1>1, ChainType DEF Init
<1>3. <<>> \in Seq(Typed) /\ <<>> \in Seq(CallType)
  BY EmptySeq
<1> QED
  BY <1>1, <1>2, <1>3 DEF Init, TypeOK, Contents

LEMMA TypeNext == TypeOK /\ [Next]_vars => TypeOK'
<1> SUFFICES ASSUME TypeOK, [Next]_vars PROVE TypeOK'
  OBVIOUS
<1> USE DEF TypeOK, Contents, Nothing
<1>1. CASE HoldOrRelease \/ Copy
  <2>1. /\ UNCHANGED <<config, run, typed, pasting, halfway>>
        /\ clipboard' \in {clipboard, "user's new"}
        /\ held' \in BOOLEAN
        /\ copied' \in BOOLEAN
    <3>1. CASE HoldOrRelease
      BY <3>1 DEF HoldOrRelease, screen
    <3>2. CASE Copy
      BY <3>2 DEF Copy
    <3> QED
      BY <1>1, <3>1, <3>2
  <2> QED
    BY <2>1 DEF run
<1>2. CASE Paste
  <2>1. Text \o AppendText \in Seq(Typed)
    BY TextFacts, AppendFacts, ConcatProperties
  <2>2. ASSUME clipboard # "text" PROVE <<clipboard>> \in Seq(Typed)
    <3>1. clipboard \in Typed
      BY <2>2 DEF Typed
    <3> QED
      BY <3>1, OneOf, Zenon
  <2>3. typed' \in Seq(Typed)
    <3>1. CASE clipboard = "text"
      <4>1. typed' = typed \o (Text \o AppendText)
        BY <1>2, <3>1 DEF Paste
      <4> QED
        BY <2>1, <4>1, ConcatProperties
    <3>2. CASE clipboard # "text"
      <4>1. typed' = typed \o <<clipboard>>
        BY <1>2, <3>2 DEF Paste
      <4> QED
        BY <2>2, <3>2, <4>1, ConcatProperties
    <3> QED
      BY <3>1, <3>2
  <2>4. /\ config' = config /\ pc' = pc /\ chain' = chain /\ calls' = calls
        /\ saved' = saved /\ clipboard' = clipboard /\ pasting' = FALSE
        /\ UNCHANGED <<skip_keystroke_methods, result, held, copied, halfway>>
    BY <1>2, Zenon DEF Paste, run, user
  <2>5. /\ skip_keystroke_methods' \in BOOLEAN /\ result' \in BOOLEAN
        /\ pasting' \in BOOLEAN /\ held' \in BOOLEAN
        /\ copied' \in BOOLEAN /\ halfway' \in BOOLEAN
    BY <2>4
  <2>6. /\ config' \in ConfigType
        /\ pc' \in {"guard", "next", "typing", "copying", "saving", "placing", "keying",
                   "entering", "restoring", "done"}
        /\ chain' \in Seq(Methods)
        /\ calls' \in Seq(CallType)
    BY <2>4
  <2>7. /\ saved' \in Contents \cup {Nothing}
        /\ pc' = "restoring" => saved' # Nothing
        /\ clipboard' \in Contents
    BY <2>4
  <2> QED
    BY <2>3, <2>5, <2>6, <2>7
<1>3. CASE ModifiersReleased \/ WaitTimesOut \/ ChainEnds
  BY <1>3 DEF ModifiersReleased, WaitTimesOut, ChainEnds, screen, user
<1>4. CASE TryNext
  <2>1. Head(chain) \in Methods /\ chain' \in Seq(Methods)
    BY <1>4, HeadTailProperties DEF TryNext
  <2>2. calls' \in Seq(CallType)
    BY <1>4, CallsType, EmptySeq DEF TryNext, CallType
  <2>3. pc' \in {"next", "typing", "copying", "saving"}
    BY <1>4, <2>1 DEF TryNext, Methods
  <2> QED
    BY <1>4, <2>1, <2>2, <2>3 DEF TryNext, screen, user, CallType
<1>5. CASE TypeCall
  <2>1. /\ Head(calls) \in CallType
        /\ Tail(calls) \in Seq(CallType)
        /\ <<>> \in Seq(CallType)
    BY <1>5, HeadTailProperties, EmptySeq DEF TypeCall, CallType
  <2>2. calls' \in Seq(CallType)
    BY <1>5, <2>1 DEF TypeCall
  <2>3. typed' \in Seq(Typed)
    <3>1. typed \o Head(calls).types \in Seq(Typed)
      BY <2>1, ConcatProperties DEF CallType
    <3> QED
      BY <1>5, <3>1 DEF TypeCall
  <2> QED
    BY <1>5, <2>2, <2>3 DEF TypeCall, Fails, user, CallType
<1>6. CASE TypingDone \/ CopyOnly
  BY <1>6 DEF TypingDone, CopyOnly, Succeeds, Fails, screen, user
<1>7. CASE PasteSave \/ PastePlace \/ PasteKey
  <2>1. CASE PasteSave
    BY <2>1 DEF PasteSave, screen, user
  <2>2. CASE PastePlace
    BY <2>2 DEF PastePlace, Fails, user
  <2>3. CASE PasteKey
    BY <2>3 DEF PasteKey, Fails, user
  <2> QED
    BY <1>7, <2>1, <2>2, <2>3
<1>8. CASE PasteEnter
  <2>1. typed' \in Seq(Typed)
    <3>1. Append(typed, "enter") \in Seq(Typed)
      BY AppendFacts, AppendProperties
    <3>2. typed' = Append(typed, "enter") \/ typed' = typed
      BY <1>8 DEF PasteEnter
    <3> QED
      BY <3>1, <3>2
  <2>2. UNCHANGED <<config, skip_keystroke_methods, chain, calls, saved, clipboard,
                    pasting, held, copied, halfway>>
    BY <1>8, Zenon DEF PasteEnter, user
  <2>3. /\ pc' \in {"restoring", "done"}
        /\ result' \in BOOLEAN
        /\ pc' = "restoring" => saved # Nothing
    BY <1>8 DEF PasteEnter, Succeeds, Restores
  <2> QED
    BY <2>1, <2>2, <2>3
<1>9. CASE PasteRestore
  BY <1>9 DEF PasteRestore, Succeeds, user
<1>10. CASE UNCHANGED vars
  <2>1. /\ config' = config /\ pc' = pc /\ chain' = chain /\ calls' = calls
        /\ saved' = saved /\ typed' = typed /\ clipboard' = clipboard
        /\ UNCHANGED <<skip_keystroke_methods, result, pasting, held, copied, halfway>>
    BY <1>10, Zenon DEF vars, run, screen, user
  <2>2. /\ skip_keystroke_methods' \in BOOLEAN /\ result' \in BOOLEAN
        /\ pasting' \in BOOLEAN /\ held' \in BOOLEAN
        /\ copied' \in BOOLEAN /\ halfway' \in BOOLEAN
    BY <2>1
  <2>3. /\ config' \in ConfigType
        /\ pc' \in {"guard", "next", "typing", "copying", "saving", "placing", "keying",
                   "entering", "restoring", "done"}
        /\ chain' \in Seq(Methods)
        /\ calls' \in Seq(CallType)
        /\ typed' \in Seq(Typed)
    BY <2>1
  <2>4. /\ saved' \in Contents \cup {Nothing}
        /\ pc' = "restoring" => saved' # Nothing
        /\ clipboard' \in Contents
    BY <2>1
  <2> QED
    BY <2>2, <2>3, <2>4
<1> QED
  BY <1>1, <1>2, <1>3, <1>4, <1>5, <1>6, <1>7, <1>8, <1>9, <1>10 DEF Next

(* The output's state is well formed, whatever the driver order and the    *)
(* tools are: a method of the chain is one the code knows.                 *)
THEOREM TypeCorrect == Spec => []TypeOK
BY TypeInit, TypeNext, PTL DEF Spec

-----------------------------------------------------------------------------
(* What a typing tool has still to do, when none has failed halfway: the   *)
(* calls cs are left, and t is typed.                                      *)

Pending(needed) == Appended(needed) \o Enter

Progress(cs, t) ==
  \/ t = <<>> /\ cs = DotoolCalls /\ ByDotool
  \/ t = <<>> /\ \E needed \in BOOLEAN : cs = <<Call(Text, TRUE)>> \o Pending(needed)
  \/ \E k \in 1 .. Len(Text) :
       /\ t = SubSeq(Text, 1, k - 1)
       /\ cs = SubSeq(Lines, k, Len(Text)) \o Pending(TRUE)
  \/ t = Text /\ \E needed \in BOOLEAN : cs = Pending(needed)
  \/ t \in {Text, Text \o AppendText} /\ cs = Enter
  \/ Whole(t) /\ cs = <<>>

LEMMA WholeTexts ==
  /\ \A t \in {Text, Text \o AppendText} : Whole(t) /\ Whole(t \o <<"enter">>)
  /\ \A t : Whole(t) => t # <<>>
<1>1. /\ <<>> \in Seq(Typed)
      /\ AppendText \in Seq(Typed)
      /\ Text \in Seq(Typed)
      /\ Text # <<>>
      /\ <<"enter">> \in Seq(Typed)
  BY TextFacts, AppendFacts, EmptySeq
<1>2. Text \o AppendText \in Seq(Typed)
  BY <1>1, ConcatProperties
<1>3. Text \o <<>> = Text
  BY <1>1, ConcatEmptySeq
<1>4. (Text \o AppendText) \o <<>> = Text \o AppendText
  BY <1>2, ConcatEmptySeq
<1>5. Whole(Text) /\ Whole(Text \o AppendText)
  BY <1>3, <1>4 DEF Whole, Bodies
<1>6. Whole(Text \o <<"enter">>) /\ Whole((Text \o AppendText) \o <<"enter">>)
  BY <1>3 DEF Whole, Bodies
<1>7. ASSUME NEW b \in Bodies, NEW a \in {<<>>, AppendText}, NEW e \in {<<>>, <<"enter">>}
      PROVE  b \o a \o e # <<>>
  <2>1. a \in Seq(Typed) /\ e \in Seq(Typed) /\ b \in Seq(Typed) /\ b # <<>>
    BY <1>1, DotoolFacts DEF Bodies
  <2>2. b \o a \in Seq(Typed) /\ b \o a # <<>>
    BY <2>1, ConcatProperties, ConcatEqualIffEmpty
  <2> QED
    BY <2>1, <2>2, ConcatEqualIffEmpty
<1> QED
  BY <1>5, <1>6, <1>7 DEF Whole

LEMMA PendingFacts ==
  ASSUME NEW needed \in BOOLEAN
  PROVE  /\ Pending(needed) \in Seq(CallType)
         /\ config.append_text =>
              /\ Pending(needed) # <<>>
              /\ Head(Pending(needed)) = Call(<<"append">>, needed)
              /\ Tail(Pending(needed)) = Enter
         /\ ~config.append_text => Pending(needed) = Enter
<1>1. Appended(needed) \in Seq(CallType) /\ Enter \in Seq(CallType)
  BY AppendFacts
<1>2. Pending(needed) \in Seq(CallType)
  BY <1>1, ConcatProperties DEF Pending
<1>3. ASSUME ~config.append_text PROVE Pending(needed) = Enter
  BY <1>1, <1>3, ConcatEmptySeq DEF Pending, Appended
<1>4. ASSUME config.append_text
      PROVE  /\ Pending(needed) # <<>>
             /\ Head(Pending(needed)) = Call(<<"append">>, needed)
             /\ Tail(Pending(needed)) = Enter
  <2> DEFINE one == <<Call(<<"append">>, needed)>>
  <2>1. Appended(needed) = one
    BY <1>4 DEF Appended
  <2>2. one \in Seq(CallType)
    BY <1>1, <2>1
  <2>3. one # <<>> /\ Head(one) = Call(<<"append">>, needed) /\ Tail(one) = <<>>
    OBVIOUS
  <2> HIDE DEF one
  <2>4. one \o Enter # <<>> /\ Head(one \o Enter) = Head(one)
        /\ Tail(one \o Enter) = Tail(one) \o Enter
    BY <1>1, <2>2, <2>3, FrontOfConcat
  <2>5. <<>> \o Enter = Enter
    BY <1>1, ConcatEmptySeq
  <2> QED
    BY <2>1, <2>3, <2>4, <2>5 DEF Pending
<1> QED
  BY <1>2, <1>3, <1>4

(* A call is made, or fails though nothing needed it.                      *)
LEMMA ProgressStep ==
  ASSUME NEW cs, NEW t, Progress(cs, t), cs # <<>>
  PROVE  /\ Progress(Tail(cs), t \o Head(cs).types)
         /\ Head(cs).needed = FALSE => Progress(Tail(cs), t)
<1>1. CASE t = <<>> /\ cs = DotoolCalls /\ ByDotool
  <2> DEFINE enter == IF config.auto_submit THEN <<"enter">> ELSE <<>>
             all == DotoolText \o AppendText \o enter
  <2>1. all \in Seq(Typed)
    BY DotoolFacts, AppendFacts, EmptySeq, ConcatProperties
  <2>2. Whole(all)
    BY <1>1 DEF Whole, Bodies
  <2>3. <<>> \o all = all
    BY <2>1, ConcatEmptySeq
  <2>4. cs = <<Call(all, TRUE)>>
    BY <1>1 DEF DotoolCalls
  <2> HIDE DEF all
  <2>5. Head(cs) = Call(all, TRUE) /\ Tail(cs) = <<>>
    BY <2>4
  <2>6. Head(cs).types = all /\ Head(cs).needed = TRUE
    BY <2>5 DEF Call
  <2> QED
    BY <1>1, <2>2, <2>3, <2>5, <2>6 DEF Progress
<1>2. ASSUME t = <<>>, NEW needed \in BOOLEAN,
             cs = <<Call(Text, TRUE)>> \o Pending(needed)
      PROVE  Progress(Tail(cs), t \o Head(cs).types) /\ Head(cs).needed = TRUE
  <2> DEFINE one == <<Call(Text, TRUE)>>
  <2>1. one \in Seq(CallType) /\ Pending(needed) \in Seq(CallType)
    BY TextFacts, CallFacts, PendingFacts
  <2>2. one # <<>> /\ Head(one) = Call(Text, TRUE) /\ Tail(one) = <<>>
    OBVIOUS
  <2>3. cs = one \o Pending(needed)
    BY <1>2
  <2> HIDE DEF one
  <2>4. Head(cs) = Call(Text, TRUE) /\ Tail(cs) = <<>> \o Pending(needed)
    BY <2>1, <2>2, <2>3, FrontOfCalls, Zenon
  <2>5. Tail(cs) = Pending(needed)
    BY <2>1, <2>4, ConcatEmptySeq
  <2>6. Head(cs).types = Text /\ Head(cs).needed = TRUE
    BY <2>4 DEF Call
  <2>7. t \o Text = Text
    BY <1>2, TextFacts, ConcatEmptySeq
  <2> QED
    BY <2>5, <2>6, <2>7 DEF Progress
<1>3. ASSUME NEW k \in 1 .. Len(Text), t = SubSeq(Text, 1, k - 1),
             cs = SubSeq(Lines, k, Len(Text)) \o Pending(TRUE)
      PROVE  Progress(Tail(cs), t \o Head(cs).types) /\ Head(cs).needed = TRUE
  <2> DEFINE n == Len(Text)
             left == SubSeq(Lines, k, n)
  <2>1. /\ n \in Nat \ {0}
        /\ k \in Nat
        /\ Lines \in Seq(CallType)
        /\ Len(Lines) = n
        /\ k \in 1 .. Len(Lines)
        /\ n \in k .. Len(Lines)
    BY TextFacts, LinesFacts
  <2>2. Head(left) = Lines[k] /\ Tail(left) = SubSeq(Lines, k + 1, n)
    BY <2>1, HeadTailOfSubSeq
  <2>3. left \in Seq(CallType) /\ left # <<>>
    <3>1. \A i \in k .. n : Lines[i] \in CallType
      BY <2>1, ElementOfSeq
    <3>2. left \in Seq(CallType) /\ Len(left) = n - k + 1
      BY <2>1, <3>1, SubSeqProperties
    <3>3. Len(left) # 0
      BY <2>1, <3>2
    <3>4. Len(<<>>) = 0
      OBVIOUS
    <3> HIDE DEF left
    <3> QED
      BY <3>2, <3>3, <3>4
  <2>4. Pending(TRUE) \in Seq(CallType)
    BY PendingFacts
  <2>5. Head(cs) = Lines[k] /\ Tail(cs) = SubSeq(Lines, k + 1, n) \o Pending(TRUE)
    <3>1. cs = left \o Pending(TRUE)
      BY <1>3
    <3> HIDE DEF left
    <3> QED
      BY <3>1, <2>2, <2>3, <2>4, FrontOfCalls, Zenon
  <2>6. Lines[k] = Call(<<Text[k]>>, TRUE)
    BY LinesFacts
  <2>7. Head(cs).types = <<Text[k]>> /\ Head(cs).needed = TRUE
    BY <2>5, <2>6 DEF Call
  <2>8. t \o Head(cs).types = SubSeq(Text, 1, k)
    <3>1. 1 \in 1 .. Len(Text) /\ k \in 1 .. Len(Text)
      BY <2>1
    <3>2. SubSeq(Text, 1, k) = SubSeq(Text, 1, k - 1) \o <<Text[k]>>
      BY <3>1, TextFacts, SubSeqRecursiveSecond
    <3> QED
      BY <1>3, <2>7, <3>2
  <2>9. CASE k = n
    <3>1. SubSeq(Lines, k + 1, n) = <<>>
      BY <2>1, <2>9, SubSeqEmpty
    <3>2. Tail(cs) = Pending(TRUE)
      BY <2>4, <2>5, <3>1, ConcatEmptySeq
    <3>3. SubSeq(Text, 1, k) = Text
      BY <2>9, TextFacts, SubSeqFull
    <3> QED
      BY <2>7, <2>8, <3>2, <3>3 DEF Progress
  <2>10. CASE k # n
    <3>1. k + 1 \in 1 .. Len(Text) /\ (k + 1) - 1 = k
      BY <2>1, <2>10
    <3> QED
      BY <2>5, <2>7, <2>8, <3>1 DEF Progress
  <2> QED
    BY <2>9, <2>10
<1>4. ASSUME t \in {Text, Text \o AppendText}, cs = Enter
      PROVE  /\ Progress(Tail(cs), t \o Head(cs).types)
             /\ Progress(Tail(cs), t)
  <2>1. cs = <<Call(<<"enter">>, FALSE)>>
    BY <1>4 DEF Enter
  <2>2. Head(cs) = Call(<<"enter">>, FALSE) /\ Tail(cs) = <<>>
    BY <2>1
  <2>3. Head(cs).types = <<"enter">>
    BY <2>2 DEF Call
  <2> QED
    BY <1>4, <2>2, <2>3, WholeTexts DEF Progress
<1>5. ASSUME t = Text, NEW needed \in BOOLEAN, cs = Pending(needed)
      PROVE  /\ Progress(Tail(cs), t \o Head(cs).types)
             /\ Progress(Tail(cs), t)
  <2>1. CASE config.append_text
    <3>1. Head(cs) = Call(<<"append">>, needed) /\ Tail(cs) = Enter
      BY <1>5, <2>1, PendingFacts
    <3>2. Head(cs).types = AppendText
      BY <2>1, <3>1 DEF Call, AppendText
    <3> QED
      BY <1>5, <3>1, <3>2 DEF Progress
  <2>2. CASE ~config.append_text
    BY <1>4, <1>5, <2>2, PendingFacts
  <2> QED
    BY <2>1, <2>2
<1> QED
  BY <1>1, <1>2, <1>3, <1>4, <1>5 DEF Progress, DotoolCalls, Call

-----------------------------------------------------------------------------
(* The inductive invariant: what each mode's methods may be about, what a  *)
(* time-out has ruled out, and, stage by stage, what is at the cursor and  *)
(* on the clipboard.                                                       *)

PasteStages == {"saving", "placing", "keying", "entering", "restoring"}

(* The paste method has no other to fall back to, and none falls back to it. *)
ModeFits ==
  IF config.mode = "paste"
  THEN /\ pc \notin {"typing", "copying"}
       /\ chain \in {<<"paste">>, <<>>}
       /\ pc \notin {"guard", "next"} => chain = <<>>
       /\ ~halfway
  ELSE /\ chain \in Seq(KeyTools \cup Clipboards)
       /\ pc \notin PasteStages
       /\ ~pasting
       /\ config.mode # "type" => chain \in Seq(Clipboards) /\ pc # "typing"

TimeoutKept ==
  skip_keystroke_methods =>
    pc \in {"next", "copying", "done"} /\ typed = <<>> /\ ~pasting

NothingYet ==
  /\ pc \in {"guard", "next", "copying", "saving", "placing", "keying"} =>
       ~pasting /\ (halfway \/ typed = <<>>)
  /\ pc = "guard" => ~halfway
  /\ halfway => typed # <<>>
  /\ pc # "done" => ~result

Typing == pc = "typing" /\ ~halfway => Progress(calls, typed)

Pasting ==
  ~copied =>
    /\ pasting => /\ pc \in {"entering", "restoring", "done"}
                  /\ typed = <<>>
                  /\ clipboard = "text"
    /\ pc = "keying" => clipboard = "text"
    /\ pc = "entering" => pasting \/ typed = Text \o AppendText
    /\ pc = "restoring" => pasting \/ Whole(typed)

Ended ==
  pc = "done" /\ ~copied =>
    \/ halfway
    \/ pasting
    \/ Whole(typed)
    \/ typed = <<>> /\ (result => clipboard = "text")

Restoring ==
  config.mode = "paste" /\ config.restore_clipboard /\ ~config.fallible /\ ~copied =>
    /\ pc \in {"guard", "next", "saving"} => clipboard = "user's"
    /\ pc \in {"placing", "keying", "entering", "restoring"} => saved = "user's"
    /\ pc = "done" /\ result => clipboard = "user's"

Inv ==
  /\ TypeOK
  /\ ModeFits
  /\ TimeoutKept
  /\ NothingYet
  /\ Typing
  /\ Pasting
  /\ Ended
  /\ Restoring

-----------------------------------------------------------------------------
(* The configuration is that of the start, and so is what it asks for.     *)
LEMMA ConfigStays ==
  ASSUME [Next]_vars
  PROVE  config' = config
BY DEF Next, vars, HoldOrRelease, Copy, Paste, ModifiersReleased, WaitTimesOut, TryNext,
  ChainEnds, TypeCall, TypingDone, CopyOnly, PasteSave, PastePlace, PasteKey, PasteEnter,
  PasteRestore

LEMMA TextsStay ==
  ASSUME config' = config
  PROVE  /\ (Text \o AppendText)' = Text \o AppendText
         /\ Whole(typed)' <=> Whole(typed')
         /\ Progress(calls, typed)' <=> Progress(calls', typed')
<1>1. AppendText' = AppendText /\ Enter' = Enter
  BY DEF AppendText, Enter
<1>2. Whole(typed)' <=> Whole(typed')
  BY <1>1 DEF Whole, Bodies, ByDotool
<1>3. DotoolCalls' = DotoolCalls /\ (ByDotool' <=> ByDotool)
  BY <1>1 DEF DotoolCalls, ByDotool
<1>4. Pending(TRUE)' = Pending(TRUE) /\ Pending(FALSE)' = Pending(FALSE)
  BY <1>1 DEF Pending, Appended
<1>5. (\E needed \in BOOLEAN : calls = <<Call(Text, TRUE)>> \o Pending(needed))'
        <=> \E needed \in BOOLEAN : calls' = <<Call(Text, TRUE)>> \o Pending(needed)
  BY <1>4
<1>6. (\E needed \in BOOLEAN : calls = Pending(needed))'
        <=> \E needed \in BOOLEAN : calls' = Pending(needed)
  BY <1>4
<1>7. (\E k \in 1 .. Len(Text) : /\ typed = SubSeq(Text, 1, k - 1)
                                /\ calls = SubSeq(Lines, k, Len(Text)) \o Pending(TRUE))'
        <=> \E k \in 1 .. Len(Text) :
               /\ typed' = SubSeq(Text, 1, k - 1)
               /\ calls' = SubSeq(Lines, k, Len(Text)) \o Pending(TRUE)
  BY <1>4
<1> QED
  BY <1>1, <1>2, <1>3, <1>5, <1>6, <1>7 DEF Progress

LEMMA Regroup ==
  ASSUME NEW s \in Seq(CallType), NEW needed \in BOOLEAN
  PROVE  s \o Appended(needed) \o Enter = s \o Pending(needed)
<1>1. Appended(needed) \in Seq(CallType) /\ Enter \in Seq(CallType)
  BY AppendFacts
<1> QED
  BY <1>1, ConcatAssociative DEF Pending

(* A tool begins with all of the text to type, and ends with none.         *)
LEMMA ProgressBegins ==
  ASSUME NEW tool \in KeyTools, tool = "dotool" => ByDotool
  PROVE  Progress(CallsOf(tool), <<>>)
<1>1. CASE tool = "dotool"
  BY <1>1 DEF CallsOf, Progress
<1>2. CASE tool = "ydotool"
  <2>1. YdotoolCalls = <<Call(Text, TRUE)>> \o Pending(FALSE)
    <3>1. <<Call(Text, TRUE)>> \in Seq(CallType)
      BY TextFacts, CallFacts
    <3> QED
      BY <3>1, Regroup DEF YdotoolCalls
  <2> QED
    BY <1>2, <2>1 DEF CallsOf, Progress
<1>3. CASE tool \in {"wtype", "eitype"}
  <2>1. CASE config.shift_enter_newlines
    <3>1. LineCalls = Lines \o Pending(TRUE)
      BY <2>1, LineCallsAre, LinesFacts, Regroup
    <3>2. Lines = SubSeq(Lines, 1, Len(Text))
      BY LinesFacts, SubSeqFull
    <3>3. 1 \in 1 .. Len(Text) /\ <<>> = SubSeq(Text, 1, 1 - 1)
      BY TextFacts, SubSeqEmpty
    <3> QED
      BY <1>3, <3>1, <3>2, <3>3 DEF CallsOf, Progress
  <2>2. CASE ~config.shift_enter_newlines
    <3>1. LineCalls = <<Call(Text, TRUE)>> \o Pending(TRUE)
      <4>1. <<Call(Text, TRUE)>> \in Seq(CallType)
        BY TextFacts, CallFacts
      <4> QED
        BY <2>2, <4>1, LineCallsAre, Regroup
    <3> QED
      BY <1>3, <3>1 DEF CallsOf, Progress
  <2> QED
    BY <2>1, <2>2
<1> QED
  BY <1>1, <1>2, <1>3 DEF KeyTools

LEMMA ProgressEnds ==
  ASSUME NEW t, Progress(<<>>, t)
  PROVE  Whole(t)
<1>1. <<>> # DotoolCalls
  BY DEF DotoolCalls
<1>2. \A needed \in BOOLEAN : <<>> # <<Call(Text, TRUE)>> \o Pending(needed)
  <2> TAKE needed \in BOOLEAN
  <2>1. <<Call(Text, TRUE)>> \in Seq(CallType) /\ Pending(needed) \in Seq(CallType)
    BY TextFacts, CallFacts, PendingFacts
  <2> QED
    BY <2>1, ConcatEqualIffEmpty
<1>3. \A k \in 1 .. Len(Text) : <<>> # SubSeq(Lines, k, Len(Text)) \o Pending(TRUE)
  <2> TAKE k \in 1 .. Len(Text)
  <2> DEFINE left == SubSeq(Lines, k, Len(Text))
  <2>1. Len(Text) \in Nat /\ k \in Nat /\ k <= Len(Text)
    BY TextFacts
  <2>2. \A i \in k .. Len(Text) : Lines[i] \in CallType
    BY <2>1, LinesFacts, ElementOfSeq
  <2>3. left \in Seq(CallType)
        /\ Len(left) = Len(Text) - k + 1
    BY <2>1, <2>2, SubSeqProperties
  <2>4. left # <<>>
    <3>1. Len(left) # 0
      BY <2>1, <2>3
    <3>2. Len(<<>>) = 0
      OBVIOUS
    <3> HIDE DEF left
    <3> QED
      BY <3>1, <3>2
  <2>5. Pending(TRUE) \in Seq(CallType)
    BY PendingFacts
  <2> HIDE DEF left, Pending
  <2>6. left \o Pending(TRUE) # <<>>
    BY <2>3, <2>4, <2>5, FrontOfConcat
  <2> QED
    BY <2>6 DEF left
<1>4. CASE t \in {Text, Text \o AppendText}
  BY <1>4, WholeTexts
<1> QED
  BY <1>1, <1>2, <1>3, <1>4 DEF Progress

-----------------------------------------------------------------------------
LEMMA InvInit == Init => Inv
<1> SUFFICES ASSUME Init PROVE Inv
  OBVIOUS
<1>1. TypeOK
  BY TypeInit
<1>2. ModeFits
  BY <1>1, ChainType DEF Init, TypeOK, ModeFits, PasteStages
<1> QED
  BY <1>1, <1>2
  DEF Init, Inv, TimeoutKept, NothingYet, Typing, Pasting, Ended, Restoring

LEMMA InvNext == Inv /\ [Next]_vars => Inv'
<1> SUFFICES ASSUME Inv, [Next]_vars PROVE Inv'
  OBVIOUS
<1> USE DEF Inv
<1>1. TypeOK'
  BY TypeNext
<1>2. /\ config' = config
      /\ (Text \o AppendText)' = Text \o AppendText
      /\ Whole(typed)' <=> Whole(typed')
      /\ Progress(calls, typed)' <=> Progress(calls', typed')
  BY ConfigStays, TextsStay
<1> HIDE DEF Inv
<1> DEFINE Parts ==
      ModeFits /\ TimeoutKept /\ NothingYet /\ Typing /\ Pasting /\ Ended /\ Restoring
<1>3. TypeOK /\ Parts
  BY DEF Inv
<1> SUFFICES Parts'
  BY <1>1 DEF Inv
<1> USE <1>2, <1>3
    DEF ModeFits, TimeoutKept, NothingYet, Typing, Pasting, Ended, Restoring, PasteStages
<1>4. CASE HoldOrRelease
  <2>1. UNCHANGED <<run, typed, clipboard, pasting, copied, halfway>>
    BY <1>4 DEF HoldOrRelease, screen
  <2>2. ModeFits' /\ NothingYet'
    BY <2>1 DEF run
  <2>3. TimeoutKept' /\ Typing' /\ Pasting' /\ Ended' /\ Restoring'
    BY <2>1 DEF run
  <2> QED
    BY <2>2, <2>3
<1>5. CASE Copy
  <2>1. UNCHANGED <<run, typed, pasting, halfway>> /\ copied' = TRUE
    BY <1>5 DEF Copy
  <2>2. ModeFits' /\ NothingYet'
    BY <2>1 DEF run
  <2>3. TimeoutKept' /\ Typing' /\ Pasting' /\ Ended' /\ Restoring'
    BY <2>1 DEF run
  <2> QED
    BY <2>2, <2>3
<1>6. CASE Paste
  <2>1. pasting /\ pasting' = FALSE /\ UNCHANGED <<run, clipboard, copied, halfway>>
    BY <1>6 DEF Paste, user
  <2>2. ASSUME ~copied PROVE typed' = Text \o AppendText
    <3>1. typed' = <<>> \o (Text \o AppendText)
      BY <1>6, <2>1, <2>2 DEF Paste
    <3>2. Text \o AppendText \in Seq(Typed)
      BY TextFacts, AppendFacts, ConcatProperties
    <3> QED
      BY <3>1, <3>2, ConcatEmptySeq
  <2>3. ASSUME ~copied PROVE Whole(typed')
    BY <2>2, <2>3, WholeTexts
  <2>4. ModeFits'
    BY <2>1 DEF run
  <2>5. TimeoutKept' /\ Typing' /\ Restoring'
    BY <1>6 DEF Paste, run, user
  <2>6. NothingYet'
    BY <1>6 DEF Paste, run, user
  <2>7. Pasting'
    BY <2>1, <2>2, <2>3 DEF run
  <2>8. Ended'
    BY <2>1, <2>3 DEF run
  <2> QED
    BY <2>4, <2>5, <2>6, <2>7, <2>8
<1>7. CASE ModifiersReleased \/ WaitTimesOut \/ ChainEnds
  BY <1>7 DEF ModifiersReleased, WaitTimesOut, ChainEnds, screen, user
<1>8. CASE TryNext
  <2>1. ModeFits'
    <3>1. /\ chain # <<>>
          /\ chain' = Tail(chain)
          /\ pc' = "next" \/ pc' = (CASE Head(chain) \in KeyTools -> "typing"
                                       [] Head(chain) \in Clipboards -> "copying"
                                       [] Head(chain) = "paste" -> "saving")
          /\ UNCHANGED <<pasting, halfway>>
      BY <1>8 DEF TryNext, screen
    <3>2. CASE config.mode = "paste"
      <4>1. Head(chain) = "paste" /\ Tail(chain) = <<>>
        <5>1. chain = <<"paste">>
          BY <3>1, <3>2
        <5> QED
          BY <5>1
      <4>2. pc' \in {"next", "saving"}
        BY <3>1, <4>1 DEF KeyTools, Clipboards
      <4> QED
        BY <3>1, <3>2, <4>1, <4>2
    <3>3. CASE config.mode # "paste"
      <4>1. /\ Head(chain) \in KeyTools \cup Clipboards
            /\ Tail(chain) \in Seq(KeyTools \cup Clipboards)
        BY <3>1, <3>3, HeadTailProperties
      <4>2. pc' \in {"next", "typing", "copying"}
        BY <3>1, <4>1 DEF KeyTools, Clipboards
      <4>3. ASSUME config.mode # "type"
            PROVE  Tail(chain) \in Seq(Clipboards) /\ pc' # "typing"
        <5>1. Head(chain) \in Clipboards /\ Tail(chain) \in Seq(Clipboards)
          BY <3>1, <3>3, <4>3, HeadTailProperties
        <5> QED
          BY <3>1, <5>1 DEF KeyTools, Clipboards
      <4> QED
        BY <3>1, <3>3, <4>1, <4>2, <4>3
    <3> QED
      BY <3>2, <3>3
  <2>8. ASSUME pc' = "typing"
        PROVE  Progress(calls', <<>>)
    <3>1. /\ Head(chain) \in KeyTools
          /\ Head(chain) \in config.available
          /\ calls' = CallsOf(Head(chain))
      BY <1>8, <2>8 DEF TryNext, Usable
    <3>2. config.mode = "type"
      BY <2>1, <1>2, <2>8
    <3>3. Head(chain) = "dotool" => ByDotool
      BY <3>1, <3>2 DEF ByDotool
    <3> QED
      BY <3>1, <3>3, ProgressBegins
  <2>2. TimeoutKept'
    BY <1>8 DEF TryNext, Usable, IsKeystrokeMethod, screen, user
  <2>3. NothingYet'
    BY <1>8 DEF TryNext, Usable, IsKeystrokeMethod, screen, user
  <2>4. Typing'
    BY <1>8, <2>8 DEF TryNext, Usable, IsKeystrokeMethod, screen, user
  <2>5. Pasting'
    BY <1>8 DEF TryNext, Usable, IsKeystrokeMethod, screen, user
  <2>6. Ended'
    BY <1>8 DEF TryNext, Usable, IsKeystrokeMethod, screen, user
  <2>7. Restoring'
    BY <1>8 DEF TryNext, Usable, IsKeystrokeMethod, screen, user
  <2> QED
    BY <2>1, <2>2, <2>3, <2>4, <2>5, <2>6, <2>7
<1>9. CASE TypeCall
  <2>1. /\ pc = "typing"
        /\ calls # <<>>
        /\ UNCHANGED <<skip_keystroke_methods, chain, saved, clipboard, pasting, copied>>
    BY <1>9 DEF TypeCall, user
  <2>2. Head(calls) \in CallType
    BY <2>1, HeadTailProperties DEF TypeOK
  <2>3. /\ Head(calls).types \in Seq(Typed)
        /\ Head(calls).needed \in BOOLEAN
        /\ typed \in Seq(Typed)
    BY <2>2 DEF CallType, TypeOK
  <2>4. CASE /\ typed' = typed \o Head(calls).types
             /\ calls' = Tail(calls)
             /\ UNCHANGED <<pc, result, halfway>>
    <3>1. halfway => typed' # <<>>
      BY <2>3, <2>4, ConcatEqualIffEmpty
    <3>2. ~halfway => Progress(calls', typed')
      BY <2>1, <2>4, ProgressStep
    <3> QED
      BY <2>1, <2>4, <3>1, <3>2
  <2>5. CASE /\ pc' = "next"
             /\ typed' \in {typed, typed \o Head(calls).types}
             /\ halfway' = (halfway \/ typed' # <<>>)
             /\ calls' = <<>>
             /\ UNCHANGED result
    <3>3. halfway => typed' # <<>>
      BY <2>3, <2>5, ConcatEqualIffEmpty
    <3>1. ModeFits' /\ TimeoutKept' /\ Typing' /\ Pasting' /\ Ended' /\ Restoring'
      BY <2>1, <2>5
    <3>2. NothingYet'
      BY <2>1, <2>5, <3>3
    <3> QED
      BY <3>1, <3>2
  <2>6. CASE /\ Head(calls).needed = FALSE
             /\ calls' = Tail(calls)
             /\ UNCHANGED <<pc, result, halfway, typed>>
    <3>1. ~halfway => Progress(calls', typed')
      BY <2>1, <2>6, ProgressStep
    <3> QED
      BY <2>1, <2>6, <3>1
  <2> QED
    BY <1>9, <2>3, <2>4, <2>5, <2>6 DEF TypeCall, Fails
<1>10. CASE TypingDone
  BY <1>10, ProgressEnds DEF TypingDone, Succeeds, screen, user
<1>11. CASE CopyOnly
  BY <1>11 DEF CopyOnly, Succeeds, Fails, user
<1>12. CASE PasteSave \/ PastePlace \/ PasteKey
  BY <1>12 DEF PasteSave, PastePlace, PasteKey, Fails, screen, user
<1>13. CASE PasteEnter
  <2>1. /\ pc = "entering"
        /\ pc' \in {"restoring", "done"}
        /\ pc' = "done" => saved = Nothing
        /\ pc' = "restoring" => result' = result
        /\ UNCHANGED <<skip_keystroke_methods, chain, saved, clipboard, pasting, copied, halfway>>
    BY <1>13 DEF PasteEnter, Restores, Succeeds, user
  <2>2. \/ ~pasting /\ typed' = Append(typed, "enter")
        \/ typed' = typed
    BY <1>13 DEF PasteEnter
  <2>3. ASSUME ~copied
        PROVE  (pasting => typed' = <<>>) /\ (~pasting => Whole(typed'))
    <3>1. (pasting => typed = <<>>) /\ (~pasting => typed = Text \o AppendText)
      BY <2>1, <2>3
    <3>2. Append(Text \o AppendText, "enter") = (Text \o AppendText) \o <<"enter">>
      BY TextFacts, AppendFacts, ConcatProperties, AppendIsConcat
    <3> QED
      BY <2>2, <3>1, <3>2, WholeTexts
  <2>4. ModeFits' /\ TimeoutKept' /\ Typing'
    BY <2>1
  <2>5. NothingYet'
    BY <2>1
  <2>6. Pasting' /\ Ended'
    BY <2>1, <2>3
  <2>7. Restoring'
    BY <2>1 DEF Nothing
  <2> QED
    BY <2>4, <2>5, <2>6, <2>7
<1>14. CASE PasteRestore
  BY <1>14 DEF PasteRestore, DelayIsOver, Succeeds, user
<1>15. CASE UNCHANGED vars
  BY <1>15 DEF vars, run, screen, user
<1> QED
  BY <1>4, <1>5, <1>6, <1>7, <1>8, <1>9, <1>10, <1>11, <1>12, <1>13, <1>14, <1>15 DEF Next

(* The invariant the three theorems below are read off.                    *)
THEOREM Invariance == Spec => []Inv
BY InvInit, InvNext, PTL DEF Spec

-----------------------------------------------------------------------------
(* After the wait for the modifiers timed out nothing is typed and no paste *)
(* key is sent, whatever the chain: the methods left put the text on the   *)
(* clipboard.                                                              *)
THEOREM NoKeys == Spec => []NoKeysAfterTimeout
<1>1. Inv => NoKeysAfterTimeout
  BY DEF Inv, TimeoutKept, NoKeysAfterTimeout
<1> QED
  BY <1>1, Invariance, PTL

(* Whichever tools are installed, fail or are tried in whichever order, the *)
(* cursor gets all of the text once, or nothing, unless a tool fails after *)
(* some of it or the user copies in between.  Where dotool may be the tool *)
(* that types, "all of the text" is what dotool makes of it: of several    *)
(* lines the first, while it reads the others as commands.                 *)
THEOREM AllOrNothing == Spec => []TextArrivesOnce
<1>1. Inv => TextArrivesOnce
  BY DEF Inv, Ended, TextArrivesOnce, Done
<1> QED
  BY <1>1, Invariance, PTL

(* A success leaves the text at the cursor or on the clipboard, and a paste *)
(* that may restore the user's clipboard has done so.                      *)
THEOREM ClipboardLeft == Spec => []ClipboardIsLeftRight
<1>1. Inv => ClipboardIsLeftRight
  BY WholeTexts
  DEF Inv, Ended, NothingYet, Restoring, ClipboardIsLeftRight, Done
<1> QED
  BY <1>1, Invariance, PTL

=============================================================================
