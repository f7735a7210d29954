---------------------------- MODULE HotkeyProofs ----------------------------
(***************************************************************************)
(* Theorems about Hotkey, for any keys, any hotkey and modifiers among     *)
(* them, any capacity of the channel and any number of strokes, captures   *)
(* and changes of devices.                                                 *)
(***************************************************************************)
EXTENDS Hotkey, SequenceTheorems, TLAPS

-----------------------------------------------------------------------------
(* Sequences of key events.                                                *)

(* A release of the key is among the events.                               *)
Lifted(s, key) == \E j \in DOMAIN s : s[j].key = key /\ ~s[j].down

(* Every press of the key is followed by a release.                        *)
Settled(s, key) ==
  \A i \in DOMAIN s : s[i].key = key /\ s[i].down =>
    \E j \in DOMAIN s : j > i /\ s[j].key = key /\ ~s[j].down

NoneCaptured(s) == \A i \in DOMAIN s : ~s[i].captured

LEMMA OfNoEvent ==
  /\ <<>> \in Seq(KeyEvents) /\ <<>> \in Seq(HotkeyEvents)
  /\ NoneCaptured(<<>>)
  /\ \A key : Settled(<<>>, key) /\ ~Lifted(<<>>, key)
BY DEF NoneCaptured, Settled, Lifted

LEMMA OfAppend ==
  ASSUME NEW S, NEW s \in Seq(S), NEW e \in S
  PROVE  /\ Append(s, e) \in Seq(S)
         /\ DOMAIN s = 1 .. Len(s) /\ DOMAIN Append(s, e) = 1 .. Len(s) + 1
         /\ Len(s) \in Nat /\ Len(Append(s, e)) = Len(s) + 1
         /\ Append(s, e)[Len(s) + 1] = e
         /\ \A i \in 1 .. Len(s) : Append(s, e)[i] = s[i]
BY AppendProperties, LenProperties

LEMMA OfTail ==
  ASSUME NEW S, NEW s \in Seq(S), s # <<>>
  PROVE  /\ Head(s) \in S /\ Head(s) = s[1] /\ Tail(s) \in Seq(S)
         /\ Len(s) \in Nat /\ DOMAIN s = 1 .. Len(s) /\ 1 \in DOMAIN s
         /\ DOMAIN Tail(s) = 1 .. Len(s) - 1
         /\ \A i \in DOMAIN Tail(s) : Tail(s)[i] = s[i + 1] /\ i + 1 \in DOMAIN s
         /\ \A i \in DOMAIN s : i # 1 => i - 1 \in DOMAIN Tail(s) /\ Tail(s)[i - 1] = s[i]
<1>1. /\ Head(s) \in S /\ Tail(s) \in Seq(S) /\ Len(Tail(s)) = Len(s) - 1
      /\ \A i \in 1 .. Len(Tail(s)) : Tail(s)[i] = s[i + 1]
  BY HeadTailProperties
<1>2. /\ Len(s) \in Nat \ {0} /\ DOMAIN s = 1 .. Len(s)
      /\ DOMAIN Tail(s) = 1 .. Len(Tail(s))
  BY <1>1, LenProperties, EmptySeq
<1>3. ASSUME NEW i \in DOMAIN s, i # 1
      PROVE  i - 1 \in 1 .. Len(Tail(s)) /\ (i - 1) + 1 = i
  BY <1>1, <1>2, <1>3
<1> QED
  BY <1>1, <1>2, <1>3

LEMMA AppendRelease ==
  ASSUME NEW s \in Seq(KeyEvents), NEW e \in KeyEvents, ~e.down
  PROVE  Lifted(Append(s, e), e.key) /\ Settled(Append(s, e), e.key)
BY OfAppend DEF Lifted, Settled

LEMMA AppendOther ==
  ASSUME NEW s \in Seq(KeyEvents), NEW e \in KeyEvents, NEW key, key # e.key
  PROVE  /\ Lifted(s, key) => Lifted(Append(s, e), key)
         /\ Settled(s, key) => Settled(Append(s, e), key)
<1>1. \A i \in 1 .. Len(s) : i \in 1 .. Len(s) + 1
  BY OfAppend
<1>2. \A i \in 1 .. Len(s) + 1 : i \in 1 .. Len(s) \/ i = Len(s) + 1
  BY OfAppend
<1> QED
  BY <1>1, <1>2, OfAppend DEF Lifted, Settled

LEMMA TailOfEvents ==
  ASSUME NEW s \in Seq(KeyEvents), s # <<>>, NEW key
  PROVE  /\ NoneCaptured(s) => NoneCaptured(Tail(s)) /\ ~Head(s).captured
         /\ Settled(s, key) => Settled(Tail(s), key)
         /\ Lifted(s, key) /\ ~(Head(s).key = key /\ ~Head(s).down) => Lifted(Tail(s), key)
         /\ Settled(s, key) /\ Head(s).key = key /\ Head(s).down => Lifted(Tail(s), key)
<1>1. NoneCaptured(s) => NoneCaptured(Tail(s)) /\ ~Head(s).captured
  BY OfTail DEF NoneCaptured
<1>2. ASSUME Settled(s, key) PROVE Settled(Tail(s), key)
  <2> SUFFICES ASSUME NEW i \in DOMAIN Tail(s), Tail(s)[i].key = key, Tail(s)[i].down
               PROVE  \E j \in DOMAIN Tail(s) :
                        j > i /\ Tail(s)[j].key = key /\ ~Tail(s)[j].down
    BY DEF Settled
  <2>1. i + 1 \in DOMAIN s /\ s[i + 1].key = key /\ s[i + 1].down
    BY OfTail
  <2>2. PICK j \in DOMAIN s : j > i + 1 /\ s[j].key = key /\ ~s[j].down
    BY <1>2, <2>1 DEF Settled
  <2>3. j # 1 /\ j - 1 > i
    BY <2>2, OfTail
  <2>4. j - 1 \in DOMAIN Tail(s) /\ Tail(s)[j - 1] = s[j]
    BY <2>3, OfTail
  <2> QED
    BY <2>2, <2>3, <2>4
<1>3. ASSUME Lifted(s, key), ~(Head(s).key = key /\ ~Head(s).down)
      PROVE  Lifted(Tail(s), key)
  <2>1. PICK j \in DOMAIN s : s[j].key = key /\ ~s[j].down
    BY <1>3 DEF Lifted
  <2>2. j # 1
    BY <1>3, <2>1, OfTail
  <2>3. j - 1 \in DOMAIN Tail(s) /\ Tail(s)[j - 1] = s[j]
    BY <2>2, OfTail
  <2> QED
    BY <2>1, <2>3 DEF Lifted
<1>4. ASSUME Settled(s, key), Head(s).key = key, Head(s).down
      PROVE  Lifted(Tail(s), key)
  <2>1. PICK j \in DOMAIN s : j > 1 /\ s[j].key = key /\ ~s[j].down
    BY <1>4, OfTail DEF Settled
  <2>2. j - 1 \in DOMAIN Tail(s) /\ Tail(s)[j - 1] = s[j]
    BY <2>1, OfTail
  <2> QED
    BY <2>1, <2>2 DEF Lifted
<1> QED
  BY <1>1, <1>2, <1>3, <1>4

LEMMA OfUnmarked ==
  ASSUME NEW s \in Seq(KeyEvents)
  PROVE  /\ Unmarked(s) \in Seq(KeyEvents) /\ NoneCaptured(Unmarked(s))
         /\ \A key : /\ Lifted(s, key) <=> Lifted(Unmarked(s), key)
                     /\ Settled(s, key) <=> Settled(Unmarked(s), key)
<1>1. Len(s) \in Nat /\ DOMAIN s = 1 .. Len(s) /\ \A i \in DOMAIN s : s[i] \in KeyEvents
  BY LenProperties, ElementOfSeq
<1>2. /\ DOMAIN Unmarked(s) = DOMAIN s
      /\ \A i \in DOMAIN s :
           /\ Unmarked(s)[i] \in KeyEvents /\ ~Unmarked(s)[i].captured
           /\ Unmarked(s)[i].key = s[i].key /\ Unmarked(s)[i].down = s[i].down
  BY <1>1 DEF Unmarked, KeyEvents
<1>3. Unmarked(s) \in Seq(KeyEvents)
  BY <1>1, <1>2 DEF Unmarked
<1> QED
  BY <1>2, <1>3 DEF NoneCaptured, Lifted, Settled

-----------------------------------------------------------------------------
(* The inductive invariant.  What is believed of a key that is up will be  *)
(* put right by a release that is on its way; a change of devices loses    *)
(* such releases, and makes the listener forget what it believes.          *)

Believed ==
  active_modifiers \cup held_profile_modifiers
    \cup (IF model_modifier_held THEN {ModelModifier} ELSE {})

ProfileGoesWithItsKeys == held_profile_modifiers = {} => last_pressed_profile = None

QueueEndsUp == \A key \in Keys \ held : Settled(queue, key)

WillBePutRight(key) ==
  \/ Lifted(queue, key)
  \/ Settled(batch, key) /\ (key \in Believed => Lifted(batch, key))

BeliefsEndUp == changes \/ \A key \in Keys \ held : WillBePutRight(key)

(* A captured event is never past the look at the lock, if no capture was  *)
(* overtaken.                                                              *)
CapturedStaysOut ==
  ~overtaken =>
    /\ capture = "off" => NoneCaptured(queue) /\ NoneCaptured(batch)
    /\ ~polled => NoneCaptured(batch)
    /\ NoneCaptured(channel)

Inv ==
  /\ TypeOK
  /\ ProfileGoesWithItsKeys
  /\ QueueEndsUp
  /\ BeliefsEndUp
  /\ CapturedStaysOut

LEMMA InvInit == Init => Inv
<1> SUFFICES ASSUME Init PROVE Inv
  OBVIOUS
<1>1. TypeOK
  <2>1. Len(<<>>) = 0 /\ 0 <= Capacity
    BY HotkeyAssumption
  <2>2. /\ queue = <<>> /\ batch = <<>> /\ channel = <<>>
        /\ held = {} /\ active_modifiers = {} /\ held_profile_modifiers = {}
        /\ strokes = 0 /\ disturbances = 0 /\ capture = "off"
        /\ last_pressed_profile = None /\ captured_key = None
        /\ modifier_keys \in ModifierSets
    BY DEF Init
  <2>3. /\ attached = TRUE /\ opened = TRUE /\ changes = FALSE /\ polled = FALSE
        /\ model_modifier_held = FALSE /\ is_pressed = FALSE /\ recording = FALSE
        /\ overtaken = FALSE
    BY DEF Init
  <2> QED
    BY <2>1, <2>2, <2>3, OfNoEvent DEF TypeOK
<1>2. ProfileGoesWithItsKeys
  BY DEF Init, ProfileGoesWithItsKeys
<1>3. QueueEndsUp /\ BeliefsEndUp
  BY OfNoEvent DEF Init, QueueEndsUp, BeliefsEndUp, WillBePutRight, Believed
<1>4. CapturedStaysOut
  BY OfNoEvent DEF Init, CapturedStaysOut
<1> QED
  BY <1>1, <1>2, <1>3, <1>4 DEF Inv

(* The keyboard.                                                           *)

LEMMA PressKeeps ==
  ASSUME Inv, NEW key \in Keys, PressKey(key)
  PROVE  Inv'
<1> DEFINE taken == capture = "listening" /\ captured_key = None
           e == KeyEvent(key, TRUE, taken)
<1>1. e \in KeyEvents /\ e.key = key
  BY DEF KeyEvent, KeyEvents
<1>2. /\ queue \in Seq(KeyEvents) /\ queue' = Append(queue, e) /\ held' = held \cup {key}
      /\ captured_key' = IF taken THEN key ELSE captured_key
      /\ strokes' = strokes + 1
      /\ UNCHANGED <<modifier_keys, attached, disturbances, listening, keyState,
                     capture, overtaken, daemon>>
  BY DEF Inv, TypeOK, PressKey
<1>3. e.captured => capture # "off"
  BY DEF KeyEvent
<1> HIDE DEF e
<1>4. TypeOK'
  BY <1>1, <1>2, OfAppend DEF Inv, TypeOK, listening, keyState, daemon
<1>5. QueueEndsUp' /\ BeliefsEndUp'
  <2>1. ASSUME NEW other \in Keys \ held'
        PROVE  /\ other # e.key /\ other \in Keys \ held
               /\ Lifted(queue, other) => Lifted(queue', other)
               /\ Settled(queue, other) => Settled(queue', other)
    BY <1>1, <1>2, AppendOther
  <2> QED
    BY <1>2, <2>1
    DEF Inv, QueueEndsUp, BeliefsEndUp, WillBePutRight, Believed, listening, keyState
<1>6. CapturedStaysOut'
  <2>1. ~overtaken /\ capture = "off" => NoneCaptured(queue')
    BY <1>1, <1>2, <1>3, OfAppend DEF Inv, CapturedStaysOut, NoneCaptured
  <2> QED
    BY <1>2, <2>1 DEF Inv, CapturedStaysOut, listening, daemon
<1>7. ProfileGoesWithItsKeys'
  BY <1>2 DEF Inv, ProfileGoesWithItsKeys, keyState
<1> QED
  BY <1>4, <1>5, <1>6, <1>7 DEF Inv

LEMMA ReleaseKeeps ==
  ASSUME Inv, NEW key \in Keys, ReleaseKey(key)
  PROVE  Inv'
<1> DEFINE taken == capture = "listening" /\ captured_key = key
           e == KeyEvent(key, FALSE, taken)
<1>1. e \in KeyEvents /\ e.key = key /\ ~e.down
  BY DEF KeyEvent, KeyEvents
<1>2. /\ queue \in Seq(KeyEvents) /\ queue' = Append(queue, e) /\ held' = held \ {key}
      /\ capture' = IF taken THEN "draining" ELSE capture
      /\ UNCHANGED <<modifier_keys, attached, strokes, disturbances, listening,
                     keyState, captured_key, overtaken, daemon>>
  BY DEF Inv, TypeOK, ReleaseKey
<1>3. e.captured => capture' # "off"
  BY <1>2 DEF KeyEvent
<1>4. capture' = "off" => capture = "off"
  BY <1>2
<1>5. TypeOK'
  BY <1>1, <1>2, OfAppend DEF Inv, TypeOK, listening, keyState, daemon
<1> HIDE DEF e
<1>6. QueueEndsUp' /\ BeliefsEndUp'
  <2>1. ASSUME NEW other \in Keys \ held', other # key
        PROVE  /\ other \in Keys \ held
               /\ Lifted(queue, other) => Lifted(queue', other)
               /\ Settled(queue, other) => Settled(queue', other)
    BY <1>1, <1>2, <2>1, AppendOther
  <2>2. Lifted(queue', key) /\ Settled(queue', key)
    BY <1>1, <1>2, AppendRelease
  <2> QED
    BY <1>2, <2>1, <2>2
    DEF Inv, QueueEndsUp, BeliefsEndUp, WillBePutRight, Believed, listening, keyState
<1>7. CapturedStaysOut'
  <2>1. ~overtaken /\ capture' = "off" => NoneCaptured(queue')
    BY <1>1, <1>2, <1>3, <1>4, OfAppend DEF Inv, CapturedStaysOut, NoneCaptured
  <2> QED
    BY <1>2, <1>4, <2>1 DEF Inv, CapturedStaysOut, listening, daemon
<1>8. ProfileGoesWithItsKeys'
  BY <1>2 DEF Inv, ProfileGoesWithItsKeys, keyState
<1> QED
  BY <1>5, <1>6, <1>7, <1>8 DEF Inv

LEMMA DevicesKeep ==
  ASSUME Inv, Unplug \/ Plug \/ OtherDevice
  PROVE  Inv'
<1>1. CASE Unplug
  <2>1. queue' = <<>> /\ changes' = TRUE /\ disturbances' \in Nat
    BY <1>1 DEF Unplug, Inv, TypeOK
  <2>2. QueueEndsUp' /\ BeliefsEndUp'
    BY <2>1, OfNoEvent DEF QueueEndsUp, BeliefsEndUp
  <2>3. CapturedStaysOut'
    BY <1>1, <2>1, OfNoEvent DEF Unplug, Inv, CapturedStaysOut, captureVars, daemon
  <2>4. TypeOK'
    BY <1>1, <2>1, OfNoEvent DEF Unplug, Inv, TypeOK, keyState, captureVars, daemon
  <2> QED
    BY <1>1, <2>2, <2>3, <2>4 DEF Unplug, Inv, ProfileGoesWithItsKeys, keyState
<1>2. CASE Plug \/ OtherDevice
  <2>1. /\ changes' = TRUE /\ disturbances' \in Nat /\ attached' \in BOOLEAN
        /\ UNCHANGED <<modifier_keys, held, queue, strokes, opened, polled, batch,
                       keyState, captureVars, daemon>>
    <3>1. disturbances \in Nat /\ attached \in BOOLEAN
      BY DEF Inv, TypeOK
    <3>2. CASE Plug
      BY <3>1, <3>2 DEF Plug
    <3>3. CASE OtherDevice
      BY <3>1, <3>3 DEF OtherDevice, keyboard
    <3> QED
      BY <1>2, <3>2, <3>3
  <2>2. TypeOK'
    BY <2>1 DEF Inv, TypeOK, keyState, captureVars, daemon
  <2> QED
    BY <2>1, <2>2
    DEF Inv, ProfileGoesWithItsKeys, QueueEndsUp, BeliefsEndUp, CapturedStaysOut,
        keyState, captureVars, daemon
<1> QED
  BY <1>1, <1>2

(* The capture process.                                                    *)

LEMMA DrainedMeans ==
  ASSUME queue \in Seq(KeyEvents), batch \in Seq(KeyEvents), Drained
  PROVE  NoneCaptured(queue) /\ NoneCaptured(batch)
<1>1. /\ Len(queue) \in Nat /\ Len(batch) \in Nat
      /\ DOMAIN queue = 1 .. Len(queue) /\ DOMAIN batch = 1 .. Len(batch)
      /\ DOMAIN (queue \o batch) = 1 .. Len(queue) + Len(batch)
      /\ \A i \in 1 .. Len(queue) + Len(batch) :
           (queue \o batch)[i] = IF i <= Len(queue) THEN queue[i]
                                 ELSE batch[i - Len(queue)]
  BY LenProperties, ConcatProperties
<1>2. ASSUME NEW i \in DOMAIN queue PROVE ~queue[i].captured
  BY <1>1 DEF Drained
<1>3. ASSUME NEW i \in DOMAIN batch PROVE ~batch[i].captured
  <2>1. /\ i + Len(queue) \in DOMAIN (queue \o batch)
        /\ (queue \o batch)[i + Len(queue)] = batch[i]
    BY <1>1
  <2> QED
    BY <2>1 DEF Drained
<1> QED
  BY <1>2, <1>3 DEF NoneCaptured

LEMMA CaptureKeeps ==
  ASSUME Inv, StartCapture \/ EndCapture \/ CaptureGivesUp
  PROVE  Inv'
<1>0. queue \in Seq(KeyEvents) /\ batch \in Seq(KeyEvents)
  BY DEF Inv, TypeOK
<1>1. CASE StartCapture
  BY <1>1
  DEF StartCapture, Inv, TypeOK, ProfileGoesWithItsKeys, QueueEndsUp, BeliefsEndUp,
      WillBePutRight, Believed, CapturedStaysOut, keyboard, listening, keyState, daemon
<1>2. CASE EndCapture
  <2>1. ~overtaken' => NoneCaptured(queue) /\ NoneCaptured(batch)
    BY <1>0, <1>2, DrainedMeans DEF EndCapture
  <2> QED
    BY <1>2, <2>1
    DEF EndCapture, Inv, TypeOK, ProfileGoesWithItsKeys, QueueEndsUp, BeliefsEndUp,
        WillBePutRight, Believed, CapturedStaysOut, keyboard, listening, keyState, daemon
<1>3. CASE CaptureGivesUp
  <2>1. /\ queue' = Unmarked(queue) /\ batch' = Unmarked(batch) /\ capture' = "off"
        /\ UNCHANGED <<modifier_keys, held, attached, strokes, disturbances, opened,
                       changes, polled, keyState, captured_key, overtaken, daemon>>
    BY <1>3 DEF CaptureGivesUp
  <2>2. TypeOK'
    BY <1>0, <2>1, OfUnmarked DEF Inv, TypeOK, keyState, daemon
  <2>3. CapturedStaysOut'
    BY <1>0, <2>1, OfUnmarked DEF Inv, CapturedStaysOut, daemon
  <2>4. QueueEndsUp'
    BY <1>0, <2>1, OfUnmarked DEF Inv, QueueEndsUp
  <2>5. ASSUME NEW key, WillBePutRight(key)
        PROVE  WillBePutRight(key)'
    BY <1>0, <2>1, <2>5, OfUnmarked DEF WillBePutRight, Believed, keyState
  <2>6. BeliefsEndUp'
    BY <2>1, <2>5 DEF Inv, BeliefsEndUp
  <2> QED
    BY <2>1, <2>2, <2>3, <2>4, <2>6 DEF Inv, ProfileGoesWithItsKeys, keyState
<1> QED
  BY <1>1, <1>2, <1>3

(* The listener.                                                           *)

LEMMA Cleared ==
  ASSUME Clear
  PROVE  /\ Believed' = {} /\ ProfileGoesWithItsKeys'
         /\ active_modifiers' = {} /\ held_profile_modifiers' = {}
         /\ model_modifier_held' = FALSE /\ last_pressed_profile' = None
         /\ is_pressed' = FALSE
BY DEF Clear, Believed, ProfileGoesWithItsKeys

LEMMA TurnKeeps ==
  ASSUME Inv, DevicesChange \/ LookForDevices \/ Poll \/ LookAtLock \/ Idle
  PROVE  Inv'
<1>1. CASE DevicesChange \/ Idle
  <2>1. /\ Clear /\ batch = <<>> /\ changes' \in BOOLEAN /\ opened' \in BOOLEAN
        /\ UNCHANGED <<modifier_keys, keyboard, disturbances, polled, batch,
                       captureVars, daemon>>
    BY <1>1 DEF DevicesChange, OnDeviceChange, Idle, TurnStarts, listening, Inv, TypeOK
  <2>2. TypeOK'
    BY <2>1, Cleared DEF Inv, TypeOK, keyboard, captureVars, daemon
  <2>3. QueueEndsUp' /\ BeliefsEndUp'
    BY <2>1, Cleared, OfNoEvent
    DEF Inv, QueueEndsUp, BeliefsEndUp, WillBePutRight, keyboard
  <2> QED
    BY <2>1, <2>2, <2>3, Cleared
    DEF Inv, CapturedStaysOut, keyboard, captureVars, daemon
<1>2. CASE LookForDevices
  BY <1>2
  DEF LookForDevices, Inv, TypeOK, ProfileGoesWithItsKeys, QueueEndsUp, BeliefsEndUp,
      WillBePutRight, Believed, CapturedStaysOut, keyboard, keyState, captureVars, daemon
<1>3. CASE Poll
  <2>1. /\ batch = <<>> /\ batch' = queue /\ queue' = <<>> /\ polled' = TRUE
        /\ opened' = attached
        /\ UNCHANGED <<modifier_keys, held, attached, strokes, disturbances, changes,
                       keyState, captureVars, daemon>>
    BY <1>3 DEF Poll, TurnStarts
  <2>2. TypeOK'
    BY <2>1, OfNoEvent DEF Inv, TypeOK, keyState, captureVars, daemon
  <2>3. QueueEndsUp' /\ BeliefsEndUp'
    BY <2>1, OfNoEvent
    DEF Inv, QueueEndsUp, BeliefsEndUp, WillBePutRight, Believed, keyState
  <2>4. CapturedStaysOut'
    BY <2>1, OfNoEvent DEF Inv, CapturedStaysOut, captureVars, daemon
  <2> QED
    BY <2>1, <2>2, <2>3, <2>4 DEF Inv, ProfileGoesWithItsKeys, keyState
<1>4. CASE LookAtLock
  <2>1. /\ polled' = FALSE
        /\ UNCHANGED <<modifier_keys, keyboard, disturbances, opened, changes,
                       captureVars, daemon>>
    BY <1>4 DEF LookAtLock
  <2>2. CASE capture = "off"
    <3>1. UNCHANGED <<batch, keyState>>
      BY <1>4, <2>2 DEF LookAtLock
    <3> QED
      BY <2>1, <2>2, <3>1
      DEF Inv, TypeOK, ProfileGoesWithItsKeys, QueueEndsUp, BeliefsEndUp,
          WillBePutRight, Believed, CapturedStaysOut, keyboard, keyState, captureVars, daemon
  <2>3. CASE capture # "off"
    <3>1. batch' = <<>> /\ Clear
      BY <1>4, <2>3 DEF LookAtLock
    <3>2. TypeOK'
      BY <2>1, <3>1, Cleared, OfNoEvent DEF Inv, TypeOK, keyboard, captureVars, daemon
    <3>3. QueueEndsUp' /\ BeliefsEndUp'
      BY <2>1, <3>1, Cleared, OfNoEvent
      DEF Inv, QueueEndsUp, BeliefsEndUp, WillBePutRight, keyboard
    <3>4. CapturedStaysOut'
      BY <2>1, <3>1, OfNoEvent DEF Inv, CapturedStaysOut, keyboard, captureVars, daemon
    <3> QED
      BY <3>1, <3>2, <3>3, <3>4, Cleared DEF Inv
  <2> QED
    BY <2>2, <2>3
<1> QED
  BY <1>1, <1>2, <1>3, <1>4

LEMMA TrackKeeps ==
  ASSUME TypeOK, ProfileGoesWithItsKeys, NEW key \in Keys, NEW down \in BOOLEAN,
         Track(key, down), UNCHANGED modifier_keys
  PROVE  /\ active_modifiers' \subseteq modifier_keys
         /\ model_modifier_held' \in BOOLEAN
         /\ held_profile_modifiers' \subseteq ProfileKeys
         /\ last_pressed_profile' \in ProfileKeys \cup {None}
         /\ ProfileGoesWithItsKeys'
         /\ \A other \in Believed' : other = key \/ other \in Believed
         /\ ~down => key \notin Believed'
<1>1. /\ active_modifiers \subseteq modifier_keys
      /\ model_modifier_held \in BOOLEAN
      /\ held_profile_modifiers \subseteq ProfileKeys
      /\ last_pressed_profile \in ProfileKeys \cup {None}
  BY DEF TypeOK
<1>2. /\ active_modifiers' \subseteq modifier_keys
      /\ \A other \in active_modifiers' : other = key \/ other \in active_modifiers
      /\ ~down => key \notin active_modifiers'
  BY <1>1 DEF Track, Toggled
<1>3. /\ held_profile_modifiers' \subseteq ProfileKeys
      /\ \A other \in held_profile_modifiers' : other = key \/ other \in held_profile_modifiers
      /\ ~down => key \notin held_profile_modifiers'
  BY <1>1 DEF Track, Toggled
<1>4. /\ model_modifier_held' \in BOOLEAN
      /\ model_modifier_held' => (key = ModelModifier /\ down)
                                 \/ (key # ModelModifier /\ model_modifier_held)
  BY <1>1 DEF Track
<1>5. last_pressed_profile' \in ProfileKeys \cup {None}
  BY <1>1 DEF Track
<1>6. ProfileGoesWithItsKeys'
  <2>1. CASE key \notin ProfileKeys
    BY <2>1 DEF Track, ProfileGoesWithItsKeys
  <2>2. CASE key \in ProfileKeys /\ down
    BY <2>2 DEF Track, Toggled, ProfileGoesWithItsKeys
  <2>3. CASE key \in ProfileKeys /\ ~down
    BY <2>3 DEF Track, ProfileGoesWithItsKeys
  <2> QED
    BY <2>1, <2>2, <2>3
<1>7. /\ \A other \in Believed' : other = key \/ other \in Believed
      /\ ~down => key \notin Believed'
  BY <1>2, <1>3, <1>4 DEF Believed
<1> QED
  BY <1>2, <1>3, <1>4, <1>5, <1>6, <1>7

LEMMA SendKeeps ==
  ASSUME TypeOK, NEW kind \in {"Pressed", "Released", "Cancel"},
         NEW e \in KeyEvents, BlockingSend(HotkeyEvent(kind, e)),
         model_modifier_held' \in BOOLEAN, last_pressed_profile' \in ProfileKeys \cup {None}
  PROVE  /\ channel' \in Seq(HotkeyEvents) /\ Len(channel') <= Capacity
         /\ NoneCaptured(channel) /\ ~e.captured => NoneCaptured(channel')
<1> DEFINE event == HotkeyEvent(kind, e)
<1>1. event \in HotkeyEvents /\ event.captured = e.captured
  BY DEF HotkeyEvent, HotkeyEvents, KeyEvents
<1>2. channel \in Seq(HotkeyEvents) /\ Len(channel) < Capacity /\ channel' = Append(channel, event)
  BY DEF TypeOK, BlockingSend
<1> HIDE DEF event
<1>3. Len(channel') <= Capacity
  BY <1>1, <1>2, OfAppend, HotkeyAssumption
<1>4. NoneCaptured(channel) /\ ~e.captured => NoneCaptured(channel')
  BY <1>1, <1>2, OfAppend DEF NoneCaptured
<1> QED
  BY <1>1, <1>2, <1>3, <1>4, OfAppend

LEMMA HandleKeeps ==
  ASSUME Inv, Handle
  PROVE  Inv'
<1> DEFINE e == Head(batch)
<1>1. /\ ~polled /\ batch \in Seq(KeyEvents) /\ batch # <<>>
      /\ batch' = Tail(batch) /\ Track(e.key, e.down)
      /\ UNCHANGED <<modifier_keys, keyboard, disturbances, opened, changes, polled,
                     captureVars, recording>>
  BY DEF Handle, Inv, TypeOK
<1>2. e \in KeyEvents /\ Tail(batch) \in Seq(KeyEvents)
  BY <1>1, OfTail
<1>3. e.key \in Keys /\ e.down \in BOOLEAN
  BY <1>2 DEF KeyEvents
<1>4. ~overtaken => NoneCaptured(Tail(batch)) /\ ~e.captured
  BY <1>1, TailOfEvents DEF Inv, CapturedStaysOut
<1>5. /\ active_modifiers' \subseteq modifier_keys
      /\ model_modifier_held' \in BOOLEAN
      /\ held_profile_modifiers' \subseteq ProfileKeys
      /\ last_pressed_profile' \in ProfileKeys \cup {None}
      /\ ProfileGoesWithItsKeys'
      /\ \A other \in Believed' : other = e.key \/ other \in Believed
      /\ ~e.down => e.key \notin Believed'
  BY <1>1, <1>3, TrackKeeps DEF Inv
<1>6. \/ \E kind \in {"Pressed", "Released", "Cancel"} : BlockingSend(HotkeyEvent(kind, e))
      \/ UNCHANGED channel
  BY DEF Handle
<1>7. /\ channel' \in Seq(HotkeyEvents) /\ Len(channel') <= Capacity
      /\ ~overtaken => NoneCaptured(channel')
  <2>1. TypeOK /\ (~overtaken => NoneCaptured(channel))
    BY DEF Inv, CapturedStaysOut
  <2>2. CASE UNCHANGED channel
    BY <2>1, <2>2 DEF TypeOK
  <2>3. CASE \E kind \in {"Pressed", "Released", "Cancel"} :
               BlockingSend(HotkeyEvent(kind, e))
    BY <1>2, <1>4, <1>5, <2>1, <2>3, SendKeeps
  <2> QED
    BY <1>6, <2>2, <2>3
<1>8. is_pressed' \in BOOLEAN
  BY DEF Handle, Inv, TypeOK
<1>9. TypeOK'
  BY <1>1, <1>2, <1>5, <1>7, <1>8 DEF Inv, TypeOK, keyboard, captureVars
<1>10. QueueEndsUp'
  BY <1>1 DEF Inv, QueueEndsUp, keyboard
<1>11. BeliefsEndUp'
  <2> SUFFICES ASSUME ~changes, NEW key \in Keys \ held, ~Lifted(queue, key)
               PROVE  /\ Settled(Tail(batch), key)
                      /\ key \in Believed' => Lifted(Tail(batch), key)
    BY <1>1 DEF BeliefsEndUp, WillBePutRight, keyboard
  <2>1. Settled(batch, key) /\ (key \in Believed => Lifted(batch, key))
    BY DEF Inv, BeliefsEndUp, WillBePutRight
  <2>2. Settled(Tail(batch), key)
    BY <1>1, <2>1, TailOfEvents
  <2>3. ASSUME key \in Believed' PROVE Lifted(Tail(batch), key)
    <3>1. CASE e.key = key
      BY <1>1, <1>3, <1>5, <2>1, <2>3, <3>1, TailOfEvents
    <3>2. CASE e.key # key
      BY <1>1, <1>5, <2>1, <2>3, <3>2, TailOfEvents
    <3> QED
      BY <3>1, <3>2
  <2> QED
    BY <2>2, <2>3
<1>12. CapturedStaysOut'
  BY <1>1, <1>4, <1>7 DEF Inv, CapturedStaysOut, keyboard, captureVars
<1> QED
  BY <1>5, <1>9, <1>10, <1>11, <1>12 DEF Inv

(* The daemon.                                                             *)

LEMMA ReceiveKeeps ==
  ASSUME Inv, Receive
  PROVE  Inv' /\ (recording' /\ ~recording /\ ~overtaken => ~Head(channel).captured)
<1>1. /\ channel \in Seq(HotkeyEvents) /\ channel # <<>> /\ channel' = Tail(channel)
      /\ Len(channel) <= Capacity /\ recording' \in BOOLEAN
      /\ UNCHANGED <<modifier_keys, keyboard, disturbances, listening, keyState,
                     captureVars>>
  BY DEF Receive, Inv, TypeOK
<1>2. /\ channel' \in Seq(HotkeyEvents) /\ Len(channel') <= Capacity
  <2>1. Len(channel') = Len(channel) - 1 /\ Len(channel) \in Nat /\ Capacity \in Nat
    BY <1>1, HeadTailProperties, LenProperties, HotkeyAssumption
  <2> QED
    BY <1>1, <2>1, OfTail
<1>3. ~overtaken => NoneCaptured(channel') /\ ~Head(channel).captured
  BY <1>1, OfTail DEF Inv, CapturedStaysOut, NoneCaptured
<1>4. TypeOK'
  BY <1>1, <1>2 DEF Inv, TypeOK, keyboard, listening, keyState, captureVars
<1> QED
  BY <1>1, <1>3, <1>4
  DEF Inv, ProfileGoesWithItsKeys, QueueEndsUp, BeliefsEndUp, WillBePutRight, Believed,
      CapturedStaysOut, keyboard, listening, keyState, captureVars

LEMMA InvNext ==
  ASSUME Inv, [Next]_vars
  PROVE  Inv'
<1>1. CASE UNCHANGED vars
  BY <1>1
  DEF vars, Inv, TypeOK, ProfileGoesWithItsKeys, QueueEndsUp, BeliefsEndUp,
      WillBePutRight, Believed, CapturedStaysOut, keyboard, listening, keyState,
      captureVars, daemon
<1>2. CASE Next
  BY <1>2, PressKeeps, ReleaseKeeps, DevicesKeep, CaptureKeeps, TurnKeeps, HandleKeeps,
     ReceiveKeeps DEF Next
<1> QED
  BY <1>1, <1>2

LEMMA InductiveInvariant == Spec => []Inv
BY InvInit, InvNext, PTL DEF Spec

-----------------------------------------------------------------------------
(* However the keyboard, the settings and the daemon interleave, every     *)
(* part of the listener's state keeps its type, and the channel its bound. *)
THEOREM TypeCorrect == Spec => []TypeOK
BY InductiveInvariant, PTL DEF Inv

(* Whenever it has caught up, the listener takes no key for held that is   *)
(* up, whatever was plugged, captured or blocked before.                   *)
THEOREM NoKeyStays == Spec => []NoPhantomKeys
<1>1. Inv => NoPhantomKeys
  <2> SUFFICES ASSUME Inv, CaughtUp
               PROVE  /\ Believed \subseteq held
                      /\ held_profile_modifiers = {} => last_pressed_profile = None
    BY DEF NoPhantomKeys, Believed
  <2>1. ASSUME NEW key \in Keys \ held PROVE key \notin Believed
    BY <2>1, OfNoEvent DEF Inv, CaughtUp, BeliefsEndUp, WillBePutRight
  <2>2. Believed \subseteq Keys
    BY HotkeyAssumption DEF Inv, TypeOK, Believed
  <2> QED
    BY <2>1, <2>2 DEF Inv, ProfileGoesWithItsKeys
<1> QED
  BY <1>1, InductiveInvariant, PTL

(* A key press that the settings captured never starts a recording, not    *)
(* even after the capture has ended, unless a capture ended before the     *)
(* listener had polled what it took: the lock is let go by the clock.      *)
THEOREM CaptureIsPrivate == Spec => CapturedKeysStartNothing
<1>1. ASSUME Inv, [Next]_vars, recording', ~recording, ~overtaken
      PROVE  ~Head(channel).captured
  <2>1. Receive
    BY <1>1
    DEF Next, vars, daemon, PressKey, ReleaseKey, Unplug, Plug, OtherDevice,
        StartCapture, EndCapture, CaptureGivesUp, DevicesChange, LookForDevices, Poll,
        LookAtLock, Idle, Handle
  <2> QED
    BY <1>1, <2>1, ReceiveKeeps
<1>2. Inv /\ [Next]_vars => [recording' /\ ~recording /\ ~overtaken => ~Head(channel).captured]_vars
  BY <1>1
<1> QED
  BY <1>2, InductiveInvariant, PTL DEF Spec, CapturedKeysStartNothing

-----------------------------------------------------------------------------
(* The hotkey without modifiers: what the daemon will record follows what  *)
(* the listener believes of the hotkey, and that what the user does.       *)

HotkeyEndsUp ==
  \/ changes \/ modifier_keys # {} \/ TargetKey \in held
  \/ Lifted(queue, TargetKey)
  \/ Settled(batch, TargetKey) /\ (is_pressed => Lifted(batch, TargetKey))

WillRecord ==
  IF channel = <<>> THEN recording ELSE channel[Len(channel)].kind = "Pressed"

Undisturbed ==
  disturbances = 0 =>
    capture = "off" /\ ~changes /\ attached /\ (WillRecord => is_pressed)

Follows == HotkeyEndsUp /\ Undisturbed

LEMMA FollowsInit == Init => Follows
BY OfNoEvent DEF Init, Follows, HotkeyEndsUp, Undisturbed, WillRecord

LEMMA KeyboardFollows ==
  ASSUME Inv, Follows, NEW key \in Keys, PressKey(key) \/ ReleaseKey(key)
  PROVE  Follows'
<1> DEFINE down == key \notin held
<1>1. PICK captured \in BOOLEAN : queue' = Append(queue, KeyEvent(key, down, captured))
  BY DEF PressKey, ReleaseKey
<1>2. /\ held' = IF down THEN held \cup {key} ELSE held \ {key}
      /\ capture = "off" => capture' = "off"
      /\ UNCHANGED <<modifier_keys, attached, disturbances, changes, batch, is_pressed,
                     channel, recording>>
  BY DEF PressKey, ReleaseKey, listening, keyState, daemon
<1> DEFINE e == KeyEvent(key, down, captured)
<1>3. e \in KeyEvents /\ e.key = key /\ e.down = down /\ queue \in Seq(KeyEvents)
  BY DEF KeyEvent, KeyEvents, Inv, TypeOK
<1> HIDE DEF e, down
<1>4. TargetKey \notin held' =>
        \/ Lifted(queue', TargetKey)
        \/ TargetKey \notin held /\ (Lifted(queue, TargetKey) => Lifted(queue', TargetKey))
  <2>1. CASE key = TargetKey
    BY <1>1, <1>2, <1>3, <2>1, AppendRelease DEF e
  <2>2. CASE key # TargetKey
    BY <1>1, <1>2, <1>3, <2>2, AppendOther DEF e
  <2> QED
    BY <2>1, <2>2
<1>5. HotkeyEndsUp'
  BY <1>2, <1>4 DEF Follows, HotkeyEndsUp
<1>6. Undisturbed'
  BY <1>2 DEF Follows, Undisturbed, WillRecord
<1> QED
  BY <1>5, <1>6 DEF Follows

(* A change of devices or a capture ends what is promised.                 *)
LEMMA DisturbanceFollows ==
  ASSUME Inv, Follows,
         Unplug \/ Plug \/ OtherDevice \/ StartCapture \/ EndCapture \/ CaptureGivesUp
  PROVE  Follows'
<1>1. Undisturbed'
  <2>1. \/ disturbances' = disturbances + 1
        \/ ~attached \/ capture # "off"
    BY DEF Unplug, Plug, OtherDevice, StartCapture, EndCapture, CaptureGivesUp
  <2>2. disturbances \in Nat /\ (disturbances' = disturbances + 1 \/ disturbances' = disturbances)
    BY DEF Inv, TypeOK, Unplug, Plug, OtherDevice, StartCapture, EndCapture, CaptureGivesUp
  <2>3. disturbances' # 0
    BY <2>1, <2>2 DEF Follows, Undisturbed
  <2> QED
    BY <2>3 DEF Undisturbed
<1>2. HotkeyEndsUp'
  <2>1. CASE Unplug \/ Plug \/ OtherDevice
    BY <2>1 DEF Unplug, Plug, OtherDevice, HotkeyEndsUp
  <2>2. CASE StartCapture \/ EndCapture
    BY <2>2
    DEF StartCapture, EndCapture, Follows, HotkeyEndsUp, keyboard, listening, keyState
  <2>3. CASE CaptureGivesUp
    BY <2>3, OfUnmarked
    DEF CaptureGivesUp, Inv, TypeOK, Follows, HotkeyEndsUp, keyState
  <2> QED
    BY <2>1, <2>2, <2>3
<1> QED
  BY <1>1, <1>2 DEF Follows

LEMMA TurnFollows ==
  ASSUME Inv, Follows, DevicesChange \/ LookForDevices \/ Poll \/ LookAtLock \/ Idle
  PROVE  Follows'
<1>1. CASE DevicesChange \/ Idle
  <2>1. /\ Clear /\ batch = <<>> /\ (changes \/ capture # "off")
        /\ UNCHANGED <<modifier_keys, keyboard, disturbances, batch, captureVars, daemon>>
    BY <1>1 DEF DevicesChange, OnDeviceChange, Idle, TurnStarts, listening
  <2>2. HotkeyEndsUp'
    BY <2>1, Cleared, OfNoEvent DEF HotkeyEndsUp
  <2>3. disturbances' # 0
    BY <2>1 DEF Follows, Undisturbed
  <2> QED
    BY <2>2, <2>3 DEF Follows, Undisturbed
<1>2. CASE LookForDevices
  BY <1>2
  DEF LookForDevices, Follows, HotkeyEndsUp, Undisturbed, WillRecord, keyboard, keyState,
      captureVars, daemon
<1>3. CASE Poll
  <2>1. /\ batch = <<>> /\ batch' = queue /\ queue' = <<>>
        /\ UNCHANGED <<modifier_keys, held, attached, disturbances, changes,
                       keyState, captureVars, daemon>>
    BY <1>3 DEF Poll, TurnStarts
  <2>2. TargetKey \in Keys
    BY HotkeyAssumption
  <2>3. TargetKey \notin held => Settled(queue, TargetKey)
    BY <2>2 DEF Inv, QueueEndsUp
  <2>4. HotkeyEndsUp'
    BY <2>1, <2>3, OfNoEvent DEF Follows, HotkeyEndsUp, keyState
  <2> QED
    BY <2>1, <2>4 DEF Follows, Undisturbed, WillRecord, keyState, captureVars, daemon
<1>4. CASE LookAtLock
  <2>1. UNCHANGED <<modifier_keys, keyboard, disturbances, changes, captureVars, daemon>>
    BY <1>4 DEF LookAtLock
  <2>2. CASE capture = "off"
    <3>1. UNCHANGED <<batch, keyState>>
      BY <1>4, <2>2 DEF LookAtLock
    <3> QED
      BY <2>1, <3>1
      DEF Follows, HotkeyEndsUp, Undisturbed, WillRecord, keyboard, keyState,
          captureVars, daemon
  <2>3. CASE capture # "off"
    <3>1. batch' = <<>> /\ Clear
      BY <1>4, <2>3 DEF LookAtLock
    <3>2. HotkeyEndsUp'
      BY <3>1, Cleared, OfNoEvent DEF HotkeyEndsUp
    <3>3. disturbances' # 0
      BY <2>1, <2>3 DEF Follows, Undisturbed
    <3> QED
      BY <3>2, <3>3 DEF Follows, Undisturbed
  <2> QED
    BY <2>2, <2>3
<1> QED
  BY <1>1, <1>2, <1>3, <1>4

LEMMA HandleFollows ==
  ASSUME Inv, Follows, Handle
  PROVE  Follows'
<1> DEFINE e == Head(batch)
<1>1. /\ batch \in Seq(KeyEvents) /\ batch # <<>> /\ batch' = Tail(batch)
      /\ UNCHANGED <<modifier_keys, keyboard, disturbances, changes, captureVars, recording>>
  BY DEF Handle, Inv, TypeOK
<1>2. e \in KeyEvents
  BY <1>1, OfTail
<1>3. e.key \in Keys /\ e.down \in BOOLEAN
  BY <1>2 DEF KeyEvents
<1>4. \/ UNCHANGED <<is_pressed, channel>>
      \/ BlockingSend(HotkeyEvent("Cancel", e)) /\ UNCHANGED is_pressed
      \/ BlockingSend(HotkeyEvent("Pressed", e)) /\ is_pressed' /\ Presses(e)
      \/ BlockingSend(HotkeyEvent("Released", e)) /\ ~is_pressed'
  BY DEF Handle
<1>5. HotkeyEndsUp'
  <2> SUFFICES ASSUME ~changes, modifier_keys = {}, TargetKey \notin held,
                      ~Lifted(queue, TargetKey)
               PROVE  /\ Settled(Tail(batch), TargetKey)
                      /\ is_pressed' => Lifted(Tail(batch), TargetKey)
    BY <1>1 DEF HotkeyEndsUp, keyboard
  <2>1. Settled(batch, TargetKey) /\ (is_pressed => Lifted(batch, TargetKey))
    BY DEF Follows, HotkeyEndsUp
  <2>2. Settled(Tail(batch), TargetKey)
    BY <1>1, <2>1, TailOfEvents
  <2>3. ASSUME is_pressed' PROVE Lifted(Tail(batch), TargetKey)
    <3>1. CASE e.key = TargetKey /\ e.down
      BY <1>1, <2>1, <3>1, TailOfEvents
    <3>2. CASE e.key = TargetKey /\ ~e.down
      <4>1. is_pressed => Releases(e)
        BY <1>1, <3>2 DEF Releases, Cancels
      <4>2. ~Cancels(e) /\ ~Presses(e)
        BY <3>2 DEF Presses, Cancels
      <4>3. ~is_pressed'
        BY <4>1, <4>2 DEF Handle
      <4> QED
        BY <2>3, <4>3
    <3>3. CASE e.key # TargetKey
      <4>1. is_pressed' = is_pressed
        BY <3>3 DEF Handle, Presses, Releases
      <4> QED
        BY <1>1, <2>1, <2>3, <3>3, <4>1, TailOfEvents
    <3> QED
      BY <1>3, <3>1, <3>2, <3>3
  <2> QED
    BY <2>2, <2>3
<1>6. WillRecord' => is_pressed' \/ (WillRecord /\ UNCHANGED is_pressed)
  <2>1. CASE UNCHANGED <<is_pressed, channel>>
    BY <1>1, <2>1 DEF WillRecord
  <2>2. ASSUME NEW kind \in {"Pressed", "Released", "Cancel"},
               BlockingSend(HotkeyEvent(kind, e)), WillRecord'
        PROVE  kind = "Pressed"
    <3> DEFINE event == HotkeyEvent(kind, e)
    <3>1. event.kind = kind
      BY DEF HotkeyEvent
    <3>2. channel' = Append(channel, event)
      BY <2>2 DEF BlockingSend
    <3> HIDE DEF event
    <3>3. channel \in Seq(HotkeyEvents \cup {event})
      BY DEF Inv, TypeOK
    <3>4. channel' # <<>> /\ channel'[Len(channel')] = event
      BY <3>2, <3>3, OfAppend, AppendProperties
    <3> QED
      BY <2>2, <3>1, <3>4 DEF WillRecord
  <2> QED
    BY <1>4, <2>1, <2>2
<1>7. Undisturbed'
  BY <1>1, <1>6 DEF Follows, Undisturbed, keyboard, captureVars
<1> QED
  BY <1>5, <1>7 DEF Follows

LEMMA ReceiveFollows ==
  ASSUME Inv, Follows, Receive
  PROVE  Follows'
<1>1. /\ channel \in Seq(HotkeyEvents) /\ channel # <<>> /\ channel' = Tail(channel)
      /\ recording' => Head(channel).kind = "Pressed"
      /\ UNCHANGED <<modifier_keys, keyboard, disturbances, listening, keyState, captureVars>>
  BY DEF Receive, Inv, TypeOK
<1>2. WillRecord' => WillRecord
  <2>1. /\ Len(channel) \in Nat \ {0} /\ Head(channel) = channel[1]
        /\ Tail(channel) \in Seq(HotkeyEvents) /\ Len(Tail(channel)) = Len(channel) - 1
        /\ \A i \in 1 .. Len(Tail(channel)) : Tail(channel)[i] = channel[i + 1]
    BY <1>1, OfTail, HeadTailProperties, EmptySeq, LenProperties
  <2>2. CASE Tail(channel) = <<>>
    <3>1. Len(channel) = 1
      BY <2>1, <2>2
    <3> QED
      BY <1>1, <2>1, <2>2, <3>1 DEF WillRecord
  <2>3. CASE Tail(channel) # <<>>
    <3> DEFINE n == Len(Tail(channel))
    <3>1. n \in 1 .. n /\ n + 1 = Len(channel)
      BY <2>1, <2>3, EmptySeq
    <3>2. Tail(channel)[n] = channel[Len(channel)]
      BY <2>1, <3>1
    <3> QED
      BY <1>1, <2>3, <3>2 DEF WillRecord
  <2> QED
    BY <2>2, <2>3
<1> QED
  BY <1>1, <1>2
  DEF Follows, HotkeyEndsUp, Undisturbed, keyboard, listening, keyState, captureVars

(* A recording by the bare hotkey lasts no longer than the key is held,    *)
(* for any number of strokes and a channel of any capacity, as long as no  *)
(* device comes or goes and no key is captured.                            *)
THEOREM BareHotkey == Spec => []BareHotkeyIsFollowed
<1>1. Inv /\ Follows /\ [Next]_vars => Follows'
  <2> SUFFICES ASSUME Inv, Follows, [Next]_vars PROVE Follows'
    OBVIOUS
  <2>1. CASE UNCHANGED vars
    BY <2>1
    DEF vars, Follows, HotkeyEndsUp, Undisturbed, WillRecord, keyboard, listening,
        keyState, captureVars, daemon
  <2>2. CASE Next
    BY <2>2, KeyboardFollows, DisturbanceFollows, TurnFollows, HandleFollows, ReceiveFollows
    DEF Next
  <2> QED
    BY <2>1, <2>2
<1>2. Follows => BareHotkeyIsFollowed
  BY OfNoEvent
  DEF Follows, HotkeyEndsUp, Undisturbed, WillRecord, BareHotkeyIsFollowed, Quiet, CaughtUp
<1> QED
  BY <1>1, <1>2, FollowsInit, InductiveInvariant, PTL DEF Spec

=============================================================================
