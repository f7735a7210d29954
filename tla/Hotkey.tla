------------------------------- MODULE Hotkey -------------------------------
(***************************************************************************)
(* The hotkey listener (src/src/hotkey/evdev_listener.rs): from the keys   *)
(* of a keyboard to push-to-talk events for the daemon, beside a process   *)
(* of the settings that captures one key (capture.rs).                     *)
(*                                                                         *)
(* The kernel queues the keyboard's events until the listener polls them;  *)
(* the listener handles them one by one and waits when the channel to the  *)
(* daemon is full.  One keyboard and one other input device come and go.   *)
(* Repeats of a held key change nothing anywhere and are left out.         *)
(***************************************************************************)
EXTENDS Naturals, SequencesExt

CONSTANTS
  Keys,              \* the keys that matter
  TargetKey,         \* config: hotkey.key
  ModifierSets,      \* config: possible sets of required modifiers
  CancelKey,         \* config: cancel_key
  ModelModifier,     \* config: model_modifier
  ProfileKeys,       \* config: the keys of profile_modifiers
  None,              \* no key, no profile
  Capacity,          \* of the channel to the daemon (32)
  MaxStrokes,        \* presses of keys in a behaviour
  MaxDisturbances    \* device changes and captures in a behaviour

ASSUME HotkeyAssumption ==
  /\ {TargetKey, CancelKey, ModelModifier} \cup ProfileKeys \subseteq Keys
  /\ None \notin Keys
  /\ ModifierSets \subseteq SUBSET Keys
  /\ Capacity \in Nat \ {0}
  /\ MaxStrokes \in Nat
  /\ MaxDisturbances \in Nat

VARIABLES
  modifier_keys,           \* config: the required modifiers
  \* the keyboard and its kernel queue
  held,                    \* keys that are down
  attached,                \* is the keyboard there?
  queue,                   \* events not polled
  strokes,                 \* presses so far (not in the code)
  disturbances,            \* device changes and captures so far
  \* the listener
  opened,                  \* does DeviceManager.devices hold the keyboard?
  changes,                 \* inotify events not read
  polled,                  \* is a batch polled and the lock not looked at?
  batch,                   \* events polled and not handled
  active_modifiers,
  model_modifier_held,
  held_profile_modifiers,
  last_pressed_profile,
  is_pressed,
  \* the capture process and the daemon
  capture,                 \* "off", "listening", "draining": holds the lock?
  captured_key,
  overtaken,               \* has a capture ended too early for the listener?
  channel,                 \* events sent and not received
  recording

keyboard == <<held, attached, queue, strokes>>
listening == <<opened, changes, polled, batch>>
keyState == <<active_modifiers, model_modifier_held, held_profile_modifiers,
              last_pressed_profile, is_pressed>>
captureVars == <<capture, captured_key, overtaken>>
daemon == <<channel, recording>>

vars == <<modifier_keys, keyboard, disturbances, listening, keyState,
          captureVars, daemon>>

Init ==
  /\ modifier_keys \in ModifierSets
  /\ held = {}
  /\ attached = TRUE
  /\ queue = <<>>
  /\ strokes = 0
  /\ disturbances = 0
  /\ opened = TRUE
  /\ changes = FALSE
  /\ polled = FALSE
  /\ batch = <<>>
  /\ active_modifiers = {}
  /\ model_modifier_held = FALSE
  /\ held_profile_modifiers = {}
  /\ last_pressed_profile = None
  /\ is_pressed = FALSE
  /\ capture = "off"
  /\ captured_key = None
  /\ overtaken = FALSE
  /\ channel = <<>>
  /\ recording = FALSE

-----------------------------------------------------------------------------
(* The user and the devices.  A key event is marked when the capture       *)
(* process takes it; the mark is for the properties.                       *)

KeyEvent(key, down, captured) == [key |-> key, down |-> down, captured |-> captured]

PressKey(key) ==
  LET taken == capture = "listening" /\ captured_key = None
  IN /\ attached
     /\ key \notin held
     /\ strokes < MaxStrokes
     /\ strokes' = strokes + 1
     /\ held' = held \cup {key}
     /\ queue' = Append(queue, KeyEvent(key, TRUE, taken))
     /\ captured_key' = IF taken THEN key ELSE captured_key
     /\ UNCHANGED <<modifier_keys, attached, disturbances, listening, keyState,
                    capture, overtaken, daemon>>

ReleaseKey(key) ==
  LET taken == capture = "listening" /\ captured_key = key
  IN /\ key \in held
     /\ held' = held \ {key}
     /\ queue' = Append(queue, KeyEvent(key, FALSE, taken))
     /\ capture' = IF taken THEN "draining" ELSE capture
     /\ UNCHANGED <<modifier_keys, attached, strokes, disturbances, listening,
                    keyState, captured_key, overtaken, daemon>>

(* What the keyboard had queued goes with it.                              *)
Unplug ==
  /\ attached
  /\ disturbances < MaxDisturbances
  /\ disturbances' = disturbances + 1
  /\ attached' = FALSE
  /\ held' = {}
  /\ queue' = <<>>
  /\ changes' = TRUE
  /\ UNCHANGED <<modifier_keys, strokes, opened, polled, batch, keyState,
                 captureVars, daemon>>

Plug ==
  /\ ~attached
  /\ attached' = TRUE
  /\ changes' = TRUE
  /\ UNCHANGED <<modifier_keys, held, queue, strokes, disturbances, opened, polled,
                 batch, keyState, captureVars, daemon>>

(* A mouse or a headset: any event device is a change of devices.          *)
OtherDevice ==
  /\ disturbances < MaxDisturbances
  /\ disturbances' = disturbances + 1
  /\ changes' = TRUE
  /\ UNCHANGED <<modifier_keys, keyboard, opened, polled, batch, keyState,
                 captureVars, daemon>>

-----------------------------------------------------------------------------
(* capture_key, with the lock: the first key pressed, until it is released *)
(* and 150 ms more, by the clock.  The listener may not have polled its    *)
(* events then: it sleeps as long when devices change, or waits for room   *)
(* in the channel.                                                         *)

StartCapture ==
  /\ capture = "off"
  /\ attached
  /\ disturbances < MaxDisturbances
  /\ disturbances' = disturbances + 1
  /\ capture' = "listening"
  /\ captured_key' = None
  /\ UNCHANGED <<modifier_keys, keyboard, listening, keyState, overtaken, daemon>>

Drained == \A i \in DOMAIN (queue \o batch) : ~(queue \o batch)[i].captured

EndCapture ==
  /\ capture = "draining"
  /\ capture' = "off"
  /\ overtaken' = (overtaken \/ ~Drained)
  /\ UNCHANGED <<modifier_keys, keyboard, disturbances, listening, keyState,
                 captured_key, daemon>>

(* No key for 15 s, or the process is killed: nothing is captured.         *)
Unmarked(events) == [i \in DOMAIN events |-> [events[i] EXCEPT !.captured = FALSE]]

CaptureGivesUp ==
  /\ capture # "off"
  /\ capture' = "off"
  /\ queue' = Unmarked(queue)
  /\ batch' = Unmarked(batch)
  /\ UNCHANGED <<modifier_keys, held, attached, strokes, disturbances, opened, changes,
                 polled, keyState, captured_key, overtaken, daemon>>

-----------------------------------------------------------------------------
(* A turn of evdev_listener_loop.                                          *)

Clear ==
  /\ active_modifiers' = {}
  /\ model_modifier_held' = FALSE
  /\ held_profile_modifiers' = {}
  /\ last_pressed_profile' = None
  /\ is_pressed' = FALSE

(* Mutant: the keys of a device that is gone stay down.                    *)
ClearHotkeyOnly ==
  /\ is_pressed' = FALSE
  /\ UNCHANGED <<active_modifiers, model_modifier_held, held_profile_modifiers,
                 last_pressed_profile>>

OnDeviceChange == Clear

TurnStarts == ~polled /\ batch = <<>>

(* inotify: a change clears what is known of the keys; then the devices    *)
(* are enumerated again.  The validation every 30 s does no more.          *)
DevicesChange ==
  /\ TurnStarts
  /\ changes
  /\ changes' = FALSE
  /\ OnDeviceChange
  /\ opened' = attached
  /\ UNCHANGED <<modifier_keys, keyboard, disturbances, polled, batch, captureVars, daemon>>

LookForDevices ==
  /\ TurnStarts
  /\ ~opened
  /\ attached
  /\ opened' = TRUE
  /\ UNCHANGED <<modifier_keys, keyboard, disturbances, changes, polled, batch,
                 keyState, captureVars, daemon>>

(* poll_events; a keyboard that is gone answers ENODEV and is dropped.     *)
Poll ==
  /\ TurnStarts
  /\ opened
  /\ queue # <<>> \/ ~attached
  /\ opened' = attached
  /\ polled' = TRUE
  /\ batch' = queue
  /\ queue' = <<>>
  /\ UNCHANGED <<modifier_keys, held, attached, strokes, disturbances, changes,
                 keyState, captureVars, daemon>>

(* Mutant: keys are filtered in the daemon only.                           *)
LookAtNoLock ==
  /\ polled
  /\ polled' = FALSE
  /\ UNCHANGED <<modifier_keys, keyboard, disturbances, opened, changes, batch,
                 keyState, captureVars, daemon>>

(* capture::active(), after the poll: what was polled is discarded.        *)
LookAtLock ==
  /\ polled
  /\ polled' = FALSE
  /\ IF capture = "off" THEN UNCHANGED <<batch, keyState>>
     ELSE batch' = <<>> /\ Clear
  /\ UNCHANGED <<modifier_keys, keyboard, disturbances, opened, changes,
                 captureVars, daemon>>

Idle ==
  /\ TurnStarts
  /\ opened /\ attached /\ ~changes /\ queue = <<>>
  /\ capture # "off"
  /\ Clear
  /\ UNCHANGED <<modifier_keys, keyboard, disturbances, listening, captureVars, daemon>>

-----------------------------------------------------------------------------
(* One key event: what is held, then the cancel key, then the hotkey.      *)

Toggled(set, key, down) == IF down THEN set \cup {key} ELSE set \ {key}

Track(key, down) ==
  /\ active_modifiers' =
       IF key \in modifier_keys THEN Toggled(active_modifiers, key, down)
       ELSE active_modifiers
  /\ model_modifier_held' = IF key = ModelModifier THEN down ELSE model_modifier_held
  /\ held_profile_modifiers' =
       IF key \in ProfileKeys THEN Toggled(held_profile_modifiers, key, down)
       ELSE held_profile_modifiers
  /\ last_pressed_profile' =
       IF key \notin ProfileKeys THEN last_pressed_profile
       ELSE IF down THEN key
       ELSE IF held_profile_modifiers' = {} THEN None
       ELSE last_pressed_profile

(* An event for the daemon; the mark is for the properties.                *)
HotkeyEvent(kind, e) ==
  [ kind |-> kind, model |-> model_modifier_held', profile |-> last_pressed_profile',
    captured |-> e.captured ]

(* Mutant: an event that does not fit is dropped.                          *)
TrySend(event) ==
  channel' = IF Len(channel) < Capacity THEN Append(channel, event) ELSE channel

BlockingSend(event) ==
  /\ Len(channel) < Capacity
  /\ channel' = Append(channel, event)

Cancels(e) == e.key = CancelKey /\ e.down

Presses(e) ==
  /\ ~Cancels(e)
  /\ e.key = TargetKey
  /\ modifier_keys \subseteq active_modifiers'
  /\ e.down
  /\ ~is_pressed

Releases(e) ==
  /\ ~Cancels(e)
  /\ e.key = TargetKey
  /\ modifier_keys \subseteq active_modifiers'
  /\ ~e.down
  /\ is_pressed

Handle ==
  LET e == Head(batch)
  IN /\ ~polled
     /\ batch # <<>>
     /\ batch' = Tail(batch)
     /\ Track(e.key, e.down)
     /\ \/ Cancels(e) /\ BlockingSend(HotkeyEvent("Cancel", e)) /\ UNCHANGED is_pressed
        \/ Presses(e) /\ is_pressed' = TRUE /\ BlockingSend(HotkeyEvent("Pressed", e))
        \/ Releases(e) /\ is_pressed' = FALSE /\ BlockingSend(HotkeyEvent("Released", e))
        \/ /\ ~Cancels(e) /\ ~Presses(e) /\ ~Releases(e)
           /\ UNCHANGED <<is_pressed, channel>>
     /\ UNCHANGED <<modifier_keys, keyboard, disturbances, opened, changes, polled,
                    captureVars, recording>>

-----------------------------------------------------------------------------
(* The daemon in push-to-talk mode; its other ways to end a recording are  *)
(* in Dictation.  Idle, it ignores keys while the lock is held.            *)

Receive ==
  LET e == Head(channel)
  IN /\ channel # <<>>
     /\ channel' = Tail(channel)
     /\ recording' =
          IF ~recording THEN e.kind = "Pressed" /\ capture = "off"
          ELSE e.kind = "Pressed"
     /\ UNCHANGED <<modifier_keys, keyboard, disturbances, listening, keyState,
                    captureVars>>

Next ==
  \/ \E key \in Keys : PressKey(key) \/ ReleaseKey(key)
  \/ Unplug \/ Plug \/ OtherDevice
  \/ StartCapture \/ EndCapture \/ CaptureGivesUp
  \/ DevicesChange \/ LookForDevices \/ Poll \/ LookAtLock \/ Idle \/ Handle
  \/ Receive

Spec == Init /\ [][Next]_vars

-----------------------------------------------------------------------------

KeyEvents == [key : Keys, down : BOOLEAN, captured : BOOLEAN]

HotkeyEvents ==
  [ kind : {"Pressed", "Released", "Cancel"}, model : BOOLEAN,
    profile : ProfileKeys \cup {None}, captured : BOOLEAN ]

TypeOK ==
  /\ modifier_keys \in ModifierSets
  /\ held \subseteq Keys
  /\ attached \in BOOLEAN
  /\ queue \in Seq(KeyEvents)
  /\ strokes \in Nat
  /\ disturbances \in Nat
  /\ opened \in BOOLEAN
  /\ changes \in BOOLEAN
  /\ polled \in BOOLEAN
  /\ batch \in Seq(KeyEvents)
  /\ active_modifiers \subseteq modifier_keys
  /\ model_modifier_held \in BOOLEAN
  /\ held_profile_modifiers \subseteq ProfileKeys
  /\ last_pressed_profile \in ProfileKeys \cup {None}
  /\ is_pressed \in BOOLEAN
  /\ capture \in {"off", "listening", "draining"}
  /\ captured_key \in Keys \cup {None}
  /\ overtaken \in BOOLEAN
  /\ channel \in Seq(HotkeyEvents)
  /\ Len(channel) <= Capacity
  /\ recording \in BOOLEAN

(* The listener has handled every key event, and knows of every change.    *)
CaughtUp == queue = <<>> /\ batch = <<>> /\ ~polled /\ ~changes

(* Once it has caught up, the listener believes no key to be down that is  *)
(* not, whatever was plugged, captured or blocked in between: a modifier   *)
(* that stays behind would make the bare hotkey work, or choose a model or *)
(* a profile nobody asked for.                                             *)
NoPhantomKeys ==
  CaughtUp =>
    /\ active_modifiers \cup held_profile_modifiers \subseteq held
    /\ model_modifier_held => ModelModifier \in held
    /\ held_profile_modifiers = {} => last_pressed_profile = None

(* A key that the settings capture starts no recording, then or later      *)
(* ("Filtering only in the daemon lets queued keys fire after capture      *)
(* ends"), as long as no capture ended before the listener had polled what *)
(* it took: then its keys work like any others.                            *)
CapturedKeysStartNothing ==
  [][ recording' /\ ~recording /\ ~overtaken => ~Head(channel).captured ]_vars

(* No event of the keyboard or the daemon is on its way.                   *)
Quiet == CaughtUp /\ channel = <<>>

(* A recording by the bare hotkey ends with it, however slow the daemon    *)
(* is, unless a change of devices or a capture comes between.              *)
BareHotkeyIsFollowed ==
  Quiet /\ modifier_keys = {} /\ disturbances = 0 /\ recording => TargetKey \in held

(* "When you release the key, recording stops immediately" (FAQ.md), with  *)
(* or without modifiers.                                                   *)
ReleaseStopsRecording ==
  Quiet /\ disturbances = 0 /\ recording => TargetKey \in held

=============================================================================
