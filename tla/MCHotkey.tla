------------------------------ MODULE MCHotkey ------------------------------
(* Instances of Hotkey for TLC: the bare hotkey, or the hotkey with one    *)
(* required modifier; the model modifier is also the key of a profile,     *)
(* which the configuration allows.                                         *)
EXTENDS Hotkey

MCKeys == {"target", "ctrl", "cancel", "shift", "alt"}
MCModifierSets == {{}, {"ctrl"}}
MCProfileKeys == {"shift", "alt"}

=============================================================================
