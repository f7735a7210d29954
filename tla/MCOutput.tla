------------------------------ MODULE MCOutput ------------------------------
(* Instances of Output for TLC: the default chain, a custom one, and the   *)
(* other modes, with Wayland's clipboard, X11's, or typing tools only.     *)
EXTENDS Output

MCText == <<"line 1", "line 2">>

MCModes ==
  [mode : {"type"}, driver_order : {<<>>, <<"ydotool", "wtype">>},
   fallback_to_clipboard : BOOLEAN, restore_clipboard : {FALSE}]
  \cup
  [mode : {"clipboard", "paste", "file"}, driver_order : {<<>>},
   fallback_to_clipboard : {TRUE}, restore_clipboard : BOOLEAN]

MCInstalled ==
  { {"wtype", "eitype", "wl_copy", "paste"}, {"dotool", "ydotool", "xclip", "paste"},
    {"wtype", "dotool", "ydotool"}, {"wl_copy"} }

MCConfigs ==
  { [ mode |-> m.mode, driver_order |-> m.driver_order,
      fallback_to_clipboard |-> m.fallback_to_clipboard,
      restore_clipboard |-> m.restore_clipboard, available |-> installed,
      append_text |-> append, auto_submit |-> submit, shift_enter_newlines |-> lines,
      wait_for_modifier_release |-> wait, fallible |-> fallible ] :
    m \in MCModes, installed \in MCInstalled,
    append \in BOOLEAN, submit \in BOOLEAN, lines \in BOOLEAN,
    wait \in BOOLEAN, fallible \in BOOLEAN }

=============================================================================
