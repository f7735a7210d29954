---------------------------- MODULE MCDictation ----------------------------
(***************************************************************************)
(* Instances of Dictation for TLC.  Each set of configurations is small    *)
(* and holds the ones in which the handlers differ.                        *)
(***************************************************************************)
EXTENDS Dictation

(* A preloaded batch engine, push-to-talk, everything else off.            *)
Basic == [ mode        |-> "push_to_talk",
           streaming   |-> FALSE,
           on_demand   |-> FALSE,
           fallible    |-> FALSE,
           eager       |-> FALSE,
           pause_media |-> TRUE,
           level_hub   |-> TRUE,
           hotkey      |-> TRUE,
           cancel_key  |-> TRUE,
           cli         |-> FALSE,
           flags       |-> {} ]

(* Engines that do not stream: eager chunks in both modes, on-demand       *)
(* loading, and the record commands.                                       *)
BatchConfigs ==
  { [Basic EXCEPT !.eager = TRUE, !.cli = TRUE, !.cancel_key = FALSE,
                  !.flags = {"auto_submit"}],
    [Basic EXCEPT !.eager = TRUE, !.mode = "toggle", !.fallible = TRUE],
    [Basic EXCEPT !.cli = TRUE, !.on_demand = TRUE, !.pause_media = FALSE],
    [Basic EXCEPT !.mode = "hybrid", !.cli = TRUE, !.flags = {"output_mode"}] }

(* Streaming engines: promoted to toggle, or hybrid; with record commands  *)
(* streams are also disowned and abandoned.                                *)
StreamingConfigs ==
  { [Basic EXCEPT !.streaming = TRUE],
    [Basic EXCEPT !.streaming = TRUE, !.cli = TRUE, !.pause_media = FALSE],
    [Basic EXCEPT !.streaming = TRUE, !.mode = "hybrid"],
    [Basic EXCEPT !.streaming = TRUE, !.mode = "hybrid", !.cli = TRUE,
                  !.cancel_key = FALSE, !.eager = TRUE] }

DaemonConfigs == BatchConfigs \cup StreamingConfigs

=============================================================================
