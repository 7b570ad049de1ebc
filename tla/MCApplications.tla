--------------------------- MODULE MCApplications ---------------------------
(* The priority demo, and parts of the showcase demo with three of its     *)
(* seven tasks each; with short rows and periods.                          *)
EXTENDS Applications, KernelView

MCTaskSets == {<<1, 1, 1>>, <<0, 0, 1>>}
MCRoleSets == {<<"heartbeat_task", "logger_task", "button_logger_task">>,
               <<"logger_task", "logger_task", "button_logger_task">>,
               <<"led_task", "load_task", "button_logger_task">>}
MCLedWaits == <<1>>

(* Left out besides: the items taken from a queue, the tick of the last    *)
(* press when none is compared with it, and unused histories.              *)
LiveState ==
    <<CurrentFirst(LiveKernel(kern, {t \in Slots : pc[t] \notin {"app", "switch"}})),
      pend, switching, systick, pc, sem, taking, consoleVars, at, app, workVars,
      role, local, isr, button_sequence,
      IF button_sequence \in {0, MaxPresses} THEN 0 ELSE last_button_tick,
      histVars, Shared!Contents, Button!Contents, shared_call>>
=============================================================================
