------------------------- MODULE MCPeonyIntegration -------------------------
(* Runs of PeonyIntegration. *)
EXTENDS PeonyIntegration

(* Everything but the settings command; missing files, a stubborn peony    *)
(* and a slow manager; the same with neither, or with a slow start; and    *)
(* the calls a path with a ':' depends on.                                 *)
MCScenarios ==
  [faults : {AllFaults \ {"gsettings"}, OrderlyFaults \cup {"slowStart"}},
   wallpaper : {"user"}] \cup
  [faults : {OrderlyFaults \cup {"slowStop"}, OrderlyFaults},
   wallpaper : {"user", "colon"}] \cup
  [faults : {{"record", "accountWrite", "crash"}}, wallpaper : {"colon"}]

Outage == [faults : {{"accountWrite"}}, wallpaper : {"user"}]
=============================================================================
