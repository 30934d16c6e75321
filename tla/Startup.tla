------------------------------ MODULE Startup -------------------------------
(***************************************************************************)
(* The first steps of run (main.go): the options are parsed, then the          *)
(* database is opened, then a scan computes its targets; the process may end    *)
(* at any point, on its own or not, and starts again with the same options.     *)
(***************************************************************************)
EXTENDS Migration, ScanTargets

startVars == <<vars, scanVars>>

StartupInit == Init /\ ScanInit

LoadConfig == step = "closed" /\ ParseOptions /\ UNCHANGED vars

OpenDatabase == phase = "hosts" /\ Advance /\ UNCHANGED scanVars

ScanHosts == step = "open" /\ HostsStep /\ UNCHANGED vars

EndProcess ==
  /\ \/ GiveUp
     \/ step = "closed" /\ phase # "parse" /\ UNCHANGED vars
  /\ phase' = "parse" /\ ranges' = <<>> /\ todo' = <<>>
  /\ i' = 0 /\ addr' = 0 /\ out' = <<>>
  /\ UNCHANGED config

StartupNext == LoadConfig \/ OpenDatabase \/ ScanHosts \/ EndProcess

StartupSpec == StartupInit /\ [][StartupNext]_startVars
=============================================================================
