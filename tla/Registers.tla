------------------------------ MODULE Registers ------------------------------
(***************************************************************************)
(* The state of a run that checks several components, one at a time:       *)
(* component names the one this behaviour is about, and registers hold its *)
(* variables, as its INSTANCE says (x <- v1).  A component that needs      *)
(* three registers leaves v4 and the later ones Unused, for ever.  The     *)
(* modules that the run's module EXTENDS, its hosts, are components too:   *)
(* they have their own variables, which the others leave as they were at   *)
(* first, and use no register.                                             *)
(***************************************************************************)
VARIABLES component, v1, v2, v3, v4, v5, v6, v7, v8, v9, v10

registers == <<component, v1, v2, v3, v4, v5, v6, v7, v8, v9, v10>>

Unused == "unused"

\* The registers from the nth on are not used, and stay so in a step.
Unused10 == v10 = Unused
Unused9 == v9 = Unused /\ Unused10
Unused8 == v8 = Unused /\ Unused9
Unused7 == v7 = Unused /\ Unused8
Unused6 == v6 = Unused /\ Unused7
Unused5 == v5 = Unused /\ Unused6
Unused4 == v4 = Unused /\ Unused5
Unused3 == v3 = Unused /\ Unused4
Unused2 == v2 = Unused /\ Unused3
Unused1 == v1 = Unused /\ Unused2

Rest3 == <<component, v3, v4, v5, v6, v7, v8, v9, v10>>
Rest4 == <<component, v4, v5, v6, v7, v8, v9, v10>>
Rest5 == <<component, v5, v6, v7, v8, v9, v10>>
Rest6 == <<component, v6, v7, v8, v9, v10>>
Rest7 == <<component, v7, v8, v9, v10>>
Rest8 == <<component, v8, v9, v10>>
Rest9 == <<component, v9, v10>>
Rest10 == <<component, v10>>
=============================================================================
