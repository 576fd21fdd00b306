----------------------------- MODULE MCSweepRunner -----------------------------
(* Two sweeps whose grids share their first combination. *)
EXTENDS SweepRunner

Overlapping == <<<<"shared", "b", "c">>, <<"shared", "e">>>>
===============================================================================
