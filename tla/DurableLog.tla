------------------------------ MODULE DurableLog ------------------------------
(***************************************************************************)
(* What an image store promises: one append-only log, and that a log whose *)
(* save was acknowledged is part of it from then on.                       *)
(***************************************************************************)
EXTENDS Sequences, SequencesExt

CONSTANT Entries       \* what a log may hold

VARIABLES
  log,                 \* what a reader would load now
  acknowledged         \* the longest log whose save was acknowledged

LogInit == log = <<>> /\ acknowledged = <<>>

(* The log is replaced by an extension of itself, at once.                  *)
Extend ==
  /\ log' \in Seq(Entries) /\ IsStrictPrefix(log, log')
  /\ UNCHANGED acknowledged

Acknowledge ==
  /\ IsPrefix(acknowledged, log) /\ acknowledged' = log
  /\ UNCHANGED log

(* A save that was never acknowledged may be lost again.                    *)
Lose ==
  /\ IsStrictPrefix(log', log) /\ IsPrefix(acknowledged, log')
  /\ UNCHANGED acknowledged

LogSpec == LogInit /\ [][Extend \/ Acknowledge \/ Lose]_<<log, acknowledged>>
=============================================================================
