------------------------------ MODULE MCProcesses ------------------------------
(* Three slots, so that a reaped parent's slot can be taken by a stranger;  *)
(* one pipe of one byte; a process holds its ends as 3 and 4.               *)
EXTENDS Processes

MCSlots == 0 .. 2
MCPipes == {0}
MCDescriptors == {0, 1, 3, 4}
MCFrames == 1 .. 2
MCMoreFrames == 1 .. 3
=============================================================================
