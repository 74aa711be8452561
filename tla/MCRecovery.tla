----------------------------- MODULE MCRecovery -----------------------------
(* Instances of Recovery: which commands the operator has, what may fail.    *)
EXTENDS Recovery

MCAllCommands == {"save", "reload", "form", "verify", "promote", "fault"}
MCFaultSets   == {{}, {"evaluator"}, {"write"}, {"read", "write", "evaluator"}}
=============================================================================
