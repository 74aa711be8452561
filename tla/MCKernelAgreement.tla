------------------------- MODULE MCKernelAgreement -------------------------
(***************************************************************************)
(* Three ways a domain is used: its capabilities and its endpoint, under   *)
(* the v1.0 profile; its capabilities, notification and clock, under the   *)
(* same; its capabilities and its memory, under v1.1.  In every state of   *)
(* each all requests of all groups are compared.                           *)
(***************************************************************************)
EXTENDS KernelAgreement

MCMemRights == {{"write", "execute", "grant"}, {"write", "execute"}, {"execute"}}
MCRights == {{"send"}}
MCProfiles ==
  {[published |-> V1Profile, asks |-> {"capability", "endpoint"}, derives |-> 1],
   [published |-> V1Profile, asks |-> {"capability", "notification", "clock"}, derives |-> 1],
   [published |-> Groups, asks |-> {"capability", "memory"}, derives |-> 2]}
=============================================================================
