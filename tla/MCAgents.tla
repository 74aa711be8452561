------------------------------- MODULE MCAgents -------------------------------
(* Instances of Agents: a supervisor that nobody restarts, two children with *)
(* different policies of which one may come later, and a passive mailbox.   *)
EXTENDS Agents

Boss   == [active |-> TRUE,  supervisor |-> 0, action |-> "restart",  max |-> 0]
Worker == [active |-> TRUE,  supervisor |-> 1, action |-> "escalate", max |-> 0]
Clerk  == [active |-> TRUE,  supervisor |-> 1, action |-> "restart",  max |-> 1]
Inbox  == [active |-> FALSE, supervisor |-> 0, action |-> "stop",     max |-> 0]

MCAgentIds == 1 .. 3
MCRequests == 1 .. 1
MCFirst    == <<Boss, Worker>>
MCRoles    == {Clerk, Inbox}
=============================================================================
