-------------------------------- MODULE Agents --------------------------------
(***************************************************************************)
(* The agent runtime of the hosted evaluator: mailboxes, the ready queue,  *)
(* turns that commit or are undone, supervision, the durable outbox of     *)
(* model requests, and the append-only event log whose limit is also that  *)
(* of every mailbox (max_collection_len).                                  *)
(*                                                                         *)
(* A host form is one transaction over the state `st': a primitive form    *)
(* is one step, `(run n)' is many, kept by `job'.  What a behaviour does   *)
(* in its turn is a choice; an error it catches leaves what was done, an   *)
(* error it does not catch ends the turn.                                  *)
(***************************************************************************)
EXTENDS Integers, Sequences, FiniteSets, SequencesExt

CONSTANTS
  Agents,          \* agent identifiers: 1 .. n, given out in this order
  Limit,           \* max_collection_len: of the event log and of a mailbox
  MaxMessages,     \* user messages sent in a behaviour
  MaxTurns,        \* turns a run may be asked for
  Requests,        \* model request identifiers: 1 .. n
  FirstAgents,     \* the agents the first forms spawned: a sequence of roles
  Roles            \* what agents spawned later may be

ASSUME AgentsConstants ==
  /\ IsFiniteSet(Agents) /\ Agents = 1 .. Cardinality(Agents)
  /\ IsFiniteSet(Requests) /\ Requests = 1 .. Cardinality(Requests)
  /\ {Limit, MaxMessages, MaxTurns} \subseteq Nat
  /\ Len(FirstAgents) \in Agents /\ Len(FirstAgents) <= Limit
  /\ \A i \in 1 .. Len(FirstAgents) : FirstAgents[i].supervisor < i
  /\ \A role \in Roles \cup {FirstAgents[i] : i \in 1 .. Len(FirstAgents)} :
       role.active \in BOOLEAN /\ role.supervisor \in Agents \cup {0}
         /\ role.action \in {"stop", "restart", "escalate"}
         /\ role.max \in Nat

VARIABLES
  st,              \* the transactional state, with its history variables
  job,             \* where a `run' in progress is
  torn             \* history: a handler has kept an interrupted `run'

agentVars == <<st, job, torn>>

Host == 0          \* what no turn did: the host's own forms
None == 0          \* no supervisor

NewAgent(role, turn) ==
  [mailbox |-> <<>>, running |-> TRUE, restarts |-> 0, active |-> role.active,
   supervisor |-> role.supervisor, action |-> role.action, max |-> role.max,
   by |-> turn]

NoAgent == [running |-> FALSE, mailbox |-> <<>>, active |-> FALSE,
            supervisor |-> None, action |-> "stop", by |-> Host,
            restarts |-> 0, max |-> 0]

Spawned(s) == 1 .. s.nextAgent - 1

User(n)   == [kind |-> "user", n |-> n]
Failed(c) == [kind |-> "child-failed", n |-> c]
Result(r) == [kind |-> "model-result", n |-> r]

NoRequest == [status |-> "none", replyTo |-> 0, by |-> Host]

Idle == [pc |-> "idle"]

AgentsInit ==
  LET k == Len(FirstAgents) IN
  /\ st = [agents |-> [a \in Agents |-> IF a <= k
                                        THEN NewAgent(FirstAgents[a], Host)
                                        ELSE NoAgent],
           nextAgent |-> k + 1, ready |-> <<>>, events |-> k,
           requests |-> [r \in Requests |-> NoRequest], nextRequest |-> 1,
           \* history: who sent each user message, what each agent was handed,
           \* turns others began while it was ready, turns begun and undone
           sentBy |-> <<>>, handled |-> [a \in Agents |-> <<>>],
           waits |-> [a \in Agents |-> 0], turn |-> 0, undone |-> {}]
  /\ job = Idle
  /\ torn = FALSE
-----------------------------------------------------------------------------
(* Operations on a state give the state they leave, whole or half done, and *)
(* whether they succeeded.                                                  *)
Done(s)        == [ok |-> TRUE, state |-> s]
Resource(s)    == [ok |-> FALSE, state |-> s]   \* a "resource/" condition
Condition(s)   == [ok |-> FALSE, state |-> s]   \* any other

RecordEvent(s) ==
  IF s.events < Limit THEN Done([s EXCEPT !.events = @ + 1]) ELSE Resource(s)

Schedule_Front(s, a) ==
  IF Contains(s.ready, a) THEN s ELSE [s EXCEPT !.ready = <<a>> \o @]

Schedule(s, a) ==
  IF Contains(s.ready, a) THEN s ELSE [s EXCEPT !.ready = Append(@, a)]

(* The message is in the mailbox and the agent is ready before the event    *)
(* that says so is known to fit.                                            *)
Enqueue(s, a, message) ==
  IF ~s.agents[a].running THEN Condition(s)
  ELSE IF Len(s.agents[a].mailbox) >= Limit THEN Resource(s)
  ELSE LET put == [s EXCEPT !.agents[a].mailbox = Append(@, message)] IN
       RecordEvent(IF s.agents[a].active THEN Schedule(put, a) ELSE put)

(* A user message is named by its number, once it is in a mailbox.          *)
Send(s, a, turn) ==
  LET n == Len(s.sentBy) + 1
      o == Enqueue(s, a, User(n)) IN
  IF o.state = s THEN o ELSE [o EXCEPT !.state.sentBy = Append(@, turn)]

(* An agent's supervisor must run; the agent is there before its event is.  *)
Spawn(s, role, turn) ==
  IF role.supervisor # None /\ ~s.agents[role.supervisor].running
  THEN Condition(s)
  ELSE RecordEvent([s EXCEPT !.agents[s.nextAgent] = NewAgent(role, turn),
                             !.nextAgent = @ + 1])

(* model-request, by an agent whose capability permits it.                  *)
RequestModel(s, replyTo, turn) ==
  IF ~s.agents[replyTo].running THEN Condition(s)
  ELSE RecordEvent(
         [s EXCEPT !.requests[s.nextRequest] =
                     [status |-> "pending", replyTo |-> replyTo, by |-> turn],
                   !.nextRequest = @ + 1])
-----------------------------------------------------------------------------
(* Supervision.                                                             *)

Stop_MailboxToo(s, a) ==
  [s EXCEPT !.agents[a].running = FALSE, !.waits[a] = 0,
            !.agents[a].mailbox = <<>>,
            !.ready = RemoveFirst(@, a)]

(* Nobody is queued twice, so one entry is all there is to remove.          *)
Stop(s, a) ==
  [s EXCEPT !.agents[a].running = FALSE, !.waits[a] = 0,
            !.ready = RemoveFirst(@, a)]

Escalate_PolicyOnly(s, a) ==
  LET supervisor == s.agents[a].supervisor
      recorded == RecordEvent(s) IN
  IF supervisor = None \/ s.agents[a].action # "escalate" THEN Done(s)
  ELSE IF recorded.ok /\ s.agents[supervisor].running
       THEN Enqueue(recorded.state, supervisor, Failed(a))
       ELSE recorded

(* A stopped agent's supervisor is told of it, if it runs.                  *)
Escalate(s, a) ==
  LET supervisor == s.agents[a].supervisor
      recorded == RecordEvent(s) IN
  IF supervisor = None \/ s.agents[a].action = "stop" THEN Done(s)
  ELSE IF recorded.ok /\ s.agents[supervisor].running
       THEN Enqueue(recorded.state, supervisor, Failed(a))
       ELSE recorded

Supervise(s, a) ==
  LET agent == s.agents[a] IN
  IF agent.action = "restart" /\ agent.restarts < agent.max
  THEN RecordEvent([s EXCEPT !.agents[a].restarts = @ + 1])
  ELSE LET stopped == RecordEvent(Stop(s, a)) IN
       IF stopped.ok THEN Escalate(stopped.state, a) ELSE stopped
-----------------------------------------------------------------------------
(* Host forms of one step.  A handler around the form may keep what it did  *)
(* before it failed; otherwise the transaction leaves the state alone.      *)

Form(o) ==
  /\ job = Idle
  /\ st' \in {st, o.state}
  /\ o.ok => st' = o.state
  /\ UNCHANGED <<job, torn>>

HostSend(a) == Len(st.sentBy) < MaxMessages /\ Form(Send(st, a, Host))

HostSpawn(role) == st.nextAgent \in Agents /\ Form(Spawn(st, role, Host))

HostReceive(a) ==
  /\ st.agents[a].mailbox # <<>>
  /\ Form(Done([st EXCEPT !.agents[a].mailbox = Tail(@),
                          !.handled[a] = Append(@, Head(st.agents[a].mailbox))]))

(* World::claim_model_request and complete_model_request: transactions of   *)
(* their own, which no handler surrounds.                                   *)
Transaction(o) ==
  /\ job = Idle
  /\ st' = IF o.ok THEN o.state ELSE st
  /\ UNCHANGED <<job, torn>>

HostClaim(r) ==
  /\ st.requests[r].status = "pending"
  /\ Transaction(RecordEvent([st EXCEPT !.requests[r].status = "dispatching"]))

(* The outcome is recorded; the requester's choice of agent is told of it,  *)
(* or it is recorded that nobody was, where the log has room for either.    *)
(* The request is completed in all three cases; its status tells them apart.*)
Completed(s, r) ==
  LET recorded == RecordEvent([s EXCEPT !.requests[r].status = "completed"])
      a == s.requests[r].replyTo IN
  IF ~recorded.ok THEN recorded
  ELSE IF recorded.state.events >= Limit
       THEN Done([recorded.state EXCEPT !.requests[r].status = "unrecorded"])
  ELSE IF s.agents[a].running /\ Len(s.agents[a].mailbox) < Limit
       THEN Enqueue(recorded.state, a, Result(r))
       ELSE RecordEvent([recorded.state EXCEPT !.requests[r].status = "dropped"])

HostComplete(r) ==
  /\ st.requests[r].status = "dispatching"
  /\ Transaction(Completed(st, r))
-----------------------------------------------------------------------------
(* The scheduler.                                                           *)

Runnable(a) ==
  st.agents[a].running /\ st.agents[a].active /\ st.agents[a].mailbox # <<>>

Run(n) ==
  /\ job = Idle
  /\ job' = [pc |-> "run", left |-> n, base |-> st]
  /\ UNCHANGED <<st, torn>>

(* An error leaves the whole run: the transaction is undone, unless a       *)
(* handler around `(run)' takes it, which keeps the state as it is.         *)
Interrupted(s) ==
  /\ job' = Idle
  /\ \/ st' = job.base /\ UNCHANGED torn
     \/ st' = s /\ torn' = TRUE

Continues(s) ==
  /\ st' = s
  /\ job' = [pc |-> "run", left |-> job.left - 1, base |-> job.base]
  /\ UNCHANGED torn

(* Stale entries of the ready queue are skipped and gone.                   *)
NextRunnable == SelectInSeq(st.ready, Runnable)

EndRun ==
  /\ job.pc = "run"
  /\ job.left = 0 \/ NextRunnable = 0
  /\ st' = IF job.left = 0 THEN st ELSE [st EXCEPT !.ready = <<>>, !.waits = [a \in Agents |-> 0]]
  /\ job' = Idle
  /\ UNCHANGED torn

Begun_NotRequeued(a, rest) ==
  [st EXCEPT !.agents[a].mailbox = Tail(@), !.ready = rest, !.turn = @ + 1,
             !.waits = [b \in Agents |->
               IF b # a /\ Contains(rest, b) THEN @[b] + 1 ELSE 0]]

(* The agent's turn: the oldest message leaves its mailbox; if there are    *)
(* more the agent queues up again behind the others.                        *)
Begun(a, rest) ==
  LET mailbox == Tail(st.agents[a].mailbox)
      s == [st EXCEPT !.agents[a].mailbox = mailbox, !.ready = rest,
                      !.turn = @ + 1,
                      !.waits = [b \in Agents |->
                        IF b # a /\ Contains(rest, b) THEN @[b] + 1 ELSE 0]] IN
  IF mailbox = <<>> THEN s ELSE Schedule(s, a)

StartTurn ==
  LET k == NextRunnable
      a == st.ready[k]
      begun == RecordEvent(Begun(a, SubSeq(st.ready, k + 1, Len(st.ready)))) IN
  /\ job.pc = "run" /\ job.left > 0 /\ k # 0
  /\ IF begun.ok
     THEN /\ st' = begun.state
          /\ job' = [pc |-> "turn", left |-> job.left, base |-> job.base,
                     agent |-> a, message |-> Head(st.agents[a].mailbox),
                     checkpoint |-> begun.state]
          /\ UNCHANGED torn
     ELSE Interrupted(begun.state)

InTurn == job.pc = "turn"

Behaves(o) == InTurn /\ st' = o.state /\ UNCHANGED <<job, torn>>

TurnSend(a) ==
  InTurn /\ Len(st.sentBy) < MaxMessages /\ Behaves(Send(st, a, st.turn))

TurnSpawn(role) ==
  InTurn /\ st.nextAgent \in Agents /\ Behaves(Spawn(st, role, st.turn))

TurnRequest(replyTo) ==
  InTurn /\ st.nextRequest \in Requests
    /\ Behaves(RequestModel(st, replyTo, st.turn))

Handled(s) == [s EXCEPT !.handled[job.agent] = Append(@, job.message)]

TurnCommits ==
  LET o == RecordEvent(Handled(st)) IN
  InTurn /\ IF o.ok THEN Continues(o.state) ELSE Interrupted(o.state)

TurnFails_NotUndone ==
  LET recorded == RecordEvent([Handled(st) EXCEPT !.undone = @ \cup {st.turn}])
      o == IF recorded.ok THEN Supervise(recorded.state, job.agent)
                          ELSE recorded IN
  InTurn /\ IF o.ok THEN Continues(o.state) ELSE Interrupted(o.state)

(* The turn is undone but for its message, which is spent.                  *)
TurnFails ==
  LET recorded == RecordEvent([Handled(job.checkpoint)
                                 EXCEPT !.undone = @ \cup {st.turn}])
      o == IF recorded.ok THEN Supervise(recorded.state, job.agent)
                          ELSE recorded IN
  InTurn /\ IF o.ok THEN Continues(o.state) ELSE Interrupted(o.state)

(* A budget runs out in the turn: not a failure of the agent.               *)
TurnStarved == InTurn /\ Interrupted(st)

AgentsNext ==
  \/ \E a \in Spawned(st) :
       HostSend(a) \/ HostReceive(a) \/ TurnSend(a) \/ TurnRequest(a)
  \/ \E role \in Roles : HostSpawn(role) \/ TurnSpawn(role)
  \/ \E r \in Requests : HostClaim(r) \/ HostComplete(r)
  \/ \E n \in 1 .. MaxTurns : Run(n)
  \/ EndRun \/ StartTurn \/ TurnCommits \/ TurnFails \/ TurnStarved

AgentsSpec == AgentsInit /\ [][AgentsNext]_agentVars
-----------------------------------------------------------------------------
(* Properties.                                                              *)

Messages == {User(n) : n \in 1 .. MaxMessages}
              \cup {Failed(a) : a \in Agents} \cup {Result(r) : r \in Requests}

(* Well-formed agents, mailboxes and log; restarts keep to the agent's       *)
(* budget (eval.rs:1585).                                                   *)
AgentsTypeOK ==
  /\ \A a \in Agents : /\ Range(st.agents[a].mailbox) \subseteq Messages
                       /\ Len(st.agents[a].mailbox) <= Limit
                       /\ st.agents[a].restarts \in 0 .. st.agents[a].max
  /\ Range(st.ready) \subseteq Spawned(st)
  /\ st.events \in 0 .. Limit
  /\ job.pc \in {"idle", "run", "turn"} /\ torn \in BOOLEAN

(* No lost wakeup: an agent that can take a turn is queued for one, at every *)
(* moment of every form, whatever failed half way, and nobody is queued     *)
(* twice (enqueue_message, schedule, next_runnable, execute_turn).          *)
NoLostWakeup ==
  /\ AgentsTypeOK
  /\ IsInjective(st.ready)
  /\ \A a \in Agents : Runnable(a) => Contains(st.ready, a)

(* Nobody starves behind busy agents: once queued, an agent sees every other *)
(* agent take at most one turn before its own (eval.rs:1488, 1524).         *)
BoundedWait == \A a \in Agents : st.waits[a] < Cardinality(Agents)

(* Where a user message is: waiting, in hand, or handed over.               *)
InHand(a) == IF InTurn /\ job.agent = a THEN <<job.message>> ELSE <<>>
Received(a) == st.handled[a] \o InHand(a) \o st.agents[a].mailbox
IsUser(m) == m.kind = "user"

(* The result of a completed request is with the agent the request named.   *)
(* Recorded as dropped, it was for an agent that has stopped or was given    *)
(* as much as a mailbox holds; and it is neither delivered nor recorded only *)
(* where the event log has ended (eval.rs:1978).                            *)
ResultAccounted(r) ==
  LET request == st.requests[r]
      a == request.replyTo IN
  /\ request.status = "completed" => Result(r) \in Range(Received(a))
  /\ request.status = "dropped"
       => ~st.agents[a].running \/ Len(Received(a)) >= Limit
  /\ request.status = "unrecorded" => st.events = Limit

(* An accepted message is with some agent, whether turns fail, are undone,   *)
(* or their agent is stopped; only a handler that keeps an interrupted run   *)
(* can lose one.                                                            *)
NothingLost ==
  torn \/ /\ \A n \in DOMAIN st.sentBy :
               \E a \in Agents : User(n) \in Range(Received(a))
          /\ \A r \in Requests : ResultAccounted(r)

(* None is ever duplicated, whoever sent it.                                *)
NothingTwice ==
  \A a, b \in Agents : \A i \in DOMAIN Received(a), j \in DOMAIN Received(b) :
    Received(a)[i] = Received(b)[j] => a = b /\ i = j

(* Messages are handled in the order they were accepted, though failed      *)
(* turns are undone and the agent restarts in between (eval.rs:1501).       *)
InOrder ==
  \A a \in Agents : \A i, j \in DOMAIN Received(a) :
    i < j /\ IsUser(Received(a)[i]) /\ IsUser(Received(a)[j])
      => Received(a)[i].n < Received(a)[j].n

(* Every message an agent or the host sent is delivered exactly once and in  *)
(* order, over failures, restarts and stopped runs.  What the runtime sends, *)
(* a model's result or the notice of a stopped child, is delivered at most   *)
(* once, and a result not delivered is accounted for.  Left out is what a    *)
(* handler that keeps an interrupted run does to the message in hand.       *)
DeliveredOnceInOrder == NothingLost /\ NothingTwice /\ InOrder

(* What a failed turn did is gone: no message, agent or request that exists *)
(* was made by a turn that was undone (the checkpoint, eval.rs:1527).       *)
FailedTurnsLeaveNothing ==
  LET made == Range(st.sentBy) \cup {st.agents[a].by : a \in Agents}
                \cup {st.requests[r].by : r \in Requests} IN
  made \cap st.undone = {}

(* A supervisor is told of a child that stopped for good, unless it had     *)
(* stopped itself or a handler kept an interrupted run (eval.rs:1618).      *)
EscalationDelivered ==
  ~InTurn /\ ~torn =>
    \A c \in Spawned(st) :
      LET supervisor == st.agents[c].supervisor IN
      ~st.agents[c].running /\ supervisor # None /\ st.agents[c].action # "stop"
        => \/ ~st.agents[supervisor].running
           \/ Failed(c) \in Range(Received(supervisor))
=============================================================================
