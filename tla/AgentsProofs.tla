------------------------------ MODULE AgentsProofs ------------------------------
(***************************************************************************)
(* Proofs about the agent runtime, for every number of agents, messages,   *)
(* requests and turns: no wakeup is lost, nobody waits for more than one   *)
(* turn of each other agent, messages arrive once and in order, failed     *)
(* turns leave nothing, and supervisors are told.                          *)
(*                                                                         *)
(* The invariant is about states: the one the runtime is in, the one a run *)
(* returns to when it is undone, and the one a turn returns to.            *)
(***************************************************************************)
EXTENDS Agents, SequenceTheorems, FiniteSetTheorems, WellFoundedInduction, TLAPS

Finished == {"completed", "dropped", "unrecorded"}
Statuses == {"none", "pending", "dispatching"} \cup Finished

AgentRecords ==
  [mailbox : Seq(Messages), running : BOOLEAN, restarts : Nat, active : BOOLEAN,
   supervisor : Agents \cup {None}, action : {"stop", "restart", "escalate"},
   max : Nat, by : Nat]

RequestRecords ==
  {request \in [status : Statuses, replyTo : Agents \cup {0}, by : Nat] :
     request.status # "none" => request.replyTo \in Agents}

States ==
  [agents : [Agents -> AgentRecords], nextAgent : Nat, ready : Seq(Agents),
   events : 0 .. Limit, requests : [Requests -> RequestRecords], nextRequest : Nat,
   sentBy : Seq(Nat), handled : [Agents -> Seq(Messages)], waits : [Agents -> Nat],
   turn : Nat, undone : SUBSET Nat]

\* Nobody is queued twice, and the turns an agent has waited with its place in the
\* queue are no more than there are agents.
Lined(queue, waits) ==
  /\ \A i, j \in 1 .. Len(queue) : queue[i] = queue[j] => i = j
  /\ \A i \in 1 .. Len(queue) : waits[queue[i]] + i <= Cardinality(Agents)
  /\ \A a \in Agents : ~Contains(queue, a) => waits[a] = 0

\* Whoever can take a turn is queued for one.
Awake(s) ==
  /\ s.nextAgent <= Cardinality(Agents) + 1
  /\ \A a \in Agents :
       LET agent == s.agents[a] IN
       /\ agent.running /\ agent.active /\ agent.mailbox # <<>> => Contains(s.ready, a)
       /\ agent.running \/ agent.mailbox # <<>> \/ Contains(s.ready, a) => a < s.nextAgent
       /\ Len(agent.mailbox) <= Limit /\ agent.restarts <= agent.max
       /\ agent.supervisor < s.nextAgent

\* What there is was made by turns that stand.
Standing(s) == (0 .. s.turn) \ s.undone

Clean(s) ==
  /\ s.undone \subseteq 1 .. s.turn
  /\ \A i \in 1 .. Len(s.sentBy) : s.sentBy[i] \in Standing(s)
  /\ \A a \in Agents : s.agents[a].by \in Standing(s)
  /\ \A r \in Requests : s.requests[r].by \in Standing(s)

\* All an agent was ever given: h is what is in hand.
NoHand == [a \in Agents |-> <<>>]
InboxOf(s, h, a) == (s.handled[a] \o h[a]) \o s.agents[a].mailbox

Once(s, h) ==
  \A a, b \in Agents :
    \A i \in 1 .. Len(InboxOf(s, h, a)), j \in 1 .. Len(InboxOf(s, h, b)) :
      InboxOf(s, h, a)[i] = InboxOf(s, h, b)[j] => a = b /\ i = j

Ordered(s, h) ==
  \A a \in Agents : \A i, j \in 1 .. Len(InboxOf(s, h, a)) :
    i < j /\ InboxOf(s, h, a)[i].kind = "user" /\ InboxOf(s, h, a)[j].kind = "user"
      => InboxOf(s, h, a)[i].n < InboxOf(s, h, a)[j].n

\* A message says what the state says: it was sent, its request was completed, its
\* child has stopped.
Truthful(s, m) ==
  /\ m.kind = "user" => m.n <= Len(s.sentBy)
  /\ m.kind = "model-result" => s.requests[m.n].status \in Finished
  /\ m.kind = "child-failed" => m.n < s.nextAgent /\ ~s.agents[m.n].running

Delivered(s, h) ==
  /\ Len(s.sentBy) <= MaxMessages
  /\ \A r \in Requests : r >= s.nextRequest => s.requests[r].status = "none"
  /\ \A a \in Agents : \A i \in 1 .. Len(InboxOf(s, h, a)) : Truthful(s, InboxOf(s, h, a)[i])
  /\ Once(s, h) /\ Ordered(s, h)

Has(s, h, a, m) == \E i \in 1 .. Len(InboxOf(s, h, a)) : InboxOf(s, h, a)[i] = m

Users(s, h) ==
  \A n \in 1 .. Len(s.sentBy) : \E a \in Agents : Has(s, h, a, User(n))

\* What became of a request's result.
AccountOf(s, h, r) ==
  LET request == s.requests[r]
      a == request.replyTo IN
  /\ request.status # "none" => a < s.nextAgent
  /\ request.status = "completed" => Has(s, h, a, Result(r))
  /\ request.status = "dropped"
       => ~s.agents[a].running \/ Len(InboxOf(s, h, a)) >= Limit
  /\ request.status = "unrecorded" => s.events = Limit

Accounted(s, h) == \A r \in Requests : AccountOf(s, h, r)

\* Nothing sent is missing.
Complete(s, h) == Users(s, h) /\ Accounted(s, h)

Told(s, h) ==
  \A c \in Agents :
    LET agent == s.agents[c] IN
    c < s.nextAgent /\ ~agent.running /\ agent.supervisor # None /\ agent.action # "stop"
      => \/ ~s.agents[agent.supervisor].running
         \/ Has(s, h, agent.supervisor, Failed(c))

Sound(s) == s \in States /\ Awake(s) /\ Lined(s.ready, s.waits) /\ Clean(s)

Good(s, h) ==
  Sound(s) /\ Delivered(s, h) /\ (torn \/ (Complete(s, h) /\ Told(s, h)))

Jobs ==
  {Idle} \cup [pc : {"run"}, left : Nat, base : States]
    \cup [pc : {"turn"}, left : Nat, base : States, agent : Agents,
          message : Messages, checkpoint : States]

Hand ==
  [a \in Agents |-> IF job.pc = "turn" /\ job.agent = a THEN <<job.message>> ELSE <<>>]

\* The turn in progress can be undone.
Undoable ==
  LET s == job.checkpoint IN
  /\ Good(s, Hand) /\ s.agents[job.agent].running /\ job.left > 0
  /\ s.turn = st.turn /\ s.turn > 0 /\ s.turn \notin s.undone \cup st.undone
  /\ \A i \in 1 .. Len(s.sentBy) : s.sentBy[i] # s.turn
  /\ \A a \in Agents : s.agents[a].by # s.turn
  /\ \A r \in Requests : s.requests[r].by # s.turn

AgentsInv ==
  /\ torn \in BOOLEAN /\ job \in Jobs
  /\ Good(st, Hand)
  /\ job.pc # "idle" => Good(job.base, NoHand)
  /\ job.pc = "turn" => Undoable

-----------------------------------------------------------------------------
(* The constants, and the first of a sequence.                             *)

LEMMA Constants ==
  /\ Cardinality(Agents) \in Nat /\ Agents = 1 .. Cardinality(Agents)
  /\ Agents \subseteq Nat /\ None \notin Agents /\ 0 \notin Agents /\ Cardinality(Agents) >= 1
  /\ Limit \in Nat /\ MaxMessages \in Nat /\ Requests \subseteq Nat
<1>1. /\ IsFiniteSet(Agents) /\ Agents = 1 .. Cardinality(Agents)
      /\ Requests = 1 .. Cardinality(Requests) /\ IsFiniteSet(Requests)
      /\ Limit \in Nat /\ MaxMessages \in Nat /\ Len(FirstAgents) \in Agents
  BY AgentsConstants
<1>2. Cardinality(Agents) \in Nat /\ Cardinality(Requests) \in Nat
  BY <1>1, FS_CardinalityType
<1> QED
  BY <1>1, <1>2 DEF None

LEMMA LeastOf ==
  ASSUME NEW S, S \subseteq Nat, S # {}
  PROVE  Min(S) \in S /\ \A n \in S : Min(S) <= n
<1> DEFINE R == {ss \in Nat \X Nat : ss[1] < ss[2]}
<1>1. IsWellFoundedOn(R, Nat)
  BY NatLessThanWellFounded DEF OpToRel
<1>2. PICK n \in S : \A m \in S : ~(<<m, n>> \in R)
  <2> HIDE DEF R
  <2> QED
    BY <1>1, WFMin
<1>3. ASSUME NEW m \in S PROVE n <= m
  <2>1. m \in Nat /\ n \in Nat
    OBVIOUS
  <2>2. m < n => <<m, n>> \in R
    BY <2>1
  <2>3. ~(<<m, n>> \in R)
    <3> HIDE DEF R
    <3> QED
      BY <1>2
  <2> QED
    BY <2>1, <2>2, <2>3
<1> QED
  BY <1>3 DEF Min

\* A sequence without repetitions over the agents is no longer than there are agents.
LEMMA NoLonger ==
  ASSUME NEW q \in Seq(Agents), \A i, j \in 1 .. Len(q) : q[i] = q[j] => i = j
  PROVE  Len(q) <= Cardinality(Agents)
<1>1. Len(q) \in Nat /\ q \in [1 .. Len(q) -> Agents]
  BY LenProperties
<1>2. IsFiniteSet(Agents) /\ Cardinality(Agents) \in Nat
  BY AgentsConstants, Constants
<1>3. IsFiniteSet(1 .. Len(q)) /\ Cardinality(1 .. Len(q)) = Len(q)
  BY <1>1, FS_Interval
<1>4. ~(Cardinality(Agents) < Cardinality(1 .. Len(q)))
  BY <1>1, <1>2, <1>3, FS_PigeonHole
<1> QED
  BY <1>1, <1>2, <1>3, <1>4

-----------------------------------------------------------------------------
(* The ready queue.                                                        *)

LEMMA QueueAppend ==
  ASSUME NEW q \in Seq(Agents), NEW w \in [Agents -> Nat], Lined(q, w),
         NEW a \in Agents, ~Contains(q, a)
  PROVE  LET p == Append(q, a)
         IN  p \in Seq(Agents) /\ Lined(p, w) /\ \A b : Contains(p, b) <=> Contains(q, b) \/ b = a
<1> DEFINE p == Append(q, a)
<1>1. /\ Len(q) \in Nat /\ p \in Seq(Agents) /\ Len(p) = Len(q) + 1
      /\ \A i \in 1 .. Len(q) : p[i] = q[i] /\ q[i] \in Agents
      /\ p[Len(q) + 1] = a
  BY AppendProperties, LenProperties, ElementOfSeq
<1> HIDE DEF p
<1>2. \A i \in 1 .. Len(p) : i \in 1 .. Len(q) \/ i = Len(q) + 1
  BY <1>1
<1>3. Len(q) + 1 \in 1 .. Len(p) /\ \A i \in 1 .. Len(q) : i \in 1 .. Len(p)
  BY <1>1
<1>4. \A b : Contains(p, b) <=> Contains(q, b) \/ b = a
  BY <1>1, <1>2, <1>3 DEF Contains
<1>5. \A i, j \in 1 .. Len(p) : p[i] = p[j] => i = j
  BY <1>1, <1>2 DEF Lined, Contains
<1>6. Len(p) <= Cardinality(Agents) /\ w[a] = 0
  BY <1>1, <1>5, NoLonger DEF Lined
<1>7. \A i \in 1 .. Len(p) : w[p[i]] + i <= Cardinality(Agents)
  <2>1. \A i \in 1 .. Len(q) : w[q[i]] + i <= Cardinality(Agents)
    BY DEF Lined
  <2>2. w[p[Len(q) + 1]] + (Len(q) + 1) <= Cardinality(Agents)
    BY <1>1, <1>6, Constants
  <2> QED
    BY <1>1, <1>2, <2>1, <2>2
<1>8. \A b \in Agents : ~Contains(p, b) => w[b] = 0
  BY <1>4 DEF Lined
<1> QED
  BY <1>1, <1>4, <1>5, <1>7, <1>8 DEF Lined, p

LEMMA QueueRest ==
  ASSUME NEW q \in Seq(Agents), NEW w \in [Agents -> Nat], Lined(q, w), NEW k \in 1 .. Len(q)
  PROVE  LET rest == SubSeq(q, k + 1, Len(q))
             v == [b \in Agents |-> IF b # q[k] /\ Contains(rest, b) THEN w[b] + 1 ELSE 0]
         IN  /\ rest \in Seq(Agents) /\ v \in [Agents -> Nat] /\ Lined(rest, v)
             /\ ~Contains(rest, q[k])
             /\ \A i \in 1 .. Len(q) : k < i => Contains(rest, q[i])
             /\ \A b : Contains(rest, b) => Contains(q, b)
<1> DEFINE rest == SubSeq(q, k + 1, Len(q))
           v == [b \in Agents |-> IF b # q[k] /\ Contains(rest, b) THEN w[b] + 1 ELSE 0]
<1>0. Len(q) \in Nat /\ \A i \in 1 .. Len(q) : q[i] \in Agents
  BY LenProperties, ElementOfSeq
<1>1. /\ rest \in Seq(Agents) /\ Len(rest) = Len(q) - k
      /\ \A i \in 1 .. Len(rest) : rest[i] = q[k + i]
  <2>1. k + 1 \in Int /\ Len(q) \in Int /\ \A i \in k + 1 .. Len(q) : q[i] \in Agents
    BY <1>0
  <2>2. /\ rest \in Seq(Agents) /\ Len(rest) = IF k + 1 <= Len(q) THEN Len(q) - (k + 1) + 1 ELSE 0
        /\ \A i \in 1 .. Len(q) - (k + 1) + 1 : rest[i] = q[(k + 1) + i - 1]
    BY <2>1, SubSeqProperties
  <2> HIDE DEF rest
  <2> QED
    BY <1>0, <2>2
<1> HIDE DEF rest
<1>2. \A i \in 1 .. Len(rest) : k + i \in 1 .. Len(q) /\ k + i # k
  BY <1>0, <1>1
<1>3. \A i \in 1 .. Len(q) : k < i => i - k \in 1 .. Len(rest) /\ k + (i - k) = i
  BY <1>0, <1>1
<1>12. \A i, j \in 1 .. Len(q) : q[i] = q[j] => i = j
  BY DEF Lined
<1>4. ASSUME NEW i \in 1 .. Len(rest), NEW j \in 1 .. Len(rest), rest[i] = rest[j] PROVE i = j
  <2>1. k + i = k + j
    BY <1>1, <1>2, <1>4, <1>12
  <2> QED
    BY <1>0, <1>1, <2>1
<1>5. ~Contains(rest, q[k])
  <2>1. \A i \in 1 .. Len(rest) : rest[i] # q[k]
    BY <1>1, <1>2, <1>12
  <2> QED
    BY <2>1 DEF Contains
<1>6. \A i \in 1 .. Len(q) : k < i => Contains(rest, q[i])
  <2> TAKE i \in 1 .. Len(q)
  <2> HAVE k < i
  <2>1. i - k \in 1 .. Len(rest) /\ rest[i - k] = q[i]
    BY <1>1, <1>3
  <2> QED
    BY <2>1 DEF Contains
<1>7. \A b : Contains(rest, b) => Contains(q, b)
  BY <1>1, <1>2 DEF Contains
<1>8. v \in [Agents -> Nat]
  OBVIOUS
<1>9. \A i \in 1 .. Len(rest) : v[rest[i]] + i <= Cardinality(Agents)
  <2> TAKE i \in 1 .. Len(rest)
  <2>1. /\ rest[i] = q[k + i] /\ k + i \in 1 .. Len(q) /\ rest[i] \in Agents /\ rest[i] # q[k]
        /\ Contains(rest, rest[i])
    BY <1>0, <1>1, <1>2, <1>5 DEF Contains
  <2>2. w[rest[i]] + (k + i) <= Cardinality(Agents) /\ w[rest[i]] \in Nat
    BY <2>1 DEF Lined
  <2>3. v[rest[i]] = w[rest[i]] + 1
    BY <2>1
  <2> HIDE DEF v
  <2> QED
    BY <1>0, <2>2, <2>3, Constants
<1>10. \A b \in Agents : ~Contains(rest, b) => v[b] = 0
  OBVIOUS
<1>11. Lined(rest, v)
  BY <1>4, <1>9, <1>10 DEF Lined
<1> QED
  BY <1>1, <1>5, <1>6, <1>7, <1>8, <1>11 DEF rest

LEMMA QueueRemove ==
  ASSUME NEW q \in Seq(Agents), NEW w \in [Agents -> Nat], Lined(q, w), NEW a \in Agents
  PROVE  LET p == RemoveFirst(q, a)
             v == [w EXCEPT ![a] = 0]
         IN  /\ p \in Seq(Agents) /\ v \in [Agents -> Nat] /\ Lined(p, v)
             /\ \A b : Contains(p, b) <=> Contains(q, b) /\ b # a
<1> DEFINE p == RemoveFirst(q, a)
           v == [w EXCEPT ![a] = 0]
<1>0. Len(q) \in Nat /\ \A i \in 1 .. Len(q) : q[i] \in Agents
  BY LenProperties, ElementOfSeq
<1>1. v \in [Agents -> Nat] /\ v[a] = 0 /\ \A b \in Agents : b # a => v[b] = w[b]
  OBVIOUS
<1>2. CASE ~Contains(q, a)
  <2>1. p = q
    BY <1>2 DEF RemoveFirst, Contains
  <2>2. Lined(q, v)
    BY <1>0, <1>1, <1>2 DEF Lined, Contains
  <2>3. \A b : Contains(q, b) => b # a
    BY <1>2
  <2> HIDE DEF p, v
  <2> QED
    BY <1>1, <2>1, <2>2, <2>3 DEF p, v
<1>3. CASE Contains(q, a)
  <2> DEFINE I == {i \in 1 .. Len(q) : q[i] = a}
             k == Min(I)
  <2>1. I \subseteq Nat /\ I # {}
    BY <1>3 DEF Contains
  <2>2. k \in I
    <3> HIDE DEF I
    <3> QED
      BY <2>1, LeastOf
  <2>3. p = SubSeq(q, 1, k - 1) \o SubSeq(q, k + 1, Len(q))
    BY <1>3, <2>1 DEF RemoveFirst, RemoveAt, SelectInSeq, Contains
  <2>4. k \in 1 .. Len(q) /\ q[k] = a
    BY <2>2
  <2> HIDE DEF I, k, p
  <2> DEFINE x == SubSeq(q, 1, k - 1)
             y == SubSeq(q, k + 1, Len(q))
  <2>5. /\ x \in Seq(Agents) /\ Len(x) = k - 1
        /\ \A i \in 1 .. Len(x) : x[i] = q[i]
    <3>1. k - 1 \in Int /\ \A i \in 1 .. k - 1 : q[i] \in Agents
      BY <1>0, <2>4
    <3>2. /\ x \in Seq(Agents) /\ Len(x) = IF 1 <= k - 1 THEN k - 1 - 1 + 1 ELSE 0
          /\ \A i \in 1 .. k - 1 - 1 + 1 : x[i] = q[1 + i - 1]
      BY <3>1, SubSeqProperties
    <3> HIDE DEF x
    <3> QED
      BY <1>0, <2>4, <3>2
  <2>6. /\ y \in Seq(Agents) /\ Len(y) = Len(q) - k
        /\ \A i \in 1 .. Len(y) : y[i] = q[k + i]
    <3>1. k + 1 \in Int /\ Len(q) \in Int /\ \A i \in k + 1 .. Len(q) : q[i] \in Agents
      BY <1>0, <2>4
    <3>2. /\ y \in Seq(Agents) /\ Len(y) = IF k + 1 <= Len(q) THEN Len(q) - (k + 1) + 1 ELSE 0
          /\ \A i \in 1 .. Len(q) - (k + 1) + 1 : y[i] = q[(k + 1) + i - 1]
      BY <3>1, SubSeqProperties
    <3> HIDE DEF y
    <3> QED
      BY <1>0, <2>4, <3>2
  <2> HIDE DEF x, y
  <2>16. k \in Nat /\ k >= 1 /\ k <= Len(q)
    BY <1>0, <2>4
  <2>7. /\ p \in Seq(Agents) /\ Len(p) = Len(x) + Len(y)
        /\ \A i \in 1 .. Len(x) + Len(y) : p[i] = IF i <= Len(x) THEN x[i] ELSE y[i - Len(x)]
    BY <2>3, <2>5, <2>6, ConcatProperties DEF x, y
  <2>17. Len(p) = Len(q) - 1
    BY <1>0, <2>5, <2>6, <2>7, <2>16
  <2>18. \A i, j \in 1 .. Len(q) : q[i] = q[j] => i = j
    BY DEF Lined
  \* Where an entry was, and where it goes.
  <2> DEFINE from(i) == IF i < k THEN i ELSE i + 1
             to(i)   == IF i < k THEN i ELSE i - 1
  <2>8. \A i \in 1 .. Len(p) : from(i) \in 1 .. Len(q) /\ from(i) # k /\ from(i) >= i /\ p[i] = q[from(i)]
    <3> TAKE i \in 1 .. Len(p)
    <3>0. i \in 1 .. Len(x) + Len(y)
      BY <2>7
    <3>1. CASE i < k
      <4>1. i \in 1 .. Len(x) /\ i <= Len(x) /\ i \in 1 .. Len(q)
        BY <1>0, <2>5, <2>16, <2>17, <3>1
      <4>2. p[i] = q[i]
        BY <2>5, <2>7, <3>0, <4>1
      <4> QED
        BY <1>0, <2>16, <3>1, <4>1, <4>2
    <3>2. CASE ~(i < k)
      <4>0. i \in Nat /\ i <= Len(q) - 1 /\ Len(x) = k - 1 /\ Len(y) = Len(q) - k
        BY <1>0, <2>5, <2>6, <2>17
      <4>1. i - Len(x) \in 1 .. Len(y) /\ k + (i - Len(x)) = i + 1 /\ ~(i <= Len(x))
        BY <1>0, <2>16, <3>2, <4>0
      <4>2. p[i] = q[i + 1]
        BY <2>6, <2>7, <3>0, <4>1
      <4>3. i + 1 \in 1 .. Len(q) /\ i + 1 # k /\ i + 1 >= i
        BY <1>0, <2>16, <3>2, <4>0
      <4> QED
        BY <3>2, <4>2, <4>3
    <3> QED
      BY <3>1, <3>2
  <2>9. \A i \in 1 .. Len(q) : i # k => to(i) \in 1 .. Len(p) /\ from(to(i)) = i
    BY <1>0, <2>16, <2>17
  <2>10. \A i, j \in 1 .. Len(p) : from(i) = from(j) => i = j
    BY <1>0, <2>16, <2>17
  <2> HIDE DEF from, to
  <2>11. \A b : Contains(p, b) <=> Contains(q, b) /\ b # a
    <3>1. ASSUME NEW b, Contains(p, b) PROVE Contains(q, b) /\ b # a
      <4>1. PICK i \in 1 .. Len(p) : p[i] = b
        BY <3>1 DEF Contains
      <4>2. from(i) \in 1 .. Len(q) /\ from(i) # k /\ q[from(i)] = b
        BY <2>8, <4>1
      <4> QED
        BY <2>4, <2>18, <4>2 DEF Contains
    <3>2. ASSUME NEW b, Contains(q, b), b # a PROVE Contains(p, b)
      <4>1. PICK i \in 1 .. Len(q) : q[i] = b
        BY <3>2 DEF Contains
      <4>2. i # k
        BY <2>4, <3>2, <4>1
      <4>3. to(i) \in 1 .. Len(p) /\ p[to(i)] = b
        BY <2>8, <2>9, <4>1, <4>2
      <4> QED
        BY <4>3 DEF Contains
    <3> QED
      BY <3>1, <3>2
  <2>12. \A i, j \in 1 .. Len(p) : p[i] = p[j] => i = j
    BY <2>8, <2>10, <2>18
  <2>13. \A i \in 1 .. Len(p) : v[p[i]] + i <= Cardinality(Agents)
    <3> TAKE i \in 1 .. Len(p)
    <3>1. /\ p[i] = q[from(i)] /\ from(i) \in 1 .. Len(q) /\ from(i) >= i
          /\ p[i] \in Agents /\ p[i] # a
      BY <1>0, <2>4, <2>8 DEF Lined
    <3>2. w[p[i]] + from(i) <= Cardinality(Agents) /\ w[p[i]] \in Nat
      BY <3>1 DEF Lined
    <3> QED
      BY <1>1, <3>1, <3>2, Constants
  <2>14. \A b \in Agents : ~Contains(p, b) => v[b] = 0
    BY <1>1, <2>11 DEF Lined
  <2>15. Lined(p, v)
    BY <2>12, <2>13, <2>14 DEF Lined
  <2> QED
    BY <1>1, <2>7, <2>11, <2>15 DEF p
<1> QED
  BY <1>2, <1>3

LEMMA FirstRunnable ==
  ASSUME st \in States
  PROVE  LET k == NextRunnable IN
         /\ k # 0 => /\ k \in 1 .. Len(st.ready) /\ Runnable(st.ready[k])
                     /\ \A i \in 1 .. Len(st.ready) : i < k => ~Runnable(st.ready[i])
         /\ k = 0 => \A i \in 1 .. Len(st.ready) : ~Runnable(st.ready[i])
<1> DEFINE I == {i \in 1 .. Len(st.ready) : Runnable(st.ready[i])}
<1>1. NextRunnable = IF I # {} THEN Min(I) ELSE 0
  BY DEF NextRunnable, SelectInSeq
<1>2. I \subseteq Nat /\ 0 \notin I
  OBVIOUS
<1>3. I # {} => Min(I) \in I /\ \A n \in I : Min(I) <= n
  <2> HIDE DEF I
  <2> QED
    BY <1>2, LeastOf
<1>4. \A i \in I : i \in Nat
  BY <1>2
<1>5. CASE I = {}
  BY <1>1, <1>5
<1>6. CASE I # {}
  <2>1. NextRunnable \in I /\ \A n \in I : NextRunnable <= n
    BY <1>1, <1>3, <1>6
  <2>2. ASSUME NEW i \in 1 .. Len(st.ready), i < NextRunnable PROVE i \notin I
    BY <1>4, <2>1, <2>2
  <2> QED
    BY <1>2, <2>1, <2>2
<1> QED
  BY <1>5, <1>6

-----------------------------------------------------------------------------
(* What the operations change of a state.                                  *)

\* Nothing but the length of the event log, which never shrinks.
Alike(s, t) ==
  /\ s.events <= t.events
  /\ t.agents = s.agents /\ t.nextAgent = s.nextAgent /\ t.ready = s.ready
  /\ t.requests = s.requests /\ t.nextRequest = s.nextRequest /\ t.sentBy = s.sentBy
  /\ t.handled = s.handled /\ t.waits = s.waits /\ t.turn = s.turn /\ t.undone = s.undone

LEMMA Recorded ==
  ASSUME NEW s \in States
  PROVE  RecordEvent(s).state \in States /\ Alike(s, RecordEvent(s).state)
<1>0. s.events \in 0 .. Limit /\ Limit \in Nat /\ s.events <= s.events
  BY Constants DEF States
<1>1. CASE s.events < Limit
  <2> DEFINE t == [s EXCEPT !.events = @ + 1]
  <2>1. s.events + 1 \in 0 .. Limit /\ s.events <= s.events + 1
    BY <1>0, <1>1
  <2>2. t \in States /\ Alike(s, t)
    BY <2>1 DEF States, Alike
  <2>3. RecordEvent(s).state = t
    BY <1>1 DEF RecordEvent, Done
  <2> QED
    BY <2>2, <2>3
<1>2. CASE ~(s.events < Limit)
  BY <1>0, <1>2 DEF RecordEvent, Resource, Alike
<1> QED
  BY <1>1, <1>2

LEMMA AlikeHolds ==
  ASSUME NEW s, NEW t \in States, Alike(s, t), NEW h
  PROVE  /\ \A a : InboxOf(t, h, a) = InboxOf(s, h, a)
         /\ Sound(s) => Sound(t)
         /\ Delivered(s, h) => Delivered(t, h)
         /\ Users(s, h) => Users(t, h)
         /\ Complete(s, h) => Complete(t, h)
         /\ Told(s, h) => Told(t, h)
<1>1. \A a : InboxOf(t, h, a) = InboxOf(s, h, a)
  BY DEF Alike, InboxOf
<1>2. Sound(s) => Sound(t)
  BY DEF Alike, Sound, Awake, Clean, Standing
<1>3. Delivered(s, h) => Delivered(t, h)
  BY <1>1 DEF Alike, Delivered, Truthful, Once, Ordered
<1>4. Users(s, h) => Users(t, h)
  BY <1>1 DEF Alike, Users, Has
<1>6. s.events = Limit => t.events = Limit
  BY Constants DEF Alike, States
<1>7. Accounted(s, h) => Accounted(t, h)
  BY <1>1, <1>6 DEF Alike, Accounted, AccountOf, Has
<1>5. Told(s, h) => Told(t, h)
  BY <1>1 DEF Alike, Told, Has
<1> QED
  BY <1>1, <1>2, <1>3, <1>4, <1>5, <1>7 DEF Complete

\* Agent a gains message m; all that is not about the queue stays.
Gains(s, t, a, m) ==
  /\ t.agents[a].mailbox = Append(s.agents[a].mailbox, m)
  /\ \A b \in Agents :
       /\ b # a => t.agents[b].mailbox = s.agents[b].mailbox
       /\ t.agents[b].running = s.agents[b].running /\ t.agents[b].by = s.agents[b].by
       /\ t.agents[b].supervisor = s.agents[b].supervisor
       /\ t.agents[b].action = s.agents[b].action
  /\ t.handled = s.handled /\ t.requests = s.requests /\ t.nextRequest = s.nextRequest
  /\ t.sentBy = s.sentBy /\ t.nextAgent = s.nextAgent /\ t.turn = s.turn /\ t.undone = s.undone
  /\ s.events <= t.events

LEMMA ScheduleOf ==
  ASSUME NEW s \in States, NEW a \in Agents, Lined(s.ready, s.waits)
  PROVE  LET t == Schedule(s, a) IN
         /\ t \in States /\ t.ready \in Seq(Agents) /\ Lined(t.ready, t.waits)
         /\ \A b : Contains(t.ready, b) <=> Contains(s.ready, b) \/ b = a
         /\ t.agents = s.agents /\ t.nextAgent = s.nextAgent /\ t.requests = s.requests
         /\ t.nextRequest = s.nextRequest /\ t.sentBy = s.sentBy /\ t.handled = s.handled
         /\ t.turn = s.turn /\ t.undone = s.undone /\ t.events = s.events
<1>1. s.ready \in Seq(Agents) /\ s.waits \in [Agents -> Nat]
  BY DEF States
<1>2. CASE Contains(s.ready, a)
  BY <1>1, <1>2 DEF Schedule
<1>3. CASE ~Contains(s.ready, a)
  <2> DEFINE q == Append(s.ready, a)
             t == [s EXCEPT !.ready = q]
  <2>1. Schedule(s, a) = t
    BY <1>3 DEF Schedule
  <2>2. q \in Seq(Agents) /\ Lined(q, s.waits) /\ \A b : Contains(q, b) <=> Contains(s.ready, b) \/ b = a
    BY <1>1, <1>3, QueueAppend
  <2> HIDE DEF q
  <2>3. /\ t \in States /\ t.ready = q /\ t.waits = s.waits
        /\ t.agents = s.agents /\ t.nextAgent = s.nextAgent /\ t.requests = s.requests
        /\ t.nextRequest = s.nextRequest /\ t.sentBy = s.sentBy /\ t.handled = s.handled
        /\ t.turn = s.turn /\ t.undone = s.undone /\ t.events = s.events
    BY <2>2 DEF States
  <2> HIDE DEF t
  <2> QED
    BY <2>1, <2>2, <2>3
<1> QED
  BY <1>2, <1>3

\* The message is in the mailbox.
LEMMA PutOf ==
  ASSUME NEW s \in States, NEW a \in Agents, NEW m \in Messages
  PROVE  LET t == [s EXCEPT !.agents[a].mailbox = Append(@, m)] IN
         /\ t \in States /\ Gains(s, t, a, m) /\ t.ready = s.ready /\ t.waits = s.waits
         /\ t.agents[a].mailbox # <<>> /\ Len(t.agents[a].mailbox) = Len(s.agents[a].mailbox) + 1
         /\ \A b \in Agents : /\ t.agents[b].active = s.agents[b].active
                              /\ t.agents[b].restarts = s.agents[b].restarts
                              /\ t.agents[b].max = s.agents[b].max
<1> DEFINE mailbox == Append(s.agents[a].mailbox, m)
           agent == [s.agents[a] EXCEPT !.mailbox = mailbox]
           t == [s EXCEPT !.agents[a].mailbox = Append(@, m)]
<1>1. s.agents \in [Agents -> AgentRecords] /\ s.agents[a].mailbox \in Seq(Messages)
  BY DEF States, AgentRecords
<1>2. mailbox \in Seq(Messages) /\ Len(mailbox) = Len(s.agents[a].mailbox) + 1
  BY <1>1, AppendProperties
<1>3. mailbox # <<>>
  BY <1>1, <1>2, LenProperties, EmptySeq
<1>4. t = [s EXCEPT !.agents = [@ EXCEPT ![a] = agent]]
  BY <1>1 DEF States, AgentRecords
<1> HIDE DEF mailbox
<1>5. /\ agent \in AgentRecords /\ agent.mailbox = mailbox /\ agent.running = s.agents[a].running
      /\ agent.by = s.agents[a].by /\ agent.supervisor = s.agents[a].supervisor
      /\ agent.action = s.agents[a].action /\ agent.active = s.agents[a].active
      /\ agent.restarts = s.agents[a].restarts /\ agent.max = s.agents[a].max
  BY <1>1, <1>2 DEF AgentRecords
<1> HIDE DEF agent
<1>6. /\ t \in States /\ t.agents = [s.agents EXCEPT ![a] = agent]
      /\ t.ready = s.ready /\ t.waits = s.waits
      /\ t.handled = s.handled /\ t.requests = s.requests /\ t.nextRequest = s.nextRequest
      /\ t.sentBy = s.sentBy /\ t.nextAgent = s.nextAgent /\ t.turn = s.turn /\ t.undone = s.undone
      /\ t.events = s.events
  BY <1>1, <1>4, <1>5 DEF States
<1> HIDE DEF t
<1>9. s.events <= t.events
  BY <1>6, Constants DEF States
<1>7. t.agents[a] = agent /\ \A b \in Agents : b # a => t.agents[b] = s.agents[b]
  BY <1>1, <1>6
<1>8. /\ t.agents[a].mailbox = mailbox
      /\ \A b \in Agents :
       /\ b # a => t.agents[b].mailbox = s.agents[b].mailbox
       /\ t.agents[b].running = s.agents[b].running /\ t.agents[b].by = s.agents[b].by
       /\ t.agents[b].supervisor = s.agents[b].supervisor
       /\ t.agents[b].action = s.agents[b].action
       /\ t.agents[b].active = s.agents[b].active
       /\ t.agents[b].restarts = s.agents[b].restarts
       /\ t.agents[b].max = s.agents[b].max
  BY <1>5, <1>7
<1> QED
  BY <1>2, <1>3, <1>6, <1>8, <1>9 DEF Gains, mailbox, t

-----------------------------------------------------------------------------
(* The operations keep a sound state sound.                                *)

LEMMA GainSound ==
  ASSUME NEW s, Sound(s), NEW a \in Agents, NEW m \in Messages,
         s.agents[a].running, Len(s.agents[a].mailbox) < Limit
  PROVE  LET put == [s EXCEPT !.agents[a].mailbox = Append(@, m)]
             t   == IF s.agents[a].active THEN Schedule(put, a) ELSE put
         IN  Sound(t) /\ Gains(s, t, a, m)
<1> DEFINE put == [s EXCEPT !.agents[a].mailbox = Append(@, m)]
           t   == IF s.agents[a].active THEN Schedule(put, a) ELSE put
<1>0. s \in States /\ Awake(s) /\ Clean(s) /\ Lined(s.ready, s.waits)
  BY DEF Sound
<1>1. /\ put \in States /\ Gains(s, put, a, m) /\ put.ready = s.ready /\ put.waits = s.waits
      /\ Len(put.agents[a].mailbox) = Len(s.agents[a].mailbox) + 1
      /\ \A b \in Agents : /\ put.agents[b].active = s.agents[b].active
                           /\ put.agents[b].restarts = s.agents[b].restarts
                           /\ put.agents[b].max = s.agents[b].max
  BY <1>0, PutOf
<1> HIDE DEF put
<1>2. /\ t \in States /\ t.ready \in Seq(Agents) /\ Lined(t.ready, t.waits)
      /\ \A b : Contains(t.ready, b) <=> Contains(s.ready, b) \/ (b = a /\ s.agents[a].active)
      /\ t.agents = put.agents /\ t.nextAgent = s.nextAgent /\ t.requests = s.requests
      /\ t.nextRequest = s.nextRequest /\ t.sentBy = s.sentBy /\ t.handled = s.handled
      /\ t.turn = s.turn /\ t.undone = s.undone /\ s.events <= t.events
  <2>1. CASE s.agents[a].active
    <3>1. Lined(put.ready, put.waits) /\ put \in States
      BY <1>0, <1>1
    <3>2. t = Schedule(put, a)
      BY <2>1
    <3>4. LET u == Schedule(put, a) IN
          /\ u \in States /\ u.ready \in Seq(Agents) /\ Lined(u.ready, u.waits)
          /\ \A b : Contains(u.ready, b) <=> Contains(put.ready, b) \/ b = a
          /\ u.agents = put.agents /\ u.nextAgent = put.nextAgent /\ u.requests = put.requests
          /\ u.nextRequest = put.nextRequest /\ u.sentBy = put.sentBy /\ u.handled = put.handled
          /\ u.turn = put.turn /\ u.undone = put.undone /\ u.events = put.events
      BY <3>1, ScheduleOf
    <3> HIDE DEF t
    <3>5. /\ t \in States /\ t.ready \in Seq(Agents) /\ Lined(t.ready, t.waits)
          /\ \A b : Contains(t.ready, b) <=> Contains(put.ready, b) \/ b = a
          /\ t.agents = put.agents /\ t.nextAgent = put.nextAgent /\ t.requests = put.requests
          /\ t.nextRequest = put.nextRequest /\ t.sentBy = put.sentBy /\ t.handled = put.handled
          /\ t.turn = put.turn /\ t.undone = put.undone /\ t.events = put.events
      BY <3>2, <3>4
    <3>3. \A b : Contains(t.ready, b) <=> Contains(s.ready, b) \/ (b = a /\ s.agents[a].active)
      BY <1>1, <2>1, <3>5
    <3> QED
      BY <1>1, <3>3, <3>5 DEF Gains
  <2>2. CASE ~s.agents[a].active
    BY <1>0, <1>1, <2>2 DEF Gains, States
  <2> QED
    BY <2>1, <2>2
<1> HIDE DEF t
<1>3. Gains(s, t, a, m)
  BY <1>1, <1>2 DEF Gains
<1>4. Len(s.agents[a].mailbox) \in Nat /\ Limit \in Nat
  BY <1>0, Constants, LenProperties DEF States, AgentRecords
<1>5. Awake(t)
  <2>1. t.nextAgent <= Cardinality(Agents) + 1
    BY <1>0, <1>2 DEF Awake
  <2>2. ASSUME NEW b \in Agents
        PROVE  LET agent == t.agents[b] IN
               /\ agent.running /\ agent.active /\ agent.mailbox # <<>> => Contains(t.ready, b)
               /\ agent.running \/ agent.mailbox # <<>> \/ Contains(t.ready, b) => b < t.nextAgent
               /\ Len(agent.mailbox) <= Limit /\ agent.restarts <= agent.max
               /\ agent.supervisor < t.nextAgent
    <3>1. LET agent == s.agents[b] IN
               /\ agent.running /\ agent.active /\ agent.mailbox # <<>> => Contains(s.ready, b)
               /\ agent.running \/ agent.mailbox # <<>> \/ Contains(s.ready, b) => b < s.nextAgent
               /\ Len(agent.mailbox) <= Limit /\ agent.restarts <= agent.max
               /\ agent.supervisor < s.nextAgent
      BY <1>0 DEF Awake
    <3>2. CASE b = a
      <4>0. /\ t.agents[a].supervisor = s.agents[a].supervisor
            /\ t.agents[a].running = s.agents[a].running
        BY <1>3 DEF Gains
      <4>1. /\ t.agents[a].active = s.agents[a].active
            /\ t.agents[a].restarts = s.agents[a].restarts /\ t.agents[a].max = s.agents[a].max
            /\ Len(t.agents[a].mailbox) = Len(s.agents[a].mailbox) + 1
        BY <1>1, <1>2
      <4>2. t.agents[a].active => Contains(t.ready, a)
        BY <1>2, <4>1
      <4>3. a < t.nextAgent /\ t.nextAgent = s.nextAgent
        BY <1>2, <3>1, <3>2
      <4>4. Len(t.agents[a].mailbox) <= Limit
        BY <1>4, <4>1
      <4> QED
        BY <3>1, <3>2, <4>0, <4>1, <4>2, <4>3, <4>4
    <3>3. CASE b # a
      BY <1>1, <1>2, <3>1, <3>3 DEF Gains
    <3> QED
      BY <3>2, <3>3
  <2> QED
    BY <2>1, <2>2 DEF Awake
<1>6. Clean(t)
  BY <1>0, <1>3 DEF Clean, Standing, Gains
<1> QED
  BY <1>2, <1>3, <1>5, <1>6 DEF Sound, t, put

\* A message is taken in, or nothing happens.
LEMMA EnqueueOf ==
  ASSUME NEW s, Sound(s), NEW a \in Agents, NEW m \in Messages
  PROVE  LET o == Enqueue(s, a, m) IN
         /\ Sound(o.state)
         /\ \/ o.state = s /\ ~o.ok
            \/ Gains(s, o.state, a, m) /\ s.agents[a].running
         /\ o.ok => Gains(s, o.state, a, m) /\ s.agents[a].running
<1> DEFINE put == [s EXCEPT !.agents[a].mailbox = Append(@, m)]
           t   == IF s.agents[a].active THEN Schedule(put, a) ELSE put
<1>1. CASE ~s.agents[a].running \/ Len(s.agents[a].mailbox) >= Limit
  BY <1>1 DEF Enqueue, Condition, Resource
<1>2. CASE s.agents[a].running /\ ~(Len(s.agents[a].mailbox) >= Limit)
  <2>1. Len(s.agents[a].mailbox) < Limit
    <3>1. Len(s.agents[a].mailbox) \in Nat /\ Limit \in Nat
      BY Constants, LenProperties DEF Sound, States, AgentRecords
    <3> QED
      BY <1>2, <3>1
  <2>2. Sound(t) /\ Gains(s, t, a, m)
    BY <1>2, <2>1, GainSound
  <2>3. Enqueue(s, a, m) = RecordEvent(t)
    BY <1>2 DEF Enqueue
  <2> HIDE DEF t
  <2> DEFINE u == RecordEvent(t).state
  <2>4. u \in States /\ Alike(t, u)
    BY <2>2, Recorded DEF Sound
  <2> HIDE DEF u
  <2>5. Sound(u)
    BY <2>2, <2>4, AlikeHolds
  <2>7. s.events <= u.events
    <3>1. s.events <= t.events /\ t.events <= u.events
      BY <2>2, <2>4 DEF Gains, Alike
    <3>2. s.events \in Nat /\ t.events \in Nat /\ u.events \in Nat
      BY <2>2, <2>4, Constants DEF Sound, States
    <3> QED
      BY <3>1, <3>2
  <2>6. Gains(s, u, a, m)
    BY <2>2, <2>4, <2>7 DEF Gains, Alike
  <2> QED
    BY <1>2, <2>3, <2>5, <2>6 DEF u
<1> QED
  BY <1>1, <1>2

-----------------------------------------------------------------------------
(* What has been delivered.                                                *)

Hands == [Agents -> Seq(Messages)]

LEMMA InboxType ==
  ASSUME NEW s \in States, NEW h \in Hands, NEW a \in Agents
  PROVE  /\ s.handled[a] \in Seq(Messages) /\ h[a] \in Seq(Messages)
         /\ s.agents[a].mailbox \in Seq(Messages)
         /\ InboxOf(s, h, a) \in Seq(Messages) /\ Len(InboxOf(s, h, a)) \in Nat
         /\ \A i \in 1 .. Len(InboxOf(s, h, a)) : InboxOf(s, h, a)[i] \in Messages
<1>1. /\ s.handled[a] \in Seq(Messages) /\ h[a] \in Seq(Messages)
      /\ s.agents[a].mailbox \in Seq(Messages)
  BY DEF States, AgentRecords, Hands
<1>2. s.handled[a] \o h[a] \in Seq(Messages)
  BY <1>1, ConcatProperties
<1>3. InboxOf(s, h, a) \in Seq(Messages)
  BY <1>1, <1>2, ConcatProperties DEF InboxOf
<1> QED
  BY <1>1, <1>3, LenProperties, ElementOfSeq

\* What comes into a mailbox is the last that its agent was given.
LEMMA InboxGrows ==
  ASSUME NEW s \in States, NEW t \in States, NEW h \in Hands, NEW a \in Agents, NEW m \in Messages,
         t.handled = s.handled, t.agents[a].mailbox = Append(s.agents[a].mailbox, m),
         \A b \in Agents : b # a => t.agents[b].mailbox = s.agents[b].mailbox
  PROVE  LET n == Len(InboxOf(s, h, a)) IN
         /\ n \in Nat /\ Len(InboxOf(t, h, a)) = n + 1 /\ InboxOf(t, h, a)[n + 1] = m
         /\ \A i \in 1 .. n : InboxOf(t, h, a)[i] = InboxOf(s, h, a)[i]
         /\ \A b \in Agents : b # a => InboxOf(t, h, b) = InboxOf(s, h, b)
         /\ \A b \in Agents : \A x : Has(t, h, b, x) <=> Has(s, h, b, x) \/ (b = a /\ x = m)
<1> DEFINE g == s.handled[a] \o h[a]
           q == s.agents[a].mailbox
           n == Len(InboxOf(s, h, a))
<1>1. g \in Seq(Messages) /\ q \in Seq(Messages) /\ n \in Nat /\ InboxOf(s, h, a) \in Seq(Messages)
  BY InboxType, ConcatProperties
<1>2. <<m>> \in Seq(Messages) /\ Append(q, m) = q \o <<m>>
  <2> HIDE DEF q
  <2>1. Append(q, m) = q \o <<m>>
    BY <1>1, AppendIsConcat
  <2>2. <<m>> \in Seq(Messages)
    OBVIOUS
  <2> QED
    BY <2>1, <2>2
<1>3. InboxOf(t, h, a) = g \o (q \o <<m>>) /\ InboxOf(s, h, a) = g \o q
  BY <1>2 DEF InboxOf
<1> HIDE DEF g, q
<1>4. g \o (q \o <<m>>) = (g \o q) \o <<m>>
  BY <1>1, <1>2, ConcatAssociative
<1>5. InboxOf(t, h, a) = Append(InboxOf(s, h, a), m)
  BY <1>1, <1>3, <1>4, AppendIsConcat
<1>6. /\ Len(InboxOf(t, h, a)) = n + 1 /\ InboxOf(t, h, a)[n + 1] = m
      /\ \A i \in 1 .. n : InboxOf(t, h, a)[i] = InboxOf(s, h, a)[i]
  BY <1>1, <1>5, AppendProperties
<1>7. \A b \in Agents : b # a => InboxOf(t, h, b) = InboxOf(s, h, b)
  BY DEF InboxOf
<1>8. ASSUME NEW x PROVE Has(t, h, a, x) <=> Has(s, h, a, x) \/ x = m
  <2> HIDE DEF n
  <2>1. \A i \in 1 .. n + 1 : i \in 1 .. n \/ i = n + 1
    BY <1>1
  <2>2. n + 1 \in 1 .. n + 1 /\ \A i \in 1 .. n : i \in 1 .. n + 1
    BY <1>1
  <2> QED
    BY <1>6, <2>1, <2>2 DEF Has, n
<1>9. \A b \in Agents : \A x : Has(t, h, b, x) <=> Has(s, h, b, x) \/ (b = a /\ x = m)
  BY <1>7, <1>8 DEF Has
<1> QED
  BY <1>1, <1>6, <1>7, <1>9

LEMMA MessageNumbers ==
  \A x \in Messages : /\ x.n \in Nat /\ x.kind \in {"user", "child-failed", "model-result"}
                      /\ x.kind = "user" => x.n \in 1 .. MaxMessages /\ x = User(x.n)
                      /\ x.kind = "child-failed" => x.n \in Agents /\ x = Failed(x.n)
                      /\ x.kind = "model-result" => x.n \in Requests /\ x = Result(x.n)
BY Constants DEF Messages, User, Failed, Result

LEMMA GrowDelivered ==
  ASSUME NEW s \in States, NEW t \in States, NEW h \in Hands, NEW a \in Agents, NEW m \in Messages,
         t.handled = s.handled, t.agents[a].mailbox = Append(s.agents[a].mailbox, m),
         \A b \in Agents : b # a => t.agents[b].mailbox = s.agents[b].mailbox,
         Delivered(s, h), Len(t.sentBy) <= MaxMessages,
         \A r \in Requests : r >= t.nextRequest => t.requests[r].status = "none",
         \A x \in Messages : Truthful(s, x) => Truthful(t, x),
         Truthful(t, m), \A b \in Agents : ~Has(s, h, b, m),
         m.kind = "user" => m.n > Len(s.sentBy)
  PROVE  Delivered(t, h)
<1> DEFINE n == Len(InboxOf(s, h, a))
<1>0. /\ n \in Nat /\ Len(InboxOf(t, h, a)) = n + 1 /\ InboxOf(t, h, a)[n + 1] = m
      /\ \A i \in 1 .. n : InboxOf(t, h, a)[i] = InboxOf(s, h, a)[i]
      /\ \A b \in Agents : b # a => InboxOf(t, h, b) = InboxOf(s, h, b)
  BY InboxGrows
<1>1. \A i \in 1 .. Len(InboxOf(t, h, a)) : i \in 1 .. n \/ i = n + 1
  BY <1>0
\* What is in an inbox now was there, or is the new message at the end of a's.
<1>2. ASSUME NEW b \in Agents, NEW i \in 1 .. Len(InboxOf(t, h, b))
      PROVE  \/ i \in 1 .. Len(InboxOf(s, h, b)) /\ InboxOf(t, h, b)[i] = InboxOf(s, h, b)[i]
             \/ b = a /\ i = n + 1 /\ InboxOf(t, h, b)[i] = m
  BY <1>0, <1>1
<1>3. \A b \in Agents : \A i \in 1 .. Len(InboxOf(s, h, b)) :
        InboxOf(s, h, b)[i] \in Messages /\ InboxOf(s, h, b)[i] # m
  BY InboxType DEF Has
<1>4. /\ \A b \in Agents : \A i \in 1 .. Len(InboxOf(s, h, b)) : Truthful(s, InboxOf(s, h, b)[i])
      /\ Once(s, h) /\ Ordered(s, h)
  BY DEF Delivered
<1>5. \A b \in Agents : \A i \in 1 .. Len(InboxOf(t, h, b)) : Truthful(t, InboxOf(t, h, b)[i])
  BY <1>2, <1>3, <1>4
<1>6. Once(t, h)
  <2> SUFFICES ASSUME NEW b \in Agents, NEW c \in Agents,
                      NEW i \in 1 .. Len(InboxOf(t, h, b)), NEW j \in 1 .. Len(InboxOf(t, h, c)),
                      InboxOf(t, h, b)[i] = InboxOf(t, h, c)[j]
               PROVE  b = c /\ i = j
    BY DEF Once
  <2>1. CASE i \in 1 .. Len(InboxOf(s, h, b)) /\ InboxOf(t, h, b)[i] = InboxOf(s, h, b)[i]
    <3>1. InboxOf(t, h, c)[j] # m
      BY <1>3, <2>1
    <3>2. j \in 1 .. Len(InboxOf(s, h, c)) /\ InboxOf(t, h, c)[j] = InboxOf(s, h, c)[j]
      BY <1>2, <3>1
    <3>3. InboxOf(s, h, b)[i] = InboxOf(s, h, c)[j]
      BY <2>1, <3>2
    <3> QED
      BY <1>4, <2>1, <3>2, <3>3 DEF Once
  <2>2. CASE b = a /\ i = n + 1 /\ InboxOf(t, h, b)[i] = m
    <3>1. InboxOf(t, h, c)[j] = m
      BY <2>2
    <3>2. ~(j \in 1 .. Len(InboxOf(s, h, c)) /\ InboxOf(t, h, c)[j] = InboxOf(s, h, c)[j])
      BY <1>3, <3>1
    <3> QED
      BY <1>2, <2>2, <3>2
  <2> QED
    BY <1>2, <2>1, <2>2
<1>7. Ordered(t, h)
  <2> SUFFICES ASSUME NEW b \in Agents,
                      NEW i \in 1 .. Len(InboxOf(t, h, b)), NEW j \in 1 .. Len(InboxOf(t, h, b)),
                      i < j, InboxOf(t, h, b)[i].kind = "user", InboxOf(t, h, b)[j].kind = "user"
               PROVE  InboxOf(t, h, b)[i].n < InboxOf(t, h, b)[j].n
    BY DEF Ordered
  <2>1. CASE b = a /\ j = n + 1 /\ InboxOf(t, h, b)[j] = m
    <3>1. i \in 1 .. Len(InboxOf(s, h, b)) /\ InboxOf(t, h, b)[i] = InboxOf(s, h, b)[i]
      BY <1>0, <1>2, <2>1
    <3>2. InboxOf(t, h, b)[i].n <= Len(s.sentBy) /\ InboxOf(t, h, b)[i] \in Messages
      BY <1>3, <1>4, <3>1 DEF Truthful
    <3>3. InboxOf(t, h, b)[i].n \in Nat /\ m.n \in Nat
      BY <3>2, MessageNumbers
    <3>4. Len(s.sentBy) \in Nat
      BY LenProperties DEF States
    <3> QED
      BY <2>1, <3>2, <3>3, <3>4
  <2>2. CASE j \in 1 .. Len(InboxOf(s, h, b)) /\ InboxOf(t, h, b)[j] = InboxOf(s, h, b)[j]
    <3>1. i \in 1 .. Len(InboxOf(s, h, b)) /\ InboxOf(t, h, b)[i] = InboxOf(s, h, b)[i]
      <4>1. Len(InboxOf(s, h, b)) \in Nat
        BY InboxType
      <4>2. b = a => i # n + 1
        BY <2>2, <4>1
      <4> QED
        BY <1>2, <4>2
    <3> QED
      BY <1>4, <2>2, <3>1 DEF Ordered
  <2> QED
    BY <1>2, <2>1, <2>2
<1> QED
  BY <1>5, <1>6, <1>7 DEF Delivered

-----------------------------------------------------------------------------
(* What becomes of results.                                                *)

\* The log and the inboxes grow, and who has stopped stays stopped.
Onward(s, t, h, g) ==
  /\ s.events <= t.events /\ s.nextAgent <= t.nextAgent
  /\ \A a \in Agents :
       /\ a < s.nextAgent /\ t.agents[a].running => s.agents[a].running
       /\ Len(InboxOf(s, h, a)) <= Len(InboxOf(t, g, a))
       /\ \A x : Has(s, h, a, x) => Has(t, g, a, x)

LEMMA AccountStays ==
  ASSUME NEW s \in States, NEW t \in States, NEW h \in Hands, NEW g \in Hands,
         Onward(s, t, h, g), NEW r \in Requests, t.requests[r] = s.requests[r],
         AccountOf(s, h, r)
  PROVE  AccountOf(t, g, r)
<1> DEFINE request == s.requests[r]
           a == request.replyTo
<1>1. CASE request.status = "none"
  BY <1>1 DEF AccountOf
<1>2. CASE request.status # "none"
  <2>1. a \in Agents /\ a \in Nat
    BY <1>2, Constants DEF States, RequestRecords
  <2>2. /\ a < s.nextAgent
        /\ request.status = "completed" => Has(s, h, a, Result(r))
        /\ request.status = "dropped"
             => ~s.agents[a].running \/ Len(InboxOf(s, h, a)) >= Limit
        /\ request.status = "unrecorded" => s.events = Limit
    BY <1>2 DEF AccountOf
  <2>3. /\ s.events \in Nat /\ t.events \in 0 .. Limit /\ Limit \in Nat
        /\ s.nextAgent \in Nat /\ t.nextAgent \in Nat
    BY Constants DEF States
  <2>4. Len(InboxOf(s, h, a)) \in Nat /\ Len(InboxOf(t, g, a)) \in Nat
    BY <2>1, InboxType
  <2>5. t.requests[r] = request
    OBVIOUS
  <2> HIDE DEF a
  <2>6. /\ s.events <= t.events /\ s.nextAgent <= t.nextAgent
        /\ t.agents[a].running => s.agents[a].running
        /\ Len(InboxOf(s, h, a)) <= Len(InboxOf(t, g, a))
        /\ Has(s, h, a, Result(r)) => Has(t, g, a, Result(r))
    BY <2>1, <2>2 DEF Onward
  <2>7. a < t.nextAgent
    BY <2>1, <2>2, <2>3, <2>6
  <2>8. s.events = Limit => t.events = Limit
    BY <2>3, <2>6
  <2>9. Len(InboxOf(s, h, a)) >= Limit => Len(InboxOf(t, g, a)) >= Limit
    BY <2>3, <2>4, <2>6
  <2>10. t.requests[r].replyTo = a
    BY <2>5 DEF a
  <2> HIDE DEF request
  <2> QED
    BY <2>2, <2>5, <2>6, <2>7, <2>8, <2>9, <2>10 DEF AccountOf
<1> QED
  BY <1>1, <1>2

LEMMA CompleteStays ==
  ASSUME NEW s \in States, NEW t \in States, NEW h \in Hands, NEW g \in Hands,
         Onward(s, t, h, g), t.requests = s.requests
  PROVE  /\ Accounted(s, h) => Accounted(t, g)
         /\ t.sentBy = s.sentBy => /\ Users(s, h) => Users(t, g)
                                   /\ Complete(s, h) => Complete(t, g)
<1>1. Accounted(s, h) => Accounted(t, g)
  BY AccountStays DEF Accounted
<1>2. ASSUME t.sentBy = s.sentBy PROVE Users(s, h) => Users(t, g)
  BY <1>2 DEF Users, Onward
<1> QED
  BY <1>1, <1>2 DEF Complete

LEMMA GainOnward ==
  ASSUME NEW s \in States, NEW t \in States, NEW h \in Hands, NEW a \in Agents, NEW m \in Messages,
         t.handled = s.handled, t.agents[a].mailbox = Append(s.agents[a].mailbox, m),
         \A b \in Agents : b # a => t.agents[b].mailbox = s.agents[b].mailbox,
         s.events <= t.events, t.nextAgent = s.nextAgent,
         \A b \in Agents : t.agents[b].running = s.agents[b].running
  PROVE  Onward(s, t, h, h)
<1>1. /\ Len(InboxOf(s, h, a)) \in Nat
      /\ Len(InboxOf(t, h, a)) = Len(InboxOf(s, h, a)) + 1
      /\ \A b \in Agents : b # a => InboxOf(t, h, b) = InboxOf(s, h, b)
      /\ \A b \in Agents : \A x : Has(t, h, b, x) <=> Has(s, h, b, x) \/ (b = a /\ x = m)
  BY InboxGrows
<1>2. Len(InboxOf(s, h, a)) <= Len(InboxOf(t, h, a))
  BY <1>1
<1>3. \A b \in Agents : Len(InboxOf(s, h, b)) \in Nat
  BY InboxType
<1>4. \A b \in Agents : Len(InboxOf(s, h, b)) <= Len(InboxOf(t, h, b))
  BY <1>1, <1>2, <1>3
<1>5. s.nextAgent <= t.nextAgent
  BY DEF States
<1> QED
  BY <1>1, <1>4, <1>5 DEF Onward

LEMMA SameOnward ==
  ASSUME NEW s \in States, NEW t \in States, NEW h \in Hands, NEW g \in Hands,
         \A a \in Agents : InboxOf(t, g, a) = InboxOf(s, h, a),
         s.events <= t.events, t.nextAgent = s.nextAgent,
         \A a \in Agents : t.agents[a].running => s.agents[a].running
  PROVE  Onward(s, t, h, g)
<1>1. \A a \in Agents : Len(InboxOf(s, h, a)) \in Nat
  BY InboxType
<1>2. \A a \in Agents : Len(InboxOf(s, h, a)) <= Len(InboxOf(t, g, a))
  BY <1>1
<1>3. \A a \in Agents : \A x : Has(s, h, a, x) => Has(t, g, a, x)
  BY DEF Has
<1>4. s.nextAgent <= t.nextAgent
  BY DEF States
<1> QED
  BY <1>2, <1>3, <1>4 DEF Onward

-----------------------------------------------------------------------------
(* Messages.                                                               *)

\* What a step inside a turn, or a form, keeps of a state.
Keeps(s, t, h) ==
  /\ Sound(t) /\ Delivered(t, h)
  /\ Complete(s, h) => Complete(t, h)
  /\ Told(s, h) => Told(t, h)
  /\ t.turn = s.turn /\ t.undone = s.undone

\* The same, but that a request that was just completed is not accounted for yet.
Minds(s, t, h) ==
  /\ Sound(t) /\ Delivered(t, h)
  /\ Users(s, h) => Users(t, h)
  /\ Told(s, h) => Told(t, h)
  /\ t.turn = s.turn /\ t.undone = s.undone

LEMMA KeepsNothing ==
  ASSUME NEW s, NEW h, Sound(s), Delivered(s, h) PROVE Keeps(s, s, h)
BY DEF Keeps

LEMMA KeepsRecorded ==
  ASSUME NEW s, NEW t, NEW h, Keeps(s, t, h)
  PROVE  Keeps(s, RecordEvent(t).state, h)
<1> DEFINE u == RecordEvent(t).state
<1>1. u \in States /\ Alike(t, u)
  BY Recorded DEF Keeps, Sound
<1> HIDE DEF u
<1>2. /\ Sound(t) => Sound(u)
      /\ Delivered(t, h) => Delivered(u, h)
      /\ Complete(t, h) => Complete(u, h)
      /\ Told(t, h) => Told(u, h)
  BY <1>1, AlikeHolds
<1>3. Keeps(s, u, h)
  BY <1>1, <1>2 DEF Keeps, Alike
<1> QED
  BY <1>3 DEF u

LEMMA ToldStays ==
  ASSUME NEW s \in States, NEW t \in States, NEW h, NEW g, Told(s, h), t.nextAgent = s.nextAgent,
         \A a \in Agents : /\ t.agents[a].running = s.agents[a].running
                           /\ t.agents[a].supervisor = s.agents[a].supervisor
                           /\ t.agents[a].action = s.agents[a].action,
         \A a \in Agents, c \in Agents : Has(s, h, a, Failed(c)) => Has(t, g, a, Failed(c))
  PROVE  Told(t, g)
<1>1. \A c \in Agents : s.agents[c].supervisor \in Agents \cup {None}
  BY DEF States, AgentRecords
<1> SUFFICES ASSUME NEW c \in Agents,
                    c < t.nextAgent, ~t.agents[c].running, t.agents[c].supervisor # None,
                    t.agents[c].action # "stop"
             PROVE  \/ ~t.agents[t.agents[c].supervisor].running
                    \/ Has(t, g, t.agents[c].supervisor, Failed(c))
  BY DEF Told
<1> DEFINE u == s.agents[c].supervisor
<1>2. u \in Agents /\ t.agents[c].supervisor = u
  BY <1>1
<1>3. ~s.agents[u].running \/ Has(s, h, u, Failed(c))
  BY <1>2 DEF Told
<1> QED
  BY <1>2, <1>3

LEMMA SendKeeps ==
  ASSUME NEW s, Sound(s), NEW h \in Hands, Delivered(s, h), NEW a \in Agents,
         NEW turn \in Standing(s), Len(s.sentBy) < MaxMessages
  PROVE  Keeps(s, Send(s, a, turn).state, h)
<1> DEFINE n == Len(s.sentBy) + 1
           o == Enqueue(s, a, User(n))
           u == o.state
           t == [u EXCEPT !.sentBy = Append(@, turn)]
<1>0. s \in States /\ s.sentBy \in Seq(Nat) /\ Len(s.sentBy) \in Nat /\ turn \in Nat
  BY LenProperties DEF Sound, States, Standing, Clean
<1>1. n \in 1 .. MaxMessages /\ User(n) \in Messages
  BY <1>0, Constants DEF Messages
<1>2. Sound(u) /\ (u = s \/ Gains(s, u, a, User(n)))
  BY <1>1, EnqueueOf
<1>3. CASE u = s
  <2>1. Send(s, a, turn) = o
    BY <1>3 DEF Send
  <2> HIDE DEF o
  <2> QED
    BY <1>3, <2>1, KeepsNothing
<1>4. CASE u # s
  <2>1. Send(s, a, turn).state = t
    <3>1. Send(s, a, turn) = [o EXCEPT !.state.sentBy = Append(@, turn)]
      BY <1>4 DEF Send
    <3>2. \E ok, v : o = [ok |-> ok, state |-> v]
      BY DEF Enqueue, RecordEvent, Done, Resource, Condition
    <3> HIDE DEF o
    <3> QED
      BY <3>1, <3>2
  <2>2. Gains(s, u, a, User(n)) /\ u \in States /\ Sound(u)
    BY <1>2, <1>4 DEF Sound
  <2> HIDE DEF o, u
  <2>3. u.sentBy = s.sentBy
    BY <2>2 DEF Gains
  <2>4. /\ Append(s.sentBy, turn) \in Seq(Nat) /\ Len(Append(s.sentBy, turn)) = n
        /\ Append(s.sentBy, turn)[n] = turn
        /\ \A i \in 1 .. Len(s.sentBy) : Append(s.sentBy, turn)[i] = s.sentBy[i]
    BY <1>0, AppendProperties
  <2>5. /\ t \in States /\ t.sentBy = Append(s.sentBy, turn)
        /\ t.agents = u.agents /\ t.nextAgent = u.nextAgent /\ t.ready = u.ready
        /\ t.requests = u.requests /\ t.nextRequest = u.nextRequest
        /\ t.handled = u.handled /\ t.waits = u.waits /\ t.turn = u.turn /\ t.undone = u.undone
        /\ t.events = u.events
    BY <2>2, <2>3, <2>4 DEF States
  <2> HIDE DEF t
  <2>6. Sound(t)
    <3>1. \A i \in 1 .. Len(t.sentBy) : i \in 1 .. Len(s.sentBy) \/ i = n
      BY <1>0, <2>4, <2>5
    <3>2. \A i \in 1 .. Len(t.sentBy) : t.sentBy[i] \in Standing(s)
      BY <2>4, <2>5, <3>1 DEF Sound, Clean
    <3>3. Standing(t) = Standing(s)
      BY <2>2, <2>5 DEF Standing, Gains
    <3>4. Clean(t)
      BY <2>2, <2>5, <3>2, <3>3 DEF Sound, Clean, Standing
    <3>5. Awake(t)
      BY <2>2, <2>5 DEF Sound, Awake
    <3> QED
      BY <2>2, <2>5, <3>4, <3>5 DEF Sound
  <2>7. /\ t.handled = s.handled /\ t.agents[a].mailbox = Append(s.agents[a].mailbox, User(n))
        /\ \A b \in Agents : b # a => t.agents[b].mailbox = s.agents[b].mailbox
        /\ t.requests = s.requests /\ t.nextRequest = s.nextRequest /\ t.nextAgent = s.nextAgent
        /\ Len(t.sentBy) = n /\ t.turn = s.turn /\ t.undone = s.undone
        /\ s.events <= t.events
        /\ \A b \in Agents : /\ t.agents[b].running = s.agents[b].running
                             /\ t.agents[b].supervisor = s.agents[b].supervisor
                             /\ t.agents[b].action = s.agents[b].action
    BY <2>2, <2>4, <2>5 DEF Gains
  <2>8. \A x \in Messages : Truthful(s, x) => Truthful(t, x)
    <3> TAKE x \in Messages
    <3>1. x.n \in Nat /\ (x.kind = "child-failed" => x.n \in Agents)
      BY MessageNumbers
    <3> QED
      BY <1>0, <2>7, <3>1 DEF Truthful
  <2>9. User(n).kind = "user" /\ User(n).n = n
    BY DEF User
  <2>10. \A b \in Agents : ~Has(s, h, b, User(n))
    <3>1. \A b \in Agents : \A i \in 1 .. Len(InboxOf(s, h, b)) : Truthful(s, InboxOf(s, h, b)[i])
      BY DEF Delivered
    <3>2. ~Truthful(s, User(n))
      BY <1>0, <2>9 DEF Truthful
    <3> QED
      BY <3>1, <3>2 DEF Has
  <2>11. Truthful(t, User(n))
    BY <2>7, <2>9, <1>0 DEF Truthful
  <2>12. \A r \in Requests : r >= t.nextRequest => t.requests[r].status = "none"
    BY <2>7 DEF Delivered
  <2>13. n <= MaxMessages /\ n > Len(s.sentBy)
    BY <1>0, <1>1
  <2>14. Delivered(t, h)
    <3> HIDE DEF n
    <3> QED
      BY <1>0, <1>1, <2>5, <2>7, <2>8, <2>9, <2>10, <2>11, <2>12, <2>13, GrowDelivered
  <2>15. \A b \in Agents : \A x : Has(t, h, b, x) <=> Has(s, h, b, x) \/ (b = a /\ x = User(n))
    <3> DEFINE m == User(n)
    <3>1. /\ t.handled = s.handled /\ t.agents[a].mailbox = Append(s.agents[a].mailbox, m)
          /\ \A b \in Agents : b # a => t.agents[b].mailbox = s.agents[b].mailbox
          /\ t \in States /\ m \in Messages
      BY <1>1, <2>5, <2>7
    <3> HIDE DEF m
    <3>2. \A b \in Agents : \A x : Has(t, h, b, x) <=> Has(s, h, b, x) \/ (b = a /\ x = m)
      BY <1>0, <3>1, InboxGrows
    <3> QED
      BY <3>2 DEF m
  <2>18. Users(s, h) => Users(t, h)
    <3>1. \A k \in 1 .. Len(t.sentBy) : k \in 1 .. Len(s.sentBy) \/ k = n
      BY <1>0, <2>7
    <3> QED
      BY <2>15, <3>1 DEF Users
  <2>19. Accounted(s, h) => Accounted(t, h)
    <3> DEFINE m == User(n)
    <3>1. /\ t.handled = s.handled /\ t.agents[a].mailbox = Append(s.agents[a].mailbox, m)
          /\ \A b \in Agents : b # a => t.agents[b].mailbox = s.agents[b].mailbox
          /\ t \in States /\ m \in Messages
      BY <1>1, <2>5, <2>7
    <3> HIDE DEF m, n
    <3>2. Onward(s, t, h, h)
      BY <1>0, <2>7, <3>1, GainOnward
    <3> QED
      BY <1>0, <2>7, <3>1, <3>2, CompleteStays
  <2>16. Complete(s, h) => Complete(t, h)
    BY <2>18, <2>19 DEF Complete
  <2>17. Told(s, h) => Told(t, h)
    BY <1>0, <2>5, <2>7, <2>15, ToldStays
  <2> QED
    BY <2>1, <2>6, <2>7, <2>14, <2>16, <2>17 DEF Keeps
<1> QED
  BY <1>3, <1>4

LEMMA InboxStays ==
  ASSUME NEW s, NEW t, NEW h, t.handled = s.handled,
         \A a \in Agents : t.agents[a].mailbox = s.agents[a].mailbox
  PROVE  \A a \in Agents : InboxOf(t, h, a) = InboxOf(s, h, a)
BY DEF InboxOf

\* What holds of inboxes as long as they are the same, wherever a message is in them.
LEMMA SameInboxes ==
  ASSUME NEW s, NEW t, NEW h, NEW g, \A a \in Agents : InboxOf(t, g, a) = InboxOf(s, h, a)
  PROVE  /\ \A a \in Agents : \A x : Has(t, g, a, x) <=> Has(s, h, a, x)
         /\ Once(s, h) => Once(t, g)
         /\ Ordered(s, h) => Ordered(t, g)
         /\ Users(s, h) /\ t.sentBy = s.sentBy => Users(t, g)
<1>1. \A a \in Agents : \A x : Has(t, g, a, x) <=> Has(s, h, a, x)
  BY DEF Has
<1>2. Users(s, h) /\ t.sentBy = s.sentBy => Users(t, g)
  BY <1>1 DEF Users
<1> QED
  BY <1>1, <1>2 DEF Once, Ordered

\* A delivery stays one where its message stays true.
LEMMA DeliveredStays ==
  ASSUME NEW s \in States, NEW t \in States, NEW h \in Hands, NEW g, Delivered(s, h),
         \A a \in Agents : InboxOf(t, g, a) = InboxOf(s, h, a),
         Len(t.sentBy) <= MaxMessages,
         \A r \in Requests : r >= t.nextRequest => t.requests[r].status = "none",
         \A x \in Messages : Truthful(s, x) => Truthful(t, x)
  PROVE  Delivered(t, g)
<1>1. Once(t, g) /\ Ordered(t, g)
  BY SameInboxes DEF Delivered
<1>2. \A a \in Agents : \A i \in 1 .. Len(InboxOf(s, h, a)) :
        InboxOf(s, h, a)[i] \in Messages /\ Truthful(s, InboxOf(s, h, a)[i])
  BY InboxType DEF Delivered
<1> QED
  BY <1>1, <1>2 DEF Delivered

LEMMA SpawnKeeps ==
  ASSUME NEW s, Sound(s), NEW h \in Hands, Delivered(s, h), s.nextAgent \in Agents,
         NEW role \in Roles, NEW turn \in Standing(s)
  PROVE  Keeps(s, Spawn(s, role, turn).state, h)
<1> USE DEF None
<1> DEFINE c == s.nextAgent
           agent == NewAgent(role, turn)
           t == [s EXCEPT !.agents[c] = agent, !.nextAgent = @ + 1]
           agents == [s.agents EXCEPT ![c] = agent]
<1>0. s \in States /\ Awake(s) /\ Clean(s) /\ Lined(s.ready, s.waits)
  BY DEF Sound
<1>1. /\ agent \in AgentRecords /\ agent.mailbox = <<>> /\ agent.running /\ agent.restarts = 0
      /\ agent.by = turn /\ agent.max \in Nat /\ agent.supervisor = role.supervisor
  <2>1. /\ role.active \in BOOLEAN /\ role.supervisor \in Agents \cup {0}
        /\ role.action \in {"stop", "restart", "escalate"} /\ role.max \in Nat
    BY AgentsConstants
  <2>2. turn \in Nat
    BY <1>0 DEF Standing, States
  <2>3. <<>> \in Seq(Messages)
    BY EmptySeq
  <2> QED
    BY <2>1, <2>2, <2>3 DEF NewAgent, AgentRecords
<1> HIDE DEF agent
<1>17. /\ agents \in [Agents -> AgentRecords] /\ agents[c] = agent
       /\ \A b \in Agents : b # c => agents[b] = s.agents[b]
  BY <1>0, <1>1 DEF States
<1>18. c + 1 \in Nat
  BY Constants
<1>19. t = [s EXCEPT !.agents = agents, !.nextAgent = c + 1]
  BY <1>0 DEF States
<1> HIDE DEF agents
<1>2. /\ t \in States /\ t.agents = agents /\ t.nextAgent = c + 1
      /\ t.ready = s.ready /\ t.waits = s.waits
      /\ t.requests = s.requests /\ t.nextRequest = s.nextRequest /\ t.sentBy = s.sentBy
      /\ t.handled = s.handled /\ t.turn = s.turn /\ t.undone = s.undone
      /\ t.events = s.events
  BY <1>0, <1>17, <1>18, <1>19 DEF States
<1>3. /\ t.agents[c] = agent /\ \A b \in Agents : b # c => t.agents[b] = s.agents[b]
  BY <1>2, <1>17
<1>4. c \in Nat /\ c <= Cardinality(Agents) /\ Cardinality(Agents) \in Nat /\ Agents \subseteq Nat
  BY Constants
<1>5. s.agents[c].mailbox = <<>> /\ ~s.agents[c].running /\ ~Contains(s.ready, c)
  BY <1>0, <1>4 DEF Awake
<1> HIDE DEF t
<1>20. CASE role.supervisor # None /\ ~s.agents[role.supervisor].running
  BY <1>20, KeepsNothing DEF Spawn, Condition
<1> SUFFICES ASSUME ~(role.supervisor # None /\ ~s.agents[role.supervisor].running)
             PROVE  Keeps(s, Spawn(s, role, turn).state, h)
  BY <1>20
<1>22. \A p \in Agents \cup {0} : p \in Nat
  BY Constants
<1>21. role.supervisor < c + 1
  <2>1. role.supervisor \in Agents \cup {0}
    BY AgentsConstants
  <2>2. \A b \in Agents : s.agents[b].running => b < c
    BY <1>0 DEF Awake
  <2>3. role.supervisor # 0 => role.supervisor < c
    BY <2>1, <2>2
  <2>4. role.supervisor \in Nat /\ c \in Nat
    BY <1>22, <2>1, <1>4
  <2> HIDE DEF c
  <2> QED
    BY <2>3, <2>4
<1>6. Awake(t)
  <2>1. t.nextAgent <= Cardinality(Agents) + 1
    BY <1>2, <1>4
  <2>2. ASSUME NEW b \in Agents
        PROVE  LET u == t.agents[b] IN
               /\ u.running /\ u.active /\ u.mailbox # <<>> => Contains(t.ready, b)
               /\ u.running \/ u.mailbox # <<>> \/ Contains(t.ready, b) => b < t.nextAgent
               /\ Len(u.mailbox) <= Limit /\ u.restarts <= u.max
               /\ u.supervisor < t.nextAgent
    <3>1. CASE b = c
      <4>1. Len(<<>>) <= Limit /\ 0 <= agent.max
        BY <1>1, Constants, EmptySeq
      <4> QED
        BY <1>1, <1>2, <1>3, <1>4, <1>21, <3>1, <4>1
    <3>2. CASE b # c
      <4>1. s.agents[b].supervisor \in Agents \cup {0}
        BY <1>0 DEF States, AgentRecords
      <4>2. LET u == s.agents[b] IN
               /\ u.running /\ u.active /\ u.mailbox # <<>> => Contains(s.ready, b)
               /\ u.running \/ u.mailbox # <<>> \/ Contains(s.ready, b) => b < c
               /\ Len(u.mailbox) <= Limit /\ u.restarts <= u.max
               /\ u.supervisor < c
        BY <1>0 DEF Awake
      <4>4. b < c => b < c + 1
        BY <1>4
      <4>5. s.agents[b].supervisor < c + 1
        <5>1. s.agents[b].supervisor \in Nat /\ c \in Nat /\ s.agents[b].supervisor < c
          BY <1>4, <1>22, <4>1, <4>2
        <5> HIDE DEF c
        <5> QED
          BY <5>1
      <4>6. t.agents[b] = s.agents[b]
        BY <1>3, <3>2
      <4> QED
        BY <1>2, <4>2, <4>4, <4>5, <4>6
    <3> QED
      BY <3>1, <3>2
  <2> QED
    BY <2>1, <2>2 DEF Awake
<1>7. Clean(t)
  <2>1. Standing(t) = Standing(s)
    BY <1>2 DEF Standing
  <2>2. \A b \in Agents : t.agents[b].by \in Standing(s)
    BY <1>0, <1>1, <1>3 DEF Clean
  <2> QED
    BY <1>0, <1>2, <2>1, <2>2 DEF Clean
<1>8. Sound(t)
  BY <1>0, <1>2, <1>6, <1>7 DEF Sound
<1>9. \A b \in Agents : t.agents[b].mailbox = s.agents[b].mailbox
  BY <1>1, <1>3, <1>5
<1>23. \A b \in Agents : InboxOf(t, h, b) = InboxOf(s, h, b)
  BY <1>2, <1>9, InboxStays
<1>10. \A x \in Messages : Truthful(s, x) => Truthful(t, x)
  <2> TAKE x \in Messages
  <2>1. x.n \in Nat /\ (x.kind = "child-failed" => x.n \in Agents)
    BY MessageNumbers
  <2>2. x.kind = "child-failed" /\ x.n < c /\ ~s.agents[x.n].running => x.n < c + 1 /\ ~t.agents[x.n].running
    BY <1>3, <1>4, <2>1
  <2> QED
    BY <1>2, <2>2 DEF Truthful
<1>11. Delivered(t, h)
  <2>1. /\ Len(t.sentBy) <= MaxMessages
        /\ \A r \in Requests : r >= t.nextRequest => t.requests[r].status = "none"
    BY <1>2 DEF Delivered
  <2> QED
    BY <1>0, <1>2, <1>23, <1>10, <2>1, DeliveredStays
<1>12. \A b \in Agents : \A x : Has(t, h, b, x) <=> Has(s, h, b, x)
  BY <1>23, SameInboxes
<1>13. Complete(s, h) => Complete(t, h)
  <2>1. s.events <= t.events /\ s.nextAgent <= t.nextAgent
    BY <1>0, <1>2, <1>4, Constants DEF States
  <2>2. \A b \in Agents : b < s.nextAgent /\ t.agents[b].running => s.agents[b].running
    <3> TAKE b \in Agents
    <3>1. CASE b = c
      BY <1>4, <3>1
    <3>2. CASE b # c
      <4>1. t.agents[b] = s.agents[b]
        BY <1>3, <3>2
      <4> QED
        BY <4>1
    <3> QED
      BY <3>1, <3>2
  <2>3. \A b \in Agents : Len(InboxOf(s, h, b)) <= Len(InboxOf(t, h, b))
    BY <1>0, <1>23, InboxType
  <2>4. Onward(s, t, h, h)
    BY <1>12, <2>1, <2>2, <2>3 DEF Onward
  <2> QED
    BY <1>0, <1>2, <2>4, CompleteStays
<1>14. ASSUME Told(s, h) PROVE Told(t, h)
  <2> SUFFICES ASSUME NEW d \in Agents,
                      d < t.nextAgent, ~t.agents[d].running, t.agents[d].supervisor # None,
                      t.agents[d].action # "stop"
               PROVE  \/ ~t.agents[t.agents[d].supervisor].running
                      \/ Has(t, h, t.agents[d].supervisor, Failed(d))
    BY DEF Told
  <2>1. d # c /\ d < c /\ t.agents[d] = s.agents[d]
    BY <1>1, <1>2, <1>3, <1>4
  <2> DEFINE u == s.agents[d].supervisor
  <2>2. ~s.agents[u].running \/ Has(s, h, u, Failed(d))
    BY <1>14, <2>1 DEF Told
  \* The new agent supervises nobody who was there before it.
  <2>3. u \in Agents /\ u # c
    BY <1>0, <1>4, <2>1 DEF States, AgentRecords, Awake
  <2>4. CASE Has(s, h, u, Failed(d))
    BY <1>12, <2>1, <2>3, <2>4
  <2>5. CASE ~s.agents[u].running
    BY <1>3, <2>1, <2>3, <2>5
  <2> QED
    BY <2>2, <2>4, <2>5
<1>15. Keeps(s, t, h)
  BY <1>2, <1>8, <1>11, <1>13, <1>14 DEF Keeps
<1>16. Spawn(s, role, turn) = RecordEvent(t)
  BY DEF Spawn, t, agent
<1> QED
  BY <1>15, <1>16, KeepsRecorded

-----------------------------------------------------------------------------
(* Model requests.                                                         *)

LEMMA RequestsMind ==
  ASSUME NEW s, Sound(s), NEW h \in Hands, Delivered(s, h), NEW t \in States,
         t.agents = s.agents, t.nextAgent = s.nextAgent, t.ready = s.ready, t.waits = s.waits,
         t.sentBy = s.sentBy, t.handled = s.handled, t.turn = s.turn, t.undone = s.undone,
         \A r \in Requests :
           /\ t.requests[r].by \in Standing(s)
           /\ s.requests[r].status \in Finished => t.requests[r].status \in Finished
           /\ r >= t.nextRequest => t.requests[r].status = "none"
  PROVE  Minds(s, t, h)
<1>1. s \in States /\ Awake(s) /\ Clean(s) /\ Lined(s.ready, s.waits)
  BY DEF Sound
<1>2. Standing(t) = Standing(s)
  BY DEF Standing
<1>3. Clean(t)
  BY <1>1, <1>2 DEF Clean
<1>4. Awake(t)
  BY <1>1 DEF Awake
<1>5. Sound(t)
  BY <1>1, <1>3, <1>4 DEF Sound
<1>6. \A a \in Agents : InboxOf(t, h, a) = InboxOf(s, h, a)
  BY InboxStays
<1>7. \A x \in Messages : Truthful(s, x) => Truthful(t, x)
  <2> TAKE x \in Messages
  <2>1. x.kind = "model-result" => x.n \in Requests
    BY MessageNumbers
  <2> QED
    BY <2>1 DEF Truthful
<1>8. Len(t.sentBy) <= MaxMessages
  BY DEF Delivered
<1>9. Delivered(t, h)
  BY <1>1, <1>6, <1>7, <1>8, DeliveredStays
<1>10. Users(s, h) => Users(t, h)
  BY <1>6, SameInboxes
<1>12. \A a \in Agents, c \in Agents : Has(s, h, a, Failed(c)) => Has(t, h, a, Failed(c))
  BY <1>6, SameInboxes
<1>11. Told(s, h) => Told(t, h)
  BY <1>1, <1>12, ToldStays
<1> QED
  BY <1>5, <1>9, <1>10, <1>11 DEF Minds

\* Requests that are not completed come and go on their way.
LEMMA RequestsKeep ==
  ASSUME NEW s, Sound(s), NEW h \in Hands, Delivered(s, h), NEW t \in States,
         t.agents = s.agents, t.nextAgent = s.nextAgent, t.ready = s.ready, t.waits = s.waits,
         t.sentBy = s.sentBy, t.handled = s.handled, t.turn = s.turn, t.undone = s.undone,
         t.events = s.events,
         \A r \in Requests :
           /\ t.requests[r].by \in Standing(s)
           /\ r >= t.nextRequest => t.requests[r].status = "none"
           /\ \/ t.requests[r] = s.requests[r]
              \/ /\ s.requests[r].status \notin Finished /\ t.requests[r].status \notin Finished
                 /\ \/ t.requests[r].replyTo < s.nextAgent
                    \/ s.requests[r].status # "none"
                         /\ t.requests[r].replyTo = s.requests[r].replyTo
  PROVE  Keeps(s, t, h)
<1>1. s \in States
  BY DEF Sound
<1>2. Minds(s, t, h)
  BY RequestsMind
<1>3. \A a \in Agents : InboxOf(t, h, a) = InboxOf(s, h, a)
  BY InboxStays
<1>4. s.events <= t.events
  BY <1>1, Constants DEF States
<1>5. Onward(s, t, h, h)
  BY <1>1, <1>3, <1>4, SameOnward
<1>6. ASSUME Accounted(s, h), NEW r \in Requests PROVE AccountOf(t, h, r)
  <2>1. AccountOf(s, h, r)
    BY <1>6 DEF Accounted
  <2>2. CASE t.requests[r] = s.requests[r]
    BY <1>1, <1>5, <2>1, <2>2, AccountStays
  <2>3. CASE /\ t.requests[r].status \notin Finished
             /\ \/ t.requests[r].replyTo < s.nextAgent
                \/ s.requests[r].status # "none"
                     /\ t.requests[r].replyTo = s.requests[r].replyTo
    BY <2>1, <2>3 DEF AccountOf, Finished
  <2> QED
    BY <2>2, <2>3
<1>7. Complete(s, h) => Complete(t, h)
  BY <1>2, <1>6 DEF Minds, Complete, Accounted
<1> QED
  BY <1>2, <1>7 DEF Minds, Keeps

LEMMA RequestStatus ==
  ASSUME NEW s \in States, NEW r \in Requests, NEW status \in Statuses \ {"none"},
         s.requests[r].status # "none"
  PROVE  LET t == [s EXCEPT !.requests[r].status = status] IN
         /\ t \in States /\ t.agents = s.agents /\ t.nextAgent = s.nextAgent
         /\ t.ready = s.ready /\ t.waits = s.waits /\ t.sentBy = s.sentBy
         /\ t.handled = s.handled /\ t.turn = s.turn /\ t.undone = s.undone
         /\ t.nextRequest = s.nextRequest /\ t.events = s.events
         /\ t.requests[r].status = status /\ t.requests[r].replyTo = s.requests[r].replyTo
         /\ t.requests[r].by = s.requests[r].by
         /\ \A q \in Requests : q # r => t.requests[q] = s.requests[q]
<1> DEFINE request == [s.requests[r] EXCEPT !.status = status]
           requests == [s.requests EXCEPT ![r] = request]
           t == [s EXCEPT !.requests[r].status = status]
<1>1. s.requests \in [Requests -> RequestRecords] /\ s.requests[r] \in RequestRecords
  BY DEF States
<1>2. /\ request \in RequestRecords /\ request.status = status
      /\ request.replyTo = s.requests[r].replyTo /\ request.by = s.requests[r].by
  BY <1>1 DEF RequestRecords
<1>3. t = [s EXCEPT !.requests = requests]
  BY <1>1 DEF States
<1> HIDE DEF request
<1>4. /\ requests \in [Requests -> RequestRecords] /\ requests[r] = request
      /\ \A q \in Requests : q # r => requests[q] = s.requests[q]
  BY <1>1, <1>2
<1> HIDE DEF requests
<1>5. /\ t \in States /\ t.agents = s.agents /\ t.nextAgent = s.nextAgent
      /\ t.ready = s.ready /\ t.waits = s.waits /\ t.sentBy = s.sentBy
      /\ t.handled = s.handled /\ t.turn = s.turn /\ t.undone = s.undone
      /\ t.nextRequest = s.nextRequest /\ t.events = s.events /\ t.requests = requests
  BY <1>3, <1>4 DEF States
<1> HIDE DEF t
<1> QED
  BY <1>2, <1>4, <1>5 DEF t

LEMMA RequestKeeps ==
  ASSUME NEW s, Sound(s), NEW h \in Hands, Delivered(s, h), s.nextRequest \in Requests,
         NEW replyTo \in Agents, NEW turn \in Standing(s)
  PROVE  Keeps(s, RequestModel(s, replyTo, turn).state, h)
<1> DEFINE n == s.nextRequest
           request == [status |-> "pending", replyTo |-> replyTo, by |-> turn]
           requests == [s.requests EXCEPT ![n] = request]
           t == [s EXCEPT !.requests[n] = request, !.nextRequest = @ + 1]
<1>11. s \in States /\ n \in Nat /\ Requests \subseteq Nat
  BY Constants DEF Sound
<1>12. turn \in Nat
  BY <1>11 DEF Standing, States
<1>1. /\ s \in States /\ s.requests \in [Requests -> RequestRecords] /\ turn \in Nat
      /\ n \in Nat /\ Requests \subseteq Nat
  BY <1>11, <1>12 DEF States
<1>2. /\ request \in RequestRecords /\ request.status = "pending" /\ request.by = turn
      /\ request.replyTo = replyTo
  BY <1>1 DEF RequestRecords, Statuses
<1> HIDE DEF request
<1>3. /\ requests \in [Requests -> RequestRecords] /\ requests[n] = request
      /\ \A q \in Requests : q # n => requests[q] = s.requests[q]
  BY <1>1, <1>2
<1>4. t = [s EXCEPT !.requests = requests, !.nextRequest = n + 1]
  BY <1>1 DEF States
<1>13. n + 1 \in Nat
  BY <1>1
<1> HIDE DEF requests
<1>5. /\ t \in States /\ t.agents = s.agents /\ t.nextAgent = s.nextAgent
      /\ t.ready = s.ready /\ t.waits = s.waits /\ t.sentBy = s.sentBy
      /\ t.handled = s.handled /\ t.turn = s.turn /\ t.undone = s.undone
      /\ t.nextRequest = n + 1 /\ t.requests = requests /\ t.events = s.events
  BY <1>1, <1>3, <1>4, <1>13 DEF States
<1> HIDE DEF t
<1>6. \A r \in Requests : r >= n => s.requests[r].status = "none"
  BY DEF Delivered
<1>7. ASSUME s.agents[replyTo].running, NEW r \in Requests
      PROVE  /\ t.requests[r].by \in Standing(s)
             /\ r >= t.nextRequest => t.requests[r].status = "none"
             /\ \/ t.requests[r] = s.requests[r]
                \/ /\ s.requests[r].status \notin Finished /\ t.requests[r].status \notin Finished
                   /\ t.requests[r].replyTo < s.nextAgent
  <2>1. CASE r = n
    <3>1. ~(r >= t.nextRequest)
      BY <1>1, <1>5, <2>1
    <3>2. s.requests[r].status = "none"
      BY <1>1, <1>6, <2>1
    <3>3. replyTo < s.nextAgent
      BY <1>7 DEF Sound, Awake
    <3> QED
      BY <1>2, <1>3, <1>5, <2>1, <3>1, <3>2, <3>3 DEF Finished
  <2>2. CASE r # n
    <3>1. r >= t.nextRequest => r >= n
      BY <1>1, <1>5
    <3> QED
      BY <1>3, <1>5, <1>6, <2>2, <3>1 DEF Sound, Clean
  <2> QED
    BY <2>1, <2>2
<1>8. ASSUME s.agents[replyTo].running PROVE Keeps(s, t, h)
  BY <1>5, <1>7, <1>8, RequestsKeep
<1>9. CASE ~s.agents[replyTo].running
  BY <1>9, KeepsNothing DEF RequestModel, Condition
<1>10. CASE s.agents[replyTo].running
  <2>1. RequestModel(s, replyTo, turn) = RecordEvent(t)
    BY <1>10 DEF RequestModel, t, request
  <2> QED
    BY <1>8, <1>10, <2>1, KeepsRecorded
<1> QED
  BY <1>9, <1>10

\* A request on its way out, or completed.
LEMMA StatusMinds ==
  ASSUME NEW s, Sound(s), NEW h \in Hands, Delivered(s, h), NEW r \in Requests,
         s.requests[r].status # "none", NEW status \in Statuses \ {"none"},
         s.requests[r].status \in Finished => status \in Finished
  PROVE  LET t == [s EXCEPT !.requests[r].status = status] IN
         /\ Minds(s, t, h)
         /\ (s.requests[r].status \notin Finished /\ status \notin Finished) => Keeps(s, t, h)
<1> DEFINE t == [s EXCEPT !.requests[r].status = status]
<1>1. s \in States
  BY DEF Sound
<1>2. /\ t \in States /\ t.agents = s.agents /\ t.nextAgent = s.nextAgent
      /\ t.ready = s.ready /\ t.waits = s.waits /\ t.sentBy = s.sentBy
      /\ t.handled = s.handled /\ t.turn = s.turn /\ t.undone = s.undone
      /\ t.nextRequest = s.nextRequest /\ t.events = s.events
      /\ t.requests[r].status = status /\ t.requests[r].by = s.requests[r].by
      /\ t.requests[r].replyTo = s.requests[r].replyTo
      /\ \A q \in Requests : q # r => t.requests[q] = s.requests[q]
  BY <1>1, RequestStatus
<1> HIDE DEF t
<1>3. /\ \A q \in Requests : q >= s.nextRequest => s.requests[q].status = "none"
      /\ \A q \in Requests : s.requests[q].by \in Standing(s)
  BY DEF Delivered, Sound, Clean
<1>4. \A q \in Requests :
        /\ t.requests[q].by \in Standing(s)
        /\ s.requests[q].status \in Finished => t.requests[q].status \in Finished
        /\ q >= t.nextRequest => t.requests[q].status = "none"
  BY <1>2, <1>3
<1>5. Minds(s, t, h)
  BY <1>2, <1>4, RequestsMind
<1>6. ASSUME s.requests[r].status \notin Finished, status \notin Finished PROVE Keeps(s, t, h)
  <2>1. \A q \in Requests :
          \/ t.requests[q] = s.requests[q]
          \/ /\ s.requests[q].status \notin Finished /\ t.requests[q].status \notin Finished
             /\ s.requests[q].status # "none" /\ t.requests[q].replyTo = s.requests[q].replyTo
    BY <1>2, <1>6
  <2> QED
    BY <1>2, <1>4, <2>1, RequestsKeep
<1> QED
  BY <1>5, <1>6 DEF t

LEMMA KeepsOn ==
  ASSUME NEW s, NEW t, NEW u, NEW h, Keeps(s, t, h), Keeps(t, u, h)
  PROVE  Keeps(s, u, h)
BY DEF Keeps

\* The runtime's own messages: true, and not sent before.
LEMMA EnqueueKeeps ==
  ASSUME NEW s, Sound(s), NEW h \in Hands, Delivered(s, h), NEW a \in Agents,
         NEW m \in Messages, m.kind # "user", Truthful(s, m),
         \A b \in Agents : ~Has(s, h, b, m)
  PROVE  LET o == Enqueue(s, a, m) IN
         /\ Keeps(s, o.state, h) /\ Minds(s, o.state, h)
         /\ o.ok => s.agents[a].running /\ Has(o.state, h, a, m)
<1> DEFINE o == Enqueue(s, a, m)
           t == o.state
<1>1. /\ Sound(t)
      /\ (t = s /\ ~o.ok) \/ (Gains(s, t, a, m) /\ s.agents[a].running)
      /\ o.ok => Gains(s, t, a, m) /\ s.agents[a].running
  BY EnqueueOf
<1> HIDE DEF o
<1>2. ASSUME t = s, ~o.ok PROVE Keeps(s, t, h) /\ Minds(s, t, h)
  BY <1>2, KeepsNothing DEF Minds
<1>3. ASSUME Gains(s, t, a, m), s.agents[a].running
      PROVE  Keeps(s, t, h) /\ Minds(s, t, h) /\ Has(t, h, a, m)
  <2>1. s \in States /\ t \in States /\ Sound(t)
    BY <1>1 DEF Sound
  <2> HIDE DEF t
  <2>2. /\ t.handled = s.handled /\ t.agents[a].mailbox = Append(s.agents[a].mailbox, m)
        /\ \A b \in Agents : b # a => t.agents[b].mailbox = s.agents[b].mailbox
        /\ t.requests = s.requests /\ t.nextRequest = s.nextRequest /\ t.nextAgent = s.nextAgent
        /\ t.sentBy = s.sentBy /\ t.turn = s.turn /\ t.undone = s.undone /\ s.events <= t.events
        /\ \A b \in Agents : /\ t.agents[b].running = s.agents[b].running
                             /\ t.agents[b].supervisor = s.agents[b].supervisor
                             /\ t.agents[b].action = s.agents[b].action
    BY <1>3 DEF Gains
  <2>3. \A x \in Messages : Truthful(s, x) => Truthful(t, x)
    <3> TAKE x \in Messages
    <3>1. x.kind = "child-failed" => x.n \in Agents
      BY MessageNumbers
    <3> QED
      BY <2>2, <3>1 DEF Truthful
  <2>4. /\ Len(t.sentBy) <= MaxMessages
        /\ \A r \in Requests : r >= t.nextRequest => t.requests[r].status = "none"
    BY <2>2 DEF Delivered
  <2>5. Truthful(t, m)
    BY <2>3
  <2>6. Delivered(t, h)
    BY <2>1, <2>2, <2>3, <2>4, <2>5, GrowDelivered
  <2>7. \A b \in Agents : \A x : Has(t, h, b, x) <=> Has(s, h, b, x) \/ (b = a /\ x = m)
    BY <2>1, <2>2, InboxGrows
  <2>11. Onward(s, t, h, h)
    BY <2>1, <2>2, GainOnward
  <2>8. (Users(s, h) => Users(t, h)) /\ (Complete(s, h) => Complete(t, h))
    BY <2>1, <2>2, <2>11, CompleteStays
  <2>9. Told(s, h) => Told(t, h)
    BY <2>1, <2>2, <2>7, ToldStays
  <2>10. Keeps(s, t, h) /\ Minds(s, t, h)
    BY <2>1, <2>2, <2>6, <2>8, <2>9 DEF Keeps, Minds
  <2> QED
    BY <2>7, <2>10
<1>4. /\ Keeps(s, t, h) /\ Minds(s, t, h)
      /\ o.ok => s.agents[a].running /\ Has(t, h, a, m)
  BY <1>1, <1>2, <1>3
<1> QED
  BY <1>4 DEF o

LEMMA ClaimKeeps ==
  ASSUME NEW s, Sound(s), NEW h \in Hands, Delivered(s, h), NEW r \in Requests,
         s.requests[r].status = "pending"
  PROVE  Keeps(s, RecordEvent([s EXCEPT !.requests[r].status = "dispatching"]).state, h)
<1>1. "dispatching" \in Statuses \ {"none"} /\ "dispatching" \notin Finished
  BY DEF Statuses, Finished
<1>3. s.requests[r].status \notin Finished /\ s.requests[r].status # "none"
  BY DEF Finished
<1>2. Keeps(s, [s EXCEPT !.requests[r].status = "dispatching"], h)
  BY <1>1, <1>3, StatusMinds
<1> QED
  BY <1>2, KeepsRecorded

LEMMA MindsOn ==
  ASSUME NEW s, NEW t, NEW u, NEW h, Minds(s, t, h), Minds(t, u, h)
  PROVE  Minds(s, u, h)
BY DEF Minds

LEMMA MindsRecorded ==
  ASSUME NEW s, NEW t, NEW h, Minds(s, t, h)
  PROVE  LET u == RecordEvent(t).state IN u \in States /\ Alike(t, u) /\ Minds(s, u, h)
<1> DEFINE u == RecordEvent(t).state
<1>1. u \in States /\ Alike(t, u)
  BY Recorded DEF Minds, Sound
<1> HIDE DEF u
<1>2. /\ Sound(t) => Sound(u)
      /\ Delivered(t, h) => Delivered(u, h)
      /\ Users(t, h) => Users(u, h)
      /\ Told(t, h) => Told(u, h)
  BY <1>1, AlikeHolds
<1>3. Minds(s, u, h)
  BY <1>1, <1>2 DEF Minds, Alike
<1> QED
  BY <1>1, <1>3 DEF u

\* A request is finished, and accounted for.
LEMMA AccountedFor ==
  ASSUME NEW s \in States, NEW t \in States, NEW h \in Hands, Onward(s, t, h, h),
         NEW r \in Requests, \A q \in Requests : q # r => t.requests[q] = s.requests[q],
         Accounted(s, h) => AccountOf(t, h, r), Minds(s, t, h)
  PROVE  Keeps(s, t, h)
<1>1. ASSUME Accounted(s, h), NEW q \in Requests PROVE AccountOf(t, h, q)
  <2>1. AccountOf(s, h, q)
    BY <1>1 DEF Accounted
  <2>2. CASE q = r
    BY <1>1, <2>2
  <2>3. CASE q # r
    BY <2>1, <2>3, AccountStays
  <2> QED
    BY <2>2, <2>3
<1>2. Accounted(s, h) => Accounted(t, h)
  BY <1>1 DEF Accounted
<1> QED
  BY <1>2 DEF Minds, Keeps, Complete

\* The outcome is there, the log holds it, and nothing else is changed.
LEMMA CompletedKeeps ==
  ASSUME NEW s, Sound(s), NEW h \in Hands, Delivered(s, h), NEW r \in Requests,
         s.requests[r].status = "dispatching", Completed(s, r).ok
  PROVE  Keeps(s, Completed(s, r).state, h)
<1> DEFINE t == [s EXCEPT !.requests[r].status = "completed"]
           u == RecordEvent(t).state
           a == s.requests[r].replyTo
           m == Result(r)
           v == [u EXCEPT !.requests[r].status = "dropped"]
           x == [u EXCEPT !.requests[r].status = "unrecorded"]
<1>1. /\ Finished \subseteq Statuses \ {"none"} /\ s \in States
      /\ "completed" \in Finished /\ "dropped" \in Finished /\ "unrecorded" \in Finished
      /\ s.requests[r].status \notin Finished
  BY DEF Statuses, Finished, Sound
<1>2. Minds(s, t, h)
  BY <1>1, StatusMinds
<1>3. /\ t \in States /\ t.agents = s.agents /\ t.handled = s.handled
      /\ t.requests[r].status = "completed" /\ t.requests[r].replyTo = a
      /\ \A q \in Requests : q # r => t.requests[q] = s.requests[q]
      /\ t.events = s.events /\ t.nextAgent = s.nextAgent
  BY <1>1, RequestStatus
<1>20. RecordEvent(t).ok
  BY DEF Completed
<1> HIDE DEF t
<1>4. Minds(s, u, h) /\ u \in States /\ Alike(t, u)
  BY <1>2, MindsRecorded
<1>21. \/ u.events >= Limit /\ Completed(s, r).state = x
       \/ Completed(s, r) = Enqueue(u, a, m)
       \/ /\ Completed(s, r) = RecordEvent(v)
          /\ ~s.agents[a].running \/ Len(s.agents[a].mailbox) >= Limit
  <2>1. a \in Agents /\ Len(s.agents[a].mailbox) \in Nat /\ Limit \in Nat
    BY <1>1, Constants, LenProperties DEF States, RequestRecords, AgentRecords
  <2>2. ~(s.agents[a].running /\ Len(s.agents[a].mailbox) < Limit)
          => ~s.agents[a].running \/ Len(s.agents[a].mailbox) >= Limit
    BY <2>1
  <2>3. Completed(s, r) =
          IF u.events >= Limit THEN Done(x)
          ELSE IF s.agents[a].running /\ Len(s.agents[a].mailbox) < Limit
               THEN Enqueue(u, a, m) ELSE RecordEvent(v)
    BY <1>20 DEF Completed, t
  <2>4. Done(x).state = x
    BY DEF Done
  <2> HIDE DEF x, v, u, a, m
  <2> QED
    BY <2>2, <2>3, <2>4
<1> HIDE DEF u
<1>6. /\ u.agents = s.agents /\ u.handled = s.handled
      /\ u.requests[r].status = "completed" /\ u.requests[r].replyTo = a
      /\ \A q \in Requests : q # r => u.requests[q] = s.requests[q]
      /\ s.events <= u.events /\ u.nextAgent = s.nextAgent
  BY <1>3, <1>4 DEF Alike
<1>7. Sound(u) /\ Delivered(u, h)
  BY <1>4 DEF Minds
<1>8. a \in Agents
  BY <1>1 DEF States, RequestRecords
<1>22. /\ s.events \in Nat /\ u.events \in Nat /\ u.events <= Limit /\ Limit \in Nat
  BY <1>1, <1>4, Constants DEF States
<1>9. m \in Messages /\ m.kind = "model-result" /\ m.n = r
  BY DEF Messages, Result
<1> HIDE DEF m
<1>10. ~Truthful(s, m) /\ Truthful(u, m)
  BY <1>1, <1>6, <1>9 DEF Truthful
<1>23. \A b \in Agents : InboxOf(u, h, b) = InboxOf(s, h, b)
  <2>1. \A b \in Agents : u.agents[b].mailbox = s.agents[b].mailbox
    BY <1>6
  <2> QED
    BY <1>6, <2>1, InboxStays
<1>11. \A b \in Agents : ~Has(u, h, b, m)
  <2>1. \A b \in Agents : ~Has(s, h, b, m)
    BY <1>10 DEF Delivered, Has
  <2> QED
    BY <2>1, <1>23, SameInboxes
<1>24. Accounted(s, h) => a < s.nextAgent
  BY DEF Accounted, AccountOf
<1> HIDE DEF a
<1>25. ASSUME u.events >= Limit, Completed(s, r).state = x PROVE Keeps(s, x, h)
  <2>1. u.requests[r].status # "none"
    BY <1>6
  <2>2. Minds(u, x, h)
    BY <1>1, <1>7, <2>1, StatusMinds
  <2>3. /\ x \in States /\ x.agents = u.agents /\ x.handled = u.handled
        /\ x.requests[r].status = "unrecorded" /\ x.requests[r].replyTo = a
        /\ \A q \in Requests : q # r => x.requests[q] = u.requests[q]
        /\ x.events = u.events /\ x.nextAgent = u.nextAgent
    BY <1>1, <1>4, <1>6, <2>1, RequestStatus
  <2> HIDE DEF x
  <2>4. \A b \in Agents : x.agents[b].mailbox = u.agents[b].mailbox
    BY <2>3
  <2>5. \A b \in Agents : InboxOf(x, h, b) = InboxOf(s, h, b)
    BY <1>23, <2>3, <2>4, InboxStays
  <2>6. Onward(s, x, h, h)
    BY <1>1, <1>6, <2>3, <2>5, SameOnward
  <2>7. x.events = Limit
    BY <1>22, <1>25, <2>3
  <2>8. Accounted(s, h) => AccountOf(x, h, r)
    BY <1>6, <1>24, <2>3, <2>7 DEF AccountOf
  <2>9. Minds(s, x, h)
    BY <1>4, <2>2, MindsOn
  <2> QED
    BY <1>1, <1>6, <2>3, <2>6, <2>8, <2>9, AccountedFor
<1>26. ASSUME Completed(s, r) = Enqueue(u, a, m) PROVE Keeps(s, Completed(s, r).state, h)
  <2> DEFINE o == Enqueue(u, a, m)
             y == o.state
  <2>1. m.kind # "user" /\ o.ok
    BY <1>9, <1>26
  <2>2. Minds(u, y, h) /\ Has(y, h, a, m)
    BY <1>7, <1>8, <1>9, <1>10, <1>11, <2>1, EnqueueKeeps
  <2>3. Sound(y) /\ Gains(u, y, a, m)
    BY <1>7, <1>8, <1>9, <2>1, EnqueueOf
  <2> HIDE DEF o
  <2> HIDE DEF y
  <2>10. y \in States /\ y.events \in Nat
    BY <2>3, Constants DEF Sound, States
  <2>4. /\ y.handled = s.handled /\ y.agents[a].mailbox = Append(s.agents[a].mailbox, m)
        /\ \A b \in Agents : b # a => y.agents[b].mailbox = s.agents[b].mailbox
        /\ \A b \in Agents : y.agents[b].running = s.agents[b].running
        /\ y.requests = u.requests /\ y.nextAgent = s.nextAgent /\ u.events <= y.events
    BY <1>6, <2>3 DEF Gains
  <2>5. s.events <= y.events
    BY <1>6, <1>22, <2>4, <2>10
  <2>6. Onward(s, y, h, h)
    BY <1>1, <1>8, <1>9, <2>4, <2>5, <2>10, GainOnward
  <2>7. Accounted(s, h) => AccountOf(y, h, r)
    BY <1>6, <1>24, <2>2, <2>4 DEF AccountOf, m
  <2>8. Minds(s, y, h)
    BY <1>4, <2>2, MindsOn
  <2>9. Keeps(s, y, h)
    BY <1>1, <1>6, <2>4, <2>6, <2>7, <2>8, <2>10, AccountedFor
  <2> QED
    BY <1>26, <2>9 DEF y, o
<1>27. ASSUME Completed(s, r) = RecordEvent(v),
              ~s.agents[a].running \/ Len(s.agents[a].mailbox) >= Limit
       PROVE  Keeps(s, Completed(s, r).state, h)
  <2> DEFINE y == RecordEvent(v).state
  <2>1. u.requests[r].status # "none"
    BY <1>6
  <2>2. Minds(u, v, h)
    BY <1>1, <1>7, <2>1, StatusMinds
  <2>3. /\ v \in States /\ v.agents = u.agents /\ v.handled = u.handled
        /\ v.requests[r].status = "dropped" /\ v.requests[r].replyTo = a
        /\ \A q \in Requests : q # r => v.requests[q] = u.requests[q]
        /\ v.events = u.events /\ v.nextAgent = u.nextAgent
    BY <1>1, <1>4, <1>6, <2>1, RequestStatus
  <2> HIDE DEF v
  <2>10. y \in States /\ Alike(v, y) /\ Minds(u, y, h)
    BY <2>2, MindsRecorded
  <2> HIDE DEF y
  <2>11. /\ y.agents = s.agents /\ y.handled = s.handled /\ y.requests = v.requests
         /\ s.events <= y.events /\ y.nextAgent = s.nextAgent
    <3>1. u.events <= y.events /\ y.events \in Nat
      BY <2>3, <2>10, Constants DEF Alike, States
    <3>2. s.events <= y.events
      BY <1>6, <1>22, <3>1
    <3> QED
      BY <1>6, <2>3, <2>10, <3>2 DEF Alike
  <2>4. \A b \in Agents : y.agents[b].mailbox = s.agents[b].mailbox
    BY <2>11
  <2>5. \A b \in Agents : InboxOf(y, h, b) = InboxOf(s, h, b)
    BY <2>4, <2>11, InboxStays
  <2>6. Onward(s, y, h, h)
    BY <1>1, <2>5, <2>10, <2>11, SameOnward
  <2>7. ~y.agents[a].running \/ Len(InboxOf(y, h, a)) >= Limit
    <3>1. /\ s.handled[a] \in Seq(Messages) /\ h[a] \in Seq(Messages)
          /\ s.agents[a].mailbox \in Seq(Messages)
      BY <1>1, <1>8, InboxType
    <3>2. s.handled[a] \o h[a] \in Seq(Messages)
      BY <3>1, ConcatProperties
    <3>3. Len(InboxOf(s, h, a)) = Len(s.handled[a] \o h[a]) + Len(s.agents[a].mailbox)
      BY <3>1, <3>2, ConcatProperties DEF InboxOf
    <3>4. Len(s.handled[a] \o h[a]) \in Nat /\ Len(s.agents[a].mailbox) \in Nat
      BY <3>1, <3>2, LenProperties
    <3>5. Len(s.agents[a].mailbox) >= Limit => Len(InboxOf(s, h, a)) >= Limit
      <4> DEFINE k == Len(s.handled[a] \o h[a])
                 n == Len(s.agents[a].mailbox)
                 l == Len(InboxOf(s, h, a))
      <4>1. k \in Nat /\ n \in Nat /\ l = k + n /\ Limit \in Nat
        BY <1>22, <3>3, <3>4
      <4> HIDE DEF k, n, l
      <4>2. n >= Limit => l >= Limit
        BY <4>1
      <4> QED
        BY <4>2 DEF n, l
    <3> QED
      BY <1>8, <1>27, <2>5, <2>11, <3>5
  <2>8. Accounted(s, h) => AccountOf(y, h, r)
    BY <1>24, <2>3, <2>7, <2>11 DEF AccountOf
  <2>9. Minds(s, y, h)
    BY <1>4, <2>10, MindsOn
  <2>12. Keeps(s, y, h)
    BY <1>1, <1>6, <2>3, <2>6, <2>8, <2>9, <2>10, <2>11, AccountedFor
  <2> QED
    BY <1>27, <2>12 DEF y
<1> HIDE DEF v
<1> QED
  BY <1>21, <1>25, <1>26, <1>27

-----------------------------------------------------------------------------
(* Supervision.                                                            *)

\* What a child that stopped is owed.
ToldOf(s, h, c) ==
  LET agent == s.agents[c] IN
  c < s.nextAgent /\ ~agent.running /\ agent.supervisor # None /\ agent.action # "stop"
    => \/ ~s.agents[agent.supervisor].running
       \/ Has(s, h, agent.supervisor, Failed(c))

\* What supervision keeps, whether it went to its end or not.
Survives(s, t, h) ==
  /\ Sound(t) /\ Delivered(t, h) /\ (Complete(s, h) => Complete(t, h))
  /\ t.turn = s.turn /\ t.undone = s.undone

LEMMA RestartOf ==
  ASSUME NEW s \in States, NEW a \in Agents
  PROVE  LET t == [s EXCEPT !.agents[a].restarts = @ + 1] IN
         /\ t \in States /\ t.nextAgent = s.nextAgent /\ t.requests = s.requests
         /\ t.ready = s.ready /\ t.waits = s.waits /\ t.sentBy = s.sentBy
         /\ t.handled = s.handled /\ t.turn = s.turn /\ t.undone = s.undone
         /\ t.nextRequest = s.nextRequest /\ t.events = s.events
         /\ t.agents[a].restarts = s.agents[a].restarts + 1
         /\ \A b \in Agents : /\ b # a => t.agents[b] = s.agents[b]
                              /\ t.agents[b].mailbox = s.agents[b].mailbox
                              /\ t.agents[b].running = s.agents[b].running
                              /\ t.agents[b].active = s.agents[b].active
                              /\ t.agents[b].supervisor = s.agents[b].supervisor
                              /\ t.agents[b].action = s.agents[b].action
                              /\ t.agents[b].max = s.agents[b].max
                              /\ t.agents[b].by = s.agents[b].by
<1> DEFINE n == s.agents[a].restarts + 1
           agent == [s.agents[a] EXCEPT !.restarts = n]
           agents == [s.agents EXCEPT ![a] = agent]
           t == [s EXCEPT !.agents[a].restarts = @ + 1]
<1>1. s.agents \in [Agents -> AgentRecords] /\ s.agents[a] \in AgentRecords
  BY DEF States
<1>2. n \in Nat
  BY <1>1 DEF AgentRecords
<1>3. t = [s EXCEPT !.agents = agents]
  BY <1>1 DEF States
<1> HIDE DEF n
<1>4. /\ agent \in AgentRecords /\ agent.restarts = n
      /\ agent.mailbox = s.agents[a].mailbox /\ agent.running = s.agents[a].running
      /\ agent.active = s.agents[a].active /\ agent.supervisor = s.agents[a].supervisor
      /\ agent.action = s.agents[a].action /\ agent.max = s.agents[a].max
      /\ agent.by = s.agents[a].by
  BY <1>1, <1>2 DEF AgentRecords
<1> HIDE DEF agent
<1>5. /\ agents \in [Agents -> AgentRecords] /\ agents[a] = agent
      /\ \A b \in Agents : b # a => agents[b] = s.agents[b]
  BY <1>1, <1>4
<1> HIDE DEF agents
<1>6. /\ t \in States /\ t.nextAgent = s.nextAgent /\ t.requests = s.requests
      /\ t.ready = s.ready /\ t.waits = s.waits /\ t.sentBy = s.sentBy
      /\ t.handled = s.handled /\ t.turn = s.turn /\ t.undone = s.undone
      /\ t.nextRequest = s.nextRequest /\ t.agents = agents /\ t.events = s.events
  BY <1>3, <1>5 DEF States
<1> HIDE DEF t
<1>7. \A b \in Agents : /\ t.agents[b].mailbox = s.agents[b].mailbox
                        /\ t.agents[b].running = s.agents[b].running
                        /\ t.agents[b].active = s.agents[b].active
                        /\ t.agents[b].supervisor = s.agents[b].supervisor
                        /\ t.agents[b].action = s.agents[b].action
                        /\ t.agents[b].max = s.agents[b].max
                        /\ t.agents[b].by = s.agents[b].by
  BY <1>4, <1>5, <1>6
<1> QED
  BY <1>4, <1>5, <1>6, <1>7 DEF t, n

LEMMA RestartKeeps ==
  ASSUME NEW s, Sound(s), NEW h \in Hands, Delivered(s, h), NEW a \in Agents,
         s.agents[a].restarts < s.agents[a].max
  PROVE  Keeps(s, [s EXCEPT !.agents[a].restarts = @ + 1], h)
<1> DEFINE t == [s EXCEPT !.agents[a].restarts = @ + 1]
<1>0. s \in States /\ Awake(s) /\ Clean(s) /\ Lined(s.ready, s.waits)
  BY DEF Sound
<1>1. /\ t \in States /\ t.nextAgent = s.nextAgent /\ t.requests = s.requests
      /\ t.ready = s.ready /\ t.waits = s.waits /\ t.sentBy = s.sentBy
      /\ t.handled = s.handled /\ t.turn = s.turn /\ t.undone = s.undone
      /\ t.nextRequest = s.nextRequest /\ t.events = s.events
      /\ t.agents[a].restarts = s.agents[a].restarts + 1
      /\ \A b \in Agents : b # a => t.agents[b] = s.agents[b]
  BY <1>0, RestartOf
<1>2. \A b \in Agents : /\ t.agents[b].mailbox = s.agents[b].mailbox
                        /\ t.agents[b].running = s.agents[b].running
                        /\ t.agents[b].active = s.agents[b].active
                        /\ t.agents[b].supervisor = s.agents[b].supervisor
                        /\ t.agents[b].action = s.agents[b].action
                        /\ t.agents[b].max = s.agents[b].max
                        /\ t.agents[b].by = s.agents[b].by
  BY <1>0, RestartOf
<1> HIDE DEF t
<1>3. \A b \in Agents : t.agents[b].restarts <= t.agents[b].max
  <2>1. s.agents[a].restarts \in Nat /\ s.agents[a].max \in Nat
    BY <1>0 DEF States, AgentRecords
  <2>2. t.agents[a].restarts <= t.agents[a].max
    BY <1>1, <1>2, <2>1
  <2>3. \A b \in Agents : b # a => t.agents[b].restarts <= t.agents[b].max
    BY <1>0, <1>1 DEF Awake
  <2> QED
    BY <2>2, <2>3
<1>4. Awake(t)
  BY <1>0, <1>1, <1>2, <1>3 DEF Awake
<1>5. Clean(t)
  BY <1>0, <1>1, <1>2 DEF Clean, Standing
<1>6. Sound(t)
  BY <1>0, <1>1, <1>4, <1>5 DEF Sound
<1>7. \A b \in Agents : InboxOf(t, h, b) = InboxOf(s, h, b)
  BY <1>1, <1>2, InboxStays
<1>8. \A x \in Messages : Truthful(s, x) => Truthful(t, x)
  <2> TAKE x \in Messages
  <2>1. x.kind = "child-failed" => x.n \in Agents
    BY MessageNumbers
  <2> QED
    BY <1>1, <1>2, <2>1 DEF Truthful
<1>9. /\ Len(t.sentBy) <= MaxMessages
      /\ \A r \in Requests : r >= t.nextRequest => t.requests[r].status = "none"
  BY <1>1 DEF Delivered
<1>10. Delivered(t, h)
  BY <1>0, <1>1, <1>7, <1>8, <1>9, DeliveredStays
<1>11. \A b \in Agents : \A x : Has(t, h, b, x) <=> Has(s, h, b, x)
  BY <1>1, <1>7, SameInboxes
<1>14. s.events <= t.events
  BY <1>0, <1>1, Constants DEF States
<1>15. Onward(s, t, h, h)
  BY <1>0, <1>1, <1>2, <1>7, <1>14, SameOnward
<1>16. Complete(s, h) => Complete(t, h)
  BY <1>0, <1>1, <1>15, CompleteStays
<1>12. Told(s, h) => Told(t, h)
  BY <1>0, <1>1, <1>2, <1>11, ToldStays
<1>13. Keeps(s, t, h)
  BY <1>1, <1>6, <1>10, <1>12, <1>16 DEF Keeps
<1> QED
  BY <1>13 DEF t

LEMMA StopOf ==
  ASSUME NEW s \in States, NEW a \in Agents, Lined(s.ready, s.waits)
  PROVE  LET t == Stop(s, a) IN
         /\ t \in States /\ t.nextAgent = s.nextAgent /\ t.requests = s.requests
         /\ Lined(t.ready, t.waits) /\ t.sentBy = s.sentBy
         /\ t.handled = s.handled /\ t.turn = s.turn /\ t.undone = s.undone
         /\ t.nextRequest = s.nextRequest /\ t.events = s.events
         /\ ~t.agents[a].running
         /\ \A b \in Agents : /\ b # a => t.agents[b] = s.agents[b]
                              /\ t.agents[b].mailbox = s.agents[b].mailbox
                              /\ t.agents[b].restarts = s.agents[b].restarts
                              /\ t.agents[b].supervisor = s.agents[b].supervisor
                              /\ t.agents[b].action = s.agents[b].action
                              /\ t.agents[b].max = s.agents[b].max
                              /\ t.agents[b].by = s.agents[b].by
         /\ \A b : Contains(t.ready, b) <=> Contains(s.ready, b) /\ b # a
<1> DEFINE agent == [s.agents[a] EXCEPT !.running = FALSE]
           agents == [s.agents EXCEPT ![a] = agent]
           waits == [s.waits EXCEPT ![a] = 0]
           ready == RemoveFirst(s.ready, a)
           t == Stop(s, a)
<1>1. /\ s.agents \in [Agents -> AgentRecords] /\ s.agents[a] \in AgentRecords
      /\ s.ready \in Seq(Agents) /\ s.waits \in [Agents -> Nat]
  BY DEF States
<1>2. /\ ready \in Seq(Agents) /\ waits \in [Agents -> Nat] /\ Lined(ready, waits)
      /\ \A b : Contains(ready, b) <=> Contains(s.ready, b) /\ b # a
  BY <1>1, QueueRemove
<1>3. t = [s EXCEPT !.agents = agents, !.waits = waits, !.ready = ready]
  BY <1>1 DEF Stop, States
<1>4. /\ agent \in AgentRecords /\ ~agent.running
      /\ agent.mailbox = s.agents[a].mailbox /\ agent.restarts = s.agents[a].restarts
      /\ agent.supervisor = s.agents[a].supervisor
      /\ agent.action = s.agents[a].action /\ agent.max = s.agents[a].max
      /\ agent.by = s.agents[a].by
  BY <1>1 DEF AgentRecords
<1> HIDE DEF agent, waits, ready
<1>5. /\ agents \in [Agents -> AgentRecords] /\ agents[a] = agent
      /\ \A b \in Agents : b # a => agents[b] = s.agents[b]
  BY <1>1, <1>4
<1> HIDE DEF agents
<1>6. /\ t \in States /\ t.nextAgent = s.nextAgent /\ t.requests = s.requests
      /\ t.ready = ready /\ t.waits = waits /\ t.sentBy = s.sentBy
      /\ t.handled = s.handled /\ t.turn = s.turn /\ t.undone = s.undone
      /\ t.nextRequest = s.nextRequest /\ t.agents = agents /\ t.events = s.events
  BY <1>2, <1>3, <1>5 DEF States
<1> HIDE DEF t
<1>7. \A b \in Agents : /\ t.agents[b].mailbox = s.agents[b].mailbox
                        /\ t.agents[b].restarts = s.agents[b].restarts
                        /\ t.agents[b].supervisor = s.agents[b].supervisor
                        /\ t.agents[b].action = s.agents[b].action
                        /\ t.agents[b].max = s.agents[b].max
                        /\ t.agents[b].by = s.agents[b].by
  BY <1>4, <1>5, <1>6
<1> QED
  BY <1>2, <1>4, <1>5, <1>6, <1>7 DEF t

\* A stopped agent: whoever it supervised is owed nothing, its own supervisor a word.
LEMMA StopSurvives ==
  ASSUME NEW s, Sound(s), NEW h \in Hands, Delivered(s, h), NEW a \in Agents
  PROVE  LET t == Stop(s, a) IN
         /\ Survives(s, t, h)
         /\ Told(s, h) => \A c \in Agents : c # a => ToldOf(t, h, c)
         /\ \A b \in Agents : \A x : Has(t, h, b, x) <=> Has(s, h, b, x)
         /\ t.agents[a].supervisor = s.agents[a].supervisor /\ ~t.agents[a].running
         /\ t.nextAgent = s.nextAgent
<1> DEFINE t == Stop(s, a)
<1>0. s \in States /\ Awake(s) /\ Clean(s) /\ Lined(s.ready, s.waits)
  BY DEF Sound
<1>1. /\ t \in States /\ t.nextAgent = s.nextAgent /\ t.requests = s.requests
      /\ Lined(t.ready, t.waits) /\ t.sentBy = s.sentBy
      /\ t.handled = s.handled /\ t.turn = s.turn /\ t.undone = s.undone
      /\ t.nextRequest = s.nextRequest /\ ~t.agents[a].running /\ t.events = s.events
      /\ \A b \in Agents : b # a => t.agents[b] = s.agents[b]
      /\ \A b \in Agents : Contains(t.ready, b) <=> Contains(s.ready, b) /\ b # a
  <2>1. /\ t \in States /\ t.nextAgent = s.nextAgent /\ t.requests = s.requests
        /\ Lined(t.ready, t.waits) /\ t.sentBy = s.sentBy
        /\ t.handled = s.handled /\ t.turn = s.turn /\ t.undone = s.undone
        /\ t.nextRequest = s.nextRequest /\ ~t.agents[a].running /\ t.events = s.events
    BY <1>0, StopOf
  <2>2. \A b \in Agents : b # a => t.agents[b] = s.agents[b]
    BY <1>0, StopOf
  <2>3. \A b \in Agents : Contains(t.ready, b) <=> Contains(s.ready, b) /\ b # a
    BY <1>0, StopOf
  <2> HIDE DEF t
  <2> QED
    BY <2>1, <2>2, <2>3
<1>2. \A b \in Agents : /\ t.agents[b].mailbox = s.agents[b].mailbox
                        /\ t.agents[b].restarts = s.agents[b].restarts
                        /\ t.agents[b].supervisor = s.agents[b].supervisor
                        /\ t.agents[b].action = s.agents[b].action
                        /\ t.agents[b].max = s.agents[b].max
                        /\ t.agents[b].by = s.agents[b].by
  BY <1>0, StopOf
<1> HIDE DEF t
<1>3. Awake(t)
  <2>1. t.nextAgent <= Cardinality(Agents) + 1
    BY <1>0, <1>1 DEF Awake
  <2>2. ASSUME NEW b \in Agents
        PROVE  LET u == t.agents[b] IN
               /\ u.running /\ u.active /\ u.mailbox # <<>> => Contains(t.ready, b)
               /\ u.running \/ u.mailbox # <<>> \/ Contains(t.ready, b) => b < t.nextAgent
               /\ Len(u.mailbox) <= Limit /\ u.restarts <= u.max
               /\ u.supervisor < t.nextAgent
    <3>1. LET u == s.agents[b] IN
               /\ u.running /\ u.active /\ u.mailbox # <<>> => Contains(s.ready, b)
               /\ u.running \/ u.mailbox # <<>> \/ Contains(s.ready, b) => b < s.nextAgent
               /\ Len(u.mailbox) <= Limit /\ u.restarts <= u.max
               /\ u.supervisor < s.nextAgent
      BY <1>0 DEF Awake
    <3>2. CASE b = a
      BY <1>1, <1>2, <3>1, <3>2
    <3>3. CASE b # a
      BY <1>1, <3>1, <3>3
    <3> QED
      BY <3>2, <3>3
  <2> QED
    BY <2>1, <2>2 DEF Awake
<1>4. Clean(t)
  BY <1>0, <1>1, <1>2 DEF Clean, Standing
<1>5. Sound(t)
  BY <1>1, <1>3, <1>4 DEF Sound
<1>6. \A b \in Agents : InboxOf(t, h, b) = InboxOf(s, h, b)
  BY <1>1, <1>2, InboxStays
<1>7. \A x \in Messages : Truthful(s, x) => Truthful(t, x)
  <2> TAKE x \in Messages
  <2>1. x.kind = "child-failed" => x.n \in Agents
    BY MessageNumbers
  <2>2. x.kind = "child-failed" /\ ~s.agents[x.n].running => ~t.agents[x.n].running
    BY <1>1, <2>1
  <2> QED
    BY <1>1, <2>2 DEF Truthful
<1>8. /\ Len(t.sentBy) <= MaxMessages
      /\ \A r \in Requests : r >= t.nextRequest => t.requests[r].status = "none"
  BY <1>1 DEF Delivered
<1>9. Delivered(t, h)
  BY <1>0, <1>1, <1>6, <1>7, <1>8, DeliveredStays
<1>10. \A b \in Agents : \A x : Has(t, h, b, x) <=> Has(s, h, b, x)
  BY <1>1, <1>6, SameInboxes
<1>14. s.events <= t.events
  BY <1>0, <1>1, Constants DEF States
<1>15. \A b \in Agents : t.agents[b].running => s.agents[b].running
  BY <1>1
<1>16. Onward(s, t, h, h)
  BY <1>0, <1>1, <1>6, <1>14, <1>15, SameOnward
<1>17. Complete(s, h) => Complete(t, h)
  BY <1>0, <1>1, <1>16, CompleteStays
<1>11. Survives(s, t, h)
  BY <1>1, <1>5, <1>9, <1>17 DEF Survives
<1>12. ASSUME Told(s, h), NEW c \in Agents, c # a PROVE ToldOf(t, h, c)
  <2> SUFFICES ASSUME c < t.nextAgent, ~t.agents[c].running, t.agents[c].supervisor # None,
                      t.agents[c].action # "stop"
               PROVE  \/ ~t.agents[t.agents[c].supervisor].running
                      \/ Has(t, h, t.agents[c].supervisor, Failed(c))
    BY DEF ToldOf
  <2> DEFINE p == s.agents[c].supervisor
  <2>1. t.agents[c] = s.agents[c]
    BY <1>1, <1>12
  <2>2. p \in Agents
    BY <1>0, <2>1 DEF States, AgentRecords
  <2>3. ~s.agents[p].running \/ Has(s, h, p, Failed(c))
    BY <1>1, <1>12, <2>1 DEF Told
  <2>4. CASE ~s.agents[p].running
    BY <1>1, <2>1, <2>2, <2>4
  <2>5. CASE Has(s, h, p, Failed(c))
    BY <1>10, <2>1, <2>2, <2>5
  <2> QED
    BY <2>3, <2>4, <2>5
<1>13. Told(s, h) => \A c \in Agents : c # a => ToldOf(t, h, c)
  BY <1>12
<1> QED
  BY <1>1, <1>2, <1>10, <1>11, <1>13 DEF t

LEMMA SurvivesOn ==
  ASSUME NEW s, NEW t, NEW u, NEW h, Survives(s, t, h), Keeps(t, u, h)
  PROVE  Survives(s, u, h)
BY DEF Survives, Keeps

\* An escalation that succeeds has told whom it must.
LEMMA EscalateKeeps ==
  ASSUME NEW s, Sound(s), NEW h \in Hands, Delivered(s, h), NEW a \in Agents,
         ~s.agents[a].running, a < s.nextAgent, \A b \in Agents : ~Has(s, h, b, Failed(a))
  PROVE  LET o == Escalate(s, a) IN
         /\ Keeps(s, o.state, h)
         /\ o.ok /\ (\A c \in Agents : c # a => ToldOf(s, h, c)) => Told(o.state, h)
<1> DEFINE p == s.agents[a].supervisor
           u == RecordEvent(s).state
           o == Escalate(s, a)
<1>0. s \in States
  BY DEF Sound
<1>1. Keeps(s, s, h)
  BY KeepsNothing
<1>2. Keeps(s, u, h)
  BY <1>1, KeepsRecorded
<1>3. u \in States /\ Alike(s, u)
  BY <1>0, Recorded
<1>4. ASSUME NEW t, \A c \in Agents : ToldOf(t, h, c) PROVE Told(t, h)
  BY <1>4 DEF Told, ToldOf
<1>5. CASE p = None \/ s.agents[a].action = "stop"
  <2>1. o = Done(s)
    BY <1>5 DEF Escalate
  <2>2. ToldOf(s, h, a)
    BY <1>5 DEF ToldOf
  <2>3. (\A c \in Agents : c # a => ToldOf(s, h, c)) => Told(s, h)
    BY <1>4, <2>2
  <2>4. Done(s).state = s
    BY DEF Done
  <2> HIDE DEF o
  <2> QED
    BY <1>1, <2>1, <2>3, <2>4 DEF o
<1>6. CASE p # None /\ s.agents[a].action # "stop"
  <2>0. p \in Agents
    BY <1>0, <1>6 DEF States, AgentRecords
  <2> HIDE DEF u
  <2>1. u.agents = s.agents /\ u.nextAgent = s.nextAgent /\ u.handled = s.handled
    BY <1>3 DEF Alike
  <2>2. \A b \in Agents : InboxOf(u, h, b) = InboxOf(s, h, b)
    BY <2>1 DEF InboxOf
  <2>3. \A b \in Agents : \A x : Has(u, h, b, x) <=> Has(s, h, b, x)
    BY <2>2, SameInboxes
  <2>4. Sound(u) /\ Delivered(u, h)
    BY <1>2 DEF Keeps
  <2>5. CASE ~(RecordEvent(s).ok /\ s.agents[p].running)
    <3>1. o = RecordEvent(s)
      BY <1>6, <2>5 DEF Escalate
    <3>2. RecordEvent(s).ok => ToldOf(u, h, a)
      BY <2>1, <2>5 DEF ToldOf
    <3>3. \A c \in Agents : ToldOf(s, h, c) => ToldOf(u, h, c)
      <4> TAKE c \in Agents
      <4>1. s.agents[c].supervisor # None => s.agents[c].supervisor \in Agents
        BY <1>0 DEF States, AgentRecords
      <4> QED
        BY <2>1, <2>3, <4>1 DEF ToldOf
    <3>4. RecordEvent(s).ok /\ (\A c \in Agents : c # a => ToldOf(s, h, c)) => Told(u, h)
      BY <1>4, <3>2, <3>3
    <3> HIDE DEF o
    <3> QED
      BY <1>2, <3>1, <3>4 DEF o, u
  <2>6. CASE RecordEvent(s).ok /\ s.agents[p].running
    <3> DEFINE m == Failed(a)
               e == Enqueue(u, p, m)
               t == e.state
    <3>1. o = e
      BY <1>6, <2>6 DEF Escalate, u
    <3>2. m \in Messages /\ m.kind = "child-failed" /\ m.n = a /\ m.kind # "user"
      BY DEF Messages, Failed
    <3> HIDE DEF m
    <3>3. Truthful(u, m)
      BY <2>1, <3>2 DEF Truthful
    <3>4. \A b \in Agents : ~Has(u, h, b, m)
      BY <2>3 DEF m
    <3>5. Keeps(u, t, h) /\ (e.ok => Has(t, h, p, m))
      <4> HIDE DEF p
      <4> QED
        BY <2>0, <2>4, <3>2, <3>3, <3>4, EnqueueKeeps
    <3>6. Keeps(s, t, h)
      BY <1>2, <3>5, KeepsOn
    <3>7. Sound(t) /\ (t = u \/ Gains(u, t, p, m)) /\ (e.ok => Gains(u, t, p, m))
      <4> HIDE DEF p
      <4> QED
        BY <2>0, <2>4, <3>2, EnqueueOf
    <3>8. ASSUME e.ok, \A c \in Agents : c # a => ToldOf(s, h, c) PROVE Told(t, h)
      <4> HIDE DEF t
      <4>1. Gains(u, t, p, m) /\ t \in States /\ u \in States /\ Has(t, h, p, m)
        BY <1>3, <3>5, <3>7, <3>8 DEF Sound
      <4> HIDE DEF p
      <4>2. \A b \in Agents : \A x : Has(u, h, b, x) => Has(t, h, b, x)
        <5>1. /\ t.handled = u.handled /\ t.agents[p].mailbox = Append(u.agents[p].mailbox, m)
              /\ \A b \in Agents : b # p => t.agents[b].mailbox = u.agents[b].mailbox
          BY <4>1 DEF Gains
        <5> QED
          BY <2>0, <3>2, <4>1, <5>1, InboxGrows
      <4>3. /\ t.nextAgent = s.nextAgent
            /\ \A b \in Agents : /\ t.agents[b].running = s.agents[b].running
                                 /\ t.agents[b].supervisor = s.agents[b].supervisor
                                 /\ t.agents[b].action = s.agents[b].action
        BY <2>1, <4>1 DEF Gains
      <4>4. ASSUME NEW c \in Agents, c # a PROVE ToldOf(t, h, c)
        <5>1. s.agents[c].supervisor # None => s.agents[c].supervisor \in Agents
          BY <1>0 DEF States, AgentRecords
        <5>2. ToldOf(s, h, c)
          BY <3>8, <4>4
        <5> QED
          BY <2>3, <4>2, <4>3, <5>1, <5>2 DEF ToldOf
      <4>5. t.agents[a].supervisor = p
        BY <4>3 DEF p
      <4>6. ToldOf(t, h, a)
        BY <4>1, <4>5 DEF ToldOf, m
      <4> QED
        BY <1>4, <4>4, <4>6
    <3> HIDE DEF o, e
    <3> QED
      BY <3>1, <3>6, <3>8 DEF o
  <2> QED
    BY <2>5, <2>6
<1> QED
  BY <1>5, <1>6

LEMMA SuperviseSurvives ==
  ASSUME NEW s, Sound(s), NEW h \in Hands, Delivered(s, h), NEW a \in Agents,
         s.agents[a].running
  PROVE  LET o == Supervise(s, a) IN
         /\ Survives(s, o.state, h)
         /\ o.ok /\ Told(s, h) => Told(o.state, h)
<1> DEFINE o == Supervise(s, a)
           t == [s EXCEPT !.agents[a].restarts = @ + 1]
           u == Stop(s, a)
           v == RecordEvent(u).state
           e == Escalate(v, a)
<1>0. s \in States
  BY DEF Sound
<1>1. CASE s.agents[a].action = "restart" /\ s.agents[a].restarts < s.agents[a].max
  <2>1. o = RecordEvent(t)
    BY <1>1 DEF Supervise
  <2>2. Keeps(s, t, h)
    BY <1>1, RestartKeeps
  <2> HIDE DEF t, o
  <2>3. Keeps(s, RecordEvent(t).state, h)
    BY <2>2, KeepsRecorded
  <2> QED
    BY <2>1, <2>3 DEF Keeps, Survives, o
<1>2. CASE ~(s.agents[a].action = "restart" /\ s.agents[a].restarts < s.agents[a].max)
  <2>1. o = IF RecordEvent(u).ok THEN e ELSE RecordEvent(u)
    BY <1>2 DEF Supervise
  <2>2. /\ Survives(s, u, h)
        /\ Told(s, h) => \A c \in Agents : c # a => ToldOf(u, h, c)
        /\ \A b \in Agents : \A x : Has(u, h, b, x) <=> Has(s, h, b, x)
        /\ ~u.agents[a].running /\ u.nextAgent = s.nextAgent
    BY StopSurvives
  <2> HIDE DEF u, o
  <2>3. Sound(u) /\ Delivered(u, h) /\ u \in States
    BY <2>2 DEF Survives, Sound
  <2>4. Keeps(u, v, h)
    BY <2>3, KeepsNothing, KeepsRecorded
  <2>5. Survives(s, v, h)
    BY <2>2, <2>4, SurvivesOn
  <2>6. Alike(u, v)
    BY <2>3, Recorded
  <2> HIDE DEF v
  <2>7. v.agents = u.agents /\ v.nextAgent = s.nextAgent /\ v.handled = u.handled
    BY <2>2, <2>6 DEF Alike
  <2>8. Sound(v) /\ Delivered(v, h)
    BY <2>5 DEF Survives
  <2>9. \A b \in Agents : InboxOf(v, h, b) = InboxOf(u, h, b)
    BY <2>7 DEF InboxOf
  <2>10. \A b \in Agents : \A x : Has(v, h, b, x) <=> Has(s, h, b, x)
    BY <2>2, <2>9, SameInboxes
  <2>11. ~v.agents[a].running /\ a < v.nextAgent
    BY <2>2, <2>7 DEF Sound, Awake
  <2>12. \A b \in Agents : ~Has(v, h, b, Failed(a))
    <3>1. ~Truthful(s, Failed(a))
      BY DEF Truthful, Failed
    <3> QED
      BY <2>10, <3>1 DEF Delivered, Has
  <2>13. /\ Keeps(v, e.state, h)
         /\ e.ok /\ (\A c \in Agents : c # a => ToldOf(v, h, c)) => Told(e.state, h)
    BY <2>8, <2>11, <2>12, EscalateKeeps
  <2>14. Told(s, h) => \A c \in Agents : c # a => ToldOf(v, h, c)
    <3>1. \A c \in Agents : u.agents[c].supervisor # None => u.agents[c].supervisor \in Agents
      BY <2>3 DEF States, AgentRecords
    <3>2. u.nextAgent = v.nextAgent
      BY <2>2, <2>7
    <3>3. \A b \in Agents : \A x : Has(v, h, b, x) <=> Has(u, h, b, x)
      BY <2>9, SameInboxes
    <3>4. ASSUME NEW c \in Agents, ToldOf(u, h, c) PROVE ToldOf(v, h, c)
      BY <2>7, <3>1, <3>2, <3>3, <3>4 DEF ToldOf
    <3> QED
      BY <2>2, <3>4
  <2>15. Survives(s, e.state, h)
    BY <2>5, <2>13, SurvivesOn
  <2>16. CASE RecordEvent(u).ok
    <3>1. o = e
      BY <2>1, <2>16
    <3> HIDE DEF e
    <3> QED
      BY <2>13, <2>14, <2>15, <3>1 DEF o
  <2>17. CASE ~RecordEvent(u).ok
    <3>1. o = RecordEvent(u)
      BY <2>1, <2>17
    <3>2. o.state = v /\ ~o.ok
      BY <2>17, <3>1 DEF v
    <3> QED
      BY <2>5, <3>2 DEF o
  <2> QED
    BY <2>16, <2>17
<1> QED
  BY <1>1, <1>2

-----------------------------------------------------------------------------
(* From the mailbox to the hand to what was handled.                       *)

LEMMA Taken ==
  ASSUME NEW x \in Seq(Messages), NEW q \in Seq(Messages), q # <<>>
  PROVE  /\ Head(q) \in Messages /\ Tail(q) \in Seq(Messages) /\ Len(Tail(q)) <= Len(q)
         /\ Append(x, Head(q)) \in Seq(Messages) /\ <<Head(q)>> \in Seq(Messages)
         /\ (x \o <<Head(q)>>) \o Tail(q) = (x \o <<>>) \o q
         /\ (Append(x, Head(q)) \o <<>>) \o Tail(q) = (x \o <<>>) \o q
<1> DEFINE m == Head(q)
           r == Tail(q)
<1>1. m \in Messages /\ r \in Seq(Messages) /\ Len(r) = Len(q) - 1 /\ Len(q) \in Nat \ {0}
  BY HeadTailProperties, EmptySeq
<1>2. q = <<m>> \o r
  <2>1. 1 \in 1 .. Len(q) /\ Len(q) \in 1 .. Len(q)
    BY <1>1
  <2>2. SubSeq(q, 1, Len(q)) = <<q[1]>> \o SubSeq(q, 2, Len(q))
    BY <2>1, SubSeqRecursiveFirst
  <2>3. SubSeq(q, 1, Len(q)) = q /\ r = SubSeq(q, 2, Len(q))
    BY SubSeqFull, TailIsSubSeq
  <2>4. m = q[1]
    OBVIOUS
  <2> QED
    BY <2>2, <2>3, <2>4
<1> HIDE DEF m, r
<1>3. <<m>> \in Seq(Messages) /\ Append(x, m) = x \o <<m>> /\ Append(x, m) \in Seq(Messages)
  BY <1>1, AppendIsConcat, AppendProperties
<1>4. x \o <<>> = x /\ Append(x, m) \o <<>> = Append(x, m)
  BY <1>3, ConcatEmptySeq
<1>5. (x \o <<m>>) \o r = x \o (<<m>> \o r)
  BY <1>1, <1>3, ConcatAssociative
<1>6. Len(r) <= Len(q)
  BY <1>1
<1> QED
  BY <1>1, <1>2, <1>3, <1>4, <1>5, <1>6 DEF m, r

LEMMA Handed ==
  ASSUME NEW x \in Seq(Messages), NEW y, NEW m \in Messages
  PROVE  (Append(x, m) \o <<>>) \o y = (x \o <<m>>) \o y /\ Append(x, m) \in Seq(Messages)
<1>1. Append(x, m) = x \o <<m>> /\ Append(x, m) \in Seq(Messages)
  BY AppendIsConcat, AppendProperties
<1>2. Append(x, m) \o <<>> = Append(x, m)
  BY <1>1, ConcatEmptySeq
<1> QED
  BY <1>1, <1>2

\* What is in hand is a message of one agent.
Holding(h, a, m) == h = [b \in Agents |-> IF b = a THEN <<m>> ELSE <<>>]

LEMMA HandType ==
  /\ NoHand \in Hands
  /\ \A h, a, m : a \in Agents /\ m \in Messages /\ Holding(h, a, m)
       => h \in Hands /\ h[a] = <<m>> /\ \A b \in Agents : b # a => h[b] = <<>>
<1>1. <<>> \in Seq(Messages)
  BY EmptySeq
<1>2. ASSUME NEW m \in Messages PROVE <<m>> \in Seq(Messages)
  OBVIOUS
<1> QED
  BY <1>1, <1>2 DEF Hands, NoHand, Holding

\* A message that is dropped from a hand takes nothing else with it.
LEMMA DropHand ==
  ASSUME NEW s \in States, NEW h \in Hands, Delivered(s, h)
  PROVE  Delivered(s, NoHand)
<1> DEFINE up(a, i) == IF i <= Len(s.handled[a]) THEN i ELSE i + Len(h[a])
<1>1. ASSUME NEW a \in Agents
      PROVE  /\ Len(s.handled[a]) \in Nat /\ Len(h[a]) \in Nat
             /\ Len(InboxOf(s, h, a)) \in Nat /\ Len(InboxOf(s, NoHand, a)) \in Nat
             /\ \A i \in 1 .. Len(InboxOf(s, NoHand, a)) :
                  /\ up(a, i) \in 1 .. Len(InboxOf(s, h, a))
                  /\ InboxOf(s, h, a)[up(a, i)] = InboxOf(s, NoHand, a)[i]
  <2> DEFINE x == s.handled[a]
             y == h[a]
             q == s.agents[a].mailbox
  <2>1. x \in Seq(Messages) /\ y \in Seq(Messages) /\ q \in Seq(Messages)
    BY InboxType
  <2>2. InboxOf(s, h, a) = (x \o y) \o q /\ InboxOf(s, NoHand, a) = (x \o <<>>) \o q
    BY DEF InboxOf, NoHand
  <2> HIDE DEF x, y, q
  <2>3. x \o <<>> = x /\ x \o y \in Seq(Messages) /\ x \o q \in Seq(Messages)
    BY <2>1, ConcatEmptySeq, ConcatProperties
  <2>4. /\ Len(x) \in Nat /\ Len(y) \in Nat /\ Len(q) \in Nat
        /\ Len(x \o y) = Len(x) + Len(y) /\ Len((x \o y) \o q) = Len(x) + Len(y) + Len(q)
        /\ Len(x \o q) = Len(x) + Len(q)
    BY <2>1, <2>3, LenProperties, ConcatProperties
  <2>5. ASSUME NEW i \in 1 .. Len(x) + Len(q)
        PROVE  /\ (IF i <= Len(x) THEN i ELSE i + Len(y)) \in 1 .. Len(x) + Len(y) + Len(q)
               /\ ((x \o y) \o q)[IF i <= Len(x) THEN i ELSE i + Len(y)] = (x \o q)[i]
    <3>1. (x \o q)[i] = IF i <= Len(x) THEN x[i] ELSE q[i - Len(x)]
      BY <2>1, ConcatProperties
    <3>2. CASE i <= Len(x)
      <4>1. i \in 1 .. Len(x) + Len(y) + Len(q) /\ i <= Len(x) + Len(y) /\ i \in 1 .. Len(x) + Len(y)
        BY <2>4, <3>2
      <4>2. i \in 1 .. Len(x \o y) + Len(q) /\ i <= Len(x \o y)
        BY <2>4, <4>1
      <4>3. ((x \o y) \o q)[i] = (x \o y)[i]
        BY <2>1, <2>3, <4>2, ConcatProperties
      <4>4. (x \o y)[i] = x[i]
        BY <2>1, <3>2, <4>1, ConcatProperties
      <4> QED
        BY <3>1, <3>2, <4>1, <4>3, <4>4
    <3>3. CASE ~(i <= Len(x))
      <4> DEFINE j == i + Len(y)
      <4>1. /\ j \in 1 .. Len(x) + Len(y) + Len(q) /\ ~(j <= Len(x) + Len(y))
            /\ j - (Len(x) + Len(y)) = i - Len(x)
        BY <2>4, <3>3
      <4> HIDE DEF j
      <4>2. j \in 1 .. Len(x \o y) + Len(q) /\ ~(j <= Len(x \o y)) /\ j - Len(x \o y) = i - Len(x)
        BY <2>4, <4>1
      <4>3. ((x \o y) \o q)[j] = q[j - Len(x \o y)]
        BY <2>1, <2>3, <4>2, ConcatProperties
      <4> QED
        BY <3>1, <3>3, <4>1, <4>2, <4>3 DEF j
    <3> QED
      BY <3>2, <3>3
  <2>6. Len(InboxOf(s, h, a)) = Len(x) + Len(y) + Len(q) /\ Len(InboxOf(s, NoHand, a)) = Len(x) + Len(q)
    BY <2>2, <2>3, <2>4
  <2>7. \A i \in 1 .. Len(InboxOf(s, NoHand, a)) :
          /\ up(a, i) \in 1 .. Len(InboxOf(s, h, a))
          /\ InboxOf(s, h, a)[up(a, i)] = InboxOf(s, NoHand, a)[i]
    BY <2>2, <2>3, <2>5, <2>6 DEF x, y
  <2>8. Len(InboxOf(s, h, a)) \in Nat /\ Len(InboxOf(s, NoHand, a)) \in Nat
    BY <2>4, <2>6
  <2>9. Len(s.handled[a]) \in Nat /\ Len(h[a]) \in Nat
    BY <2>4 DEF x, y
  <2> HIDE DEF up
  <2> QED
    BY <2>7, <2>8, <2>9
<1>2. ASSUME NEW a \in Agents, NEW i \in 1 .. Len(InboxOf(s, NoHand, a)),
             NEW j \in 1 .. Len(InboxOf(s, NoHand, a))
      PROVE  (up(a, i) = up(a, j) => i = j) /\ (i < j => up(a, i) < up(a, j))
  BY <1>1
<1> HIDE DEF up
<1>3. Once(s, NoHand)
  <2> SUFFICES ASSUME NEW b \in Agents, NEW c \in Agents,
                      NEW i \in 1 .. Len(InboxOf(s, NoHand, b)), NEW j \in 1 .. Len(InboxOf(s, NoHand, c)),
                      InboxOf(s, NoHand, b)[i] = InboxOf(s, NoHand, c)[j]
               PROVE  b = c /\ i = j
    BY DEF Once
  <2>3. Once(s, h)
    BY DEF Delivered
  <2>4. /\ up(b, i) \in 1 .. Len(InboxOf(s, h, b)) /\ up(c, j) \in 1 .. Len(InboxOf(s, h, c))
        /\ InboxOf(s, h, b)[up(b, i)] = InboxOf(s, h, c)[up(c, j)]
    BY <1>1
  <2>1. b = c /\ up(b, i) = up(c, j)
    BY <2>3, <2>4 DEF Once
  <2> QED
    BY <1>2, <2>1
<1>4. Ordered(s, NoHand)
  <2> SUFFICES ASSUME NEW b \in Agents,
                      NEW i \in 1 .. Len(InboxOf(s, NoHand, b)), NEW j \in 1 .. Len(InboxOf(s, NoHand, b)),
                      i < j, InboxOf(s, NoHand, b)[i].kind = "user", InboxOf(s, NoHand, b)[j].kind = "user"
               PROVE  InboxOf(s, NoHand, b)[i].n < InboxOf(s, NoHand, b)[j].n
    BY DEF Ordered
  <2>1. up(b, i) < up(b, j)
    BY <1>2
  <2> QED
    BY <1>1, <2>1 DEF Delivered, Ordered
<1>5. \A a \in Agents : \A i \in 1 .. Len(InboxOf(s, NoHand, a)) : Truthful(s, InboxOf(s, NoHand, a)[i])
  BY <1>1 DEF Delivered
<1> QED
  BY <1>3, <1>4, <1>5 DEF Delivered

LEMMA MailboxSet ==
  ASSUME NEW f \in [Agents -> AgentRecords], NEW a \in Agents, NEW q \in Seq(Messages)
  PROVE  LET g == [f EXCEPT ![a].mailbox = q] IN
         /\ g \in [Agents -> AgentRecords] /\ g[a].mailbox = q
         /\ \A b \in Agents : b # a => g[b] = f[b]
         /\ \A b \in Agents : /\ g[b].running = f[b].running /\ g[b].active = f[b].active
                              /\ g[b].supervisor = f[b].supervisor
                              /\ g[b].restarts = f[b].restarts /\ g[b].max = f[b].max
                              /\ g[b].action = f[b].action /\ g[b].by = f[b].by
<1> DEFINE agent == [f[a] EXCEPT !.mailbox = q]
           g == [f EXCEPT ![a].mailbox = q]
<1>1. /\ agent \in AgentRecords /\ agent.mailbox = q
      /\ agent.running = f[a].running /\ agent.active = f[a].active
      /\ agent.supervisor = f[a].supervisor
      /\ agent.restarts = f[a].restarts /\ agent.max = f[a].max
      /\ agent.action = f[a].action /\ agent.by = f[a].by
  BY DEF AgentRecords
<1>2. g = [f EXCEPT ![a] = agent]
  BY DEF AgentRecords
<1> HIDE DEF agent
<1>3. g \in [Agents -> AgentRecords] /\ g[a] = agent /\ \A b \in Agents : b # a => g[b] = f[b]
  BY <1>1, <1>2
<1> HIDE DEF g
<1>4. \A b \in Agents : /\ g[b].running = f[b].running /\ g[b].active = f[b].active
                        /\ g[b].supervisor = f[b].supervisor
                        /\ g[b].restarts = f[b].restarts /\ g[b].max = f[b].max
                        /\ g[b].action = f[b].action /\ g[b].by = f[b].by
  BY <1>1, <1>3
<1>5. g[a].mailbox = q
  BY <1>1, <1>3
<1> QED
  BY <1>3, <1>4, <1>5 DEF g

\* Agent a is given the oldest message: it may say so in what it handled, or hold it.
LEMMA AlikeKeeps ==
  ASSUME NEW s, Sound(s), NEW h \in Hands, Delivered(s, h), NEW t \in States, NEW g \in Hands,
         \A a \in Agents : InboxOf(t, g, a) = InboxOf(s, h, a),
         t.nextAgent = s.nextAgent, t.requests = s.requests, t.nextRequest = s.nextRequest,
         t.sentBy = s.sentBy, t.events = s.events,
         \A a \in Agents : /\ t.agents[a].running = s.agents[a].running
                           /\ t.agents[a].supervisor = s.agents[a].supervisor
                           /\ t.agents[a].action = s.agents[a].action
  PROVE  /\ Delivered(t, g) /\ (Complete(s, h) => Complete(t, g)) /\ (Told(s, h) => Told(t, g))
<1>0. s \in States
  BY DEF Sound
<1>1. \A x \in Messages : Truthful(s, x) => Truthful(t, x)
  <2> TAKE x \in Messages
  <2>1. x.kind = "child-failed" => x.n \in Agents
    BY MessageNumbers
  <2> QED
    BY <2>1 DEF Truthful
<1>2. /\ Len(t.sentBy) <= MaxMessages
      /\ \A r \in Requests : r >= t.nextRequest => t.requests[r].status = "none"
  BY DEF Delivered
<1>3. Delivered(t, g)
  BY <1>0, <1>1, <1>2, DeliveredStays
<1>4. \A b \in Agents : \A x : Has(t, g, b, x) <=> Has(s, h, b, x)
  BY SameInboxes
<1>7. s.events <= t.events
  BY <1>0, Constants DEF States
<1>8. Onward(s, t, h, g)
  BY <1>0, <1>7, SameOnward
<1>5. Complete(s, h) => Complete(t, g)
  BY <1>0, <1>8, CompleteStays
<1>6. Told(s, h) => Told(t, g)
  BY <1>0, <1>4, ToldStays
<1> QED
  BY <1>3, <1>5, <1>6

\* The host takes a message out of a mailbox.
TakenOut(s, a) ==
  [s EXCEPT !.agents[a].mailbox = Tail(@),
            !.handled[a] = Append(@, Head(s.agents[a].mailbox))]

LEMMA ReceiveKeeps ==
  ASSUME NEW s, Sound(s), Delivered(s, NoHand), NEW a \in Agents, s.agents[a].mailbox # <<>>
  PROVE  Keeps(s, TakenOut(s, a), NoHand)
<1> DEFINE q == s.agents[a].mailbox
           r == Tail(q)
           x == s.handled[a]
           y == Append(x, Head(q))
           agents == [s.agents EXCEPT ![a].mailbox = r]
           handled == [s.handled EXCEPT ![a] = y]
           t == TakenOut(s, a)
<1>0. s \in States /\ Awake(s) /\ Clean(s) /\ Lined(s.ready, s.waits)
  BY DEF Sound
<1>1. /\ s.agents \in [Agents -> AgentRecords] /\ s.handled \in [Agents -> Seq(Messages)]
      /\ q \in Seq(Messages) /\ x \in Seq(Messages)
  BY <1>0 DEF States, AgentRecords
<1>2. /\ Head(q) \in Messages /\ r \in Seq(Messages) /\ Len(r) <= Len(q) /\ y \in Seq(Messages)
      /\ (y \o <<>>) \o r = (x \o <<>>) \o q
  <2>1. q # <<>>
    OBVIOUS
  <2> HIDE DEF q, x
  <2> QED
    BY <1>1, <2>1, Taken
<1>3. /\ agents \in [Agents -> AgentRecords] /\ agents[a].mailbox = r
      /\ \A b \in Agents : b # a => agents[b] = s.agents[b]
      /\ \A b \in Agents : /\ agents[b].running = s.agents[b].running
                           /\ agents[b].active = s.agents[b].active
                           /\ agents[b].supervisor = s.agents[b].supervisor
                           /\ agents[b].restarts = s.agents[b].restarts
                           /\ agents[b].max = s.agents[b].max
                           /\ agents[b].action = s.agents[b].action
                           /\ agents[b].by = s.agents[b].by
  <2> DEFINE f == s.agents
  <2>1. f \in [Agents -> AgentRecords] /\ r \in Seq(Messages)
    BY <1>1, <1>2
  <2> HIDE DEF f, r
  <2>2. LET g == [f EXCEPT ![a].mailbox = r] IN
         /\ g \in [Agents -> AgentRecords] /\ g[a].mailbox = r
         /\ \A b \in Agents : b # a => g[b] = f[b]
         /\ \A b \in Agents : /\ g[b].running = f[b].running /\ g[b].active = f[b].active
                              /\ g[b].supervisor = f[b].supervisor
                              /\ g[b].restarts = f[b].restarts /\ g[b].max = f[b].max
                              /\ g[b].action = f[b].action /\ g[b].by = f[b].by
    BY <2>1, MailboxSet
  <2>3. agents = [f EXCEPT ![a].mailbox = r]
    BY DEF f
  <2> HIDE DEF agents
  <2> QED
    BY <2>2, <2>3 DEF f
<1>4. t = [s EXCEPT !.agents = agents, !.handled = handled]
  BY <1>0 DEF States, TakenOut
<1> HIDE DEF agents
<1>5. /\ handled \in [Agents -> Seq(Messages)] /\ handled[a] = y
      /\ \A b \in Agents : b # a => handled[b] = s.handled[b]
  <2> HIDE DEF y
  <2> QED
    BY <1>1, <1>2
<1> HIDE DEF handled, t
<1>6. /\ t \in States /\ t.agents = agents /\ t.handled = handled
      /\ t.nextAgent = s.nextAgent /\ t.ready = s.ready /\ t.waits = s.waits
      /\ t.requests = s.requests /\ t.nextRequest = s.nextRequest /\ t.sentBy = s.sentBy
      /\ t.turn = s.turn /\ t.undone = s.undone /\ t.events = s.events
  BY <1>0, <1>3, <1>4, <1>5 DEF States
<1>7. \A b \in Agents : InboxOf(t, NoHand, b) = InboxOf(s, NoHand, b)
  <2>1. InboxOf(t, NoHand, a) = InboxOf(s, NoHand, a)
    BY <1>2, <1>3, <1>5, <1>6 DEF InboxOf, NoHand
  <2>2. \A b \in Agents : b # a => InboxOf(t, NoHand, b) = InboxOf(s, NoHand, b)
    BY <1>3, <1>5, <1>6 DEF InboxOf
  <2> QED
    BY <2>1, <2>2
<1>8. Awake(t)
  <2>1. \A b \in Agents : Len(t.agents[b].mailbox) <= Limit
    <3>1. Len(q) <= Limit /\ Len(q) \in Nat /\ Len(r) \in Nat /\ Limit \in Nat
      BY <1>0, <1>1, <1>2, LenProperties, Constants DEF Awake
    <3>2. Len(r) <= Limit
      <4> HIDE DEF q, r
      <4> QED
        BY <1>2, <3>1
    <3>3. \A b \in Agents : Len(s.agents[b].mailbox) <= Limit
      BY <1>0 DEF Awake
    <3> QED
      BY <1>3, <1>6, <3>2, <3>3
  <2>2. \A b \in Agents : t.agents[b].mailbox # <<>> => s.agents[b].mailbox # <<>>
    BY <1>3, <1>6
  <2> QED
    BY <1>0, <1>3, <1>6, <2>1, <2>2 DEF Awake
<1>9. Clean(t)
  BY <1>0, <1>3, <1>6 DEF Clean, Standing
<1>10. Sound(t)
  BY <1>0, <1>6, <1>8, <1>9 DEF Sound
<1>11. /\ Delivered(t, NoHand) /\ (Complete(s, NoHand) => Complete(t, NoHand))
       /\ (Told(s, NoHand) => Told(t, NoHand))
  BY <1>3, <1>6, <1>7, HandType, AlikeKeeps
<1>12. Keeps(s, t, NoHand)
  BY <1>6, <1>10, <1>11 DEF Keeps
<1> QED
  BY <1>12 DEF t

\* The turn is over: what was in hand is handled.
Spent(s, a, m, undone) ==
  [s EXCEPT !.handled[a] = Append(@, m), !.undone = undone]

\* Nothing there is was made by a turn that is undone then.
Undoes(s, undone) ==
  /\ undone \subseteq 1 .. s.turn /\ s.undone \subseteq undone
  /\ \A i \in 1 .. Len(s.sentBy) : s.sentBy[i] \notin undone
  /\ \A b \in Agents : s.agents[b].by \notin undone
  /\ \A r \in Requests : s.requests[r].by \notin undone

LEMMA HandOver ==
  ASSUME NEW s, Sound(s), NEW a \in Agents, NEW m \in Messages, NEW h, Holding(h, a, m),
         Delivered(s, h), NEW undone, Undoes(s, undone)
  PROVE  LET t == Spent(s, a, m, undone) IN
         /\ Sound(t) /\ Delivered(t, NoHand) /\ (Complete(s, h) => Complete(t, NoHand))
         /\ (Told(s, h) => Told(t, NoHand)) /\ t.turn = s.turn /\ t.undone = undone
         /\ t.agents = s.agents
<1> DEFINE x == s.handled[a]
           y == Append(x, m)
           handled == [s.handled EXCEPT ![a] = y]
           t == Spent(s, a, m, undone)
<1>0. s \in States /\ Awake(s) /\ Clean(s) /\ Lined(s.ready, s.waits)
  BY DEF Sound
<1>1. s.handled \in [Agents -> Seq(Messages)] /\ x \in Seq(Messages) /\ undone \in SUBSET Nat
  BY <1>0 DEF States, Undoes
<1>2. y \in Seq(Messages) /\ (y \o <<>>) \o s.agents[a].mailbox = (x \o <<m>>) \o s.agents[a].mailbox
  <2> HIDE DEF x
  <2> QED
    BY <1>1, Handed
<1>3. /\ handled \in [Agents -> Seq(Messages)] /\ handled[a] = y
      /\ \A b \in Agents : b # a => handled[b] = s.handled[b]
  <2> HIDE DEF y
  <2> QED
    BY <1>1, <1>2
<1>4. t = [s EXCEPT !.handled = handled, !.undone = undone]
  BY <1>0 DEF States, Spent
<1>13. undone \in SUBSET Nat
  BY <1>1
<1>14. handled \in [Agents -> Seq(Messages)]
  BY <1>3
<1> HIDE DEF handled, t
<1>5. /\ t \in States /\ t.agents = s.agents /\ t.handled = handled
      /\ t.nextAgent = s.nextAgent /\ t.ready = s.ready /\ t.waits = s.waits
      /\ t.requests = s.requests /\ t.nextRequest = s.nextRequest /\ t.sentBy = s.sentBy
      /\ t.turn = s.turn /\ t.undone = undone /\ t.events = s.events
  BY <1>0, <1>4, <1>13, <1>14 DEF States
<1>6. h \in Hands /\ NoHand \in Hands /\ h[a] = <<m>> /\ \A b \in Agents : b # a => h[b] = <<>>
  BY HandType
<1>7. \A b \in Agents : InboxOf(t, NoHand, b) = InboxOf(s, h, b)
  <2>1. InboxOf(t, NoHand, a) = InboxOf(s, h, a)
    BY <1>2, <1>3, <1>5, <1>6 DEF InboxOf, NoHand
  <2>2. \A b \in Agents : b # a => InboxOf(t, NoHand, b) = InboxOf(s, h, b)
    BY <1>3, <1>5, <1>6 DEF InboxOf, NoHand
  <2> QED
    BY <2>1, <2>2
<1>8. Awake(t)
  BY <1>0, <1>5 DEF Awake
<1>9. Clean(t)
  BY <1>0, <1>5 DEF Clean, Standing, Undoes
<1>10. Sound(t)
  BY <1>0, <1>5, <1>8, <1>9 DEF Sound
<1>11. /\ Delivered(t, NoHand) /\ (Complete(s, h) => Complete(t, NoHand))
       /\ (Told(s, h) => Told(t, NoHand))
  BY <1>5, <1>6, <1>7, AlikeKeeps
<1>12. /\ Sound(t) /\ Delivered(t, NoHand) /\ (Complete(s, h) => Complete(t, NoHand))
       /\ (Told(s, h) => Told(t, NoHand)) /\ t.turn = s.turn /\ t.undone = undone
       /\ t.agents = s.agents
  BY <1>5, <1>10, <1>11
<1> QED
  BY <1>12 DEF t

-----------------------------------------------------------------------------
(* The scheduler.                                                          *)

Rest == SubSeq(st.ready, NextRunnable + 1, Len(st.ready))
First == st.ready[NextRunnable]
Oldest == Head(st.agents[First].mailbox)

\* What a turn begins with, but for the agent's place in the queue.
LEMMA TakenOff ==
  ASSUME Sound(st), NextRunnable # 0
  PROVE  LET s == [st EXCEPT !.agents[First].mailbox = Tail(st.agents[First].mailbox),
                             !.ready = Rest, !.turn = @ + 1,
                             !.waits = [b \in Agents |->
                               IF b # First /\ Contains(Rest, b) THEN @[b] + 1 ELSE 0]]
         IN  /\ s \in States /\ Lined(s.ready, s.waits) /\ s.ready = Rest
             /\ s.nextAgent = st.nextAgent /\ s.requests = st.requests
             /\ s.nextRequest = st.nextRequest /\ s.sentBy = st.sentBy
             /\ s.handled = st.handled /\ s.undone = st.undone /\ s.turn = st.turn + 1
             /\ s.events = st.events
             /\ s.agents = [st.agents EXCEPT ![First].mailbox = Tail(st.agents[First].mailbox)]
<1> DEFINE k == NextRunnable
           q == st.agents[First].mailbox
           agents == [st.agents EXCEPT ![First].mailbox = Tail(q)]
           waits == [b \in Agents |-> IF b # First /\ Contains(Rest, b) THEN st.waits[b] + 1 ELSE 0]
           s == [st EXCEPT !.agents[First].mailbox = Tail(st.agents[First].mailbox),
                           !.ready = Rest, !.turn = @ + 1,
                           !.waits = [b \in Agents |->
                             IF b # First /\ Contains(Rest, b) THEN @[b] + 1 ELSE 0]]
<1>0. st \in States /\ Lined(st.ready, st.waits)
  BY DEF Sound
<1>1. /\ st.ready \in Seq(Agents) /\ st.waits \in [Agents -> Nat] /\ st.turn + 1 \in Nat
      /\ st.agents \in [Agents -> AgentRecords]
  BY <1>0 DEF States
<1>2. k \in 1 .. Len(st.ready) /\ Runnable(First)
  BY <1>0, FirstRunnable DEF First
<1>3. First \in Agents
  BY <1>1, <1>2, ElementOfSeq DEF First
<1>4. Rest \in Seq(Agents) /\ waits \in [Agents -> Nat] /\ Lined(Rest, waits)
  <2> HIDE DEF k
  <2>1. LET rest == SubSeq(st.ready, k + 1, Len(st.ready))
             v == [b \in Agents |-> IF b # st.ready[k] /\ Contains(rest, b) THEN st.waits[b] + 1 ELSE 0]
         IN  rest \in Seq(Agents) /\ v \in [Agents -> Nat] /\ Lined(rest, v)
    BY <1>0, <1>1, <1>2, QueueRest
  <2> QED
    BY <2>1 DEF Rest, First, k
<1>5. q \in Seq(Messages) /\ q # <<>>
  BY <1>1, <1>2, <1>3 DEF Runnable, AgentRecords
<1>6. Tail(q) \in Seq(Messages)
  BY <1>5, HeadTailProperties
<1>7. agents \in [Agents -> AgentRecords]
  <2> DEFINE f == st.agents
             r == Tail(q)
  <2>1. f \in [Agents -> AgentRecords] /\ r \in Seq(Messages)
    BY <1>1, <1>6
  <2>2. agents = [f EXCEPT ![First].mailbox = r]
    OBVIOUS
  <2> HIDE DEF f, r, agents
  <2> QED
    BY <1>3, <2>1, <2>2, MailboxSet
<1>8. s = [st EXCEPT !.agents = agents, !.ready = Rest, !.turn = st.turn + 1, !.waits = waits]
  BY <1>0 DEF States
<1>9. agents = [st.agents EXCEPT ![First].mailbox = Tail(st.agents[First].mailbox)]
  OBVIOUS
<1> HIDE DEF agents, waits, s
<1>10. /\ s \in States /\ s.ready = Rest /\ s.waits = waits
       /\ s.nextAgent = st.nextAgent /\ s.requests = st.requests
       /\ s.nextRequest = st.nextRequest /\ s.sentBy = st.sentBy
       /\ s.handled = st.handled /\ s.undone = st.undone /\ s.turn = st.turn + 1
       /\ s.events = st.events
       /\ s.agents = agents
  BY <1>0, <1>1, <1>4, <1>7, <1>8 DEF States
<1>11. /\ s \in States /\ Lined(s.ready, s.waits) /\ s.ready = Rest
       /\ s.nextAgent = st.nextAgent /\ s.requests = st.requests
       /\ s.nextRequest = st.nextRequest /\ s.sentBy = st.sentBy
       /\ s.handled = st.handled /\ s.undone = st.undone /\ s.turn = st.turn + 1
       /\ s.events = st.events
       /\ s.agents = [st.agents EXCEPT ![First].mailbox = Tail(st.agents[First].mailbox)]
  BY <1>4, <1>9, <1>10
<1> QED
  BY <1>11 DEF s

\* A turn begins: whoever could take one and did not is still queued, and what the
\* agent is handed comes out of its mailbox.
LEMMA BegunKeeps ==
  ASSUME Sound(st), Delivered(st, NoHand), NextRunnable # 0,
         NEW h, Holding(h, First, Oldest)
  PROVE  LET t == Begun(First, Rest) IN
         /\ First \in Agents /\ Oldest \in Messages /\ t.agents[First].running
         /\ Sound(t) /\ Delivered(t, h) /\ (Complete(st, NoHand) => Complete(t, h))
         /\ (Told(st, NoHand) => Told(t, h))
         /\ t.turn = st.turn + 1 /\ t.undone = st.undone /\ t.sentBy = st.sentBy
         /\ t.requests = st.requests /\ \A b \in Agents : t.agents[b].by = st.agents[b].by
<1> DEFINE a == First
           q == st.agents[First].mailbox
           r == Tail(q)
           s == [st EXCEPT !.agents[First].mailbox = Tail(st.agents[First].mailbox),
                           !.ready = Rest, !.turn = @ + 1,
                           !.waits = [b \in Agents |->
                             IF b # First /\ Contains(Rest, b) THEN @[b] + 1 ELSE 0]]
           t == Begun(First, Rest)
<1>0. st \in States /\ Awake(st) /\ Clean(st) /\ Lined(st.ready, st.waits)
  BY DEF Sound
<1>1. /\ s \in States /\ Lined(s.ready, s.waits) /\ s.ready = Rest
      /\ s.nextAgent = st.nextAgent /\ s.requests = st.requests
      /\ s.nextRequest = st.nextRequest /\ s.sentBy = st.sentBy
      /\ s.handled = st.handled /\ s.undone = st.undone /\ s.turn = st.turn + 1
      /\ s.agents = [st.agents EXCEPT ![First].mailbox = r] /\ s.events = st.events
  BY TakenOff
<1>2. t = IF r = <<>> THEN s ELSE Schedule(s, First)
  BY DEF Begun
<1> HIDE DEF s, t
<1>3. /\ NextRunnable \in 1 .. Len(st.ready) /\ Runnable(First)
      /\ \A i \in 1 .. Len(st.ready) : i < NextRunnable => ~Runnable(st.ready[i])
  BY <1>0, FirstRunnable DEF First
<1>4. First \in Agents /\ st.ready \in Seq(Agents) /\ st.waits \in [Agents -> Nat] /\ Len(st.ready) \in Nat
  BY <1>0, <1>3, ElementOfSeq, LenProperties DEF First, States
<1>5. q \in Seq(Messages) /\ q # <<>> /\ st.agents \in [Agents -> AgentRecords]
  BY <1>0, <1>3, <1>4 DEF Runnable, AgentRecords, States
<1>6. /\ st.handled[First] \in Seq(Messages) /\ Head(q) \in Messages /\ r \in Seq(Messages)
      /\ Len(r) <= Len(q)
      /\ (st.handled[First] \o <<Head(q)>>) \o r = (st.handled[First] \o <<>>) \o q
  <2>1. st.handled[First] \in Seq(Messages)
    BY <1>0, <1>4 DEF States
  <2> HIDE DEF q
  <2> QED
    BY <1>5, <2>1, Taken
<1>7. /\ s.agents[First].mailbox = r /\ \A b \in Agents : b # First => s.agents[b] = st.agents[b]
      /\ \A b \in Agents : /\ s.agents[b].running = st.agents[b].running
                           /\ s.agents[b].active = st.agents[b].active
                           /\ s.agents[b].supervisor = st.agents[b].supervisor
                           /\ s.agents[b].restarts = st.agents[b].restarts
                           /\ s.agents[b].max = st.agents[b].max
                           /\ s.agents[b].action = st.agents[b].action
                           /\ s.agents[b].by = st.agents[b].by
  <2> DEFINE f == st.agents
  <2> HIDE DEF f, r
  <2>1. LET g == [f EXCEPT ![First].mailbox = r] IN
         /\ g[First].mailbox = r
         /\ \A b \in Agents : b # First => g[b] = f[b]
         /\ \A b \in Agents : /\ g[b].running = f[b].running /\ g[b].active = f[b].active
                              /\ g[b].supervisor = f[b].supervisor
                              /\ g[b].restarts = f[b].restarts /\ g[b].max = f[b].max
                              /\ g[b].action = f[b].action /\ g[b].by = f[b].by
    BY <1>4, <1>5, <1>6, MailboxSet DEF f
  <2>2. s.agents = [f EXCEPT ![First].mailbox = r]
    BY <1>1 DEF f
  <2> QED
    BY <2>1, <2>2 DEF f
<1>8. /\ t \in States /\ Lined(t.ready, t.waits)
      /\ t.agents = s.agents /\ t.nextAgent = s.nextAgent /\ t.requests = s.requests
      /\ t.nextRequest = s.nextRequest /\ t.sentBy = s.sentBy /\ t.handled = s.handled
      /\ t.turn = s.turn /\ t.undone = s.undone /\ t.events = s.events
      /\ \A b \in Agents : Contains(t.ready, b) <=> Contains(Rest, b) \/ (b = First /\ r # <<>>)
  <2>1. CASE r = <<>>
    BY <1>1, <1>2, <2>1
  <2>2. CASE r # <<>>
    <3>1. t = Schedule(s, First)
      BY <1>2, <2>2
    <3>2. /\ t \in States /\ Lined(t.ready, t.waits)
          /\ t.agents = s.agents /\ t.nextAgent = s.nextAgent /\ t.requests = s.requests
          /\ t.nextRequest = s.nextRequest /\ t.sentBy = s.sentBy /\ t.handled = s.handled
          /\ t.turn = s.turn /\ t.undone = s.undone /\ t.events = s.events
      BY <1>1, <1>4, <3>1, ScheduleOf
    <3>3. \A b : Contains(t.ready, b) <=> Contains(s.ready, b) \/ b = First
      <4>1. LET u == Schedule(s, First) IN
              \A b : Contains(u.ready, b) <=> Contains(s.ready, b) \/ b = First
        BY <1>1, <1>4, ScheduleOf
      <4> QED
        BY <3>1, <4>1
    <3> QED
      BY <1>1, <2>2, <3>2, <3>3
  <2> QED
    BY <2>1, <2>2
<1>9. /\ \A i \in 1 .. Len(st.ready) : NextRunnable < i => Contains(Rest, st.ready[i])
      /\ \A b : Contains(Rest, b) => Contains(st.ready, b)
  <2> DEFINE k == NextRunnable
  <2>1. k \in 1 .. Len(st.ready)
    BY <1>3
  <2> HIDE DEF k
  <2>2. /\ \A i \in 1 .. Len(st.ready) : k < i => Contains(SubSeq(st.ready, k + 1, Len(st.ready)), st.ready[i])
        /\ \A b : Contains(SubSeq(st.ready, k + 1, Len(st.ready)), b) => Contains(st.ready, b)
    BY <1>0, <1>4, <2>1, QueueRest
  <2> QED
    BY <2>2 DEF k, Rest
<1>10. ASSUME NEW b \in Agents, b # First, Runnable(b) PROVE Contains(Rest, b)
  <2>1. Contains(st.ready, b)
    BY <1>0, <1>10 DEF Awake, Runnable
  <2>2. PICK i \in 1 .. Len(st.ready) : st.ready[i] = b
    BY <2>1 DEF Contains
  <2>3. i # NextRunnable /\ ~(i < NextRunnable)
    BY <1>3, <1>10, <2>2 DEF First
  <2>4. NextRunnable < i
    BY <1>3, <1>4, <2>3
  <2> QED
    BY <1>9, <2>2, <2>4
<1>11. Awake(t)
  <2>1. t.nextAgent <= Cardinality(Agents) + 1
    BY <1>0, <1>1, <1>8 DEF Awake
  <2>2. ASSUME NEW b \in Agents
        PROVE  LET u == t.agents[b] IN
               /\ u.running /\ u.active /\ u.mailbox # <<>> => Contains(t.ready, b)
               /\ u.running \/ u.mailbox # <<>> \/ Contains(t.ready, b) => b < t.nextAgent
               /\ Len(u.mailbox) <= Limit /\ u.restarts <= u.max
               /\ u.supervisor < t.nextAgent
    <3>1. LET u == st.agents[b] IN
               /\ u.running \/ u.mailbox # <<>> \/ Contains(st.ready, b) => b < st.nextAgent
               /\ Len(u.mailbox) <= Limit /\ u.restarts <= u.max
               /\ u.supervisor < st.nextAgent
      BY <1>0 DEF Awake
    <3>2. CASE b = First
      <4>1. Len(q) <= Limit /\ Len(q) \in Nat /\ Len(r) \in Nat /\ Limit \in Nat
        BY <1>5, <1>6, <3>1, <3>2, LenProperties, Constants
      <4>2. Len(r) <= Limit
        <5> HIDE DEF q, r
        <5> QED
          BY <1>6, <4>1
      <4>3. st.agents[First].running
        BY <1>3 DEF Runnable
      <4>4. /\ t.agents[First].mailbox = r /\ t.nextAgent = st.nextAgent
            /\ t.agents[First].running = st.agents[First].running
            /\ t.agents[First].supervisor = st.agents[First].supervisor
            /\ t.agents[First].restarts = st.agents[First].restarts
            /\ t.agents[First].max = st.agents[First].max
        BY <1>1, <1>4, <1>7, <1>8
      <4>5. r # <<>> => Contains(t.ready, First)
        BY <1>4, <1>8
      <4>6. First < st.nextAgent
        BY <3>1, <3>2, <4>3
      <4> HIDE DEF r
      <4> QED
        BY <3>1, <3>2, <4>2, <4>4, <4>5, <4>6
    <3>3. CASE b # First
      <4>1. st.agents[b].running /\ st.agents[b].active /\ st.agents[b].mailbox # <<>> => Contains(Rest, b)
        BY <1>10, <3>3 DEF Runnable
      <4>2. Contains(t.ready, b) <=> Contains(Rest, b)
        BY <1>8, <3>3
      <4>3. t.agents[b] = st.agents[b] /\ t.nextAgent = st.nextAgent
        BY <1>1, <1>7, <1>8, <3>3
      <4> QED
        BY <1>9, <3>1, <4>1, <4>2, <4>3
    <3> QED
      BY <3>2, <3>3
  <2> QED
    BY <2>1, <2>2 DEF Awake
<1>12. Clean(t)
  <2>1. t.turn = st.turn + 1 /\ t.undone = st.undone /\ st.turn \in Nat /\ st.undone \subseteq 1 .. st.turn
    BY <1>0, <1>1, <1>8 DEF Clean, States
  <2>2. Standing(st) \subseteq Standing(t) /\ t.undone \subseteq 1 .. t.turn
    BY <2>1 DEF Standing
  <2>3. /\ \A i \in 1 .. Len(t.sentBy) : t.sentBy[i] \in Standing(st)
        /\ \A b \in Agents : t.agents[b].by \in Standing(st)
        /\ \A c \in Requests : t.requests[c].by \in Standing(st)
    BY <1>0, <1>1, <1>7, <1>8 DEF Clean
  <2> QED
    BY <2>2, <2>3 DEF Clean
<1>13. Sound(t)
  BY <1>8, <1>11, <1>12 DEF Sound
<1>14. Oldest = Head(q) /\ h \in Hands /\ NoHand \in Hands
       /\ h[First] = <<Head(q)>> /\ \A b \in Agents : b # First => h[b] = <<>>
  BY <1>4, <1>6, HandType DEF Oldest
<1>15. \A b \in Agents : InboxOf(t, h, b) = InboxOf(st, NoHand, b)
  <2>3. t.handled[First] = st.handled[First] /\ t.agents[First].mailbox = r /\ h[First] = <<Head(q)>>
    BY <1>1, <1>7, <1>8, <1>14
  <2>4. InboxOf(st, NoHand, First) = (st.handled[First] \o <<>>) \o q
    <3>1. NoHand[First] = <<>>
      BY <1>4 DEF NoHand
    <3> QED
      BY <3>1 DEF InboxOf
  <2>5. InboxOf(t, h, First) = (st.handled[First] \o <<Head(q)>>) \o r
    BY <2>3 DEF InboxOf
  <2>1. InboxOf(t, h, First) = InboxOf(st, NoHand, First)
    <3>1. (st.handled[First] \o <<Head(q)>>) \o r = (st.handled[First] \o <<>>) \o q
      BY <1>6
    <3> HIDE DEF q, r
    <3> QED
      BY <2>4, <2>5, <3>1, Zenon
  <2>2. \A b \in Agents : b # First => InboxOf(t, h, b) = InboxOf(st, NoHand, b)
    BY <1>1, <1>7, <1>8, <1>14 DEF InboxOf, NoHand
  <2> QED
    BY <2>1, <2>2
<1>16. /\ Delivered(t, h) /\ (Complete(st, NoHand) => Complete(t, h))
       /\ (Told(st, NoHand) => Told(t, h))
  <2>1. /\ t.nextAgent = st.nextAgent /\ t.requests = st.requests /\ t.nextRequest = st.nextRequest
        /\ t.sentBy = st.sentBy /\ t.events = st.events
        /\ \A b \in Agents : /\ t.agents[b].running = st.agents[b].running
                             /\ t.agents[b].supervisor = st.agents[b].supervisor
                             /\ t.agents[b].action = st.agents[b].action
    BY <1>1, <1>7, <1>8
  <2> QED
    BY <1>8, <1>14, <1>15, <2>1, AlikeKeeps
<1>17. t.agents[First].running /\ \A b \in Agents : t.agents[b].by = st.agents[b].by
  BY <1>3, <1>4, <1>7, <1>8 DEF Runnable
<1>18. /\ t.turn = st.turn + 1 /\ t.undone = st.undone /\ t.sentBy = st.sentBy
       /\ t.requests = st.requests
  BY <1>1, <1>8
<1> QED
  BY <1>4, <1>6, <1>13, <1>14, <1>16, <1>17, <1>18 DEF t

\* Nobody is left to run: the queue is emptied, and no wakeup is lost with it.
LEMMA EmptiedKeeps ==
  ASSUME Sound(st), Delivered(st, NoHand), NextRunnable = 0
  PROVE  Keeps(st, [st EXCEPT !.ready = <<>>, !.waits = [a \in Agents |-> 0]], NoHand)
<1> DEFINE waits == [a \in Agents |-> 0]
           t == [st EXCEPT !.ready = <<>>, !.waits = waits]
<1>0. st \in States /\ Awake(st) /\ Clean(st)
  BY DEF Sound
<1>1. \A i \in 1 .. Len(st.ready) : ~Runnable(st.ready[i])
  BY <1>0, FirstRunnable
<1>2. \A a \in Agents : ~Runnable(a)
  BY <1>0, <1>1 DEF Awake, Runnable, Contains
<1>3. <<>> \in Seq(Agents) /\ Len(<<>>) = 0 /\ waits \in [Agents -> Nat]
  BY EmptySeq
<1>4. \A a \in Agents : waits[a] = 0
  OBVIOUS
<1> HIDE DEF waits
<1>5. Lined(<<>>, waits) /\ \A a : ~Contains(<<>>, a)
  BY <1>3, <1>4 DEF Lined, Contains
<1>6. /\ t \in States /\ t.agents = st.agents /\ t.handled = st.handled
      /\ t.nextAgent = st.nextAgent /\ t.ready = <<>> /\ t.waits = waits
      /\ t.requests = st.requests /\ t.nextRequest = st.nextRequest /\ t.sentBy = st.sentBy
      /\ t.turn = st.turn /\ t.undone = st.undone /\ t.events = st.events
  BY <1>0, <1>3 DEF States
<1> HIDE DEF t
<1>7. Awake(t)
  BY <1>0, <1>2, <1>5, <1>6 DEF Awake, Runnable
<1>8. Clean(t)
  BY <1>0, <1>6 DEF Clean, Standing
<1>9. Sound(t)
  BY <1>5, <1>6, <1>7, <1>8 DEF Sound
<1>10. \A a \in Agents : InboxOf(t, NoHand, a) = InboxOf(st, NoHand, a)
  BY <1>6 DEF InboxOf
<1>11. /\ Delivered(t, NoHand) /\ (Complete(st, NoHand) => Complete(t, NoHand))
       /\ (Told(st, NoHand) => Told(t, NoHand))
  BY <1>6, <1>10, HandType, AlikeKeeps
<1>12. Keeps(st, t, NoHand)
  BY <1>6, <1>9, <1>11 DEF Keeps
<1> QED
  BY <1>12 DEF t, waits

-----------------------------------------------------------------------------
(* The invariant.                                                          *)

LEMMA JobKinds ==
  ASSUME job \in Jobs
  PROVE  /\ job.pc \in {"idle", "run", "turn"}
         /\ job.pc = "idle" => job = Idle
         /\ job.pc # "idle" => job.left \in Nat /\ job.base \in States
         /\ job.pc = "turn" => /\ job.agent \in Agents /\ job.message \in Messages
                               /\ job.checkpoint \in States
BY DEF Jobs, Idle

LEMMA HandIs ==
  ASSUME job \in Jobs
  PROVE  /\ Hand \in Hands
         /\ job.pc # "turn" => Hand = NoHand
         /\ job.pc = "turn" => Holding(Hand, job.agent, job.message)
<1>1. job.pc # "turn" => Hand = NoHand
  BY DEF Hand, NoHand
<1>2. job.pc = "turn" => Holding(Hand, job.agent, job.message)
  BY DEF Hand, Holding
<1> QED
  BY <1>1, <1>2, HandType, JobKinds

\* A step within a job, or outside of any.
LEMMA KeepsInv ==
  ASSUME AgentsInv, UNCHANGED <<job, torn>>, Keeps(st, st', Hand)
  PROVE  AgentsInv'
<1>1. Hand' = Hand
  BY DEF Hand
<1>2. Good(st, Hand)'
  BY <1>1 DEF AgentsInv, Good, Keeps
<1>3. job.pc # "idle" => Good(job.base, NoHand)'
  BY DEF AgentsInv, Good
<1>4. ASSUME job.pc = "turn" PROVE Undoable'
  <2>1. Undoable
    BY <1>4 DEF AgentsInv
  <2>2. st'.turn = st.turn /\ st'.undone = st.undone
    BY DEF Keeps
  <2> QED
    BY <1>1, <2>1, <2>2 DEF Undoable, Good
<1> QED
  BY <1>2, <1>3, <1>4 DEF AgentsInv

\* A run is left, undone or kept as it is.
LEMMA InterruptedInv ==
  ASSUME AgentsInv, job.pc # "idle", NEW s, Sound(s), Delivered(s, NoHand), Interrupted(s)
  PROVE  AgentsInv'
<1>1. job' = Idle /\ job'.pc = "idle" /\ Idle \in Jobs
  BY DEF Interrupted, Idle, Jobs
<1>2. Hand' = NoHand
  BY <1>1 DEF Hand, NoHand
<1>3. CASE st' = job.base /\ UNCHANGED torn
  BY <1>1, <1>2, <1>3 DEF AgentsInv, Good
<1>4. CASE st' = s /\ torn' = TRUE
  BY <1>1, <1>2, <1>4 DEF AgentsInv, Good
<1> QED
  BY <1>3, <1>4 DEF Interrupted

\* A turn is over, and the run goes on.
LEMMA ContinuesInv ==
  ASSUME AgentsInv, job.pc = "turn", NEW s, Good(s, NoHand), Continues(s)
  PROVE  AgentsInv'
<1>1. /\ job' = [pc |-> "run", left |-> job.left - 1, base |-> job.base]
      /\ st' = s /\ torn' = torn
  BY DEF Continues
<1>2. job.left \in Nat /\ job.left > 0 /\ job.base \in States
  BY JobKinds DEF AgentsInv, Undoable
<1>3. job.left - 1 \in Nat
  BY <1>2
<1>4. job' \in Jobs /\ job'.pc = "run" /\ job'.base = job.base
  BY <1>1, <1>2, <1>3 DEF Jobs
<1>5. Hand' = NoHand
  BY <1>4 DEF Hand, NoHand
<1>6. Good(st, Hand)' /\ Good(job.base, NoHand)'
  BY <1>1, <1>4, <1>5 DEF AgentsInv, Good
<1> QED
  BY <1>1, <1>4, <1>6 DEF AgentsInv

LEMMA RunInv ==
  ASSUME AgentsInv, NEW n \in 1 .. MaxTurns, Run(n)
  PROVE  AgentsInv'
<1>1. /\ job.pc = "idle" /\ job' = [pc |-> "run", left |-> n, base |-> st]
      /\ st' = st /\ torn' = torn
  BY DEF Run, Idle
<1>2. n \in Nat /\ st \in States
  BY AgentsConstants DEF AgentsInv, Good, Sound
<1>3. job' \in Jobs /\ job'.pc = "run" /\ job'.base = st
  BY <1>1, <1>2 DEF Jobs
<1>4. Hand' = NoHand /\ Hand = NoHand
  BY <1>1, <1>3 DEF Hand, NoHand
<1>5. Good(st, Hand)' /\ Good(job.base, NoHand)'
  BY <1>1, <1>3, <1>4 DEF AgentsInv, Good
<1> QED
  BY <1>1, <1>3, <1>5 DEF AgentsInv

LEMMA EndRunInv ==
  ASSUME AgentsInv, EndRun
  PROVE  AgentsInv'
<1>1. job.pc = "run" /\ job' = Idle /\ torn' = torn
  BY DEF EndRun
<1>2. job'.pc = "idle" /\ Idle \in Jobs
  BY <1>1 DEF Idle, Jobs
<1>3. Hand' = NoHand /\ Hand = NoHand
  BY <1>1, <1>2 DEF Hand, NoHand
<1>4. Good(st, NoHand) /\ Sound(st) /\ Delivered(st, NoHand)
  BY <1>3 DEF AgentsInv, Good
<1>5. Keeps(st, st', NoHand)
  <2>1. CASE st' = st
    BY <1>4, <2>1, KeepsNothing
  <2>2. CASE NextRunnable = 0 /\ st' = [st EXCEPT !.ready = <<>>, !.waits = [a \in Agents |-> 0]]
    BY <1>4, <2>2, EmptiedKeeps
  <2> QED
    BY <2>1, <2>2 DEF EndRun
<1>6. Good(st, Hand)'
  BY <1>1, <1>3, <1>4, <1>5 DEF Good, Keeps
<1> QED
  BY <1>1, <1>2, <1>6 DEF AgentsInv

LEMMA StartTurnInv ==
  ASSUME AgentsInv, StartTurn
  PROVE  AgentsInv'
<1> DEFINE h == [b \in Agents |-> IF b = First THEN <<Oldest>> ELSE <<>>]
           t == Begun(First, Rest)
           u == RecordEvent(t).state
<1>1. /\ job.pc = "run" /\ job.left > 0 /\ NextRunnable # 0
      /\ IF RecordEvent(t).ok
         THEN /\ st' = u
              /\ job' = [pc |-> "turn", left |-> job.left, base |-> job.base,
                         agent |-> First, message |-> Oldest, checkpoint |-> u]
              /\ UNCHANGED torn
         ELSE Interrupted(u)
  BY DEF StartTurn, First, Rest, Oldest
<1>2. Hand = NoHand /\ Good(st, NoHand) /\ Sound(st) /\ Delivered(st, NoHand)
  BY <1>1 DEF AgentsInv, Good, Hand, NoHand
<1>3. Holding(h, First, Oldest)
  BY DEF Holding
<1> HIDE DEF h
<1>4. /\ First \in Agents /\ Oldest \in Messages /\ t.agents[First].running
      /\ Sound(t) /\ Delivered(t, h) /\ (Complete(st, NoHand) => Complete(t, h))
      /\ (Told(st, NoHand) => Told(t, h))
      /\ t.turn = st.turn + 1 /\ t.undone = st.undone /\ t.sentBy = st.sentBy
      /\ t.requests = st.requests /\ \A b \in Agents : t.agents[b].by = st.agents[b].by
  BY <1>1, <1>2, <1>3, BegunKeeps
<1> HIDE DEF t
<1>5. h \in Hands
  BY <1>3, <1>4, HandType
<1>6. Keeps(t, u, h)
  BY <1>4, <1>5, KeepsNothing, KeepsRecorded
<1>7. Alike(t, u)
  BY <1>4, Recorded DEF Sound
<1> HIDE DEF u
<1>8. Sound(u) /\ Delivered(u, h) /\ (torn \/ (Complete(u, h) /\ Told(u, h))) /\ u \in States
  BY <1>2, <1>4, <1>6 DEF Keeps, Good, Sound
<1>9. CASE ~RecordEvent(t).ok
  <2>1. Interrupted(u)
    BY <1>1, <1>9
  <2>2. Delivered(u, NoHand)
    BY <1>5, <1>8, DropHand
  <2> QED
    BY <1>1, <1>8, <2>1, <2>2, InterruptedInv
<1>10. CASE RecordEvent(t).ok
  <2>1. /\ st' = u /\ torn' = torn
        /\ job' = [pc |-> "turn", left |-> job.left, base |-> job.base,
                   agent |-> First, message |-> Oldest, checkpoint |-> u]
    BY <1>1, <1>10
  <2>2. job.left \in Nat /\ job.base \in States
    BY <1>1, JobKinds DEF AgentsInv
  <2>3. /\ job' \in Jobs /\ job'.pc = "turn" /\ job'.base = job.base /\ job'.checkpoint = u
        /\ job'.agent = First /\ job'.message = Oldest /\ job'.left = job.left
    BY <1>4, <1>8, <2>1, <2>2 DEF Jobs
  <2>4. Hand' = h
    BY <2>3 DEF Hand, h
  <2>5. Good(st, Hand)' /\ Good(job.checkpoint, Hand)'
    BY <1>8, <2>1, <2>3, <2>4 DEF Good
  <2>6. Good(job.base, NoHand)'
    BY <1>1, <2>1, <2>3 DEF AgentsInv, Good
  <2>7. /\ u.agents = t.agents /\ u.turn = st.turn + 1 /\ u.undone = st.undone
        /\ u.sentBy = st.sentBy /\ u.requests = st.requests
    BY <1>4, <1>7 DEF Alike
  <2>8. /\ st.undone \subseteq 1 .. st.turn /\ st.turn \in Nat
        /\ \A i \in 1 .. Len(st.sentBy) : st.sentBy[i] \in 0 .. st.turn
        /\ \A b \in Agents : st.agents[b].by \in 0 .. st.turn
        /\ \A r \in Requests : st.requests[r].by \in 0 .. st.turn
    BY <1>2 DEF Sound, Clean, Standing, States
  <2>9. /\ u.turn > 0 /\ u.turn \notin u.undone
        /\ \A i \in 1 .. Len(u.sentBy) : u.sentBy[i] # u.turn
        /\ \A b \in Agents : u.agents[b].by # u.turn
        /\ \A r \in Requests : u.requests[r].by # u.turn
    <3>1. \A n \in 0 .. st.turn : n # st.turn + 1
      BY <2>8
    <3>2. st.turn + 1 > 0 /\ st.turn + 1 \notin st.undone
      BY <2>8
    <3> QED
      BY <1>4, <2>7, <2>8, <3>1, <3>2
  <2>10. Undoable'
    BY <1>1, <1>4, <2>1, <2>3, <2>5, <2>7, <2>9 DEF Undoable
  <2> QED
    BY <2>1, <2>3, <2>5, <2>6, <2>10 DEF AgentsInv
<1> QED
  BY <1>9, <1>10

LEMMA TurnCommitsInv ==
  ASSUME AgentsInv, TurnCommits
  PROVE  AgentsInv'
<1> DEFINE t == Handled(st)
           u == RecordEvent(t).state
<1>1. /\ job.pc = "turn" /\ (IF RecordEvent(t).ok THEN Continues(u) ELSE Interrupted(u))
  BY DEF TurnCommits, InTurn
<1>2. job.agent \in Agents /\ job.message \in Messages /\ Hand \in Hands
      /\ Holding(Hand, job.agent, job.message)
  BY <1>1, JobKinds, HandIs DEF AgentsInv
<1>3. Good(st, Hand) /\ Sound(st) /\ Delivered(st, Hand) /\ st \in States
  BY DEF AgentsInv, Good, Sound
<1>4. t = [st EXCEPT !.handled[job.agent] = Append(@, job.message), !.undone = st.undone]
  BY <1>3 DEF Handled, States
<1>5. /\ Sound(t) /\ Delivered(t, NoHand) /\ (Complete(st, Hand) => Complete(t, NoHand))
      /\ (Told(st, Hand) => Told(t, NoHand))
  <2> DEFINE a == job.agent
             m == job.message
             h == Hand
             undone == st.undone
  <2>1. /\ a \in Agents /\ m \in Messages /\ Holding(h, a, m) /\ Delivered(st, h)
        /\ Undoes(st, undone)
    BY <1>2, <1>3 DEF Sound, Clean, Standing, Undoes
  <2> HIDE DEF a, m, h, undone
  <2> DEFINE v == Spent(st, a, m, undone)
  <2>2. /\ Sound(v) /\ Delivered(v, NoHand) /\ (Complete(st, h) => Complete(v, NoHand))
        /\ (Told(st, h) => Told(v, NoHand))
    BY <1>3, <2>1, HandOver
  <2>3. t = v
    BY <1>4 DEF a, m, undone, Spent
  <2> HIDE DEF t
  <2> QED
    BY <2>2, <2>3 DEF h
<1> HIDE DEF t
<1>6. Keeps(t, u, NoHand)
  BY <1>5, KeepsNothing, KeepsRecorded
<1>7. Good(u, NoHand) /\ Sound(u) /\ Delivered(u, NoHand)
  BY <1>3, <1>5, <1>6 DEF Good, Keeps
<1> HIDE DEF u
<1> QED
  BY <1>1, <1>7, ContinuesInv, InterruptedInv

\* The turn is undone, its message spent, and its agent supervised.
LEMMA TurnFailsInv ==
  ASSUME AgentsInv, TurnFails
  PROVE  AgentsInv'
<1> DEFINE s == job.checkpoint
           a == job.agent
           m == job.message
           h == Hand
           undone == s.undone \cup {st.turn}
           t == [Handled(s) EXCEPT !.undone = @ \cup {st.turn}]
           u == RecordEvent(t).state
           o == IF RecordEvent(t).ok THEN Supervise(u, a) ELSE RecordEvent(t)
<1>1. /\ job.pc = "turn" /\ (IF o.ok THEN Continues(o.state) ELSE Interrupted(o.state))
  BY DEF TurnFails, InTurn
<1>2. a \in Agents /\ m \in Messages /\ h \in Hands /\ Holding(h, a, m)
  BY <1>1, JobKinds, HandIs DEF AgentsInv
<1>3. /\ Good(s, h) /\ Sound(s) /\ Delivered(s, h) /\ s \in States /\ s.agents[a].running
      /\ s.turn = st.turn /\ s.turn > 0 /\ s.turn \in Nat
      /\ \A i \in 1 .. Len(s.sentBy) : s.sentBy[i] # s.turn
      /\ \A b \in Agents : s.agents[b].by # s.turn
      /\ \A r \in Requests : s.requests[r].by # s.turn
  <2>1. Undoable
    BY <1>1 DEF AgentsInv
  <2> QED
    BY <2>1 DEF Undoable, Good, Sound, States
<1>4. t = [s EXCEPT !.handled[a] = Append(@, m), !.undone = undone]
  BY <1>3 DEF Handled, States
<1>5. Undoes(s, undone)
  <2>1. st.turn \in 1 .. s.turn
    BY <1>3
  <2> QED
    BY <1>3, <2>1 DEF Sound, Clean, Standing, Undoes
<1> HIDE DEF a, m, h, undone, t, s
<1> DEFINE v == Spent(s, a, m, undone)
<1>6. /\ Sound(v) /\ Delivered(v, NoHand) /\ (Complete(s, h) => Complete(v, NoHand))
      /\ (Told(s, h) => Told(v, NoHand)) /\ v.agents = s.agents
  <2>1. Sound(s) /\ a \in Agents /\ m \in Messages /\ Holding(h, a, m) /\ Delivered(s, h)
    BY <1>2, <1>3
  <2>2. LET z == Spent(s, a, m, undone) IN
        /\ Sound(z) /\ Delivered(z, NoHand) /\ (Complete(s, h) => Complete(z, NoHand))
        /\ (Told(s, h) => Told(z, NoHand)) /\ z.turn = s.turn /\ z.undone = undone
        /\ z.agents = s.agents
    BY <1>5, <2>1, HandOver
  <2> QED
    BY <2>2
<1>7. /\ Sound(t) /\ Delivered(t, NoHand) /\ (Complete(s, h) => Complete(t, NoHand))
      /\ (Told(s, h) => Told(t, NoHand)) /\ t.agents = s.agents
  BY <1>4, <1>6 DEF Spent
<1>8. Keeps(t, u, NoHand)
  BY <1>7, KeepsNothing, KeepsRecorded
<1>9. Alike(t, u)
  BY <1>7, Recorded DEF Sound
<1> HIDE DEF u
<1>10. Good(u, NoHand) /\ Sound(u) /\ Delivered(u, NoHand) /\ u.agents[a].running
  BY <1>3, <1>7, <1>8, <1>9 DEF Good, Keeps, Alike
<1>11. Sound(o.state) /\ Delivered(o.state, NoHand) /\ (o.ok => Good(o.state, NoHand))
  <2>1. CASE ~RecordEvent(t).ok
    <3>1. o = RecordEvent(t) /\ ~o.ok
      BY <2>1
    <3>2. o.state = u
      BY <3>1 DEF u
    <3> HIDE DEF o
    <3> QED
      BY <1>10, <3>1, <3>2
  <2>2. CASE RecordEvent(t).ok
    <3> DEFINE p == Supervise(u, a)
    <3>1. o = p
      BY <2>2
    <3>2. Survives(u, p.state, NoHand) /\ (p.ok /\ Told(u, NoHand) => Told(p.state, NoHand))
      BY <1>2, <1>10, HandType, SuperviseSurvives
    <3> HIDE DEF p, o
    <3>3. /\ Sound(p.state) /\ Delivered(p.state, NoHand)
          /\ (Complete(u, NoHand) => Complete(p.state, NoHand))
      BY <3>2 DEF Survives
    <3> QED
      BY <1>10, <3>1, <3>2, <3>3 DEF Good
  <2> QED
    BY <2>1, <2>2
<1> HIDE DEF o
<1>12. job.pc # "idle"
  BY <1>1
<1>13. CASE o.ok
  BY <1>1, <1>11, <1>13, ContinuesInv
<1>14. CASE ~o.ok
  BY <1>1, <1>11, <1>12, <1>14, InterruptedInv
<1> QED
  BY <1>13, <1>14

LEMMA TurnStarvedInv ==
  ASSUME AgentsInv, TurnStarved
  PROVE  AgentsInv'
<1>1. job.pc = "turn" /\ job.pc # "idle" /\ Interrupted(st)
  BY DEF TurnStarved, InTurn
<1>2. Sound(st) /\ Delivered(st, Hand) /\ st \in States /\ Hand \in Hands
  BY HandIs DEF AgentsInv, Good, Sound
<1>3. Delivered(st, NoHand)
  BY <1>2, DropHand
<1> QED
  BY <1>1, <1>2, <1>3, InterruptedInv

-----------------------------------------------------------------------------
(* Every form and every turn keeps the invariant.                          *)

LEMMA InitInv == AgentsInit => AgentsInv
<1> SUFFICES ASSUME AgentsInit PROVE AgentsInv
  OBVIOUS
<1> DEFINE k == Len(FirstAgents)
           agents == [a \in Agents |-> IF a <= k THEN NewAgent(FirstAgents[a], Host) ELSE NoAgent]
<1>1. k \in Agents /\ k \in Nat /\ k <= Cardinality(Agents) /\ k <= Limit /\ Limit \in Nat
  BY AgentsConstants, Constants
<1>2. /\ st.agents = agents /\ st.nextAgent = k + 1 /\ st.ready = <<>> /\ st.events = k
      /\ st.requests = [r \in Requests |-> NoRequest] /\ st.nextRequest = 1 /\ st.sentBy = <<>>
      /\ st.handled = [a \in Agents |-> <<>>] /\ st.waits = [a \in Agents |-> 0]
      /\ st.turn = 0 /\ st.undone = {}
  BY DEF AgentsInit
<1>16. st = [agents |-> agents, nextAgent |-> k + 1, ready |-> <<>>, events |-> k,
             requests |-> [r \in Requests |-> NoRequest], nextRequest |-> 1,
             sentBy |-> <<>>, handled |-> [a \in Agents |-> <<>>],
             waits |-> [a \in Agents |-> 0], turn |-> 0, undone |-> {}]
  BY DEF AgentsInit
<1>3. \A S : <<>> \in Seq(S) /\ Len(<<>>) = 0
  BY EmptySeq
<1>4. ASSUME NEW a \in Agents
      PROVE  /\ agents[a] \in AgentRecords /\ agents[a].mailbox = <<>>
             /\ agents[a].running => a < k + 1
             /\ a < k + 1 => agents[a].running
             /\ agents[a].restarts = 0 /\ agents[a].max \in Nat /\ agents[a].by = Host
             /\ agents[a].supervisor < k + 1
  <2>1. a \in Nat /\ a >= 1
    BY AgentsConstants, Constants
  <2>2. CASE a <= k
    <3> DEFINE role == FirstAgents[a]
    <3>1. a \in 1 .. k
      BY <1>1, <2>1, <2>2
    <3>2. /\ role.active \in BOOLEAN /\ role.supervisor \in Agents \cup {0}
          /\ role.action \in {"stop", "restart", "escalate"} /\ role.max \in Nat
          /\ role.supervisor < a
      BY <3>1, AgentsConstants
    <3>3. agents[a] = NewAgent(role, Host)
      BY <2>2
    <3> HIDE DEF role, agents
    <3>4. \A p \in Agents \cup {0} : p \in Nat
      BY Constants
    <3>5. role.supervisor \in Nat
      BY <3>2, <3>4
    <3>6. role.supervisor < k + 1
      <4> DEFINE p == role.supervisor
      <4>1. p \in Nat /\ p < a
        BY <3>2, <3>5
      <4> HIDE DEF p, k
      <4>2. p < k + 1
        BY <1>1, <2>1, <2>2, <4>1
      <4> QED
        BY <4>2 DEF p
    <3>7. NewAgent(role, Host) \in AgentRecords
      BY <1>3, <3>2 DEF NewAgent, AgentRecords, Host, None
    <3>8. a < k + 1
      BY <1>1, <2>1, <2>2
    <3>9. LET agent == NewAgent(role, Host) IN
          /\ agent.mailbox = <<>> /\ agent.running /\ agent.restarts = 0 /\ agent.max = role.max
          /\ agent.by = Host /\ agent.supervisor = role.supervisor
      BY DEF NewAgent
    <3> HIDE DEF k
    <3> QED
      BY <3>2, <3>3, <3>6, <3>7, <3>8, <3>9
  <2>3. CASE ~(a <= k)
    <3>1. agents[a] = NoAgent
      BY <2>3
    <3>2. NoAgent \in AgentRecords
      BY <1>3 DEF NoAgent, AgentRecords, Host, None
    <3>3. ~(a < k + 1) /\ 0 < k + 1
      BY <1>1, <2>1, <2>3
    <3> HIDE DEF agents, k
    <3> QED
      BY <3>1, <3>2, <3>3 DEF NoAgent, None
  <2> QED
    BY <2>2, <2>3
<1> HIDE DEF agents, k
<1>5. st \in States
  <2>1. agents \in [Agents -> AgentRecords]
    BY <1>4 DEF agents
  <2>2. [r \in Requests |-> NoRequest] \in [Requests -> RequestRecords]
    BY DEF NoRequest, RequestRecords, Statuses, Host
  <2>3. k + 1 \in Nat /\ k \in 0 .. Limit /\ 1 \in Nat /\ 0 \in Nat
    BY <1>1
  <2>4. [a \in Agents |-> <<>>] \in [Agents -> Seq(Messages)] /\ [a \in Agents |-> 0] \in [Agents -> Nat]
    BY <1>3
  <2>5. <<>> \in Seq(Agents) /\ <<>> \in Seq(Nat) /\ {} \in SUBSET Nat
    BY <1>3
  <2> DEFINE requests == [r \in Requests |-> NoRequest]
             handled == [a \in Agents |-> <<>>]
             waits == [a \in Agents |-> 0]
  <2> HIDE DEF requests, handled, waits
  <2> QED
    BY <1>16, <2>1, <2>2, <2>3, <2>4, <2>5 DEF States, requests, handled, waits
<1>6. Lined(st.ready, st.waits) /\ \A a : ~Contains(st.ready, a)
  BY <1>2, <1>3 DEF Lined, Contains
<1>7. Awake(st)
  <2>1. st.nextAgent <= Cardinality(Agents) + 1
    BY <1>1, <1>2, Constants
  <2>2. \A a \in Agents : Len(st.agents[a].mailbox) <= Limit /\ st.agents[a].restarts <= st.agents[a].max
    BY <1>1, <1>2, <1>3, <1>4
  <2> QED
    BY <1>2, <1>4, <1>6, <2>1, <2>2 DEF Awake
<1>8. Clean(st)
  <2>1. Host \in Standing(st)
    BY <1>2 DEF Standing, Host
  <2>2. \A r \in Requests : st.requests[r].by = Host
    BY <1>2 DEF NoRequest
  <2> QED
    BY <1>2, <1>3, <1>4, <2>1, <2>2 DEF Clean
<1>9. Sound(st)
  BY <1>5, <1>6, <1>7, <1>8 DEF Sound
<1>10. job = Idle /\ job.pc = "idle" /\ torn = FALSE /\ job \in Jobs /\ Hand = NoHand
  BY DEF AgentsInit, Idle, Jobs, Hand, NoHand
<1>11. \A a \in Agents : InboxOf(st, NoHand, a) = <<>>
  <2>1. <<>> \o <<>> = <<>>
    BY <1>3, ConcatEmptySeq
  <2>2. \A a \in Agents : st.handled[a] = <<>> /\ NoHand[a] = <<>> /\ st.agents[a].mailbox = <<>>
    BY <1>2, <1>4 DEF NoHand
  <2> QED
    BY <2>1, <2>2 DEF InboxOf
<1>12. \A a \in Agents : Len(InboxOf(st, NoHand, a)) = 0
  BY <1>3, <1>11
<1>13. Delivered(st, NoHand)
  <2>1. Len(st.sentBy) <= MaxMessages
    BY <1>2, <1>3, Constants
  <2>2. \A r \in Requests : st.requests[r].status = "none"
    BY <1>2 DEF NoRequest
  <2>3. Once(st, NoHand) /\ Ordered(st, NoHand)
    BY <1>12 DEF Once, Ordered
  <2> QED
    BY <1>12, <2>1, <2>2, <2>3 DEF Delivered
<1>14. Complete(st, NoHand)
  <2>1. Users(st, NoHand)
    BY <1>2, <1>3 DEF Users
  <2>2. \A r \in Requests : st.requests[r].status = "none"
    BY <1>2 DEF NoRequest
  <2> QED
    BY <2>1, <2>2 DEF Complete, Accounted, AccountOf
<1>15. Told(st, NoHand)
  BY <1>2, <1>4 DEF Told
<1> QED
  BY <1>9, <1>10, <1>13, <1>14, <1>15 DEF AgentsInv, Good

\* What the host and turns may do, and on whose account.
LEMMA Grounds ==
  ASSUME AgentsInv
  PROVE  /\ st \in States /\ Sound(st) /\ Delivered(st, Hand) /\ Hand \in Hands /\ job \in Jobs
         /\ Spawned(st) \subseteq Agents
         /\ Host \in Standing(st)
         /\ job.pc = "turn" => st.turn \in Standing(st)
         /\ job = Idle => job.pc = "idle" /\ Hand = NoHand
<1>1. st \in States /\ Sound(st) /\ Delivered(st, Hand) /\ Hand \in Hands /\ job \in Jobs
  BY HandIs DEF AgentsInv, Good, Sound
<1>2. st.nextAgent \in Nat /\ st.nextAgent <= Cardinality(Agents) + 1
  BY <1>1 DEF Sound, Awake, States
<1>3. Spawned(st) \subseteq Agents
  <2>1. Cardinality(Agents) \in Nat /\ Agents = 1 .. Cardinality(Agents)
    BY Constants
  <2> DEFINE n == Cardinality(Agents)
             k == st.nextAgent
  <2>2. n \in Nat /\ Agents = 1 .. n /\ k \in Nat /\ k <= n + 1 /\ Spawned(st) = 1 .. k - 1
    BY <1>2, <2>1 DEF Spawned
  <2> HIDE DEF n, k
  <2>3. \A i \in 1 .. k - 1 : i \in 1 .. n
    BY <2>2
  <2> QED
    BY <2>2, <2>3
<1>4. st.undone \subseteq 1 .. st.turn /\ st.turn \in Nat
  BY <1>1 DEF Sound, Clean, States
<1>5. Host \in Standing(st)
  BY <1>4 DEF Standing, Host
<1>6. ASSUME job.pc = "turn" PROVE st.turn \in Standing(st)
  <2>1. st.turn \notin st.undone
    BY <1>6 DEF AgentsInv, Undoable
  <2> QED
    BY <1>4, <2>1 DEF Standing
<1>7. ASSUME job = Idle PROVE job.pc = "idle" /\ Hand = NoHand
  BY <1>7 DEF Idle, Hand, NoHand
<1> QED
  BY <1>1, <1>3, <1>5, <1>6, <1>7

LEMMA FormInv ==
  ASSUME AgentsInv, NEW o, Form(o) \/ Transaction(o) \/ Behaves(o), Keeps(st, o.state, Hand)
  PROVE  AgentsInv'
<1>1. UNCHANGED <<job, torn>> /\ (st' = st \/ st' = o.state)
  BY DEF Form, Transaction, Behaves
<1>2. Keeps(st, st, Hand)
  BY Grounds, KeepsNothing
<1>3. Keeps(st, st', Hand)
  BY <1>1, <1>2
<1> QED
  BY <1>1, <1>3, KeepsInv

LEMMA HostInv ==
  ASSUME AgentsInv,
         \/ \E a \in Spawned(st) : HostSend(a) \/ HostReceive(a)
         \/ \E role \in Roles : HostSpawn(role)
         \/ \E r \in Requests : HostClaim(r) \/ HostComplete(r)
  PROVE  AgentsInv'
<1>1. /\ Sound(st) /\ Delivered(st, Hand) /\ Hand \in Hands /\ Spawned(st) \subseteq Agents
      /\ Host \in Standing(st) /\ (job = Idle => Hand = NoHand)
  BY Grounds
<1>2. ASSUME NEW a \in Spawned(st), HostSend(a) PROVE AgentsInv'
  <2>1. a \in Agents
    BY <1>1
  <2>2. Len(st.sentBy) < MaxMessages /\ Form(Send(st, a, Host))
    BY <1>2 DEF HostSend
  <2>3. Keeps(st, Send(st, a, Host).state, Hand)
    BY <1>1, <2>1, <2>2, SendKeeps
  <2> QED
    BY <2>2, <2>3, FormInv
<1>3. ASSUME NEW a \in Spawned(st), HostReceive(a) PROVE AgentsInv'
  <2> DEFINE t == TakenOut(st, a)
  <2>1. a \in Agents
    BY <1>1
  <2>7. st.agents[a].mailbox # <<>>
    BY <1>3, Zenon DEF HostReceive
  <2>8. Form(Done(t))
    BY <1>3, Zenon DEF HostReceive, TakenOut
  <2>2. st.agents[a].mailbox # <<>> /\ Form(Done(t))
    BY <2>7, <2>8
  <2>6. job = Idle
    BY <2>2 DEF Form
  <2>3. Hand = NoHand /\ Delivered(st, NoHand)
    BY <1>1, <2>6
  <2>4. Keeps(st, t, NoHand)
    BY <1>1, <2>1, <2>2, <2>3, ReceiveKeeps
  <2> HIDE DEF t
  <2>5. Keeps(st, Done(t).state, Hand)
    BY <2>3, <2>4 DEF Done
  <2> QED
    BY <2>2, <2>5, FormInv
<1>4. ASSUME NEW role \in Roles, HostSpawn(role) PROVE AgentsInv'
  <2>1. st.nextAgent \in Agents /\ Form(Spawn(st, role, Host))
    BY <1>4 DEF HostSpawn
  <2>2. Keeps(st, Spawn(st, role, Host).state, Hand)
    BY <1>1, <2>1, SpawnKeeps
  <2> QED
    BY <2>1, <2>2, FormInv
<1>5. ASSUME NEW r \in Requests, HostClaim(r) PROVE AgentsInv'
  <2> DEFINE o == RecordEvent([st EXCEPT !.requests[r].status = "dispatching"])
  <2>1. st.requests[r].status = "pending" /\ Transaction(o)
    BY <1>5 DEF HostClaim
  <2>2. Keeps(st, o.state, Hand)
    BY <1>1, <2>1, ClaimKeeps
  <2> HIDE DEF o
  <2> QED
    BY <2>1, <2>2, FormInv
<1>6. ASSUME NEW r \in Requests, HostComplete(r) PROVE AgentsInv'
  <2>1. st.requests[r].status = "dispatching" /\ Transaction(Completed(st, r))
    BY <1>6 DEF HostComplete
  <2>2. Completed(st, r).ok => Keeps(st, Completed(st, r).state, Hand)
    BY <1>1, <2>1, CompletedKeeps
  <2>3. /\ UNCHANGED <<job, torn>>
        /\ st' = IF Completed(st, r).ok THEN Completed(st, r).state ELSE st
    BY <2>1 DEF Transaction
  <2>4. Keeps(st, st', Hand)
    BY <1>1, <2>2, <2>3, KeepsNothing
  <2> QED
    BY <2>3, <2>4, KeepsInv
<1> QED
  BY <1>2, <1>3, <1>4, <1>5, <1>6

LEMMA BehaviourInv ==
  ASSUME AgentsInv,
         \/ \E a \in Spawned(st) : TurnSend(a) \/ TurnRequest(a)
         \/ \E role \in Roles : TurnSpawn(role)
  PROVE  AgentsInv'
<1>1. /\ Sound(st) /\ Delivered(st, Hand) /\ Hand \in Hands /\ Spawned(st) \subseteq Agents
      /\ InTurn => st.turn \in Standing(st)
  BY Grounds DEF InTurn
<1>2. ASSUME NEW a \in Spawned(st), TurnSend(a) PROVE AgentsInv'
  <2>1. a \in Agents
    BY <1>1
  <2>2. InTurn /\ Len(st.sentBy) < MaxMessages /\ Behaves(Send(st, a, st.turn))
    BY <1>2 DEF TurnSend
  <2>3. Keeps(st, Send(st, a, st.turn).state, Hand)
    BY <1>1, <2>1, <2>2, SendKeeps
  <2> QED
    BY <2>2, <2>3, FormInv
<1>3. ASSUME NEW a \in Spawned(st), TurnRequest(a) PROVE AgentsInv'
  <2>1. a \in Agents
    BY <1>1
  <2>2. InTurn /\ st.nextRequest \in Requests /\ Behaves(RequestModel(st, a, st.turn))
    BY <1>3 DEF TurnRequest
  <2>3. Keeps(st, RequestModel(st, a, st.turn).state, Hand)
    BY <1>1, <2>1, <2>2, RequestKeeps
  <2> QED
    BY <2>2, <2>3, FormInv
<1>4. ASSUME NEW role \in Roles, TurnSpawn(role) PROVE AgentsInv'
  <2>1. InTurn /\ st.nextAgent \in Agents /\ Behaves(Spawn(st, role, st.turn))
    BY <1>4 DEF TurnSpawn
  <2>2. Keeps(st, Spawn(st, role, st.turn).state, Hand)
    BY <1>1, <2>1, SpawnKeeps
  <2> QED
    BY <2>1, <2>2, FormInv
<1> QED
  BY <1>2, <1>3, <1>4

\* The runtime's states are good ones, all of them.
THEOREM AgentsInvariant == AgentsSpec => []AgentsInv
<1>1. ASSUME AgentsInv, [AgentsNext]_agentVars PROVE AgentsInv'
  <2>1. CASE \/ \E a \in Spawned(st) : HostSend(a) \/ HostReceive(a)
             \/ \E role \in Roles : HostSpawn(role)
             \/ \E r \in Requests : HostClaim(r) \/ HostComplete(r)
    BY <1>1, <2>1, HostInv
  <2>2. CASE \/ \E a \in Spawned(st) : TurnSend(a) \/ TurnRequest(a)
             \/ \E role \in Roles : TurnSpawn(role)
    BY <1>1, <2>2, BehaviourInv
  <2>3. CASE \E n \in 1 .. MaxTurns : Run(n)
    BY <1>1, <2>3, RunInv
  <2>4. CASE EndRun
    BY <1>1, <2>4, EndRunInv
  <2>5. CASE StartTurn
    BY <1>1, <2>5, StartTurnInv
  <2>6. CASE TurnCommits
    BY <1>1, <2>6, TurnCommitsInv
  <2>7. CASE TurnFails
    BY <1>1, <2>7, TurnFailsInv
  <2>8. CASE TurnStarved
    BY <1>1, <2>8, TurnStarvedInv
  <2>9. CASE UNCHANGED agentVars
    <3>1. st' = st /\ UNCHANGED <<job, torn>>
      BY <2>9 DEF agentVars
    <3>2. Keeps(st, st', Hand)
      BY <1>1, <3>1, Grounds, KeepsNothing
    <3> QED
      BY <1>1, <3>1, <3>2, KeepsInv
  <2> QED
    BY <1>1, <2>1, <2>2, <2>3, <2>4, <2>5, <2>6, <2>7, <2>8, <2>9 DEF AgentsNext
<1> QED
  BY <1>1, InitInv, PTL DEF AgentsSpec

-----------------------------------------------------------------------------
(* The theorems.                                                           *)

\* No lost wakeup: an agent that can take a turn is queued for one, at every moment of
\* every form, and nobody is queued twice (enqueue_message, schedule, next_runnable,
\* execute_turn).
THEOREM NoWakeupIsLost == AgentsSpec => []NoLostWakeup
<1>1. ASSUME AgentsInv PROVE NoLostWakeup
  <2>1. st \in States /\ Awake(st) /\ Lined(st.ready, st.waits) /\ job \in Jobs /\ torn \in BOOLEAN
    BY <1>1 DEF AgentsInv, Good, Sound
  <2>2. /\ st.ready \in Seq(Agents) /\ Len(st.ready) \in Nat /\ DOMAIN st.ready = 1 .. Len(st.ready)
        /\ \A i \in 1 .. Len(st.ready) : st.ready[i] \in Agents
    BY <2>1, LenProperties, ElementOfSeq DEF States
  <2>3. IsInjective(st.ready)
    BY <2>1, <2>2 DEF Lined, IsInjective
  <2>4. \A a \in Agents : Runnable(a) => Contains(st.ready, a)
    BY <2>1 DEF Awake, Runnable
  <2>5. ASSUME NEW a \in Agents
        PROVE  /\ Range(st.agents[a].mailbox) \subseteq Messages
               /\ Len(st.agents[a].mailbox) <= Limit
               /\ st.agents[a].restarts \in 0 .. st.agents[a].max
    <3>1. /\ st.agents[a].mailbox \in Seq(Messages) /\ st.agents[a].restarts \in Nat
          /\ st.agents[a].max \in Nat
      BY <2>1 DEF States, AgentRecords
    <3>2. Len(st.agents[a].mailbox) <= Limit /\ st.agents[a].restarts <= st.agents[a].max
      BY <2>1 DEF Awake
    <3>3. Range(st.agents[a].mailbox) \subseteq Messages
      BY <3>1, LenProperties, ElementOfSeq DEF Range
    <3>4. st.agents[a].restarts \in 0 .. st.agents[a].max
      BY <3>1, <3>2
    <3> QED
      BY <3>2, <3>3, <3>4
  <2>6. Range(st.ready) \subseteq Spawned(st)
    <3> SUFFICES ASSUME NEW i \in 1 .. Len(st.ready) PROVE st.ready[i] \in Spawned(st)
      BY <2>2 DEF Range
    <3> DEFINE a == st.ready[i]
    <3>1. a \in Agents /\ Contains(st.ready, a)
      BY <2>2 DEF Contains
    <3>2. a < st.nextAgent /\ st.nextAgent \in Nat
      BY <2>1, <3>1 DEF Awake, States
    <3>3. a \in Nat /\ a >= 1
      BY <3>1, Constants
    <3> HIDE DEF a
    <3>4. a \in Spawned(st)
      BY <3>2, <3>3 DEF Spawned
    <3> QED
      BY <3>4 DEF a
  <2>7. st.events \in 0 .. Limit /\ job.pc \in {"idle", "run", "turn"}
    BY <2>1, JobKinds DEF States
  <2>8. AgentsTypeOK
    BY <2>1, <2>5, <2>6, <2>7 DEF AgentsTypeOK
  <2> QED
    BY <2>3, <2>4, <2>8 DEF NoLostWakeup
<1> QED
  BY <1>1, AgentsInvariant, PTL

\* Nobody starves behind busy agents: once queued, an agent sees every other agent take
\* at most one turn before its own (schedule, execute_turn).
THEOREM WaitIsBounded == AgentsSpec => []BoundedWait
<1>1. ASSUME AgentsInv PROVE BoundedWait
  <2> SUFFICES ASSUME NEW a \in Agents PROVE st.waits[a] < Cardinality(Agents)
    BY DEF BoundedWait
  <2>1. st \in States /\ Lined(st.ready, st.waits)
    BY <1>1 DEF AgentsInv, Good, Sound
  <2>2. st.waits[a] \in Nat /\ Cardinality(Agents) \in Nat /\ Cardinality(Agents) >= 1
    BY <2>1, Constants DEF States
  <2>3. CASE Contains(st.ready, a)
    <3>1. PICK i \in 1 .. Len(st.ready) : st.ready[i] = a
      BY <2>3 DEF Contains
    <3>2. st.waits[a] + i <= Cardinality(Agents)
      BY <2>1, <3>1 DEF Lined
    <3> QED
      BY <2>2, <3>2
  <2>4. CASE ~Contains(st.ready, a)
    <3>1. st.waits[a] = 0
      BY <2>1, <2>4 DEF Lined
    <3> QED
      BY <2>2, <3>1
  <2> QED
    BY <2>3, <2>4
<1> QED
  BY <1>1, AgentsInvariant, PTL

\* What an agent was given, as the properties and as the invariant say it.
LEMMA ReceivedIs ==
  ASSUME AgentsInv, NEW a \in Agents
  PROVE  /\ Received(a) = InboxOf(st, Hand, a)
         /\ DOMAIN Received(a) = 1 .. Len(InboxOf(st, Hand, a))
         /\ Len(Received(a)) = Len(InboxOf(st, Hand, a))
         /\ \A x : Has(st, Hand, a, x) => x \in Range(Received(a))
<1>1. InHand(a) = Hand[a]
  BY DEF InHand, Hand, InTurn
<1>2. Received(a) = InboxOf(st, Hand, a)
  BY <1>1 DEF Received, InboxOf
<1>3. InboxOf(st, Hand, a) \in Seq(Messages)
  BY Grounds, InboxType
<1>4. DOMAIN Received(a) = 1 .. Len(InboxOf(st, Hand, a))
  BY <1>2, <1>3, LenProperties
<1>5. \A x : Has(st, Hand, a, x) => x \in Range(Received(a))
  BY <1>2, <1>4 DEF Has, Range
<1> QED
  BY <1>2, <1>4, <1>5

\* Every message an agent or the host sent is delivered exactly once and in order, over
\* failures, restarts and stopped runs; the runtime's own are delivered at most once, and
\* a model's result that is not delivered is accounted for.  Only a handler that keeps
\* an interrupted run can lose one (enqueue_message, complete_model_request,
\* execute_turn, supervise_failure).
THEOREM DeliveredOnce == AgentsSpec => []DeliveredOnceInOrder
<1>1. ASSUME AgentsInv PROVE DeliveredOnceInOrder
  <2>1. /\ st \in States /\ Delivered(st, Hand) /\ (torn \/ Complete(st, Hand))
    BY <1>1 DEF AgentsInv, Good, Sound
  <2>2. NothingLost
    <3>1. DOMAIN st.sentBy = 1 .. Len(st.sentBy)
      BY <2>1, LenProperties DEF States
    <3>2. ASSUME ~torn, NEW n \in 1 .. Len(st.sentBy)
          PROVE  \E a \in Agents : User(n) \in Range(Received(a))
      <4>1. PICK a \in Agents : Has(st, Hand, a, User(n))
        BY <2>1, <3>2 DEF Complete, Users
      <4> QED
        BY <1>1, <4>1, ReceivedIs
    <3>3. ASSUME ~torn, NEW r \in Requests PROVE ResultAccounted(r)
      <4> DEFINE a == st.requests[r].replyTo
      <4>1. AccountOf(st, Hand, r)
        BY <2>1, <3>3 DEF Complete, Accounted
      <4>2. CASE st.requests[r].status = "none"
        BY <4>2 DEF ResultAccounted
      <4>3. CASE st.requests[r].status # "none"
        <5>1. a \in Agents
          BY <2>1, <4>3 DEF States, RequestRecords
        <5> HIDE DEF a
        <5>2. /\ Len(Received(a)) = Len(InboxOf(st, Hand, a))
              /\ Has(st, Hand, a, Result(r)) => Result(r) \in Range(Received(a))
          BY <1>1, <5>1, ReceivedIs
        <5> QED
          BY <4>1, <5>2 DEF AccountOf, ResultAccounted, a
      <4> QED
        BY <4>2, <4>3
    <3> QED
      BY <3>1, <3>2, <3>3 DEF NothingLost
  <2>3. NothingTwice
    <3> SUFFICES ASSUME NEW a \in Agents, NEW b \in Agents, NEW i \in DOMAIN Received(a),
                        NEW j \in DOMAIN Received(b), Received(a)[i] = Received(b)[j]
                 PROVE  a = b /\ i = j
      BY DEF NothingTwice
    <3>1. /\ Received(a) = InboxOf(st, Hand, a) /\ i \in 1 .. Len(InboxOf(st, Hand, a))
          /\ Received(b) = InboxOf(st, Hand, b) /\ j \in 1 .. Len(InboxOf(st, Hand, b))
      BY <1>1, ReceivedIs
    <3>2. InboxOf(st, Hand, a)[i] = InboxOf(st, Hand, b)[j]
      BY <3>1
    <3> QED
      BY <2>1, <3>1, <3>2 DEF Delivered, Once
  <2>4. InOrder
    <3> SUFFICES ASSUME NEW a \in Agents, NEW i \in DOMAIN Received(a), NEW j \in DOMAIN Received(a),
                        i < j, IsUser(Received(a)[i]), IsUser(Received(a)[j])
                 PROVE  Received(a)[i].n < Received(a)[j].n
      BY DEF InOrder
    <3>1. /\ Received(a) = InboxOf(st, Hand, a)
          /\ i \in 1 .. Len(InboxOf(st, Hand, a)) /\ j \in 1 .. Len(InboxOf(st, Hand, a))
      BY <1>1, ReceivedIs
    <3> QED
      BY <2>1, <3>1 DEF Delivered, Ordered, IsUser
  <2> QED
    BY <2>2, <2>3, <2>4 DEF DeliveredOnceInOrder
<1> QED
  BY <1>1, AgentsInvariant, PTL

\* What a failed turn did is gone: no message, agent or request was made by a turn that
\* was undone (the checkpoint of execute_turn).
THEOREM FailedTurnsUndone == AgentsSpec => []FailedTurnsLeaveNothing
<1>1. ASSUME AgentsInv PROVE FailedTurnsLeaveNothing
  <2>1. st \in States /\ Clean(st)
    BY <1>1 DEF AgentsInv, Good, Sound
  <2>2. DOMAIN st.sentBy = 1 .. Len(st.sentBy)
    BY <2>1, LenProperties DEF States
  <2>3. \A n \in Standing(st) : n \notin st.undone
    BY DEF Standing
  <2>4. Range(st.sentBy) \cap st.undone = {}
    BY <2>1, <2>2, <2>3 DEF Clean, Range
  <2>5. {st.agents[a].by : a \in Agents} \cap st.undone = {}
    BY <2>1, <2>3 DEF Clean
  <2>6. {st.requests[r].by : r \in Requests} \cap st.undone = {}
    BY <2>1, <2>3 DEF Clean
  <2> DEFINE made == Range(st.sentBy) \cup {st.agents[a].by : a \in Agents}
                       \cup {st.requests[r].by : r \in Requests}
  <2>7. made \cap st.undone = {}
    BY <2>4, <2>5, <2>6
  <2> HIDE DEF made
  <2> QED
    BY <2>7 DEF FailedTurnsLeaveNothing, made
<1> QED
  BY <1>1, AgentsInvariant, PTL

\* A supervisor is told of a child that stopped for good, unless it had stopped itself
\* or a handler kept an interrupted run (supervise_failure, escalate).
THEOREM SupervisorsAreTold == AgentsSpec => []EscalationDelivered
<1>1. ASSUME AgentsInv PROVE EscalationDelivered
  <2> SUFFICES ASSUME ~InTurn, ~torn, NEW c \in Spawned(st),
                      ~st.agents[c].running, st.agents[c].supervisor # None,
                      st.agents[c].action # "stop"
               PROVE  \/ ~st.agents[st.agents[c].supervisor].running
                      \/ Failed(c) \in Range(Received(st.agents[c].supervisor))
    BY DEF EscalationDelivered
  <2>1. st \in States /\ Told(st, Hand) /\ c \in Agents
    BY <1>1, Grounds DEF AgentsInv, Good
  <2>2. c < st.nextAgent
    BY <2>1 DEF Spawned, States
  <2> DEFINE p == st.agents[c].supervisor
  <2>3. p \in Agents
    BY <2>1 DEF States, AgentRecords
  <2>4. ~st.agents[p].running \/ Has(st, Hand, p, Failed(c))
    BY <2>1, <2>2 DEF Told
  <2> HIDE DEF p
  <2>5. ~st.agents[p].running \/ Failed(c) \in Range(Received(p))
    BY <1>1, <2>3, <2>4, ReceivedIs
  <2> QED
    BY <2>5 DEF p
<1> QED
  BY <1>1, AgentsInvariant, PTL
=============================================================================
