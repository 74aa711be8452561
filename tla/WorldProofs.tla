----------------------------- MODULE WorldProofs -----------------------------
(***************************************************************************)
(* Proofs about the Lisp world, for every number of worlds, requests and   *)
(* prompts, every history limit and every end of a counter: numbers are    *)
(* final, an effect is launched once, what is in doubt is in the journal,  *)
(* a restore ends authority, and the worlds around the live one implement  *)
(* the effect ledger.                                                      *)
(***************************************************************************)
EXTENDS World, FiniteSetTheorems, SequenceTheorems, TLAPS

Marks == {"claimed", "completed"}
Journals == UNION {[D -> Marks] : D \in SUBSET EffectKeys}
Names == [revision : 0 .. MaxRevision, state : States]

Snapshots ==
  [state : States, revision : 0 .. MaxRevision, nextRevision : 1 .. MaxRevision,
   nextCapability : 1 .. MaxCapability + 1, id : Instances, epoch : Nat \ {0},
   journal : Instances]

\* A World value with a ring within its limit.
WellFormed(w) == w \in WorldRecords /\ Len(w.history) <= w.limit

\* The World values of the host; each opened one used up an identity.
WorldsTyped ==
  /\ worlds \in [Instances -> WorldRecords \cup {NoWorld}]
  /\ worlds[1] # NoWorld
  /\ \A i \in Live : WellFormed(worlds[i])
  /\ nextWorldId \in Nat \ {0}
  /\ nextWorldId <= Cardinality(Live) + 1

\* A name once given stays given: the counter is past all of them.
NamesGiven ==
  /\ made \in [Instances -> SUBSET Names]
  /\ RevisionsNameStates
  /\ \A i \in Live : \A m \in made[i] : m.revision < worlds[i].nextRevision

\* What a world issued is of its identity, of an epoch that has begun, and of a
\* number below its counter.
AuthorityGiven ==
  /\ issued \in [Instances -> SUBSET Capabilities]
  /\ \A i \in Instances : i \notin Live => issued[i] = {}
  /\ \A i \in Live : \A c \in issued[i] : /\ c.world = worlds[i].id
                                          /\ c.epoch <= worlds[i].epoch
                                          /\ c.id < worlds[i].nextCapability
  /\ CapabilityIdsUnique

\* The requests of a state that are in doubt or answered are in a journal.
Settled(state, journal) ==
  \A r \in RequestIds :
    state.requests[r].status \in {"dispatching", "completed"}
      => state.requests[r].key \in DOMAIN journal

\* What was launched is in the journal.
LaunchesKept ==
  /\ journals \in [Instances -> Journals]
  /\ launches \in [Instances \X EffectKeys -> Nat]
  /\ LaunchedOnce
  /\ \A p \in Instances \X EffectKeys : launches[p] > 0 => p[2] \in DOMAIN journals[p[1]]

\* So is what is in doubt in any state that a world is in or can return to, if all
\* its states were reached under its journal.
DoubtKept ==
  /\ mixed \subseteq Instances \cup {0}
  /\ \A i \in Live \ mixed :
       \A m \in made[i] : Settled(m.state, journals[worlds[i].journal])

SnapshotKept ==
  snap # NoSnapshot =>
    /\ snap \in Snapshots
    /\ snap.revision < snap.nextRevision
    /\ 0 \notin mixed => Settled(snap.state, journals[snap.journal])

WorldInv ==
  /\ WorldsTyped /\ NamesGiven /\ AuthorityGiven
  /\ LaunchesKept /\ DoubtKept /\ SnapshotKept

-----------------------------------------------------------------------------
\* How one world becomes another without changing its identity: a new revision with
\* the next number, or the state of a number it has.
Extends(w, c) ==
  /\ WellFormed(c)
  /\ c.id = w.id /\ c.journal = w.journal
  /\ c.epoch >= w.epoch /\ c.nextCapability >= w.nextCapability
  /\ Range(c.history) \subseteq Range(w.history) \cup {Named(w)}
  /\ \/ c.nextRevision = w.nextRevision + 1 /\ c.revision = w.nextRevision
     \/ c.nextRevision = w.nextRevision /\ Named(c) \in Range(w.history) \cup {Named(w)}

\* The three things a step does to the World values.
Advances(i) ==
  /\ \E c : Extends(worlds[i], c) /\ Becomes(i, c)
  /\ nextWorldId' = nextWorldId

OpensOne(i) ==
  /\ \E w : /\ WellFormed(w) /\ w.history = <<>> /\ w.revision < w.nextRevision
           /\ Opens(i, w)
  /\ nextWorldId' \in {nextWorldId, nextWorldId + 1}

LeavesWorlds == UNCHANGED <<worlds, made, nextWorldId>>

-----------------------------------------------------------------------------
\* The numbers the constants stand for.
LEMMA WorldNumbers ==
  /\ IsFiniteSet(Instances) /\ 1 \in Instances /\ Instances \subseteq Nat \ {0}
  /\ Cardinality(Instances) \in Nat \ {0} /\ Instances = 1 .. Cardinality(Instances)
  /\ Cardinality(RequestIds) \in Nat /\ RequestIds = 1 .. Cardinality(RequestIds)
  /\ HistoryLimit \in Nat /\ EventLimit \in Nat \ {0}
  /\ MaxRevision \in Nat /\ MaxRevision > 1 /\ MaxCapability \in Nat \ {0}
<1>1. Cardinality(Instances) \in Nat /\ Cardinality(RequestIds) \in Nat
  BY WorldConstants, FS_CardinalityType
<1>2. Cardinality(Instances) # 0
  BY <1>1, WorldConstants
<1> QED BY <1>1, <1>2, WorldConstants

\* A world is not the absence of one.
LEMMA WorldIsThere ==
  ASSUME NEW w \in WorldRecords
  PROVE  w # NoWorld
<1>1. w.id # 0
  BY WorldNumbers DEF WorldRecords
<1> QED BY <1>1 DEF NoWorld

\* What is in a ring.
LEMMA RingRange ==
  ASSUME NEW S, NEW s \in Seq(S), NEW e \in S
  PROVE  /\ Range(Append(s, e)) = Range(s) \cup {e}
         /\ s # <<>> => /\ Range(Tail(s)) \subseteq Range(s)
                        /\ Range(SubSeq(s, 1, Len(s) - 1)) \subseteq Range(s)
                        /\ s[Len(s)] \in Range(s)
                        /\ SubSeq(s, 1, Len(s) - 1) \in Seq(S)
                        /\ Len(SubSeq(s, 1, Len(s) - 1)) = Len(s) - 1
<1> DEFINE last == Len(s)
           front == SubSeq(s, 1, last - 1)
<1>1. last \in Nat /\ DOMAIN s = 1 .. last
  OBVIOUS
<1>2. Range(Append(s, e)) = Range(s) \cup {e}
  <2>1. DOMAIN Append(s, e) = 1 .. last + 1 /\ Append(s, e)[last + 1] = e
        /\ \A i \in 1 .. last : Append(s, e)[i] = s[i]
    OBVIOUS
  <2>2. 1 .. last + 1 = (1 .. last) \cup {last + 1}
    BY <1>1
  <2> QED BY <2>1, <2>2, <1>1 DEF Range
<1>3. ASSUME s # <<>>
      PROVE  /\ Range(Tail(s)) \subseteq Range(s)
             /\ Range(front) \subseteq Range(s)
             /\ s[last] \in Range(s)
             /\ front \in Seq(S) /\ Len(front) = last - 1
  <2>1. last >= 1
    BY <1>3
  <2>2. DOMAIN Tail(s) = 1 .. last - 1 /\ \A i \in 1 .. last - 1 : Tail(s)[i] = s[i + 1]
    BY <1>3, <2>1
  <2>3. \A i \in 1 .. last - 1 : s[i] \in S
    BY <1>1
  <2>4. front \in Seq(S) /\ Len(front) = last - 1
        /\ \A i \in 1 .. last - 1 : front[i] = s[i]
    BY <1>1, <2>1, <2>3, SubSeqProperties
  <2>5. DOMAIN front = 1 .. last - 1
    BY <2>4, LenProperties
  <2>6. \A i \in 1 .. last - 1 : i \in 1 .. last /\ i + 1 \in 1 .. last
    BY <1>1
  <2>7. last \in 1 .. last
    BY <1>1, <2>1
  <2> HIDE DEF front, last
  <2>8. Range(Tail(s)) \subseteq Range(s)
    BY <1>1, <2>2, <2>6 DEF Range
  <2> QED BY <1>1, <2>4, <2>5, <2>6, <2>7, <2>8 DEF Range
<1> QED BY <1>2, <1>3

\* A commit extends a world.
LEMMA CommitExtends ==
  ASSUME NEW w, WellFormed(w), NEW state \in States, RevisionsLeft(w)
  PROVE  /\ Extends(w, Committed(w, state))
         /\ Committed(w, state).state = state
         /\ Committed(w, state).nextRevision = w.nextRevision + 1
         /\ Committed(w, state).nextCapability = w.nextCapability
         /\ Committed(w, state).epoch = w.epoch
<1> DEFINE Entries == [revision : 0 .. MaxRevision, state : States]
           entry == [revision |-> w.revision, state |-> w.state]
           c == Committed(w, state)
<1>1. w \in WorldRecords /\ Len(w.history) <= w.limit
  BY DEF WellFormed
<1>2. w.history \in Seq(Entries) /\ entry \in Entries /\ w.limit \in Nat
  BY <1>1, WorldNumbers DEF WorldRecords
<1>3. /\ Remember(w) \in Seq(Entries)
      /\ Len(Remember(w)) <= w.limit
      /\ Range(Remember(w)) \subseteq Range(w.history) \cup {Named(w)}
  <2>1. CASE w.limit = 0
    BY <2>1, <1>1, <1>2 DEF Remember
  <2>2. CASE w.limit # 0 /\ Len(w.history) = w.limit
    <3>1. w.history # <<>> /\ Tail(w.history) \in Seq(Entries)
          /\ Len(Tail(w.history)) = Len(w.history) - 1
      BY <2>2, <1>2
    <3>2. Remember(w) = Append(Tail(w.history), entry)
      BY <2>2 DEF Remember
    <3>3. Range(Tail(w.history)) \subseteq Range(w.history)
      BY <3>1, <1>2, RingRange
    <3>4. Range(Append(Tail(w.history), entry)) = Range(Tail(w.history)) \cup {entry}
      <4> HIDE DEF entry, Entries
      <4> QED BY <1>2, <3>1, RingRange
    <3> QED BY <3>1, <3>2, <3>3, <3>4, <2>2, <1>2 DEF Named
  <2>3. CASE w.limit # 0 /\ Len(w.history) # w.limit
    <3>1. Remember(w) = Append(w.history, entry)
      BY <2>3 DEF Remember
    <3>2. Range(Append(w.history, entry)) = Range(w.history) \cup {entry}
      <4> HIDE DEF entry, Entries
      <4> QED BY <1>2, RingRange
    <3> QED BY <3>1, <3>2, <2>3, <1>1, <1>2 DEF Named
  <2> QED BY <2>1, <2>2, <2>3
<1>4. /\ c \in WorldRecords
      /\ c.state = state /\ c.history = Remember(w) /\ c.limit = w.limit
      /\ c.revision = w.nextRevision /\ c.nextRevision = w.nextRevision + 1
      /\ c.nextCapability = w.nextCapability /\ c.epoch = w.epoch
      /\ c.id = w.id /\ c.journal = w.journal
  <2>1. w.nextRevision + 1 \in 1 .. MaxRevision /\ w.nextRevision \in 0 .. MaxRevision
    BY <1>1, WorldNumbers DEF RevisionsLeft, WorldRecords
  <2> QED BY <2>1, <1>1, <1>3 DEF Committed, WorldRecords
<1>5. w.epoch \in Nat /\ w.nextCapability \in Nat
  BY <1>1, WorldNumbers DEF WorldRecords
<1> QED BY <1>3, <1>4, <1>5 DEF Extends, WellFormed

\* What a rollback returns to is in the ring.
LEMMA RollbackExtends ==
  ASSUME NEW w, WellFormed(w), w.history # <<>>
  PROVE  LET last == w.history[Len(w.history)]
             c == [w EXCEPT !.history = SubSeq(@, 1, Len(@) - 1),
                            !.revision = last.revision, !.state = last.state] IN
         /\ Extends(w, c)
         /\ c.nextRevision = w.nextRevision /\ c.nextCapability = w.nextCapability
         /\ c.epoch = w.epoch
<1> DEFINE Entries == [revision : 0 .. MaxRevision, state : States]
           last == w.history[Len(w.history)]
           front == SubSeq(w.history, 1, Len(w.history) - 1)
           c == [w EXCEPT !.history = SubSeq(@, 1, Len(@) - 1),
                          !.revision = last.revision, !.state = last.state]
<1>1. w \in WorldRecords /\ Len(w.history) <= w.limit /\ w.history \in Seq(Entries)
  BY DEF WellFormed, WorldRecords
<1>2. /\ front \in Seq(Entries) /\ Len(front) = Len(w.history) - 1
      /\ Range(front) \subseteq Range(w.history) /\ last \in Range(w.history)
      /\ last \in Entries
  <2> HIDE DEF Entries
  <2>1. last \in Entries
    BY <1>1, ElementOfSeq, LenProperties
  <2> QED BY <1>1, <2>1, RingRange
<1>3. /\ c.history = front /\ c.revision = last.revision /\ c.state = last.state
      /\ c.limit = w.limit /\ c.nextRevision = w.nextRevision
      /\ c.nextCapability = w.nextCapability /\ c.epoch = w.epoch
      /\ c.id = w.id /\ c.journal = w.journal /\ c \in WorldRecords
  BY <1>1, <1>2 DEF WorldRecords
<1>4. Named(c) = last
  BY <1>2, <1>3 DEF Named
<1>5. w.epoch \in Nat /\ w.nextCapability \in Nat /\ w.limit \in Nat /\ Len(w.history) \in Nat
  BY <1>1, WorldNumbers DEF WorldRecords
<1> HIDE DEF front, c, last
<1>6. Extends(w, c)
  BY <1>1, <1>2, <1>3, <1>4, <1>5 DEF Extends, WellFormed
<1> QED BY <1>3, <1>6 DEF c, last

-----------------------------------------------------------------------------
\* The typing of the worlds and the names they gave survive every step that does
\* one of the three things.
LEMMA WorldsKept ==
  ASSUME WorldsTyped, NamesGiven,
         \/ \E i \in Live : Advances(i)
         \/ \E i \in Instances : OpensOne(i)
         \/ LeavesWorlds
  PROVE  WorldsTyped' /\ NamesGiven'
<1>1. CASE LeavesWorlds
  BY <1>1 DEF LeavesWorlds, WorldsTyped, NamesGiven, RevisionsNameStates, Live
<1>2. ASSUME NEW i \in Live, Advances(i)
      PROVE  WorldsTyped' /\ NamesGiven'
  <2>1. PICK c : Extends(worlds[i], c) /\ Becomes(i, c)
    BY <1>2 DEF Advances
  <2>2. i \in Instances /\ worlds[i] \in WorldRecords /\ WellFormed(worlds[i])
    BY DEF Live, WorldsTyped
  <2>3. WellFormed(c) /\ c \in WorldRecords /\ c # NoWorld
    BY <2>1, WorldIsThere DEF Extends, WellFormed
  <2>4. /\ worlds' \in [Instances -> WorldRecords \cup {NoWorld}]
        /\ worlds'[i] = c /\ \A j \in Instances : j # i => worlds'[j] = worlds[j]
    BY <2>1, <2>2, <2>3 DEF Becomes, WorldsTyped
  <2>5. Live' = Live
    BY <2>2, <2>3, <2>4, WorldIsThere DEF Live
  <2>6. WorldsTyped'
    <3>1. \A j \in Live' : WellFormed(worlds'[j])
      BY <2>3, <2>4, <2>5 DEF WorldsTyped, Live
    <3>2. worlds'[1] # NoWorld
      BY <2>3, <2>4, WorldNumbers DEF WorldsTyped
    <3>3. nextWorldId' = nextWorldId
      BY <1>2 DEF Advances
    <3> QED BY <2>4, <2>5, <3>1, <3>2, <3>3 DEF WorldsTyped
  <2>7. /\ c.nextRevision \in Nat /\ worlds[i].nextRevision \in Nat
        /\ c.revision \in 0 .. MaxRevision /\ c.state \in States
    <3>1. c.nextRevision \in Nat /\ c.revision \in 0 .. MaxRevision /\ c.state \in States
      BY <2>3, WorldNumbers DEF WorldRecords
    <3>2. worlds[i].nextRevision \in Nat
      BY <2>2, WorldNumbers DEF WorldRecords
    <3> QED BY <3>1, <3>2
  <2>8. Named(c) \in Names /\ Named(c).revision = c.revision
    BY <2>7 DEF Named, Names
  <2>9. /\ made[i] \subseteq Names
        /\ Range(worlds[i].history) \cup {Named(worlds[i])} \subseteq made[i]
        /\ \A m, n \in made[i] : m.revision = n.revision => m = n
        /\ \A m \in made[i] : m.revision < worlds[i].nextRevision /\ m.revision \in Nat
    BY <2>2, WorldNumbers DEF NamesGiven, RevisionsNameStates, Names
  <2>10. /\ made'[i] \subseteq Names
         /\ \A m, n \in made'[i] : m.revision = n.revision => m = n
         /\ Range(c.history) \cup {Named(c)} \subseteq made'[i]
         /\ \A m \in made'[i] : m.revision < c.nextRevision
    <3>1. CASE c.nextRevision = worlds[i].nextRevision
      <4>1. made' = made
        BY <2>1, <3>1 DEF Becomes
      <4>2. Named(c) \in Range(worlds[i].history) \cup {Named(worlds[i])}
        BY <2>1, <2>7, <3>1 DEF Extends
      <4> QED BY <2>1, <2>9, <3>1, <4>1, <4>2 DEF Extends
    <3>2. CASE c.nextRevision # worlds[i].nextRevision
      <4>1. made'[i] = made[i] \cup {Named(c)}
        BY <2>1, <2>2, <3>2 DEF Becomes, NamesGiven
      <4>2. c.revision = worlds[i].nextRevision /\ c.nextRevision = worlds[i].nextRevision + 1
        BY <2>1, <3>2 DEF Extends
      <4>3. Range(c.history) \subseteq made[i]
        BY <2>1, <2>9 DEF Extends
      <4> QED BY <2>7, <2>8, <2>9, <4>1, <4>2, <4>3
    <3> QED BY <3>1, <3>2
  <2>11. /\ \A j \in Instances : j # i => made'[j] = made[j]
         /\ made' = [made EXCEPT ![i] = made'[i]]
    BY <2>1, <2>2 DEF Becomes, NamesGiven
  <2>12. made' \in [Instances -> SUBSET Names]
    BY <2>2, <2>10, <2>11 DEF NamesGiven
  <2> QED BY <2>2, <2>4, <2>5, <2>6, <2>10, <2>11, <2>12 DEF NamesGiven, RevisionsNameStates, Live
<1>3. ASSUME NEW i \in Instances, OpensOne(i)
      PROVE  WorldsTyped' /\ NamesGiven'
  <2>1. PICK w : /\ WellFormed(w) /\ w.history = <<>> /\ w.revision < w.nextRevision
                 /\ Opens(i, w)
    BY <1>3 DEF OpensOne
  <2>2. w \in WorldRecords /\ w # NoWorld
    BY <2>1, WorldIsThere DEF WellFormed
  <2>3. /\ worlds[i] = NoWorld
        /\ worlds' \in [Instances -> WorldRecords \cup {NoWorld}]
        /\ worlds'[i] = w /\ \A j \in Instances : j # i => worlds'[j] = worlds[j]
    BY <2>1, <2>2 DEF Opens, WorldsTyped
  <2>4. Live' = Live \cup {i} /\ i \notin Live
    BY <2>2, <2>3 DEF Live
  <2>5. Cardinality(Live') = Cardinality(Live) + 1 /\ Cardinality(Live) \in Nat
    <3>1. IsFiniteSet(Live)
      BY WorldNumbers, FS_Subset DEF Live
    <3> QED BY <3>1, <2>4, FS_AddElement, FS_CardinalityType
  <2>6. i # 1
    BY <2>3 DEF WorldsTyped
  <2>7. nextWorldId' \in Nat \ {0} /\ nextWorldId' <= Cardinality(Live') + 1
    BY <1>3, <2>5 DEF OpensOne, WorldsTyped
  <2>8. WorldsTyped'
    <3>1. \A j \in Live' : WellFormed(worlds'[j])
      BY <2>1, <2>3, <2>4 DEF WorldsTyped, Live
    <3>2. worlds'[1] # NoWorld
      BY <2>3, <2>6, WorldNumbers DEF WorldsTyped
    <3> QED BY <2>3, <2>7, <3>1, <3>2 DEF WorldsTyped
  <2>9. Named(w) \in Names /\ Named(w).revision = w.revision
    BY <2>2, WorldNumbers DEF Named, Names, WorldRecords
  <2>10. made' = [made EXCEPT ![i] = {Named(w)}]
    BY <2>1 DEF Opens
  <2>11. /\ made' \in [Instances -> SUBSET Names]
         /\ made'[i] = {Named(w)}
         /\ \A j \in Instances : j # i => made'[j] = made[j]
    BY <2>9, <2>10 DEF NamesGiven
  <2>12. Range(w.history) = {}
    BY <2>1 DEF Range
  <2> QED BY <2>1, <2>3, <2>4, <2>8, <2>9, <2>11, <2>12 DEF NamesGiven, RevisionsNameStates, Live
<1> QED BY <1>1, <1>2, <1>3

-----------------------------------------------------------------------------
\* The states that steps make are states, and settled as far as what they are made
\* of and the journal allow.
LEMMA RequestIsThere ==
  ASSUME NEW state \in States, NEW r \in RequestIds, state.requests[r] # NoRequest
  PROVE  /\ state.requests[r] \in Requests
         /\ state.requests[r].key \in EffectKeys
         /\ state.requests[r].status \in {"pending", "dispatching", "completed"}
<1>1. state.requests[r] \in Requests
  BY DEF States
<1> QED BY <1>1 DEF Requests

LEMMA SpawnState ==
  ASSUME NEW state \in States, NEW c \in Capabilities, state.events < EventLimit
  PROVE  LET s == [state EXCEPT !.agent = c, !.events = @ + 1] IN
         s \in States /\ s.requests = state.requests
<1>1. state.events + 1 \in 0 .. EventLimit
  BY WorldNumbers DEF States
<1>2. ASSUME NEW n \in 0 .. EventLimit
      PROVE  LET s == [state EXCEPT !.agent = c, !.events = n] IN
             s \in States /\ s.requests = state.requests
  BY DEF States
<1> QED BY <1>1, <1>2

LEMMA RequestState ==
  ASSUME NEW state \in States, NEW id \in Instances, NEW prompt \in Prompts,
         state.nextRequest \in RequestIds, state.events < EventLimit
  PROVE  LET r == state.nextRequest
             s == [state EXCEPT
                     !.requests[r] = [status |-> "pending", key |-> EffectKey(id, r, prompt)],
                     !.nextRequest = @ + 1, !.events = @ + 1] IN
         /\ s \in States
         /\ \A q \in RequestIds : \/ s.requests[q] = state.requests[q]
                                  \/ s.requests[q].status = "pending"
<1> DEFINE r == state.nextRequest
           new == [status |-> "pending", key |-> EffectKey(id, r, prompt)]
           s == [state EXCEPT !.requests[r] = new, !.nextRequest = @ + 1, !.events = @ + 1]
<1>1. new \in Requests
  <2>1. EffectKey(id, r, prompt) \in EffectKeys
    BY WorldNumbers DEF EffectKey, EffectKeys
  <2> QED BY <2>1 DEF Requests
<1>2. new.status = "pending"
  OBVIOUS
<1> HIDE DEF new
<1>3. [state.requests EXCEPT ![r] = new] \in [RequestIds -> Requests \cup {NoRequest}]
  BY <1>1 DEF States
<1>4. s.requests = [state.requests EXCEPT ![r] = new] /\ s \in States
  <2>1. state.events + 1 \in 0 .. EventLimit /\ r + 1 \in 1 .. Cardinality(RequestIds) + 1
    BY WorldNumbers DEF States
  <2>2. s = [state EXCEPT !.requests = [state.requests EXCEPT ![r] = new],
                          !.nextRequest = r + 1, !.events = state.events + 1]
    BY DEF States
  <2> QED BY <1>3, <2>1, <2>2 DEF States
<1>5. \A q \in RequestIds : s.requests[q] = IF q = r THEN new ELSE state.requests[q]
  BY <1>4 DEF States
<1> QED BY <1>2, <1>4, <1>5 DEF new

LEMMA AnsweredState ==
  ASSUME NEW state \in States, NEW r \in RequestIds, state.events < EventLimit,
         state.requests[r] # NoRequest
  PROVE  /\ Claimed(state, r) \in States
         /\ Completed(state, r) \in States
         /\ \A q \in RequestIds :
              /\ Claimed(state, r).requests[q].key = state.requests[q].key
              /\ Completed(state, r).requests[q].key = state.requests[q].key
              /\ q # r => /\ Claimed(state, r).requests[q] = state.requests[q]
                          /\ Completed(state, r).requests[q] = state.requests[q]
<1>1. state.requests[r] \in Requests
  BY RequestIsThere
<1>2. ASSUME NEW status \in {"dispatching", "completed"},
             NEW n \in 0 .. EventLimit
      PROVE  LET s == [state EXCEPT !.requests[r].status = status, !.events = n] IN
             /\ s \in States
             /\ \A q \in RequestIds : /\ s.requests[q].key = state.requests[q].key
                                      /\ q # r => s.requests[q] = state.requests[q]
  <2> DEFINE s == [state EXCEPT !.requests[r].status = status, !.events = n]
             new == [state.requests[r] EXCEPT !.status = status]
  <2>1. new \in Requests /\ new.key = state.requests[r].key
    BY <1>1 DEF Requests
  <2>2. s.requests = [state.requests EXCEPT ![r] = new]
    BY DEF States
  <2> HIDE DEF new
  <2>3. [state.requests EXCEPT ![r] = new] \in [RequestIds -> Requests \cup {NoRequest}]
    BY <2>1 DEF States
  <2>4. s \in States
    BY <2>2, <2>3 DEF States
  <2>5. \A q \in RequestIds : s.requests[q] = IF q = r THEN new ELSE state.requests[q]
    BY <2>2 DEF States
  <2> HIDE DEF s
  <2>6. /\ s \in States
        /\ \A q \in RequestIds : /\ s.requests[q].key = state.requests[q].key
                                 /\ q # r => s.requests[q] = state.requests[q]
    BY <2>1, <2>4, <2>5
  <2> QED BY <2>6 DEF s
<1>3. state.events \in 0 .. EventLimit
  BY DEF States
<1>4. state.events + 1 \in 0 .. EventLimit
      /\ (IF state.events + 1 < EventLimit THEN state.events + 2 ELSE state.events + 1)
           \in 0 .. EventLimit
  BY <1>3, WorldNumbers
<1> QED BY <1>2, <1>4 DEF Claimed, Completed

\* What entering a key in a journal does to the journals.
LEMMA Entered ==
  ASSUME journals \in [Instances -> Journals], NEW w, w.journal \in Instances,
         NEW key \in EffectKeys, NEW mark \in Marks, Enter(w, key, mark)
  PROVE  /\ journals' \in [Instances -> Journals]
         /\ \A j \in Instances : j # w.journal => journals'[j] = journals[j]
         /\ DOMAIN journals'[w.journal] = DOMAIN journals[w.journal] \cup {key}
         /\ \A k \in DOMAIN journals'[w.journal] :
              journals'[w.journal][k] = IF k = key THEN mark ELSE journals[w.journal][k]
<1> DEFINE old == journals[w.journal]
           new == [k \in DOMAIN old \cup {key} |-> IF k = key THEN mark ELSE old[k]]
<1>1. journals' = [journals EXCEPT ![w.journal] = new]
  BY DEF Enter
<1>2. PICK D \in SUBSET EffectKeys : old \in [D -> Marks]
  <2>1. old \in Journals
    OBVIOUS
  <2> QED BY <2>1, Zenon DEF Journals
<1>3. new \in [D \cup {key} -> Marks] /\ D \cup {key} \in SUBSET EffectKeys
  BY <1>2
<1>4. new \in Journals
  BY <1>3 DEF Journals
<1> QED BY <1>1, <1>4
-----------------------------------------------------------------------------
\* What a World value is, by its fields.
LEMMA LiveWorld ==
  ASSUME WorldInv, NEW i \in Live
  PROVE  /\ i \in Instances /\ worlds[i] \in WorldRecords /\ WellFormed(worlds[i])
         /\ worlds[i].state \in States /\ worlds[i].id \in Instances
         /\ worlds[i].journal \in Instances
         /\ worlds[i].nextRevision \in Nat /\ worlds[i].nextCapability \in Nat
         /\ worlds[i].epoch \in Nat \ {0}
         /\ worlds[i].nextRevision \in 1 .. MaxRevision
<1>1. /\ i \in Instances /\ worlds[i] \in WorldRecords /\ WellFormed(worlds[i])
  BY DEF WorldInv, WorldsTyped, Live
<1>2. ASSUME NEW w \in WorldRecords
      PROVE  /\ w.state \in States /\ w.id \in Instances /\ w.journal \in Instances
             /\ w.nextRevision \in Nat /\ w.nextCapability \in Nat
             /\ w.epoch \in Nat \ {0} /\ w.nextRevision \in 1 .. MaxRevision
  BY WorldNumbers DEF WorldRecords
<1> QED BY <1>1, <1>2

\* What is settled stays so while the journal grows.
LEMMA SettledGrows ==
  ASSUME NEW state, NEW journal, NEW longer, Settled(state, journal),
         DOMAIN journal \subseteq DOMAIN longer
  PROVE  Settled(state, longer)
BY DEF Settled

\* The rest of the invariant survives a world's advance when the journals grow and
\* what the advance puts in doubt is in them.
LEMMA AdvanceKeeps ==
  ASSUME WorldInv, NEW i \in Live, NEW c, Extends(worlds[i], c), Becomes(i, c),
         nextWorldId' = nextWorldId, snap' = snap, LaunchesKept',
         mixed' \in {mixed, mixed \cup {i}},
         \A j \in Instances : DOMAIN journals[j] \subseteq DOMAIN journals'[j],
         i \notin mixed' /\ c.nextRevision # worlds[i].nextRevision
           => Settled(c.state, journals'[worlds[i].journal])
  PROVE  /\ issued' = issued => WorldInv'
         /\ WorldsTyped' /\ NamesGiven' /\ DoubtKept' /\ SnapshotKept'
<1>1. WorldsTyped' /\ NamesGiven'
  BY WorldsKept DEF WorldInv, Advances
<1>2. i \in Instances /\ c # NoWorld
  BY WorldIsThere DEF Live, Extends, WellFormed
<1>3. /\ worlds'[i] = c /\ \A j \in Instances : j # i => worlds'[j] = worlds[j]
      /\ Live' = Live
  <2>1. worlds'[i] = c /\ \A j \in Instances : j # i => worlds'[j] = worlds[j]
    BY <1>2 DEF Becomes, WorldInv, WorldsTyped
  <2> QED BY <1>2, <2>1 DEF Live
<1>4. c.journal = worlds[i].journal
  BY DEF Extends
<1>5. DoubtKept'
  <2>1. mixed' \subseteq Instances \cup {0}
    BY <1>2 DEF WorldInv, DoubtKept
  <2>2. ASSUME NEW j \in Live, j \notin mixed', NEW m \in made'[j]
        PROVE  Settled(m.state, journals'[worlds'[j].journal])
    <3>1. /\ worlds'[j].journal = worlds[j].journal /\ worlds[j].journal \in Instances
          /\ j \in Instances
      BY <1>3, <1>4, LiveWorld
    <3>2. CASE m \in made[j]
      <4>1. Settled(m.state, journals[worlds[j].journal])
        BY <2>2, <3>2 DEF WorldInv, DoubtKept
      <4> QED BY <3>1, <4>1, SettledGrows
    <3>3. CASE m \notin made[j]
      <4>1. j = i /\ c.nextRevision # worlds[i].nextRevision /\ m = Named(c)
        BY <1>2, <2>2, <3>1, <3>3 DEF Becomes, WorldInv, NamesGiven
      <4> QED BY <2>2, <3>1, <4>1 DEF Named
    <3> QED BY <3>2, <3>3
  <2> QED BY <1>3, <2>1, <2>2 DEF DoubtKept
<1>6. SnapshotKept'
  <2> SUFFICES ASSUME snap # NoSnapshot
               PROVE  /\ snap \in Snapshots /\ snap.revision < snap.nextRevision
                      /\ 0 \notin mixed' => Settled(snap.state, journals'[snap.journal])
    BY DEF SnapshotKept
  <2>1. /\ snap \in Snapshots /\ snap.revision < snap.nextRevision
        /\ 0 \notin mixed => Settled(snap.state, journals[snap.journal])
    BY DEF WorldInv, SnapshotKept
  <2>2. snap.journal \in Instances
    BY <2>1 DEF Snapshots
  <2> QED BY <2>1, <2>2, SettledGrows
<1>7. ASSUME issued' = issued PROVE AuthorityGiven'
  <2>1. ASSUME NEW j \in Live, NEW d \in issued[j]
        PROVE  /\ d.world = worlds'[j].id /\ d.epoch <= worlds'[j].epoch
               /\ d.id < worlds'[j].nextCapability
    <3>1. /\ j \in Instances /\ worlds[j].epoch \in Nat /\ worlds[j].nextCapability \in Nat
          /\ d.epoch \in Nat /\ d.id \in Nat
      BY LiveWorld, WorldNumbers DEF WorldInv, AuthorityGiven, Capabilities
    <3>2. /\ d.world = worlds[j].id /\ d.epoch <= worlds[j].epoch
          /\ d.id < worlds[j].nextCapability
      BY DEF WorldInv, AuthorityGiven
    <3>3. CASE j # i
      BY <1>3, <3>1, <3>2, <3>3
    <3>4. CASE j = i
      <4>1. c.epoch \in Nat /\ c.nextCapability \in Nat
        BY WorldNumbers DEF Extends, WellFormed, WorldRecords
      <4>2. /\ c.id = worlds[i].id /\ c.epoch >= worlds[i].epoch
            /\ c.nextCapability >= worlds[i].nextCapability
        BY DEF Extends
      <4> QED BY <1>3, <3>1, <3>2, <3>4, <4>1, <4>2
    <3> QED BY <3>3, <3>4
  <2> QED BY <1>3, <1>7, <2>1 DEF WorldInv, AuthorityGiven, CapabilityIdsUnique
<1> QED BY <1>1, <1>5, <1>6, <1>7 DEF WorldInv

\* And an opening, when what is opened with journal 1 is settled.
LEMMA OpeningKeeps ==
  ASSUME WorldInv, NEW i \in Instances, NEW w, WellFormed(w), w.history = <<>>,
         w.revision < w.nextRevision, Opens(i, w),
         nextWorldId' \in {nextWorldId, nextWorldId + 1},
         UNCHANGED <<journals, snap, launches, issued>>,
         mixed' \in {mixed, mixed \cup {i}},
         i \notin mixed' => Settled(w.state, journals[w.journal])
  PROVE  WorldInv'
<1>1. WorldsTyped' /\ NamesGiven'
  BY WorldsKept DEF WorldInv, OpensOne
<1>2. w # NoWorld /\ worlds[i] = NoWorld /\ i # 1
  BY WorldIsThere DEF WellFormed, Opens, WorldInv, WorldsTyped
<1>3. /\ worlds'[i] = w /\ \A j \in Instances : j # i => worlds'[j] = worlds[j]
      /\ made'[i] = {Named(w)} /\ \A j \in Instances : j # i => made'[j] = made[j]
      /\ Live' = Live \cup {i}
  <2>1. /\ worlds'[i] = w /\ \A j \in Instances : j # i => worlds'[j] = worlds[j]
        /\ made'[i] = {Named(w)} /\ \A j \in Instances : j # i => made'[j] = made[j]
    BY DEF Opens, WorldInv, WorldsTyped, NamesGiven
  <2> QED BY <1>2, <2>1 DEF Live
<1>4. worlds'[1] = worlds[1]
  BY <1>2, <1>3, WorldNumbers
<1>5. DoubtKept'
  <2>1. \A m \in made'[i] : m.state = w.state
    BY <1>3 DEF Named
  <2>2. ASSUME NEW j \in Live' \ mixed', NEW m \in made'[j]
        PROVE  Settled(m.state, journals[worlds'[j].journal])
    <3>1. CASE j = i
      BY <1>3, <2>1, <3>1
    <3>2. CASE j # i
      <4>1. j \in Live \ mixed /\ j \in Instances
        BY <1>3, <3>2 DEF Live
      <4> QED BY <1>3, <3>2, <4>1 DEF WorldInv, DoubtKept
    <3> QED BY <3>1, <3>2
  <2>3. mixed' \subseteq Instances \cup {0} /\ journals' = journals
    BY DEF WorldInv, DoubtKept
  <2> QED BY <2>2, <2>3 DEF DoubtKept
<1>6. AuthorityGiven' /\ LaunchesKept' /\ SnapshotKept'
  <2>1. AuthorityGiven'
    <3>1. issued' = issued /\ issued[i] = {} /\ Live \subseteq Instances
      BY <1>2 DEF WorldInv, AuthorityGiven, Live
    <3> QED BY <1>2, <1>3, <3>1 DEF WorldInv, AuthorityGiven, CapabilityIdsUnique, Live
  <2>2. LaunchesKept'
    BY DEF WorldInv, LaunchesKept, LaunchedOnce
  <2>3. SnapshotKept'
    <3>1. 0 \notin mixed' => 0 \notin mixed
      OBVIOUS
    <3> QED BY <3>1 DEF WorldInv, SnapshotKept
  <2> QED BY <2>1, <2>2, <2>3
<1> QED BY <1>1, <1>5, <1>6 DEF WorldInv
-----------------------------------------------------------------------------
\* The invariant holds at first, and every action keeps it.
\* The state a world is in is one of its names.
LEMMA StateIsSettled ==
  ASSUME WorldInv, NEW i \in Live, i \notin mixed
  PROVE  Settled(worlds[i].state, journals[worlds[i].journal])
<1>1. Named(worlds[i]) \in made[i] /\ Named(worlds[i]).state = worlds[i].state
  BY DEF WorldInv, NamesGiven, RevisionsNameStates, Named
<1> QED BY <1>1 DEF WorldInv, DoubtKept

LEMMA SpawnKeeps ==
  ASSUME WorldInv, NEW i \in Live, NEW c \in issued[i], EvaluateSpawn(i, c)
  PROVE  WorldInv'
<1> DEFINE w == worlds[i]
           s == [w.state EXCEPT !.agent = c, !.events = @ + 1]
<1>1. i \in Instances /\ w.state \in States /\ WellFormed(w) /\ c \in Capabilities
  BY LiveWorld DEF WorldInv, AuthorityGiven
<1>2. s \in States /\ s.requests = w.state.requests
  BY <1>1, SpawnState DEF EvaluateSpawn
<1>3. i \notin mixed => Settled(s, journals[w.journal])
  BY <1>2, StateIsSettled DEF Settled
<1>4. RevisionsLeft(w) /\ Becomes(i, Committed(w, s))
      /\ UNCHANGED <<journals, snap, nextWorldId, launches, issued, mixed>>
  BY DEF EvaluateSpawn
<1> HIDE DEF s
<1>5. Extends(w, Committed(w, s)) /\ Committed(w, s).state = s
  BY <1>1, <1>2, <1>4, CommitExtends
<1>6. LaunchesKept'
  BY <1>4 DEF WorldInv, LaunchesKept, LaunchedOnce
<1> QED BY <1>3, <1>4, <1>5, <1>6, AdvanceKeeps

LEMMA RequestKeeps ==
  ASSUME WorldInv, NEW i \in Live, NEW prompt \in Prompts, EvaluateRequest(i, prompt)
  PROVE  WorldInv'
<1> DEFINE w == worlds[i]
           r == w.state.nextRequest
           s == [w.state EXCEPT
                   !.requests[r] = [status |-> "pending", key |-> EffectKey(w.id, r, prompt)],
                   !.nextRequest = @ + 1, !.events = @ + 1]
<1>1. w.state \in States /\ WellFormed(w) /\ w.id \in Instances
  BY LiveWorld
<1>2. /\ s \in States
      /\ \A q \in RequestIds : \/ s.requests[q] = w.state.requests[q]
                               \/ s.requests[q].status = "pending"
  BY <1>1, RequestState DEF EvaluateRequest
<1>3. RevisionsLeft(w) /\ Becomes(i, Committed(w, s))
      /\ UNCHANGED <<journals, snap, nextWorldId, launches, issued, mixed>>
  BY DEF EvaluateRequest
<1> HIDE DEF s
<1>4. i \notin mixed => Settled(s, journals[w.journal])
  BY <1>2, StateIsSettled DEF Settled
<1>5. Extends(w, Committed(w, s)) /\ Committed(w, s).state = s
  BY <1>1, <1>2, <1>3, CommitExtends
<1>6. LaunchesKept'
  BY <1>3 DEF WorldInv, LaunchesKept, LaunchedOnce
<1> QED BY <1>3, <1>4, <1>5, <1>6, AdvanceKeeps

LEMMA IssueKeeps ==
  ASSUME WorldInv, NEW i \in Live, IssueCapability(i)
  PROVE  WorldInv'
<1> DEFINE w == worlds[i]
           new == [w EXCEPT !.nextCapability = @ + 1]
           c == [id |-> w.nextCapability, world |-> w.id, epoch |-> w.epoch]
<1>1. /\ i \in Instances /\ w \in WorldRecords /\ WellFormed(w)
      /\ w.nextCapability \in Nat \ {0} /\ w.epoch \in Nat \ {0} /\ w.id \in Instances
  <2>1. i \in Instances /\ w \in WorldRecords /\ WellFormed(w)
    BY LiveWorld
  <2> QED BY <2>1, WorldNumbers DEF WorldRecords
<1>2. /\ new \in WorldRecords /\ new.history = w.history /\ new.limit = w.limit
      /\ new.id = w.id /\ new.journal = w.journal /\ new.epoch = w.epoch
      /\ new.nextRevision = w.nextRevision /\ new.revision = w.revision
      /\ new.state = w.state /\ new.nextCapability = w.nextCapability + 1
  <2>1. w.nextCapability + 1 \in 1 .. MaxCapability + 1
    BY <1>1, WorldNumbers DEF IssueCapability
  <2> QED BY <1>1, <2>1 DEF WorldRecords
<1>3. Extends(w, new)
  BY <1>1, <1>2 DEF Extends, WellFormed, Named
<1>4. Becomes(i, new) /\ UNCHANGED <<journals, snap, nextWorldId, launches, mixed>>
  BY <1>2 DEF IssueCapability, Becomes
<1> HIDE DEF new
<1>5. LaunchesKept'
  BY <1>4 DEF WorldInv, LaunchesKept, LaunchedOnce
<1>6. WorldsTyped' /\ NamesGiven' /\ DoubtKept' /\ SnapshotKept'
  BY <1>2, <1>3, <1>4, <1>5, AdvanceKeeps
<1>7. AuthorityGiven'
  <2>1. issued' = [issued EXCEPT ![i] = @ \cup {c}]
    BY DEF IssueCapability
  <2>2. c \in Capabilities /\ c.id = w.nextCapability /\ c.world = w.id /\ c.epoch = w.epoch
    BY <1>1, WorldNumbers DEF IssueCapability, Capabilities
  <2>3. worlds'[i] = new /\ \A j \in Instances : j # i => worlds'[j] = worlds[j]
    BY <1>1, <1>4 DEF Becomes, WorldInv, WorldsTyped
  <2>4. Live' = Live
    BY <1>2, <2>3, WorldIsThere DEF Live
  <2> HIDE DEF c
  <2>5. /\ issued' \in [Instances -> SUBSET Capabilities]
        /\ issued'[i] = issued[i] \cup {c}
        /\ \A j \in Instances : j # i => issued'[j] = issued[j]
    BY <1>1, <2>1, <2>2 DEF WorldInv, AuthorityGiven
  <2>6. /\ \A d \in issued[i] : d.id < w.nextCapability /\ d.world = w.id /\ d.epoch <= w.epoch
        /\ \A d, e \in issued[i] : d.id = e.id => d = e
        /\ \A d \in issued[i] : d.id \in Nat /\ d.epoch \in Nat
    BY <1>1, WorldNumbers DEF WorldInv, AuthorityGiven, CapabilityIdsUnique, Capabilities
  <2>7. \A d \in issued'[i] : /\ d.world = new.id /\ d.epoch <= new.epoch
                              /\ d.id < new.nextCapability
    BY <1>1, <1>2, <2>2, <2>5, <2>6
  <2>8. \A d, e \in issued'[i] : d.id = e.id => d = e
    BY <1>1, <2>2, <2>5, <2>6
  <2>9. \A j \in Live : \A d \in issued'[j] :
          /\ d.world = worlds'[j].id /\ d.epoch <= worlds'[j].epoch
          /\ d.id < worlds'[j].nextCapability
    <3>1. ASSUME NEW j \in Live, j # i, NEW d \in issued'[j]
          PROVE  /\ d.world = worlds'[j].id /\ d.epoch <= worlds'[j].epoch
                 /\ d.id < worlds'[j].nextCapability
      BY <2>3, <2>5, <3>1, LiveWorld DEF WorldInv, AuthorityGiven
    <3> QED BY <2>3, <2>7, <3>1
  <2>10. \A j \in Instances : \A d, e \in issued'[j] : d.id = e.id => d = e
    BY <2>5, <2>8 DEF WorldInv, AuthorityGiven, CapabilityIdsUnique
  <2>11. \A j \in Instances : j \notin Live => issued'[j] = {}
    BY <2>5 DEF WorldInv, AuthorityGiven
  <2> QED BY <2>4, <2>5, <2>9, <2>10, <2>11 DEF AuthorityGiven, CapabilityIdsUnique
<1> QED BY <1>5, <1>6, <1>7 DEF WorldInv

\* What does not touch the World values keeps the rest too.
LEMMA QuietKeeps ==
  ASSUME WorldInv, UNCHANGED <<worlds, made, snap, nextWorldId, issued, mixed>>, LaunchesKept',
         \A j \in Instances : DOMAIN journals[j] \subseteq DOMAIN journals'[j]
  PROVE  WorldInv'
<1>1. WorldsTyped' /\ NamesGiven'
  BY WorldsKept DEF LeavesWorlds, WorldInv
<1>2. DoubtKept'
  <2>1. ASSUME NEW j \in Live \ mixed, NEW m \in made[j]
        PROVE  Settled(m.state, journals'[worlds[j].journal])
    <3>1. /\ worlds[j].journal \in Instances
          /\ Settled(m.state, journals[worlds[j].journal])
      BY LiveWorld DEF WorldInv, DoubtKept
    <3> QED BY <3>1, SettledGrows
  <2> QED BY <2>1 DEF WorldInv, DoubtKept, Live
<1>3. SnapshotKept'
  <2> SUFFICES ASSUME snap # NoSnapshot
               PROVE  /\ snap \in Snapshots /\ snap.revision < snap.nextRevision
                      /\ 0 \notin mixed => Settled(snap.state, journals'[snap.journal])
    BY DEF SnapshotKept
  <2>1. /\ snap \in Snapshots /\ snap.revision < snap.nextRevision
        /\ 0 \notin mixed => Settled(snap.state, journals[snap.journal])
    BY DEF WorldInv, SnapshotKept
  <2>2. snap.journal \in Instances
    BY <2>1 DEF Snapshots
  <2> QED BY <2>1, <2>2, SettledGrows
<1>4. AuthorityGiven'
  BY DEF WorldInv, AuthorityGiven, CapabilityIdsUnique, Live
<1> QED BY <1>1, <1>2, <1>3, <1>4 DEF WorldInv

\* A claim: a key that was not in the journal was not launched under it.
LEMMA ClaimKeeps ==
  ASSUME WorldInv, NEW i \in Live, NEW r \in RequestIds, ClaimModelRequest(i, r)
  PROVE  WorldInv'
<1> DEFINE w == worlds[i]
           request == w.state.requests[r]
           key == request.key
           p == <<w.journal, key>>
<1>1. /\ w.state \in States /\ WellFormed(w) /\ w.journal \in Instances /\ i \in Instances
  BY LiveWorld
<1>2. request # NoRequest /\ request.status = "pending"
  BY DEF ClaimModelRequest, NoRequest
<1>3. key \in EffectKeys
  BY <1>1, <1>2, RequestIsThere
<1>4. ~Journaled(w, key) /\ Enter(w, key, "claimed") /\ "claimed" \in Marks
      /\ UNCHANGED <<snap, nextWorldId, issued, mixed>>
  BY DEF ClaimModelRequest, Marks
<1>5. /\ journals' \in [Instances -> Journals]
      /\ \A j \in Instances : j # w.journal => journals'[j] = journals[j]
      /\ DOMAIN journals'[w.journal] = DOMAIN journals[w.journal] \cup {key}
  BY <1>1, <1>3, <1>4, Entered DEF WorldInv, LaunchesKept
<1>6. \A j \in Instances : DOMAIN journals[j] \subseteq DOMAIN journals'[j]
  BY <1>5
<1>7. p \in Instances \X EffectKeys /\ p[1] = w.journal /\ p[2] = key
  BY <1>1, <1>3
<1>8. launches[p] = 0
  BY <1>4, <1>7 DEF WorldInv, LaunchesKept, Journaled
<1> HIDE DEF p
<1>9. CASE RevisionsLeft(w) /\ w.state.events < EventLimit
  <2>1. /\ Becomes(i, Committed(w, Claimed(w.state, r)))
        /\ launches' = [launches EXCEPT ![p] = @ + 1]
    BY <1>9 DEF ClaimModelRequest, p
  <2>2. /\ Claimed(w.state, r) \in States
        /\ \A q \in RequestIds :
             /\ Claimed(w.state, r).requests[q].key = w.state.requests[q].key
             /\ q # r => Claimed(w.state, r).requests[q] = w.state.requests[q]
    BY <1>1, <1>2, <1>9, AnsweredState
  <2>3. i \notin mixed => Settled(Claimed(w.state, r), journals'[w.journal])
    <3> SUFFICES ASSUME i \notin mixed, NEW q \in RequestIds,
                        Claimed(w.state, r).requests[q].status \in {"dispatching", "completed"}
                 PROVE  Claimed(w.state, r).requests[q].key \in DOMAIN journals'[w.journal]
      BY DEF Settled
    <3>1. CASE q = r
      BY <3>1, <1>5, <2>2
    <3>2. CASE q # r
      <4>1. w.state.requests[q].key \in DOMAIN journals[w.journal]
        BY <2>2, <3>2, StateIsSettled DEF Settled
      <4> QED BY <1>5, <2>2, <4>1
    <3> QED BY <3>1, <3>2
  <2>4. Extends(w, Committed(w, Claimed(w.state, r)))
        /\ Committed(w, Claimed(w.state, r)).state = Claimed(w.state, r)
    BY <1>1, <1>9, <2>2, CommitExtends
  <2>5. /\ launches' \in [Instances \X EffectKeys -> Nat]
        /\ launches'[p] = 1
        /\ \A q \in Instances \X EffectKeys : q # p => launches'[q] = launches[q]
    BY <1>7, <1>8, <2>1 DEF WorldInv, LaunchesKept
  <2>6. LaunchesKept'
    <3>1. \A q \in Instances \X EffectKeys : q[1] \in Instances
      OBVIOUS
    <3>2. ASSUME NEW q \in Instances \X EffectKeys, launches'[q] > 0
          PROVE  q[2] \in DOMAIN journals'[q[1]]
      <4>1. CASE q = p
        BY <4>1, <1>5, <1>7
      <4>2. CASE q # p
        BY <4>2, <3>1, <3>2, <2>5, <1>6 DEF WorldInv, LaunchesKept
      <4> QED BY <4>1, <4>2
    <3>3. \A q \in Instances \X EffectKeys : launches'[q] <= 1
      BY <2>5 DEF WorldInv, LaunchesKept, LaunchedOnce
    <3> QED BY <1>5, <2>5, <3>2, <3>3 DEF LaunchesKept, LaunchedOnce
  <2> QED BY <1>4, <1>6, <2>1, <2>3, <2>4, <2>6, WorldNumbers, AdvanceKeeps
<1>10. CASE ~(RevisionsLeft(w) /\ w.state.events < EventLimit)
  <2>1. UNCHANGED <<worlds, made, launches>>
    BY <1>10 DEF ClaimModelRequest
  <2>2. LaunchesKept'
    <3>1. \A q \in Instances \X EffectKeys : q[1] \in Instances
      OBVIOUS
    <3> QED BY <1>5, <1>6, <2>1, <3>1 DEF WorldInv, LaunchesKept, LaunchedOnce
  <2> QED BY <1>4, <1>6, <2>1, <2>2, WorldNumbers, QuietKeeps
<1> QED BY <1>9, <1>10

LEMMA CompleteKeeps ==
  ASSUME WorldInv, NEW i \in Live, NEW r \in RequestIds, NEW key \in EffectKeys,
         CompleteModelRequest(i, r, key)
  PROVE  WorldInv'
<1> DEFINE w == worlds[i]
<1>1. /\ w.state \in States /\ WellFormed(w) /\ w.journal \in Instances /\ i \in Instances
  BY LiveWorld
<1>2. /\ w.state.requests[r] # NoRequest /\ w.state.requests[r].key = key
      /\ Enter(w, key, "completed") /\ "completed" \in Marks
      /\ UNCHANGED <<snap, nextWorldId, launches, issued, mixed>>
  BY DEF CompleteModelRequest, Marks
<1>3. /\ journals' \in [Instances -> Journals]
      /\ \A j \in Instances : j # w.journal => journals'[j] = journals[j]
      /\ DOMAIN journals'[w.journal] = DOMAIN journals[w.journal] \cup {key}
  BY <1>1, <1>2, Entered DEF WorldInv, LaunchesKept
<1>4. \A j \in Instances : DOMAIN journals[j] \subseteq DOMAIN journals'[j]
  BY <1>3
<1>5. LaunchesKept'
  <2>1. \A q \in Instances \X EffectKeys : q[1] \in Instances
    OBVIOUS
  <2> QED BY <1>2, <1>3, <1>4, <2>1 DEF WorldInv, LaunchesKept, LaunchedOnce
<1>6. CASE RevisionsLeft(w) /\ w.state.events < EventLimit
  <2>1. Becomes(i, Committed(w, Completed(w.state, r)))
    BY <1>6 DEF CompleteModelRequest
  <2>2. /\ Completed(w.state, r) \in States
        /\ \A q \in RequestIds :
             /\ Completed(w.state, r).requests[q].key = w.state.requests[q].key
             /\ q # r => Completed(w.state, r).requests[q] = w.state.requests[q]
    BY <1>1, <1>2, <1>6, AnsweredState
  <2>3. i \notin mixed => Settled(Completed(w.state, r), journals'[w.journal])
    <3> SUFFICES ASSUME i \notin mixed, NEW q \in RequestIds,
                        Completed(w.state, r).requests[q].status \in {"dispatching", "completed"}
                 PROVE  Completed(w.state, r).requests[q].key \in DOMAIN journals'[w.journal]
      BY DEF Settled
    <3>1. CASE q = r
      BY <3>1, <1>2, <1>3, <2>2
    <3>2. CASE q # r
      <4>1. w.state.requests[q].key \in DOMAIN journals[w.journal]
        BY <2>2, <3>2, StateIsSettled DEF Settled
      <4> QED BY <1>3, <2>2, <4>1
    <3> QED BY <3>1, <3>2
  <2>4. Extends(w, Committed(w, Completed(w.state, r)))
        /\ Committed(w, Completed(w.state, r)).state = Completed(w.state, r)
    BY <1>1, <1>6, <2>2, CommitExtends
  <2> QED BY <1>2, <1>4, <1>5, <2>1, <2>3, <2>4, WorldNumbers, AdvanceKeeps
<1>7. CASE ~(RevisionsLeft(w) /\ w.state.events < EventLimit)
  <2>1. UNCHANGED <<worlds, made>>
    BY <1>7 DEF CompleteModelRequest
  <2> QED BY <1>2, <1>4, <1>5, <2>1, WorldNumbers, QuietKeeps
<1> QED BY <1>6, <1>7

LEMMA RollbackKeeps ==
  ASSUME WorldInv, NEW i \in Live, Rollback(i)
  PROVE  WorldInv'
<1> DEFINE w == worlds[i]
           last == w.history[Len(w.history)]
           c == [w EXCEPT !.history = SubSeq(@, 1, Len(@) - 1),
                          !.revision = last.revision, !.state = last.state]
<1>1. WellFormed(w) /\ w.history # <<>>
  BY LiveWorld DEF Rollback
<1>2. Extends(w, c) /\ c.nextRevision = w.nextRevision
  BY <1>1, RollbackExtends
<1>3. Becomes(i, c) /\ UNCHANGED <<journals, snap, nextWorldId, launches, issued, mixed>>
  BY DEF Rollback
<1> HIDE DEF c
<1>4. LaunchesKept'
  BY <1>3 DEF WorldInv, LaunchesKept, LaunchedOnce
<1> QED BY <1>2, <1>3, <1>4, AdvanceKeeps

\* What a snapshot is, by its fields.
LEMMA SnapshotIsThere ==
  ASSUME WorldInv, snap # NoSnapshot
  PROVE  /\ snap.state \in States /\ snap.revision \in 0 .. MaxRevision
         /\ snap.nextRevision \in 1 .. MaxRevision
         /\ snap.nextCapability \in 1 .. MaxCapability + 1 /\ snap.id \in Instances
         /\ snap.epoch \in Nat \ {0} /\ snap.journal \in Instances
         /\ snap.revision < snap.nextRevision
         /\ 0 \notin mixed => Settled(snap.state, journals[snap.journal])
BY DEF WorldInv, SnapshotKept, Snapshots

LEMMA TakeSnapshotKeeps ==
  ASSUME WorldInv, NEW i \in Live, TakeSnapshot(i)
  PROVE  WorldInv'
<1> DEFINE w == worlds[i]
<1>1. w \in WorldRecords /\ i \in Instances
  BY LiveWorld
<1>2. Named(w) \in made[i] /\ w.revision < w.nextRevision
  BY DEF WorldInv, NamesGiven, RevisionsNameStates, Named
<1>3. UNCHANGED <<worlds, journals, nextWorldId, launches, made, issued>>
      /\ snap' = [state |-> w.state, revision |-> w.revision,
                  nextRevision |-> w.nextRevision, nextCapability |-> w.nextCapability,
                  id |-> w.id, epoch |-> w.epoch, journal |-> w.journal]
      /\ mixed' = IF i \in mixed THEN mixed \cup {0} ELSE mixed \ {0}
  BY DEF TakeSnapshot
<1>4. snap' \in Snapshots
  BY <1>1, <1>3 DEF WorldRecords, Snapshots
<1>5. 0 \notin mixed' => Settled(w.state, journals[w.journal])
  BY <1>3, StateIsSettled
<1>6. SnapshotKept'
  BY <1>2, <1>3, <1>4, <1>5 DEF SnapshotKept
<1>7. WorldsTyped' /\ NamesGiven'
  BY <1>3, WorldsKept DEF LeavesWorlds, WorldInv
<1>8. DoubtKept'
  <2>1. mixed' \subseteq Instances \cup {0} /\ \A j \in Instances : j \in mixed' <=> j \in mixed
    <3>1. \A j \in Instances : j # 0
      BY WorldNumbers
    <3> QED BY <1>3, <3>1 DEF WorldInv, DoubtKept
  <2>2. Live' = Live /\ Live \subseteq Instances
    BY <1>3 DEF Live
  <2> QED BY <1>3, <2>1, <2>2 DEF WorldInv, DoubtKept
<1> QED BY <1>3, <1>6, <1>7, <1>8 DEF WorldInv, AuthorityGiven, CapabilityIdsUnique,
           LaunchesKept, LaunchedOnce, Live

LEMMA RestoreKeeps ==
  ASSUME WorldInv, NEW i \in Live, RestoreSnapshot(i)
  PROVE  WorldInv'
<1> DEFINE w == worlds[i]
           d == Committed(w, snap.state)
           n == IF d.nextCapability < snap.nextCapability
                THEN snap.nextCapability ELSE d.nextCapability
           c == [d EXCEPT !.nextCapability = n, !.epoch = d.epoch + 1]
<1>1. WellFormed(w) /\ w \in WorldRecords /\ snap # NoSnapshot /\ RevisionsLeft(w)
      /\ Becomes(i, c) /\ UNCHANGED <<journals, snap, nextWorldId, launches, issued>>
      /\ mixed' = IF 0 \in mixed \/ snap.journal # w.journal THEN mixed \cup {i} ELSE mixed
  BY LiveWorld DEF RestoreSnapshot
<1>2. /\ Extends(w, d) /\ d.state = snap.state
      /\ d.nextCapability = w.nextCapability /\ d.epoch = w.epoch
  BY <1>1, SnapshotIsThere, CommitExtends
<1>3. d \in WorldRecords /\ Len(d.history) <= d.limit
  BY <1>2 DEF Extends, WellFormed
<1>4. /\ w.nextCapability \in 1 .. MaxCapability + 1
      /\ snap.nextCapability \in 1 .. MaxCapability + 1
      /\ w.epoch \in Nat \ {0}
  BY <1>1, SnapshotIsThere DEF WorldRecords
<1>5. n \in 1 .. MaxCapability + 1 /\ n >= w.nextCapability /\ d.epoch + 1 \in Nat \ {0}
  BY <1>2, <1>4, WorldNumbers
<1> HIDE DEF d, n
<1>6. /\ c \in WorldRecords /\ c.history = d.history /\ c.limit = d.limit
      /\ c.state = d.state /\ c.revision = d.revision /\ c.nextRevision = d.nextRevision
      /\ c.id = d.id /\ c.journal = d.journal
      /\ c.nextCapability = n /\ c.epoch = d.epoch + 1
  BY <1>3, <1>5 DEF WorldRecords
<1> HIDE DEF c
<1>7. Extends(w, c)
  BY <1>2, <1>3, <1>4, <1>5, <1>6 DEF Extends, WellFormed, Named
<1>8. i \notin mixed' => Settled(c.state, journals[w.journal])
  BY <1>1, <1>2, <1>6, SnapshotIsThere
<1>9. LaunchesKept'
  BY <1>1 DEF WorldInv, LaunchesKept, LaunchedOnce
<1> QED BY <1>1, <1>7, <1>8, <1>9, AdvanceKeeps

\* An opened world is well formed, from a snapshot, from a file or by a fork.
LEMMA FromSnapshotKeeps ==
  ASSUME WorldInv, NEW i \in Instances, FromSnapshot(i)
  PROVE  WorldInv'
<1> DEFINE w == [state |-> snap.state, revision |-> snap.revision,
                 nextRevision |-> snap.nextRevision,
                 nextCapability |-> snap.nextCapability, history |-> <<>>,
                 limit |-> HistoryLimit, id |-> snap.id, epoch |-> snap.epoch,
                 journal |-> snap.journal]
<1>1. snap # NoSnapshot /\ Opens(i, w)
      /\ mixed' = (IF 0 \in mixed THEN mixed \cup {i} ELSE mixed)
      /\ UNCHANGED <<journals, snap, nextWorldId, launches, issued>>
  BY DEF FromSnapshot
<1>2. /\ WellFormed(w) /\ w.revision < w.nextRevision
      /\ i \notin mixed' => Settled(w.state, journals[w.journal])
  BY <1>1, SnapshotIsThere, WorldNumbers DEF WellFormed, WorldRecords
<1>3. w.history = <<>>
  OBVIOUS
<1> HIDE DEF w
<1> QED BY <1>1, <1>2, <1>3, OpeningKeeps

LEMMA FromCanonicalKeeps ==
  ASSUME WorldInv, NEW i \in Instances, FromCanonical(i)
  PROVE  WorldInv'
<1> DEFINE w == [state |-> snap.state, revision |-> snap.revision,
                 nextRevision |-> snap.nextRevision,
                 nextCapability |-> snap.nextCapability, history |-> <<>>,
                 limit |-> 0, id |-> snap.id, epoch |-> snap.epoch, journal |-> i]
<1>1. snap # NoSnapshot /\ Opens(i, w) /\ nextWorldId' = nextWorldId + 1
      /\ mixed' = mixed \cup {i} /\ UNCHANGED <<journals, snap, launches, issued>>
  BY DEF FromCanonical
<1>2. WellFormed(w) /\ w.revision < w.nextRevision
  BY <1>1, SnapshotIsThere, WorldNumbers DEF WellFormed, WorldRecords
<1>3. w.history = <<>>
  OBVIOUS
<1> HIDE DEF w
<1> QED BY <1>1, <1>2, <1>3, OpeningKeeps

LEMMA ForkKeeps ==
  ASSUME WorldInv, NEW j \in Live, NEW i \in Instances, ForkIsolated(j, i)
  PROVE  WorldInv'
<1> DEFINE w == worlds[j]
           c == [w EXCEPT !.nextCapability = 1, !.history = <<>>,
                          !.id = nextWorldId, !.epoch = 1, !.journal = i]
<1>1. Opens(i, c) /\ nextWorldId' = nextWorldId + 1
      /\ mixed' = mixed \cup {i} /\ UNCHANGED <<journals, snap, launches, issued>>
  BY DEF ForkIsolated
<1>2. nextWorldId \in Instances
  <2>1. i \notin Live /\ Live \subseteq Instances
    BY <1>1 DEF Opens, Live
  <2>2. Cardinality(Live) < Cardinality(Instances) /\ Cardinality(Live) \in Nat
    <3>1. Cardinality(Live) <= Cardinality(Instances) /\ IsFiniteSet(Live)
          /\ (Cardinality(Live) = Cardinality(Instances) => Live = Instances)
      BY <2>1, WorldNumbers, FS_Subset
    <3> QED BY <2>1, <3>1, WorldNumbers, FS_CardinalityType
  <2> QED BY <2>2, WorldNumbers DEF WorldInv, WorldsTyped
<1>3. w \in WorldRecords /\ w.revision < w.nextRevision
  BY LiveWorld DEF WorldInv, NamesGiven, RevisionsNameStates, Named
<1>4. /\ c \in WorldRecords /\ c.history = <<>> /\ c.limit = w.limit /\ c.journal = i
      /\ c.revision = w.revision /\ c.nextRevision = w.nextRevision
  <2>1. 1 \in 1 .. MaxCapability + 1 /\ 1 \in Nat \ {0}
    BY WorldNumbers
  <2>2. <<>> \in Seq([revision : 0 .. MaxRevision, state : States])
    OBVIOUS
  <2>3. ASSUME NEW v \in WorldRecords
        PROVE  LET e == [v EXCEPT !.nextCapability = 1, !.history = <<>>,
                                  !.id = nextWorldId, !.epoch = 1, !.journal = i] IN
               /\ e \in WorldRecords /\ e.history = <<>> /\ e.limit = v.limit
               /\ e.journal = i
               /\ e.revision = v.revision /\ e.nextRevision = v.nextRevision
    BY <1>2, <2>1, <2>2 DEF WorldRecords
  <2> QED BY <1>3, <2>3
<1>5. w.limit \in Nat
  <2>1. ASSUME NEW v \in WorldRecords PROVE v.limit \in Nat
    BY WorldNumbers DEF WorldRecords
  <2> QED BY <1>3, <2>1
<1>6. i # 1
  BY <1>1 DEF Opens, WorldInv, WorldsTyped
<1> HIDE DEF c
<1>7. WellFormed(c) /\ c.revision < c.nextRevision
  BY <1>3, <1>4, <1>5 DEF WellFormed
<1> QED BY <1>1, <1>4, <1>6, <1>7, OpeningKeeps
LEMMA InitKeeps == WorldInit => WorldInv
<1> SUFFICES ASSUME WorldInit PROVE WorldInv
  OBVIOUS
<1> DEFINE first == [EmptyState EXCEPT !.agent = FirstCapability, !.events = 1]
           new == NewWorld(1, HistoryLimit)
           w == [new EXCEPT !.nextCapability = 2]
<1>1. /\ FirstCapability \in Capabilities
      /\ FirstCapability.id = 1 /\ FirstCapability.world = 1 /\ FirstCapability.epoch = 1
  BY WorldNumbers DEF FirstCapability, Capabilities
<1>2. /\ EmptyState \in States
      /\ \A r \in RequestIds : EmptyState.requests[r].status = "none"
  BY WorldNumbers DEF EmptyState, States, NoRequest, NoCapability
<1>3. first \in States /\ \A r \in RequestIds : first.requests[r].status = "none"
  <2>1. 1 \in 0 .. EventLimit
    BY WorldNumbers
  <2> QED BY <1>1, <1>2, <2>1 DEF States
<1>4. /\ w \in WorldRecords /\ w.history = <<>> /\ w.limit = HistoryLimit
      /\ w.revision = 0 /\ w.nextRevision = 1 /\ w.nextCapability = 2
      /\ w.id = 1 /\ w.epoch = 1 /\ w.journal = 1 /\ w.state = EmptyState
  <2>1. 2 \in 1 .. MaxCapability + 1 /\ 1 \in 1 .. MaxRevision /\ 0 \in 0 .. MaxRevision
    BY WorldNumbers
  <2>2. <<>> \in Seq([revision : 0 .. MaxRevision, state : States])
    OBVIOUS
  <2>3. w = [state |-> EmptyState, revision |-> 0, nextRevision |-> 1,
             nextCapability |-> 2, history |-> <<>>, limit |-> HistoryLimit,
             id |-> 1, epoch |-> 1, journal |-> 1]
    BY DEF NewWorld
  <2> QED BY <1>2, <2>1, <2>2, <2>3, WorldNumbers DEF WorldRecords
<1>5. WellFormed(w) /\ RevisionsLeft(w)
  BY <1>4, WorldNumbers DEF WellFormed, RevisionsLeft
<1>6. FirstRevision = Committed(w, first)
  BY DEF FirstRevision
<1> HIDE DEF first, new, w
<1>7. /\ Extends(w, FirstRevision) /\ FirstRevision.state = first
      /\ FirstRevision.nextCapability = 2 /\ FirstRevision.epoch = 1
      /\ FirstRevision.nextRevision = 2
  BY <1>3, <1>4, <1>5, <1>6, CommitExtends
<1>8. /\ FirstRevision \in WorldRecords /\ WellFormed(FirstRevision)
      /\ FirstRevision.revision = 1 /\ FirstRevision.id = 1 /\ FirstRevision.journal = 1
      /\ Range(FirstRevision.history) \subseteq {Named(w)}
  <2>1. Range(w.history) = {}
    BY <1>4 DEF Range
  <2>2. FirstRevision.nextRevision # w.nextRevision
    BY <1>4, <1>7
  <2> QED BY <1>4, <1>7, <2>1, <2>2 DEF Extends, WellFormed
<1>9. Named(w) = Named(NewWorld(1, 0)) /\ Named(w).revision = 0 /\ Named(w).state = EmptyState
      /\ Named(FirstRevision).revision = 1 /\ Named(FirstRevision).state = first
  BY <1>4, <1>7, <1>8 DEF Named, NewWorld
<1>10. {Named(w), Named(FirstRevision)} \subseteq Names
  BY <1>2, <1>3, <1>4, <1>7, <1>8, WorldNumbers DEF Named, Names
<1>11. /\ worlds = [i \in Instances |-> IF i = 1 THEN FirstRevision ELSE NoWorld]
       /\ journals = [i \in Instances |-> <<>>]
       /\ snap = NoSnapshot /\ nextWorldId = 2
       /\ launches = [p \in Instances \X EffectKeys |-> 0]
       /\ made = [i \in Instances |-> IF i = 1 THEN {Named(w), Named(FirstRevision)} ELSE {}]
       /\ issued = [i \in Instances |-> IF i = 1 THEN {FirstCapability} ELSE {}]
       /\ mixed = {}
  BY <1>9 DEF WorldInit
<1>12. Live = {1} /\ worlds[1] = FirstRevision
  BY <1>8, <1>11, WorldNumbers, WorldIsThere DEF Live
<1>13. WorldsTyped
  <2>1. Cardinality(Live) = 1
    BY <1>12, FS_Singleton
  <2> QED BY <1>8, <1>11, <1>12, <2>1, WorldNumbers, WorldIsThere DEF WorldsTyped
<1>14. NamesGiven
  <2>1. made \in [Instances -> SUBSET Names]
    BY <1>10, <1>11
  <2>2. made[1] = {Named(w), Named(FirstRevision)}
    BY <1>11, WorldNumbers
  <2> QED BY <1>7, <1>8, <1>9, <1>12, <2>1, <2>2 DEF NamesGiven, RevisionsNameStates
<1>15. AuthorityGiven
  <2>1. issued \in [Instances -> SUBSET Capabilities]
    BY <1>1, <1>11
  <2>2. issued[1] = {FirstCapability} /\ \A i \in Instances : i # 1 => issued[i] = {}
    BY <1>11, WorldNumbers
  <2> QED BY <1>1, <1>7, <1>8, <1>12, <2>1, <2>2 DEF AuthorityGiven, CapabilityIdsUnique
<1>16. LaunchesKept
  <2>1. <<>> \in Journals
    <3>1. <<>> \in [{} -> Marks] /\ {} \in SUBSET EffectKeys
      OBVIOUS
    <3> QED BY <3>1 DEF Journals
  <2> QED BY <1>11, <2>1 DEF LaunchesKept, LaunchedOnce
<1>17. DoubtKept
  <2>1. made[1] = {Named(w), Named(FirstRevision)}
    BY <1>11, WorldNumbers
  <2> QED BY <1>2, <1>3, <1>8, <1>9, <1>11, <1>12, <2>1 DEF DoubtKept, Settled
<1>18. SnapshotKept
  BY <1>11 DEF SnapshotKept
<1> QED BY <1>13, <1>14, <1>15, <1>16, <1>17, <1>18 DEF WorldInv

LEMMA NextKeeps == WorldInv /\ [WorldNext]_worldVars => WorldInv'
<1> SUFFICES ASSUME WorldInv, [WorldNext]_worldVars PROVE WorldInv'
  OBVIOUS
<1>1. ASSUME NEW i \in Live, IssueCapability(i) PROVE WorldInv'
  BY <1>1, IssueKeeps
<1>2. ASSUME NEW i \in Live, NEW c \in issued[i], EvaluateSpawn(i, c) PROVE WorldInv'
  BY <1>2, SpawnKeeps
<1>3. ASSUME NEW i \in Live, NEW p \in Prompts, EvaluateRequest(i, p) PROVE WorldInv'
  BY <1>3, RequestKeeps
<1>4. ASSUME NEW i \in Live, NEW r \in RequestIds, ClaimModelRequest(i, r) PROVE WorldInv'
  BY <1>4, ClaimKeeps
<1>5. ASSUME NEW i \in Live, NEW r \in RequestIds, NEW p \in DOMAIN launches,
             CompleteModelRequest(i, r, p[2])
      PROVE  WorldInv'
  <2>1. p[2] \in EffectKeys
    BY DEF WorldInv, LaunchesKept
  <2> QED BY <1>5, <2>1, CompleteKeeps
<1>6. ASSUME NEW i \in Live, Rollback(i) PROVE WorldInv'
  BY <1>6, RollbackKeeps
<1>7. ASSUME NEW i \in Live, RestoreSnapshot(i) PROVE WorldInv'
  BY <1>7, RestoreKeeps
<1>8. ASSUME NEW i \in Live, TakeSnapshot(i) PROVE WorldInv'
  BY <1>8, TakeSnapshotKeeps
<1>9. ASSUME NEW i \in Live, NEW j \in Instances, ForkIsolated(i, j) PROVE WorldInv'
  BY <1>9, ForkKeeps
<1>10. ASSUME NEW i \in Instances, FromSnapshot(i) PROVE WorldInv'
  BY <1>10, FromSnapshotKeeps
<1>11. ASSUME NEW i \in Instances, FromCanonical(i) PROVE WorldInv'
  BY <1>11, FromCanonicalKeeps
<1>12. CASE UNCHANGED worldVars
  <2>1. LaunchesKept'
    BY <1>12 DEF worldVars, WorldInv, LaunchesKept, LaunchedOnce
  <2> QED BY <1>12, <2>1, QuietKeeps DEF worldVars
<1> QED BY <1>1, <1>2, <1>3, <1>4, <1>5, <1>6, <1>7, <1>8, <1>9, <1>10, <1>11, <1>12
           DEF WorldNext

THEOREM WorldInvariant == WorldSpec => []WorldInv
BY InitKeeps, NextKeeps, PTL DEF WorldSpec

-----------------------------------------------------------------------------
\* Every World value stays well formed, and a number it gave out, to a revision or
\* to a capability, stands for one thing for ever.
THEOREM NumbersStayFinal == WorldSpec => []NumbersAreFinal
<1>1. WorldInv => NumbersAreFinal
  <2> SUFFICES ASSUME WorldInv PROVE NumbersAreFinal
    OBVIOUS
  <2>1. \A i \in Live : worlds[i] \in WorldRecords /\ Len(worlds[i].history) <= worlds[i].limit
    BY DEF WorldInv, WorldsTyped, WellFormed
  <2>2. ASSUME NEW i \in Instances
        PROVE  DOMAIN journals[i] \subseteq EffectKeys /\ Range(journals[i]) \subseteq Marks
    <3>1. journals[i] \in Journals
      BY DEF WorldInv, LaunchesKept
    <3>2. PICK D \in SUBSET EffectKeys : journals[i] \in [D -> Marks]
      BY <3>1, Zenon DEF Journals
    <3> QED BY <3>2 DEF Range
  <2>3. nextWorldId \in 1 .. Cardinality(Instances) + 1
    <3>1. Cardinality(Live) <= Cardinality(Instances) /\ Cardinality(Live) \in Nat
      BY WorldNumbers, FS_Subset, FS_CardinalityType DEF Live
    <3> QED BY <3>1, WorldNumbers DEF WorldInv, WorldsTyped
  <2> QED BY <2>1, <2>2, <2>3 DEF NumbersAreFinal, WorldTypeOK, WorldInv, NamesGiven,
             AuthorityGiven, DoubtKept, Marks
<1> QED BY <1>1, WorldInvariant, PTL

\* No provider is launched twice for one effect key of a journal.
THEOREM LaunchesAreSingle == WorldSpec => []LaunchedOnce
<1>1. WorldInv => LaunchedOnce
  BY DEF WorldInv, LaunchesKept
<1> QED BY <1>1, WorldInvariant, PTL

\* What shows as in doubt or answered in a world that got all its states under its
\* own journal is in it, so that its result can still be delivered.
THEOREM DoubtIsJournaled == WorldSpec => []InDoubtIsJournaled
<1>1. WorldInv => InDoubtIsJournaled
  <2> SUFFICES ASSUME WorldInv, NEW i \in Live, i \notin mixed,
                      NEW r \in RequestIds,
                      worlds[i].state.requests[r].status \in {"dispatching", "completed"}
               PROVE  Journaled(worlds[i], worlds[i].state.requests[r].key)
    BY DEF InDoubtIsJournaled
  <2> QED BY StateIsSettled DEF Settled, Journaled
<1> QED BY <1>1, WorldInvariant, PTL
-----------------------------------------------------------------------------
\* A world keeps its identity, and its epoch never goes back.
LEMMA EpochGrows ==
  ASSUME WorldInv, [WorldNext]_worldVars, NEW j \in Live
  PROVE  /\ worlds'[j].id = worlds[j].id
         /\ worlds'[j].epoch >= worlds[j].epoch
         /\ RestoreSnapshot(j) => worlds'[j].epoch = worlds[j].epoch + 1
<1> DEFINE Kept == worlds'[j].id = worlds[j].id /\ worlds'[j].epoch = worlds[j].epoch
<1>1. j \in Instances /\ worlds[j] \in WorldRecords /\ worlds[j].epoch \in Nat
  BY LiveWorld
<1>2. ASSUME NEW w \in WorldRecords, NEW state
      PROVE  /\ Committed(w, state).id = w.id /\ Committed(w, state).epoch = w.epoch
             /\ DOMAIN Committed(w, state) = DOMAIN w
  BY DEF Committed, WorldRecords
<1>3. ASSUME NEW i \in Live, NEW c, Becomes(i, c)
      PROVE  worlds'[j] = IF i = j THEN c ELSE worlds[j]
  BY <1>1, <1>3 DEF Becomes, WorldInv, WorldsTyped, Live
<1>4. ASSUME NEW i \in Live, NEW state, Becomes(i, Committed(worlds[i], state))
      PROVE  Kept
  <2>1. worlds[i] \in WorldRecords
    BY LiveWorld
  <2> QED BY <1>2, <1>3, <1>4, <2>1
<1>5. ASSUME NEW i \in Live, RestoreSnapshot(i)
      PROVE  worlds'[j].id = worlds[j].id
             /\ worlds'[j].epoch = IF i = j THEN worlds[j].epoch + 1 ELSE worlds[j].epoch
  <2> DEFINE d == Committed(worlds[i], snap.state)
             c == [d EXCEPT !.nextCapability = IF @ < snap.nextCapability
                                               THEN snap.nextCapability ELSE @,
                            !.epoch = @ + 1]
  <2>1. Becomes(i, c)
    BY <1>5 DEF RestoreSnapshot
  <2>2. worlds[i] \in WorldRecords
    BY LiveWorld
  <2>3. d.id = worlds[i].id /\ d.epoch = worlds[i].epoch /\ DOMAIN d = DOMAIN worlds[i]
    BY <1>2, <2>2
  <2>4. "id" \in DOMAIN d /\ "epoch" \in DOMAIN d
    BY <2>2, <2>3 DEF WorldRecords
  <2> HIDE DEF d
  <2>5. c.id = d.id /\ c.epoch = d.epoch + 1
    BY <2>4
  <2> HIDE DEF c
  <2> QED BY <1>3, <2>1, <2>3, <2>5
<1>6. ASSUME NEW i \in Instances, NEW w, Opens(i, w)
      PROVE  Kept
  BY <1>1, <1>6 DEF Opens, WorldInv, WorldsTyped, Live
<1>7. ASSUME NEW i \in Live, IssueCapability(i) PROVE Kept
  <2>1. worlds'[j] = IF i = j THEN [worlds[i] EXCEPT !.nextCapability = @ + 1] ELSE worlds[j]
    BY <1>1, <1>7 DEF IssueCapability, WorldInv, WorldsTyped, Live
  <2> QED BY <1>1, <2>1 DEF WorldRecords
<1>8. ASSUME NEW i \in Live, Rollback(i) PROVE Kept
  <2>1. PICK h, n, t : Becomes(i, [worlds[i] EXCEPT !.history = h, !.revision = n, !.state = t])
    BY <1>8 DEF Rollback
  <2>2. worlds[i] \in WorldRecords
    BY LiveWorld
  <2>3. [worlds[i] EXCEPT !.history = h, !.revision = n, !.state = t].id = worlds[i].id
        /\ [worlds[i] EXCEPT !.history = h, !.revision = n, !.state = t].epoch = worlds[i].epoch
    BY <2>2 DEF WorldRecords
  <2> QED BY <1>3, <2>1, <2>3
<1>9. ASSUME Kept
      PROVE  worlds'[j].epoch >= worlds[j].epoch /\ ~RestoreSnapshot(j)
  <2>1. RestoreSnapshot(j) => worlds'[j].epoch = worlds[j].epoch + 1
    BY <1>5
  <2> QED BY <1>1, <1>9, <2>1
<1>10. ASSUME NEW i \in Live, NEW c, EvaluateSpawn(i, c) PROVE Kept
  BY <1>4, <1>10 DEF EvaluateSpawn
<1>11. ASSUME NEW i \in Live, NEW p, EvaluateRequest(i, p) PROVE Kept
  BY <1>4, <1>11 DEF EvaluateRequest
<1>12. ASSUME NEW i \in Live, NEW r, ClaimModelRequest(i, r) PROVE Kept
  BY <1>4, <1>12 DEF ClaimModelRequest
<1>13. ASSUME NEW i \in Live, NEW r, NEW k, CompleteModelRequest(i, r, k) PROVE Kept
  BY <1>4, <1>13 DEF CompleteModelRequest
<1>14. ASSUME NEW i \in Live, TakeSnapshot(i) PROVE Kept
  BY <1>14 DEF TakeSnapshot
<1>15. ASSUME NEW i \in Instances, NEW k, FromSnapshot(i) \/ FromCanonical(i) \/ ForkIsolated(k, i)
       PROVE  Kept
  BY <1>6, <1>15 DEF FromSnapshot, FromCanonical, ForkIsolated
<1>16. CASE UNCHANGED worldVars
  BY <1>9, <1>16 DEF worldVars
<1>17. CASE \E i \in Live : RestoreSnapshot(i)
  BY <1>1, <1>5, <1>17
<1> HIDE DEF Kept
<1>18. Kept \/ UNCHANGED worldVars \/ \E i \in Live : RestoreSnapshot(i)
  BY <1>7, <1>8, <1>10, <1>11, <1>12, <1>13, <1>14, <1>15 DEF WorldNext
<1> QED BY <1>9, <1>16, <1>17, <1>18 DEF Kept

\* Restoring a snapshot makes what the world handed out before inert, and what is
\* inert stays so.
THEOREM RestoreIsFinal == WorldSpec => RestoreEndsAuthority
<1>1. WorldInv /\ [WorldNext]_worldVars =>
        [\A i \in Live : \A c \in issued[i] :
           RestoreSnapshot(i) \/ ~Permits(c, worlds[i]) => ~Permits(c, worlds'[i])]_worldVars
  <2> SUFFICES ASSUME WorldInv, [WorldNext]_worldVars, NEW i \in Live, NEW c \in issued[i],
                      RestoreSnapshot(i) \/ ~Permits(c, worlds[i])
               PROVE  ~Permits(c, worlds'[i])
    OBVIOUS
  <2>1. /\ i \in Instances /\ worlds[i].epoch \in Nat
        /\ c.world = worlds[i].id /\ c.epoch <= worlds[i].epoch /\ c.epoch \in Nat
    BY LiveWorld, WorldNumbers DEF WorldInv, AuthorityGiven, Capabilities
  <2>2. /\ worlds'[i].id = worlds[i].id
        /\ worlds'[i].epoch >= worlds[i].epoch
        /\ RestoreSnapshot(i) => worlds'[i].epoch = worlds[i].epoch + 1
    BY EpochGrows
  <2>3. c.epoch < worlds'[i].epoch
    <3>1. CASE RestoreSnapshot(i)
      BY <2>1, <2>2, <3>1
    <3>2. CASE ~Permits(c, worlds[i])
      <4>1. c.epoch < worlds[i].epoch
        BY <2>1, <3>2 DEF Permits
      <4>2. worlds'[i].epoch \in Nat
        <5>1. WorldInv'
          BY NextKeeps
        <5>2. worlds'[i] \in WorldRecords \cup {NoWorld}
          BY <2>1, <5>1 DEF WorldInv, WorldsTyped
        <5>3. worlds'[i] # NoWorld
          BY <2>2, <2>1, LiveWorld, WorldNumbers DEF NoWorld
        <5> QED BY <5>2, <5>3 DEF WorldRecords
      <4> QED BY <2>1, <2>2, <4>1, <4>2
    <3> QED BY <3>1, <3>2
  <2> QED BY <2>1, <2>2, <2>3 DEF Permits
<1> QED BY <1>1, WorldInvariant, PTL DEF WorldSpec, RestoreEndsAuthority

-----------------------------------------------------------------------------
\* The ledger of the live world's journal and the effects launched under it.
LedgerOf(journal) == [k \in EffectKeys |-> IF k \in DOMAIN journal THEN journal[k] ELSE "free"]
Dispatched(times) == {k \in EffectKeys : times[<<1, k>>] > 0}

\* A claim of the family claims in the ledger, any other leaves it alone.
LEMMA ClaimClaims ==
  ASSUME WorldInv, NEW i \in Live, NEW r \in RequestIds, ClaimModelRequest(i, r)
  PROVE  \/ /\ LedgerOf(journals[1])' = LedgerOf(journals[1])
            /\ Dispatched(launches)' = Dispatched(launches)
         \/ \E k \in EffectKeys :
              /\ LedgerOf(journals[1])[k] = "free"
              /\ LedgerOf(journals[1])' = [LedgerOf(journals[1]) EXCEPT ![k] = "claimed"]
              /\ Dispatched(launches)' \in {Dispatched(launches), Dispatched(launches) \cup {k}}
<1> DEFINE w == worlds[i]
           key == w.state.requests[r].key
           p == <<w.journal, key>>
<1>1. w.state \in States /\ w.journal \in Instances
  BY LiveWorld
<1>2. w.state.requests[r] # NoRequest
  BY DEF ClaimModelRequest, NoRequest
<1>3. key \in EffectKeys
  BY <1>1, <1>2, RequestIsThere
<1>4. ~Journaled(w, key) /\ Enter(w, key, "claimed") /\ "claimed" \in Marks
  BY DEF ClaimModelRequest, Marks
<1>5. /\ \A j \in Instances : j # w.journal => journals'[j] = journals[j]
      /\ DOMAIN journals'[w.journal] = DOMAIN journals[w.journal] \cup {key}
      /\ \A k \in DOMAIN journals'[w.journal] :
           journals'[w.journal][k] = IF k = key THEN "claimed" ELSE journals[w.journal][k]
  BY <1>1, <1>3, <1>4, Entered DEF WorldInv, LaunchesKept
<1>6. launches' = launches \/ launches' = [launches EXCEPT ![p] = launches[p] + 1]
  BY DEF ClaimModelRequest
<1>7. launches \in [Instances \X EffectKeys -> Nat]
  BY DEF WorldInv, LaunchesKept
<1> HIDE DEF key, w
<1>8. \A k \in EffectKeys : <<1, k>> # p => launches'[<<1, k>>] = launches[<<1, k>>]
  BY <1>6, <1>7, WorldNumbers
<1>9. CASE w.journal = 1
  <2>1. LedgerOf(journals[1])[key] = "free"
    BY <1>3, <1>4, <1>9 DEF LedgerOf, Journaled
  <2>2. LedgerOf(journals'[1]) = [LedgerOf(journals[1]) EXCEPT ![key] = "claimed"]
    <3>1. /\ DOMAIN journals'[1] = DOMAIN journals[1] \cup {key}
          /\ \A k \in DOMAIN journals'[1] :
               journals'[1][k] = IF k = key THEN "claimed" ELSE journals[1][k]
      BY <1>5, <1>9
    <3> QED BY <1>3, <3>1 DEF LedgerOf
  <2>3. \A k \in EffectKeys : k # key => launches'[<<1, k>>] = launches[<<1, k>>]
    BY <1>8, <1>9
  <2>4. Dispatched(launches') \in {Dispatched(launches), Dispatched(launches) \cup {key}}
    <3>1. CASE launches'[<<1, key>>] = launches[<<1, key>>]
      BY <2>3, <3>1 DEF Dispatched
    <3>2. CASE launches'[<<1, key>>] # launches[<<1, key>>]
      <4>1. launches'[<<1, key>>] > 0
        BY <1>3, <1>6, <1>7, <1>9, <3>2, WorldNumbers
      <4> QED BY <1>3, <2>3, <4>1 DEF Dispatched
    <3> QED BY <3>1, <3>2
  <2> QED BY <1>3, <2>1, <2>2, <2>4
<1>10. CASE w.journal # 1
  <2>1. journals'[1] = journals[1]
    BY <1>5, <1>10, WorldNumbers
  <2>2. \A k \in EffectKeys : launches'[<<1, k>>] = launches[<<1, k>>]
    BY <1>8, <1>10
  <2> QED BY <2>1, <2>2 DEF Dispatched
<1> QED BY <1>9, <1>10

LEMMA CompleteCompletes ==
  ASSUME WorldInv, NEW i \in Live, NEW r \in RequestIds, NEW key \in EffectKeys,
         CompleteModelRequest(i, r, key)
  PROVE  /\ Dispatched(launches)' = Dispatched(launches)
         /\ \/ LedgerOf(journals[1])' = LedgerOf(journals[1])
            \/ \E k \in EffectKeys :
                 /\ LedgerOf(journals[1])[k] # "free"
                 /\ LedgerOf(journals[1])' = [LedgerOf(journals[1]) EXCEPT ![k] = "completed"]
<1> DEFINE w == worlds[i]
<1>1. w.journal \in Instances
  BY LiveWorld
<1>2. Journaled(w, key) /\ Enter(w, key, "completed") /\ "completed" \in Marks
      /\ launches' = launches
  BY DEF CompleteModelRequest, Marks
<1>3. /\ \A j \in Instances : j # w.journal => journals'[j] = journals[j]
      /\ DOMAIN journals'[w.journal] = DOMAIN journals[w.journal] \cup {key}
      /\ \A k \in DOMAIN journals'[w.journal] :
           journals'[w.journal][k] = IF k = key THEN "completed" ELSE journals[w.journal][k]
  BY <1>1, <1>2, Entered DEF WorldInv, LaunchesKept
<1> HIDE DEF w
<1>4. CASE w.journal = 1
  <2>1. LedgerOf(journals'[1]) = [LedgerOf(journals[1]) EXCEPT ![key] = "completed"]
    <3>1. /\ DOMAIN journals'[1] = DOMAIN journals[1] \cup {key}
          /\ \A k \in DOMAIN journals'[1] :
               journals'[1][k] = IF k = key THEN "completed" ELSE journals[1][k]
      BY <1>3, <1>4
    <3> QED BY <3>1 DEF LedgerOf
  <2>2. LedgerOf(journals[1])[key] # "free"
    <3>1. journals[1] \in Journals
      BY WorldNumbers DEF WorldInv, LaunchesKept
    <3>2. PICK D \in SUBSET EffectKeys : journals[1] \in [D -> Marks]
      BY <3>1, Zenon DEF Journals
    <3> QED BY <1>2, <1>4, <3>2 DEF LedgerOf, Journaled, Marks
  <2> QED BY <1>2, <2>1, <2>2
<1>5. CASE w.journal # 1
  BY <1>2, <1>3, <1>5, WorldNumbers
<1> QED BY <1>4, <1>5

\* The worlds around the live one implement the ledger of its effects: a free effect
\* is claimed once, its provider launched then or never, and what was claimed stays so.
THEOREM WorldsImplementLedger == WorldSpec => ImplementsLedger
<1>1. WorldInit => Ledger!LedgerInit
  <2> SUFFICES ASSUME WorldInit PROVE Ledger!LedgerInit
    OBVIOUS
  <2>1. journals[1] = <<>>
    BY WorldNumbers DEF WorldInit
  <2>2. \A k \in EffectKeys : launches[<<1, k>>] = 0
    BY WorldNumbers DEF WorldInit
  <2> QED BY <2>1, <2>2 DEF Ledger!LedgerInit
<1>2. WorldInv /\ [WorldNext]_worldVars =>
        \/ /\ LedgerOf(journals[1])' = LedgerOf(journals[1])
           /\ Dispatched(launches)' = Dispatched(launches)
        \/ \E k \in EffectKeys :
             /\ LedgerOf(journals[1])[k] = "free"
             /\ LedgerOf(journals[1])' = [LedgerOf(journals[1]) EXCEPT ![k] = "claimed"]
             /\ Dispatched(launches)' \in {Dispatched(launches), Dispatched(launches) \cup {k}}
        \/ \E k \in EffectKeys :
             /\ LedgerOf(journals[1])[k] # "free"
             /\ LedgerOf(journals[1])' = [LedgerOf(journals[1]) EXCEPT ![k] = "completed"]
             /\ Dispatched(launches)' = Dispatched(launches)
  <2> SUFFICES ASSUME WorldInv, [WorldNext]_worldVars,
                      ~ UNCHANGED <<journals, launches>>
               PROVE  \/ \E i \in Live, r \in RequestIds : ClaimModelRequest(i, r)
                      \/ \E i \in Live, r \in RequestIds, k \in EffectKeys :
                           CompleteModelRequest(i, r, k)
    BY ClaimClaims, CompleteCompletes
  <2>1. \A p \in DOMAIN launches : p[2] \in EffectKeys
    BY DEF WorldInv, LaunchesKept
  <2> QED BY <2>1 DEF WorldNext, worldVars, IssueCapability, EvaluateSpawn, EvaluateRequest,
             Rollback, RestoreSnapshot, TakeSnapshot, ForkIsolated, FromSnapshot, FromCanonical
<1>3. WorldInv /\ [WorldNext]_worldVars
        => [Ledger!LedgerNext]_<<LedgerOf(journals[1]), Dispatched(launches)>>
  BY <1>2 DEF Ledger!LedgerNext, Ledger!Claim, Ledger!Complete, LedgerOf, Dispatched
<1> QED BY <1>1, <1>3, WorldInvariant, PTL
        DEF WorldSpec, ImplementsLedger, Ledger!LedgerSpec, LedgerOf, Dispatched
=============================================================================
