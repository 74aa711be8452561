-------------------------------- MODULE World --------------------------------
(***************************************************************************)
(* The hosted Lisp world: transactions over a state, a ring of retained    *)
(* revisions, rollback, snapshots, world files, isolated forks, capability *)
(* epochs, and the effect journal, which is shared between a world and its *)
(* snapshots and lies outside the transactional state.                     *)
(*                                                                         *)
(* Several World values live in one host.  `worlds' holds them, `journals' *)
(* the journals their Arcs point to: the journal of instance i is number i *)
(* unless i was made from a snapshot.  A state is reduced to what the      *)
(* journal protocol can tell apart: the outbox of model requests, the      *)
(* length of the event log and the capability the requesting agent holds.  *)
(***************************************************************************)
EXTENDS Naturals, Sequences, FiniteSets, Functions

CONSTANTS
  Instances,       \* World values the host may hold: 1 .. n, 1 is the live one
  RequestIds,      \* model request identifiers: 1 .. n
  Prompts,         \* what may be asked
  HistoryLimit,    \* revisions retained for rollback
  EventLimit,      \* max_collection_len as the event log's limit
  MaxRevision,     \* the end of the revision counter
  MaxCapability    \* the end of the capability counter

ASSUME WorldConstants ==
  /\ IsFiniteSet(Instances) /\ Instances = 1 .. Cardinality(Instances)
  /\ IsFiniteSet(RequestIds) /\ RequestIds = 1 .. Cardinality(RequestIds)
  /\ Instances # {}
  /\ {HistoryLimit, EventLimit, MaxRevision, MaxCapability} \subseteq Nat
  /\ EventLimit > 0 /\ MaxRevision > 1 /\ MaxCapability > 0  \* the first form commits

VARIABLES
  worlds,          \* the World values, NoWorld where there is none yet
  journals,        \* per journal: effect key -> "claimed" or "completed"
  snap,            \* what was last saved: as a snapshot and as a file
  nextWorldId,     \* NEXT_WORLD_ID
  launches,        \* history: <<journal, key>> -> times a provider was launched
  made,            \* history: per instance, the states its revisions named
  issued,          \* history: per instance, the capabilities it issued
  mixed            \* history: the instances, and 0 for the snapshot, whose state
                   \* may have been reached under another journal

worldVars == <<worlds, journals, snap, nextWorldId, launches, made, issued, mixed>>

NoWorld == [id |-> 0]
NoSnapshot == [id |-> 0]
NoRequest == [status |-> "none"]
NoCapability == [id |-> 0, world |-> 0, epoch |-> 0]

Live == {i \in Instances : worlds[i] # NoWorld}

(* The key binds the world that made the request, its number and what was   *)
(* asked; provider and prompt digest are one value here.                    *)
EffectKey(world, request, prompt) == <<world, request, prompt>>
EffectKeys == (1 .. Cardinality(Instances)) \X RequestIds \X Prompts

Capabilities ==
  [id : 1 .. MaxCapability, world : Nat \ {0}, epoch : Nat \ {0}]

Requests ==
  [status : {"pending", "dispatching", "completed"}, key : EffectKeys]

States ==
  [requests : [RequestIds -> Requests \cup {NoRequest}],
   nextRequest : 1 .. Cardinality(RequestIds) + 1, events : 0 .. EventLimit,
   agent : Capabilities \cup {NoCapability}]

EmptyState ==
  [requests |-> [r \in RequestIds |-> NoRequest], nextRequest |-> 1,
   events |-> 0, agent |-> NoCapability]

NewWorld(id, limit) ==
  [state |-> EmptyState, revision |-> 0, nextRevision |-> 1,
   nextCapability |-> 1, history |-> <<>>, limit |-> limit,
   id |-> id, epoch |-> 1, journal |-> id]

-----------------------------------------------------------------------------
(* Transactions.                                                            *)

(* The ring: the oldest retained revision makes room for the newest.        *)
Remember(w) ==
  IF w.limit = 0 THEN w.history
  ELSE Append(IF Len(w.history) = w.limit THEN Tail(w.history) ELSE w.history,
              [revision |-> w.revision, state |-> w.state])

RevisionsLeft(w) == w.nextRevision < MaxRevision

Committed(w, state) ==
  [w EXCEPT !.history = Remember(w), !.state = state,
            !.revision = w.nextRevision, !.nextRevision = w.nextRevision + 1]

(* The live world after its first form, which spawned the agent with a      *)
(* capability the host had issued to it.                                    *)
FirstCapability == [id |-> 1, world |-> 1, epoch |-> 1]

FirstRevision ==
  Committed([NewWorld(1, HistoryLimit) EXCEPT !.nextCapability = 2],
             [EmptyState EXCEPT !.agent = FirstCapability, !.events = 1])

(* A revision number and the state it names.                                *)
Named(w) == [revision |-> w.revision, state |-> w.state]

WorldInit ==
  /\ worlds = [i \in Instances |-> IF i = 1 THEN FirstRevision ELSE NoWorld]
  /\ journals = [i \in Instances |-> <<>>]
  /\ snap = NoSnapshot
  /\ nextWorldId = 2
  /\ launches = [p \in Instances \X EffectKeys |-> 0]
  /\ made = [i \in Instances |-> IF i = 1 THEN {Named(NewWorld(1, 0)), Named(FirstRevision)}
                                          ELSE {}]
  /\ issued = [i \in Instances |-> IF i = 1 THEN {FirstCapability} ELSE {}]
  /\ mixed = {}

(* World i becomes w; a new revision is entered in the history of names.    *)
Becomes(i, w) ==
  /\ worlds' = [worlds EXCEPT ![i] = w]
  /\ made' = IF w.nextRevision = worlds[i].nextRevision THEN made
             ELSE [made EXCEPT ![i] = @ \cup {Named(w)}]

Permits(c, w) == c.world = w.id /\ c.epoch = w.epoch

(* A form; it spawns the requesting agent anew, with a capability the host   *)
(* gave the evaluation.                                                     *)
EvaluateSpawn(i, c) ==
  LET w == worlds[i] IN
  /\ RevisionsLeft(w)
  /\ c # w.state.agent
  /\ w.state.events < EventLimit
  /\ Becomes(i, Committed(w, [w.state EXCEPT !.agent = c, !.events = @ + 1]))
  /\ UNCHANGED <<journals, snap, nextWorldId, launches, issued, mixed>>

(* A run in which the agent's turn asks a model and commits.                *)
EvaluateRequest(i, prompt) ==
  LET w == worlds[i]
      r == w.state.nextRequest IN
  /\ RevisionsLeft(w)
  /\ r \in RequestIds
  /\ w.state.events < EventLimit
  /\ Permits(w.state.agent, w)
  /\ Becomes(i, Committed(w,
       [w.state EXCEPT
          !.requests[r] = [status |-> "pending", key |-> EffectKey(w.id, r, prompt)],
          !.nextRequest = @ + 1, !.events = @ + 1]))
  /\ UNCHANGED <<journals, snap, nextWorldId, launches, issued, mixed>>

IssueCapability(i) ==
  LET w == worlds[i]
      c == [id |-> w.nextCapability, world |-> w.id, epoch |-> w.epoch] IN
  /\ w.nextCapability <= MaxCapability
  /\ worlds' = [worlds EXCEPT ![i].nextCapability = @ + 1]
  /\ issued' = [issued EXCEPT ![i] = @ \cup {c}]
  /\ UNCHANGED <<journals, snap, nextWorldId, launches, made, mixed>>
-----------------------------------------------------------------------------
(* The effect journal.                                                      *)

Journaled(w, key) == key \in DOMAIN journals[w.journal]

Enter(w, key, status) ==
  journals' = [journals EXCEPT ![w.journal] =
                 [k \in DOMAIN @ \cup {key} |-> IF k = key THEN status ELSE @[k]]]

(* The state after claiming r; the event log must have room.                *)
Claimed(state, r) ==
  [state EXCEPT !.requests[r].status = "dispatching", !.events = @ + 1]

ClaimModelRequest_JournalUnread(i, r) ==
  LET w == worlds[i]
      request == w.state.requests[r] IN
  /\ request.status = "pending"
  /\ Enter(w, request.key, "claimed")
  /\ IF RevisionsLeft(w) /\ w.state.events < EventLimit
     THEN /\ Becomes(i, Committed(w, Claimed(w.state, r)))
          /\ launches' = [launches EXCEPT ![<<w.journal, request.key>>] = @ + 1]
     ELSE UNCHANGED <<worlds, made, launches>>
  /\ UNCHANGED <<snap, nextWorldId, issued, mixed>>

(* claim_model_request: the journal first, then a transaction, which fails  *)
(* when the event log is full or revisions are exhausted.  Success is what  *)
(* the host waits for before it launches the provider.                      *)
ClaimModelRequest(i, r) ==
  LET w == worlds[i]
      request == w.state.requests[r] IN
  /\ request.status = "pending"
  /\ ~Journaled(w, request.key)
  /\ Enter(w, request.key, "claimed")
  /\ IF RevisionsLeft(w) /\ w.state.events < EventLimit
     THEN /\ Becomes(i, Committed(w, Claimed(w.state, r)))
          /\ launches' = [launches EXCEPT ![<<w.journal, request.key>>] = @ + 1]
     ELSE UNCHANGED <<worlds, made, launches>>
  /\ UNCHANGED <<snap, nextWorldId, issued, mixed>>

(* The result is an event, and then a message to the requester or the       *)
(* record that it was dropped, when there is room for one more event.       *)
Completed(state, r) ==
  [state EXCEPT !.requests[r].status = "completed",
                !.events = IF state.events + 1 < EventLimit THEN @ + 2 ELSE @ + 1]

(* complete_model_request: a completion names its request and its key; the  *)
(* journal must know the key.  Again the journal first.                     *)
CompleteModelRequest(i, r, key) ==
  LET w == worlds[i]
      request == w.state.requests[r] IN
  /\ request # NoRequest
  /\ request.key = key
  /\ request.status # "completed"
  /\ Journaled(w, key)
  /\ Enter(w, key, "completed")
  /\ IF RevisionsLeft(w) /\ w.state.events < EventLimit
     THEN Becomes(i, Committed(w, Completed(w.state, r)))
     ELSE UNCHANGED <<worlds, made>>
  /\ UNCHANGED <<snap, nextWorldId, launches, issued, mixed>>
-----------------------------------------------------------------------------
(* Leaving and returning to states.                                         *)

Rollback_CounterToo(i) ==
  LET w == worlds[i]
      last == w.history[Len(w.history)] IN
  /\ w.history # <<>>
  /\ Becomes(i, [w EXCEPT !.history = SubSeq(@, 1, Len(@) - 1),
                          !.nextRevision = last.revision + 1,
                          !.revision = last.revision, !.state = last.state])
  /\ UNCHANGED <<journals, snap, nextWorldId, launches, issued, mixed>>

Rollback_JournalToo(i) ==
  LET w == worlds[i]
      last == w.history[Len(w.history)] IN
  /\ w.history # <<>>
  /\ Becomes(i, [w EXCEPT !.history = SubSeq(@, 1, Len(@) - 1),
                          !.revision = last.revision, !.state = last.state])
  /\ journals' = [journals EXCEPT ![w.journal] = <<>>]
  /\ UNCHANGED <<snap, nextWorldId, launches, issued, mixed>>

Rollback(i) ==
  LET w == worlds[i]
      last == w.history[Len(w.history)] IN
  /\ w.history # <<>>
  /\ Becomes(i, [w EXCEPT !.history = SubSeq(@, 1, Len(@) - 1),
                          !.revision = last.revision, !.state = last.state])
  /\ UNCHANGED <<journals, snap, nextWorldId, launches, issued, mixed>>

TakeSnapshot(i) ==
  LET w == worlds[i] IN
  /\ snap' = [state |-> w.state, revision |-> w.revision,
              nextRevision |-> w.nextRevision, nextCapability |-> w.nextCapability,
              id |-> w.id, epoch |-> w.epoch, journal |-> w.journal]
  /\ mixed' = IF i \in mixed THEN mixed \cup {0} ELSE mixed \ {0}
  /\ UNCHANGED <<worlds, journals, nextWorldId, launches, made, issued>>

RestoreSnapshot_CountersToo(i) ==
  LET w == worlds[i] IN
  /\ snap # NoSnapshot /\ RevisionsLeft(w)
  /\ Becomes(i, [Committed(w, snap.state) EXCEPT
                   !.nextCapability = snap.nextCapability,
                   !.epoch = snap.epoch + 1])
  /\ mixed' = IF 0 \in mixed \/ snap.journal # w.journal THEN mixed \cup {i} ELSE mixed
  /\ UNCHANGED <<journals, snap, nextWorldId, launches, issued>>

(* A snapshot becomes the newest revision of a world and ends its authority *)
(* epoch.  The journal stays the world's own.                               *)
RestoreSnapshot(i) ==
  LET w == worlds[i] IN
  /\ snap # NoSnapshot /\ RevisionsLeft(w)
  /\ Becomes(i, [Committed(w, snap.state) EXCEPT
                   !.nextCapability = IF @ < snap.nextCapability
                                      THEN snap.nextCapability ELSE @,
                   !.epoch = @ + 1])
  /\ mixed' = IF 0 \in mixed \/ snap.journal # w.journal THEN mixed \cup {i} ELSE mixed
  /\ UNCHANGED <<journals, snap, nextWorldId, launches, issued>>

(* A further World value in slot i.                                         *)
Opens(i, w) ==
  /\ worlds[i] = NoWorld
  /\ worlds' = [worlds EXCEPT ![i] = w]
  /\ made' = [made EXCEPT ![i] = {Named(w)}]

(* from_snapshot: the same identity, epoch and journal, no history.         *)
FromSnapshot(i) ==
  /\ snap # NoSnapshot
  /\ Opens(i, [state |-> snap.state, revision |-> snap.revision,
               nextRevision |-> snap.nextRevision,
               nextCapability |-> snap.nextCapability, history |-> <<>>,
               limit |-> HistoryLimit, id |-> snap.id, epoch |-> snap.epoch,
               journal |-> snap.journal])
  /\ mixed' = IF 0 \in mixed THEN mixed \cup {i} ELSE mixed
  /\ UNCHANGED <<journals, snap, nextWorldId, launches, issued>>

(* fork_isolated: the state, pending requests and all, under a new identity *)
(* with a journal of its own.                                               *)
ForkIsolated(j, i) ==
  LET w == worlds[j] IN
  /\ Opens(i, [w EXCEPT !.nextCapability = 1, !.history = <<>>,
                        !.id = nextWorldId, !.epoch = 1, !.journal = i])
  /\ nextWorldId' = nextWorldId + 1 /\ mixed' = mixed \cup {i}
  /\ UNCHANGED <<journals, snap, launches, issued>>

(* to_canonical and from_canonical: the header keeps the identity and the   *)
(* counters; the journal and the history are not in the file.               *)
FromCanonical(i) ==
  /\ snap # NoSnapshot
  /\ Opens(i, [state |-> snap.state, revision |-> snap.revision,
               nextRevision |-> snap.nextRevision,
               nextCapability |-> snap.nextCapability, history |-> <<>>,
               limit |-> 0, id |-> snap.id, epoch |-> snap.epoch, journal |-> i])
  /\ nextWorldId' = nextWorldId + 1 /\ mixed' = mixed \cup {i}
  /\ UNCHANGED <<journals, snap, launches, issued>>

WorldNext ==
  \/ \E i \in Live :
       \/ IssueCapability(i)
       \/ \E c \in issued[i] : EvaluateSpawn(i, c)
       \/ \E p \in Prompts : EvaluateRequest(i, p)
       \/ \E r \in RequestIds : ClaimModelRequest(i, r)
       \/ \E r \in RequestIds, p \in DOMAIN launches :
            launches[p] > 0 /\ CompleteModelRequest(i, r, p[2])
       \/ Rollback(i) \/ TakeSnapshot(i) \/ RestoreSnapshot(i)
       \/ \E j \in Instances : ForkIsolated(i, j)
  \/ \E i \in Instances : FromSnapshot(i) \/ FromCanonical(i)

WorldSpec == WorldInit /\ [][WorldNext]_worldVars
-----------------------------------------------------------------------------
(* Properties.                                                              *)

WorldRecords ==
  [state : States, revision : 0 .. MaxRevision, nextRevision : 1 .. MaxRevision,
   nextCapability : 1 .. MaxCapability + 1,
   history : Seq([revision : 0 .. MaxRevision, state : States]),
   limit : {0, HistoryLimit}, id : Instances, epoch : Nat \ {0},
   journal : Instances]

(* Every World value is well formed: its ring is no longer than its limit   *)
(* (Remember) and its journal only holds claims and completions.            *)
WorldTypeOK ==
  /\ \A i \in Live : /\ worlds[i] \in WorldRecords
                     /\ Len(worlds[i].history) <= worlds[i].limit
  /\ \A i \in Instances : /\ DOMAIN journals[i] \subseteq EffectKeys
                          /\ Range(journals[i]) \subseteq {"claimed", "completed"}
  /\ nextWorldId \in 1 .. Cardinality(Instances) + 1
  /\ mixed \subseteq Instances \cup {0}

(* A revision number names one state of a world for ever: rollback returns  *)
(* to exactly the state the number named, and a number is never used for    *)
(* another state, though rollback leaves the counter alone (world.rs:771).  *)
RevisionsNameStates ==
  \A i \in Live :
    /\ \A m, n \in made[i] : m.revision = n.revision => m = n
    /\ Range(worlds[i].history) \cup {Named(worlds[i])} \subseteq made[i]

(* A world never issues one capability identifier twice, restores included  *)
(* (next_capability_id, world.rs:420).                                      *)
CapabilityIdsUnique ==
  \A i \in Instances : \A c, d \in issued[i] : c.id = d.id => c = d

(* A number one World value has given out, to a revision or to a capability,*)
(* stands for one thing as long as it lives, whatever is rolled back or     *)
(* restored in it.  (A value opened from a snapshot or a file goes on from  *)
(* the counters it was saved with, under the same identity and epoch, and   *)
(* gives the same numbers again: that is another value's history.)          *)
NumbersAreFinal == WorldTypeOK /\ RevisionsNameStates /\ CapabilityIdsUnique

(* No provider is launched twice for one effect key by the worlds that      *)
(* share a journal, whatever is rolled back, restored or opened from a      *)
(* snapshot between the two claims (claim_model_request, world.rs:654).     *)
LaunchedOnce == \A p \in DOMAIN launches : launches[p] <= 1

(* A request that shows as in doubt or answered is in the journal of its    *)
(* world, so its result can still be delivered, whatever is rolled back,    *)
(* restored or opened from a snapshot.  Left out are the worlds that got a  *)
(* state reached under another journal: forks and files, which start one of *)
(* their own (world.rs:787, 979), and whoever restored a snapshot of such.  *)
InDoubtIsJournaled ==
  \A i \in Live \ mixed : \A r \in RequestIds :
    worlds[i].state.requests[r].status \in {"dispatching", "completed"}
      => Journaled(worlds[i], worlds[i].state.requests[r].key)

(* Restoring a snapshot makes every capability this world handed out before *)
(* inert in it, and what is inert stays so: no later rollback or restore    *)
(* revives it (restore_snapshot, world.rs:421).  A sibling opened from the  *)
(* same snapshot counts its own epochs; its capabilities are not covered.   *)
RestoreEndsAuthority ==
  [][\A i \in Live : \A c \in issued[i] :
       RestoreSnapshot(i) \/ ~Permits(c, worlds[i])
         => ~Permits(c, worlds'[i])]_worldVars

(* The family of worlds around the live one implements the ledger of its    *)
(* effects: what was claimed stays claimed.                                 *)
Ledger == INSTANCE EffectLedger WITH
  Keys <- EffectKeys,
  ledger <- [k \in EffectKeys |-> IF k \in DOMAIN journals[1]
                                  THEN journals[1][k] ELSE "free"],
  dispatched <- {k \in EffectKeys : launches[<<1, k>>] > 0}

ImplementsLedger == Ledger!LedgerSpec
=============================================================================
