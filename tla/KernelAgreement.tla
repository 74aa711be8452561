--------------------------- MODULE KernelAgreement ---------------------------
(***************************************************************************)
(* The two implementations of the kernel contract, given the same requests: *)
(* the reference model (model.rs: KernelMemory, and here its endpoint,      *)
(* notification and clock) and the independent one (independent.rs), which  *)
(* seL4's broker and the trap gate answer with.  Each has a state of its    *)
(* own.  The corpus compares 118 answers in one order; this module compares *)
(* the answers after every sequence of requests, but for the requests that  *)
(* are known to be answered differently (Pinned).                           *)
(***************************************************************************)
EXTENDS KernelMemory, Sequences

CONSTANTS
  QueueLimit,   \* CONFORMANCE_ENDPOINT_CAPACITY
  MaxSends,     \* bound on the messages accepted
  MaxClock,     \* bound on the readings of the clock
  Subjects,     \* the slots a request may be invoked on
  Sources,      \* the index words it may carry as its source
  Profiles      \* what is published, which of it a behaviour asks for, and how
                \* many capabilities it makes (a bound)

Groups == {"core", "capability", "endpoint", "notification", "clock", "memory"}
V1Profile == Groups \ {"memory"}

ASSUME AgreementConstants ==
  /\ QueueLimit \in Nat \ {0} /\ {MaxSends, MaxClock} \subseteq Nat
  /\ Profiles \subseteq [published : {V1Profile, Groups}, asks : SUBSET Groups,
                        derives : Nat]

VARIABLES
  ipc,      \* the reference's queue, notification and clock
  ind,      \* the independent implementation
  profile,  \* one of Profiles
  received  \* history: how many messages were received

agreeVars == <<slots, nextId, frames, window, ipc, ind, profile, received>>

\* The requests of each group: an operation, the slot it is invoked on,
\* whether the words it does not read are zero, and those it reads.
PageArgs == Pages \cup {NPages}

Requests ==
  [core |-> [op : {"nop", "boot.info"}, c : {0, CNodeSlot}, w : BOOLEAN],
   capability |->
     [op : {"cap.copy", "cap.move"}, c : Subjects, w : BOOLEAN, s : Sources, d : DestArgs]
     \cup [op : {"cap.mint"}, c : Subjects, w : {TRUE}, s : Sources, d : DestArgs,
           r : RightsArgs, b : Badges]
     \cup [op : {"cap.attenuate"}, c : Subjects, w : BOOLEAN, s : Sources, r : RightsArgs]
     \cup [op : {"cap.revoke"}, c : Subjects, w : BOOLEAN, s : Sources],
   endpoint |->
     [op : {"endpoint.send", "endpoint.receive", "endpoint.call", "endpoint.reply"},
      c : Subjects, w : BOOLEAN],
   notification |->
     [op : {"notification.signal", "notification.poll", "notification.wait"},
      c : Subjects, w : BOOLEAN],
   clock |-> [op : {"clock.now"}, c : Subjects, w : BOOLEAN],
   memory |->
     [op : {"frame.reclaim"}, c : Subjects, w : BOOLEAN]
     \cup [op : {"frame.allocate"}, c : Subjects, w : BOOLEAN, d : DestArgs, r : MemRights]
     \cup [op : {"frame.share"}, c : Subjects, w : BOOLEAN, d : DestArgs, r : MemRights,
           b : Badges]
     \cup [op : {"frame.map", "as.protect"}, c : Subjects, w : BOOLEAN, p : PageArgs,
           r : MemRights]
     \cup [op : {"as.map"}, c : Subjects, w : BOOLEAN, s : Sources, p : PageArgs,
           r : MemRights]
     \cup [op : {"as.unmap", "as.query"}, c : Subjects, w : BOOLEAN, p : PageArgs]]

-----------------------------------------------------------------------------
\* The reference model's endpoint, notification and clock.  A message is its
\* sender's badge and a word that numbers it; badges that were ORed together
\* are the set of them.

IpcInit == [queue |-> <<>>, sent |-> 0, pending |-> FALSE, badges |-> {}, clock |-> 0]

Sending(c)   == ResolveTyped(c, "endpoint", {"send"})
Receiving(c) == ResolveTyped(c, "endpoint", {"receive"})
Waiting(c)   == ResolveTyped(c, "notification", {"receive"})

EndpointSendStatus(c, w) ==
  Sending(c) ?? Reserved(w) ?? Require(Len(ipc.queue) < QueueLimit, "queue-full")

EndpointSend(c) ==
  ipc' = [ipc EXCEPT !.queue = Append(@, [badge |-> slots[c].badge, word |-> ipc.sent + 1]),
                     !.sent = @ + 1]

EndpointReceiveStatus(c, w) ==
  Receiving(c) ?? Reserved(w) ?? Require(ipc.queue # <<>>, "would-block")

\* Mutant: the messages behind the first are not moved up.
EndpointReceive_NotMoved == ipc' = [ipc EXCEPT !.queue = SubSeq(@, 1, Len(@) - 1)]

EndpointReceive == ipc' = [ipc EXCEPT !.queue = Tail(@)]

\* Nobody can be called, and nobody has called: the flags word is not read.
EndpointCallStatus(c)  == Sending(c) ?? "would-block"
EndpointReplyStatus(c) == Sending(c) ?? "not-found"

NotificationSignalStatus(c, w) ==
  ResolveTyped(c, "notification", {"send"}) ?? Reserved(w)

NotificationSignal(c) ==
  ipc' = [ipc EXCEPT !.pending = TRUE, !.badges = @ \cup {slots[c].badge}]

NotificationPollStatus(c, w) == Waiting(c) ?? Reserved(w)

NotificationWaitStatus(c, w) ==
  Waiting(c) ?? Require(ipc.pending, "would-block") ?? Reserved(w)

NotificationPoll == ipc' = [ipc EXCEPT !.pending = FALSE, !.badges = {}]

ClockNowStatus(c, w) == ResolveTyped(c, "clock", {"read"}) ?? Reserved(w)

ClockNow == ipc' = [ipc EXCEPT !.clock = @ + 1]

AsQueryStatus(c, w, p) ==
  AddressSpace(c) ?? Reserved(w) ?? PageInWindow(p) ?? IsMapped(p)

NopStatus(c)         == Require(c = 0, "invalid-argument")
BootInfoStatus(c, w) == Require(c = 0, "invalid-argument") ?? Reserved(w)

\* ModelKernel::invoke.
ReferenceStatus(g, q) ==
  Require(g \in profile.published, "invalid-operation") ??
  CASE q.op = "nop"                 -> NopStatus(q.c)
    [] q.op = "boot.info"           -> BootInfoStatus(q.c, q.w)
    [] q.op = "cap.copy"            -> CapCopyStatus(q.c, q.w, q.s, q.d)
    [] q.op = "cap.mint"            -> CapMintStatus(q.c, q.s, q.d, q.r)
    [] q.op = "cap.attenuate"       -> CapAttenuateStatus(q.c, q.w, q.s, q.r)
    [] q.op = "cap.move"            -> CapMoveStatus(q.c, q.w, q.s, q.d)
    [] q.op = "cap.revoke"          -> CapRevokeStatus(q.c, q.w, q.s)
    [] q.op = "endpoint.send"       -> EndpointSendStatus(q.c, q.w)
    [] q.op = "endpoint.receive"    -> EndpointReceiveStatus(q.c, q.w)
    [] q.op = "endpoint.call"       -> EndpointCallStatus(q.c)
    [] q.op = "endpoint.reply"      -> EndpointReplyStatus(q.c)
    [] q.op = "notification.signal" -> NotificationSignalStatus(q.c, q.w)
    [] q.op = "notification.poll"   -> NotificationPollStatus(q.c, q.w)
    [] q.op = "notification.wait"   -> NotificationWaitStatus(q.c, q.w)
    [] q.op = "clock.now"           -> ClockNowStatus(q.c, q.w)
    [] q.op = "frame.allocate"      -> FrameAllocateStatus(q.c, q.w, q.d, q.r)
    [] q.op = "frame.map"           -> FrameMapStatus(q.c, q.w, q.p, q.r)
    [] q.op = "frame.share"         -> FrameShareStatus(q.c, q.w, q.d, q.r)
    [] q.op = "frame.reclaim"       -> FrameReclaimStatus(q.c, q.w)
    [] q.op = "as.map"              -> AsMapStatus(q.c, q.w, q.s, q.p, q.r)
    [] q.op = "as.unmap"            -> AsUnmapStatus(q.c, q.w, q.p)
    [] q.op = "as.protect"          -> AsProtectStatus(q.c, q.w, q.p, q.r)
    [] q.op = "as.query"            -> AsQueryStatus(q.c, q.w, q.p)

\* The words of an answer that is "ok"; what a reclaim counts is <<pages, slots>>.
ReferenceWords(q) ==
  CASE q.op = "nop"        -> <<"version">>
    [] q.op = "boot.info"  -> <<"version", NSlots, QueueLimit, profile.published>>
    [] q.op \in {"cap.copy", "cap.mint", "frame.allocate", "frame.share"} -> <<nextId>>
    [] q.op \in {"cap.attenuate", "as.protect"} -> <<q.r>>
    [] q.op = "cap.move"   -> <<slots[q.s].id>>
    [] q.op = "cap.revoke" -> <<Cardinality(Doomed(slots[q.s].id))>>
    [] q.op = "endpoint.send"    -> <<Len(ipc.queue) + 1>>
    [] q.op = "endpoint.receive" -> <<ipc.queue[1].badge, ipc.queue[1].word>>
    [] q.op = "notification.signal" -> <<>>
    [] q.op \in {"notification.poll", "notification.wait"} -> <<ipc.pending, ipc.badges>>
    [] q.op = "clock.now"  -> <<ipc.clock>>
    [] q.op \in {"frame.map", "as.map"} -> <<q.p>>
    [] q.op = "frame.reclaim" ->
         <<Cardinality(Mappings(slots[q.c].target)), Cardinality(Doomed(slots[q.c].id))>>
    [] q.op = "as.unmap"   -> <<window[q.p].frame>>
    [] q.op = "as.query"   -> <<window[q.p].frame, window[q.p].rights>>

ReferenceAnswer(g, q) ==
  LET status == ReferenceStatus(g, q) IN
  <<status, IF status = "ok" THEN ReferenceWords(q) ELSE <<>>>>

Ipc(q) ==
  \/ q.op = "endpoint.send" /\ ipc.sent < MaxSends /\ EndpointSend(q.c)
  \/ q.op = "endpoint.receive" /\ EndpointReceive
  \/ q.op = "notification.signal" /\ NotificationSignal(q.c)
  \/ q.op \in {"notification.poll", "notification.wait"} /\ NotificationPoll
  \/ q.op = "clock.now" /\ ipc.clock < MaxClock /\ ClockNow

Capability(q) ==
  \/ q.op = "cap.copy" /\ CapCopy(q.c, q.s, q.d)
  \/ q.op = "cap.mint" /\ CapMint(q.c, q.s, q.d, q.r, q.b)
  \/ q.op = "cap.attenuate" /\ CapAttenuate(q.c, q.s, q.r)
  \/ q.op = "cap.move" /\ CapMove(q.c, q.s, q.d)
  \/ q.op = "cap.revoke" /\ CapRevoke(q.c, q.s)

Memory(q) ==
  \/ q.op = "frame.allocate" /\ FrameAllocate(q.c, q.d, q.r)
  \/ q.op = "frame.share" /\ FrameShare(q.c, q.d, q.r, q.b)
  \/ q.op = "frame.map" /\ FrameMap(q.c, q.p, q.r)
  \/ q.op = "frame.reclaim" /\ FrameReclaim(q.c)
  \/ q.op = "as.map" /\ AsMap(q.c, q.s, q.p, q.r)
  \/ q.op = "as.unmap" /\ AsUnmap(q.c, q.p)
  \/ q.op = "as.protect" /\ AsProtect(q.c, q.p, q.r)

ReferenceStep(q) ==
  \/ Ipc(q) /\ UNCHANGED kernVars
  \/ Capability(q) /\ UNCHANGED <<frames, window, ipc>>
  \/ Memory(q) /\ UNCHANGED ipc
-----------------------------------------------------------------------------
\* The independent implementation: an object table, capabilities that index
\* it, and a ring of messages.  Each arm of invoke_checked is a reply: the
\* first check that fails, or the words of the answer and the state after it.

FrameZero        == 3     \* OBJECT_FRAME_0
FirstBudgetFrame == 6
Objects          == 0 .. 4 + NFrames

ObjectKind(o) ==
  CASE o = 0 -> "cnode" [] o = 1 -> "endpoint" [] o = 2 -> "notification"
    [] o = 4 -> "clock" [] o = 5 -> "address-space" [] OTHER -> "frame"

FrameNumber(o) == IF o = FrameZero THEN 0 ELSE o - FirstBudgetFrame + 1

NoCapability == [is |-> "empty"]
Dead         == [is |-> "tombstone"]
NoFrame      == 0      \* no page maps object 0, the cnode
Blank        == [frame |-> NoFrame, rights |-> {}]

Capable(object, rights, badge, id, parent) ==
  [is |-> "live", object |-> object, rights |-> rights, badge |-> badge,
   id |-> id, parent |-> parent]

IndInit ==
  [slots |-> [i \in SlotIndex |->
      IF i \in Installed
      THEN Capable(i - 1, DomainRights(i), IF i = NotificationSlot THEN 1 ELSE 0, i, 0)
      ELSE NoCapability],
   nextId |-> FirstFree,
   live   |-> {o \in Objects : o < FirstBudgetFrame},
   pages  |-> [p \in Pages |-> Blank],
   ring   |-> [k \in 0 .. QueueLimit - 1 |-> [badge |-> 0, word |-> 0]],
   head |-> 0, length |-> 0, pending |-> FALSE, badges |-> {}, ticks |-> 0]

IHeld(i) == ind.slots[i]

ICapability(i) ==
  IF i \notin SlotIndex THEN "invalid-capability"
  ELSE CASE IHeld(i) = NoCapability -> "invalid-capability"
         [] IHeld(i) = Dead         -> "revoked"
         [] OTHER                   -> "ok"

\* A slot named by an argument word of a cap.* operation: a word too wide for
\* a slot number is no capability here, and a bad argument to the reference.
ISubject(i) == Require(i <= MaxIndex, "invalid-capability") ?? ICapability(i)

ITyped(i, kind) ==
  ICapability(i) ?? Require(ObjectKind(IHeld(i).object) = kind, "wrong-object-type")

IRequire(i, rights) == Require(rights \subseteq IHeld(i).rights, "insufficient-rights")

ICNode(c) == ITyped(c, "cnode") ?? IRequire(c, {"control"})
ISpace(c) == ITyped(c, "address-space") ?? IRequire(c, {"control"})

IDestination(d) ==
  Require(d \in SlotIndex \ {0}, "invalid-argument")
    ?? Require(IHeld(d) \in {NoCapability, Dead}, "already-exists")

IPage(p) == Require(p \in Pages, "invalid-argument")

IMappingRights(r) ==
  DefinedRights(r) ?? Require(r # {} /\ r \subseteq MappingRights, "invalid-argument")

IPermittedTogether(r) == Require(~({"write", "execute"} \subseteq r), "not-permitted")

IOccupied(p) == Require(ind.pages[p].frame # NoFrame, "not-found")

\* The identities from one up to its root, in the table as it stands: a parent
\* has the smaller identity.
Lineage(id) ==
  LET held == {IHeld(i) : i \in {j \in SlotIndex : ICapability(j) = "ok"}}
      up[n \in 0 .. id] ==
        {n} \cup UNION {up[h.parent] : h \in {h \in held : h.id = n /\ n # 0}} IN
  up[id]

\* Mutant: only the children of the one revoked.
IDescendants_Children(root) ==
  {i \in SlotIndex : ICapability(i) = "ok" /\ IHeld(i).parent = root}

\* What a revocation of identity root kills, found on a snapshot of the table.
IDescendants(root) ==
  {i \in SlotIndex : /\ ICapability(i) = "ok" /\ IHeld(i).id # root
                     /\ root \in Lineage(IHeld(i).id)}

IKilled(dead) == [i \in SlotIndex |-> IF i \in dead THEN Dead ELSE IHeld(i)]

IMapped(o) == {p \in Pages : ind.pages[p].frame = o}

Reply(status, words, after) ==
  IF status = "ok" THEN [answer |-> <<"ok", words>>, after |-> after]
                   ELSE [answer |-> <<status, <<>>>>, after |-> ind]

\* A capability derived into slot d of k.
IDerived(k, d, object, rights, badge, parent) ==
  [k EXCEPT !.slots[d] = Capable(object, rights, badge, k.nextId, parent),
            !.nextId = @ + 1]

INop(q) == Reply(Require(q.c = 0 /\ q.w, "invalid-argument"), <<"version">>, ind)

IBootInfo(q) ==
  Reply(Require(q.c = 0 /\ q.w, "invalid-argument"),
        <<"version", NSlots, QueueLimit, profile.published>>, ind)

IFrameAllocate(q) ==
  LET unallocated == Objects \ ind.live
      object == CHOOSE o \in unallocated : \A n \in unallocated : o <= n IN
  Reply(ICNode(q.c) ?? Reserved(q.w) ?? DefinedRights(q.r)
          ?? Require(q.r # {} /\ q.r \subseteq FrameRights, "invalid-argument")
          ?? IDestination(q.d) ?? Require(unallocated # {}, "resource-exhausted"),
        <<ind.nextId>>,
        IDerived([ind EXCEPT !.live = @ \cup {object}], q.d, object, q.r, 0, 0))

\* map, the shared tail of frame.map and as.map.
IMap(checked, s, p, r) ==
  Reply(checked ?? IPage(p) ?? IMappingRights(r) ?? IRequire(s, r)
          ?? IPermittedTogether(r)
          ?? Require(ind.pages[p].frame = NoFrame, "already-exists"),
        <<p>>,
        [ind EXCEPT !.pages[p] = [frame |-> IHeld(s).object, rights |-> r]])

IFrameMap(q) == IMap(ITyped(q.c, "frame") ?? Reserved(q.w), q.c, q.p, q.r)

IFrameShare(q) ==
  Reply(ITyped(q.c, "frame") ?? IRequire(q.c, {"grant"}) ?? Reserved(q.w)
          ?? DefinedRights(q.r) ?? IRequire(q.c, q.r) ?? IDestination(q.d),
        <<ind.nextId>>,
        IDerived(ind, q.d, IHeld(q.c).object, q.r, q.b, IHeld(q.c).id))

IFrameReclaim(q) ==
  LET frame == IHeld(q.c)
      derived == IDescendants(frame.id) IN
  Reply(ITyped(q.c, "frame") ?? Reserved(q.w)
          ?? Require(frame.parent = 0 /\ frame.object # FrameZero, "not-permitted"),
        <<Cardinality(IMapped(frame.object)), Cardinality(derived)>>,
        [ind EXCEPT !.pages = [p \in Pages |->
                                 IF p \in IMapped(frame.object) THEN Blank ELSE @[p]],
                    !.slots = [IKilled(derived) EXCEPT ![q.c] = NoCapability],
                    !.live = @ \ {frame.object}])

IAsMap(q) ==
  IMap(ISpace(q.c) ?? Reserved(q.w) ?? IndexWord(q.s) ?? ITyped(q.s, "frame"),
       q.s, q.p, q.r)

IAsUnmap(q) ==
  Reply(ISpace(q.c) ?? Reserved(q.w) ?? IPage(q.p) ?? IOccupied(q.p),
        <<FrameNumber(ind.pages[q.p].frame)>>, [ind EXCEPT !.pages[q.p] = Blank])

IAsProtect(q) ==
  Reply(ISpace(q.c) ?? Reserved(q.w) ?? IPage(q.p) ?? IMappingRights(q.r)
          ?? IOccupied(q.p)
          ?? Require(q.r \subseteq ind.pages[q.p].rights, "insufficient-rights")
          ?? IPermittedTogether(q.r),
        <<q.r>>, [ind EXCEPT !.pages[q.p].rights = q.r])

IAsQuery(q) ==
  Reply(ISpace(q.c) ?? Reserved(q.w) ?? IPage(q.p) ?? IOccupied(q.p),
        <<FrameNumber(ind.pages[q.p].frame), ind.pages[q.p].rights>>, ind)

ICapCopy(q) ==
  Reply(ICNode(q.c) ?? ISubject(q.s) ?? Reserved(q.w) ?? IDestination(q.d),
        <<ind.nextId>>,
        IDerived(ind, q.d, IHeld(q.s).object, IHeld(q.s).rights, IHeld(q.s).badge,
                 IHeld(q.s).id))

ICapMint(q) ==
  Reply(ICNode(q.c) ?? ISubject(q.s) ?? DefinedRights(q.r) ?? IRequire(q.s, q.r)
          ?? IDestination(q.d),
        <<ind.nextId>>,
        IDerived(ind, q.d, IHeld(q.s).object, q.r, q.b, IHeld(q.s).id))

ICapAttenuate(q) ==
  Reply(ICNode(q.c) ?? Reserved(q.w) ?? ISubject(q.s) ?? DefinedRights(q.r)
          ?? IRequire(q.s, q.r),
        <<q.r>>, [ind EXCEPT !.slots[q.s].rights = q.r])

ICapMove(q) ==
  Reply(ICNode(q.c) ?? Reserved(q.w) ?? ISubject(q.s) ?? IDestination(q.d),
        <<IHeld(q.s).id>>,
        [ind EXCEPT !.slots = [@ EXCEPT ![q.s] = NoCapability, ![q.d] = IHeld(q.s)]])

ICapRevoke(q) ==
  LET derived == IDescendants(IHeld(q.s).id) IN
  Reply(ICNode(q.c) ?? Reserved(q.w) ?? ISubject(q.s),
        <<Cardinality(derived)>>, [ind EXCEPT !.slots = IKilled(derived)])

\* Mutant: the tail is not taken modulo the ring.
Tail_Unwrapped == IF ind.head + ind.length < QueueLimit THEN ind.head + ind.length
                                                       ELSE QueueLimit - 1
RingTail == (ind.head + ind.length) % QueueLimit

IEndpointSend(q) ==
  Reply(ITyped(q.c, "endpoint") ?? IRequire(q.c, {"send"}) ?? Reserved(q.w)
          ?? Require(ind.length # QueueLimit, "queue-full"),
        <<ind.length + 1>>,
        [ind EXCEPT !.ring[RingTail] = [badge |-> IHeld(q.c).badge, word |-> ipc.sent + 1],
                    !.length = @ + 1])

IEndpointReceive(q) ==
  Reply(ITyped(q.c, "endpoint") ?? IRequire(q.c, {"receive"}) ?? Reserved(q.w)
          ?? Require(ind.length # 0, "would-block"),
        <<ind.ring[ind.head].badge, ind.ring[ind.head].word>>,
        [ind EXCEPT !.head = (@ + 1) % QueueLimit, !.length = @ - 1])

IEndpointCall(q) ==
  Reply(ITyped(q.c, "endpoint") ?? IRequire(q.c, {"send"}) ?? Reserved(q.w)
          ?? "would-block", <<>>, ind)

IEndpointReply(q) ==
  Reply(ITyped(q.c, "endpoint") ?? IRequire(q.c, {"send"}) ?? Reserved(q.w)
          ?? "not-found", <<>>, ind)

INotificationSignal(q) ==
  Reply(ITyped(q.c, "notification") ?? IRequire(q.c, {"send"}) ?? Reserved(q.w), <<>>,
        [ind EXCEPT !.pending = TRUE, !.badges = @ \cup {IHeld(q.c).badge}])

INotificationTake(q) ==
  Reply(ITyped(q.c, "notification") ?? IRequire(q.c, {"receive"}) ?? Reserved(q.w)
          ?? Require(ind.pending \/ q.op = "notification.poll", "would-block"),
        <<ind.pending, ind.badges>>, [ind EXCEPT !.pending = FALSE, !.badges = {}])

IClockNow(q) ==
  Reply(ITyped(q.c, "clock") ?? IRequire(q.c, {"read"}) ?? Reserved(q.w),
        <<ind.ticks>>, [ind EXCEPT !.ticks = @ + 1])

\* IndependentKernel::invoke_checked.
Independent(g, q) ==
  CASE g \notin profile.published ->
         Reply("invalid-operation", <<>>, ind)
    [] OTHER ->
  CASE q.op = "nop"                 -> INop(q)
    [] q.op = "boot.info"           -> IBootInfo(q)
    [] q.op = "cap.copy"            -> ICapCopy(q)
    [] q.op = "cap.mint"            -> ICapMint(q)
    [] q.op = "cap.attenuate"       -> ICapAttenuate(q)
    [] q.op = "cap.move"            -> ICapMove(q)
    [] q.op = "cap.revoke"          -> ICapRevoke(q)
    [] q.op = "endpoint.send"       -> IEndpointSend(q)
    [] q.op = "endpoint.receive"    -> IEndpointReceive(q)
    [] q.op = "endpoint.call"       -> IEndpointCall(q)
    [] q.op = "endpoint.reply"      -> IEndpointReply(q)
    [] q.op = "notification.signal" -> INotificationSignal(q)
    [] q.op \in {"notification.poll", "notification.wait"} -> INotificationTake(q)
    [] q.op = "clock.now"           -> IClockNow(q)
    [] q.op = "frame.allocate"      -> IFrameAllocate(q)
    [] q.op = "frame.map"           -> IFrameMap(q)
    [] q.op = "frame.share"         -> IFrameShare(q)
    [] q.op = "frame.reclaim"       -> IFrameReclaim(q)
    [] q.op = "as.map"              -> IAsMap(q)
    [] q.op = "as.unmap"            -> IAsUnmap(q)
    [] q.op = "as.protect"          -> IAsProtect(q)
    [] q.op = "as.query"            -> IAsQuery(q)
-----------------------------------------------------------------------------
AgreeInit ==
  /\ MemInit /\ ipc = IpcInit /\ ind = IndInit
  /\ profile \in Profiles /\ received = 0

\* The requests the two are known to answer alike.  They differ where the
\* destination is slot 0, which the reference takes for free, or outside the
\* table, where their statuses differ; where the source of a cap.* operation
\* is a word past 32 bits, a bad argument to the one and no capability to the
\* other; in which of two failing checks they report, for cap.copy, cap.mint
\* and notification.wait; in the unread words of nop, endpoint.call and
\* endpoint.reply; and in the last identity, 2^32 or 2^64.
Deriving == {"cap.copy", "cap.mint", "frame.allocate", "frame.share"}
Sourced  == {"cap.copy", "cap.mint", "cap.attenuate", "cap.move", "cap.revoke"}

Pinned(q) ==
  /\ q.op \in Deriving => IdAvailable = "ok"
  /\ q.op \in Deriving \cup {"cap.move"} => q.d \in SlotIndex \ {0}
  /\ q.op \in Sourced => q.s <= MaxIndex
  /\ q.op \in {"cap.copy", "nop", "endpoint.call", "endpoint.reply"} => q.w
  /\ q.op = "cap.mint" => Destination(q.d) = "ok"
  /\ q.op = "notification.wait" => q.w \/ ipc.pending

\* One request given to both.  (One whose unread words are not all zero changes
\* nothing.)
Invoke(g, q) ==
  /\ q.w /\ Pinned(q)
  /\ q.op \in Deriving => nextId < FirstFree + profile.derives
  /\ ReferenceStatus(g, q) = "ok" /\ ReferenceStep(q)
  /\ ind' = Independent(g, q).after
  /\ received' = IF q.op = "endpoint.receive" THEN received + 1 ELSE received
  /\ UNCHANGED profile

AgreeNext == \E g \in profile.asks : \E q \in Requests[g] : Invoke(g, q)

AgreeSpec == AgreeInit /\ [][AgreeNext]_agreeVars

-----------------------------------------------------------------------------
\* Properties.

\* The state of the independent implementation is that of the reference under
\* another representation.
SameCapabilities ==
  \A i \in SlotIndex :
    LET there == IHeld(i)  here == slots[i] IN
    IF ICapability(i) = "ok"
    THEN /\ Live(i)
         /\ there = Capable(there.object, here.rights, here.badge, here.id, here.parent)
         /\ ObjectKind(there.object) = here.kind
         /\ here.kind = "frame" => FrameNumber(there.object) = here.target
    ELSE here = (IF there = Dead THEN Tombstone ELSE EmptySlot)

SameMemory ==
  /\ {f \in FrameIndex : frames[f]} =
       {FrameNumber(o) : o \in {o \in ind.live : ObjectKind(o) = "frame"}}
  /\ \A p \in Pages :
       window[p] = IF ind.pages[p] = Blank THEN Unmapped
                   ELSE [mapped |-> TRUE, frame |-> FrameNumber(ind.pages[p].frame),
                         rights |-> ind.pages[p].rights]

SameMessages ==
  /\ ipc.queue = [k \in 1 .. ind.length |-> ind.ring[(ind.head + k - 1) % QueueLimit]]
  /\ <<ipc.pending, ipc.badges, ipc.clock>> = <<ind.pending, ind.badges, ind.ticks>>

\* Whatever requests came before, refused or not, the two implementations give
\* the same answer, status and words, to whichever request of Pinned comes next
\* (`compare` of conformance.rs, for every order of the requests instead of
\* one), because their states correspond.  What Pinned leaves out is not known
\* to agree; most of it is known not to.
ImplementationsAgree ==
  /\ nextId = ind.nextId /\ SameCapabilities /\ SameMemory /\ SameMessages
  /\ \A g \in Groups : \A q \in Requests[g] :
       Pinned(q) => ReferenceAnswer(g, q) = Independent(g, q).answer

\* Every message accepted by endpoint.send is received once, in the order of
\* acceptance, through whatever copies, moves and revocations of the
\* capabilities to the endpoint: a revocation loses no message, a full queue
\* drops none.
EndpointInOrder ==
  /\ Len(ipc.queue) <= QueueLimit
  /\ [k \in 1 .. Len(ipc.queue) |-> ipc.queue[k].word]
       = [k \in 1 .. ipc.sent - received |-> received + k]
=============================================================================
