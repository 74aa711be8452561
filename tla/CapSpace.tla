------------------------------ MODULE CapSpace ------------------------------
(***************************************************************************)
(* The capability space of a kernel domain, as the reference model of the  *)
(* contract keeps it (crates/agel-kernel-abi/src/model.rs): a table of     *)
(* slots, each empty, a tombstone, or a live capability that knows the     *)
(* capability it was derived from.  The five cap.* operations, each an     *)
(* action guarded by the conjunction of its checks; a request that fails a *)
(* check changes nothing, so it is a stuttering step here and its answer   *)
(* is the value of the ...Status operator.                                 *)
(***************************************************************************)
EXTENDS KernelTypes

CONSTANTS
  NSlots,       \* slots in the table (CONFORMANCE_SLOTS)
  Installed,    \* the slots of the conformance domain that are built
  MaxId,        \* where the derivation counter stops (u32::MAX)
  MaxIndex,     \* the largest index a 32-bit slot number holds (u32::MAX)
  DestArgs,     \* destination slots a request may name
  RightsArgs,   \* rights words a request may carry
  Badges        \* badge words a request may carry

SlotIndex == 0 .. NSlots - 1

\* The well-known slots of the conformance domain (mod slot).
CNodeSlot        == 1
EndpointSlot     == 2
NotificationSlot == 3
FrameSlot        == 4
ClockSlot        == 5
SpaceSlot        == 6
FirstFree        == 7

ASSUME CapConstants ==
  /\ NSlots \in Nat
  /\ Installed \subseteq (SlotIndex \cap (CNodeSlot .. SpaceSlot))
  /\ MaxId \in Nat /\ MaxId >= FirstFree
  /\ MaxIndex \in Nat /\ NSlots <= MaxIndex + 1
  /\ \A r \in RightsArgs : r \subseteq (AllRights \cup {"undefined"})
  /\ Badges \subseteq Nat

VARIABLES
  slots,    \* the slot table
  nextId    \* the next derivation identity

capVars == <<slots, nextId>>

-----------------------------------------------------------------------------
Slot == [kind : Kinds, target : Nat, rights : SUBSET AllRights, badge : Nat,
         id : Nat, parent : Nat, revoked : BOOLEAN]

\* No capability; `gone` when one was here and an ancestor was revoked.
Vacant(gone) == [kind |-> "null", target |-> 0, rights |-> {}, badge |-> 0,
                 id |-> 0, parent |-> 0, revoked |-> gone]
EmptySlot == Vacant(FALSE)
Tombstone == Vacant(TRUE)

Live(i) == slots[i].id # 0

\* What reset_to_conformance_domain installs: the kind, rights and badge of
\* each well-known slot.
DomainKind(i) ==
  CASE i = CNodeSlot -> "cnode"   [] i = EndpointSlot -> "endpoint"
    [] i = NotificationSlot -> "notification"    [] i = FrameSlot -> "frame"
    [] i = ClockSlot -> "clock"   [] OTHER -> "address-space"

DomainRights(i) ==
  CASE i = CNodeSlot -> {"control"}
    [] i = EndpointSlot -> {"send", "receive", "grant"}
    [] i = NotificationSlot -> {"send", "receive"}
    [] i = FrameSlot -> {"read", "write"}
    [] i = ClockSlot -> {"read"}
    [] OTHER -> {"control"}

\* Identities are handed out in construction order, so a root's identity is
\* its slot number.  The frame's target is frame 0.
InstalledRoot(i) ==
  [kind |-> DomainKind(i), target |-> IF i = FrameSlot THEN 0 ELSE i,
   rights |-> DomainRights(i), badge |-> IF i = NotificationSlot THEN 1 ELSE 0,
   id |-> i, parent |-> 0, revoked |-> FALSE]

CapInit ==
  /\ slots = [i \in SlotIndex |->
                IF i \in Installed THEN InstalledRoot(i) ELSE EmptySlot]
  /\ nextId = FirstFree

-----------------------------------------------------------------------------
\* The checks the operations share.

\* A slot named by an argument word has to fit a slot number's width.
IndexWord(i) == Require(i <= MaxIndex, "invalid-argument")

\* A slot as the subject of an operation.
Resolve(i) ==
  IF i \notin SlotIndex THEN "invalid-capability"
  ELSE Require(~slots[i].revoked, "revoked")
         ?? Require(Live(i), "invalid-capability")

\* ... of one kind, carrying some rights.
ResolveTyped(i, kind, required) ==
  Resolve(i) ?? Require(slots[i].kind = kind, "wrong-object-type")
             ?? Require(required \subseteq slots[i].rights, "insufficient-rights")

\* A slot to derive or move into: a tombstone is as free as an empty slot.
Destination(i) ==
  IF i \notin SlotIndex THEN "invalid-capability"
  ELSE Require(slots[i].revoked \/ ~Live(i), "already-exists")

DefinedRights(r) == Require(r \subseteq AllRights, "invalid-argument")

Narrows(r, i) == Require(r \subseteq slots[i].rights, "insufficient-rights")

\* Mutant: the counter reaches its last value and one more.
IdAvailable_OffByOne == Require(nextId <= MaxId, "resource-exhausted")

\* allocate_id: the counter is checked, never wrapped.
IdAvailable == Require(nextId < MaxId, "resource-exhausted")

CNodeControl(c) == ResolveTyped(c, "cnode", {"control"})

\* Mutant: the new capability becomes a sibling of its source, not a child.
DeriveInto_Sibling(d, s, rights, badge) ==
  /\ slots' = [slots EXCEPT ![d] =
                 [kind |-> slots[s].kind, target |-> slots[s].target,
                  rights |-> rights, badge |-> badge,
                  id |-> nextId, parent |-> slots[s].parent, revoked |-> FALSE]]
  /\ nextId' = nextId + 1

\* A capability derived from the one in slot s, put into slot d.
DeriveInto(d, s, rights, badge) ==
  /\ slots' = [slots EXCEPT ![d] =
                 [kind |-> slots[s].kind, target |-> slots[s].target,
                  rights |-> rights, badge |-> badge,
                  id |-> nextId, parent |-> slots[s].id, revoked |-> FALSE]]
  /\ nextId' = nextId + 1

-----------------------------------------------------------------------------
\* The operations.  c is the slot the request invokes, w says whether the
\* reserved words are zero.

CapCopyStatus(c, w, s, d) ==
  CNodeControl(c) ?? Reserved(w) ?? IndexWord(s) ?? Resolve(s)
                  ?? Destination(d) ?? IdAvailable

CapCopy(c, s, d) ==
  /\ CapCopyStatus(c, TRUE, s, d) = "ok"
  /\ DeriveInto(d, s, slots[s].rights, slots[s].badge)

CapMintStatus(c, s, d, r) ==
  CNodeControl(c) ?? IndexWord(s) ?? Resolve(s) ?? Destination(d)
                  ?? DefinedRights(r) ?? Narrows(r, s) ?? IdAvailable

CapMint(c, s, d, r, b) ==
  /\ CapMintStatus(c, s, d, r) = "ok"
  /\ DeriveInto(d, s, r, b)

\* Mutant: attenuation checks that the rights are defined, not that they narrow.
CapAttenuateStatus_Widening(c, w, s, r) ==
  CNodeControl(c) ?? Reserved(w) ?? IndexWord(s) ?? Resolve(s) ?? DefinedRights(r)

CapAttenuateStatus(c, w, s, r) ==
  CNodeControl(c) ?? Reserved(w) ?? IndexWord(s) ?? Resolve(s)
                  ?? DefinedRights(r) ?? Narrows(r, s)

CapAttenuate(c, s, r) ==
  /\ CapAttenuateStatus(c, TRUE, s, r) = "ok"
  /\ slots' = [slots EXCEPT ![s].rights = r]
  /\ UNCHANGED nextId

CapMoveStatus(c, w, s, d) ==
  CNodeControl(c) ?? Reserved(w) ?? IndexWord(s) ?? Resolve(s) ?? Destination(d)
                  ?? Require(d # s, "already-exists")

\* Mutant: the source slot keeps its capability.
CapMove_SourceKept(c, s, d) ==
  /\ CapMoveStatus(c, TRUE, s, d) = "ok"
  /\ slots' = [slots EXCEPT ![d] = slots[s]]
  /\ UNCHANGED nextId

CapMove(c, s, d) ==
  /\ CapMoveStatus(c, TRUE, s, d) = "ok"
  /\ slots' = [slots EXCEPT ![d] = slots[s], ![s] = EmptySlot]
  /\ UNCHANGED nextId

\* The slots a revocation rooted at identity `root` tombstones: the loop of
\* cap_revoke kills a derived capability whose parent is the root or is not
\* in the table any more, until nothing changes.  A set is closed when the
\* loop would stop with exactly that set dead, and the loop reaches the least.
Derived == {i \in SlotIndex : Live(i) /\ slots[i].parent # 0}

\* Mutant: one generation only, a capability whose parent was killed lives on.
Survives_OneGeneration(i, root, dead) == slots[i].parent # root

Survives(i, root, dead) ==
  /\ slots[i].parent # root
  /\ \E j \in SlotIndex \ dead : Live(j) /\ slots[j].id = slots[i].parent

ClosedUnder(root, dead) == \A i \in Derived \ dead : Survives(i, root, dead)

Doomed(root) ==
  {i \in Derived : \A dead \in SUBSET Derived : ClosedUnder(root, dead) => i \in dead}

CapRevokeStatus(c, w, s) ==
  CNodeControl(c) ?? Reserved(w) ?? IndexWord(s) ?? Resolve(s)

CapRevoke(c, s) ==
  /\ CapRevokeStatus(c, TRUE, s) = "ok"
  /\ slots' = [i \in SlotIndex |->
                 IF i \in Doomed(slots[s].id) THEN Tombstone ELSE slots[i]]
  /\ UNCHANGED nextId

CapNext ==
  \E c, s \in SlotIndex :
     \/ \E d \in DestArgs : CapCopy(c, s, d)
     \/ \E d \in DestArgs, r \in RightsArgs, b \in Badges : CapMint(c, s, d, r, b)
     \/ \E r \in RightsArgs : CapAttenuate(c, s, r)
     \/ \E d \in DestArgs : CapMove(c, s, d)
     \/ CapRevoke(c, s)

CapSpec == CapInit /\ [][CapNext]_capVars

-----------------------------------------------------------------------------
\* Properties.

CapTypeOK ==
  /\ slots \in [SlotIndex -> Slot]
  /\ nextId \in FirstFree .. MaxId

\* Identities name capabilities: no two live slots share one, and none is at
\* or past the counter, so an identity is never handed out twice.
IdsUnique ==
  \A i, j \in SlotIndex : Live(i) /\ slots[i].id = slots[j].id => i = j

IdsIssued == \A i \in SlotIndex : Live(i) => slots[i].id < nextId

\* The parent of a derived capability is itself in the table, older, and
\* designates the same object: revocation, which works from parents, can
\* reach every derived capability, and its "parent is gone" case never meets
\* a capability outside the subtree it was asked to revoke.
ParentsLive ==
  \A i \in Derived :
    \E j \in SlotIndex :
      /\ Live(j) /\ slots[j].id = slots[i].parent
      /\ slots[j].id < slots[i].id
      /\ slots[j].kind = slots[i].kind /\ slots[j].target = slots[i].target

\* A slot without a capability holds nothing of the one that was in it, and a
\* tombstone is such a slot.
VacantIsBlank ==
  \A i \in SlotIndex :
    ~Live(i) \/ slots[i].revoked => slots[i] \in {EmptySlot, Tombstone}

\* The table of slots is a forest of derivations at every moment, whatever
\* sequence of derivations, moves and revocations of any part of it came
\* before (derive, cap_move and cap_revoke share it).
DerivationForest == IdsUnique /\ IdsIssued /\ ParentsLive /\ VacantIsBlank

\* The rights held over one object, by all capabilities together.
Authority(kind, target) ==
  UNION {slots[i].rights : i \in
           {j \in SlotIndex : Live(j) /\ slots[j].kind = kind
                                    /\ slots[j].target = target}}

\* No operation, and so no sequence of them, makes the rights held over an
\* object grow: "a capability space can attenuate itself and then cannot
\* restore itself" (docs/kernel-contract.md, Rights), for every object.
AuthorityNeverGrows ==
  [][\A i \in Installed :
        LET kind == InstalledRoot(i).kind  target == InstalledRoot(i).target
        IN  Authority(kind, target)' \subseteq Authority(kind, target)]_capVars

\* A capability found after a step was in the table before it, maybe in
\* another slot and maybe with fewer rights, or it is new, with an identity
\* nobody ever had, made from one that was there and no stronger than it.
SameCapability(new, old) ==
  /\ new.id = old.id /\ new.parent = old.parent /\ new.kind = old.kind
  /\ new.target = old.target /\ new.badge = old.badge
  /\ new.rights \subseteq old.rights

DerivedFrom(new, old) ==
  /\ new.id = nextId /\ new.parent = old.id /\ new.kind = old.kind
  /\ new.target = old.target /\ new.rights \subseteq old.rights

NoForgery ==
  [][\A i \in SlotIndex : slots'[i].id # 0 =>
        \E j \in SlotIndex :
          /\ Live(j)
          /\ SameCapability(slots'[i], slots[j]) \/ DerivedFrom(slots'[i], slots[j])
    ]_capVars

\* The capabilities derived from the one in slot s, directly or through others:
\* the least set that holds its children and the children of its members.
Descends(s, family) ==
  {i \in Derived :
     \/ slots[i].parent = slots[s].id
     \/ \E j \in family : Live(j) /\ slots[j].id = slots[i].parent}

Descendants(s) ==
  {i \in SlotIndex :
     \A family \in SUBSET SlotIndex : Descends(s, family) \subseteq family => i \in family}

\* What a revocation kills is all that descends from the capability it names,
\* through however many derivations and wherever moved to, and nothing else:
\* not an unrelated capability whose parent the loop misses, and not the
\* named capability ("deletes every capability derived from the named one,
\* leaving the named capability itself intact", docs/kernel-contract.md).
RevocationIsExact ==
  \A s \in SlotIndex : Live(s) =>
    Doomed(slots[s].id) = Descendants(s) /\ s \notin Descendants(s)
=============================================================================
