---------------------------- MODULE KernelProofs ----------------------------
(***************************************************************************)
(* Proofs about the kernel contract, for every size of the table, the queue *)
(* and the memory, every set of installed capabilities and every request:   *)
(* about the capability space; about the memory group, whose operations     *)
(* change the table in one of its ways (TableStep), or allocate a root, or  *)
(* reclaim one; and that the two implementations answer alike after every   *)
(* sequence of requests and the endpoint keeps messages in order.           *)
(***************************************************************************)
EXTENDS KernelAgreement, WellFoundedInduction, TLAPS

(***************************************************************************)
(* The capability space.                                                   *)
(***************************************************************************)

-----------------------------------------------------------------------------
\* The checks.

\* A slot that resolves is in the table and holds a live capability.
LEMMA ResolveOk ==
  ASSUME NEW i, Resolve(i) = "ok"
  PROVE  i \in SlotIndex /\ ~slots[i].revoked /\ Live(i)
BY DEF Resolve, Require, ??

\* A destination is in the table and holds none.
LEMMA DestinationOk ==
  ASSUME DerivationForest, NEW i, Destination(i) = "ok"
  PROVE  i \in SlotIndex /\ ~Live(i)
<1>1. i \in SlotIndex /\ (slots[i].revoked \/ ~Live(i))
  BY DEF Destination, Require
<1>2. slots[i].revoked => slots[i].id = 0
  BY <1>1 DEF DerivationForest, VacantIsBlank, EmptySlot, Tombstone, Vacant
<1> QED BY <1>1, <1>2 DEF Live

\* A slot is one record, and its fields are what they were made from.
LEMMA VacantSlot ==
  ASSUME NEW gone \in BOOLEAN
  PROVE  Vacant(gone) \in Slot /\ Vacant(gone).id = 0 /\ Vacant(gone).parent = 0
BY DEF Vacant, Slot, Kinds

-----------------------------------------------------------------------------
\* Deriving a capability from a live one into a vacant slot: what cap.copy,
\* cap.mint and frame.share have in common.
LEMMA DeriveTypeOK ==
  ASSUME CapTypeOK, NEW d \in SlotIndex, NEW s \in SlotIndex,
         NEW r \in SUBSET AllRights, NEW b \in Nat,
         nextId < MaxId, DeriveInto(d, s, r, b)
  PROVE  CapTypeOK'
<1> DEFINE new == [kind |-> slots[s].kind, target |-> slots[s].target,
                   rights |-> r, badge |-> b, id |-> nextId,
                   parent |-> slots[s].id, revoked |-> FALSE]
<1>1. slots[s] \in Slot /\ nextId \in Nat
  BY CapConstants DEF CapTypeOK, FirstFree
<1>2. new \in Slot
  BY <1>1 DEF Slot
<1>3. slots' \in [SlotIndex -> Slot]
  BY <1>2 DEF CapTypeOK, DeriveInto
<1>4. nextId' \in FirstFree .. MaxId
  BY CapConstants DEF CapTypeOK, DeriveInto, FirstFree
<1> QED BY <1>3, <1>4 DEF CapTypeOK

LEMMA DeriveForest ==
  ASSUME CapTypeOK, DerivationForest, NEW d \in SlotIndex, NEW s \in SlotIndex,
         ~Live(d), Live(s), NEW r, NEW b, DeriveInto(d, s, r, b)
  PROVE  DerivationForest'
<1> DEFINE new == [kind |-> slots[s].kind, target |-> slots[s].target,
                   rights |-> r, badge |-> b, id |-> nextId,
                   parent |-> slots[s].id, revoked |-> FALSE]
<1>1. slots' = [slots EXCEPT ![d] = new] /\ nextId' = nextId + 1
  BY DEF DeriveInto
<1>2. slots'[d] = new /\ \A i \in SlotIndex \ {d} : slots'[i] = slots[i]
  BY <1>1 DEF CapTypeOK
<1>3. nextId \in Nat /\ nextId # 0
  BY CapConstants DEF CapTypeOK, FirstFree
<1>4. \A i \in SlotIndex : slots[i].id \in Nat /\ slots[i].parent \in Nat
  BY DEF CapTypeOK, Slot
<1>5. \A i \in SlotIndex : slots[i].id # 0 => slots[i].id < nextId
  BY DEF DerivationForest, IdsIssued, Live
<1>6. d # s
  OBVIOUS
<1>7. IdsUnique'
  BY <1>2, <1>3, <1>4, <1>5 DEF DerivationForest, IdsUnique, Live
<1>8. IdsIssued'
  BY <1>1, <1>2, <1>3, <1>4, <1>5 DEF IdsIssued, Live
<1>9. ParentsLive'
  <2> SUFFICES ASSUME NEW i \in SlotIndex, slots'[i].id # 0, slots'[i].parent # 0
               PROVE  \E j \in SlotIndex :
                        /\ slots'[j].id # 0 /\ slots'[j].id = slots'[i].parent
                        /\ slots'[j].id < slots'[i].id
                        /\ slots'[j].kind = slots'[i].kind
                        /\ slots'[j].target = slots'[i].target
    BY DEF ParentsLive, Derived, Live
  <2>1. CASE i = d
    BY <1>2, <1>5, <1>6, <2>1 DEF Live
  <2>2. CASE i # d
    <3>1. PICK j \in SlotIndex :
             /\ Live(j) /\ slots[j].id = slots[i].parent
             /\ slots[j].id < slots[i].id
             /\ slots[j].kind = slots[i].kind /\ slots[j].target = slots[i].target
      BY <1>2, <2>2 DEF DerivationForest, ParentsLive, Derived, Live
    <3>2. j # d
      BY <3>1
    <3> QED BY <1>2, <2>2, <3>1, <3>2 DEF Live
  <2> QED BY <2>1, <2>2
<1>10. VacantIsBlank'
  BY <1>2, <1>3 DEF DerivationForest, VacantIsBlank, Live, EmptySlot, Tombstone, Vacant
<1> QED BY <1>7, <1>8, <1>9, <1>10 DEF DerivationForest

-----------------------------------------------------------------------------
\* The other steps that touch the table.

LEMMA AttenuateForest ==
  ASSUME CapTypeOK, DerivationForest, NEW s \in SlotIndex, Live(s),
         NEW r \in SUBSET AllRights,
         slots' = [slots EXCEPT ![s].rights = r], nextId' = nextId
  PROVE  CapTypeOK' /\ DerivationForest'
<1>1. slots' \in [SlotIndex -> Slot]
  BY DEF CapTypeOK, Slot
<1>2. CapTypeOK'
  BY <1>1 DEF CapTypeOK
<1>3. \A i \in SlotIndex :
        /\ slots'[i].id = slots[i].id /\ slots'[i].parent = slots[i].parent
        /\ slots'[i].kind = slots[i].kind /\ slots'[i].target = slots[i].target
        /\ slots'[i].revoked = slots[i].revoked
        /\ i # s => slots'[i] = slots[i]
  BY DEF CapTypeOK, Slot
<1>4. ~slots[s].revoked
  BY DEF DerivationForest, VacantIsBlank, Live, EmptySlot, Tombstone, Vacant
<1>5. IdsUnique'
  BY <1>3 DEF DerivationForest, IdsUnique, Live
<1>6. IdsIssued'
  BY <1>3 DEF DerivationForest, IdsIssued, Live
<1>7. ParentsLive'
  BY <1>3 DEF DerivationForest, ParentsLive, Derived, Live
<1>8. VacantIsBlank'
  BY <1>3, <1>4 DEF DerivationForest, VacantIsBlank, Live, EmptySlot, Tombstone, Vacant
<1> QED BY <1>2, <1>5, <1>6, <1>7, <1>8 DEF DerivationForest

LEMMA MoveForest ==
  ASSUME CapTypeOK, DerivationForest, NEW s \in SlotIndex, NEW d \in SlotIndex,
         Live(s), ~Live(d),
         slots' = [slots EXCEPT ![d] = slots[s], ![s] = EmptySlot], nextId' = nextId
  PROVE  CapTypeOK' /\ DerivationForest'
<1>1. EmptySlot \in Slot /\ EmptySlot.id = 0
  BY VacantSlot DEF EmptySlot
<1>2. slots' \in [SlotIndex -> Slot]
  BY <1>1 DEF CapTypeOK
<1>3. CapTypeOK'
  BY <1>2 DEF CapTypeOK
<1>4. /\ s # d /\ slots'[d] = slots[s] /\ slots'[s] = EmptySlot
      /\ \A i \in SlotIndex \ {s, d} : slots'[i] = slots[i]
  BY DEF CapTypeOK
<1> DEFINE was(i) == IF i = d THEN s ELSE i
           now(i) == IF i = s THEN d ELSE i
<1>w. \A i \in SlotIndex : slots'[i].id # 0 =>
        was(i) \in SlotIndex /\ slots'[i] = slots[was(i)] /\ i # s
  BY <1>1, <1>4
<1>n. \A i \in SlotIndex : slots[i].id # 0 =>
        now(i) \in SlotIndex /\ slots'[now(i)] = slots[i]
  BY <1>4 DEF Live
<1>u. \A i, j \in SlotIndex : i # s /\ j # s /\ was(i) = was(j) => i = j
  OBVIOUS
<1> HIDE DEF was, now
<1>5. IdsUnique'
  <2> SUFFICES ASSUME NEW i \in SlotIndex, NEW j \in SlotIndex,
                      slots'[i].id # 0, slots'[i].id = slots'[j].id
               PROVE  i = j
    BY DEF IdsUnique, Live
  <2>1. PICK a \in SlotIndex : a = was(i) /\ slots'[i] = slots[a] /\ i # s
    BY <1>w
  <2>2. PICK b \in SlotIndex : b = was(j) /\ slots'[j] = slots[b] /\ j # s
    BY <1>w
  <2>3. slots[a].id # 0 /\ slots[a].id = slots[b].id
    BY <2>1, <2>2
  <2>4. a = b
    BY <2>3 DEF DerivationForest, IdsUnique, Live
  <2> QED BY <1>u, <2>1, <2>2, <2>4
<1>6. IdsIssued'
  BY <1>w DEF DerivationForest, IdsIssued, Live
<1>7. ParentsLive'
  <2> SUFFICES ASSUME NEW i \in SlotIndex, slots'[i].id # 0, slots'[i].parent # 0
               PROVE  \E j \in SlotIndex :
                        /\ slots'[j].id # 0 /\ slots'[j].id = slots'[i].parent
                        /\ slots'[j].id < slots'[i].id
                        /\ slots'[j].kind = slots'[i].kind
                        /\ slots'[j].target = slots'[i].target
    BY DEF ParentsLive, Derived, Live
  <2>1. was(i) \in Derived /\ slots'[i] = slots[was(i)]
    BY <1>w DEF Derived, Live
  <2>2. PICK k \in SlotIndex :
          /\ Live(k) /\ slots[k].id = slots[was(i)].parent
          /\ slots[k].id < slots[was(i)].id
          /\ slots[k].kind = slots[was(i)].kind
          /\ slots[k].target = slots[was(i)].target
    BY <2>1 DEF DerivationForest, ParentsLive
  <2>3. PICK j \in SlotIndex : slots'[j] = slots[k]
    BY <1>n, <2>2 DEF Live
  <2> QED BY <2>1, <2>2, <2>3 DEF Live
<1>8. VacantIsBlank'
  BY <1>4 DEF DerivationForest, VacantIsBlank, Live, EmptySlot, Tombstone, Vacant
<1> QED BY <1>3, <1>5, <1>6, <1>7, <1>8 DEF DerivationForest

\* The holder of a survivor's parent survives: the reason a revocation leaves
\* no orphan behind.
LEMMA SurvivorsParent ==
  ASSUME NEW root, NEW i \in Derived \ Doomed(root)
  PROVE  /\ slots[i].parent # root
         /\ \E j \in SlotIndex \ Doomed(root) : Live(j) /\ slots[j].id = slots[i].parent
<1>1. PICK dead \in SUBSET Derived : ClosedUnder(root, dead) /\ i \notin dead
  BY DEF Doomed
<1>2. Survives(i, root, dead)
  BY <1>1 DEF ClosedUnder
<1>3. Doomed(root) \subseteq dead
  BY <1>1 DEF Doomed
<1> QED BY <1>2, <1>3 DEF Survives

LEMMA RevokeForest ==
  ASSUME CapTypeOK, DerivationForest, NEW root,
         slots' = [i \in SlotIndex |-> IF i \in Doomed(root) THEN Tombstone ELSE slots[i]],
         nextId' = nextId
  PROVE  CapTypeOK' /\ DerivationForest'
<1>1. Tombstone \in Slot /\ Tombstone.id = 0
  BY VacantSlot DEF Tombstone
<1>2. slots' \in [SlotIndex -> Slot]
  BY <1>1 DEF CapTypeOK
<1>3. CapTypeOK'
  BY <1>2 DEF CapTypeOK
<1>4. \A i \in SlotIndex : slots'[i] = IF i \in Doomed(root) THEN Tombstone ELSE slots[i]
  OBVIOUS
<1>5. IdsUnique'
  BY <1>1, <1>4 DEF DerivationForest, IdsUnique, Live
<1>6. IdsIssued'
  BY <1>1, <1>4 DEF DerivationForest, IdsIssued, Live
<1>7. ParentsLive'
  <2> SUFFICES ASSUME NEW i \in SlotIndex, slots'[i].id # 0, slots'[i].parent # 0
               PROVE  \E j \in SlotIndex :
                        /\ slots'[j].id # 0 /\ slots'[j].id = slots'[i].parent
                        /\ slots'[j].id < slots'[i].id
                        /\ slots'[j].kind = slots'[i].kind
                        /\ slots'[j].target = slots'[i].target
    BY DEF ParentsLive, Derived, Live
  <2>1. i \in Derived \ Doomed(root) /\ slots'[i] = slots[i]
    BY <1>1, <1>4 DEF Derived, Live
  <2>2. PICK j \in SlotIndex \ Doomed(root) : Live(j) /\ slots[j].id = slots[i].parent
    BY <2>1, SurvivorsParent
  <2>3. PICK k \in SlotIndex :
          /\ Live(k) /\ slots[k].id = slots[i].parent
          /\ slots[k].id < slots[i].id
          /\ slots[k].kind = slots[i].kind /\ slots[k].target = slots[i].target
    BY <2>1 DEF DerivationForest, ParentsLive
  <2>4. j = k
    BY <2>2, <2>3 DEF DerivationForest, IdsUnique
  <2>5. slots'[j] = slots[j]
    BY <1>4, <2>2
  <2> QED BY <2>1, <2>2, <2>3, <2>4, <2>5 DEF Live
<1>8. VacantIsBlank'
  BY <1>1, <1>4 DEF DerivationForest, VacantIsBlank, Live, EmptySlot, Tombstone, Vacant
<1> QED BY <1>3, <1>5, <1>6, <1>7, <1>8 DEF DerivationForest

-----------------------------------------------------------------------------
\* The inductive invariant: the forest is inductive together with the types.
CapInv == CapTypeOK /\ DerivationForest

LEMMA InitInv == CapInit => CapInv
<1> SUFFICES ASSUME CapInit PROVE CapInv
  OBVIOUS
<1>1. \A i \in Installed : /\ i \in SlotIndex /\ i \in 1 .. 6
                           /\ InstalledRoot(i) \in Slot
                           /\ InstalledRoot(i).id = i /\ InstalledRoot(i).parent = 0
                           /\ ~InstalledRoot(i).revoked
  BY CapConstants DEF SlotIndex, CNodeSlot, SpaceSlot, FrameSlot, NotificationSlot,
     EndpointSlot, ClockSlot, InstalledRoot, Slot, Kinds, AllRights, DomainKind, DomainRights
<1>2. EmptySlot \in Slot /\ EmptySlot.id = 0 /\ EmptySlot.parent = 0 /\ ~EmptySlot.revoked
  BY VacantSlot DEF EmptySlot, Vacant
<1>3. \A i \in SlotIndex : slots[i] = IF i \in Installed THEN InstalledRoot(i) ELSE EmptySlot
  BY DEF CapInit
<1>4. CapTypeOK
  BY <1>1, <1>2, CapConstants DEF CapInit, CapTypeOK, FirstFree
<1>5. IdsUnique /\ IdsIssued
  BY <1>1, <1>2, <1>3 DEF CapInit, IdsUnique, IdsIssued, Live, FirstFree
<1>6. ParentsLive
  BY <1>1, <1>2, <1>3 DEF ParentsLive, Derived
<1>7. VacantIsBlank
  BY <1>1, <1>2, <1>3 DEF VacantIsBlank, Live
<1> QED BY <1>4, <1>5, <1>6, <1>7 DEF CapInv, DerivationForest

\* What an operation can do to the table: derive, narrow, move, or revoke.
Derives(s, d, r, b) ==
  /\ Live(s) /\ ~Live(d) /\ nextId < MaxId
  /\ r \subseteq slots[s].rights /\ DeriveInto(d, s, r, b)

Narrowing(s, r) ==
  /\ Live(s) /\ r \subseteq slots[s].rights
  /\ slots' = [slots EXCEPT ![s].rights = r] /\ nextId' = nextId

Moving(s, d) ==
  /\ Live(s) /\ ~Live(d) /\ nextId' = nextId
  /\ slots' = [slots EXCEPT ![d] = slots[s], ![s] = EmptySlot]

Revoking(s) ==
  /\ Live(s) /\ nextId' = nextId
  /\ slots' = [i \in SlotIndex |->
                 IF i \in Doomed(slots[s].id) THEN Tombstone ELSE slots[i]]

TableStep ==
  \/ \E s, d \in SlotIndex, r \in SUBSET AllRights, b \in Nat : Derives(s, d, r, b)
  \/ \E s \in SlotIndex, r \in SUBSET AllRights : Narrowing(s, r)
  \/ \E s, d \in SlotIndex : Moving(s, d)
  \/ \E s \in SlotIndex : Revoking(s)

LEMMA CapNextIsTableStep ==
  ASSUME CapInv, CapNext
  PROVE  TableStep
<1> USE DEF CapInv
<1>1. PICK c, s \in SlotIndex :
        \/ \E d \in DestArgs : CapCopy(c, s, d)
        \/ \E d \in DestArgs, r \in RightsArgs, b \in Badges : CapMint(c, s, d, r, b)
        \/ \E r \in RightsArgs : CapAttenuate(c, s, r)
        \/ \E d \in DestArgs : CapMove(c, s, d)
        \/ CapRevoke(c, s)
  BY DEF CapNext
<1>2. slots[s] \in Slot
  BY DEF CapTypeOK
<1>3. ASSUME NEW d \in DestArgs, CapCopy(c, s, d)
      PROVE  d \in SlotIndex /\ Derives(s, d, slots[s].rights, slots[s].badge)
  <2>1. Resolve(s) = "ok" /\ Destination(d) = "ok" /\ nextId < MaxId
    BY <1>3 DEF CapCopy, CapCopyStatus, IdAvailable, Require, ??
  <2> QED BY <1>3, <2>1, ResolveOk, DestinationOk DEF CapCopy, Derives
<1>4. ASSUME NEW d \in DestArgs, NEW r \in RightsArgs, NEW b \in Badges,
             CapMint(c, s, d, r, b)
      PROVE  /\ d \in SlotIndex /\ r \in SUBSET AllRights /\ b \in Nat
             /\ Derives(s, d, r, b)
  <2>1. /\ Resolve(s) = "ok" /\ Destination(d) = "ok" /\ nextId < MaxId
        /\ r \subseteq AllRights /\ r \subseteq slots[s].rights
    BY <1>4 DEF CapMint, CapMintStatus, IdAvailable, DefinedRights, Narrows, Require, ??
  <2> QED BY <1>4, <2>1, ResolveOk, DestinationOk, CapConstants DEF CapMint, Derives
<1>5. ASSUME NEW r \in RightsArgs, CapAttenuate(c, s, r)
      PROVE  r \in SUBSET AllRights /\ Narrowing(s, r)
  <2>1. Resolve(s) = "ok" /\ r \subseteq AllRights /\ r \subseteq slots[s].rights
    BY <1>5 DEF CapAttenuate, CapAttenuateStatus, DefinedRights, Narrows, Require, ??
  <2> QED BY <1>5, <2>1, ResolveOk DEF CapAttenuate, Narrowing
<1>6. ASSUME NEW d \in DestArgs, CapMove(c, s, d)
      PROVE  d \in SlotIndex /\ Moving(s, d)
  <2>1. Resolve(s) = "ok" /\ Destination(d) = "ok"
    BY <1>6 DEF CapMove, CapMoveStatus, ??
  <2> QED BY <1>6, <2>1, ResolveOk, DestinationOk DEF CapMove, Moving
<1>7. ASSUME CapRevoke(c, s)
      PROVE  Revoking(s)
  <2>1. Resolve(s) = "ok"
    BY <1>7 DEF CapRevoke, CapRevokeStatus, ??
  <2> QED BY <1>7, <2>1, ResolveOk DEF CapRevoke, Revoking
<1>8. slots[s].rights \in SUBSET AllRights /\ slots[s].badge \in Nat
  BY <1>2 DEF Slot
<1> QED BY <1>1, <1>3, <1>4, <1>5, <1>6, <1>7, <1>8 DEF TableStep

\* Each keeps the table a forest of well-formed capabilities.
LEMMA TableStepInv ==
  ASSUME CapInv, TableStep
  PROVE  CapInv'
<1> USE DEF CapInv
<1>1. ASSUME NEW s \in SlotIndex, NEW d \in SlotIndex, NEW r \in SUBSET AllRights,
             NEW b \in Nat, Derives(s, d, r, b)
      PROVE  CapInv'
  BY <1>1, DeriveTypeOK, DeriveForest DEF Derives
<1>2. ASSUME NEW s \in SlotIndex, NEW r \in SUBSET AllRights, Narrowing(s, r)
      PROVE  CapInv'
  BY <1>2, AttenuateForest DEF Narrowing
<1>3. ASSUME NEW s \in SlotIndex, NEW d \in SlotIndex, Moving(s, d)
      PROVE  CapInv'
  BY <1>3, MoveForest DEF Moving
<1>4. ASSUME NEW s \in SlotIndex, Revoking(s)
      PROVE  CapInv'
  BY <1>4, RevokeForest DEF Revoking
<1> HIDE DEF CapInv
<1> QED BY <1>1, <1>2, <1>3, <1>4 DEF TableStep

LEMMA CapInvStutter == CapInv /\ UNCHANGED capVars => CapInv'
BY DEF CapInv, capVars, CapTypeOK, DerivationForest, IdsUnique, IdsIssued,
   ParentsLive, Derived, VacantIsBlank, Live

\* The tables of slots reached are forests of well-formed capabilities.
THEOREM ForestAlways == CapSpec => []CapInv
<1>1. CapInv /\ [CapNext]_capVars => CapInv'
  BY CapNextIsTableStep, TableStepInv, CapInvStutter
<1> QED BY InitInv, <1>1, PTL DEF CapSpec

\* Every reachable table is well typed.
THEOREM CapTypes == CapSpec => []CapTypeOK
BY ForestAlways, PTL DEF CapInv

\* Every reachable table is a forest of derivations: identities unique and
\* issued, every parent live, older and of the same object.
THEOREM Forest == CapSpec => []DerivationForest
BY ForestAlways, PTL DEF CapInv

-----------------------------------------------------------------------------
\* What a step may do to authority.

\* Where the capability found in slot i after a step comes from.
LEMMA Provenance ==
  ASSUME CapInv, TableStep, NEW i \in SlotIndex, slots'[i].id # 0
  PROVE  \E j \in SlotIndex :
           /\ Live(j)
           /\ SameCapability(slots'[i], slots[j]) \/ DerivedFrom(slots'[i], slots[j])
<1> USE DEF CapInv
<1>0. slots \in [SlotIndex -> Slot]
  BY DEF CapTypeOK
<1>s. \A j \in SlotIndex : SameCapability(slots[j], slots[j])
  BY DEF SameCapability
<1>1. ASSUME NEW s \in SlotIndex, NEW d \in SlotIndex, NEW r \in SUBSET AllRights,
             NEW b \in Nat, Derives(s, d, r, b)
      PROVE  \E j \in SlotIndex : Live(j) /\ (\/ SameCapability(slots'[i], slots[j])
                                              \/ DerivedFrom(slots'[i], slots[j]))
  <2>1. CASE i = d
    <3>1. DerivedFrom(slots'[i], slots[s])
      BY <1>0, <1>1, <2>1 DEF Derives, DeriveInto, DerivedFrom
    <3> QED BY <1>1, <3>1 DEF Derives
  <2>2. CASE i # d
    <3>1. slots'[i] = slots[i]
      BY <1>0, <1>1, <2>2 DEF Derives, DeriveInto
    <3> QED BY <1>s, <3>1 DEF Live
  <2> QED BY <2>1, <2>2
<1>2. ASSUME NEW s \in SlotIndex, NEW r \in SUBSET AllRights, Narrowing(s, r)
      PROVE  Live(i) /\ SameCapability(slots'[i], slots[i])
  <2>1. /\ slots'[i].id = slots[i].id /\ slots'[i].parent = slots[i].parent
        /\ slots'[i].kind = slots[i].kind /\ slots'[i].target = slots[i].target
        /\ slots'[i].badge = slots[i].badge /\ slots'[i].rights \subseteq slots[i].rights
    BY <1>0, <1>2 DEF Slot, Narrowing
  <2> QED BY <2>1 DEF SameCapability, Live
<1>3. ASSUME NEW s \in SlotIndex, NEW d \in SlotIndex, Moving(s, d)
      PROVE  \E j \in SlotIndex : Live(j) /\ SameCapability(slots'[i], slots[j])
  <2>1. EmptySlot.id = 0
    BY VacantSlot DEF EmptySlot
  <2>2. i # s /\ slots'[i] = IF i = d THEN slots[s] ELSE slots[i]
    BY <1>0, <1>3, <2>1 DEF Moving
  <2> QED BY <1>s, <1>3, <2>2 DEF Live, Moving
<1>4. ASSUME NEW s \in SlotIndex, Revoking(s)
      PROVE  Live(i) /\ SameCapability(slots'[i], slots[i])
  <2>1. Tombstone.id = 0
    BY VacantSlot DEF Tombstone
  <2>2. slots'[i] = slots[i]
    BY <1>4, <2>1 DEF Revoking
  <2> QED BY <1>s, <2>2 DEF Live
<1> QED BY <1>1, <1>2, <1>3, <1>4 DEF TableStep

\* No step forges a capability.
THEOREM Unforgeable == CapSpec => NoForgery
<1>1. CapInv /\ [CapNext]_capVars =>
        [\A i \in SlotIndex : slots'[i].id # 0 =>
           \E j \in SlotIndex :
             /\ Live(j)
             /\ SameCapability(slots'[i], slots[j]) \/ DerivedFrom(slots'[i], slots[j])]_capVars
  BY CapNextIsTableStep, Provenance
<1> QED BY ForestAlways, <1>1, PTL DEF CapSpec, NoForgery

\* No step adds a right to those held over an object of the domain.
THEOREM AuthorityOnlyShrinks == CapSpec => AuthorityNeverGrows
<1>1. ASSUME CapInv, CapNext, NEW kind, NEW target
      PROVE  Authority(kind, target)' \subseteq Authority(kind, target)
  <2> SUFFICES ASSUME NEW i \in SlotIndex, slots'[i].id # 0, slots'[i].kind = kind,
                      slots'[i].target = target, NEW right \in slots'[i].rights
               PROVE  right \in Authority(kind, target)
    BY DEF Authority, Live
  <2>1. PICK j \in SlotIndex :
          /\ Live(j)
          /\ SameCapability(slots'[i], slots[j]) \/ DerivedFrom(slots'[i], slots[j])
    BY <1>1, CapNextIsTableStep, Provenance
  <2>2. slots[j].kind = kind /\ slots[j].target = target /\ right \in slots[j].rights
    BY <2>1 DEF SameCapability, DerivedFrom
  <2> QED BY <2>1, <2>2 DEF Authority
<1>2. CapInv /\ [CapNext]_capVars =>
        [\A i \in Installed :
           LET kind == InstalledRoot(i).kind  target == InstalledRoot(i).target
           IN  Authority(kind, target)' \subseteq Authority(kind, target)]_capVars
  BY <1>1
<1> QED BY ForestAlways, <1>2, PTL DEF CapSpec, AuthorityNeverGrows
-----------------------------------------------------------------------------
\* What a revocation reaches.

LEMMA DoomedIsDescendants ==
  ASSUME CapInv, NEW s \in SlotIndex, Live(s)
  PROVE  Doomed(slots[s].id) = Descendants(s) /\ s \notin Descendants(s)
<1> DEFINE root == slots[s].id
<1> USE DEF CapInv
<1>1. Doomed(root) \subseteq Descendants(s)
  <2> SUFFICES ASSUME NEW i \in Doomed(root), NEW family \in SUBSET SlotIndex,
                      Descends(s, family) \subseteq family, i \notin family
               PROVE  FALSE
    BY DEF Descendants, Doomed, Derived
  <2>1. ASSUME NEW k \in Derived \ (family \cap Derived)
        PROVE  Survives(k, root, family \cap Derived)
    <3>1. k \notin Descends(s, family)
      BY <2>1
    <3>2. PICK j \in SlotIndex : Live(j) /\ slots[j].id = slots[k].parent
      BY <2>1 DEF DerivationForest, ParentsLive
    <3> QED BY <2>1, <3>1, <3>2 DEF Descends, Survives
  <2>2. ClosedUnder(root, family \cap Derived)
    BY <2>1 DEF ClosedUnder
  <2> QED BY <2>2 DEF Doomed
<1>2. Descends(s, Doomed(root)) \subseteq Doomed(root)
  <2> SUFFICES ASSUME NEW i \in Descends(s, Doomed(root)), i \notin Doomed(root)
               PROVE  FALSE
    OBVIOUS
  <2>1. i \in Derived \ Doomed(root)
    BY DEF Descends
  <2>2. PICK j \in SlotIndex \ Doomed(root) : Live(j) /\ slots[j].id = slots[i].parent
    BY <2>1, SurvivorsParent
  <2>3. slots[i].parent # root
    BY <2>1, SurvivorsParent
  <2>4. PICK k \in Doomed(root) : Live(k) /\ slots[k].id = slots[i].parent
    BY <2>3 DEF Descends
  <2>5. k \in SlotIndex /\ k = j
    BY <2>2, <2>4 DEF DerivationForest, IdsUnique, Doomed, Derived
  <2> QED BY <2>2, <2>4, <2>5
<1>3. Descendants(s) \subseteq Doomed(root)
  <2>1. Doomed(root) \in SUBSET SlotIndex
    BY DEF Doomed, Derived
  <2> QED BY <1>2, <2>1 DEF Descendants
<1>4. s \notin Descendants(s)
  <2> DEFINE younger == {i \in SlotIndex : Live(i) /\ slots[i].id > slots[s].id}
  <2>1. \A i \in SlotIndex : slots[i].id \in Nat
    BY DEF CapTypeOK, Slot
  <2>2. ASSUME NEW i \in Descends(s, younger) PROVE i \in younger
    <3>1. i \in Derived /\ i \in SlotIndex /\ Live(i)
      BY <2>2 DEF Descends, Derived
    <3>2. PICK j \in SlotIndex : /\ Live(j) /\ slots[j].id = slots[i].parent
                                 /\ slots[j].id < slots[i].id
      BY <3>1 DEF DerivationForest, ParentsLive
    <3>3. slots[j].id >= slots[s].id
      BY <2>1, <2>2, <3>2 DEF Descends
    <3> QED BY <2>1, <3>1, <3>2, <3>3
  <2>3. s \notin younger
    BY <2>1
  <2> QED BY <2>2, <2>3 DEF Descendants
<1> QED BY <1>1, <1>3, <1>4

\* cap.revoke kills exactly the descendants of the capability it names.
THEOREM ExactRevocation == CapSpec => []RevocationIsExact
<1>1. CapInv => RevocationIsExact
  BY DoomedIsDescendants DEF RevocationIsExact
<1> QED BY ForestAlways, <1>1, PTL

-----------------------------------------------------------------------------
(***************************************************************************)
(* The memory group.                                                       *)
(***************************************************************************)

\* The frame the domain is built with is never free.
KernInv ==
  /\ CapInv /\ MemTypeOK /\ FrameOwnership /\ WritableXorExecutable
  /\ frames[0]

-----------------------------------------------------------------------------
\* A non-empty set of natural numbers has a least member.
LEMMA LeastMember ==
  ASSUME NEW T \in SUBSET Nat, T # {}
  PROVE  \E m \in T : \A n \in T : m <= n
<1> DEFINE R == {ss \in Nat \X Nat : ss[1] < ss[2]}
<1>1. IsWellFoundedOn(R, Nat)
  BY NatLessThanWellFounded DEF OpToRel
<1>2. PICK m \in T : \A n \in T : ~ (<<n, m>> \in R)
  BY <1>1, WFMin
<1>3. ASSUME NEW n \in T PROVE m <= n
  <2>1. ~(n < m)
    BY <1>2
  <2> QED BY <2>1
<1> QED BY <1>3

\* A capability of the same object as a capability that holds its only root
\* descends from it, so revoking that one kills it.
LEMMA RootReachesAll ==
  ASSUME CapInv, NEW s \in SlotIndex, Live(s), NEW T \in SUBSET Derived,
         \A i \in T, j \in SlotIndex :
            Live(j) /\ slots[j].id = slots[i].parent => j = s \/ j \in T
  PROVE  T \subseteq Doomed(slots[s].id)
<1> DEFINE Left == T \ Doomed(slots[s].id)
           Ids  == {slots[i].id : i \in Left}
<1> SUFFICES ASSUME Left # {} PROVE FALSE
  OBVIOUS
<1>1. Ids \in SUBSET Nat /\ Ids # {}
  BY DEF CapInv, CapTypeOK, Slot, Derived
<1>2. PICK m \in Ids : \A n \in Ids : m <= n
  BY <1>1, LeastMember
<1>3. PICK i \in Left : slots[i].id = m
  BY <1>2
<1>4. PICK j \in SlotIndex \ Doomed(slots[s].id) : Live(j) /\ slots[j].id = slots[i].parent
  BY <1>3, SurvivorsParent
<1>5. slots[i].parent # slots[s].id
  BY <1>3, SurvivorsParent
<1>6. j \in Left
  BY <1>3, <1>4, <1>5
<1>7. slots[j].id < slots[i].id
  BY <1>3, <1>4 DEF CapInv, DerivationForest, ParentsLive, IdsUnique, Derived
<1>8. slots[j].id \in Nat /\ slots[i].id \in Nat
  BY <1>3, <1>4 DEF CapInv, CapTypeOK, Slot, Derived
<1>9. m <= slots[j].id
  BY <1>2, <1>6
<1> HIDE DEF Left, Ids
<1> QED BY <1>3, <1>7, <1>8, <1>9

-----------------------------------------------------------------------------
\* Giving a frame back: its root goes, and all that descends from it.
Reclaiming(s) ==
  /\ Live(s) /\ IsRoot(s) /\ nextId' = nextId
  /\ slots' = [i \in SlotIndex |->
                 IF i = s THEN EmptySlot
                 ELSE IF i \in Doomed(slots[s].id) THEN Tombstone ELSE slots[i]]

LEMMA ReclaimForest ==
  ASSUME CapInv, NEW s \in SlotIndex, Reclaiming(s)
  PROVE  CapInv'
<1> USE DEF CapInv
<1> DEFINE root == slots[s].id
           kept == SlotIndex \ ({s} \cup Doomed(root))
<1>1. /\ Tombstone \in Slot /\ Tombstone.id = 0
      /\ EmptySlot \in Slot /\ EmptySlot.id = 0
  BY VacantSlot DEF Tombstone, EmptySlot
<1>2. slots' \in [SlotIndex -> Slot]
  BY <1>1 DEF CapTypeOK, Reclaiming
<1>3. CapTypeOK'
  BY <1>2 DEF CapTypeOK, Reclaiming
<1>4. /\ \A i \in kept : slots'[i] = slots[i]
      /\ \A i \in SlotIndex \ kept : slots'[i] \in {EmptySlot, Tombstone}
  BY DEF Reclaiming
<1> HIDE DEF kept
<1>5. kept \subseteq SlotIndex
  BY DEF kept
<1>6. IdsUnique'
  BY <1>1, <1>4, <1>5 DEF DerivationForest, IdsUnique, Live
<1>7. IdsIssued'
  BY <1>1, <1>4, <1>5 DEF DerivationForest, IdsIssued, Live, Reclaiming
<1>8. ParentsLive'
  <2> SUFFICES ASSUME NEW i \in SlotIndex, slots'[i].id # 0, slots'[i].parent # 0
               PROVE  \E j \in SlotIndex :
                        /\ slots'[j].id # 0 /\ slots'[j].id = slots'[i].parent
                        /\ slots'[j].id < slots'[i].id
                        /\ slots'[j].kind = slots'[i].kind
                        /\ slots'[j].target = slots'[i].target
    BY DEF ParentsLive, Derived, Live
  <2>1. i \in kept /\ slots'[i] = slots[i]
    BY <1>1, <1>4
  <2>2. i \in Derived \ Doomed(root)
    BY <2>1 DEF Derived, Live, kept
  <2>3. slots[i].parent # root
    BY <2>2, SurvivorsParent
  <2>4. PICK j \in SlotIndex \ Doomed(root) : Live(j) /\ slots[j].id = slots[i].parent
    BY <2>2, SurvivorsParent
  <2>5. PICK k \in SlotIndex :
          /\ Live(k) /\ slots[k].id = slots[i].parent
          /\ slots[k].id < slots[i].id
          /\ slots[k].kind = slots[i].kind /\ slots[k].target = slots[i].target
    BY <2>2 DEF DerivationForest, ParentsLive
  <2>6. j = k
    BY <2>4, <2>5 DEF DerivationForest, IdsUnique
  <2>7. j \in kept /\ slots'[j] = slots[j]
    BY <1>4, <2>3, <2>4 DEF kept
  <2> QED BY <2>1, <2>4, <2>5, <2>6, <2>7 DEF Live
<1>9. VacantIsBlank'
  <2>1. \A i \in kept : slots'[i] = slots[i]
    BY <1>4
  <2>2. EmptySlot' = EmptySlot /\ Tombstone' = Tombstone
    BY DEF EmptySlot, Tombstone, Vacant
  <2> QED BY <1>4, <1>5, <2>1, <2>2 DEF DerivationForest, VacantIsBlank, Live
<1> QED BY <1>3, <1>6, <1>7, <1>8, <1>9 DEF DerivationForest

\* Allocating a frame: a new root in a vacant slot.
NewRoot(f, r) ==
  [kind |-> "frame", target |-> f, rights |-> r, badge |-> 0,
   id |-> nextId, parent |-> 0, revoked |-> FALSE]

Allocating(d, f, r) ==
  /\ ~Live(d) /\ nextId < MaxId /\ nextId' = nextId + 1
  /\ slots' = [slots EXCEPT ![d] = NewRoot(f, r)]

LEMMA AllocateForest ==
  ASSUME CapInv, NEW d \in SlotIndex, NEW f \in Nat, NEW r \in SUBSET AllRights,
         Allocating(d, f, r)
  PROVE  CapInv'
<1> USE DEF CapInv
<1>1. nextId \in Nat /\ nextId # 0 /\ nextId' \in FirstFree .. MaxId
  BY CapConstants DEF CapTypeOK, FirstFree, Allocating
<1>2. NewRoot(f, r) \in Slot /\ NewRoot(f, r).id = nextId /\ NewRoot(f, r).parent = 0
      /\ ~NewRoot(f, r).revoked
  BY <1>1 DEF NewRoot, Slot, Kinds
<1>3. slots' \in [SlotIndex -> Slot]
  BY <1>2 DEF CapTypeOK, Allocating
<1>4. CapTypeOK'
  BY <1>1, <1>3 DEF CapTypeOK
<1>5. slots'[d] = NewRoot(f, r) /\ \A i \in SlotIndex \ {d} : slots'[i] = slots[i]
  BY DEF CapTypeOK, Allocating
<1>6. \A i \in SlotIndex : /\ slots[i].id \in Nat
                           /\ slots[i].id # 0 => slots[i].id < nextId
  BY DEF DerivationForest, IdsIssued, Live, CapTypeOK, Slot
<1>7. IdsUnique'
  BY <1>1, <1>2, <1>5, <1>6 DEF DerivationForest, IdsUnique, Live
<1>8. IdsIssued'
  BY <1>1, <1>2, <1>5, <1>6 DEF IdsIssued, Live, Allocating
<1>9. ParentsLive'
  BY <1>2, <1>5 DEF DerivationForest, ParentsLive, Derived, Live, Allocating
<1>10. VacantIsBlank'
  BY <1>1, <1>2, <1>5 DEF DerivationForest, VacantIsBlank, Live, EmptySlot, Tombstone, Vacant
<1> QED BY <1>4, <1>7, <1>8, <1>9, <1>10 DEF DerivationForest

-----------------------------------------------------------------------------
\* What a step does to the capabilities, the frames and the pages.
Allocates(d, f, r) ==
  /\ Allocating(d, f, r) /\ ~frames[f]
  /\ frames' = [frames EXCEPT ![f] = TRUE] /\ UNCHANGED window

Reclaims(s) ==
  /\ Reclaiming(s) /\ slots[s].kind = "frame" /\ slots[s].target # 0
  /\ frames' = [frames EXCEPT ![slots[s].target] = FALSE]
  /\ window' = [p \in Pages |->
                  IF window[p].mapped /\ window[p].frame = slots[s].target
                  THEN Unmapped ELSE window[p]]

\* The pages: one is mapped, unmapped, or narrowed.
Maps(s, p, r) ==
  /\ Live(s) /\ slots[s].kind = "frame" /\ r \subseteq slots[s].rights
  /\ window' = [window EXCEPT ![p] =
                  [mapped |-> TRUE, frame |-> slots[s].target, rights |-> r]]

WindowStep ==
  /\ UNCHANGED <<slots, nextId, frames>>
  /\ \E p \in Pages :
       \/ \E s \in SlotIndex, r \in SUBSET AllRights :
            Maps(s, p, r) /\ ~({"write", "execute"} \subseteq r)
       \/ window' = [window EXCEPT ![p] = Unmapped]
       \/ \E r \in SUBSET window[p].rights : window' = [window EXCEPT ![p].rights = r]

KernelStep ==
  \/ TableStep /\ UNCHANGED memVars
  \/ \E d \in SlotIndex, f \in FrameIndex, r \in SUBSET AllRights : Allocates(d, f, r)
  \/ \E s \in SlotIndex : Reclaims(s)
  \/ WindowStep

LEMMA MapIsWindowStep ==
  ASSUME NEW s \in SlotIndex, NEW p \in Pages, NEW r,
         Live(s), slots[s].kind = "frame", MapIntoWindow(s, p, r)
  PROVE  WindowStep
<1>1. /\ r \in SUBSET AllRights /\ r \subseteq slots[s].rights
      /\ ~({"write", "execute"} \subseteq r)
  BY DEF MapIntoWindow, MapStatus, PageInWindow, MappableRights, MappingRights, AllRights,
     Narrows, NotWritableAndExecutable, Require, ??
<1> QED BY <1>1 DEF MapIntoWindow, WindowStep, Maps

LEMMA FrameCapOk ==
  ASSUME NEW s, NEW required, ResolveTyped(s, "frame", required) = "ok"
  PROVE  s \in SlotIndex /\ Live(s) /\ slots[s].kind = "frame"
<1>1. Resolve(s) = "ok" /\ slots[s].kind = "frame"
  BY DEF ResolveTyped, Require, ??
<1> QED BY <1>1, ResolveOk

LEMMA KernNextIsKernelStep ==
  ASSUME KernInv, KernNext
  PROVE  KernelStep
<1> USE DEF KernInv
<1>1. CASE CapNext /\ UNCHANGED memVars
  BY <1>1, CapNextIsTableStep DEF KernelStep
<1>2. ASSUME NEW c \in SlotIndex, NEW d \in DestArgs, NEW r \in MemRights,
             FrameAllocate(c, d, r)
      PROVE  KernelStep
  <2>1. Destination(d) = "ok" /\ nextId < MaxId /\ r \in SUBSET AllRights
    BY <1>2, MemConstants DEF FrameAllocate, FrameAllocateStatus, IdAvailable, Require, ??
  <2>2. d \in SlotIndex /\ ~Live(d)
    BY <2>1, DestinationOk DEF CapInv
  <2>3. PICK f \in FreeFrames : Allocates(d, f, r)
    BY <1>2, <2>1, <2>2 DEF FrameAllocate, Allocates, Allocating, NewRoot, FreeFrames
  <2> QED BY <2>1, <2>2, <2>3 DEF KernelStep, FreeFrames
<1>3. ASSUME NEW s \in SlotIndex, NEW d \in DestArgs, NEW r \in MemRights, NEW b \in Badges,
             FrameShare(s, d, r, b)
      PROVE  KernelStep
  <2>1. /\ ResolveTyped(s, "frame", {"grant"}) = "ok" /\ Destination(d) = "ok"
        /\ nextId < MaxId /\ r \in SUBSET AllRights /\ r \subseteq slots[s].rights
    BY <1>3 DEF FrameShare, FrameShareStatus, DefinedRights, Narrows, IdAvailable, Require, ??
  <2>2. d \in SlotIndex /\ Derives(s, d, r, b) /\ b \in Nat
    BY <1>3, <2>1, DestinationOk, FrameCapOk, CapConstants DEF CapInv, FrameShare, Derives
  <2> QED BY <1>3, <2>1, <2>2 DEF KernelStep, TableStep, FrameShare
<1>4. ASSUME NEW s \in SlotIndex, NEW p \in Pages, NEW r \in MemRights, FrameMap(s, p, r)
      PROVE  KernelStep
  <2>1. FrameCap(s) = "ok"
    BY <1>4 DEF FrameMap, FrameMapStatus, ??
  <2> QED BY <1>4, <2>1, FrameCapOk, MapIsWindowStep DEF FrameCap, FrameMap, KernelStep
<1>5. ASSUME NEW s \in SlotIndex, FrameReclaim(s)
      PROVE  KernelStep
  <2>1. FrameCap(s) = "ok" /\ slots[s].parent = 0 /\ slots[s].target # 0
    BY <1>5 DEF FrameReclaim, FrameReclaimStatus, Require, ??
  <2> QED BY <1>5, <2>1, FrameCapOk DEF FrameCap, FrameReclaim, KernelStep, Reclaims, Reclaiming, IsRoot
<1>6. ASSUME NEW a \in SlotIndex, NEW p \in Pages, NEW s \in SlotIndex, NEW r \in MemRights,
             AsMap(a, s, p, r)
      PROVE  KernelStep
  <2>1. FrameCap(s) = "ok"
    BY <1>6 DEF AsMap, AsMapStatus, ??
  <2> QED BY <1>6, <2>1, FrameCapOk, MapIsWindowStep DEF FrameCap, AsMap, KernelStep
<1>7. ASSUME NEW a \in SlotIndex, NEW p \in Pages, AsUnmap(a, p)
      PROVE  KernelStep
  BY <1>7 DEF AsUnmap, WindowStep, KernelStep
<1>8. ASSUME NEW a \in SlotIndex, NEW p \in Pages, NEW r \in MemRights, AsProtect(a, p, r)
      PROVE  KernelStep
  <2>1. r \subseteq window[p].rights
    BY <1>8 DEF AsProtect, AsProtectStatus, Require, ??
  <2> QED BY <1>8, <2>1 DEF AsProtect, WindowStep, KernelStep
<1> HIDE DEF KernInv
<1>9. CASE FrameNext
  BY <1>2, <1>3, <1>4, <1>5, <1>9 DEF FrameNext
<1>10. CASE AsNext
  BY <1>6, <1>7, <1>8, <1>10 DEF AsNext
<1> QED BY <1>1, <1>9, <1>10 DEF KernNext

-----------------------------------------------------------------------------
\* Ownership, one lemma for each of the ways a step changes it.

\* Deriving, narrowing, moving and revoking lose no root.
LEMMA RootsKept ==
  ASSUME CapInv, TableStep, NEW i \in SlotIndex, Live(i), IsRoot(i)
  PROVE  \E k \in SlotIndex :
           /\ slots'[k].id = slots[i].id /\ slots'[k].parent = 0
           /\ slots'[k].kind = slots[i].kind /\ slots'[k].target = slots[i].target
<1> USE DEF CapInv
<1>0. slots \in [SlotIndex -> Slot]
  BY DEF CapTypeOK
<1>1. ASSUME NEW s \in SlotIndex, NEW d \in SlotIndex, NEW r \in SUBSET AllRights,
             NEW b \in Nat, Derives(s, d, r, b)
      PROVE  slots'[i] = slots[i]
  BY <1>0, <1>1 DEF Derives, DeriveInto
<1>2. ASSUME NEW s \in SlotIndex, NEW r \in SUBSET AllRights, Narrowing(s, r)
      PROVE  /\ slots'[i].id = slots[i].id /\ slots'[i].parent = slots[i].parent
             /\ slots'[i].kind = slots[i].kind /\ slots'[i].target = slots[i].target
  BY <1>0, <1>2 DEF Narrowing, Slot
<1>3. ASSUME NEW s \in SlotIndex, NEW d \in SlotIndex, Moving(s, d)
      PROVE  \E k \in SlotIndex : slots'[k] = slots[i]
  <2>1. s # d
    BY <1>3 DEF Moving
  <2>2. slots'[IF i = s THEN d ELSE i] = slots[i]
    BY <1>0, <1>3, <2>1 DEF Moving
  <2> QED BY <2>2
<1>4. ASSUME NEW s \in SlotIndex, Revoking(s)
      PROVE  slots'[i] = slots[i]
  BY <1>4 DEF Revoking, Doomed, Derived, IsRoot
<1> HIDE DEF CapInv
<1> QED BY <1>1, <1>2, <1>3, <1>4 DEF TableStep, IsRoot

LEMMA TableStepOwnership ==
  ASSUME KernInv, TableStep, UNCHANGED memVars
  PROVE  FrameOwnership'
<1> USE DEF KernInv
<1>1. CapInv' /\ frames' = frames /\ window' = window
  BY TableStepInv DEF memVars
<1>2. CapsNameFrames'
  <2> SUFFICES ASSUME NEW i \in SlotIndex, slots'[i].id # 0, slots'[i].kind = "frame"
               PROVE  slots'[i].target \in FrameIndex /\ frames[slots'[i].target]
    BY <1>1 DEF CapsNameFrames, Live
  <2>1. PICK j \in SlotIndex : Live(j) /\ slots[j].kind = "frame"
                               /\ slots[j].target = slots'[i].target
    BY Provenance DEF SameCapability, DerivedFrom
  <2> QED BY <2>1 DEF FrameOwnership, CapsNameFrames
<1>3. MappingsNameFrames'
  BY <1>1 DEF FrameOwnership, MappingsNameFrames
<1>4. FramesAreOwnedOnce'
  <2> SUFFICES ASSUME NEW f \in FrameIndex \ {0}, frames[f]
               PROVE  \E k \in SlotIndex :
                        /\ slots'[k].id # 0 /\ slots'[k].kind = "frame"
                        /\ slots'[k].target = f /\ slots'[k].parent = 0
                        /\ \A j \in SlotIndex :
                             slots'[j].id # 0 /\ slots'[j].kind = "frame"
                             /\ slots'[j].target = f /\ slots'[j].parent = 0 => j = k
    BY <1>1 DEF FramesAreOwnedOnce, FrameCaps, Live, IsRoot
  <2>1. PICK i \in FrameCaps(f) : IsRoot(i) /\ \A j \in FrameCaps(f) : IsRoot(j) => j = i
    BY DEF FrameOwnership, FramesAreOwnedOnce
  <2>2. PICK k \in SlotIndex :
          /\ slots'[k].id = slots[i].id /\ slots'[k].parent = 0
          /\ slots'[k].kind = slots[i].kind /\ slots'[k].target = slots[i].target
    BY <2>1, RootsKept DEF FrameCaps
  <2>3. ASSUME NEW j \in SlotIndex, slots'[j].id # 0, slots'[j].kind = "frame",
               slots'[j].target = f, slots'[j].parent = 0
        PROVE  j = k
    <3>1. PICK l \in SlotIndex :
            /\ Live(l)
            /\ SameCapability(slots'[j], slots[l]) \/ DerivedFrom(slots'[j], slots[l])
      BY <2>3, Provenance
    <3>2. SameCapability(slots'[j], slots[l])
      BY <2>3, <3>1 DEF DerivedFrom, Live
    <3>3. l = i
      BY <2>1, <2>3, <3>1, <3>2 DEF SameCapability, FrameCaps, IsRoot
    <3>4. slots'[j].id = slots'[k].id
      BY <2>2, <3>2, <3>3 DEF SameCapability
    <3> QED BY <1>1, <2>3, <3>4 DEF CapInv, DerivationForest, IdsUnique, Live
  <2> QED BY <2>1, <2>2, <2>3 DEF FrameCaps, Live
<1> QED BY <1>2, <1>3, <1>4 DEF FrameOwnership

LEMMA AllocateOwnership ==
  ASSUME KernInv, NEW d \in SlotIndex, NEW f \in FrameIndex, NEW r \in SUBSET AllRights,
         Allocates(d, f, r)
  PROVE  FrameOwnership'
<1> USE DEF KernInv
<1>1. /\ slots'[d] = NewRoot(f, r) /\ \A i \in SlotIndex \ {d} : slots'[i] = slots[i]
      /\ ~Live(d) /\ window' = window
  BY DEF CapInv, CapTypeOK, Allocates, Allocating
<1>2. ~frames[f] /\ frames'[f] /\ \A g \in FrameIndex \ {f} : frames'[g] = frames[g]
  BY DEF MemTypeOK, Allocates
<1>3. /\ NewRoot(f, r).id # 0 /\ NewRoot(f, r).kind = "frame"
      /\ NewRoot(f, r).target = f /\ NewRoot(f, r).parent = 0
  BY CapConstants DEF NewRoot, CapInv, CapTypeOK, FirstFree
<1>4. CapsNameFrames'
  BY <1>1, <1>2, <1>3 DEF FrameOwnership, CapsNameFrames, Live
<1>5. MappingsNameFrames'
  BY <1>1, <1>2 DEF FrameOwnership, MappingsNameFrames, MemTypeOK, Mapping
<1>6. FramesAreOwnedOnce'
  <2> SUFFICES ASSUME NEW g \in FrameIndex \ {0}, frames'[g]
               PROVE  \E k \in SlotIndex :
                        /\ slots'[k].id # 0 /\ slots'[k].kind = "frame"
                        /\ slots'[k].target = g /\ slots'[k].parent = 0
                        /\ \A j \in SlotIndex :
                             slots'[j].id # 0 /\ slots'[j].kind = "frame"
                             /\ slots'[j].target = g /\ slots'[j].parent = 0 => j = k
    BY DEF FramesAreOwnedOnce, FrameCaps, Live, IsRoot
  <2>1. CASE g = f
    <3>1. \A j \in SlotIndex \ {d} : ~(slots'[j].id # 0 /\ slots'[j].kind = "frame"
                                       /\ slots'[j].target = g)
      BY <1>1, <1>2, <2>1 DEF FrameOwnership, CapsNameFrames, Live
    <3> QED BY <1>1, <1>3, <2>1, <3>1
  <2>2. CASE g # f
    <3>1. PICK i \in FrameCaps(g) : IsRoot(i) /\ \A j \in FrameCaps(g) : IsRoot(j) => j = i
      BY <1>2, <2>2 DEF FrameOwnership, FramesAreOwnedOnce
    <3>2. i # d /\ i \in SlotIndex
      BY <1>1, <3>1 DEF FrameCaps
    <3>3. \A j \in SlotIndex : slots'[j].id # 0 /\ slots'[j].target = g => j # d
      BY <1>1, <1>3, <2>2
    <3> QED BY <1>1, <3>1, <3>2, <3>3 DEF FrameCaps, IsRoot, Live
  <2> QED BY <2>1, <2>2
<1> QED BY <1>4, <1>5, <1>6 DEF FrameOwnership

LEMMA ReclaimOwnership ==
  ASSUME KernInv, NEW s \in SlotIndex, Reclaims(s)
  PROVE  FrameOwnership'
<1> USE DEF KernInv
<1> DEFINE g == slots[s].target
           T == FrameCaps(g) \ {s}
<1>1. /\ Live(s) /\ IsRoot(s) /\ slots[s].kind = "frame" /\ g # 0
      /\ frames' = [frames EXCEPT ![g] = FALSE]
  BY DEF Reclaims, Reclaiming
<1>2. g \in FrameIndex /\ frames[g]
  BY <1>1 DEF FrameOwnership, CapsNameFrames
<1>3. s \in FrameCaps(g) /\ \A i \in FrameCaps(g) : IsRoot(i) => i = s
  <2>1. PICK k \in FrameCaps(g) : \A j \in FrameCaps(g) : IsRoot(j) => j = k
    BY <1>1, <1>2 DEF FrameOwnership, FramesAreOwnedOnce
  <2>2. s \in FrameCaps(g)
    BY <1>1 DEF FrameCaps
  <2> QED BY <1>1, <2>1, <2>2
<1>4. T \subseteq Derived
  BY <1>3 DEF FrameCaps, Derived, IsRoot
<1>5. ASSUME NEW i \in T, NEW j \in SlotIndex, Live(j), slots[j].id = slots[i].parent
      PROVE  j = s \/ j \in T
  <2>1. PICK k \in SlotIndex :
          /\ Live(k) /\ slots[k].id = slots[i].parent
          /\ slots[k].kind = slots[i].kind /\ slots[k].target = slots[i].target
    BY <1>4, <1>5 DEF CapInv, DerivationForest, ParentsLive
  <2>2. j = k
    BY <1>5, <2>1 DEF CapInv, DerivationForest, IdsUnique
  <2> QED BY <1>5, <2>1, <2>2 DEF FrameCaps
<1>6. T \subseteq Doomed(slots[s].id)
  <2> HIDE DEF T
  <2> QED BY <1>1, <1>4, <1>5, RootReachesAll
<1>7. ASSUME NEW i \in SlotIndex, slots'[i].id # 0
      PROVE  /\ slots'[i] = slots[i] /\ Live(i)
             /\ slots[i].kind = "frame" => slots[i].target # g
  <2>1. EmptySlot.id = 0 /\ Tombstone.id = 0
    BY VacantSlot DEF EmptySlot, Tombstone
  <2>2. i # s /\ i \notin Doomed(slots[s].id) /\ slots'[i] = slots[i]
    BY <1>7, <2>1 DEF Reclaims, Reclaiming
  <2>3. Live(i)
    BY <1>7, <2>2 DEF Live
  <2> QED BY <1>6, <2>2, <2>3 DEF FrameCaps
<1>8. ASSUME NEW i \in SlotIndex, Live(i), IsRoot(i), i # s
      PROVE  slots'[i] = slots[i]
  BY <1>8 DEF Reclaims, Reclaiming, Doomed, Derived, IsRoot
<1>9. CapsNameFrames'
  BY <1>1, <1>7 DEF FrameOwnership, CapsNameFrames, Live, MemTypeOK
<1>10. MappingsNameFrames'
  <2>1. ASSUME NEW p \in Pages, window'[p].mapped
        PROVE  window'[p] = window[p] /\ window[p].frame # g
    BY <2>1 DEF Reclaims, Unmapped
  <2> QED BY <1>1, <2>1 DEF FrameOwnership, MappingsNameFrames, MemTypeOK, Mapping
<1>11. FramesAreOwnedOnce'
  <2> SUFFICES ASSUME NEW f \in FrameIndex \ {0}, frames'[f]
               PROVE  \E k \in SlotIndex :
                        /\ slots'[k].id # 0 /\ slots'[k].kind = "frame"
                        /\ slots'[k].target = f /\ slots'[k].parent = 0
                        /\ \A j \in SlotIndex :
                             slots'[j].id # 0 /\ slots'[j].kind = "frame"
                             /\ slots'[j].target = f /\ slots'[j].parent = 0 => j = k
    BY DEF FramesAreOwnedOnce, FrameCaps, Live, IsRoot
  <2>1. f # g /\ frames[f]
    BY <1>1, <1>2 DEF MemTypeOK
  <2>2. PICK i \in FrameCaps(f) : IsRoot(i) /\ \A j \in FrameCaps(f) : IsRoot(j) => j = i
    BY <2>1 DEF FrameOwnership, FramesAreOwnedOnce
  <2>3. slots'[i] = slots[i] /\ i \in SlotIndex /\ Live(i)
    BY <1>8, <2>1, <2>2 DEF FrameCaps
  <2> QED BY <1>7, <2>2, <2>3 DEF FrameCaps, IsRoot, Live
<1> QED BY <1>9, <1>10, <1>11 DEF FrameOwnership

\* A page after a window step: cleared, kept and maybe narrowed, or mapped
\* through a frame capability that allows it.
LEMMA PageAfter ==
  ASSUME KernInv, WindowStep, NEW p \in Pages
  PROVE  \/ window'[p] = Unmapped
         \/ /\ window'[p].mapped = window[p].mapped /\ window'[p].frame = window[p].frame
            /\ window'[p].rights \subseteq window[p].rights
         \/ \E s \in SlotIndex :
              /\ Live(s) /\ slots[s].kind = "frame" /\ window'[p].mapped
              /\ window'[p].frame = slots[s].target
              /\ window'[p].rights \subseteq slots[s].rights
              /\ ~({"write", "execute"} \subseteq window'[p].rights)
<1>1. window \in [Pages -> Mapping]
  BY DEF KernInv, MemTypeOK
<1>2. PICK q \in Pages :
        \/ \E s \in SlotIndex, r \in SUBSET AllRights :
             Maps(s, q, r) /\ ~({"write", "execute"} \subseteq r)
        \/ window' = [window EXCEPT ![q] = Unmapped]
        \/ \E r \in SUBSET window[q].rights : window' = [window EXCEPT ![q].rights = r]
  BY DEF WindowStep
<1>3. ASSUME NEW s \in SlotIndex, NEW r \in SUBSET AllRights, Maps(s, q, r), p = q
      PROVE  /\ Live(s) /\ slots[s].kind = "frame" /\ window'[p].mapped
             /\ window'[p].frame = slots[s].target
             /\ window'[p].rights = r /\ r \subseteq slots[s].rights
  BY <1>1, <1>3 DEF Maps
<1>4. ASSUME window' = [window EXCEPT ![q] = Unmapped], p = q
      PROVE  window'[p] = Unmapped
  BY <1>1, <1>4
<1>5. ASSUME NEW r \in SUBSET window[q].rights, window' = [window EXCEPT ![q].rights = r], p = q
      PROVE  /\ window'[p].mapped = window[p].mapped /\ window'[p].frame = window[p].frame
             /\ window'[p].rights \subseteq window[p].rights
  BY <1>1, <1>5 DEF Mapping
<1>6. ASSUME p # q PROVE window'[p] = window[p]
  BY <1>1, <1>2, <1>6 DEF Maps
<1> QED BY <1>2, <1>3, <1>4, <1>5, <1>6

LEMMA WindowOwnership ==
  ASSUME KernInv, WindowStep
  PROVE  FrameOwnership'
<1> USE DEF KernInv
<1>1. slots' = slots /\ frames' = frames
  BY DEF WindowStep
<1>2. CapsNameFrames' /\ FramesAreOwnedOnce'
  BY <1>1 DEF FrameOwnership, CapsNameFrames, FramesAreOwnedOnce, FrameCaps, IsRoot, Live
<1>3. ASSUME NEW p \in Pages, window'[p].mapped
      PROVE  frames[window'[p].frame]
  <2>1. ~Unmapped.mapped
    BY DEF Unmapped
  <2> QED BY <1>3, <2>1, PageAfter DEF FrameOwnership, CapsNameFrames, MappingsNameFrames
<1> QED BY <1>1, <1>2, <1>3 DEF FrameOwnership, MappingsNameFrames

-----------------------------------------------------------------------------
\* The inductive invariant.

LEMMA KernInitInv == MemInit => KernInv
<1> SUFFICES ASSUME MemInit PROVE KernInv
  OBVIOUS
<1>1. CapInv
  BY InitInv DEF MemInit
<1>2. /\ frames = [f \in FrameIndex |-> f = 0] /\ 0 \in FrameIndex
      /\ window = [p \in Pages |-> Unmapped] /\ Unmapped \in Mapping
  BY MemConstants DEF MemInit, FrameIndex, Unmapped, Mapping
<1>3. MemTypeOK /\ WritableXorExecutable /\ MappingsNameFrames
  BY <1>1, <1>2 DEF CapInv, MemTypeOK, WritableXorExecutable, MappingsNameFrames, Unmapped
<1>4. FramesAreOwnedOnce
  BY <1>2 DEF FramesAreOwnedOnce
<1>5. CapsNameFrames
  <2> SUFFICES ASSUME NEW i \in SlotIndex, Live(i), slots[i].kind = "frame"
               PROVE  slots[i].target = 0
    BY <1>2 DEF CapsNameFrames
  <2>1. i \in Installed /\ slots[i] = InstalledRoot(i) /\ i \in 1 .. 6
    BY CapConstants DEF MemInit, CapInit, Live, EmptySlot, Vacant, CNodeSlot, SpaceSlot
  <2>2. DomainKind(i) = "frame"
    BY <2>1 DEF InstalledRoot
  <2>3. i = FrameSlot
    BY <2>1, <2>2 DEF DomainKind, CNodeSlot, EndpointSlot, NotificationSlot, FrameSlot, ClockSlot
  <2> QED BY <2>1, <2>3 DEF InstalledRoot
<1> QED BY <1>1, <1>2, <1>3, <1>4, <1>5 DEF KernInv, FrameOwnership

LEMMA KernStepInv ==
  ASSUME KernInv, KernelStep
  PROVE  KernInv'
<1> USE DEF KernInv
<1>0. 0 \in FrameIndex
  BY MemConstants DEF FrameIndex
<1>1. CASE TableStep /\ UNCHANGED memVars
  <2>1. CapInv' /\ FrameOwnership'
    BY <1>1, TableStepInv, TableStepOwnership
  <2>2. MemTypeOK' /\ WritableXorExecutable' /\ frames'[0]
    BY <1>1, <2>1 DEF memVars, CapInv, MemTypeOK, WritableXorExecutable
  <2> QED BY <2>1, <2>2
<1>2. ASSUME NEW d \in SlotIndex, NEW f \in FrameIndex, NEW r \in SUBSET AllRights,
             Allocates(d, f, r)
      PROVE  KernInv'
  <2>1. CapInv'
    BY <1>2, AllocateForest DEF Allocates, FrameIndex
  <2>2. FrameOwnership'
    BY <1>2, AllocateOwnership
  <2>3. frames' \in [FrameIndex -> BOOLEAN] /\ window' = window /\ frames'[0]
    BY <1>0, <1>2 DEF Allocates, MemTypeOK
  <2> QED BY <2>1, <2>2, <2>3 DEF CapInv, MemTypeOK, WritableXorExecutable
<1>3. ASSUME NEW s \in SlotIndex, Reclaims(s)
      PROVE  KernInv'
  <2>1. CapInv'
    BY <1>3, ReclaimForest DEF Reclaims
  <2>2. FrameOwnership'
    BY <1>3, ReclaimOwnership
  <2>3. Unmapped \in Mapping
    BY MemConstants DEF Unmapped, Mapping, FrameIndex
  <2>4. window' \in [Pages -> Mapping] /\ frames' \in [FrameIndex -> BOOLEAN]
    BY <1>3, <2>3 DEF Reclaims, MemTypeOK
  <2>5. WritableXorExecutable' /\ frames'[0]
    BY <1>0, <1>3 DEF Reclaims, WritableXorExecutable, Unmapped, MemTypeOK
  <2> QED BY <2>1, <2>2, <2>4, <2>5 DEF CapInv, MemTypeOK
<1>4. CASE WindowStep
  <2>1. UNCHANGED capVars /\ frames' = frames
    BY <1>4 DEF WindowStep, capVars
  <2>2. CapInv'
    BY <2>1, CapInvStutter
  <2>3. FrameOwnership'
    BY <1>4, WindowOwnership
  <2>4. window' \in [Pages -> Mapping]
    <3>1. \A s \in SlotIndex : Live(s) /\ slots[s].kind = "frame" => slots[s].target \in FrameIndex
      BY DEF FrameOwnership, CapsNameFrames
    <3>2. Unmapped \in Mapping
      BY MemConstants DEF Unmapped, Mapping, FrameIndex
    <3>3. PICK q \in Pages :
            \/ \E s \in SlotIndex, r \in SUBSET AllRights : Maps(s, q, r)
            \/ window' = [window EXCEPT ![q] = Unmapped]
            \/ \E r \in SUBSET window[q].rights : window' = [window EXCEPT ![q].rights = r]
      BY <1>4 DEF WindowStep
    <3>4. ASSUME NEW s \in SlotIndex, NEW r \in SUBSET AllRights, Maps(s, q, r)
          PROVE  window' \in [Pages -> Mapping]
      BY <3>1, <3>4 DEF Maps, MemTypeOK, Mapping
    <3>5. ASSUME NEW r \in SUBSET window[q].rights, window' = [window EXCEPT ![q].rights = r]
          PROVE  window' \in [Pages -> Mapping]
      <4>1. r \in SUBSET AllRights
        BY <3>5 DEF MemTypeOK, Mapping
      <4> QED BY <3>5, <4>1 DEF MemTypeOK, Mapping
    <3>6. ASSUME window' = [window EXCEPT ![q] = Unmapped]
          PROVE  window' \in [Pages -> Mapping]
      BY <3>2, <3>6 DEF MemTypeOK
    <3> QED BY <3>3, <3>4, <3>5, <3>6
  <2>5. WritableXorExecutable'
    <3>1. Unmapped.rights = {}
      BY DEF Unmapped
    <3> QED BY <1>4, <3>1, PageAfter DEF WritableXorExecutable
  <2> QED BY <2>1, <2>2, <2>3, <2>4, <2>5 DEF CapInv, MemTypeOK
<1> HIDE DEF KernInv
<1> QED BY <1>1, <1>2, <1>3, <1>4 DEF KernelStep

LEMMA KernInvStutter == KernInv /\ UNCHANGED kernVars => KernInv'
<1> SUFFICES ASSUME KernInv, UNCHANGED kernVars PROVE KernInv'
  OBVIOUS
<1>1. slots' = slots /\ nextId' = nextId /\ frames' = frames /\ window' = window
  BY DEF kernVars
<1>2. CapInv'
  BY <1>1, CapInvStutter DEF capVars, KernInv
<1> QED BY <1>1, <1>2 DEF KernInv, MemTypeOK, CapInv, FrameOwnership, CapsNameFrames,
           MappingsNameFrames, FramesAreOwnedOnce, FrameCaps, IsRoot, Live, WritableXorExecutable

\* The inductive invariant of the capability space, the frames and the window.
THEOREM KernelInvariant == KernSpec => []KernInv
<1>1. KernInv /\ [KernNext]_kernVars => KernInv'
  BY KernNextIsKernelStep, KernStepInv, KernInvStutter
<1> QED BY KernInitInv, <1>1, PTL DEF KernSpec

\* The memory group keeps the capability space a forest.
THEOREM KernelForest == KernSpec => []DerivationForest
BY KernelInvariant, PTL DEF KernInv, CapInv

\* Every reachable state is well typed.
THEOREM KernelTypesOK == KernSpec => []MemTypeOK
BY KernelInvariant, PTL DEF KernInv

\* Frames are owned once, and no capability or mapping outlives its frame.
THEOREM Ownership == KernSpec => []FrameOwnership
BY KernelInvariant, PTL DEF KernInv

\* No page is writable and executable.
THEOREM NeverWX == KernSpec => []WritableXorExecutable
BY KernelInvariant, PTL DEF KernInv

-----------------------------------------------------------------------------
\* What can be done to a frame does not grow while it is allocated.
LEMMA ExposureStep ==
  ASSUME KernInv, KernelStep, NEW f \in FrameIndex, frames[f], frames'[f]
  PROVE  Exposure(f)' \subseteq Exposure(f)
<1> USE DEF KernInv
<1>a. \A i \in FrameCaps(f) : slots[i].rights \subseteq Exposure(f)
  BY DEF Exposure
<1>b. \A p \in Mappings(f) : window[p].rights \subseteq Exposure(f)
  BY DEF Exposure
<1>c. SUFFICES /\ \A i \in SlotIndex :
                    slots'[i].id # 0 /\ slots'[i].kind = "frame" /\ slots'[i].target = f
                      => slots'[i].rights \subseteq Exposure(f)
               /\ \A p \in Pages : window'[p].mapped /\ window'[p].frame = f
                      => window'[p].rights \subseteq Exposure(f)
  <2> HIDE DEF KernInv
  <2>1. Exposure(f)' = UNION ({slots'[i].rights : i \in FrameCaps(f)'} \cup
                              {window'[p].rights : p \in Mappings(f)'})
    BY DEF Exposure
  <2>2. /\ \A i \in FrameCaps(f)' : slots'[i].rights \subseteq Exposure(f)
        /\ \A p \in Mappings(f)' : window'[p].rights \subseteq Exposure(f)
    BY <1>c DEF FrameCaps, Mappings, Live
  <2> HIDE DEF Exposure
  <2> QED BY <2>1, <2>2
<1> HIDE DEF Exposure
<1>1. CASE TableStep /\ UNCHANGED memVars
  <2>1. ASSUME NEW i \in SlotIndex, slots'[i].id # 0, slots'[i].kind = "frame",
               slots'[i].target = f
        PROVE  slots'[i].rights \subseteq Exposure(f)
    <3>1. PICK j \in SlotIndex : /\ Live(j) /\ slots[j].kind = "frame" /\ slots[j].target = f
                                 /\ slots'[i].rights \subseteq slots[j].rights
      BY <1>1, <2>1, Provenance DEF SameCapability, DerivedFrom
    <3> QED BY <1>a, <3>1 DEF FrameCaps
  <2> QED BY <1>1, <1>b, <2>1 DEF memVars, Mappings
<1>2. ASSUME NEW d \in SlotIndex, NEW g \in FrameIndex, NEW r \in SUBSET AllRights,
             Allocates(d, g, r)
      PROVE  /\ \A i \in SlotIndex :
                    slots'[i].id # 0 /\ slots'[i].kind = "frame" /\ slots'[i].target = f
                      => slots'[i].rights \subseteq Exposure(f)
             /\ \A p \in Pages : window'[p].mapped /\ window'[p].frame = f
                      => window'[p].rights \subseteq Exposure(f)
  <2>1. g # f
    BY <1>2 DEF Allocates
  <2>2. slots'[d] = NewRoot(g, r) /\ \A i \in SlotIndex \ {d} : slots'[i] = slots[i]
    BY <1>2 DEF CapInv, CapTypeOK, Allocates, Allocating
  <2>3. slots'[d].target # f
    BY <2>1, <2>2 DEF NewRoot
  <2>4. window' = window
    BY <1>2 DEF Allocates
  <2> QED BY <1>a, <1>b, <2>2, <2>3, <2>4 DEF FrameCaps, Mappings, Live
<1>3. ASSUME NEW s \in SlotIndex, Reclaims(s)
      PROVE  /\ \A i \in SlotIndex :
                    slots'[i].id # 0 /\ slots'[i].kind = "frame" /\ slots'[i].target = f
                      => slots'[i].rights \subseteq Exposure(f)
             /\ \A p \in Pages : window'[p].mapped /\ window'[p].frame = f
                      => window'[p].rights \subseteq Exposure(f)
  <2>1. EmptySlot.id = 0 /\ Tombstone.id = 0
    BY VacantSlot DEF EmptySlot, Tombstone
  <2>2. \A i \in SlotIndex : slots'[i].id # 0 => slots'[i] = slots[i]
    BY <1>3, <2>1 DEF Reclaims, Reclaiming
  <2>3. \A p \in Pages : window'[p].mapped => window'[p] = window[p]
    BY <1>3 DEF Reclaims, Unmapped
  <2> QED BY <1>a, <1>b, <2>2, <2>3 DEF FrameCaps, Mappings, Live
<1>4. CASE WindowStep
  <2>1. slots' = slots
    BY <1>4 DEF WindowStep
  <2>2. ~Unmapped.mapped
    BY DEF Unmapped
  <2>3. ASSUME NEW p \in Pages, window'[p].mapped, window'[p].frame = f
        PROVE  window'[p].rights \subseteq Exposure(f)
    <3>1. \/ window[p].mapped /\ window[p].frame = f /\ window'[p].rights \subseteq window[p].rights
          \/ \E s \in SlotIndex : /\ Live(s) /\ slots[s].kind = "frame" /\ slots[s].target = f
                                  /\ window'[p].rights \subseteq slots[s].rights
      BY <1>4, <2>2, <2>3, PageAfter
    <3> QED BY <1>a, <1>b, <3>1 DEF FrameCaps, Mappings
  <2> QED BY <1>a, <2>1, <2>3 DEF FrameCaps, Live
<1> QED BY <1>1, <1>2, <1>3, <1>4 DEF KernelStep

THEOREM ExposureOnlyShrinks == KernSpec => ExposureNeverGrows
<1>1. KernInv /\ [KernNext]_kernVars =>
        [\A f \in FrameIndex : frames[f] /\ frames'[f] => Exposure(f)' \subseteq Exposure(f)]_kernVars
  BY KernNextIsKernelStep, ExposureStep
<1> QED BY KernelInvariant, <1>1, PTL DEF KernSpec, ExposureNeverGrows

-----------------------------------------------------------------------------
\* What a step may do to authority, the memory operations included.

LEMMA KernelProvenance ==
  ASSUME KernInv, KernelStep, NEW i \in SlotIndex, slots'[i].id # 0
  PROVE  \/ \E j \in SlotIndex :
              /\ Live(j)
              /\ SameCapability(slots'[i], slots[j]) \/ DerivedFrom(slots'[i], slots[j])
         \/ RootOfFreeFrame(slots'[i])
<1> USE DEF KernInv
<1>0. slots \in [SlotIndex -> Slot]
  BY DEF CapInv, CapTypeOK
<1>s. slots'[i] = slots[i] => Live(i) /\ SameCapability(slots'[i], slots[i])
  BY DEF SameCapability, Live
<1>1. CASE TableStep /\ UNCHANGED memVars
  BY <1>1, Provenance
<1>2. ASSUME NEW d \in SlotIndex, NEW f \in FrameIndex, NEW r \in SUBSET AllRights,
             Allocates(d, f, r)
      PROVE  slots'[i] = slots[i] \/ RootOfFreeFrame(slots'[i])
  <2>1. slots'[i] = IF i = d THEN NewRoot(f, r) ELSE slots[i]
    BY <1>0, <1>2 DEF Allocates, Allocating
  <2>2. f \in FreeFrames /\ frames'[f]
    BY <1>2 DEF Allocates, FreeFrames, MemTypeOK
  <2> QED BY <2>1, <2>2 DEF RootOfFreeFrame, NewRoot
<1>3. ASSUME NEW s \in SlotIndex, Reclaims(s)
      PROVE  slots'[i] = slots[i]
  <2>1. EmptySlot.id = 0 /\ Tombstone.id = 0
    BY VacantSlot DEF EmptySlot, Tombstone
  <2> QED BY <1>3, <2>1 DEF Reclaims, Reclaiming
<1>4. CASE WindowStep
  BY <1>4, <1>s DEF WindowStep
<1> QED BY <1>s, <1>1, <1>2, <1>3, <1>4 DEF KernelStep

\* No operation of the capability space or of memory forges a capability.
THEOREM KernelUnforgeable == KernSpec => NoForgedMemory
<1>1. KernInv /\ [KernNext]_kernVars =>
        [\A i \in SlotIndex : slots'[i].id # 0 =>
           \/ \E j \in SlotIndex :
                /\ Live(j)
                /\ SameCapability(slots'[i], slots[j]) \/ DerivedFrom(slots'[i], slots[j])
           \/ RootOfFreeFrame(slots'[i])]_kernVars
  BY KernNextIsKernelStep, KernelProvenance
<1> QED BY KernelInvariant, <1>1, PTL DEF KernSpec, NoForgedMemory

\* No operation adds a right to those held over an object the domain is built
\* with: a frame that is allocated is never the domain's own.
THEOREM KernelAuthority == KernSpec => AuthorityNeverGrows
<1>1. ASSUME KernInv, KernNext, NEW n \in Installed
      PROVE  LET kind == InstalledRoot(n).kind  target == InstalledRoot(n).target
             IN  Authority(kind, target)' \subseteq Authority(kind, target)
  <2> DEFINE kind == InstalledRoot(n).kind
             target == InstalledRoot(n).target
  <2>0. kind = "frame" => target = 0
    BY CapConstants DEF InstalledRoot, DomainKind, CNodeSlot, SpaceSlot, EndpointSlot,
       NotificationSlot, FrameSlot, ClockSlot
  <2> HIDE DEF kind, target
  <2>1. SUFFICES ASSUME NEW i \in SlotIndex, slots'[i].id # 0, slots'[i].kind = kind,
                        slots'[i].target = target, NEW right \in slots'[i].rights
                 PROVE  right \in Authority(kind, target)
    BY DEF Authority, Live, kind, target
  <2>2. ~RootOfFreeFrame(slots'[i])
    BY <1>1, <2>0, <2>1 DEF RootOfFreeFrame, FreeFrames, KernInv
  <2>3. PICK j \in SlotIndex :
          /\ Live(j)
          /\ SameCapability(slots'[i], slots[j]) \/ DerivedFrom(slots'[i], slots[j])
    BY <1>1, <2>1, <2>2, KernNextIsKernelStep, KernelProvenance
  <2>4. slots[j].kind = kind /\ slots[j].target = target /\ right \in slots[j].rights
    BY <2>1, <2>3 DEF SameCapability, DerivedFrom
  <2> QED BY <2>3, <2>4 DEF Authority
<1>2. KernInv /\ [KernNext]_kernVars =>
        [\A i \in Installed :
           LET kind == InstalledRoot(i).kind  target == InstalledRoot(i).target
           IN  Authority(kind, target)' \subseteq Authority(kind, target)]_capVars
  BY <1>1 DEF kernVars, capVars
<1> QED BY KernelInvariant, <1>2, PTL DEF KernSpec, AuthorityNeverGrows, capVars, kernVars

\* A revocation kills exactly the descendants of the capability it names.
THEOREM KernelRevocation == KernSpec => []RevocationIsExact
<1>1. KernInv => RevocationIsExact
  BY DoomedIsDescendants DEF RevocationIsExact, KernInv
<1> QED BY KernelInvariant, <1>1, PTL

(***************************************************************************)
(* The two implementations.                                                *)
(***************************************************************************)

\* The objects that are frames, and the words the two keep.
FrameObjects == {o \in Objects : o = FrameZero \/ o >= FirstBudgetFrame}
Words        == [badge : Nat, word : Nat]

IndStates ==
  [slots : [SlotIndex -> {NoCapability, Dead}
              \cup [is : {"live"}, object : Objects, rights : SUBSET AllRights, badge : Nat,
                    id : Nat, parent : Nat]],
   nextId : Nat, live : SUBSET Objects,
   pages : [Pages -> [frame : Objects, rights : SUBSET AllRights]],
   ring : [0 .. QueueLimit - 1 -> Words],
   head : 0 .. QueueLimit - 1, length : 0 .. QueueLimit,
   pending : BOOLEAN, badges : SUBSET Nat, ticks : Nat]

IpcStates ==
  [queue : Seq(Words), sent : Nat, pending : BOOLEAN, badges : SUBSET Nat, clock : Nat]

AgreeTyped ==
  /\ ind \in IndStates /\ ipc \in IpcStates /\ profile \in Profiles /\ received \in Nat

\* A slot of the reference and the same slot of the other.
Image(here, there) ==
  \/ here = EmptySlot /\ there = NoCapability
  \/ here = Tombstone /\ there = Dead
  \/ /\ here.id # 0 /\ ~here.revoked
     /\ \E o \in Objects :
          /\ there = Capable(o, here.rights, here.badge, here.id, here.parent)
          /\ ObjectKind(o) = here.kind
          /\ here.kind = "frame" => FrameNumber(o) = here.target

SameTables == \A i \in SlotIndex : Image(slots[i], ind.slots[i])

\* Frames correspond; what is not a frame is never reused.
SameFrames ==
  /\ \A o \in Objects \ FrameObjects : o \in ind.live
  /\ \A o \in FrameObjects : o \in ind.live <=> frames[FrameNumber(o)]

\* A page maps object 0 when it maps nothing.
SamePage(here, there) ==
  \/ here = Unmapped /\ there = Blank
  \/ /\ there.frame \in FrameObjects
     /\ here = [mapped |-> TRUE, frame |-> FrameNumber(there.frame), rights |-> there.rights]

SamePages == \A p \in Pages : SamePage(window[p], ind.pages[p])

\* The ring read from its head is the queue.
SameQueue ==
  /\ Len(ipc.queue) = ind.length
  /\ \A k \in 1 .. ind.length : ipc.queue[k] = ind.ring[(ind.head + k - 1) % QueueLimit]

SameSignals ==
  ipc.pending = ind.pending /\ ipc.badges = ind.badges /\ ipc.clock = ind.ticks

\* Messages number themselves.
Numbered ==
  /\ ipc.sent = received + Len(ipc.queue)
  /\ \A k \in 1 .. Len(ipc.queue) : ipc.queue[k].word = received + k

AgreeInv ==
  /\ KernInv /\ AgreeTyped /\ nextId = ind.nextId
  /\ SameTables /\ SameFrames /\ SamePages /\ SameQueue /\ SameSignals /\ Numbered

-----------------------------------------------------------------------------
\* Objects and frame numbers.

LEMMA FrameObjectsAre ==
  /\ \A o \in Objects : o \in Nat /\ (ObjectKind(o) = "frame" <=> o \in FrameObjects)
  /\ \A o \in FrameObjects : FrameNumber(o) \in FrameIndex /\ o # NoFrame
  /\ \A o, n \in FrameObjects : FrameNumber(o) = FrameNumber(n) => o = n
  /\ \A f \in FrameIndex : \E o \in FrameObjects : FrameNumber(o) = f
  /\ \A o, n \in FrameObjects : o <= n <=> FrameNumber(o) <= FrameNumber(n)
  /\ FrameZero \in FrameObjects /\ FrameNumber(FrameZero) = 0
<1>1. \A f \in FrameIndex : \E o \in FrameObjects : FrameNumber(o) = f
  <2>1. ASSUME NEW f \in FrameIndex PROVE \E o \in FrameObjects : FrameNumber(o) = f
    <3>1. CASE f = 0
      BY <3>1, MemConstants DEF FrameObjects, Objects, FrameNumber, FrameZero
    <3>2. CASE f # 0
      <4>1. f + 5 \in FrameObjects /\ FrameNumber(f + 5) = f
        BY <3>2, MemConstants
        DEF FrameObjects, Objects, FrameNumber, FrameZero, FirstBudgetFrame, FrameIndex
      <4> QED BY <4>1
    <3> QED BY <3>1, <3>2
  <2> QED BY <2>1
<1>2. \A o \in Objects : o \in Nat /\ (ObjectKind(o) = "frame" <=> o \in FrameObjects)
  BY MemConstants DEF FrameObjects, Objects, ObjectKind, FrameZero, FirstBudgetFrame
<1>3. \A o \in FrameObjects : FrameNumber(o) \in FrameIndex /\ o # NoFrame
  BY MemConstants DEF FrameObjects, Objects, FrameNumber, FrameIndex, FrameZero, FirstBudgetFrame, NoFrame
<1>4. \A o, n \in FrameObjects :
        /\ FrameNumber(o) = FrameNumber(n) => o = n
        /\ o <= n <=> FrameNumber(o) <= FrameNumber(n)
  BY MemConstants DEF FrameObjects, Objects, FrameNumber, FrameZero, FirstBudgetFrame
<1>5. FrameZero \in FrameObjects /\ FrameNumber(FrameZero) = 0
  BY MemConstants DEF FrameObjects, Objects, FrameNumber, FrameZero
<1> QED BY <1>1, <1>2, <1>3, <1>4, <1>5

-----------------------------------------------------------------------------
\* The checks.

LEMMA SlotIs ==
  ASSUME AgreeInv, NEW i \in SlotIndex
  PROVE  /\ Image(slots[i], ind.slots[i])
         /\ Live(i) <=> ICapability(i) = "ok"
         /\ Live(i) => ~slots[i].revoked
         /\ ICapability(i) = Resolve(i)
         /\ slots[i].revoked \/ ~Live(i) <=> IHeld(i) \in {NoCapability, Dead}
<1>1. Image(slots[i], ind.slots[i])
  BY DEF AgreeInv, SameTables
<1>2. CASE slots[i] = EmptySlot /\ ind.slots[i] = NoCapability
  BY <1>1, <1>2 DEF EmptySlot, Vacant, NoCapability, Dead, Live, ICapability, Resolve, IHeld, Require, ??
<1>3. CASE slots[i] = Tombstone /\ ind.slots[i] = Dead
  BY <1>1, <1>3 DEF Tombstone, Vacant, NoCapability, Dead, Live, ICapability, Resolve, IHeld, Require, ??
<1>4. ASSUME slots[i].id # 0, ~slots[i].revoked, NEW o \in Objects,
             ind.slots[i] = Capable(o, slots[i].rights, slots[i].badge, slots[i].id, slots[i].parent)
      PROVE  /\ Live(i) /\ ICapability(i) = "ok" /\ Resolve(i) = "ok"
             /\ IHeld(i) \notin {NoCapability, Dead}
  <2>1. IHeld(i).is = "live" /\ NoCapability.is = "empty" /\ Dead.is = "tombstone"
    BY <1>4 DEF IHeld, Capable, NoCapability, Dead
  <2>2. IHeld(i) # NoCapability /\ IHeld(i) # Dead
    BY <2>1
  <2> QED BY <1>4, <2>2 DEF ICapability, Live, Resolve, Require, ??
<1> QED BY <1>1, <1>2, <1>3, <1>4 DEF Image

\* A live slot is live in both, with the same content.
LEMMA HeldIs ==
  ASSUME AgreeInv, NEW i \in SlotIndex, Live(i)
  PROVE  \E o \in Objects :
           /\ IHeld(i) = Capable(o, slots[i].rights, slots[i].badge, slots[i].id, slots[i].parent)
           /\ IHeld(i).object = o /\ IHeld(i).rights = slots[i].rights
           /\ IHeld(i).badge = slots[i].badge /\ IHeld(i).id = slots[i].id
           /\ IHeld(i).parent = slots[i].parent
           /\ ObjectKind(o) = slots[i].kind
           /\ slots[i].kind = "frame" => FrameNumber(o) = slots[i].target /\ o \in FrameObjects
<1>1. Image(slots[i], ind.slots[i])
  BY DEF AgreeInv, SameTables
<1>2. slots[i] # EmptySlot /\ slots[i] # Tombstone
  BY DEF Live, EmptySlot, Tombstone, Vacant
<1>3. PICK o \in Objects :
        /\ ind.slots[i] = Capable(o, slots[i].rights, slots[i].badge, slots[i].id, slots[i].parent)
        /\ ObjectKind(o) = slots[i].kind
        /\ slots[i].kind = "frame" => FrameNumber(o) = slots[i].target
  BY <1>1, <1>2 DEF Image
<1> QED BY <1>3, FrameObjectsAre DEF IHeld, Capable

LEMMA SameChecks ==
  ASSUME AgreeInv
  PROVE  /\ \A i : ICapability(i) = Resolve(i)
         /\ \A i, kind : \A required :
              ITyped(i, kind) ?? IRequire(i, required) = ResolveTyped(i, kind, required)
         /\ \A i, kind : ITyped(i, kind) = ResolveTyped(i, kind, {})
         /\ \A d \in SlotIndex \ {0} : IDestination(d) = Destination(d)
         /\ \A i, r : Resolve(i) = "ok" => IRequire(i, r) = Narrows(r, i)
<1>1. ASSUME NEW i PROVE ICapability(i) = Resolve(i)
  BY SlotIs DEF ICapability, Resolve
<1>2. ASSUME NEW i, Resolve(i) = "ok"
      PROVE  /\ ObjectKind(IHeld(i).object) = slots[i].kind
             /\ IHeld(i).rights = slots[i].rights
  BY <1>2, ResolveOk, HeldIs
<1>3. ASSUME NEW i, NEW kind, NEW required
      PROVE  /\ ITyped(i, kind) ?? IRequire(i, required) = ResolveTyped(i, kind, required)
             /\ ITyped(i, kind) = ResolveTyped(i, kind, {})
             /\ Resolve(i) = "ok" => IRequire(i, required) = Narrows(required, i)
  BY <1>1, <1>2 DEF ITyped, IRequire, ResolveTyped, Narrows, Require, ??
<1>4. ASSUME NEW d \in SlotIndex \ {0} PROVE IDestination(d) = Destination(d)
  BY SlotIs DEF IDestination, Destination, Require, ??
<1> QED BY <1>1, <1>3, <1>4

-----------------------------------------------------------------------------
\* What the two read is the same.

LEMMA SameRead ==
  ASSUME AgreeInv
  PROVE  /\ \A p : PageInWindow(p) = IPage(p)
         /\ \A p \in Pages : /\ IsMapped(p) = IOccupied(p)
                             /\ window[p].mapped <=> ind.pages[p].frame # NoFrame
                             /\ window[p].mapped =>
                                  /\ window[p].frame = FrameNumber(ind.pages[p].frame)
                                  /\ window[p].rights = ind.pages[p].rights
         /\ \A r : MappableRights(r) = IMappingRights(r) /\ NotWritableAndExecutable(r) = IPermittedTogether(r)
<1>1. \A p : PageInWindow(p) = IPage(p)
  BY DEF PageInWindow, IPage
<1>2. ASSUME NEW p \in Pages
      PROVE  /\ IsMapped(p) = IOccupied(p)
             /\ window[p].mapped <=> ind.pages[p].frame # NoFrame
             /\ window[p].mapped => /\ window[p].frame = FrameNumber(ind.pages[p].frame)
                                    /\ window[p].rights = ind.pages[p].rights
  <2>1. SamePage(window[p], ind.pages[p])
    BY DEF AgreeInv, SamePages
  <2> QED BY <2>1, FrameObjectsAre DEF SamePage, IsMapped, IOccupied, Require, Unmapped, Blank
<1>3. \A r : MappableRights(r) = IMappingRights(r)
  BY DEF MappableRights, IMappingRights, DefinedRights, Require, ??, MappingRights, AllRights
<1>4. \A r : NotWritableAndExecutable(r) = IPermittedTogether(r)
  BY DEF NotWritableAndExecutable, IPermittedTogether
<1> QED BY <1>1, <1>2, <1>3, <1>4

\* The lowest free frame is the lowest free object.
LEMMA SameFree ==
  ASSUME AgreeInv
  PROVE  /\ FreeFrames # {} <=> Objects \ ind.live # {}
         /\ Objects \ ind.live \subseteq FrameObjects
         /\ \A o \in Objects \ ind.live : FrameNumber(o) \in FreeFrames
         /\ \A f \in FreeFrames : \E o \in Objects \ ind.live : FrameNumber(o) = f
<1>1. \A o \in Objects \ ind.live : o \in FrameObjects
  BY DEF AgreeInv, SameFrames
<1>2. \A o \in Objects \ ind.live : FrameNumber(o) \in FreeFrames
  BY <1>1, FrameObjectsAre DEF AgreeInv, SameFrames, FreeFrames
<1>3. ASSUME NEW f \in FreeFrames PROVE \E o \in Objects \ ind.live : FrameNumber(o) = f
  <2>1. PICK o \in FrameObjects : FrameNumber(o) = f
    BY FrameObjectsAre DEF FreeFrames
  <2> QED BY <2>1 DEF AgreeInv, SameFrames, FreeFrames, FrameObjects
<1> QED BY <1>1, <1>2, <1>3

LEMMA SameMapped ==
  ASSUME AgreeInv, NEW o \in FrameObjects
  PROVE  IMapped(o) = Mappings(FrameNumber(o))
<1>1. ASSUME NEW p \in Pages
      PROVE  ind.pages[p].frame = o <=> window[p].mapped /\ window[p].frame = FrameNumber(o)
  <2>1. SamePage(window[p], ind.pages[p])
    BY DEF AgreeInv, SamePages
  <2> QED BY <2>1, FrameObjectsAre DEF SamePage, Unmapped, Blank, FrameObjects
<1> QED BY <1>1 DEF IMapped, Mappings

-----------------------------------------------------------------------------
\* The lineage of an identity, as the walk over a snapshot of the table finds it.

HeldCaps == {IHeld(i) : i \in {j \in SlotIndex : ICapability(j) = "ok"}}

Climbs(id, up) ==
  up = [n \in 0 .. id |->
          {n} \cup UNION {up[h.parent] : h \in {h \in HeldCaps : h.id = n /\ n # 0}}]

\* Parents are older, and no two capabilities have one identity.
LEMMA HeldCapsAre ==
  ASSUME AgreeInv
  PROVE  /\ \A h \in HeldCaps : h.id \in Nat \ {0} /\ h.parent \in Nat /\ h.parent < h.id
         /\ \A i \in SlotIndex : Live(i) =>
              /\ IHeld(i) \in HeldCaps /\ IHeld(i).id = slots[i].id
              /\ IHeld(i).parent = slots[i].parent
              /\ \A h \in HeldCaps : h.id = slots[i].id => h = IHeld(i)
<1> USE DEF AgreeInv, KernInv, CapInv, DerivationForest
<1>1. \A i \in SlotIndex : slots[i].id \in Nat /\ slots[i].parent \in Nat
  BY DEF CapTypeOK, Slot
<1>2. \A i \in SlotIndex : Live(i) <=> ICapability(i) = "ok"
  BY SlotIs
<1>3. \A i \in SlotIndex : Live(i) => IHeld(i).id = slots[i].id /\ IHeld(i).parent = slots[i].parent
  BY HeldIs
<1>4. \A i \in SlotIndex : Live(i) => slots[i].parent < slots[i].id
  BY <1>1 DEF ParentsLive, Derived, Live
<1>5. \A h \in HeldCaps : \E i \in SlotIndex : Live(i) /\ h = IHeld(i)
  BY <1>2 DEF HeldCaps
<1>6. \A i \in SlotIndex : Live(i) => IHeld(i) \in HeldCaps
  BY <1>2 DEF HeldCaps
<1>7. \A h \in HeldCaps : h.id \in Nat \ {0} /\ h.parent \in Nat /\ h.parent < h.id
  BY <1>1, <1>3, <1>4, <1>5 DEF Live
<1>8. ASSUME NEW i \in SlotIndex, Live(i), NEW h \in HeldCaps, h.id = slots[i].id
      PROVE  h = IHeld(i)
  BY <1>3, <1>5, <1>8 DEF IdsUnique
<1> QED BY <1>3, <1>6, <1>7, <1>8

\* The walk ends: there is a function that climbs.
LEMMA ClimbExists ==
  ASSUME AgreeInv
  PROVE  \A id \in Nat : \E up : Climbs(id, up)
<1> DEFINE Bad == {id \in Nat : ~ \E up : Climbs(id, up)}
<1>1. SUFFICES ASSUME Bad # {} PROVE FALSE
  OBVIOUS
<1>2. PICK id \in Bad : \A n \in Bad : id <= n
  BY <1>1, LeastMember
<1>3. CASE id = 0
  <2>1. Climbs(0, [n \in 0 .. 0 |-> {0}])
    BY DEF Climbs
  <2> QED BY <1>3, <2>1
<1>4. CASE id # 0
  <2>1. id - 1 \in Nat /\ id - 1 \notin Bad
    BY <1>2, <1>4
  <2>2. PICK up : Climbs(id - 1, up)
    BY <2>1
  <2> DEFINE top == {id} \cup UNION {up[h.parent] : h \in {h \in HeldCaps : h.id = id /\ id # 0}}
             more == [n \in 0 .. id |-> IF n = id THEN top ELSE up[n]]
  <2>3. \A n \in 0 .. id - 1 : more[n] = up[n]
    BY <2>1
  <2>4. ASSUME NEW n \in 0 .. id
        PROVE  /\ \A h \in {h \in HeldCaps : h.id = n /\ n # 0} : more[h.parent] = up[h.parent]
               /\ more[n] = {n} \cup UNION {up[h.parent] : h \in {h \in HeldCaps : h.id = n /\ n # 0}}
    <3>1. \A h \in {h \in HeldCaps : h.id = n /\ n # 0} : h.parent \in 0 .. id - 1
      BY <2>1, HeldCapsAre
    <3>2. n # id => n \in 0 .. id - 1
      BY <2>1
    <3>3. n # id => up[n] = {n} \cup UNION {up[h.parent] : h \in {h \in HeldCaps : h.id = n /\ n # 0}}
      BY <2>2, <3>2 DEF Climbs
    <3> QED BY <2>3, <3>1, <3>3
  <2>5. ASSUME NEW n \in 0 .. id
        PROVE  more[n] = {n} \cup UNION {more[h.parent] : h \in {h \in HeldCaps : h.id = n /\ n # 0}}
    <3> DEFINE H == {h \in HeldCaps : h.id = n /\ n # 0}
    <3>1. /\ \A h \in H : more[h.parent] = up[h.parent]
          /\ more[n] = {n} \cup UNION {up[h.parent] : h \in H}
      BY <2>4
    <3> HIDE DEF H, more
    <3>2. {up[h.parent] : h \in H} = {more[h.parent] : h \in H}
      BY <3>1
    <3> QED BY <3>1, <3>2 DEF H
  <2> HIDE DEF top
  <2>6. Climbs(id, more)
    BY <2>5 DEF Climbs
  <2> QED BY <2>6
<1> QED BY <1>3, <1>4

LEMMA ClimbUnique ==
  ASSUME AgreeInv, NEW a \in Nat, NEW b \in Nat, NEW u, NEW v, Climbs(a, u), Climbs(b, v)
  PROVE  \A n \in 0 .. a : n <= b => u[n] = v[n]
<1> DEFINE Bad == {n \in 0 .. a : n <= b /\ u[n] # v[n]}
<1>1. SUFFICES ASSUME Bad # {} PROVE FALSE
  OBVIOUS
<1>2. Bad \subseteq Nat
  OBVIOUS
<1>3. PICK n \in Bad : \A m \in Bad : n <= m
  BY <1>1, <1>2, LeastMember
<1> DEFINE H == {h \in HeldCaps : h.id = n /\ n # 0}
<1>4. \A h \in H : h.parent \in 0 .. a /\ h.parent <= b /\ h.parent < n
  BY <1>3, HeldCapsAre
<1>5. \A h \in H : u[h.parent] = v[h.parent]
  BY <1>3, <1>4
<1>6. u[n] = {n} \cup UNION {u[h.parent] : h \in H}
  BY <1>3 DEF Climbs
<1>7. v[n] = {n} \cup UNION {v[h.parent] : h \in H}
  <2>1. n \in 0 .. b
    BY <1>3
  <2> QED BY <2>1 DEF Climbs
<1> HIDE DEF H
<1>8. {u[h.parent] : h \in H} = {v[h.parent] : h \in H}
  BY <1>5
<1> QED BY <1>3, <1>6, <1>7, <1>8

LEMMA LineageClimbs ==
  ASSUME AgreeInv, NEW id \in Nat
  PROVE  \E up : Climbs(id, up) /\ Lineage(id) = up[id]
<1>1. PICK up : Climbs(id, up)
  BY ClimbExists
<1> QED BY <1>1 DEF Lineage, Climbs, HeldCaps

\* Going up, identities become smaller.
LEMMA LineageDown ==
  ASSUME AgreeInv, NEW id \in Nat
  PROVE  \A k \in Lineage(id) : k \in Nat /\ k <= id
<1>1. PICK up : Climbs(id, up) /\ Lineage(id) = up[id]
  BY LineageClimbs
<1> DEFINE Bad == {n \in 0 .. id : \E k \in up[n] : k \notin 0 .. n}
<1>2. SUFFICES ASSUME Bad # {} PROVE FALSE
  BY <1>1
<1>3. Bad \subseteq Nat
  OBVIOUS
<1>4. PICK n \in Bad : \A m \in Bad : n <= m
  BY <1>2, <1>3, LeastMember
<1>5. up[n] = {n} \cup UNION {up[h.parent] : h \in {h \in HeldCaps : h.id = n /\ n # 0}}
  BY <1>1, <1>4 DEF Climbs
<1>6. PICK k \in up[n] : k \notin 0 .. n
  BY <1>4
<1>7. PICK h \in HeldCaps : h.id = n /\ k \in up[h.parent]
  BY <1>4, <1>5, <1>6
<1>8. h.parent \in 0 .. id /\ h.parent < n /\ n \in Nat
  BY <1>4, <1>7, HeldCapsAre
<1>9. h.parent \notin Bad
  BY <1>4, <1>8
<1>10. k \in 0 .. h.parent
  BY <1>7, <1>8, <1>9
<1> QED BY <1>6, <1>8, <1>10

\* The lineage of a capability is its identity and the lineage of its parent.
LEMMA LineageOf ==
  ASSUME AgreeInv
  PROVE  /\ Lineage(0) = {0}
         /\ \A i \in SlotIndex : Live(i) =>
              Lineage(slots[i].id) = {slots[i].id} \cup Lineage(slots[i].parent)
<1>1. Lineage(0) = {0}
  <2>1. PICK up : Climbs(0, up) /\ Lineage(0) = up[0]
    BY LineageClimbs
  <2>2. up[0] = {0} \cup UNION {up[h.parent] : h \in {h \in HeldCaps : h.id = 0 /\ 0 # 0}}
    BY <2>1 DEF Climbs
  <2> QED BY <2>1, <2>2
<1>2. ASSUME NEW i \in SlotIndex, Live(i)
      PROVE  Lineage(slots[i].id) = {slots[i].id} \cup Lineage(slots[i].parent)
  <2> DEFINE id == slots[i].id
             parent == slots[i].parent
             H == {h \in HeldCaps : h.id = id /\ id # 0}
  <2>1. id \in Nat \ {0} /\ parent \in Nat /\ parent < id
    BY <1>2, HeldCapsAre
  <2>2. H = {IHeld(i)} /\ IHeld(i).parent = parent
    BY <1>2, <2>1, HeldCapsAre
  <2>3. PICK up : Climbs(id, up) /\ Lineage(id) = up[id]
    BY <2>1, LineageClimbs
  <2>4. PICK down : Climbs(parent, down) /\ Lineage(parent) = down[parent]
    BY <2>1, LineageClimbs
  <2>5. up[id] = {id} \cup UNION {up[h.parent] : h \in H}
    <3>1. id \in 0 .. id
      BY <2>1
    <3> HIDE DEF id
    <3> QED BY <2>3, <3>1 DEF Climbs
  <2> HIDE DEF H, id, parent
  <2>6. {up[h.parent] : h \in H} = {up[parent]}
    BY <2>2
  <2>7. up[parent] = down[parent]
    BY <2>1, <2>3, <2>4, ClimbUnique
  <2> QED BY <2>3, <2>4, <2>5, <2>6, <2>7 DEF id, parent
<1> QED BY <1>1, <1>2

\* Both find the same descendants: the one walks up from every capability, the
\* other loops over the table until nothing changes.
LEMMA SameRevoked ==
  ASSUME AgreeInv, NEW s \in SlotIndex, Live(s)
  PROVE  IDescendants(slots[s].id) = Doomed(slots[s].id)
<1> DEFINE root == slots[s].id
           D == IDescendants(root)
<1>1. \A i \in SlotIndex : Live(i) <=> ICapability(i) = "ok"
  BY SlotIs
<1>2. \A i \in SlotIndex : slots[i].id \in Nat /\ slots[i].parent \in Nat /\ root \in Nat \ {0}
  BY DEF AgreeInv, KernInv, CapInv, CapTypeOK, Slot, Live
<1>3. \A i \in SlotIndex : Live(i) => IHeld(i).id = slots[i].id
  BY HeldIs
<1>4. \A i \in SlotIndex : i \in D <=> Live(i) /\ slots[i].id # root /\ root \in Lineage(slots[i].id)
  BY <1>1, <1>3 DEF IDescendants
<1>5. \A i \in D : i \in Derived /\ (slots[i].parent = root \/ root \in Lineage(slots[i].parent))
  BY <1>2, <1>4, LineageOf DEF Derived, IDescendants
<1>6. \A i \in SlotIndex : Live(i) => slots[i].id \in Lineage(slots[i].id)
  BY LineageOf
<1> HIDE DEF D, root
<1>7. ASSUME NEW dead \in SUBSET Derived, ClosedUnder(root, dead)
      PROVE  D \subseteq dead
  <2> DEFINE Bad == {slots[i].id : i \in D \ dead}
  <2>1. SUFFICES ASSUME Bad # {} PROVE FALSE
    OBVIOUS
  <2>2. Bad \subseteq Nat
    BY <1>2, <1>5 DEF Derived
  <2>3. PICK n \in Bad : \A m \in Bad : n <= m
    BY <2>1, <2>2, LeastMember
  <2>4. PICK i \in D \ dead : slots[i].id = n
    BY <2>3
  <2>5. i \in SlotIndex /\ i \in Derived \ dead
    BY <2>4, <1>5 DEF Derived
  <2>6. /\ slots[i].parent # root
        /\ \E j \in SlotIndex \ dead : Live(j) /\ slots[j].id = slots[i].parent
    BY <1>7, <2>5 DEF ClosedUnder, Survives
  <2>7. PICK j \in SlotIndex \ dead : Live(j) /\ slots[j].id = slots[i].parent
    BY <2>6
  <2>8. root \in Lineage(slots[j].id) /\ slots[j].id # root
    BY <1>5, <2>4, <2>6, <2>7
  <2>9. j \in D \ dead
    BY <1>4, <2>7, <2>8
  <2>10. slots[j].id < n
    BY <2>4, <2>5, <2>7, HeldCapsAre, <1>2 DEF Derived
  <2>11. slots[j].id \in Bad /\ slots[j].id \in Nat /\ n \in Nat
    BY <2>2, <2>9
  <2> HIDE DEF Bad
  <2> QED BY <2>3, <2>10, <2>11
<1>8. ClosedUnder(root, D)
  <2>1. ASSUME NEW i \in Derived \ D PROVE Survives(i, root, D)
    <3>1. i \in SlotIndex /\ Live(i) /\ i \notin D
      BY DEF Derived
    <3>2. PICK j \in SlotIndex : Live(j) /\ slots[j].id = slots[i].parent
      BY DEF AgreeInv, KernInv, CapInv, DerivationForest, ParentsLive
    <3>3. slots[i].id = root \/ root \notin Lineage(slots[i].id)
      BY <1>4, <3>1
    <3>4. Lineage(slots[i].id) = {slots[i].id} \cup Lineage(slots[i].parent)
      BY <3>1, LineageOf
    <3>5. \A k \in Lineage(slots[i].parent) : k <= slots[i].parent
      BY <1>2, <3>1, LineageDown
    <3> QED BY <1>2, <1>4, <1>6, <3>1, <3>2, <3>3, <3>4, <3>5, HeldCapsAre DEF Survives
  <2> QED BY <2>1 DEF ClosedUnder
<1>9. D \subseteq Derived
  BY <1>5
<1>10. D = Doomed(root)
  BY <1>7, <1>8, <1>9 DEF Doomed
<1> QED BY <1>10 DEF D, root

-----------------------------------------------------------------------------
\* Every request is answered alike, one lemma for each group of operations.  A
\* request is what its operation makes it.

Typed(q) ==
  /\ q.op \in {"cap.mint", "cap.attenuate"} => q.r \in RightsArgs
  /\ q.op = "cap.mint" => q.b \in Badges /\ q.w
  /\ q.op \in {"frame.allocate", "frame.share", "frame.map", "as.protect", "as.map"}
       => q.r \in MemRights
  /\ q.op = "frame.share" => q.b \in Badges
  /\ q.op \in {"cap.copy", "cap.move", "cap.mint", "frame.allocate", "frame.share"}
       => q.d \in DestArgs
  /\ q.w \in BOOLEAN

Operations ==
  {"nop", "boot.info", "cap.copy", "cap.move", "cap.mint", "cap.attenuate", "cap.revoke",
   "endpoint.send", "endpoint.receive", "endpoint.call", "endpoint.reply",
   "notification.signal", "notification.poll", "notification.wait", "clock.now",
   "frame.allocate", "frame.share", "frame.map", "frame.reclaim", "as.map", "as.unmap",
   "as.protect", "as.query"}

LEMMA RequestsAre ==
  ASSUME NEW g \in Groups, NEW q \in Requests[g]
  PROVE  Typed(q) /\ q.op \in Operations
<1>1. CASE g = "core"
  BY <1>1 DEF Requests, Typed, Operations
<1>2. CASE g = "capability"
  BY <1>2 DEF Requests, Typed, Operations
<1>3. CASE g = "endpoint"
  BY <1>3 DEF Requests, Typed, Operations
<1>4. CASE g = "notification"
  BY <1>4 DEF Requests, Typed, Operations
<1>5. CASE g = "clock"
  BY <1>5 DEF Requests, Typed, Operations
<1>6. CASE g = "memory"
  BY <1>6 DEF Requests, Typed, Operations
<1> QED BY <1>1, <1>2, <1>3, <1>4, <1>5, <1>6 DEF Groups

Agreed(g, q) == ReferenceAnswer(g, q) = Independent(g, q).answer

LEMMA UnpublishedAgreed ==
  ASSUME NEW g, NEW q, g \notin profile.published
  PROVE  Agreed(g, q)
BY DEF Agreed, ReferenceAnswer, ReferenceStatus, Independent, Reply, Require, ??

LEMMA CoreAgreed ==
  ASSUME NEW g, NEW q, g \in profile.published, Typed(q), Pinned(q),
         q.op \in {"nop", "boot.info"}
  PROVE  Agreed(g, q)
<1>1. CASE q.op = "nop"
  BY <1>1 DEF Agreed, ReferenceAnswer, ReferenceStatus, ReferenceWords, Independent, INop,
       NopStatus, Reply, Require, ??, Pinned
<1>2. CASE q.op = "boot.info"
  BY <1>2 DEF Agreed, ReferenceAnswer, ReferenceStatus, ReferenceWords, Independent, IBootInfo,
       BootInfoStatus, Reserved, Reply, Require, ??
<1> QED BY <1>1, <1>2

LEMMA CapabilityAgreed ==
  ASSUME AgreeInv, NEW g, NEW q, g \in profile.published, Typed(q), Pinned(q),
         q.op \in {"cap.copy", "cap.mint", "cap.attenuate", "cap.move", "cap.revoke"}
  PROVE  Agreed(g, q)
<1>a. IndexWord(q.s) = "ok" /\ ISubject(q.s) = ICapability(q.s)
  BY DEF Pinned, Sourced, IndexWord, ISubject, Require, ??
<1>1. /\ nextId = ind.nextId /\ ICNode(q.c) = CNodeControl(q.c)
      /\ IndexWord(q.s) = "ok" /\ ISubject(q.s) = Resolve(q.s)
      /\ q.op \in {"cap.copy", "cap.mint", "cap.move"} => IDestination(q.d) = Destination(q.d)
      /\ Resolve(q.s) = "ok" => IRequire(q.s, q.r) = Narrows(q.r, q.s)
  BY <1>a, SameChecks DEF AgreeInv, ICNode, CNodeControl, Pinned, Deriving
<1>2. Resolve(q.s) = "ok" =>
        /\ q.s \in SlotIndex /\ Live(q.s)
        /\ IHeld(q.s).id = slots[q.s].id
        /\ IDescendants(IHeld(q.s).id) = Doomed(slots[q.s].id)
  BY ResolveOk, HeldIs, SameRevoked
<1>3. CASE q.op = "cap.copy"
  <2>1. q.w /\ IdAvailable = "ok"
    BY <1>3 DEF Pinned, Deriving
  <2> QED
    BY <1>1, <1>3, <2>1 DEF Agreed, ReferenceAnswer, ReferenceStatus, ReferenceWords, Independent,
       ICapCopy, CapCopyStatus, Reserved, Reply, Require, ??
<1>4. CASE q.op = "cap.mint"
  <2>1. Destination(q.d) = "ok" /\ IdAvailable = "ok"
    BY <1>4 DEF Pinned, Deriving
  <2> QED
    BY <1>1, <1>4, <2>1 DEF Agreed, ReferenceAnswer, ReferenceStatus, ReferenceWords, Independent,
       ICapMint, CapMintStatus, Reply, Require, ??
<1>5. CASE q.op = "cap.attenuate"
  BY <1>1, <1>5 DEF Agreed, ReferenceAnswer, ReferenceStatus, ReferenceWords, Independent,
     ICapAttenuate, CapAttenuateStatus, Reply, Require, ??
<1>6. CASE q.op = "cap.move"
  <2>1. q.d = q.s /\ Resolve(q.s) = "ok" => Destination(q.d) = "already-exists"
    BY <1>2, SlotIs DEF Destination, Require, ??
  <2> QED
    BY <1>1, <1>2, <1>6, <2>1 DEF Agreed, ReferenceAnswer, ReferenceStatus, ReferenceWords,
       Independent, ICapMove, CapMoveStatus, Reply, Require, ??
<1>7. CASE q.op = "cap.revoke"
  BY <1>1, <1>2, <1>7 DEF Agreed, ReferenceAnswer, ReferenceStatus, ReferenceWords, Independent,
     ICapRevoke, CapRevokeStatus, Reply, Require, ??
<1> QED BY <1>3, <1>4, <1>5, <1>6, <1>7

LEMMA QueueIs ==
  ASSUME AgreeInv
  PROVE  /\ Len(ipc.queue) = ind.length /\ Len(ipc.queue) <= QueueLimit
         /\ Len(ipc.queue) < QueueLimit <=> ind.length # QueueLimit
         /\ ipc.queue # <<>> <=> ind.length # 0
         /\ ind.length # 0 => ipc.queue[1] = ind.ring[ind.head]
<1>1. /\ ipc.queue \in Seq(Words) /\ ind.length \in 0 .. QueueLimit
      /\ ind.head \in 0 .. QueueLimit - 1 /\ QueueLimit \in Nat \ {0}
  BY AgreementConstants DEF AgreeInv, AgreeTyped, IndStates, IpcStates
<1>2. Len(ipc.queue) = ind.length
  BY DEF AgreeInv, SameQueue
<1>3. ind.length # 0 => ipc.queue[1] = ind.ring[(ind.head + 1 - 1) % QueueLimit]
  BY <1>1 DEF AgreeInv, SameQueue
<1>4. (ind.head + 1 - 1) % QueueLimit = ind.head
  BY <1>1
<1>5. ipc.queue # <<>> <=> Len(ipc.queue) # 0
  BY <1>1
<1>6. Len(ipc.queue) <= QueueLimit /\ (Len(ipc.queue) < QueueLimit <=> ind.length # QueueLimit)
  BY <1>1, <1>2
<1>7. ind.length # 0 => ipc.queue[1] = ind.ring[ind.head]
  BY <1>3, <1>4
<1> QED BY <1>2, <1>5, <1>6, <1>7

LEMMA MessagesAgreed ==
  ASSUME AgreeInv, NEW g, NEW q, g \in profile.published, Typed(q), Pinned(q),
         q.op \in {"endpoint.send", "endpoint.receive", "endpoint.call", "endpoint.reply",
                   "notification.signal", "notification.poll", "notification.wait", "clock.now"}
  PROVE  Agreed(g, q)
<1>1. \A kind, required :
        ITyped(q.c, kind) ?? IRequire(q.c, required) = ResolveTyped(q.c, kind, required)
  BY SameChecks
<1>2. SameSignals
  BY DEF AgreeInv
<1>3. CASE q.op = "endpoint.send"
  BY <1>1, <1>3, QueueIs DEF Agreed, ReferenceAnswer, ReferenceStatus, ReferenceWords, Independent,
     IEndpointSend, EndpointSendStatus, Sending, Reply, Require, ??
<1>4. CASE q.op = "endpoint.receive"
  BY <1>1, <1>4, QueueIs DEF Agreed, ReferenceAnswer, ReferenceStatus, ReferenceWords, Independent,
     IEndpointReceive, EndpointReceiveStatus, Receiving, Reply, Require, ??
<1>5. CASE q.op = "endpoint.call"
  BY <1>1, <1>5 DEF Agreed, ReferenceAnswer, ReferenceStatus, Independent,
     IEndpointCall, EndpointCallStatus, Sending, Reply, Require, Reserved, ??, Pinned
<1>6. CASE q.op = "endpoint.reply"
  BY <1>1, <1>6 DEF Agreed, ReferenceAnswer, ReferenceStatus, Independent,
     IEndpointReply, EndpointReplyStatus, Sending, Reply, Require, Reserved, ??, Pinned
<1>7. CASE q.op = "notification.signal"
  BY <1>1, <1>7 DEF Agreed, ReferenceAnswer, ReferenceStatus, ReferenceWords, Independent,
     INotificationSignal, NotificationSignalStatus, Reply, Require, ??
<1>8. CASE q.op = "notification.poll"
  BY <1>1, <1>2, <1>8 DEF Agreed, ReferenceAnswer, ReferenceStatus, ReferenceWords, Independent,
     INotificationTake, NotificationPollStatus, Waiting, Reply, Require, ??, SameSignals
<1>9. CASE q.op = "notification.wait"
  BY <1>1, <1>2, <1>9 DEF Agreed, ReferenceAnswer, ReferenceStatus, ReferenceWords, Independent,
     INotificationTake, NotificationWaitStatus, Waiting, Reply, Require, Reserved, ??, SameSignals,
     Pinned
<1>10. CASE q.op = "clock.now"
  BY <1>1, <1>2, <1>10 DEF Agreed, ReferenceAnswer, ReferenceStatus, ReferenceWords, Independent,
     IClockNow, ClockNowStatus, Reply, Require, ??, SameSignals
<1> QED BY <1>3, <1>4, <1>5, <1>6, <1>7, <1>8, <1>9, <1>10

\* What a request on a frame capability finds.
LEMMA FrameIs ==
  ASSUME AgreeInv, NEW s, FrameCap(s) = "ok"
  PROVE  /\ s \in SlotIndex /\ Live(s) /\ slots[s].kind = "frame"
         /\ IHeld(s).object \in FrameObjects /\ FrameNumber(IHeld(s).object) = slots[s].target
         /\ IHeld(s).id = slots[s].id /\ IHeld(s).parent = slots[s].parent
         /\ IHeld(s).object # FrameZero <=> slots[s].target # 0
         /\ IDescendants(IHeld(s).id) = Doomed(slots[s].id)
         /\ IMapped(IHeld(s).object) = Mappings(slots[s].target)
<1>1. s \in SlotIndex /\ Live(s) /\ slots[s].kind = "frame"
  BY FrameCapOk DEF FrameCap
<1>2. /\ IHeld(s).object \in FrameObjects /\ FrameNumber(IHeld(s).object) = slots[s].target
      /\ IHeld(s).id = slots[s].id /\ IHeld(s).parent = slots[s].parent
  BY <1>1, HeldIs
<1>3. IHeld(s).object # FrameZero <=> slots[s].target # 0
  BY <1>2, FrameObjectsAre
<1> QED BY <1>1, <1>2, <1>3, SameRevoked, SameMapped

LEMMA MapAgrees ==
  ASSUME AgreeInv, NEW s, NEW p, NEW r, FrameCap(s) = "ok"
  PROVE  (IPage(p) ?? IMappingRights(r) ?? IRequire(s, r) ?? IPermittedTogether(r)
            ?? Require(ind.pages[p].frame = NoFrame, "already-exists")) = MapStatus(s, p, r)
<1>1. IRequire(s, r) = Narrows(r, s) /\ IPage(p) = PageInWindow(p)
      /\ IMappingRights(r) = MappableRights(r) /\ IPermittedTogether(r) = NotWritableAndExecutable(r)
  BY SameChecks, SameRead DEF FrameCap, ResolveTyped, Require, ??
<1>2. PageInWindow(p) = "ok" => (window[p].mapped <=> ind.pages[p].frame # NoFrame)
  BY SameRead DEF PageInWindow, Require
<1> QED BY <1>1, <1>2 DEF MapStatus, Require, ??

LEMMA MemoryAgreed ==
  ASSUME AgreeInv, NEW g, NEW q, g \in profile.published, Typed(q), Pinned(q),
         q.op \in {"frame.allocate", "frame.share", "frame.map", "frame.reclaim", "as.map",
                   "as.unmap", "as.protect", "as.query"}
  PROVE  Agreed(g, q)
<1>1. /\ nextId = ind.nextId /\ ICNode(q.c) = CNodeControl(q.c) /\ ISpace(q.c) = AddressSpace(q.c)
      /\ ITyped(q.c, "frame") = FrameCap(q.c) /\ ITyped(q.s, "frame") = FrameCap(q.s)
      /\ q.op \in {"frame.allocate", "frame.share"} => IDestination(q.d) = Destination(q.d)
      /\ ITyped(q.c, "frame") ?? IRequire(q.c, {"grant"}) = ResolveTyped(q.c, "frame", {"grant"})
  BY SameChecks DEF AgreeInv, ICNode, CNodeControl, ISpace, AddressSpace, FrameCap, Pinned, Deriving
<1>2. FrameCap(q.c) = "ok" => IRequire(q.c, q.r) = Narrows(q.r, q.c)
  BY SameChecks DEF FrameCap, ResolveTyped, Require, ??
<1>3. CASE q.op = "frame.allocate"
  <2>1. IdAvailable = "ok" /\ q.r \subseteq AllRights
    BY <1>3, MemConstants DEF Pinned, Deriving, Typed
  <2> QED
    BY <1>1, <1>3, <2>1, SameFree DEF Agreed, ReferenceAnswer, ReferenceStatus, ReferenceWords,
       Independent, IFrameAllocate, FrameAllocateStatus, DefinedRights, Reply, Require, ??
<1>4. CASE q.op = "frame.share"
  <2>1. IdAvailable = "ok"
    BY <1>4 DEF Pinned, Deriving
  <2>2. ResolveTyped(q.c, "frame", {"grant"}) = "ok" => FrameCap(q.c) = "ok"
    BY DEF FrameCap, ResolveTyped, Require, ??
  <2> QED
    BY <1>1, <1>2, <1>4, <2>1, <2>2 DEF Agreed, ReferenceAnswer, ReferenceStatus, ReferenceWords,
       Independent, IFrameShare, FrameShareStatus, Reply, Require, ??
<1>5. CASE q.op = "frame.map"
  <2>1. FrameCap(q.c) = "ok" =>
          (IPage(q.p) ?? IMappingRights(q.r) ?? IRequire(q.c, q.r) ?? IPermittedTogether(q.r)
            ?? Require(ind.pages[q.p].frame = NoFrame, "already-exists")) = MapStatus(q.c, q.p, q.r)
    BY MapAgrees
  <2> QED
    BY <1>1, <1>5, <2>1 DEF Agreed, ReferenceAnswer, ReferenceStatus, ReferenceWords,
       Independent, IFrameMap, IMap, FrameMapStatus, Reply, Require, ??
<1>6. CASE q.op = "frame.reclaim"
  <2>1. FrameCap(q.c) = "ok" =>
          /\ IHeld(q.c).parent = slots[q.c].parent
          /\ IHeld(q.c).object # FrameZero <=> slots[q.c].target # 0
          /\ IDescendants(IHeld(q.c).id) = Doomed(slots[q.c].id)
          /\ IMapped(IHeld(q.c).object) = Mappings(slots[q.c].target)
    BY FrameIs
  <2> QED
    BY <1>1, <1>6, <2>1 DEF Agreed, ReferenceAnswer, ReferenceStatus, ReferenceWords,
       Independent, IFrameReclaim, FrameReclaimStatus, Reply, Require, ??
<1>7. CASE q.op = "as.map"
  <2>1. FrameCap(q.s) = "ok" =>
          (IPage(q.p) ?? IMappingRights(q.r) ?? IRequire(q.s, q.r) ?? IPermittedTogether(q.r)
            ?? Require(ind.pages[q.p].frame = NoFrame, "already-exists")) = MapStatus(q.s, q.p, q.r)
    BY MapAgrees
  <2> QED
    BY <1>1, <1>7, <2>1 DEF Agreed, ReferenceAnswer, ReferenceStatus, ReferenceWords,
       Independent, IAsMap, IMap, AsMapStatus, Reply, Require, ??
<1>8. /\ PageInWindow(q.p) = IPage(q.p)
      /\ PageInWindow(q.p) = "ok" =>
           /\ IsMapped(q.p) = IOccupied(q.p)
           /\ IsMapped(q.p) = "ok" => /\ window[q.p].frame = FrameNumber(ind.pages[q.p].frame)
                                      /\ window[q.p].rights = ind.pages[q.p].rights
      /\ MappableRights(q.r) = IMappingRights(q.r)
      /\ NotWritableAndExecutable(q.r) = IPermittedTogether(q.r)
  BY SameRead DEF PageInWindow, IsMapped, Require
<1>9. CASE q.op = "as.unmap"
  BY <1>1, <1>8, <1>9 DEF Agreed, ReferenceAnswer, ReferenceStatus, ReferenceWords,
     Independent, IAsUnmap, AsUnmapStatus, Reply, Require, ??
<1>10. CASE q.op = "as.protect"
  BY <1>1, <1>8, <1>10 DEF Agreed, ReferenceAnswer, ReferenceStatus, ReferenceWords,
     Independent, IAsProtect, AsProtectStatus, Reply, Require, ??
<1>11. CASE q.op = "as.query"
  BY <1>1, <1>8, <1>11 DEF Agreed, ReferenceAnswer, ReferenceStatus, ReferenceWords,
     Independent, IAsQuery, AsQueryStatus, Reply, Require, ??
<1> QED BY <1>3, <1>4, <1>5, <1>6, <1>7, <1>9, <1>10, <1>11

LEMMA AllAgreed ==
  ASSUME AgreeInv, NEW g \in Groups, NEW q \in Requests[g], Pinned(q)
  PROVE  Agreed(g, q)
<1>1. Typed(q) /\ q.op \in Operations
  BY RequestsAre
<1>2. CASE g \notin profile.published
  BY <1>2, UnpublishedAgreed
<1>3. CASE g \in profile.published
  BY <1>1, <1>3, CoreAgreed, CapabilityAgreed, MessagesAgreed, MemoryAgreed DEF Operations
<1> QED BY <1>2, <1>3

-----------------------------------------------------------------------------
\* A step.  What it leaves alone keeps corresponding.

TableKept ==
  UNCHANGED <<slots, nextId>> /\ ind'.slots = ind.slots /\ ind'.nextId = ind.nextId

MemoryKept ==
  UNCHANGED <<frames, window>> /\ ind'.live = ind.live /\ ind'.pages = ind.pages

QueueKept ==
  /\ ipc'.queue = ipc.queue /\ ipc'.sent = ipc.sent /\ received' = received
  /\ ind'.ring = ind.ring /\ ind'.head = ind.head /\ ind'.length = ind.length

SignalsKept ==
  /\ ipc'.pending = ipc.pending /\ ipc'.badges = ipc.badges /\ ipc'.clock = ipc.clock
  /\ ind'.pending = ind.pending /\ ind'.badges = ind.badges /\ ind'.ticks = ind.ticks

LEMMA Kept ==
  ASSUME AgreeInv
  PROVE  /\ TableKept => SameTables' /\ nextId' = ind'.nextId
         /\ MemoryKept => SameFrames' /\ SamePages'
         /\ QueueKept => SameQueue' /\ Numbered'
         /\ SignalsKept => SameSignals'
<1>1. TableKept => SameTables' /\ nextId' = ind'.nextId
  BY DEF AgreeInv, SameTables, TableKept
<1>2. MemoryKept => SameFrames' /\ SamePages'
  BY DEF AgreeInv, SameFrames, SamePages, MemoryKept
<1>3. QueueKept => SameQueue' /\ Numbered'
  BY DEF AgreeInv, SameQueue, Numbered, QueueKept
<1>4. SignalsKept => SameSignals'
  BY DEF AgreeInv, SameSignals, SignalsKept
<1> QED BY <1>1, <1>2, <1>3, <1>4

LEMMA ReplyOk ==
  ASSUME NEW status, NEW words, NEW after, Reply(status, words, after).answer[1] = "ok"
  PROVE  status = "ok" /\ Reply(status, words, after).after = after
BY DEF Reply

\* A request that the reference accepts, the other accepts.
LEMMA Accepted ==
  ASSUME AgreeInv, NEW g \in profile.asks, NEW q \in Requests[g], Invoke(g, q)
  PROVE  /\ g \in Groups /\ Typed(q) /\ q.op \in Operations /\ g \in profile.published
         /\ Independent(g, q).answer[1] = "ok"
<1>1. g \in Groups
  BY AgreementConstants DEF AgreeInv, AgreeTyped
<1>2. Agreed(g, q)
  BY <1>1, AllAgreed DEF Invoke
<1>3. ReferenceStatus(g, q) = "ok"
  BY DEF Invoke
<1>4. g \in profile.published
  BY <1>3 DEF ReferenceStatus, Require, ??
<1> QED BY <1>1, <1>2, <1>3, <1>4, RequestsAre DEF Agreed, ReferenceAnswer

LEMMA KernKept ==
  ASSUME AgreeInv, NEW g \in profile.asks, NEW q \in Requests[g], Invoke(g, q)
  PROVE  KernInv'
<1>1. Typed(q)
  BY Accepted
<1>2. KernInv /\ ReferenceStep(q)
  BY DEF AgreeInv, Invoke
<1>3. CASE Ipc(q) /\ UNCHANGED kernVars
  BY <1>2, <1>3, KernInvStutter
<1>4. CASE Capability(q) /\ UNCHANGED <<frames, window, ipc>>
  <2>1. CNodeControl(q.c) = "ok" /\ Resolve(q.s) = "ok"
    BY <1>4 DEF Capability, CapCopy, CapCopyStatus, CapMint, CapMintStatus, CapAttenuate,
       CapAttenuateStatus, CapMove, CapMoveStatus, CapRevoke, CapRevokeStatus, ??
  <2>2. q.c \in SlotIndex /\ q.s \in SlotIndex
    BY <2>1, ResolveOk DEF CNodeControl, ResolveTyped, ??
  <2>3. CapNext
    BY <1>1, <1>4, <2>2 DEF Capability, CapNext, Typed
  <2>4. KernNext
    BY <1>4, <2>3 DEF KernNext, memVars
  <2> QED BY <1>2, <2>4, KernNextIsKernelStep, KernStepInv
<1>5. CASE Memory(q) /\ UNCHANGED ipc
  <2>1. q.op \in {"frame.allocate", "frame.share", "frame.map", "frame.reclaim"} => FrameNext
    <3>1. CASE q.op = "frame.allocate"
      <4>1. FrameAllocate(q.c, q.d, q.r) /\ CNodeControl(q.c) = "ok"
        BY <1>5, <3>1 DEF Memory, FrameAllocate, FrameAllocateStatus, ??
      <4>2. q.c \in SlotIndex
        BY <4>1, ResolveOk DEF CNodeControl, ResolveTyped, ??
      <4> QED BY <1>1, <3>1, <4>1, <4>2 DEF FrameNext, Typed
    <3>2. CASE q.op = "frame.share"
      <4>1. FrameShare(q.c, q.d, q.r, q.b) /\ ResolveTyped(q.c, "frame", {"grant"}) = "ok"
        BY <1>5, <3>2 DEF Memory, FrameShare, FrameShareStatus, ??
      <4>2. q.c \in SlotIndex
        BY <4>1, FrameCapOk
      <4> QED BY <1>1, <3>2, <4>1, <4>2 DEF FrameNext, Typed
    <3>3. CASE q.op = "frame.map"
      <4>1. FrameMap(q.c, q.p, q.r) /\ FrameCap(q.c) = "ok" /\ q.p \in Pages
        BY <1>5, <3>3 DEF Memory, FrameMap, FrameMapStatus, MapStatus, PageInWindow, Require, ??
      <4>2. q.c \in SlotIndex
        BY <4>1, FrameCapOk DEF FrameCap
      <4> QED BY <1>1, <3>3, <4>1, <4>2 DEF FrameNext, Typed
    <3>4. CASE q.op = "frame.reclaim"
      <4>1. FrameReclaim(q.c) /\ FrameCap(q.c) = "ok"
        BY <1>5, <3>4 DEF Memory, FrameReclaim, FrameReclaimStatus, ??
      <4>2. q.c \in SlotIndex
        BY <4>1, FrameCapOk DEF FrameCap
      <4> QED BY <4>1, <4>2 DEF FrameNext
    <3> QED BY <3>1, <3>2, <3>3, <3>4
  <2>2. q.op \in {"as.map", "as.unmap", "as.protect"} => AsNext
    <3>1. CASE q.op = "as.map"
      <4>1. /\ AsMap(q.c, q.s, q.p, q.r) /\ FrameCap(q.s) = "ok" /\ AddressSpace(q.c) = "ok"
            /\ q.p \in Pages
        BY <1>5, <3>1 DEF Memory, AsMap, AsMapStatus, MapStatus, PageInWindow, Require, ??
      <4>2. q.c \in SlotIndex /\ q.s \in SlotIndex
        BY <4>1, FrameCapOk, ResolveOk DEF FrameCap, AddressSpace, ResolveTyped, ??
      <4> QED BY <1>1, <3>1, <4>1, <4>2 DEF AsNext, Typed
    <3>2. CASE q.op = "as.unmap"
      <4>1. AsUnmap(q.c, q.p) /\ AddressSpace(q.c) = "ok" /\ q.p \in Pages
        BY <1>5, <3>2 DEF Memory, AsUnmap, AsUnmapStatus, PageInWindow, Require, ??
      <4>2. q.c \in SlotIndex
        BY <4>1, ResolveOk DEF AddressSpace, ResolveTyped, ??
      <4> QED BY <4>1, <4>2 DEF AsNext
    <3>3. CASE q.op = "as.protect"
      <4>1. AsProtect(q.c, q.p, q.r) /\ AddressSpace(q.c) = "ok" /\ q.p \in Pages
        BY <1>5, <3>3 DEF Memory, AsProtect, AsProtectStatus, PageInWindow, Require, ??
      <4>2. q.c \in SlotIndex
        BY <4>1, ResolveOk DEF AddressSpace, ResolveTyped, ??
      <4> QED BY <1>1, <3>3, <4>1, <4>2 DEF AsNext, Typed
    <3> QED BY <3>1, <3>2, <3>3
  <2>3. KernNext
    BY <1>5, <2>1, <2>2 DEF Memory, KernNext
  <2> QED BY <1>2, <2>3, KernNextIsKernelStep, KernStepInv
<1> QED BY <1>2, <1>3, <1>4, <1>5 DEF ReferenceStep

\* All but the invariant of the reference.
Corresponds ==
  /\ AgreeTyped /\ nextId = ind.nextId
  /\ SameTables /\ SameFrames /\ SamePages /\ SameQueue /\ SameSignals /\ Numbered

\* A derivation puts the same capability into the same slot.
LEMMA DerivedCorresponds ==
  ASSUME AgreeInv, NEW s \in SlotIndex, Live(s), NEW d \in SlotIndex,
         NEW r \in SUBSET AllRights, NEW b \in Nat, DeriveInto(d, s, r, b),
         UNCHANGED <<frames, window, ipc, profile, received>>,
         ind' = IDerived(ind, d, IHeld(s).object, r, b, IHeld(s).id)
  PROVE  Corresponds'
<1>1. PICK o \in Objects :
        /\ IHeld(s).object = o /\ IHeld(s).id = slots[s].id
        /\ ObjectKind(o) = slots[s].kind
        /\ slots[s].kind = "frame" => FrameNumber(o) = slots[s].target
  BY HeldIs
<1> DEFINE new == Capable(o, r, b, nextId, slots[s].id)
<1>2. /\ ind \in IndStates /\ nextId = ind.nextId /\ nextId \in Nat \ {0} /\ slots[s].id \in Nat
      /\ slots \in [SlotIndex -> Slot]
  BY CapConstants DEF AgreeInv, AgreeTyped, KernInv, CapInv, CapTypeOK, Slot, FirstFree
<1>3. ind' = [ind EXCEPT !.slots = [ind.slots EXCEPT ![d] = new], !.nextId = ind.nextId + 1]
  BY <1>1, <1>2 DEF IDerived, IndStates
<1>4. /\ new \in [is : {"live"}, object : Objects, rights : SUBSET AllRights, badge : Nat,
                  id : Nat, parent : Nat]
  BY <1>2 DEF Capable
<1>5. /\ ind'.slots = [ind.slots EXCEPT ![d] = new] /\ ind'.nextId = ind.nextId + 1
      /\ ind' \in IndStates /\ MemoryKept /\ QueueKept /\ SignalsKept
  <2> HIDE DEF new
  <2> DEFINE more == [ind.slots EXCEPT ![d] = new]
  <2>1. more \in [SlotIndex -> {NoCapability, Dead}
              \cup [is : {"live"}, object : Objects, rights : SUBSET AllRights, badge : Nat,
                    id : Nat, parent : Nat]]
    BY <1>2, <1>4 DEF IndStates
  <2> HIDE DEF more
  <2>2. ind' = [ind EXCEPT !.slots = more, !.nextId = ind.nextId + 1]
    BY <1>3 DEF more
  <2>3. /\ ind'.slots = more /\ ind'.nextId = ind.nextId + 1
        /\ MemoryKept /\ QueueKept /\ SignalsKept
    BY <1>2, <2>2 DEF IndStates, MemoryKept, QueueKept, SignalsKept
  <2>4. ind' \in IndStates
    <3>1. [ind EXCEPT !.slots = more] \in IndStates
      BY <1>2, <2>1 DEF IndStates
    <3>2. ind' = [[ind EXCEPT !.slots = more] EXCEPT !.nextId = ind.nextId + 1]
      BY <1>2, <2>2 DEF IndStates
    <3>3. ind.nextId + 1 \in Nat
      BY <1>2
    <3> QED BY <3>1, <3>2, <3>3 DEF IndStates
  <2> QED BY <2>3, <2>4 DEF more
<1>6. AgreeTyped' /\ nextId' = ind'.nextId
  BY <1>2, <1>5 DEF AgreeInv, AgreeTyped, DeriveInto
<1>7. SameTables'
  <2>1. ASSUME NEW i \in SlotIndex PROVE Image(slots'[i], ind'.slots[i])
    <3>1. CASE i = d
      <4>1. ind'.slots[i] = new
        BY <1>2, <1>5, <3>1 DEF IndStates
      <4>2. slots'[i] = [kind |-> slots[s].kind, target |-> slots[s].target, rights |-> r,
                         badge |-> b, id |-> nextId, parent |-> slots[s].id, revoked |-> FALSE]
        BY <1>2, <3>1 DEF DeriveInto
      <4> QED BY <1>1, <1>2, <4>1, <4>2 DEF Image
    <3>2. CASE i # d
      <4>1. ind'.slots[i] = ind.slots[i] /\ slots'[i] = slots[i]
        BY <1>2, <1>5, <3>2 DEF IndStates, DeriveInto
      <4> QED BY <4>1 DEF AgreeInv, SameTables
    <3> QED BY <3>1, <3>2
  <2> QED BY <2>1 DEF SameTables
<1> QED BY <1>5, <1>6, <1>7, Kept DEF Corresponds

\* Whatever else happens to the table, the memory and the messages stay.
LEMMA TableCorresponds ==
  ASSUME AgreeInv, UNCHANGED <<nextId, frames, window, ipc, profile, received>>,
         NEW t, ind' = [ind EXCEPT !.slots = t],
         t \in [SlotIndex -> {NoCapability, Dead}
                  \cup [is : {"live"}, object : Objects, rights : SUBSET AllRights, badge : Nat,
                        id : Nat, parent : Nat]],
         \A i \in SlotIndex : Image(slots'[i], t[i])
  PROVE  Corresponds'
<1>1. ind \in IndStates
  BY DEF AgreeInv, AgreeTyped
<1>2. /\ ind'.slots = t /\ ind'.nextId = ind.nextId /\ ind' \in IndStates
      /\ MemoryKept /\ QueueKept /\ SignalsKept
  BY <1>1 DEF IndStates, MemoryKept, QueueKept, SignalsKept
<1>3. AgreeTyped' /\ nextId' = ind'.nextId /\ SameTables'
  BY <1>2 DEF AgreeInv, AgreeTyped, SameTables
<1> QED BY <1>2, <1>3, Kept DEF Corresponds

LEMMA TableIs ==
  ASSUME AgreeInv
  PROVE  /\ ind \in IndStates
         /\ ind.slots \in [SlotIndex -> {NoCapability, Dead}
              \cup [is : {"live"}, object : Objects, rights : SUBSET AllRights, badge : Nat,
                    id : Nat, parent : Nat]]
         /\ slots \in [SlotIndex -> Slot]
         /\ \A i \in SlotIndex : Image(slots[i], ind.slots[i])
         /\ Image(EmptySlot, NoCapability) /\ Image(Tombstone, Dead)
BY DEF AgreeInv, AgreeTyped, IndStates, KernInv, CapInv, CapTypeOK, SameTables, Image

\* What dies in the one dies in the other.
LEMMA KilledImages ==
  ASSUME AgreeInv, NEW dead \in SUBSET SlotIndex
  PROVE  \A i \in SlotIndex :
           Image(IF i \in dead THEN Tombstone ELSE slots[i], IKilled(dead)[i])
BY TableIs DEF IKilled, IHeld

LEMMA CapabilityStep ==
  ASSUME AgreeInv, NEW g \in profile.asks, NEW q \in Requests[g], Invoke(g, q),
         q.op \in {"cap.copy", "cap.mint", "cap.attenuate", "cap.move", "cap.revoke"}
  PROVE  Corresponds'
<1>1. Typed(q) /\ g \in profile.published /\ Independent(g, q).answer[1] = "ok"
  BY Accepted
<1>2. Capability(q) /\ UNCHANGED <<frames, window, ipc, profile, received>>
      /\ ind' = Independent(g, q).after
  BY DEF Invoke, ReferenceStep, Ipc, Memory
<1>3. Resolve(q.s) = "ok"
  BY <1>2 DEF Capability, CapCopy, CapCopyStatus, CapMint, CapMintStatus, CapAttenuate,
     CapAttenuateStatus, CapMove, CapMoveStatus, CapRevoke, CapRevokeStatus, ??
<1>4. q.s \in SlotIndex /\ Live(q.s)
  BY <1>3, ResolveOk
<1>5. /\ IHeld(q.s).rights = slots[q.s].rights /\ IHeld(q.s).badge = slots[q.s].badge
      /\ IHeld(q.s).id = slots[q.s].id
      /\ slots[q.s].rights \in SUBSET AllRights /\ slots[q.s].badge \in Nat
  BY <1>4, HeldIs, TableIs DEF Slot
<1>6. CASE q.op = "cap.copy"
  <2>1. ind' = IDerived(ind, q.d, IHeld(q.s).object, IHeld(q.s).rights, IHeld(q.s).badge,
                        IHeld(q.s).id)
    BY <1>1, <1>2, <1>6, ReplyOk DEF Independent, ICapCopy
  <2>2. q.d \in SlotIndex /\ DeriveInto(q.d, q.s, slots[q.s].rights, slots[q.s].badge)
    BY <1>2, <1>6 DEF Capability, CapCopy, Invoke, Pinned, Deriving
  <2> QED BY <1>2, <1>4, <1>5, <2>1, <2>2, DerivedCorresponds
<1>7. CASE q.op = "cap.mint"
  <2>1. ind' = IDerived(ind, q.d, IHeld(q.s).object, q.r, q.b, IHeld(q.s).id)
    BY <1>1, <1>2, <1>7, ReplyOk DEF Independent, ICapMint
  <2>2. /\ q.d \in SlotIndex /\ DeriveInto(q.d, q.s, q.r, q.b) /\ q.r \in SUBSET AllRights
        /\ q.b \in Nat
    BY <1>1, <1>2, <1>7, CapConstants DEF Capability, CapMint, CapMintStatus, DefinedRights, Require,
       ??, Invoke, Pinned, Deriving, Typed
  <2> QED BY <1>2, <1>4, <2>1, <2>2, DerivedCorresponds
<1>8. CASE q.op = "cap.attenuate"
  <2>1. ind' = [ind EXCEPT !.slots[q.s].rights = q.r]
    BY <1>1, <1>2, <1>8, ReplyOk DEF Independent, ICapAttenuate
  <2>2. /\ q.r \in SUBSET AllRights /\ slots' = [slots EXCEPT ![q.s].rights = q.r]
        /\ nextId' = nextId
    BY <1>2, <1>8 DEF Capability, CapAttenuate, CapAttenuateStatus, DefinedRights, Require, ??
  <2> DEFINE t == [ind.slots EXCEPT ![q.s].rights = q.r]
  <2>3. PICK o \in Objects :
          /\ ind.slots[q.s] = Capable(o, slots[q.s].rights, slots[q.s].badge, slots[q.s].id, slots[q.s].parent)
          /\ ObjectKind(o) = slots[q.s].kind
          /\ slots[q.s].kind = "frame" => FrameNumber(o) = slots[q.s].target
    BY <1>4, HeldIs DEF IHeld
  <2>4. t[q.s] = Capable(o, q.r, slots[q.s].badge, slots[q.s].id, slots[q.s].parent)
    BY <1>4, <2>3, TableIs DEF Capable
  <2>5. \A i \in SlotIndex : i # q.s => t[i] = ind.slots[i] /\ slots'[i] = slots[i]
    BY <2>2, TableIs
  <2>6. /\ slots'[q.s].rights = q.r /\ slots'[q.s].kind = slots[q.s].kind
        /\ slots'[q.s].target = slots[q.s].target /\ slots'[q.s].badge = slots[q.s].badge
        /\ slots'[q.s].id = slots[q.s].id /\ slots'[q.s].parent = slots[q.s].parent
        /\ slots'[q.s].revoked = slots[q.s].revoked
    BY <1>4, <2>2, TableIs DEF Slot
  <2>7. slots[q.s].id # 0 /\ ~slots[q.s].revoked
    BY <1>4, SlotIs DEF Live
  <2>8. \A i \in SlotIndex : Image(slots'[i], t[i])
    BY <2>3, <2>4, <2>5, <2>6, <2>7, TableIs DEF Image
  <2>9. t[q.s] \in [is : {"live"}, object : Objects, rights : SUBSET AllRights, badge : Nat,
                    id : Nat, parent : Nat]
    BY <1>4, <2>2, <2>4, TableIs DEF Capable, Slot
  <2>10. DOMAIN t = SlotIndex /\ t = [i \in SlotIndex |-> t[i]]
    BY TableIs
  <2>11. ind' = [ind EXCEPT !.slots = t]
    BY <2>1, TableIs DEF IndStates
  <2> HIDE DEF t
  <2>12. t \in [SlotIndex -> {NoCapability, Dead}
                  \cup [is : {"live"}, object : Objects, rights : SUBSET AllRights, badge : Nat,
                        id : Nat, parent : Nat]]
    BY <2>5, <2>9, <2>10, TableIs
  <2> QED BY <1>2, <2>2, <2>8, <2>11, <2>12, TableCorresponds
<1>9. CASE q.op = "cap.move"
  <2> DEFINE t == [ind.slots EXCEPT ![q.s] = NoCapability, ![q.d] = IHeld(q.s)]
  <2>1. ind' = [ind EXCEPT !.slots = t]
    BY <1>1, <1>2, <1>9, ReplyOk DEF Independent, ICapMove
  <2>2. /\ slots' = [slots EXCEPT ![q.d] = slots[q.s], ![q.s] = EmptySlot]
        /\ nextId' = nextId /\ q.d \in SlotIndex /\ q.d # q.s
    BY <1>2, <1>9 DEF Capability, CapMove, CapMoveStatus, Require, ??, Invoke, Pinned
  <2>3. \A i \in SlotIndex : Image(slots'[i], t[i])
    BY <1>4, <2>2, TableIs DEF IHeld
  <2>4. t \in [SlotIndex -> {NoCapability, Dead}
                  \cup [is : {"live"}, object : Objects, rights : SUBSET AllRights, badge : Nat,
                        id : Nat, parent : Nat]]
    BY <1>4, <2>2, TableIs DEF IHeld
  <2> HIDE DEF t
  <2> QED BY <1>2, <2>1, <2>2, <2>3, <2>4, TableCorresponds
<1>10. CASE q.op = "cap.revoke"
  <2> DEFINE dead == Doomed(slots[q.s].id)
  <2>1. ind' = [ind EXCEPT !.slots = IKilled(dead)]
    BY <1>1, <1>2, <1>4, <1>5, <1>10, ReplyOk, SameRevoked DEF Independent, ICapRevoke
  <2>2. /\ slots' = [i \in SlotIndex |-> IF i \in dead THEN Tombstone ELSE slots[i]]
        /\ nextId' = nextId /\ dead \in SUBSET SlotIndex
    BY <1>2, <1>10 DEF Capability, CapRevoke, Doomed, Derived
  <2> HIDE DEF dead
  <2>3. \A i \in SlotIndex : Image(slots'[i], IKilled(dead)[i])
    BY <2>2, KilledImages
  <2>4. IKilled(dead) \in [SlotIndex -> {NoCapability, Dead}
                  \cup [is : {"live"}, object : Objects, rights : SUBSET AllRights, badge : Nat,
                        id : Nat, parent : Nat]]
    BY TableIs DEF IKilled, IHeld
  <2> QED BY <1>2, <2>1, <2>2, <2>3, <2>4, TableCorresponds
<1> QED BY <1>6, <1>7, <1>8, <1>9, <1>10

\* A page changes in both windows.
LEMMA WindowCorresponds ==
  ASSUME AgreeInv, UNCHANGED <<slots, nextId, frames, ipc, profile, received>>,
         NEW t \in [Pages -> [frame : Objects, rights : SUBSET AllRights]],
         ind' = [ind EXCEPT !.pages = t],
         \A p \in Pages : SamePage(window'[p], t[p])
  PROVE  Corresponds'
<1>1. ind \in IndStates
  BY TableIs
<1>2. /\ ind'.pages = t /\ ind'.live = ind.live /\ ind' \in IndStates
      /\ TableKept /\ QueueKept /\ SignalsKept
  BY <1>1 DEF IndStates, TableKept, QueueKept, SignalsKept
<1>3. AgreeTyped' /\ SamePages' /\ SameFrames'
  BY <1>2 DEF AgreeInv, AgreeTyped, SamePages, SameFrames
<1> QED BY <1>2, <1>3, Kept DEF Corresponds

LEMMA PagesAre ==
  ASSUME AgreeInv
  PROVE  /\ ind.pages \in [Pages -> [frame : Objects, rights : SUBSET AllRights]]
         /\ window \in [Pages -> Mapping]
         /\ \A p \in Pages : SamePage(window[p], ind.pages[p])
         /\ SamePage(Unmapped, Blank) /\ Blank \in [frame : Objects, rights : SUBSET AllRights]
<1>1. NoFrame \in Objects
  BY MemConstants DEF NoFrame, Objects
<1> QED
  BY <1>1 DEF AgreeInv, AgreeTyped, IndStates, KernInv, MemTypeOK, SamePages, SamePage, Blank

LEMMA MapStep ==
  ASSUME AgreeInv, NEW s, NEW p, NEW r, FrameCap(s) = "ok", MapIntoWindow(s, p, r),
         UNCHANGED <<ipc, profile, received>>, r \in SUBSET AllRights,
         ind' = [ind EXCEPT !.pages[p] = [frame |-> IHeld(s).object, rights |-> r]]
  PROVE  Corresponds'
<1> DEFINE there == [frame |-> IHeld(s).object, rights |-> r]
           here  == [mapped |-> TRUE, frame |-> slots[s].target, rights |-> r]
           t == [ind.pages EXCEPT ![p] = there]
<1>1. /\ window' = [window EXCEPT ![p] = here] /\ UNCHANGED <<slots, nextId, frames>>
      /\ p \in Pages
  BY DEF MapIntoWindow, MapStatus, PageInWindow, Require, ??
<1>2. SamePage(here, there) /\ there \in [frame : Objects, rights : SUBSET AllRights]
  BY FrameIs DEF SamePage, FrameObjects
<1>3. ind' = [ind EXCEPT !.pages = t]
  BY TableIs DEF IndStates
<1> HIDE DEF here, there
<1>4. t \in [Pages -> [frame : Objects, rights : SUBSET AllRights]]
  BY <1>2, PagesAre
<1>5. \A k \in Pages : SamePage(window'[k], t[k])
  BY <1>1, <1>2, PagesAre
<1> HIDE DEF t
<1> QED BY <1>1, <1>3, <1>4, <1>5, WindowCorresponds

LEMMA WindowStepCorresponds ==
  ASSUME AgreeInv, NEW g \in profile.asks, NEW q \in Requests[g], Invoke(g, q),
         q.op \in {"frame.map", "as.map", "as.unmap", "as.protect"}
  PROVE  Corresponds'
<1>1. Typed(q) /\ g \in profile.published /\ Independent(g, q).answer[1] = "ok"
  BY Accepted
<1>2. Memory(q) /\ UNCHANGED <<ipc, profile, received>> /\ ind' = Independent(g, q).after
  BY DEF Invoke, ReferenceStep, Ipc, Capability
<1>3. q.op # "as.unmap" => q.r \in SUBSET AllRights
  BY <1>1, MemConstants DEF Typed
<1>4. CASE q.op = "frame.map"
  <2>1. ind' = [ind EXCEPT !.pages[q.p] = [frame |-> IHeld(q.c).object, rights |-> q.r]]
    BY <1>1, <1>2, <1>4, ReplyOk DEF Independent, IFrameMap, IMap
  <2>2. FrameCap(q.c) = "ok" /\ MapIntoWindow(q.c, q.p, q.r)
    BY <1>2, <1>4 DEF Memory, FrameMap, FrameMapStatus, ??
  <2> QED BY <1>2, <1>3, <1>4, <2>1, <2>2, MapStep
<1>5. CASE q.op = "as.map"
  <2>1. ind' = [ind EXCEPT !.pages[q.p] = [frame |-> IHeld(q.s).object, rights |-> q.r]]
    BY <1>1, <1>2, <1>5, ReplyOk DEF Independent, IAsMap, IMap
  <2>2. FrameCap(q.s) = "ok" /\ MapIntoWindow(q.s, q.p, q.r)
    BY <1>2, <1>5 DEF Memory, AsMap, AsMapStatus, ??
  <2> QED BY <1>2, <1>3, <1>5, <2>1, <2>2, MapStep
<1>6. CASE q.op = "as.unmap"
  <2> DEFINE t == [ind.pages EXCEPT ![q.p] = Blank]
  <2>1. ind' = [ind EXCEPT !.pages = t]
    BY <1>1, <1>2, <1>6, ReplyOk, TableIs DEF Independent, IAsUnmap, IndStates
  <2>2. window' = [window EXCEPT ![q.p] = Unmapped] /\ UNCHANGED <<slots, nextId, frames>>
    BY <1>2, <1>6 DEF Memory, AsUnmap
  <2>3. t \in [Pages -> [frame : Objects, rights : SUBSET AllRights]]
        /\ \A k \in Pages : SamePage(window'[k], t[k])
    BY <2>2, PagesAre
  <2> HIDE DEF t
  <2> QED BY <1>2, <2>1, <2>2, <2>3, WindowCorresponds
<1>7. CASE q.op = "as.protect"
  <2> DEFINE t == [ind.pages EXCEPT ![q.p].rights = q.r]
  <2>1. ind' = [ind EXCEPT !.pages = t]
    BY <1>1, <1>2, <1>7, ReplyOk, TableIs DEF Independent, IAsProtect, IndStates
  <2>2. /\ window' = [window EXCEPT ![q.p].rights = q.r] /\ UNCHANGED <<slots, nextId, frames>>
        /\ q.p \in Pages /\ window[q.p].mapped
    BY <1>2, <1>7 DEF Memory, AsProtect, AsProtectStatus, PageInWindow, IsMapped, Require, ??
  <2>3. t \in [Pages -> [frame : Objects, rights : SUBSET AllRights]]
    BY <1>3, <1>7, <2>2, PagesAre
  <2>4. SamePage(window[q.p], ind.pages[q.p]) /\ window[q.p] # Unmapped
    BY <2>2, PagesAre DEF Unmapped
  <2>5. /\ t[q.p].frame \in FrameObjects /\ t[q.p].rights = q.r
        /\ window'[q.p] = [mapped |-> TRUE, frame |-> FrameNumber(t[q.p].frame), rights |-> q.r]
    <3>1. t[q.p].frame = ind.pages[q.p].frame /\ t[q.p].rights = q.r
      BY <2>2, PagesAre
    <3>2. /\ ind.pages[q.p].frame \in FrameObjects
          /\ window[q.p] = [mapped |-> TRUE, frame |-> FrameNumber(ind.pages[q.p].frame),
                            rights |-> ind.pages[q.p].rights]
      BY <2>4 DEF SamePage
    <3>3. window'[q.p] = [window[q.p] EXCEPT !.rights = q.r]
      BY <2>2, PagesAre
    <3> DEFINE n == FrameNumber(ind.pages[q.p].frame)
               x == ind.pages[q.p].rights
    <3>4. window'[q.p] = [[mapped |-> TRUE, frame |-> n, rights |-> x] EXCEPT !.rights = q.r]
      BY <3>2, <3>3
    <3> HIDE DEF t, n, x
    <3>5. window'[q.p] = [mapped |-> TRUE, frame |-> n, rights |-> q.r]
      BY <3>4
    <3> QED BY <3>1, <3>2, <3>5 DEF n
  <2>6. \A k \in Pages : SamePage(window'[k], t[k])
    BY <2>2, <2>5, PagesAre DEF SamePage
  <2> HIDE DEF t
  <2> QED BY <1>2, <2>1, <2>2, <2>3, <2>6, WindowCorresponds
<1> QED BY <1>4, <1>5, <1>6, <1>7

LEMMA AllocateStep ==
  ASSUME AgreeInv, NEW g \in profile.asks, NEW q \in Requests[g], Invoke(g, q),
         q.op = "frame.allocate"
  PROVE  Corresponds'
<1> DEFINE unallocated == Objects \ ind.live
           o == CHOOSE o \in unallocated : \A n \in unallocated : o <= n
           new == Capable(o, q.r, 0, nextId, 0)
           t == [ind.slots EXCEPT ![q.d] = new]
<1>1. Typed(q) /\ g \in profile.published /\ Independent(g, q).answer[1] = "ok"
  BY Accepted
<1>2. Memory(q) /\ UNCHANGED <<ipc, profile, received>> /\ ind' = Independent(g, q).after
  BY DEF Invoke, ReferenceStep, Ipc, Capability
<1>3. ind' = IDerived([ind EXCEPT !.live = @ \cup {o}], q.d, o, q.r, 0, 0)
  BY <1>1, <1>2, ReplyOk DEF Independent, IFrameAllocate
<1>4. PICK number \in FreeFrames :
        /\ \A f \in FreeFrames : number <= f
        /\ frames' = [frames EXCEPT ![number] = TRUE]
        /\ slots' = [slots EXCEPT ![q.d] =
                      [kind |-> "frame", target |-> number, rights |-> q.r,
                       badge |-> 0, id |-> nextId, parent |-> 0, revoked |-> FALSE]]
        /\ nextId' = nextId + 1 /\ window' = window
  BY <1>2 DEF Memory, FrameAllocate
<1>5. q.d \in SlotIndex /\ q.r \in SUBSET AllRights
  BY <1>1, MemConstants DEF Typed, Invoke, Pinned, Deriving
<1>6. PICK n \in unallocated : FrameNumber(n) = number
  BY <1>4, SameFree
<1>7. \A m \in unallocated : n <= m
  BY <1>4, <1>6, SameFree, FrameObjectsAre
<1>8. o \in unallocated /\ \A m \in unallocated : o <= m
  BY <1>6, <1>7
<1> HIDE DEF o
<1>9. o = n
  BY <1>6, <1>7, <1>8, SameFree, FrameObjectsAre
<1>10. /\ o \in Objects /\ o \in FrameObjects /\ FrameNumber(o) = number /\ ObjectKind(o) = "frame"
  BY <1>6, <1>8, <1>9, SameFree, FrameObjectsAre
<1>11. /\ ind \in IndStates /\ nextId = ind.nextId /\ nextId \in Nat \ {0}
  BY CapConstants DEF AgreeInv, AgreeTyped, KernInv, CapInv, CapTypeOK, FirstFree
<1>12. new \in [is : {"live"}, object : Objects, rights : SUBSET AllRights, badge : Nat,
                id : Nat, parent : Nat]
  BY <1>5, <1>10, <1>11 DEF Capable
<1>13. ind' = [[[ind EXCEPT !.live = @ \cup {o}] EXCEPT !.slots = t] EXCEPT !.nextId = nextId + 1]
  BY <1>3, <1>11 DEF IDerived, IndStates
<1> HIDE DEF new
<1>14. t \in [SlotIndex -> {NoCapability, Dead}
                  \cup [is : {"live"}, object : Objects, rights : SUBSET AllRights, badge : Nat,
                        id : Nat, parent : Nat]]
  BY <1>12, TableIs
<1>15. \A i \in SlotIndex : Image(slots'[i], t[i])
  <2>1. ASSUME NEW i \in SlotIndex PROVE Image(slots'[i], t[i])
    <3>1. CASE i = q.d
      BY <1>4, <1>5, <1>10, <1>11, <3>1, TableIs DEF Image, new
    <3>2. CASE i # q.d
      BY <1>4, <1>5, <3>2, TableIs
    <3> QED BY <3>1, <3>2
  <2> QED BY <2>1
<1> HIDE DEF t
<1>16. /\ ind'.slots = t /\ ind'.nextId = nextId + 1 /\ ind'.live = ind.live \cup {o}
       /\ ind'.pages = ind.pages /\ QueueKept /\ SignalsKept
  BY <1>2, <1>11, <1>13 DEF IndStates, QueueKept, SignalsKept
<1>17. ind' \in IndStates
  <2>1. [ind EXCEPT !.live = @ \cup {o}] \in IndStates
    BY <1>10, <1>11 DEF IndStates
  <2>2. [[ind EXCEPT !.live = @ \cup {o}] EXCEPT !.slots = t] \in IndStates
    BY <1>14, <2>1 DEF IndStates
  <2>3. nextId + 1 \in Nat
    BY <1>11
  <2> QED BY <1>13, <2>2, <2>3 DEF IndStates
<1>18. SameFrames'
  <2>1. \A f \in FrameIndex : frames'[f] <=> frames[f] \/ f = number
    BY <1>4 DEF AgreeInv, KernInv, MemTypeOK, FreeFrames
  <2>2. \A m \in FrameObjects : FrameNumber(m) \in FrameIndex /\ (FrameNumber(m) = number <=> m = o)
    BY <1>10, FrameObjectsAre
  <2> QED BY <1>10, <1>16, <2>1, <2>2 DEF AgreeInv, SameFrames
<1>19. AgreeTyped' /\ nextId' = ind'.nextId /\ SameTables' /\ SamePages'
  BY <1>2, <1>4, <1>15, <1>16, <1>17 DEF AgreeInv, AgreeTyped, SameTables, SamePages
<1> QED BY <1>16, <1>18, <1>19, Kept DEF Corresponds

LEMMA ReclaimStep ==
  ASSUME AgreeInv, NEW g \in profile.asks, NEW q \in Requests[g], Invoke(g, q),
         q.op = "frame.reclaim"
  PROVE  Corresponds'
<1> DEFINE o == IHeld(q.c).object
           dead == Doomed(slots[q.c].id)
           t == [IKilled(dead) EXCEPT ![q.c] = NoCapability]
           v == [p \in Pages |-> IF p \in IMapped(o) THEN Blank ELSE ind.pages[p]]
<1>1. g \in profile.published /\ Independent(g, q).answer[1] = "ok"
  BY Accepted
<1>2. Memory(q) /\ UNCHANGED <<ipc, profile, received>> /\ ind' = Independent(g, q).after
  BY DEF Invoke, ReferenceStep, Ipc, Capability
<1>3. FrameReclaim(q.c) /\ FrameCap(q.c) = "ok"
  BY <1>2 DEF Memory, FrameReclaim, FrameReclaimStatus, ??
<1>4. /\ q.c \in SlotIndex /\ o \in FrameObjects /\ FrameNumber(o) = slots[q.c].target
      /\ IDescendants(IHeld(q.c).id) = dead /\ IMapped(o) = Mappings(slots[q.c].target)
  BY <1>3, FrameIs
<1>5. ind' = [ind EXCEPT !.pages = [p \in Pages |-> IF p \in IMapped(o) THEN Blank ELSE @[p]],
                         !.slots = [IKilled(IDescendants(IHeld(q.c).id)) EXCEPT ![q.c] = NoCapability],
                         !.live = @ \ {o}]
  BY <1>1, <1>2, ReplyOk DEF Independent, IFrameReclaim
<1>6. ind' = [[[ind EXCEPT !.pages = v] EXCEPT !.slots = t] EXCEPT !.live = ind.live \ {o}]
  BY <1>4, <1>5, TableIs DEF IndStates
<1>7. /\ slots' = [i \in SlotIndex |->
                     IF i = q.c THEN EmptySlot ELSE IF i \in dead THEN Tombstone ELSE slots[i]]
      /\ window' = [p \in Pages |-> IF window[p].mapped /\ window[p].frame = slots[q.c].target
                                    THEN Unmapped ELSE window[p]]
      /\ frames' = [frames EXCEPT ![slots[q.c].target] = FALSE]
      /\ nextId' = nextId /\ dead \in SUBSET SlotIndex
  BY <1>3 DEF FrameReclaim, Doomed, Derived
<1>8. t \in [SlotIndex -> {NoCapability, Dead}
                  \cup [is : {"live"}, object : Objects, rights : SUBSET AllRights, badge : Nat,
                        id : Nat, parent : Nat]]
  <2> HIDE DEF dead
  <2> QED BY <1>4, TableIs DEF IKilled, IHeld
<1>9. \A i \in SlotIndex : Image(slots'[i], t[i])
  <2> HIDE DEF dead
  <2>1. \A i \in SlotIndex : i # q.c => t[i] = IKilled(dead)[i]
    BY DEF IKilled
  <2>2. t[q.c] = NoCapability
    BY <1>4 DEF IKilled
  <2>3. slots'[q.c] = EmptySlot
    BY <1>4, <1>7
  <2>4. \A i \in SlotIndex : i # q.c => slots'[i] = IF i \in dead THEN Tombstone ELSE slots[i]
    BY <1>7
  <2> HIDE DEF t
  <2> QED BY <1>7, <2>1, <2>2, <2>3, <2>4, KilledImages, TableIs
<1>10. v \in [Pages -> [frame : Objects, rights : SUBSET AllRights]]
  BY PagesAre
<1>11. \A p \in Pages : SamePage(window'[p], v[p])
  <2>1. \A p \in Pages : p \in IMapped(o) <=> window[p].mapped /\ window[p].frame = slots[q.c].target
    BY <1>4 DEF Mappings
  <2> HIDE DEF o
  <2> QED BY <1>7, <2>1, PagesAre
<1>12. o \in Objects
  BY <1>4 DEF FrameObjects
<1> HIDE DEF t, v, o, dead
<1>13. /\ ind'.slots = t /\ ind'.nextId = ind.nextId /\ ind'.live = ind.live \ {o}
       /\ ind'.pages = v /\ QueueKept /\ SignalsKept
  BY <1>2, <1>6, TableIs DEF IndStates, QueueKept, SignalsKept
<1>14. ind' \in IndStates
  <2>1. [ind EXCEPT !.pages = v] \in IndStates
    BY <1>10, TableIs DEF IndStates
  <2>2. [[ind EXCEPT !.pages = v] EXCEPT !.slots = t] \in IndStates
    BY <1>8, <2>1 DEF IndStates
  <2>3. ind.live \ {o} \in SUBSET Objects
    BY TableIs DEF IndStates
  <2> QED BY <1>6, <2>2, <2>3 DEF IndStates
<1>15. SameFrames'
  <2>1. \A f \in FrameIndex : frames'[f] <=> frames[f] /\ f # slots[q.c].target
    BY <1>7 DEF AgreeInv, KernInv, MemTypeOK
  <2>2. \A m \in FrameObjects :
          FrameNumber(m) \in FrameIndex /\ (FrameNumber(m) = slots[q.c].target <=> m = o)
    BY <1>4, FrameObjectsAre
  <2> QED BY <1>4, <1>13, <2>1, <2>2 DEF AgreeInv, SameFrames
<1>16. AgreeTyped' /\ nextId' = ind'.nextId /\ SameTables' /\ SamePages'
  BY <1>2, <1>7, <1>9, <1>11, <1>13, <1>14 DEF AgreeInv, AgreeTyped, SameTables, SamePages
<1> QED BY <1>13, <1>15, <1>16, Kept DEF Corresponds

LEMMA ShareStep ==
  ASSUME AgreeInv, NEW g \in profile.asks, NEW q \in Requests[g], Invoke(g, q),
         q.op = "frame.share"
  PROVE  Corresponds'
<1>1. Typed(q) /\ g \in profile.published /\ Independent(g, q).answer[1] = "ok"
  BY Accepted
<1>2. Memory(q) /\ UNCHANGED <<ipc, profile, received>> /\ ind' = Independent(g, q).after
  BY DEF Invoke, ReferenceStep, Ipc, Capability
<1>3. /\ FrameShare(q.c, q.d, q.r, q.b) /\ ResolveTyped(q.c, "frame", {"grant"}) = "ok"
  BY <1>2 DEF Memory, FrameShare, FrameShareStatus, ??
<1>4. q.c \in SlotIndex /\ Live(q.c)
  BY <1>3, FrameCapOk
<1>5. /\ q.d \in SlotIndex /\ q.r \in SUBSET AllRights /\ q.b \in Nat
  BY <1>1, MemConstants, CapConstants DEF Typed, Invoke, Pinned, Deriving
<1>6. ind' = IDerived(ind, q.d, IHeld(q.c).object, q.r, q.b, IHeld(q.c).id)
  BY <1>1, <1>2, ReplyOk DEF Independent, IFrameShare
<1>7. DeriveInto(q.d, q.c, q.r, q.b) /\ UNCHANGED <<frames, window>>
  BY <1>3 DEF FrameShare, memVars
<1> QED BY <1>2, <1>4, <1>5, <1>6, <1>7, DerivedCorresponds

-----------------------------------------------------------------------------
\* Steps of the endpoint, the notification and the clock: the table and the
\* memory of both stay.

LEMMA MessagesCorrespond ==
  ASSUME AgreeInv, UNCHANGED <<kernVars, profile>>,
         ind' \in IndStates, ipc' \in IpcStates, received' \in Nat,
         ind'.slots = ind.slots, ind'.nextId = ind.nextId, ind'.live = ind.live,
         ind'.pages = ind.pages, SameQueue', SameSignals', Numbered'
  PROVE  Corresponds'
<1>1. TableKept /\ MemoryKept
  BY DEF TableKept, MemoryKept, kernVars
<1>2. AgreeTyped'
  BY DEF AgreeInv, AgreeTyped
<1> QED BY <1>1, <1>2, Kept DEF Corresponds

\* The ring, turned: what is appended does not overwrite, and what follows the
\* first is found from the next.
LEMMA RingIndex ==
  ASSUME NEW Q \in Nat \ {0}, NEW h \in 0 .. Q - 1, NEW k \in 0 .. Q
  PROVE  (h + k) % Q = IF h + k < Q THEN h + k ELSE h + k - Q
OBVIOUS

LEMMA RingAppends ==
  ASSUME NEW Q \in Nat \ {0}, NEW h \in 0 .. Q - 1, NEW n \in 0 .. Q - 1
  PROVE  /\ (h + n) % Q \in 0 .. Q - 1
         /\ \A k \in 1 .. n : /\ (h + k - 1) % Q \in 0 .. Q - 1
                              /\ (h + k - 1) % Q # (h + n) % Q
<1>1. (h + n) % Q = IF h + n < Q THEN h + n ELSE h + n - Q
  OBVIOUS
<1>2. ASSUME NEW k \in 1 .. n
      PROVE  (h + k - 1) % Q \in 0 .. Q - 1 /\ (h + k - 1) % Q # (h + n) % Q
  <2>1. (h + k - 1) % Q = IF h + k - 1 < Q THEN h + k - 1 ELSE h + k - 1 - Q
    OBVIOUS
  <2> QED BY <1>1, <2>1
<1> QED BY <1>1, <1>2

LEMMA RingTakes ==
  ASSUME NEW Q \in Nat \ {0}, NEW h \in 0 .. Q - 1, NEW n \in 1 .. Q
  PROVE  /\ (h + 1) % Q \in 0 .. Q - 1
         /\ \A k \in 1 .. n - 1 : (((h + 1) % Q) + k - 1) % Q = (h + (k + 1) - 1) % Q
<1> DEFINE head == (h + 1) % Q
<1>1. head = IF h + 1 < Q THEN h + 1 ELSE 0
  <2>1. CASE h + 1 < Q
    BY <2>1
  <2>2. CASE h + 1 = Q
    BY <2>2
  <2> QED BY <2>1, <2>2
<1> HIDE DEF head
<1>2. ASSUME NEW k \in 1 .. n - 1
      PROVE  (head + k - 1) % Q = (h + (k + 1) - 1) % Q
  <2>1. (h + k) % Q = IF h + k < Q THEN h + k ELSE h + k - Q
    OBVIOUS
  <2>2. h + (k + 1) - 1 = h + k
    OBVIOUS
  <2>3. head + k - 1 = IF h + 1 < Q THEN h + k ELSE k - 1
    BY <1>1
  <2>4. CASE h + 1 < Q
    BY <2>2, <2>3, <2>4
  <2>5. CASE ~(h + 1 < Q)
    <3>1. h + k = Q + (k - 1) /\ k - 1 \in 0 .. Q - 1
      BY <2>5
    <3>2. (k - 1) % Q = k - 1
      BY <3>1
    <3> QED BY <2>1, <2>2, <2>3, <2>5, <3>1, <3>2
  <2> QED BY <2>4, <2>5
<1>3. head \in 0 .. Q - 1
  BY <1>1
<1> QED BY <1>2, <1>3 DEF head

\* What a message operation finds.
LEMMA MessageStates ==
  ASSUME AgreeInv
  PROVE  /\ QueueLimit \in Nat \ {0} /\ ind \in IndStates /\ ipc \in IpcStates
         /\ ind.head \in 0 .. QueueLimit - 1 /\ ind.length \in 0 .. QueueLimit
         /\ ind.ring \in [0 .. QueueLimit - 1 -> Words] /\ ipc.queue \in Seq(Words)
         /\ ipc.sent \in Nat /\ ipc.clock \in Nat /\ ipc.badges \subseteq Nat
         /\ ind.ticks \in Nat /\ ind.badges \subseteq Nat /\ received \in Nat
         /\ SameQueue /\ SameSignals /\ Numbered
         /\ Len(ipc.queue) = ind.length /\ ipc.sent = received + ind.length
BY AgreementConstants DEF AgreeInv, AgreeTyped, IndStates, IpcStates, SameQueue, Numbered

LEMMA SendStep ==
  ASSUME AgreeInv, NEW g \in profile.asks, NEW q \in Requests[g], Invoke(g, q),
         q.op = "endpoint.send"
  PROVE  Corresponds'
<1> DEFINE Q == QueueLimit
           h == ind.head
           n == ind.length
           tail == RingTail
           m == [badge |-> slots[q.c].badge, word |-> ipc.sent + 1]
           ring == [ind.ring EXCEPT ![tail] = m]
           queue == Append(ipc.queue, m)
<1>1. g \in profile.published /\ Independent(g, q).answer[1] = "ok"
  BY Accepted
<1>2. /\ EndpointSend(q.c) /\ UNCHANGED <<kernVars, profile>> /\ received' = received
      /\ ind' = Independent(g, q).after
  BY DEF Invoke, ReferenceStep, Ipc, Capability, Memory
<1>3. /\ ITyped(q.c, "endpoint") ?? IRequire(q.c, {"send"}) = "ok" /\ n # Q
      /\ ind' = [ind EXCEPT !.ring[tail] = [badge |-> IHeld(q.c).badge, word |-> ipc.sent + 1],
                            !.length = @ + 1]
  BY <1>1, <1>2, ReplyOk DEF Independent, IEndpointSend, Require, ??
<1>4. q.c \in SlotIndex /\ Live(q.c)
  BY <1>3, SameChecks, ResolveOk DEF ResolveTyped, ??
<1>5. IHeld(q.c).badge = slots[q.c].badge /\ m \in Words
  <2>1. slots[q.c].badge \in Nat
    BY <1>4, TableIs DEF Slot
  <2> QED BY <1>4, <2>1, HeldIs, MessageStates DEF Words
<1>6. ind' = [[ind EXCEPT !.ring = ring] EXCEPT !.length = n + 1]
  BY <1>3, <1>5, TableIs DEF IndStates
<1>7. /\ ipc' = [[ipc EXCEPT !.queue = queue] EXCEPT !.sent = ipc.sent + 1]
  BY <1>2, MessageStates DEF EndpointSend, IpcStates
<1> HIDE DEF m
<1>8. /\ n \in 0 .. Q - 1 /\ n + 1 \in 0 .. Q /\ Q \in Nat \ {0} /\ h \in 0 .. Q - 1
      /\ tail = (h + n) % Q
  <2>1. QueueLimit \in Nat \ {0} /\ ind.length \in 0 .. QueueLimit /\ ind.length # QueueLimit
    BY <1>3, MessageStates
  <2>2. ind.length \in 0 .. QueueLimit - 1 /\ ind.length + 1 \in 0 .. QueueLimit
    BY <2>1
  <2> QED BY <2>1, <2>2, MessageStates DEF RingTail
<1>9. /\ tail \in 0 .. Q - 1
      /\ \A k \in 1 .. n : (h + k - 1) % Q \in 0 .. Q - 1 /\ (h + k - 1) % Q # tail
  <2> HIDE DEF Q, h, n, tail
  <2> QED BY <1>8, RingAppends
<1> HIDE DEF tail
<1>10. ring \in [0 .. Q - 1 -> Words] /\ ring[tail] = m
       /\ \A k \in 0 .. Q - 1 : k # tail => ring[k] = ind.ring[k]
  BY <1>5, <1>9, MessageStates
<1>11. /\ queue \in Seq(Words) /\ Len(queue) = n + 1 /\ queue[n + 1] = m
       /\ \A k \in 1 .. n : queue[k] = ipc.queue[k]
  BY <1>5, MessageStates
<1> HIDE DEF ring, queue
<1>12. /\ ind' \in IndStates /\ ind'.ring = ring /\ ind'.length = n + 1 /\ ind'.head = h
       /\ ind'.slots = ind.slots /\ ind'.nextId = ind.nextId /\ ind'.live = ind.live
       /\ ind'.pages = ind.pages /\ ind'.pending = ind.pending /\ ind'.badges = ind.badges
       /\ ind'.ticks = ind.ticks
  <2>1. [ind EXCEPT !.ring = ring] \in IndStates
    BY <1>10, TableIs DEF IndStates
  <2>2. ind' \in IndStates
    BY <1>6, <1>8, <2>1 DEF IndStates
  <2> QED BY <1>6, <2>2, TableIs DEF IndStates
<1>13. /\ ipc' \in IpcStates /\ ipc'.queue = queue /\ ipc'.sent = ipc.sent + 1
       /\ ipc'.pending = ipc.pending /\ ipc'.badges = ipc.badges /\ ipc'.clock = ipc.clock
  <2>1. [ipc EXCEPT !.queue = queue] \in IpcStates
    BY <1>11, MessageStates DEF IpcStates
  <2>2. ipc.sent + 1 \in Nat
    BY MessageStates
  <2>3. ipc' \in IpcStates
    BY <1>7, <2>1, <2>2 DEF IpcStates
  <2> QED BY <1>7, <2>3, MessageStates DEF IpcStates
<1>14. SameQueue'
  <2>1. ASSUME NEW k \in 1 .. n + 1 PROVE queue[k] = ring[(h + k - 1) % Q]
    <3>1. CASE k = n + 1
      <4>1. (h + k - 1) % Q = tail
        <5>1. h + k - 1 = h + n
          BY <1>8, <3>1
        <5> QED BY <1>8, <5>1
      <4> QED BY <1>10, <1>11, <3>1, <4>1
    <3>2. CASE k # n + 1
      <4>1. k \in 1 .. n
        BY <1>8, <3>2
      <4>2. ipc.queue[k] = ind.ring[(h + k - 1) % Q]
        BY <4>1, MessageStates DEF SameQueue
      <4> QED BY <1>9, <1>10, <1>11, <4>1, <4>2
    <3> QED BY <3>1, <3>2
  <2> QED BY <1>11, <1>12, <1>13, <2>1 DEF SameQueue
<1>15. Numbered'
  <2>1. \A k \in 1 .. n : ipc.queue[k].word = received + k
    BY MessageStates DEF Numbered
  <2>2. m.word = received + (n + 1)
    BY MessageStates DEF m
  <2>3. ipc.sent + 1 = received + (n + 1)
    BY MessageStates
  <2>4. \A k \in 1 .. n + 1 : k = n + 1 \/ k \in 1 .. n
    BY <1>8
  <2>5. \A k \in 1 .. n + 1 : queue[k].word = received + k
    BY <1>11, <2>1, <2>2, <2>4
  <2> QED BY <1>2, <1>11, <1>13, <2>3, <2>5 DEF Numbered
<1>16. SameSignals'
  BY <1>12, <1>13, MessageStates DEF SameSignals
<1> QED BY <1>2, <1>12, <1>13, <1>14, <1>15, <1>16, MessageStates, MessagesCorrespond

LEMMA ReceiveStep ==
  ASSUME AgreeInv, NEW g \in profile.asks, NEW q \in Requests[g], Invoke(g, q),
         q.op = "endpoint.receive"
  PROVE  Corresponds'
<1> DEFINE Q == QueueLimit
           h == ind.head
           n == ind.length
           head == (h + 1) % Q
           queue == Tail(ipc.queue)
<1>1. g \in profile.published /\ Independent(g, q).answer[1] = "ok"
  BY Accepted
<1>2. /\ EndpointReceive /\ UNCHANGED <<kernVars, profile>> /\ received' = received + 1
      /\ ind' = Independent(g, q).after
  BY DEF Invoke, ReferenceStep, Ipc, Capability, Memory
<1>3. n # 0 /\ ind' = [ind EXCEPT !.head = (@ + 1) % QueueLimit, !.length = @ - 1]
  BY <1>1, <1>2, ReplyOk DEF Independent, IEndpointReceive, Require, ??
<1>4. ind' = [[ind EXCEPT !.head = head] EXCEPT !.length = n - 1]
  BY <1>3, TableIs DEF IndStates
<1>5. ipc' = [ipc EXCEPT !.queue = queue]
  BY <1>2, MessageStates DEF EndpointReceive, IpcStates
<1>6. /\ n \in 1 .. Q /\ n - 1 \in 0 .. Q /\ Q \in Nat \ {0} /\ h \in 0 .. Q - 1
  <2>1. QueueLimit \in Nat \ {0} /\ ind.length \in 0 .. QueueLimit /\ ind.length # 0
    BY <1>3, MessageStates
  <2> QED BY <2>1, MessageStates
<1>7. /\ head \in 0 .. Q - 1
      /\ \A k \in 1 .. n - 1 : (head + k - 1) % Q = (h + (k + 1) - 1) % Q
  <2> HIDE DEF Q, h, n
  <2> QED BY <1>6, RingTakes
<1> HIDE DEF head
<1>8. /\ queue \in Seq(Words) /\ Len(queue) = n - 1
      /\ \A k \in 1 .. n - 1 : queue[k] = ipc.queue[k + 1]
  BY <1>6, MessageStates
<1> HIDE DEF queue
<1>9. /\ ind' \in IndStates /\ ind'.ring = ind.ring /\ ind'.length = n - 1 /\ ind'.head = head
      /\ ind'.slots = ind.slots /\ ind'.nextId = ind.nextId /\ ind'.live = ind.live
      /\ ind'.pages = ind.pages /\ ind'.pending = ind.pending /\ ind'.badges = ind.badges
      /\ ind'.ticks = ind.ticks
  <2>1. [ind EXCEPT !.head = head] \in IndStates
    BY <1>7, TableIs DEF IndStates
  <2>2. ind' \in IndStates
    BY <1>4, <1>6, <2>1 DEF IndStates
  <2> QED BY <1>4, <2>2, TableIs DEF IndStates
<1>10. /\ ipc' \in IpcStates /\ ipc'.queue = queue /\ ipc'.sent = ipc.sent
       /\ ipc'.pending = ipc.pending /\ ipc'.badges = ipc.badges /\ ipc'.clock = ipc.clock
  BY <1>5, <1>8, MessageStates DEF IpcStates
<1>11. SameQueue'
  <2>1. ASSUME NEW k \in 1 .. n - 1 PROVE queue[k] = ind.ring[(head + k - 1) % Q]
    <3>1. k + 1 \in 1 .. n
      BY <1>6
    <3>2. ipc.queue[k + 1] = ind.ring[(h + (k + 1) - 1) % Q]
      BY <3>1, MessageStates DEF SameQueue
    <3> QED BY <1>7, <1>8, <3>2
  <2> QED BY <1>8, <1>9, <1>10, <2>1 DEF SameQueue
<1>12. Numbered'
  <2>1. ASSUME NEW k \in 1 .. n - 1 PROVE queue[k].word = (received + 1) + k
    <3>1. k + 1 \in 1 .. n
      BY <1>6
    <3>2. ipc.queue[k + 1].word = received + (k + 1)
      BY <3>1, MessageStates DEF Numbered
    <3>3. received + (k + 1) = (received + 1) + k
      BY MessageStates
    <3> QED BY <1>8, <3>2, <3>3
  <2>2. ipc.sent = (received + 1) + (n - 1)
    <3>1. ipc.sent = received + n /\ received \in Nat
      BY MessageStates
    <3> QED BY <1>6, <3>1
  <2> QED BY <1>2, <1>8, <1>10, <2>1, <2>2 DEF Numbered
<1>13. SameSignals'
  BY <1>9, <1>10, MessageStates DEF SameSignals
<1>14. received' \in Nat
  BY <1>2, MessageStates
<1> QED BY <1>2, <1>9, <1>10, <1>11, <1>12, <1>13, <1>14, MessagesCorrespond

\* The notification and the clock leave the queue alone.
LEMMA SignalsCorrespond ==
  ASSUME AgreeInv, UNCHANGED <<kernVars, profile, received>>,
         NEW pending \in BOOLEAN, NEW badges \in SUBSET Nat, NEW ticks \in Nat,
         ind' = [[[ind EXCEPT !.pending = pending] EXCEPT !.badges = badges] EXCEPT !.ticks = ticks],
         ipc' = [[[ipc EXCEPT !.pending = pending] EXCEPT !.badges = badges] EXCEPT !.clock = ticks]
  PROVE  Corresponds'
<1>1. /\ ind' \in IndStates /\ ind'.pending = pending /\ ind'.badges = badges
      /\ ind'.ticks = ticks /\ ind'.slots = ind.slots /\ ind'.nextId = ind.nextId
      /\ ind'.live = ind.live /\ ind'.pages = ind.pages /\ ind'.ring = ind.ring
      /\ ind'.head = ind.head /\ ind'.length = ind.length
  BY TableIs DEF IndStates
<1>2. /\ ipc' \in IpcStates /\ ipc'.pending = pending /\ ipc'.badges = badges
      /\ ipc'.clock = ticks /\ ipc'.queue = ipc.queue /\ ipc'.sent = ipc.sent
  BY MessageStates DEF IpcStates
<1>3. QueueKept /\ SameSignals' /\ received' \in Nat
  BY <1>1, <1>2, MessageStates DEF QueueKept, SameSignals
<1> QED BY <1>1, <1>2, <1>3, Kept, MessagesCorrespond

LEMMA SignalStep ==
  ASSUME AgreeInv, NEW g \in profile.asks, NEW q \in Requests[g], Invoke(g, q),
         q.op \in {"notification.signal", "notification.poll", "notification.wait", "clock.now"}
  PROVE  Corresponds'
<1>1. g \in profile.published /\ Independent(g, q).answer[1] = "ok"
  BY Accepted
<1>2. /\ Ipc(q) /\ UNCHANGED <<kernVars, profile>> /\ received' = received
      /\ ind' = Independent(g, q).after
  BY DEF Invoke, ReferenceStep, Capability, Memory
<1>3. ipc.pending = ind.pending /\ ipc.badges = ind.badges /\ ipc.clock = ind.ticks
  BY MessageStates DEF SameSignals
<1>4. CASE q.op = "notification.signal"
  <2> DEFINE badges == ind.badges \cup {slots[q.c].badge}
  <2>1. /\ ITyped(q.c, "notification") ?? IRequire(q.c, {"send"}) = "ok"
        /\ ind' = [ind EXCEPT !.pending = TRUE, !.badges = @ \cup {IHeld(q.c).badge}]
    BY <1>1, <1>2, <1>4, ReplyOk DEF Independent, INotificationSignal, ??
  <2>2. q.c \in SlotIndex /\ Live(q.c)
    BY <2>1, SameChecks, ResolveOk DEF ResolveTyped, ??
  <2>3. IHeld(q.c).badge = slots[q.c].badge /\ slots[q.c].badge \in Nat
    BY <2>2, HeldIs, TableIs DEF Slot
  <2>4. badges \in SUBSET Nat
    BY <2>3, MessageStates
  <2>5. ind' = [[[ind EXCEPT !.pending = TRUE] EXCEPT !.badges = badges] EXCEPT !.ticks = ind.ticks]
    BY <2>1, <2>3, TableIs DEF IndStates
  <2>6. ipc' = [[[ipc EXCEPT !.pending = TRUE] EXCEPT !.badges = badges] EXCEPT !.clock = ind.ticks]
    BY <1>2, <1>3, <1>4, MessageStates DEF Ipc, NotificationSignal, IpcStates
  <2> HIDE DEF badges
  <2> QED BY <1>2, <2>4, <2>5, <2>6, MessageStates, SignalsCorrespond
<1>5. CASE q.op \in {"notification.poll", "notification.wait"}
  <2>1. ind' = [ind EXCEPT !.pending = FALSE, !.badges = {}]
    <3>1. Independent(g, q) = INotificationTake(q)
      BY <1>1, <1>5 DEF Independent
    <3> QED BY <1>1, <1>2, <3>1, ReplyOk DEF INotificationTake
  <2>2. ind' = [[[ind EXCEPT !.pending = FALSE] EXCEPT !.badges = {}] EXCEPT !.ticks = ind.ticks]
    BY <2>1, TableIs DEF IndStates
  <2>3. ipc' = [[[ipc EXCEPT !.pending = FALSE] EXCEPT !.badges = {}] EXCEPT !.clock = ind.ticks]
    BY <1>2, <1>3, <1>5, MessageStates DEF Ipc, NotificationPoll, IpcStates
  <2> QED BY <1>2, <2>2, <2>3, MessageStates, SignalsCorrespond
<1>6. CASE q.op = "clock.now"
  <2>1. ind' = [ind EXCEPT !.ticks = @ + 1]
    BY <1>1, <1>2, <1>6, ReplyOk DEF Independent, IClockNow
  <2> DEFINE ticks == ind.ticks + 1
  <2>2. ticks \in Nat
    BY MessageStates
  <2>3. ind' = [[[ind EXCEPT !.pending = ind.pending] EXCEPT !.badges = ind.badges] EXCEPT !.ticks = ticks]
    BY <2>1, TableIs DEF IndStates
  <2>4. ipc' = [[[ipc EXCEPT !.pending = ind.pending] EXCEPT !.badges = ind.badges] EXCEPT !.clock = ticks]
    BY <1>2, <1>3, <1>6, MessageStates DEF Ipc, ClockNow, IpcStates
  <2>5. ind.pending \in BOOLEAN /\ ind.badges \in SUBSET Nat
    BY TableIs DEF IndStates
  <2> HIDE DEF ticks
  <2> QED BY <1>2, <2>2, <2>3, <2>4, <2>5, SignalsCorrespond
<1> QED BY <1>4, <1>5, <1>6

-----------------------------------------------------------------------------
\* The invariant.

LEMMA AgreeInitInv == AgreeInit => AgreeInv
<1> SUFFICES ASSUME AgreeInit PROVE AgreeInv
  OBVIOUS
<1>1. MemInit /\ CapInit /\ KernInv /\ ipc = IpcInit /\ ind = IndInit /\ profile \in Profiles
      /\ received = 0 /\ nextId = FirstFree
  BY KernInitInv DEF AgreeInit, MemInit, CapInit
<1>2. QueueLimit \in Nat \ {0}
  BY AgreementConstants
<1>3. \A i \in Installed :
        /\ i \in SlotIndex /\ i \in 1 .. 6 /\ i - 1 \in Objects
        /\ DomainRights(i) \in SUBSET AllRights
        /\ ObjectKind(i - 1) = DomainKind(i)
        /\ DomainKind(i) = "frame" => i = FrameSlot /\ FrameNumber(i - 1) = 0
  BY CapConstants, MemConstants DEF SlotIndex, CNodeSlot, SpaceSlot, FrameSlot, NotificationSlot,
     EndpointSlot, ClockSlot, AllRights, DomainKind, DomainRights, Objects, ObjectKind, FrameNumber,
     FrameZero
<1>4. \A i \in SlotIndex :
        /\ slots[i] = IF i \in Installed THEN InstalledRoot(i) ELSE EmptySlot
        /\ ind.slots[i] = IF i \in Installed
             THEN Capable(i - 1, DomainRights(i), IF i = NotificationSlot THEN 1 ELSE 0, i, 0)
             ELSE NoCapability
  BY <1>1 DEF CapInit, IndInit
<1>5. SameTables
  <2>1. ASSUME NEW i \in SlotIndex PROVE Image(slots[i], ind.slots[i])
    <3>1. CASE i \in Installed
      <4>1. slots[i] = InstalledRoot(i)
            /\ ind.slots[i] = Capable(i - 1, DomainRights(i), IF i = NotificationSlot THEN 1 ELSE 0, i, 0)
        BY <1>4, <3>1
      <4> QED BY <1>3, <3>1, <4>1 DEF Image, InstalledRoot
    <3>2. CASE i \notin Installed
      BY <1>4, <3>2 DEF Image
    <3> QED BY <3>1, <3>2
  <2> QED BY <2>1 DEF SameTables
<1>6. ind.live = {o \in Objects : o < FirstBudgetFrame} /\ frames = [f \in FrameIndex |-> f = 0]
  BY <1>1 DEF IndInit, MemInit
<1>7. SameFrames
  <2>1. \A o \in FrameObjects : o < FirstBudgetFrame <=> FrameNumber(o) = 0
    BY MemConstants DEF FrameObjects, Objects, FrameNumber, FrameZero, FirstBudgetFrame
  <2>2. \A o \in Objects \ FrameObjects : o < FirstBudgetFrame
    BY MemConstants DEF FrameObjects, Objects, FirstBudgetFrame
  <2> QED BY <1>6, <2>1, <2>2, FrameObjectsAre DEF SameFrames, FrameObjects
<1>8. SamePages
  BY <1>1 DEF MemInit, IndInit, SamePages, SamePage
<1>9. ipc.queue = <<>> /\ ind.length = 0 /\ ipc.sent = 0 /\ SameSignals
  BY <1>1 DEF IpcInit, IndInit, SameSignals
<1>10. SameQueue /\ Numbered
  BY <1>1, <1>9 DEF SameQueue, Numbered
<1>11. ipc \in IpcStates
  BY <1>1 DEF IpcInit, IpcStates
<1>12. ind \in IndStates
  <2>1. ind.slots \in [SlotIndex -> {NoCapability, Dead}
              \cup [is : {"live"}, object : Objects, rights : SUBSET AllRights, badge : Nat,
                    id : Nat, parent : Nat]]
    <3>1. \A i \in Installed :
            Capable(i - 1, DomainRights(i), IF i = NotificationSlot THEN 1 ELSE 0, i, 0)
              \in [is : {"live"}, object : Objects, rights : SUBSET AllRights, badge : Nat,
                    id : Nat, parent : Nat]
      BY <1>3 DEF Capable
    <3> QED BY <1>1, <3>1 DEF IndInit
  <2>2. NoFrame \in Objects
    BY MemConstants DEF NoFrame, Objects
  <2>3. ind.pages \in [Pages -> [frame : Objects, rights : SUBSET AllRights]]
    BY <1>1, <2>2 DEF IndInit, Blank
  <2>4. ind.ring \in [0 .. QueueLimit - 1 -> Words]
    BY <1>1 DEF IndInit, Words
  <2>5. ind.head \in 0 .. QueueLimit - 1 /\ ind.length \in 0 .. QueueLimit /\ ind.nextId \in Nat
        /\ ind.ticks \in Nat
    BY <1>1, <1>2 DEF IndInit, FirstFree
  <2>6. ind.pending \in BOOLEAN /\ ind.badges \in SUBSET Nat /\ ind.live \in SUBSET Objects
    BY <1>1 DEF IndInit
  <2>7. ind = [slots |-> ind.slots, nextId |-> ind.nextId, live |-> ind.live, pages |-> ind.pages,
               ring |-> ind.ring, head |-> ind.head, length |-> ind.length,
               pending |-> ind.pending, badges |-> ind.badges, ticks |-> ind.ticks]
    BY <1>1 DEF IndInit
  <2> QED BY <2>1, <2>3, <2>4, <2>5, <2>6, <2>7 DEF IndStates
<1>13. nextId = ind.nextId
  BY <1>1 DEF IndInit
<1> QED BY <1>1, <1>5, <1>7, <1>8, <1>9, <1>10, <1>11, <1>12, <1>13 DEF AgreeInv, AgreeTyped

LEMMA AgreeNextInv == AgreeInv /\ [AgreeNext]_agreeVars => AgreeInv'
<1> SUFFICES ASSUME AgreeInv, [AgreeNext]_agreeVars PROVE AgreeInv'
  OBVIOUS
<1>1. CASE UNCHANGED agreeVars
  <2>1. UNCHANGED <<kernVars, ipc, ind, profile, received>>
    BY <1>1 DEF agreeVars, kernVars
  <2>2. TableKept /\ MemoryKept /\ QueueKept /\ SignalsKept /\ AgreeTyped'
    BY <2>1 DEF kernVars, TableKept, MemoryKept, QueueKept, SignalsKept, AgreeInv, AgreeTyped
  <2>3. KernInv'
    BY <2>1, KernInvStutter DEF AgreeInv
  <2> QED BY <2>2, <2>3, Kept DEF AgreeInv
<1>2. ASSUME NEW g \in profile.asks, NEW q \in Requests[g], Invoke(g, q) PROVE AgreeInv'
  <2>1. KernInv'
    BY <1>2, KernKept
  <2>2. q.op \notin {"nop", "boot.info", "endpoint.call", "endpoint.reply", "as.query"}
    BY <1>2 DEF Invoke, ReferenceStep, Ipc, Capability, Memory
  <2>3. q.op \in Operations
    BY <1>2, Accepted
  <2>4. Corresponds'
    BY <1>2, <2>2, <2>3, CapabilityStep, WindowStepCorresponds, AllocateStep, ReclaimStep,
       ShareStep, SendStep, ReceiveStep, SignalStep DEF Operations
  <2> QED BY <2>1, <2>4 DEF AgreeInv, Corresponds
<1> QED BY <1>1, <1>2 DEF AgreeNext

\* In every reachable state the two implementations are in states that
\* represent one another, and the messages between send and receive are
\* numbered one after the other.
THEOREM AgreementInvariant == AgreeSpec => []AgreeInv
<1> QED BY AgreeInitInv, AgreeNextInv, PTL DEF AgreeSpec

LEMMA AgreeInvSame ==
  ASSUME AgreeInv
  PROVE  SameCapabilities /\ SameMemory /\ SameMessages
<1>1. SameCapabilities
  <2>1. ASSUME NEW i \in SlotIndex, ICapability(i) = "ok"
        PROVE  /\ Live(i)
               /\ IHeld(i) = Capable(IHeld(i).object, slots[i].rights, slots[i].badge,
                                     slots[i].id, slots[i].parent)
               /\ ObjectKind(IHeld(i).object) = slots[i].kind
               /\ slots[i].kind = "frame" => FrameNumber(IHeld(i).object) = slots[i].target
    BY <2>1, SlotIs, HeldIs
  <2>2. ASSUME NEW i \in SlotIndex, ICapability(i) # "ok"
        PROVE  slots[i] = (IF IHeld(i) = Dead THEN Tombstone ELSE EmptySlot)
    <3>1. ~Live(i) /\ Image(slots[i], IHeld(i))
      BY <2>2, SlotIs DEF IHeld
    <3>2. NoCapability # Dead
      <4>1. NoCapability.is # Dead.is
        BY DEF NoCapability, Dead
      <4> QED BY <4>1
    <3> QED BY <3>1, <3>2 DEF Image, Live
  <2> QED BY <2>1, <2>2 DEF SameCapabilities
<1>2. SameMemory
  <2>1. {f \in FrameIndex : frames[f]} =
          {FrameNumber(o) : o \in {o \in ind.live : ObjectKind(o) = "frame"}}
    <3>1. ASSUME NEW f \in FrameIndex, frames[f]
          PROVE  \E o \in ind.live : ObjectKind(o) = "frame" /\ FrameNumber(o) = f
      <4>1. PICK o \in FrameObjects : FrameNumber(o) = f
        BY FrameObjectsAre
      <4> QED BY <3>1, <4>1, FrameObjectsAre DEF AgreeInv, SameFrames, FrameObjects
    <3>2. ASSUME NEW o \in ind.live, ObjectKind(o) = "frame"
          PROVE  FrameNumber(o) \in FrameIndex /\ frames[FrameNumber(o)]
      <4>1. o \in FrameObjects
        BY <3>2, FrameObjectsAre, TableIs DEF IndStates
      <4> QED BY <4>1, FrameObjectsAre DEF AgreeInv, SameFrames
    <3> QED BY <3>1, <3>2
  <2>2. \A p \in Pages :
          window[p] = IF ind.pages[p] = Blank THEN Unmapped
                      ELSE [mapped |-> TRUE, frame |-> FrameNumber(ind.pages[p].frame),
                            rights |-> ind.pages[p].rights]
    BY PagesAre, FrameObjectsAre DEF SamePage, Blank
  <2> QED BY <2>1, <2>2 DEF SameMemory
<1>3. SameMessages
  <2>1. ipc.queue = [k \in 1 .. ind.length |-> ind.ring[(ind.head + k - 1) % QueueLimit]]
    <3>1. /\ ipc.queue \in Seq(Words) /\ Len(ipc.queue) = ind.length
          /\ \A k \in 1 .. ind.length : ipc.queue[k] = ind.ring[(ind.head + k - 1) % QueueLimit]
      BY MessageStates DEF SameQueue
    <3>2. ipc.queue = [k \in 1 .. Len(ipc.queue) |-> ipc.queue[k]]
      BY <3>1
    <3> QED BY <3>1, <3>2
  <2> QED BY <2>1, MessageStates DEF SameMessages, SameSignals
<1> QED BY <1>1, <1>2, <1>3

\* Whatever requests came before, refused or not, the two implementations give
\* the same answer, status and words, to whatever request comes next: the
\* agreement that conformance.rs tests in one order holds in every order.
THEOREM AnswersAgree == AgreeSpec => []ImplementationsAgree
<1>1. AgreeInv => ImplementationsAgree
  <2> SUFFICES ASSUME AgreeInv PROVE ImplementationsAgree
    OBVIOUS
  <2>1. nextId = ind.nextId
    BY DEF AgreeInv
  <2>2. ASSUME NEW g \in Groups, NEW q \in Requests[g], Pinned(q)
        PROVE  ReferenceAnswer(g, q) = Independent(g, q).answer
    BY <2>2, AllAgreed DEF Agreed
  <2> QED BY <2>1, <2>2, AgreeInvSame DEF ImplementationsAgree
<1> QED BY AgreementInvariant, <1>1, PTL

\* Every message endpoint.send accepts is received once and in order, and the
\* queue never holds more than its limit, whatever is copied, moved and revoked
\* meanwhile.
THEOREM MessagesInOrder == AgreeSpec => []EndpointInOrder
<1>1. AgreeInv => EndpointInOrder
  <2> SUFFICES ASSUME AgreeInv PROVE EndpointInOrder
    OBVIOUS
  <2>1. Len(ipc.queue) <= QueueLimit
    BY QueueIs
  <2>2. /\ ipc.sent = received + Len(ipc.queue) /\ received \in Nat /\ Len(ipc.queue) \in Nat
        /\ \A k \in 1 .. Len(ipc.queue) : ipc.queue[k].word = received + k
    BY MessageStates DEF Numbered
  <2>3. ipc.sent - received = Len(ipc.queue)
    BY <2>2
  <2> QED BY <2>1, <2>2, <2>3 DEF EndpointInOrder
<1> QED BY AgreementInvariant, <1>1, PTL
=============================================================================
