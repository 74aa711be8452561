---------------------------- MODULE KernelMemory ----------------------------
(***************************************************************************)
(* The memory group of the kernel contract (contract v1.1), as the         *)
(* reference model implements it: a budget of frames, capabilities that    *)
(* designate them, and a window of pages at which they are mapped.  The    *)
(* capability space is the one of CapSpace, and the cap.* operations run   *)
(* between the memory ones.                                                *)
(***************************************************************************)
EXTENDS CapSpace

CONSTANTS
  NFrames,      \* frame 0 and the allocation budget (FRAMES)
  NPages,       \* pages of the frame window (WINDOW)
  MemRights     \* rights words a memory request may carry

FrameIndex == 0 .. NFrames - 1
Pages      == 0 .. NPages - 1

ASSUME MemConstants ==
  /\ NFrames \in Nat \ {0} /\ NPages \in Nat
  /\ \A r \in MemRights : r \subseteq AllRights

VARIABLES
  frames,   \* which frames exist
  window    \* what is mapped at each page

memVars  == <<frames, window>>
kernVars == <<slots, nextId, frames, window>>

Mapping == [mapped : BOOLEAN, frame : FrameIndex, rights : SUBSET AllRights]
Unmapped == [mapped |-> FALSE, frame |-> 0, rights |-> {}]

\* The frame the domain is built with is frame 0; the budget is free.
MemInit ==
  /\ CapInit
  /\ frames = [f \in FrameIndex |-> f = 0]
  /\ window = [p \in Pages |-> Unmapped]

-----------------------------------------------------------------------------
\* Mapping a frame, by frame.map and as.map alike.

PageInWindow(p) == Require(p \in Pages, "invalid-argument")

MappableRights(r) == Require(r # {} /\ r \subseteq MappingRights, "invalid-argument")

\* Policy, checked after the capability has been found sufficient.
NotWritableAndExecutable(r) == Require(~({"write", "execute"} \subseteq r), "not-permitted")

\* Mutant: the write-or-execute policy is left to as.protect.
MapStatus_NoPolicy(s, p, r) ==
  PageInWindow(p) ?? MappableRights(r) ?? Narrows(r, s)
                  ?? Require(~window[p].mapped, "already-exists")

MapStatus(s, p, r) ==
  PageInWindow(p) ?? MappableRights(r) ?? Narrows(r, s)
                  ?? NotWritableAndExecutable(r)
                  ?? Require(~window[p].mapped, "already-exists")

\* A mapping belongs to the address space, not to the capability it was made
\* through.
MapIntoWindow(s, p, r) ==
  /\ MapStatus(s, p, r) = "ok"
  /\ window' = [window EXCEPT ![p] =
                  [mapped |-> TRUE, frame |-> slots[s].target, rights |-> r]]
  /\ UNCHANGED <<slots, nextId, frames>>

-----------------------------------------------------------------------------
\* The frame operations.

FreeFrames == {f \in FrameIndex : ~frames[f]}

FrameAllocateStatus(c, w, d, r) ==
  CNodeControl(c) ?? Reserved(w)
    ?? Require(r # {} /\ r \subseteq FrameRights, "invalid-argument")
    ?? Destination(d) ?? Require(FreeFrames # {}, "resource-exhausted")
    ?? IdAvailable

\* The lowest free frame, and its root capability in slot d.
FrameAllocate(c, d, r) ==
  /\ FrameAllocateStatus(c, TRUE, d, r) = "ok"
  /\ \E number \in FreeFrames :
       /\ \A f \in FreeFrames : number <= f
       /\ frames' = [frames EXCEPT ![number] = TRUE]
       /\ slots' = [slots EXCEPT ![d] =
                      [kind |-> "frame", target |-> number, rights |-> r,
                       badge |-> 0, id |-> nextId, parent |-> 0, revoked |-> FALSE]]
  /\ nextId' = nextId + 1
  /\ UNCHANGED window

FrameCap(s) == ResolveTyped(s, "frame", {})

FrameMapStatus(s, w, p, r) == FrameCap(s) ?? Reserved(w) ?? MapStatus(s, p, r)

FrameMap(s, p, r) ==
  /\ FrameMapStatus(s, TRUE, p, r) = "ok"
  /\ MapIntoWindow(s, p, r)

FrameShareStatus(s, w, d, r) ==
  ResolveTyped(s, "frame", {"grant"}) ?? Reserved(w) ?? DefinedRights(r)
    ?? Narrows(r, s) ?? Destination(d) ?? IdAvailable

\* A frame's holder shares it without the capability space's control.
FrameShare(s, d, r, b) ==
  /\ FrameShareStatus(s, TRUE, d, r) = "ok"
  /\ DeriveInto(d, s, r, b)
  /\ UNCHANGED memVars

\* Only the root capability of a frame the domain allocated gives it back.
FrameReclaimStatus(s, w) ==
  FrameCap(s) ?? Reserved(w)
    ?? Require(slots[s].parent = 0 /\ slots[s].target # 0, "not-permitted")

\* Mutant: the frame is given back while pages still map it.
FrameReclaim_StillMapped(s) ==
  /\ FrameReclaimStatus(s, TRUE) = "ok"
  /\ slots' = [i \in SlotIndex |->
                 IF i = s THEN EmptySlot
                 ELSE IF i \in Doomed(slots[s].id) THEN Tombstone ELSE slots[i]]
  /\ frames' = [frames EXCEPT ![slots[s].target] = FALSE]
  /\ UNCHANGED <<nextId, window>>

FrameReclaim(s) ==
  /\ FrameReclaimStatus(s, TRUE) = "ok"
  /\ window' = [p \in Pages |->
                  IF window[p].mapped /\ window[p].frame = slots[s].target
                  THEN Unmapped ELSE window[p]]
  /\ slots' = [i \in SlotIndex |->
                 IF i = s THEN EmptySlot
                 ELSE IF i \in Doomed(slots[s].id) THEN Tombstone ELSE slots[i]]
  /\ frames' = [frames EXCEPT ![slots[s].target] = FALSE]
  /\ UNCHANGED nextId

-----------------------------------------------------------------------------
\* The address-space operations.

AddressSpace(a) == ResolveTyped(a, "address-space", {"control"})

AsMapStatus(a, w, s, p, r) ==
  AddressSpace(a) ?? Reserved(w) ?? IndexWord(s) ?? FrameCap(s) ?? MapStatus(s, p, r)

AsMap(a, s, p, r) ==
  /\ AsMapStatus(a, TRUE, s, p, r) = "ok"
  /\ MapIntoWindow(s, p, r)

IsMapped(p) == Require(window[p].mapped, "not-found")

AsUnmapStatus(a, w, p) ==
  AddressSpace(a) ?? Reserved(w) ?? PageInWindow(p) ?? IsMapped(p)

AsUnmap(a, p) ==
  /\ AsUnmapStatus(a, TRUE, p) = "ok"
  /\ window' = [window EXCEPT ![p] = Unmapped]
  /\ UNCHANGED <<slots, nextId, frames>>

\* Mutant: as.protect may widen a mapping.
AsProtectStatus_Widening(a, w, p, r) ==
  AddressSpace(a) ?? Reserved(w) ?? PageInWindow(p) ?? MappableRights(r)
    ?? IsMapped(p) ?? NotWritableAndExecutable(r)

\* A mapping is narrowed against itself, not against any capability.
AsProtectStatus(a, w, p, r) ==
  AddressSpace(a) ?? Reserved(w) ?? PageInWindow(p) ?? MappableRights(r)
    ?? IsMapped(p) ?? Require(r \subseteq window[p].rights, "insufficient-rights")
    ?? NotWritableAndExecutable(r)

AsProtect(a, p, r) ==
  /\ AsProtectStatus(a, TRUE, p, r) = "ok"
  /\ window' = [window EXCEPT ![p].rights = r]
  /\ UNCHANGED <<slots, nextId, frames>>

FrameNext ==
  \/ \E c \in SlotIndex, d \in DestArgs, r \in MemRights : FrameAllocate(c, d, r)
  \/ \E s \in SlotIndex, d \in DestArgs, r \in MemRights, b \in Badges :
       FrameShare(s, d, r, b)
  \/ \E s \in SlotIndex, p \in Pages, r \in MemRights : FrameMap(s, p, r)
  \/ \E s \in SlotIndex : FrameReclaim(s)

AsNext ==
  \E a \in SlotIndex, p \in Pages :
    \/ \E s \in SlotIndex, r \in MemRights : AsMap(a, s, p, r)
    \/ AsUnmap(a, p)
    \/ \E r \in MemRights : AsProtect(a, p, r)

KernNext == (CapNext /\ UNCHANGED memVars) \/ FrameNext \/ AsNext

KernSpec == MemInit /\ [][KernNext]_kernVars

-----------------------------------------------------------------------------
\* Properties.

MemTypeOK ==
  /\ CapTypeOK
  /\ frames \in [FrameIndex -> BOOLEAN]
  /\ window \in [Pages -> Mapping]

FrameCaps(f) == {i \in SlotIndex : Live(i) /\ slots[i].kind = "frame"
                                           /\ slots[i].target = f}
Mappings(f)  == {p \in Pages : window[p].mapped /\ window[p].frame = f}

\* Capabilities, however derived or moved, and mappings, whoever made them,
\* designate frames that are allocated: handing a number out again can not give
\* a new holder's memory to an old one.
CapsNameFrames ==
  \A i \in SlotIndex : Live(i) /\ slots[i].kind = "frame" =>
    slots[i].target \in FrameIndex /\ frames[slots[i].target]

MappingsNameFrames == \A p \in Pages : window[p].mapped => frames[window[p].frame]

\* A frame of the budget that is allocated has one root capability somewhere in
\* the table, so that it is never lost to frame.reclaim, and never two, so
\* that it is given back once.
IsRoot(i) == slots[i].parent = 0

FramesAreOwnedOnce ==
  \A f \in FrameIndex \ {0} : frames[f] =>
    \E i \in FrameCaps(f) :
       /\ IsRoot(i)
       /\ \A j \in FrameCaps(f) : IsRoot(j) => j = i

FrameOwnership == CapsNameFrames /\ MappingsNameFrames /\ FramesAreOwnedOnce

\* No page is ever both writable and executable, by whatever sequence of
\* maps, remaps and protections.
WritableXorExecutable ==
  \A p \in Pages : ~({"write", "execute"} \subseteq window[p].rights)

\* What can be done to a frame, through its capabilities and its mappings.
Exposure(f) ==
  UNION ({slots[i].rights : i \in FrameCaps(f)} \cup
         {window[p].rights : p \in Mappings(f)})

\* As long as a frame stays allocated, what can be done to it never grows:
\* not by sharing it, nor by mapping it through one capability and narrowing
\* or revoking another, nor by protecting a page after its capability is gone.
ExposureNeverGrows ==
  [][\A f \in FrameIndex : frames[f] /\ frames'[f] => Exposure(f)' \subseteq Exposure(f)]_kernVars

\* A capability found after a step was in the table before it, or was derived
\* from one that was, or is the root capability of a frame that was free until
\* then: the memory operations forge nothing either, and frame.allocate gives
\* out nothing that somebody still holds.
RootOfFreeFrame(new) ==
  /\ new.id = nextId /\ new.parent = 0 /\ new.kind = "frame"
  /\ new.target \in FreeFrames /\ frames'[new.target]

NoForgedMemory ==
  [][\A i \in SlotIndex : slots'[i].id # 0 =>
        \/ \E j \in SlotIndex :
             /\ Live(j)
             /\ SameCapability(slots'[i], slots[j]) \/ DerivedFrom(slots'[i], slots[j])
        \/ RootOfFreeFrame(slots'[i])
    ]_kernVars
=============================================================================
