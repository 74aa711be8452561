------------------------------ MODULE Workspace ------------------------------
(***************************************************************************)
(* The durable workspace image (boot/kernel/src/workspace.rs): two disk    *)
(* slots, each a header sector and a payload.  A save invalidates one      *)
(* slot's header, writes the payload, and publishes the new header last,   *)
(* with a cache flush after each of the three; a load accepts a slot only  *)
(* when the checksum of its header is that of its payload.                 *)
(*                                                                         *)
(* An image is the contents of a workspace, identified by the save that    *)
(* made it; a checksum is the image it was computed from.  A torn sector   *)
(* has its first half new and its second half old, so a header (32 bytes)  *)
(* and a recovery record (44 bytes) land whole or not at all, and only a   *)
(* payload of many sectors can be a mixture.                               *)
(***************************************************************************)
EXTENDS Integers, FiniteSets

CONSTANTS
  MaxSaves,   \* bound: how many saves are begun
  FaultSets   \* sets of what may fail for a moment, of which a behaviour has one

Slots  == {"A", "B"}
Images == 1 .. MaxSaves

NoImage == 0     \* the empty workspace
Mixture == -1    \* a payload that is no image

ASSUME WorkspaceConstants ==
  /\ MaxSaves \in Nat
  /\ FaultSets \subseteq SUBSET {"read", "write", "evaluator"}

VARIABLES
  disk,     \* the two slots
  saving,   \* the save in progress: its slot, generation and image
  images,   \* saves begun so far
  faults    \* what may fail in this behaviour

Contents == [gen : Nat, sum : Nat, payload : Images \cup {NoImage, Mixture}]

BlankSlot == [gen |-> 0, sum |-> 0, payload |-> NoImage]

WorkspaceInit ==
  /\ disk = [s \in Slots |-> BlankSlot]
  /\ saving = [slot |-> "A", gen |-> 0, image |-> NoImage]
  /\ images = 0 /\ faults \in FaultSets

-----------------------------------------------------------------------------
\* load_slot, of a slot that can be read.
Valid(s) == disk[s].gen # 0 /\ disk[s].sum = disk[s].payload

Holds(s, gen) == Valid(s) /\ disk[s].gen = gen

OnDisk(gen) == \E s \in Slots : Holds(s, gen)

\* The slots one pass over the disk may manage to read.
Readings == IF "read" \in faults THEN SUBSET Slots ELSE {Slots}

\* What `load` returns from such a pass: the valid slots, newest first, or an
\* error when it found none and could not read one.
Loaded(seen)    == {s \in seen : Valid(s)}
LoadFails(seen) == Loaded(seen) = {} /\ seen # Slots

NewestGen(seen) ==
  IF Loaded(seen) = {} THEN 0
  ELSE CHOOSE g \in {disk[s].gen : s \in Loaded(seen)} :
         \A s \in Loaded(seen) : disk[s].gen <= g

\* Two slots of one generation number are tried in slot order.
First(seen) ==
  LET newest == {s \in Loaded(seen) : disk[s].gen = NewestGen(seen)}
  IN  IF "A" \in newest THEN "A" ELSE "B"

-----------------------------------------------------------------------------
Other(s) == IF s = "A" THEN "B" ELSE "A"

\* Mutants: the trusted generation is not looked for; slots do not alternate.
TargetSlot_Unprotected(next, protect, seen) ==
  IF next % 2 = 0 THEN "A" ELSE "B"
TargetSlot_NoAlternation(next, protect, seen) ==
  IF protect # 0 /\ Holds("A", protect) THEN "B" ELSE "A"

\* The slot a save of generation `next` overwrites: by parity, unless a read
\* of that slot shows the generation to protect.
TargetSlot(next, protect, seen) ==
  LET slot == IF next % 2 = 0 THEN "A" ELSE "B"
  IN  IF protect # 0 /\ slot \in seen /\ Holds(slot, protect)
      THEN Other(slot) ELSE slot

\* The writes of a save.
NoHeader          == [gen |-> 0, sum |-> 0]
NewHeader         == [gen |-> saving.gen, sum |-> saving.image]
WithHeader(s, h)  == [disk EXCEPT ![s].gen = h.gen, ![s].sum = h.sum]
WithPayload(s, p) == [disk EXCEPT ![s].payload = p]

\* A payload interrupted after some of its sectors.
PartPayload(s) == {disk[s].payload, Mixture, saving.image}
=============================================================================
