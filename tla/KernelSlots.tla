----------------------------- MODULE KernelSlots -----------------------------
(***************************************************************************)
(* The two kernel slots: the host's staging tool (scripts/stage-kernel.py) *)
(* proposes a kernel, a running kernel admits it by its signature          *)
(* (KernelRecovery in boot/kernel/src/recovery.rs), and the boot stage     *)
(* (boot/bios/boot.S) chooses the slot to load, charging an unproven       *)
(* candidate before its first instruction.                                 *)
(*                                                                         *)
(* A kernel is identified by its bytes: a build, or Torn for a slot that a *)
(* staging left half written.  All kernels are built with one public key.  *)
(* The selector is one sector, of which the stage and the kernel read the  *)
(* first half, so it lands whole or not at all.                            *)
(***************************************************************************)
EXTENDS Integers

CONSTANTS
  Builds,     \* kernels the host may stage
  Signed,     \* those a signature was made for
  Dead,       \* those that halt or hang before they admit anything
  Factory,    \* the kernel the image was built with
  Budget,     \* ATTEMPT_BUDGET, and the 3 of the boot stage
  Faults      \* what may fail: "read", "write", or a "staging" stopped half way

Torn   == "torn"     \* bytes that are no build
NoSlot == "none"     \* NO_CANDIDATE
Unsigned == "zero"   \* a signature of zeros

ASSUME KernelSlotsConstants ==
  /\ Signed \subseteq Builds /\ Dead \subseteq Builds
  /\ Factory \in Builds \ Dead /\ Torn \notin Builds /\ Unsigned \notin Builds
  /\ Budget \in Nat \ {0}
  /\ Faults \subseteq {"read", "write", "staging"}

VARIABLES
  bytes,      \* what each slot holds
  selector,   \* the selector on the disk
  live,       \* KernelRecovery::selector, or NoSelector when it could not be read
  pc,         \* what the machine is doing
  booted,     \* the slot the boot stage loaded
  tries,      \* history: loads of the candidate since it was staged, until it shows health
  shown,      \* history: the candidate has shown health since it was staged
  halfway     \* history: some staging stopped half way

history == <<tries, shown, halfway>>
slotVars == <<bytes, selector, live, pc, booted, tries, shown, halfway>>

Slots == {"A", "B"}

Selectors == [trusted : Slots, candidate : Slots \cup {NoSlot}, attempts : 0 .. Budget,
              verified : BOOLEAN, admitted : BOOLEAN, signature : Builds \cup {Unsigned}]

\* A selector that has charged no boot and vouches for nothing.
Proposal(trusted, candidate, signature) ==
  [trusted |-> trusted, candidate |-> candidate, attempts |-> 0,
   verified |-> FALSE, admitted |-> FALSE, signature |-> signature]

DefaultSelector == Proposal("A", NoSlot, Unsigned)

NoSelector == [trusted |-> "A", candidate |-> NoSlot, attempts |-> -1,
               verified |-> FALSE, admitted |-> FALSE, signature |-> Unsigned]

SlotsInit ==
  /\ bytes = [s \in Slots |-> IF s = "A" THEN Factory ELSE Torn]
  /\ selector = DefaultSelector /\ live = NoSelector
  /\ pc = "off" /\ booted = "A"
  /\ tries = 0 /\ shown = FALSE /\ halfway = FALSE

Other(s) == IF s = "A" THEN "B" ELSE "A"

-----------------------------------------------------------------------------
(* The host, with the machine off.                                         *)

\* The kernel is written first; a staging stopped here leaves the old selector.
StageBytes ==
  /\ pc = "off"
  /\ \E build \in Builds :
       \/ bytes' = [bytes EXCEPT ![Other(selector.trusted)] = build]
          /\ pc' = "staging" /\ halfway' = halfway
       \/ /\ "staging" \in Faults
          /\ bytes' \in {[bytes EXCEPT ![Other(selector.trusted)] = b] : b \in {build, Torn}}
          /\ pc' = pc /\ halfway' = TRUE
  /\ UNCHANGED <<selector, live, booted, tries, shown>>

StageSelector ==
  /\ pc = "staging" /\ pc' = "off"
  /\ \E signature \in Signed \cup {Unsigned} :
       selector' = Proposal(selector.trusted, Other(selector.trusted), signature)
  /\ tries' = 0 /\ shown' = FALSE
  /\ UNCHANGED <<bytes, live, booted, halfway>>

-----------------------------------------------------------------------------
(* The boot stage.                                                         *)

\* Mutant: admission is not looked at.
Chosen_Unadmitted ==
  IF /\ selector.candidate # NoSlot
     /\ selector.verified \/ selector.attempts < Budget
  THEN selector.candidate ELSE selector.trusted

Chosen ==
  IF /\ selector.candidate # NoSlot /\ selector.admitted
     /\ selector.verified \/ selector.attempts < Budget
  THEN selector.candidate ELSE selector.trusted

\* Mutant: the charge is counted in memory and never written.
Charged_Unwritten == selector

Charged ==
  IF Chosen = selector.candidate /\ ~selector.verified
  THEN [selector EXCEPT !.attempts = @ + 1] ELSE selector

\* The charge is on the disk before the chosen slot is loaded.
BootStage ==
  /\ pc = "off" /\ pc' = "loaded"
  /\ booted' = Chosen /\ selector' = Charged
  /\ tries' = IF Chosen = selector.candidate /\ ~shown /\ tries <= Budget
              THEN tries + 1 ELSE tries
  /\ UNCHANGED <<bytes, live, shown, halfway>>

-----------------------------------------------------------------------------
(* The kernel.                                                             *)

Running == pc = "running" /\ live # NoSelector

\* save_selector, after the selector in memory has become s.
SaveSelector(s) ==
  /\ live' = s
  /\ \/ selector' = s
     \/ "write" \in Faults /\ selector' = selector

\* clear_candidate, with this slot trusted.
Cleared(trusted) == Proposal(trusted, NoSlot, Unsigned)

\* verify_slot: the signature is one made for the bytes the slot holds.
SignatureVerifies == selector.signature = bytes[selector.candidate]

\* A kernel that lives loads the selector and admits or clears a candidate
\* that was not admitted yet.
KernelStart ==
  /\ pc = "loaded" /\ bytes[booted] \notin Dead \cup {Torn}
  /\ pc' = "running"
  /\ \/ "read" \in Faults /\ live' = NoSelector /\ UNCHANGED selector
     \/ /\ selector.candidate = NoSlot \/ selector.admitted
        /\ live' = selector /\ UNCHANGED selector
     \/ /\ selector.candidate # NoSlot /\ ~selector.admitted /\ SignatureVerifies
        /\ SaveSelector([selector EXCEPT !.admitted = TRUE])
     \/ /\ selector.candidate # NoSlot /\ ~selector.admitted
        /\ ~SignatureVerifies \/ "read" \in Faults
        /\ SaveSelector(Cleared(selector.trusted))
  /\ UNCHANGED <<bytes, booted, history>>

\* Mutant: any running kernel vouches for the candidate.
KernelHealthy_AnySlot ==
  /\ Running /\ live.candidate # NoSlot /\ ~live.verified
  /\ SaveSelector([live EXCEPT !.verified = TRUE, !.attempts = 0])
  /\ shown' = TRUE
  /\ UNCHANGED <<bytes, pc, booted, tries, halfway>>

\* A form evaluated: KernelRecovery::healthy.
KernelHealthy ==
  /\ Running /\ live.candidate # NoSlot /\ ~live.verified /\ booted = live.candidate
  /\ SaveSelector([live EXCEPT !.verified = TRUE, !.attempts = 0])
  /\ shown' = TRUE
  /\ UNCHANGED <<bytes, pc, booted, tries, halfway>>

KernelPromote ==
  /\ Running /\ live.candidate # NoSlot /\ live.verified
  /\ SaveSelector(Cleared(live.candidate))
  /\ UNCHANGED <<bytes, pc, booted, history>>

KernelFault ==
  /\ Running /\ live.candidate # NoSlot
  /\ SaveSelector([live EXCEPT !.attempts = Budget, !.verified = FALSE])
  /\ UNCHANGED <<bytes, pc, booted, history>>

PowerCut ==
  /\ pc \in {"loaded", "running"} /\ pc' = "off"
  /\ live' = NoSelector
  /\ UNCHANGED <<bytes, selector, booted, history>>

Staging == StageBytes \/ StageSelector

SlotsNext ==
  Staging \/ BootStage \/ KernelStart \/ KernelHealthy \/ KernelPromote \/ KernelFault \/ PowerCut

\* The firmware runs the boot stage of a machine that is off and the kernel it
\* loads goes on by itself; nothing obliges the host, the operator or the power.
SlotsSpec == SlotsInit /\ [][SlotsNext]_slotVars /\ WF_slotVars(BootStage \/ KernelStart)

-----------------------------------------------------------------------------
(* Properties.                                                             *)

\* Types; in particular attempts never passes the budget, which the stage's
\* comparison and its 8-bit counter rely on.
SlotsTypeOK ==
  /\ bytes \in [Slots -> Builds \cup {Torn}]
  /\ selector \in Selectors /\ live \in Selectors \cup {NoSelector}
  /\ pc \in {"off", "staging", "loaded", "running"} /\ booted \in Slots
  /\ tries \in 0 .. Budget + 1 /\ shown \in BOOLEAN /\ halfway \in BOOLEAN

\* A candidate the running kernel has not admitted (its signature checked) is
\* never loaded: while every staging has run to its end, what runs is the
\* factory's kernel or one with a signature (boot.S, on slot selection).
OnlyVouched ==
  ~halfway /\ pc \in {"loaded", "running"} => bytes[booted] \in Signed \cup {Factory}

\* A kernel that has shown no health is loaded no more often than its budget,
\* wherever the power fails and whichever write is lost.
KernelBudget == tries <= Budget

\* Whatever is staged and promoted, the trusted slot holds a kernel that comes
\* up: no sequence of boots, forms and promotions makes a dead one trusted.
TrustedAlive == bytes[selector.trusted] \notin Dead \cup {Torn}

\* A machine whose power keeps failing and on which nothing more is staged
\* comes to load only kernels that come up, if no staging stopped half way.
ComesUp ==
  <>[][~Staging]_slotVars /\ []<>(pc = "off") /\ []~halfway
  => <>[](pc = "loaded" => bytes[booted] \notin Dead \cup {Torn})
=============================================================================
