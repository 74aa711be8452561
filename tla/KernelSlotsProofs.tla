-------------------------- MODULE KernelSlotsProofs --------------------------
(***************************************************************************)
(* Proofs about the kernel slots, for every set of kernels, every budget   *)
(* and every fault: a dead kernel is never trusted and an unproven one is  *)
(* never loaded past its budget; and, when no staging stops half way, only *)
(* a kernel somebody signed is ever loaded.                                *)
(***************************************************************************)
EXTENDS KernelSlots, TLAPS

Alive(s) == bytes[s] \notin Dead \cup {Torn}

\* The selector on the disk proposes the slot it does not trust, and vouches
\* for health only after admission.
SelectorShape ==
  /\ selector.candidate \in {NoSlot, Other(selector.trusted)}
  /\ selector.verified => selector.admitted /\ selector.candidate # NoSlot

\* The slot that was loaded is the trusted one or an admitted candidate; a
\* verified candidate is never passed over; a kernel that runs is alive.
BootedShape ==
  /\ pc \in {"loaded", "running"} =>
       /\ booted \in {selector.trusted, selector.candidate}
       /\ booted = selector.candidate => selector.admitted
  /\ pc = "loaded" /\ selector.verified => booted = selector.candidate
  /\ pc = "running" => Alive(booted)

\* The selector in memory may be ahead of the disk, but until it forgets the
\* candidate both name the same slots, and it holds a candidate verified only
\* when that candidate is what runs.
LiveShape ==
  Running /\ live.candidate # NoSlot =>
    /\ live.candidate = selector.candidate /\ live.trusted = selector.trusted
    /\ live.candidate = booted => live.admitted
    /\ live.verified => live.candidate = booted

\* Until a candidate shows health, every load of it is on the disk.
TriesCharged ==
  ~shown =>
    /\ selector.candidate # NoSlot => tries <= selector.attempts /\ ~selector.verified
    /\ Running /\ live.candidate # NoSlot => tries <= live.attempts /\ ~live.verified

SlotsInv ==
  /\ SlotsTypeOK /\ SelectorShape /\ BootedShape /\ LiveShape
  /\ TrustedAlive /\ KernelBudget /\ TriesCharged

\* With every staging run to its end: what a selector names without having to check
\* it was signed, and a signature is one that was made.
SignedOnly ==
  /\ selector.signature \in Signed \cup {Unsigned}
  /\ bytes[selector.trusted] \in Signed \cup {Factory}
  /\ pc # "staging" /\ selector.candidate # NoSlot /\ selector.admitted
       => bytes[selector.candidate] \in Signed
  /\ Running =>
       /\ live.signature \in Signed \cup {Unsigned}
       /\ live.candidate # NoSlot /\ live.admitted => bytes[live.candidate] \in Signed

-----------------------------------------------------------------------------
\* The other slot is a slot, another one, and no absent one.
LEMMA OtherSlot ==
  ASSUME NEW s \in Slots
  PROVE  Other(s) \in Slots /\ Other(s) # s /\ Other(s) # NoSlot
BY DEF Slots, Other, NoSlot

\* What a fresh selector says.
LEMMA FreshSelector ==
  ASSUME NEW t \in Slots, NEW c \in Slots \cup {NoSlot}, NEW g \in Builds \cup {Unsigned}
  PROVE  /\ Proposal(t, c, g) \in Selectors
         /\ Proposal(t, c, g).trusted = t /\ Proposal(t, c, g).candidate = c
         /\ Proposal(t, c, g).signature = g
         /\ ~Proposal(t, c, g).verified /\ ~Proposal(t, c, g).admitted
         /\ Proposal(t, c, g).attempts = 0
BY KernelSlotsConstants DEF Proposal, Selectors

\* What charging a selector changes and leaves.
LEMMA ChargedSelector ==
  ASSUME NEW s \in Selectors, NEW n \in 0 .. Budget
  PROVE  /\ [s EXCEPT !.attempts = n] \in Selectors
         /\ [s EXCEPT !.attempts = n].trusted = s.trusted
         /\ [s EXCEPT !.attempts = n].candidate = s.candidate
         /\ [s EXCEPT !.attempts = n].signature = s.signature
         /\ [s EXCEPT !.attempts = n].attempts = n
         /\ [s EXCEPT !.attempts = n].verified = s.verified
         /\ [s EXCEPT !.attempts = n].admitted = s.admitted
BY DEF Selectors

\* The same of admission.
LEMMA AdmittedSelector ==
  ASSUME NEW s \in Selectors, NEW v \in BOOLEAN
  PROVE  /\ [s EXCEPT !.admitted = v] \in Selectors
         /\ [s EXCEPT !.admitted = v].trusted = s.trusted
         /\ [s EXCEPT !.admitted = v].candidate = s.candidate
         /\ [s EXCEPT !.admitted = v].signature = s.signature
         /\ [s EXCEPT !.admitted = v].attempts = s.attempts
         /\ [s EXCEPT !.admitted = v].verified = s.verified
         /\ [s EXCEPT !.admitted = v].admitted = v
BY DEF Selectors

\* The same of verification.
LEMMA VerifiedSelector ==
  ASSUME NEW s \in Selectors, NEW v \in BOOLEAN
  PROVE  /\ [s EXCEPT !.verified = v] \in Selectors
         /\ [s EXCEPT !.verified = v].trusted = s.trusted
         /\ [s EXCEPT !.verified = v].candidate = s.candidate
         /\ [s EXCEPT !.verified = v].signature = s.signature
         /\ [s EXCEPT !.verified = v].attempts = s.attempts
         /\ [s EXCEPT !.verified = v].verified = v
         /\ [s EXCEPT !.verified = v].admitted = s.admitted
BY DEF Selectors

\* A selector that is not the one of an unreadable disk has a type.
LEMMA RunningSelector ==
  ASSUME SlotsTypeOK, Running
  PROVE  live \in Selectors
BY DEF SlotsTypeOK, Running

LEMMA SelectorIsKnown ==
  ASSUME NEW s \in Selectors
  PROVE  s # NoSelector
<1>1. s.attempts \in 0 .. Budget
  BY DEF Selectors
<1>2. NoSelector.attempts = -1
  BY DEF NoSelector
<1> QED BY <1>1, <1>2, KernelSlotsConstants

-----------------------------------------------------------------------------
\* The invariant holds at first, and every action keeps it.
LEMMA SlotsInitInv == SlotsInit => SlotsInv
<1> SUFFICES ASSUME SlotsInit PROVE SlotsInv
  OBVIOUS
<1> USE DEF SlotsInit
<1>1. "A" \in Slots /\ NoSlot \notin Slots /\ Torn \notin Builds
  BY KernelSlotsConstants DEF Slots, NoSlot
<1>2. /\ selector \in Selectors
      /\ selector.trusted = "A" /\ selector.candidate = NoSlot
      /\ ~selector.verified /\ selector.attempts = 0
  BY <1>1, FreshSelector DEF DefaultSelector
<1>3. bytes \in [Slots -> Builds \cup {Torn}] /\ bytes["A"] = Factory
  BY <1>1, KernelSlotsConstants
<1>4. 0 \in 0 .. Budget + 1 /\ 0 <= Budget
  BY KernelSlotsConstants
<1>5. SlotsTypeOK
  BY <1>1, <1>2, <1>3, <1>4 DEF SlotsTypeOK
<1>6. SelectorShape /\ BootedShape /\ LiveShape
  BY <1>2 DEF SelectorShape, BootedShape, LiveShape, Running
<1>7. TrustedAlive /\ KernelBudget /\ TriesCharged
  BY <1>1, <1>2, <1>3, <1>4, KernelSlotsConstants
  DEF TrustedAlive, KernelBudget, TriesCharged, Running
<1> QED BY <1>5, <1>6, <1>7 DEF SlotsInv

LEMMA StageBytesInv == SlotsInv /\ StageBytes => SlotsInv'
<1> SUFFICES ASSUME SlotsInv, StageBytes PROVE SlotsInv'
  OBVIOUS
<1> USE DEF SlotsInv, StageBytes, history
<1>1. selector.trusted \in Slots
  BY DEF SlotsTypeOK, Selectors
<1>2. PICK b \in Builds \cup {Torn} : bytes' = [bytes EXCEPT ![Other(selector.trusted)] = b]
  OBVIOUS
<1>3. bytes' \in [Slots -> Builds \cup {Torn}]
  BY <1>1, <1>2, OtherSlot DEF SlotsTypeOK
<1>4. bytes'[selector.trusted] = bytes[selector.trusted]
  BY <1>1, <1>2, OtherSlot DEF SlotsTypeOK
<1>5. pc' \in {"off", "staging"}
  OBVIOUS
<1>6. SlotsTypeOK'
  BY <1>3, <1>5 DEF SlotsTypeOK
<1>7. BootedShape' /\ LiveShape' /\ TriesCharged'
  BY <1>5 DEF BootedShape, LiveShape, TriesCharged, Running
<1>8. SelectorShape' /\ TrustedAlive' /\ KernelBudget'
  BY <1>4 DEF SelectorShape, TrustedAlive, KernelBudget
<1> QED BY <1>6, <1>7, <1>8

LEMMA StageSelectorInv == SlotsInv /\ StageSelector => SlotsInv'
<1> SUFFICES ASSUME SlotsInv, StageSelector PROVE SlotsInv'
  OBVIOUS
<1> USE DEF SlotsInv, StageSelector
<1>1. selector.trusted \in Slots
  BY DEF SlotsTypeOK, Selectors
<1>2. PICK g \in Signed \cup {Unsigned} :
        selector' = Proposal(selector.trusted, Other(selector.trusted), g)
  OBVIOUS
<1>3. /\ selector' \in Selectors
      /\ selector'.trusted = selector.trusted
      /\ selector'.candidate = Other(selector.trusted)
      /\ ~selector'.verified /\ selector'.attempts = 0
  BY <1>1, <1>2, OtherSlot, FreshSelector, KernelSlotsConstants
<1>4. SlotsTypeOK' /\ KernelBudget'
  <2>1. 0 \in 0 .. Budget + 1 /\ 0 <= Budget
    BY KernelSlotsConstants
  <2>2. tries' = 0 /\ shown' \in BOOLEAN /\ halfway' = halfway
    OBVIOUS
  <2> QED BY <1>3, <2>1, <2>2 DEF SlotsTypeOK, KernelBudget
<1>5. SelectorShape' /\ TrustedAlive'
  BY <1>3 DEF SelectorShape, TrustedAlive
<1>6. BootedShape' /\ LiveShape' /\ TriesCharged'
  BY <1>3 DEF BootedShape, LiveShape, TriesCharged, Running
<1> QED BY <1>4, <1>5, <1>6

LEMMA BootStageInv == SlotsInv /\ BootStage => SlotsInv'
<1> SUFFICES ASSUME SlotsInv, BootStage PROVE SlotsInv'
  OBVIOUS
<1> USE DEF SlotsInv, BootStage
<1>1. /\ selector \in Selectors /\ selector.trusted \in Slots
      /\ selector.attempts \in 0 .. Budget /\ tries \in 0 .. Budget + 1 /\ shown \in BOOLEAN
      /\ selector.verified \in BOOLEAN
  BY DEF SlotsTypeOK, Selectors
<1>2. selector.candidate # selector.trusted /\ NoSlot \notin Slots
  BY <1>1, OtherSlot DEF SelectorShape, NoSlot, Slots
<1>3. CASE Chosen = selector.candidate
  <2>1. /\ selector.candidate \in Slots /\ selector.candidate # NoSlot
        /\ selector.admitted /\ (selector.verified \/ selector.attempts < Budget)
    BY <1>1, <1>2, <1>3, OtherSlot DEF Chosen, SelectorShape
  <2>2. /\ selector' \in Selectors
        /\ selector'.trusted = selector.trusted /\ selector'.candidate = selector.candidate
        /\ selector'.verified = selector.verified /\ selector'.admitted = selector.admitted
        /\ ~selector.verified => selector'.attempts = selector.attempts + 1
    <3>1. CASE selector.verified
      BY <1>1, <3>1 DEF Charged
    <3>2. CASE ~selector.verified
      <4>1. selector.attempts + 1 \in 0 .. Budget
        BY <1>1, <2>1, <3>2, KernelSlotsConstants
      <4>2. selector' = [selector EXCEPT !.attempts = selector.attempts + 1]
        BY <1>3, <3>2 DEF Charged
      <4> QED BY <1>1, <3>2, <4>1, <4>2, ChargedSelector
    <3> QED BY <3>1, <3>2
  <2>3. /\ tries' \in 0 .. Budget
        /\ ~shown => tries' <= selector'.attempts /\ ~selector.verified
    <3>1. tries <= Budget
      BY DEF KernelBudget
    <3>2. CASE shown
      BY <1>1, <3>1, <3>2
    <3>3. CASE ~shown
      <4>1. tries <= selector.attempts /\ ~selector.verified
        BY <2>1, <3>3 DEF TriesCharged
      <4>2. tries' = tries + 1
        BY <1>3, <3>1, <3>3
      <4> QED BY <1>1, <2>1, <2>2, <4>1, <4>2, KernelSlotsConstants
    <3> QED BY <3>2, <3>3, <1>1
  <2>4. SlotsTypeOK'
    BY <1>3, <2>1, <2>2, <2>3, KernelSlotsConstants DEF SlotsTypeOK
  <2>5. BootedShape' /\ SelectorShape'
    BY <1>3, <2>1, <2>2 DEF BootedShape, SelectorShape
  <2>6. LiveShape' /\ TriesCharged' /\ TrustedAlive' /\ KernelBudget'
    BY <1>1, <2>2, <2>3, KernelSlotsConstants
    DEF LiveShape, TriesCharged, TrustedAlive, KernelBudget, Running
  <2> QED BY <2>4, <2>5, <2>6
<1>4. CASE Chosen # selector.candidate
  <2>1. Chosen = selector.trusted /\ selector' = selector /\ tries' = tries
    BY <1>4 DEF Chosen, Charged
  <2>2. ~selector.verified
    BY <1>4 DEF Chosen, SelectorShape
  <2>3. SlotsTypeOK'
    BY <1>1, <2>1 DEF SlotsTypeOK
  <2>4. BootedShape' /\ SelectorShape'
    BY <1>2, <2>1, <2>2 DEF BootedShape, SelectorShape
  <2>5. LiveShape' /\ TriesCharged' /\ TrustedAlive' /\ KernelBudget'
    BY <2>1 DEF LiveShape, TriesCharged, TrustedAlive, KernelBudget, Running
  <2> QED BY <2>3, <2>4, <2>5
<1> QED BY <1>3, <1>4
\* A running kernel saves a selector that keeps the candidate, vouches only
\* for what runs, and forgets no charge.
LEMMA SavedInv ==
  ASSUME SlotsInv, pc \in {"loaded", "running"}, pc' = "running", Alive(booted),
         NEW s \in Selectors, SaveSelector(s),
         UNCHANGED <<bytes, booted, tries, halfway>>, shown' \in BOOLEAN,
         selector.candidate # NoSlot,
         s.candidate = selector.candidate, s.trusted = selector.trusted,
         s.candidate = booted => s.admitted,
         s.verified => s.candidate = booted,
         shown => shown',
         ~shown' => tries <= s.attempts /\ ~s.verified
  PROVE  SlotsInv'
<1> USE DEF SlotsInv
<1>1. live' = s /\ (selector' = s \/ selector' = selector)
  BY DEF SaveSelector
<1>2. SlotsTypeOK' /\ KernelBudget'
  BY <1>1 DEF SlotsTypeOK, KernelBudget
<1>3. TrustedAlive' /\ SelectorShape'
  BY <1>1 DEF TrustedAlive, SelectorShape
<1>4. BootedShape'
  <2>1. Alive(booted)'
    BY DEF Alive
  <2> QED BY <1>1, <2>1 DEF BootedShape
<1>5. LiveShape'
  BY <1>1 DEF LiveShape, Running
<1>6. TriesCharged'
  BY <1>1 DEF TriesCharged, Running
<1> QED BY <1>2, <1>3, <1>4, <1>5, <1>6

\* A running kernel forgets the candidate and trusts what runs.
LEMMA ForgottenInv ==
  ASSUME SlotsInv, pc \in {"loaded", "running"}, pc' = "running", Alive(booted),
         SaveSelector(Cleared(booted)),
         UNCHANGED <<bytes, booted, tries, shown, halfway>>
  PROVE  SlotsInv'
<1> USE DEF SlotsInv
<1> DEFINE s == Cleared(booted)
<1>1. live' = s /\ (selector' = s \/ selector' = selector)
  BY DEF SaveSelector
<1>2. booted \in Slots /\ NoSlot \notin Slots
  BY DEF SlotsTypeOK, Slots, NoSlot
<1>3. /\ s \in Selectors /\ s.trusted = booted /\ s.candidate = NoSlot
      /\ ~s.verified /\ ~s.admitted
  BY <1>2, FreshSelector DEF Cleared
<1> HIDE DEF s
<1>4. SlotsTypeOK' /\ KernelBudget'
  BY <1>1, <1>3 DEF SlotsTypeOK, KernelBudget
<1>5. TrustedAlive' /\ SelectorShape'
  BY <1>1, <1>3 DEF TrustedAlive, SelectorShape, Alive
<1>6. BootedShape'
  <2>1. Alive(booted)'
    BY DEF Alive
  <2> QED BY <1>1, <1>2, <1>3, <2>1 DEF BootedShape
<1>7. LiveShape' /\ TriesCharged'
  BY <1>1, <1>3 DEF LiveShape, TriesCharged, Running
<1> QED BY <1>4, <1>5, <1>6, <1>7

LEMMA KernelStartInv == SlotsInv /\ KernelStart => SlotsInv'
<1> SUFFICES ASSUME SlotsInv, KernelStart PROVE SlotsInv'
  OBVIOUS
<1> USE DEF SlotsInv, KernelStart, history
<1>1. selector \in Selectors /\ booted \in Slots
  BY DEF SlotsTypeOK
<1>2. /\ booted \in {selector.trusted, selector.candidate}
      /\ booted = selector.candidate => selector.admitted
      /\ selector.verified => booted = selector.candidate
      /\ Alive(booted)
  BY DEF BootedShape, Alive
<1>3. CASE live' \in {selector, NoSelector} /\ UNCHANGED selector
  <2>1. SlotsTypeOK' /\ SelectorShape' /\ TrustedAlive' /\ KernelBudget'
    BY <1>1, <1>3 DEF SlotsTypeOK, SelectorShape, TrustedAlive, KernelBudget
  <2>2. Alive(booted)'
    BY <1>2 DEF Alive
  <2>3. BootedShape'
    BY <1>2, <1>3, <2>2 DEF BootedShape
  <2>4. LiveShape' /\ TriesCharged'
    BY <1>2, <1>3 DEF LiveShape, TriesCharged, Running
  <2> QED BY <2>1, <2>3, <2>4
<1>4. CASE selector.candidate # NoSlot /\ ~selector.admitted
           /\ SaveSelector([selector EXCEPT !.admitted = TRUE])
  <2> DEFINE s == [selector EXCEPT !.admitted = TRUE]
  <2>1. /\ s \in Selectors /\ s.trusted = selector.trusted /\ s.candidate = selector.candidate
        /\ s.admitted /\ s.verified = selector.verified /\ s.attempts = selector.attempts
    BY <1>1, AdmittedSelector
  <2> HIDE DEF s
  <2>2. SaveSelector(s)
    BY <1>4 DEF s
  <2>3. ~shown => tries <= selector.attempts /\ ~selector.verified
    BY <1>4 DEF TriesCharged
  <2>4. shown' = shown /\ shown' \in BOOLEAN /\ halfway' = halfway
    BY DEF SlotsTypeOK
  <2> QED BY <1>2, <1>4, <2>1, <2>2, <2>3, <2>4, SavedInv
<1>5. CASE selector.candidate # NoSlot /\ ~selector.admitted
           /\ SaveSelector(Cleared(selector.trusted))
  <2>1. booted = selector.trusted
    BY <1>2, <1>5
  <2>2. halfway' = halfway
    BY DEF SlotsTypeOK
  <2> QED BY <1>2, <1>5, <2>1, <2>2, ForgottenInv
<1> QED BY <1>3, <1>4, <1>5

LEMMA KernelHealthyInv == SlotsInv /\ KernelHealthy => SlotsInv'
<1> SUFFICES ASSUME SlotsInv, KernelHealthy PROVE SlotsInv'
  OBVIOUS
<1> USE DEF SlotsInv, KernelHealthy
<1> DEFINE judged == [live EXCEPT !.verified = TRUE]
           s == [judged EXCEPT !.attempts = 0]
<1>1. live \in Selectors /\ booted \in Slots /\ 0 \in 0 .. Budget
  BY RunningSelector, KernelSlotsConstants DEF SlotsTypeOK
<1>2. /\ judged \in Selectors /\ judged.trusted = live.trusted
      /\ judged.candidate = live.candidate /\ judged.admitted = live.admitted
      /\ judged.verified
  BY <1>1, VerifiedSelector
<1> HIDE DEF judged
<1>3. /\ s \in Selectors /\ s.trusted = live.trusted /\ s.candidate = live.candidate
      /\ s.admitted = live.admitted
  BY <1>1, <1>2, ChargedSelector
<1>4. SaveSelector(s)
  BY DEF judged
<1> HIDE DEF s
<1>5. /\ live.candidate = selector.candidate /\ live.trusted = selector.trusted
      /\ live.admitted /\ live.candidate # NoSlot
  BY DEF LiveShape
<1>6. pc = "running" /\ pc' = "running" /\ Alive(booted)
  BY DEF Running, BootedShape
<1>7. shown' /\ shown' \in BOOLEAN /\ halfway' = halfway
  BY DEF SlotsTypeOK
<1> QED BY <1>3, <1>4, <1>5, <1>6, <1>7, SavedInv

LEMMA KernelPromoteInv == SlotsInv /\ KernelPromote => SlotsInv'
<1> SUFFICES ASSUME SlotsInv, KernelPromote PROVE SlotsInv'
  OBVIOUS
<1> USE DEF SlotsInv, KernelPromote, history
<1>1. live.candidate = booted
  BY DEF LiveShape
<1>2. pc = "running" /\ pc' = "running" /\ Alive(booted)
  BY DEF Running, BootedShape
<1>3. SaveSelector(Cleared(booted))
  BY <1>1
<1> QED BY <1>2, <1>3, ForgottenInv

LEMMA KernelFaultInv == SlotsInv /\ KernelFault => SlotsInv'
<1> SUFFICES ASSUME SlotsInv, KernelFault PROVE SlotsInv'
  OBVIOUS
<1> USE DEF SlotsInv, KernelFault, history
<1> DEFINE spent == [live EXCEPT !.attempts = Budget]
           s == [spent EXCEPT !.verified = FALSE]
<1>1. live \in Selectors /\ Budget \in 0 .. Budget
  BY RunningSelector, KernelSlotsConstants
<1>2. /\ spent \in Selectors /\ spent.trusted = live.trusted
      /\ spent.candidate = live.candidate /\ spent.admitted = live.admitted
      /\ spent.attempts = Budget
  BY <1>1, ChargedSelector
<1> HIDE DEF spent
<1>3. /\ s \in Selectors /\ s.trusted = live.trusted /\ s.candidate = live.candidate
      /\ s.admitted = live.admitted /\ ~s.verified /\ s.attempts = Budget
  BY <1>1, <1>2, VerifiedSelector
<1>4. SaveSelector(s)
  BY DEF spent
<1> HIDE DEF s
<1>5. /\ live.candidate = selector.candidate /\ live.trusted = selector.trusted
      /\ live.candidate = booted => live.admitted
      /\ live.candidate # NoSlot
  BY DEF LiveShape
<1>6. pc = "running" /\ pc' = "running" /\ Alive(booted)
  BY DEF Running, BootedShape
<1>7. shown' = shown /\ shown' \in BOOLEAN /\ halfway' = halfway
  BY DEF SlotsTypeOK
<1>8. tries <= Budget
  BY DEF KernelBudget
<1> QED BY <1>3, <1>4, <1>5, <1>6, <1>7, <1>8, SavedInv

LEMMA PowerCutInv == SlotsInv /\ PowerCut => SlotsInv'
BY DEF SlotsInv, PowerCut, history, SlotsTypeOK, SelectorShape, BootedShape, LiveShape,
       TriesCharged, TrustedAlive, KernelBudget, Running

-----------------------------------------------------------------------------
(* Theorems.                                                               *)

\* The inductive invariant: whatever is staged and whatever fails.
THEOREM SlotsInvariant == SlotsSpec => []SlotsInv
<1>1. SlotsInv /\ [SlotsNext]_slotVars => SlotsInv'
  <2> SUFFICES ASSUME SlotsInv, [SlotsNext]_slotVars PROVE SlotsInv'
    OBVIOUS
  <2>1. CASE Staging
    BY <2>1, StageBytesInv, StageSelectorInv DEF Staging
  <2>2. CASE BootStage
    BY <2>2, BootStageInv
  <2>3. CASE KernelStart
    BY <2>3, KernelStartInv
  <2>4. CASE KernelHealthy
    BY <2>4, KernelHealthyInv
  <2>5. CASE KernelPromote
    BY <2>5, KernelPromoteInv
  <2>6. CASE KernelFault
    BY <2>6, KernelFaultInv
  <2>7. CASE PowerCut
    BY <2>7, PowerCutInv
  <2>8. CASE UNCHANGED slotVars
    BY <2>8 DEF slotVars, SlotsInv, SlotsTypeOK, SelectorShape, BootedShape, LiveShape,
                TriesCharged, TrustedAlive, KernelBudget, Running, Alive
  <2> QED BY <2>1, <2>2, <2>3, <2>4, <2>5, <2>6, <2>7, <2>8 DEF SlotsNext
<1> QED BY SlotsInitInv, <1>1, PTL DEF SlotsSpec

\* The selector keeps its types: the stage's 8-bit counter never passes the
\* budget.
THEOREM SlotsTypes == SlotsSpec => []SlotsTypeOK
<1>1. SlotsInv => SlotsTypeOK
  BY DEF SlotsInv
<1> QED BY SlotsInvariant, <1>1, PTL

\* A kernel that has shown no health is loaded no more often than its budget.
THEOREM BudgetOfKernels == SlotsSpec => []KernelBudget
<1>1. SlotsInv => KernelBudget
  BY DEF SlotsInv
<1> QED BY SlotsInvariant, <1>1, PTL

\* The trusted slot always holds a kernel that comes up.
THEOREM NeverTrustsDead == SlotsSpec => []TrustedAlive
<1>1. SlotsInv => TrustedAlive
  BY DEF SlotsInv
<1> QED BY SlotsInvariant, <1>1, PTL
-----------------------------------------------------------------------------
\* While every staging runs to its end only signed kernels are loaded.

\* A signature that verifies is one that was made for those bytes.
LEMMA VerifiedBytes ==
  ASSUME SlotsTypeOK, SignedOnly, selector.candidate \in Slots, SignatureVerifies
  PROVE  bytes[selector.candidate] \in Signed
<1>1. bytes[selector.candidate] \in Builds \cup {Torn} /\ Unsigned # Torn
  BY DEF SlotsTypeOK, Unsigned, Torn
<1> QED BY <1>1, KernelSlotsConstants DEF SignedOnly, SignatureVerifies

\* A running kernel saves a selector of this candidate, admitted only when its
\* bytes are signed.
LEMMA SavedSigned ==
  ASSUME SignedOnly, pc' = "running", pc # "staging", UNCHANGED bytes,
         NEW s, SaveSelector(s),
         s.candidate = selector.candidate, s.trusted = selector.trusted,
         s.signature \in Signed \cup {Unsigned},
         s.candidate # NoSlot /\ s.admitted => bytes[s.candidate] \in Signed
  PROVE  SignedOnly'
<1>1. live' = s /\ (selector' = s \/ selector' = selector)
  BY DEF SaveSelector
<1> QED BY <1>1 DEF SignedOnly, Running

LEMMA ForgottenSigned ==
  ASSUME SignedOnly, pc' = "running", pc # "staging", UNCHANGED bytes,
         NEW t \in Slots, SaveSelector(Cleared(t)), bytes[t] \in Signed \cup {Factory}
  PROVE  SignedOnly'
<1> DEFINE s == Cleared(t)
<1>1. live' = s /\ (selector' = s \/ selector' = selector)
  BY DEF SaveSelector
<1>2. s.trusted = t /\ s.candidate = NoSlot /\ s.signature = Unsigned
  BY FreshSelector DEF Cleared
<1> HIDE DEF s
<1> QED BY <1>1, <1>2 DEF SignedOnly, Running

LEMMA SignedStep ==
  ASSUME ~halfway', SlotsInv, SignedOnly, [SlotsNext]_slotVars
  PROVE  SignedOnly'
<1> USE DEF SlotsInv
<1>1. selector \in Selectors /\ selector.trusted \in Slots /\ booted \in Slots
  BY DEF SlotsTypeOK, Selectors
<1>2. selector.candidate # NoSlot => selector.candidate = Other(selector.trusted)
  BY DEF SelectorShape
<1>3. CASE StageBytes
  <2>1. PICK b \in Builds : bytes' = [bytes EXCEPT ![Other(selector.trusted)] = b]
    BY <1>3 DEF StageBytes
  <2>2. bytes'[selector.trusted] = bytes[selector.trusted]
    BY <1>1, <2>1, OtherSlot DEF SlotsTypeOK
  <2>3. pc' = "staging"
    BY <1>3 DEF StageBytes
  <2> QED BY <1>3, <2>2, <2>3 DEF StageBytes, SignedOnly, Running
<1>4. CASE StageSelector
  <2>1. PICK g \in Signed \cup {Unsigned} :
          selector' = Proposal(selector.trusted, Other(selector.trusted), g)
    BY <1>4 DEF StageSelector
  <2>2. /\ selector'.trusted = selector.trusted /\ selector'.signature = g
        /\ ~selector'.admitted
    BY <1>1, <2>1, OtherSlot, FreshSelector, KernelSlotsConstants
  <2> QED BY <1>4, <2>2 DEF StageSelector, SignedOnly, Running
<1>5. CASE BootStage
  <2>1. CASE selector' = selector
    BY <1>5, <2>1 DEF BootStage, SignedOnly, Running
  <2>2. CASE selector' # selector
    <3>1. selector' = [selector EXCEPT !.attempts = selector.attempts + 1]
      BY <1>5, <2>2 DEF BootStage, Charged
    <3>2. /\ selector'.trusted = selector.trusted /\ selector'.candidate = selector.candidate
          /\ selector'.signature = selector.signature /\ selector'.admitted = selector.admitted
      BY <1>1, <3>1 DEF Selectors
    <3> QED BY <1>5, <3>2 DEF BootStage, SignedOnly, Running
  <2> QED BY <2>1, <2>2
<1>6. CASE KernelStart
  <2> USE <1>6 DEF KernelStart
  <2>1. CASE live' \in {selector, NoSelector} /\ UNCHANGED selector
    BY <2>1 DEF SignedOnly, Running
  <2>2. CASE selector.candidate # NoSlot /\ SignatureVerifies
             /\ SaveSelector([selector EXCEPT !.admitted = TRUE])
    <3> DEFINE s == [selector EXCEPT !.admitted = TRUE]
    <3>1. /\ s.trusted = selector.trusted /\ s.candidate = selector.candidate
          /\ s.signature = selector.signature
      BY <1>1, AdmittedSelector
    <3>2. bytes[selector.candidate] \in Signed
      BY <1>1, <1>2, <2>2, OtherSlot, VerifiedBytes
    <3>3. SaveSelector(s)
      BY <2>2
    <3> HIDE DEF s
    <3>4. selector.signature \in Signed \cup {Unsigned}
      BY DEF SignedOnly
    <3> QED BY <3>1, <3>2, <3>3, <3>4, SavedSigned
  <2>3. CASE SaveSelector(Cleared(selector.trusted))
    <3>1. bytes[selector.trusted] \in Signed \cup {Factory}
      BY DEF SignedOnly
    <3> QED BY <1>1, <2>3, <3>1, ForgottenSigned
  <2> QED BY <2>1, <2>2, <2>3
<1>7. CASE KernelHealthy
  <2> DEFINE s == [[live EXCEPT !.verified = TRUE] EXCEPT !.attempts = 0]
  <2>1. live \in Selectors /\ 0 \in 0 .. Budget /\ Running
    BY <1>7, RunningSelector, KernelSlotsConstants DEF KernelHealthy
  <2>2. [live EXCEPT !.verified = TRUE] \in Selectors
    BY <2>1, VerifiedSelector
  <2>3. /\ s.trusted = live.trusted /\ s.candidate = live.candidate
        /\ s.signature = live.signature /\ s.admitted = live.admitted
    BY <2>1, <2>2, VerifiedSelector, ChargedSelector
  <2>4. SaveSelector(s)
    BY <1>7 DEF KernelHealthy
  <2> HIDE DEF s
  <2> QED BY <1>7, <2>1, <2>3, <2>4, SavedSigned DEF KernelHealthy, LiveShape, SignedOnly, Running
<1>8. CASE KernelPromote
  <2>1. Running /\ live.verified /\ live.candidate # NoSlot
    BY <1>8 DEF KernelPromote
  <2>2. live.candidate = booted /\ live.admitted
    BY <2>1 DEF LiveShape
  <2>3. bytes[booted] \in Signed
    BY <2>1, <2>2 DEF SignedOnly
  <2>4. SaveSelector(Cleared(booted)) /\ pc' = "running" /\ pc # "staging" /\ UNCHANGED bytes
    BY <1>8, <2>2 DEF KernelPromote, Running
  <2> QED BY <1>1, <2>3, <2>4, ForgottenSigned
<1>9. CASE KernelFault
  <2> DEFINE s == [[live EXCEPT !.attempts = Budget] EXCEPT !.verified = FALSE]
  <2>1. live \in Selectors /\ Budget \in 0 .. Budget /\ Running
    BY <1>9, RunningSelector, KernelSlotsConstants DEF KernelFault
  <2>2. [live EXCEPT !.attempts = Budget] \in Selectors
    BY <2>1, ChargedSelector
  <2>3. /\ s.trusted = live.trusted /\ s.candidate = live.candidate
        /\ s.signature = live.signature /\ s.admitted = live.admitted
    BY <2>1, <2>2, VerifiedSelector, ChargedSelector
  <2>4. SaveSelector(s)
    BY <1>9 DEF KernelFault
  <2> HIDE DEF s
  <2> QED BY <1>9, <2>1, <2>3, <2>4, SavedSigned DEF KernelFault, LiveShape, SignedOnly, Running
<1>10. CASE PowerCut
  BY <1>10 DEF PowerCut, SignedOnly, Running
<1>11. CASE UNCHANGED slotVars
  BY <1>11 DEF slotVars, SignedOnly, Running
<1> QED BY <1>3, <1>4, <1>5, <1>6, <1>7, <1>8, <1>9, <1>10, <1>11 DEF SlotsNext, Staging

\* A staging that stopped half way is never forgotten.
LEMMA HalfwayStays == [SlotsNext]_slotVars /\ ~halfway' => ~halfway
<1> SUFFICES ASSUME [SlotsNext]_slotVars, halfway PROVE halfway'
  OBVIOUS
<1> USE DEF history
<1>1. CASE Staging
  BY <1>1 DEF Staging, StageBytes, StageSelector
<1>2. CASE BootStage \/ KernelStart \/ KernelHealthy
  BY <1>2 DEF BootStage, KernelStart, KernelHealthy
<1>3. CASE KernelPromote \/ KernelFault \/ PowerCut
  BY <1>3 DEF KernelPromote, KernelFault, PowerCut
<1>4. CASE UNCHANGED slotVars
  BY <1>4 DEF slotVars
<1> QED BY <1>1, <1>2, <1>3, <1>4 DEF SlotsNext

\* While every staging has run to its end, a kernel the running kernel has not
\* admitted is never loaded: what runs was signed, or came with the image.
THEOREM NothingUnsigned == SlotsSpec => []OnlyVouched
<1> DEFINE SignedSoFar == ~halfway => SignedOnly
<1>1. SlotsInit => SignedSoFar
  <2>1. "A" \in Slots
    BY DEF Slots
  <2> QED BY <2>1 DEF SlotsInit, SignedOnly, DefaultSelector, Proposal, Running
<1>2. SlotsInv /\ SignedSoFar /\ [SlotsNext]_slotVars => SignedSoFar'
  BY HalfwayStays, SignedStep
<1>3. SlotsInv /\ SignedSoFar => OnlyVouched
  <2> SUFFICES ASSUME SlotsInv, SignedOnly, pc \in {"loaded", "running"}
               PROVE  bytes[booted] \in Signed \cup {Factory}
    BY DEF OnlyVouched
  <2>1. booted \in Slots /\ NoSlot \notin Slots
    BY DEF SlotsInv, SlotsTypeOK, Slots, NoSlot
  <2>2. CASE booted = selector.trusted
    BY <2>2 DEF SignedOnly
  <2>3. CASE booted = selector.candidate
    <3>1. selector.admitted /\ selector.candidate # NoSlot /\ pc # "staging"
      BY <2>1, <2>3 DEF SlotsInv, BootedShape
    <3> QED BY <2>3, <3>1 DEF SignedOnly
  <2> QED BY <2>2, <2>3 DEF SlotsInv, BootedShape
<1> QED BY SlotsInvariant, <1>1, <1>2, <1>3, PTL DEF SlotsSpec
=============================================================================
