--------------------------- MODULE RecoveryProofs ---------------------------
(***************************************************************************)
(* Proofs about the durable recovery of workspaces, for every number of    *)
(* saves, every budget, every command set and every set of faults: what    *)
(* was reported saved survives, a save tears no slot open without a whole  *)
(* twin, the trusted generation is never overwritten, an unproven one is   *)
(* booted within its budget, and health is evidence for what runs.         *)
(***************************************************************************)
EXTENDS Recovery, TLAPS

Torn     == {"invalidated", "staged"}
Underway == Torn \cup {"published"}

\* A header names an image that was saved; no two slots hold the same image.
DiskWhole ==
  \A s \in Slots :
    /\ disk[s].gen # 0 => disk[s].sum \in 1 .. images
    /\ disk[s].payload <= images
    /\ disk[s].payload \in Images => disk[Other(s)].payload # disk[s].payload

\* The slot a save works on: blank until published, then what was saved.
SaveUnderway ==
  /\ pc \in Underway => /\ told = Silent /\ images \in Images
                        /\ saving.image = images /\ saving.gen = running.gen + 1
  /\ pc \in Torn => /\ disk[saving.slot].gen = 0
                    /\ disk[Other(saving.slot)].payload # saving.image
  /\ pc \in {"staged", "published"} => disk[saving.slot].payload = saving.image
  /\ pc = "published" => /\ disk[saving.slot].gen = saving.gen
                         /\ disk[saving.slot].sum = saving.image

\* Memory is ahead of the disk only after a write that failed.
RecordKept ==
  /\ pc = "off" => live = NoRecord
  /\ pc \in {"off", "planning", "replaying"} => running = Nothing
  /\ Known /\ ("write" \notin faults \/ pc = "planning") => live = record
  /\ pc # "off" /\ "read" \notin faults => Known

\* Where nothing fails, what runs is on the disk between two saves.
RunsFromDisk ==
  faults = {} /\ pc = "ready" /\ running.gen # 0
  => \E s \in Slots : Holds(s, running.gen) /\ disk[s].payload = running.image

\* The image of a slot has been booted without showing health since.
Counted(s) == Valid(s) /\ boots[disk[s].payload] > 0

\* Record r has charged the boots of slot s to the generation there, and trusts
\* the generation of the other slot.
Accounts(r, s) ==
  /\ r.candidate = disk[s].gen /\ ~r.verified
  /\ boots[disk[s].payload] <= r.attempts
  /\ r.trusted # 0 /\ r.trusted # disk[s].gen /\ Holds(Other(s), r.trusted)

\* What was booted on probation is accounted for, in memory and on the disk, and
\* a save overwrites it: the trusted generation beside it is protected.
BudgetKept ==
  faults \subseteq {"write"} =>
    /\ \A i \in Images : boots[i] <= Budget /\ (i > images => boots[i] = 0)
    /\ pc \in Torn => boots[saving.image] = 0
    /\ pc \in Underway => \A s \in Slots : ~Counted(s)
    /\ \A s \in Slots :
         Counted(s) => Accounts(record, s) /\ (Known => Accounts(live, s))

\* The slot of a generation when there is none to protect.
Home(gen) == IF gen % 2 = 0 THEN "A" ELSE "B"

\* Until the first promotion generations alternate between the slots.
InPlace ==
  "write" \notin faults /\ record.trusted = 0 =>
    /\ \A s \in Slots : Valid(s) => s = Home(disk[s].gen)
    /\ running.gen # 0 => Valid(Home(running.gen))
    /\ pc \in Underway => saving.slot = Home(saving.gen)

\* A header carries the number its image was saved under, and so does what runs.
NumbersTell ==
  /\ \A s \in Slots : disk[s].gen # 0 => numbered[disk[s].sum] = disk[s].gen
  /\ pc \in Underway => numbered[saving.image] = saving.gen
  /\ running.gen # 0 /\ ~hollow =>
       /\ running.image \in Images /\ running.image <= images
       /\ numbered[running.image] = running.gen

\* Until the first promotion what is kept is in the slot a save spares.
KeptInPlace ==
  faults \subseteq {"evaluator"} /\ record.trusted = 0 =>
    /\ kept # NoImage => \E s \in Slots : Valid(s)
    /\ kept # NoImage /\ pc \in Underway \cup {"ready"} => running.gen # 0
    /\ faults = {} /\ kept # NoImage => \E s \in Slots : Valid(s) /\ disk[s].payload = kept
    /\ faults = {} /\ pc \in Underway \cup {"ready"} /\ running.gen # 0
         => disk[Home(running.gen)].payload = kept

RecInv ==
  /\ RecTypeOK /\ DiskWhole /\ SaveUnderway /\ RecordKept /\ RunsFromDisk
  /\ ReportedSurvives /\ BudgetKept /\ InPlace /\ NumbersTell /\ KeptInPlace

-----------------------------------------------------------------------------
(* What a pass over the disk returns.                                      *)

\* The newest generation is that of the slot tried first.
LEMMA NewestIsFirst ==
  ASSUME disk \in [Slots -> Contents], NEW seen \in SUBSET Slots, Loaded(seen) # {}
  PROVE  /\ First(seen) \in seen /\ Valid(First(seen))
         /\ disk[First(seen)].gen = NewestGen(seen) /\ NewestGen(seen) \in Nat \ {0}
<1> DEFINE G == {disk[s].gen : s \in Loaded(seen)}
           Top(g) == \A s \in Loaded(seen) : disk[s].gen <= g
<1>1. \A s \in Slots : disk[s].gen \in Nat
  BY DEF Contents
<1>2. \E g \in G : Top(g)
  <2>1. PICK s \in Slots : s \in Loaded(seen)
    BY DEF Loaded
  <2>2. Loaded(seen) \subseteq {s, Other(s)} /\ Other(s) \in Slots
    BY <2>1 DEF Loaded, Slots, Other
  <2>3. CASE Other(s) \in Loaded(seen) /\ disk[s].gen <= disk[Other(s)].gen
    <3>1. Top(disk[Other(s)].gen)
      BY <1>1, <2>1, <2>2, <2>3
    <3> QED
      BY <3>1, <2>3
  <2>4. CASE ~(Other(s) \in Loaded(seen) /\ disk[s].gen <= disk[Other(s)].gen)
    <3>1. Top(disk[s].gen)
      BY <1>1, <2>1, <2>2, <2>4
    <3> QED
      BY <3>1, <2>1
  <2> QED
    BY <2>3, <2>4
<1>3. NewestGen(seen) \in G
  BY <1>2 DEF NewestGen
<1> QED
  BY <1>1, <1>3 DEF First, Loaded, Valid, Slots

LEMMA NewestIsNumber ==
  ASSUME disk \in [Slots -> Contents], NEW seen \in SUBSET Slots
  PROVE  NewestGen(seen) \in Nat
<1>1. CASE Loaded(seen) = {}
  BY <1>1 DEF NewestGen
<1>2. CASE Loaded(seen) # {}
  BY <1>2, NewestIsFirst
<1> QED
  BY <1>1, <1>2

\* A slot that loads holds an image, never a mixture.
LEMMA ValidIsImage ==
  ASSUME disk \in [Slots -> Contents], NEW s \in Slots, Valid(s)
  PROVE  /\ disk[s].gen \in Nat \ {0}
         /\ disk[s].payload \in Images \cup {NoImage}
BY DEF Contents, Valid, NoImage, Mixture

LEMMA ReadingsOfSlots == Readings \subseteq SUBSET Slots
BY DEF Readings

LEMMA RecordsAreKnown == \A r \in Records : r # NoRecord
BY DEF Records, NoRecord, EmptyRecord

\* The slots alternate.
LEMMA HomesAlternate ==
  ASSUME NEW gen \in Nat
  PROVE  /\ Home(gen) \in Slots /\ Home(gen + 1) = Other(Home(gen))
BY DEF Home, Other, Slots

LEMMA TargetIsSlot ==
  ASSUME NEW next \in Nat, NEW protect \in Nat, NEW seen
  PROVE  TargetSlot(next, protect, seen) \in Slots
BY DEF TargetSlot, Other, Slots

-----------------------------------------------------------------------------
(* Types.                                                                  *)

LEMMA BudgetRange == Budget \in Nat \ {0} /\ 0 \in 0 .. Budget /\ Budget \in 0 .. Budget
BY RecoveryConstants

LEMMA CandidateRecord ==
  ASSUME NEW r \in Records, NEW c \in Nat
  PROVE  [r EXCEPT !.candidate = c, !.attempts = 0, !.verified = FALSE] \in Records
BY BudgetRange DEF Records

LEMMA AttemptsRecord ==
  ASSUME NEW r \in Records, NEW n \in 0 .. Budget, NEW v \in BOOLEAN
  PROVE  /\ [r EXCEPT !.attempts = n] \in Records
         /\ [r EXCEPT !.attempts = n, !.verified = v] \in Records
         /\ [r EXCEPT !.verified = v, !.attempts = n] \in Records
BY DEF Records

LEMMA AdoptedIsRecord ==
  ASSUME live \in Records, NEW newest \in Nat
  PROVE  Adopted(newest) \in Records /\ Charged(newest) \in Records
<1>1. Adopted(newest) \in Records
  BY CandidateRecord DEF Adopted
<1> DEFINE a == Adopted(newest)
<1>2. a \in Records /\ Charged(newest) = [a EXCEPT !.attempts = Saturated(a.attempts)]
  BY <1>1 DEF Charged
<1> HIDE DEF a
<1>3. Saturated(a.attempts) \in 0 .. Budget
  BY <1>2, RecoveryConstants DEF Records, Saturated
<1> QED
  BY <1>1, <1>2, <1>3, AttemptsRecord

\* What the machine writes where it knows its record.
LEMMA WrittenRecords ==
  ASSUME RecTypeOK, Known
  PROVE  /\ live \in Records /\ OnSaved \in Records /\ GiveUp \in Records
         /\ [live EXCEPT !.verified = TRUE, !.attempts = 0] \in Records
         /\ [EmptyRecord EXCEPT !.trusted = live.candidate] \in Records
<1>1. live \in Records /\ saving.gen \in Nat
  BY DEF RecTypeOK, Known
<1>2. OnSaved \in Records
  BY <1>1, CandidateRecord DEF OnSaved
<1>3. GiveUp \in Records
  BY <1>1, AttemptsRecord, BudgetRange DEF GiveUp
<1>4. [live EXCEPT !.verified = TRUE, !.attempts = 0] \in Records
  BY <1>1, AttemptsRecord, BudgetRange
<1>5. [EmptyRecord EXCEPT !.trusted = live.candidate] \in Records
  BY <1>1, BudgetRange DEF EmptyRecord, Records
<1> QED
  BY <1>1, <1>2, <1>3, <1>4, <1>5

LEMMA HeaderTypes ==
  ASSUME disk \in [Slots -> Contents], NEW s \in Slots, NEW h \in [gen : Nat, sum : Nat]
  PROVE  WithHeader(s, h) \in [Slots -> Contents]
<1> DEFINE c == disk[s]
           d == [c EXCEPT !.gen = h.gen, !.sum = h.sum]
<1>1. d \in Contents
  BY DEF Contents
<1>2. WithHeader(s, h) = [disk EXCEPT ![s] = d]
  BY DEF WithHeader, Contents
<1> HIDE DEF d
<1> QED
  BY <1>1, <1>2

LEMMA ToldTypes ==
  ASSUME RecTypeOK, NEW outcome \in Outcomes
  PROVE  Told(outcome) \in [image : Images \cup {NoImage}, outcome : Outcomes]
BY DEF RecTypeOK, Told

LEMMA SavedRecordIsRecord ==
  ASSUME record \in Records, NEW r \in Records, NEW written, SaveRecord(r, written)
  PROVE  record' \in Records /\ live' \in Records
BY DEF SaveRecord

LEMMA HealthyTypes ==
  ASSUME boots \in [Images -> 0 .. Budget + 1], NEW gen
  PROVE  Healthy(gen) \in [Images -> 0 .. Budget + 1]
BY RecoveryConstants DEF Healthy

LEMMA TypesAtFirst == RecInit => RecTypeOK
<1>1. RecInit => kept \in Images \cup {NoImage} /\ hollow \in BOOLEAN /\ numbered \in [Images -> Nat]
  <2>1. RecInit => kept = NoImage /\ hollow = FALSE /\ numbered = [i \in Images |-> 0]
    BY DEF RecInit
  <2>2. [i \in Images |-> 0] \in [Images -> Nat]
    OBVIOUS
  <2> QED
    BY <2>1, <2>2
<1>2. RecInit => boots \in [Images -> 0 .. Budget + 1]
  BY RecoveryConstants DEF RecInit
<1> QED
  BY <1>1, <1>2, RecoveryConstants, WorkspaceConstants
  DEF RecInit, WorkspaceInit, RecTypeOK, Contents, Slots, Records, EmptyRecord,
      NoRecord, Phases, Nothing, Silent, Outcomes, BlankSlot, NoImage

\* What an evaluator is built from.
LEMMA ReplayedTypes ==
  ASSUME RecTypeOK, NEW s \in Slots, Valid(s), Replayed(s)
  PROVE  /\ running' \in [gen : Nat, image : Images \cup {NoImage}]
         /\ kept' \in Images \cup {NoImage} /\ hollow' = FALSE /\ numbered' = numbered
BY ValidIsImage DEF Replayed, RecTypeOK

LEMMA RejectedTypes ==
  ASSUME NEW number \in Nat, NEW image \in Images \cup {NoImage}, Rejected(number, image)
  PROVE  running' \in [gen : Nat, image : Images \cup {NoImage}]
BY DEF Rejected

LEMMA NothingTypes == Nothing \in [gen : Nat, image : Images \cup {NoImage}]
BY DEF Nothing

LEMMA NextImage ==
  ASSUME RecTypeOK, BeginSave
  PROVE  running.gen + 1 \in Nat /\ Protected \in Nat /\ images + 1 \in Images
BY RecoveryConstants, WorkspaceConstants
DEF BeginSave, SavesAllowed, Protected, Known, RecTypeOK, Records, Images

LEMMA HistoryTypes ==
  ASSUME RecTypeOK, [RecNext]_recVars
  PROVE  /\ kept' \in Images \cup {NoImage} /\ hollow' \in BOOLEAN
         /\ numbered' \in [Images -> Nat]
<1> DEFINE Typed == /\ kept' \in Images \cup {NoImage} /\ hollow' \in BOOLEAN
                    /\ numbered' \in [Images -> Nat]
<1>1. ASSUME UNCHANGED history PROVE Typed
  BY <1>1 DEF history, RecTypeOK
<1>2. ASSUME NEW s \in Slots, Valid(s), Replayed(s) PROVE Typed
  <2>1. numbered \in [Images -> Nat]
    BY DEF RecTypeOK
  <2> QED
    BY <1>2, <2>1, ReplayedTypes
<1>3. ASSUME NEW number, NEW image, Rejected(number, image) PROVE Typed
  BY <1>3 DEF Rejected, RecTypeOK
<1>4. CASE PlanBoot
  BY <1>1, <1>2, <1>4, ReadingsOfSlots
  DEF PlanBoot, PlanNewest, PlanRollback, PlanCharged, Holds
<1>5. CASE ReplayNewest
  BY <1>1, <1>2, <1>3, <1>5, ReadingsOfSlots DEF ReplayNewest, Loaded
<1>6. CASE BeginSave
  <2>1. kept' = kept /\ hollow' = hollow /\ numbered' = Numbered(images + 1, running.gen + 1)
    BY <1>6 DEF BeginSave
  <2>2. running.gen + 1 \in Nat /\ kept \in Images \cup {NoImage} /\ hollow \in BOOLEAN
        /\ numbered \in [Images -> Nat]
    BY DEF RecTypeOK
  <2> QED
    BY <2>1, <2>2 DEF Numbered
<1>7. CASE Adopt
  BY <1>1, <1>7 DEF Adopt, RecTypeOK
<1>8. CASE Fault
  BY <1>1, <1>2, <1>3, <1>8 DEF Fault, Holds
<1>9. CASE Reload
  <2>1. ASSUME hollow' = FALSE, UNCHANGED <<kept, numbered>> PROVE Typed
    BY <2>1 DEF RecTypeOK
  <2> QED
    BY <1>2, <1>3, <1>9, <2>1, ReadingsOfSlots DEF Reload, Loaded
<1>10. CASE PowerCut
  BY <1>10 DEF PowerCut, RecTypeOK
<1>11. CASE PowerOn \/ WritePayload \/ Publish \/ Form \/ Verify \/ Promote \/ UNCHANGED recVars
  BY <1>1, <1>11 DEF PowerOn, WritePayload, Publish, Form, Verify, Promote, recVars, history
<1> QED
  BY <1>4, <1>5, <1>6, <1>7, <1>8, <1>9, <1>10, <1>11 DEF RecNext, Boot, Save

LEMMA TypesKept ==
  ASSUME RecTypeOK, [RecNext]_recVars
  PROVE  RecTypeOK'
<1>0. /\ kept' \in Images \cup {NoImage} /\ hollow' \in BOOLEAN
      /\ numbered' \in [Images -> Nat]
  BY HistoryTypes
<1> USE <1>0
<1>1. CASE PowerOn
  BY <1>1 DEF PowerOn, diskVars, RecTypeOK, Nothing, NoImage, Phases
<1>2. CASE PlanBoot
  <2>1. PICK seen \in Readings :
          /\ \/ LoadFails(seen) /\ pc' = "ready" /\ UNCHANGED <<live, record, running, history>>
             \/ ~LoadFails(seen) /\ (PlanNewest(seen) \/ PlanRollback(seen) \/ PlanCharged(seen))
          /\ boots' = Begun(seen)
    BY <1>2 DEF PlanBoot
  <2>2. seen \in SUBSET Slots /\ NewestGen(seen) \in Nat
    BY NewestIsNumber, ReadingsOfSlots DEF RecTypeOK
  <2>3. boots' \in [Images -> 0 .. Budget + 1]
    <3> DEFINE i == disk[First(seen)].payload
    <3>1. CASE Begun(seen) = boots
      BY <2>1, <3>1 DEF RecTypeOK
    <3>2. CASE Begun(seen) = [boots EXCEPT ![i] = IF @ <= Budget THEN @ + 1 ELSE @]
      <4> DEFINE n == IF boots[i] <= Budget THEN boots[i] + 1 ELSE boots[i]
      <4>1. i \in Images => n \in 0 .. Budget + 1
        BY BudgetRange DEF RecTypeOK
      <4>2. Begun(seen) = [boots EXCEPT ![i] = n]
        BY <3>2
      <4>3. boots \in [Images -> 0 .. Budget + 1]
        BY DEF RecTypeOK
      <4> HIDE DEF i, n
      <4>4. CASE i \in Images
        BY <2>1, <4>1, <4>2, <4>3, <4>4
      <4>5. CASE i \notin Images
        BY <2>1, <4>2, <4>3, <4>5
      <4> QED
        BY <4>4, <4>5
    <3> QED
      BY <3>1, <3>2 DEF Begun
  <2>4. record' \in Records /\ live' \in Records \cup {NoRecord} /\ pc' \in Phases
    <3>1. CASE PlanCharged(seen)
      <4>1. live \in Records
        BY <3>1 DEF PlanCharged, Uncharged, Known, RecTypeOK
      <4> QED
        BY <3>1, <4>1, <2>2, AdoptedIsRecord, SavedRecordIsRecord
        DEF PlanCharged, RecTypeOK, Phases
    <3> QED
      BY <2>1, <3>1 DEF PlanNewest, PlanRollback, RecTypeOK, Phases
  <2>5. running' \in [gen : Nat, image : Images \cup {NoImage}]
    <3>1. ASSUME NEW s \in seen, Holds(s, live.trusted), Replayed(s)
          PROVE  running' \in [gen : Nat, image : Images \cup {NoImage}]
      BY <3>1, <2>2, ReplayedTypes DEF Holds
    <3> QED
      BY <2>1, <3>1 DEF PlanNewest, PlanRollback, PlanCharged, RecTypeOK
  <2> QED
    BY <1>2, <2>3, <2>4, <2>5 DEF PlanBoot, diskVars, RecTypeOK
<1>3. CASE ReplayNewest
  <2>1. PICK seen \in Readings :
          \/ \E s \in Loaded(seen) : Replayed(s)
          \/ running' = Nothing \/ Rejected(NewestGen(seen), NoImage)
    BY <1>3 DEF ReplayNewest
  <2>2. NewestGen(seen) \in Nat /\ seen \in SUBSET Slots
    BY NewestIsNumber, ReadingsOfSlots DEF RecTypeOK
  <2>3. running' \in [gen : Nat, image : Images \cup {NoImage}]
    BY <2>1, <2>2, ReplayedTypes, RejectedTypes, NothingTypes DEF Loaded
  <2> QED
    BY <1>3, <2>3 DEF ReplayNewest, diskVars, RecTypeOK, Phases
<1>4. CASE BeginSave
  <2>1. running.gen + 1 \in Nat /\ Protected \in Nat /\ images + 1 \in Images
    BY <1>4, NextImage
  <2>2. saving' \in [slot : Slots, gen : Nat, image : Images \cup {NoImage}]
    BY <1>4, <2>1, TargetIsSlot DEF BeginSave
  <2>3. disk' \in [Slots -> Contents]
    BY <1>4, <2>2 DEF BeginSave, WithHeader, NoHeader, RecTypeOK, Contents
  <2>4. told' \in [image : Images \cup {NoImage}, outcome : Outcomes]
    <3>1. told' = Silent \/ told' = Told("failed")'
      BY <1>4 DEF BeginSave
    <3>2. Told("failed")' = [image |-> saving'.image, outcome |-> "failed"]
      BY DEF Told
    <3>3. saving'.image \in Images \cup {NoImage}
      BY <2>2
    <3>4. CASE told' = Silent
      BY <3>4 DEF Silent, Outcomes
    <3>5. CASE told' = Told("failed")'
      <4>1. told' = [image |-> saving'.image, outcome |-> "failed"]
        BY <3>2, <3>5
      <4>2. "failed" \in Outcomes
        BY DEF Outcomes
      <4> HIDE <3>5
      <4> QED
        BY <3>3, <4>1, <4>2
    <3> QED
      BY <3>1, <3>4, <3>5
  <2>5. images' \in 0 .. MaxSaves /\ pc' \in Phases
    BY <1>4, <2>1 DEF BeginSave, RecTypeOK, Phases, Images
  <2>6. UNCHANGED <<record, live, running, boots>>
    BY <1>4 DEF BeginSave
  <2> QED
    BY <2>2, <2>3, <2>4, <2>5, <2>6 DEF RecTypeOK
<1>5. CASE WritePayload
  <2>1. disk' \in [Slots -> Contents]
    BY <1>5 DEF WritePayload, WithPayload, PartPayload, RecTypeOK, Contents
  <2>2. told' \in [image : Images \cup {NoImage}, outcome : Outcomes]
    BY <1>5, ToldTypes DEF WritePayload, Outcomes, RecTypeOK
  <2> QED
    BY <1>5, <2>1, <2>2 DEF WritePayload, RecTypeOK, Phases
<1>6. CASE Publish
  <2>1. disk' \in [Slots -> Contents]
    <3>1. WithHeader(saving.slot, NoHeader) \in [Slots -> Contents]
      BY HeaderTypes DEF NoHeader, RecTypeOK
    <3>2. WithHeader(saving.slot, NewHeader) \in [Slots -> Contents]
      <4>1. saving.gen \in Nat /\ saving.image \in Nat
        BY DEF RecTypeOK, Images, NoImage
      <4> QED
        BY <4>1, HeaderTypes DEF NewHeader, RecTypeOK
    <3> QED
      BY <1>6, <3>1, <3>2 DEF Publish, RecTypeOK
  <2>2. told' \in [image : Images \cup {NoImage}, outcome : Outcomes]
    BY <1>6, ToldTypes DEF Publish, Outcomes, RecTypeOK
  <2> QED
    BY <1>6, <2>1, <2>2 DEF Publish, RecTypeOK, Phases
<1>7. CASE Adopt
  <2>1. record' \in Records /\ live' \in Records \cup {NoRecord}
    BY <1>7, WrittenRecords, SavedRecordIsRecord DEF Adopt, RecTypeOK
  <2>2. told' \in [image : Images \cup {NoImage}, outcome : Outcomes]
    BY <1>7, ToldTypes DEF Adopt, Outcomes
  <2>3. running' \in [gen : Nat, image : Images \cup {NoImage}]
    <3>1. /\ saving.gen \in Nat /\ saving.image \in Images \cup {NoImage}
          /\ running \in [gen : Nat, image : Images \cup {NoImage}]
      BY DEF RecTypeOK
    <3>2. running' \in {running, [gen |-> saving.gen, image |-> saving.image]}
      BY <1>7 DEF Adopt
    <3> QED
      BY <3>1, <3>2
  <2> QED
    BY <1>7, <2>1, <2>2, <2>3 DEF Adopt, diskVars, RecTypeOK, Phases
<1>8. CASE Form
  BY <1>8, WrittenRecords, SavedRecordIsRecord, HealthyTypes DEF Form, diskVars, RecTypeOK
<1>9. CASE Verify
  BY <1>9, WrittenRecords, SavedRecordIsRecord, HealthyTypes DEF Verify, diskVars, RecTypeOK
<1>10. CASE Promote
  BY <1>10, WrittenRecords, SavedRecordIsRecord DEF Promote, diskVars, RecTypeOK
<1>11. CASE Fault
  <2>1. live \in Records /\ GiveUp \in Records
    BY <1>11, WrittenRecords DEF Fault
  <2>2. running' \in [gen : Nat, image : Images \cup {NoImage}]
    <3>1. running.gen \in Nat
      BY DEF RecTypeOK
    <3> QED
      BY <1>11, <3>1, ReplayedTypes, RejectedTypes DEF Fault, Holds, RecTypeOK
  <2> QED
    BY <1>11, <2>1, <2>2, SavedRecordIsRecord DEF Fault, diskVars, RecTypeOK
<1>12. CASE Reload
  <2>1. PICK seen \in Readings :
          \/ \E s \in Loaded(seen) : Replayed(s)
          \/ running' = Nothing \/ Rejected(NewestGen(seen), running.image)
    BY <1>12 DEF Reload
  <2>2. /\ NewestGen(seen) \in Nat /\ seen \in SUBSET Slots
        /\ running.image \in Images \cup {NoImage}
    BY NewestIsNumber, ReadingsOfSlots DEF RecTypeOK
  <2>3. running' \in [gen : Nat, image : Images \cup {NoImage}]
    BY <2>1, <2>2, ReplayedTypes, RejectedTypes, NothingTypes DEF Loaded
  <2> QED
    BY <1>12, <2>3 DEF Reload, diskVars, RecTypeOK
<1>13. CASE PowerCut
  <2>1. disk' \in [Slots -> Contents]
    BY <1>13 DEF PowerCut, WithPayload, PartPayload, RecTypeOK, Contents
  <2> QED
    BY <1>13, <2>1 DEF PowerCut, RecTypeOK, Nothing, NoImage, Phases
<1>14. CASE UNCHANGED recVars
  BY <1>14 DEF recVars, RecTypeOK
<1> QED
  BY <1>1, <1>2, <1>3, <1>4, <1>5, <1>6, <1>7, <1>8, <1>9, <1>10, <1>11, <1>12,
     <1>13, <1>14 DEF RecNext, Boot, Save

-----------------------------------------------------------------------------
(* The disk and the save in progress.                                      *)

\* What a header written leaves on the disk.
LEMMA HeaderWritten ==
  ASSUME disk \in [Slots -> Contents], NEW s \in Slots, NEW h \in [gen : Nat, sum : Nat],
         disk' = WithHeader(s, h)
  PROVE  /\ disk'[s].gen = h.gen /\ disk'[s].sum = h.sum
         /\ disk'[s].payload = disk[s].payload
         /\ \A t \in Slots : t # s => disk'[t] = disk[t]
BY DEF WithHeader, Contents

LEMMA PayloadWritten ==
  ASSUME disk \in [Slots -> Contents], NEW s \in Slots, NEW p, disk' = WithPayload(s, p)
  PROVE  /\ disk'[s].gen = disk[s].gen /\ disk'[s].sum = disk[s].sum
         /\ disk'[s].payload = p
         /\ \A t \in Slots : t # s => disk'[t] = disk[t]
BY DEF WithPayload, Contents

LEMMA OtherSlot ==
  \A s \in Slots : Other(s) \in Slots /\ Other(s) # s /\ Other(Other(s)) = s
BY DEF Slots, Other

\* The disk and the save are touched by the steps of a save and by a power cut.
LEMMA QuietSteps ==
  ASSUME [RecNext]_recVars, ~BeginSave, ~WritePayload, ~Publish, ~PowerCut
  PROVE  /\ disk' = disk /\ saving' = saving /\ images' = images
         /\ pc \in Torn \/ pc' \in Torn => UNCHANGED recVars
BY DEF RecNext, Boot, Save, PowerOn, PlanBoot, PlanNewest, PlanRollback, PlanCharged,
       ReplayNewest, Adopt, Form, Verify, Promote, Fault, Reload, diskVars, recVars, Torn

LEMMA BlankHeader == NoHeader \in [gen : Nat, sum : Nat] /\ NoHeader.gen = 0
BY DEF NoHeader

\* A save begins in a slot, with an image of its own.
LEMMA SaveBegins ==
  ASSUME RecTypeOK, BeginSave
  PROVE  /\ images' = images + 1 /\ images + 1 \in Images
         /\ saving'.image = images + 1 /\ saving'.gen = running.gen + 1
         /\ saving'.slot \in Slots
         /\ \/ disk' = disk /\ pc' = "ready"
            \/ /\ disk'[saving'.slot].gen = 0
               /\ disk'[saving'.slot].payload = disk[saving'.slot].payload
               /\ disk'[Other(saving'.slot)] = disk[Other(saving'.slot)]
<1>1. running.gen + 1 \in Nat /\ Protected \in Nat /\ images + 1 \in Images
  BY NextImage
<1>2. PICK seen \in Readings :
        saving' = [slot  |-> TargetSlot(running.gen + 1, Protected, seen),
                   gen   |-> running.gen + 1, image |-> images + 1]
  BY DEF BeginSave
<1>3. TargetSlot(running.gen + 1, Protected, seen) \in Slots
  BY <1>1, TargetIsSlot
<1>4. images' = images + 1
  BY DEF BeginSave
<1> DEFINE s == saving'.slot
<1>5. (disk' = disk /\ pc' = "ready") \/ disk' = WithHeader(s, NoHeader)
  BY DEF BeginSave
<1>6. s \in Slots /\ disk \in [Slots -> Contents]
  BY <1>2, <1>3 DEF RecTypeOK
<1> HIDE DEF s
<1>7. disk' = WithHeader(s, NoHeader) => 
        /\ disk'[s].gen = 0 /\ disk'[s].payload = disk[s].payload
        /\ disk'[Other(s)] = disk[Other(s)]
  BY <1>6, HeaderWritten, BlankHeader, OtherSlot
<1> USE DEF s
<1> QED
  BY <1>1, <1>2, <1>3, <1>4, <1>5, <1>7

LEMMA SavedHeader ==
  ASSUME RecTypeOK
  PROVE  /\ NewHeader \in [gen : Nat, sum : Nat]
         /\ NewHeader.gen = saving.gen /\ NewHeader.sum = saving.image
         /\ saving.slot \in Slots
<1>1. saving.gen \in Nat /\ saving.image \in Nat /\ saving.slot \in Slots
  BY DEF RecTypeOK, Images, NoImage
<1> QED
  BY <1>1 DEF NewHeader

LEMMA DiskKept ==
  ASSUME RecTypeOK, DiskWhole, SaveUnderway, [RecNext]_recVars
  PROVE  DiskWhole'
<1> USE OtherSlot, SavedHeader
<1>0. disk \in [Slots -> Contents] /\ images \in Nat
  BY DEF RecTypeOK
<1>1. CASE BeginSave
  <2>1. CASE disk' = disk
    <3>1. images' = images + 1
      BY <1>1, SaveBegins
    <3> QED
      BY <2>1, <3>1, <1>0 DEF DiskWhole, Contents, Images, NoImage, Mixture
  <2>2. ASSUME NEW t \in Slots, disk'[t].gen = 0, disk'[t].payload = disk[t].payload,
               disk'[Other(t)] = disk[Other(t)]
        PROVE  DiskWhole'
    <3>1. Slots = {t, Other(t)} /\ images' = images + 1
      BY <1>1, SaveBegins DEF Slots, Other
    <3>2. disk[t].payload \in Int /\ disk[Other(t)].payload \in Int
      BY <1>0 DEF Contents, Images, NoImage, Mixture
    <3> QED
      BY <2>2, <3>1, <3>2, <1>0 DEF DiskWhole
  <2>3. \/ disk' = disk
        \/ \E t \in Slots : /\ disk'[t].gen = 0 /\ disk'[t].payload = disk[t].payload
                             /\ disk'[Other(t)] = disk[Other(t)]
    BY <1>1, SaveBegins, Zenon
  <2>4. PICK t \in Slots : \/ disk' = disk
                           \/ /\ disk'[t].gen = 0 /\ disk'[t].payload = disk[t].payload
                              /\ disk'[Other(t)] = disk[Other(t)]
    BY <2>3 DEF Slots
  <2> QED
    BY <2>1, <2>2, <2>4
<1>2. CASE WritePayload \/ PowerCut
  <2>1. CASE disk' = disk
    BY <1>2, <2>1 DEF DiskWhole, WritePayload, PowerCut
  <2>2. ASSUME NEW p \in PartPayload(saving.slot), disk' = WithPayload(saving.slot, p),
               pc = "invalidated"
        PROVE  DiskWhole'
    <3>1. images' = images /\ saving.image = images /\ disk[saving.slot].gen = 0
          /\ disk[Other(saving.slot)].payload # saving.image
      BY <1>2, <2>2 DEF WritePayload, PowerCut, SaveUnderway, Underway, Torn
    <3>2. p \in {disk[saving.slot].payload, Mixture, saving.image} /\ Mixture \notin Images /\ Mixture <= images
      BY <2>2, <1>0 DEF PartPayload, Mixture, Images
    <3> QED
      <4>1. /\ disk'[saving.slot].gen = 0 /\ disk'[saving.slot].payload = p
            /\ disk'[Other(saving.slot)] = disk[Other(saving.slot)]
        BY <3>1, <2>2, <1>0, PayloadWritten
      <4>2. Slots = {saving.slot, Other(saving.slot)}
        BY DEF Slots, Other
      <4>3. disk[saving.slot].payload \in Int /\ disk[Other(saving.slot)].payload \in Int
        BY <1>0 DEF Contents, Images, NoImage, Mixture
      <4> QED
        BY <3>1, <3>2, <4>1, <4>2, <4>3 DEF DiskWhole
  <2>3. \/ disk' = disk
        \/ pc = "invalidated" /\ \E p \in PartPayload(saving.slot) : disk' = WithPayload(saving.slot, p)
    BY <1>2 DEF WritePayload, PowerCut, PartPayload
  <2> QED
    BY <2>1, <2>2, <2>3
<1>3. CASE Publish
  <2>1. /\ images' = images /\ saving.image = images /\ images \in 1 .. images
        /\ \/ disk' = disk \/ disk' = WithHeader(saving.slot, NewHeader)
           \/ disk' = WithHeader(saving.slot, NoHeader)
    BY <1>3 DEF Publish, SaveUnderway, Underway, Torn, Images
  <2>2. CASE disk' = disk
    BY <2>1, <2>2 DEF DiskWhole
  <2>3. CASE disk' = WithHeader(saving.slot, NewHeader)
    BY <2>1, <2>3, <1>0, HeaderWritten DEF DiskWhole
  <2>4. CASE disk' = WithHeader(saving.slot, NoHeader)
    BY <2>1, <2>4, <1>0, HeaderWritten, BlankHeader DEF DiskWhole
  <2> QED
    BY <2>1, <2>2, <2>3, <2>4
<1>4. CASE ~BeginSave /\ ~WritePayload /\ ~Publish /\ ~PowerCut
  BY <1>4, QuietSteps DEF DiskWhole
<1> QED
  BY <1>1, <1>2, <1>3, <1>4

LEMMA SavingKept ==
  ASSUME RecTypeOK, DiskWhole, SaveUnderway, [RecNext]_recVars
  PROVE  SaveUnderway'
<1> USE OtherSlot, SavedHeader DEF Underway, Torn
<1>0. disk \in [Slots -> Contents] /\ images \in Nat /\ running.gen \in Nat
  BY DEF RecTypeOK
<1>1. CASE BeginSave
  <2>1. CASE pc' = "ready"
    BY <2>1 DEF SaveUnderway
  <2>2. CASE pc' = "invalidated"
    <3>1. images' = images + 1 /\ saving'.image = images + 1 /\ images + 1 \in Images
          /\ saving'.gen = running'.gen + 1 /\ told' = Silent /\ saving'.slot \in Slots
          /\ disk'[saving'.slot].gen = 0
          /\ disk'[Other(saving'.slot)] = disk[Other(saving'.slot)]
      BY <1>1, <2>2, SaveBegins DEF BeginSave
    <3>2. \A t \in Slots : disk[t].payload # images + 1
      BY <1>0 DEF DiskWhole, Contents, Images, NoImage, Mixture
    <3> QED
      BY <3>1, <3>2, <2>2 DEF SaveUnderway
  <2> QED
    BY <1>1, <2>1, <2>2 DEF BeginSave
<1>2. CASE WritePayload
  <2>1. CASE pc' = "ready"
    BY <2>1 DEF SaveUnderway
  <2>2. CASE pc' = "staged"
    <3>1. /\ disk' = WithPayload(saving.slot, saving.image) /\ told' = told
          /\ saving' = saving /\ images' = images /\ running' = running /\ pc = "invalidated"
      BY <1>2, <2>2 DEF WritePayload
    <3>2. /\ disk'[saving.slot].gen = disk[saving.slot].gen
          /\ disk'[saving.slot].payload = saving.image
          /\ disk'[Other(saving.slot)] = disk[Other(saving.slot)]
      BY <3>1, <1>0, PayloadWritten
    <3> QED
      BY <3>1, <3>2, <2>2 DEF SaveUnderway
  <2> QED
    BY <1>2, <2>1, <2>2 DEF WritePayload
<1>3. CASE Publish
  <2>1. CASE pc' = "ready"
    BY <2>1 DEF SaveUnderway
  <2>2. CASE pc' = "published"
    <3>1. /\ disk' = WithHeader(saving.slot, NewHeader) /\ told' = told
          /\ saving' = saving /\ images' = images /\ running' = running /\ pc = "staged"
      BY <1>3, <2>2 DEF Publish
    <3>2. /\ disk'[saving.slot].gen = saving.gen /\ disk'[saving.slot].sum = saving.image
          /\ disk'[saving.slot].payload = disk[saving.slot].payload
      BY <3>1, <1>0, HeaderWritten
    <3> QED
      BY <3>1, <3>2, <2>2 DEF SaveUnderway
  <2> QED
    BY <1>3, <2>1, <2>2 DEF Publish
<1>4. CASE PowerCut
  BY <1>4 DEF PowerCut, SaveUnderway
<1>5. CASE ~BeginSave /\ ~WritePayload /\ ~Publish /\ ~PowerCut
  <2>1. CASE UNCHANGED recVars
    BY <2>1 DEF SaveUnderway, recVars
  <2>2. CASE pc' \notin Underway
    BY <2>2 DEF SaveUnderway
  <2> QED
    BY <1>5, <2>1, <2>2
    DEF RecNext, Boot, Save, PowerOn, PlanBoot, PlanNewest, PlanRollback, PlanCharged,
        ReplayNewest, Adopt, Form, Verify, Promote, Fault, Reload
<1> QED
  BY <1>1, <1>2, <1>3, <1>4, <1>5

\* A generation that was reported saved stays where it is until the next save.
LEMMA ReportKept ==
  ASSUME RecTypeOK, SaveUnderway, ReportedSurvives, [RecNext]_recVars
  PROVE  ReportedSurvives'
<1> USE SavedHeader
<1>1. CASE BeginSave \/ WritePayload \/ Publish
  <2>1. \/ told'.outcome \in {"nothing", "failed", "indeterminate"}
        \/ told' = told /\ pc \in Torn
    BY <1>1 DEF BeginSave, WritePayload, Publish, Told, Silent, Torn
  <2>2. pc \in Torn => told.outcome = "nothing"
    BY DEF SaveUnderway, Underway, Silent
  <2> QED
    BY <2>1, <2>2 DEF ReportedSurvives
<1>2. CASE PowerCut
  <2>1. CASE pc = "invalidated"
    <3>1. told' = told /\ told.outcome = "nothing"
      BY <1>2, <2>1 DEF PowerCut, SaveUnderway, Underway, Torn, Silent
    <3> QED
      BY <3>1 DEF ReportedSurvives
  <2>2. CASE pc # "invalidated"
    <3>1. disk' = disk /\ told' = told
      BY <1>2, <2>2 DEF PowerCut
    <3> QED
      BY <3>1 DEF ReportedSurvives, Valid
  <2> QED
    BY <2>1, <2>2
<1>3. CASE Adopt
  <2>1. disk' = disk /\ saving' = saving
    BY <1>3 DEF Adopt, diskVars
  <2>3. told'.image = saving.image
    <3>1. told' = Told("saved") \/ told' = Told("saved, reload required")
      BY <1>3 DEF Adopt
    <3>2. Told("saved").image = saving.image /\ Told("saved, reload required").image = saving.image
      BY DEF Told
    <3> QED
      BY <3>1, <3>2
  <2>2. /\ disk[saving.slot].gen = saving.gen /\ disk[saving.slot].sum = saving.image
        /\ disk[saving.slot].payload = saving.image
        /\ saving.gen = running.gen + 1 /\ running.gen \in Nat
    BY <1>3 DEF Adopt, SaveUnderway, Underway, RecTypeOK
  <2> QED
    <3>1. saving.slot \in Slots /\ Valid(saving.slot)'
      BY <2>1, <2>2 DEF Valid
    <3> QED
      BY <2>1, <2>2, <2>3, <3>1 DEF ReportedSurvives
<1>4. CASE ~BeginSave /\ ~WritePayload /\ ~Publish /\ ~PowerCut /\ ~Adopt
  <2>1. told' = told
    BY <1>4 DEF RecNext, Boot, Save, PowerOn, PlanBoot, ReplayNewest, Form, Verify,
                Promote, Fault, Reload, recVars
  <2> QED
    BY <1>4, <2>1, QuietSteps DEF ReportedSurvives, Valid
<1> QED
  BY <1>1, <1>2, <1>3, <1>4

-----------------------------------------------------------------------------
(* The record, in memory and on the disk.                                  *)

LEMMA FaultsStay == [RecNext]_recVars => faults' = faults
BY DEF RecNext, recVars

\* The record changes only by what the machine, which knows it, writes; what is
\* trusted is replaced by a generation, never by nothing.
LEMMA RecordMoves ==
  ASSUME RecTypeOK, [RecNext]_recVars
  PROVE  \/ PowerOn \/ PowerCut \/ (record' = record /\ live' = live)
         \/ /\ Known /\ pc # "off" /\ pc' \notin {"off", "planning"}
            /\ \E r \in Records, written \in BOOLEAN :
                 /\ SaveRecord(r, written)
                 /\ r.trusted = live.trusted \/ r.trusted # 0
<1>1. CASE PlanBoot
  <2>1. CASE record' = record /\ live' = live
    BY <2>1
  <2>2. PICK seen \in Readings : PlanCharged(seen) \/ (record' = record /\ live' = live)
    BY <1>1 DEF PlanBoot, PlanNewest, PlanRollback
  <2>3. CASE PlanCharged(seen)
    <3> DEFINE r == Charged(NewestGen(seen))
    <3>1. Known /\ live \in Records /\ NewestGen(seen) \in Nat
      BY <2>3, NewestIsNumber, ReadingsOfSlots DEF PlanCharged, Uncharged, RecTypeOK, Known
    <3>2. r \in Records
      BY <3>1, AdoptedIsRecord
    <3>3. r.trusted = live.trusted
      BY <3>1, AdoptedIsRecord DEF Charged, Adopted, Records
    <3>4. \E written \in BOOLEAN : SaveRecord(r, written)
      BY <2>3 DEF PlanCharged
    <3>5. pc = "planning" /\ pc' \in {"replaying", "ready"}
      BY <1>1, <2>3 DEF PlanBoot, PlanCharged
    <3> HIDE DEF r
    <3> QED
      BY <3>1, <3>2, <3>3, <3>4, <3>5
  <2> QED
    BY <2>1, <2>2, <2>3
<1>2. CASE Adopt
  <2>1. CASE Known /\ \E written \in BOOLEAN : SaveRecord(OnSaved, written)
    <3>1. OnSaved \in Records /\ OnSaved.trusted = live.trusted
      BY <2>1, WrittenRecords DEF OnSaved, Records
    <3> QED
      BY <1>2, <2>1, <3>1 DEF Adopt
  <2> QED
    BY <1>2, <2>1 DEF Adopt
<1>3. CASE Form \/ Verify
  <2> DEFINE r == [live EXCEPT !.verified = TRUE, !.attempts = 0]
  <2>1. Known /\ pc = "ready" /\ pc' = pc /\ \E written \in BOOLEAN : SaveRecord(r, written)
    BY <1>3 DEF Form, Verify
  <2>2. r \in Records /\ r.trusted = live.trusted
    BY <2>1, WrittenRecords DEF Records
  <2> HIDE DEF r
  <2> QED
    BY <2>1, <2>2
<1>4. CASE Promote
  <2> DEFINE r == [EmptyRecord EXCEPT !.trusted = live.candidate]
  <2>1. Known /\ pc = "ready" /\ pc' = pc /\ \E written \in BOOLEAN : SaveRecord(r, written)
    BY <1>4 DEF Promote
  <2>2. r \in Records /\ r.trusted # 0
    BY <1>4, <2>1, WrittenRecords DEF Promote, EmptyRecord
  <2> HIDE DEF r
  <2> QED
    BY <2>1, <2>2
<1>5. CASE Fault
  <2>1. Known /\ pc = "ready" /\ pc' = pc /\ \E written \in BOOLEAN : SaveRecord(GiveUp, written)
    BY <1>5 DEF Fault
  <2>2. GiveUp \in Records /\ GiveUp.trusted = live.trusted
    BY <2>1, WrittenRecords DEF GiveUp, Records
  <2> QED
    BY <2>1, <2>2
<1> QED
  BY <1>1, <1>2, <1>3, <1>4, <1>5
  DEF RecNext, Boot, Save, ReplayNewest, BeginSave, WritePayload, Publish, Reload, recVars

LEMMA RecordStep ==
  ASSUME RecTypeOK, RecordKept, [RecNext]_recVars
  PROVE  RecordKept'
<1> USE FaultsStay
<1>1. pc' = "off" => live' = NoRecord
  <2>1. ASSUME pc' = "off" PROVE PowerCut \/ UNCHANGED recVars
    BY <2>1 DEF RecNext, Boot, Save, PowerOn, PlanBoot, PlanNewest, PlanRollback,
       PlanCharged, ReplayNewest, BeginSave, WritePayload, Publish, Adopt, Form,
       Verify, Promote, Fault, Reload
  <2> QED
    BY <2>1 DEF PowerCut, RecordKept, recVars
<1>2. pc' \in {"off", "planning", "replaying"} => running' = Nothing
  <2>1. ASSUME pc' \in {"off", "planning", "replaying"}
        PROVE  PowerCut \/ PowerOn \/ (PlanBoot /\ running' = running) \/ UNCHANGED recVars
    BY <2>1 DEF RecNext, Boot, Save, PlanBoot, PlanNewest, PlanRollback,
       PlanCharged, ReplayNewest, BeginSave, WritePayload, Publish, Adopt, Form,
       Verify, Promote, Fault, Reload
  <2> QED
    BY <2>1 DEF PowerCut, PowerOn, PlanBoot, RecordKept, recVars
<1>3. /\ Known' /\ ("write" \notin faults' \/ pc' = "planning") => live' = record'
      /\ pc' # "off" /\ "read" \notin faults' => Known'
  <2>1. CASE PowerOn
    BY <2>1, RecordsAreKnown DEF PowerOn, Known, RecTypeOK
  <2>2. CASE PowerCut
    BY <2>2 DEF PowerCut, Known
  <2>3. CASE record' = record /\ live' = live /\ ~PowerOn /\ ~PowerCut
    <3>1. pc' = "planning" => pc = "planning"
      BY <2>3 DEF RecNext, Boot, Save, PlanBoot, PlanNewest, PlanRollback,
         PlanCharged, ReplayNewest, BeginSave, WritePayload, Publish, Adopt, Form,
         Verify, Promote, Fault, Reload, recVars
    <3>2. pc = "off" => UNCHANGED recVars
      BY <2>3 DEF RecNext, Boot, Save, PlanBoot, ReplayNewest, BeginSave, WritePayload,
         Publish, Adopt, Form, Verify, Promote, Fault, Reload
    <3>3. Known' <=> Known
      BY <2>3 DEF Known
    <3> QED
      BY <2>3, <3>1, <3>2, <3>3 DEF RecordKept, recVars
  <2>4. ASSUME NEW r \in Records, NEW written \in BOOLEAN, SaveRecord(r, written),
               pc' # "planning"
        PROVE  /\ "write" \notin faults => live' = record'
               /\ Known'
    BY <2>4, RecordsAreKnown DEF SaveRecord, Known
  <2> QED
    BY <2>1, <2>2, <2>3, <2>4, RecordMoves
<1> QED
  BY <1>1, <1>2, <1>3 DEF RecordKept

\* What is trusted until the first promotion: nothing, in memory and on the disk.
LEMMA NothingTrusted ==
  ASSUME RecTypeOK, RecordKept, [RecNext]_recVars, "write" \notin faults, record'.trusted = 0
  PROVE  record.trusted = 0 /\ (Known => live.trusted = 0)
<1>1. Known => live = record
  BY DEF RecordKept
<1>2. CASE PowerOn \/ PowerCut \/ record' = record
  BY <1>1, <1>2 DEF PowerOn, PowerCut
<1>3. ASSUME Known, NEW r \in Records, NEW written \in BOOLEAN, SaveRecord(r, written),
             r.trusted = live.trusted \/ r.trusted # 0
      PROVE  record.trusted = 0
  BY <1>1, <1>3 DEF SaveRecord
<1> QED
  BY <1>1, <1>2, <1>3, RecordMoves

LEMMA FaultlessReadings ==
  ASSUME "read" \notin faults
  PROVE  /\ \A seen \in Readings : seen = Slots
         /\ ~LoadFails(Slots)
BY DEF Readings, LoadFails

LEMMA RunningKept ==
  ASSUME RecTypeOK, SaveUnderway, RecordKept, RunsFromDisk, [RecNext]_recVars
  PROVE  RunsFromDisk'
<1> SUFFICES ASSUME faults = {}, pc' = "ready", running'.gen # 0
             PROVE  \E s \in Slots : Holds(s, running.gen)' /\ disk'[s].payload = running'.image
  BY FaultsStay DEF RunsFromDisk
<1> USE OtherSlot, SavedHeader, FaultlessReadings
<1>0. disk \in [Slots -> Contents]
  BY DEF RecTypeOK
<1>1. ASSUME disk' = disk, NEW s \in Slots, Valid(s),
             running' = [gen |-> disk[s].gen, image |-> disk[s].payload]
      PROVE  \E t \in Slots : Holds(t, running.gen)' /\ disk'[t].payload = running'.image
  BY <1>1 DEF Holds, Valid
<1>2. CASE PlanBoot
  <2>1. running = Nothing /\ running'.gen # running.gen /\ disk' = disk
    BY <1>2 DEF PlanBoot, RecordKept, Nothing, diskVars
  <2>2. PICK seen \in Readings : PlanRollback(seen) \/ running' = running
    BY <1>2 DEF PlanBoot, PlanNewest, PlanCharged
  <2>3. PICK s \in seen : Holds(s, live.trusted) /\ Replayed(s)
    BY <2>1, <2>2 DEF PlanRollback
  <2>4. s \in Slots
    BY <2>2, <2>3
  <2> QED
    BY <1>1, <2>1, <2>3, <2>4 DEF Holds, Replayed
<1>3. CASE ReplayNewest
  <2>1. PICK seen \in Readings :
          (\E s \in Loaded(seen) : Replayed(s)) \/ running' = Nothing
    BY <1>3 DEF ReplayNewest
  <2>3. PICK s \in Loaded(seen) : Replayed(s)
    BY <2>1 DEF Nothing
  <2> QED
    BY <1>1, <1>3, <2>1, <2>3 DEF Loaded, Replayed, ReplayNewest, diskVars
<1>4. CASE Adopt
  <2>1. /\ running' = [gen |-> saving.gen, image |-> saving.image]
        /\ disk' = disk /\ pc = "published"
    BY <1>4 DEF Adopt, diskVars
  <2> QED
    BY <1>1, <2>1, <1>0 DEF SaveUnderway, Valid, Holds, Underway
<1>5. CASE Fault
  <2>1. disk' = disk
    BY <1>5 DEF Fault, diskVars
  <2>2. CASE running' = running
    BY <1>5, <2>1, <2>2 DEF Fault, RunsFromDisk, Holds, Valid
  <2>3. CASE running' # running
    <3>1. PICK s \in Slots : Holds(s, live.trusted) /\ Replayed(s)
      BY <1>5, <2>3 DEF Fault
    <3> QED
      BY <1>1, <2>1, <3>1 DEF Holds, Replayed
  <2> QED
    BY <2>2, <2>3
<1>6. CASE Reload
  <2>1. disk' = disk
    BY <1>6 DEF Reload, diskVars
  <2>2. PICK seen \in Readings :
          (\E s \in Loaded(seen) : Replayed(s)) \/ running' = Nothing
    BY <1>6 DEF Reload
  <2>3. PICK s \in Loaded(seen) : Replayed(s)
    BY <2>2 DEF Nothing
  <2> QED
    BY <1>1, <2>1, <2>2, <2>3 DEF Loaded, Replayed
<1>7. CASE WritePayload \/ Publish \/ BeginSave \/ PowerOn \/ PowerCut
  <2>1. pc = "staged" => ReadsBack
    BY DEF SaveUnderway, ReadsBack
  <2> QED
    BY <1>7, <2>1 DEF WritePayload, Publish, BeginSave, PowerOn, PowerCut
<1>8. CASE Form \/ Verify \/ Promote \/ UNCHANGED recVars
  <2>1. pc = "ready" /\ disk' = disk /\ running' = running
    BY <1>8 DEF Form, Verify, Promote, recVars, diskVars
  <2> QED
    BY <2>1 DEF RunsFromDisk, Holds, Valid
<1> QED
  BY <1>2, <1>3, <1>4, <1>5, <1>6, <1>7, <1>8 DEF RecNext, Boot, Save

-----------------------------------------------------------------------------
(* The slots alternate until the first promotion.                          *)

LEMMA UnprotectedTarget ==
  ASSUME NEW next, NEW seen
  PROVE  TargetSlot(next, 0, seen) = Home(next)
BY DEF TargetSlot, Home

LEMMA PlacesKept ==
  ASSUME RecTypeOK, DiskWhole, SaveUnderway, RecordKept, InPlace, [RecNext]_recVars
  PROVE  InPlace'
<1> SUFFICES ASSUME "write" \notin faults, record'.trusted = 0
             PROVE  /\ \A s \in Slots : Valid(s)' => s = Home(disk'[s].gen)
                    /\ running'.gen # 0 => Valid(Home(running.gen))'
                    /\ pc' \in Underway => saving'.slot = Home(saving'.gen)
  BY FaultsStay DEF InPlace
<1> USE OtherSlot, SavedHeader DEF Underway, Torn
<1>0. disk \in [Slots -> Contents] /\ running.gen \in Nat
  BY DEF RecTypeOK
<1>1. record.trusted = 0 /\ (Known => live.trusted = 0)
  BY NothingTrusted
<1>2. /\ \A s \in Slots : Valid(s) => s = Home(disk[s].gen)
      /\ running.gen # 0 => Valid(Home(running.gen))
      /\ pc \in Underway => saving.slot = Home(saving.gen)
  BY <1>1 DEF InPlace
<1>3. ASSUME disk' = disk, pc' \notin Underway,
             \/ running' = running \/ running'.gen = 0
             \/ \E s \in Slots : Valid(s) /\ running'.gen = disk[s].gen
      PROVE  /\ \A s \in Slots : Valid(s)' => s = Home(disk'[s].gen)
             /\ running'.gen # 0 => Valid(Home(running.gen))'
             /\ pc' \in Underway => saving'.slot = Home(saving'.gen)
  BY <1>2, <1>3 DEF Valid
<1>4. CASE BeginSave
  <2> DEFINE t == Home(running.gen + 1)
  <2>1. Protected = 0
    BY <1>1 DEF Protected
  <2>2. saving'.slot = t /\ saving'.gen = running.gen + 1 /\ running' = running
    BY <1>4, <2>1, UnprotectedTarget DEF BeginSave
  <2>3. disk' = WithHeader(t, NoHeader)
    BY <1>4, <2>2 DEF BeginSave
  <2>4. t \in Slots /\ t = Other(Home(running.gen)) /\ Home(running.gen) \in Slots
    BY <1>0, HomesAlternate
  <2> HIDE DEF t
  <2>5. disk'[t].gen = 0 /\ \A s \in Slots : s # t => disk'[s] = disk[s]
    BY <1>0, <2>3, <2>4, HeaderWritten, BlankHeader
  <2> QED
    BY <1>2, <2>2, <2>4, <2>5 DEF Valid, t
<1>5. CASE WritePayload
  <2>1. /\ saving' = saving /\ running' = running /\ pc = "invalidated"
        /\ disk' = WithPayload(saving.slot, saving.image)
    BY <1>5 DEF WritePayload
  <2>2. /\ disk[saving.slot].gen = 0 /\ disk'[saving.slot].gen = 0
        /\ \A s \in Slots : s # saving.slot => disk'[s] = disk[s]
    BY <1>0, <2>1, PayloadWritten DEF SaveUnderway
  <2>3. Home(running.gen) \in Slots
    BY <1>0, HomesAlternate
  <2> QED
    BY <1>2, <2>1, <2>2, <2>3 DEF Valid
<1>6. CASE Publish
  <2>1. /\ saving' = saving /\ running' = running /\ pc = "staged"
        /\ \/ disk' = WithHeader(saving.slot, NewHeader)
           \/ disk' = WithHeader(saving.slot, NoHeader)
    BY <1>6 DEF Publish
  <2>2. /\ disk[saving.slot].gen = 0 /\ disk'[saving.slot].gen \in {0, saving.gen}
        /\ \A s \in Slots : s # saving.slot => disk'[s] = disk[s]
    BY <1>0, <2>1, HeaderWritten, BlankHeader DEF SaveUnderway
  <2>3. Home(running.gen) \in Slots
    BY <1>0, HomesAlternate
  <2> QED
    BY <1>2, <2>1, <2>2, <2>3 DEF Valid
<1>7. CASE PowerCut
  <2>1. CASE pc = "invalidated"
    <3>1. PICK p \in PartPayload(saving.slot) : disk' = WithPayload(saving.slot, p)
      BY <1>7, <2>1 DEF PowerCut
    <3>2. /\ disk'[saving.slot].gen = 0
          /\ \A s \in Slots : s # saving.slot => disk'[s] = disk[s]
      BY <1>0, <2>1, <3>1, PayloadWritten DEF SaveUnderway
    <3>3. running'.gen = 0 /\ pc' = "off"
      BY <1>7 DEF PowerCut, Nothing
    <3> QED
      BY <1>2, <3>2, <3>3 DEF Valid
  <2>2. CASE pc # "invalidated"
    BY <1>7, <2>2, <1>3 DEF PowerCut, Nothing
  <2> QED
    BY <2>1, <2>2
<1>8. CASE PlanBoot
  <2>1. PICK seen \in Readings : PlanRollback(seen) \/ running' = running
    BY <1>8 DEF PlanBoot, PlanNewest, PlanCharged
  <2>2. ~PlanRollback(seen)
    BY <1>1 DEF PlanRollback, Uncharged, Exhausted
  <2>3. pc' \in {"ready", "replaying"} /\ disk' = disk
    BY <1>8 DEF PlanBoot, PlanNewest, PlanCharged, PlanRollback, diskVars
  <2> QED
    BY <2>1, <2>2, <2>3, <1>3
<1>9. CASE ReplayNewest \/ Reload
  <2>1. PICK seen \in Readings :
          \/ \E s \in Loaded(seen) : running'.gen = disk[s].gen
          \/ running' = Nothing
          \/ running'.gen = NewestGen(seen) /\ Loaded(seen) # {}
    BY <1>9 DEF ReplayNewest, Reload, Replayed, Rejected
  <2>2. disk' = disk /\ pc' = "ready"
    BY <1>9 DEF ReplayNewest, Reload, diskVars
  <2>3. \/ running'.gen = 0
        \/ \E s \in Slots : Valid(s) /\ running'.gen = disk[s].gen
    <3>1. CASE Loaded(seen) # {} /\ running'.gen = NewestGen(seen)
      <4>1. seen \in SUBSET Slots /\ running'.gen = NewestGen(seen)
        BY <3>1, ReadingsOfSlots DEF RecTypeOK
      <4> QED
        BY <1>0, <3>1, <4>1, NewestIsFirst
    <3> QED
      BY <2>1, <3>1, ReadingsOfSlots DEF Loaded, Nothing
  <2> QED
    BY <1>3, <2>2, <2>3
<1>10. CASE Adopt
  <2>1. disk' = disk /\ pc' = "ready" /\ pc = "published"
    BY <1>10 DEF Adopt, diskVars
  <2>2. running' = running \/ running'.gen = saving.gen
    <3>1. running' = running \/ running' = [gen |-> saving.gen, image |-> saving.image]
      BY <1>10 DEF Adopt
    <3> QED
      BY <3>1
  <2>3. Valid(saving.slot) /\ disk[saving.slot].gen = saving.gen
    BY <2>1, <1>0 DEF SaveUnderway, Valid
  <2> QED
    BY <1>3, <2>1, <2>2, <2>3
<1>11. CASE Form \/ Verify \/ Promote \/ PowerOn
  <2>1. disk' = disk /\ pc' \notin Underway /\ (running' = running \/ running' = Nothing)
    BY <1>11 DEF Form, Verify, Promote, PowerOn, diskVars
  <2> QED
    BY <1>3, <2>1 DEF Nothing
<1>12. CASE Fault
  BY <1>12, <1>1 DEF Fault
<1>13. CASE UNCHANGED recVars
  BY <1>2, <1>13 DEF recVars, Valid
<1> QED
  BY <1>4, <1>5, <1>6, <1>7, <1>8, <1>9, <1>10, <1>11, <1>12, <1>13
  DEF RecNext, Boot, Save

-----------------------------------------------------------------------------
(* Numbers, and what is kept until the first promotion.                    *)

LEMMA ValidIsSaved ==
  ASSUME RecTypeOK, DiskWhole, NEW s \in Slots, Valid(s)
  PROVE  disk[s].payload \in Images /\ disk[s].payload <= images
<1>1. disk[s].gen # 0 /\ disk[s].sum \in 1 .. images /\ images \in 0 .. MaxSaves /\ MaxSaves \in Nat
  BY WorkspaceConstants DEF RecTypeOK, DiskWhole, Valid
<1> QED
  BY <1>1 DEF Valid, Images

LEMMA NumbersKept ==
  ASSUME RecTypeOK, DiskWhole, SaveUnderway, NumbersTell, [RecNext]_recVars
  PROVE  NumbersTell'
<1> DEFINE Sourced == running'.gen # 0 /\ ~hollow' =>
                      /\ running'.image \in Images /\ running'.image <= images'
                      /\ numbered'[running'.image] = running'.gen
<1> USE SavedHeader DEF Underway, Torn
<1>0. /\ disk \in [Slots -> Contents] /\ saving.slot \in Slots
      /\ images \in Nat /\ running.gen \in Nat /\ numbered \in [Images -> Nat]
  BY WorkspaceConstants DEF RecTypeOK
<1>1. /\ \A s \in Slots : disk[s].gen # 0 => numbered[disk[s].sum] = disk[s].gen
      /\ pc \in Underway => numbered[saving.image] = saving.gen
      /\ running.gen # 0 /\ ~hollow =>
           /\ running.image \in Images /\ running.image <= images
           /\ numbered[running.image] = running.gen
  BY DEF NumbersTell
<1>2. ASSUME numbered' = numbered, images' = images, NEW s \in Slots, Valid(s), Replayed(s)
      PROVE  Sourced
  <2>1. disk[s].payload \in Images /\ disk[s].payload <= images
    BY <1>2, ValidIsSaved
  <2>2. disk[s].gen # 0 /\ disk[s].sum = disk[s].payload
    BY <1>2 DEF Valid
  <2>3. running'.gen = disk[s].gen /\ running'.image = disk[s].payload
    BY <1>2 DEF Replayed
  <2> QED
    BY <1>1, <1>2, <2>1, <2>2, <2>3
<1>3. ASSUME numbered' = numbered, images' = images, running' = running, hollow' = hollow PROVE Sourced
  BY <1>1, <1>3
<1>4. ASSUME UNCHANGED <<disk, images, saving, numbered>>, Sourced, pc' \in Underway => pc \in Underway
      PROVE  NumbersTell'
  BY <1>1, <1>4 DEF NumbersTell
<1>5. CASE PowerOn \/ Form \/ Verify \/ Promote \/ UNCHANGED recVars
  <2>1. /\ UNCHANGED <<disk, images, saving, numbered>> /\ hollow' = hollow
        /\ running' = running \/ running'.gen = 0
        /\ pc' = pc \/ pc' = "planning"
    BY <1>5 DEF PowerOn, Form, Verify, Promote, recVars, diskVars, history, Nothing
  <2> QED
    BY <1>3, <1>4, <2>1
<1>6. CASE PlanBoot \/ ReplayNewest \/ Reload \/ Fault
  <2>1. /\ UNCHANGED <<disk, images, saving>>
        /\ pc' = pc \/ pc' \in {"ready", "replaying"}
    BY <1>6 DEF PlanBoot, PlanNewest, PlanRollback, PlanCharged, ReplayNewest, Reload, Fault, diskVars
  <2>2. numbered' = numbered
    BY <1>6 DEF PlanBoot, PlanNewest, PlanRollback, PlanCharged, ReplayNewest, Reload, Fault,
       Replayed, Rejected, history
  <2>3. \/ running' = running /\ hollow' = hollow
        \/ running'.gen = 0 \/ hollow'
        \/ \E s \in Slots : Valid(s) /\ Replayed(s)
    BY <1>6, ReadingsOfSlots DEF PlanBoot, PlanNewest, PlanRollback, PlanCharged, ReplayNewest,
       Reload, Fault, Rejected, Loaded, Holds, Nothing, history
  <2>4. Sourced
    BY <1>2, <1>3, <2>1, <2>2, <2>3
  <2> QED
    BY <1>4, <2>1, <2>2, <2>4
<1>7. CASE BeginSave
  <2>1. /\ images' = images + 1 /\ images + 1 \in Images
        /\ saving'.image = images + 1 /\ saving'.gen = running.gen + 1
        /\ numbered' = Numbered(images + 1, running.gen + 1)
        /\ running' = running /\ hollow' = hollow
    BY <1>7, SaveBegins DEF BeginSave
  <2>2. \A s \in Slots : disk'[s].gen # 0 => disk'[s] = disk[s]
    BY <1>7, SaveBegins DEF Slots, Other
  <2>3. numbered'[images + 1] = running.gen + 1
    BY <1>0, <2>1 DEF Numbered
  <2>4. \A i \in Images : i <= images => numbered'[i] = numbered[i]
    BY <1>0, <2>1 DEF Numbered, Images
  <2>5. \A s \in Slots : disk[s].gen # 0 => disk[s].sum \in Images /\ disk[s].sum <= images
    BY <2>1, <1>0, WorkspaceConstants DEF DiskWhole, Images
  <2>6. Sourced
    <3>1. \A i \in Images : i <= images => i <= images + 1
      BY <1>0 DEF Images
    <3> QED
      BY <1>1, <2>1, <2>4, <3>1
  <2> QED
    BY <1>1, <2>1, <2>2, <2>3, <2>4, <2>5, <2>6 DEF NumbersTell
<1>8. CASE WritePayload \/ Publish \/ (PowerCut /\ pc = "invalidated")
  <2>1. UNCHANGED <<images, saving, numbered>> /\ pc \in Torn
    BY <1>8 DEF WritePayload, Publish, PowerCut, history
  <2>2. Sourced
    BY <1>1, <1>8 DEF WritePayload, Publish, PowerCut, history, Nothing
  <2>3. \A s \in Slots : disk'[s].gen # 0 => numbered[disk'[s].sum] = disk'[s].gen
    <3>1. \/ disk' = disk
          \/ disk' = WithHeader(saving.slot, NewHeader)
          \/ disk' = WithHeader(saving.slot, NoHeader)
          \/ \E p : disk' = WithPayload(saving.slot, p)
      BY <1>8 DEF WritePayload, Publish, PowerCut
    <3>2. CASE disk' = WithHeader(saving.slot, NewHeader)
      BY <1>0, <1>1, <2>1, <3>2, HeaderWritten
    <3>3. CASE disk' = WithHeader(saving.slot, NoHeader)
      BY <1>0, <1>1, <3>3, HeaderWritten, BlankHeader
    <3>4. CASE \E p : disk' = WithPayload(saving.slot, p)
      BY <1>0, <1>1, <3>4, PayloadWritten
    <3> QED
      BY <1>1, <3>1, <3>2, <3>3, <3>4
  <2> QED
    BY <1>1, <2>1, <2>2, <2>3 DEF NumbersTell
<1>9. CASE PowerCut /\ pc # "invalidated"
  BY <1>4, <1>9 DEF PowerCut, Nothing
<1>10. CASE Adopt
  <2>1. /\ UNCHANGED <<disk, images, saving, numbered>> /\ pc = "published" /\ pc' = "ready"
        /\ \/ running' = [gen |-> saving.gen, image |-> saving.image]
           \/ running' = running /\ hollow' = hollow
    BY <1>10 DEF Adopt, diskVars, history
  <2>2. saving.image = images /\ images \in Images /\ numbered[saving.image] = saving.gen
    BY <1>1, <2>1 DEF SaveUnderway
  <2>3. Sourced
    BY <1>0, <1>1, <2>1, <2>2
  <2> QED
    BY <1>4, <2>1, <2>3
<1> QED
  BY <1>5, <1>6, <1>7, <1>8, <1>9, <1>10 DEF RecNext, Boot, Save

\* A torn slot is not where the kept image is.
LEMMA KeptBesideTorn ==
  ASSUME RecTypeOK, SaveUnderway, InPlace, KeptInPlace, pc \in Torn,
         faults' = faults, faults \subseteq {"evaluator"}, record.trusted = 0, record' = record,
         kept' = kept, saving' = saving, running' = running, pc' \in Underway \cup {"off"},
         \A s \in Slots : s # saving.slot => disk'[s] = disk[s]
  PROVE  KeptInPlace'
<1>1. disk[saving.slot].gen = 0 /\ saving.slot = Home(saving.gen) /\ saving.gen = running.gen + 1
  BY DEF SaveUnderway, InPlace, Underway
<1>2. running.gen \in Nat
  BY DEF RecTypeOK
<1>3. Home(running.gen) \in Slots /\ Home(running.gen) # saving.slot
  BY <1>1, <1>2, HomesAlternate, OtherSlot
<1>4. ASSUME NEW s \in Slots, Valid(s) PROVE Valid(s)' /\ disk'[s].payload = disk[s].payload
  BY <1>1, <1>4 DEF Valid
<1> QED
  BY <1>3, <1>4 DEF KeptInPlace, Underway

LEMMA KeptStays ==
  ASSUME RecTypeOK, DiskWhole, SaveUnderway, RecordKept, InPlace, KeptInPlace, [RecNext]_recVars
  PROVE  KeptInPlace'
<1> SUFFICES ASSUME faults \subseteq {"evaluator"}, record'.trusted = 0, faults' = faults
             PROVE  KeptInPlace'
  BY FaultsStay DEF KeptInPlace
<1> USE OtherSlot, SavedHeader, FaultlessReadings DEF Torn
<1>0. disk \in [Slots -> Contents] /\ running.gen \in Nat /\ saving.slot \in Slots
  BY DEF RecTypeOK
<1>1. record.trusted = 0 /\ (Known => live.trusted = 0)
  BY NothingTrusted
<1>2. /\ kept # NoImage => \E s \in Slots : Valid(s)
      /\ kept # NoImage /\ pc \in Underway \cup {"ready"} => running.gen # 0
      /\ faults = {} /\ kept # NoImage => \E s \in Slots : Valid(s) /\ disk[s].payload = kept
      /\ faults = {} /\ pc \in Underway \cup {"ready"} /\ running.gen # 0
           => disk[Home(running.gen)].payload = kept
      /\ \A s \in Slots : Valid(s) => s = Home(disk[s].gen)
      /\ running.gen # 0 => Valid(Home(running.gen))
      /\ pc \in Underway => saving.slot = Home(saving.gen)
  BY <1>1 DEF KeptInPlace, InPlace
<1>3. ASSUME disk' = disk, kept' = kept,
             pc' \in Underway \cup {"ready"} => pc \in Underway \cup {"ready"} /\ running' = running
      PROVE  KeptInPlace'
  BY <1>2, <1>3 DEF KeptInPlace, Valid
<1>4. ASSUME disk' = disk, pc' = "ready", NEW s \in Slots, Valid(s), Replayed(s)
      PROVE  KeptInPlace'
  <2>1. running'.gen = disk[s].gen /\ kept' = disk[s].payload /\ disk[s].gen # 0 /\ s = Home(disk[s].gen)
    BY <1>2, <1>4 DEF Replayed, Valid
  <2> QED
    BY <1>4, <2>1 DEF KeptInPlace, Valid
<1>5. ASSUME disk' = disk, pc' = "ready", kept' = kept, Loaded(Slots) = {}, running'.gen = 0
      PROVE  KeptInPlace'
  BY <1>2, <1>5 DEF KeptInPlace, Loaded
<1>6. ASSUME disk' = disk, pc' = "ready", kept' = kept, faults # {}, running'.gen # 0
      PROVE  KeptInPlace'
  BY <1>2, <1>6 DEF KeptInPlace, Valid
<1>7. Loaded(Slots) # {} => NewestGen(Slots) # 0
  BY <1>0, NewestIsFirst
<1>8. CASE PowerOn \/ Form \/ Verify \/ Promote \/ UNCHANGED recVars
  BY <1>3, <1>8 DEF PowerOn, Form, Verify, Promote, recVars, diskVars, history, Underway
<1>9. CASE PlanBoot
  <2>1. PlanNewest(Slots) \/ PlanCharged(Slots)
    BY <1>1, <1>9 DEF PlanBoot, PlanRollback, Uncharged, Exhausted
  <2>2. pc' = "replaying" /\ kept' = kept /\ disk' = disk
    BY <1>9, <2>1 DEF PlanBoot, PlanNewest, PlanCharged, SaveRecord, history, diskVars
  <2> QED
    BY <1>3, <2>2 DEF Underway
<1>10. CASE ReplayNewest
  <2>1. disk' = disk /\ pc' = "ready"
    BY <1>10 DEF ReplayNewest, diskVars
  <2>2. \/ \E s \in Slots : Valid(s) /\ Replayed(s)
        \/ Loaded(Slots) = {} /\ kept' = kept /\ running' = Nothing
        \/ Loaded(Slots) # {} /\ faults # {} /\ Rejected(NewestGen(Slots), NoImage)
    BY <1>10 DEF ReplayNewest, Loaded, history
  <2>3. \/ \E s \in Slots : Valid(s) /\ Replayed(s)
        \/ Loaded(Slots) = {} /\ kept' = kept /\ running'.gen = 0
        \/ faults # {} /\ kept' = kept /\ running'.gen # 0
    BY <1>7, <2>2 DEF Rejected, Nothing
  <2> QED
    BY <1>4, <1>5, <1>6, <2>1, <2>3
<1>11. CASE Reload
  <2>1. disk' = disk /\ pc' = "ready"
    BY <1>11 DEF Reload, diskVars
  <2>2. \/ \E s \in Slots : Valid(s) /\ Replayed(s)
        \/ Loaded(Slots) = {} /\ kept' = kept /\ running' = Nothing
        \/ Loaded(Slots) # {} /\ faults # {} /\ Rejected(NewestGen(Slots), running.image)
    BY <1>11 DEF Reload, Loaded
  <2>3. \/ \E s \in Slots : Valid(s) /\ Replayed(s)
        \/ Loaded(Slots) = {} /\ kept' = kept /\ running'.gen = 0
        \/ faults # {} /\ kept' = kept /\ running'.gen # 0
    BY <1>7, <2>2 DEF Rejected, Nothing
  <2> QED
    BY <1>4, <1>5, <1>6, <2>1, <2>3
<1>12. CASE Fault
  BY <1>1, <1>12 DEF Fault
<1>13. CASE BeginSave
  <2> DEFINE t == Home(running.gen + 1)
  <2>1. Protected = 0
    BY <1>1 DEF Protected
  <2>2. /\ saving'.slot = t /\ running' = running /\ kept' = kept
        /\ pc = "ready" /\ pc' = "invalidated"
    BY <1>13, <2>1, UnprotectedTarget DEF BeginSave
  <2>3. disk' = WithHeader(t, NoHeader)
    BY <1>13, <2>2 DEF BeginSave
  <2>4. t \in Slots /\ t = Other(Home(running.gen)) /\ Home(running.gen) \in Slots
    BY <1>0, HomesAlternate
  <2> HIDE DEF t
  <2>5. \A s \in Slots : s # t => disk'[s] = disk[s]
    BY <1>0, <2>3, <2>4, HeaderWritten, BlankHeader
  <2>6. disk'[Home(running.gen)] = disk[Home(running.gen)]
    BY <2>4, <2>5
  <2> QED
    BY <1>2, <2>2, <2>4, <2>6 DEF KeptInPlace, Valid
<1>14. CASE WritePayload \/ Publish
  <2>1. /\ saving' = saving /\ running' = running /\ kept' = kept /\ record' = record
        /\ pc \in Torn /\ pc' \in Underway
        /\ \/ disk' = WithHeader(saving.slot, NewHeader)
           \/ \E p : disk' = WithPayload(saving.slot, p)
    BY <1>14 DEF WritePayload, Publish, history, SaveUnderway, ReadsBack, Underway
  <2>2. \A s \in Slots : s # saving.slot => disk'[s] = disk[s]
    BY <1>0, <2>1, HeaderWritten, PayloadWritten
  <2> QED
    BY <1>1, <2>1, <2>2, KeptBesideTorn
<1>15. CASE PowerCut
  <2>1. pc' = "off" /\ kept' = kept
    BY <1>15 DEF PowerCut
  <2>2. ASSUME NEW s \in Slots, Valid(s) PROVE Valid(s)' /\ disk'[s].payload = disk[s].payload
    <3>1. CASE pc # "invalidated"
      BY <1>15, <2>2, <3>1 DEF PowerCut, Valid
    <3>2. CASE pc = "invalidated"
      <4>1. PICK p \in PartPayload(saving.slot) : disk' = WithPayload(saving.slot, p)
        BY <1>15, <3>2 DEF PowerCut
      <4>2. s # saving.slot
        BY <2>2, <3>2 DEF SaveUnderway, Valid
      <4> QED
        BY <1>0, <2>2, <4>1, <4>2, PayloadWritten DEF Valid
    <3> QED
      BY <3>1, <3>2
  <2> QED
    BY <1>2, <2>1, <2>2 DEF KeptInPlace, Underway
<1>16. CASE Adopt
  <2>1. /\ disk' = disk /\ pc = "published" /\ pc' = "ready"
        /\ \/ running' = running /\ kept' = kept
           \/ /\ running' = [gen |-> saving.gen, image |-> saving.image]
              /\ kept' = saving.image
    BY <1>16 DEF Adopt, diskVars, history
  <2>2. /\ disk[saving.slot].gen = saving.gen /\ Valid(saving.slot) /\ saving.gen # 0
        /\ disk[saving.slot].payload = saving.image /\ saving.slot = Home(saving.gen)
    BY <1>0, <1>2, <2>1 DEF SaveUnderway, Valid, Underway
  <2>3. CASE running' = running /\ kept' = kept
    BY <1>3, <2>1, <2>3 DEF Underway
  <2>4. CASE running' = [gen |-> saving.gen, image |-> saving.image] /\ kept' = saving.image
    BY <1>0, <2>1, <2>2, <2>4 DEF KeptInPlace, Valid
  <2> QED
    BY <2>1, <2>3, <2>4
<1> QED
  BY <1>8, <1>9, <1>10, <1>11, <1>12, <1>13, <1>14, <1>15, <1>16 DEF RecNext, Boot, Save

-----------------------------------------------------------------------------
(* The boots of an unproven generation.                                    *)

\* A save spares the trusted slot, so it overwrites what is on probation.
LEMMA ProbationOverwritten ==
  ASSUME RecTypeOK, DiskWhole, NEW t \in Slots, NEW next \in Nat, live \in Records,
         t = TargetSlot(next, live.trusted, Slots), Accounts(live, Other(t))
  PROVE  FALSE
<1>1. /\ live.trusted # 0 /\ live.trusted # disk[Other(t)].gen /\ Holds(t, live.trusted)
  BY OtherSlot DEF Accounts
<1>2. Home(next) \in Slots /\ Other(Home(next)) \in Slots
  BY HomesAlternate, OtherSlot
<1>3. \/ t = Home(next) /\ ~Holds(t, live.trusted)
      \/ t = Other(Home(next)) /\ Holds(Home(next), live.trusted)
  BY <1>1, <1>2 DEF TargetSlot, Home
<1> QED
  BY <1>1, <1>2, <1>3, OtherSlot DEF Holds

\* What planning charges is what is on probation, if anything is.
LEMMA ProbationIsNewest ==
  ASSUME RecTypeOK, NEW s \in Slots, Counted(s), Accounts(live, s),
         Loaded(Slots) # {}, NewestGen(Slots) # live.trusted
  PROVE  s = First(Slots) /\ NewestGen(Slots) = live.candidate
<1>1. /\ First(Slots) \in Slots /\ disk[First(Slots)].gen = NewestGen(Slots)
  BY NewestIsFirst DEF RecTypeOK
<1>2. First(Slots) # Other(s)
  BY <1>1 DEF Accounts, Holds
<1> QED
  BY <1>1, <1>2, OtherSlot DEF Accounts, Slots, Other

LEMMA NoProbation ==
  ASSUME Known, NEW newest, newest # 0, Uncharged(newest)
  PROVE  ~OnProbation(newest)
BY DEF Uncharged, Adopted, OnProbation

LEMMA ChargedFields ==
  ASSUME live \in Records, NEW newest \in Nat
  PROVE  LET a == Adopted(newest) c == Charged(newest)
         IN  /\ a \in Records /\ a.candidate = newest /\ a.trusted = live.trusted
             /\ newest = live.candidate => a = live
             /\ c.candidate = newest /\ c.trusted = live.trusted
             /\ c.verified = a.verified /\ c.attempts = Saturated(a.attempts)
             /\ c.attempts \in 0 .. Budget
<1>1. Adopted(newest) \in Records /\ Charged(newest) \in Records
  BY AdoptedIsRecord
<1>2. /\ Adopted(newest).candidate = newest /\ Adopted(newest).trusted = live.trusted
      /\ newest = live.candidate => Adopted(newest) = live
  BY DEF Adopted, Records
<1> DEFINE a == Adopted(newest)
           c == Charged(newest)
<1>3. c = [a EXCEPT !.attempts = Saturated(a.attempts)]
  BY DEF Charged
<1> HIDE DEF a, c
<1>4. /\ c.candidate = a.candidate /\ c.trusted = a.trusted
      /\ c.verified = a.verified /\ c.attempts = Saturated(a.attempts)
  BY <1>1, <1>3 DEF Records, a
<1>5. c.attempts \in 0 .. Budget
  BY <1>1 DEF Records, c
<1> QED
  BY <1>1, <1>2, <1>4, <1>5 DEF a, c

LEMMA BootsAccounted ==
  ASSUME RecTypeOK, DiskWhole, SaveUnderway, RecordKept, BudgetKept, [RecNext]_recVars
  PROVE  BudgetKept'
<1> DEFINE Goal ==
      /\ \A i \in Images : boots'[i] <= Budget /\ (i > images' => boots'[i] = 0)
      /\ pc' \in Torn => boots'[saving'.image] = 0
      /\ pc' \in Underway => \A s \in Slots : ~Counted(s)'
      /\ \A s \in Slots :
           Counted(s)' => Accounts(record, s)' /\ (Known' => Accounts(live, s)')
<1> SUFFICES ASSUME faults \subseteq {"write"} PROVE Goal
  BY FaultsStay DEF BudgetKept
<1> USE OtherSlot, SavedHeader
<1>0. /\ disk \in [Slots -> Contents] /\ boots \in [Images -> 0 .. Budget + 1]
      /\ images \in Nat /\ Budget \in Nat \ {0} /\ MaxSaves \in Nat
  BY BudgetRange, WorkspaceConstants DEF RecTypeOK
<1>1. /\ \A i \in Images : boots[i] <= Budget /\ (i > images => boots[i] = 0)
      /\ pc \in Torn => boots[saving.image] = 0
      /\ pc \in Underway => \A s \in Slots : ~Counted(s)
      /\ \A s \in Slots : Counted(s) => Accounts(record, s) /\ (Known => Accounts(live, s))
  BY DEF BudgetKept
<1>2. /\ pc # "off" => Known /\ live \in Records
      /\ pc = "planning" => live = record
      /\ \A seen \in Readings : seen = Slots
  BY FaultlessReadings, RecordsAreKnown DEF RecordKept, RecTypeOK, Known
\* Steps that leave the disk and the boots alone.
<1>3. ASSUME disk' = disk, boots' = boots, images' = images, pc' \notin Underway,
             \A s \in Slots : Counted(s) => Accounts(record', s),
             \A s \in Slots : Counted(s) => (Known' => Accounts(live', s))
      PROVE  Goal
  <2>1. \A s \in Slots : (Counted(s)' <=> Counted(s))
    BY <1>3 DEF Counted, Valid
  <2>2. ASSUME NEW s \in Slots, Counted(s)
        PROVE  Accounts(record, s)' /\ (Known' => Accounts(live, s)')
    <3>1. Accounts(record', s) /\ (Known' => Accounts(live', s))
      BY <1>3, <2>2 DEF Accounts, Counted
    <3>2. Accounts(record', s) => Accounts(record, s)'
      BY <1>3 DEF Accounts, Holds, Valid
    <3>3. Accounts(live', s) => Accounts(live, s)'
      BY <1>3 DEF Accounts, Holds, Valid
    <3> QED
      BY <3>1, <3>2, <3>3
  <2> QED
    BY <1>1, <1>3, <2>1, <2>2 DEF Underway
\* Steps after which nothing is on probation.
<1>4. ASSUME boots' = boots, images' = images, saving' = saving, pc' \in Torn => pc \in Torn,
             \A s \in Slots : ~Counted(s)'
      PROVE  Goal
  BY <1>1, <1>4
<1> HIDE DEF Goal
<1>5. CASE PowerOn
  BY <1>1, <1>3, <1>5 DEF PowerOn, diskVars, Underway, Torn
<1>6. CASE ReplayNewest \/ Reload
  <2>1. /\ disk' = disk /\ boots' = boots /\ images' = images /\ pc' = "ready"
        /\ record' = record /\ live' = live
    BY <1>6 DEF ReplayNewest, Reload, diskVars
  <2>2. Known' <=> Known
    BY <2>1 DEF Known
  <2> QED
    BY <1>1, <1>3, <2>1, <2>2 DEF Underway, Torn
<1>7. CASE Adopt
  <2>1. disk' = disk /\ boots' = boots /\ images' = images /\ pc' = "ready" /\ pc = "published"
    BY <1>7 DEF Adopt, diskVars
  <2> QED
    BY <1>1, <1>3, <2>1 DEF Underway, Torn
<1>8. CASE Promote
  <2>1. /\ disk' = disk /\ boots' = boots /\ images' = images /\ pc' = "ready"
        /\ Known /\ live.verified
    BY <1>8 DEF Promote, diskVars
  <2>2. \A s \in Slots : ~Counted(s)
    BY <1>1, <2>1 DEF Accounts
  <2> QED
    BY <1>3, <2>1, <2>2 DEF Underway, Torn
<1>9. CASE Fault
  <2>1. /\ disk' = disk /\ boots' = boots /\ images' = images /\ pc' = "ready"
        /\ live' = GiveUp /\ record' \in {record, GiveUp} /\ Known
    BY <1>9 DEF Fault, diskVars, SaveRecord
  <2>2. ASSUME NEW s \in Slots, Counted(s) PROVE Accounts(GiveUp, s)
    <3>1. Accounts(live, s) /\ live \in Records
      BY <1>1, <2>1, <2>2 DEF RecTypeOK, Known
    <3>2. live.candidate # 0
      BY <3>1, <2>2 DEF Accounts, Counted, Valid
    <3>3. /\ GiveUp.candidate = live.candidate /\ GiveUp.trusted = live.trusted
          /\ GiveUp.attempts = Budget /\ GiveUp.verified = FALSE
      BY <3>1, <3>2 DEF GiveUp, Records
    <3>4. boots[disk[s].payload] <= Budget
      BY <1>1, <2>2, ValidIsSaved DEF Counted
    <3> QED
      BY <3>1, <3>3, <3>4 DEF Accounts
  <2> QED
    BY <1>1, <1>3, <2>1, <2>2 DEF Underway, Torn
<1>10. CASE Form \/ Verify
  <2>1. /\ disk' = disk /\ images' = images /\ saving' = saving /\ pc = "ready" /\ pc' = "ready"
        /\ Known /\ boots' = Healthy(live.candidate)
    BY <1>10 DEF Form, Verify, diskVars
  <2>2. \A i \in Images : /\ boots'[i] \in {0, boots[i]}
                          /\ (\E s \in Slots : Holds(s, live.candidate) /\ disk[s].payload = i)
                             => boots'[i] = 0
    BY <2>1 DEF Healthy
  <2>3. ASSUME NEW s \in Slots, Counted(s)' PROVE FALSE
    <3>1. Valid(s) /\ boots'[disk[s].payload] > 0
      BY <2>1, <2>3 DEF Counted, Valid
    <3>2. disk[s].payload \in Images
      BY <3>1, ValidIsSaved
    <3>3. Counted(s)
      BY <2>2, <3>1, <3>2, <1>0 DEF Counted
    <3>4. Holds(s, live.candidate)
      BY <1>1, <2>1, <3>1, <3>3 DEF Accounts, Holds
    <3> QED
      BY <2>2, <3>1, <3>2, <3>4
  <2> QED
    BY <1>0, <1>1, <2>1, <2>2, <2>3 DEF Goal, Underway, Torn
<1>11. CASE BeginSave
  <2> DEFINE t == saving'.slot
  <2>1. /\ images' = images + 1 /\ saving'.image = images + 1 /\ images + 1 \in Images
        /\ t \in Slots /\ boots' = boots /\ record' = record /\ live' = live /\ pc = "ready"
        /\ pc' \in {"ready", "invalidated"}
        /\ \/ disk' = disk /\ pc' = "ready"
           \/ disk'[t].gen = 0 /\ disk'[Other(t)] = disk[Other(t)]
    BY <1>11, SaveBegins DEF BeginSave
  <2>2. /\ running.gen + 1 \in Nat /\ Known /\ live \in Records
        /\ t = TargetSlot(running.gen + 1, live.trusted, Slots)
    BY <1>2, <1>11 DEF BeginSave, Protected, RecTypeOK
  <2> HIDE DEF t
  <2>3. ~Counted(Other(t))
    BY <1>1, <2>1, <2>2, ProbationOverwritten
  <2>4. ASSUME disk'[t].gen = 0, disk'[Other(t)] = disk[Other(t)], NEW s \in Slots
        PROVE  ~Counted(s)'
    <3>1. s = t \/ s = Other(t)
      BY <2>1 DEF Slots, Other
    <3> QED
      BY <2>1, <2>3, <2>4, <3>1 DEF Counted, Valid
  <2>5. /\ \A i \in Images : boots'[i] <= Budget /\ (i > images' => boots'[i] = 0)
        /\ boots'[saving'.image] = 0
    BY <1>0, <1>1, <2>1 DEF Images
  <2>6. CASE disk' = disk /\ pc' = "ready"
    BY <1>1, <2>1, <2>2, <2>5, <2>6
    DEF Goal, Underway, Torn, Counted, Accounts, Valid, Holds
  <2> QED
    BY <2>1, <2>4, <2>5, <2>6 DEF Goal
<1>12. CASE WritePayload \/ (PowerCut /\ pc = "invalidated")
  <2>1. /\ boots' = boots /\ images' = images /\ saving' = saving /\ pc = "invalidated"
        /\ \E p \in PartPayload(saving.slot) : disk' = WithPayload(saving.slot, p)
    BY <1>12 DEF WritePayload, PowerCut, PartPayload
  <2>2. /\ disk'[saving.slot].gen = 0
        /\ \A s \in Slots : s # saving.slot => disk'[s] = disk[s]
    BY <1>0, <2>1, PayloadWritten DEF SaveUnderway, Torn
  <2>3. ASSUME NEW s \in Slots PROVE ~Counted(s)'
    BY <1>1, <2>1, <2>2 DEF Counted, Valid, Underway, Torn
  <2> QED
    BY <1>4, <2>1, <2>3 DEF Torn
<1>13. CASE PowerCut /\ pc # "invalidated"
  BY <1>1, <1>3, <1>13 DEF PowerCut, Underway, Torn, Known
<1>14. CASE Publish
  <2>1. /\ boots' = boots /\ images' = images /\ saving' = saving /\ pc = "staged"
        /\ \/ disk' = disk \/ disk' = WithHeader(saving.slot, NewHeader)
           \/ disk' = WithHeader(saving.slot, NoHeader)
    BY <1>14 DEF Publish
  <2>2. /\ disk'[saving.slot].payload = saving.image
        /\ \A s \in Slots : s # saving.slot => disk'[s] = disk[s]
    BY <1>0, <2>1, HeaderWritten, BlankHeader DEF SaveUnderway
  <2>3. boots[saving.image] = 0 /\ \A s \in Slots : ~Counted(s)
    BY <1>1, <2>1 DEF Underway, Torn
  <2>4. ASSUME NEW s \in Slots PROVE ~Counted(s)'
    BY <2>1, <2>2, <2>3 DEF Counted, Valid
  <2> QED
    BY <1>4, <2>1, <2>4 DEF Torn
<1>15. CASE PlanBoot
  <2> DEFINE n == NewestGen(Slots)
             f == First(Slots)
  <2>1. /\ disk' = disk /\ images' = images /\ saving' = saving /\ pc = "planning"
        /\ boots' = Begun(Slots)
        /\ PlanNewest(Slots) \/ PlanRollback(Slots) \/ PlanCharged(Slots)
    BY <1>2, <1>15, FaultlessReadings DEF PlanBoot, diskVars
  <2>2. Known /\ live = record /\ live \in Records /\ pc' \notin Underway
    BY <1>2, <2>1 DEF PlanNewest, PlanRollback, PlanCharged, Underway, Torn
  <2>3. /\ Loaded(Slots) = {} => n = 0
        /\ Loaded(Slots) # {} => f \in Slots /\ Valid(f) /\ disk[f].gen = n
        /\ n \in Nat
    BY <1>0, NewestIsFirst, NewestIsNumber DEF NewestGen
  <2>4. CASE PlanNewest(Slots) \/ PlanRollback(Slots)
    <3>1. record' = record /\ live' = live
      BY <2>4 DEF PlanNewest, PlanRollback
    <3>2. boots' = boots
      <4>1. CASE PlanNewest(Slots)
        <5>1. Loaded(Slots) # {} => ~OnProbation(NewestGen(Slots))
          BY <4>1, <2>2, <2>3, NoProbation DEF PlanNewest, Valid
        <5> QED
          BY <2>1, <5>1 DEF Begun
      <4>2. CASE PlanRollback(Slots)
        BY <2>1, <4>2 DEF PlanRollback, Begun, OnProbation, OnDisk
      <4> QED
        BY <2>4, <4>1, <4>2
    <3>3. Known' <=> Known
      BY <3>1 DEF Known
    <3> QED
      BY <1>1, <1>3, <2>1, <2>2, <3>1, <3>2, <3>3
  <2>5. CASE PlanCharged(Slots)
    <3> DEFINE a == Adopted(NewestGen(Slots))
               c == Charged(NewestGen(Slots))
               i == disk[f].payload
    <3>1. /\ live' = c /\ record' \in {record, c}
          /\ pc' = "replaying" => record' = c
      BY <2>5 DEF PlanCharged, SaveRecord
    <3>2. /\ n # 0 /\ n # live.trusted /\ ~a.verified
          /\ a.attempts < Budget \/ live.trusted = 0
      BY <2>2, <2>5, AdoptedIsRecord, <1>0, <2>3 DEF PlanCharged, Uncharged, Exhausted, Records
    <3>3. /\ a \in Records /\ a.candidate = n /\ a.trusted = live.trusted
          /\ n = live.candidate => a = live
          /\ c.candidate = n /\ c.trusted = live.trusted
          /\ c.verified = a.verified /\ c.attempts = Saturated(a.attempts)
          /\ c.attempts \in 0 .. Budget
      BY <2>2, <2>3, ChargedFields
    <3>4. f \in Slots /\ Valid(f) /\ disk[f].gen = n /\ i \in Images /\ i <= images
      BY <2>3, <3>2, ValidIsSaved
    <3> HIDE DEF a, c
    <3>5. ASSUME NEW s \in Slots, Counted(s)
          PROVE  s = f /\ n = live.candidate /\ Accounts(live, s) /\ Accounts(c, s)
      <4>1. s = f /\ n = live.candidate /\ Accounts(live, s)
        BY <1>1, <2>2, <2>3, <3>2, <3>5, ProbationIsNewest
      <4>2. live.attempts <= c.attempts /\ live.attempts \in 0 .. Budget
        BY <1>0, <2>2, <3>3, <4>1 DEF Saturated, Records
      <4>3. boots[disk[s].payload] \in Nat
        BY <1>0, <3>4, <4>1
      <4> QED
        BY <1>0, <3>2, <3>3, <4>1, <4>2, <4>3 DEF Accounts
    <3>6. CASE boots' = boots
      BY <1>1, <1>3, <2>1, <2>2, <3>1, <3>5, <3>6
    <3>7. CASE boots' # boots
      <4>1. /\ pc' = "replaying" /\ OnProbation(NewestGen(Slots))
            /\ boots' = [boots EXCEPT ![i] = IF @ <= Budget THEN @ + 1 ELSE @]
        BY <2>1, <3>7 DEF Begun
      <4>2. /\ live' = c /\ record' = c /\ live.trusted # 0 /\ a.attempts < Budget
            /\ Holds(Other(f), live.trusted)
        BY <3>1, <3>2, <3>4, <4>1 DEF OnProbation, OnDisk, Holds, Slots, Other
      <4>3. /\ boots'[i] = boots[i] + 1
            /\ \A j \in Images : j # i => boots'[j] = boots[j]
        BY <1>0, <1>1, <3>4, <4>1
      <4>4. boots[i] <= a.attempts
        <5>1. CASE Counted(f)
          BY <3>3, <3>4, <3>5, <5>1 DEF Accounts
        <5>2. CASE ~Counted(f)
          BY <1>0, <3>3, <3>4, <5>2 DEF Counted, Records
        <5> QED
          BY <5>1, <5>2
      <4>5. boots'[i] <= c.attempts /\ c.attempts <= Budget
        BY <1>0, <3>3, <3>4, <4>2, <4>3, <4>4 DEF Saturated, Records
      <4>6. ASSUME NEW s \in Slots, Counted(s)' PROVE s = f
        <5>1. CASE s # f
          <6>1. Valid(s) /\ disk[s].payload # i /\ disk[s].payload \in Images
            <7>1. s = Other(f) /\ Valid(s)
              BY <2>1, <3>4, <4>6, <5>1 DEF Counted, Valid, Slots, Other
            <7> QED
              BY <3>4, <7>1, ValidIsSaved DEF DiskWhole
          <6>2. Counted(s)
            BY <2>1, <4>3, <4>6, <6>1 DEF Counted
          <6> QED
            BY <3>5, <6>2
        <5> QED
          BY <5>1
      <4>7. ASSUME NEW s \in Slots, s = f PROVE Accounts(record, s)' /\ Accounts(live, s)'
        <5>1. disk'[s].payload = i /\ disk'[s].gen = n
          BY <2>1, <3>4, <4>7
        <5>2. Valid(Other(s))' /\ disk'[Other(s)].gen = live.trusted
          BY <2>1, <4>2, <4>7 DEF Holds, Valid
        <5> QED
          BY <3>2, <3>3, <4>2, <4>5, <5>1, <5>2 DEF Accounts, Holds
      <4> QED
        <5>1. \A j \in Images : boots'[j] <= Budget /\ (j > images' => boots'[j] = 0)
          <6>1. images' = images /\ i <= images /\ i \in Images
            BY <2>1, <3>4
          <6>2. ASSUME NEW j \in Images, j # i
                PROVE  boots'[j] <= Budget /\ (j > images' => boots'[j] = 0)
            BY <1>1, <4>3, <6>1, <6>2
          <6>3. boots'[i] <= Budget
            BY <1>0, <3>3, <3>4, <4>3, <4>5
          <6>4. ~(i > images')
            BY <1>0, <6>1 DEF Images
          <6> QED
            BY <6>2, <6>3, <6>4
        <5> QED
          BY <2>2, <4>6, <4>7, <5>1 DEF Goal, Underway
    <3> QED
      BY <3>6, <3>7
  <2> QED
    BY <2>1, <2>4, <2>5
<1>16. CASE UNCHANGED recVars
  BY <1>1, <1>16 DEF Goal, recVars, Counted, Valid, Accounts, Holds, Known
<1> QED
  BY <1>5, <1>6, <1>7, <1>8, <1>9, <1>10, <1>11, <1>12, <1>13, <1>14, <1>15, <1>16
  DEF RecNext, Boot, Save, Goal

-----------------------------------------------------------------------------
(* The invariant, and what follows from it.                                *)

THEOREM RecInvariant == RecSpec => []RecInv
<1>1. RecInit => RecInv
  <2> SUFFICES ASSUME RecInit PROVE RecInv
    OBVIOUS
  <2>1. RecTypeOK
    BY TypesAtFirst
  <2>2. /\ \A s \in Slots : disk[s].gen = 0 /\ disk[s].payload = 0
        /\ pc = "off" /\ running = Nothing /\ live = NoRecord /\ images = 0
        /\ told = Silent /\ boots = [i \in Images |-> 0]
    BY DEF RecInit, WorkspaceInit, BlankSlot, NoImage
  <2>3. DiskWhole /\ SaveUnderway /\ RecordKept /\ RunsFromDisk /\ ReportedSurvives
    BY <2>2 DEF DiskWhole, SaveUnderway, RecordKept, RunsFromDisk, ReportedSurvives,
       Known, Underway, Torn, Silent, Images
  <2>4. BudgetKept /\ InPlace
    BY <2>2, BudgetRange DEF BudgetKept, InPlace, Counted, Valid, Underway, Torn, Nothing
  <2>5. NumbersTell /\ KeptInPlace
    BY <2>2 DEF NumbersTell, KeptInPlace, Underway, Torn, Nothing, RecInit
  <2> QED
    BY <2>1, <2>3, <2>4, <2>5 DEF RecInv
<1>2. RecInv /\ [RecNext]_recVars => RecInv'
  BY TypesKept, NumbersKept, KeptStays, DiskKept, SavingKept, RecordStep, RunningKept, ReportKept,
     BootsAccounted, PlacesKept DEF RecInv
<1> QED
  BY <1>1, <1>2, PTL DEF RecSpec

(* What was reported saved stays whole on the disk until the next save begins,  *)
(* under any fault; where only the power fails and nothing was promoted, also   *)
(* through that save and every later one until another is reported or a boot    *)
(* restores one; a slot torn open by a save has a whole generation beside it,   *)
(* and no mixture that a torn save left is ever run (workspace.rs, save).       *)
THEOREM SavedStays == RecSpec => []SavedSurvives
<1>1. RecInv => SavedSurvives
  <2> SUFFICES ASSUME RecInv PROVE SaveLeavesTwin
    BY DEF RecInv, SavedSurvives, KeptInPlace, KeptSurvives
  <2> SUFFICES ASSUME "write" \notin faults, pc \in Torn, running.gen # 0,
                      record.trusted = 0 \/ OnDisk(record.trusted)
               PROVE  Valid(Other(saving.slot))
    BY DEF SaveLeavesTwin, Torn
  <2>1. /\ disk[saving.slot].gen = 0 /\ saving.gen = running.gen + 1
        /\ saving.slot \in Slots /\ running.gen \in Nat
    BY DEF RecInv, RecTypeOK, SaveUnderway, Underway, Torn
  <2>2. CASE record.trusted = 0
    <3>1. Valid(Home(running.gen)) /\ saving.slot = Home(running.gen + 1)
      BY <2>1, <2>2 DEF RecInv, InPlace, Underway, Torn
    <3>2. Home(running.gen) = Other(saving.slot)
      BY <2>1, <3>1, HomesAlternate, OtherSlot
    <3> QED
      BY <3>1, <3>2
  <2>3. CASE OnDisk(record.trusted)
    <3>1. PICK s \in Slots : Valid(s)
      BY <2>3 DEF OnDisk, Holds
    <3>2. s = Other(saving.slot)
      BY <2>1, <3>1 DEF Valid, Slots, Other
    <3> QED
      BY <3>1, <3>2
  <2> QED
    BY <2>2, <2>3
<1> QED
  BY <1>1, RecInvariant, PTL

(* No image is begun on probation more often than the budget, whatever writes   *)
(* are lost and wherever the power fails (recovery.rs, plan_boot).              *)
THEOREM BudgetStays == RecSpec => []BudgetHonoured
<1>1. RecInv => BudgetHonoured
  BY DEF RecInv, BudgetKept, BudgetHonoured
<1> QED
  BY <1>1, RecInvariant, PTL

(* Whatever fails, a form is evidence only when the evaluator holds an image    *)
(* saved under the candidate's number, unless its replay failed and left it     *)
(* empty; where nothing fails that image is on the disk (recovery.rs, healthy). *)
THEOREM EvidenceIsOfCandidate == RecSpec => HealthIsEvidence
<1>1. RecInv /\ Form /\ ~hollow
      => /\ running.image # NoImage /\ numbered[running.image] = live.candidate
         /\ faults = {} =>
              \E s \in Slots : Holds(s, live.candidate) /\ disk[s].payload = running.image
  BY DEF RecInv, RunsFromDisk, NumbersTell, Form, Images, NoImage
<1> QED
  BY <1>1, RecInvariant, PTL DEF HealthIsEvidence

(* No step takes the rollback point off a disk that answers, while it stays the *)
(* rollback point (workspace.rs, save).                                         *)
THEOREM TrustedStays == RecSpec => TrustedKept
<1>1. ASSUME RecInv, [RecNext]_recVars, faults \subseteq {"evaluator"}, record.trusted # 0,
             OnDisk(record.trusted), record'.trusted = record.trusted
      PROVE  OnDisk(record.trusted)'
  <2> USE OtherSlot, SavedHeader
  <2>0. RecTypeOK /\ disk \in [Slots -> Contents] /\ running.gen \in Nat
    BY <1>1 DEF RecInv, RecTypeOK
  <2>1. PICK s \in Slots : Holds(s, record.trusted)
    BY <1>1 DEF OnDisk
  <2>2. ASSUME disk'[s] = disk[s] PROVE OnDisk(record.trusted)'
    BY <1>1, <2>1, <2>2 DEF OnDisk, Holds, Valid
  <2>3. CASE BeginSave
    <3> DEFINE t == saving'.slot
    <3>1. /\ t \in Slots
          /\ disk' = disk \/ disk'[Other(t)] = disk[Other(t)]
      BY <2>0, <2>3, SaveBegins
    <3>2. /\ Known /\ live = record /\ live \in Records
          /\ t = TargetSlot(running.gen + 1, live.trusted, Slots)
      BY <1>1, <2>0, <2>3, FaultlessReadings
      DEF RecInv, RecordKept, RecTypeOK, BeginSave, Protected, Known
    <3> HIDE DEF t
    <3>3. Home(running.gen + 1) \in Slots
      BY <2>0, HomesAlternate
    <3>4. \/ t = Home(running.gen + 1) /\ ~Holds(t, record.trusted)
          \/ t = Other(Home(running.gen + 1)) /\ Holds(Home(running.gen + 1), record.trusted)
      BY <1>1, <3>2, <3>3 DEF TargetSlot, Home
    <3>5. Holds(Other(t), record.trusted)
      BY <2>1, <3>1, <3>3, <3>4 DEF Slots, Other
    <3> QED
      BY <1>1, <3>1, <3>5 DEF OnDisk, Holds, Valid
  <2>4. CASE WritePayload \/ Publish \/ PowerCut
    <3>1. CASE disk' = disk
      BY <2>2, <3>1
    <3>2. CASE disk' # disk
      <4>1. /\ pc \in Torn
            /\ \/ disk' = WithHeader(saving.slot, NewHeader)
               \/ disk' = WithHeader(saving.slot, NoHeader)
               \/ \E p \in PartPayload(saving.slot) : disk' = WithPayload(saving.slot, p)
        BY <2>4, <3>2 DEF WritePayload, Publish, PowerCut, PartPayload, Torn
      <4>2. \A t \in Slots : t # saving.slot => disk'[t] = disk[t]
        BY <2>0, <4>1, HeaderWritten, PayloadWritten, BlankHeader
      <4>3. s # saving.slot
        BY <1>1, <2>1, <4>1 DEF RecInv, SaveUnderway, Holds, Valid
      <4> QED
        BY <2>2, <4>2, <4>3
    <3> QED
      BY <3>1, <3>2
  <2>5. CASE ~BeginSave /\ ~WritePayload /\ ~Publish /\ ~PowerCut
    BY <1>1, <2>2, <2>5, QuietSteps
  <2> QED
    BY <2>3, <2>4, <2>5
<1>2. RecInv /\ [RecNext]_recVars
      => [ faults \subseteq {"evaluator"} /\ record.trusted # 0 /\ OnDisk(record.trusted)
           /\ record.trusted' = record.trusted => OnDisk(record.trusted)' ]_recVars
  BY <1>1
<1> QED
  BY <1>2, RecInvariant, PTL DEF RecSpec, TrustedKept
=============================================================================
