------------------------------ MODULE Recovery ------------------------------
(***************************************************************************)
(* Durable recovery (boot/kernel/src/recovery.rs, with the boot and the    *)
(* commands of isolated_repl.rs that call it): one disk record names the   *)
(* trusted generation, the candidate still earning trust, how many boots   *)
(* the candidate has been charged, and whether one of them was healthy.    *)
(*                                                                         *)
(* The machine may lose power between any two steps.  A step makes at most *)
(* one durable write that can land by itself, so a cut during a write is a *)
(* cut before or after the step; the many sectors of a payload are the     *)
(* exception, and PowerCut leaves any of their states.  A command changes  *)
(* the record in memory first and writes it second, so a failed write      *)
(* leaves memory ahead of the disk.                                        *)
(***************************************************************************)
EXTENDS Workspace

CONSTANTS
  Budget,     \* ATTEMPT_BUDGET
  Commands,   \* the commands the operator may give
  MaxFaultySaves   \* bound: how many of MaxSaves a behaviour with faults begins

ASSUME RecoveryConstants ==
  /\ Budget \in Nat \ {0} /\ MaxFaultySaves \in 0 .. MaxSaves
  /\ Commands \subseteq {"save", "reload", "form", "verify", "promote", "fault"}

VARIABLES
  record,   \* the recovery record on the disk
  live,     \* LiveRecovery::record, or NoRecord when it could not be read
  pc,       \* where the supervisor is
  running,  \* the generation and image the evaluator was built from
  told,     \* what the last :save reported
  boots,    \* history: boots of an image since it last showed health
  kept,     \* history: the image last reported saved or restored
  hollow,   \* history: whether the generation number the supervisor holds is that
            \* of an image the evaluator failed to replay
  numbered  \* history: the number each image was saved under

diskVars == <<disk, saving, images>>
history  == <<kept, hollow, numbered>>
recVars  == <<disk, saving, images, faults, record, live, pc, running, told, boots,
              kept, hollow, numbered>>

\* The code compares attempts with the budget and otherwise only prints it, so
\* it is counted no further than the budget.
Records == [trusted : Nat, candidate : Nat, attempts : 0 .. Budget,
            verified : BOOLEAN]

EmptyRecord == [trusted |-> 0, candidate |-> 0, attempts |-> 0,
                verified |-> FALSE]
NoRecord    == [EmptyRecord EXCEPT !.attempts = -1]
Nothing     == [gen |-> 0, image |-> NoImage]
Outcomes    == {"nothing", "saved", "saved, reload required", "failed", "indeterminate"}
Silent      == [image |-> NoImage, outcome |-> "nothing"]

Known == live # NoRecord

Phases == {"off", "planning", "replaying", "ready", "invalidated", "staged",
           "published"}

RecInit ==
  /\ WorkspaceInit
  /\ record = EmptyRecord /\ live = NoRecord
  /\ pc = "off" /\ running = Nothing /\ told = Silent
  /\ boots = [i \in Images |-> 0] /\ kept = NoImage /\ hollow = FALSE
  /\ numbered = [i \in Images |-> 0]

-----------------------------------------------------------------------------
\* save_record: the memory copy becomes r, and then r is written.  `written`
\* is whether the call succeeded.
SaveRecord(r, written) ==
  /\ live' = r
  /\ \/ written /\ record' = r
     \/ ~written /\ "write" \in faults /\ record' \in {record, r}

Saturated(n) == IF n < Budget THEN n + 1 ELSE Budget

\* Mutant: the older generation is replayed under the number of the newest.
Replayed_NewestNumber(s) ==
  /\ running' = [gen |-> NewestGen(Slots), image |-> disk[s].payload]
  /\ kept' = disk[s].payload /\ hollow' = FALSE /\ UNCHANGED numbered

\* The evaluator is rebuilt from the generation in slot s.
Replayed(s) ==
  /\ running' = [gen |-> disk[s].gen, image |-> disk[s].payload]
  /\ kept' = disk[s].payload /\ hollow' = FALSE /\ UNCHANGED numbered

\* Nothing could be replayed, and the number of a generation is kept all the same.
Rejected(number, image) ==
  /\ running' = [gen |-> number, image |-> image]
  /\ hollow' = TRUE /\ UNCHANGED <<kept, numbered>>

\* Generation `newest` has shown no health and could be rolled back.
OnProbation(newest) ==
  /\ Known /\ ~(live.verified /\ live.candidate = newest)
  /\ live.trusted # 0 /\ newest # live.trusted /\ OnDisk(live.trusted)

\* A boot that is going to replay the newest generation counts against it.
Begun(seen) ==
  IF pc' = "replaying" /\ Loaded(seen) # {} /\ OnProbation(NewestGen(seen))
  THEN LET i == disk[First(seen)].payload
       IN  [boots EXCEPT ![i] = IF @ <= Budget THEN @ + 1 ELSE @]
  ELSE boots

\* Health was recorded for generation gen, so for the image that has its number.
Healthy(gen) ==
  [i \in Images |->
     IF \E s \in Slots : Holds(s, gen) /\ disk[s].payload = i
     THEN 0 ELSE boots[i]]

-----------------------------------------------------------------------------
(* Booting.                                                                *)

\* LiveRecovery::load: a record that cannot be read leaves the machine with
\* no recovery plane for this boot.
PowerOn ==
  /\ pc = "off"
  /\ \/ live' = record
     \/ "read" \in faults /\ live' = NoRecord
  /\ pc' = "planning" /\ running' = Nothing
  /\ UNCHANGED <<diskVars, record, told, boots, history>>

\* Mutant: every boot gives the newest generation a fresh budget.
Adopted_Always(newest) ==
  [live EXCEPT !.candidate = newest, !.attempts = 0, !.verified = FALSE]

\* A newest generation the record does not know becomes its candidate.
Adopted(newest) ==
  IF newest = live.candidate THEN live
  ELSE [live EXCEPT !.candidate = newest, !.attempts = 0, !.verified = FALSE]

Uncharged(newest) ==
  ~Known \/ newest \in {0, live.trusted} \/ Adopted(newest).verified

Exhausted(newest) ==
  Adopted(newest).attempts >= Budget /\ live.trusted # 0

PlanNewest(seen) ==
  /\ Uncharged(NewestGen(seen))
  /\ pc' = "replaying"
  /\ UNCHANGED <<live, record, running, history>>

\* The candidate has spent its budget: the trusted generation is replayed, or
\* the newest after all when that one is missing or fails to replay.
PlanRollback(seen) ==
  /\ ~Uncharged(NewestGen(seen)) /\ Exhausted(NewestGen(seen))
  /\ \/ \E s \in seen :
          /\ Holds(s, live.trusted)
          /\ \A t \in seen : Holds(t, live.trusted) => s = "A" \/ t = "B"
          /\ Replayed(s) /\ pc' = "ready"
     \/ /\ "evaluator" \in faults \/ \A s \in seen : ~Holds(s, live.trusted)
        /\ pc' = "replaying" /\ UNCHANGED <<running, history>>
  /\ UNCHANGED <<live, record>>

\* Mutant: the boot is recorded but not counted.
Charged_Uncounted(newest) == Adopted(newest)

Charged(newest) ==
  [Adopted(newest) EXCEPT !.attempts = Saturated(Adopted(newest).attempts)]

PlanCharged(seen) ==
  /\ ~Uncharged(NewestGen(seen)) /\ ~Exhausted(NewestGen(seen))
  /\ \E written \in BOOLEAN :
       /\ SaveRecord(Charged(NewestGen(seen)), written)
       /\ pc' = IF written THEN "replaying" ELSE "ready"
  /\ UNCHANGED <<running, history>>

PlanBoot ==
  /\ pc = "planning"
  /\ \E seen \in Readings :
       /\ \/ LoadFails(seen) /\ pc' = "ready" /\ UNCHANGED <<live, record, running, history>>
          \/ ~LoadFails(seen) /\ (PlanNewest(seen) \/ PlanRollback(seen) \/ PlanCharged(seen))
       /\ boots' = Begun(seen)
  /\ UNCHANGED <<diskVars, told>>

\* Replay what the disk holds, newest first; a generation the evaluator fails
\* on is passed over, and when all are, only their number is remembered.
ReplayNewest ==
  /\ pc = "replaying"
  /\ \E seen \in Readings :
       \/ \E s \in Loaded(seen) :
            (s = First(seen) \/ "evaluator" \in faults) /\ Replayed(s)
       \/ Loaded(seen) = {} /\ running' = Nothing /\ UNCHANGED history
       \/ /\ Loaded(seen) # {} /\ "evaluator" \in faults
          /\ Rejected(NewestGen(seen), NoImage)
  /\ pc' = "ready"
  /\ UNCHANGED <<diskVars, record, live, told, boots>>

-----------------------------------------------------------------------------
(* Saving: native_session::save and workspace::save, then on_saved.        *)

SavesAllowed == IF faults = {} THEN MaxSaves ELSE MaxFaultySaves

Protected == IF Known THEN live.trusted ELSE 0

Told(outcome) == [image |-> saving.image, outcome |-> outcome]

Numbered(image, number) == [numbered EXCEPT ![image] = number]

\* The sources were staged in an empty candidate world; the header of the
\* slot is blanked before its payload changes.
BeginSave ==
  /\ pc = "ready" /\ "save" \in Commands /\ images < SavesAllowed
  /\ images' = images + 1
  /\ \E seen \in Readings :
       saving' = [slot  |-> TargetSlot(running.gen + 1, Protected, seen),
                  gen   |-> running.gen + 1,
                  image |-> images + 1]
  /\ \/ /\ disk' = WithHeader(saving.slot', NoHeader)
        /\ pc' = "invalidated" /\ told' = Silent
     \/ /\ "write" \in faults
        /\ disk' \in {disk, WithHeader(saving.slot', NoHeader)}
        /\ pc' = pc /\ told' = Told("failed")'
  /\ numbered' = Numbered(images + 1, running.gen + 1)
  /\ UNCHANGED <<record, live, running, boots, kept, hollow>>

WritePayload ==
  /\ pc = "invalidated"
  /\ \/ /\ disk' = WithPayload(saving.slot, saving.image)
        /\ pc' = "staged" /\ UNCHANGED told
     \/ /\ "write" \in faults
        /\ \E p \in PartPayload(saving.slot) : disk' = WithPayload(saving.slot, p)
        /\ pc' = "ready" /\ told' = Told("failed")
  /\ UNCHANGED <<saving, images, record, live, running, boots, history>>

\* Publication: the header, its flush, and a read back that blanks the header
\* again when it does not show what was written.
ReadsBack == disk[saving.slot].payload = saving.image

Publish ==
  /\ pc = "staged"
  /\ \/ /\ ReadsBack
        /\ disk' = WithHeader(saving.slot, NewHeader)
        /\ pc' = "published" /\ UNCHANGED told
     \/ /\ "write" \in faults
        /\ disk' \in {disk, WithHeader(saving.slot, NewHeader)}
        /\ pc' = "ready" /\ told' = Told("failed")
     \/ /\ ~ReadsBack \/ "read" \in faults
        /\ disk' = WithHeader(saving.slot, NoHeader)
        /\ pc' = "ready" /\ told' = Told("failed")
     \/ /\ ~ReadsBack \/ "read" \in faults
        /\ "write" \in faults
        /\ disk' \in {WithHeader(saving.slot, NewHeader), WithHeader(saving.slot, NoHeader)}
        /\ pc' = "ready" /\ told' = Told("indeterminate")
  /\ UNCHANGED <<saving, images, record, live, running, boots, history>>

OnSaved == [live EXCEPT !.candidate = saving.gen, !.attempts = 0, !.verified = FALSE]

\* The evaluator adopts the staged world, and the new generation becomes the
\* record's candidate.
Adopt ==
  /\ pc = "published" /\ pc' = "ready"
  /\ \/ /\ running' = [gen |-> saving.gen, image |-> saving.image]
        /\ told' = Told("saved")
        /\ kept' = saving.image /\ hollow' = FALSE /\ UNCHANGED numbered
        /\ IF Known THEN \E written \in BOOLEAN : SaveRecord(OnSaved, written)
                    ELSE UNCHANGED <<live, record>>
     \/ /\ "evaluator" \in faults
        /\ told' = Told("saved, reload required")
        /\ UNCHANGED <<running, live, record, history>>
  /\ UNCHANGED <<diskVars, boots>>

-----------------------------------------------------------------------------
(* The other commands, and the power.                                      *)

\* A form evaluated: LiveRecovery::healthy.
Form ==
  /\ pc = "ready" /\ "form" \in Commands
  /\ Known /\ live.candidate # 0 /\ ~live.verified /\ running.gen = live.candidate
  /\ \E written \in BOOLEAN :
       SaveRecord([live EXCEPT !.verified = TRUE, !.attempts = 0], written)
  /\ boots' = Healthy(running.gen)
  /\ UNCHANGED <<diskVars, pc, running, told, history>>

\* :verify, when the staged workspace has no health cell or it passes.
Verify ==
  /\ pc = "ready" /\ "verify" \in Commands
  /\ Known /\ live.candidate # 0
  /\ \E written \in BOOLEAN :
       SaveRecord([live EXCEPT !.verified = TRUE, !.attempts = 0], written)
  /\ boots' = Healthy(live.candidate)
  /\ UNCHANGED <<diskVars, pc, running, told, history>>

Promote ==
  /\ pc = "ready" /\ "promote" \in Commands
  /\ Known /\ live.candidate # 0 /\ live.verified
  /\ \E written \in BOOLEAN :
       SaveRecord([EmptyRecord EXCEPT !.trusted = live.candidate], written)
  /\ UNCHANGED <<diskVars, pc, running, told, boots, history>>

\* :fault spends the candidate's budget and, once that is on disk, replays the
\* trusted generation if it is there; a replay that fails has already reset the
\* evaluator.
GiveUp ==
  IF live.candidate = 0 THEN live
  ELSE [live EXCEPT !.attempts = Budget, !.verified = FALSE]

Fault ==
  /\ pc = "ready" /\ "fault" \in Commands
  /\ Known /\ live.trusted # 0
  /\ \E written \in BOOLEAN :
       /\ SaveRecord(GiveUp, written)
       /\ \/ /\ ~written \/ ~OnDisk(live.trusted) \/ "read" \in faults
             /\ UNCHANGED <<running, history>>
          \/ /\ written /\ OnDisk(live.trusted) /\ "evaluator" \in faults
             /\ Rejected(running.gen, NoImage)
          \/ written /\ \E s \in Slots : Holds(s, live.trusted) /\ Replayed(s)
  /\ UNCHANGED <<diskVars, pc, told, boots>>

\* :reload replays the newest generation and asks the record nothing.
Reload ==
  /\ pc = "ready" /\ "reload" \in Commands
  /\ \E seen \in Readings :
       /\ ~LoadFails(seen)
       /\ \/ \E s \in Loaded(seen) :
               /\ s = First(seen) \/ "evaluator" \in faults
               /\ Replayed(s)
          \/ Loaded(seen) = {} /\ running' = Nothing /\ hollow' = FALSE /\ UNCHANGED <<kept, numbered>>
          \/ /\ Loaded(seen) # {} /\ "evaluator" \in faults
             /\ running.gen < NewestGen(seen)
             /\ Rejected(NewestGen(seen), running.image)
  /\ UNCHANGED <<diskVars, record, live, pc, told, boots>>

\* The power fails; a payload being written is left in any state.
PowerCut ==
  /\ pc # "off" /\ pc' = "off"
  /\ IF pc = "invalidated"
     THEN \E p \in PartPayload(saving.slot) : disk' = WithPayload(saving.slot, p)
     ELSE UNCHANGED disk
  /\ live' = NoRecord /\ running' = Nothing /\ hollow' = FALSE
  /\ UNCHANGED <<saving, images, record, told, boots, kept, numbered>>

Boot     == PowerOn \/ PlanBoot \/ ReplayNewest
Save     == BeginSave \/ WritePayload \/ Publish \/ Adopt
Operator == BeginSave \/ Form \/ Verify \/ Promote \/ Fault \/ Reload

RecNext ==
  /\ Boot \/ Save \/ Form \/ Verify \/ Promote \/ Fault \/ Reload \/ PowerCut
  /\ UNCHANGED faults

\* The firmware starts a machine that is off, and the supervisor's loop goes
\* on; the operator need not do anything and the power need not fail.
RecSpec == RecInit /\ [][RecNext]_recVars /\ WF_recVars(Boot /\ UNCHANGED faults)
  /\ WF_recVars((WritePayload \/ Publish \/ Adopt) /\ UNCHANGED faults)

-----------------------------------------------------------------------------
(* Properties.                                                             *)

\* Every variable keeps its type; in particular the evaluator is only ever
\* built from a whole image, never from a mixture that a torn save left.
RecTypeOK ==
  /\ disk \in [Slots -> Contents] /\ images \in 0 .. MaxSaves
  /\ saving \in [slot : Slots, gen : Nat, image : Images \cup {NoImage}]
  /\ record \in Records /\ live \in Records \cup {NoRecord} /\ pc \in Phases
  /\ running \in [gen : Nat, image : Images \cup {NoImage}]
  /\ told \in [image : Images \cup {NoImage}, outcome : Outcomes]
  /\ boots \in [Images -> 0 .. Budget + 1]
  /\ kept \in Images \cup {NoImage} /\ hollow \in BOOLEAN
  /\ numbered \in [Images -> Nat]

\* A save may supersede an unpromoted candidate but never the rollback point:
\* while a generation stays trusted and the disk answers, no step takes it off.
TrustedKept ==
  [][ faults \subseteq {"evaluator"} /\ record.trusted # 0 /\ OnDisk(record.trusted) /\ record.trusted' = record.trusted
      => OnDisk(record.trusted)' ]_recVars

\* An unproven generation is begun no more often than its budget while there
\* is a trusted generation to boot instead, wherever the power fails and whatever
\* is not written: what could not be charged is not begun.
BudgetHonoured == faults \subseteq {"write"} => \A i \in Images : boots[i] <= Budget

\* While a save has a slot torn open the other slot holds a whole generation,
\* provided the record trusts nothing or something that is on the disk and no
\* write of it was lost.
SaveLeavesTwin ==
  /\ "write" \notin faults /\ pc \in {"invalidated", "staged"} /\ running.gen # 0
  /\ record.trusted = 0 \/ OnDisk(record.trusted)
  => Valid(Other(saving.slot))

\* A form that evaluates is evidence for the candidate only when the evaluator
\* was built from an image saved under the candidate's number (recovery.rs, the
\* comment on `healthy`), never from an older one that was replayed instead,
\* whatever fails; and where nothing does, from the one the disk holds.  One case
\* in which the code does not keep to it is left out: an evaluator that was reset
\* because its replay failed (hollow).
HealthIsEvidence ==
  [][ Form /\ ~hollow =>
        /\ running.image # NoImage /\ numbered[running.image] = live.candidate
        /\ faults = {} =>
             \E s \in Slots : Holds(s, live.candidate) /\ disk[s].payload = running.image ]_recVars

\* A generation reported saved is on the disk, whatever fails afterwards,
\* until the next save begins.
ReportedSurvives ==
  told.outcome \in {"saved", "saved, reload required"}
  => \E s \in Slots : Valid(s) /\ disk[s].payload = told.image

\* And beyond: as long as nothing has been promoted, the image last reported saved,
\* or restored by a boot since, is whole at every point of the saves that follow,
\* wherever they are cut.  When a replay may fail, some image is.  (After a
\* promotion a save may supersede what was saved; TrustedKept takes over.)
KeptSurvives ==
  faults \subseteq {"evaluator"} /\ record.trusted = 0 /\ kept # NoImage =>
    /\ \E s \in Slots : Valid(s)
    /\ faults = {} => \E s \in Slots : Valid(s) /\ disk[s].payload = kept

\* Saved work survives whole: what was reported, until the next save begins under
\* any fault and through later saves where nothing else fails; the other slot's
\* generation while a save has one torn open; and never a mixture.
SavedSurvives == RecTypeOK /\ ReportedSurvives /\ KeptSurvives /\ SaveLeavesTwin

\* A machine left alone that keeps losing power comes to run the trusted
\* generation at every boot that completes, unless its candidate was verified.
RollsBack ==
  faults = {} /\ <>[][~Operator]_recVars /\ []<>(pc = "off")
  => <>[](pc = "ready" /\ ~live.verified /\ live.trusted # 0 /\ OnDisk(live.trusted)
          => running.gen = live.trusted)
=============================================================================
