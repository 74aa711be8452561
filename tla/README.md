# Agel in TLA+

A verification development of [Agel](https://github.com/michaltakac/agel): an
experimental agentic Lisp and, under it, research kernels written in
freestanding Rust.  It models the parts of Agel whose correctness depends on
the order of many steps, on power failing between two of them, or on sequences
of requests nobody wrote a test for; TLC checks small instances, and TLAPS
proves the most important results for every value of the constants.

Paths are relative to the repository.  Line-by-line correspondence between
definitions and code is the `map` of `PROJECT.json`.

## 1. Inventory

Agel has a hosted half (`crates/`) and a machine half (`boot/`), joined by a
kernel contract that both an executable model and the real kernels implement.

| Component | State it keeps | Operations | Interacts with |
|---|---|---|---|
| **Kernel contract: capabilities** `crates/agel-kernel-abi/src/model.rs`, `lib.rs` | a table of slots (kind, target, rights, badge, identity, parent, tombstone), an identity counter | `cap.copy`, `.mint`, `.attenuate`, `.move`, `.revoke` | every other group authorises through it |
| **Kernel contract: memory** same file | allocated frames, the mapping window | `frame.allocate/map/share/reclaim`, `as.map/unmap/protect/query` | creates, derives and sweeps capabilities |
| **Kernel contract: IPC and clock** same file | endpoint queue, notification word, tick counter | send, receive, call, reply, signal, poll, wait, read | capabilities |
| **Second implementation** `independent.rs`, `conformance.rs` | the same, represented otherwise: object indices, a ring, pages | the same | compared with the model on a fixed corpus |
| **Workspace image** `boot/kernel/src/workspace.rs` | two disk slots (header and payload), the recovery record, the kernel selector | `load`, `load_slot`, `save`, `load_record`, `save_record`, `load_selector`, `save_selector` | storage driver; called by recovery |
| **Recovery** `recovery.rs`, `isolated_repl.rs`, `native_session.rs` | the record in memory and on disk, the running generation | boot planning and replay, `:save`, `:reload`, `:verify`, `:promote`, `:fault`, and every evaluated form | workspace image, evaluator |
| **Kernel slots** `recovery.rs`, `boot/bios/boot.S`, `scripts/stage-kernel.py` | two kernel slots and a selector sector | host staging, slot selection, admission, health, `:kernel-promote`, `:kernel-fault` | boot stage, kernel and host share one sector |
| **Lisp world** `crates/agel-core/src/world.rs` | bindings, history ring, revisions, capability epoch, effect journal, model requests | evaluate, roll back, fork, snapshot and restore, world files, claim and complete a model request | agents; hosts |
| **Agent runtime** `crates/agel-core/src/eval.rs`, `agent.rs` | agents, mailboxes, ready queue, event log, supervision | spawn, send, ask, run, turn, failure, restart, escalation, model request and its result | the world's transaction |
| **Replay images, command line** `crates/agel-image`, `agel-cli` | an append-only log in two files, the root a session last saw | open, evaluate, claim, complete, save; dispatch of a request through a gate | worlds; files; providers |
| **Processes and pipes** `boot/kernel/src/process.rs`, `memory.rs` | process table, pipes with counted ends, descriptors, frame pool and ledgers | step, spawn, wait, kill, pipe, read, write, close, brk, collect, stop | kernel; graphics and workshop loops |
| **Agel-FS** `boot/kernel/src/user.rs`, `service.rs` | superblock with a bitmap, directory sectors, blocks; the service's copy in memory | format, mount, create, write, truncate, unlink, rename | storage driver; two namespaces |
| **JIT, managed tier** `crates/agel-jit/src/managed.rs`, `managed/collection.rs` | arenas of values and frames, activations, caches, a collection threshold | helper calls of compiled code, tail calls, collection | evaluator |
| Supervised upgrades, effect overlays, interaction lanes, driver generations, windows | images and evidence; an overlay; two queues; generations; canvases | | |
| Evaluator in fixed memory, reader and expander, desktop, cryptography, architecture back ends, player, standard library, vendored C | language data, code, pixels, page tables | | |

What makes each of them hard, and what correct means:

* **Capabilities and memory.**  One flat table is edited in any order and
  tombstones are reused; a mapping outlives the capability it was made through
  and a frame number is handed out again.  Correct: derivations stay a forest,
  revocation kills the descendants and nothing else, authority never grows, and
  nothing reaches a frame that was given back.
* **Second implementation.**  Two programs must answer alike after every
  sequence of requests, with states that look nothing alike.
* **Workspace, recovery, kernel slots.**  Power fails at any write; reads and
  writes fail for a moment; memory changes before disk; a kernel to be judged is
  the judge.  Correct: no torn image is loaded; a save spares the rollback point;
  budgets of boots hold; an unattended machine ends up running what it trusts.
* **World.**  Effects escape the transaction: the journal is shared by a world
  and its snapshots and is not rolled back.  Correct: an effect is launched
  once; one World value's numbers keep their meaning; a restore ends authority for ever.
* **Agents.**  Turns are transactions inside a transaction; mailboxes, log and
  steps are bounded; supervisors are agents too.  Correct: a failed turn leaves
  nothing; every message is handled once and in order, and what becomes of a model's
  result is known; ready agents run.
* **Images.**  Processes die, devices refuse and power goes between a check, a
  write, two renames and the launch of something that costs money.  Correct: an
  append-only log, one launch per request, each on record before it happens.
* **Processes.**  Blocked processes are retried by a pass over the table while
  others end, are killed and reaped, and slots are reused.  Correct: ends are
  counted, frames have one owner, whoever can be answered is, and only a run in
  which nothing can move is stopped.
* **Agel-FS.**  A request is many sector writes, any of which may be the last.
  Correct: no block has two owners, the directory is a tree, files are bytes.
* **Managed heap.**  The collector moves everything while native callers hold
  positions in registers.  Correct: a program cannot tell.

`PROJECT.json` lists all components, also those outside the scope of these
models, with the reason, and under `hazards` the places in the code where
these difficulties bite.

## 2. Modules

| Module | Models |
|---|---|
| `KernelTypes` | rights, kinds and statuses, and the chaining of checks |
| `CapSpace` | the capability space of the reference model |
| `KernelMemory` | frames and the mapping window, composed with `CapSpace` (EXTENDS) |
| `KernelAgreement` | the reference model's IPC, notification and clock, composed with `KernelMemory`, in lockstep with the independent implementation |
| `KernelProofs` | the proofs of `CapSpace`, `KernelMemory` and `KernelAgreement` |
| `Workspace` | the two slots on disk: validity, load order, slot choice, the writes of a save |
| `Recovery`, `RecoveryProofs` | the recovery record, boots, commands, power and faults, composed with `Workspace` |
| `KernelSlots`, `KernelSlotsProofs` | staging, boot stage and kernel around the selector |
| `EffectLedger`; `World`, `WorldProofs` | abstract: effects dispatched at most once; detailed: several worlds with history, snapshots, files, forks and journals |
| `Agents`, `AgentsProofs` | scheduler, turns, mailboxes, supervision, model requests |
| `DurableLog`; `ImageSessions`, `ImageSessionsProofs` | abstract: one append-only log; detailed: sessions over the two files, with the dispatch of requests |
| `Processes`, `ProcessesProofs` | process table, pipes, frames, passes |
| `FileBytes`; `AgelFs`, `AgelFsProofs` | abstract: files of bytes; detailed: directory, bitmap, blocks and every sector write |
| `ObjectGraph`; `ManagedHeap` | abstract: objects that never change; detailed: arenas, activations, caches and the moving collector |
| `MC*` | the instances TLC checks |

### CapSpace and KernelMemory

`slots` is the table, `nextId` the counter; `frames` and `window` are the
allocated frames and the mappings.  Each operation has two definitions.
`<Op>Status` is the answer: the code's chain of early returns in its order,
chained by `??`.  `<Op>` is the action, enabled when the answer is `"ok"`; a
refused request changes nothing in the code, so it is a stuttering step.  A
rights word is the set of its bits; a word with an undefined bit has a member
outside `AllRights`.  Identities and the end of their counter are kept, since
`allocate_id` refuses instead of wrapping.  Revocation loops over the table
until nothing changes; `Doomed` is the least set the loop can stop with, and
`RevocationIsExact` compares it with `Descendants`, which follows parents.

### KernelAgreement

`ipc` is the reference's queue, notification and clock; `ind` the whole state of
`IndependentKernel`: a table of `Empty`, `Tombstone` and capabilities to object
indices, a set of live objects, pages, and a ring with head and length.  `Invoke`
gives one request to both.  `ImplementationsAgree` says that the states represent
each other and that **every** request of every group would now be answered alike,
accepted or refused; requests are not only compared when a behaviour takes them.
`Pinned` leaves out the requests for which the two are known to differ (section 5).
Among the source indices compared are one past the table and one past 32 bits
(`MaxIndex`).  `profile` is what is published and which groups a behaviour uses.

### Workspace and Recovery

An image is identified by the save that produced it, a checksum by the image it
was computed from; `Mixture` is a payload that is part one image and part
another.  The storage driver's power-cut injection
(`ServiceDomain::write_sector`) fixes the granularity: a torn sector has its
first half new.  A header (32 bytes) and a record (44 bytes) lie in that half,
so they land or do not; a payload has many sectors and may be left in any
mixture.  Steps between two durable writes are actions, so that `PowerCut` can
fall between them.  `disk`, `record` are durable; `live` (the record in memory),
`pc` and `running` are not.  `faults` is chosen at the start of a behaviour from
`FaultSets` and says which of reads, writes and replays may fail in it, each time
or not; behaviours with faults begin fewer saves (`SavesAllowed`).  `told` is what
the last `:save` reported, `boots` counts boots of an image since it last showed
health.  Three more variables are history: `kept` is the image last reported saved or
restored by a replay, `numbered` the number each image was saved under, and `hollow`
says that the evaluator is empty because its replay failed, under a number it does not
hold.  The desktop's copy of the boot and `:save` code (`graphics.rs`) calls the
same functions and is not modelled separately.

### KernelSlots

`bytes` is what each slot holds: a build or `Torn`.  A signature is the build it
was made for.  The staging tool writes the kernel first (`StageBytes`) and the
selector second (`StageSelector`), and with the fault `"staging"` may stop between
them, which `halfway` remembers.  `BootStage` chooses and charges; `KernelStart`
loads and admits or clears; `PowerCut` covers a reset and also a kernel that hangs
until somebody resets it.  `live` is the kernel's copy of the selector, which a
failed write leaves ahead of the disk.

### World

Several World values live in one host (`worlds`); an `Arc` to a journal is a
number into `journals`.  A state is what the journal protocol can tell apart: the
outbox, the length of the event log, and the capability the agent holds.
`evaluate_with` is a transaction over that state followed by the bookkeeping of
revision and ring (`Committed`); a claim is the journal entry, the transaction that may
still fail, and the launch.  `launches`, `made`, `issued` and `mixed` are history.  A
world opened from a snapshot shares the journal, a fork and a world file start their
own; every live world may do everything, and any snapshot be restored into any world.
`mixed` has the worlds (and the snapshot) whose state may have been reached under
another journal than the one they now consult.
`ImplementsLedger` maps the journal of the live world and its snapshots to
`EffectLedger`.

### Agents

`st` is the transactional state, `job` where a `(run n)` in progress is: between
turns, or inside one, with the checkpoint the turn would be undone to.  Each step
of a behaviour is a choice of `send`, `spawn`, `ask`, a caught error, an uncaught
one or the end of the turn.  A resource condition (the event limit) ends the whole
run and undoes the form, unless a handler around `run` kept it, which `torn`
remembers.  A message is its kind and a number.  A finished request is `completed`
where its result was delivered, `dropped` where the log says that it was not, and
`unrecorded` where the log had no room for either; the code has one status for the
three.

### ImageSessions

A world is a function of its log, so a session is its log and a root digest is a
log.  `Commit` is a log that has grown in memory; the save is one action per file
operation (`CheckRoot`, `WriteNew`, `RemovePrevious`, `Rotate`, `Install`,
`SyncDirectory`), any of which the device may refuse.  `Crash` ends a session
anywhere.  `past` is the set of directories a power failure may return to: all
since the last directory sync.  Where a dispatch is judged is what a process was started
with (`Gates`): `Consult` is a gate in the world, whose evaluation commits a verdict
before the claim; `Proceed` is a judge outside the world, or no gate, of which the log
keeps nothing.  `vetted` is the history of the launches of the first kind.  The
check of the expected root is not a lock, and
the documentation asks the deployment for one; `Turn` is that lock, from the check
to the sync.

### Processes

`table` holds processes, pipes and the pool, `pass` how far `step_run` is.  A
process is what it asks next: any request at any entry.  A request is one action
(`Step`), with the wakeups, the frees and the ends that the handler causes;
`RetryBlocked` is what the pass does to a blocked process.  Bytes are counted, not
kept, and a read or a write moves one; waits for time, a window's event and a typed line are one wait for something
outside (`AskOutside`).  The host starts roots, collects trees and abandons runs.

### AgelFs

A handler is an operator from a run to a run: the run carries the service's memory,
the disk and the number of sector writes, stops at the write it was told to, and
from there does nothing, as `?` does.  A request is one action that chooses where it
stops; `Restart` loses the memory.  Two namespaces have roots of their own.  A
sector is a block, a byte is zero or written.  `stops` counts interrupted requests;
`whole` says that none was cut inside a removal, after which the code promises
nothing (finding `block_twice`; a shrink and an unfinished format count as removals),
and that no service was restarted whose memory was ahead of the disk after a failed
write.  `ImplementsFiles` maps the blocks an entry lists to the bytes of a file: a file
changes as some request would change it, which one is not compared.

### ManagedHeap

`values` and `frames` are the arenas; a handle is a position.  `calls` are the
native activations: the frame each runs in, and its registers, in which a call in
progress is a function and an argument list and an odd one on top is the last
value.  One action per helper (`dispatch`) and per end of a function; a program is
any sequence the emitter can produce.  `TailCallClosure` allocates the frame and, in
the outermost activation and when the arenas have reached `threshold`, collects:
`Marked` is the tracing loop, `Kept` and `Moved` the compaction.  Every object
carries the number of its allocation (`born`), so `ImplementsGraph` can map
positions to identities: `ObjectGraph` has no positions and no collector.

## 3. Runs

State counts are distinct states.

| Run | Question | States |
|---|---|---|
| `kernel_memory` | Do capabilities, frames and mappings stay consistent: forest, exact revocation, frames owned once, W^X, no growth of authority or exposure? | 8244 |
| `kernel_agreement` | Do the two implementations answer every request alike after every sequence, and does the endpoint keep every message in order? | 13028 |
| `recovery` | Does what was saved survive, do budgets hold, is the rollback point spared, is health evidence, does a lone machine roll back? | 557304 |
| `kernel_slots` | Budget, no dead kernel trusted, only vouched kernels loaded, the machine comes up. | 8047 |
| `world` | Are effects launched once, are numbers final, does a restore end authority, do worlds implement the ledger? | 134578 |
| `agents` | Is no wakeup and no message lost, is a result that was not delivered accounted for, are waits bounded, do failed turns leave nothing, is a supervisor told? | 1865617 |
| `image_sessions` | Is a request paid for once, with its claim on record and the verdict of a gate in the world before it, and do the files implement one log? | 1888554 |
| `processes` | Are pipes exact, frames owned once, only stuck runs stopped, and does nobody wait for ever? | 73650 |
| `agel_fs` | Are blocks accounted for, is the directory a tree, are files implemented? | 45802 |
| `managed_heap` | Does a program compute on objects that keep their identity, and is nothing dead kept? | 146284 |

Two runs check a sentence of the source that the code does not keep; TLC must find
it violated.

| Run | The sentence | The behaviour TLC finds |
|---|---|---|
| `orphan_tree` | a process whose parent was reaped stands as its own root (`process.rs:714`) | a waiting process takes its ended child out of the table; the child's own child, still running, spawns into the free slot, is its child's child by number, and `root_of` climbs between the two for ever |
| `block_twice` | bit k of the bitmap is set when block k is some entry's (`user.rs:2050`) | a shrink or a removal that ends, with its service, between the bitmap and the entry leaves an entry that lists a free block |

### Bounds

* **kernel_memory**: three derivations (`MaxId`) over a cnode, a frame and an
  address space, two frames and two pages; the end of the identity counter is part
  of the code, so the bound is its behaviour with a smaller number.  `DestArgs`,
  `RightsArgs`, `MemRights`, `Badges` list the arguments requests carry.
* **kernel_agreement**: three profiles, each one or two derivations and the requests
  of two or three groups, a queue of two and three messages, which wraps the ring.
* **recovery**: five saves without faults, three with.  Two generations live on two
  slots; the third save is the first to choose a slot that holds something trusted,
  the fourth and fifth exercise reuse of a number after a cut.  Budget 2 (the code's is
  3): a boot, a second one, and the refusal of a third.
* **kernel_slots**: every build differs in whether it is signed and whether it comes
  up: factory, signed and good, signed and dead, unsigned.  Stagings are unbounded.
* **world**: two instances (the live world and one opened from a snapshot, a fork or
  a file, or again the live one restored), one request identifier with two prompts
  (the same number asking for something else after a rollback), one retained
  revision, counters of five revisions and two capabilities.  Both worlds issue, spawn,
  ask and take snapshots, as often as they like; the search stops where they have given
  more than seven numbers between them (`FewNumbers`; the live world has three when it
  starts), which leaves room for a request, a claim, a rollback and the second claim,
  or for two restores around a capability.
* **agents**: a supervisor that is never restarted, a worker that escalates, and a
  third agent that is a clerk with one restart or a passive inbox; three messages, one
  model request, two turns a run, an event log of thirteen that runs of three messages
  reach: a request ends delivered, dropped and unrecorded.  A mailbox has the log's
  limit and every message costs an event, so the log ends before a mailbox is full.
* **image_sessions**: two sessions, one request, four entries, two unsaved ones in the
  sessions together (a save refused and tried again with the next entry, or one entry in
  each session), one time that a gate in the world cannot decide: a whole dispatch
  (asked, judged, claimed, completed) with the other session at any point of its own,
  under the same gate or another.  Sessions are symmetric.
* **processes**: three slots, one pipe of one byte, two frames, three processes ever
  started; the circle of `orphan_tree` takes four processes and three frames, and no pipe.
* **agel_fs**: a root and two entries in two directory sectors, two blocks of two
  bytes, two blocks per entry, one interrupted request; moves into a child, over a
  sibling and onto the reserved name.  `agel_fs` does not follow a region that is no
  longer whole (`Followed`).  `block_twice` follows it, but no format that fails
  (`MCWholeFormats`): that is a shorter way to an unmarked block (section 5).
* **managed_heap**: a constant, the builtin `list`, functions of arity 0 and 1,
  activations two deep with four registers, eight allocations, a collection when six
  objects are in the arenas: one collection with callers, closures, constants and
  caches in every position the bounds allow, and steps after it.  The code's interval
  is at least 256; it appears in no decision but this comparison.

Deadlock checking is off where a system may stop: a table from which all authority
was revoked, counters at their end, a host that starts nothing more, a run that
returned.

### Fairness

`RecSpec` has weak fairness of the boot steps and of the steps of a save already
begun: the firmware starts a machine that is off, and the supervisor's loop is
sequential.  `SlotsSpec` has weak fairness of the boot stage and of a live kernel's
start; a dead kernel's start is not enabled, so fairness does not bring it up.
`ProcSpec` has weak fairness of the passes over the table, which the workshop's loop
repeats for as long as it runs.  Operator, host, power, and what a process asks for
have none.

`RollsBack` and `ComesUp` assume that the operator (or host) stops and that the
power keeps failing, which is when attempts are charged.  `RollsBack` is about
machines without faults and has the premises that the trusted generation is on the
disk and the candidate unverified; `ComesUp` assumes that no staging stops half way.
`NobodyWaitsForEver` excepts a supervisor that no longer moves (`Hung`), which is what
`orphan_tree` exhibits.  That a ready agent runs is a bound and not liveness:
`BoundedWait` counts the turns others take before its own.

Conditions inside properties name what they need: `BudgetHonoured` allows lost
writes only, `TrustedKept` failed replays only, `HealthIsEvidence` every fault but not
an evaluator emptied by a failed replay (`hollow`).  `SavedSurvives` allows every fault
for what was reported, until the next save begins; that it outlives that save and the
ones after needs that nothing but the power fails and nothing was promoted yet, and a
whole slot beside the torn one needs that no write was lost and that what is trusted,
if anything, is on the disk.  `OnlyVouched` holds until a staging stops half way; agents'
messages are lost only once a handler has kept an interrupted run (`torn`).  The
three properties of `agel_fs` are about a region that is `whole`, except that no block
leaks while nothing was interrupted.

## 4. Proofs

All obligations are proved by TLAPS with its SMT, Zenon and LS4 back ends, from
the named assumptions on the constants only (`CapConstants`, `MemConstants`, `AgreementConstants`,
`KernelSlotsConstants`, `WorkspaceConstants`, `RecoveryConstants`, `WorldConstants`,
`AgentsConstants`, `SessionsConstants`, `ProcessesConstants`, `AgelFsConstants`).  TLC evaluates them in the runs.  An inductive invariant was
checked by TLC on the run of its module before it was proved.

**KernelProofs, the capability space** (`CapInv == CapTypeOK /\ DerivationForest`).  The forest is
inductive only together with `IdsIssued` (or a fresh identity could collide),
with `VacantIsBlank` (or a reused slot could leave a parent behind) and with
parents older than children (or a cycle could survive a revocation).  Every
operation is first shown to be one of four table steps - derive, attenuate,
move, revoke - and the invariant is proved once for each.
`Unforgeable` and `AuthorityOnlyShrinks` are action properties from
`Provenance`: where the capability found in a slot after a step came from.
`ExactRevocation` proves that the loop's least fixed point and the descendants
are the same set, both inclusions from the minimality of each.  No run checks
`CapSpec` by itself; `kernel_memory` checks the same properties of the composed
system.

**KernelProofs, the memory group** (`KernInv == CapInv /\ MemTypeOK /\ FrameOwnership /\
WritableXorExecutable`, and that frame 0 is never given away).  The capability
lemmas are reused: `frame.share` is a derivation and `frame.reclaim` a revocation
that clears its root too.  `FramesAreOwnedOnce` is what makes reclaiming safe: since
a frame has one root and every other capability to it descends from that root, the
sweep leaves none.  `KernelProvenance` extends `Provenance` to the memory operations
- the only capability that comes from nowhere is the root of a frame that was free -
and gives `KernelUnforgeable`, `KernelAuthority` and, with the invariant,
`ExposureOnlyShrinks`.

**KernelProofs, the two implementations** (`AgreeInv == KernInv /\ ...`), for any size of the table, the queue
and the memory, any published groups and any requests.  Slot by slot, frame by frame
and page by page the two states represent one another (`SameTables`, `SameFrames`,
`SamePages`), and the ring read from its head is the queue (`SameQueue`: `RingAppends`
and `RingTakes` are the arithmetic of the turn).  Given that, every check gives both the
same status (`SameChecks`, `SameRead`) and so every request the same answer
(`AllAgreed`, one lemma for each group).  What is not a change of notation is
revocation: the reference repeats a sweep over the table until nothing changes, the
independent kernel walks up from every capability on a snapshot.  `SameRevoked` proves that
both find the same capabilities, from the forest of `KernInv`: parents are older, so
the walk ends (`ClimbExists`), it is what a function of the identities defines
(`ClimbUnique`), and what it finds is closed and least.  The two agree on the frame
an allocation takes since the lowest free object is the lowest free frame
(`SameFree`).

**KernelSlotsProofs** (`SlotsInv`).  `TrustedAlive` and `KernelBudget` are not
inductive.  The strengthening says: the selector proposes only the slot it does
not trust (`SelectorShape`); what was loaded is trusted or admitted, a verified
candidate is never passed over, and what runs is alive (`BootedShape`); until it
forgets the candidate the copy in memory names the same slots and holds a
candidate verified only if that candidate is running (`LiveShape`); until health
is shown every load is on the disk (`TriesCharged`).  Promotion therefore trusts
only the running kernel.  `NothingUnsigned` adds `SignedOnly`.

**RecoveryProofs** (`RecInv`), for any number of saves, any budget and any set of
faults.  *What is saved stays*: a header names an image that was saved and the two
slots never hold the same one (`DiskWhole`); while a save is under way its slot is
blank (`SaveUnderway`), and the slot it chose is not the one that holds what was
reported (`ReportedSurvives`).  *Budgets*: a boot is counted against an image, but the
record charges a number.  `BudgetKept` joins them: an image that was booted without
showing health is the record's candidate, in memory and on the disk, with at least
as many attempts charged, and the other slot holds the trusted generation.  So a save
must overwrite it and cannot leave it beside a record that no longer charges it.
`InPlace` covers the time before the first promotion, when nothing is protected and
the generations alternate between the slots, and `KeptInPlace` adds that what is kept
is in the slot the next save spares.  *Evidence* rests on `NumbersTell`: a header has
the number its image was saved under and the evaluator that of what it holds, and on
`RunsFromDisk`: where nothing fails, what runs is on the disk between two saves.

**WorldProofs** (`WorldInv`), for any number of worlds, requests, agents and
revisions.  A name (revision and state) once given stays given, and the counter of its
world is past it (`NamesGiven`); the history ring holds given names, so a rollback
gives none.  `DoubtKept` and `SnapshotKept` say that every state a world is in *or can
return to*, if all were reached under its journal, has its requests in doubt in that
journal: this, not the current state, is what a rollback, a branch or a restore relies
on.  What a world issued is of its identity, of an epoch that has begun and below its
counter (`AuthorityGiven`), which is what a restore ends.  Since a journal only
grows and a claim requires a key that is not in it, a launch happens once
(`LaunchesKept`).  Identities of worlds are bounded by the number of the opened ones.
`WorldsImplementLedger` maps claims and completions to those of `EffectLedger` and
every other action to a stutter.

**ImageSessionsProofs** (`SessionsInv`), for any number of sessions and entries.  One
session writes at a time (`OneWriter`), and until it installs its log the files hold
the log it grew from; every directory a power failure may return to extends what was
acknowledged and is extended by the files (`PastExtended`).  `ClaimsLogged` says what
each place of a session knows of its own log: before the claim that the log has no
claim, and allows the request if a gate in the world was asked; from the claim to the
launch that the claim is the last entry and the only one.  `LaunchesPaid` follows: two sessions cannot both be about to launch.

**AgentsProofs** (`AgentsInv`), for any number of agents, messages, requests and
turns.  The invariant is a predicate of *states*, `Good(s, h)` with `h` what is in
hand, and holds of three: the current state, the one a form is undone to and the one a
turn is undone to.  Turns a waiting agent has seen plus its place in the queue never
exceed the number of agents (`Lined`): that is `BoundedWait`.  An agent's inbox is what it
handled, what is in hand and its mailbox, in this order; every operation leaves inboxes
alone, appends one message, or drops what is in hand.  So what a request's status says of
its result (`AccountOf`) stays true as long as logs and inboxes grow and who has stopped
stays stopped (`Onward`).  A message tells the truth about
the state (`Truthful`: its number was counted, its request was answered, its child has
stopped), so one that is about to be sent is not there yet; this is what makes delivery
single.  `Clean` says that everything was made by a turn that stands, so undoing one
removes what it made.

**ProcessesProofs** (`ProcInv`), for any number of slots, pipes, descriptors and frames.
The operations are functions of tables, so the proof is about which tables are `Good`
and has one lemma per operation that it makes good tables of good ones.  Good is:
frame by frame, one place (`OwnedOnce`); pipe by pipe, counts that are the cardinality
of the descriptors that name an end (`Counted`, with the set `Naming` as what an
operation changes: `EndTaken` for a close, `FinishIs` for an end of any number of
processes, `GainedAre` for the ends a spawn hands on, where both may be the same one);
and an ended process has no frame and no descriptor (`EndedHoldNothing`), without which
taking it out of the table would lose both.  A collection is the hard case: it climbs
from every slot to a root *in a table that changes under it*.  `RootsLeft` shows
that while members of a dead tree are taken out, whoever is found under the root is
ended, although every removal may cut the tree apart.  The pass over the
table is `Passed`: while nothing has moved, whoever it has passed is blocked and cannot
be answered.  That is `StoppedOnlyStuck` at the end of the pass.

**AgelFsProofs** (`FsInv`), for any number of entries, blocks, names, namespaces and
requests, and any sector write a request stops at.  `BlocksAreAccounted` is not inductive:
a service that is ahead of its disk (a write failed, the memory kept the change) may write
the entry later with another request's, so the invariant says how the two differ.  What
the disk lists the service lists too, in the same slot (`Reflects`), and what the service
lists is in both bitmaps (`Marks`): so a new block, which is free in the service's bitmap,
is listed nowhere, and any sector of entries may be written at any time.  While nothing
has stopped the two are equal and every marked block is listed (`Exact`).  A free entry
lists nothing (`Vacant`), or a creation would inherit a removed file's blocks.

A handler is a function of runs and stops at a number of writes, so each operation has
one lemma about any run it is given: `Keeps(r, q)` for those that change no name
(`EnsureKeeps`, and by recursion over the slots of a file `FilledKeeps` and
`StoredKeeps`), `Serves(r, q)` for requests.  A removal that stops between its writes is the one
that breaks `Marks` (`whole` becomes false); `block_twice` shows it.  Formatting begins
by clearing the bitmap, so it counts as a removal until it has written the last sector,
and makes the region whole again then (`FormatServes`).

The tree is proved from `Above`, the least set that climbing from an entry meets.
`TreeGrows`: a new entry under a directory.  `TreeShrinks`: an entry without children,
whose removal leaves every other climb where it was.  `TreeMoves`: an entry moved under a
directory above which it is not; whatever was below it climbs to it and on to the root
through its new directory, and no two climb to each other.
That is the walk `rename` makes before it moves.

| Theorem | States |
|---|---|
| `CapTypes`, `Forest`, `ExactRevocation`, `Unforgeable`, `AuthorityOnlyShrinks` | `CapSpec` implies `CapTypeOK`, `DerivationForest`, `RevocationIsExact`, `NoForgery`, `AuthorityNeverGrows` |
| `KernelTypesOK`, `KernelForest`, `KernelRevocation`, `Ownership`, `NeverWX`, `KernelUnforgeable`, `KernelAuthority`, `ExposureOnlyShrinks` | `KernSpec` implies every property of `kernel_memory` |
| `AnswersAgree`, `MessagesInOrder` | `AgreeSpec` implies every property of `kernel_agreement` |
| `SlotsTypes`, `BudgetOfKernels`, `NeverTrustsDead`, `NothingUnsigned` | `SlotsSpec` implies `SlotsTypeOK`, `KernelBudget`, `TrustedAlive`, `OnlyVouched` |
| `SavedStays`, `BudgetStays`, `EvidenceIsOfCandidate`, `TrustedStays` | `RecSpec` implies every safety property of `recovery` |
| `NumbersStayFinal`, `LaunchesAreSingle`, `DoubtIsJournaled`, `RestoreIsFinal`, `WorldsImplementLedger` | `WorldSpec` implies every property of `world`, the refinement included |
| `PaidOnce`, `FilesImplementLog` | `ImageSpec` implies every property of `image_sessions`, the refinement included |
| `NoWakeupIsLost`, `WaitIsBounded`, `DeliveredOnce`, `FailedTurnsUndone`, `SupervisorsAreTold` | `AgentsSpec` implies every property of `agents` |
| `FsInvariant`, `BlocksAccounted`, `DirectoryIsATree` | `FsSpec` implies `FsInv`, `BlocksAreAccounted` and `StaysATree`: every invariant of `agel_fs` |
| `FramesOwned`, `PipesExact`, `StoppedStuck`, `ProcessesInvariant` | `ProcSpec` implies `FramesOwnedOnce`, `PipesAreExact`, `StoppedOnlyStuck` and `ProcInv`: every safety property of `processes` |

Only model-checked: that `AgelFs` implements `FileBytes`, and `ManagedHeap` with its
refinement, whose proofs are planned (section 7); all liveness (`RollsBack`, `ComesUp`, `NobodyWaitsForEver`:
fairness and ENABLED are beyond the prover); the two violations, which are
counterexamples.

Where a definition recurses, the proofs go by the least counterexample
(`LeastMember`): the library's induction theorems take an operator as a parameter, which
these provers cannot instantiate.

## 5. Observations

Cases the models made visible beside the two findings, without a run of their own.

Kernel contract:

* `destination` accepts slot 0 (`model.rs:273`), which `model.rs:59` calls always
  empty and never authority.
* The independent implementation answers otherwise where a destination is slot 0 or
  outside the table; where the source index of a `cap.*` operation does not fit 32 bits,
  `invalid-argument` in the one (`model.rs:615`, 664, 692, 724) and `invalid-capability`
  in the other (`independent.rs:315`; `as.map` answers alike in both); where two checks
  of `cap.copy`, `cap.mint` and `notification.wait` fail at once; and for unread words of
  `nop`, `endpoint.call` and `endpoint.reply`; its identities are 64 bits wide.
  `Pinned` is the rest.

Recovery and kernel slots:

* A save spares the trusted generation only when reading its slot succeeds
  (`workspace.rs:458`), although the comment at 446 says "never the rollback point": a
  read that fails for a moment lets a save blank it.  `TrustedKept` is therefore
  about disks that answer.
* The flush after the final header may fail: the error is returned before the code
  that blanks the header (`workspace.rs:488`, 495), so a save reported failed boots.
* `:fault`, `:reload`, one form: `healthy` clears the spent budget, although boots
  should choose the trusted generation until `:verify` or `:save` (`recovery.rs:168`);
  `:kernel-fault` and one form likewise (`recovery.rs:314`,
  `docs/native-workshop.md:153`).
* A cut between publication and record lets a new image inherit the attempts of an
  older one with its number (`docs/native-workshop.md:245` promises a fresh budget).
* A staging cut after the bytes leaves the old selector, which calls the slot admitted
  (`boot.S:46`).
* `verify` and `promote` (`recovery.rs:137-165`) act on a number and never look at the
  disk.  A candidate whose slot a cut-off save blanked can become trusted with nothing
  to roll back to.  A save then protects a generation that is nowhere and goes by parity
  into the slot of the only whole one, although `workspace.rs:467` says that the other
  slot "remains a complete rollback point": six saves reach it, with no fault but the
  power, so `SavedSurvives` is about trusted generations that are on the disk.
* When every image fails to replay, the evaluator is empty but `generation` is the
  highest number on the disk (`isolated_repl.rs:170`), and the next form marks that
  candidate verified; a `:fault` whose replay fails resets the evaluator and keeps its
  number too.  A `:reload` that rejects every image keeps the older workspace under the
  highest number (`isolated_repl.rs:303`).  `hollow` marks these evaluators.
* A boot whose charge cannot be written starts empty with generation 0
  (`isolated_repl.rs:619`), so the next save is number 1, whatever the disk holds: it may
  go over the only whole generation, or give a number a second time.
* After "saved, reload required" the supervisor's number has not moved, and another
  `:save` goes over what was just reported saved (`workspace.rs:452`).
* `docs/native-workshop.md:281` says that a cut on the record leaves one that reads
  empty.  The driver's torn sector has its first half new (`service.rs:265`) and the
  record is 44 bytes, so here it lands whole, and the model's record write is one step.

Worlds, agents, images:

* A claim is in the journal before its transaction, which may still fail; the request
  then stays pending, and every later claim under that journal is refused
  (`world.rs:654-700`). The document calls the claim atomic (`docs/model-agents.md:26`).
* A fork and a world file start a journal of their own, so a request pending in both
  may be dispatched by each, and one in doubt in the state they start from can be
  completed by neither; the same for a world that restores a snapshot taken under
  another journal (`world.rs:400-428`).  `InDoubtIsJournaled` excepts them (`mixed`).
* A world opened from a snapshot or a file goes on from the saved counters under the
  same identity and epoch (`world.rs:383-398`), so two of one snapshot, or one and the
  original, give the same revision and capability numbers to different things.
  `NumbersAreFinal` is about one World value.
* A handler around `run` keeps a run that a resource condition stopped half way
  (`eval.rs:1551`; `docs/agent-runtime.md:74` says the form is undone).
* At the exact limit of the event log a model result is neither delivered nor recorded
  as dropped (`eval.rs:1978`; `docs/model-agents.md:43`), which `DeliveredOnceInOrder`
  allows there and nowhere else.
* A save that fails at the directory sync has put the new file in place.  It is not
  "retried against the same expected root" with success (`docs/portable-images.md:90`):
  the session's next save reads the root it has just written, and is refused as a
  conflict (`agel-image` `lib.rs:481`, 505).
* Without `--gate agel` nothing of a verdict is in the image: `--gate jev` keeps its
  records in the process (`main.rs:1097`).  A request that a gate in the world
  denied may be launched by another process with another gate, if the first ends before
  its claim.
* A candidate is tested in a fork, in which its capabilities permit nothing, and then
  adopted by evaluating its source in the live world, in which they do; the candidate's
  digest is not compared (`docs/evidence-upgrades.md:16`).  Found by reading, not modelled.

Processes and files:

* `collect` empties a root's slot first and then asks who else is under that root
  (`process.rs:754`): an ended child in a higher slot is found to be its own root and
  stays, with a parent, so that no later `collect` reports it, and it counts among the
  children of whatever process takes the slot.  A running process may join a stranger's
  tree in the same way as `orphan_tree` shows, when the stranger is given its reaped
  parent's slot; `collect` then keeps the stranger's tree until it ends (`process.rs:738`).
* A load that fails after its first page never gives its frames back (`process.rs:1853`).
  `FramesOwnedOnce` counts these as `lost`: it finds a frame with two holders, or one
  that an ended process keeps, not this leak.
* A directory whose entry could not be written stays in the service's memory
  (`user.rs:2434`).  A child created in it may go to another sector and be written; after a
  restart the child's parent is a free entry.  `StaysATree` excepts it (`whole`).
* A `:fs-format` refused at its first write has emptied the bitmap in memory and not the
  directory (`user.rs:2341`): the mounted service then gives blocks away that entries list.
* A rename to `data` at the root makes an entry unreachable; a descriptor keeps the number
  of an entry across removal and reuse; the root of a namespace may be removed and reused.

## 6. Not modelled

* Supervised upgrades (`agel-supervisor`, `agel-verify`), effect overlays
  (`agel-effects`), interaction lanes (`agel-interaction`): sequential objects in
  one process whose methods check and then change; the next candidates, with driver
  generations (`service.rs`) and windows (`graphics.rs:590-960`).
* The evaluator, reader and macro expander, values, vectors, the standard library, the
  freestanding evaluator: what a form computes.  The models choose among the effects a
  form can have.
* Of the JIT: fuel, the primitives beside `list`, text, validation of the intermediate
  form, code generation, the scalar tier.
* Of Agel-FS: file descriptors and the namespace's table; of the POSIX personality: the
  C library and its allocator; of images: signatures, delta world files.
* The desktop, the player, architecture back ends, boot code apart from slot selection,
  cryptography: pixels, page tables, ports and arithmetic.
* The conformance transcript's text, the 40- and 48-byte frames of requests.

## 7. Plan

Models and runs of sections 2 and 3 are done.  In this order:

1. Proofs of `ManagedHeap`: that a collection preserves the graph the registers reach.
2. `AgelFs` implements `FileBytes`, from `FsInv`: what a block a request does not name
   holds stays as it is.
3. Supervised upgrades with evidence, composed with `ImageSessions`; effect overlays;
   driver generations.
