------------------------------- MODULE Processes -------------------------------
(***************************************************************************)
(* The process table of the POSIX personality: passes of a round-robin      *)
(* scheduler over a few slots, processes that wait, read, write, spawn and  *)
(* kill, pipes with counted ends, the frames a process is built from, and   *)
(* the host, which starts roots and collects what has ended.                *)
(*                                                                         *)
(* A process is what it asks for next: any request, at any entry.  Bytes    *)
(* are counted, not kept; a descriptor counts when it names a pipe, whose   *)
(* end is what others depend on; the waits for time, a window's event and a *)
(* typed line are one wait for something outside the table.                 *)
(***************************************************************************)
EXTENDS Integers, Sequences, FiniteSets, FiniteSetsExt

CONSTANTS
  Slots,           \* 0 .. PROCESSES - 1
  Pipes,           \* 0 .. PIPES - 1
  Descriptors,     \* 0 and 1, which a spawn gives, and numbers from 3
  PipeBytes,       \* what a pipe holds
  Frames,          \* the pool: 1 .. n
  MaxStarted       \* bound on the processes ever started

ASSUME ProcessesConstants ==
  /\ \A S \in {Slots, Pipes, Descriptors, Frames} : IsFiniteSet(S)
  /\ Slots = 0 .. Cardinality(Slots) - 1 /\ Slots # {}
  /\ Pipes = 0 .. Cardinality(Pipes) - 1
  /\ {0, 1} \subseteq Descriptors /\ Descriptors \subseteq Nat \ {2}
  /\ Frames = 1 .. Cardinality(Frames)
  /\ PipeBytes \in Nat \ {0} /\ MaxStarted \in Nat

VARIABLES
  table,           \* processes, pipes and the frame pool
  pass             \* how far the pass over the table is

procVars == <<table, pass>>

None == -1
Unused == [state |-> [is |-> "unused"]]
Free == [kind |-> "free"]
End(kind, p) == [kind |-> kind, pipe |-> p]

Runnable == [is |-> "runnable"]
Ended == [is |-> "ended"]

EmptyPipe == [used |-> FALSE, length |-> 0, readers |-> 0, writers |-> 0, eof |-> FALSE]

Taken(t) == {i \in Slots : t.processes[i] # Unused}
Live(t)  == {i \in Taken(t) : t.processes[i].state # Ended}

HostTurn == [at |-> None]
Hung == [at |-> -2]     \* a loop of the supervisor that does not end

ProcInit ==
  /\ table = [processes |-> [i \in Slots |-> Unused],
              pipes |-> [p \in Pipes |-> EmptyPipe],
              pool |-> Frames,
              \* history: processes started; frames of loads that failed
              started |-> 0, lost |-> {}]
  /\ pass = HostTurn
-----------------------------------------------------------------------------
(* Frames: the lowest free one is handed out, and a ledger of the domain    *)
(* remembers it; a dead domain gives back what its ledger names.            *)

HasFrame(t) == t.pool # {}
NextFrame(t) == Min(t.pool)
Reclaim(t, frames) == [t EXCEPT !.pool = @ \cup frames]

(* load: the image is checked and mapped page by page.  When that fails     *)
(* after the first page, the domain and its frames are forgotten.           *)
Loads(t) == {[ok |-> TRUE, table |-> [t EXCEPT !.pool = @ \ {NextFrame(t)}],
              frames |-> {NextFrame(t)}]}
LoadFails(t) ==
  {[ok |-> FALSE, table |-> t],
   [ok |-> FALSE, table |-> [t EXCEPT !.pool = @ \ {NextFrame(t)},
                                      !.lost = @ \cup {NextFrame(t)}]]}
Load(t) == IF HasFrame(t) THEN Loads(t) \cup LoadFails(t)
                          ELSE {[ok |-> FALSE, table |-> t]}
-----------------------------------------------------------------------------
(* Descriptors and pipes.                                                   *)

FreeDescriptors(t, i) ==
  {d \in Descriptors : d >= 3 /\ t.processes[i].descriptors[d] = Free}

Settled(pipe) ==
  IF pipe.readers = 0 /\ pipe.writers = 0 THEN EmptyPipe ELSE pipe

Fewer(pipe, r, w) == Settled([pipe EXCEPT !.readers = @ - r, !.writers = @ - w])
More(pipe, r, w) == [pipe EXCEPT !.readers = @ + r, !.writers = @ + w]

(* close: an end gives its count back; a pipe nobody names is free.         *)
Forgotten(t, i, d) == [t EXCEPT !.processes[i].descriptors[d] = Free]

Close(t, i, d) ==
  LET closed == t.processes[i].descriptors[d]
      s == Forgotten(t, i, d) IN
  CASE closed.kind = "read"  -> [s EXCEPT !.pipes[closed.pipe] = Fewer(@, 1, 0)]
    [] closed.kind = "write" -> [s EXCEPT !.pipes[closed.pipe] = Fewer(@, 0, 1)]
    [] OTHER -> s

CloseAll(t, closing) ==
  LET ends(kind, p) == {x \in closing \X Descriptors :
                          t.processes[x[1]].descriptors[x[2]] = End(kind, p)} IN
  [t EXCEPT
     !.processes = [i \in Slots |->
       IF i \in closing THEN [@[i] EXCEPT !.descriptors = [d \in Descriptors |-> Free]]
       ELSE @[i]],
     !.pipes = [p \in Pipes |->
       Fewer(@[p], Cardinality(ends("read", p)), Cardinality(ends("write", p)))]]

(* pipe: a free pipe and two free descriptors, or nothing changes.          *)
WithPipe(t, i, p, r, w) ==
  [t EXCEPT !.processes[i].descriptors[r] = End("read", p),
            !.processes[i].descriptors[w] = End("write", p),
            !.pipes[p] = [EmptyPipe EXCEPT !.used = TRUE, !.readers = 1, !.writers = 1]]

MakePipe(t, i) ==
  LET unused == {p \in Pipes : ~t.pipes[p].used}
      free == FreeDescriptors(t, i)
      r == Min(free) IN
  IF unused = {} \/ Cardinality(free) < 2 THEN t
  ELSE WithPipe(t, i, Min(unused), r, Min(free \ {r}))

(* A request that cannot be answered yet leaves the table as it is.         *)
Answered(t) == [done |-> TRUE, table |-> t]
Blocked(t)  == [done |-> FALSE, table |-> t]

(* One byte stands for those of a request, min(length, a block, what there  *)
(* is): more are as many requests.  A read or a write of no bytes where there *)
(* are some, or is room, is answered 0 and changes nothing; it is left out.  *)
PipeRead(t, i, d) ==
  LET slot == t.processes[i].descriptors[d]
      pipe == t.pipes[slot.pipe] IN
  IF slot.kind # "read" THEN Answered(t)
  ELSE IF pipe.length > 0
       THEN Answered([t EXCEPT !.pipes[slot.pipe].length = @ - 1])
  ELSE IF pipe.writers = 0
       THEN Answered([t EXCEPT !.pipes[slot.pipe].eof = TRUE])
  ELSE Blocked(t)

PipeWrite(t, i, d) ==
  LET slot == t.processes[i].descriptors[d]
      pipe == t.pipes[slot.pipe] IN
  IF slot.kind # "write" \/ pipe.readers = 0 THEN Answered(t)
  ELSE IF pipe.length < PipeBytes
       THEN Answered([t EXCEPT !.pipes[slot.pipe].length = @ + 1])
  ELSE Blocked(t)
-----------------------------------------------------------------------------
(* The life of a process.                                                   *)

NewProcess(parent, descriptors, frames) ==
  [parent |-> parent, state |-> Runnable, descriptors |-> descriptors,
   frames |-> frames, orphan |-> FALSE]

(* end: descriptors close, frames go back; the slot stays until it is waited *)
(* for or collected.  Of several, the order shows nowhere.                   *)
Finish(t, ending) ==
  Reclaim([CloseAll(t, ending) EXCEPT
             !.processes = [i \in Slots |->
               IF i \in ending THEN [@[i] EXCEPT !.state = Ended, !.frames = {}] ELSE @[i]]],
          UNION {t.processes[i].frames : i \in ending})

(* A slot is emptied.  History: whose parent was in it has none any more.    *)
TakenOut(t, c) ==
  [t EXCEPT !.processes = [i \in Slots |->
     IF i = c THEN Unused
     ELSE IF i \in Taken(t) /\ @[i].parent = c THEN [@[i] EXCEPT !.orphan = TRUE]
     ELSE @[i]]]

IsChild(t, i, c) == t.processes[c] # Unused /\ t.processes[c].parent = i

(* reap: an ended child leaves the table; one that is not there (any more)  *)
(* is an error, which is an answer too.                                     *)
Reap(t, i, c) ==
  IF ~IsChild(t, i, c) THEN Answered(t)
  ELSE IF t.processes[c].state = Ended
       THEN Answered(TakenOut(t, c))
  ELSE Blocked(t)

(* Mutant: a killed child is ended without what end does.                   *)
Kill_FramesKept(t, i, c) ==
  IF c # i /\ IsChild(t, i, c) /\ t.processes[c].state # Ended
  THEN [CloseAll(t, {c}) EXCEPT !.processes[c].state = Ended] ELSE t

Kill(t, i, c) ==
  IF c # i /\ IsChild(t, i, c) /\ t.processes[c].state # Ended
  THEN Finish(t, {c}) ELSE t

(* spawn: the child gets the ends its parent names as 0 and 1, one more end *)
(* on each pipe, and the parent's slot as its parent.                       *)
Given(t, i, d) == IF d = None THEN Free ELSE t.processes[i].descriptors[d]

(* Mutant: a pipe end handed on is not counted.                             *)
Placed_Uncounted(t, i, frames, in, out) ==
  [t EXCEPT
     !.started = @ + 1,
     !.processes[Min(Slots \ Taken(t))] =
        NewProcess(i,
          [d \in Descriptors |-> IF d = 0 THEN in ELSE IF d = 1 THEN out ELSE Free],
          frames)]

Placed(t, i, frames, in, out) ==
  LET slot == Min(Slots \ Taken(t))
      more(kind, p) ==
        Cardinality({d \in {<<0, in>>, <<1, out>>} : d[2] = End(kind, p)}) IN
  [t EXCEPT
     !.started = @ + 1,
     !.processes[slot] =
        NewProcess(i,
          [d \in Descriptors |-> IF d = 0 THEN in ELSE IF d = 1 THEN out ELSE Free],
          frames),
     !.pipes = [p \in Pipes |-> More(@[p], more("read", p), more("write", p))]]

Spawn(t, i, in, out) ==
  IF Taken(t) = Slots THEN {t}
  ELSE {IF load.ok THEN Placed(load.table, i, load.frames, in, out)
                   ELSE load.table : load \in Load(t)}
(* brk and canvas: pages for a live process, as far as the pool goes.        *)
Grow(t, i) ==
  IF HasFrame(t)
  THEN [t EXCEPT !.pool = @ \ {NextFrame(t)},
                 !.processes[i].frames = @ \cup {NextFrame(t)}]
  ELSE t
-----------------------------------------------------------------------------
(* One entry of a process: whatever it asks, answered, blocked or its end.  *)

Stays(t, i, o, waiting) ==
  IF o.done THEN o.table
  ELSE [t EXCEPT !.processes[i].state = waiting]

Named(t, i) == {d \in Descriptors : t.processes[i].descriptors[d] # Free}

Entry(t, i) ==
  {Finish(t, {i}), MakePipe(t, i), Grow(t, i),
   [t EXCEPT !.processes[i].state = [is |-> "outside"]]}
    \cup {Close(t, i, d) : d \in Named(t, i)}
    \cup {Stays(t, i, PipeRead(t, i, d), [is |-> "reading", on |-> d]) :
            d \in {e \in Named(t, i) : t.processes[i].descriptors[e].kind = "read"}}
    \cup {Stays(t, i, PipeWrite(t, i, d), [is |-> "writing", on |-> d]) :
            d \in {e \in Named(t, i) : t.processes[i].descriptors[e].kind = "write"}}
    \cup {Stays(t, i, Reap(t, i, c), [is |-> "waiting", on |-> c]) :
            c \in {j \in Slots \ {i} : IsChild(t, i, j)}}
    \cup {Kill(t, i, c) : c \in Slots}
    \cup (IF t.started < MaxStarted
          THEN UNION {Spawn(t, i, Given(t, i, d), Given(t, i, e)) :
                        d \in Named(t, i) \cup {None}, e \in Named(t, i) \cup {None}}
          ELSE {})

(* The retry of what a process is blocked on.                               *)
Retry(t, i) ==
  LET state == t.processes[i].state IN
  CASE state.is = "waiting" -> Reap(t, i, state.on)
    [] state.is = "reading" -> PipeRead(t, i, state.on)
    [] state.is = "writing" -> PipeWrite(t, i, state.on)

(* The next live slot of the pass: whoever has ended or is not there is not   *)
(* served.                                                                  *)
NextLive(t, i) == Min({j \in Live(t) : j >= i} \cup {Cardinality(Slots)})

(* Mutant: what the last slot did stands for the pass.                      *)
Served_LastOnly(t, progressed, outside) ==
  /\ table' = t
  /\ pass' = [at |-> NextLive(t, pass.at + 1), progressed |-> progressed,
              outside |-> outside]

Served(t, progressed, outside) ==
  /\ table' = t
  /\ pass' = [at |-> NextLive(t, pass.at + 1),
              progressed |-> pass.progressed \/ progressed,
              outside |-> pass.outside \/ outside]

Step ==
  /\ pass.at \in Live(table) /\ table.processes[pass.at].state = Runnable
  /\ \E t \in Entry(table, pass.at) : Served(t, TRUE, FALSE)

(* Mutant: the answer is given and the process stays blocked.               *)
RetryBlocked_NotWoken ==
  LET o == Retry(table, pass.at) IN
  /\ pass.at \in Live(table)
  /\ table.processes[pass.at].state.is \in {"waiting", "reading", "writing"}
  /\ Served(o.table, o.done, FALSE)

RetryBlocked ==
  LET o == Retry(table, pass.at) IN
  /\ pass.at \in Live(table)
  /\ table.processes[pass.at].state.is \in {"waiting", "reading", "writing"}
  /\ IF o.done
     THEN Served([o.table EXCEPT !.processes[pass.at].state = Runnable], TRUE, FALSE)
     ELSE Served(table, FALSE, FALSE)

(* Time has passed, an event or a line has come; or not yet.                *)
AskOutside ==
  /\ pass.at \in Live(table)
  /\ table.processes[pass.at].state.is = "outside"
  /\ \/ Served([table EXCEPT !.processes[pass.at].state = Runnable], TRUE, FALSE)
     \/ Served(table, FALSE, TRUE)
-----------------------------------------------------------------------------
(* The host: between passes it starts roots, and takes ended trees out.     *)

Parent(t, i) == IF i \in Taken(t) THEN t.processes[i].parent ELSE None

(* root_of: parents are followed by slot, while there is somebody in the     *)
(* slot.  A climb longer than the table goes round for ever: no root.       *)
Up(t, j) == IF Parent(t, j) \in Taken(t) THEN Parent(t, j) ELSE j

RootOf(t, i) ==
  LET climbed[n \in 0 .. Cardinality(Slots)] == IF n = 0 THEN i ELSE Up(t, climbed[n - 1])
      top == climbed[Cardinality(Slots)] IN
  IF Up(t, top) = top THEN top ELSE None

EndedRoots(t) == {i \in Taken(t) \ Live(t) : t.processes[i].parent = None}

LiveIn(t, root) == {i \in Live(t) : RootOf(t, i) = root}

(* The search for a live member asks every slot for its root, up to the      *)
(* first live one.                                                          *)
CollectHangs(t) ==
  \E root \in EndedRoots(t), i \in Slots :
    /\ RootOf(t, i) = None
    /\ LiveIn(t, root) \cap 0 .. i = {}

(* A tree is taken out slot by slot, upwards, each by the root it has then.  *)
TakeMember(t, root, i) == IF RootOf(t, i) = root THEN TakenOut(t, i) ELSE t

TakeTree(t, root) ==
  LET rest[n \in 0 .. Cardinality(Slots)] ==
        IF n = 0 THEN t ELSE TakeMember(rest[n - 1], root, n - 1) IN
  rest[Cardinality(Slots)]

CollectAt(t, i) ==
  IF i \in EndedRoots(t) /\ LiveIn(t, i) = {} THEN TakeTree(t, i) ELSE t

Collected(t) ==
  LET rest[n \in 0 .. Cardinality(Slots)] ==
        IF n = 0 THEN t ELSE CollectAt(rest[n - 1], n - 1) IN
  rest[Cardinality(Slots)]

Collect(t, after) ==
  IF CollectHangs(t) THEN table' = t /\ pass' = Hung
                     ELSE table' = after /\ pass' = HostTurn

Start ==
  /\ pass = HostTurn
  /\ table.started < MaxStarted
  /\ Taken(table) # Slots
  /\ table' \in
       {IF load.ok
        THEN [load.table EXCEPT
                !.started = @ + 1,
                !.processes[Min(Slots \ Taken(table))] =
                   NewProcess(None,
                     [d \in Descriptors |-> Free],
                     load.frames)]
        ELSE load.table : load \in Load(table)}
  /\ UNCHANGED pass

StartPass ==
  /\ pass = HostTurn
  /\ Taken(table) # {}
  /\ pass' = [at |-> NextLive(table, 0), progressed |-> FALSE, outside |-> FALSE]
  /\ UNCHANGED table

(* stop_all: every live process is ended.                                    *)
StoppedAll(t) == Finish(t, Live(t))

Emptied(t) == [t EXCEPT !.processes = [i \in Slots |-> Unused]]

PassOver == pass.at = Cardinality(Slots)

(* After a pass in which something moved, or that waits for the outside,    *)
(* the host goes on; it collects now or after a later pass.                 *)
EndPass ==
  /\ PassOver /\ (pass.progressed \/ pass.outside)
  /\ \/ table' = table /\ pass' = HostTurn
     \/ Collect(table, Collected(table))

(* Nothing can move: what is left is stopped, and the run is over.          *)
Deadlocked == PassOver /\ ~pass.progressed /\ ~pass.outside

EndRun ==
  /\ Deadlocked
  /\ Collect(StoppedAll(table), Emptied(StoppedAll(table)))

(* The serial workshop has nobody to deliver events: it abandons the run.   *)
Abandon ==
  /\ PassOver /\ ~pass.progressed /\ pass.outside
  /\ Collect(StoppedAll(table), Emptied(StoppedAll(table)))

ProcNext ==
  Start \/ StartPass \/ Step \/ RetryBlocked \/ AskOutside
    \/ EndPass \/ EndRun \/ Abandon

Passes ==
  StartPass \/ Step \/ RetryBlocked \/ AskOutside \/ EndPass \/ EndRun

(* The host goes on with a run that has somebody in it.                     *)
ProcSpec == ProcInit /\ [][ProcNext]_procVars /\ WF_procVars(Passes)
-----------------------------------------------------------------------------
(* Properties.                                                              *)

ProcessRecords ==
  [parent : Slots \cup {None},
   state : {Runnable, Ended, [is |-> "outside"]}
             \cup [is : {"reading", "writing"}, on : Descriptors]
             \cup [is : {"waiting"}, on : Slots],
   descriptors : [Descriptors -> {Free}
                                   \cup {End(k, p) : k \in {"read", "write"}, p \in Pipes}],
   frames : SUBSET Frames, orphan : BOOLEAN]

(* Types; in particular no pipe holds more than its buffer.                 *)
ProcTypeOK ==
  /\ \A i \in Taken(table) : table.processes[i] \in ProcessRecords
  /\ table.pipes \in [Pipes -> [used : BOOLEAN, length : 0 .. PipeBytes,
                                readers : Nat, writers : Nat, eof : BOOLEAN]]
  /\ table.pool \subseteq Frames /\ table.lost \subseteq Frames
  /\ table.started \in 0 .. MaxStarted

(* The counts of a pipe are the descriptors that name its ends, through     *)
(* every pipe, spawn, close, kill and end; a pipe is in use while there is   *)
(* one (struct Pipe: "a count of the read and write ends that name it").    *)
PipeCounts ==
  \A p \in Pipes :
    LET naming(kind) ==
          {x \in Taken(table) \X Descriptors :
             table.processes[x[1]].descriptors[x[2]] = End(kind, p)} IN
    /\ table.pipes[p].readers = Cardinality(naming("read"))
    /\ table.pipes[p].writers = Cardinality(naming("write"))
    /\ table.pipes[p].used <=> naming("read") \cup naming("write") # {}

(* An end of file is final: a pipe that answered 0 has no byte and nobody    *)
(* who could write one, until nobody names it (pipe_read: "zero when it is  *)
(* empty for good").                                                        *)
EndOfFileIsFinal ==
  \A p \in Pipes : table.pipes[p].eof =>
    table.pipes[p].length = 0 /\ table.pipes[p].writers = 0

(* Pipes stand for who holds them, so that an end of file is told when, and  *)
(* only when, nobody can write any more.                                    *)
PipesAreExact == ProcTypeOK /\ PipeCounts /\ EndOfFileIsFinal

(* A run is stopped as blocked only when nothing in it could be answered,    *)
(* now that the pass is over (step_run, stop_all: "Nothing else could        *)
(* resolve it").                                                            *)
StoppedOnlyStuck ==
  Deadlocked => \A i \in Live(table) :
    /\ table.processes[i].state.is \in {"waiting", "reading", "writing"}
    /\ ~Retry(table, i).done

(* A frame is in the pool, or with one live process, or lost to a load that  *)
(* failed, and never in two places (end, reclaim, memory.rs).               *)
FramesOwnedOnce ==
  LET held == [i \in Live(table) |-> table.processes[i].frames] IN
  /\ \A i, j \in Live(table) : i # j => held[i] \cap held[j] = {}
  /\ table.pool \cup table.lost \cup UNION {held[i] : i \in Live(table)} = Frames
  /\ \A i \in Live(table) : held[i] \cap (table.pool \cup table.lost) = {}
  /\ table.pool \cap table.lost = {}

BlockedInTable(i) ==
  /\ i \in Live(table)
  /\ table.processes[i].state.is \in {"waiting", "reading", "writing"}

(* Nobody waits for ever for what has happened - a child's end, a byte, room, *)
(* the end of a stream - unless the supervisor itself no longer moves: one who *)
(* could be answered is, or cannot be any more.  Of several readers of a pipe *)
(* the others may take every byte.                                          *)
AnswerableIsAnswered ==
  \A i \in Slots :
    []<>(~(BlockedInTable(i) /\ Retry(table, i).done) \/ pass = Hung)

(* Processes that all wait for each other are stopped.                      *)
Stuck ==
  /\ Live(table) # {}
  /\ \A i \in Live(table) : BlockedInTable(i) /\ ~Retry(table, i).done
StuckIsBroken == Stuck ~> (~Stuck \/ pass = Hung)

(* Nobody waits for ever for what has happened or for what cannot.          *)
NobodyWaitsForEver == AnswerableIsAnswered /\ StuckIsBroken
-----------------------------------------------------------------------------
(* What the source says and the code does not do.                           *)

(* "A process whose parent was reaped stands as its own root" (root_of), and *)
(* not only until another process is given the parent's slot.  Of a process  *)
(* that runs: collect also leaves ended ones behind.                         *)
OrphanIsItsOwnRoot ==
  \A i \in Live(table) : table.processes[i].orphan => RootOf(table, i) = i
=============================================================================
