----------------------------- MODULE ManagedHeap -----------------------------
(***************************************************************************)
(* One invocation of a compiled program by the managed native tier         *)
(* (crates/agel-jit/src/managed.rs): arenas of values and frames named by  *)
(* their position, native activations that hold positions in registers,    *)
(* caches of constants and builtins, and the compacting collector that     *)
(* runs between two functions of the outermost activation.                 *)
(*                                                                         *)
(* A program is any sequence of the helper calls the emitter can produce:  *)
(* an activation holds, for each call it is in the middle of, the function *)
(* and the list of arguments, and on top the last value.  Running out of   *)
(* fuel ends a run at any point and is not a step here.                    *)
(***************************************************************************)
EXTENDS Naturals, Sequences, FiniteSets, Functions, SequencesExt, TLC

CONSTANTS
  Constants,        \* the constant pool: 1 .. n
  Builtins,         \* the primitives programs use
  Arities,          \* of the functions programs make
  MaxRegisters,     \* values an activation holds in registers
  MaxDepth,         \* limits.call_depth
  MaxAllocations,   \* limits.values: values and frames, never refunded
  Interval          \* collection_interval, at least 256 in the code

ASSUME HeapConstants ==
  /\ Constants \subseteq Nat \ {0} /\ IsFiniteSet(Constants)
  /\ Builtins \subseteq {"list"}
  /\ Arities \subseteq Nat
  /\ {MaxRegisters, MaxDepth, MaxAllocations, Interval} \subseteq Nat \ {0}

VARIABLES
  values,           \* the value arena; a handle is a position in it
  frames,           \* the frame arena; 0 names no frame
  calls,            \* activations, outermost first: [env, registers]
  constants,        \* per constant its handle, 0 until it is imported
  builtins,         \* per builtin its handle, 0 until it is used
  allocations,      \* allocated so far; an object is known by its number
  threshold         \* next_collection

heapVars ==
  <<values, frames, calls, constants, builtins, allocations, threshold>>

heap == [values |-> values, frames |-> frames, allocations |-> allocations]

Nil == 1            \* nil is handle one; zero is the error sentinel

(* A datum: its kind, what a closure or a builtin is of, the handles in it  *)
(* and a closure's environment.                                             *)
Datum(kind, of, items, env) ==
  [kind |-> kind, of |-> of, items |-> items, env |-> env]

Atom == Datum("atom", 0, <<>>, 0)
NilDatum == Datum("nil", 0, <<>>, 0)
-----------------------------------------------------------------------------
(* Allocation, in a heap that is not yet the state's.                       *)

HasRoom(h) == h.allocations < MaxAllocations

Alloc(h, datum) ==
  [h EXCEPT !.values = Append(@, [born |-> h.allocations + 1, datum |-> datum]),
            !.allocations = @ + 1]

Frame(h, parent, slots) ==
  [h EXCEPT !.frames = Append(@, [born |-> h.allocations + 1, parent |-> parent,
                                  slots |-> slots]),
            !.allocations = @ + 1]

Newest(h) == Len(h.values)

DatumOf(h, handle) == h.values[handle].datum
Items(h, handle) == DatumOf(h, handle).items
-----------------------------------------------------------------------------
(* The collector.  Roots are nil, the environment of the function about to  *)
(* start, and the caches.                                                   *)

Values(S) == {<<"value", v>> : v \in S}
Frames(S) == {<<"frame", f>> : f \in S}

Traced_NoParents(h, root) ==
  IF root[1] = "value"
  THEN LET d == DatumOf(h, root[2]) IN
       Values(Range(d.items)) \cup (IF d.kind = "closure" THEN Frames({d.env}) ELSE {})
  ELSE Values(Range(h.frames[root[2]].slots))

Traced(h, root) ==
  IF root[1] = "value"
  THEN LET d == DatumOf(h, root[2]) IN
       Values(Range(d.items)) \cup (IF d.kind = "closure" THEN Frames({d.env}) ELSE {})
  ELSE LET f == h.frames[root[2]] IN
       Values(Range(f.slots)) \cup (IF f.parent = 0 THEN {} ELSE Frames({f.parent}))

CollectorRoots_EveryFrame(env) ==
  Values({Nil} \cup ((Range(constants) \cup Range(builtins)) \ {0})) \cup
  Frames(1 .. env)

CollectorRoots(env) ==
  Values({Nil} \cup ((Range(constants) \cup Range(builtins)) \ {0})) \cup Frames({env})

Marked(h, env) ==
  LET marked[S \in SUBSET ({"value", "frame"} \X Nat)] ==
        LET next == S \cup UNION {Traced(h, r) : r \in S}
        IN IF next = S THEN S ELSE marked[next]
  IN marked[CollectorRoots(env)]

(* The position of what was at `old' once only the positions in `live' stay.*)
Moved(live, old) == IF old = 0 THEN 0 ELSE Cardinality({p \in live : p <= old})

Kept(arena, live) ==
  LET n == Cardinality(live)
      at[i \in 1 .. n] == CHOOSE p \in live : Moved(live, p) = i
  IN [i \in 1 .. n |-> arena[at[i]]]

(* collect_tail: the arenas compacted in order, every handle in them and in *)
(* the caches rewritten.                                                    *)
CollectTail(h, env) ==
  LET live == Marked(h, env)
      liveValues == {r[2] : r \in {m \in live : m[1] = "value"}}
      liveFrames == {r[2] : r \in {m \in live : m[1] = "frame"}}
      value(id) == Moved(liveValues, id)
      frame(id) == Moved(liveFrames, id)
      kept == Kept(h.values, liveValues)
      keptFrames == Kept(h.frames, liveFrames) IN
  [heap |->
     [h EXCEPT
        !.values = [i \in DOMAIN kept |->
           [kept[i] EXCEPT !.datum.items = [j \in DOMAIN @ |-> value(@[j])],
                           !.datum.env = frame(@)]],
        !.frames = [i \in DOMAIN keptFrames |->
           [keptFrames[i] EXCEPT !.parent = frame(@),
                                 !.slots = [j \in DOMAIN @ |-> value(@[j])]]]],
   constants |-> [c \in DOMAIN constants |-> value(constants[c])],
   builtins |-> [b \in DOMAIN builtins |-> value(builtins[b])],
   env |-> frame(env),
   threshold |-> Cardinality(live) + Interval]

DueForCollection_AnyDepth(h) ==
  Len(h.values) + Len(h.frames) >= threshold

DueForCollection(h) ==
  /\ Len(calls) = 1
  /\ Len(h.values) + Len(h.frames) >= threshold
-----------------------------------------------------------------------------
Becomes(h) ==
  /\ values' = h.values
  /\ frames' = h.frames
  /\ allocations' = h.allocations

Top == calls[Len(calls)]
Callers == SubSeq(calls, 1, Len(calls) - 1)
Registers == Top.registers

(* An odd number of registers has a value on top, an even one awaits it.    *)
Awaits == Len(calls) > 0 /\ Len(Registers) % 2 = 0
HasValue == Len(calls) > 0 /\ Len(Registers) % 2 = 1

WithRegisters(registers) == [calls EXCEPT ![Len(calls)].registers = registers]
Holds(handle) == calls' = WithRegisters(Append(Registers, handle))

CanHold == Len(Registers) < MaxRegisters

(* Helper 1: a constant is imported once; it is a list with one atom.       *)
Constant(c) ==
  /\ Awaits /\ CanHold
  /\ IF constants[c] # 0
     THEN /\ Holds(constants[c])
          /\ UNCHANGED <<values, frames, allocations, constants>>
     ELSE LET element == Alloc(heap, Atom)
              list == Alloc(element, Datum("list", 0, <<Newest(element)>>, 0)) IN
          /\ HasRoom(heap) /\ HasRoom(element)
          /\ Becomes(list)
          /\ constants' = [constants EXCEPT ![c] = Newest(list)]
          /\ Holds(Newest(list))
  /\ UNCHANGED <<builtins, threshold>>

(* The environment `depth' frames out, 0 when there is none.                *)
Outer(env, depth) ==
  LET out[d \in 0 .. depth] ==
        IF d = 0 THEN env
        ELSE LET inner == out[d - 1]
             IN IF inner = 0 THEN 0 ELSE frames[inner].parent
  IN out[depth]

(* Helper 2: a local by its lexical address.                                *)
Local(depth, slot) ==
  LET frame == Outer(Top.env, depth) IN
  /\ Awaits /\ CanHold
  /\ frame # 0
  /\ slot \in DOMAIN frames[frame].slots
  /\ Holds(frames[frame].slots[slot])
  /\ UNCHANGED <<values, frames, allocations, constants, builtins, threshold>>

(* Helper 3: a closure over the current environment.                        *)
Closure(arity) ==
  /\ Awaits /\ CanHold
  /\ HasRoom(heap)
  /\ Becomes(Alloc(heap, Datum("closure", arity, <<>>, Top.env)))
  /\ Holds(Len(values'))
  /\ UNCHANGED <<constants, builtins, threshold>>

(* Helper 4: a builtin, cached.                                             *)
Builtin(b) ==
  /\ Awaits /\ CanHold
  /\ IF builtins[b] # 0
     THEN /\ Holds(builtins[b])
          /\ UNCHANGED <<values, frames, allocations, builtins>>
     ELSE /\ HasRoom(heap)
          /\ Becomes(Alloc(heap, Datum("builtin", b, <<>>, 0)))
          /\ builtins' = [builtins EXCEPT ![b] = Len(values')]
          /\ Holds(Len(values'))
  /\ UNCHANGED <<constants, threshold>>

(* The value is a function to be called: its argument list starts as nil.   *)
StartCall ==
  /\ HasValue /\ CanHold
  /\ Holds(Nil)
  /\ UNCHANGED <<values, frames, allocations, constants, builtins, threshold>>

(* The value of a form before the last, or of a test, is dropped.           *)
Discard ==
  /\ HasValue
  /\ calls' = WithRegisters(Front(Registers))
  /\ UNCHANGED <<values, frames, allocations, constants, builtins, threshold>>

(* Helper 7: a copy of the argument list with the value at its end.         *)
PushArgument ==
  LET below == Len(Registers) - 1
      items == Append(Items(heap, Registers[below]), Registers[Len(Registers)]) IN
  /\ HasValue /\ below > 0
  /\ HasRoom(heap)
  /\ Becomes(Alloc(heap, Datum("list", 0, items, 0)))
  /\ calls' = WithRegisters(Append(SubSeq(Registers, 1, below - 1), Len(values')))
  /\ UNCHANGED <<constants, builtins, threshold>>

(* A list of the handles; the empty one is nil.                             *)
MakeList(h, handles) ==
  IF handles = <<>> THEN [heap |-> h, handle |-> Nil]
  ELSE IF HasRoom(h)
  THEN [heap |-> Alloc(h, Datum("list", 0, handles, 0)), handle |-> Newest(h) + 1]
  ELSE [heap |-> h, handle |-> 0]

(* What a primitive makes of its arguments: the heap and the handle of the  *)
(* answer, which is 0 when it refuses.  `list' stands for the primitives,   *)
(* which read their arguments and build data from them.                     *)
Primitive(h, b, args) ==
  IF b = "list" THEN MakeList(h, args) ELSE [heap |-> h, handle |-> 0]

InCall == Awaits /\ Registers # <<>>

Function == Registers[Len(Registers) - 1]
Arguments == Items(heap, Registers[Len(Registers)])
AfterCall == SubSeq(Registers, 1, Len(Registers) - 2)

(* Helper 8 on a closure: a frame under its environment and a new           *)
(* activation; the caller keeps its registers.                              *)
CallClosure ==
  /\ InCall
  /\ LET d == DatumOf(heap, Function)
         framed == Frame(heap, d.env, Arguments) IN
     /\ d.kind = "closure"
     /\ Len(Arguments) = d.of
     /\ HasRoom(heap)
     /\ Len(calls) < MaxDepth
     /\ Becomes(framed)
     /\ calls' = Append(WithRegisters(AfterCall),
                        [env |-> Len(framed.frames), registers |-> <<>>])
  /\ UNCHANGED <<constants, builtins, threshold>>

(* Helper 8 on a builtin.                                                   *)
CallBuiltin ==
  /\ InCall
  /\ LET d == DatumOf(heap, Function)
         answer == Primitive(heap, d.of, Arguments) IN
     /\ d.kind = "builtin"
     /\ answer.handle # 0
     /\ Len(calls) < MaxDepth
     /\ Becomes(answer.heap)
     /\ calls' = WithRegisters(Append(AfterCall, answer.handle))
  /\ UNCHANGED <<constants, builtins, threshold>>

(* A function ends with the value; its caller takes it over.  The outermost *)
(* value is what the run exports.                                           *)
Returned(handle) ==
  IF Callers = <<>> THEN <<>>
  ELSE [Callers EXCEPT ![Len(Callers)].registers = Append(@, handle)]

Return ==
  /\ HasValue /\ Len(Registers) = 1
  /\ calls' = Returned(Registers[1])
  /\ UNCHANGED <<values, frames, allocations, constants, builtins, threshold>>

(* Helper 9 and the trampoline: a call in tail position ends its activation *)
(* and is carried out by the activation's caller.  Into a closure: the new  *)
(* frame first, then, in the outermost activation, a collection if due.     *)
TailCallClosure ==
  /\ InCall /\ Len(Registers) = 2
  /\ LET d == DatumOf(heap, Function)
         framed == Frame(heap, d.env, Arguments)
         env == Len(framed.frames)
         collected == CollectTail(framed, env) IN
     /\ d.kind = "closure"
     /\ Len(Arguments) = d.of
     /\ HasRoom(heap)
     /\ IF DueForCollection(framed)
        THEN /\ Becomes(collected.heap)
             /\ calls' = Append(Callers, [env |-> collected.env, registers |-> <<>>])
             /\ constants' = collected.constants
             /\ builtins' = collected.builtins
             /\ threshold' = collected.threshold
        ELSE /\ Becomes(framed)
             /\ calls' = Append(Callers, [env |-> env, registers |-> <<>>])
             /\ UNCHANGED <<constants, builtins, threshold>>

TailCallBuiltin ==
  /\ InCall /\ Len(Registers) = 2
  /\ LET d == DatumOf(heap, Function)
         answer == Primitive(heap, d.of, Arguments) IN
     /\ d.kind = "builtin"
     /\ answer.handle # 0
     /\ Becomes(answer.heap)
     /\ calls' = Returned(answer.handle)
  /\ UNCHANGED <<constants, builtins, threshold>>

(* A run with one argument: nil, the argument and the frame of the entry.   *)
HeapInit ==
  LET nil == Alloc([values |-> <<>>, frames |-> <<>>, allocations |-> 0], NilDatum)
      argument == Alloc(nil, Atom)
      entry == Frame(argument, 0, <<Newest(argument)>>) IN
  /\ values = entry.values
  /\ frames = entry.frames
  /\ allocations = entry.allocations
  /\ calls = <<[env |-> 1, registers |-> <<>>]>>
  /\ constants = [c \in Constants |-> 0]
  /\ builtins = [b \in Builtins |-> 0]
  /\ threshold = Interval

HeapNext ==
  \/ \E c \in Constants : Constant(c)
  \/ \E depth \in 0 .. Len(frames), slot \in 1 .. MaxAllocations : Local(depth, slot)
  \/ \E arity \in Arities : Closure(arity)
  \/ \E b \in Builtins : Builtin(b)
  \/ StartCall \/ Discard \/ PushArgument
  \/ CallClosure \/ CallBuiltin \/ Return
  \/ TailCallClosure \/ TailCallBuiltin

HeapSpec == HeapInit /\ [][HeapNext]_heapVars
-----------------------------------------------------------------------------
(* Properties.                                                              *)

Handles == 1 .. Len(values)
FrameIds == 1 .. Len(frames)

(* The objects of the arenas by the number of their allocation; a handle   *)
(* or frame that names nothing is object 0, which does not exist.           *)
ValueName(handle) == IF handle \in Handles THEN values[handle].born ELSE 0
FrameName(f) == IF f \in FrameIds THEN frames[f].born ELSE 0
Names(handles) == [i \in DOMAIN handles |-> ValueName(handles[i])]
Outward(f) == IF f = 0 THEN <<>> ELSE <<FrameName(f)>>

ValueObject(d) == [kind |-> d.kind, refs |-> Names(d.items) \o Outward(d.env)]
FrameObject(f) == [kind |-> "frame", refs |-> Names(f.slots) \o Outward(f.parent)]

Objects ==
  LET ofValue == [o \in {values[v].born : v \in Handles} |->
                    ValueObject(values[CHOOSE v \in Handles : values[v].born = o].datum)]
      ofFrame == [o \in {frames[f].born : f \in FrameIds} |->
                    FrameObject(frames[CHOOSE f \in FrameIds : frames[f].born = o])]
  IN ofValue @@ ofFrame

Activations ==
  [i \in DOMAIN calls |-> [env |-> FrameName(calls[i].env),
                           registers |-> Names(calls[i].registers)]]

CachedObjects ==
  LET used == {<<"constant", c>> : c \in {c \in Constants : constants[c] # 0}}
                \cup {<<"builtin", b>> : b \in {b \in Builtins : builtins[b] # 0}}
                \cup {<<"nil", 0>>} IN
  [key \in used |-> ValueName(CASE key[1] = "constant" -> constants[key[2]]
                                [] key[1] = "builtin" -> builtins[key[2]]
                                [] OTHER -> Nil)]

(* Whatever the collector moves, the program computes on objects that never *)
(* change and never vanish while it can reach them, and a caller finds its  *)
(* registers naming what they named (collection.rs:31).                     *)
Graph == INSTANCE ObjectGraph
           WITH graph <- Objects, stack <- Activations, cached <- CachedObjects

ImplementsGraph == Graph!GraphSpec

(* A collection leaves nothing behind that cannot be reached: the arenas of *)
(* a loop are bounded by what it keeps (collection.rs:210).                 *)
NothingDeadIsKept ==
  [][threshold' # threshold => DOMAIN Objects' = Graph!Usable']_heapVars
=============================================================================
