---------------------------- MODULE ProcessesProofs ----------------------------
(***************************************************************************)
(* Proofs about the process table, for any number of slots, pipes,         *)
(* descriptors and frames: a frame is in one place, the ends of a pipe are *)
(* counted exactly and an end of file is final, and a run is stopped only  *)
(* when nothing in it could be answered.                                   *)
(*                                                                         *)
(* Every operation is a function of tables: the proofs are about which     *)
(* tables are good, and that each operation makes good ones of good ones.  *)
(***************************************************************************)
EXTENDS Processes, FiniteSetTheorems, WellFoundedInduction, TLAPS

Descriptions == {Free} \cup {End(k, p) : k \in {"read", "write"}, p \in Pipes}

States ==
  {Runnable, Ended, [is |-> "outside"]}
    \cup [is : {"reading", "writing"}, on : Descriptors] \cup [is : {"waiting"}, on : Slots]

PipeStates == [used : BOOLEAN, length : 0 .. PipeBytes, readers : Nat, writers : Nat, eof : BOOLEAN]

Tables ==
  [processes : [Slots -> {Unused} \cup ProcessRecords], pipes : [Pipes -> PipeStates],
   pool : SUBSET Frames, started : 0 .. MaxStarted, lost : SUBSET Frames]

\* The frames a slot has, and what it calls by a descriptor.
HeldBy(t, i) == IF i \in Live(t) THEN t.processes[i].frames ELSE {}
At(t, i, d)  == IF i \in Taken(t) THEN t.processes[i].descriptors[d] ELSE Free

\* Those who name an end of a pipe.
Naming(t, kind, p) == {x \in Slots \X Descriptors : At(t, x[1], x[2]) = End(kind, p)}

\* Frame by frame: in one of the places, and in no two.
OwnedOnce(t) ==
  \A f \in Frames :
    /\ f \in t.pool \/ f \in t.lost \/ \E i \in Slots : f \in HeldBy(t, i)
    /\ ~(f \in t.pool /\ f \in t.lost)
    /\ \A i \in Slots : f \in HeldBy(t, i) =>
         f \notin t.pool /\ f \notin t.lost /\ \A j \in Slots : f \in HeldBy(t, j) => j = i

\* A pipe read by R and written by W.
PipeGood(pipe, R, W) ==
  /\ pipe \in PipeStates
  /\ pipe.readers = Cardinality(R) /\ pipe.writers = Cardinality(W)
  /\ pipe.used <=> R \cup W # {}
  /\ pipe.eof => pipe.length = 0 /\ pipe.writers = 0

Counted(t) ==
  \A p \in Pipes : PipeGood(t.pipes[p], Naming(t, "read", p), Naming(t, "write", p))

\* Who has ended has nothing: that is why an ended process may leave its slot.
EndedHoldNothing(t) ==
  \A i \in Taken(t) \ Live(t) :
    t.processes[i].frames = {} /\ \A d \in Descriptors : t.processes[i].descriptors[d] = Free

Good(t) == t \in Tables /\ OwnedOnce(t) /\ Counted(t) /\ EndedHoldNothing(t)

\* While nothing has moved in a pass, whoever it has passed is blocked, and the
\* table is as it found it.
Passed ==
  /\ pass \in [at : Slots \cup {Cardinality(Slots)}, progressed : BOOLEAN, outside : BOOLEAN]
  /\ ~pass.progressed /\ ~pass.outside =>
       \A i \in Live(table) : i < pass.at =>
         /\ table.processes[i].state.is \in {"waiting", "reading", "writing"}
         /\ ~Retry(table, i).done

ProcInv == Good(table) /\ (pass \in {HostTurn, Hung} \/ Passed)

-----------------------------------------------------------------------------
\* Constants, and values that differ.

LEMMA ConstantsAre ==
  /\ Cardinality(Slots) \in Nat \ {0} /\ Slots = 0 .. Cardinality(Slots) - 1
  /\ IsFiniteSet(Slots) /\ IsFiniteSet(Descriptors)
  /\ Pipes \subseteq Nat /\ Descriptors \subseteq Nat /\ Frames \subseteq Nat
  /\ 0 \in Descriptors /\ 1 \in Descriptors /\ None \notin Slots
<1>1. /\ Cardinality(Slots) \in Nat /\ Cardinality(Frames) \in Nat /\ Cardinality(Pipes) \in Nat
      /\ Cardinality(Slots) # 0
  BY ProcessesConstants, FS_CardinalityType, FS_EmptySet
<1>2. Slots = 0 .. Cardinality(Slots) - 1 /\ Pipes = 0 .. Cardinality(Pipes) - 1
      /\ Frames = 1 .. Cardinality(Frames)
  BY ProcessesConstants
<1>3. IsFiniteSet(Slots) /\ IsFiniteSet(Descriptors) /\ Descriptors \subseteq Nat
      /\ 0 \in Descriptors /\ 1 \in Descriptors
  BY ProcessesConstants
<1>4. Pipes \subseteq Nat /\ Frames \subseteq Nat
  BY <1>1, <1>2
<1>5. None \notin Slots
  BY <1>1, <1>2 DEF None
<1> QED BY <1>1, <1>2, <1>3, <1>4, <1>5

\* A non-empty set of natural numbers has a least member.
LEMMA LeastOf ==
  ASSUME NEW T \in SUBSET Nat, T # {}
  PROVE  Min(T) \in T /\ \A n \in T : Min(T) <= n
<1> DEFINE R == {ss \in Nat \X Nat : ss[1] < ss[2]}
<1>1. IsWellFoundedOn(R, Nat)
  BY NatLessThanWellFounded DEF OpToRel
<1>2. PICK m \in T : \A n \in T : ~ (<<n, m>> \in R)
  BY <1>1, WFMin
<1>3. ASSUME NEW n \in T PROVE m <= n
  <2>1. ~(n < m)
    BY <1>2
  <2> QED BY <2>1
<1> QED BY <1>3 DEF Min

LEMMA LeastMember ==
  ASSUME NEW T \in SUBSET Nat, T # {}
  PROVE  \E m \in T : \A n \in T : m <= n
BY LeastOf

LEMMA ValuesAre ==
  /\ Ended \in States /\ Runnable \in States /\ [is |-> "outside"] \in States
  /\ Runnable # Ended /\ \A st \in States : st.is # "ended" => st # Ended
  /\ \A r \in ProcessRecords : r # Unused
  /\ Free # End("read", 0) /\ \A k, p : Free # End(k, p)
  /\ \A k, p, l, q : End(k, p) = End(l, q) => k = l /\ p = q
  /\ \A x \in Descriptions : x = Free \/ \E p \in Pipes : x = End("read", p) \/ x = End("write", p)
  /\ \A x \in Descriptions : /\ x.kind = "read" => x = End("read", x.pipe) /\ x.pipe \in Pipes
                             /\ x.kind = "write" => x = End("write", x.pipe) /\ x.pipe \in Pipes
<1>1. /\ Ended \in States /\ Runnable \in States /\ [is |-> "outside"] \in States
  BY DEF States
<1>2. Ended.is = "ended" /\ Runnable.is = "runnable"
  BY DEF Ended, Runnable
<1>3. \A st \in States : st.is # "unused"
  BY DEF States, Runnable, Ended
<1>4. \A r \in ProcessRecords : r.state \in States
  BY DEF ProcessRecords, States
<1>5. Unused.state.is = "unused"
  BY DEF Unused
<1>6. \A r \in ProcessRecords : r # Unused
  BY <1>3, <1>4, <1>5
<1>7. Free.kind = "free" /\ \A k, p : End(k, p).kind = k /\ End(k, p).pipe = p
  BY DEF Free, End
<1>8. \A k, p, l, q : End(k, p) = End(l, q) => k = l /\ p = q
  BY <1>7
<1>9. \A x \in Descriptions : x = Free \/ \E p \in Pipes : x = End("read", p) \/ x = End("write", p)
  BY DEF Descriptions
<1>10. \A k, p : Free # End(k, p)
  BY DEF Free, End
<1>11. \A x \in Descriptions : /\ x.kind = "read" => x = End("read", x.pipe) /\ x.pipe \in Pipes
                               /\ x.kind = "write" => x = End("write", x.pipe) /\ x.pipe \in Pipes
  BY <1>7, <1>9
<1> QED BY <1>1, <1>2, <1>6, <1>8, <1>9, <1>10, <1>11

-----------------------------------------------------------------------------
\* Pipes.

LEMMA NamingFinite ==
  \A t, kind, p : /\ Naming(t, kind, p) \subseteq Slots \X Descriptors
                  /\ IsFiniteSet(Naming(t, kind, p))
<1>1. IsFiniteSet(Slots \X Descriptors)
  BY ConstantsAre, FS_Product
<1>2. ASSUME NEW t, NEW kind, NEW p
      PROVE  Naming(t, kind, p) \subseteq Slots \X Descriptors /\ IsFiniteSet(Naming(t, kind, p))
  <2>1. Naming(t, kind, p) \subseteq Slots \X Descriptors
    BY DEF Naming
  <2> QED BY <1>1, <2>1, FS_Subset
<1> QED BY <1>2

\* Ends that go take their count along; a pipe without ends is free.
LEMMA SettledGood ==
  ASSUME NEW pipe, NEW R, NEW W, IsFiniteSet(R), IsFiniteSet(W), PipeGood(pipe, R, W),
         NEW r \in SUBSET R, NEW w \in SUBSET W
  PROVE  PipeGood(Fewer(pipe, Cardinality(r), Cardinality(w)), R \ r, W \ w)
<1> DEFINE nr == Cardinality(R \ r)
           nw == Cardinality(W \ w)
           q == [pipe EXCEPT !.readers = @ - Cardinality(r), !.writers = @ - Cardinality(w)]
<1>1. /\ nr = Cardinality(R) - Cardinality(r) /\ nw = Cardinality(W) - Cardinality(w)
      /\ nr \in Nat /\ nw \in Nat /\ (nr = 0 <=> R \ r = {}) /\ (nw = 0 <=> W \ w = {})
      /\ nw <= Cardinality(W) /\ Cardinality(W) \in Nat
  <2>1. R \cap r = r /\ W \cap w = w
    OBVIOUS
  <2>2. IsFiniteSet(R \ r) /\ IsFiniteSet(W \ w)
    BY FS_Difference
  <2>3. nr = Cardinality(R) - Cardinality(r) /\ nw = Cardinality(W) - Cardinality(w)
    <3>1. nr = Cardinality(R) - Cardinality(R \cap r)
      BY FS_Difference
    <3>2. nw = Cardinality(W) - Cardinality(W \cap w)
      BY FS_Difference
    <3> QED BY <2>1, <3>1, <3>2
  <2>4. nr \in Nat /\ nw \in Nat /\ (nr = 0 <=> R \ r = {}) /\ (nw = 0 <=> W \ w = {})
    BY <2>2, FS_CardinalityType, FS_EmptySet
  <2>5. nw <= Cardinality(W) /\ Cardinality(W) \in Nat
    BY FS_Subset, FS_CardinalityType
  <2> QED BY <2>3, <2>4, <2>5
<1>2. pipe \in PipeStates /\ pipe.readers = Cardinality(R) /\ pipe.writers = Cardinality(W)
  BY DEF PipeGood
<1>3. q = [[pipe EXCEPT !.readers = nr] EXCEPT !.writers = nw]
  BY <1>1, <1>2 DEF PipeStates, More
<1> HIDE DEF nr, nw, q
<1>4. /\ q \in PipeStates /\ q.readers = nr /\ q.writers = nw /\ q.used = pipe.used
      /\ q.eof = pipe.eof /\ q.length = pipe.length
  BY <1>1, <1>2, <1>3 DEF PipeStates
<1>5. CASE nr = 0 /\ nw = 0
  <2>1. Settled(q) = EmptyPipe
    BY <1>4, <1>5 DEF Settled
  <2>2. EmptyPipe \in PipeStates
    BY ProcessesConstants DEF EmptyPipe, PipeStates
  <2>3. (R \ r) \cup (W \ w) = {}
    BY <1>1, <1>5
  <2>4. PipeGood(EmptyPipe, R \ r, W \ w)
    BY <1>5, <2>2, <2>3 DEF PipeGood, EmptyPipe, nr, nw
  <2> QED BY <2>1, <2>4 DEF Fewer, q
<1>6. CASE ~(nr = 0 /\ nw = 0)
  <2>1. Settled(q) = q
    BY <1>4, <1>6 DEF Settled
  <2>2. (R \ r) \cup (W \ w) # {} /\ pipe.used
    BY <1>1, <1>6 DEF PipeGood
  <2>3. q.eof => q.length = 0 /\ q.writers = 0
    BY <1>1, <1>2, <1>4 DEF PipeGood
  <2>4. PipeGood(q, R \ r, W \ w)
    BY <1>4, <2>2, <2>3 DEF PipeGood, nr, nw
  <2> QED BY <2>1, <2>4 DEF Fewer, q
<1> QED BY <1>5, <1>6

\* Ends that are added to others like them.
LEMMA AddedGood ==
  ASSUME NEW pipe, NEW R, NEW W, IsFiniteSet(R), IsFiniteSet(W), PipeGood(pipe, R, W),
         NEW r, NEW w, IsFiniteSet(r), IsFiniteSet(w), r \cap R = {}, w \cap W = {},
         r # {} => R # {}, w # {} => W # {}
  PROVE  PipeGood(More(pipe, Cardinality(r), Cardinality(w)), R \cup r, W \cup w)
<1> DEFINE nr == Cardinality(R \cup r)
           nw == Cardinality(W \cup w)
           q == More(pipe, Cardinality(r), Cardinality(w))
<1>1. /\ nr = Cardinality(R) + Cardinality(r) /\ nw = Cardinality(W) + Cardinality(w)
      /\ nr \in Nat /\ nw \in Nat
      /\ Cardinality(W) = 0 => Cardinality(w) = 0
  <2>1. IsFiniteSet(R \cup r) /\ IsFiniteSet(W \cup w)
    BY FS_Union
  <2>2. R \cap r = {} /\ W \cap w = {} /\ Cardinality({}) = 0
    BY FS_EmptySet
  <2>3. /\ Cardinality(R) \in Nat /\ Cardinality(W) \in Nat /\ Cardinality(r) \in Nat
        /\ Cardinality(w) \in Nat /\ nr \in Nat /\ nw \in Nat
    BY <2>1, FS_CardinalityType
  <2>4. nr = Cardinality(R) + Cardinality(r) - Cardinality(R \cap r)
        /\ nw = Cardinality(W) + Cardinality(w) - Cardinality(W \cap w)
    BY FS_Union
  <2>5. Cardinality(W) = 0 => Cardinality(w) = 0
    BY FS_EmptySet
  <2> HIDE DEF nr, nw
  <2>6. nr = Cardinality(R) + Cardinality(r) /\ nw = Cardinality(W) + Cardinality(w)
    <3>1. Cardinality(R \cap r) = 0 /\ Cardinality(W \cap w) = 0
      BY <2>2
    <3> QED BY <2>3, <2>4, <3>1
  <2> QED BY <2>3, <2>5, <2>6
<1>2. pipe \in PipeStates /\ pipe.readers = Cardinality(R) /\ pipe.writers = Cardinality(W)
  BY DEF PipeGood
<1>3. q = [[pipe EXCEPT !.readers = nr] EXCEPT !.writers = nw]
  BY <1>1, <1>2 DEF PipeStates, More
<1>4. pipe.eof => nw = 0
  <2>1. pipe.eof => Cardinality(W) = 0
    BY <1>2 DEF PipeGood
  <2> QED BY <1>1, <2>1
<1> HIDE DEF nr, nw, q
<1>5. /\ q \in PipeStates /\ q.readers = nr /\ q.writers = nw /\ q.used = pipe.used
      /\ q.eof = pipe.eof /\ q.length = pipe.length
  BY <1>1, <1>2, <1>3 DEF PipeStates
<1>6. R \cup W # {} <=> (R \cup r) \cup (W \cup w) # {}
  OBVIOUS
<1> QED BY <1>4, <1>5, <1>6 DEF PipeGood, q, nr, nw

LEMMA LengthsAre ==
  ASSUME NEW pipe, NEW R, NEW W, PipeGood(pipe, R, W)
  PROVE  /\ pipe.length \in 0 .. PipeBytes
         /\ pipe.length > 0 => pipe.length - 1 \in 0 .. PipeBytes /\ ~pipe.eof
         /\ ~(pipe.length > 0) => pipe.length = 0
         /\ pipe.length < PipeBytes => pipe.length + 1 \in 0 .. PipeBytes
<1>1. pipe.length \in 0 .. PipeBytes /\ (pipe.eof => pipe.length = 0) /\ PipeBytes \in Nat
  BY ProcessesConstants DEF PipeGood, PipeStates
<1> DEFINE n == pipe.length
<1>2. n \in 0 .. PipeBytes /\ (pipe.eof => n = 0)
  BY <1>1
<1> HIDE DEF n
<1>3. /\ n > 0 => n - 1 \in 0 .. PipeBytes /\ ~pipe.eof
      /\ ~(n > 0) => n = 0
      /\ n < PipeBytes => n + 1 \in 0 .. PipeBytes
  BY <1>1, <1>2
<1> QED BY <1>1, <1>3 DEF n

\* Bytes come and go, and an end of file is told.
LEMMA FilledGood ==
  ASSUME NEW pipe, NEW R, NEW W, PipeGood(pipe, R, W), NEW n \in 0 .. PipeBytes,
         pipe.eof => n = 0
  PROVE  PipeGood([pipe EXCEPT !.length = n], R, W)
BY DEF PipeGood, PipeStates

LEMMA EofGood ==
  ASSUME NEW pipe, NEW R, NEW W, PipeGood(pipe, R, W), pipe.length = 0, pipe.writers = 0
  PROVE  PipeGood([pipe EXCEPT !.eof = TRUE], R, W)
BY DEF PipeGood, PipeStates

-----------------------------------------------------------------------------
\* Tables.

LEMMA GoodIs ==
  ASSUME NEW t, Good(t)
  PROVE  /\ t \in Tables /\ t.processes \in [Slots -> {Unused} \cup ProcessRecords]
         /\ t.pipes \in [Pipes -> PipeStates] /\ t.pool \in SUBSET Frames
         /\ t.lost \in SUBSET Frames /\ t.started \in 0 .. MaxStarted
         /\ Live(t) \subseteq Taken(t) /\ Taken(t) \subseteq Slots
         /\ \A i \in Taken(t) : /\ t.processes[i] \in ProcessRecords
                                /\ t.processes[i].frames \in SUBSET Frames
                                /\ t.processes[i].descriptors \in [Descriptors -> Descriptions]
                                /\ t.processes[i].state \in States
         /\ \A i \in Slots : i \in Live(t) <=>
              t.processes[i] # Unused /\ t.processes[i].state # Ended
         /\ \A i \in Slots \ Taken(t) : t.processes[i] = Unused
<1>1. /\ t \in Tables /\ t.processes \in [Slots -> {Unused} \cup ProcessRecords]
      /\ t.pipes \in [Pipes -> PipeStates] /\ t.pool \in SUBSET Frames
      /\ t.lost \in SUBSET Frames /\ t.started \in 0 .. MaxStarted
  BY DEF Good, Tables
<1>2. \A i \in Taken(t) : t.processes[i] \in ProcessRecords
  BY <1>1 DEF Taken
<1>3. \A i \in Taken(t) : /\ t.processes[i].frames \in SUBSET Frames
                          /\ t.processes[i].descriptors \in [Descriptors -> Descriptions]
                          /\ t.processes[i].state \in States
  BY <1>2 DEF ProcessRecords, Descriptions, States
<1> QED BY <1>1, <1>2, <1>3 DEF Taken, Live

LEMMA OwnedKept ==
  ASSUME NEW t, NEW s, OwnedOnce(t), s.pool = t.pool, s.lost = t.lost,
         \A i \in Slots : HeldBy(s, i) = HeldBy(t, i)
  PROVE  OwnedOnce(s)
BY DEF OwnedOnce

LEMMA NamingKept ==
  ASSUME NEW t, NEW s, \A i \in Slots : \A d \in Descriptors : At(s, i, d) = At(t, i, d)
  PROVE  \A kind, p : Naming(s, kind, p) = Naming(t, kind, p)
BY DEF Naming

\* A process becomes another one that has the same frames and descriptors.
LEMMA ProcessChanges ==
  ASSUME NEW t, Good(t), NEW i \in Live(t), NEW r \in ProcessRecords, r.state # Ended,
         r.frames = t.processes[i].frames, r.descriptors = t.processes[i].descriptors,
         NEW s, s = [t EXCEPT !.processes[i] = r]
  PROVE  Good(s) /\ Live(s) = Live(t) /\ Taken(s) = Taken(t)
<1>1. /\ s \in Tables /\ s.pipes = t.pipes /\ s.pool = t.pool /\ s.lost = t.lost
      /\ s.processes = [t.processes EXCEPT ![i] = r]
  BY GoodIs DEF Tables
<1>2. Taken(s) = Taken(t) /\ Live(s) = Live(t)
  BY <1>1, GoodIs, ValuesAre DEF Taken, Live
<1>3. \A j \in Slots : j # i => s.processes[j] = t.processes[j]
  BY <1>1, GoodIs
<1>4. s.processes[i] = r
  BY <1>1, GoodIs
<1>5. OwnedOnce(s)
  <2>1. \A j \in Slots : HeldBy(s, j) = HeldBy(t, j)
    BY <1>2, <1>3, <1>4 DEF HeldBy
  <2>2. OwnedOnce(t)
    BY DEF Good
  <2> QED BY <1>1, <2>1, <2>2, OwnedKept
<1>6. Counted(s)
  <2>1. \A j \in Slots : \A d \in Descriptors : At(s, j, d) = At(t, j, d)
    BY <1>2, <1>3, <1>4 DEF At
  <2>2. \A kind, p : Naming(s, kind, p) = Naming(t, kind, p)
    BY <2>1, NamingKept
  <2>3. Counted(t)
    BY DEF Good
  <2> QED BY <1>1, <2>2, <2>3 DEF Counted
<1>7. EndedHoldNothing(s)
  BY <1>2, <1>3, GoodIs DEF EndedHoldNothing, Good
<1> QED BY <1>1, <1>2, <1>5, <1>6, <1>7 DEF Good

LEMMA StateChanges ==
  ASSUME NEW t, Good(t), NEW i \in Live(t), NEW st \in States \ {Ended}
  PROVE  /\ Good([t EXCEPT !.processes[i].state = st])
         /\ Live([t EXCEPT !.processes[i].state = st]) = Live(t)
<1> DEFINE r == [t.processes[i] EXCEPT !.state = st]
           s == [t EXCEPT !.processes[i].state = st]
<1>1. t.processes[i] \in ProcessRecords /\ i \in Slots
  BY GoodIs
<1>2. r \in ProcessRecords /\ r.state = st /\ r.frames = t.processes[i].frames
      /\ r.descriptors = t.processes[i].descriptors
  BY <1>1 DEF ProcessRecords, States
<1>3. s = [t EXCEPT !.processes[i] = r]
  BY GoodIs DEF Tables
<1> HIDE DEF r, s
<1>4. Good(s) /\ Live(s) = Live(t)
  BY <1>2, <1>3, ProcessChanges
<1> QED BY <1>4 DEF s

\* One slot has another content: what it has and names, and what the others do.
LEMMA OneSlot ==
  ASSUME NEW t, Good(t), NEW i \in Slots, NEW r \in {Unused} \cup ProcessRecords,
         NEW s, s.processes = [t.processes EXCEPT ![i] = r]
  PROVE  /\ \A j \in Slots : j # i =>
              /\ HeldBy(s, j) = HeldBy(t, j) /\ s.processes[j] = t.processes[j]
              /\ \A d \in Descriptors : At(s, j, d) = At(t, j, d)
              /\ j \in Live(s) <=> j \in Live(t)
              /\ j \in Taken(s) <=> j \in Taken(t)
         /\ HeldBy(s, i) = IF r # Unused /\ r.state # Ended THEN r.frames ELSE {}
         /\ \A d \in Descriptors : At(s, i, d) = IF r # Unused THEN r.descriptors[d] ELSE Free
         /\ i \in Taken(s) <=> r # Unused
         /\ i \in Live(s) <=> r # Unused /\ r.state # Ended
         /\ r = Unused \/ r.state # Ended => EndedHoldNothing(s)
<1>1. \A j \in Slots : j # i => s.processes[j] = t.processes[j]
  BY GoodIs
<1>2. s.processes[i] = r
  BY GoodIs
<1>3. \A j \in Slots : j # i => (j \in Live(s) <=> j \in Live(t)) /\ (j \in Taken(s) <=> j \in Taken(t))
  BY <1>1 DEF Live, Taken
<1>4. i \in Taken(s) <=> r # Unused
  BY <1>2 DEF Taken
<1>5. i \in Live(s) <=> r # Unused /\ r.state # Ended
  BY <1>2, <1>4 DEF Live
<1>6. \A j \in Slots : j # i => HeldBy(s, j) = HeldBy(t, j)
  BY <1>1, <1>3 DEF HeldBy
<1>7. \A j \in Slots : j # i => \A d \in Descriptors : At(s, j, d) = At(t, j, d)
  BY <1>1, <1>3 DEF At
<1>8. HeldBy(s, i) = IF r # Unused /\ r.state # Ended THEN r.frames ELSE {}
  BY <1>2, <1>5 DEF HeldBy
<1>9. \A d \in Descriptors : At(s, i, d) = IF r # Unused THEN r.descriptors[d] ELSE Free
  BY <1>2, <1>4 DEF At
<1>10. ASSUME r = Unused \/ r.state # Ended PROVE EndedHoldNothing(s)
  <2>1. ASSUME NEW j \in Taken(s) \ Live(s)
        PROVE  s.processes[j].frames = {} /\ \A d \in Descriptors : s.processes[j].descriptors[d] = Free
    <3>1. j \in Slots /\ j # i
      BY <1>4, <1>5, <1>10 DEF Taken
    <3>2. j \in Taken(t) \ Live(t)
      BY <1>3, <3>1
    <3> QED BY <1>1, <3>1, <3>2 DEF Good, EndedHoldNothing
  <2> QED BY <2>1 DEF EndedHoldNothing
<1> QED BY <1>1, <1>3, <1>4, <1>5, <1>6, <1>7, <1>8, <1>9, <1>10

\* A frame of the pool goes to a slot, or is lost.
LEMMA FrameGiven ==
  ASSUME NEW t, Good(t), NEW f \in t.pool, NEW i \in Slots,
         NEW s, s.pool = t.pool \ {f}, s.lost = t.lost,
         HeldBy(s, i) = HeldBy(t, i) \cup {f},
         \A j \in Slots : j # i => HeldBy(s, j) = HeldBy(t, j)
  PROVE  OwnedOnce(s)
<1>1. f \in Frames /\ OwnedOnce(t)
  BY DEF Good, Tables
<1>2. \A j \in Slots : f \in HeldBy(s, j) => j = i
  BY <1>1 DEF OwnedOnce
<1>3. f \notin s.pool /\ f \notin s.lost /\ f \in HeldBy(s, i)
  BY <1>1 DEF OwnedOnce
<1>4. \A g \in Frames : g # f => /\ g \in s.pool <=> g \in t.pool
                                 /\ \A j \in Slots : g \in HeldBy(s, j) <=> g \in HeldBy(t, j)
  OBVIOUS
<1>5. ASSUME NEW g \in Frames
      PROVE  /\ g \in s.pool \/ g \in s.lost \/ \E j \in Slots : g \in HeldBy(s, j)
             /\ ~(g \in s.pool /\ g \in s.lost)
             /\ \A k \in Slots : g \in HeldBy(s, k) =>
                  g \notin s.pool /\ g \notin s.lost /\ \A j \in Slots : g \in HeldBy(s, j) => j = k
  <2>1. CASE g = f
    BY <1>2, <1>3, <2>1
  <2>2. CASE g # f
    BY <1>1, <1>4, <2>2 DEF OwnedOnce
  <2> QED BY <2>1, <2>2
<1> QED BY <1>5 DEF OwnedOnce

LEMMA FrameLost ==
  ASSUME NEW t, Good(t), NEW f \in t.pool
  PROVE  Good([[t EXCEPT !.pool = @ \ {f}] EXCEPT !.lost = @ \cup {f}])
<1> DEFINE s == [[t EXCEPT !.pool = @ \ {f}] EXCEPT !.lost = @ \cup {f}]
<1>1. s \in Tables /\ s.pool = t.pool \ {f} /\ s.lost = t.lost \cup {f}
      /\ s.pipes = t.pipes /\ s.processes = t.processes
  BY DEF Good, Tables
<1> HIDE DEF s
<1>2. Taken(s) = Taken(t) /\ Live(s) = Live(t)
  BY <1>1 DEF Taken, Live
<1>3. \A j \in Slots : HeldBy(s, j) = HeldBy(t, j)
  BY <1>1, <1>2 DEF HeldBy
<1>4. \A j \in Slots : \A d \in Descriptors : At(s, j, d) = At(t, j, d)
  BY <1>1, <1>2 DEF At
<1>5. f \in Frames /\ OwnedOnce(t)
  BY DEF Good, Tables
<1>6. OwnedOnce(s)
  BY <1>1, <1>3, <1>5 DEF OwnedOnce
<1>7. \A kind, p : Naming(s, kind, p) = Naming(t, kind, p)
  BY <1>4, NamingKept
<1>8. Counted(s)
  BY <1>1, <1>7 DEF Counted, Good
<1>9. EndedHoldNothing(s)
  BY <1>1, <1>2 DEF EndedHoldNothing, Good
<1>10. Good(s)
  BY <1>1, <1>6, <1>8, <1>9 DEF Good
<1> QED BY <1>10 DEF s

\* One pipe is another one that as many name.
LEMMA PipeChanges ==
  ASSUME NEW t, Good(t), NEW p \in Pipes, NEW pipe,
         PipeGood(pipe, Naming(t, "read", p), Naming(t, "write", p)),
         NEW s, s = [t EXCEPT !.pipes[p] = pipe]
  PROVE  Good(s)
<1>1. pipe \in PipeStates
  BY DEF PipeGood
<1>2. s \in Tables /\ s.pool = t.pool /\ s.lost = t.lost
      /\ s.pipes = [t.pipes EXCEPT ![p] = pipe] /\ s.processes = t.processes
  BY <1>1 DEF Good, Tables
<1>3. Taken(s) = Taken(t) /\ Live(s) = Live(t)
  BY <1>2 DEF Taken, Live
<1>4. \A j \in Slots : HeldBy(s, j) = HeldBy(t, j)
  BY <1>2, <1>3 DEF HeldBy
<1>5. \A j \in Slots : \A d \in Descriptors : At(s, j, d) = At(t, j, d)
  BY <1>2, <1>3 DEF At
<1>6. OwnedOnce(s)
  BY <1>2, <1>4, OwnedKept DEF Good
<1>7. \A kind, q : Naming(s, kind, q) = Naming(t, kind, q)
  BY <1>5, NamingKept
<1>8. Counted(s)
  <2>1. ASSUME NEW q \in Pipes PROVE PipeGood(s.pipes[q], Naming(s, "read", q), Naming(s, "write", q))
    <3>1. PipeGood(t.pipes[q], Naming(t, "read", q), Naming(t, "write", q))
      BY DEF Good, Counted
    <3>2. s.pipes[q] = IF q = p THEN pipe ELSE t.pipes[q]
      BY <1>2, GoodIs
    <3> QED BY <1>7, <3>1, <3>2
  <2> QED BY <2>1 DEF Counted
<1>9. EndedHoldNothing(s)
  BY <1>2, <1>3 DEF EndedHoldNothing, Good
<1> QED BY <1>2, <1>6, <1>8, <1>9 DEF Good

LEMMA ReadGood ==
  ASSUME NEW t, Good(t), NEW i \in Live(t), NEW d \in Descriptors
  PROVE  Good(PipeRead(t, i, d).table)
<1> DEFINE x == t.processes[i].descriptors[d]
           p == x.pipe
           pipe == t.pipes[p]
<1>1. x \in Descriptions
  BY GoodIs
<1>2. CASE x.kind # "read"
  BY <1>2 DEF PipeRead, Answered
<1>3. CASE x.kind = "read"
  <2>1. p \in Pipes
    BY <1>1, <1>3, ValuesAre
  <2>2. PipeGood(pipe, Naming(t, "read", p), Naming(t, "write", p)) /\ pipe \in PipeStates
    BY <2>1 DEF Good, Counted, PipeGood
  <2>3. CASE pipe.length > 0
    <3> DEFINE q == [pipe EXCEPT !.length = pipe.length - 1]
               s == [t EXCEPT !.pipes[p] = q]
    <3>1. pipe.length - 1 \in 0 .. PipeBytes /\ ~pipe.eof
      <4> HIDE DEF pipe
      <4> QED BY <2>2, <2>3, LengthsAre
    <3>2. PipeGood(q, Naming(t, "read", p), Naming(t, "write", p))
      BY <2>2, <3>1, FilledGood
    <3>3. Good(s)
      <4> HIDE DEF q, p
      <4> QED BY <2>1, <3>2, PipeChanges
    <3>4. s = [t EXCEPT !.pipes[p].length = @ - 1]
      BY <2>1, GoodIs DEF Tables
    <3> QED BY <1>3, <2>3, <3>3, <3>4 DEF PipeRead, Answered
  <2>4. CASE ~(pipe.length > 0) /\ pipe.writers = 0
    <3> DEFINE q == [pipe EXCEPT !.eof = TRUE]
               s == [t EXCEPT !.pipes[p] = q]
    <3>1. pipe.length = 0
      <4> HIDE DEF pipe
      <4> QED BY <2>2, <2>4, LengthsAre
    <3>2. PipeGood(q, Naming(t, "read", p), Naming(t, "write", p))
      BY <2>2, <2>4, <3>1, EofGood
    <3>3. Good(s)
      <4> HIDE DEF q, p
      <4> QED BY <2>1, <3>2, PipeChanges
    <3>4. s = [t EXCEPT !.pipes[p].eof = TRUE]
      BY <2>1, GoodIs DEF Tables
    <3> QED BY <1>3, <2>4, <3>3, <3>4 DEF PipeRead, Answered
  <2>5. CASE ~(pipe.length > 0) /\ pipe.writers # 0
    BY <1>3, <2>5 DEF PipeRead, Blocked
  <2> QED BY <2>3, <2>4, <2>5
<1> QED BY <1>2, <1>3

\* A byte is written only while somebody, the writer, can: no end has been told.
LEMMA WriteGood ==
  ASSUME NEW t, Good(t), NEW i \in Live(t), NEW d \in Descriptors
  PROVE  Good(PipeWrite(t, i, d).table)
<1> DEFINE x == t.processes[i].descriptors[d]
           p == x.pipe
           pipe == t.pipes[p]
<1>1. x \in Descriptions
  BY GoodIs
<1>2. CASE x.kind # "write" \/ pipe.readers = 0 \/ ~(pipe.length < PipeBytes)
  BY <1>2 DEF PipeWrite, Answered, Blocked
<1>3. CASE x.kind = "write" /\ pipe.readers # 0 /\ pipe.length < PipeBytes
  <2>1. p \in Pipes /\ x = End("write", p)
    BY <1>1, <1>3, ValuesAre
  <2>2. PipeGood(pipe, Naming(t, "read", p), Naming(t, "write", p)) /\ pipe \in PipeStates
    BY <2>1 DEF Good, Counted, PipeGood
  <2>3. ~pipe.eof
    <3>1. <<i, d>> \in Naming(t, "write", p)
      <4>1. i \in Taken(t) /\ i \in Slots
        BY GoodIs
      <4>2. At(t, i, d) = End("write", p)
        BY <2>1, <4>1 DEF At
      <4> HIDE DEF p
      <4> QED BY <4>1, <4>2 DEF Naming
    <3>2. Cardinality(Naming(t, "write", p)) # 0
      <4> HIDE DEF p
      <4>1. IsFiniteSet(Naming(t, "write", p))
        BY NamingFinite
      <4> QED BY <3>1, <4>1, FS_EmptySet
    <3> QED BY <2>2, <3>2 DEF PipeGood
  <2> DEFINE q == [pipe EXCEPT !.length = pipe.length + 1]
             s == [t EXCEPT !.pipes[p] = q]
  <2>4. pipe.length + 1 \in 0 .. PipeBytes
    <3> HIDE DEF pipe
    <3> QED BY <1>3, <2>2, LengthsAre
  <2>5. PipeGood(q, Naming(t, "read", p), Naming(t, "write", p))
    BY <2>2, <2>3, <2>4, FilledGood
  <2>6. Good(s)
    <3> HIDE DEF q, p
    <3> QED BY <2>1, <2>5, PipeChanges
  <2>7. s = [t EXCEPT !.pipes[p].length = @ + 1]
    BY <2>1, GoodIs DEF Tables
  <2> QED BY <1>3, <2>6, <2>7 DEF PipeWrite, Answered
<1> QED BY <1>2, <1>3

\* Pages for a live process.
LEMMA GrowGood ==
  ASSUME NEW t, Good(t), NEW i \in Live(t)
  PROVE  Good(Grow(t, i))
<1> DEFINE f == NextFrame(t)
           r == [t.processes[i] EXCEPT !.frames = t.processes[i].frames \cup {f}]
           s == [[t EXCEPT !.pool = t.pool \ {f}] EXCEPT !.processes[i] = r]
<1>1. CASE t.pool = {}
  BY <1>1 DEF Grow, HasFrame
<1>2. CASE t.pool # {}
  <2>1. f \in t.pool
    BY <1>2, GoodIs, ConstantsAre, LeastOf DEF NextFrame
  <2> HIDE DEF f
  <2>2. t.processes[i] \in ProcessRecords /\ i \in Slots /\ f \in Frames
        /\ t.processes[i].state # Ended
    BY <2>1, GoodIs
  <2>3. r \in ProcessRecords /\ r.state = t.processes[i].state
        /\ r.frames = t.processes[i].frames \cup {f}
        /\ r.descriptors = t.processes[i].descriptors
    BY <2>2 DEF ProcessRecords
  <2>4. r # Unused /\ r.state # Ended
    BY <2>2, <2>3, ValuesAre
  <2>5. Grow(t, i) = s
    BY <1>2, <2>2, GoodIs DEF Grow, HasFrame, f, Tables
  <2> HIDE DEF r
  <2>6. /\ s \in Tables /\ s.pipes = t.pipes /\ s.pool = t.pool \ {f} /\ s.lost = t.lost
        /\ s.processes = [t.processes EXCEPT ![i] = r]
    BY <2>2, <2>3, GoodIs DEF Tables
  <2> HIDE DEF s
  <2>7. /\ \A j \in Slots : j # i => HeldBy(s, j) = HeldBy(t, j)
        /\ \A j \in Slots : j # i => \A d \in Descriptors : At(s, j, d) = At(t, j, d)
        /\ HeldBy(s, i) = r.frames /\ \A d \in Descriptors : At(s, i, d) = r.descriptors[d]
        /\ EndedHoldNothing(s)
    BY <2>2, <2>3, <2>4, <2>6, OneSlot
  <2>8. HeldBy(s, i) = HeldBy(t, i) \cup {f}
    BY <2>3, <2>7 DEF HeldBy
  <2>9. OwnedOnce(s)
    BY <2>1, <2>2, <2>6, <2>7, <2>8, FrameGiven
  <2>10. \A j \in Slots : \A d \in Descriptors : At(s, j, d) = At(t, j, d)
    BY <2>3, <2>7, GoodIs DEF At
  <2>11. \A kind, p : Naming(s, kind, p) = Naming(t, kind, p)
    BY <2>10, NamingKept
  <2>12. Counted(s)
    BY <2>6, <2>11 DEF Counted, Good
  <2> QED BY <2>5, <2>6, <2>7, <2>9, <2>12 DEF Good
<1> QED BY <1>1, <1>2

\* Who names what, descriptor by descriptor.
LEMMA NamingIs ==
  \A t, kind, p : \A j \in Slots : \A e \in Descriptors :
    <<j, e>> \in Naming(t, kind, p) <=> At(t, j, e) = End(kind, p)
BY DEF Naming

LEMMA NamingSame ==
  ASSUME NEW t, NEW s, NEW kind, NEW p,
         \A j \in Slots : \A e \in Descriptors :
           At(s, j, e) = End(kind, p) <=> At(t, j, e) = End(kind, p)
  PROVE  Naming(s, kind, p) = Naming(t, kind, p)
BY DEF Naming

LEMMA SamePairs ==
  ASSUME NEW S, NEW D, NEW A \in SUBSET (S \X D), NEW B \in SUBSET (S \X D),
         \A j \in S : \A e \in D : <<j, e>> \in A <=> <<j, e>> \in B
  PROVE  A = B
OBVIOUS

\* One end of a pipe goes.
LEMMA EndGone ==
  ASSUME NEW pipe, NEW R, NEW W, IsFiniteSet(R), IsFiniteSet(W), PipeGood(pipe, R, W), NEW x
  PROVE  /\ x \in R => PipeGood(Fewer(pipe, 1, 0), R \ {x}, W)
         /\ x \in W => PipeGood(Fewer(pipe, 0, 1), R, W \ {x})
<1>1. Cardinality({x}) = 1 /\ Cardinality({}) = 0 /\ R \ {} = R /\ W \ {} = W
  BY FS_Singleton, FS_EmptySet
<1>2. ASSUME x \in R PROVE PipeGood(Fewer(pipe, 1, 0), R \ {x}, W)
  <2>1. PipeGood(Fewer(pipe, Cardinality({x}), Cardinality({})), R \ {x}, W \ {})
    BY <1>2, SettledGood
  <2> QED BY <1>1, <2>1
<1>3. ASSUME x \in W PROVE PipeGood(Fewer(pipe, 0, 1), R, W \ {x})
  <2>1. PipeGood(Fewer(pipe, Cardinality({}), Cardinality({x})), R \ {}, W \ {x})
    BY <1>3, SettledGood
  <2> QED BY <1>1, <2>1
<1> QED BY <1>2, <1>3

\* A live process has other descriptors, and the pipes are counted anew.
LEMMA DescriptorsChange ==
  ASSUME NEW t, Good(t), NEW i \in Live(t), NEW D \in [Descriptors -> Descriptions],
         NEW s \in Tables, s.pool = t.pool, s.lost = t.lost,
         s.processes = [t.processes EXCEPT ![i] = [t.processes[i] EXCEPT !.descriptors = D]]
  PROVE  /\ Counted(s) => Good(s)
         /\ \A e \in Descriptors : At(t, i, e) = t.processes[i].descriptors[e]
         /\ \A e \in Descriptors : At(s, i, e) = D[e]
         /\ \A j \in Slots : j # i => \A e \in Descriptors : At(s, j, e) = At(t, j, e)
<1> DEFINE r == [t.processes[i] EXCEPT !.descriptors = D]
<1>1. t.processes[i] \in ProcessRecords /\ i \in Slots /\ i \in Taken(t)
      /\ t.processes[i].state # Ended
  BY GoodIs
<1>2. r \in ProcessRecords /\ r.state = t.processes[i].state
      /\ r.frames = t.processes[i].frames /\ r.descriptors = D
  BY <1>1 DEF ProcessRecords, Descriptions
<1>3. r # Unused /\ r.state # Ended
  BY <1>1, <1>2, ValuesAre
<1>5. s.processes = [t.processes EXCEPT ![i] = r]
  OBVIOUS
<1> HIDE DEF r
<1>6. /\ \A j \in Slots : j # i => HeldBy(s, j) = HeldBy(t, j)
      /\ \A j \in Slots : j # i => \A e \in Descriptors : At(s, j, e) = At(t, j, e)
      /\ HeldBy(s, i) = r.frames /\ \A e \in Descriptors : At(s, i, e) = r.descriptors[e]
      /\ EndedHoldNothing(s)
  BY <1>1, <1>2, <1>3, <1>5, OneSlot
<1>7. \A j \in Slots : HeldBy(s, j) = HeldBy(t, j)
  BY <1>2, <1>6 DEF HeldBy
<1>8. OwnedOnce(s)
  <2>1. OwnedOnce(t)
    BY DEF Good
  <2> QED BY <1>7, <2>1, OwnedKept
<1>9. \A e \in Descriptors : At(t, i, e) = t.processes[i].descriptors[e]
  BY <1>1 DEF At
<1> QED BY <1>2, <1>6, <1>8, <1>9 DEF Good

Drops(t, s, i, d, p, now) ==
  /\ s \in Tables /\ s.pool = t.pool /\ s.lost = t.lost /\ s.pipes = [t.pipes EXCEPT ![p] = now]
  /\ s.processes = [t.processes EXCEPT ![i] =
       [t.processes[i] EXCEPT !.descriptors = [t.processes[i].descriptors EXCEPT ![d] = Free]]]

LEMMA EndTaken ==
  ASSUME NEW t, Good(t), NEW i \in Live(t), NEW d \in Descriptors,
         NEW kind \in {"read", "write"}, NEW p \in Pipes,
         t.processes[i].descriptors[d] = End(kind, p), NEW now,
         kind = "read" =>
           PipeGood(now, Naming(t, "read", p) \ {<<i, d>>}, Naming(t, "write", p)),
         kind = "write" =>
           PipeGood(now, Naming(t, "read", p), Naming(t, "write", p) \ {<<i, d>>}),
         NEW s, Drops(t, s, i, d, p, now)
  PROVE  Good(s)
<1> DEFINE D == [t.processes[i].descriptors EXCEPT ![d] = Free]
<1>1. i \in Slots /\ t.processes[i].descriptors \in [Descriptors -> Descriptions]
  BY GoodIs
<1>2. D \in [Descriptors -> Descriptions] /\ D[d] = Free
      /\ \A e \in Descriptors : e # d => D[e] = t.processes[i].descriptors[e]
  BY <1>1 DEF Descriptions
<1>3. /\ s \in Tables /\ s.pool = t.pool /\ s.lost = t.lost /\ s.pipes = [t.pipes EXCEPT ![p] = now]
      /\ s.processes = [t.processes EXCEPT ![i] = [t.processes[i] EXCEPT !.descriptors = D]]
  BY DEF Drops
<1> HIDE DEF D
<1>4. /\ Counted(s) => Good(s)
      /\ \A e \in Descriptors : At(t, i, e) = t.processes[i].descriptors[e]
      /\ \A e \in Descriptors : At(s, i, e) = D[e]
      /\ \A j \in Slots : j # i => \A e \in Descriptors : At(s, j, e) = At(t, j, e)
  BY <1>2, <1>3, DescriptorsChange
<1>5. At(t, i, d) = End(kind, p) /\ At(s, i, d) = Free
  BY <1>2, <1>4
<1>6. \A j \in Slots : \A e \in Descriptors : <<j, e>> # <<i, d>> => At(s, j, e) = At(t, j, e)
  BY <1>2, <1>4
<1>7. ASSUME NEW k, NEW q
      PROVE  Naming(s, k, q) = Naming(t, k, q) \ {<<i, d>>}
  <2>1. ASSUME NEW j \in Slots, NEW e \in Descriptors
        PROVE  <<j, e>> \in Naming(s, k, q) <=> <<j, e>> \in Naming(t, k, q) \ {<<i, d>>}
    <3>1. /\ <<j, e>> \in Naming(s, k, q) <=> At(s, j, e) = End(k, q)
          /\ <<j, e>> \in Naming(t, k, q) <=> At(t, j, e) = End(k, q)
      BY NamingIs
    <3>2. Free # End(k, q)
      BY ValuesAre
    <3> QED BY <1>5, <1>6, <3>1, <3>2
  <2>2. Naming(s, k, q) \in SUBSET (Slots \X Descriptors)
        /\ Naming(t, k, q) \ {<<i, d>>} \in SUBSET (Slots \X Descriptors)
    BY NamingFinite
  <2> QED BY <2>1, <2>2, SamePairs
<1>8. ASSUME NEW k, NEW q, ~(k = kind /\ q = p)
      PROVE  Naming(s, k, q) = Naming(t, k, q)
  <2>1. <<i, d>> \notin Naming(t, k, q)
    <3>1. <<i, d>> \in Naming(t, k, q) => At(t, i, d) = End(k, q)
      BY <1>1, NamingIs
    <3>2. End(kind, p) = End(k, q) => kind = k /\ p = q
      BY ValuesAre
    <3> QED BY <1>5, <1>8, <3>1, <3>2
  <2>2. Naming(s, k, q) = Naming(t, k, q) \ {<<i, d>>}
    BY <1>7
  <2> QED BY <2>1, <2>2
<1>9. ASSUME NEW q \in Pipes
      PROVE  PipeGood(s.pipes[q], Naming(s, "read", q), Naming(s, "write", q))
  <2>1. CASE q = p
    <3>1. s.pipes[q] = now
      BY <1>3, <2>1, GoodIs
    <3>2. CASE kind = "read"
      <4>1. Naming(s, "write", p) = Naming(t, "write", p)
        BY <1>8, <3>2
      <4>2. Naming(s, "read", p) = Naming(t, "read", p) \ {<<i, d>>}
        BY <1>7
      <4> QED BY <2>1, <3>1, <3>2, <4>1, <4>2
    <3>3. CASE kind = "write"
      <4>1. Naming(s, "read", p) = Naming(t, "read", p)
        BY <1>8, <3>3
      <4>2. Naming(s, "write", p) = Naming(t, "write", p) \ {<<i, d>>}
        BY <1>7
      <4> QED BY <2>1, <3>1, <3>3, <4>1, <4>2
    <3> QED BY <3>2, <3>3
  <2>2. CASE q # p
    <3>1. s.pipes[q] = t.pipes[q]
      BY <1>3, <2>2, GoodIs
    <3>2. Naming(s, "read", q) = Naming(t, "read", q) /\ Naming(s, "write", q) = Naming(t, "write", q)
      BY <1>8, <2>2
    <3>3. PipeGood(t.pipes[q], Naming(t, "read", q), Naming(t, "write", q))
      BY DEF Good, Counted
    <3> QED BY <3>1, <3>2, <3>3
  <2> QED BY <2>1, <2>2
<1> QED BY <1>4, <1>9 DEF Counted

LEMMA CloseGood ==
  ASSUME NEW t, Good(t), NEW i \in Live(t), NEW d \in Named(t, i)
  PROVE  Good(Close(t, i, d))
<1> DEFINE x == t.processes[i].descriptors[d]
           p == x.pipe
           A == [t.processes EXCEPT ![i] =
             [t.processes[i] EXCEPT !.descriptors = [t.processes[i].descriptors EXCEPT ![d] = Free]]]
           u == Forgotten(t, i, d)
           old == t.pipes[p]
<1>1. d \in Descriptors /\ x \in Descriptions /\ x # Free /\ i \in Slots
      /\ t.processes[i] \in ProcessRecords
      /\ t.processes[i].descriptors \in [Descriptors -> Descriptions]
  BY GoodIs DEF Named
<1>2. A \in [Slots -> {Unused} \cup ProcessRecords]
  <2> DEFINE D == [t.processes[i].descriptors EXCEPT ![d] = Free]
  <2>1. D \in [Descriptors -> Descriptions]
    BY <1>1 DEF Descriptions
  <2> HIDE DEF D
  <2>2. [t.processes[i] EXCEPT !.descriptors = D] \in ProcessRecords
    BY <1>1, <2>1 DEF ProcessRecords, Descriptions
  <2> QED BY <1>1, <2>2, GoodIs DEF D
<1>3. p \in Pipes /\ (x = End("read", p) \/ x = End("write", p))
  <2>1. PICK q \in Pipes : x = End("read", q) \/ x = End("write", q)
    BY <1>1, ValuesAre
  <2>2. p = q
    BY <2>1 DEF End
  <2> QED BY <2>1, <2>2
<1>4. IsFiniteSet(Naming(t, "read", p)) /\ IsFiniteSet(Naming(t, "write", p))
  BY NamingFinite
<1>5. PipeGood(old, Naming(t, "read", p), Naming(t, "write", p))
  BY <1>3 DEF Good, Counted
<1>6. u = [t EXCEPT !.processes = A] /\ u.pipes = t.pipes
  BY <1>1, GoodIs DEF Tables, ProcessRecords, Forgotten
<1>7. <<i, d>> \in Naming(t, x.kind, p)
  <2>1. At(t, i, d) = x
    BY GoodIs DEF At
  <2> QED BY <1>1, <1>3, <2>1, NamingIs DEF End
<1>8. ASSUME NEW now \in PipeStates, NEW s, s = [u EXCEPT !.pipes = [t.pipes EXCEPT ![p] = now]]
      PROVE  /\ s \in Tables /\ s.pool = t.pool /\ s.lost = t.lost
             /\ s.pipes = [t.pipes EXCEPT ![p] = now] /\ s.processes = A
  <2> DEFINE P == [t.pipes EXCEPT ![p] = now]
  <2>1. P \in [Pipes -> PipeStates] /\ t \in Tables
    BY <1>3, GoodIs
  <2>2. s = [u EXCEPT !.pipes = P]
    BY <1>8
  <2> HIDE DEF P, A, p, u
  <2>3. u \in Tables /\ u.pool = t.pool /\ u.lost = t.lost /\ u.processes = A
    BY <1>2, <1>6, <2>1 DEF Tables
  <2>4. s \in Tables /\ s.pipes = P /\ s.pool = t.pool /\ s.lost = t.lost /\ s.processes = A
    BY <2>1, <2>2, <2>3 DEF Tables
  <2> QED BY <2>4 DEF P
<1>9. CASE x = End("read", p)
  <2> DEFINE now == Fewer(old, 1, 0)
             s == Close(t, i, d)
  <2>1. x.kind = "read" /\ x.kind # "write"
    BY <1>9 DEF End
  <2>2. PipeGood(now, Naming(t, "read", p) \ {<<i, d>>}, Naming(t, "write", p))
    <3>1. <<i, d>> \in Naming(t, "read", p)
      BY <1>7, <2>1
    <3> HIDE DEF old, p
    <3> QED BY <1>4, <1>5, <3>1, EndGone
  <2>3. s = [u EXCEPT !.pipes = [u.pipes EXCEPT ![p] = Fewer(u.pipes[p], 1, 0)]]
    BY <2>1 DEF Close
  <2>4. s = [u EXCEPT !.pipes = [t.pipes EXCEPT ![p] = now]]
    <3>1. u.pipes = t.pipes
      BY <1>6
    <3> HIDE DEF u, s, p
    <3> QED BY <2>3, <3>1
  <2> HIDE DEF u, s
  <2>5. now \in PipeStates
    BY <2>2 DEF PipeGood
  <2> HIDE DEF now, A, p
  <2>6. /\ s \in Tables /\ s.pool = t.pool /\ s.lost = t.lost
        /\ s.pipes = [t.pipes EXCEPT ![p] = now] /\ s.processes = A
    BY <1>8, <2>4, <2>5
  <2>7. Good(s)
    <3>1. "read" \in {"read", "write"} /\ "read" # "write"
      OBVIOUS
    <3>2. t.processes[i].descriptors[d] = End("read", p) /\ p \in Pipes
      BY <1>3, <1>9 DEF p
    <3>3. Drops(t, s, i, d, p, now)
      BY <2>6 DEF A, Drops
    <3> HIDE DEF x, s
    <3> QED BY <1>1, <2>2, <3>1, <3>2, <3>3, EndTaken
  <2> QED BY <2>7 DEF s
<1>10. CASE x = End("write", p)
  <2> DEFINE now == Fewer(old, 0, 1)
             s == Close(t, i, d)
  <2>1. x.kind = "write" /\ x.kind # "read"
    BY <1>10 DEF End
  <2>2. PipeGood(now, Naming(t, "read", p), Naming(t, "write", p) \ {<<i, d>>})
    <3>1. <<i, d>> \in Naming(t, "write", p)
      BY <1>7, <2>1
    <3> HIDE DEF old, p
    <3> QED BY <1>4, <1>5, <3>1, EndGone
  <2>3. s = [u EXCEPT !.pipes = [u.pipes EXCEPT ![p] = Fewer(u.pipes[p], 0, 1)]]
    BY <2>1 DEF Close
  <2>4. s = [u EXCEPT !.pipes = [t.pipes EXCEPT ![p] = now]]
    <3>1. u.pipes = t.pipes
      BY <1>6
    <3> HIDE DEF u, s, p
    <3> QED BY <2>3, <3>1
  <2> HIDE DEF u, s
  <2>5. now \in PipeStates
    BY <2>2 DEF PipeGood
  <2> HIDE DEF now, A, p
  <2>6. /\ s \in Tables /\ s.pool = t.pool /\ s.lost = t.lost
        /\ s.pipes = [t.pipes EXCEPT ![p] = now] /\ s.processes = A
    BY <1>8, <2>4, <2>5
  <2>7. Good(s)
    <3>1. "write" \in {"read", "write"} /\ "read" # "write"
      OBVIOUS
    <3>2. t.processes[i].descriptors[d] = End("write", p) /\ p \in Pipes
      BY <1>3, <1>10 DEF p
    <3>3. Drops(t, s, i, d, p, now)
      BY <2>6 DEF A, Drops
    <3> HIDE DEF x, s
    <3> QED BY <1>1, <2>2, <3>1, <3>2, <3>3, EndTaken
  <2> QED BY <2>7 DEF s
<1> QED BY <1>3, <1>9, <1>10

\* A pipe nobody names is taken, and its two ends are named.
LEMMA PipeMade ==
  ASSUME NEW t, Good(t), NEW i \in Live(t), NEW p \in Pipes, ~t.pipes[p].used,
         NEW r \in FreeDescriptors(t, i), NEW w \in FreeDescriptors(t, i), r # w
  PROVE  Good(WithPipe(t, i, p, r, w))
<1> DEFINE old == t.processes[i].descriptors
           D == [[old EXCEPT ![r] = End("read", p)] EXCEPT ![w] = End("write", p)]
           A == [t.processes EXCEPT ![i] = [t.processes[i] EXCEPT !.descriptors = D]]
           now == [EmptyPipe EXCEPT !.used = TRUE, !.readers = 1, !.writers = 1]
           D1 == [old EXCEPT ![r] = End("read", p)]
           A1 == [t.processes EXCEPT ![i] = [t.processes[i] EXCEPT !.descriptors = D1]]
           u1 == [t EXCEPT !.processes[i].descriptors[r] = End("read", p)]
           u == [u1 EXCEPT !.processes[i].descriptors[w] = End("write", p)]
           s == WithPipe(t, i, p, r, w)
<1>1. /\ r \in Descriptors /\ w \in Descriptors /\ old[r] = Free /\ old[w] = Free
      /\ old \in [Descriptors -> Descriptions] /\ i \in Slots
      /\ t.processes[i] \in ProcessRecords
  BY GoodIs DEF FreeDescriptors
<1>2. D \in [Descriptors -> Descriptions]
  <2>1. End("read", p) \in Descriptions /\ End("write", p) \in Descriptions
    BY DEF Descriptions
  <2> QED BY <1>1, <2>1
<1>3. /\ D[r] = End("read", p) /\ D[w] = End("write", p)
      /\ \A e \in Descriptors : e # r /\ e # w => D[e] = old[e]
  BY <1>1
<1>4. u = [t EXCEPT !.processes = A]
  <2>1. u1 = [t EXCEPT !.processes = A1]
    BY <1>1, GoodIs DEF Tables, ProcessRecords
  <2>2. u1.processes = A1
    BY <2>1, GoodIs DEF Tables
  <2>3. A1[i].descriptors = D1 /\ A1[i] = [t.processes[i] EXCEPT !.descriptors = D1]
    BY <1>1, GoodIs DEF ProcessRecords
  <2> HIDE DEF u1, A1, D1
  <2>4. u = [u1 EXCEPT !.processes = [A1 EXCEPT ![i] = [A1[i] EXCEPT !.descriptors =
              [D1 EXCEPT ![w] = End("write", p)]]]]
    BY <2>2, <2>3
  <2>5. [A1[i] EXCEPT !.descriptors = [D1 EXCEPT ![w] = End("write", p)]]
          = [t.processes[i] EXCEPT !.descriptors = D]
    BY <1>1, <2>3 DEF D1, ProcessRecords
  <2>6. [A1 EXCEPT ![i] = [t.processes[i] EXCEPT !.descriptors = D]] = A
    <3> HIDE DEF D
    <3> QED BY <1>1, GoodIs DEF A1
  <2> HIDE DEF A, D, u
  <2>7. u = [u1 EXCEPT !.processes = A]
    BY <2>4, <2>5, <2>6
  <2> QED BY <2>1, <2>7, GoodIs DEF Tables
<1>5. A \in [Slots -> {Unused} \cup ProcessRecords]
  <2> HIDE DEF D
  <2>1. [t.processes[i] EXCEPT !.descriptors = D] \in ProcessRecords
    BY <1>1, <1>2 DEF ProcessRecords, Descriptions
  <2> QED BY <1>1, <2>1, GoodIs
<1>6. s = [u EXCEPT !.pipes[p] = now]
  BY DEF WithPipe
<1>7. now \in PipeStates /\ now.readers = 1 /\ now.writers = 1 /\ now.used /\ ~now.eof
  <2> DEFINE b == [EmptyPipe EXCEPT !.used = TRUE]
             c == [b EXCEPT !.readers = 1]
  <2>0. EmptyPipe \in PipeStates /\ ~EmptyPipe.eof
    BY ProcessesConstants DEF EmptyPipe, PipeStates
  <2>1. b \in PipeStates /\ b.used /\ ~b.eof
    BY <2>0 DEF PipeStates
  <2> HIDE DEF b
  <2>2. c \in PipeStates /\ c.used /\ ~c.eof /\ c.readers = 1
    BY <2>1 DEF PipeStates
  <2>3. now = [c EXCEPT !.writers = 1]
    BY DEF b
  <2> HIDE DEF c, now
  <2> QED BY <2>2, <2>3 DEF PipeStates
<1> HIDE DEF A, now, u, s
<1>8. u \in Tables /\ u.pipes = t.pipes /\ u.pool = t.pool /\ u.lost = t.lost /\ u.processes = A
  BY <1>4, <1>5, GoodIs DEF Tables
<1>9. /\ s \in Tables /\ s.pool = t.pool /\ s.lost = t.lost
      /\ s.processes = A /\ s.pipes = [t.pipes EXCEPT ![p] = now]
  BY <1>6, <1>7, <1>8 DEF Tables
<1> HIDE DEF D
<1>10. /\ Counted(s) => Good(s)
       /\ \A e \in Descriptors : At(t, i, e) = t.processes[i].descriptors[e]
       /\ \A e \in Descriptors : At(s, i, e) = D[e]
       /\ \A j \in Slots : j # i => \A e \in Descriptors : At(s, j, e) = At(t, j, e)
  BY <1>2, <1>9, DescriptorsChange DEF A
<1>11. /\ At(t, i, r) = Free /\ At(t, i, w) = Free
       /\ At(s, i, r) = End("read", p) /\ At(s, i, w) = End("write", p)
  BY <1>1, <1>3, <1>10 DEF old
<1>12. \A j \in Slots : \A e \in Descriptors :
         <<j, e>> # <<i, r>> /\ <<j, e>> # <<i, w>> => At(s, j, e) = At(t, j, e)
  BY <1>3, <1>10 DEF old
<1>13. \A kind, q : Naming(s, kind, q) \in SUBSET (Slots \X Descriptors)
                    /\ Naming(t, kind, q) \in SUBSET (Slots \X Descriptors)
  BY NamingFinite
<1>14. ASSUME NEW kind, NEW q, q # p
       PROVE  Naming(s, kind, q) = Naming(t, kind, q)
  <2>1. End(kind, q) # Free /\ End(kind, q) # End("read", p) /\ End(kind, q) # End("write", p)
    BY <1>14, ValuesAre
  <2>2. \A j \in Slots : \A e \in Descriptors : At(s, j, e) = End(kind, q) <=> At(t, j, e) = End(kind, q)
    BY <1>11, <1>12, <2>1
  <2> QED BY <2>2, NamingSame
<1>15. PipeGood(t.pipes[p], Naming(t, "read", p), Naming(t, "write", p))
  BY DEF Good, Counted
<1>16. Naming(t, "read", p) = {} /\ Naming(t, "write", p) = {}
  BY <1>15 DEF PipeGood
<1>17. \A j \in Slots : \A e \in Descriptors : At(t, j, e) # End("read", p) /\ At(t, j, e) # End("write", p)
  BY <1>16, NamingIs
<1>18. End("read", p) # End("write", p)
  BY DEF End
<1>19. Naming(s, "read", p) = {<<i, r>>}
  <2>1. ASSUME NEW j \in Slots, NEW e \in Descriptors
        PROVE  <<j, e>> \in Naming(s, "read", p) <=> <<j, e>> \in {<<i, r>>}
    <3>1. <<j, e>> \in Naming(s, "read", p) <=> At(s, j, e) = End("read", p)
      BY NamingIs
    <3> QED BY <1>11, <1>12, <1>17, <1>18, <3>1
  <2> QED BY <1>1, <1>13, <2>1, SamePairs
<1>20. Naming(s, "write", p) = {<<i, w>>}
  <2>1. ASSUME NEW j \in Slots, NEW e \in Descriptors
        PROVE  <<j, e>> \in Naming(s, "write", p) <=> <<j, e>> \in {<<i, w>>}
    <3>1. <<j, e>> \in Naming(s, "write", p) <=> At(s, j, e) = End("write", p)
      BY NamingIs
    <3> QED BY <1>11, <1>12, <1>17, <1>18, <3>1
  <2> QED BY <1>1, <1>13, <2>1, SamePairs
<1>21. PipeGood(now, {<<i, r>>}, {<<i, w>>})
  <2>1. Cardinality({<<i, r>>}) = 1
    BY FS_Singleton
  <2>2. Cardinality({<<i, w>>}) = 1
    BY FS_Singleton
  <2> QED BY <1>7, <2>1, <2>2 DEF PipeGood
<1>22. ASSUME NEW q \in Pipes
       PROVE  PipeGood(s.pipes[q], Naming(s, "read", q), Naming(s, "write", q))
  <2>1. CASE q = p
    <3>1. s.pipes[q] = now
      BY <1>9, <2>1, GoodIs
    <3> QED BY <1>19, <1>20, <1>21, <2>1, <3>1
  <2>2. CASE q # p
    <3>1. s.pipes[q] = t.pipes[q]
      BY <1>9, <2>2, GoodIs
    <3>2. Naming(s, "read", q) = Naming(t, "read", q) /\ Naming(s, "write", q) = Naming(t, "write", q)
      BY <1>14, <2>2
    <3>3. PipeGood(t.pipes[q], Naming(t, "read", q), Naming(t, "write", q))
      BY DEF Good, Counted
    <3> QED BY <3>1, <3>2, <3>3
  <2> QED BY <2>1, <2>2
<1>23. Good(s)
  BY <1>10, <1>22 DEF Counted
<1> QED BY <1>23 DEF s, now

LEMMA MakePipeGood ==
  ASSUME NEW t, Good(t), NEW i \in Live(t)
  PROVE  Good(MakePipe(t, i))
<1> DEFINE unused == {p \in Pipes : ~t.pipes[p].used}
           free == FreeDescriptors(t, i)
           p == Min(unused)
           r == Min(free)
           w == Min(free \ {r})
<1>1. CASE unused = {} \/ Cardinality(free) < 2
  BY <1>1 DEF MakePipe
<1>2. CASE unused # {} /\ ~(Cardinality(free) < 2)
  <2>1. free \in SUBSET Nat /\ IsFiniteSet(free)
    BY ConstantsAre, FS_Subset DEF FreeDescriptors
  <2>2. unused \in SUBSET Nat
    BY ConstantsAre
  <2>3. p \in unused
    BY <1>2, <2>2, LeastOf
  <2>4. free # {}
    BY <1>2, FS_EmptySet
  <2>5. r \in free
    BY <2>1, <2>4, LeastOf
  <2>6. free \ {r} # {}
    <3>1. Cardinality({r}) = 1 /\ IsFiniteSet({r})
      BY FS_Singleton
    <3>2. ASSUME free \subseteq {r} PROVE Cardinality(free) <= 1 /\ Cardinality(free) \in Nat
      BY <2>1, <3>1, <3>2, FS_Subset, FS_CardinalityType
    <3> QED BY <1>2, <3>2
  <2>7. w \in free \ {r}
    <3>1. free \ {r} \in SUBSET Nat
      BY <2>1
    <3> QED BY <2>6, <3>1, LeastOf
  <2>8. MakePipe(t, i) = WithPipe(t, i, p, r, w)
    BY <1>2 DEF MakePipe
  <2>9. p \in Pipes /\ ~t.pipes[p].used
    BY <2>3
  <2>10. r \in FreeDescriptors(t, i) /\ w \in FreeDescriptors(t, i) /\ r # w
    BY <2>5, <2>7
  <2> HIDE DEF p, r, w, unused, free
  <2> QED BY <2>8, <2>9, <2>10, PipeMade
<1> QED BY <1>1, <1>2

-----------------------------------------------------------------------------
\* The end of processes.

FinishedProcess(r) ==
  [[[r EXCEPT !.descriptors = [d \in Descriptors |-> Free]] EXCEPT !.state = Ended] EXCEPT !.frames = {}]

\* The ends that those who end name.
EndsOf(t, ending, kind, p) ==
  {x \in ending \X Descriptors : t.processes[x[1]].descriptors[x[2]] = End(kind, p)}

FramesOf(t, ending) == UNION {t.processes[i].frames : i \in ending}

LEMMA FinishedIs ==
  ASSUME NEW r \in ProcessRecords
  PROVE  /\ FinishedProcess(r) \in ProcessRecords /\ FinishedProcess(r).state = Ended
         /\ FinishedProcess(r).frames = {}
         /\ FinishedProcess(r).descriptors = [d \in Descriptors |-> Free]
         /\ FinishedProcess(r).parent = r.parent /\ FinishedProcess(r).orphan = r.orphan
<1> DEFINE a == [r EXCEPT !.descriptors = [d \in Descriptors |-> Free]]
           b == [a EXCEPT !.state = Ended]
           c == [b EXCEPT !.frames = {}]
<1>1. /\ a \in ProcessRecords /\ a.descriptors = [d \in Descriptors |-> Free]
      /\ a.parent = r.parent /\ a.orphan = r.orphan
  <2>1. [d \in Descriptors |-> Free] \in [Descriptors -> Descriptions]
    BY DEF Descriptions
  <2> DEFINE D == [d \in Descriptors |-> Free]
  <2>2. D \in [Descriptors -> {Free} \cup {End(k, p) : k \in {"read", "write"}, p \in Pipes}]
    BY <2>1 DEF Descriptions
  <2> HIDE DEF D
  <2>3. /\ [r EXCEPT !.descriptors = D] \in ProcessRecords
        /\ [r EXCEPT !.descriptors = D].descriptors = D
        /\ [r EXCEPT !.descriptors = D].parent = r.parent
        /\ [r EXCEPT !.descriptors = D].orphan = r.orphan
    BY <2>2 DEF ProcessRecords
  <2> QED BY <2>3 DEF D
<1> HIDE DEF a
<1>2. /\ b \in ProcessRecords /\ b.descriptors = a.descriptors /\ b.state = Ended
      /\ b.parent = a.parent /\ b.orphan = a.orphan
  BY <1>1 DEF ProcessRecords
<1> HIDE DEF b
<1>3. /\ c \in ProcessRecords /\ c.descriptors = b.descriptors /\ c.state = b.state
      /\ c.frames = {} /\ c.parent = b.parent /\ c.orphan = b.orphan
  BY <1>2 DEF ProcessRecords
<1>4. c = FinishedProcess(r)
  BY DEF FinishedProcess, a, b
<1> HIDE DEF c
<1> QED BY <1>1, <1>2, <1>3, <1>4

LEMMA FinishIs ==
  ASSUME NEW t, Good(t), NEW ending \in SUBSET Live(t)
  PROVE  /\ Finish(t, ending) \in Tables
         /\ \A i \in Slots : Finish(t, ending).processes[i] =
              IF i \in ending THEN FinishedProcess(t.processes[i]) ELSE t.processes[i]
         /\ Finish(t, ending).pool = t.pool \cup FramesOf(t, ending)
         /\ Finish(t, ending).lost = t.lost
         /\ Finish(t, ending).started = t.started
         /\ \A p \in Pipes : PipeGood(Finish(t, ending).pipes[p],
              Naming(t, "read", p) \ EndsOf(t, ending, "read", p),
              Naming(t, "write", p) \ EndsOf(t, ending, "write", p))
<1> DEFINE P == [p \in Pipes |-> Fewer(t.pipes[p], Cardinality(EndsOf(t, ending, "read", p)),
                                                   Cardinality(EndsOf(t, ending, "write", p)))]
           A == [i \in Slots |->
                  IF i \in ending THEN [t.processes[i] EXCEPT !.descriptors = [d \in Descriptors |-> Free]]
                  ELSE t.processes[i]]
           B == [i \in Slots |-> IF i \in ending THEN [A[i] EXCEPT !.state = Ended, !.frames = {}] ELSE A[i]]
           Z == [i \in Slots |-> IF i \in ending THEN FinishedProcess(t.processes[i]) ELSE t.processes[i]]
           F == t.pool \cup FramesOf(t, ending)
           c == CloseAll(t, ending)
           b == [c EXCEPT !.processes = B]
           s == Finish(t, ending)
<1>1. c = [[t EXCEPT !.processes = A] EXCEPT !.pipes = P]
  BY DEF CloseAll, EndsOf
<1>2. /\ DOMAIN t = {"processes", "pipes", "pool", "started", "lost"}
      /\ t = [x \in DOMAIN t |-> t[x]]
  BY GoodIs DEF Tables
<1> HIDE DEF A, P
<1>3. c.processes = A /\ c.pipes = P /\ c.pool = t.pool /\ c.started = t.started /\ c.lost = t.lost
      /\ DOMAIN c = {"processes", "pipes", "pool", "started", "lost"}
      /\ c = [x \in DOMAIN c |-> c[x]]
  BY <1>1, <1>2
<1>4. s = [b EXCEPT !.pool = @ \cup FramesOf(t, ending)]
  BY <1>3 DEF Finish, Reclaim, FramesOf
<1> HIDE DEF B, c
<1>5. b.processes = B /\ b.pipes = P /\ b.pool = t.pool /\ b.started = t.started /\ b.lost = t.lost
      /\ DOMAIN b = {"processes", "pipes", "pool", "started", "lost"}
      /\ b = [x \in DOMAIN b |-> b[x]]
  BY <1>3
<1> HIDE DEF b, F, s
<1>6. s.processes = B /\ s.pipes = P /\ s.pool = F /\ s.started = t.started /\ s.lost = t.lost
      /\ DOMAIN s = {"processes", "pipes", "pool", "started", "lost"}
      /\ s = [x \in DOMAIN s |-> s[x]]
  BY <1>4, <1>5 DEF F
<1>7. B = Z
  <2>1. ASSUME NEW i \in Slots PROVE B[i] = Z[i]
    <3>1. CASE i \in ending
      BY <3>1 DEF A, B, FinishedProcess
    <3>2. CASE i \notin ending
      BY <3>2 DEF A, B
    <3> QED BY <3>1, <3>2
  <2> QED BY <2>1 DEF B
<1>8. Z \in [Slots -> {Unused} \cup ProcessRecords]
  BY GoodIs, FinishedIs
<1>9. ASSUME NEW p \in Pipes
      PROVE  PipeGood(P[p], Naming(t, "read", p) \ EndsOf(t, ending, "read", p),
                            Naming(t, "write", p) \ EndsOf(t, ending, "write", p))
  <2>1. PipeGood(t.pipes[p], Naming(t, "read", p), Naming(t, "write", p))
    BY DEF Good, Counted
  <2>2. IsFiniteSet(Naming(t, "read", p)) /\ IsFiniteSet(Naming(t, "write", p))
    BY NamingFinite
  <2>3. \A kind : EndsOf(t, ending, kind, p) \in SUBSET Naming(t, kind, p)
    BY GoodIs DEF EndsOf, Naming, At
  <2>4. P[p] = Fewer(t.pipes[p], Cardinality(EndsOf(t, ending, "read", p)),
                                 Cardinality(EndsOf(t, ending, "write", p)))
    BY DEF P
  <2> QED BY <2>1, <2>2, <2>3, <2>4, SettledGood
<1>10. P \in [Pipes -> PipeStates]
  BY <1>9 DEF PipeGood, P
<1>11. F \in SUBSET Frames
  BY GoodIs DEF F, FramesOf
<1>12. s \in Tables
  <2>1. s.processes \in [Slots -> {Unused} \cup ProcessRecords] /\ s.pipes \in [Pipes -> PipeStates]
        /\ s.pool \in SUBSET Frames /\ s.started \in 0 .. MaxStarted /\ s.lost \in SUBSET Frames
    <3> HIDE DEF Z
    <3> QED BY <1>6, <1>7, <1>8, <1>10, <1>11, GoodIs
  <2> QED BY <1>6, <2>1 DEF Tables
<1>13. \A i \in Slots : s.processes[i] =
         IF i \in ending THEN FinishedProcess(t.processes[i]) ELSE t.processes[i]
  BY <1>6, <1>7
<1> QED BY <1>6, <1>9, <1>12, <1>13 DEF F, s

LEMMA FinishGood ==
  ASSUME NEW t, Good(t), NEW ending \in SUBSET Live(t)
  PROVE  /\ Good(Finish(t, ending))
         /\ Taken(Finish(t, ending)) = Taken(t) /\ Live(Finish(t, ending)) = Live(t) \ ending
<1> DEFINE s == Finish(t, ending)
<1>1. /\ s \in Tables
      /\ s.pool = t.pool \cup FramesOf(t, ending)
      /\ s.lost = t.lost
      /\ \A p \in Pipes : PipeGood(s.pipes[p],
              Naming(t, "read", p) \ EndsOf(t, ending, "read", p),
              Naming(t, "write", p) \ EndsOf(t, ending, "write", p))
  BY FinishIs
<1>2. \A i \in Slots : s.processes[i] =
        IF i \in ending THEN FinishedProcess(t.processes[i]) ELSE t.processes[i]
  BY FinishIs
<1> HIDE DEF s
<1>3. ending \subseteq Taken(t) /\ ending \subseteq Slots /\ ending \subseteq Live(t)
  BY GoodIs
<1>4. ASSUME NEW i \in ending
      PROVE  /\ s.processes[i] # Unused /\ s.processes[i].state = Ended
             /\ s.processes[i].frames = {}
             /\ s.processes[i].descriptors = [d \in Descriptors |-> Free]
  <2>1. t.processes[i] \in ProcessRecords /\ s.processes[i] = FinishedProcess(t.processes[i])
    BY <1>2, <1>3, GoodIs
  <2>2. FinishedProcess(t.processes[i]) \in ProcessRecords
    BY <2>1, FinishedIs
  <2> QED BY <2>1, <2>2, FinishedIs, ValuesAre
<1>5. \A i \in Slots \ ending : s.processes[i] = t.processes[i]
  BY <1>2
<1>6. Taken(s) = Taken(t)
  BY <1>3, <1>4, <1>5 DEF Taken
<1>7. Live(s) = Live(t) \ ending
  BY <1>3, <1>4, <1>5, <1>6 DEF Live, Taken
<1>8. \A i \in Slots : HeldBy(s, i) = IF i \in ending THEN {} ELSE HeldBy(t, i)
  BY <1>5, <1>7 DEF HeldBy
<1>9. OwnedOnce(s)
  <2>1. OwnedOnce(t)
    BY DEF Good
  <2>2. \A i \in ending : HeldBy(t, i) = t.processes[i].frames
    BY <1>3 DEF HeldBy
  <2>3. \A f : f \in s.pool <=> f \in t.pool \/ \E i \in ending : f \in HeldBy(t, i)
    BY <1>1, <2>2 DEF FramesOf
  <2>4. ASSUME NEW f \in Frames
        PROVE  /\ f \in s.pool \/ f \in s.lost \/ \E j \in Slots : f \in HeldBy(s, j)
               /\ ~(f \in s.pool /\ f \in s.lost)
               /\ \A k \in Slots : f \in HeldBy(s, k) =>
                    f \notin s.pool /\ f \notin s.lost /\ \A j \in Slots : f \in HeldBy(s, j) => j = k
    <3>1. /\ f \in t.pool \/ f \in t.lost \/ \E j \in Slots : f \in HeldBy(t, j)
          /\ ~(f \in t.pool /\ f \in t.lost)
          /\ \A k \in Slots : f \in HeldBy(t, k) =>
               f \notin t.pool /\ f \notin t.lost /\ \A j \in Slots : f \in HeldBy(t, j) => j = k
      BY <2>1 DEF OwnedOnce
    <3>2. f \in s.pool \/ f \in s.lost \/ \E j \in Slots : f \in HeldBy(s, j)
      BY <1>1, <1>8, <2>3, <3>1
    <3>3. ~(f \in s.pool /\ f \in s.lost)
      BY <1>1, <1>3, <2>3, <3>1
    <3>4. ASSUME NEW k \in Slots, f \in HeldBy(s, k)
          PROVE  f \notin s.pool /\ f \notin s.lost /\ \A j \in Slots : f \in HeldBy(s, j) => j = k
      BY <1>1, <1>3, <1>8, <2>3, <3>1, <3>4
    <3> QED BY <3>2, <3>3, <3>4
  <2> QED BY <2>4 DEF OwnedOnce
<1>10. ASSUME NEW kind, NEW p
       PROVE  Naming(s, kind, p) = Naming(t, kind, p) \ EndsOf(t, ending, kind, p)
  <2>1. ASSUME NEW j \in Slots, NEW e \in Descriptors
        PROVE  <<j, e>> \in Naming(s, kind, p) <=>
               <<j, e>> \in Naming(t, kind, p) \ EndsOf(t, ending, kind, p)
    <3>1. /\ <<j, e>> \in Naming(s, kind, p) <=> At(s, j, e) = End(kind, p)
          /\ <<j, e>> \in Naming(t, kind, p) <=> At(t, j, e) = End(kind, p)
      BY NamingIs
    <3>2. CASE j \in ending
      <4>1. At(s, j, e) = Free
        BY <1>3, <1>4, <1>6, <3>2 DEF At
      <4>2. Free # End(kind, p)
        BY ValuesAre
      <4>3. At(t, j, e) = t.processes[j].descriptors[e]
        BY <1>3, <3>2 DEF At
      <4>4. <<j, e>> \in EndsOf(t, ending, kind, p) <=> t.processes[j].descriptors[e] = End(kind, p)
        BY <3>2 DEF EndsOf
      <4> QED BY <3>1, <4>1, <4>2, <4>3, <4>4
    <3>3. CASE j \notin ending
      <4>1. At(s, j, e) = At(t, j, e)
        BY <1>5, <1>6, <3>3 DEF At
      <4>2. <<j, e>> \notin EndsOf(t, ending, kind, p)
        BY <3>3 DEF EndsOf
      <4> QED BY <3>1, <4>1, <4>2
    <3> QED BY <3>2, <3>3
  <2>2. Naming(s, kind, p) \in SUBSET (Slots \X Descriptors)
        /\ Naming(t, kind, p) \ EndsOf(t, ending, kind, p) \in SUBSET (Slots \X Descriptors)
    BY NamingFinite
  <2> QED BY <2>1, <2>2, SamePairs
<1>11. Counted(s)
  BY <1>1, <1>10 DEF Counted
<1>12. EndedHoldNothing(s)
  <2>1. ASSUME NEW i \in Taken(s) \ Live(s)
        PROVE  s.processes[i].frames = {} /\ \A d \in Descriptors : s.processes[i].descriptors[d] = Free
    <3>1. CASE i \in ending
      BY <1>4, <3>1
    <3>2. CASE i \notin ending
      <4>1. i \in Taken(t) \ Live(t) /\ i \in Slots
        BY <1>6, <1>7, <3>2 DEF Taken
      <4> QED BY <1>5, <3>2, <4>1 DEF Good, EndedHoldNothing
    <3> QED BY <3>1, <3>2
  <2> QED BY <2>1 DEF EndedHoldNothing
<1>13. Good(s)
  BY <1>1, <1>9, <1>11, <1>12 DEF Good
<1> QED BY <1>6, <1>7, <1>13 DEF s

LEMMA OrphanIs ==
  ASSUME NEW P, NEW S, NEW D, NEW F,
         NEW r \in [parent : P, state : S, descriptors : D, frames : F, orphan : BOOLEAN]
  PROVE  /\ [r EXCEPT !.orphan = TRUE]
              \in [parent : P, state : S, descriptors : D, frames : F, orphan : BOOLEAN]
         /\ [r EXCEPT !.orphan = TRUE].state = r.state
         /\ [r EXCEPT !.orphan = TRUE].frames = r.frames
         /\ [r EXCEPT !.orphan = TRUE].descriptors = r.descriptors
         /\ [r EXCEPT !.orphan = TRUE].parent = r.parent
OBVIOUS

\* An ended process that leaves its slot leaves nothing behind.
LEMMA TakenOutGood ==
  ASSUME NEW t, Good(t), NEW c \in Slots, c \notin Live(t)
  PROVE  /\ Good(TakenOut(t, c))
         /\ Taken(TakenOut(t, c)) = Taken(t) \ {c} /\ Live(TakenOut(t, c)) = Live(t)
         /\ \A i \in Slots \ {c} : i \in Taken(t) =>
              /\ TakenOut(t, c).processes[i].parent = t.processes[i].parent
              /\ TakenOut(t, c).processes[i].state = t.processes[i].state
<1> DEFINE s == TakenOut(t, c)
           Orphaned(r) == [r EXCEPT !.orphan = TRUE]
<1>1. s.processes = [i \in Slots |->
          IF i = c THEN Unused
          ELSE IF i \in Taken(t) /\ t.processes[i].parent = c THEN Orphaned(t.processes[i])
          ELSE t.processes[i]]
      /\ s.pipes = t.pipes /\ s.pool = t.pool /\ s.lost = t.lost /\ s.started = t.started
  BY GoodIs DEF TakenOut, Tables
<1>2. ASSUME NEW r \in ProcessRecords
      PROVE  /\ Orphaned(r) \in ProcessRecords /\ Orphaned(r).state = r.state
             /\ Orphaned(r).frames = r.frames /\ Orphaned(r).descriptors = r.descriptors
             /\ Orphaned(r).parent = r.parent
  <2> DEFINE P == Slots \cup {None}
             S == {Runnable, Ended, [is |-> "outside"]}
                    \cup [is : {"reading", "writing"}, on : Descriptors]
                    \cup [is : {"waiting"}, on : Slots]
             D == [Descriptors -> {Free} \cup {End(k, p) : k \in {"read", "write"}, p \in Pipes}]
             F == SUBSET Frames
  <2>1. ProcessRecords = [parent : P, state : S, descriptors : D, frames : F, orphan : BOOLEAN]
    BY DEF ProcessRecords
  <2> HIDE DEF P, S, D, F
  <2> QED BY <2>1, OrphanIs
<1>3. s \in Tables
  <2> DEFINE A == [i \in Slots |->
          IF i = c THEN Unused
          ELSE IF i \in Taken(t) /\ t.processes[i].parent = c THEN Orphaned(t.processes[i])
          ELSE t.processes[i]]
  <2> HIDE DEF Orphaned
  <2>1. A \in [Slots -> {Unused} \cup ProcessRecords]
    BY <1>2, GoodIs
  <2>2. s = [t EXCEPT !.processes = A]
    BY DEF TakenOut, Orphaned
  <2> HIDE DEF A, s
  <2> QED BY <2>1, <2>2, GoodIs DEF Tables
<1> HIDE DEF s, Orphaned
<1>4. ASSUME NEW i \in Slots, i # c, i \in Taken(t)
      PROVE  /\ s.processes[i] # Unused /\ s.processes[i].state = t.processes[i].state
             /\ s.processes[i].frames = t.processes[i].frames
             /\ s.processes[i].descriptors = t.processes[i].descriptors
             /\ s.processes[i].parent = t.processes[i].parent
  <2>1. t.processes[i] \in ProcessRecords /\ t.processes[i] # Unused
    BY <1>4, GoodIs DEF Taken
  <2>2. s.processes[i] = Orphaned(t.processes[i]) \/ s.processes[i] = t.processes[i]
    BY <1>1, <1>4
  <2> QED BY <1>2, <2>1, <2>2, ValuesAre
<1>5. \A i \in Slots : i \notin Taken(t) \/ i = c => s.processes[i] = Unused
  BY <1>1, GoodIs
<1>6. Taken(s) = Taken(t) \ {c}
  BY <1>4, <1>5, GoodIs DEF Taken
<1>7. Live(s) = Live(t)
  BY <1>4, <1>6, GoodIs DEF Live
<1>8. \A i \in Slots : HeldBy(s, i) = HeldBy(t, i)
  BY <1>4, <1>7, GoodIs DEF HeldBy
<1>9. OwnedOnce(s)
  BY <1>1, <1>8, OwnedKept DEF Good
<1>10. \A i \in Slots : \A d \in Descriptors : At(s, i, d) = At(t, i, d)
  <2>1. ASSUME NEW d \in Descriptors PROVE At(t, c, d) = Free
    BY DEF At, Good, EndedHoldNothing
  <2>2. ASSUME NEW d \in Descriptors PROVE At(s, c, d) = Free
    BY <1>6 DEF At
  <2>3. ASSUME NEW i \in Slots, NEW d \in Descriptors, i # c PROVE At(s, i, d) = At(t, i, d)
    BY <1>4, <1>6, <2>3 DEF At
  <2> QED BY <2>1, <2>2, <2>3
<1>11. \A kind, p : Naming(s, kind, p) = Naming(t, kind, p)
  BY <1>10, NamingKept
<1>12. Counted(s)
  BY <1>1, <1>11 DEF Counted, Good
<1>13. EndedHoldNothing(s)
  <2>1. ASSUME NEW i \in Taken(s) \ Live(s)
        PROVE  s.processes[i].frames = {} /\ \A d \in Descriptors : s.processes[i].descriptors[d] = Free
    <3>1. i \in Taken(t) \ Live(t) /\ i \in Slots /\ i # c
      BY <1>6, <1>7, <2>1 DEF Taken
    <3>2. t.processes[i].frames = {} /\ \A d \in Descriptors : t.processes[i].descriptors[d] = Free
      BY <3>1 DEF Good, EndedHoldNothing
    <3> QED BY <1>4, <3>1, <3>2
  <2> QED BY <2>1 DEF EndedHoldNothing
<1>14. Good(s)
  BY <1>3, <1>9, <1>12, <1>13 DEF Good
<1> QED BY <1>4, <1>6, <1>7, <1>14 DEF s

LEMMA ReapGood ==
  ASSUME NEW t, Good(t), NEW i \in Live(t), NEW c \in Slots
  PROVE  Good(Reap(t, i, c).table)
<1>1. CASE ~IsChild(t, i, c) \/ t.processes[c].state # Ended
  BY <1>1 DEF Reap, Answered, Blocked
<1>2. CASE IsChild(t, i, c) /\ t.processes[c].state = Ended
  <2>1. c \notin Live(t)
    BY <1>2, GoodIs
  <2> QED BY <1>2, <2>1, TakenOutGood DEF Reap, Answered
<1> QED BY <1>1, <1>2

LEMMA KillGood ==
  ASSUME NEW t, Good(t), NEW i \in Live(t), NEW c \in Slots
  PROVE  Good(Kill(t, i, c))
<1>1. CASE c # i /\ IsChild(t, i, c) /\ t.processes[c].state # Ended
  <2>1. {c} \in SUBSET Live(t)
    BY <1>1, GoodIs DEF IsChild
  <2>2. Good(Finish(t, {c}))
    BY <2>1, FinishGood
  <2> QED BY <1>1, <2>2 DEF Kill
<1>2. CASE ~(c # i /\ IsChild(t, i, c) /\ t.processes[c].state # Ended)
  BY <1>2 DEF Kill
<1> QED BY <1>1, <1>2

-----------------------------------------------------------------------------
\* New processes.

\* A process appears in a slot that was empty, with a frame of the pool.
Appears(t, s, k, f, parent, D) ==
  /\ s \in Tables /\ s.pool = t.pool \ {f} /\ s.lost = t.lost
  /\ s.processes = [t.processes EXCEPT ![k] = NewProcess(parent, D, {f})]

LEMMA NewSlot ==
  ASSUME NEW t, Good(t), NEW k \in Slots \ Taken(t), NEW f \in t.pool,
         NEW parent \in Slots \cup {None}, NEW D \in [Descriptors -> Descriptions],
         NEW s, Appears(t, s, k, f, parent, D)
  PROVE  /\ Counted(s) => Good(s)
         /\ \A e \in Descriptors : At(t, k, e) = Free
         /\ \A e \in Descriptors : At(s, k, e) = D[e]
         /\ \A j \in Slots : j # k => \A e \in Descriptors : At(s, j, e) = At(t, j, e)
<1> DEFINE r == NewProcess(parent, D, {f})
<1>1. k \in Slots /\ k \notin Live(t) /\ f \in Frames
  BY GoodIs
<1>2. r \in ProcessRecords /\ r.state = Runnable /\ r.frames = {f} /\ r.descriptors = D
  BY <1>1 DEF NewProcess, ProcessRecords, Descriptions
<1>3. r # Unused /\ r.state # Ended
  BY <1>2, ValuesAre
<1>4. /\ s.processes = [t.processes EXCEPT ![k] = r]
      /\ s \in Tables /\ s.pool = t.pool \ {f} /\ s.lost = t.lost
  BY DEF Appears
<1> HIDE DEF r
<1>5. /\ \A j \in Slots : j # k => HeldBy(s, j) = HeldBy(t, j)
      /\ \A j \in Slots : j # k => \A e \in Descriptors : At(s, j, e) = At(t, j, e)
      /\ HeldBy(s, k) = r.frames /\ \A e \in Descriptors : At(s, k, e) = r.descriptors[e]
      /\ EndedHoldNothing(s)
  BY <1>1, <1>2, <1>3, <1>4, OneSlot
<1>6. HeldBy(s, k) = HeldBy(t, k) \cup {f}
  BY <1>1, <1>2, <1>5 DEF HeldBy
<1>7. OwnedOnce(s)
  BY <1>1, <1>4, <1>5, <1>6, FrameGiven
<1>8. \A e \in Descriptors : At(t, k, e) = Free
  BY DEF At
<1> QED BY <1>2, <1>4, <1>5, <1>7, <1>8 DEF Good

LEMMA TwoThings ==
  ASSUME NEW a, NEW b, a # b
  PROVE  Cardinality({a, b}) = 2 /\ IsFiniteSet({a, b})
<1>1. IsFiniteSet({a}) /\ Cardinality({a}) = 1
  BY FS_Singleton
<1>2. {a} \cup {b} = {a, b} /\ b \notin {a}
  OBVIOUS
<1>3. IsFiniteSet({a} \cup {b}) /\ Cardinality({a} \cup {b}) = Cardinality({a}) + 1
  BY <1>1, <1>2, FS_AddElement
<1> QED BY <1>1, <1>2, <1>3

\* The ends a new process is given are counted one by one.
Gained(k, in, out, e) ==
  {x \in {<<k, 0>>, <<k, 1>>} : (x = <<k, 0>> /\ in = e) \/ (x = <<k, 1>> /\ out = e)}

LEMMA GainedAre ==
  ASSUME NEW k, NEW in, NEW out, NEW e
  PROVE  /\ Cardinality({d \in {<<0, in>>, <<1, out>>} : d[2] = e}) = Cardinality(Gained(k, in, out, e))
         /\ IsFiniteSet(Gained(k, in, out, e))
<1> DEFINE G == Gained(k, in, out, e)
           M == {d \in {<<0, in>>, <<1, out>>} : d[2] = e}
<1>1. <<k, 0>> # <<k, 1>> /\ <<0, in>> # <<1, out>>
  OBVIOUS
<1>2. CASE in = e /\ out = e
  <2>1. G = {<<k, 0>>, <<k, 1>>} /\ M = {<<0, in>>, <<1, out>>}
    BY <1>1, <1>2 DEF Gained
  <2>2. Cardinality({<<k, 0>>, <<k, 1>>}) = 2 /\ IsFiniteSet({<<k, 0>>, <<k, 1>>})
    BY <1>1, TwoThings
  <2>3. Cardinality({<<0, in>>, <<1, out>>}) = 2
    BY <1>1, TwoThings
  <2> QED BY <2>1, <2>2, <2>3
<1>3. CASE in = e /\ out # e
  <2>1. G = {<<k, 0>>} /\ M = {<<0, in>>}
    BY <1>1, <1>3 DEF Gained
  <2>2. Cardinality({<<k, 0>>}) = 1 /\ IsFiniteSet({<<k, 0>>})
    BY FS_Singleton
  <2>3. Cardinality({<<0, in>>}) = 1
    BY FS_Singleton
  <2> QED BY <2>1, <2>2, <2>3
<1>4. CASE in # e /\ out = e
  <2>1. G = {<<k, 1>>} /\ M = {<<1, out>>}
    BY <1>1, <1>4 DEF Gained
  <2>2. Cardinality({<<k, 1>>}) = 1 /\ IsFiniteSet({<<k, 1>>})
    BY FS_Singleton
  <2>3. Cardinality({<<1, out>>}) = 1
    BY FS_Singleton
  <2> QED BY <2>1, <2>2, <2>3
<1>5. CASE in # e /\ out # e
  <2>1. G = {} /\ M = {}
    BY <1>5 DEF Gained
  <2> QED BY <2>1, FS_EmptySet
<1> QED BY <1>2, <1>3, <1>4, <1>5

\* What a loaded table looks like with the process placed in it.
PlacedShape(t, s, k, i, f, in, out) ==
  /\ DOMAIN s = {"processes", "pipes", "pool", "started", "lost"} /\ s = [x \in DOMAIN s |-> s[x]]
  /\ s.pool = t.pool \ {f} /\ s.lost = t.lost /\ s.started = t.started + 1
  /\ s.processes = [t.processes EXCEPT ![k] =
       NewProcess(i, [d \in Descriptors |-> IF d = 0 THEN in ELSE IF d = 1 THEN out ELSE Free], {f})]
  /\ s.pipes = [p \in Pipes |->
       More(t.pipes[p], Cardinality({d \in {<<0, in>>, <<1, out>>} : d[2] = End("read", p)}),
                        Cardinality({d \in {<<0, in>>, <<1, out>>} : d[2] = End("write", p)}))]

LEMMA PlacedIs ==
  ASSUME NEW t, Good(t), NEW f \in t.pool, NEW i, NEW in, NEW out
  PROVE  PlacedShape(t, Placed([t EXCEPT !.pool = @ \ {f}], i, {f}, in, out), Min(Slots \ Taken(t)),
                     i, f, in, out)
<1> DEFINE u == [t EXCEPT !.pool = @ \ {f}]
           D == [d \in Descriptors |-> IF d = 0 THEN in ELSE IF d = 1 THEN out ELSE Free]
           P == [p \in Pipes |->
              More(t.pipes[p], Cardinality({d \in {<<0, in>>, <<1, out>>} : d[2] = End("read", p)}),
                               Cardinality({d \in {<<0, in>>, <<1, out>>} : d[2] = End("write", p)}))]
           k == Min(Slots \ Taken(t))
           s == Placed(u, i, {f}, in, out)
           a == [u EXCEPT !.started = @ + 1]
           N == NewProcess(i, D, {f})
           b == [a EXCEPT !.processes[k] = N]
<1>1. /\ DOMAIN t = {"processes", "pipes", "pool", "started", "lost"}
      /\ t = [x \in DOMAIN t |-> t[x]]
  BY GoodIs DEF Tables
<1>2. /\ u.processes = t.processes /\ u.pipes = t.pipes /\ u.pool = t.pool \ {f}
      /\ u.started = t.started /\ u.lost = t.lost
      /\ DOMAIN u = {"processes", "pipes", "pool", "started", "lost"}
      /\ u = [x \in DOMAIN u |-> u[x]]
  BY <1>1
<1> HIDE DEF u
<1>3. Min(Slots \ Taken(u)) = k
  BY <1>2 DEF Taken
<1>4. s = [b EXCEPT !.pipes = P]
  BY <1>2, <1>3 DEF Placed
<1> HIDE DEF D, P, N, k
<1>5. /\ a.processes = t.processes /\ a.pipes = t.pipes /\ a.pool = t.pool \ {f}
      /\ a.started = t.started + 1 /\ a.lost = t.lost
      /\ DOMAIN a = {"processes", "pipes", "pool", "started", "lost"}
      /\ a = [x \in DOMAIN a |-> a[x]]
  BY <1>2
<1> HIDE DEF a
<1>6. /\ b.processes = [t.processes EXCEPT ![k] = N] /\ b.pipes = t.pipes /\ b.pool = t.pool \ {f}
      /\ b.started = t.started + 1 /\ b.lost = t.lost
      /\ DOMAIN b = {"processes", "pipes", "pool", "started", "lost"}
      /\ b = [x \in DOMAIN b |-> b[x]]
  BY <1>5
<1> HIDE DEF b, s
<1>7. /\ s.processes = [t.processes EXCEPT ![k] = N] /\ s.pipes = P /\ s.pool = t.pool \ {f}
      /\ s.started = t.started + 1 /\ s.lost = t.lost
      /\ DOMAIN s = {"processes", "pipes", "pool", "started", "lost"}
      /\ s = [x \in DOMAIN s |-> s[x]]
  BY <1>4, <1>6
<1> QED BY <1>7 DEF s, u, P, N, D, k, PlacedShape

LEMMA PlacedGood ==
  ASSUME NEW t, Good(t), t.started < MaxStarted, Taken(t) # Slots, NEW f \in t.pool,
         NEW i \in Live(t),
         NEW in \in {Free} \cup {t.processes[i].descriptors[d] : d \in Descriptors},
         NEW out \in {Free} \cup {t.processes[i].descriptors[d] : d \in Descriptors}
  PROVE  Good(Placed([t EXCEPT !.pool = @ \ {f}], i, {f}, in, out))
<1> DEFINE k == Min(Slots \ Taken(t))
           D == [d \in Descriptors |-> IF d = 0 THEN in ELSE IF d = 1 THEN out ELSE Free]
           m(kind, p) == Cardinality({d \in {<<0, in>>, <<1, out>>} : d[2] = End(kind, p)})
           g(kind, p) == Gained(k, in, out, End(kind, p))
           s == Placed([t EXCEPT !.pool = @ \ {f}], i, {f}, in, out)
<1>1. k \in Slots \ Taken(t)
  <2>1. Slots \ Taken(t) \in SUBSET Nat
    BY ConstantsAre
  <2>2. Slots \ Taken(t) # {}
    BY GoodIs
  <2> QED BY <2>1, <2>2, LeastOf
<1>2. /\ DOMAIN s = {"processes", "pipes", "pool", "started", "lost"}
      /\ s = [x \in DOMAIN s |-> s[x]]
      /\ s.pool = t.pool \ {f} /\ s.lost = t.lost /\ s.started = t.started + 1
      /\ s.processes = [t.processes EXCEPT ![k] = NewProcess(i, D, {f})]
      /\ s.pipes = [p \in Pipes |-> More(t.pipes[p], m("read", p), m("write", p))]
  <2>1. PlacedShape(t, s, k, i, f, in, out)
    BY PlacedIs
  <2> HIDE DEF s, k
  <2> QED BY <2>1 DEF PlacedShape
<1> HIDE DEF k, s
<1>3. in \in Descriptions /\ out \in Descriptions /\ i \in Slots
  <2>1. Free \in Descriptions
    BY DEF Descriptions
  <2> QED BY <2>1, GoodIs
<1>4. D \in [Descriptors -> Descriptions]
  <2>1. Free \in Descriptions
    BY DEF Descriptions
  <2> QED BY <1>3, <2>1
<1>5. /\ D[0] = in /\ D[1] = out /\ \A e \in Descriptors : e # 0 /\ e # 1 => D[e] = Free
      /\ 0 \in Descriptors /\ 1 \in Descriptors
  BY ConstantsAre
<1>6. \A kind, p : /\ m(kind, p) = Cardinality(g(kind, p)) /\ IsFiniteSet(g(kind, p))
                   /\ g(kind, p) \in SUBSET (Slots \X Descriptors)
  <2>1. \A kind, p : g(kind, p) \in SUBSET (Slots \X Descriptors)
    BY <1>1, <1>5 DEF Gained
  <2> QED BY <2>1, GainedAre
<1> HIDE DEF D, m
<1>7. \A kind, p : \A j \in Slots : \A e \in Descriptors :
         <<j, e>> \in g(kind, p) <=> j = k /\ D[e] = End(kind, p)
  <2> SUFFICES ASSUME NEW kind, NEW p, NEW j \in Slots, NEW e \in Descriptors
               PROVE  <<j, e>> \in g(kind, p) <=> j = k /\ D[e] = End(kind, p)
    OBVIOUS
  <2>1. Free # End(kind, p)
    BY ValuesAre
  <2>2. <<j, e>> \in g(kind, p) <=>
          j = k /\ ((e = 0 /\ in = End(kind, p)) \/ (e = 1 /\ out = End(kind, p)))
    BY DEF Gained
  <2> QED BY <1>5, <2>1, <2>2
<1> HIDE DEF g
<1>8. \A p \in Pipes : \A kind \in {"read", "write"} :
        g(kind, p) # {} => Naming(t, kind, p) # {}
  <2> SUFFICES ASSUME NEW p \in Pipes, NEW kind \in {"read", "write"}, g(kind, p) # {}
               PROVE  Naming(t, kind, p) # {}
    OBVIOUS
  <2>1. PICK j \in Slots, e \in Descriptors : <<j, e>> \in g(kind, p)
    BY <1>6
  <2>2. D[e] = End(kind, p) /\ Free # End(kind, p)
    BY <1>7, <2>1, ValuesAre
  <2>3. in = End(kind, p) \/ out = End(kind, p)
    BY <1>5, <2>2
  <2>4. PICK d \in Descriptors : t.processes[i].descriptors[d] = End(kind, p)
    BY <2>2, <2>3
  <2>5. At(t, i, d) = End(kind, p)
    BY <2>4, GoodIs DEF At
  <2> QED BY <1>3, <2>5, NamingIs
<1>9. ASSUME NEW p \in Pipes
      PROVE  PipeGood(s.pipes[p], Naming(t, "read", p) \cup g("read", p),
                                  Naming(t, "write", p) \cup g("write", p))
  <2>1. PipeGood(t.pipes[p], Naming(t, "read", p), Naming(t, "write", p))
    BY DEF Good, Counted
  <2>2. IsFiniteSet(Naming(t, "read", p)) /\ IsFiniteSet(Naming(t, "write", p))
        /\ IsFiniteSet(g("read", p)) /\ IsFiniteSet(g("write", p))
    BY <1>6, NamingFinite
  <2>3. \A kind : g(kind, p) \cap Naming(t, kind, p) = {}
    <3> SUFFICES ASSUME NEW kind, NEW x \in g(kind, p), x \in Naming(t, kind, p) PROVE FALSE
      OBVIOUS
    <3>1. PICK j \in Slots, e \in Descriptors : x = <<j, e>>
      BY <1>6
    <3>2. j = k
      BY <1>7, <3>1
    <3>3. At(t, j, e) = Free
      BY <1>1, <3>2 DEF At
    <3> QED BY <3>1, <3>3, NamingIs, ValuesAre
  <2>4. /\ g("read", p) # {} => Naming(t, "read", p) # {}
        /\ g("write", p) # {} => Naming(t, "write", p) # {}
    BY <1>8
  <2>5. s.pipes[p] = More(t.pipes[p], Cardinality(g("read", p)), Cardinality(g("write", p)))
    BY <1>2, <1>6
  <2> QED BY <2>1, <2>2, <2>3, <2>4, <2>5, AddedGood
<1>10. s \in Tables
  <2>1. \A p \in Pipes : s.pipes[p] \in PipeStates
    BY <1>9 DEF PipeGood
  <2>2. s.pipes \in [Pipes -> PipeStates]
    BY <1>2, <2>1
  <2>3. s.started \in 0 .. MaxStarted
    BY <1>2, GoodIs, ProcessesConstants
  <2>4. s.pool \in SUBSET Frames /\ s.lost \in SUBSET Frames
    BY <1>2, GoodIs
  <2>5. NewProcess(i, D, {f}) \in ProcessRecords
    <3>1. f \in Frames
      BY GoodIs
    <3> QED BY <1>3, <1>4, <3>1 DEF NewProcess, ProcessRecords, Descriptions
  <2>6. s.processes \in [Slots -> {Unused} \cup ProcessRecords]
    <3>1. s.processes = [t.processes EXCEPT ![k] = NewProcess(i, D, {f})]
      BY <1>2
    <3> QED BY <1>1, <2>5, <3>1, GoodIs
  <2> QED BY <1>2, <2>2, <2>3, <2>4, <2>6 DEF Tables
<1>11. /\ Counted(s) => Good(s)
       /\ \A e \in Descriptors : At(t, k, e) = Free
       /\ \A e \in Descriptors : At(s, k, e) = D[e]
       /\ \A j \in Slots : j # k => \A e \in Descriptors : At(s, j, e) = At(t, j, e)
  <2>1. Appears(t, s, k, f, i, D)
    BY <1>2, <1>10 DEF Appears
  <2>2. i \in Slots \cup {None}
    BY <1>3
  <2> QED BY <1>1, <1>4, <2>1, <2>2, NewSlot
<1>12. ASSUME NEW kind, NEW p
       PROVE  Naming(s, kind, p) = Naming(t, kind, p) \cup g(kind, p)
  <2>1. ASSUME NEW j \in Slots, NEW e \in Descriptors
        PROVE  <<j, e>> \in Naming(s, kind, p) <=> <<j, e>> \in Naming(t, kind, p) \cup g(kind, p)
    <3>1. /\ <<j, e>> \in Naming(s, kind, p) <=> At(s, j, e) = End(kind, p)
          /\ <<j, e>> \in Naming(t, kind, p) <=> At(t, j, e) = End(kind, p)
          /\ <<j, e>> \in g(kind, p) <=> j = k /\ D[e] = End(kind, p)
      BY <1>7, NamingIs
    <3>2. Free # End(kind, p)
      BY ValuesAre
    <3> QED BY <1>11, <3>1, <3>2
  <2>2. Naming(s, kind, p) \in SUBSET (Slots \X Descriptors)
        /\ Naming(t, kind, p) \cup g(kind, p) \in SUBSET (Slots \X Descriptors)
    BY <1>6, NamingFinite
  <2> QED BY <2>1, <2>2, SamePairs
<1>13. Counted(s)
  BY <1>9, <1>12 DEF Counted
<1>14. Good(s)
  BY <1>11, <1>13
<1> QED BY <1>14 DEF s

\* A load either gives the process a frame of the pool, or leaves a good table.
LEMMA LoadIs ==
  ASSUME NEW t, Good(t), NEW load \in Load(t)
  PROVE  \/ /\ load.ok /\ NextFrame(t) \in t.pool
            /\ load.table = [t EXCEPT !.pool = @ \ {NextFrame(t)}] /\ load.frames = {NextFrame(t)}
         \/ ~load.ok /\ Good(load.table)
<1> DEFINE f == NextFrame(t)
           u == [t EXCEPT !.pool = @ \ {f}]
           v == [t EXCEPT !.pool = @ \ {f}, !.lost = @ \cup {f}]
<1>1. CASE t.pool = {}
  <2>1. load = [ok |-> FALSE, table |-> t]
    BY <1>1 DEF Load, HasFrame
  <2> QED BY <2>1
<1>2. CASE t.pool # {}
  <2>1. f \in t.pool
    BY <1>2, GoodIs, ConstantsAre, LeastOf DEF NextFrame
  <2>2. Good(v)
    <3>1. v = [[t EXCEPT !.pool = @ \ {f}] EXCEPT !.lost = @ \cup {f}]
      OBVIOUS
    <3>2. Good([[t EXCEPT !.pool = @ \ {f}] EXCEPT !.lost = @ \cup {f}])
      <4> HIDE DEF f
      <4> QED BY <2>1, FrameLost
    <3> QED BY <3>1, <3>2
  <2>3. load \in {[ok |-> TRUE, table |-> u, frames |-> {f}], [ok |-> FALSE, table |-> t],
                  [ok |-> FALSE, table |-> v]}
    BY <1>2 DEF Load, HasFrame, Loads, LoadFails
  <2> HIDE DEF u, v
  <2>4. CASE load = [ok |-> TRUE, table |-> u, frames |-> {f}]
    <3>1. load.ok /\ load.table = u /\ load.frames = {f}
      BY <2>4
    <3> QED BY <2>1, <3>1 DEF u
  <2>5. CASE load = [ok |-> FALSE, table |-> t]
    BY <2>5
  <2>6. CASE load = [ok |-> FALSE, table |-> v]
    BY <2>2, <2>6
  <2> QED BY <2>3, <2>4, <2>5, <2>6
<1> QED BY <1>1, <1>2

LEMMA SpawnGood ==
  ASSUME NEW t, Good(t), t.started < MaxStarted, NEW i \in Live(t),
         NEW d \in Named(t, i) \cup {None}, NEW e \in Named(t, i) \cup {None},
         NEW s \in Spawn(t, i, Given(t, i, d), Given(t, i, e))
  PROVE  Good(s)
<1>1. CASE Taken(t) = Slots
  BY <1>1 DEF Spawn
<1>2. CASE Taken(t) # Slots
  <2> DEFINE in == Given(t, i, d)
             out == Given(t, i, e)
  <2>1. in \in {Free} \cup {t.processes[i].descriptors[x] : x \in Descriptors}
        /\ out \in {Free} \cup {t.processes[i].descriptors[x] : x \in Descriptors}
    BY DEF Given, Named
  <2> HIDE DEF in, out
  <2>2. PICK load \in Load(t) :
          s = IF load.ok THEN Placed(load.table, i, load.frames, in, out) ELSE load.table
    BY <1>2 DEF Spawn, in, out
  <2>3. CASE load.ok
    <3> DEFINE f == NextFrame(t)
    <3>1. f \in t.pool /\ load.table = [t EXCEPT !.pool = @ \ {f}] /\ load.frames = {f}
      BY <2>3, LoadIs
    <3>2. s = Placed([t EXCEPT !.pool = @ \ {f}], i, {f}, in, out)
      BY <2>2, <2>3, <3>1
    <3> HIDE DEF f
    <3>3. Good(Placed([t EXCEPT !.pool = @ \ {f}], i, {f}, in, out))
      BY <1>2, <2>1, <3>1, PlacedGood
    <3> QED BY <3>2, <3>3
  <2>4. CASE ~load.ok
    BY <2>2, <2>4, LoadIs
  <2> QED BY <2>3, <2>4
<1> QED BY <1>1, <1>2

\* The host's process: nobody's child, with no descriptors.
LEMMA StartedGood ==
  ASSUME NEW t, Good(t), t.started < MaxStarted, Taken(t) # Slots, NEW f \in t.pool
  PROVE  Good([[t EXCEPT !.pool = @ \ {f}] EXCEPT
                 !.started = @ + 1,
                 !.processes[Min(Slots \ Taken(t))] =
                    NewProcess(None, [d \in Descriptors |-> Free], {f})])
<1> DEFINE k == Min(Slots \ Taken(t))
           D == [d \in Descriptors |-> Free]
           N == NewProcess(None, D, {f})
           u == [t EXCEPT !.pool = @ \ {f}]
           a == [u EXCEPT !.started = @ + 1]
           s == [u EXCEPT !.started = @ + 1, !.processes[k] = N]
<1>1. k \in Slots \ Taken(t)
  <2>1. Slots \ Taken(t) \in SUBSET Nat
    BY ConstantsAre
  <2>2. Slots \ Taken(t) # {}
    BY GoodIs
  <2> QED BY <2>1, <2>2, LeastOf
<1>2. /\ DOMAIN t = {"processes", "pipes", "pool", "started", "lost"}
      /\ t = [x \in DOMAIN t |-> t[x]]
  BY GoodIs DEF Tables
<1>3. /\ u.processes = t.processes /\ u.pipes = t.pipes /\ u.pool = t.pool \ {f}
      /\ u.started = t.started /\ u.lost = t.lost
      /\ DOMAIN u = {"processes", "pipes", "pool", "started", "lost"}
      /\ u = [x \in DOMAIN u |-> u[x]]
  BY <1>2
<1> HIDE DEF u, N, k
<1>4. /\ a.processes = t.processes /\ a.pipes = t.pipes /\ a.pool = t.pool \ {f}
      /\ a.started = t.started + 1 /\ a.lost = t.lost
      /\ DOMAIN a = {"processes", "pipes", "pool", "started", "lost"}
      /\ a = [x \in DOMAIN a |-> a[x]]
  BY <1>3
<1>5. s = [a EXCEPT !.processes[k] = N]
  OBVIOUS
<1> HIDE DEF a, s
<1>6. /\ s.processes = [t.processes EXCEPT ![k] = N] /\ s.pipes = t.pipes /\ s.pool = t.pool \ {f}
      /\ s.started = t.started + 1 /\ s.lost = t.lost
      /\ DOMAIN s = {"processes", "pipes", "pool", "started", "lost"}
      /\ s = [x \in DOMAIN s |-> s[x]]
  BY <1>4, <1>5
<1>7. D \in [Descriptors -> Descriptions] /\ \A d \in Descriptors : D[d] = Free
  BY DEF Descriptions
<1> HIDE DEF D
<1>8. N \in ProcessRecords
  <2>1. f \in Frames
    BY GoodIs
  <2> QED BY <1>7, <2>1 DEF N, NewProcess, ProcessRecords, Descriptions
<1>9. s \in Tables
  <2>1. s.started \in 0 .. MaxStarted
    BY <1>6, GoodIs, ProcessesConstants
  <2>2. s.processes \in [Slots -> {Unused} \cup ProcessRecords]
    BY <1>1, <1>6, <1>8, GoodIs
  <2>3. s.pool \in SUBSET Frames /\ s.lost \in SUBSET Frames /\ s.pipes \in [Pipes -> PipeStates]
    BY <1>6, GoodIs
  <2> QED BY <1>6, <2>1, <2>2, <2>3 DEF Tables
<1>10. Appears(t, s, k, f, None, D)
  BY <1>6, <1>9 DEF Appears, N
<1>11. /\ Counted(s) => Good(s)
       /\ \A e \in Descriptors : At(t, k, e) = Free
       /\ \A e \in Descriptors : At(s, k, e) = D[e]
       /\ \A j \in Slots : j # k => \A e \in Descriptors : At(s, j, e) = At(t, j, e)
  BY <1>1, <1>7, <1>10, NewSlot
<1>12. \A kind, p : Naming(s, kind, p) = Naming(t, kind, p)
  <2>1. \A j \in Slots : \A e \in Descriptors : At(s, j, e) = At(t, j, e)
    BY <1>7, <1>11
  <2> QED BY <2>1, NamingKept
<1>13. Counted(s)
  BY <1>6, <1>12 DEF Counted, Good
<1>14. Good(s)
  BY <1>11, <1>13
<1> QED BY <1>14 DEF s, u, N, k, D

-----------------------------------------------------------------------------
\* One entry, and one retry.

LEMMA StaysGood ==
  ASSUME NEW t, Good(t), NEW i \in Live(t), NEW o, Good(o.table), NEW waiting \in States \ {Ended}
  PROVE  Good(Stays(t, i, o, waiting))
<1>1. CASE o.done
  BY <1>1 DEF Stays
<1>2. CASE ~o.done
  <2>1. Good([t EXCEPT !.processes[i].state = waiting])
    BY StateChanges
  <2> QED BY <1>2, <2>1 DEF Stays
<1> QED BY <1>1, <1>2

LEMMA WaitingIs ==
  /\ \A d \in Descriptors : [is |-> "reading", on |-> d] \in States \ {Ended}
  /\ \A d \in Descriptors : [is |-> "writing", on |-> d] \in States \ {Ended}
  /\ \A c \in Slots : [is |-> "waiting", on |-> c] \in States \ {Ended}
  /\ [is |-> "outside"] \in States \ {Ended} /\ Runnable \in States \ {Ended}
<1>1. ASSUME NEW d \in Descriptors PROVE [is |-> "reading", on |-> d] \in States \ {Ended}
  BY ValuesAre DEF States
<1>2. ASSUME NEW d \in Descriptors PROVE [is |-> "writing", on |-> d] \in States \ {Ended}
  BY ValuesAre DEF States
<1>3. ASSUME NEW c \in Slots PROVE [is |-> "waiting", on |-> c] \in States \ {Ended}
  BY ValuesAre DEF States
<1>4. [is |-> "outside"] \in States \ {Ended} /\ Runnable \in States \ {Ended}
  BY ValuesAre DEF States
<1> QED BY <1>1, <1>2, <1>3, <1>4

LEMMA EntryGood ==
  ASSUME NEW t, Good(t), NEW i \in Live(t), NEW s \in Entry(t, i)
  PROVE  Good(s)
<1> DEFINE reads == {e \in Named(t, i) : t.processes[i].descriptors[e].kind = "read"}
           writes == {e \in Named(t, i) : t.processes[i].descriptors[e].kind = "write"}
           children == {j \in Slots \ {i} : IsChild(t, i, j)}
<1>1. \/ s = Finish(t, {i}) \/ s = MakePipe(t, i) \/ s = Grow(t, i)
      \/ s = [t EXCEPT !.processes[i].state = [is |-> "outside"]]
      \/ \E d \in Named(t, i) : s = Close(t, i, d)
      \/ \E d \in reads : s = Stays(t, i, PipeRead(t, i, d), [is |-> "reading", on |-> d])
      \/ \E d \in writes : s = Stays(t, i, PipeWrite(t, i, d), [is |-> "writing", on |-> d])
      \/ \E c \in children : s = Stays(t, i, Reap(t, i, c), [is |-> "waiting", on |-> c])
      \/ \E c \in Slots : s = Kill(t, i, c)
      \/ /\ t.started < MaxStarted
         /\ \E d \in Named(t, i) \cup {None}, e \in Named(t, i) \cup {None} :
              s \in Spawn(t, i, Given(t, i, d), Given(t, i, e))
  <2> DEFINE at == {Finish(t, {i}), MakePipe(t, i), Grow(t, i),
                    [t EXCEPT !.processes[i].state = [is |-> "outside"]]}
             closed == {Close(t, i, d) : d \in Named(t, i)}
             read == {Stays(t, i, PipeRead(t, i, d), [is |-> "reading", on |-> d]) : d \in reads}
             written == {Stays(t, i, PipeWrite(t, i, d), [is |-> "writing", on |-> d]) : d \in writes}
             reaped == {Stays(t, i, Reap(t, i, c), [is |-> "waiting", on |-> c]) : c \in children}
             killed == {Kill(t, i, c) : c \in Slots}
             spawned == UNION {Spawn(t, i, Given(t, i, d), Given(t, i, e)) :
                                 d \in Named(t, i) \cup {None}, e \in Named(t, i) \cup {None}}
  <2>1. Entry(t, i) = at \cup closed \cup read \cup written \cup reaped \cup killed
                        \cup (IF t.started < MaxStarted THEN spawned ELSE {})
    BY DEF Entry
  <2> HIDE DEF at, closed, read, written, reaped, killed, spawned
  <2>2. s \in at \/ s \in closed \/ s \in read \/ s \in written \/ s \in reaped \/ s \in killed
        \/ (t.started < MaxStarted /\ s \in spawned)
    BY <2>1
  <2>3. s \in at => \/ s = Finish(t, {i}) \/ s = MakePipe(t, i) \/ s = Grow(t, i)
                    \/ s = [t EXCEPT !.processes[i].state = [is |-> "outside"]]
    BY DEF at
  <2>4. s \in closed => \E d \in Named(t, i) : s = Close(t, i, d)
    BY DEF closed
  <2> HIDE DEF reads, writes, children
  <2>5. s \in read => \E d \in reads : s = Stays(t, i, PipeRead(t, i, d), [is |-> "reading", on |-> d])
    BY DEF read
  <2>6. s \in written =>
          \E d \in writes : s = Stays(t, i, PipeWrite(t, i, d), [is |-> "writing", on |-> d])
    BY DEF written
  <2>7. s \in reaped =>
          \E c \in children : s = Stays(t, i, Reap(t, i, c), [is |-> "waiting", on |-> c])
    BY DEF reaped
  <2>8. s \in killed => \E c \in Slots : s = Kill(t, i, c)
    BY DEF killed
  <2>9. s \in spawned => \E d \in Named(t, i) \cup {None}, e \in Named(t, i) \cup {None} :
                           s \in Spawn(t, i, Given(t, i, d), Given(t, i, e))
    BY DEF spawned
  <2> QED BY <2>2, <2>3, <2>4, <2>5, <2>6, <2>7, <2>8, <2>9
<1>2. \A d \in Named(t, i) : d \in Descriptors
  BY DEF Named
<1>3. CASE s = Finish(t, {i})
  <2>1. {i} \in SUBSET Live(t)
    OBVIOUS
  <2> QED BY <1>3, <2>1, FinishGood
<1>4. CASE s = MakePipe(t, i)
  BY <1>4, MakePipeGood
<1>5. CASE s = Grow(t, i)
  BY <1>5, GrowGood
<1>6. CASE s = [t EXCEPT !.processes[i].state = [is |-> "outside"]]
  <2>1. Good([t EXCEPT !.processes[i].state = [is |-> "outside"]])
    BY StateChanges, WaitingIs
  <2> QED BY <1>6, <2>1
<1>7. ASSUME NEW d \in Named(t, i), s = Close(t, i, d) PROVE Good(s)
  BY <1>7, CloseGood
<1>8. ASSUME NEW d \in reads, s = Stays(t, i, PipeRead(t, i, d), [is |-> "reading", on |-> d])
      PROVE  Good(s)
  <2>1. d \in Descriptors
    BY <1>2
  <2>2. Good(PipeRead(t, i, d).table)
    BY <2>1, ReadGood
  <2> QED BY <1>8, <2>1, <2>2, StaysGood, WaitingIs
<1>9. ASSUME NEW d \in writes, s = Stays(t, i, PipeWrite(t, i, d), [is |-> "writing", on |-> d])
      PROVE  Good(s)
  <2>1. d \in Descriptors
    BY <1>2
  <2>2. Good(PipeWrite(t, i, d).table)
    BY <2>1, WriteGood
  <2> QED BY <1>9, <2>1, <2>2, StaysGood, WaitingIs
<1>10. ASSUME NEW c \in children, s = Stays(t, i, Reap(t, i, c), [is |-> "waiting", on |-> c])
       PROVE  Good(s)
  <2>1. c \in Slots
    OBVIOUS
  <2>2. Good(Reap(t, i, c).table)
    BY <2>1, ReapGood
  <2> QED BY <1>10, <2>1, <2>2, StaysGood, WaitingIs
<1>11. ASSUME NEW c \in Slots, s = Kill(t, i, c) PROVE Good(s)
  BY <1>11, KillGood
<1>12. ASSUME t.started < MaxStarted, NEW d \in Named(t, i) \cup {None},
              NEW e \in Named(t, i) \cup {None}, s \in Spawn(t, i, Given(t, i, d), Given(t, i, e))
       PROVE  Good(s)
  BY <1>12, SpawnGood
<1> HIDE DEF reads, writes, children
<1> QED BY <1>1, <1>3, <1>4, <1>5, <1>6, <1>7, <1>8, <1>9, <1>10, <1>11, <1>12

\* Who is blocked is blocked on something.
LEMMA BlockedOn ==
  ASSUME NEW t, Good(t), NEW i \in Live(t),
         t.processes[i].state.is \in {"waiting", "reading", "writing"}
  PROVE  \/ /\ t.processes[i].state.is = "waiting" /\ t.processes[i].state.on \in Slots
            /\ Retry(t, i) = Reap(t, i, t.processes[i].state.on)
         \/ /\ t.processes[i].state.is = "reading" /\ t.processes[i].state.on \in Descriptors
            /\ Retry(t, i) = PipeRead(t, i, t.processes[i].state.on)
         \/ /\ t.processes[i].state.is = "writing" /\ t.processes[i].state.on \in Descriptors
            /\ Retry(t, i) = PipeWrite(t, i, t.processes[i].state.on)
<1> DEFINE x == t.processes[i].state
<1>1. x \in States
  BY GoodIs
<1> HIDE DEF x
<1>2. /\ x.is = "waiting" => x.on \in Slots
      /\ x.is \in {"reading", "writing"} => x.on \in Descriptors
  BY <1>1 DEF States, Runnable, Ended
<1>3. /\ x.is = "waiting" => Retry(t, i) = Reap(t, i, x.on)
      /\ x.is = "reading" => Retry(t, i) = PipeRead(t, i, x.on)
      /\ x.is = "writing" => Retry(t, i) = PipeWrite(t, i, x.on)
  BY DEF Retry, x
<1> QED BY <1>2, <1>3 DEF x

LEMMA PipesOnly ==
  ASSUME NEW t, Good(t), NEW i, NEW d
  PROVE  /\ PipeRead(t, i, d).table.processes = t.processes
         /\ PipeWrite(t, i, d).table.processes = t.processes
<1> DEFINE p == t.processes[i].descriptors[d].pipe
           a == [t EXCEPT !.pipes[p].length = @ - 1]
           b == [t EXCEPT !.pipes[p].eof = TRUE]
           c == [t EXCEPT !.pipes[p].length = @ + 1]
<1>1. a.processes = t.processes /\ b.processes = t.processes /\ c.processes = t.processes
  BY GoodIs DEF Tables
<1>2. PipeRead(t, i, d) \in {Answered(t), Answered(a), Answered(b), Blocked(t)}
  BY DEF PipeRead
<1>3. PipeWrite(t, i, d) \in {Answered(t), Answered(c), Blocked(t)}
  BY DEF PipeWrite
<1> HIDE DEF a, b, c
<1>4. \A x : Answered(x).table = x /\ Blocked(x).table = x
  BY DEF Answered, Blocked
<1> QED BY <1>1, <1>2, <1>3, <1>4

LEMMA RetryGood ==
  ASSUME NEW t, Good(t), NEW i \in Live(t),
         t.processes[i].state.is \in {"waiting", "reading", "writing"}
  PROVE  Good(Retry(t, i).table) /\ i \in Live(Retry(t, i).table)
<1> DEFINE on == t.processes[i].state.on
           s == Retry(t, i).table
<1>1. ASSUME s.processes = t.processes PROVE Live(s) = Live(t)
  BY <1>1 DEF Live, Taken
<1>2. CASE on \in Slots /\ Retry(t, i) = Reap(t, i, on)
  <2>1. Good(s)
    BY <1>2, ReapGood
  <2>2. CASE ~IsChild(t, i, on) \/ t.processes[on].state # Ended
    <3>1. s = t
      BY <1>2, <2>2 DEF Reap, Answered, Blocked
    <3> QED BY <2>1, <3>1
  <2>3. CASE IsChild(t, i, on) /\ t.processes[on].state = Ended
    <3>1. on \notin Live(t)
      BY <1>2, <2>3, GoodIs
    <3>2. Live(TakenOut(t, on)) = Live(t)
      <4> HIDE DEF on
      <4> QED BY <1>2, <3>1, TakenOutGood
    <3>3. s = TakenOut(t, on)
      BY <1>2, <2>3 DEF Reap, Answered
    <3> QED BY <2>1, <3>2, <3>3
  <2> QED BY <2>2, <2>3
<1>3. CASE on \in Descriptors /\ Retry(t, i) = PipeRead(t, i, on)
  <2>1. Good(s)
    BY <1>3, ReadGood
  <2>2. s.processes = t.processes
    BY <1>3, PipesOnly
  <2> QED BY <1>1, <2>1, <2>2
<1>4. CASE on \in Descriptors /\ Retry(t, i) = PipeWrite(t, i, on)
  <2>1. Good(s)
    BY <1>4, WriteGood
  <2>2. s.processes = t.processes
    BY <1>4, PipesOnly
  <2> QED BY <1>1, <2>1, <2>2
<1> QED BY <1>2, <1>3, <1>4, BlockedOn

-----------------------------------------------------------------------------
\* What is taken out of the table: ended processes and nobody else.

\* A step that stays in a set can be repeated as often as one likes.
Repeats(T, F, a, N, f) ==
  f \in [0 .. N -> T] /\ f[0] = a /\ \A n \in 1 .. N : f[n] = F[<<f[n - 1], n - 1>>]

LEMMA IterationExists ==
  ASSUME NEW T, NEW F \in [T \X Nat -> T], NEW a \in T
  PROVE  \A N \in Nat : \E f : Repeats(T, F, a, N, f)
<1> DEFINE Goes(N, f) == f[0] = a /\ \A n \in 1 .. N : f[n] = F[<<f[n - 1], n - 1>>]
           Bad == {N \in Nat : ~ \E f \in [0 .. N -> T] : Goes(N, f)}
<1>0. SUFFICES \A N \in Nat : \E f \in [0 .. N -> T] : Goes(N, f)
  <2>1. \A N, f : f \in [0 .. N -> T] /\ Goes(N, f) => Repeats(T, F, a, N, f)
    BY DEF Repeats
  <2> HIDE DEF Goes
  <2> QED BY <2>1
<1>1. SUFFICES ASSUME Bad # {} PROVE FALSE
  OBVIOUS
<1>2. PICK N \in Bad : \A n \in Bad : N <= n
  BY <1>1, LeastMember
<1>3. CASE N = 0
  <2> DEFINE f == [n \in 0 .. 0 |-> a]
  <2>1. f \in [0 .. 0 -> T] /\ f[0] = a
    OBVIOUS
  <2>2. \A n \in 1 .. 0 : FALSE
    OBVIOUS
  <2> HIDE DEF f
  <2>3. Goes(0, f)
    BY <2>1, <2>2
  <2> QED BY <1>2, <1>3, <2>1, <2>3
<1>4. CASE N # 0
  <2>1. N - 1 \in Nat /\ N - 1 \notin Bad
    BY <1>2, <1>4
  <2>2. PICK f \in [0 .. N - 1 -> T] : Goes(N - 1, f)
    BY <2>1
  <2> DEFINE new == F[<<f[N - 1], N - 1>>]
             g == [n \in 0 .. N |-> IF n = N THEN new ELSE f[n]]
  <2>3. f[N - 1] \in T
    BY <2>1, <2>2
  <2>4. new \in T
    BY <2>1, <2>3
  <2>5. \A n \in 0 .. N : n # N => n \in 0 .. N - 1
    BY <2>1
  <2>6. \A n \in 0 .. N - 1 : n \in 0 .. N /\ n # N
    BY <2>1
  <2> HIDE DEF new
  <2>7. g \in [0 .. N -> T]
    BY <2>4, <2>5
  <2>8. g[N] = new /\ \A n \in 0 .. N - 1 : g[n] = f[n]
    BY <2>1, <2>6
  <2> HIDE DEF g
  <2>9. ASSUME NEW n \in 1 .. N PROVE g[n] = F[<<g[n - 1], n - 1>>]
    <3>1. n - 1 \in 0 .. N - 1
      BY <2>1
    <3>2. CASE n = N
      BY <2>8, <3>1, <3>2 DEF new
    <3>3. CASE n # N
      <4>1. n \in 1 .. N - 1 /\ n \in 0 .. N - 1
        BY <2>1, <3>3
      <4> QED BY <2>2, <2>8, <3>1, <4>1
    <3> QED BY <3>2, <3>3
  <2>10. g[0] = a
    <3>1. 0 \in 0 .. N - 1
      BY <2>1
    <3> QED BY <2>2, <2>8, <3>1
  <2>11. Goes(N, g)
    BY <2>9, <2>10
  <2> QED BY <1>2, <2>7, <2>11
<1> QED BY <1>3, <1>4

\* The climb to the root, one parent at a time.
Climbs(t, i, x) ==
  /\ x \in [0 .. Cardinality(Slots) -> Slots] /\ x[0] = i
  /\ \A n \in 1 .. Cardinality(Slots) : x[n] = Up(t, x[n - 1])

LEMMA RootIs ==
  ASSUME NEW t, NEW i \in Slots
  PROVE  \E x : /\ Climbs(t, i, x)
                /\ RootOf(t, i) = LET top == x[Cardinality(Slots)] IN
                                  IF Up(t, top) = top THEN top ELSE None
<1> DEFINE N == Cardinality(Slots)
           F == [v \in Slots \X Nat |-> Up(t, v[1])]
           Is(x) == x = [n \in 0 .. N |-> IF n = 0 THEN i ELSE Up(t, x[n - 1])]
<1>1. N \in Nat
  BY ConstantsAre
<1> HIDE DEF N
<1>2. \A j \in Slots : Up(t, j) \in Slots
  BY DEF Up, Taken
<1>3. F \in [Slots \X Nat -> Slots]
  BY <1>2
<1>4. PICK x \in [0 .. N -> Slots] : x[0] = i /\ \A n \in 1 .. N : x[n] = F[<<x[n - 1], n - 1>>]
  <2> HIDE DEF F
  <2>1. PICK x : Repeats(Slots, F, i, N, x)
    BY <1>1, <1>3, IterationExists
  <2> QED BY <2>1 DEF Repeats
<1>5. \A n \in 1 .. N : x[n] = Up(t, x[n - 1])
  <2>1. \A n \in 1 .. N : n - 1 \in 0 .. N /\ n - 1 \in Nat
    BY <1>1
  <2> QED BY <1>4, <2>1
<1>6. Is(x)
  <2>1. ASSUME NEW n \in 0 .. N PROVE x[n] = IF n = 0 THEN i ELSE Up(t, x[n - 1])
    <3>1. n # 0 => n \in 1 .. N
      BY <1>1
    <3> QED BY <1>4, <1>5, <3>1
  <2> QED BY <2>1
<1> DEFINE c == CHOOSE y : Is(y)
<1>7. Is(c)
  BY <1>6
<1> HIDE DEF c
<1>8. Climbs(t, i, c)
  <2>1. ASSUME NEW y, Is(y), Is(x) PROVE \A n \in 0 .. N : y[n] = x[n]
    <3> DEFINE Bad == {n \in 0 .. N : y[n] # x[n]}
    <3>1. SUFFICES ASSUME Bad # {} PROVE FALSE
      OBVIOUS
    <3>2. Bad \subseteq Nat
      BY <1>1
    <3>3. PICK n \in Bad : \A m \in Bad : n <= m
      BY <3>1, <3>2, LeastMember
    <3>4. n # 0
      BY <1>1, <2>1, <3>3
    <3>5. n - 1 \in 0 .. N /\ n - 1 \notin Bad
      BY <1>1, <3>3, <3>4
    <3> QED BY <2>1, <3>3, <3>4, <3>5
  <2>2. \A n \in 0 .. N : c[n] = x[n]
    BY <1>6, <1>7, <2>1
  <2>3. c = [n \in 0 .. N |-> c[n]]
    BY <1>7
  <2>4. c \in [0 .. N -> Slots]
    BY <2>2, <2>3
  <2>5. \A n \in 1 .. N : n - 1 \in 0 .. N /\ n \in 0 .. N
    BY <1>1
  <2>6. 0 \in 0 .. N
    BY <1>1
  <2>7. c[0] = i /\ \A n \in 1 .. N : c[n] = Up(t, c[n - 1])
    BY <1>4, <1>5, <2>2, <2>5, <2>6
  <2> QED BY <2>4, <2>7 DEF Climbs, N
<1>9. RootOf(t, i) = LET top == c[N] IN IF Up(t, top) = top THEN top ELSE None
  BY DEF RootOf, c, N
<1> QED BY <1>8, <1>9 DEF N

\* A table from which only a tree nobody lives in is taken: its root has no
\* parent, and nobody alive climbs to it.
Dead(t, root) ==
  /\ Good(t) /\ Parent(t, root) \notin Taken(t)
  /\ \A i \in Live(t) : RootOf(t, i) # root

\* Once a slot is empty, others may have become roots, but nobody has come to
\* climb to a root to which he did not climb before.
LEMMA RootsLeft ==
  ASSUME NEW t, Good(t), NEW c \in Slots, c \notin Live(t), NEW root \in Slots,
         Parent(t, root) \notin Taken(t),
         NEW i \in Slots, i # c, RootOf(TakenOut(t, c), i) = root
  PROVE  RootOf(t, i) = root
<1> DEFINE s == TakenOut(t, c)
           N == Cardinality(Slots)
<1>1. N \in Nat \ {0}
  BY ConstantsAre
<1>2. Taken(s) = Taken(t) \ {c} /\ \A j \in Slots \ {c} : j \in Taken(t) =>
        s.processes[j].parent = t.processes[j].parent
  BY TakenOutGood
<1> HIDE DEF s, N
<1>3. \A j \in Slots \ {c} : Parent(s, j) = Parent(t, j)
  BY <1>2 DEF Parent
<1>4. PICK y : Climbs(s, i, y) /\
        RootOf(s, i) = LET top == y[N] IN IF Up(s, top) = top THEN top ELSE None
  BY RootIs DEF N
<1>5. PICK x : Climbs(t, i, x) /\
        RootOf(t, i) = LET top == x[N] IN IF Up(t, top) = top THEN top ELSE None
  BY RootIs DEF N
<1>6. y[N] = root
  BY <1>4, ConstantsAre DEF s
<1>7. \A j \in Slots \ {c} : Up(s, j) # c
  BY <1>2, <1>3 DEF Up
<1>8. \A n \in 0 .. N : y[n] \in Slots \ {c}
  <2> DEFINE Bad == {n \in 0 .. N : y[n] \notin Slots \ {c}}
  <2>1. SUFFICES ASSUME Bad # {} PROVE FALSE
    OBVIOUS
  <2>2. Bad \subseteq Nat
    BY <1>1
  <2>3. PICK n \in Bad : \A m \in Bad : n <= m
    BY <2>1, <2>2, LeastMember
  <2>4. n # 0
    BY <1>4, <2>3 DEF Climbs
  <2>5. n - 1 \in 0 .. N /\ n - 1 \notin Bad /\ n \in 1 .. N
    BY <1>1, <2>3, <2>4
  <2>6. y[n] = Up(s, y[n - 1]) /\ y[n] \in Slots
    BY <1>4, <2>5 DEF Climbs, N
  <2> QED BY <1>7, <2>3, <2>5, <2>6
\* Stopped short where the parent was in the slot, or as before.
<1> DEFINE Short(n) == Up(s, y[n]) = y[n] /\ Parent(t, y[n]) = c /\ c \in Taken(t)
<1>9. \A n \in 0 .. N : x[n] = y[n] \/ Short(n)
  <2> DEFINE Bad == {n \in 0 .. N : ~(x[n] = y[n] \/ Short(n))}
  <2>1. SUFFICES ASSUME Bad # {} PROVE FALSE
    OBVIOUS
  <2>2. Bad \subseteq Nat
    BY <1>1
  <2>3. PICK n \in Bad : \A m \in Bad : n <= m
    BY <2>1, <2>2, LeastMember
  <2>4. n # 0
    BY <1>4, <1>5, <2>3 DEF Climbs
  <2>5. n - 1 \in 0 .. N /\ n - 1 \notin Bad /\ n \in 1 .. N
    BY <1>1, <2>3, <2>4
  <2>6. y[n] = Up(s, y[n - 1]) /\ x[n] = Up(t, x[n - 1])
    BY <1>4, <1>5, <2>5 DEF Climbs, N
  <2>7. y[n - 1] \in Slots \ {c}
    BY <1>8, <2>5
  <2>8. CASE Short(n - 1)
    <3>1. y[n] = y[n - 1]
      BY <2>6, <2>8
    <3> QED BY <2>3, <2>8, <3>1
  <2>9. CASE x[n - 1] = y[n - 1] /\ Parent(t, y[n - 1]) = c /\ c \in Taken(t)
    <3>1. Up(s, y[n - 1]) = y[n - 1]
      BY <1>2, <1>3, <2>7, <2>9 DEF Up
    <3>2. y[n] = y[n - 1]
      BY <2>6, <3>1
    <3> QED BY <2>3, <2>9, <3>1, <3>2
  <2>10. CASE x[n - 1] = y[n - 1] /\ ~(Parent(t, y[n - 1]) = c /\ c \in Taken(t))
    <3>1. Up(s, y[n - 1]) = Up(t, y[n - 1])
      BY <1>2, <1>3, <2>7, <2>10 DEF Up
    <3> QED BY <2>3, <2>6, <2>10, <3>1
  <2> QED BY <2>5, <2>8, <2>9, <2>10
<1>10. N \in 0 .. N
  BY <1>1
<1>11. ~Short(N)
  BY <1>6
<1>12. x[N] = root
  BY <1>6, <1>9, <1>10, <1>11
<1>13. Up(t, root) = root
  BY DEF Up
<1> QED BY <1>5, <1>12, <1>13

LEMMA MemberGood ==
  ASSUME NEW t, NEW root \in Slots, Dead(t, root), NEW i \in Slots
  PROVE  Dead(TakeMember(t, root, i), root)
<1>1. CASE RootOf(t, i) # root
  BY <1>1 DEF TakeMember
<1>2. CASE RootOf(t, i) = root
  <2> DEFINE s == TakenOut(t, i)
  <2>1. i \notin Live(t) /\ Good(t) /\ Parent(t, root) \notin Taken(t)
    BY <1>2 DEF Dead
  <2>2. /\ Good(s) /\ Taken(s) = Taken(t) \ {i} /\ Live(s) = Live(t)
        /\ \A j \in Slots \ {i} : j \in Taken(t) => s.processes[j].parent = t.processes[j].parent
    BY <2>1, TakenOutGood
  <2>3. Parent(s, root) \notin Taken(s)
    <3>1. None \notin Taken(s)
      BY ConstantsAre DEF Taken
    <3>2. CASE root = i
      BY <2>2, <3>1, <3>2 DEF Parent
    <3>3. CASE root # i
      <4>1. Parent(s, root) = Parent(t, root)
        BY <2>2, <3>3 DEF Parent
      <4> QED BY <2>1, <2>2, <4>1
    <3> QED BY <3>2, <3>3
  <2>4. ASSUME NEW j \in Live(s) PROVE RootOf(s, j) # root
    <3>1. j \in Live(t) /\ j \in Slots /\ j # i
      BY <2>1, <2>2, <2>4, GoodIs
    <3>2. RootOf(t, j) # root
      BY <3>1 DEF Dead
    <3> QED BY <2>1, <3>1, <3>2, RootsLeft
  <2> HIDE DEF s
  <2>5. Dead(s, root)
    BY <2>2, <2>3, <2>4 DEF Dead
  <2> QED BY <1>2, <2>5 DEF TakeMember, s
<1> QED BY <1>1, <1>2

LEMMA TakeTreeGood ==
  ASSUME NEW t, NEW root \in Slots, Dead(t, root)
  PROVE  Good(TakeTree(t, root))
<1> DEFINE N == Cardinality(Slots)
           T == {s \in Tables : Dead(s, root)}
           F == [v \in T \X Nat |-> IF v[2] \in Slots THEN TakeMember(v[1], root, v[2]) ELSE v[1]]
           Is(x) == x = [n \in 0 .. N |-> IF n = 0 THEN t ELSE TakeMember(x[n - 1], root, n - 1)]
           c == CHOOSE x : Is(x)
<1>1. N \in Nat /\ \A n \in 1 .. N : n - 1 \in Slots /\ n - 1 \in 0 .. N /\ n - 1 \in Nat
  <2> DEFINE M == N
  <2>1. M \in Nat /\ Slots = 0 .. M - 1
    BY ConstantsAre
  <2> HIDE DEF M
  <2>2. M \in Nat /\ \A n \in 1 .. M : n - 1 \in Slots /\ n - 1 \in 0 .. M /\ n - 1 \in Nat
    BY <2>1
  <2> QED BY <2>2 DEF M
<1> HIDE DEF N
<1>2. \A s : s \in T <=> Dead(s, root)
  BY GoodIs DEF Dead
<1>3. \A s \in T : \A i \in Slots : TakeMember(s, root, i) \in T
  BY <1>2, MemberGood
<1> HIDE DEF T
<1>4. F \in [T \X Nat -> T] /\ t \in T
  BY <1>2, <1>3
<1>5. PICK x : Repeats(T, F, t, N, x)
  <2> HIDE DEF F
  <2> QED BY <1>1, <1>4, IterationExists
<1>6. Is(x)
  <2>1. ASSUME NEW n \in 0 .. N PROVE x[n] = IF n = 0 THEN t ELSE TakeMember(x[n - 1], root, n - 1)
    <3>1. CASE n = 0
      BY <1>5, <3>1 DEF Repeats
    <3>2. CASE n # 0
      <4>1. n \in 1 .. N
        BY <1>1, <3>2
      <4>2. n - 1 \in Slots /\ n - 1 \in 0 .. N /\ n - 1 \in Nat
        BY <1>1, <4>1
      <4>3. x[n - 1] \in T /\ x[n] = F[<<x[n - 1], n - 1>>]
        BY <1>5, <4>1, <4>2 DEF Repeats
      <4> QED BY <3>2, <4>2, <4>3
    <3> QED BY <3>1, <3>2
  <2>2. x \in [0 .. N -> T]
    BY <1>5 DEF Repeats
  <2> QED BY <2>1, <2>2
<1> HIDE DEF F
<1>7. Is(c)
  BY <1>6
<1> HIDE DEF c
<1>8. \A n \in 0 .. N : c[n] \in T
  <2> DEFINE Bad == {n \in 0 .. N : c[n] \notin T}
  <2>1. SUFFICES ASSUME Bad # {} PROVE FALSE
    OBVIOUS
  <2>2. Bad \subseteq Nat
    BY <1>1
  <2>3. PICK n \in Bad : \A m \in Bad : n <= m
    BY <2>1, <2>2, LeastMember
  <2>4. n # 0
    BY <1>4, <1>7, <2>3
  <2>5. n - 1 \in 0 .. N /\ n - 1 \notin Bad /\ n \in 1 .. N /\ n \in 0 .. N
    BY <1>1, <2>3, <2>4
  <2>6. c[n] = TakeMember(c[n - 1], root, n - 1)
    BY <1>7, <2>4, <2>5
  <2> QED BY <1>1, <1>3, <2>3, <2>5, <2>6
<1>9. Dead(c[N], root)
  BY <1>1, <1>2, <1>8
<1>10. TakeTree(t, root) = c[N]
  BY DEF TakeTree, c, N
<1> QED BY <1>9, <1>10 DEF Dead

LEMMA CollectAtGood ==
  ASSUME NEW t, Good(t), NEW i \in Slots
  PROVE  Good(CollectAt(t, i))
<1>1. CASE i \in EndedRoots(t) /\ LiveIn(t, i) = {}
  <2>1. Parent(t, i) \notin Taken(t)
    BY <1>1, ConstantsAre DEF EndedRoots, Parent, Taken
  <2>2. Dead(t, i)
    BY <1>1, <2>1 DEF Dead, LiveIn
  <2> QED BY <1>1, <2>2, TakeTreeGood DEF CollectAt
<1>2. CASE ~(i \in EndedRoots(t) /\ LiveIn(t, i) = {})
  BY <1>2 DEF CollectAt
<1> QED BY <1>1, <1>2

LEMMA CollectedGood ==
  ASSUME NEW t, Good(t)
  PROVE  Good(Collected(t))
<1> DEFINE N == Cardinality(Slots)
           T == {s \in Tables : Good(s)}
           F == [v \in T \X Nat |-> IF v[2] \in Slots THEN CollectAt(v[1], v[2]) ELSE v[1]]
           Is(x) == x = [n \in 0 .. N |-> IF n = 0 THEN t ELSE CollectAt(x[n - 1], n - 1)]
           c == CHOOSE x : Is(x)
<1>1. N \in Nat /\ \A n \in 1 .. N : n - 1 \in Slots /\ n - 1 \in 0 .. N /\ n - 1 \in Nat
  <2> DEFINE M == N
  <2>1. M \in Nat /\ Slots = 0 .. M - 1
    BY ConstantsAre
  <2> HIDE DEF M
  <2>2. M \in Nat /\ \A n \in 1 .. M : n - 1 \in Slots /\ n - 1 \in 0 .. M /\ n - 1 \in Nat
    BY <2>1
  <2> QED BY <2>2 DEF M
<1> HIDE DEF N
<1>2. \A s : s \in T <=> Good(s)
  BY GoodIs
<1>3. \A s \in T : \A i \in Slots : CollectAt(s, i) \in T
  BY <1>2, CollectAtGood
<1> HIDE DEF T
<1>4. F \in [T \X Nat -> T] /\ t \in T
  BY <1>2, <1>3
<1>5. PICK x : Repeats(T, F, t, N, x)
  <2> HIDE DEF F
  <2> QED BY <1>1, <1>4, IterationExists
<1>6. Is(x)
  <2>1. ASSUME NEW n \in 0 .. N PROVE x[n] = IF n = 0 THEN t ELSE CollectAt(x[n - 1], n - 1)
    <3>1. CASE n = 0
      BY <1>5, <3>1 DEF Repeats
    <3>2. CASE n # 0
      <4>1. n \in 1 .. N
        BY <1>1, <3>2
      <4>2. n - 1 \in Slots /\ n - 1 \in 0 .. N /\ n - 1 \in Nat
        BY <1>1, <4>1
      <4>3. x[n - 1] \in T /\ x[n] = F[<<x[n - 1], n - 1>>]
        BY <1>5, <4>1, <4>2 DEF Repeats
      <4> QED BY <3>2, <4>2, <4>3
    <3> QED BY <3>1, <3>2
  <2>2. x \in [0 .. N -> T]
    BY <1>5 DEF Repeats
  <2> QED BY <2>1, <2>2
<1> HIDE DEF F
<1>7. Is(c)
  BY <1>6
<1> HIDE DEF c
<1>8. \A n \in 0 .. N : c[n] \in T
  <2> DEFINE Bad == {n \in 0 .. N : c[n] \notin T}
  <2>1. SUFFICES ASSUME Bad # {} PROVE FALSE
    OBVIOUS
  <2>2. Bad \subseteq Nat
    BY <1>1
  <2>3. PICK n \in Bad : \A m \in Bad : n <= m
    BY <2>1, <2>2, LeastMember
  <2>4. n # 0
    BY <1>4, <1>7, <2>3
  <2>5. n - 1 \in 0 .. N /\ n - 1 \notin Bad /\ n \in 1 .. N /\ n \in 0 .. N
    BY <1>1, <2>3, <2>4
  <2>6. c[n] = CollectAt(c[n - 1], n - 1)
    BY <1>7, <2>4, <2>5
  <2> QED BY <1>1, <1>3, <2>3, <2>5, <2>6
<1>9. Good(c[N])
  BY <1>1, <1>2, <1>8
<1>10. Collected(t) = c[N]
  BY DEF Collected, c, N
<1> QED BY <1>9, <1>10

\* A run that is stopped leaves every frame and every pipe behind.
LEMMA StoppedGood ==
  ASSUME NEW t, Good(t)
  PROVE  Good(StoppedAll(t)) /\ Good(Emptied(StoppedAll(t)))
<1> DEFINE u == StoppedAll(t)
           s == Emptied(u)
<1>1. Good(u) /\ Live(u) = {}
  <2>1. Live(t) \in SUBSET Live(t)
    OBVIOUS
  <2> QED BY <2>1, FinishGood DEF StoppedAll
<1> HIDE DEF u
<1>2. s \in Tables /\ s.processes = [i \in Slots |-> Unused]
      /\ s.pipes = u.pipes /\ s.pool = u.pool /\ s.lost = u.lost
  <2> DEFINE A == [i \in Slots |-> Unused]
  <2>1. A \in [Slots -> {Unused} \cup ProcessRecords]
    OBVIOUS
  <2>2. s = [u EXCEPT !.processes = A]
    BY DEF Emptied
  <2> HIDE DEF A, s
  <2>3. s \in Tables /\ s.processes = A /\ s.pipes = u.pipes /\ s.pool = u.pool /\ s.lost = u.lost
    BY <1>1, <2>1, <2>2, GoodIs DEF Tables
  <2> QED BY <2>3 DEF A
<1> HIDE DEF s
<1>3. Taken(s) = {} /\ Live(s) = {}
  BY <1>2 DEF Taken, Live
<1>4. \A i \in Slots : HeldBy(s, i) = HeldBy(u, i)
  BY <1>1, <1>3 DEF HeldBy
<1>5. OwnedOnce(s)
  BY <1>1, <1>2, <1>4, OwnedKept DEF Good
<1>6. \A i \in Slots : \A d \in Descriptors : At(s, i, d) = At(u, i, d)
  BY <1>1, <1>3 DEF At, Good, EndedHoldNothing
<1>7. \A kind, p : Naming(s, kind, p) = Naming(u, kind, p)
  BY <1>6, NamingKept
<1>8. Counted(s)
  BY <1>1, <1>2, <1>7 DEF Counted, Good
<1>9. EndedHoldNothing(s)
  BY <1>3 DEF EndedHoldNothing
<1>10. Good(s)
  BY <1>2, <1>5, <1>8, <1>9 DEF Good
<1> QED BY <1>1, <1>10 DEF s, u

-----------------------------------------------------------------------------
\* The invariant.

LEMMA ProcInvInit == ProcInit => ProcInv
<1> SUFFICES ASSUME ProcInit PROVE ProcInv
  OBVIOUS
<1> DEFINE A == [i \in Slots |-> Unused]
           P == [p \in Pipes |-> EmptyPipe]
<1>1. /\ table.processes = A /\ table.pipes = P /\ table.pool = Frames /\ table.lost = {}
      /\ table = [processes |-> A, pipes |-> P, pool |-> Frames, started |-> 0, lost |-> {}]
  BY DEF ProcInit
<1>2. EmptyPipe \in PipeStates
  BY ProcessesConstants DEF EmptyPipe, PipeStates
<1>3. table \in Tables
  <2>1. A \in [Slots -> {Unused} \cup ProcessRecords] /\ P \in [Pipes -> PipeStates]
    BY <1>2
  <2>2. 0 \in 0 .. MaxStarted
    BY ProcessesConstants
  <2> HIDE DEF A, P
  <2> QED BY <1>1, <2>1, <2>2 DEF Tables
<1>4. Taken(table) = {} /\ Live(table) = {}
  BY <1>1 DEF Taken, Live
<1>5. OwnedOnce(table)
  BY <1>1, <1>4 DEF OwnedOnce, HeldBy
<1>6. ASSUME NEW p \in Pipes
      PROVE  PipeGood(table.pipes[p], Naming(table, "read", p), Naming(table, "write", p))
  <2>1. \A j \in Slots : \A e \in Descriptors : At(table, j, e) = Free
    BY <1>4 DEF At
  <2>2. Free # End("read", p) /\ Free # End("write", p)
    BY ValuesAre
  <2>3. Naming(table, "read", p) = {} /\ Naming(table, "write", p) = {}
    BY <2>1, <2>2 DEF Naming
  <2>4. PipeGood(EmptyPipe, {}, {})
    BY <1>2, FS_EmptySet DEF PipeGood, EmptyPipe
  <2> QED BY <1>1, <2>3, <2>4
<1>7. EndedHoldNothing(table)
  BY <1>4 DEF EndedHoldNothing
<1>8. Good(table)
  BY <1>3, <1>5, <1>6, <1>7 DEF Good, Counted
<1> QED BY <1>8 DEF ProcInv, ProcInit

\* The pass goes on to the next who is alive, or is over.
LEMMA NextIs ==
  ASSUME NEW t, NEW i \in Int
  PROVE  /\ NextLive(t, i) \in Slots \cup {Cardinality(Slots)}
         /\ \A j \in Live(t) : j >= i => NextLive(t, i) <= j
<1> DEFINE S == {j \in Live(t) : j >= i} \cup {Cardinality(Slots)}
<1>1. S \in SUBSET Nat /\ S # {} /\ S \subseteq Slots \cup {Cardinality(Slots)}
  BY ConstantsAre DEF Live, Taken
<1> HIDE DEF S
<1>2. Min(S) \in S /\ \A n \in S : Min(S) <= n
  BY <1>1, LeastOf
<1> QED BY <1>1, <1>2 DEF NextLive, S

\* A good table, and a pass in which something moved, waits, or nobody could be
\* answered up to here.
LEMMA ServedInv ==
  ASSUME ProcInv, pass.at \in Live(table), NEW t, Good(t), NEW progressed \in BOOLEAN,
         NEW outside \in BOOLEAN, Served(t, progressed, outside),
         progressed \/ outside \/
           /\ t = table
           /\ table.processes[pass.at].state.is \in {"waiting", "reading", "writing"}
           /\ ~Retry(table, pass.at).done
  PROVE  ProcInv'
<1>1. pass.at \in Slots /\ pass.at \in Nat /\ Passed /\ Good(table)
  <2>1. Good(table)
    BY DEF ProcInv
  <2>2. pass.at \in Slots /\ pass.at \in Nat
    BY <2>1, GoodIs, ConstantsAre
  <2>3. pass # HostTurn /\ pass # Hung
    BY <2>2 DEF HostTurn, Hung, None
  <2> QED BY <2>1, <2>2, <2>3 DEF ProcInv
<1> DEFINE next == NextLive(t, pass.at + 1)
<1>2. table' = t /\ pass' = [at |-> next, progressed |-> pass.progressed \/ progressed,
                             outside |-> pass.outside \/ outside]
  BY DEF Served
<1>3. next \in Slots \cup {Cardinality(Slots)} /\ \A j \in Live(t) : j >= pass.at + 1 => next <= j
  BY <1>1, NextIs
<1> HIDE DEF next
<1>4. pass.progressed \in BOOLEAN /\ pass.outside \in BOOLEAN
  BY <1>1 DEF Passed
<1>5. pass' \in [at : Slots \cup {Cardinality(Slots)}, progressed : BOOLEAN, outside : BOOLEAN]
  BY <1>2, <1>3, <1>4
<1>6. pass'.at = next /\ (pass'.progressed <=> pass.progressed \/ progressed)
      /\ (pass'.outside <=> pass.outside \/ outside)
  BY <1>2
<1>7. ASSUME ~pass'.progressed, ~pass'.outside, NEW i \in Live(table'), i < pass'.at
      PROVE  /\ table'.processes[i].state.is \in {"waiting", "reading", "writing"}
             /\ ~Retry(table', i).done
  <2>1. /\ ~pass.progressed /\ ~pass.outside /\ t = table
        /\ table.processes[pass.at].state.is \in {"waiting", "reading", "writing"}
        /\ ~Retry(table, pass.at).done
    BY <1>6, <1>7
  <2>2. i \in Live(table) /\ i \in Nat /\ i < next
    BY <1>1, <1>2, <1>6, <1>7, <2>1, GoodIs, ConstantsAre
  <2>3. CASE i = pass.at
    BY <1>2, <2>1, <2>3
  <2>4. CASE i < pass.at
    BY <1>1, <1>2, <2>1, <2>2, <2>4 DEF Passed
  <2>5. CASE i > pass.at
    <3>1. i >= pass.at + 1
      BY <1>1, <2>2, <2>5
    <3>2. next <= i /\ next \in Nat
      BY <1>3, <2>1, <2>2, <3>1, ConstantsAre
    <3> QED BY <2>2, <3>2
  <2> QED BY <1>1, <2>2, <2>3, <2>4, <2>5
<1>8. Passed'
  BY <1>5, <1>7 DEF Passed
<1> QED BY <1>2, <1>8 DEF ProcInv

LEMMA CollectInv ==
  ASSUME NEW t, Good(t), NEW after, Good(after), Collect(t, after)
  PROVE  ProcInv'
<1>1. Good(table') /\ pass' \in {HostTurn, Hung}
  BY DEF Collect
<1> QED BY <1>1 DEF ProcInv

\* A root is started, or its load fails.
LEMMA StartInv ==
  ASSUME ProcInv, Start
  PROVE  ProcInv'
<1>1. Good(table) /\ pass' = HostTurn
  BY DEF ProcInv, Start
<1> DEFINE f == NextFrame(table)
           k == Min(Slots \ Taken(table))
           N(frames) == NewProcess(None, [d \in Descriptors |-> Free], frames)
<1>2. PICK load \in Load(table) :
        table' = IF load.ok
                 THEN [load.table EXCEPT !.started = @ + 1, !.processes[k] = N(load.frames)]
                 ELSE load.table
  BY DEF Start
<1>3. table.started < MaxStarted /\ Taken(table) # Slots
  BY DEF Start
<1>4. CASE load.ok
  <2>1. f \in table.pool /\ load.table = [table EXCEPT !.pool = @ \ {f}] /\ load.frames = {f}
    BY <1>1, <1>4, LoadIs
  <2>2. table' = [[table EXCEPT !.pool = @ \ {f}] EXCEPT !.started = @ + 1,
                                                         !.processes[k] = N({f})]
    BY <1>2, <1>4, <2>1
  <2> HIDE DEF f
  <2>3. Good([[table EXCEPT !.pool = @ \ {f}] EXCEPT !.started = @ + 1,
                                                     !.processes[k] = N({f})])
    BY <1>1, <1>3, <2>1, StartedGood
  <2>4. Good(table')
    BY <2>2, <2>3
  <2> QED BY <1>1, <2>4 DEF ProcInv, HostTurn
<1>5. CASE ~load.ok
  <2>1. Good(load.table)
    BY <1>1, <1>5, LoadIs
  <2>2. Good(table')
    BY <1>2, <1>5, <2>1
  <2> QED BY <1>1, <2>2 DEF ProcInv, HostTurn
<1> QED BY <1>4, <1>5

LEMMA StartPassInv ==
  ASSUME ProcInv, StartPass
  PROVE  ProcInv'
<1> DEFINE next == NextLive(table, 0)
<1>1. Good(table) /\ table' = table
      /\ pass' = [at |-> next, progressed |-> FALSE, outside |-> FALSE]
  BY DEF ProcInv, StartPass
<1>2. next \in Slots \cup {Cardinality(Slots)} /\ \A j \in Live(table) : j >= 0 => next <= j
  BY NextIs
<1> HIDE DEF next
<1>3. pass' \in [at : Slots \cup {Cardinality(Slots)}, progressed : BOOLEAN, outside : BOOLEAN]
      /\ pass'.at = next
  BY <1>1, <1>2
<1>4. \A i \in Live(table') : ~(i < pass'.at)
  <2>1. next \in Nat /\ \A i \in Live(table) : i \in Nat
    BY <1>1, <1>2, GoodIs, ConstantsAre
  <2> QED BY <1>1, <1>2, <1>3, <2>1
<1>5. Passed'
  BY <1>3, <1>4 DEF Passed
<1> QED BY <1>1, <1>5 DEF ProcInv

LEMMA RetryBlockedInv ==
  ASSUME ProcInv, RetryBlocked
  PROVE  ProcInv'
<1> DEFINE i == pass.at
           o == Retry(table, i)
           s == [o.table EXCEPT !.processes[i].state = Runnable]
<1>1. Good(table) /\ i \in Live(table)
      /\ table.processes[i].state.is \in {"waiting", "reading", "writing"}
  BY DEF ProcInv, RetryBlocked
<1>2. CASE o.done
  <2>1. Served(s, TRUE, FALSE)
    BY <1>2 DEF RetryBlocked
  <2> HIDE DEF i
  <2>2. Good(o.table) /\ i \in Live(o.table)
    BY <1>1, RetryGood
  <2> HIDE DEF o
  <2>3. Runnable \in States \ {Ended}
    BY WaitingIs
  <2>4. Good(s)
    BY <2>2, <2>3, StateChanges
  <2> HIDE DEF s
  <2> QED BY <1>1, <2>1, <2>4, ServedInv DEF i
<1>3. CASE ~o.done
  <2>1. Served(table, FALSE, FALSE)
    BY <1>3 DEF RetryBlocked
  <2> QED BY <1>1, <1>3, <2>1, ServedInv
<1> QED BY <1>2, <1>3

LEMMA AskOutsideInv ==
  ASSUME ProcInv, AskOutside
  PROVE  ProcInv'
<1> DEFINE i == pass.at
           s == [table EXCEPT !.processes[i].state = Runnable]
<1>1. Good(table) /\ i \in Live(table)
  BY DEF ProcInv, AskOutside
<1>2. CASE Served(s, TRUE, FALSE)
  <2> HIDE DEF i
  <2>1. Runnable \in States \ {Ended}
    BY WaitingIs
  <2>2. Good(s)
    BY <1>1, <2>1, StateChanges
  <2> HIDE DEF s
  <2> QED BY <1>1, <1>2, <2>2, ServedInv DEF i
<1>3. CASE Served(table, FALSE, TRUE)
  BY <1>1, <1>3, ServedInv
<1> QED BY <1>2, <1>3 DEF AskOutside

LEMMA ProcInvNext == ProcInv /\ [ProcNext]_procVars => ProcInv'
<1> SUFFICES ASSUME ProcInv, [ProcNext]_procVars PROVE ProcInv'
  OBVIOUS
<1>1. Good(table)
  BY DEF ProcInv
<1>2. CASE Start
  BY <1>2, StartInv
<1>3. CASE StartPass
  BY <1>3, StartPassInv
<1>4. CASE Step
  <2>1. pass.at \in Live(table)
    BY <1>4 DEF Step
  <2>2. PICK t \in Entry(table, pass.at) : Served(t, TRUE, FALSE)
    BY <1>4 DEF Step
  <2>3. Good(t)
    BY <1>1, <2>1, EntryGood
  <2> QED BY <2>1, <2>2, <2>3, ServedInv
<1>5. CASE RetryBlocked
  BY <1>5, RetryBlockedInv
<1>6. CASE AskOutside
  BY <1>6, AskOutsideInv
<1>7. CASE EndPass
  <2>1. CASE table' = table /\ pass' = HostTurn
    BY <1>1, <2>1 DEF ProcInv
  <2>2. CASE Collect(table, Collected(table))
    <3>1. Good(Collected(table))
      BY <1>1, CollectedGood
    <3> QED BY <1>1, <2>2, <3>1, CollectInv
  <2> QED BY <1>7, <2>1, <2>2 DEF EndPass
<1>8. CASE EndRun \/ Abandon
  <2>1. Collect(StoppedAll(table), Emptied(StoppedAll(table)))
    BY <1>8 DEF EndRun, Abandon
  <2>2. Good(StoppedAll(table)) /\ Good(Emptied(StoppedAll(table)))
    BY <1>1, StoppedGood
  <2> QED BY <2>1, <2>2, CollectInv
<1>9. CASE UNCHANGED procVars
  <2>1. table' = table /\ pass' = pass
    BY <1>9 DEF procVars
  <2> QED BY <2>1 DEF ProcInv, Passed
<1> QED BY <1>2, <1>3, <1>4, <1>5, <1>6, <1>7, <1>8, <1>9 DEF ProcNext

-----------------------------------------------------------------------------
\* The theorems.

(* Every table the supervisor reaches is good, and while nothing moves in a *)
(* pass, whoever it has passed cannot be answered.                          *)
THEOREM ProcessesInvariant == ProcSpec => []ProcInv
<1>1. ProcInit => ProcInv
  BY ProcInvInit
<1>2. ProcInv /\ [ProcNext]_procVars => ProcInv'
  BY ProcInvNext
<1> QED BY <1>1, <1>2, PTL DEF ProcSpec

(* A frame is in the pool, or with one live process, or lost to a load that *)
(* failed, and never in two places, through every load, brk, end, kill,     *)
(* collection and stop (spawn, end, Memory::reclaim).                       *)
THEOREM FramesOwned == ProcSpec => []FramesOwnedOnce
<1>1. ProcInv => FramesOwnedOnce
  <2> SUFFICES ASSUME ProcInv PROVE FramesOwnedOnce
    OBVIOUS
  <2> DEFINE held == [i \in Live(table) |-> table.processes[i].frames]
  <2>1. Good(table) /\ OwnedOnce(table)
    BY DEF ProcInv, Good
  <2>2. \A i \in Live(table) : held[i] = HeldBy(table, i) /\ held[i] \subseteq Frames /\ i \in Slots
    BY <2>1, GoodIs DEF HeldBy
  <2>3. \A i \in Slots : i \notin Live(table) => HeldBy(table, i) = {}
    BY DEF HeldBy
  <2> HIDE DEF held
  <2>4. \A i, j \in Live(table) : i # j => held[i] \cap held[j] = {}
    BY <2>1, <2>2 DEF OwnedOnce
  <2>5. table.pool \cup table.lost \cup UNION {held[i] : i \in Live(table)} = Frames
    <3>1. ASSUME NEW f \in Frames
          PROVE  f \in table.pool \cup table.lost \cup UNION {held[i] : i \in Live(table)}
      BY <2>1, <2>2, <2>3 DEF OwnedOnce
    <3>2. table.pool \subseteq Frames /\ table.lost \subseteq Frames
      BY <2>1, GoodIs
    <3>3. UNION {held[i] : i \in Live(table)} \subseteq Frames
      BY <2>2
    <3> QED BY <3>1, <3>2, <3>3
  <2>6. \A i \in Live(table) : held[i] \cap (table.pool \cup table.lost) = {}
    BY <2>1, <2>2 DEF OwnedOnce
  <2>7. table.pool \cap table.lost = {}
    BY <2>1, GoodIs DEF OwnedOnce
  <2> QED BY <2>4, <2>5, <2>6, <2>7 DEF FramesOwnedOnce, held
<1> QED BY <1>1, ProcessesInvariant, PTL

(* The counts of a pipe are the descriptors that name its ends, through     *)
(* every pipe, spawn, close, kill, end and stop, and an end of file that    *)
(* was told stays true while somebody names the pipe (struct Pipe,          *)
(* pipe_read).                                                              *)
THEOREM PipesExact == ProcSpec => []PipesAreExact
<1>1. ProcInv => PipesAreExact
  <2> SUFFICES ASSUME ProcInv PROVE PipesAreExact
    OBVIOUS
  <2>1. Good(table) /\ Counted(table)
    BY DEF ProcInv, Good
  <2>2. ProcTypeOK
    BY <2>1, GoodIs DEF ProcTypeOK, PipeStates
  <2>3. ASSUME NEW p \in Pipes
        PROVE  PipeGood(table.pipes[p], Naming(table, "read", p), Naming(table, "write", p))
    BY <2>1 DEF Counted
  <2> DEFINE naming(kind, p) ==
               {x \in Taken(table) \X Descriptors :
                  table.processes[x[1]].descriptors[x[2]] = End(kind, p)}
  <2>4. ASSUME NEW kind, NEW p \in Pipes
        PROVE  naming(kind, p) = Naming(table, kind, p)
    <3>1. Free # End(kind, p)
      BY ValuesAre
    <3>2. Taken(table) \subseteq Slots
      BY <2>1, GoodIs
    <3> QED BY <3>1, <3>2 DEF Naming, At
  <2>5. PipeCounts
    <3> HIDE DEF naming
    <3>1. ASSUME NEW p \in Pipes
          PROVE  /\ table.pipes[p].readers = Cardinality(naming("read", p))
                 /\ table.pipes[p].writers = Cardinality(naming("write", p))
                 /\ table.pipes[p].used <=> naming("read", p) \cup naming("write", p) # {}
      BY <2>3, <2>4 DEF PipeGood
    <3> QED BY <3>1, Zenon DEF PipeCounts, naming
  <2>6. EndOfFileIsFinal
    BY <2>3 DEF EndOfFileIsFinal, PipeGood
  <2> QED BY <2>2, <2>5, <2>6 DEF PipesAreExact
<1> QED BY <1>1, ProcessesInvariant, PTL

(* A run is stopped as blocked only when every live process waits for a     *)
(* child or a pipe and none of them could be answered (step_run, stop_all). *)
THEOREM StoppedStuck == ProcSpec => []StoppedOnlyStuck
<1>1. ProcInv => StoppedOnlyStuck
  <2> SUFFICES ASSUME ProcInv, Deadlocked, NEW i \in Live(table)
               PROVE  /\ table.processes[i].state.is \in {"waiting", "reading", "writing"}
                      /\ ~Retry(table, i).done
    BY DEF StoppedOnlyStuck
  <2>1. pass.at = Cardinality(Slots) /\ ~pass.progressed /\ ~pass.outside
    BY DEF Deadlocked, PassOver
  <2>2. pass # HostTurn /\ pass # Hung
    BY <2>1, ConstantsAre DEF HostTurn, Hung, None
  <2>3. Passed /\ Good(table)
    BY <2>2 DEF ProcInv
  <2>4. i < pass.at
    <3>1. i \in Slots
      BY <2>3, GoodIs
    <3> DEFINE M == Cardinality(Slots)
    <3>2. M \in Nat /\ Slots = 0 .. M - 1 /\ pass.at = M
      BY <2>1, ConstantsAre
    <3> HIDE DEF M
    <3> QED BY <3>1, <3>2
  <2> QED BY <2>1, <2>3, <2>4 DEF Passed
<1> QED BY <1>1, ProcessesInvariant, PTL
=============================================================================
