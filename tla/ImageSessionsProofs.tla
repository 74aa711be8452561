------------------------- MODULE ImageSessionsProofs -------------------------
(***************************************************************************)
(* Proofs about the sessions over one world image, for every number of     *)
(* sessions, requests and entries: the files implement one append-only     *)
(* log, a model request is paid for at most once and its claim is in every *)
(* directory a power failure may leave, after the verdict that allowed it  *)
(* where a gate in the world gave one.                                     *)
(***************************************************************************)
EXTENDS ImageSessions, SequenceTheorems, TLAPS

Logs     == Seq(Entries)
Verdicts == {"allow", "deny"}
Writing  == Saving \ {"check"}

Thens == {Stop} \cup [next : {"claim", "launch", "answer"}, r : Requests, v : Verdicts]

ReadySessions  == [pc : {"ready"}, log : Logs, saved : Logs, gate : Gates]
ActingSessions == [pc : {"claim", "launch", "answer"}, log : Logs, saved : Logs,
                   gate : Gates, r : Requests, v : Verdicts]
SavingSessions == [pc : Saving, log : Logs, saved : Logs, gate : Gates, then : Thens]
SessionStates  == {Down} \cup ReadySessions \cup ActingSessions \cup SavingSessions

Directories == [primary : Logs, previous : Logs]

SessionsTyped ==
  /\ disk \in past /\ past \subseteq Directories
  /\ sessions \in [Sessions -> SessionStates]
  /\ acknowledged \in Logs
  /\ launches \in [Requests -> Nat]

\* Every directory that a power failure may leave holds what was acknowledged, and
\* nothing that the files do not extend.
PastExtended ==
  \A d \in past : /\ IsPrefix(acknowledged, Loadable(d))
                  /\ IsPrefix(Loadable(d), Loadable(disk))

\* Until a session has installed its log, the files hold the log it grew from.
InOrder(s) ==
  /\ s # Down => IsPrefix(s.saved, s.log)
  /\ s.pc \in Saving => Len(s.saved) < Len(s.log)
  /\ s.pc \in Writing => IsPrefix(acknowledged, s.saved)
  /\ s.pc \in Writing \ {"sync"} => Loadable(disk) = s.saved
  /\ s.pc \in {"remove", "rotate"} => disk.primary # Absent
  /\ s.pc = "install" => disk.primary = Absent
  /\ s.pc = "sync" => disk.primary = s.log

\* One session writes at a time.
OneWriter ==
  /\ \A p, q \in Sessions :
       sessions[p].pc \in Writing /\ sessions[q].pc \in Writing => p = q
  /\ \A p \in Sessions : InOrder(sessions[p])

Holds(log, e) == \E i \in 1 .. Len(log) : log[i] = e

\* The log allowed the request before it claimed it.
Audited(log, r) ==
  \E i, j \in 1 .. Len(log) : i < j /\ log[i] = Judged(r, "allow") /\ log[j] = Claim(r)

\* What the log says of a request that a session with that gate launches.
Recorded(log, r, gate) ==
  Holds(log, Claim(r)) /\ (gate = "world" => Audited(log, r))

\* The claim is the last entry, and there is no other.
JustClaimed(log, r, gate) ==
  Recorded(log, r, gate) /\ \A i \in 1 .. Len(log) : log[i] = Claim(r) => i = Len(log)

ToClaim(log, r, v, gate) ==
  (gate = "world" => Holds(log, Judged(r, v))) /\ ~Holds(log, Claim(r))

\* What a session is about to do with a request is what its log says of it.
Backed(s) ==
  /\ s.pc = "claim" => ToClaim(s.log, s.r, s.v, s.gate)
  /\ s.pc \in Saving =>
       /\ s.then.next = "claim" => ToClaim(s.log, s.then.r, s.then.v, s.gate)
       /\ s.then.next = "launch" => JustClaimed(s.log, s.then.r, s.gate)
  /\ s.pc = "launch" => Recorded(s.log, s.r, s.gate) /\ IsPrefix(s.log, acknowledged)

ClaimsLogged == \A p \in Sessions : Backed(sessions[p])

\* A request is launched by the session whose claim was acknowledged, once.
LaunchesPaid ==
  /\ \A r \in Requests :
       /\ launches[r] <= 1
       /\ launches[r] > 0 => Holds(acknowledged, Claim(r))
       /\ r \in vetted => Audited(acknowledged, r)
  /\ \A p \in Sessions : sessions[p].pc = "launch" =>
       /\ launches[sessions[p].r] = 0
       /\ \A q \in Sessions :
            sessions[q].pc = "launch" /\ sessions[q].r = sessions[p].r => p = q

SessionsInv ==
  SessionsTyped /\ PastExtended /\ OneWriter /\ ClaimsLogged /\ LaunchesPaid

-----------------------------------------------------------------------------
(* Prefixes.                                                               *)

LEMMA PrefixPointwise ==
  ASSUME NEW s \in Logs, NEW t \in Logs
  PROVE  IsPrefix(s, t) <=> Len(s) <= Len(t) /\ \A i \in 1 .. Len(s) : s[i] = t[i]
<1>1. Len(s) \in Nat /\ Len(t) \in Nat
  BY LenProperties DEF Logs
<1>2. SubSeq(s, 1, Len(s)) = s
  BY SubSeqFull DEF Logs
<1>3. ASSUME Len(s) <= Len(t)
      PROVE  SubSeq(t, 1, Len(s)) = s <=> \A i \in 1 .. Len(s) : s[i] = t[i]
  <2> DEFINE u == SubSeq(t, 1, Len(s))
  <2>1. \A i \in 1 .. Len(s) : t[i] \in Entries
    BY <1>1, <1>3, ElementOfSeq DEF Logs
  <2>2. u \in Logs /\ Len(u) = Len(s) /\ \A i \in 1 .. Len(s) : u[i] = t[i]
    BY <1>1, <1>3, <2>1, SubSeqProperties DEF Logs
  <2> HIDE DEF u
  <2>3. u = s <=> \A i \in 1 .. Len(s) : u[i] = s[i]
    BY <1>1, <2>2, SeqEqual DEF Logs
  <2> QED
    BY <2>2, <2>3 DEF u
<1> QED
  BY <1>2, <1>3 DEF IsPrefix

LEMMA LogLength == \A s \in Logs : Len(s) \in Nat /\ \A i \in 1 .. Len(s) : s[i] \in Entries
BY LenProperties, ElementOfSeq DEF Logs

LEMMA PrefixReflexive ==
  ASSUME NEW s \in Logs PROVE IsPrefix(s, s)
BY PrefixPointwise, LogLength

LEMMA PrefixTransitive ==
  ASSUME NEW s \in Logs, NEW t \in Logs, NEW u \in Logs, IsPrefix(s, t), IsPrefix(t, u)
  PROVE  IsPrefix(s, u)
BY PrefixPointwise, LogLength

LEMMA EmptyPrefix ==
  ASSUME NEW s \in Logs
  PROVE  <<>> \in Logs /\ Len(<<>>) = 0 /\ IsPrefix(<<>>, s)
<1>1. <<>> \in Logs /\ Len(<<>>) = 0
  BY EmptySeq DEF Logs
<1> QED
  BY <1>1, PrefixPointwise, LogLength

LEMMA Appended ==
  ASSUME NEW s \in Logs, NEW e \in Entries
  PROVE  LET t == Append(s, e)
         IN  /\ t \in Logs /\ Len(t) = Len(s) + 1 /\ IsPrefix(s, t)
             /\ t[Len(s) + 1] = e /\ \A i \in 1 .. Len(s) : t[i] = s[i]
<1> DEFINE t == Append(s, e)
<1>1. t \in Logs /\ Len(t) = Len(s) + 1 /\ t[Len(s) + 1] = e /\ \A i \in 1 .. Len(s) : t[i] = s[i]
  BY AppendProperties DEF Logs
<1> HIDE DEF t
<1>2. IsPrefix(s, t)
  BY <1>1, PrefixPointwise, LogLength
<1> QED
  BY <1>1, <1>2 DEF t

\* What a log says, its extensions say.
LEMMA AuditExtends ==
  ASSUME NEW s \in Logs, NEW t \in Logs, IsPrefix(s, t), NEW r \in Requests
  PROVE  /\ \A e \in Entries : Holds(s, e) => Holds(t, e)
         /\ Holds(s, Claim(r)) => Holds(t, Claim(r))
         /\ Audited(s, r) => Audited(t, r)
         /\ \A gate \in Gates : Recorded(s, r, gate) => Recorded(t, r, gate)
<1>1. Len(s) \in Nat /\ Len(t) \in Nat /\ Len(s) <= Len(t) /\ \A i \in 1 .. Len(s) : s[i] = t[i]
  BY PrefixPointwise, LogLength
<1>2. /\ \A e \in Entries : Holds(s, e) => Holds(t, e)
      /\ Holds(s, Claim(r)) => Holds(t, Claim(r))
      /\ Audited(s, r) => Audited(t, r)
  BY <1>1 DEF Holds, Audited
<1> QED
  BY <1>2 DEF Recorded

LEMMA EntriesOfRequests ==
  ASSUME NEW r \in Requests
  PROVE  /\ Ask(r) \in Entries /\ Claim(r) \in Entries /\ Complete(r) \in Entries
         /\ \A v \in {"allow", "deny", "unclear"} : Judged(r, v) \in Entries
         /\ \A v \in {"allow", "deny", "unclear"}, q \in Requests : Judged(r, v) # Claim(q)
BY DEF Ask, Claim, Complete, Judged, Entries

-----------------------------------------------------------------------------
(* What each step leaves of a session.                                     *)

LEMMA KindOfSession ==
  ASSUME NEW s \in SessionStates
  PROVE  /\ s.pc = "ready" => s \in ReadySessions
         /\ s.pc \in {"claim", "launch", "answer"} => s \in ActingSessions
         /\ s.pc \in Saving => s \in SavingSessions
         /\ s # Down => s.log \in Logs /\ s.saved \in Logs /\ s.gate \in Gates /\ s.pc # "down"
         /\ s = Down => s.pc = "down"
BY DEF SessionStates, ReadySessions, ActingSessions, SavingSessions, Down, Saving

\* Session p becomes t; the others stay.
Becomes(p, t) == sessions' = [sessions EXCEPT ![p] = t]

LEMMA OthersStay ==
  ASSUME SessionsTyped, NEW p \in Sessions, NEW t \in SessionStates, Becomes(p, t)
  PROVE  /\ sessions' \in [Sessions -> SessionStates]
         /\ sessions'[p] = t
         /\ \A q \in Sessions : q # p => sessions'[q] = sessions[q]
BY DEF SessionsTyped, Becomes

LEMMA LoadableLog ==
  ASSUME NEW d \in Directories
  PROVE  Loadable(d) \in Logs /\ d.primary \in Logs /\ d.previous \in Logs
BY DEF Directories, Loadable

LEMMA OpenStep ==
  ASSUME SessionsTyped, NEW p \in Sessions, NEW gate \in Gates, Open(p, gate)
  PROVE  \E t \in ReadySessions : Becomes(p, t) /\ t.log = Loadable(disk) /\ t.saved = Loadable(disk)
<1> DEFINE t == [pc |-> "ready", log |-> Loadable(disk), saved |-> Loadable(disk), gate |-> gate]
<1>1. Loadable(disk) \in Logs
  BY LoadableLog DEF SessionsTyped
<1>2. t \in ReadySessions /\ t.log = Loadable(disk) /\ t.saved = Loadable(disk)
  BY <1>1 DEF ReadySessions
<1>3. Becomes(p, t)
  BY DEF Open, Becomes, CurrentRoot
<1> QED
  BY <1>2, <1>3

LEMMA CommitStep ==
  ASSUME SessionsTyped, NEW p \in Sessions, NEW e \in Entries, NEW h \in Thens,
         sessions[p].pc \in {"ready", "claim", "answer"}, Commit(p, e, h)
  PROVE  \E t \in SavingSessions :
           /\ Becomes(p, t) /\ t.pc = "check" /\ t.log = Append(sessions[p].log, e)
           /\ t.saved = sessions[p].saved /\ t.gate = sessions[p].gate /\ t.then = h
<1> DEFINE s == sessions[p]
           t == [pc |-> "check", log |-> Append(s.log, e), saved |-> s.saved,
                 gate |-> s.gate, then |-> h]
<1>1. s \in SessionStates /\ s # Down
  BY DEF SessionsTyped, Down
<1>2. s.log \in Logs /\ s.saved \in Logs /\ s.gate \in Gates
  BY <1>1, KindOfSession
<1>3. Append(s.log, e) \in Logs
  BY <1>2, Appended
<1>4. Becomes(p, t)
  BY DEF Commit, Becomes
<1>5. t \in SavingSessions
  BY <1>2, <1>3 DEF SavingSessions, Saving
<1> QED
  BY <1>4, <1>5

LEMMA MoveStep ==
  ASSUME SessionsTyped, NEW p \in Sessions, sessions[p].pc \in Saving, NEW pc \in Saving, Moves(p, pc)
  PROVE  \E t \in SavingSessions :
           /\ Becomes(p, t) /\ t.pc = pc /\ t.log = sessions[p].log
           /\ t.saved = sessions[p].saved /\ t.gate = sessions[p].gate
           /\ t.then = sessions[p].then
<1> DEFINE s == sessions[p]
           t == [s EXCEPT !.pc = pc]
<1>1. s \in SavingSessions /\ sessions \in [Sessions -> SessionStates]
  BY KindOfSession DEF SessionsTyped
<1>2. Becomes(p, t)
  BY <1>1 DEF Moves, Becomes
<1>3. /\ t \in SavingSessions /\ t.pc = pc /\ t.log = s.log /\ t.saved = s.saved
      /\ t.gate = s.gate /\ t.then = s.then
  BY <1>1 DEF SavingSessions
<1> QED
  BY <1>2, <1>3

LEMMA RefusedStep ==
  ASSUME SessionsTyped, NEW p \in Sessions, sessions[p].pc \in Saving, Refused(p)
  PROVE  \E t \in ReadySessions :
           Becomes(p, t) /\ t.log = sessions[p].log /\ t.saved = sessions[p].saved
<1> DEFINE s == sessions[p]
           t == [pc |-> "ready", log |-> s.log, saved |-> s.saved, gate |-> s.gate]
<1>1. s \in SavingSessions
  BY KindOfSession DEF SessionsTyped
<1>2. t \in ReadySessions /\ Becomes(p, t)
  BY <1>1 DEF SavingSessions, ReadySessions, Refused, Becomes
<1> QED
  BY <1>2

LEMMA SyncStep ==
  ASSUME SessionsTyped, NEW p \in Sessions, SyncDirectory(p)
  PROVE  LET s == sessions[p] IN
         /\ s \in SavingSessions /\ s.pc = "sync"
         /\ \E t \in SessionStates :
              /\ Becomes(p, t) /\ t # Down
              /\ t.pc = s.then.next /\ t.log = s.log /\ t.saved = s.log
              /\ t.pc # "ready" => t.r = s.then.r /\ t.v = s.then.v /\ t.gate = s.gate
         /\ s.then.next \in {"ready", "claim", "launch", "answer"}
<1> DEFINE s == sessions[p]
<1>1. /\ s \in SavingSessions /\ s.pc = "sync" /\ s.then \in Thens /\ s.log \in Logs
      /\ s.gate \in Gates
  BY KindOfSession DEF SessionsTyped, SyncDirectory, Saving, SavingSessions
<1>2. CASE s.then = Stop
  <2> DEFINE t == [pc |-> "ready", log |-> s.log, saved |-> s.log, gate |-> s.gate]
  <2>1. Becomes(p, t) /\ t \in ReadySessions /\ s.then.next = "ready"
    BY <1>1, <1>2 DEF SyncDirectory, Becomes, ReadySessions, Stop
  <2>2. t \in SessionStates /\ t # Down
    BY <2>1 DEF SessionStates, Down
  <2> QED
    BY <1>1, <2>1, <2>2
<1>3. CASE s.then # Stop
  <2> DEFINE t == [pc |-> s.then.next, log |-> s.log, saved |-> s.log, gate |-> s.gate,
                    r |-> s.then.r, v |-> s.then.v]
  <2>1. s.then \in [next : {"claim", "launch", "answer"}, r : Requests, v : Verdicts]
    BY <1>1, <1>3 DEF Thens
  <2>2. Becomes(p, t) /\ t \in ActingSessions
    BY <1>1, <1>3, <2>1 DEF SyncDirectory, Becomes, ActingSessions
  <2>3. t \in SessionStates /\ t # Down /\ t.pc \in {"claim", "launch", "answer"}
    BY <2>1, <2>2 DEF SessionStates, Down
  <2> QED
    BY <1>1, <2>1, <2>2, <2>3
<1> QED
  BY <1>2, <1>3

LEMMA LaunchStep ==
  ASSUME SessionsTyped, NEW p \in Sessions, Launch(p)
  PROVE  /\ sessions[p] \in ActingSessions
         /\ \E t \in ActingSessions :
              /\ Becomes(p, t) /\ t.pc = "answer" /\ t.log = sessions[p].log
              /\ t.saved = sessions[p].saved
<1> DEFINE s == sessions[p]
           t == [s EXCEPT !.pc = "answer"]
<1>1. s \in ActingSessions /\ sessions \in [Sessions -> SessionStates]
  BY KindOfSession DEF SessionsTyped, Launch
<1>2. Becomes(p, t)
  BY <1>1 DEF Launch, Becomes
<1>3. t \in ActingSessions /\ t.pc = "answer" /\ t.log = s.log /\ t.saved = s.saved
  BY <1>1 DEF ActingSessions
<1> QED
  BY <1>1, <1>2, <1>3

\* Where the verdict is not logged, the session goes to the claim of what is not claimed.
LEMMA ProceedStep ==
  ASSUME SessionsTyped, NEW p \in Sessions, NEW r \in Requests, NEW v \in Verdicts, Proceed(p, r, v)
  PROVE  /\ sessions[p].pc = "ready" /\ UNCHANGED <<disk, past, history>>
         /\ \E t \in ActingSessions :
              /\ Becomes(p, t) /\ t.pc = "claim" /\ t.log = sessions[p].log
              /\ t.saved = sessions[p].saved /\ ToClaim(t.log, t.r, t.v, t.gate)
<1> DEFINE s == sessions[p]
           t == [pc |-> "claim", log |-> s.log, saved |-> s.saved, gate |-> s.gate, r |-> r, v |-> v]
<1>1. s.pc = "ready" /\ s.gate = "outside" /\ r \in Pending(s.log)
  BY DEF Proceed, Ready
<1>2. s \in ReadySessions
  BY <1>1, KindOfSession DEF SessionsTyped
<1>3. t \in ActingSessions
  BY <1>2 DEF ReadySessions, ActingSessions
<1>4. Becomes(p, t) /\ UNCHANGED <<disk, past, history>>
  BY DEF Proceed, Becomes
<1>5. ~Holds(s.log, Claim(r))
  BY <1>1 DEF Pending, Claimed, Contains, Holds
<1>6. ToClaim(t.log, t.r, t.v, t.gate)
  BY <1>1, <1>5 DEF ToClaim
<1> QED
  BY <1>1, <1>3, <1>4, <1>6

\* What a commit appends, and what it does next.
LEMMA Commits ==
  ASSUME SessionsTyped, NEW p \in Sessions,
         \/ Evaluate(p) \/ ClaimRequest(p) \/ CompleteRequest(p)
         \/ \E r \in Requests, v \in {"allow", "deny", "unclear"} : Consult(p, r, v)
  PROVE  LET s == sessions[p] IN
         /\ s.pc \in {"ready", "claim", "answer"}
         /\ \E e \in Entries, h \in Thens :
              /\ Commit(p, e, h)
              /\ h.next = "claim" => e = Judged(h.r, h.v) /\ h.r \in Requests /\ h.v \in Verdicts
                                     /\ ~Holds(s.log, Claim(h.r))
              /\ h.next = "launch" => s.pc = "claim" /\ h.r = s.r /\ s.v = "allow" /\ e = Claim(s.r)
<1> DEFINE s == sessions[p]
<1>0. s \in SessionStates
  BY DEF SessionsTyped
<1>1. CASE Evaluate(p)
  <2>1. PICK r \in Requests : Commit(p, Ask(r), Stop) /\ s.pc = "ready"
    BY <1>1 DEF Evaluate, Ready
  <2>2. Stop \in Thens /\ Stop.next = "ready" /\ Ask(r) \in Entries
    BY EntriesOfRequests DEF Thens, Stop
  <2> QED
    BY <2>1, <2>2
<1>2. CASE ClaimRequest(p)
  <2> DEFINE h == [next |-> IF s.v = "allow" THEN "launch" ELSE "answer", r |-> s.r, v |-> s.v]
  <2>1. s.pc = "claim" /\ Commit(p, Claim(s.r), h)
    BY <1>2 DEF ClaimRequest
  <2>2. s.r \in Requests /\ s.v \in Verdicts
    BY <1>0, <2>1, KindOfSession DEF ActingSessions
  <2>3. h \in Thens /\ h.next # "claim" /\ (h.next = "launch" => s.v = "allow") /\ h.r = s.r
    BY <2>2 DEF Thens
  <2>4. Claim(s.r) \in Entries
    BY <2>2, EntriesOfRequests
  <2> HIDE DEF h
  <2> QED
    BY <2>1, <2>3, <2>4
<1>3. CASE CompleteRequest(p)
  <2>1. s.pc = "answer" /\ Commit(p, Complete(s.r), Stop)
    BY <1>3 DEF CompleteRequest
  <2>2. s.r \in Requests
    BY <1>0, <2>1, KindOfSession DEF ActingSessions
  <2>3. Stop \in Thens /\ Stop.next = "ready" /\ Complete(s.r) \in Entries
    BY <2>2, EntriesOfRequests DEF Thens, Stop
  <2> QED
    BY <2>1, <2>3
<1>4. ASSUME NEW r \in Requests, NEW v \in {"allow", "deny", "unclear"}, Consult(p, r, v)
      PROVE  /\ s.pc \in {"ready", "claim", "answer"}
             /\ \E e \in Entries, h \in Thens :
                  /\ Commit(p, e, h)
                  /\ h.next = "claim" => e = Judged(h.r, h.v) /\ h.r \in Requests /\ h.v \in Verdicts
                                         /\ ~Holds(s.log, Claim(h.r))
                  /\ h.next = "launch" => FALSE
  <2> DEFINE h == IF v = "unclear" THEN Stop ELSE [next |-> "claim", r |-> r, v |-> v]
  <2>1. s.pc = "ready" /\ r \in Pending(s.log) /\ Commit(p, Judged(r, v), h)
    BY <1>4 DEF Consult, Ready
  <2>2. ~Holds(s.log, Claim(r))
    BY <2>1 DEF Pending, Claimed, Contains, Holds
  <2>3. h \in Thens /\ h.next # "launch"
    BY <1>4 DEF Thens, Stop, Verdicts
  <2>4. h.next = "claim" => h.r = r /\ h.v = v /\ v \in Verdicts
    BY <1>4 DEF Stop, Verdicts
  <2>5. Judged(r, v) \in Entries
    BY EntriesOfRequests
  <2> HIDE DEF h
  <2> QED
    BY <2>1, <2>2, <2>3, <2>4, <2>5
<1> QED
  BY <1>1, <1>2, <1>3, <1>4

LEMMA TypesKept ==
  ASSUME SessionsTyped, [ImageNext]_imageVars
  PROVE  SessionsTyped'
<1>0. /\ disk \in past /\ disk \in Directories /\ past \subseteq Directories
      /\ sessions \in [Sessions -> SessionStates] /\ acknowledged \in Logs
      /\ launches \in [Requests -> Nat]
  BY DEF SessionsTyped
<1>1. ASSUME NEW p \in Sessions, NEW t \in SessionStates, Becomes(p, t),
             disk' \in past', past' \subseteq Directories, acknowledged' \in Logs,
             launches' \in [Requests -> Nat]
      PROVE  SessionsTyped'
  <2>1. sessions' \in [Sessions -> SessionStates]
    BY <1>1, OthersStay
  <2> QED
    BY <1>1, <2>1 DEF SessionsTyped
<1>2. ASSUME NEW p \in Sessions, NEW gate \in Gates, Open(p, gate) PROVE SessionsTyped'
  BY <1>0, <1>1, <1>2, OpenStep DEF Open, SessionStates, history
<1>3. ASSUME NEW p \in Sessions,
             \/ Evaluate(p) \/ ClaimRequest(p) \/ CompleteRequest(p)
             \/ \E r \in Requests, v \in {"allow", "deny", "unclear"} : Consult(p, r, v)
      PROVE  SessionsTyped'
  <2>1. PICK e \in Entries, h \in Thens : Commit(p, e, h) /\ sessions[p].pc \in {"ready", "claim", "answer"}
    BY <1>3, Commits
  <2>2. PICK t \in SavingSessions : Becomes(p, t)
    BY <2>1, CommitStep
  <2> QED
    BY <1>0, <1>1, <2>1, <2>2 DEF Commit, SessionStates, history
<1>11. ASSUME NEW p \in Sessions, NEW r \in Requests, NEW v \in Verdicts, Proceed(p, r, v)
       PROVE  SessionsTyped'
  BY <1>0, <1>1, <1>11, ProceedStep DEF SessionStates, history
<1>4. ASSUME NEW p \in Sessions, Launch(p) PROVE SessionsTyped'
  <2>1. sessions[p].r \in Requests
    BY <1>4, LaunchStep DEF ActingSessions
  <2>2. launches' \in [Requests -> Nat]
    BY <1>0, <1>4, <2>1 DEF Launch
  <2> QED
    BY <1>0, <1>1, <1>4, <2>2, LaunchStep DEF Launch, SessionStates
<1>5. ASSUME NEW p \in Sessions, CheckRoot(p) \/ WriteNew(p) \/ DeviceRefuses(p) PROVE SessionsTyped'
  <2>1. sessions[p].pc \in Saving /\ UNCHANGED <<disk, past, history>>
    BY <1>5 DEF CheckRoot, WriteNew, DeviceRefuses, Moves, Refused, Saving, history
  <2>2. Refused(p) \/ \E pc \in Saving : Moves(p, pc)
    BY <1>5 DEF CheckRoot, WriteNew, DeviceRefuses, Saving
  <2>3. \E t \in SessionStates : Becomes(p, t)
    BY <2>1, <2>2, MoveStep, RefusedStep DEF SessionStates
  <2> QED
    BY <1>0, <1>1, <2>1, <2>3 DEF history
<1>6. ASSUME NEW p \in Sessions, RemovePrevious(p) \/ Rotate(p) \/ Install(p) PROVE SessionsTyped'
  <2>1. sessions[p].pc \in Saving /\ \E pc \in Saving : Moves(p, pc)
    BY <1>6 DEF RemovePrevious, Rotate, Install, Saving
  <2>2. \E t \in SessionStates : Becomes(p, t)
    BY <2>1, MoveStep DEF SessionStates
  <2>3. /\ disk' \in {[disk EXCEPT !.previous = Absent], [primary |-> Absent, previous |-> disk.primary],
                      [disk EXCEPT !.primary = sessions[p].log]}
        /\ past' = past \cup {disk'} /\ acknowledged' = acknowledged /\ UNCHANGED <<launches, vetted>>
    BY <1>6 DEF RemovePrevious, Rotate, Install, Directory, Moves, history
  <2>4. Absent \in Logs /\ disk.primary \in Logs /\ sessions[p].log \in Logs
    BY <1>0, <2>1, EmptyPrefix, LoadableLog, KindOfSession DEF Absent, SavingSessions
  <2>5. disk' \in Directories
    BY <1>0, <2>3, <2>4 DEF Directories
  <2> QED
    BY <1>0, <1>1, <2>2, <2>3, <2>5
<1>7. ASSUME NEW p \in Sessions, SyncDirectory(p) PROVE SessionsTyped'
  <2>1. /\ disk' = disk /\ past' = {disk} /\ acknowledged' = sessions[p].log /\ UNCHANGED <<launches, vetted>>
        /\ sessions[p].log \in Logs
    BY <1>7, SyncStep DEF SyncDirectory, SavingSessions
  <2> QED
    BY <1>0, <1>1, <1>7, <2>1, SyncStep
<1>8. ASSUME NEW p \in Sessions, Crash(p) PROVE SessionsTyped'
  BY <1>0, <1>1, <1>8 DEF Crash, Becomes, SessionStates, history
<1>9. CASE PowerFails
  <2>1. Down \in SessionStates
    BY DEF SessionStates
  <2> QED
    BY <1>0, <1>9, <2>1 DEF PowerFails, SessionsTyped, history
<1>10. CASE UNCHANGED imageVars
  BY <1>10 DEF imageVars, history, SessionsTyped
<1> QED
  BY <1>2, <1>3, <1>4, <1>5, <1>6, <1>7, <1>8, <1>9, <1>10, <1>11
  DEF ImageNext, Dispatch, Save, Verdicts

-----------------------------------------------------------------------------
(* The files.                                                              *)

\* What the file operations of a save do to what a reader would load.
LEMMA FileSteps ==
  ASSUME SessionsTyped, OneWriter, NEW p \in Sessions,
         RemovePrevious(p) \/ Rotate(p) \/ Install(p)
  PROVE  LET s == sessions[p] IN
         /\ s \in SavingSessions /\ s.pc \in Writing \ {"sync"} /\ InOrder(s)
         /\ past' = past \cup {disk'} /\ acknowledged' = acknowledged /\ UNCHANGED <<launches, vetted>>
         /\ \/ s.pc # "install" /\ Loadable(disk') = Loadable(disk)
            \/ s.pc = "install" /\ Loadable(disk') = s.log
         /\ \E t \in SavingSessions :
              /\ Becomes(p, t) /\ t.log = s.log /\ t.saved = s.saved /\ t.then = s.then
              /\ \/ t.pc = "rotate" /\ disk'.primary # Absent /\ s.pc # "install"
                 \/ t.pc = "install" /\ disk'.primary = Absent /\ s.pc # "install"
                 \/ t.pc = "sync" /\ disk'.primary = s.log /\ s.pc = "install"
<1> DEFINE s == sessions[p]
<1>0. disk \in Directories /\ s \in SessionStates
  BY DEF SessionsTyped
<1>1. s.pc \in Writing \ {"sync"} /\ s.pc \in Saving
  BY DEF RemovePrevious, Rotate, Install, Writing, Saving
<1>2. s \in SavingSessions /\ InOrder(s)
  BY <1>0, <1>1, KindOfSession DEF OneWriter
<1>3. s.log \in Logs /\ s.log # Absent
  BY <1>1, <1>2, LogLength, EmptyPrefix DEF InOrder, Absent, SavingSessions
<1>4. past' = past \cup {disk'} /\ acknowledged' = acknowledged /\ UNCHANGED <<launches, vetted>>
  BY DEF RemovePrevious, Rotate, Install, Directory, Moves, history
<1>5. CASE RemovePrevious(p)
  <2>1. disk.primary # Absent /\ disk'.primary = disk.primary /\ s.pc = "remove"
    BY <1>0, <1>2, <1>5 DEF RemovePrevious, Directory, InOrder, Directories
  <2>2. \E t \in SavingSessions :
          Becomes(p, t) /\ t.log = s.log /\ t.saved = s.saved /\ t.then = s.then /\ t.pc = "rotate"
    BY <1>1, <1>5, MoveStep DEF RemovePrevious, Saving
  <2> QED
    BY <1>1, <1>2, <1>4, <2>1, <2>2 DEF Loadable
<1>6. CASE Rotate(p)
  <2>1. /\ disk.primary # Absent /\ s.pc = "rotate"
        /\ disk' = [primary |-> Absent, previous |-> disk.primary]
    BY <1>2, <1>6 DEF Rotate, Directory, InOrder
  <2>2. \E t \in SavingSessions :
          Becomes(p, t) /\ t.log = s.log /\ t.saved = s.saved /\ t.then = s.then /\ t.pc = "install"
    BY <1>1, <1>6, MoveStep DEF Rotate, Saving
  <2> QED
    BY <1>1, <1>2, <1>4, <2>1, <2>2 DEF Loadable
<1>7. CASE Install(p)
  <2>1. s.pc = "install" /\ disk'.primary = s.log
    BY <1>0, <1>7 DEF Install, Directory, Directories
  <2>2. \E t \in SavingSessions :
          Becomes(p, t) /\ t.log = s.log /\ t.saved = s.saved /\ t.then = s.then /\ t.pc = "sync"
    BY <1>1, <1>7, MoveStep DEF Install, Saving
  <2> QED
    BY <1>1, <1>2, <1>3, <1>4, <2>1, <2>2 DEF Loadable
<1> QED
  BY <1>5, <1>6, <1>7

\* Where a save is done, the files hold the log it saved.
LEMMA SyncedLog ==
  ASSUME SessionsTyped, OneWriter, PastExtended, NEW p \in Sessions, SyncDirectory(p)
  PROVE  LET s == sessions[p] IN
         /\ disk' = disk /\ past' = {disk} /\ acknowledged' = s.log /\ UNCHANGED <<launches, vetted>>
         /\ Loadable(disk) = s.log /\ InOrder(s) /\ s.log \in Logs /\ s.saved \in Logs
         /\ IsPrefix(acknowledged, s.saved) /\ IsPrefix(s.saved, s.log)
         /\ IsPrefix(acknowledged, s.log)
<1> DEFINE s == sessions[p]
<1>1. /\ disk' = disk /\ past' = {disk} /\ acknowledged' = s.log /\ UNCHANGED <<launches, vetted>>
      /\ s.pc = "sync" /\ s \in SavingSessions
  BY SyncStep DEF SyncDirectory
<1>2. s.log \in Logs /\ s.saved \in Logs /\ InOrder(s) /\ s # Down
  BY <1>1 DEF SavingSessions, OneWriter, Down
<1>3. s.log # Absent /\ disk.primary = s.log
  BY <1>1, <1>2, LogLength, EmptyPrefix DEF InOrder, Absent, Saving
<1>4. IsPrefix(acknowledged, s.saved) /\ IsPrefix(s.saved, s.log)
  BY <1>1, <1>2 DEF InOrder, Writing, Saving
<1>5. IsPrefix(acknowledged, s.log)
  BY <1>2, <1>4, PrefixTransitive DEF SessionsTyped
<1> QED
  BY <1>1, <1>2, <1>3, <1>4, <1>5 DEF Loadable

\* The directory is touched by the file operations, the sync and a power failure.
LEMMA QuietSteps ==
  ASSUME [ImageNext]_imageVars
  PROVE  \/ UNCHANGED <<disk, past, acknowledged>>
         \/ \E p \in Sessions : RemovePrevious(p) \/ Rotate(p) \/ Install(p) \/ SyncDirectory(p)
         \/ PowerFails
<1> DEFINE Quiet == UNCHANGED <<disk, past, acknowledged>>
<1>1. ASSUME NEW p \in Sessions, NEW gate \in Gates, Open(p, gate)  PROVE  Quiet
  BY <1>1 DEF Open, history
<1>2. ASSUME NEW p \in Sessions, NEW entry, NEW then, Commit(p, entry, then)  PROVE  Quiet
  BY <1>2 DEF Commit, history
<1>3. ASSUME NEW p \in Sessions, Evaluate(p) \/ Dispatch(p)  PROVE  Quiet
  BY <1>2, <1>3 DEF Evaluate, Dispatch, Proceed, Consult, ClaimRequest, Launch, CompleteRequest, history
<1>4. ASSUME NEW p \in Sessions, Crash(p)  PROVE  Quiet
  BY <1>4 DEF Crash, history
<1>5. ASSUME NEW p \in Sessions, CheckRoot(p) \/ WriteNew(p) \/ DeviceRefuses(p)  PROVE  Quiet
  BY <1>5 DEF CheckRoot, WriteNew, DeviceRefuses, Refused, Moves, history
<1>6. ASSUME UNCHANGED imageVars  PROVE  Quiet
  BY <1>6 DEF imageVars, history
<1> QED
  BY <1>1, <1>3, <1>4, <1>5, <1>6 DEF ImageNext, Save

LEMMA PastKept ==
  ASSUME SessionsTyped, PastExtended, OneWriter, [ImageNext]_imageVars
  PROVE  PastExtended'
<1>0. /\ disk \in past /\ past \subseteq Directories /\ acknowledged \in Logs
      /\ \A d \in Directories : Loadable(d) \in Logs
      /\ \A d \in past : IsPrefix(acknowledged, Loadable(d)) /\ IsPrefix(Loadable(d), Loadable(disk))
  BY LoadableLog DEF SessionsTyped, PastExtended
<1>1. CASE UNCHANGED <<disk, past, acknowledged>>
  BY <1>1 DEF PastExtended
<1>2. ASSUME NEW p \in Sessions, RemovePrevious(p) \/ Rotate(p) \/ Install(p)
      PROVE  PastExtended'
  <2> DEFINE s == sessions[p]
  <2>1. /\ past' = past \cup {disk'} /\ acknowledged' = acknowledged
        /\ Loadable(disk') = Loadable(disk) \/ Loadable(disk') = s.log
        /\ s \in SavingSessions /\ s.pc \in Writing \ {"sync"} /\ InOrder(s)
    BY <1>2, FileSteps
  <2>2. s.log \in Logs /\ Loadable(disk) = s.saved /\ IsPrefix(s.saved, s.log)
    BY <2>1 DEF SavingSessions, InOrder, Down, Saving
  <2>3. Loadable(disk') \in Logs /\ IsPrefix(Loadable(disk), Loadable(disk'))
    BY <1>0, <2>1, <2>2, PrefixReflexive
  <2>4. \A d \in past : IsPrefix(Loadable(d), Loadable(disk'))
    BY <1>0, <2>3, PrefixTransitive
  <2>5. IsPrefix(acknowledged, Loadable(disk')) /\ IsPrefix(Loadable(disk'), Loadable(disk'))
    BY <1>0, <2>3, <2>4, PrefixTransitive, PrefixReflexive
  <2> QED
    BY <1>0, <2>1, <2>4, <2>5 DEF PastExtended
<1>3. ASSUME NEW p \in Sessions, SyncDirectory(p) PROVE PastExtended'
  <2>1. /\ disk' = disk /\ past' = {disk} /\ acknowledged' = Loadable(disk)
    BY <1>3, SyncedLog
  <2> QED
    BY <1>0, <2>1, PrefixReflexive DEF PastExtended
<1>4. CASE PowerFails
  <2>1. disk' \in past /\ past' = {disk'} /\ acknowledged' = acknowledged
    BY <1>4 DEF PowerFails, history
  <2> QED
    BY <1>0, <2>1, PrefixReflexive DEF PastExtended
<1> QED
  BY <1>1, <1>2, <1>3, <1>4, QuietSteps

LEMMA WriterKept ==
  ASSUME SessionsTyped, PastExtended, OneWriter, [ImageNext]_imageVars
  PROVE  OneWriter'
<1>0. /\ sessions \in [Sessions -> SessionStates] /\ disk \in past /\ acknowledged \in Logs
      /\ \A p, q \in Sessions : sessions[p].pc \in Writing /\ sessions[q].pc \in Writing => p = q
      /\ \A p \in Sessions : InOrder(sessions[p])
  BY DEF SessionsTyped, OneWriter
\* The files are as they were: the session that moved has to be in order.
<1>1. ASSUME NEW p \in Sessions, NEW t \in SessionStates, Becomes(p, t), InOrder(t),
             disk' = disk, acknowledged' = acknowledged,
             t.pc \in Writing => \A q \in Sessions \ {p} : sessions[q].pc \notin Writing
      PROVE  OneWriter'
  <2>1. sessions'[p] = t /\ \A q \in Sessions : q # p => sessions'[q] = sessions[q]
    BY <1>1, OthersStay
  <2>2. \A q \in Sessions : InOrder(sessions'[q])
    BY <1>0, <1>1, <2>1
  <2>3. \A q \in Sessions : InOrder(sessions[q])'
    BY <1>1, <2>2 DEF InOrder
  <2> QED
    BY <1>0, <1>1, <2>1, <2>3 DEF OneWriter
\* The writer changed the files: the others do not write.
<1>2. ASSUME NEW p \in Sessions, NEW t \in SessionStates, Becomes(p, t), InOrder(t)',
             sessions[p].pc \in Writing, t' = t
      PROVE  OneWriter'
  <2>1. sessions'[p] = t /\ \A q \in Sessions : q # p => sessions'[q] = sessions[q]
    BY <1>2, OthersStay
  <2>2. \A q \in Sessions : q # p => sessions[q].pc \notin Writing
    BY <1>0, <1>2
  <2>3. ASSUME NEW q \in Sessions PROVE InOrder(sessions[q])'
    <3>1. CASE q = p
      BY <1>2, <2>1, <3>1
    <3>2. CASE q # p
      <4>1. sessions'[q] = sessions[q] /\ InOrder(sessions[q]) /\ sessions[q].pc \notin Writing
        BY <1>0, <2>1, <2>2, <3>2
      <4> QED
        BY <4>1 DEF InOrder, Writing, Saving
    <3> QED
      BY <3>1, <3>2
  <2> QED
    BY <2>1, <2>2, <2>3 DEF OneWriter
<1>3. ASSUME NEW p \in Sessions, NEW gate \in Gates, Open(p, gate) PROVE OneWriter'
  <2>1. PICK t \in ReadySessions : Becomes(p, t) /\ t.log = Loadable(disk) /\ t.saved = Loadable(disk)
    BY <1>3, OpenStep
  <2>2. t \in SessionStates /\ t.pc \notin Saving /\ IsPrefix(t.saved, t.log)
    BY <2>1, PrefixReflexive DEF SessionStates, ReadySessions, Saving
  <2> QED
    BY <1>1, <1>3, <2>1, <2>2 DEF Open, InOrder, Writing, Saving, history
<1>4. ASSUME NEW p \in Sessions,
             \/ Evaluate(p) \/ ClaimRequest(p) \/ CompleteRequest(p)
             \/ \E r \in Requests, v \in {"allow", "deny", "unclear"} : Consult(p, r, v)
      PROVE  OneWriter'
  <2> DEFINE s == sessions[p]
  <2>1. PICK e \in Entries, h \in Thens : Commit(p, e, h) /\ s.pc \in {"ready", "claim", "answer"}
    BY <1>4, Commits
  <2>2. PICK t \in SavingSessions :
          Becomes(p, t) /\ t.pc = "check" /\ t.log = Append(s.log, e) /\ t.saved = s.saved
    BY <2>1, CommitStep
  <2>3. s.log \in Logs /\ s.saved \in Logs /\ s # Down /\ IsPrefix(s.saved, s.log)
    BY <1>0, <2>1, KindOfSession DEF InOrder, Down
  <2>4. IsPrefix(t.saved, t.log) /\ Len(t.saved) < Len(t.log)
    BY <2>2, <2>3, Appended, PrefixTransitive, PrefixPointwise, LogLength
  <2>5. InOrder(t) /\ t \in SessionStates
    BY <2>2, <2>4 DEF InOrder, SessionStates, Writing, Saving
  <2> QED
    BY <1>1, <2>1, <2>2, <2>5 DEF Commit, Writing, Saving, history
<1>14. ASSUME NEW p \in Sessions, NEW r \in Requests, NEW v \in Verdicts, Proceed(p, r, v)
       PROVE  OneWriter'
  <2>1. PICK t \in ActingSessions :
          Becomes(p, t) /\ t.pc = "claim" /\ t.log = sessions[p].log /\ t.saved = sessions[p].saved
    BY <1>14, ProceedStep
  <2>2. sessions[p].pc = "ready" /\ UNCHANGED <<disk, past, history>>
    BY <1>14, ProceedStep
  <2>3. sessions[p] # Down /\ IsPrefix(t.saved, t.log)
    BY <1>0, <2>1, <2>2 DEF InOrder, Down
  <2>4. InOrder(t) /\ t \in SessionStates
    BY <2>1, <2>3 DEF InOrder, SessionStates, Writing, Saving
  <2> QED
    BY <1>1, <2>1, <2>2, <2>4 DEF Writing, Saving, history
<1>5. ASSUME NEW p \in Sessions, Launch(p) PROVE OneWriter'
  <2>1. PICK t \in ActingSessions :
          Becomes(p, t) /\ t.pc = "answer" /\ t.log = sessions[p].log /\ t.saved = sessions[p].saved
    BY <1>5, LaunchStep
  <2>2. sessions[p] # Down /\ IsPrefix(t.saved, t.log)
    BY <1>0, <1>5, <2>1 DEF Launch, InOrder, Down
  <2>3. InOrder(t) /\ t \in SessionStates
    BY <2>1, <2>2 DEF InOrder, SessionStates, Writing, Saving
  <2> QED
    BY <1>1, <1>5, <2>1, <2>3 DEF Launch, Writing, Saving
<1>6. ASSUME NEW p \in Sessions, sessions[p].pc \in Saving, Refused(p) PROVE OneWriter'
  <2>1. PICK t \in ReadySessions : Becomes(p, t) /\ t.log = sessions[p].log /\ t.saved = sessions[p].saved
    BY <1>6, RefusedStep
  <2>2. sessions[p] # Down /\ IsPrefix(t.saved, t.log) /\ t.pc = "ready"
    BY <1>0, <1>6, <2>1 DEF InOrder, Down, Saving, ReadySessions
  <2>3. InOrder(t) /\ t \in SessionStates
    BY <2>1, <2>2 DEF InOrder, SessionStates, Writing, Saving
  <2> QED
    BY <1>1, <1>6, <2>1, <2>2, <2>3 DEF Refused, Writing, Saving, history
<1>7. ASSUME NEW p \in Sessions, CheckRoot(p), ~Refused(p) PROVE OneWriter'
  <2> DEFINE s == sessions[p]
  <2>1. /\ s.pc = "check" /\ Turn(p) /\ Moves(p, "write") /\ Loadable(disk) = s.saved
        /\ UNCHANGED <<disk, past>>
    BY <1>7 DEF CheckRoot, CurrentRoot
  <2>2. PICK t \in SavingSessions :
          Becomes(p, t) /\ t.pc = "write" /\ t.log = s.log /\ t.saved = s.saved
    BY <2>1, MoveStep DEF Saving
  <2>3. IsPrefix(acknowledged, s.saved)
    BY <1>0, <2>1 DEF PastExtended
  <2>4. InOrder(t) /\ t \in SessionStates
    BY <1>0, <2>1, <2>2, <2>3 DEF InOrder, SessionStates, Writing, Saving, Down
  <2>5. \A q \in Sessions \ {p} : sessions[q].pc \notin Writing
    BY <2>1 DEF Turn, Writing
  <2> QED
    BY <1>1, <2>1, <2>2, <2>4, <2>5 DEF Moves, history
<1>8. ASSUME NEW p \in Sessions, WriteNew(p) PROVE OneWriter'
  <2> DEFINE s == sessions[p]
             pc1 == IF disk.primary = Absent THEN "install"
                    ELSE IF disk.previous = Absent THEN "rotate" ELSE "remove"
  <2>1. s.pc = "write" /\ Moves(p, pc1) /\ disk' = disk /\ pc1 \in Saving
    BY <1>8 DEF WriteNew, Saving
  <2>2. PICK t \in SavingSessions :
          Becomes(p, t) /\ t.pc = pc1 /\ t.log = s.log /\ t.saved = s.saved
    BY <2>1, MoveStep DEF Saving
  <2>3. /\ s.pc \in Writing \ {"sync"} /\ s.pc \in Saving /\ s # Down
    BY <2>1 DEF Writing, Saving, Down
  <2>4. InOrder(t) /\ t \in SessionStates
    BY <1>0, <2>2, <2>3 DEF InOrder, SessionStates, Writing, Saving, Down
  <2>5. \A q \in Sessions \ {p} : sessions[q].pc \notin Writing
    BY <1>0, <2>3
  <2> QED
    BY <1>1, <2>1, <2>2, <2>4, <2>5 DEF Moves, history
<1>9. ASSUME NEW p \in Sessions, RemovePrevious(p) \/ Rotate(p) \/ Install(p) PROVE OneWriter'
  <2> DEFINE s == sessions[p]
  <2>1. /\ s \in SavingSessions /\ s.pc \in Writing \ {"sync"} /\ InOrder(s)
        /\ acknowledged' = acknowledged
        /\ s.pc # "install" => Loadable(disk') = Loadable(disk)
    BY <1>9, FileSteps
  <2>2. PICK t \in SavingSessions :
          /\ Becomes(p, t) /\ t.log = s.log /\ t.saved = s.saved
          /\ \/ t.pc = "rotate" /\ disk'.primary # Absent /\ s.pc # "install"
             \/ t.pc = "install" /\ disk'.primary = Absent /\ s.pc # "install"
             \/ t.pc = "sync" /\ disk'.primary = s.log /\ s.pc = "install"
    BY <1>9, FileSteps
  <2>3. /\ IsPrefix(s.saved, s.log) /\ Len(s.saved) < Len(s.log)
        /\ IsPrefix(acknowledged, s.saved) /\ Loadable(disk) = s.saved
    BY <2>1 DEF InOrder, Writing, Saving, Down
  <2>4. InOrder(t)' /\ t \in SessionStates
    BY <2>1, <2>2, <2>3 DEF InOrder, SessionStates, Writing, Saving
  <2> QED
    BY <1>2, <2>1, <2>2, <2>4
<1>10. ASSUME NEW p \in Sessions, SyncDirectory(p) PROVE OneWriter'
  <2> DEFINE s == sessions[p]
  <2>1. PICK t \in SessionStates :
          /\ Becomes(p, t) /\ t.pc \in {"ready", "claim", "launch", "answer"}
          /\ t.log = s.log /\ t.saved = s.log
    BY <1>10, SyncStep
  <2>2. s.pc \in Writing /\ IsPrefix(t.saved, t.log)
    BY <1>10, <2>1, SyncedLog, PrefixReflexive DEF SyncDirectory, Writing, Saving
  <2>3. InOrder(t)'
    BY <2>1, <2>2 DEF InOrder, Writing, Saving
  <2> QED
    BY <1>2, <2>1, <2>2, <2>3
<1>11. ASSUME NEW p \in Sessions, Crash(p) PROVE OneWriter'
  BY <1>1, <1>11 DEF Crash, Becomes, SessionStates, InOrder, Down, Writing, Saving, history
<1>12. CASE PowerFails
  <2>1. \A p \in Sessions : sessions'[p] = Down
    BY <1>12 DEF PowerFails
  <2>2. InOrder(Down)' /\ Down.pc \notin Writing
    BY DEF InOrder, Down, Writing, Saving
  <2> QED
    BY <2>1, <2>2 DEF OneWriter, InOrder
<1>13. CASE UNCHANGED imageVars
  BY <1>13 DEF imageVars, history, OneWriter, InOrder
<1> QED
  BY <1>3, <1>4, <1>5, <1>6, <1>7, <1>8, <1>9, <1>10, <1>11, <1>12, <1>13, <1>14
  DEF ImageNext, Dispatch, Save, DeviceRefuses, CheckRoot, Saving, Verdicts

-----------------------------------------------------------------------------
(* The claims.                                                             *)

\* A step moves one session, or the power fails.
LEMMA SessionSteps ==
  ASSUME SessionsTyped, OneWriter, PastExtended, [ImageNext]_imageVars
  PROVE  \/ sessions' = sessions /\ acknowledged' = acknowledged /\ UNCHANGED <<launches, vetted>>
         \/ /\ \A q \in Sessions : sessions'[q] = Down
            /\ acknowledged' = acknowledged /\ UNCHANGED <<launches, vetted>>
         \/ \E p \in Sessions, t \in SessionStates :
              /\ Becomes(p, t) /\ acknowledged' = acknowledged /\ UNCHANGED <<launches, vetted>>
              /\ t.pc \in {"ready", "down"}
         \/ \E p \in Sessions, t \in SavingSessions :
              /\ Becomes(p, t) /\ acknowledged' = acknowledged /\ UNCHANGED <<launches, vetted>>
              /\ sessions[p].pc \in Saving /\ t.log = sessions[p].log
              /\ t.gate = sessions[p].gate /\ t.then = sessions[p].then
         \/ \E p \in Sessions, t \in ActingSessions :
              /\ Becomes(p, t) /\ acknowledged' = acknowledged /\ UNCHANGED <<launches, vetted>>
              /\ t.pc = "claim" /\ ToClaim(t.log, t.r, t.v, t.gate)
         \/ \E p \in Sessions :
              \/ Evaluate(p) \/ ClaimRequest(p) \/ CompleteRequest(p)
              \/ \E r \in Requests, v \in {"allow", "deny", "unclear"} : Consult(p, r, v)
         \/ \E p \in Sessions : SyncDirectory(p)
         \/ \E p \in Sessions : Launch(p)
<1>1. ASSUME NEW p \in Sessions, NEW gate \in Gates, Open(p, gate)
      PROVE  \E t \in SessionStates :
               /\ Becomes(p, t) /\ acknowledged' = acknowledged /\ UNCHANGED <<launches, vetted>>
               /\ t.pc \in {"ready", "down"}
  <2>1. PICK t \in ReadySessions : Becomes(p, t)
    BY <1>1, OpenStep
  <2> QED
    BY <1>1, <2>1 DEF Open, ReadySessions, SessionStates, history
<1>2. ASSUME NEW p \in Sessions, sessions[p].pc \in Saving, Refused(p)
      PROVE  \E t \in SessionStates :
               /\ Becomes(p, t) /\ acknowledged' = acknowledged /\ UNCHANGED <<launches, vetted>>
               /\ t.pc \in {"ready", "down"}
  <2>1. PICK t \in ReadySessions : Becomes(p, t)
    BY <1>2, RefusedStep
  <2> QED
    BY <1>2, <2>1 DEF Refused, ReadySessions, SessionStates, history
<1>3. ASSUME NEW p \in Sessions, sessions[p].pc \in Saving, NEW pc \in Saving, Moves(p, pc)
      PROVE  \E t \in SavingSessions :
              /\ Becomes(p, t) /\ acknowledged' = acknowledged /\ UNCHANGED <<launches, vetted>>
              /\ sessions[p].pc \in Saving /\ t.log = sessions[p].log
              /\ t.gate = sessions[p].gate /\ t.then = sessions[p].then
  <2>1. PICK t \in SavingSessions :
          /\ Becomes(p, t) /\ t.log = sessions[p].log
          /\ t.gate = sessions[p].gate /\ t.then = sessions[p].then
    BY <1>3, MoveStep
  <2> QED
    BY <1>3, <2>1 DEF Moves, history
<1>4. ASSUME NEW p \in Sessions, Save(p)
      PROVE  \/ sessions[p].pc \in Saving /\ Refused(p)
             \/ sessions[p].pc \in Saving /\ \E pc \in Saving : Moves(p, pc)
             \/ SyncDirectory(p)
  BY <1>4 DEF Save, CheckRoot, WriteNew, RemovePrevious, Rotate, Install, DeviceRefuses, Saving
<1>5. ASSUME NEW p \in Sessions, Crash(p)
      PROVE  /\ Becomes(p, Down) /\ acknowledged' = acknowledged /\ UNCHANGED <<launches, vetted>>
             /\ Down \in SessionStates /\ Down.pc = "down"
  BY <1>5 DEF Crash, Becomes, SessionStates, Down, history
<1>6. CASE PowerFails
  BY <1>6 DEF PowerFails, history
<1>7. CASE UNCHANGED imageVars
  BY <1>7 DEF imageVars, history
<1>8. ASSUME NEW p \in Sessions, NEW r \in Requests, NEW v \in Verdicts, Proceed(p, r, v)
      PROVE  \E t \in ActingSessions :
              /\ Becomes(p, t) /\ acknowledged' = acknowledged /\ UNCHANGED <<launches, vetted>>
              /\ t.pc = "claim" /\ ToClaim(t.log, t.r, t.v, t.gate)
  BY <1>8, ProceedStep DEF history
<1> QED
  BY <1>1, <1>2, <1>3, <1>4, <1>5, <1>6, <1>7, <1>8 DEF ImageNext, Dispatch, Verdicts

LEMMA ClaimsKept ==
  ASSUME SessionsTyped, PastExtended, OneWriter, ClaimsLogged, [ImageNext]_imageVars
  PROVE  ClaimsLogged'
<1>0. /\ sessions \in [Sessions -> SessionStates] /\ acknowledged \in Logs
      /\ \A p \in Sessions : Backed(sessions[p])
  BY DEF SessionsTyped, ClaimsLogged
\* What is said of a session stays said when more is acknowledged.
<1>1. ASSUME NEW s \in SessionStates, Backed(s), acknowledged' \in Logs,
             IsPrefix(acknowledged, acknowledged'), NEW t, t = s
      PROVE  Backed(t)'
  <2>1. CASE s.pc = "launch"
    <3>1. s.log \in Logs
      BY <2>1, KindOfSession DEF ActingSessions
    <3>2. IsPrefix(s.log, acknowledged')
      BY <1>0, <1>1, <2>1, <3>1, PrefixTransitive DEF Backed
    <3> QED
      BY <1>1, <2>1, <3>2 DEF Backed
  <2>2. CASE s.pc # "launch"
    BY <1>1, <2>2 DEF Backed
  <2> QED
    BY <2>1, <2>2
<1>2. ASSUME acknowledged' \in Logs, IsPrefix(acknowledged, acknowledged'),
             NEW p \in Sessions, NEW t \in SessionStates, Becomes(p, t), Backed(t)'
      PROVE  ClaimsLogged'
  <2>1. sessions'[p] = t /\ \A q \in Sessions : q # p => sessions'[q] = sessions[q]
    BY <1>2, OthersStay
  <2>2. ASSUME NEW q \in Sessions PROVE Backed(sessions[q])'
    <3>1. CASE q = p
      BY <1>2, <2>1, <3>1
    <3>2. CASE q # p
      BY <1>0, <1>1, <1>2, <2>1, <3>2
    <3> QED
      BY <3>1, <3>2
  <2> QED
    BY <2>2 DEF ClaimsLogged
<1>3. CASE sessions' = sessions /\ acknowledged' = acknowledged
  BY <1>3 DEF ClaimsLogged, Backed
<1>4. CASE \A q \in Sessions : sessions'[q] = Down
  BY <1>4 DEF ClaimsLogged, Backed, Down, Saving
<1>5. ASSUME NEW p \in Sessions, NEW t \in SessionStates, Becomes(p, t),
             acknowledged' = acknowledged, t.pc \in {"ready", "down"}
      PROVE  ClaimsLogged'
  <2>1. Backed(t)'
    BY <1>5 DEF Backed, Saving
  <2> QED
    BY <1>0, <1>2, <1>5, <2>1, PrefixReflexive
<1>6. ASSUME NEW p \in Sessions, NEW t \in SavingSessions, Becomes(p, t),
             acknowledged' = acknowledged, sessions[p].pc \in Saving,
             t.log = sessions[p].log, t.gate = sessions[p].gate, t.then = sessions[p].then
      PROVE  ClaimsLogged'
  <2>1. Backed(sessions[p]) /\ t.pc \in Saving
    BY <1>0 DEF SavingSessions
  <2>2. Backed(t)' /\ t \in SessionStates
    BY <1>6, <2>1 DEF Backed, Saving, SessionStates
  <2> QED
    BY <1>0, <1>2, <1>6, <2>2, PrefixReflexive
<1>10. ASSUME NEW p \in Sessions, NEW t \in ActingSessions, Becomes(p, t),
              acknowledged' = acknowledged, t.pc = "claim", ToClaim(t.log, t.r, t.v, t.gate)
       PROVE  ClaimsLogged'
  <2>1. Backed(t)' /\ t \in SessionStates
    BY <1>10 DEF Backed, Saving, SessionStates
  <2> QED
    BY <1>0, <1>2, <1>10, <2>1, PrefixReflexive
<1>7. ASSUME NEW p \in Sessions,
             \/ Evaluate(p) \/ ClaimRequest(p) \/ CompleteRequest(p)
             \/ \E r \in Requests, v \in {"allow", "deny", "unclear"} : Consult(p, r, v)
      PROVE  ClaimsLogged'
  <2> DEFINE s == sessions[p]
  <2>1. PICK e \in Entries, h \in Thens :
          /\ s.pc \in {"ready", "claim", "answer"} /\ Commit(p, e, h)
          /\ h.next = "claim" => e = Judged(h.r, h.v) /\ h.r \in Requests /\ h.v \in Verdicts
                                 /\ ~Holds(s.log, Claim(h.r))
          /\ h.next = "launch" => s.pc = "claim" /\ h.r = s.r /\ s.v = "allow" /\ e = Claim(s.r)
    BY <1>7, Commits
  <2>2. PICK t \in SavingSessions :
          /\ Becomes(p, t) /\ t.pc = "check" /\ t.log = Append(s.log, e)
          /\ t.gate = s.gate /\ t.then = h
    BY <2>1, CommitStep
  <2>3. s.log \in Logs /\ s # Down
    BY <1>0, <2>1, KindOfSession DEF Down
  <2>4. /\ Len(s.log) \in Nat /\ Len(t.log) = Len(s.log) + 1 /\ t.log[Len(s.log) + 1] = e
        /\ \A i \in 1 .. Len(s.log) : t.log[i] = s.log[i]
    BY <2>2, <2>3, Appended, LogLength
  <2>0. \A i \in 1 .. Len(t.log) : i \in 1 .. Len(s.log) \/ i = Len(s.log) + 1
    BY <2>4
  <2>11. /\ Len(s.log) + 1 \in 1 .. Len(t.log)
         /\ \A i \in 1 .. Len(s.log) : i \in 1 .. Len(t.log) /\ i < Len(s.log) + 1
    BY <2>4
  <2>5. ASSUME h.next = "claim" PROVE ToClaim(t.log, h.r, h.v, s.gate)
    <3>1. /\ e = Judged(h.r, h.v) /\ \A i \in 1 .. Len(s.log) : s.log[i] # Claim(h.r)
          /\ e # Claim(h.r)
      BY <2>1, <2>5, EntriesOfRequests DEF Holds, Verdicts
    <3>2. Holds(t.log, Judged(h.r, h.v))
      BY <2>4, <2>11, <3>1 DEF Holds
    <3>3. ~Holds(t.log, Claim(h.r))
      BY <2>4, <2>0, <3>1 DEF Holds
    <3> QED
      BY <3>2, <3>3 DEF ToClaim
  <2>6. ASSUME h.next = "launch" PROVE JustClaimed(t.log, h.r, s.gate)
    <3>1. /\ h.r = s.r /\ e = Claim(h.r) /\ ToClaim(s.log, h.r, "allow", s.gate)
      BY <1>0, <2>1, <2>6 DEF Backed
    <3>2. /\ \A i \in 1 .. Len(s.log) : t.log[i] # Claim(h.r)
          /\ s.gate = "world" => \E i \in 1 .. Len(s.log) : t.log[i] = Judged(h.r, "allow")
      BY <2>4, <3>1 DEF ToClaim, Holds
    <3>5. s.gate = "world" => Audited(t.log, h.r)
      BY <2>4, <2>11, <3>1, <3>2 DEF Audited
    <3>6. Holds(t.log, Claim(h.r))
      BY <2>4, <2>11, <3>1 DEF Holds
    <3>3. Recorded(t.log, h.r, s.gate)
      BY <3>5, <3>6 DEF Recorded
    <3>4. \A i \in 1 .. Len(t.log) : t.log[i] = Claim(h.r) => i = Len(t.log)
      BY <2>4, <2>0, <3>2
    <3> QED
      BY <3>3, <3>4 DEF JustClaimed
  <2>7. acknowledged' = acknowledged
    BY <2>1 DEF Commit, history
  <2>8. /\ h.next = "claim" => ToClaim(t.log, h.r, h.v, s.gate)
        /\ h.next = "launch" => JustClaimed(t.log, h.r, s.gate)
    BY <2>5, <2>6
  <2>9. Backed(t)' /\ t \in SessionStates
    BY <2>2, <2>8 DEF Backed, SessionStates
  <2> QED
    BY <1>0, <1>2, <2>2, <2>7, <2>9, PrefixReflexive
<1>8. ASSUME NEW p \in Sessions, SyncDirectory(p) PROVE ClaimsLogged'
  <2> DEFINE s == sessions[p]
  <2>1. PICK t \in SessionStates :
          /\ Becomes(p, t) /\ t # Down
          /\ t.pc = s.then.next /\ t.log = s.log
          /\ t.pc # "ready" => t.r = s.then.r /\ t.v = s.then.v /\ t.gate = s.gate
    BY <1>8, SyncStep
  <2>2. s.then.next \in {"ready", "claim", "launch", "answer"} /\ s.pc = "sync"
    BY <1>8, SyncStep
  <2>3. acknowledged' = s.log /\ s.log \in Logs /\ IsPrefix(acknowledged, s.log)
    BY <1>8, SyncedLog
  <2>4. /\ s.then.next = "claim" => ToClaim(s.log, s.then.r, s.then.v, s.gate)
        /\ s.then.next = "launch" => JustClaimed(s.log, s.then.r, s.gate)
    BY <1>0, <2>2 DEF Backed, Saving
  <2>5. IsPrefix(t.log, acknowledged')
    BY <2>1, <2>3, PrefixReflexive
  <2>6. Backed(t)'
    BY <2>1, <2>2, <2>4, <2>5 DEF Backed, JustClaimed, Saving
  <2> QED
    BY <1>2, <2>1, <2>3, <2>6
<1>9. ASSUME NEW p \in Sessions, Launch(p) PROVE ClaimsLogged'
  <2>1. PICK t \in ActingSessions : Becomes(p, t) /\ t.pc = "answer"
    BY <1>9, LaunchStep
  <2>2. Backed(t)' /\ t \in SessionStates /\ acknowledged' = acknowledged
    BY <1>9, <2>1 DEF Launch, Backed, Saving, SessionStates
  <2> QED
    BY <1>0, <1>2, <2>1, <2>2, PrefixReflexive
<1> QED
  BY <1>3, <1>4, <1>5, <1>6, <1>7, <1>8, <1>9, <1>10, SessionSteps

LEMMA PaidKept ==
  ASSUME SessionsTyped, PastExtended, OneWriter, ClaimsLogged, LaunchesPaid, [ImageNext]_imageVars
  PROVE  LaunchesPaid'
<1>0. /\ sessions \in [Sessions -> SessionStates] /\ acknowledged \in Logs
      /\ launches \in [Requests -> Nat]
      /\ \A r \in Requests :
           /\ launches[r] <= 1
           /\ launches[r] > 0 => Holds(acknowledged, Claim(r))
           /\ r \in vetted => Audited(acknowledged, r)
      /\ \A p \in Sessions : sessions[p].pc = "launch" =>
           /\ launches[sessions[p].r] = 0
           /\ \A q \in Sessions :
                sessions[q].pc = "launch" /\ sessions[q].r = sessions[p].r => p = q
  BY DEF SessionsTyped, LaunchesPaid
<1>1. ASSUME NEW q \in Sessions, sessions[q].pc = "launch"
      PROVE  /\ sessions[q].r \in Requests /\ sessions[q].log \in Logs
             /\ Recorded(acknowledged, sessions[q].r, sessions[q].gate)
  <2> DEFINE s == sessions[q]
  <2>1. s.r \in Requests /\ s.log \in Logs /\ s.gate \in Gates
    BY <1>0, <1>1, KindOfSession DEF ActingSessions
  <2>2. Recorded(s.log, s.r, s.gate) /\ IsPrefix(s.log, acknowledged)
    BY <1>1 DEF ClaimsLogged, Backed
  <2> QED
    BY <1>0, <2>1, <2>2, AuditExtends
\* Nobody comes to launch.
<1>2. ASSUME UNCHANGED <<launches, vetted>>, acknowledged' \in Logs, IsPrefix(acknowledged, acknowledged'),
             \A q \in Sessions : sessions'[q].pc = "launch" => sessions'[q] = sessions[q]
      PROVE  LaunchesPaid'
  <2>1. \A r \in Requests :
          /\ Holds(acknowledged, Claim(r)) => Holds(acknowledged', Claim(r))
          /\ Audited(acknowledged, r) => Audited(acknowledged', r)
    BY <1>0, <1>2, AuditExtends
  <2>2. (\A r \in Requests :
           /\ launches[r] <= 1
           /\ launches[r] > 0 => Holds(acknowledged, Claim(r))
           /\ r \in vetted => Audited(acknowledged, r))'
    BY <1>0, <1>2, <2>1 DEF Audited, Holds
  <2> QED
    BY <1>0, <1>2, <2>2 DEF LaunchesPaid
<1>3. ASSUME UNCHANGED <<launches, vetted>>, acknowledged' \in Logs, IsPrefix(acknowledged, acknowledged'),
             NEW p \in Sessions, NEW t \in SessionStates, Becomes(p, t), t.pc # "launch"
      PROVE  LaunchesPaid'
  BY <1>2, <1>3, OthersStay
<1>4. IsPrefix(acknowledged, acknowledged)
  BY <1>0, PrefixReflexive
<1>5. ASSUME NEW p \in Sessions,
             \/ Evaluate(p) \/ ClaimRequest(p) \/ CompleteRequest(p)
             \/ \E r \in Requests, v \in {"allow", "deny", "unclear"} : Consult(p, r, v)
      PROVE  LaunchesPaid'
  <2>1. PICK e \in Entries, h \in Thens :
          sessions[p].pc \in {"ready", "claim", "answer"} /\ Commit(p, e, h)
    BY <1>5, Commits
  <2>2. PICK t \in SavingSessions : Becomes(p, t) /\ t.pc = "check"
    BY <2>1, CommitStep
  <2>3. t \in SessionStates /\ UNCHANGED <<launches, vetted>> /\ acknowledged' = acknowledged
    BY <2>1 DEF SessionStates, Commit, history
  <2> QED
    BY <1>0, <1>3, <1>4, <2>2, <2>3
<1>6. ASSUME NEW p \in Sessions, SyncDirectory(p) PROVE LaunchesPaid'
  <2> DEFINE s == sessions[p]
  <2>1. PICK t \in SessionStates :
          Becomes(p, t) /\ t.pc = s.then.next /\ (t.pc # "ready" => t.r = s.then.r)
    BY <1>6, SyncStep
  <2>2. /\ acknowledged' = s.log /\ UNCHANGED <<launches, vetted>> /\ s.log \in Logs /\ s.saved \in Logs
        /\ IsPrefix(acknowledged, s.saved) /\ IsPrefix(acknowledged, s.log) /\ InOrder(s)
    BY <1>6, SyncedLog
  <2>3. CASE t.pc # "launch"
    BY <1>3, <2>1, <2>2, <2>3
  <2>4. CASE t.pc = "launch"
    <3> DEFINE r == s.then.r
    <3>1. s.pc = "sync" /\ s.then.next = "launch" /\ t.r = r
      BY <1>6, <2>1, <2>4 DEF SyncDirectory
    <3>2. JustClaimed(s.log, r, s.gate) /\ Len(s.saved) < Len(s.log)
      BY <2>2, <3>1 DEF ClaimsLogged, Backed, InOrder, Saving
    <3>3. t.r \in Requests
      BY <2>1, <2>4, KindOfSession DEF ActingSessions
    \* The claim is new: what was acknowledged before does not hold it.
    <3>4. ~Holds(acknowledged, Claim(r))
      <4>1. /\ Len(acknowledged) \in Nat /\ Len(s.saved) \in Nat /\ Len(s.log) \in Nat
            /\ Len(acknowledged) <= Len(s.saved)
            /\ \A i \in 1 .. Len(acknowledged) : acknowledged[i] = s.log[i]
        BY <1>0, <2>2, PrefixPointwise, LogLength
      <4>0. Len(acknowledged) < Len(s.log)
        BY <3>2, <4>1
      <4>2. \A i \in 1 .. Len(acknowledged) : i \in 1 .. Len(s.log) /\ i # Len(s.log)
        BY <4>0, <4>1
      <4>3. \A i \in 1 .. Len(acknowledged) : acknowledged[i] # Claim(r)
        BY <3>2, <4>1, <4>2 DEF JustClaimed
      <4> QED
        BY <4>3 DEF Holds
    <3>5. launches[r] = 0 /\ \A q \in Sessions : sessions[q].pc = "launch" => sessions[q].r # r
      BY <1>0, <1>1, <3>1, <3>3, <3>4 DEF Recorded
    <3>6. \A q \in Requests :
            /\ Holds(acknowledged, Claim(q)) => Holds(s.log, Claim(q))
            /\ Audited(acknowledged, q) => Audited(s.log, q)
      BY <1>0, <2>2, AuditExtends
    <3>7. sessions'[p] = t /\ \A q \in Sessions : q # p => sessions'[q] = sessions[q]
      BY <2>1, OthersStay
    <3>8. \A q \in Requests :
            /\ launches[q] <= 1
            /\ launches[q] > 0 => Holds(s.log, Claim(q))
            /\ q \in vetted => Audited(s.log, q)
      BY <1>0, <3>6
    <3>9. ASSUME NEW u \in Sessions, sessions'[u].pc = "launch"
          PROVE  /\ launches[sessions'[u].r] = 0
                 /\ \A q \in Sessions :
                      sessions'[q].pc = "launch" /\ sessions'[q].r = sessions'[u].r => u = q
      <4> HIDE DEF r
      <4> QED
        BY <1>0, <2>4, <3>1, <3>5, <3>7, <3>9
    <3>10. (\A q \in Requests :
              /\ launches[q] <= 1
              /\ launches[q] > 0 => Holds(acknowledged, Claim(q))
              /\ q \in vetted => Audited(acknowledged, q))'
      BY <2>2, <3>8 DEF Audited, Holds
    <3> QED
      BY <2>2, <3>9, <3>10 DEF LaunchesPaid
  <2> QED
    BY <2>3, <2>4
<1>7. ASSUME NEW p \in Sessions, Launch(p) PROVE LaunchesPaid'
  <2> DEFINE s == sessions[p]
  <2>1. PICK t \in ActingSessions : Becomes(p, t) /\ t.pc = "answer"
    BY <1>7, LaunchStep
  <2>2. t \in SessionStates
    BY DEF SessionStates
  <2>3. sessions'[p] = t /\ \A q \in Sessions : q # p => sessions'[q] = sessions[q]
    BY <2>1, <2>2, OthersStay
  <2>4. /\ s.pc = "launch" /\ acknowledged' = acknowledged /\ launches' = [launches EXCEPT ![s.r] = @ + 1]
        /\ vetted' = IF s.gate = "world" THEN vetted \cup {s.r} ELSE vetted
    BY <1>7 DEF Launch
  <2>5. s.r \in Requests /\ Recorded(acknowledged, s.r, s.gate) /\ launches[s.r] = 0
    BY <1>0, <1>1, <2>4
  <2>6. launches'[s.r] = 1 /\ \A r \in Requests : r # s.r => launches'[r] = launches[r]
    BY <1>0, <2>4, <2>5
  <2>7. \A r \in Requests :
          /\ launches'[r] <= 1
          /\ launches'[r] > 0 => Holds(acknowledged, Claim(r))
          /\ r \in vetted' => Audited(acknowledged, r)
    BY <1>0, <2>4, <2>5, <2>6 DEF Recorded
  <2>8. ASSUME NEW q \in Sessions, sessions'[q].pc = "launch"
        PROVE  /\ q # p /\ sessions'[q] = sessions[q] /\ sessions[q].pc = "launch"
               /\ sessions[q].r \in Requests /\ sessions[q].r # s.r
    BY <1>0, <1>1, <2>1, <2>3, <2>4, <2>8
  <2>9. \A q \in Sessions : sessions'[q].pc = "launch" =>
          /\ launches'[sessions'[q].r] = 0
          /\ \A u \in Sessions : sessions'[u].pc = "launch" /\ sessions'[u].r = sessions'[q].r => q = u
    BY <1>0, <2>6, <2>8
  <2> QED
    BY <2>4, <2>7, <2>9 DEF LaunchesPaid, Audited, Holds
<1>8. CASE \E p \in Sessions, t \in SessionStates :
             /\ Becomes(p, t) /\ acknowledged' = acknowledged /\ UNCHANGED <<launches, vetted>>
             /\ t.pc \in {"ready", "down"}
  BY <1>0, <1>3, <1>4, <1>8
<1>9. ASSUME NEW p \in Sessions, NEW t \in SavingSessions,
             Becomes(p, t), acknowledged' = acknowledged, UNCHANGED <<launches, vetted>>
      PROVE  LaunchesPaid'
  <2>1. t \in SessionStates /\ t.pc # "launch"
    BY DEF SessionStates, SavingSessions, Saving
  <2> QED
    BY <1>0, <1>3, <1>4, <1>9, <2>1
<1>12. ASSUME NEW p \in Sessions, NEW t \in ActingSessions, t.pc = "claim",
              Becomes(p, t), acknowledged' = acknowledged, UNCHANGED <<launches, vetted>>
       PROVE  LaunchesPaid'
  <2>1. t \in SessionStates
    BY DEF SessionStates
  <2> QED
    BY <1>0, <1>3, <1>4, <1>12, <2>1
<1>10. CASE /\ \A q \in Sessions : sessions'[q] = Down
            /\ acknowledged' = acknowledged /\ UNCHANGED <<launches, vetted>>
  BY <1>0, <1>2, <1>4, <1>10 DEF Down
<1>11. CASE sessions' = sessions /\ acknowledged' = acknowledged /\ UNCHANGED <<launches, vetted>>
  BY <1>0, <1>2, <1>4, <1>11
<1> QED
  BY <1>5, <1>6, <1>7, <1>8, <1>9, <1>10, <1>11, <1>12, SessionSteps

-----------------------------------------------------------------------------
(* The theorems.                                                           *)

LEMMA SessionsInvInit == ImageInit => SessionsInv
<1> SUFFICES ASSUME ImageInit PROVE SessionsInv
  OBVIOUS
<1>1. /\ disk = [primary |-> <<>>, previous |-> <<>>] /\ past = {disk}
      /\ sessions = [p \in Sessions |-> Down]
      /\ acknowledged = <<>> /\ launches = [r \in Requests |-> 0] /\ vetted = {}
  BY DEF ImageInit, Absent
<1>2. <<>> \in Logs /\ IsPrefix(<<>>, <<>>)
  <2>1. <<>> \in Logs
    BY EmptySeq DEF Logs
  <2> QED
    BY <2>1, PrefixReflexive
<1>3. disk \in Directories /\ Loadable(disk) = <<>>
  BY <1>1, <1>2 DEF Directories, Loadable, Absent
<1>4. SessionsTyped
  BY <1>1, <1>2, <1>3 DEF SessionsTyped, SessionStates
<1>5. PastExtended
  BY <1>1, <1>2, <1>3 DEF PastExtended
<1>6. \A p \in Sessions : sessions[p] = Down /\ Down.pc = "down"
  BY <1>1 DEF Down
<1>7. OneWriter
  BY <1>6 DEF OneWriter, InOrder, Writing, Saving
<1>8. ClaimsLogged
  BY <1>6 DEF ClaimsLogged, Backed, Saving
<1>9. LaunchesPaid
  BY <1>1, <1>6 DEF LaunchesPaid
<1> QED
  BY <1>4, <1>5, <1>7, <1>8, <1>9 DEF SessionsInv

\* Sessions, files, claims and launches stay in the relations named above, whatever
\* the sessions do, and whatever dies (ImageStore::write, agel-image lib.rs:474;
\* claim_model_request and dispatch_pending, agel-cli main.rs:385, 1085).
THEOREM SessionsInvariant == ImageSpec => []SessionsInv
<1>1. ImageInit => SessionsInv
  BY SessionsInvInit
<1>2. SessionsInv /\ [ImageNext]_imageVars => SessionsInv'
  BY TypesKept, PastKept, WriterKept, ClaimsKept, PaidKept DEF SessionsInv
<1> QED
  BY <1>1, <1>2, PTL DEF ImageSpec

LEMMA TypesFollow == SessionsInv => ImageTypeOK
<1> SUFFICES ASSUME SessionsInv PROVE ImageTypeOK
  OBVIOUS
<1>1. /\ disk \in past /\ past \subseteq Directories /\ sessions \in [Sessions -> SessionStates]
      /\ \A p \in Sessions : InOrder(sessions[p])
  BY DEF SessionsInv, SessionsTyped, OneWriter
<1>2. ASSUME NEW log \in Logs PROVE Range(log) \subseteq Entries
  <2>1. \A i \in DOMAIN log : log[i] \in Entries
    BY <1>2, LenProperties, ElementOfSeq DEF Logs
  <2> QED
    BY <2>1 DEF Range
<1>3. \A d \in past : \A log \in {d.primary, d.previous} : Range(log) \subseteq Entries
  BY <1>1, <1>2, LoadableLog
<1>4. ASSUME NEW p \in Sessions, sessions[p] # Down
      PROVE  /\ sessions[p].pc \in {"ready", "claim", "launch", "answer"} \cup Saving
             /\ Range(sessions[p].log) \subseteq Entries
             /\ IsPrefix(sessions[p].saved, sessions[p].log)
             /\ sessions[p].gate \in Gates
  <2>1. sessions[p] \in SessionStates
    BY <1>1
  <2>2. sessions[p].log \in Logs /\ sessions[p].gate \in Gates
    BY <1>4, <2>1, KindOfSession
  <2>3. sessions[p].pc \in {"ready", "claim", "launch", "answer"} \cup Saving
    BY <1>4, <2>1 DEF SessionStates, ReadySessions, ActingSessions, SavingSessions
  <2> QED
    BY <1>1, <1>2, <1>4, <2>2, <2>3 DEF InOrder
<1> QED
  BY <1>1, <1>3, <1>4 DEF ImageTypeOK

LEMMA InvPays == SessionsInv => PaidOnceAndAudited
<1> SUFFICES ASSUME SessionsInv PROVE PaidOnceAndAudited
  OBVIOUS
<1>1. /\ past \subseteq Directories /\ acknowledged \in Logs
      /\ \A d \in past : IsPrefix(acknowledged, Loadable(d))
      /\ \A r \in Requests :
           /\ launches[r] <= 1
           /\ launches[r] > 0 => Holds(acknowledged, Claim(r))
           /\ r \in vetted => Audited(acknowledged, r)
  BY DEF SessionsInv, SessionsTyped, PastExtended, LaunchesPaid
<1>3. ASSUME NEW r \in Requests, launches[r] > 0, NEW d \in past
      PROVE  Contains(Loadable(d), Claim(r))
  <2>1. Loadable(d) \in Logs
    BY <1>1, LoadableLog
  <2>2. Holds(Loadable(d), Claim(r))
    BY <1>1, <1>3, <2>1, AuditExtends
  <2> QED
    BY <2>2 DEF Holds, Contains
<1>2. ASSUME NEW r \in Requests, r \in vetted, NEW d \in past
      PROVE  \E i, j \in DOMAIN Loadable(d) :
               i < j /\ Loadable(d)[i] = Judged(r, "allow") /\ Loadable(d)[j] = Claim(r)
  <2>1. Loadable(d) \in Logs
    BY <1>1, LoadableLog
  <2>2. Audited(Loadable(d), r)
    BY <1>1, <1>2, <2>1, AuditExtends
  <2>3. DOMAIN Loadable(d) = 1 .. Len(Loadable(d))
    BY <2>1, LenProperties DEF Logs
  <2> QED
    BY <2>2, <2>3 DEF Audited
<1> QED
  BY <1>1, <1>2, <1>3, TypesFollow DEF PaidOnceAndAudited

\* No request is paid for twice, and every directory a power failure may leave holds
\* the claim of what was launched, after the verdict that allowed it where a gate in
\* the world gave one (claim_model_request and persist, agel-cli main.rs:385-398;
\* dispatch_pending, main.rs:1085, 1117).
THEOREM PaidOnce == ImageSpec => []PaidOnceAndAudited
BY SessionsInvariant, InvPays, PTL

LEMMA LogStep ==
  ASSUME SessionsInv, [ImageNext]_imageVars
  PROVE  [Log!Extend \/ Log!Acknowledge \/ Log!Lose]_<<Loadable(disk), acknowledged>>
<1>0. SessionsTyped /\ PastExtended /\ OneWriter
  BY DEF SessionsInv
<1>5. Loadable(disk)' = Loadable(disk')
  BY DEF Loadable
<1>1. CASE UNCHANGED <<disk, past, acknowledged>>
  BY <1>1 DEF Loadable
<1>2. ASSUME NEW p \in Sessions, RemovePrevious(p) \/ Rotate(p) \/ Install(p)
      PROVE  [Log!Extend]_<<Loadable(disk), acknowledged>>
  <2> DEFINE s == sessions[p]
  <2>1. /\ s \in SavingSessions /\ s.pc \in Writing \ {"sync"} /\ InOrder(s)
        /\ acknowledged' = acknowledged
        /\ Loadable(disk') = Loadable(disk) \/ Loadable(disk') = s.log
    BY <1>0, <1>2, FileSteps
  <2>2. /\ s.log \in Logs /\ s.saved \in Logs /\ Loadable(disk) = s.saved
        /\ IsPrefix(s.saved, s.log) /\ Len(s.saved) < Len(s.log)
    BY <2>1 DEF SavingSessions, InOrder, Down, Writing, Saving
  <2>3. s.saved # s.log
    BY <2>2, LogLength
  <2>4. CASE Loadable(disk') = Loadable(disk)
    BY <1>5, <2>1, <2>4
  <2>5. CASE Loadable(disk') = s.log
    <3>1. Log!IsStrictPrefix(s.saved, s.log)
      BY <2>2, <2>3 DEF Log!IsStrictPrefix, Log!IsPrefix, IsPrefix
    <3> QED
      BY <1>5, <2>1, <2>2, <2>5, <3>1 DEF Log!Extend, Logs
  <2> QED
    BY <2>1, <2>4, <2>5
<1>3. ASSUME NEW p \in Sessions, SyncDirectory(p) PROVE Log!Acknowledge
  <2>1. disk' = disk /\ acknowledged' = Loadable(disk) /\ IsPrefix(acknowledged, Loadable(disk))
    BY <1>0, <1>3, SyncedLog
  <2> QED
    BY <1>5, <2>1 DEF Log!Acknowledge, Log!IsPrefix, IsPrefix
<1>4. CASE PowerFails
  <2>1. disk' \in past /\ acknowledged' = acknowledged
    BY <1>4 DEF PowerFails, history
  <2>2. IsPrefix(Loadable(disk'), Loadable(disk)) /\ IsPrefix(acknowledged, Loadable(disk'))
    BY <1>0, <2>1 DEF PastExtended
  <2>3. CASE Loadable(disk') = Loadable(disk)
    BY <1>5, <2>1, <2>3
  <2>4. CASE Loadable(disk') # Loadable(disk)
    <3>1. /\ Log!IsStrictPrefix(Loadable(disk'), Loadable(disk))
          /\ Log!IsPrefix(acknowledged, Loadable(disk'))
      BY <2>2, <2>4 DEF Log!IsStrictPrefix, Log!IsPrefix, IsPrefix
    <3> QED
      BY <1>5, <2>1, <3>1 DEF Log!Lose
  <2> QED
    BY <2>3, <2>4
<1> QED
  BY <1>1, <1>2, <1>3, <1>4, QuietSteps

\* The files implement one append-only log: every reader finds an extension of what
\* the readers before it found, or what a power failure left of it, and what was
\* acknowledged stays (ImageStore::load and write, agel-image lib.rs:399, 474).
THEOREM FilesImplementLog == ImageSpec => ImplementsLog
<1>1. ImageInit => Log!LogInit
  BY DEF ImageInit, Log!LogInit, Loadable, Absent
<1>2. SessionsInv /\ [ImageNext]_imageVars
        => [Log!Extend \/ Log!Acknowledge \/ Log!Lose]_<<Loadable(disk), acknowledged>>
  BY LogStep
<1> QED
  BY <1>1, <1>2, SessionsInvariant, PTL DEF ImageSpec, ImplementsLog, Log!LogSpec
=============================================================================
