----------------------------- MODULE ImageSessions -----------------------------
(***************************************************************************)
(* Command-line sessions over one world image: the append-only log each    *)
(* session holds, the file store's expected-root check and its write, rotate *)
(* and rename, and the dispatch of model requests through a gate, with     *)
(* processes that die, devices that refuse and power that goes.            *)
(*                                                                         *)
(* The world is a function of the log (rebuild replays it), so a session   *)
(* is its log, and a root digest is the identity of a log.                 *)
(***************************************************************************)
EXTENDS Naturals, Sequences, FiniteSets, SequencesExt

CONSTANTS
  Sessions,        \* processes that may open the image
  Requests,        \* model request numbers: 1 .. n
  MaxEntries,      \* bound on a log's length
  MaxUnsaved,      \* bound on the entries sessions hold beyond their saves
  MaxUnclear       \* bound on the times a gate in the world cannot decide a request

ASSUME SessionsConstants ==
  /\ Sessions # {} /\ IsFiniteSet(Sessions)
  /\ Requests = 1 .. Cardinality(Requests) /\ {MaxEntries, MaxUnsaved, MaxUnclear} \subseteq Nat

VARIABLES
  disk,            \* the directory: what .image and .image.previous hold
  past,            \* directories a power failure may return to
  sessions,        \* per process, where it is
  acknowledged,    \* history: the log last saved with success
  launches,        \* history: per request, times a provider was launched
  vetted           \* history: requests launched on the word of a gate in the world

history   == <<acknowledged, launches, vetted>>
imageVars == <<disk, past, sessions, history>>

(* No file.  Nothing is saved before the first entry, so no file is empty.  *)
Absent == <<>>

Ask(r)        == [op |-> "evaluate", r |-> r]
Judged(r, v)  == [op |-> v, r |-> r]
Claim(r)      == [op |-> "claim", r |-> r]
Complete(r)   == [op |-> "complete", r |-> r]

Entries == 
  [op : {"evaluate", "allow", "deny", "unclear", "claim", "complete"}, r : Requests]

(* Where a dispatch is judged: by a function in the world (--gate agel), or  *)
(* outside of it, by a judge (--gate jev) or, as without a gate, by nobody.  *)
Gates == {"world", "outside"}

Down == [pc |-> "down"]

(* What a reader would load: the image, or else the previous one.           *)
Loadable(d) ==
  IF d.primary # Absent THEN d.primary ELSE d.previous

(* The root of what is stored, for the check of a save.                     *)
CurrentRoot(d) == Loadable(d)

ImageInit ==
  /\ disk = [primary |-> Absent, previous |-> Absent]
  /\ past = {disk}
  /\ sessions = [p \in Sessions |-> Down]
  /\ acknowledged = <<>>
  /\ launches = [r \in Requests |-> 0]
  /\ vetted = {}
-----------------------------------------------------------------------------
(* What the world rebuilt from a log shows.                                 *)
Asked(log)     == {r \in Requests : Contains(log, Ask(r))}
Claimed(log)   == {r \in Requests : Contains(log, Claim(r))}
Finished(log)  == {r \in Requests : Contains(log, Complete(r))}
Pending(log)   == Asked(log) \ Claimed(log)
NextRequest(log) == Cardinality(Asked(log)) + 1

(* open_image: rebuild what is stored, or start a new image.  The gate is    *)
(* what this process was started with.                                      *)
Open(p, gate) ==
  /\ sessions[p] = Down
  /\ sessions' = [sessions EXCEPT ![p] =
       [pc |-> "ready", log |-> Loadable(disk), saved |-> CurrentRoot(disk),
        gate |-> gate]]
  /\ UNCHANGED <<disk, past, history>>

(* The entries in memory, per session, that its last save does not hold.     *)
Unsaved == UNION {{p} \X (Len(sessions[p].saved) + 1 .. Len(sessions[p].log)) :
                     p \in {q \in Sessions : sessions[q] # Down}}

Ready(p) == sessions[p].pc = "ready"

(* The log has grown in memory; the save begins.  `then' is what the caller *)
(* does when it succeeds; when it fails the command is reported as failed.  *)
Commit(p, entry, then) ==
  /\ Len(sessions[p].log) < MaxEntries
  /\ Cardinality(Unsaved) < MaxUnsaved
  /\ sessions' = [sessions EXCEPT ![p] =
       [pc |-> "check", log |-> Append(sessions[p].log, entry),
        saved |-> sessions[p].saved, gate |-> sessions[p].gate, then |-> then]]
  /\ UNCHANGED <<disk, past, history>>

Stop == [next |-> "ready"]

(* A form in which an agent asks a model.                                   *)
Evaluate(p) ==
  /\ Ready(p)
  /\ NextRequest(sessions[p].log) \in Requests
  /\ Commit(p, Ask(NextRequest(sessions[p].log)), Stop)

(* dispatch_pending, for one request, where nothing is logged of a verdict:  *)
(* without a gate it goes ahead, as when the judge allows it.  A judge that  *)
(* does not answer leaves the request pending and changes nothing.          *)
Proceed(p, r, verdict) ==
  /\ Ready(p)
  /\ r \in Pending(sessions[p].log)
  /\ sessions[p].gate = "outside"
  /\ sessions' = [sessions EXCEPT ![p] =
       [pc |-> "claim", log |-> sessions[p].log, saved |-> sessions[p].saved,
        gate |-> sessions[p].gate, r |-> r, v |-> verdict]]
  /\ UNCHANGED <<disk, past, history>>

Consult_Unrecorded(p, r, verdict) ==
  /\ Ready(p)
  /\ r \in Pending(sessions[p].log)
  /\ sessions[p].gate = "world" /\ verdict # "unclear"
  /\ sessions' = [sessions EXCEPT ![p] =
       [pc |-> "claim", log |-> sessions[p].log, saved |-> sessions[p].saved,
        gate |-> sessions[p].gate, r |-> r, v |-> verdict]]
  /\ UNCHANGED <<disk, past, history>>

(* The same with a gate in the world: its evaluation commits, so what it says *)
(* is in the log before the claim is.                                       *)
Consult(p, r, verdict) ==
  /\ Ready(p)
  /\ r \in Pending(sessions[p].log)
  /\ sessions[p].gate = "world"
  /\ verdict = "unclear" =>
       Cardinality({i \in DOMAIN sessions[p].log :
                      sessions[p].log[i] = Judged(r, "unclear")}) < MaxUnclear
  /\ Commit(p, Judged(r, verdict),
       IF verdict = "unclear" THEN Stop
       ELSE [next |-> "claim", r |-> r, v |-> verdict])

ClaimRequest_InMemory(p) ==
  LET s == sessions[p] IN
  /\ s.pc = "claim"
  /\ sessions' = [sessions EXCEPT
       ![p].pc = IF s.v = "allow" THEN "launch" ELSE "answer",
       ![p].log = Append(@, Claim(s.r))]
  /\ UNCHANGED <<disk, past, history>>

ClaimRequest(p) ==
  LET s == sessions[p] IN
  /\ s.pc = "claim"
  /\ Commit(p, Claim(s.r), [next |-> IF s.v = "allow" THEN "launch" ELSE "answer",
                             r |-> s.r, v |-> s.v])

(* The provider runs; it answers or fails, and both are outcomes.           *)
Launch(p) ==
  LET s == sessions[p] IN
  /\ s.pc = "launch"
  /\ launches' = [launches EXCEPT ![s.r] = @ + 1]
  /\ vetted' = IF s.gate = "world" THEN vetted \cup {s.r} ELSE vetted
  /\ sessions' = [sessions EXCEPT ![p].pc = "answer"]
  /\ UNCHANGED <<disk, past, acknowledged>>

CompleteRequest(p) ==
  /\ sessions[p].pc = "answer"
  /\ Commit(p, Complete(sessions[p].r), Stop)
-----------------------------------------------------------------------------
(* ImageStore::write, one file operation at a time.  One session saves at a *)
(* time: the check is not a lock, and the documentation asks the deployment *)
(* for one.                                                                 *)
Saving == {"check", "write", "remove", "rotate", "install", "sync"}

Turn(p) == \A q \in Sessions \ {p} : sessions[q].pc \notin Saving \ {"check"}

Moves(p, pc) ==
  /\ sessions' = [sessions EXCEPT ![p].pc = pc]
  /\ UNCHANGED history

Directory(d) == disk' = d /\ past' = past \cup {d}

(* Every failure is reported and leaves the session as it was; what was     *)
(* done to the files stays done.                                            *)
Refused(p) ==
  /\ sessions' = [sessions EXCEPT ![p] =
       [pc |-> "ready", log |-> sessions[p].log, saved |-> sessions[p].saved,
        gate |-> sessions[p].gate]]
  /\ UNCHANGED <<disk, past, history>>

CheckRoot_Unchecked(p) ==
  /\ sessions[p].pc = "check" /\ Turn(p)
  /\ Moves(p, "write") /\ UNCHANGED <<disk, past>>

CheckRoot(p) ==
  /\ sessions[p].pc = "check" /\ Turn(p)
  /\ IF CurrentRoot(disk) = sessions[p].saved
     THEN Moves(p, "write") /\ UNCHANGED <<disk, past>>
     ELSE Refused(p)

WriteNew_RemovesFirst(p) ==
  /\ sessions[p].pc = "write"
  /\ Moves(p, IF disk.previous # Absent THEN "remove"
              ELSE IF disk.primary = Absent THEN "install" ELSE "rotate")
  /\ UNCHANGED <<disk, past>>

WriteNew(p) ==
  /\ sessions[p].pc = "write"
  /\ Moves(p, IF disk.primary = Absent THEN "install"
              ELSE IF disk.previous = Absent THEN "rotate" ELSE "remove")
  /\ UNCHANGED <<disk, past>>

RemovePrevious(p) ==
  /\ sessions[p].pc = "remove"
  /\ Directory([disk EXCEPT !.previous = Absent])
  /\ Moves(p, "rotate")

Rotate(p) ==
  /\ sessions[p].pc = "rotate"
  /\ Directory([primary |-> Absent, previous |-> disk.primary])
  /\ Moves(p, "install")

Install(p) ==
  /\ sessions[p].pc = "install"
  /\ Directory([disk EXCEPT !.primary = sessions[p].log])
  /\ Moves(p, "sync")

SyncDirectory(p) ==
  LET s == sessions[p] IN
  /\ s.pc = "sync"
  /\ past' = {disk}
  /\ sessions' = [sessions EXCEPT ![p] =
       IF s.then = Stop
       THEN [pc |-> "ready", log |-> s.log, saved |-> s.log, gate |-> s.gate]
       ELSE [pc |-> s.then.next, log |-> s.log, saved |-> s.log, gate |-> s.gate,
             r |-> s.then.r, v |-> s.then.v]]
  /\ acknowledged' = s.log
  /\ UNCHANGED <<disk, launches, vetted>>

(* Any file operation of the save fails.                                    *)
DeviceRefuses(p) == sessions[p].pc \in Saving \ {"check"} /\ Refused(p)
-----------------------------------------------------------------------------
Crash(p) ==
  /\ sessions[p] # Down
  /\ sessions' = [sessions EXCEPT ![p] = Down]
  /\ UNCHANGED <<disk, past, history>>

(* Power fails: what the directory was not synced since may be undone.      *)
PowerFails ==
  /\ \E p \in Sessions : sessions[p] # Down
  /\ sessions' = [p \in Sessions |-> Down]
  /\ disk' \in past
  /\ past' = {disk'}
  /\ UNCHANGED history

Save(p) ==
  \/ CheckRoot(p) \/ WriteNew(p) \/ RemovePrevious(p) \/ Rotate(p)
  \/ Install(p) \/ SyncDirectory(p) \/ DeviceRefuses(p)

Dispatch(p) ==
  \/ \E r \in Requests, v \in {"allow", "deny"} : Proceed(p, r, v)
  \/ \E r \in Requests, v \in {"allow", "deny", "unclear"} : Consult(p, r, v)
  \/ ClaimRequest(p) \/ Launch(p) \/ CompleteRequest(p)

ImageNext ==
  \/ \E p \in Sessions, gate \in Gates : Open(p, gate)
  \/ \E p \in Sessions : Evaluate(p) \/ Dispatch(p) \/ Save(p) \/ Crash(p)
  \/ PowerFails

ImageSpec == ImageInit /\ [][ImageNext]_imageVars
-----------------------------------------------------------------------------
(* Properties.                                                              *)

(* Well-formed sessions and files; what a session last saved is the start of *)
(* the log it holds.                                                        *)
ImageTypeOK ==
  /\ disk \in past
  /\ \A d \in past : \A log \in {d.primary, d.previous} :
       Range(log) \subseteq Entries
  /\ \A p \in Sessions : sessions[p] # Down =>
       /\ sessions[p].pc \in {"ready", "claim", "launch", "answer"} \cup Saving
       /\ Range(sessions[p].log) \subseteq Entries
       /\ IsPrefix(sessions[p].saved, sessions[p].log)
       /\ sessions[p].gate \in Gates

(* A model request is paid for at most once, whatever crashes and whoever    *)
(* opens the image next, with whatever gate: no launch without a durable    *)
(* claim, and no claim of what is claimed (claim_model_request and persist, *)
(* main.rs:385-398).  What a session with a gate in the world launched was   *)
(* allowed there, and the log on disk says so for ever, the verdict before   *)
(* the claim (dispatch_pending, main.rs:1085, 1117); of the other sessions' *)
(* launches the log holds the claim alone.                                  *)
PaidOnceAndAudited ==
  /\ ImageTypeOK
  /\ \A r \in Requests :
       /\ launches[r] <= 1
       /\ launches[r] > 0 => \A d \in past : Contains(Loadable(d), Claim(r))
       /\ r \in vetted =>
            \A d \in past : \E i, j \in DOMAIN Loadable(d) :
              i < j /\ Loadable(d)[i] = Judged(r, "allow") /\ Loadable(d)[j] = Claim(r)

(* The files implement one append-only log: no session builds on a log the   *)
(* store has left, and no crash loses what was acknowledged (agel-image lib.rs:474).*)
Log == INSTANCE DurableLog WITH log <- Loadable(disk)

ImplementsLog == Log!LogSpec
=============================================================================
