----------------------------- MODULE FileBytes -----------------------------
(***************************************************************************)
(* What the filesystem service promises of the bytes of its files, with no  *)
(* blocks, no bitmap and no directory: a file is a sequence of bytes that    *)
(* changes only as one request asks, and bytes nobody wrote are zero.        *)
(***************************************************************************)
EXTENDS Integers, Sequences

CONSTANTS Files, MaxFile, MaxRequest

VARIABLES
  bytes,           \* [Files -> sequence of 0 and 1, or NoFile]
  trusted          \* nothing has happened the service does not answer for

bytesVars == <<bytes, trusted>>

NoFile == <<-1>>      \* no sequence of bytes
Zero == 0
Written == 1       \* any byte a request carried

ExtendedTo(old, length) ==
  [k \in 1 .. length |-> IF k <= Len(old) THEN old[k] ELSE Zero]

(* What a write of count bytes at offset makes of a file.                   *)
Overlaid(old, offset, count) ==
  LET end == IF offset + count > Len(old) THEN offset + count ELSE Len(old) IN
  [k \in 1 .. end |-> IF k \in offset + 1 .. offset + count THEN Written
                      ELSE IF k <= Len(old) THEN old[k] ELSE Zero]

(* What one request may make of the file it is for.                         *)
Appears(old, new)    == old = NoFile /\ new = <<>>
Disappears(old, new) == old # NoFile /\ new = NoFile
Resized(old, new) ==
  old # NoFile /\ new # NoFile /\ new = ExtendedTo(old, Len(new))
Stored(old, new) ==
  /\ old # NoFile /\ new # NoFile
  /\ \E offset \in 0 .. MaxFile, count \in 1 .. MaxRequest :
       new = Overlaid(old, offset, count)
(* A write that stops part way leaves some of its bytes, and the length.    *)
PartlyStored(old, new) ==
  /\ old # NoFile /\ new # NoFile
  /\ \E offset \in 0 .. MaxFile, count \in 1 .. MaxRequest :
       new = SubSeq(Overlaid(old, offset, count), 1, Len(old))

BytesInit == trusted = TRUE /\ bytes = [f \in Files |-> NoFile]

Request(now, next, f) ==
  /\ \A g \in Files \ {f} : next[g] = now[g]
  /\ \/ Appears(now[f], next[f])
     \/ Disappears(now[f], next[f])
     \/ Resized(now[f], next[f])
     \/ Stored(now[f], next[f])
     \/ PartlyStored(now[f], next[f])

Formatted(next) == next = [f \in Files |-> NoFile]

BytesNext ==
  \/ /\ trusted /\ trusted'
     /\ LET now == bytes  next == bytes' IN
        now = next \/ Formatted(next) \/ \E f \in Files : Request(now, next, f)
  \/ ~trusted \/ ~trusted'

BytesSpec == BytesInit /\ [][BytesNext]_bytesVars
=============================================================================
