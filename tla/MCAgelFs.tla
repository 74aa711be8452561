------------------------------ MODULE MCAgelFs ------------------------------
(* One region of a few blocks, a root and two entries in two sectors.        *)
EXTENDS AgelFs

CONSTANTS a, c

MCEntries == 0 .. 2
MCBlocks == 0 .. 1
MCNames == {a, c}
MCRoots == {0, 1}
MCPaths == {<<>>, <<a>>, <<c>>, <<Data>>, <<a, c>>, <<"..">>}
Move(old, directory, name) == [old |-> old, directory |-> directory, name |-> name]
MCMoves == {Move(<<a>>, <<>>, c), Move(<<a>>, <<c>>, a), Move(<<c>>, <<a>>, c),
            Move(<<a>>, <<a, c>>, a), Move(<<a>>, <<>>, Data), Move(<<a, c>>, <<>>, c)}
MCOffsets == {1, 3}

(* A region that is no longer whole is not followed further: nothing but     *)
(* its shape is promised of it.                                              *)
Followed == whole

(* Without formats that fail: one leaves an empty bitmap over the old entries *)
(* at its first write, which is a shorter way to a block nobody marks.       *)
FormatsAreWhole == FormatRegion => stops' = 0
MCWholeFormats == FsInit /\ [][FsNext /\ FormatsAreWhole]_fsVars
=============================================================================
