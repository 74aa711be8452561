---------------------------- MODULE MCImageSessions ----------------------------
EXTENDS ImageSessions

CONSTANTS one, two

MCSessions == {one, two}
MCOneSession == {one}
MCRequests == 1 .. 1
MCSymmetry == Permutations(MCSessions)
=============================================================================
