--------------------------- MODULE MCKernelMemory ---------------------------
(***************************************************************************)
(* A domain with its cnode, its frame and its address space, two frames in *)
(* all and two pages.                                                      *)
(***************************************************************************)
EXTENDS KernelMemory

MCMemRights ==
  {{"write", "execute", "grant"}, {"write", "execute"}, {"write"}, {"execute"}}
MCRights == {{"execute"}}
=============================================================================
