---------------------------- MODULE KernelTypes ----------------------------
(***************************************************************************)
(* The vocabulary of the Agel kernel contract (crates/agel-kernel-abi):    *)
(* rights, object kinds, reply statuses, and the way the code chains its   *)
(* checks.  A rights word is the set of the rights whose bits it has; a    *)
(* word with a bit the contract does not define is a set with a member     *)
(* outside AllRights.                                                      *)
(***************************************************************************)
EXTENDS Integers, FiniteSets

\* Rights::ALL.
AllRights == {"read", "write", "execute", "send", "receive", "grant", "control"}

\* What a frame capability made by frame.allocate may carry (FRAME_RIGHTS),
\* and what a mapping may carry (MAPPING_RIGHTS).
FrameRights   == {"read", "write", "execute", "grant"}
MappingRights == {"read", "write", "execute"}

\* ObjectType, those the conformance domain holds objects of.
Kinds == {"null", "cnode", "endpoint", "notification", "frame", "clock",
          "address-space"}

\* Status, those the two implementations can answer.
Statuses == {"ok", "invalid-operation", "invalid-capability",
             "wrong-object-type", "insufficient-rights", "invalid-argument",
             "would-block", "queue-full", "not-found", "already-exists",
             "revoked", "resource-exhausted", "not-permitted"}

(***************************************************************************)
(* Checks are made in order and the first that fails is the answer: the    *)
(* match-and-return chains of the code, its `?`.                           *)
(***************************************************************************)
a ?? b == IF a = "ok" THEN b ELSE a

Require(condition, status) == IF condition THEN "ok" ELSE status

\* Reserved argument words must be zero, so that giving one a meaning later
\* cannot change what an old caller asked for.
Reserved(zero) == Require(zero, "invalid-argument")
=============================================================================
