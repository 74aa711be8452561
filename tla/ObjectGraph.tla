----------------------------- MODULE ObjectGraph -----------------------------
(***************************************************************************)
(* What a compiled program may rely on, however its storage is moved:      *)
(* objects have an identity and never change, nothing that can still be    *)
(* reached from what the program holds is lost, and a function that waits  *)
(* for another finds what it held as it left it.                           *)
(***************************************************************************)
EXTENDS Naturals, Sequences, FiniteSets, Functions, SequencesExt

VARIABLES
  graph,      \* per object: its kind and the objects it refers to, in order
  stack,      \* per activation, outermost first: its frame and what it holds
  cached      \* per constant and builtin that has been used, its object

(* Everything that can be reached from the objects `from'.                 *)
Reached(g, from) ==
  LET reached[S \in SUBSET Nat] ==
        LET next == S \cup UNION {Range(g[o].refs) : o \in S \cap DOMAIN g}
        IN IF next = S THEN S ELSE reached[next]
  IN reached[from]

Held(activations, caches) ==
  Range(caches) \cup UNION {{a.env} \cup Range(a.registers) : a \in Range(activations)}

Usable == Reached(graph, Held(stack, cached))

(* Storage may be reclaimed in any step, but what stays is as it was.  A   *)
(* new object refers to usable ones; a new frame holds the items of a list *)
(* over the environment of a closure.                                      *)
GraphChanges(old, new, usable) ==
  LET made == DOMAIN new \ DOMAIN old IN
  /\ \A o \in DOMAIN new \ made : new[o] = old[o]
  /\ \A o \in made :
       /\ Range(new[o].refs) \subseteq usable \cup made
       /\ new[o].kind = "frame" =>
            \E function, arguments \in usable :
              /\ old[function].kind = "closure"
              /\ old[arguments].kind \in {"nil", "list"}
              /\ new[o].refs = old[arguments].refs \o old[function].refs

(* Only the topmost activation runs, and a caller goes on with one value   *)
(* more than it had.                                                       *)
CallersWait(old, new) ==
  \A i \in 1 .. Len(old) - 1 :
    /\ i < Len(new) => new[i] = old[i]
    /\ i = Len(new) => /\ new[i].env = old[i].env
                       /\ Front(new[i].registers) = old[i].registers

GraphInit == Usable \subseteq DOMAIN graph

GraphStep ==
  LET old == graph
      new == graph'
      usable == Reached(old, Held(stack, cached))
      held == Held(stack', cached') IN
  /\ GraphChanges(old, new, usable)
  /\ CallersWait(stack, stack')
  /\ \A key \in DOMAIN cached : key \in DOMAIN cached' /\ cached'[key] = cached[key]
  /\ held \subseteq usable \cup (DOMAIN new \ DOMAIN old)
  /\ Reached(new, held) \subseteq DOMAIN new

GraphSpec == GraphInit /\ [][GraphStep]_<<graph, stack, cached>>
=============================================================================
