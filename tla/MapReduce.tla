----------------------------- MODULE MapReduce -----------------------------
(***************************************************************************)
(* What the orchestrator promises, without queues, rows or threads: a      *)
(* processing is accepted, all of its tiles are planned at once and only   *)
(* once, planned tiles are mapped in any order, and a processing is        *)
(* reduced only when every one of its tiles is mapped.  A reduction may    *)
(* be repeated: the merger is idempotent.                                  *)
(***************************************************************************)
CONSTANTS Processing, Worker, ProcOf

VARIABLES
  accepted,  \* processings that were requested
  planned,   \* tiles that belong to the plan of their processing
  mapped,    \* tiles that have been made
  reduced    \* processings handed to the merger

Tiles(p) == {w \in Worker : ProcOf[w] = p}

Init == accepted = {} /\ planned = {} /\ mapped = {} /\ reduced = {}

Accept(p) ==
  /\ accepted' = accepted \cup {p}
  /\ UNCHANGED <<planned, mapped, reduced>>

\* The plan of a processing is made in one step and never extended.
Plan(p) ==
  /\ p \in accepted
  /\ planned \cap Tiles(p) = {}
  /\ planned' = planned \cup Tiles(p)
  /\ UNCHANGED <<accepted, mapped, reduced>>

Map(w) ==
  /\ w \in planned
  /\ mapped' = mapped \cup {w}
  /\ UNCHANGED <<accepted, planned, reduced>>

Reduce(p) ==
  /\ p \in accepted
  /\ Tiles(p) \subseteq planned \cap mapped
  /\ reduced' = reduced \cup {p}
  /\ UNCHANGED <<accepted, planned, mapped>>

Next ==
  \/ \E p \in Processing : Accept(p) \/ Plan(p) \/ Reduce(p)
  \/ \E w \in Worker : Map(w)

vars == <<accepted, planned, mapped, reduced>>

Spec == Init /\ [][Next]_vars
=============================================================================
