--------------------------- MODULE ImageProcessing ---------------------------
(***************************************************************************)
(* What the services promise together, without queues, rows, files or      *)
(* consumers: a processing is requested, its tiles are made in any order,  *)
(* its result is built when all of them are made, and it is shown complete *)
(* when it is built.  Nothing is ever taken back.                          *)
(***************************************************************************)
CONSTANTS Processing, Worker, ProcOf

VARIABLES
  requested,  \* processings a user asked for
  made,       \* tiles that are made
  built,      \* processings with a result
  shown,      \* processings the tracker shows complete
  recounted   \* work that was reported twice may have been counted twice

vars == <<requested, made, built, shown, recounted>>

Tiles(p) == {w \in Worker : ProcOf[w] = p}

Init == requested = {} /\ made = {} /\ built = {} /\ shown = {} /\ recounted = FALSE

Request(p) ==
  /\ requested' = requested \cup {p}
  /\ UNCHANGED <<made, built, shown, recounted>>

Make(w) ==
  /\ ProcOf[w] \in requested
  /\ made' = made \cup {w}
  /\ UNCHANGED <<requested, built, shown, recounted>>

Build(p) ==
  /\ p \in requested
  /\ Tiles(p) \subseteq made
  /\ built' = built \cup {p}
  /\ UNCHANGED <<requested, made, shown, recounted>>

Show(p) ==
  /\ p \in built \/ recounted
  /\ shown' = shown \cup {p}
  /\ UNCHANGED <<requested, made, built, recounted>>

\* A callback is delivered twice because the orchestrator asked twice.
Recount ==
  /\ recounted' = TRUE
  /\ UNCHANGED <<requested, made, built, shown>>

Next ==
  \/ \E p \in Processing : Request(p) \/ Build(p) \/ Show(p)
  \/ \E w \in Worker : Make(w)
  \/ Recount

Spec == Init /\ [][Next]_vars
=============================================================================
