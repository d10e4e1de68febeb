----------------------------- MODULE FrameStream -----------------------------
(* What the input side of a connection promises: the frames the broker sent   *)
(* come out one at a time and in order, the ones of an unknown type left out, *)
(* until the connection fails.                                                *)
EXTENDS Integers, Sequences

CONSTANTS
  Frames,       \* what the broker may send
  Known(_)      \* a frame of a type the client knows

VARIABLES
  sent,         \* the frames sent so far
  delivered     \* the numbers of the ones that came out

LastOf(s) == IF s = <<>> THEN 0 ELSE s[Len(s)]

Init == sent = <<>> /\ delivered = <<>>

Send(f) == sent' = Append(sent, f) /\ UNCHANGED delivered

Deliver(n) ==
  /\ Known(sent[n])
  /\ \A i \in (LastOf(delivered) + 1)..(n - 1) : ~Known(sent[i])
  /\ delivered' = Append(delivered, n)
  /\ UNCHANGED sent

Next ==
  \/ \E f \in Frames : Send(f)
  \/ \E n \in (LastOf(delivered) + 1)..Len(sent) : Deliver(n)

Spec == Init /\ [][Next]_<<sent, delivered>>
==============================================================================
