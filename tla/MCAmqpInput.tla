----------------------------- MODULE MCAmqpInput -----------------------------
(* Sizes around the alignment and the two page sizes, each kind of frame. *)
EXTENDS AmqpInput

Frame(type, channel, size, decoded, intact) ==
  [type |-> type, channel |-> channel, size |-> size, decoded |-> decoded, intact |-> intact]

MCFrames == {Frame("PROTOCOL", 0, 0, 0, TRUE), Frame("METHOD", 0, 4, 8, TRUE), Frame("HEARTBEAT", 0, 0, 0, TRUE),
             Frame("METHOD", 1, 4, 24, TRUE), Frame("BODY", 1, 1, 0, TRUE), Frame("BODY", 1, 12, 0, TRUE),
             Frame("OTHER", 1, 0, 0, TRUE), Frame("BODY", 0, 1, 0, FALSE)}
==============================================================================
