---------------------------- MODULE MCAmqpSession ----------------------------
(* Limits with and without heartbeats, and none (0) for the channels.         *)
EXTENDS AmqpSession

Limit(channels, frames, seconds) ==
  [channel_max |-> channels, frame_max |-> frames, heartbeat |-> seconds]

MCLimits == {Limit(0, 2, 1), Limit(1, 1, 2), Limit(2, 3, 0)}
MCTimeouts == {2, Infinite}
==============================================================================
