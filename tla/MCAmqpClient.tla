---------------------------- MODULE MCAmqpClient -----------------------------
(* The listener and one other client, on one channel; and the other client    *)
(* alone on two, with messages without a body.                                *)
EXTENDS AmqpClient

OneChannel == {1}
BodyFrames == {0, 2}
ListenerOrOther == {FALSE, TRUE}

TwoChannels == {1, 2}
NoBody == {0}
OtherOnly == {TRUE}
==============================================================================
