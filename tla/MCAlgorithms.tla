---------------------------- MODULE MCAlgorithms ----------------------------
(* The program's sequential algorithms for TLC: the two formats that          *)
(* echo-worker-cpp reads and writes, AMQP frames and JSON, and the split of   *)
(* an image into cells.  A behaviour takes a frame, a document or an image,   *)
(* and the rest of the state stays as it is.                                  *)
EXTENDS MCAmqpCodec, MCJson, MCGrid

NoFrameSent ==
    /\ pc = "none" /\ frame = NoFrame /\ room = 0 /\ wire = <<>> /\ cut = FALSE
    /\ result = Bad("NONE") /\ clone = Fail("NONE") /\ merge = <<>>

NoDocument ==
    /\ subject = "none" /\ doc = <<>> /\ probe = Idle /\ parsed = ReaderStart
    /\ scalar = NoScalar /\ array = EmptyArray /\ items = [ok |-> TRUE, seq |-> <<>>]

NoImage ==
    /\ phase = "none" /\ sizeX = 0 /\ sizeY = 0 /\ x = 0 /\ y = 0 /\ cells = <<>>
    /\ aoi = CHOOSE a \in Aoi : TRUE

AlgorithmsInit == \/ CodecInit /\ NoDocument /\ NoImage
                  \/ NoFrameSent /\ JsonInit /\ NoImage
                  \/ NoFrameSent /\ NoDocument /\ Init

AlgorithmsNext == \/ pc # "none" /\ CodecNext /\ UNCHANGED <<jsonVars, vars>>
                  \/ subject # "none" /\ JsonNext /\ UNCHANGED <<codecVars, vars>>
                  \/ phase # "none" /\ Next /\ UNCHANGED <<codecVars, jsonVars>>

AlgorithmsSpec == AlgorithmsInit /\ [][AlgorithmsNext]_<<codecVars, jsonVars, vars>>
=============================================================================
