------------------------------- MODULE MCFiles -------------------------------
(***************************************************************************)
(* The readers of files and packets.  They share nothing, so that a        *)
(* behaviour is one of one of them: the batches of CIFAR-10, in batches of *)
(* two items and with limits up to more than they hold; a configuration    *)
(* file; or a packet with parts of small sizes.                            *)
(***************************************************************************)
EXTENDS CifarBatches, ConfigFile, WireData

VARIABLE subject  \* "batches", "config" or "packet"

MCLimits == 0 .. 9
MCSizes  == 1 .. 3

NoBatches == BatchStart({[f \in 0 .. Batches |-> Missing]}, {0})
NoConfig  == ConfigStart({NoFile})
NoPacket  == WireInit /\ kind = "resreq"

Init ==
    \/ subject = "batches" /\ BatchInit /\ NoConfig /\ NoPacket
    \/ subject = "config" /\ ConfigInit /\ NoBatches /\ NoPacket
    \/ subject = "packet" /\ WireInit /\ NoBatches /\ NoConfig

Next ==
    /\ \/ subject = "batches" /\ BatchNext /\ UNCHANGED <<configVars, wireVars>>
       \/ subject = "config" /\ ConfigNext /\ UNCHANGED <<batchVars, wireVars>>
       \/ subject = "packet" /\ WireNext /\ UNCHANGED <<batchVars, configVars>>
    /\ UNCHANGED subject

Spec == Init /\ [][Next]_<<batchVars, configVars, wireVars, subject>>
=============================================================================
