-------------------------- MODULE MC_TaskHandlers --------------------------
(* Five deliveries over two handler tasks and a cache of one, so that a    *)
(* finished delivery is forgotten as soon as another one finishes.         *)
EXTENDS TaskHandlers
MCKeys == {"complete", "ack", "event", "bad", "garbled"}
MCModes == [k \in MCKeys |-> CASE k = "ack" -> "ACKNOWLEDGMENT"
                               [] k = "event" -> "FIRE_AND_FORGET"
                               [] OTHER -> "COMPLETE"]
MCMaxReceived == [k \in MCKeys |-> CASE k = "complete" -> 3
                                     [] k = "ack" -> 2
                                     [] OTHER -> 1]
MCSlots == {1, 2}
============================================================================
