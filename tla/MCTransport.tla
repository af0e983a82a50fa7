----------------------------- MODULE MCTransport -----------------------------
(*****************************************************************************)
(* The transport for TLC: the reliable channel, the replay window, the       *)
(* packet rings, the two-class queues, the UDP worker, and what keeps a      *)
(* connection to its share: admission, the ingress policer, the memory quota *)
(* and the impairment harness.  They share no state, so every behaviour      *)
(* exercises one of them while the others stay as they were created.         *)
(*****************************************************************************)
EXTENDS ReliableChannel, ReplayWindow, PacketQueues, TrafficControl

CONSTANT FewMessages     \* messages of the connection whose progress is checked

VARIABLE part            \* the part this behaviour exercises

(* A connection short enough to check that it makes progress. *)
Steady == INSTANCE ReliableChannel WITH MaxMessages <- FewMessages

transportVars == <<part, chanVars, windowVars, queueVars, bpVars, ioVars, trafficVars>>

TransportInit ==
    /\ part \in {"channel", "steady", "window", "ring", "classes", "worker",
               "admission", "quota", "harness"}
    /\ ChanInit /\ WindowInit /\ QueueInit /\ BackpressureInit /\ IoInit
    /\ TrafficInit
    /\ part # "classes" => ingressSide
    /\ part # "worker" => prioritized /\ sendFails = {}

TrafficNext ==
    \/ part = "admission" /\ AdmissionNext /\ UNCHANGED <<quotaVars, harnessPartVars>>
    \/ part = "quota" /\ QuotaNext /\ UNCHANGED <<admissionVars, harnessPartVars>>
    \/ part = "harness" /\ HarnessPartNext /\ UNCHANGED <<admissionVars, quotaVars>>

TransportNext ==
    /\ UNCHANGED part
    /\ \/ /\ \/ part = "channel" /\ ChanNext
             \/ part = "steady" /\ Steady!ChanNext
          /\ UNCHANGED <<windowVars, queueVars, bpVars, ioVars, trafficVars>>
       \/ /\ part = "window" /\ WindowNext
          /\ UNCHANGED <<chanVars, queueVars, bpVars, ioVars, trafficVars>>
       \/ /\ part = "ring" /\ QueueNext
          /\ UNCHANGED <<chanVars, windowVars, bpVars, ioVars, trafficVars>>
       \/ /\ part = "classes" /\ BackpressureNext
          /\ UNCHANGED <<chanVars, windowVars, queueVars, ioVars, trafficVars>>
       \/ /\ part = "worker" /\ IoNext
          /\ UNCHANGED <<chanVars, windowVars, queueVars, bpVars, trafficVars>>
       \/ TrafficNext /\ UNCHANGED <<chanVars, windowVars, queueVars, bpVars, ioVars>>

(* The fairness of ChanLiveSpec, for the short connection. *)
TransportSpec ==
    /\ TransportInit /\ [][TransportNext]_transportVars
    /\ WF_chanVars(part = "steady" /\ Steady!check_retransmissions)
    /\ WF_chanVars(part = "steady" /\ Steady!drain_next_ordered_packet)
    /\ SF_chanVars(part = "steady" /\ Steady!process_remote_ack)
    /\ \A k \in 1..FewMessages : SF_chanVars(part = "steady" /\ Steady!receive(k))

-------------------------------------------------------------------------------
(* Every message queued on the short connection is delivered unless the *)
(* connection times out (channel.rs:266-310).                           *)
SteadyDelivered == part = "steady" => Steady!EventuallyDelivered

(* The packet ring and the two-class queue shed as the abstract queue does:  *)
(* packets leave in the order they came, a full one gives up its oldest      *)
(* unreliable packet for a new one and never a reliable one, through every   *)
(* wrap-around and removal from the middle (queue.rs, backpressure.rs).      *)
QueuesShed == ImplementsFifo /\ ImplementsShedding

(* The rings and the counts kept beside them agree through every push, pop,  *)
(* eviction and partial batch, a reliable packet is refused only by a queue  *)
(* full of them, and no datagram or reply of the worker goes uncounted       *)
(* (queue.rs, backpressure.rs, io.rs).                                       *)
QueuesConsistent ==
    /\ SlotsMatch
    /\ CountsAgree
    /\ ReliableRefusedOnlyWhenFull
    /\ AllAccounted
    /\ RepliesSent
===============================================================================
