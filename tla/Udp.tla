-------------------------------- MODULE Udp --------------------------------
(***************************************************************************)
(* The UDP sockets of a data hub and of its data links                     *)
(* (librcom/src/net.c).                                                    *)
(*                                                                         *)
(* A packet is its sender: the properties of the data hub are about where  *)
(* packets come from and go to.  A packet may be lost, and is dropped when *)
(* the buffer of the receiver is full or its socket is closed.             *)
(***************************************************************************)
EXTENDS Naturals, Sequences

CONSTANTS Hub,      \* the address of the hub
          Links,    \* the links, and their addresses
          Others,   \* the addresses of links that are not modelled in detail
          MaxQueue  \* the number of packets that the buffer of a socket holds

Peers == Links \cup Others
Sockets == Links \cup {Hub}

ASSUME UdpAssumption == Hub \notin Peers /\ MaxQueue \in Nat \ {0}

VARIABLES
    queue,      \* queue[a]: the packets waiting in socket a
    open        \* the sockets that are open

udpVars == <<queue, open>>

UdpInit == /\ queue = [a \in Sockets |-> <<>>]
           /\ open = Sockets

(* udp_socket_send to every address of S returns 0; the packets to D       *)
(* arrive.                                                                 *)
udp_socket_send(from, S) ==
    /\ \E D \in SUBSET (S \cap open) :
        queue' = [a \in Sockets |-> IF a \in D /\ Len(queue[a]) < MaxQueue
                                    THEN Append(queue[a], from)
                                    ELSE queue[a]]
    /\ UNCHANGED open

(* udp_socket_read waits for a packet and takes it: the second argument is *)
(* what recvfrom stores as the address of the sender.                      *)
udp_socket_read(a, sender) ==
    /\ queue[a] # <<>>
    /\ sender = Head(queue[a])
    /\ queue' = [queue EXCEPT ![a] = Tail(@)]
    /\ UNCHANGED open

close_udp_socket(a) ==
    /\ open' = open \ {a}
    /\ queue' = [queue EXCEPT ![a] = <<>>]
=============================================================================
