------------------------------- MODULE MCPeer -------------------------------
(***************************************************************************)
(* Small instances of Peer for TLC: the sets of datagrams the network may  *)
(* deliver, chosen by the run, and the powers of two.                      *)
(***************************************************************************)
EXTENDS Peer

CONSTANTS a1, a2, me, u1, u2

MCPow2 == [n \in 0..MAX_SENDS |-> 2 ^ n]

Datagram(a, tlvs) == [from |-> a, tlvs |-> tlvs, valid |-> TRUE]

Short(u)  == Hello(u, NoId)
Long(u)   == Hello(u, me)
Id(u, n)  == [sender |-> u, nonce |-> n]

\* Discovery: hellos of every kind, a neighbour's address, and a
\* farewell.
Discovery ==
  {Datagram(a1, <<Short(u1)>>), Datagram(a1, <<Long(u1)>>),
   Datagram(a1, <<GoAway("QUIT")>>),
   Datagram(a2, <<Hello(u2, u1), Neighbour(a1)>>), Datagram(a2, <<Long(u2)>>),
   Datagram(a2, <<Short(me)>>)}

\* Flooding: two neighbours that may name us, data, copies and Acks.
Flooding ==
  {Datagram(a1, <<Long(u1)>>), Datagram(a2, <<Long(u2)>>),
   Datagram(a1, <<Data(Id(u1, 1))>>), Datagram(a2, <<Data(Id(u1, 1))>>),
   Datagram(a2, <<Ack(Id(u1, 1))>>), Datagram(a1, <<Ack(Id(me, 1))>>)}

\* Remembering: one neighbour, its hellos, data repeated at any time, and a
\* farewell in a packet with a malformed TLV.
Remembering ==
  {Datagram(a1, <<Short(u1)>>), Datagram(a1, <<Hello(u1, u2)>>),
   Datagram(a1, <<Long(u1)>>),
   Datagram(a1, <<Data(Id(u1, 1))>>),
   Datagram(a1, <<Long(u1), Data(Id(u2, 1))>>),
   Datagram(a1, <<Neighbour(a1), Data(Id(me, 1))>>),
   [from |-> a1, tlvs |-> <<GoAway("QUIT")>>, valid |-> FALSE]}
=============================================================================
