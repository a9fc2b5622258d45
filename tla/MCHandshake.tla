------------------------------ MODULE MCHandshake -------------------------------
(* Three devices and three handshakes: partners, a third party, a packet of an *)
(* older handshake, and two objects of one device for one peer.                *)
EXTENDS Handshake, TLC

MCSymmetry == Permutations(Devices) \cup Permutations(Objects)
=================================================================================
