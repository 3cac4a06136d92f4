------------------------------ MODULE MCSlamIo ------------------------------
(* SlamIo with a few connections over two descriptors.                     *)
EXTENDS SlamIo, TLC

\* peers are interchangeable: nothing depends on who connects
PeerSymmetry == Permutations(Peer)
=============================================================================
