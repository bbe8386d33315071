------------------------------ MODULE MCPeerSync ------------------------------
(* An instance of PeerSync for TLC. *)
EXTENDS PeerSync

FewLocs == 0 .. 2
OneId == {1}
OneName == {1}

(* An erase that was cut short reached the first halfwords, or the last. *)
Ends == {1 .. k : k \in 0 .. Size} \cup {k .. Size : k \in 1 .. Size}
=============================================================================
