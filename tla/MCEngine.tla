------------------------------ MODULE MCEngine -------------------------------
(* Small instances of Engine for TLC.  "ruled" is a host with a rule, "shunned" an
   excluded one that a rule would match too.                                   *)
EXTENDS Engine, TLC

CONSTANTS ruled, shunned, none, norule

(* Rules for names only: nothing matches a packet whose host is unknown. *)
NameRules ==
    [pair \in (Names \cup {none}) \X (TcpKeys \cup UdpKeys) |->
        IF pair[1] \in {ruled, shunned}
        THEN IF pair[2] \in TcpKeys THEN TcpStrategy ELSE "quic_fake"
        ELSE norule]
=============================================================================
