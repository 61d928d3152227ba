--------------------------- MODULE MCFileTransfer ---------------------------
(* The ways of starting the two programs in the TLC runs. *)
EXTENDS FileTransfer

\* Every protocol, with a terminal at the server (not on UDP) and without, and
\* room on the disk.  Keepalive mode only holds back what the other mode may do.
OnEveryProtocol ==
    {m \in Mode : ~m.keepalive /\ ~m.diskfull /\ (m.proto = "udp" => ~m.interactive)}

\* Over TCP to a server without a terminal, whatever else.
OverTcp == {m \in Mode : m.proto = "tcp" /\ ~m.interactive}

OverTcpToFullDisk == {m \in OverTcp : m.diskfull /\ ~m.keepalive}
=============================================================================
