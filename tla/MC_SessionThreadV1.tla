------------------------ MODULE MC_SessionThreadV1 ------------------------
(* Model-checking instance of SessionThreadV1; the constants are given   *)
(* in the .cfg files.                                                      *)
EXTENDS SessionThreadV1, TLC

Server(acc, weak) == [accepts |-> acc, weak |-> weak]

(* A server that completes only SslV3, so that the ladder walks down;   *)
(* one that completes Any with SSL errors and TlsV1 cleanly.            *)
MCServers == {Server({"SslV3"}, {}), Server({"Any", "TlsV1"}, {"Any"})}

MCRefusing == {Server({}, {})}

MCTlsV1 == {Server({"TlsV1"}, {})}
=============================================================================
