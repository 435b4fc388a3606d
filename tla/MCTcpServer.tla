----------------------------- MODULE MCTcpServer -----------------------------
(* Instances of TcpServer for TLC: a socket its user makes and connects, and *)
(* one for accepted clients, which its user only disconnects and destroys.   *)
EXTENDS TcpServer, TLC

CONSTANTS client, worker

FewFds == 0..1
ClientAndWorker ==
  (client :> {"connect", "setDataCb", "setOutDataCb", "setEmptyCb", "clearDataCb", "clearOutDataCb"})
    @@ (worker :> {})
=============================================================================
