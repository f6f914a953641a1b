------------------------------ MODULE MCSender ------------------------------
(* Instances of Sender for TLC.                                            *)
EXTENDS Sender, TLC

(* Queueing the packets one by one, as send_chunk does, gives Filled.      *)
ASSUME FillIsTheLoop ==
  LET queued[k \in 0 .. BufferLen] ==
        IF k = 0 THEN InitSender ELSE CtlUdpSend(queued[k - 1])
  IN  queued[BufferLen] = Filled
=============================================================================
