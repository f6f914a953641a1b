------------------------------- MODULE Sender -------------------------------
(***************************************************************************)
(* One sender, from the GET that opens it to the ACK or the silence that   *)
(* closes it.  The peer is any peer: an ACK of any number may arrive at    *)
(* any moment, which covers lost, repeated and reordered ACKs and those of *)
(* an earlier connection with the same peer (an ACK does not say which     *)
(* chunk it is of), or none ever again.                                    *)
(***************************************************************************)
EXTENDS Send

CONSTANT Period    \* units of time between ticks of the select loop, at least

ASSUME PeriodAssumption == Period \in Nat \ {0} /\ Period > AckTimeout

VARIABLES
  sender,     \* the sender
  since_tick, \* the time since the select loop ticked, up to Period
  wrapped,    \* the program's time no longer fits an int
  sent        \* the positions sent by the last step

senderVars == <<sender, since_tick, wrapped, sent>>

SenderInit ==
  /\ sender = Closed(InitSender)
  /\ since_tick = 0
  /\ wrapped = FALSE
  /\ sent = {}

(* find_sender and send_chunk, on the GET of a peer.                       *)
Open ==
  /\ sender.is_idle
  /\ sender' = Filled
  /\ sent' = 0 .. Smaller(StartWindow, BufferLen) - 1
  /\ UNCHANGED <<since_tick, wrapped>>

ReceiveAck(n) ==
  /\ ~ sender.is_idle
  /\ sender' = CtlUdpAck(sender, n, wrapped)
  /\ sent' = SentByAck(sender, n, wrapped)
  /\ UNCHANGED <<since_tick, wrapped>>

(* The tick of the select loop, for this sender.                           *)
Tick ==
  /\ since_tick = Period
  /\ since_tick' = 0
  /\ sender' = CtlUdpTimeOut(sender)
  /\ sent' = SentByTimeOut(sender)
  /\ UNCHANGED wrapped

Age ==
  /\ sender' = Aged(sender)
  /\ since_tick' = Smaller(since_tick + 1, Period)
  /\ sent' = {}
  /\ UNCHANGED wrapped

(* After 2^31 microseconds, 36 minutes, the program's time is no int.      *)
Wrap ==
  /\ ~ wrapped
  /\ wrapped' = TRUE
  /\ sent' = {}
  /\ UNCHANGED <<sender, since_tick>>

SenderNext ==
  \/ Open
  \/ \E n \in 0 .. BufferLen : ReceiveAck(n)
  \/ Tick
  \/ Age
  \/ Wrap

SenderSpec == SenderInit /\ [][SenderNext]_senderVars

----------------------------------------------------------------------------
SenderTypeOK ==
  /\ sender \in Senders
  /\ since_tick \in 0 .. Period
  /\ wrapped \in BOOLEAN
  /\ sent \subseteq Positions

InFlight(i) == sender.pkt_buf[i].age # Unsent

(* Of an open sender the window begins at the packet the peer asks for,    *)
(* and a packet is there exactly if it is not acknowledged: ctl_send never *)
(* follows a pointer that ctl_udp_ack has freed.                           *)
WindowOfLivePackets ==
  ~ sender.is_idle => /\ sender.head = sender.last_ack_num
                      /\ sender.tail = BufferLen
                      /\ sender.head < sender.tail
                      /\ \A i \in Positions : sender.pkt_buf[i].data <=> sender.head <= i

(* Everything the window reaches is in flight, the head in particular.     *)
(* ctl_udp_time_out gives up its scan at the first packet that is not in   *)
(* flight, so a gap here would never be repaired by a timeout.             *)
NoGap ==
  ~ sender.is_idle =>
    \A i \in Positions :
      sender.head <= i /\ i < sender.head + sender.window_size => InFlight(i)

(* The sender is in slow start exactly while the window has not passed the *)
(* threshold, which is two at least.                                       *)
SlowStartBelowThreshold ==
  /\ sender.window_state = SLOW_START <=> sender.window_size <= sender.window_ssthresh
  /\ sender.window_size >= 1
  /\ sender.window_ssthresh >= 2

(* Nothing is sent outside the window.                                     *)
StaysInWindow ==
  [][\A i \in sent' : sender'.head <= i /\ i < sender'.head + sender'.window_size]_senderVars

(* A connection is given up for one of two reasons: the last packet is     *)
(* acknowledged, or one packet has been overdue ResendThres times before.  *)
NoPrematureClose ==
  [][~ sender.is_idle /\ sender'.is_idle =>
       \/ sender'.last_ack_num = BufferLen
       \/ \E i \in Positions : InFlight(i) /\ sender.pkt_buf[i].resend = ResendThres]_senderVars
=============================================================================
