-------------------------------- MODULE Send --------------------------------
(***************************************************************************)
(* A sender of send.c: it has one chunk to send to one peer, keeps a       *)
(* sliding window of packets in flight, and grows or shrinks the window by *)
(* the ACKs and losses it sees.  This module holds the functions of send.c *)
(* as operators on the sender's record; Sender runs one of them, Server    *)
(* several behind a responser.                                             *)
(*                                                                         *)
(* The code keeps absolute times; what it computes with is how long ago    *)
(* something was.  The record keeps those ages, in units of time, and Aged *)
(* lets a unit pass.  An age stops growing at MaxAge (2 * MaxAge for       *)
(* last_tick, which is compared with twice the rtt).                       *)
(*                                                                         *)
(* Definitions named ...Slip, or for what they do wrong, are slips a       *)
(* programmer might make in the definition that follows; they are not part *)
(* of the specification.                                                   *)
(***************************************************************************)
EXTENDS Integers

CONSTANTS
  BufferLen,      \* BUFFER_LEN, the packets of a chunk
  StartSsthresh,  \* START_SSTHRESH_SIZE
  DupAckThres,    \* DUP_ACK_THRES
  AckTimeout,     \* ACK_TIMEOUT, in units of time
  Alpha,          \* BT_RTT_ALPHA, the weight out of ten of the old rtt
  ResendThres,    \* RESEND_THRES
  MaxAge          \* where ages stop growing

ASSUME SendAssumption ==
  /\ BufferLen \in Nat \ {0}
  /\ StartSsthresh \in Nat \ {0, 1}
  /\ DupAckThres \in Nat \ {0, 1}
  /\ AckTimeout \in Nat
  /\ Alpha \in 0 .. 10
  /\ ResendThres \in Nat
  /\ MaxAge \in Nat /\ MaxAge > AckTimeout

StartWindow == 1          \* START_WINDOW_SIZE
Positions   == 0 .. BufferLen - 1
Unsent      == -1         \* sent_ts of a packet that is not in flight
SLOW_START  == "SLOW_START"
CONG_CTL    == "CONG_CTL"

(* One packet_pointer_t; the sequence number of the packet is its place.   *)
(* data tells whether there is a packet.  Nothing is kept of a freed one.  *)
Packet   == [data : BOOLEAN, ack : Nat, age : 0 .. MaxAge \cup {Unsent},
             resend : 0 .. ResendThres]
NoPacket == [data |-> FALSE, ack |-> 0, age |-> Unsent, resend |-> 0]

Senders ==
  [ is_idle         : BOOLEAN,
    rtt             : 0 .. MaxAge,
    last_tick       : 0 .. 2 * MaxAge,
    window_state    : {SLOW_START, CONG_CTL},
    window_ssthresh : Nat,
    window_size     : Nat,
    last_update     : 0 .. MaxAge,
    last_ack_num    : 0 .. BufferLen,
    last_ack_cnt    : Nat,
    head            : 0 .. BufferLen,
    tail            : 0 .. BufferLen,
    pkt_buf         : [Positions -> Packet] ]

(* The larger and the smaller of two.                                      *)
Larger(a, b)  == IF a > b THEN a ELSE b
Smaller(a, b) == IF a < b THEN a ELSE b

----------------------------------------------------------------------------
(***************************************************************************)
(* A unit of time passes.                                                  *)
(***************************************************************************)

AgedPacket(k) == [k EXCEPT !.age = IF @ = Unsent THEN Unsent ELSE Smaller(@ + 1, MaxAge)]

Aged(s) ==
  [s EXCEPT !.last_tick   = Smaller(@ + 1, 2 * MaxAge),
            !.last_update = Smaller(@ + 1, MaxAge),
            !.pkt_buf     = [i \in Positions |-> AgedPacket(s.pkt_buf[i])]]

(* What "now - sent_ts" gives: of a packet not in flight, the time the     *)
(* program has been running.                                               *)
Since(age) == IF age = Unsent THEN MaxAge ELSE age

----------------------------------------------------------------------------
(***************************************************************************)
(* Opening.                                                                *)
(***************************************************************************)

(* last_tick is set to the origin of time, long ago.                       *)
InitSender ==
  [ is_idle |-> FALSE, rtt |-> 0, last_tick |-> 2 * MaxAge,
    window_state |-> SLOW_START, window_ssthresh |-> StartSsthresh,
    window_size |-> StartWindow, last_update |-> 0,
    last_ack_num |-> 0, last_ack_cnt |-> 0, head |-> 0, tail |-> 0,
    pkt_buf |-> [i \in Positions |-> NoPacket] ]

(* ctl_udp_send queues a packet at the tail, and sends it if the window is *)
(* open that far.                                                          *)
CtlUdpSend(s) ==
  [s EXCEPT !.tail = @ + 1,
            !.pkt_buf[s.tail] =
              [data |-> TRUE, ack |-> 0, resend |-> 0,
               age |-> IF s.tail - s.head < s.window_size THEN 0 ELSE Unsent]]

(* The sender when send_chunk has queued the whole chunk, in closed form.  *)
Filled ==
  [InitSender EXCEPT !.tail = BufferLen,
                     !.pkt_buf = [i \in Positions |->
                        [data |-> TRUE, ack |-> 0, resend |-> 0,
                         age |-> IF i < StartWindow THEN 0 ELSE Unsent]]]

----------------------------------------------------------------------------
(***************************************************************************)
(* The congestion window.                                                  *)
(***************************************************************************)

WdLostStays(s) ==                \* congestion control goes on after a loss
  [s EXCEPT !.window_size = 1, !.window_ssthresh = Larger(s.window_size \div 2, 2)]

(* wd_lost: half the window becomes the threshold, and slow start begins   *)
(* anew from one packet, in whichever state the sender is.                 *)
WdLost(s) ==
  [s EXCEPT !.window_size     = 1,
            !.window_ssthresh = Larger(s.window_size \div 2, 2),
            !.window_state    = SLOW_START]

(* wd_ack: one more packet for each ACK in slow start, one for each rtt    *)
(* in congestion control.                                                  *)
WdAck(s) ==
  IF s.window_state = SLOW_START
  THEN [s EXCEPT !.window_size  = @ + 1,
                 !.window_state = IF s.window_size + 1 > s.window_ssthresh THEN CONG_CTL ELSE @,
                 !.last_update  = 0]
  ELSE IF s.last_update >= s.rtt
  THEN [s EXCEPT !.window_size = @ + 1, !.last_update = 0]
  ELSE s

ReachesSlip(s, i) == i - s.head <= s.window_size

(* ctl_send: position i is in flight from now on if the window reaches it, *)
(* and otherwise not any more.                                             *)
Reaches(s, i) == i - s.head < s.window_size

CtlSend(s, i) ==
  [s EXCEPT !.pkt_buf[i].ack = 0,
            !.pkt_buf[i].age = IF Reaches(s, i) THEN 0 ELSE Unsent]

----------------------------------------------------------------------------
(***************************************************************************)
(* ACK.                                                                    *)
(***************************************************************************)

(* update_rtt: too small a sample is a delayed ACK, too large one jitter.  *)
UpdateRtt(rtt, sample) ==
  IF \/ sample * 5 < rtt
     \/ rtt # 0 /\ sample \div 5 > rtt
  THEN rtt
  ELSE IF rtt = 0
  THEN sample
  ELSE (Alpha * rtt + (10 - Alpha) * sample) \div 10

(* check_too_near: the packet asked for was sent less than an rtt ago.     *)
(* The code takes the time as an int; once it has wrapped, everything is   *)
(* too near.                                                               *)
CheckTooNear(s, n, wrapped) ==
  \E i \in s.head .. s.tail - 1 : i = n /\ (wrapped \/ Since(s.pkt_buf[i].age) < s.rtt)

HeadAfterSlip(s, n) == Smaller(s.tail, Larger(s.head, n + 1))   \* includes n

(* The head once everything below n is acknowledged.                       *)
HeadAfter(s, n) == Smaller(s.tail, Larger(s.head, n))

(* The rtt when the packets from head to HeadAfter have given their sample *)
(* in turn; ack says whether a packet was acknowledged before.             *)
RttAfter(s, n) ==
  LET rtt[i \in s.head .. HeadAfter(s, n)] ==
        IF i = s.head THEN s.rtt
        ELSE IF s.pkt_buf[i - 1].ack + 1 = 1
        THEN UpdateRtt(rtt[i - 1], Since(s.pkt_buf[i - 1].age))
        ELSE rtt[i - 1]
  IN  rtt[HeadAfter(s, n)]

(* Acknowledged packets are freed and the window moves up.                 *)
ShiftHead(s, n) ==
  [s EXCEPT !.rtt     = RttAfter(s, n),
            !.head    = HeadAfter(s, n),
            !.pkt_buf = [i \in Positions |->
                           IF s.head <= i /\ i < HeadAfter(s, n) THEN NoPacket ELSE s.pkt_buf[i]]]

NewlyReachedSlip(s, last_sent) ==    \* begins one too far
  {i \in Positions : Larger(last_sent + 1, s.head) <= i /\ i < s.tail /\ Reaches(s, i)}

(* The positions the window newly reaches, from last_sent on, are sent.    *)
NewlyReached(s, last_sent) ==
  {i \in Positions : Larger(last_sent, s.head) <= i /\ i < s.tail /\ Reaches(s, i)}

SendReached(s, last_sent) ==
  [s EXCEPT !.pkt_buf = [i \in Positions |->
     IF i \in NewlyReached(s, last_sent) /\ s.pkt_buf[i].data
     THEN [s.pkt_buf[i] EXCEPT !.ack = 0, !.age = 0] ELSE s.pkt_buf[i]]]

(* The third ACK that asks for the same packet, if that was not sent just  *)
(* now, is taken for a loss: it is sent again.                             *)
IsFastRetransmit(s, n, wrapped) ==
  /\ n = s.last_ack_num
  /\ s.last_ack_cnt + 1 >= DupAckThres
  /\ ~ CheckTooNear(s, n, wrapped)

(* The counters and the window, before the head is moved.                  *)
CountAck(s, n, wrapped) ==
  IF n > s.last_ack_num
  THEN WdAck([s EXCEPT !.last_ack_num = n, !.last_ack_cnt = 1])
  ELSE IF IsFastRetransmit(s, n, wrapped)
  THEN IF s.last_ack_num < s.head + s.window_size
       THEN CtlSend(WdLost([s EXCEPT !.last_ack_cnt = 0]), s.last_ack_num)
       ELSE [s EXCEPT !.last_ack_cnt = 0]
  ELSE IF s.last_ack_cnt + 1 >= DupAckThres THEN s
  ELSE [s EXCEPT !.last_ack_cnt = @ + 1]

Closed(s) == [s EXCEPT !.is_idle = TRUE]

(* ctl_udp_ack.                                                            *)
CtlUdpAck(s, n, wrapped) ==
  IF n < s.last_ack_num THEN s
  ELSE LET shifted == ShiftHead(CountAck(s, n, wrapped), n)
       IN  IF n >= BufferLen THEN Closed(shifted)
           ELSE SendReached(shifted, s.head + s.window_size)

(* The positions ctl_udp_ack sends.                                        *)
SentByAck(s, n, wrapped) ==
  IF n < s.last_ack_num \/ n >= BufferLen THEN {}
  ELSE (IF IsFastRetransmit(s, n, wrapped) /\ s.last_ack_num < s.head + s.window_size
           /\ Reaches(WdLost(s), s.last_ack_num)
        THEN {s.last_ack_num} ELSE {})
       \cup NewlyReached(ShiftHead(CountAck(s, n, wrapped), n), s.head + s.window_size)

----------------------------------------------------------------------------
(***************************************************************************)
(* Timeout.                                                                *)
(***************************************************************************)

(* The scan stops at the first packet that is not in flight or is overdue. *)
StopsAt(s, i) ==
  /\ i \in s.head .. s.tail - 1
  /\ s.pkt_buf[i].age = Unsent \/ s.pkt_buf[i].age > AckTimeout
  /\ \A j \in s.head .. i - 1 : s.pkt_buf[j].age \in 0 .. AckTimeout

(* The packet whose timeout is counted, if there is one.                   *)
Overdue(s) == {i \in Positions : StopsAt(s, i) /\ s.pkt_buf[i].age # Unsent}

(* ctl_udp_time_out works at most once in two rtts.                        *)
Due(s) == ~ s.is_idle /\ s.last_tick >= s.rtt * 2

GivesUpEarly(s, i) == s.pkt_buf[i].resend + 1 >= ResendThres

GivesUp(s, i) == s.pkt_buf[i].resend + 1 > ResendThres

ResendSlip(s, i) == CtlSend(WdLost(s), i)      \* is not counted

Resend(s, i) == CtlSend(WdLost([s EXCEPT !.pkt_buf[i].resend = @ + 1]), i)

(* ctl_udp_time_out.                                                       *)
CtlUdpTimeOut(s) ==
  IF ~ Due(s) THEN s
  ELSE LET ticked == [s EXCEPT !.last_tick = 0]
       IN  IF Overdue(s) = {} THEN ticked
           ELSE LET i == CHOOSE j \in Overdue(s) : TRUE      \* there is one only
                IN  IF GivesUp(s, i) THEN Closed(ticked) ELSE Resend(ticked, i)

(* The positions ctl_udp_time_out sends.                                   *)
SentByTimeOut(s) ==
  {i \in Overdue(s) : Due(s) /\ ~ GivesUp(s, i) /\ Reaches(WdLost(s), i)}
=============================================================================
