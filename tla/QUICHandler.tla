----------------------------- MODULE QUICHandler -----------------------------
(***************************************************************************)
(* One connection of the proxy: class QUICHandler (quic_handler.cpp).      *)
(*                                                                         *)
(* The handler is driven only by datagrams the accept thread hands it      *)
(* (processIncomingPacket).  Each datagram is one atomic step here: the    *)
(* accept thread holds m_connectionsMutex for the whole call and no other  *)
(* thread touches the handler, so the step covers parsing, the handler for *)
(* the packet type, every packet it sends, and the trailing                *)
(* checkForRetransmissions.                                                *)
(*                                                                         *)
(* Time is abstracted to ages: a packet's age counts ticks since its       *)
(* sentTime and saturates at RTO+1 ("elapsed > RETRANSMIT_TIMEOUT_MS");    *)
(* idle counts ticks since m_lastActivity and saturates at IdleTimeout.    *)
(* Payload bytes are abstracted to the first frame that processFrames      *)
(* acts on; packet bytes are not modelled, only the packet number.         *)
(***************************************************************************)
EXTENDS Naturals, Sequences, FiniteSets

LOCAL INSTANCE SequencesExt

CONSTANTS
    RTO,          \* RETRANSMIT_TIMEOUT_MS, in ticks
    IdleTimeout,  \* IDLE_TIMEOUT_MS, in ticks
    MaxSends,     \* bound: packet numbers the handler may allocate
    RetxCap,      \* the retry limit the design asks for (10)
    Accel,        \* "off", "sim" or "hw": acceleration enabled and FPGA connected,
                  \* and whether the FPGAInterface runs in simulation mode
    PeerDCID,     \* the DCID the client chose for its first Initial
    OurCID,       \* m_srcConnID, the ID the client uses once it learnt it
    NoCid         \* an empty m_destConnID

ASSUME RTO \in Nat /\ IdleTimeout \in Nat /\ MaxSends \in Nat /\ RetxCap \in Nat
ASSUME Accel \in {"off", "sim", "hw"}

VARIABLES
    nextPacketNumber,  \* m_nextPacketNumber
    sentPackets,       \* m_sentPackets: <<[pn, acked, age, retx]>> in send order
    destConnID,        \* m_destConnID
    idle,              \* ticks since m_lastActivity
    delivered          \* ghost: packet numbers of transmissions that reached the client

vars == <<nextPacketNumber, sentPackets, destConnID, idle, delivered>>

PN == 0 .. MaxSends - 1

\* A PacketInfo; retx is a ghost count of resends, saturating above RetxCap.
PacketInfo == [pn : PN, acked : BOOLEAN, age : 0 .. RTO + 1, retx : 0 .. RetxCap + 1]

\* Long-header packet types parsePacket produces (bits 5-4, version 0 = VN).
LongTypes == {"initial", "zerortt", "handshake", "retry", "vn"}

\* First frame of a 1-RTT payload that processFrames acts on, PADDING and
\* PING skipped: "none" (empty), "crypto", "stream", or "other" (an unknown
\* type, or an ACK frame shorter than 4 bytes).  ACK frames are ReceiveAck.
OneRttFrames == {"none", "crypto", "stream", "other"}

-----------------------------------------------------------------------------
(* Helpers                                                                 *)

\* Outcomes of executePacketOperation when a send tries the accelerator
\* (PACKET_FRAMING in handleInitialPacket, PACKET_ACK_PROCESSING in
\* sendAckPacket).  Both inputs are non-empty, so validation passes;
\* simulatePacketOperation always succeeds; the real device may fail
\* (status ERROR, timeout, exception), and the caller falls back to
\* sendPacket.
OffloadOutcomes ==
    CASE Accel = "off" -> {FALSE}
      [] Accel = "sim" -> {TRUE}
      [] Accel = "hw"  -> BOOLEAN

\* The PacketInfo of a packet just sent with number n.
Fresh(n) == [pn |-> n, acked |-> FALSE, age |-> 0, retx |-> 0]

\* Mutant of SendPacket: the increment is done before the number is
\* recorded.
SendPacketIncrementFirst(st) == <<Append(st[1], Fresh(st[2] + 1)), st[2] + 1>>

\* The tail of sendPacket: the PacketInfo takes m_nextPacketNumber, then
\* m_nextPacketNumber++.  st is <<m_sentPackets, m_nextPacketNumber>>.
SendPacket(st) == <<Append(st[1], Fresh(st[2])), st[2] + 1>>

SendFramed(st) == <<Append(st[1], Fresh(st[2])), st[2] + 1>>

\* One send of a datagram's handler, by the path that makes it.
Send(st, path) == IF path = "framed" THEN SendFramed(st) ELSE SendPacket(st)

\* The ACK frame handler: the first sent packet with that number is marked.
MarkAcked(sp, a) ==
    [i \in DOMAIN sp |->
        IF sp[i].pn = a /\ \A j \in 1 .. i - 1 : sp[j].pn # a
        THEN [sp[i] EXCEPT !.acked = TRUE]
        ELSE sp[i]]

\* checkForRetransmissions: unacknowledged and older than the timeout.
Expired(r) == ~r.acked /\ r.age > RTO

\* The resend of every expired packet: same bytes, same number, sentTime
\* reset.  The FPGA PACKET_RETRANSMISSION call is made with empty input,
\* which validation always rejects, so the software path runs every time.
Retransmit(sp) ==
    [i \in DOMAIN sp |->
        IF Expired(sp[i])
        THEN [sp[i] EXCEPT !.age = 0,
                           !.retx = IF @ > RetxCap THEN @ ELSE @ + 1]
        ELSE sp[i]]

RetransmittedPns(sp) == {sp[i].pn : i \in {j \in DOMAIN sp : Expired(sp[j])}}

\* The rest of processIncomingPacket after frame processing: the handler has
\* left the tracker as sp and makes the sends in paths, in order; then
\* checkForRetransmissions runs.  Every transmission may be lost.
SendAndRetransmit(sp, paths) ==
    LET st == FoldLeft(Send, <<sp, nextPacketNumber>>, paths)
        wire == {st[1][i].pn : i \in Len(sp) + 1 .. Len(st[1])}
                    \cup RetransmittedPns(st[1])
    IN  /\ st[2] <= MaxSends
        /\ nextPacketNumber' = st[2]
        /\ sentPackets' = Retransmit(st[1])
        /\ \E got \in SUBSET wire : delivered' = delivered \cup got

\* "Store destination connection ID if first packet".
StoreDestConnID(dcid) ==
    destConnID' = IF destConnID = NoCid THEN dcid ELSE destConnID

-----------------------------------------------------------------------------
(* Actions                                                                 *)

Init ==
    /\ nextPacketNumber = 0
    /\ sentPackets = << >>
    /\ destConnID = NoCid
    /\ idle = 0
    /\ delivered = {}

\* A datagram parsePacket rejects (too short, bad lengths, multi-byte
\* varints): activity and counters are updated, then the call returns
\* before checkForRetransmissions.
ReceiveMalformed ==
    /\ idle' = 0
    /\ UNCHANGED <<nextPacketNumber, sentPackets, destConnID, delivered>>

\* A long-header packet.  Initial: one response, framed by the accelerator
\* or, if that is off or fails, sendPacket(INITIAL).  Handshake:
\* sendPacket(HANDSHAKE) then sendPacket(ONE_RTT, HANDSHAKE_DONE).  0-RTT,
\* Retry, VN: nothing is sent.
ReceiveLong(type, dcid) ==
    \E framed \in OffloadOutcomes :
        /\ idle' = 0
        /\ StoreDestConnID(dcid)
        /\ SendAndRetransmit(sentPackets,
                             CASE type = "initial"   -> <<IF framed THEN "framed" ELSE "software">>
                               [] type = "handshake" -> <<"software", "software">>
                               [] OTHER              -> << >>)

\* sendAckPacket: the ACK goes through the accelerator (sent, not recorded,
\* no packet number) or through sendPacket(ONE_RTT) (recorded, numbered).
AckPackets(offloaded) == IF offloaded THEN << >> ELSE <<"software">>

\* A 1-RTT packet whose first significant frame is not an ACK: a STREAM
\* frame is echoed with sendPacket(ONE_RTT); then the ACK is sent.
ReceiveOneRtt(frame) ==
    \E offloaded \in OffloadOutcomes :
        /\ idle' = 0
        /\ StoreDestConnID(OurCID)
        /\ SendAndRetransmit(sentPackets,
                             (IF frame = "stream" THEN <<"software">> ELSE << >>)
                                 \o AckPackets(offloaded))

\* A 1-RTT packet carrying an ACK frame for packet number a.
ReceiveAck(a) ==
    \E offloaded \in OffloadOutcomes :
        /\ idle' = 0
        /\ StoreDestConnID(OurCID)
        /\ SendAndRetransmit(MarkAcked(sentPackets, a), AckPackets(offloaded))

\* Time passes.
Tick ==
    /\ sentPackets' = [i \in DOMAIN sentPackets |->
                         [sentPackets[i] EXCEPT !.age = IF @ > RTO THEN @ ELSE @ + 1]]
    /\ idle' = IF idle >= IdleTimeout THEN idle ELSE idle + 1
    /\ UNCHANGED <<nextPacketNumber, destConnID, delivered>>

\* The client acknowledges only packets it received, plus a number never
\* sent (MaxSends), which must be ignored.
Next ==
    \/ ReceiveMalformed
    \/ \E t \in LongTypes, d \in {PeerDCID, OurCID} : ReceiveLong(t, d)
    \/ \E f \in OneRttFrames : ReceiveOneRtt(f)
    \/ \E a \in delivered \cup {MaxSends} : ReceiveAck(a)
    \/ Tick

Spec == Init /\ [][Next]_vars

\* Time always advances; datagrams from the client are not guaranteed.
FairSpec == Spec /\ WF_vars(Tick)

-----------------------------------------------------------------------------
(* Properties                                                              *)

TypeOK ==
    /\ nextPacketNumber \in 0 .. MaxSends
    /\ sentPackets \in Seq(PacketInfo)
    /\ destConnID \in {NoCid, PeerDCID, OurCID}
    /\ idle \in 0 .. IdleTimeout
    /\ delivered \subseteq PN

RetransmitsCapped ==
    \A i \in DOMAIN sentPackets : sentPackets[i].retx <= RetxCap

\* An unacknowledged packet whose timeout has passed is eventually resent
\* (spec 4.4: timer ticks drive retransmission).  The code only calls
\* checkForRetransmissions from processIncomingPacket, so resending waits
\* for the client to send something.
ExpiredEventuallyResent ==
    \A n \in PN :
        (\E i \in DOMAIN sentPackets : sentPackets[i].pn = n /\ Expired(sentPackets[i]))
            ~> (\E i \in DOMAIN sentPackets : sentPackets[i].pn = n /\ ~Expired(sentPackets[i]))
=============================================================================
