--------------------------- MODULE BinaryGateway ---------------------------
(***************************************************************************)
(* BinaryProtocolGateway (src/src/connectivity/binary_protocol.cpp).  An   *)
(* owner thread connects and disconnects, a thread in run() receives:      *)
(* messages of a header and a body of the length the header announces,     *)
(* which TCP delivers in pieces of any size.                               *)
(*                                                                         *)
(* Lengths are in units: a header has HeaderLen of them, the buffer        *)
(* BufferLen (65536 bytes in the program, less than the longest message).  *)
(* A unit is a pair of its message's number and its place in the message.  *)
(* close() by one thread does not wake recv() of another.                  *)
(***************************************************************************)
EXTENDS Integers, Sequences, FiniteSetsExt, Functions

CONSTANTS HeaderLen,    \* sizeof(MsgHeader)
          BufferLen,    \* sizeof(rbuf)
          AckLen,       \* sizeof(AckBody)
          FillLen,      \* sizeof(FillBody)
          MaxBody,      \* largest body_len
          MaxLinks,     \* bound: connections
          MaxMessages   \* bound: messages of the peer on one connection

ASSUME BinaryAssumption ==
    /\ HeaderLen \in Nat \ {0} /\ BufferLen \in Nat /\ BufferLen >= HeaderLen
    /\ MaxBody \in Nat /\ AckLen \in 1 .. MaxBody /\ FillLen \in 1 .. MaxBody
    /\ MaxLinks \in Nat /\ MaxMessages \in Nat

VARIABLES up,         \* connected_
          fd,         \* sockfd_ >= 0
          ownPc,      \* the owner thread
          links,      \* connections made
          runPc,      \* the thread in run()
          runFd,      \* whether the descriptor it gave to recv was open
          rbuf,       \* the rpos units in its buffer
          peer,       \* external: messages the peer sent on this connection
          received,   \* units of them that recv returned
          peerGone,   \* external: the peer closed
          delivered   \* numbers of the messages given to the callbacks

ownVars == <<fd, ownPc, links>>
runVars == <<runPc, runFd, rbuf, received, delivered>>
peerVars == <<peer, peerGone>>
binaryVars == <<up, ownVars, runVars, peerVars>>

\* BAD has no MAGIC in its header; OTHER is a type that run() does not know,
\* ORDER_REJECT among them.
Messages == [type : {"ACK", "FILL", "HEARTBEAT", "OTHER", "BAD"}, len : 0 .. MaxBody]

\* How many units there are up to the end of a message, and which unit of
\* which message is at some place of the stream.
End(msgs, i) ==
    LET size == [m \in DOMAIN msgs |-> HeaderLen + msgs[m].len]
    IN MapThenSumSet(LAMBDA m : size[m], 1 .. i)
IsUnit(msgs, u, p) ==
    /\ u[1] \in DOMAIN msgs /\ u[2] \in 1 .. HeaderLen + msgs[u[1]].len
    /\ End(msgs, u[1] - 1) + u[2] = p
UnitAt(msgs, p) ==
    CHOOSE u \in (1 .. Len(msgs)) \X (1 .. HeaderLen + MaxBody) : IsUnit(msgs, u, p)

BinaryInit ==
    /\ up = FALSE /\ fd = FALSE /\ ownPc = "down" /\ links = 0
    /\ runPc = "none" /\ runFd = FALSE /\ rbuf = <<>> /\ received = 0
    /\ delivered = <<>>
    /\ peer = <<>> /\ peerGone = FALSE

-----------------------------------------------------------------------------
(* The owner: connect(), a thread for run(), disconnect(), join.           *)

\* Name resolution and connect() succeed.  (If not, the socket is closed and
\* nothing has changed.)
LinkOpens ==
    /\ ownPc = "down" /\ links < MaxLinks
    /\ links' = links + 1
    /\ fd' = TRUE
    /\ ownPc' = "logon"
    /\ peer' = <<>> /\ peerGone' = FALSE
    /\ received' = 0 /\ delivered' = <<>>
    /\ UNCHANGED <<up, runPc, runFd, rbuf>>

\* The Logon cannot be sent, or only in part.
LogonFails ==
    /\ ownPc = "logon"
    /\ fd' = FALSE
    /\ ownPc' = "down"
    /\ UNCHANGED <<up, links, runVars, peerVars>>

\* It is sent: connected, and the owner starts run().
LogonSent ==
    /\ ownPc = "logon"
    /\ up' = TRUE
    /\ ownPc' = "up"
    /\ runPc' = "loop"
    /\ rbuf' = <<>>
    /\ UNCHANGED <<fd, links, runFd, received, delivered, peerVars>>

\* disconnect(): a Logoff if the link is up, whether or not it can be sent.
DisconnectStores ==
    /\ ownPc = "up"
    /\ up' = FALSE
    /\ ownPc' = "close"
    /\ UNCHANGED <<fd, links, runVars, peerVars>>

DisconnectCloses ==
    /\ ownPc = "close"
    /\ fd' = FALSE
    /\ ownPc' = "join"
    /\ UNCHANGED <<up, links, runVars, peerVars>>

OwnerJoins ==
    /\ ownPc = "join" /\ runPc = "none"
    /\ ownPc' = "down"
    /\ UNCHANGED <<up, fd, links, runVars, peerVars>>

-----------------------------------------------------------------------------
(* run()                                                                   *)

Receive ==
    /\ runPc = "loop"
    /\ runPc' = IF up THEN "recv" ELSE "none"
    /\ runFd' = fd
    /\ UNCHANGED <<up, ownVars, rbuf, received, delivered, peerVars>>

\* recv() returns n units, no more than the buffer has room for.
RecvReturns(n) ==
    /\ runPc = "recv" /\ runFd
    /\ n \in 1 .. BufferLen - Len(rbuf)
    /\ received + n <= End(peer, Len(peer))
    /\ rbuf' = rbuf \o [k \in 1 .. n |-> UnitAt(peer, received + k)]
    /\ received' = received + n
    /\ runPc' = "parse"
    /\ UNCHANGED <<up, ownVars, runFd, delivered, peerVars>>

\* recv() returns 0 or -1: the peer closed, the descriptor is none, or the
\* buffer is full and recv() was given the length 0.
LinkEnds ==
    \/ ~runFd
    \/ Len(rbuf) = BufferLen
    \/ peerGone /\ received = End(peer, Len(peer))

RecvEnds ==
    /\ runPc = "recv" /\ LinkEnds
    /\ up' = FALSE
    /\ runPc' = "none"
    /\ UNCHANGED <<ownVars, runFd, rbuf, received, delivered, peerVars>>

\* The header in front of the buffer: the message whose header it is.
Header == peer[rbuf[1][1]]
IsMagic == \A k \in 1 .. HeaderLen : rbuf[k] = <<rbuf[1][1], k>>
MsgLen == HeaderLen + Header.len

Complete == Len(rbuf) >= MsgLen

\* An acknowledgement or a fill whose body has the size of its structure.
IsAckOrFill(msg) == \/ msg.type = "ACK" /\ msg.len >= AckLen
                    \/ msg.type = "FILL" /\ msg.len >= FillLen

HasHeader == Len(rbuf) >= HeaderLen

\* No MAGIC: the link is given up.
BadMagic ==
    /\ runPc = "parse" /\ HasHeader
    /\ ~IsMagic \/ Header.type = "BAD"
    /\ up' = FALSE
    /\ runPc' = "none"
    /\ UNCHANGED <<ownVars, runFd, rbuf, received, delivered, peerVars>>

\* Mutant: what follows the message in the buffer is thrown away.
DispatchDrops ==
    /\ runPc = "parse" /\ HasHeader /\ IsMagic /\ Header.type # "BAD" /\ Complete
    /\ delivered' = IF IsAckOrFill(Header) THEN Append(delivered, rbuf[1][1])
                                           ELSE delivered
    /\ rbuf' = <<>>
    /\ UNCHANGED <<up, ownVars, runPc, runFd, received, peerVars>>

\* A whole message: to its callback, and off the buffer.  A heartbeat is
\* answered; other types, and bodies that are too short, are passed over.
Dispatch ==
    /\ runPc = "parse" /\ HasHeader /\ IsMagic /\ Header.type # "BAD" /\ Complete
    /\ delivered' = IF IsAckOrFill(Header) THEN Append(delivered, rbuf[1][1])
                                           ELSE delivered
    /\ rbuf' = SubSeq(rbuf, MsgLen + 1, Len(rbuf))
    /\ UNCHANGED <<up, ownVars, runPc, runFd, received, peerVars>>

\* Less than a message: back to recv.
NeedMore ==
    /\ runPc = "parse"
    /\ HasHeader => IsMagic /\ Header.type # "BAD" /\ ~Complete
    /\ runPc' = "loop"
    /\ UNCHANGED <<up, ownVars, runFd, rbuf, received, delivered, peerVars>>

-----------------------------------------------------------------------------
(* The peer (external).                                                    *)

PeerSends(msg) ==
    /\ ownPc # "down" /\ ~peerGone /\ Len(peer) < MaxMessages
    /\ peer' = Append(peer, msg)
    /\ UNCHANGED <<up, ownVars, runVars, peerGone>>

PeerLeaves ==
    /\ ownPc # "down" /\ ~peerGone
    /\ peerGone' = TRUE
    /\ UNCHANGED <<up, ownVars, runVars, peer>>

BinaryNext ==
    \/ LinkOpens \/ LogonFails \/ LogonSent
    \/ DisconnectStores \/ DisconnectCloses \/ OwnerJoins
    \/ Receive \/ RecvEnds
    \/ \E n \in 1 .. BufferLen : RecvReturns(n)
    \/ BadMagic \/ Dispatch \/ NeedMore
    \/ \E msg \in Messages : PeerSends(msg)
    \/ PeerLeaves

BinarySpec == BinaryInit /\ [][BinaryNext]_binaryVars

-----------------------------------------------------------------------------
\* What recv() returned, up to the first header without MAGIC: the numbers of
\* the reports that are complete in it.
BadOnes == {i \in DOMAIN peer : peer[i].type = "BAD"}
CompleteReports ==
    {i \in DOMAIN peer : /\ IsAckOrFill(peer[i])
                         /\ End(peer, i) <= received
                         /\ \A b \in BadOnes : i < b}
InOrder(s) == \A i, j \in DOMAIN s : i < j => s[i] < s[j]

TooLong(msg) == HeaderLen + msg.len > BufferLen

(***************************************************************************)
(* Whenever run() is not parsing, the callbacks were given every report    *)
(* that is complete in the bytes received, once and in order, however TCP  *)
(* cut the stream; and run() gives a link up while its owner keeps it only *)
(* if the peer closed, sent a header without MAGIC, or announced a body    *)
(* that no buffer holds.                                                   *)
(***************************************************************************)
ReportsAreDelivered ==
    /\ runPc # "parse" => InOrder(delivered) /\ Range(delivered) = CompleteReports
    /\ ownPc = "up" /\ ~up =>
           \/ peerGone
           \/ BadOnes # {}
           \/ \E i \in DOMAIN peer : TooLong(peer[i])
=============================================================================
