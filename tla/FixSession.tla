----------------------------- MODULE FixSession -----------------------------
(***************************************************************************)
(* FIXSession (src/src/connectivity/fix_session.cpp).  Three threads use a *)
(* session: one calls connect and disconnect, one sends orders, one is in  *)
(* run().  sockfd_ and msg_seq_num_ are plain variables that they share.   *)
(*                                                                         *)
(* A descriptor is a socket, numbered in the order of opening; 0 is        *)
(* sockfd_ = -1.  The system may give the number of a closed socket to the *)
(* next one.  close() by one thread does not wake recv() of another: recv  *)
(* returns when data arrive or the peer closes.                            *)
(*                                                                         *)
(* A message is the sequence of its fields: the first two carry version    *)
(* and type, the last one the checksum.  "minqty" stands for a field whose *)
(* last bytes are 10=, four characters and SOH, such as 110=1000.  That a  *)
(* field fills the receive buffer of 65535 bytes, after which run() would  *)
(* ask recv for nothing and take the answer 0 for the peer's close, is not *)
(* modelled: no field of a FIX message is that long.                       *)
(***************************************************************************)
EXTENDS Integers, Sequences, SequencesExt

CONSTANTS MaxConnects,   \* bound: sockets opened
          MaxOrders,     \* bound: orders sent
          MaxReports     \* bound: execution reports of the peer

ASSUME FixAssumption ==
    /\ MaxConnects \in Nat /\ MaxOrders \in Nat /\ MaxReports \in Nat

VARIABLES fixState,   \* state_
          sock,       \* sockfd_
          opened,     \* descriptors opened so far
          closed,     \* descriptors closed by close()
          gone,       \* external: descriptors whose peer has closed or was not reached
          fixPc,      \* the thread in connect or disconnect
          seq,        \* msg_seq_num_
          ownSeq,     \* sequence number in that thread's buffer, 0 between messages
          sndPc,      \* the thread in send_new_order, send_cancel, send_modify
          sndSeq,     \* sequence number in its buffer, 0 between messages
          orders,     \* orders sent so far
          rxPc,       \* the thread in run()
          rxSock,     \* the descriptor it gave to recv, 0 outside and if recv refused it
          stream,     \* external: fields the peer sent, not yet received
          reports,    \* external: execution reports the peer sent
          handled,    \* reports given to the callback
          wire,       \* history: last sequence number on the wire
          repeated,   \* history: a number was not larger than the last
          crossed,    \* history: two threads had a message in hand at once
          abandoned,  \* history: connect() while sockfd_ was still open
          loggedOn,   \* history: connect() returned true and is the latest call
          overtaken   \* history: a late store met a newer session

sockVars == <<sock, opened, closed, abandoned>>
sendVars == <<sndPc, sndSeq, orders>>
rxVars == <<rxPc, rxSock, stream, handled>>
seqVars == <<seq, wire, repeated, crossed>>
logVars == <<loggedOn, overtaken>>
fixVars == <<fixState, sockVars, gone, fixPc, ownSeq, sendVars, rxVars, seqVars,
            reports, logVars>>

FixInit ==
    /\ fixState = "NOT_CONNECTED"
    /\ sock = 0 /\ opened = 0 /\ closed = {} /\ gone = {} /\ abandoned = FALSE
    /\ fixPc = "idle" /\ ownSeq = 0
    /\ sndPc = "idle" /\ sndSeq = 0 /\ orders = 0
    /\ rxPc = "none" /\ rxSock = 0 /\ stream = << >> /\ handled = 0
    /\ seq = 1 /\ wire = 0 /\ repeated = FALSE /\ crossed = FALSE
    /\ reports = 0 /\ loggedOn = FALSE /\ overtaken = FALSE

-----------------------------------------------------------------------------
(* Messages.                                                               *)

\* Mutant: the sequence number is not advanced.
EncodeKeeps(other) ==
    /\ seq' = seq
    /\ crossed' = (crossed \/ other)
\* write_header: the sequence number is taken when the message is encoded;
\* other says that another thread holds an encoded message.
Encode(other) ==
    /\ seq' = seq + 1
    /\ crossed' = (crossed \/ other)

\* The socket that connect() has opened and not connected yet.
Unconnected(fd) == fixPc = "connecting" /\ fd = sock

\* What send_raw may return: send() fails or sends a part at any time, and may
\* succeed although the peer is gone.
Results == IF sock = 0 \/ Unconnected(sock) THEN {FALSE} ELSE BOOLEAN

\* send_raw of the message numbered n returns ok.
SendRaw(n, ok) ==
    IF ok /\ sock \notin gone
    THEN wire' = n /\ repeated' = (repeated \/ n <= wire)
    ELSE UNCHANGED <<wire, repeated>>

-----------------------------------------------------------------------------
(* connect().  It tests neither state_ nor sockfd_.                        *)

\* socket() overwrites sockfd_, with a new descriptor or with -1.
SocketFails ==
    /\ fixPc = "idle"
    /\ abandoned' = (abandoned \/ sock # 0)
    /\ sock' = 0
    /\ loggedOn' = FALSE /\ overtaken' = FALSE
    /\ UNCHANGED fixState
    /\ UNCHANGED <<opened, closed, gone, fixPc, ownSeq, sendVars,
                   rxVars, seqVars, reports>>

Socket ==
    /\ fixPc = "idle" /\ opened < MaxConnects
    /\ abandoned' = (abandoned \/ sock # 0)
    /\ opened' = opened + 1
    /\ sock' = opened + 1
    /\ stream' = << >>
    /\ fixPc' = "connecting"
    /\ loggedOn' = FALSE /\ overtaken' = FALSE
    /\ UNCHANGED fixState
    /\ UNCHANGED <<closed, gone, ownSeq, sendVars, rxPc, rxSock, handled,
                   seqVars, reports>>

\* The host has no address, or its port does not answer: close and give up.
ConnectFails ==
    /\ fixPc = "connecting"
    /\ closed' = closed \cup {sock} /\ gone' = gone \cup {sock}
    /\ sock' = 0
    /\ fixPc' = "idle"
    /\ UNCHANGED fixState
    /\ UNCHANGED <<opened, abandoned, ownSeq, sendVars, rxVars, seqVars,
                   reports, logVars>>

ConnectReaches ==
    /\ fixPc = "connecting"
    /\ fixState' = "LOGGING_ON"
    /\ fixPc' = "logon"
    /\ UNCHANGED <<sockVars, gone, ownSeq, sendVars, rxVars, seqVars,
                   reports, logVars>>

EncodeLogon ==
    /\ fixPc = "logon"
    /\ ownSeq' = seq /\ Encode(sndPc = "send")
    /\ fixPc' = "logonSend"
    /\ UNCHANGED fixState
    /\ UNCHANGED <<sockVars, gone, sendVars, rxVars, wire, repeated,
                   reports, logVars>>

\* The Logon is sent: ACTIVE at once.  Or not: close and give up.
SendLogon ==
    /\ fixPc = "logonSend"
    /\ \E ok \in Results :
        /\ SendRaw(ownSeq, ok)
        /\ loggedOn' = ok
        /\ IF ok
           THEN fixState' = "ACTIVE" /\ UNCHANGED sockVars
           ELSE /\ fixState' = "NOT_CONNECTED"
                /\ closed' = closed \cup {sock} /\ sock' = 0
                /\ UNCHANGED <<opened, abandoned>>
    /\ ownSeq' = 0
    /\ fixPc' = "idle"
    /\ UNCHANGED <<gone, sendVars, rxVars, seq, crossed,
                   reports, overtaken>>

-----------------------------------------------------------------------------
(* disconnect()                                                            *)

\* Only an ACTIVE session sends a Logout.
Disconnect ==
    /\ fixPc = "idle"
    /\ fixPc' = IF fixState = "ACTIVE" THEN "logout" ELSE "close"
    /\ loggedOn' = FALSE
    /\ UNCHANGED fixState
    /\ UNCHANGED <<sockVars, gone, ownSeq, sendVars, rxVars, seqVars,
                   reports, overtaken>>

EncodeLogout ==
    /\ fixPc = "logout"
    /\ ownSeq' = seq /\ Encode(sndPc = "send")
    /\ fixPc' = "logoutSend"
    /\ UNCHANGED fixState
    /\ UNCHANGED <<sockVars, gone, sendVars, rxVars, wire, repeated,
                   reports, logVars>>

SendLogout ==
    /\ fixPc = "logoutSend"
    /\ \E ok \in Results : SendRaw(ownSeq, ok)
    /\ fixState' = "LOGGING_OUT"
    /\ ownSeq' = 0
    /\ fixPc' = "close"
    /\ UNCHANGED <<sockVars, gone, sendVars, rxVars, seq,
                   crossed, reports, logVars>>

\* Mutant: the socket is forgotten, not closed.
CloseForgets ==
    /\ fixPc = "close"
    /\ sock' = 0
    /\ fixPc' = "end"
    /\ UNCHANGED fixState
    /\ UNCHANGED <<opened, closed, abandoned, gone, ownSeq, sendVars,
                   rxVars, seqVars, reports, logVars>>
Close ==
    /\ fixPc = "close"
    /\ closed' = IF sock # 0 THEN closed \cup {sock} ELSE closed
    /\ sock' = 0
    /\ fixPc' = "end"
    /\ UNCHANGED fixState
    /\ UNCHANGED <<opened, abandoned, gone, ownSeq, sendVars, rxVars,
                   seqVars, reports, logVars>>

DisconnectEnds ==
    /\ fixPc = "end"
    /\ fixState' = "NOT_CONNECTED"
    /\ fixPc' = "idle"
    /\ UNCHANGED <<sockVars, gone, ownSeq, sendVars, rxVars, seqVars,
                   reports, logVars>>

-----------------------------------------------------------------------------
(* send_new_order, send_cancel, send_modify: whatever the state.           *)

EncodeOrder ==
    /\ sndPc = "idle" /\ orders < MaxOrders
    /\ sndSeq' = seq /\ Encode(fixPc \in {"logonSend", "logoutSend"})
    /\ orders' = orders + 1
    /\ sndPc' = "send"
    /\ UNCHANGED fixState
    /\ UNCHANGED <<sockVars, gone, fixPc, ownSeq, rxVars, wire,
                   repeated, reports, logVars>>

SendOrder ==
    /\ sndPc = "send"
    /\ \E ok \in Results : SendRaw(sndSeq, ok)
    /\ sndPc' = "idle" /\ sndSeq' = 0
    /\ UNCHANGED fixState
    /\ UNCHANGED <<sockVars, gone, fixPc, ownSeq, orders,
                   rxVars, seq, crossed, reports, logVars>>

-----------------------------------------------------------------------------
(* run()                                                                   *)

\* The owner starts a thread in run() once connect() returned true.
RunStarts ==
    /\ rxPc = "none" /\ fixPc = "idle" /\ fixState = "ACTIVE"
    /\ rxPc' = "loop"
    /\ UNCHANGED fixState
    /\ UNCHANGED <<sockVars, gone, fixPc, ownSeq, sendVars, rxSock,
                   stream, handled, seqVars, reports, logVars>>

RunLoop ==
    /\ rxPc = "loop"
    /\ rxPc' = IF fixState = "NOT_CONNECTED" THEN "none" ELSE "load"
    /\ UNCHANGED fixState
    /\ UNCHANGED <<sockVars, gone, fixPc, ownSeq, sendVars, rxSock, stream,
                   handled, seqVars, reports, logVars>>

\* The descriptor for recv, whichever sockfd_ holds by now.
LoadSocket ==
    /\ rxPc = "load"
    /\ rxPc' = "recv" /\ rxSock' = sock
    /\ UNCHANGED fixState
    /\ UNCHANGED <<sockVars, gone, fixPc, ownSeq, sendVars, stream,
                   handled, seqVars, reports, logVars>>

\* What recv finds under the number of fd: the system may have given the number
\* of a closed socket to the newest, and recv waits on a socket whose connect is
\* under way but refuses one whose connect has not begun.  0 is a refusal.
Found(fd) == IF fd = 0 THEN {0}
             ELSE IF fd \in closed THEN {0, sock}
             ELSE IF Unconnected(fd) THEN {0, fd} ELSE {fd}

\* Mutant: a socket without data counts as a failure.
RecvEntersUnready ==
    /\ rxPc = "recv"
    /\ \E fd \in Found(rxSock) :
        /\ rxSock' = fd
        /\ rxPc' = IF fd = 0 \/ stream = << >> THEN "failed" ELSE "blocked"
    /\ UNCHANGED fixState
    /\ UNCHANGED <<sockVars, gone, fixPc, ownSeq, sendVars, stream,
                   handled, seqVars, reports, logVars>>
\* recv() fails at once or blocks.
RecvEnters ==
    /\ rxPc = "recv"
    /\ \E fd \in Found(rxSock) :
        /\ rxSock' = fd
        /\ rxPc' = IF fd = 0 THEN "failed" ELSE "blocked"
    /\ UNCHANGED fixState
    /\ UNCHANGED <<sockVars, gone, fixPc, ownSeq, sendVars, stream,
                   handled, seqVars, reports, logVars>>

\* Mutant: recv is called again when it returns 0, without a look at state_.
RecvFailsRetries ==
    /\ rxPc = "blocked" /\ rxSock \in gone
    /\ rxPc' = "recv"
    /\ UNCHANGED fixState
    /\ UNCHANGED <<sockVars, gone, fixPc, ownSeq, sendVars, rxSock,
                   stream, handled, seqVars, reports, logVars>>
RecvFails ==
    /\ rxPc = "blocked" /\ rxSock \in gone
    /\ rxPc' = "failed"
    /\ UNCHANGED fixState
    /\ UNCHANGED <<sockVars, gone, fixPc, ownSeq, sendVars, rxSock,
                   stream, handled, seqVars, reports, logVars>>

\* The framing: the buffer is cut at every SOH, and the piece is a message if
\* 10= stands eight bytes before its end.
Pieces(fields) == [i \in DOMAIN fields |-> <<fields[i]>>]
IsMessage(piece) == Last(piece) = "minqty"

\* parse_message: tag 35 is looked for behind a SOH, so never at the very
\* start of the piece; of the types only the execution report matters here.
IsReport(piece) == \E i \in 2 .. Len(piece) : piece[i] = "report"

\* Data arrive, the first k fields of the stream.
RecvData(k) ==
    /\ rxPc = "blocked" /\ rxSock = opened /\ k \in 1 .. Len(stream)
    /\ LET pieces == Pieces(SubSeq(stream, 1, k)) IN
       handled' = handled + Len(SelectSeq(pieces,
                               LAMBDA p : IsMessage(p) /\ IsReport(p)))
    /\ stream' = SubSeq(stream, k + 1, Len(stream))
    /\ rxPc' = "loop" /\ rxSock' = 0
    /\ UNCHANGED fixState
    /\ UNCHANGED <<sockVars, gone, fixPc, ownSeq, sendVars,
                   seqVars, reports, logVars>>

\* Other messages arrive, a Heartbeat or the answer to a Logout, on the newest
\* connection or on one that was given up here and not by the peer.
RecvOther ==
    /\ rxPc = "blocked" /\ rxSock \notin gone /\ ~Unconnected(rxSock)
    /\ rxPc' = "loop" /\ rxSock' = 0
    /\ UNCHANGED fixState
    /\ UNCHANGED <<sockVars, gone, fixPc, ownSeq, sendVars, stream,
                   handled, seqVars, reports, logVars>>

\* The late store of a receive thread whose connection is gone.
RunEnds ==
    /\ rxPc = "failed"
    /\ fixState' = "NOT_CONNECTED"
    /\ rxPc' = "none" /\ rxSock' = 0
    /\ overtaken' = (overtaken \/ (fixState # "NOT_CONNECTED" /\ rxSock # sock))
    /\ UNCHANGED <<sockVars, gone, fixPc, ownSeq, sendVars,
                   stream, handled, seqVars, reports,
                   loggedOn>>

-----------------------------------------------------------------------------
(* The peer (external).                                                    *)

PeerCloses(fd) ==
    /\ fd \in (1 .. opened) \ gone /\ ~Unconnected(fd)
    /\ gone' = gone \cup {fd}
    /\ UNCHANGED fixState
    /\ UNCHANGED <<sockVars, fixPc, ownSeq, sendVars, rxVars, seqVars,
                   reports, logVars>>

PeerReports ==
    /\ loggedOn /\ sock \notin gone /\ reports < MaxReports
    /\ stream' = stream \o <<"version", "report", "minqty", "checksum">>
    /\ reports' = reports + 1
    /\ UNCHANGED fixState
    /\ UNCHANGED <<sockVars, gone, fixPc, ownSeq, sendVars, rxPc,
                   rxSock, handled, seqVars, logVars>>

FixControl == SocketFails \/ Socket \/ ConnectFails \/ ConnectReaches
              \/ EncodeLogon \/ SendLogon
              \/ Disconnect \/ EncodeLogout \/ SendLogout \/ Close \/ DisconnectEnds
Sender == EncodeOrder \/ SendOrder
Receiver == RunStarts \/ RunLoop \/ LoadSocket \/ RecvEnters \/ RecvFails
            \/ RecvOther \/ RunEnds
            \/ \E k \in 1 .. 4 * MaxReports : RecvData(k)
Peer == PeerReports \/ \E fd \in 1 .. MaxConnects : PeerCloses(fd)

FixNext == FixControl \/ Sender \/ Receiver \/ Peer

FixSpec == FixInit /\ [][FixNext]_fixVars

\* The threads run, a call of connect() or disconnect() comes to its end, and
\* the peer closes a connection that sockfd_ no longer names, whether or not a
\* Logout was sent on it: nothing is ever sent on it again, and FIX obliges a
\* counterparty to give up a connection that stays silent for longer than the
\* heartbeat interval of the Logon.
FixFairness ==
    /\ WF_fixVars(ConnectFails \/ ConnectReaches \/ EncodeLogon \/ SendLogon
                  \/ EncodeLogout \/ SendLogout \/ Close \/ DisconnectEnds)
    /\ WF_fixVars(RunLoop \/ LoadSocket \/ RecvEnters \/ RecvFails \/ RunEnds)
    /\ \A fd \in 1 .. MaxConnects : WF_fixVars(fd # sock /\ PeerCloses(fd))

-----------------------------------------------------------------------------
\* No descriptor is lost: every socket that connect() opened is the current
\* one or was closed, in every order of connect, disconnect, failing Logon and
\* the peer's close, unless connect() was called while sockfd_ was still open,
\* say after the receive thread had reported the connection as lost.
NoDescriptorLeak == abandoned \/ 1 .. opened \subseteq closed \cup {sock}

\* The sequence numbers on the wire increase, over reconnects too, until two
\* threads have an encoded message in hand at the same time.
WireInSequence == repeated => crossed

\* A session that logged on and whose peer is there reports ACTIVE until
\* disconnect(), through reconnects and with the receive thread of the earlier
\* session still about, unless that thread's late store overwrote its state.
LiveSessionIsActive ==
    loggedOn /\ sock \notin gone => fixState = "ACTIVE" \/ overtaken

\* run() ends after disconnect() or the peer's close, whatever it was doing,
\* unless a new session begins meanwhile.
RunReturns ==
    (rxPc # "none" /\ fixState = "NOT_CONNECTED")
        ~> (rxPc = "none" \/ fixState # "NOT_CONNECTED")

\* "A complete message is one that ends with 10=": once run() has taken all the
\* peer sent on the first connection, every execution report in it was handed
\* to parse_message and to the callback.
CompleteMessagesAreParsed ==
    opened = 1 /\ rxPc = "loop" /\ stream = << >> => handled = reports
=============================================================================
