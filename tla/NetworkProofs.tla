--------------------------- MODULE NetworkProofs ----------------------------
(***************************************************************************)
(* Theorems about what the program does at its network edges. Of           *)
(* src/src/connectivity: the session manager's stop() against its          *)
(* heartbeat thread, the descriptors, the sequence numbers and the state   *)
(* of a FIX session that three threads share, and the binary gateway's     *)
(* parsing of a byte stream. Of src/src/marketdata: the books that one     *)
(* thread updates while another copies them, and the feed handler's        *)
(* counts. For any number of starts, connections, orders, messages,        *)
(* packets and levels.                                                     *)
(***************************************************************************)
EXTENDS Connectivity, MarketData, SumTheorems, SequenceTheorems

-----------------------------------------------------------------------------
(* SessionManager                                                          *)

(***************************************************************************)
(* That the manager is DISCONNECTED once stop() has returned depends on    *)
(* where the heartbeat thread may be at each point of start() and stop():  *)
(* it does not exist before the spawn, and while it exists running_ is set *)
(* or stop() is still on its way to the join.                              *)
(***************************************************************************)
ManagerInv ==
    /\ StoppedIsDisconnected
    /\ ctlPc \in {"idle", "connecting", "spawn", "notify", "join"}
    /\ ctlPc \in {"connecting", "spawn"} => running /\ hbPc = "dead"

\* No step of either thread breaks it.
LEMMA ManagerStep == ManagerInv /\ [Next]_vars => ManagerInv'
<1>. SUFFICES ASSUME ManagerInv, [Next]_vars PROVE ManagerInv'
  OBVIOUS
<1>. USE DEF ManagerInv, StoppedIsDisconnected
<1>1. CASE LinkChanges
  BY <1>1 DEF LinkChanges, hbVars
<1>2. CASE Control
  <2>1. CASE StartExchange
    BY <2>1 DEF StartExchange, hbVars
  <2>2. CASE StartStores
    BY <2>2 DEF StartStores, hbVars
  <2>3. CASE StartSpawns
    BY <2>3 DEF StartSpawns
  <2>4. CASE StopExchange
    BY <2>4 DEF StopExchange, hbVars
  <2>5. CASE StopNotifies
    BY <2>5 DEF StopNotifies
  <2>6. CASE StopJoins
    BY <2>6 DEF StopJoins, hbVars
  <2> QED BY <1>2, <2>1, <2>2, <2>3, <2>4, <2>5, <2>6 DEF Control
<1>3. CASE Heartbeat
  <2>1. hbPc # "dead" /\ running' = running /\ ctlPc' = ctlPc
    BY <1>3 DEF Heartbeat, Loop, PollUp, PollDown, TestPredicate, Block, Timeout
  <2> QED BY <2>1
<1>4. CASE UNCHANGED vars
  BY <1>4 DEF vars, hbVars
<1> QED BY <1>1, <1>2, <1>3, <1>4 DEF Next

\* After stop() has returned the state is DISCONNECTED and the heartbeat thread
\* has ended, until the next start(), whatever the link does.
THEOREM StopIsFinal == Spec => []StoppedIsDisconnected
<1>1. Init => ManagerInv
  BY DEF Init, ManagerInv, StoppedIsDisconnected
<1>2. ManagerInv => StoppedIsDisconnected
  BY DEF ManagerInv
<1> QED BY <1>1, <1>2, ManagerStep, PTL DEF Spec

-----------------------------------------------------------------------------
(* FIXSession: descriptors                                                 *)

\* sockfd_ is the newest descriptor or none, is not closed, and every older one
\* was closed unless a connect() overwrote an open one.
SocketInv ==
    /\ opened \in Nat /\ closed \subseteq 0 .. opened
    /\ sock = 0 \/ (sock = opened /\ sock \notin closed)
    /\ NoDescriptorLeak

\* Only connect(), a failed Logon and disconnect() touch the descriptors.
LEMMA SocketStep == SocketInv /\ [FixNext]_fixVars => SocketInv'
<1>. SUFFICES ASSUME SocketInv, [FixNext]_fixVars PROVE SocketInv'
  OBVIOUS
<1>0. closed \cup {sock} \subseteq 0 .. opened
  <2>1. sock \in 0 .. opened
    BY DEF SocketInv
  <2> QED BY <2>1 DEF SocketInv
<1>. USE DEF SocketInv, NoDescriptorLeak
<1>1. CASE SocketFails
  BY <1>1 DEF SocketFails
<1>2. CASE Socket
  <2>1. opened' = opened + 1 /\ sock' = opened + 1 /\ closed' = closed
        /\ abandoned' = (abandoned \/ sock # 0)
    BY <1>2 DEF Socket
  <2>2. opened' \in Nat /\ sock' # 0 /\ sock' \notin closed'
    BY <2>1
  <2>3. ASSUME ~abandoned' PROVE 1 .. opened' \subseteq closed' \cup {sock'}
    <3>1. ~abandoned /\ sock = 0
      BY <2>1, <2>3, Zenon
    <3>2. 1 .. opened \subseteq closed \cup {0}
      BY <3>1
    <3>3. ASSUME NEW x \in 1 .. opened + 1 PROVE x \in closed \/ x = opened + 1
      <4>1. x = opened + 1 \/ x \in 1 .. opened
        OBVIOUS
      <4>2. x # 0
        OBVIOUS
      <4> QED BY <3>2, <4>1, <4>2
    <3> QED BY <2>1, <3>3
  <2>4. closed' \subseteq 0 .. opened'
    BY <2>1
  <2> QED BY <2>1, <2>2, <2>3, <2>4
<1>3. CASE SendLogon \/ ConnectFails
  <2>1. CASE UNCHANGED sockVars
    BY <2>1 DEF sockVars
  <2>2. CASE /\ closed' = closed \cup {sock} /\ sock' = 0
             /\ opened' = opened /\ abandoned' = abandoned
    <3>1. closed' \subseteq 0 .. opened'
      BY <1>0, <2>2
    <3>2. abandoned' \/ 1 .. opened' \subseteq closed' \cup {sock'}
      BY <2>2, Zenon
    <3> QED BY <2>2, <3>1, <3>2
  <2> QED BY <1>3, <2>1, <2>2 DEF SendLogon, ConnectFails
<1>4. CASE Close
  <2>1. /\ closed' = IF sock # 0 THEN closed \cup {sock} ELSE closed
        /\ sock' = 0 /\ opened' = opened /\ abandoned' = abandoned
    BY <1>4 DEF Close
  <2>2. closed' \subseteq 0 .. opened'
    BY <1>0, <2>1
  <2>3. closed \cup {sock} \subseteq closed' \cup {sock'}
    BY <2>1
  <2>4. abandoned' \/ 1 .. opened' \subseteq closed' \cup {sock'}
    BY <2>1, <2>3, Zenon
  <2> QED BY <2>1, <2>2, <2>4
<1>5. CASE UNCHANGED sockVars
  BY <1>5 DEF sockVars
<1>6. ASSUME ~UNCHANGED sockVars
      PROVE  SocketFails \/ Socket \/ ConnectFails \/ SendLogon \/ Close
  BY <1>6 DEF FixNext, fixVars, FixControl, Sender, Receiver, Peer, ConnectReaches,
     EncodeLogon, Disconnect, EncodeLogout, SendLogout, DisconnectEnds, EncodeOrder, SendOrder,
     RunStarts, RunLoop, LoadSocket, RecvEnters, RecvFails, RecvOther, RunEnds, RecvData,
     PeerReports, PeerCloses
<1> QED BY <1>1, <1>2, <1>3, <1>4, <1>5, <1>6

\* Every descriptor that connect() opened is the current one or was closed,
\* unless connect() was called over an open one.
THEOREM DescriptorsKept == FixSpec => []NoDescriptorLeak
<1>1. FixInit => SocketInv
  BY DEF FixInit, SocketInv, NoDescriptorLeak
<1>2. SocketInv => NoDescriptorLeak
  BY DEF SocketInv
<1> QED BY <1>1, <1>2, SocketStep, PTL DEF FixSpec

-----------------------------------------------------------------------------
(* FIXSession: sequence numbers                                            *)

\* The thread in connect() or disconnect() has an encoded message in hand.
OwnInHand == fixPc \in {"logonSend", "logoutSend"}

(***************************************************************************)
(* A number is taken from msg_seq_num_ when a message is encoded and is on *)
(* the wire only when it is sent.  As long as no two messages were in hand *)
(* at once, the one in hand is newer than what is on the wire and older    *)
(* than the counter.                                                       *)
(***************************************************************************)
WireOrdered ==
    /\ wire < seq
    /\ ~(OwnInHand /\ sndPc = "send")
    /\ OwnInHand => wire < ownSeq /\ ownSeq < seq
    /\ sndPc = "send" => wire < sndSeq /\ sndSeq < seq

NumberInv ==
    /\ seq \in Nat /\ wire \in Nat /\ ownSeq \in Nat /\ sndSeq \in Nat
    /\ crossed \/ (~repeated /\ WireOrdered)

\* What send_raw does to the wire.
LEMMA SendRawEffect ==
    ASSUME NEW n \in Nat, NEW ok, SendRaw(n, ok)
    PROVE  \/ wire' = wire /\ repeated' = repeated
           \/ wire' = n /\ repeated' = (repeated \/ n <= wire)
  BY DEF SendRaw

\* Encoding and sending, by either thread, keep the numbers in order.
LEMMA NumberStep == NumberInv /\ [FixNext]_fixVars => NumberInv'
<1>. SUFFICES ASSUME NumberInv, [FixNext]_fixVars PROVE NumberInv'
  OBVIOUS
<1>0. seq \in Nat /\ wire \in Nat /\ ownSeq \in Nat /\ sndSeq \in Nat
  BY DEF NumberInv
<1>a. crossed \/ (~repeated /\ WireOrdered)
  BY DEF NumberInv
<1>1. ASSUME /\ ownSeq' = seq /\ seq' = seq + 1 /\ crossed' = (crossed \/ sndPc = "send")
             /\ UNCHANGED <<wire, repeated, sndPc, sndSeq>>
      PROVE  NumberInv'
  <2>1. seq' \in Nat /\ wire' \in Nat /\ ownSeq' \in Nat /\ sndSeq' \in Nat
    BY <1>0, <1>1
  <2>2. ASSUME ~crossed' PROVE ~repeated' /\ WireOrdered /\ sndPc # "send"
    BY <1>1, <1>a, <2>2, Zenon
  <2>3. WireOrdered /\ sndPc # "send" => WireOrdered'
    BY <1>0, <1>1 DEF WireOrdered, OwnInHand
  <2> QED BY <2>1, <2>2, <2>3 DEF NumberInv
<1>2. ASSUME /\ sndSeq' = seq /\ seq' = seq + 1 /\ crossed' = (crossed \/ OwnInHand)
             /\ UNCHANGED <<wire, repeated, fixPc, ownSeq>>
      PROVE  NumberInv'
  <2>1. seq' \in Nat /\ wire' \in Nat /\ ownSeq' \in Nat /\ sndSeq' \in Nat
    BY <1>0, <1>2
  <2>2. ASSUME ~crossed' PROVE ~repeated' /\ WireOrdered /\ ~OwnInHand
    BY <1>2, <1>a, <2>2, Zenon
  <2>3. WireOrdered /\ ~OwnInHand => WireOrdered'
    BY <1>0, <1>2 DEF WireOrdered, OwnInHand
  <2> QED BY <2>1, <2>2, <2>3 DEF NumberInv
<1>3. ASSUME NEW ok, SendRaw(ownSeq, ok), OwnInHand, ~OwnInHand',
             ownSeq' = 0, UNCHANGED <<seq, crossed, sndPc, sndSeq>>
      PROVE  NumberInv'
  <2>1. \/ wire' = wire /\ repeated' = repeated
        \/ wire' = ownSeq /\ repeated' = (repeated \/ ownSeq <= wire)
    BY <1>0, <1>3, SendRawEffect
  <2>2. seq' \in Nat /\ wire' \in Nat /\ ownSeq' \in Nat /\ sndSeq' \in Nat
    BY <1>0, <1>3, <2>1
  <2>3. ASSUME ~crossed' PROVE ~repeated /\ WireOrdered
    BY <1>3, <1>a, <2>3, Zenon
  <2>4. WireOrdered => ~(ownSeq <= wire) /\ WireOrdered'
    BY <1>0, <1>3, <2>1 DEF WireOrdered
  <2>5. ~repeated /\ ~(ownSeq <= wire) => ~repeated'
    BY <2>1, Zenon
  <2> QED BY <2>2, <2>3, <2>4, <2>5 DEF NumberInv
<1>4. ASSUME NEW ok, SendRaw(sndSeq, ok), sndPc = "send", sndPc' = "idle",
             sndSeq' = 0, UNCHANGED <<seq, crossed, ownSeq, fixPc>>
      PROVE  NumberInv'
  <2>1. \/ wire' = wire /\ repeated' = repeated
        \/ wire' = sndSeq /\ repeated' = (repeated \/ sndSeq <= wire)
    BY <1>0, <1>4, SendRawEffect
  <2>2. seq' \in Nat /\ wire' \in Nat /\ ownSeq' \in Nat /\ sndSeq' \in Nat
    BY <1>0, <1>4, <2>1
  <2>3. ASSUME ~crossed' PROVE ~repeated /\ WireOrdered
    BY <1>4, <1>a, <2>3, Zenon
  <2>4. WireOrdered => ~(sndSeq <= wire) /\ WireOrdered'
    BY <1>0, <1>4, <2>1 DEF WireOrdered, OwnInHand
  <2>5. ~repeated /\ ~(sndSeq <= wire) => ~repeated'
    BY <2>1, Zenon
  <2> QED BY <2>2, <2>3, <2>4, <2>5 DEF NumberInv
<1>5. ASSUME UNCHANGED <<seqVars, ownSeq, sndSeq, sndPc>>, fixPc' = fixPc \/ ~OwnInHand'
      PROVE  NumberInv'
  <2>1. WireOrdered => WireOrdered'
    BY <1>5 DEF WireOrdered, OwnInHand, seqVars
  <2>2. crossed' = crossed /\ repeated' = repeated
    BY <1>5 DEF seqVars
  <2>3. crossed' \/ (~repeated' /\ WireOrdered')
    BY <1>a, <2>1, <2>2, Zenon
  <2> QED BY <1>0, <1>5, <2>3 DEF NumberInv, seqVars
<1>6. CASE EncodeLogon
  BY <1>1, <1>6 DEF EncodeLogon, Encode, sendVars
<1>7. CASE EncodeLogout
  BY <1>1, <1>7 DEF EncodeLogout, Encode, sendVars
<1>8. CASE EncodeOrder
  BY <1>2, <1>8 DEF EncodeOrder, Encode, OwnInHand
<1>9. CASE SendLogon \/ SendLogout
  BY <1>3, <1>9 DEF SendLogon, SendLogout, OwnInHand, sendVars
<1>10. CASE SendOrder
  BY <1>4, <1>10 DEF SendOrder
<1>11. \/ EncodeLogon \/ SendLogon \/ EncodeLogout \/ SendLogout \/ EncodeOrder \/ SendOrder
       \/ /\ UNCHANGED <<seqVars, ownSeq, sndSeq, sndPc>>
          /\ fixPc' = fixPc \/ ~OwnInHand'
  BY DEF FixNext, fixVars, FixControl, Sender, Receiver, Peer, SocketFails, Socket,
     ConnectFails, ConnectReaches, Disconnect, Close, DisconnectEnds, RunStarts, RunLoop,
     LoadSocket, RecvEnters, RecvFails, RecvOther, RunEnds, RecvData, PeerReports, PeerCloses,
     sendVars, OwnInHand
<1> QED BY <1>5, <1>6, <1>7, <1>8, <1>9, <1>10, <1>11

\* The sequence numbers on the wire increase, over any number of reconnects,
\* until two threads have an encoded message in hand at once.
THEOREM NumbersIncrease == FixSpec => []WireInSequence
<1>1. FixInit => NumberInv
  BY DEF FixInit, NumberInv, WireOrdered, OwnInHand
<1>2. NumberInv => WireInSequence
  BY DEF NumberInv, WireInSequence
<1> QED BY <1>1, <1>2, NumberStep, PTL DEF FixSpec

-----------------------------------------------------------------------------
(* FIXSession: the state a live session reports                            *)

(***************************************************************************)
(* A receive thread that is about to store NOT_CONNECTED had a descriptor  *)
(* that was none, closed, or whose peer was gone.  The descriptor of a     *)
(* live session is none of these, so that store belongs to another one.    *)
(***************************************************************************)
LiveInv ==
    /\ SocketInv
    /\ loggedOn => fixPc = "idle" /\ sock # 0
    /\ rxPc = "failed" => rxSock = 0 \/ rxSock \in closed \/ rxSock \in gone
    /\ LiveSessionIsActive

\* No step makes a live session report anything else.
LEMMA LiveStep == LiveInv /\ SocketInv' /\ [FixNext]_fixVars => LiveInv'
<1>. SUFFICES ASSUME LiveInv, SocketInv', [FixNext]_fixVars PROVE LiveInv'
  OBVIOUS
<1>. USE DEF LiveInv, LiveSessionIsActive
<1>1. CASE SocketFails
  BY <1>1 DEF SocketFails, rxVars
<1>2. CASE Socket
  BY <1>2 DEF Socket
<1>3. CASE ConnectFails \/ ConnectReaches \/ EncodeLogon \/ EncodeLogout
  BY <1>3 DEF ConnectFails, ConnectReaches, EncodeLogon, EncodeLogout, sockVars, rxVars, logVars
<1>4. CASE SendLogon
  <2>1. /\ fixPc' = "idle" /\ gone' = gone /\ rxPc' = rxPc /\ rxSock' = rxSock
        /\ closed \subseteq closed'
    BY <1>4 DEF SendLogon, rxVars, sockVars
  <2>2. loggedOn' => fixState' = "ACTIVE" /\ sock' # 0
    BY <1>4 DEF SendLogon, Results, sockVars
  <2> QED BY <2>1, <2>2
<1>5. CASE Disconnect
  BY <1>5 DEF Disconnect, sockVars, rxVars
<1>6. CASE SendLogout \/ Close \/ DisconnectEnds
  BY <1>6 DEF SendLogout, Close, DisconnectEnds, sockVars, rxVars, logVars
<1>7. CASE Sender
  BY <1>7 DEF Sender, EncodeOrder, SendOrder, sockVars, rxVars, logVars
<1>8. CASE RunStarts \/ RunLoop \/ LoadSocket \/ RecvEnters \/ RecvFails \/ RecvOther
  BY <1>8 DEF RunStarts, RunLoop, LoadSocket, RecvEnters, RecvFails, RecvOther, sockVars, logVars
<1>9. CASE RunEnds
  BY <1>9 DEF RunEnds, SocketInv, sockVars
<1>10. ASSUME NEW k, RecvData(k) PROVE LiveInv'
  BY <1>10 DEF RecvData, sockVars, logVars
<1>11. CASE Peer
  BY <1>11 DEF Peer, PeerReports, PeerCloses, sockVars, rxVars, logVars
<1>12. CASE UNCHANGED fixVars
  BY <1>12 DEF fixVars, sockVars, rxVars, logVars
<1> QED
  BY <1>1, <1>2, <1>3, <1>4, <1>5, <1>6, <1>7, <1>8, <1>9, <1>10, <1>11, <1>12
     DEF FixNext, FixControl, Receiver

\* A session that logged on and whose peer is there reports ACTIVE until
\* disconnect(), unless the late store of an earlier session's receive thread
\* overwrote its state.
THEOREM LiveIsActive == FixSpec => []LiveSessionIsActive
<1>1. FixInit => LiveInv
  BY DEF FixInit, LiveInv, SocketInv, NoDescriptorLeak, LiveSessionIsActive
<1>2. LiveInv => LiveSessionIsActive /\ SocketInv
  BY DEF LiveInv
<1>3. LiveInv /\ [FixNext]_fixVars => LiveInv'
  BY <1>2, SocketStep, LiveStep
<1> QED BY <1>1, <1>2, <1>3, PTL DEF FixSpec

-----------------------------------------------------------------------------
(* BinaryGateway                                                           *)

SizeOf(msg) == HeaderLen + msg.len
Sizes(frames) == [m \in DOMAIN frames |-> HeaderLen + frames[m].len]

\* The sizes of the messages the peer sends.
LEMMA SizesType ==
    ASSUME NEW frames \in Seq(Messages)
    PROVE  \A m \in 1 .. Len(frames) : /\ SizeOf(frames[m]) \in Nat
                                     /\ HeaderLen <= SizeOf(frames[m])
                                     /\ SizeOf(frames[m]) <= HeaderLen + MaxBody
                                     /\ Sizes(frames)[m] = SizeOf(frames[m])
<1>1. HeaderLen \in Nat /\ MaxBody \in Int
  BY BinaryAssumption
<1>2. ASSUME NEW m \in 1 .. Len(frames)
      PROVE  frames[m].len \in 0 .. MaxBody /\ Sizes(frames)[m] = SizeOf(frames[m])
  <2>1. frames[m] \in Messages /\ m \in DOMAIN frames
    OBVIOUS
  <2> QED BY <2>1 DEF Messages, Sizes, SizeOf
<1>3. ASSUME NEW m \in 1 .. Len(frames)
      PROVE  /\ SizeOf(frames[m]) \in Nat /\ HeaderLen <= SizeOf(frames[m])
             /\ SizeOf(frames[m]) <= HeaderLen + MaxBody
  BY <1>1, <1>2 DEF SizeOf
<1> QED BY <1>2, <1>3

\* The end of a message in the stream is a sum of sizes.
LEMMA EndIsSum == ASSUME NEW frames, NEW i PROVE End(frames, i) = SumOver(Sizes(frames), 1 .. i)
BY DEF End, SumOver, Sizes

\* Where a message ends: one size after the one before it.
LEMMA EndStep ==
    ASSUME NEW frames \in Seq(Messages)
    PROVE  /\ End(frames, 0) = 0
           /\ \A i \in 0 .. Len(frames) : End(frames, i) \in Nat
           /\ \A i \in 1 .. Len(frames) : End(frames, i) = End(frames, i - 1) + SizeOf(frames[i])
<1>1. End(frames, 0) = 0
  <2>1. 1 .. 0 = {}
    OBVIOUS
  <2>2. SumOver(Sizes(frames), 1 .. 0) = 0
    BY <2>1, SumEmpty
  <2> QED BY <2>2, EndIsSum
<1>2. ASSUME NEW i \in 0 .. Len(frames) PROVE End(frames, i) \in Nat
  <2>1. IsFiniteSet(1 .. i) /\ \A m \in 1 .. i : Sizes(frames)[m] \in Nat
    <3>1. Len(frames) \in Nat
      OBVIOUS
    <3>2. 0 \in Int /\ 1 \in Int /\ i \in Int /\ \A m \in 1 .. i : m \in 1 .. Len(frames)
      BY <3>1
    <3>3. \A m \in 1 .. i : Sizes(frames)[m] \in Nat
      BY <3>2, SizesType
    <3> QED BY <3>2, <3>3, FS_Interval
  <2>2. SumOver(Sizes(frames), 1 .. i) \in Nat
    BY <2>1, SumNat
  <2> QED BY <2>2, EndIsSum
<1>3. ASSUME NEW i \in 1 .. Len(frames)
      PROVE  End(frames, i) = End(frames, i - 1) + SizeOf(frames[i])
  <2>1. IsFiniteSet(1 .. i - 1) /\ i \notin 1 .. i - 1 /\ 1 .. i = (1 .. i - 1) \cup {i}
    <3>1. i \in Int /\ i - 1 \in Int /\ 1 \in Int /\ 1 <= i
      OBVIOUS
    <3>2. IsFiniteSet(1 .. i - 1)
      BY <3>1, FS_Interval
    <3> QED BY <3>1, <3>2
  <2>2. \A m \in 1 .. i : Sizes(frames)[m] = SizeOf(frames[m]) /\ Sizes(frames)[m] \in Int
    BY SizesType
  <2>3. (\A m \in 1 .. i - 1 : Sizes(frames)[m] \in Int) /\ Sizes(frames)[i] \in Int
         /\ Sizes(frames)[i] = SizeOf(frames[i])
    BY <2>2
  <2>. DEFINE before == 1 .. i - 1
              size   == Sizes(frames)
  <2>. HIDE DEF before, size
  <2>4. SumOver(size, before \cup {i}) = SumOver(size, before) + size[i]
    BY <2>1, <2>3, SumAdd DEF before, size
  <2>5. SumOver(size, 1 .. i) = SumOver(size, before) + SizeOf(frames[i])
    BY <2>1, <2>3, <2>4 DEF before, size
  <2> QED BY <2>5, EndIsSum DEF before, size
<1> QED BY <1>1, <1>2, <1>3

\* A later message ends no earlier.
LEMMA EndMonotone ==
    ASSUME NEW frames \in Seq(Messages), NEW i \in 0 .. Len(frames), NEW j \in 0 .. Len(frames), i <= j
    PROVE  End(frames, i) <= End(frames, j)
<1>. DEFINE B == {k \in 0 .. Len(frames) : i <= k /\ ~(End(frames, i) <= End(frames, k))}
<1>. SUFFICES ASSUME B # {} PROVE FALSE
  OBVIOUS
<1>1. Min(B) \in B /\ \A y \in B : Min(B) <= y
  <2>1. \A x \in B : x \in Nat
    OBVIOUS
  <2>. HIDE DEF B
  <2> QED BY <2>1, MinBounds
<1>2. PICK k \in B : \A y \in B : k <= y
  BY <1>1
<1>3. k # i
  BY <1>2, EndStep
<1>4. k \in 1 .. Len(frames) /\ k - 1 \in 0 .. Len(frames) /\ i <= k - 1 /\ k - 1 \notin B
  BY <1>2, <1>3
<1>5. End(frames, i) <= End(frames, k - 1)
  BY <1>4
<1>6. End(frames, k) = End(frames, k - 1) + SizeOf(frames[k]) /\ SizeOf(frames[k]) \in Nat
       /\ End(frames, k - 1) \in Nat /\ End(frames, i) \in Nat
  BY <1>4, EndStep, SizesType
<1>7. End(frames, i) <= End(frames, k)
  BY <1>5, <1>6
<1> QED BY <1>2, <1>7

\* A place of the stream belongs to one unit of one message.
LEMMA UnitUnique ==
    ASSUME NEW frames \in Seq(Messages), NEW p, NEW u, NEW v,
           IsUnit(frames, u, p), IsUnit(frames, v, p)
    PROVE  u[1] = v[1] /\ u[2] = v[2]
<1>1. ASSUME NEW a, NEW b, IsUnit(frames, a, p), IsUnit(frames, b, p) PROVE ~(a[1] < b[1])
  <2>. SUFFICES ASSUME a[1] < b[1] PROVE FALSE
    OBVIOUS
  <2>1. PICK i \in 1 .. Len(frames), j \in 1 .. Len(frames), m \in Nat, n \in Nat :
           /\ i = a[1] /\ j = b[1] /\ m = a[2] /\ n = b[2]
           /\ m <= SizeOf(frames[i]) /\ 1 <= n
           /\ End(frames, i - 1) + m = p /\ End(frames, j - 1) + n = p
    <3>1. DOMAIN frames = 1 .. Len(frames)
      OBVIOUS
    <3>2. a[1] \in 1 .. Len(frames) /\ a[2] \in 1 .. SizeOf(frames[a[1]]) /\ End(frames, a[1] - 1) + a[2] = p
      BY <1>1, <3>1 DEF IsUnit, SizeOf
    <3>3. b[1] \in 1 .. Len(frames) /\ b[2] \in 1 .. SizeOf(frames[b[1]]) /\ End(frames, b[1] - 1) + b[2] = p
      BY <1>1, <3>1 DEF IsUnit, SizeOf
    <3>4. SizeOf(frames[a[1]]) \in Nat /\ SizeOf(frames[b[1]]) \in Nat
      BY <3>2, <3>3, SizesType
    <3>5. a[2] \in Nat /\ b[2] \in Nat /\ a[2] <= SizeOf(frames[a[1]]) /\ 1 <= b[2]
      BY <3>2, <3>3, <3>4
    <3> QED BY <3>2, <3>3, <3>5
  <2>2. i <= j - 1 /\ i \in 0 .. Len(frames) /\ j - 1 \in 0 .. Len(frames) /\ i - 1 \in 0 .. Len(frames)
    BY <2>1
  <2>3. End(frames, i) <= End(frames, j - 1)
    BY <2>2, EndMonotone
  <2>4. End(frames, i) = End(frames, i - 1) + SizeOf(frames[i])
    BY EndStep
  <2>5. End(frames, i - 1) \in Nat /\ End(frames, j - 1) \in Nat /\ SizeOf(frames[i]) \in Nat
    BY <2>2, EndStep, SizesType
  <2> QED BY <2>1, <2>3, <2>4, <2>5
<1>2. ~(u[1] < v[1]) /\ ~(v[1] < u[1])
  BY <1>1
<1>3. u[1] \in 1 .. Len(frames) /\ v[1] \in 1 .. Len(frames) /\ u[2] \in Int /\ v[2] \in Int
       /\ End(frames, u[1] - 1) + u[2] = p /\ End(frames, v[1] - 1) + v[2] = p
  BY DEF IsUnit
<1>4. u[1] = v[1]
  BY <1>2, <1>3
<1>5. u[1] - 1 \in 0 .. Len(frames)
  BY <1>3
<1>6. PICK e \in Nat : e = End(frames, u[1] - 1)
  BY <1>5, EndStep
<1>7. e + u[2] = e + v[2]
  BY <1>3, <1>4, <1>6
<1>8. u[2] = v[2]
  BY <1>3, <1>7
<1> QED BY <1>4, <1>8

\* Every place up to the end of the stream has a unit, and that is the one
\* recv() delivers.
LEMMA UnitExists ==
    ASSUME NEW frames \in Seq(Messages), NEW p \in 1 .. End(frames, Len(frames))
    PROVE  IsUnit(frames, UnitAt(frames, p), p)
<1>. DEFINE B == {k \in 0 .. Len(frames) : p <= End(frames, k)}
<1>0. Len(frames) \in Nat
  OBVIOUS
<1>1. PICK i \in B : \A y \in B : i <= y
  <2>1. (\A x \in B : x \in Nat) /\ Len(frames) \in B
    BY <1>0, EndStep
  <2>. HIDE DEF B
  <2>2. Min(B) \in B /\ \A y \in B : Min(B) <= y
    BY <2>1, MinBounds
  <2> QED BY <2>2
<1>2. i \in 1 .. Len(frames)
  BY <1>0, <1>1, EndStep
<1>3. i - 1 \in 0 .. Len(frames) /\ i - 1 \notin B
  BY <1>0, <1>1, <1>2
<1>4. PICK e \in Nat : e = End(frames, i - 1)
  BY <1>3, EndStep
<1>5. e < p
  BY <1>3, <1>4, EndStep
<1>6. End(frames, i) = e + SizeOf(frames[i]) /\ SizeOf(frames[i]) \in Nat
       /\ SizeOf(frames[i]) <= HeaderLen + MaxBody
  BY <1>2, <1>4, EndStep, SizesType
<1>7. p - e \in 1 .. SizeOf(frames[i]) /\ e + (p - e) = p
  BY <1>1, <1>4, <1>5, <1>6
<1>8. p - e \in 1 .. HeaderLen + MaxBody
  <2>1. PICK z \in Nat : z = SizeOf(frames[i])
    BY <1>6
  <2>2. HeaderLen + MaxBody \in Nat
    BY BinaryAssumption
  <2> QED BY <1>6, <1>7, <2>1, <2>2
<1>9. <<i, p - e>> \in (1 .. Len(frames)) \X (1 .. HeaderLen + MaxBody)
  BY <1>2, <1>8
<1>10. IsUnit(frames, <<i, p - e>>, p)
  BY <1>2, <1>4, <1>7 DEF IsUnit, SizeOf
<1> QED BY <1>9, <1>10 DEF UnitAt

\* One more message moves none of the earlier ones.
LEMMA EndAppend ==
    ASSUME NEW frames \in Seq(Messages), NEW msg \in Messages
    PROVE  /\ Append(frames, msg) \in Seq(Messages)
           /\ Len(Append(frames, msg)) = Len(frames) + 1
           /\ \A i \in 1 .. Len(frames) : Append(frames, msg)[i] = frames[i]
           /\ Append(frames, msg)[Len(frames) + 1] = msg
           /\ \A i \in 0 .. Len(frames) : End(Append(frames, msg), i) = End(frames, i)
           /\ End(frames, Len(frames)) + HeaderLen <= End(Append(frames, msg), Len(frames) + 1)
<1>1. PICK more \in Seq(Messages) :
          /\ more = Append(frames, msg) /\ Len(more) = Len(frames) + 1 /\ more[Len(frames) + 1] = msg
          /\ \A i \in 1 .. Len(frames) : more[i] = frames[i]
  <2>1. /\ Append(frames, msg) \in Seq(Messages) /\ Len(Append(frames, msg)) = Len(frames) + 1
        /\ Append(frames, msg)[Len(frames) + 1] = msg
        /\ \A i \in 1 .. Len(frames) : Append(frames, msg)[i] = frames[i]
    OBVIOUS
  <2> QED BY <2>1
<1>2. ASSUME NEW i \in 0 .. Len(frames) PROVE End(more, i) = End(frames, i)
  <2>0. i \in Int /\ 1 \in Int /\ Len(frames) \in Nat
    OBVIOUS
  <2>1. IsFiniteSet(1 .. i)
    BY <2>0, FS_Interval
  <2>2. \A m \in 1 .. i : Sizes(more)[m] = Sizes(frames)[m]
    <3>1. \A m \in 1 .. i : m \in 1 .. Len(frames) /\ m \in 1 .. Len(more)
      BY <1>1, <2>0
    <3> QED BY <1>1, <3>1, SizesType
  <2>3. SumOver(Sizes(more), 1 .. i) = SumOver(Sizes(frames), 1 .. i)
    BY <2>1, <2>2, SumEqual
  <2> QED BY <2>3, EndIsSum
<1>3. End(frames, Len(frames)) + HeaderLen <= End(more, Len(frames) + 1)
  <2>1. Len(frames) + 1 \in 1 .. Len(more) /\ (Len(frames) + 1) - 1 = Len(frames) /\ Len(frames) \in 0 .. Len(frames)
    BY <1>1
  <2>2. End(more, Len(frames) + 1) = End(more, Len(frames)) + SizeOf(more[Len(frames) + 1])
    BY <2>1, EndStep
  <2>3. HeaderLen <= SizeOf(more[Len(frames) + 1]) /\ SizeOf(more[Len(frames) + 1]) \in Nat
    BY <2>1, SizesType
  <2>4. End(more, Len(frames)) = End(frames, Len(frames)) /\ End(frames, Len(frames)) \in Nat
    BY <1>2, <2>1, EndStep
  <2> QED BY <2>2, <2>3, <2>4, BinaryAssumption
<1> QED BY <1>1, <1>2, <1>3

-----------------------------------------------------------------------------
\* Which thread may be where, and what the buffer and the stream hold.
BinaryType ==
    /\ peer \in Seq(Messages) /\ received \in Nat /\ received <= End(peer, Len(peer))
    /\ rbuf \in Seq(Nat \X Nat) /\ delivered \in Seq(Nat)
    /\ runPc \in {"none", "loop", "recv", "parse"}
    /\ ownPc \in {"down", "logon"} => runPc = "none"
    /\ ownPc = "logon" => received = 0 /\ delivered = << >>
    /\ ownPc \in {"logon", "up", "close"} => fd
    /\ (ownPc = "up" /\ runPc = "recv") => runFd
    /\ (ownPc = "up" /\ runPc # "none") => up

\* Message m is in front of the buffer: all before it were handled.
InFront(m) ==
    /\ m \in 1 .. Len(peer) + 1
    /\ received = End(peer, m - 1) + Len(rbuf)
    /\ \A k \in 1 .. Len(rbuf) : IsUnit(peer, rbuf[k], End(peer, m - 1) + k)
    /\ \A i \in 1 .. m - 1 : peer[i].type # "BAD"
    /\ InOrder(delivered)
    /\ Range(delivered) = {i \in 1 .. m - 1 : IsAckOrFill(peer[i])}

\* It is not all there, and what is there of it is no reason to stop.
Undecided(m) ==
    Len(rbuf) >= HeaderLen =>
        m <= Len(peer) /\ peer[m].type # "BAD" /\ Len(rbuf) < SizeOf(peer[m])

CaughtUp == InOrder(delivered) /\ Range(delivered) = CompleteReports

StreamInv ==
    /\ runPc # "none" =>
         \E m \in 1 .. Len(peer) + 1 :
            InFront(m) /\ (runPc \in {"loop", "recv"} => Undecided(m))
    /\ runPc = "none" => CaughtUp

\* Why run() may have given up a link that its owner keeps.
MayEnd ==
    \/ peerGone
    \/ BadOnes # {}
    \/ \E i \in DOMAIN peer : TooLong(peer[i])

GatewayInv == BinaryType /\ StreamInv /\ (ownPc = "up" /\ ~up => MayEnd)

\* A header in the buffer is that of the message in front.
LEMMA HeaderInFront ==
    ASSUME BinaryType, NEW m, InFront(m), HasHeader
    PROVE  m \in 1 .. Len(peer) /\ Header = peer[m] /\ IsMagic /\ rbuf[1][1] = m
           /\ MsgLen = SizeOf(peer[m])
<1>1. HeaderLen \in Nat /\ HeaderLen >= 1 /\ peer \in Seq(Messages) /\ rbuf \in Seq(Nat \X Nat)
       /\ received <= End(peer, Len(peer)) /\ received \in Nat
  BY BinaryAssumption DEF BinaryType
<1>2. Len(rbuf) \in Nat /\ Len(rbuf) >= HeaderLen /\ Len(peer) \in Nat
  BY <1>1 DEF HasHeader
<1>3. m \in 1 .. Len(peer)
  <2>1. m \in 1 .. Len(peer) + 1 /\ m - 1 \in 0 .. Len(peer)
    BY <1>2 DEF InFront
  <2>2. CASE m = Len(peer) + 1
    <3>1. received = End(peer, Len(peer)) + Len(rbuf)
      BY <1>2, <2>2 DEF InFront
    <3>2. End(peer, Len(peer)) \in Nat
      BY <1>1, <1>2, EndStep
    <3> QED BY <1>1, <1>2, <3>1, <3>2
  <2> QED BY <1>2, <2>1, <2>2
<1>4. PICK e \in Nat : e = End(peer, m - 1)
  <2>1. m - 1 \in 0 .. Len(peer)
    BY <1>2, <1>3
  <2> QED BY <1>1, <2>1, EndStep
<1>5. HeaderLen <= SizeOf(peer[m]) /\ SizeOf(peer[m]) \in Nat
  BY <1>1, <1>3, SizesType
<1>6. ASSUME NEW k \in 1 .. HeaderLen PROVE rbuf[k] = <<m, k>>
  <2>1. k \in 1 .. Len(rbuf) /\ k \in Nat
    BY <1>1, <1>2
  <2>2. IsUnit(peer, rbuf[k], e + k)
    BY <1>4, <2>1 DEF InFront
  <2>3. IsUnit(peer, <<m, k>>, e + k)
    <3>1. DOMAIN peer = 1 .. Len(peer)
      BY <1>1
    <3>2. k \in 1 .. SizeOf(peer[m])
      BY <1>1, <1>5, <2>1
    <3> QED BY <1>3, <1>4, <3>1, <3>2 DEF IsUnit, SizeOf
  <2>4. rbuf[k][1] = m /\ rbuf[k][2] = k
    BY <1>1, <2>2, <2>3, UnitUnique
  <2>5. rbuf[k] \in Nat \X Nat
    BY <1>1, <2>1
  <2> QED BY <2>4, <2>5
<1>7. rbuf[1][1] = m
  BY <1>1, <1>6
<1>8. Header = peer[m] /\ IsMagic /\ MsgLen = SizeOf(peer[m])
  BY <1>6, <1>7 DEF Header, IsMagic, MsgLen, SizeOf
<1> QED BY <1>3, <1>7, <1>8

\* Nothing from m on counts as a complete report.
LEMMA NothingMore ==
    ASSUME BinaryType, NEW m, InFront(m),
           \A i \in m .. Len(peer) : received < End(peer, i) \/ \E b \in BadOnes : b <= i
    PROVE  CaughtUp
<1>1. peer \in Seq(Messages) /\ received \in Nat /\ rbuf \in Seq(Nat \X Nat)
  BY DEF BinaryType
<1>2. Len(peer) \in Nat /\ m \in 1 .. Len(peer) + 1 /\ Len(rbuf) \in Nat /\ DOMAIN peer = 1 .. Len(peer)
  BY <1>1 DEF InFront
<1>3. ASSUME NEW i PROVE i \in CompleteReports <=> i \in {j \in 1 .. m - 1 : IsAckOrFill(peer[j])}
  <2>1. ASSUME i \in CompleteReports PROVE i \in 1 .. m - 1 /\ IsAckOrFill(peer[i])
    <3>1. /\ i \in 1 .. Len(peer) /\ IsAckOrFill(peer[i]) /\ End(peer, i) <= received
          /\ \A b \in BadOnes : i < b
      BY <1>2, <2>1 DEF CompleteReports
    <3>2. CASE i \in m .. Len(peer)
      <4>1. End(peer, i) \in Nat
        BY <1>1, <3>1, EndStep
      <4>2. PICK b \in BadOnes : b <= i
        BY <1>1, <3>1, <3>2, <4>1
      <4>3. i < b /\ b \in Nat
        BY <1>2, <3>1 DEF BadOnes
      <4> QED BY <3>1, <4>2, <4>3
    <3> QED BY <1>2, <3>1, <3>2
  <2>2. ASSUME i \in 1 .. m - 1, IsAckOrFill(peer[i]) PROVE i \in CompleteReports
    <3>1. i \in 1 .. Len(peer) /\ i <= m - 1 /\ m - 1 \in 0 .. Len(peer) /\ i \in 0 .. Len(peer)
      BY <1>2, <2>2
    <3>2. End(peer, i) <= End(peer, m - 1) /\ End(peer, i) \in Nat /\ End(peer, m - 1) \in Nat
      BY <1>1, <3>1, EndMonotone, EndStep
    <3>3. End(peer, i) <= received
      BY <1>2, <3>2 DEF InFront
    <3>4. ASSUME NEW b \in BadOnes PROVE i < b
      <4>1. b \in 1 .. Len(peer) /\ peer[b].type = "BAD"
        BY <1>2 DEF BadOnes
      <4>2. b \notin 1 .. m - 1
        BY <4>1 DEF InFront
      <4> QED BY <1>2, <3>1, <4>1, <4>2
    <3> QED BY <1>2, <2>2, <3>1, <3>3, <3>4 DEF CompleteReports
  <2> QED BY <2>1, <2>2
<1>4. CompleteReports = {j \in 1 .. m - 1 : IsAckOrFill(peer[j])}
  BY <1>3
<1> QED BY <1>4 DEF InFront, CaughtUp

\* While the message in front is not all there, everything complete was handed on.
LEMMA UndecidedCaughtUp ==
    ASSUME BinaryType, NEW m, InFront(m), Undecided(m)
    PROVE  CaughtUp
<1>1. peer \in Seq(Messages) /\ received \in Nat /\ rbuf \in Seq(Nat \X Nat)
  BY DEF BinaryType
<1>2. Len(peer) \in Nat /\ m \in 1 .. Len(peer) + 1 /\ Len(rbuf) \in Nat
  BY <1>1 DEF InFront
<1>3. ASSUME NEW i \in m .. Len(peer) PROVE received < End(peer, i)
  <2>1. m \in 1 .. Len(peer) /\ m \in 0 .. Len(peer) /\ i \in 0 .. Len(peer) /\ m <= i
         /\ m - 1 \in 0 .. Len(peer)
    BY <1>2
  <2>2. End(peer, m) = End(peer, m - 1) + SizeOf(peer[m]) /\ End(peer, m) <= End(peer, i)
         /\ End(peer, m - 1) \in Nat /\ End(peer, i) \in Nat
    BY <1>1, <2>1, EndStep, EndMonotone
  <2>3. HeaderLen <= SizeOf(peer[m]) /\ SizeOf(peer[m]) \in Nat /\ HeaderLen \in Nat
    BY <1>1, <2>1, SizesType, BinaryAssumption
  <2>4. Len(rbuf) < SizeOf(peer[m])
    BY <1>2, <2>3 DEF Undecided
  <2>5. received = End(peer, m - 1) + Len(rbuf)
    BY DEF InFront
  <2> QED BY <1>2, <2>2, <2>3, <2>4, <2>5
<1> QED BY <1>3, NothingMore

\* A header without MAGIC ends what counts as complete.
LEMMA BadCaughtUp ==
    ASSUME BinaryType, NEW m, InFront(m), m \in BadOnes
    PROVE  CaughtUp
<1>1. \A i \in m .. Len(peer) : m <= i
  BY DEF InFront
<1> QED BY <1>1, NothingMore

-----------------------------------------------------------------------------
\* recv() appends the next units of the stream.
LEMMA RecvStep ==
    ASSUME BinaryType, NEW n \in Nat, n >= 1, RecvReturns(n), NEW m, InFront(m)
    PROVE  rbuf' \in Seq(Nat \X Nat) /\ received' <= End(peer, Len(peer)) /\ InFront(m)'
<1>1. /\ peer \in Seq(Messages) /\ received \in Nat /\ rbuf \in Seq(Nat \X Nat)
      /\ received + n <= End(peer, Len(peer)) /\ received' = received + n
      /\ rbuf' = rbuf \o [k \in 1 .. n |-> UnitAt(peer, received + k)]
      /\ UNCHANGED <<peer, delivered>>
  BY DEF BinaryType, RecvReturns, peerVars
<1>2. m \in 1 .. Len(peer) + 1 /\ Len(peer) \in Nat /\ m - 1 \in 0 .. Len(peer)
       /\ received = End(peer, m - 1) + Len(rbuf) /\ Len(rbuf) \in Nat
  BY <1>1 DEF InFront
<1>3. PICK e \in Nat : e = End(peer, m - 1)
  BY <1>1, <1>2, EndStep
<1>4. ASSUME NEW k \in 1 .. n
      PROVE  UnitAt(peer, received + k) \in Nat \X Nat /\ IsUnit(peer, UnitAt(peer, received + k), received + k)
  <2>1. received + k \in 1 .. End(peer, Len(peer))
    <3>1. End(peer, Len(peer)) \in Nat
      BY <1>1, <1>2, EndStep
    <3> QED BY <1>1, <3>1
  <2>2. IsUnit(peer, UnitAt(peer, received + k), received + k)
    BY <1>1, <2>1, UnitExists
  <2>3. UnitAt(peer, received + k) \in (1 .. Len(peer)) \X (1 .. HeaderLen + MaxBody)
    <3>1. PICK u : u = UnitAt(peer, received + k) /\ IsUnit(peer, u, received + k)
      BY <2>2
    <3>2. u[1] \in 1 .. Len(peer) /\ u[2] \in 1 .. HeaderLen + peer[u[1]].len
      BY <1>1, <3>1 DEF IsUnit
    <3>3. SizeOf(peer[u[1]]) <= HeaderLen + MaxBody /\ SizeOf(peer[u[1]]) \in Nat
      BY <1>1, <3>2, SizesType
    <3>4. <<u[1], u[2]>> \in (1 .. Len(peer)) \X (1 .. HeaderLen + MaxBody)
      BY <3>2, <3>3, BinaryAssumption DEF SizeOf
    <3>5. IsUnit(peer, <<u[1], u[2]>>, received + k)
      BY <3>1, <3>2 DEF IsUnit
    <3> QED BY <3>4, <3>5 DEF UnitAt
  <2> QED BY <1>2, <2>2, <2>3, BinaryAssumption
<1>5. PICK new \in Seq(Nat \X Nat) :
          /\ new = [k \in 1 .. n |-> UnitAt(peer, received + k)] /\ Len(new) = n
          /\ \A k \in 1 .. n : IsUnit(peer, new[k], received + k)
  <2>1. [k \in 1 .. n |-> UnitAt(peer, received + k)] \in Seq(Nat \X Nat)
         /\ Len([k \in 1 .. n |-> UnitAt(peer, received + k)]) = n
    BY <1>4
  <2> QED BY <1>4, <2>1
<1>6. PICK r \in Seq(Nat \X Nat) :
          /\ r = rbuf' /\ Len(r) = Len(rbuf) + n
          /\ \A k \in 1 .. Len(rbuf) : r[k] = rbuf[k]
          /\ \A k \in 1 .. n : r[Len(rbuf) + k] = new[k]
  <2>1. rbuf \o new \in Seq(Nat \X Nat) /\ Len(rbuf \o new) = Len(rbuf) + n
    BY <1>1, <1>5
  <2>2. \A k \in 1 .. Len(rbuf) : (rbuf \o new)[k] = rbuf[k]
    BY <1>1, <1>5, ConcatElements
  <2>3. \A k \in 1 .. n : (rbuf \o new)[Len(rbuf) + k] = new[k]
    <3>1. \A k \in 1 .. Len(new) : (rbuf \o new)[Len(rbuf) + k] = new[k]
      BY <1>1, ConcatElements
    <3> QED BY <1>5, <3>1
  <2> QED BY <1>1, <1>5, <2>1, <2>2, <2>3
<1>7. ASSUME NEW k \in 1 .. Len(r) PROVE IsUnit(peer, r[k], e + k)
  <2>1. CASE k \in 1 .. Len(rbuf)
    BY <1>3, <1>6, <2>1 DEF InFront
  <2>2. CASE k \notin 1 .. Len(rbuf)
    <3>1. PICK j \in 1 .. n : k = Len(rbuf) + j
      <4>1. k - Len(rbuf) \in 1 .. n /\ k = Len(rbuf) + (k - Len(rbuf))
        <5>1. PICK a \in Nat : a = Len(rbuf) /\ Len(r) = a + n
          BY <1>2, <1>6
        <5>2. k \in 1 .. a + n /\ k \notin 1 .. a
          BY <2>2, <5>1
        <5>3. k - a \in 1 .. n /\ k = a + (k - a)
          BY <5>2
        <5> QED BY <5>1, <5>3
      <4> QED BY <4>1
    <3>2. e + k = received + j
      BY <1>2, <1>3, <3>1
    <3> QED BY <1>5, <1>6, <3>1, <3>2
  <2> QED BY <2>1, <2>2
<1>8. InFront(m)'
  <2>1. received' = e + Len(r)
    BY <1>1, <1>2, <1>3, <1>6
  <2>2. peer' = peer /\ delivered' = delivered /\ rbuf' = r
    BY <1>1, <1>6
  <2> QED BY <1>3, <1>7, <2>1, <2>2 DEF InFront, InOrder, Range
<1> QED BY <1>1, <1>6, <1>8

\* A message whose last unit is there is handled and leaves the buffer.
LEMMA DispatchStep ==
    ASSUME BinaryType, Dispatch, NEW m, InFront(m)
    PROVE  /\ rbuf' \in Seq(Nat \X Nat) /\ delivered' \in Seq(Nat)
           /\ m + 1 \in 1 .. Len(peer) + 1 /\ InFront(m + 1)'
<1>1. /\ peer \in Seq(Messages) /\ received \in Nat /\ rbuf \in Seq(Nat \X Nat)
      /\ delivered \in Seq(Nat) /\ UNCHANGED <<peer, received>>
      /\ HasHeader /\ Header.type # "BAD" /\ Len(rbuf) >= MsgLen
      /\ rbuf' = SubSeq(rbuf, MsgLen + 1, Len(rbuf))
      /\ delivered' = IF IsAckOrFill(Header) THEN Append(delivered, rbuf[1][1]) ELSE delivered
  BY DEF BinaryType, Dispatch, peerVars, Complete
<1>2. m \in 1 .. Len(peer) /\ Header = peer[m] /\ rbuf[1][1] = m /\ MsgLen = SizeOf(peer[m])
  BY HeaderInFront, <1>1
<1>3. Len(peer) \in Nat /\ m - 1 \in 0 .. Len(peer) /\ m \in 0 .. Len(peer) /\ Len(rbuf) \in Nat
       /\ received = End(peer, m - 1) + Len(rbuf)
  BY <1>1, <1>2 DEF InFront
<1>4. PICK e \in Nat, z \in Nat :
          e = End(peer, m - 1) /\ z = SizeOf(peer[m]) /\ End(peer, m) = e + z
  BY <1>1, <1>2, <1>3, EndStep, SizesType
<1>5. PICK r \in Seq(Nat \X Nat) :
          r = rbuf' /\ Len(r) = Len(rbuf) - z /\ \A k \in 1 .. Len(r) : r[k] = rbuf[z + k]
  <2>1. z <= Len(rbuf) /\ MsgLen = z
    BY <1>1, <1>2, <1>4
  <2>2. /\ SubSeq(rbuf, z + 1, Len(rbuf)) \in Seq(Nat \X Nat)
        /\ Len(SubSeq(rbuf, z + 1, Len(rbuf))) = Len(rbuf) - z
        /\ \A k \in 1 .. Len(rbuf) - z : SubSeq(rbuf, z + 1, Len(rbuf))[k] = rbuf[z + k]
    BY <1>1, <2>1, RestOf
  <2> QED BY <1>1, <1>2, <1>4, <2>1, <2>2
<1>6. ASSUME NEW k \in 1 .. Len(r) PROVE IsUnit(peer, r[k], (e + z) + k)
  <2>1. z + k \in 1 .. Len(rbuf) /\ e + (z + k) = (e + z) + k
    <3>1. PICK a \in Nat : a = Len(rbuf) /\ Len(r) = a - z
      BY <1>3, <1>5
    <3>2. k \in 1 .. a - z
      BY <3>1
    <3>3. e \in Nat /\ z \in Nat /\ k \in Nat
      BY <1>4, <3>2
    <3>4. z + k \in 1 .. a
      BY <3>2, <3>3
    <3>5. e + (z + k) = (e + z) + k
      BY <3>3
    <3> QED BY <3>1, <3>4, <3>5
  <2>2. IsUnit(peer, rbuf[z + k], e + (z + k))
    BY <1>4, <2>1 DEF InFront
  <2> QED BY <1>5, <2>1, <2>2
<1>7. received' = (e + z) + Len(r)
  BY <1>1, <1>3, <1>4, <1>5
<1>8. m + 1 \in 1 .. Len(peer) + 1 /\ (m + 1) - 1 = m /\ 1 .. (m + 1) - 1 = (1 .. m - 1) \cup {m}
  BY <1>2, <1>3
<1>9. \A i \in 1 .. m : peer[i].type # "BAD"
  BY <1>1, <1>2, <1>8 DEF InFront
<1>10. /\ delivered' \in Seq(Nat) /\ InOrder(delivered)'
       /\ Range(delivered)' = {i \in 1 .. m : IsAckOrFill(peer[i])}
  <2>0. InOrder(delivered) /\ Range(delivered) = {i \in 1 .. m - 1 : IsAckOrFill(peer[i])}
    BY DEF InFront
  <2>1. CASE IsAckOrFill(peer[m])
    <3>1. PICK d \in Seq(Nat) :
              /\ d = delivered' /\ Len(d) = Len(delivered) + 1 /\ d[Len(delivered) + 1] = m
              /\ \A i \in 1 .. Len(delivered) : d[i] = delivered[i]
      <4>1. delivered' = Append(delivered, m) /\ m \in Nat
        BY <1>1, <1>2, <2>1
      <4>2. /\ Append(delivered, m) \in Seq(Nat) /\ Len(Append(delivered, m)) = Len(delivered) + 1
            /\ Append(delivered, m)[Len(delivered) + 1] = m
            /\ \A i \in 1 .. Len(delivered) : Append(delivered, m)[i] = delivered[i]
        BY <1>1, <4>1
      <4> QED BY <4>1, <4>2
    <3>2. DOMAIN delivered = 1 .. Len(delivered) /\ DOMAIN d = 1 .. Len(delivered) + 1
           /\ Len(delivered) \in Nat
      BY <1>1, <3>1
    <3>3. \A i \in DOMAIN delivered : delivered[i] < m
      <4>1. \A i \in DOMAIN delivered : delivered[i] \in 1 .. m - 1
        BY <2>0 DEF Range
      <4> QED BY <1>2, <4>1
    <3>4. InOrder(d)
      <4>1. ASSUME NEW i \in DOMAIN d, NEW j \in DOMAIN d, i < j PROVE d[i] < d[j]
        <5>1. i \in DOMAIN delivered /\ d[i] = delivered[i]
          BY <3>1, <3>2, <4>1
        <5>2. CASE j \in DOMAIN delivered
          BY <2>0, <3>1, <3>2, <4>1, <5>1, <5>2 DEF InOrder
        <5>3. CASE j = Len(delivered) + 1
          BY <3>1, <3>3, <5>1, <5>3
        <5> QED BY <3>2, <5>2, <5>3
      <4> QED BY <4>1 DEF InOrder
    <3>5. Range(d) = Range(delivered) \cup {m}
      <4>1. ASSUME NEW x PROVE x \in Range(d) <=> x \in Range(delivered) \cup {m}
        <5>1. ASSUME NEW i \in DOMAIN d, d[i] = x PROVE x \in Range(delivered) \cup {m}
          <6>1. CASE i \in DOMAIN delivered
            BY <3>1, <3>2, <5>1, <6>1 DEF Range
          <6>2. CASE i = Len(delivered) + 1
            BY <3>1, <5>1, <6>2
          <6> QED BY <3>2, <5>1, <6>1, <6>2
        <5>2. ASSUME NEW i \in DOMAIN delivered, delivered[i] = x PROVE i \in DOMAIN d /\ d[i] = x
          BY <3>1, <3>2, <5>2
        <5>3. Len(delivered) + 1 \in DOMAIN d /\ d[Len(delivered) + 1] = m
          BY <3>1, <3>2
        <5> QED BY <5>1, <5>2, <5>3 DEF Range
      <4> QED BY <4>1
    <3>6. Range(d) = {i \in 1 .. m : IsAckOrFill(peer[i])}
      BY <1>8, <2>0, <2>1, <3>5
    <3> QED BY <3>1, <3>4, <3>6
  <2>2. CASE ~IsAckOrFill(peer[m])
    <3>1. delivered' = delivered
      BY <1>1, <1>2, <2>2
    <3>2. {i \in 1 .. m : IsAckOrFill(peer[i])} = {i \in 1 .. m - 1 : IsAckOrFill(peer[i])}
      BY <1>8, <2>2
    <3> QED BY <1>1, <2>0, <3>1, <3>2
  <2> QED BY <2>1, <2>2
<1>11. InFront(m + 1)'
  <2>1. rbuf' = r /\ peer' = peer /\ End(peer, (m + 1) - 1) = e + z
    BY <1>1, <1>4, <1>5, <1>8
  <2> QED BY <1>6, <1>7, <1>8, <1>9, <1>10, <2>1 DEF InFront
<1> QED BY <1>5, <1>8, <1>10, <1>11

\* What the peer sends later moves nothing that was received.
LEMMA PeerStep ==
    ASSUME GatewayInv, NEW msg \in Messages, PeerSends(msg)
    PROVE  GatewayInv'
<1>1. /\ peer \in Seq(Messages) /\ received \in Nat /\ rbuf \in Seq(Nat \X Nat)
      /\ received <= End(peer, Len(peer)) /\ Len(peer) \in Nat
      /\ UNCHANGED <<up, fd, ownPc, links, runPc, runFd, rbuf, received, delivered, peerGone>>
  BY DEF GatewayInv, BinaryType, PeerSends, ownVars, runVars
<1>2. PICK more \in Seq(Messages) :
          /\ more = peer' /\ Len(more) = Len(peer) + 1
          /\ \A i \in 1 .. Len(peer) : more[i] = peer[i]
          /\ \A i \in 0 .. Len(peer) : End(more, i) = End(peer, i)
          /\ End(peer, Len(peer)) + HeaderLen <= End(more, Len(peer) + 1)
  <2>1. peer' = Append(peer, msg)
    BY DEF PeerSends
  <2> QED BY <1>1, <2>1, EndAppend
<1>3. HeaderLen \in Nat /\ HeaderLen >= 1
  BY BinaryAssumption
<1>4. End(peer, Len(peer)) \in Nat /\ End(more, Len(more)) \in Nat /\ received < End(more, Len(more))
  <2>1. Len(peer) \in 0 .. Len(peer) /\ Len(more) \in 0 .. Len(more)
    BY <1>1, <1>2
  <2>2. End(peer, Len(peer)) \in Nat /\ End(more, Len(more)) \in Nat
    BY <1>1, <2>1, EndStep
  <2> QED BY <1>1, <1>2, <1>3, <2>2
<1>5. BinaryType'
  BY <1>1, <1>2, <1>4 DEF GatewayInv, BinaryType
<1>6. DOMAIN peer = 1 .. Len(peer) /\ DOMAIN more = 1 .. Len(peer) + 1
  BY <1>1, <1>2
<1>7. ASSUME NEW u, NEW p, IsUnit(peer, u, p) PROVE IsUnit(more, u, p)
  <2>1. u[1] \in 1 .. Len(peer) /\ u[1] - 1 \in 0 .. Len(peer)
    BY <1>1, <1>6, <1>7 DEF IsUnit
  <2>2. more[u[1]] = peer[u[1]] /\ End(more, u[1] - 1) = End(peer, u[1] - 1) /\ u[1] \in DOMAIN more
    BY <1>1, <1>2, <1>6, <2>1
  <2> QED BY <1>7, <2>2 DEF IsUnit
<1>8. ASSUME NEW m \in 1 .. Len(peer) + 1, InFront(m), runPc # "none",
             runPc \in {"loop", "recv"} => Undecided(m)
      PROVE  \E n \in 1 .. Len(peer)' + 1 :
                InFront(n)' /\ (runPc' \in {"loop", "recv"} => Undecided(n)')
  <2>1. m \in 1 .. Len(more) + 1 /\ m - 1 \in 0 .. Len(peer) /\ \A i \in 1 .. m - 1 : i \in 1 .. Len(peer)
    BY <1>1, <1>2
  <2>2. End(more, m - 1) = End(peer, m - 1) /\ \A i \in 1 .. m - 1 : more[i] = peer[i]
    BY <1>2, <2>1
  <2>3. InFront(m)'
    <3>1. \A k \in 1 .. Len(rbuf) : IsUnit(more, rbuf[k], End(more, m - 1) + k)
      BY <1>7, <1>8, <2>2 DEF InFront
    <3>2. received = End(more, m - 1) + Len(rbuf)
      BY <1>8, <2>2 DEF InFront
    <3>3. \A i \in 1 .. m - 1 : more[i].type # "BAD"
      BY <1>8, <2>2 DEF InFront
    <3>4. {i \in 1 .. m - 1 : IsAckOrFill(more[i])} = {i \in 1 .. m - 1 : IsAckOrFill(peer[i])}
      BY <2>2
    <3>5. InOrder(delivered) /\ Range(delivered) = {i \in 1 .. m - 1 : IsAckOrFill(more[i])}
      BY <1>8, <3>4 DEF InFront
    <3>6. InOrder(delivered)' /\ Range(delivered)' = Range(delivered)
      BY <1>1, <3>5 DEF InOrder, Range
    <3> QED BY <1>1, <1>2, <2>1, <3>1, <3>2, <3>3, <3>5, <3>6 DEF InFront
  <2>4. Undecided(m) => Undecided(m)'
    <3>1. SizeOf(peer[m])' = SizeOf(more[m])
      BY <1>2 DEF SizeOf
    <3>2. m <= Len(peer) => m <= Len(more) /\ more[m] = peer[m]
      BY <1>1, <1>2
    <3> QED BY <1>1, <1>2, <3>1, <3>2 DEF Undecided
  <2>5. m \in 1 .. Len(peer)' + 1
    BY <1>2, <2>1
  <2> QED BY <1>1, <1>8, <2>3, <2>4, <2>5
<1>9. CompleteReports' = CompleteReports
  <2>1. ASSUME NEW i PROVE i \in CompleteReports' <=> i \in CompleteReports
    <3>1. BadOnes' = {j \in DOMAIN more : more[j].type = "BAD"}
           /\ BadOnes = {j \in DOMAIN peer : peer[j].type = "BAD"}
      BY <1>2 DEF BadOnes
    <3>2. i \in CompleteReports' <=> /\ i \in DOMAIN more /\ IsAckOrFill(more[i])
                                     /\ End(more, i) <= received /\ \A b \in BadOnes' : i < b
      BY <1>1, <1>2 DEF CompleteReports, IsAckOrFill
    <3>3. i \in CompleteReports <=> /\ i \in DOMAIN peer /\ IsAckOrFill(peer[i])
                                    /\ End(peer, i) <= received /\ \A b \in BadOnes : i < b
      BY DEF CompleteReports
    <3>4. CASE i \in 1 .. Len(peer)
      <4>1. /\ more[i] = peer[i] /\ End(more, i) = End(peer, i) /\ i \in DOMAIN more /\ i \in DOMAIN peer
        BY <1>1, <1>2, <1>6, <3>4
      <4>2. (\A b \in BadOnes' : i < b) <=> (\A b \in BadOnes : i < b)
        <5>1. ASSUME NEW b \in BadOnes PROVE b \in BadOnes'
          BY <1>2, <1>6, <3>1
        <5>2. ASSUME NEW b \in BadOnes', b \notin BadOnes PROVE i < b
          BY <1>2, <1>6, <3>1, <3>4, <5>2
        <5> QED BY <5>1, <5>2
      <4> QED BY <3>2, <3>3, <4>1, <4>2
    <3>5. CASE i = Len(peer) + 1
      <4>1. ~(End(more, i) <= received)
        BY <1>1, <1>2, <1>4, <3>5
      <4> QED BY <1>1, <1>6, <3>2, <3>3, <3>5, <4>1
    <3>6. CASE i \notin 1 .. Len(peer) + 1
      BY <1>1, <1>6, <3>2, <3>3, <3>6
    <3> QED BY <1>1, <3>4, <3>5, <3>6
  <2> QED BY <2>1
<1>10. StreamInv'
  <2>1. CaughtUp' <=> CaughtUp
    BY <1>1, <1>9 DEF CaughtUp, InOrder, Range
  <2> QED BY <1>1, <1>8, <2>1 DEF GatewayInv, StreamInv
<1>11. MayEnd => MayEnd'
  <2>1. BadOnes # {} => BadOnes' # {}
    BY <1>2, <1>6 DEF BadOnes
  <2>2. ASSUME NEW i \in DOMAIN peer, TooLong(peer[i]) PROVE i \in DOMAIN peer' /\ TooLong(peer'[i])
    BY <1>2, <1>6, <2>2 DEF TooLong
  <2> QED BY <1>1, <2>1, <2>2 DEF MayEnd, TooLong
<1> QED BY <1>1, <1>5, <1>10, <1>11 DEF GatewayInv

\* No step of run(), of the owner or of the peer breaks the invariant.
LEMMA GatewayStep == ASSUME GatewayInv, [BinaryNext]_binaryVars PROVE GatewayInv'
<1>0. BinaryType /\ StreamInv /\ (ownPc = "up" /\ ~up => MayEnd)
       /\ peer \in Seq(Messages) /\ received \in Nat /\ rbuf \in Seq(Nat \X Nat)
  BY DEF GatewayInv, BinaryType
<1>1. ASSUME UNCHANGED <<peer, received, rbuf, delivered>>
      PROVE  /\ \A m : (InFront(m) <=> InFront(m)') /\ (Undecided(m) <=> Undecided(m)')
             /\ CaughtUp <=> CaughtUp' /\ BadOnes' = BadOnes
             /\ (\E i \in DOMAIN peer : TooLong(peer[i])) <=> (\E i \in DOMAIN peer : TooLong(peer[i]))'
  BY <1>1 DEF InFront, Undecided, CaughtUp, InOrder, Range, CompleteReports, BadOnes, SizeOf, TooLong,
              IsAckOrFill
<1>2. ASSUME UNCHANGED <<peer, received, rbuf, delivered, runPc>> PROVE StreamInv'
  BY <1>0, <1>1, <1>2 DEF StreamInv
<1>3. ASSUME UNCHANGED <<peer, received, rbuf, delivered, peerGone>> PROVE MayEnd <=> MayEnd'
  BY <1>3 DEF MayEnd, BadOnes, TooLong
<1>4. CASE LinkOpens
  <2>1. /\ ownPc = "down" /\ ownPc' = "logon" /\ fd' /\ peer' = << >> /\ received' = 0
        /\ delivered' = << >> /\ UNCHANGED <<up, runPc, runFd, rbuf>>
    BY <1>4 DEF LinkOpens
  <2>2. runPc' = "none"
    BY <1>0, <2>1 DEF BinaryType
  <2>3. peer' \in Seq(Messages) /\ Len(peer') = 0 /\ DOMAIN peer' = {}
    BY <2>1
  <2>4. End(peer', 0) = 0
    BY <2>3, EndStep
  <2>5. received' <= End(peer', Len(peer'))
    BY <2>1, <2>3, <2>4
  <2>6. BinaryType'
    BY <1>0, <2>1, <2>2, <2>3, <2>5 DEF BinaryType
  <2>7. CompleteReports' = {} /\ Range(delivered') = {} /\ InOrder(delivered)' /\ Range(delivered)' = {}
    BY <2>1, <2>3 DEF CompleteReports, Range, InOrder
  <2>8. StreamInv'
    BY <2>2, <2>7 DEF StreamInv, CaughtUp
  <2> QED BY <2>1, <2>6, <2>8 DEF GatewayInv
<1>5. CASE LogonFails
  <2>1. ownPc = "logon" /\ ownPc' = "down" /\ UNCHANGED <<up, links, runPc, runFd, rbuf, received, delivered, peer, peerGone>>
    BY <1>5 DEF LogonFails, runVars, peerVars
  <2>2. BinaryType'
    BY <1>0, <2>1 DEF BinaryType
  <2> QED BY <1>2, <2>1, <2>2 DEF GatewayInv
<1>6. CASE LogonSent
  <2>1. /\ ownPc = "logon" /\ ownPc' = "up" /\ up' = TRUE /\ runPc' = "loop" /\ rbuf' = << >>
        /\ UNCHANGED <<fd, runFd, received, delivered, peer, peerGone>> /\ runPc = "none"
    BY <1>0, <1>6 DEF LogonSent, peerVars, BinaryType
  <2>2. BinaryType'
    BY <1>0, <2>1 DEF BinaryType
  <2>3. Len(peer) \in Nat /\ 1 \in 1 .. Len(peer) + 1 /\ End(peer, 0) = 0 /\ 1 .. 1 - 1 = {}
    BY <1>0, EndStep
  <2>4. received = 0 /\ delivered = << >>
    BY <1>0, <2>1 DEF BinaryType
  <2>5. InFront(1)'
    <3>1. received' = End(peer', 1 - 1) + Len(rbuf') /\ 1 \in 1 .. Len(peer') + 1
      BY <2>1, <2>3, <2>4
    <3>2. 1 .. Len(rbuf') = {} /\ DOMAIN delivered' = {}
      BY <2>1, <2>4
    <3> QED BY <2>3, <3>1, <3>2 DEF InFront, InOrder, Range
  <2>6. Undecided(1)'
    <3>1. Len(rbuf') = 0 /\ HeaderLen > 0 /\ HeaderLen \in Nat
      BY <2>1, BinaryAssumption
    <3> QED BY <3>1 DEF Undecided
  <2>7. StreamInv'
    BY <2>1, <2>3, <2>5, <2>6 DEF StreamInv
  <2> QED BY <2>1, <2>2, <2>7 DEF GatewayInv
<1>7. CASE DisconnectStores \/ DisconnectCloses \/ OwnerJoins
  <2>1. /\ ownPc' \in {"close", "join", "down"} /\ (ownPc' = "down" => runPc = "none")
        /\ (ownPc' = "close" => fd') /\ UNCHANGED <<runPc, runFd, rbuf, received, delivered, peer, peerGone>>
    BY <1>0, <1>7 DEF DisconnectStores, DisconnectCloses, OwnerJoins, runVars, peerVars, BinaryType
  <2>2. BinaryType'
    BY <1>0, <2>1 DEF BinaryType
  <2> QED BY <1>2, <2>1, <2>2 DEF GatewayInv
<1>8. CASE Receive
  <2>1. /\ runPc = "loop" /\ runPc' = (IF up THEN "recv" ELSE "none") /\ runFd' = fd
        /\ UNCHANGED <<up, fd, ownPc, links, rbuf, received, delivered, peer, peerGone>>
    BY <1>8 DEF Receive, ownVars, peerVars
  <2>2. BinaryType'
    BY <1>0, <2>1 DEF BinaryType
  <2>3. PICK m \in 1 .. Len(peer) + 1 : InFront(m) /\ Undecided(m)
    BY <1>0, <2>1 DEF StreamInv
  <2>4. InFront(m)' /\ Undecided(m)' /\ CaughtUp'
    BY <1>0, <1>1, <2>1, <2>3, UndecidedCaughtUp
  <2>5. StreamInv'
    BY <2>1, <2>3, <2>4 DEF StreamInv
  <2> QED BY <1>0, <1>3, <2>1, <2>2, <2>5 DEF GatewayInv
<1>9. ASSUME NEW n \in 1 .. BufferLen, RecvReturns(n) PROVE GatewayInv'
  <2>1. /\ runPc = "recv" /\ runPc' = "parse" /\ UNCHANGED <<up, fd, ownPc, links, runFd, delivered, peer, peerGone>>
        /\ n \in Nat /\ n >= 1 /\ received' = received + n
    BY <1>9 DEF RecvReturns, ownVars, peerVars
  <2>2. PICK m \in 1 .. Len(peer) + 1 : InFront(m)
    BY <1>0, <2>1 DEF StreamInv
  <2>3. rbuf' \in Seq(Nat \X Nat) /\ received' <= End(peer, Len(peer)) /\ InFront(m)'
    BY <1>0, <1>9, <2>1, <2>2, RecvStep
  <2>4. BinaryType'
    BY <1>0, <2>1, <2>3 DEF BinaryType
  <2>5. StreamInv'
    BY <2>1, <2>2, <2>3 DEF StreamInv
  <2>6. MayEnd <=> MayEnd'
    BY <2>1 DEF MayEnd, BadOnes, TooLong
  <2> QED BY <1>0, <2>1, <2>4, <2>5, <2>6 DEF GatewayInv
<1>10. CASE RecvEnds
  <2>1. /\ runPc = "recv" /\ runPc' = "none" /\ up' = FALSE /\ LinkEnds
        /\ UNCHANGED <<fd, ownPc, links, runFd, rbuf, received, delivered, peer, peerGone>>
    BY <1>10 DEF RecvEnds, ownVars, peerVars
  <2>2. BinaryType'
    BY <1>0, <2>1 DEF BinaryType
  <2>3. PICK m \in 1 .. Len(peer) + 1 : InFront(m) /\ Undecided(m)
    BY <1>0, <2>1 DEF StreamInv
  <2>4. CaughtUp'
    BY <1>0, <1>1, <2>1, <2>3, UndecidedCaughtUp
  <2>5. StreamInv'
    BY <2>1, <2>4 DEF StreamInv
  <2>6. ASSUME ownPc = "up" PROVE MayEnd
    <3>1. CASE Len(rbuf) = BufferLen
      <4>1. Len(rbuf) >= HeaderLen /\ HasHeader
        BY <3>1, BinaryAssumption DEF HasHeader
      <4>2. m \in 1 .. Len(peer) /\ Len(rbuf) < SizeOf(peer[m]) /\ SizeOf(peer[m]) \in Nat
             /\ Len(rbuf) \in Nat
        BY <1>0, <2>3, <4>1, HeaderInFront, SizesType DEF Undecided
      <4>3. TooLong(peer[m]) /\ m \in DOMAIN peer
        BY <1>0, <3>1, <4>2 DEF TooLong, SizeOf
      <4> QED BY <4>3 DEF MayEnd
    <3>2. runFd
      BY <1>0, <2>1, <2>6 DEF BinaryType
    <3> QED BY <2>1, <3>1, <3>2 DEF LinkEnds, MayEnd
  <2> QED BY <1>3, <2>1, <2>2, <2>5, <2>6 DEF GatewayInv
<1>11. CASE BadMagic
  <2>1. /\ runPc = "parse" /\ runPc' = "none" /\ up' = FALSE /\ HasHeader
        /\ (~IsMagic \/ Header.type = "BAD")
        /\ UNCHANGED <<fd, ownPc, links, runFd, rbuf, received, delivered, peer, peerGone>>
    BY <1>11 DEF BadMagic, ownVars, peerVars
  <2>2. BinaryType'
    BY <1>0, <2>1 DEF BinaryType
  <2>3. PICK m \in 1 .. Len(peer) + 1 : InFront(m)
    BY <1>0, <2>1 DEF StreamInv
  <2>4. m \in BadOnes
    <3>1. m \in 1 .. Len(peer) /\ Header = peer[m] /\ IsMagic
      BY <1>0, <2>1, <2>3, HeaderInFront
    <3> QED BY <1>0, <2>1, <3>1 DEF BadOnes
  <2>5. CaughtUp'
    BY <1>0, <1>1, <2>1, <2>3, <2>4, BadCaughtUp
  <2>6. StreamInv'
    BY <2>1, <2>5 DEF StreamInv
  <2>7. MayEnd'
    BY <1>3, <2>1, <2>4 DEF MayEnd
  <2> QED BY <2>2, <2>6, <2>7 DEF GatewayInv
<1>12. CASE Dispatch
  <2>1. /\ runPc = "parse" /\ UNCHANGED <<up, fd, ownPc, links, runPc, runFd, received, peer, peerGone>>
    BY <1>12 DEF Dispatch, ownVars, peerVars
  <2>2. PICK m \in 1 .. Len(peer) + 1 : InFront(m)
    BY <1>0, <2>1 DEF StreamInv
  <2>3. /\ rbuf' \in Seq(Nat \X Nat) /\ delivered' \in Seq(Nat)
        /\ m + 1 \in 1 .. Len(peer) + 1 /\ InFront(m + 1)'
    BY <1>0, <1>12, <2>2, DispatchStep
  <2>4. ownPc # "logon"
    BY <1>0, <2>1 DEF BinaryType
  <2>5. BinaryType'
    BY <1>0, <2>1, <2>3, <2>4 DEF BinaryType
  <2>6. StreamInv'
    BY <2>1, <2>3 DEF StreamInv
  <2>7. MayEnd <=> MayEnd'
    BY <2>1 DEF MayEnd, BadOnes, TooLong
  <2> QED BY <1>0, <2>1, <2>5, <2>6, <2>7 DEF GatewayInv
<1>13. CASE NeedMore
  <2>1. /\ runPc = "parse" /\ runPc' = "loop" /\ (HasHeader => Header.type # "BAD" /\ ~Complete)
        /\ UNCHANGED <<up, fd, ownPc, links, runFd, rbuf, received, delivered, peer, peerGone>>
    BY <1>13 DEF NeedMore, ownVars, peerVars
  <2>2. PICK m \in 1 .. Len(peer) + 1 : InFront(m)
    BY <1>0, <2>1 DEF StreamInv
  <2>3. Undecided(m)
    <3>. SUFFICES ASSUME HasHeader
                  PROVE  m <= Len(peer) /\ peer[m].type # "BAD" /\ Len(rbuf) < SizeOf(peer[m])
      BY DEF Undecided, HasHeader
    <3>1. m \in 1 .. Len(peer) /\ Header = peer[m] /\ MsgLen = SizeOf(peer[m])
      BY <1>0, <2>2, HeaderInFront
    <3>2. SizeOf(peer[m]) \in Nat /\ Len(rbuf) \in Nat
      BY <1>0, <3>1, SizesType
    <3> QED BY <2>1, <3>1, <3>2 DEF Complete
  <2>4. BinaryType'
    BY <1>0, <2>1 DEF BinaryType
  <2>5. InFront(m)' /\ Undecided(m)'
    BY <1>1, <2>1, <2>2, <2>3
  <2>6. StreamInv'
    BY <2>1, <2>2, <2>5 DEF StreamInv
  <2> QED BY <1>0, <1>3, <2>1, <2>4, <2>6 DEF GatewayInv
<1>14. CASE PeerLeaves
  <2>1. peerGone' = TRUE /\ UNCHANGED <<up, fd, ownPc, links, runPc, runFd, rbuf, received, delivered, peer>>
    BY <1>14 DEF PeerLeaves, ownVars, runVars
  <2>2. BinaryType'
    BY <1>0, <2>1 DEF BinaryType
  <2> QED BY <1>2, <2>1, <2>2 DEF GatewayInv, MayEnd
<1>15. CASE UNCHANGED binaryVars
  <2>1. UNCHANGED <<up, fd, ownPc, links, runPc, runFd, rbuf, received, delivered, peer, peerGone>>
    BY <1>15 DEF binaryVars, ownVars, runVars, peerVars
  <2>2. BinaryType'
    BY <1>0, <2>1 DEF BinaryType
  <2> QED BY <1>0, <1>2, <1>3, <2>1, <2>2 DEF GatewayInv
<1> QED BY <1>4, <1>5, <1>6, <1>7, <1>8, <1>9, <1>10, <1>11, <1>12, <1>13, <1>14, <1>15, PeerStep
        DEF BinaryNext

\* For every buffer size, header, message length and way in which TCP cuts the
\* stream, the callbacks of the binary gateway were given exactly the reports that
\* are complete in the bytes received, once and in the order sent, and run() gives
\* up a link its owner keeps only for a reason that is in the stream.
THEOREM StreamIsParsed == BinarySpec => []ReportsAreDelivered
<1>1. BinaryInit => GatewayInv
  <2>. SUFFICES ASSUME BinaryInit PROVE GatewayInv
    OBVIOUS
  <2>1. /\ ownPc = "down" /\ runPc = "none" /\ rbuf = << >> /\ received = 0 /\ delivered = << >>
        /\ peer = << >>
    BY DEF BinaryInit
  <2>2. peer \in Seq(Messages) /\ Len(peer) = 0 /\ DOMAIN peer = {} /\ End(peer, 0) = 0
    <3>1. peer \in Seq(Messages) /\ Len(peer) = 0 /\ DOMAIN peer = {}
      BY <2>1
    <3> QED BY <3>1, EndStep
  <2>3. BinaryType
    BY <2>1, <2>2 DEF BinaryType
  <2>4. CompleteReports = {} /\ Range(delivered) = {} /\ InOrder(delivered)
    BY <2>1, <2>2 DEF CompleteReports, Range, InOrder
  <2> QED BY <2>1, <2>3, <2>4 DEF GatewayInv, StreamInv, CaughtUp
<1>2. GatewayInv /\ [BinaryNext]_binaryVars => GatewayInv'
  BY GatewayStep
<1>3. GatewayInv => ReportsAreDelivered
  <2>. SUFFICES ASSUME GatewayInv, runPc # "parse" PROVE CaughtUp
    BY DEF GatewayInv, MayEnd, CaughtUp, ReportsAreDelivered
  <2>1. CASE runPc = "none"
    BY <2>1 DEF GatewayInv, StreamInv
  <2>2. CASE runPc \in {"loop", "recv"}
    BY <2>2, UndecidedCaughtUp DEF GatewayInv, StreamInv
  <2>3. runPc \in {"none", "loop", "recv"}
    BY DEF GatewayInv, BinaryType
  <2> QED BY <2>1, <2>2, <2>3
<1> QED BY <1>1, <1>2, <1>3, PTL DEF BinarySpec

\* The connections as a whole: the parts share no state, so what each promises
\* holds of every behaviour of the connectivity layer.
THEOREM ConnectivityKept ==
    ConnectivitySpec => [](/\ StoppedIsDisconnected /\ NoDescriptorLeak
                           /\ WireInSequence /\ LiveSessionIsActive
                           /\ ReportsAreDelivered)
<1>1. ConnectivityInit => Init /\ FixInit /\ BinaryInit
  BY DEF ConnectivityInit
<1>2. [ConnectivityNext]_connectivityVars => [Next]_vars /\ [FixNext]_fixVars /\ [BinaryNext]_binaryVars
  BY DEF ConnectivityNext, connectivityVars
<1>3. ConnectivitySpec => Spec /\ FixSpec /\ BinarySpec
  BY <1>1, <1>2, PTL DEF ConnectivitySpec, Spec, FixSpec, BinarySpec
<1> QED BY <1>3, StopIsFinal, DescriptorsKept, NumbersIncrease, LiveIsActive, StreamIsParsed, PTL

-----------------------------------------------------------------------------
(* OrderBook                                                               *)

(***************************************************************************)
(* A book outside its own update shows on each side what its last          *)
(* completed update left.  Inside the update a side that was written shows *)
(* the event in the first levels and the old contents behind them.  The    *)
(* lock of a book is taken exactly while the writer or the reader is       *)
(* inside it, and never by both, so a reader never looks at the second     *)
(* case.                                                                   *)
(***************************************************************************)
Events == BboEvents \cup DepthEvents
Applies(i) == bkPc \in {"bids", "asks", "counts"} /\ applying.id = i
Reads(i) == rdPc # "idle" /\ rdBook.id = i

Shows(side, n, shown) ==
    /\ shown \in Seq(Nat) /\ Len(shown) = n
    /\ \A k \in 1 .. n : side[k] = shown[k]
HalfShows(side, n, shown, levels) ==
    /\ shown \in Seq(Nat) /\ Len(shown) = n
    /\ \A k \in 1 .. MaxLevels :
        IF k <= levels THEN side[k] = stamp ELSE k <= n => side[k] = shown[k]
Shallow(shown, n) == SubSeq(shown, 1, Min({Len(shown), n}))

BooksType ==
    /\ DOMAIN books = DOMAIN whole
    /\ \A i \in DOMAIN books :
        /\ books[i] \in [bids : [1 .. MaxLevels -> Nat], asks : [1 .. MaxLevels -> Nat],
                         bidCount : 0 .. MaxLevels, askCount : 0 .. MaxLevels, lock : BOOLEAN]
        /\ whole[i] \in [bids : Seq(Nat), asks : Seq(Nat)]
WriterInv ==
    /\ stamp \in Nat /\ bkPc \in {"idle", "lock", "bids", "asks", "counts"}
    /\ bkPc # "idle" => applying \in Events /\ applying.id \in DOMAIN books
ReaderSteps ==
    /\ rdPc \in {"idle", "bids", "asks", "unlock"}
    /\ DOMAIN snap = {"bids", "asks"} /\ snap = [bids |-> snap.bids, asks |-> snap.asks]
    /\ rdPc # "idle" => rdBook.id \in DOMAIN books /\ rdBook.depth \in Nat
LockInv ==
    \A i \in DOMAIN books : /\ books[i].lock <=> Applies(i) \/ Reads(i)
                            /\ ~(Applies(i) /\ Reads(i))
SideInv(i) ==
    /\ IF Applies(i) /\ bkPc \in {"asks", "counts"}
       THEN HalfShows(books[i].bids, books[i].bidCount, whole[i].bids, Levels(applying.nb))
       ELSE Shows(books[i].bids, books[i].bidCount, whole[i].bids)
    /\ IF Applies(i) /\ bkPc = "counts"
       THEN HalfShows(books[i].asks, books[i].askCount, whole[i].asks, Levels(applying.na))
       ELSE Shows(books[i].asks, books[i].askCount, whole[i].asks)
SnapInv ==
    /\ rdPc \in {"asks", "unlock"} => snap.bids = Shallow(whole[rdBook.id].bids, rdBook.depth)
    /\ rdPc = "unlock" => snap.asks = Shallow(whole[rdBook.id].asks, rdBook.depth)
BookInv ==
    /\ BooksType /\ WriterInv /\ ReaderSteps /\ LockInv /\ SnapInv
    /\ \A i \in DOMAIN books : SideInv(i)

\* What a book can store of n levels.
LEMMA LevelsOf ==
    ASSUME NEW n \in Nat
    PROVE  Levels(n) \in 0 .. MaxLevels /\ (n >= 1 => Levels(n) >= 1) /\ (n = 1 => Levels(n) = 1)
<1>1. MaxLevels \in Nat \ {0} /\ \A x \in {n, MaxLevels} : x \in Nat
  BY BookAssumption
<1>2. Min({n, MaxLevels}) \in {n, MaxLevels} /\ \A y \in {n, MaxLevels} : Min({n, MaxLevels}) <= y
  BY <1>1, MinBounds
<1> QED BY <1>1, <1>2 DEF Levels

\* The levels of an event.
LEMMA EventType ==
    ASSUME NEW e \in Events
    PROVE  /\ e.nb \in Nat /\ e.na \in Nat /\ (e.kind = "bbo" => e.nb = 1 /\ e.na = 1)
BY BookAssumption DEF Events, BboEvents, DepthEvents

\* A step of the writer inside a book it locked: no reader is in there.
LEMMA InsideAlone ==
    ASSUME BookInv, bkPc \in {"bids", "asks", "counts"}
    PROVE  /\ applying \in Events /\ applying.id \in DOMAIN books
           /\ Applies(applying.id) /\ books[applying.id].lock = TRUE
           /\ rdPc # "idle" => rdBook.id # applying.id
BY DEF BookInv, BooksType, WriterInv, LockInv, Applies, Reads

\* A reader inside a book sees both sides whole.
LEMMA ReaderSeesWhole ==
    ASSUME BookInv, rdPc # "idle"
    PROVE  /\ Shows(books[rdBook.id].bids, books[rdBook.id].bidCount, whole[rdBook.id].bids)
           /\ Shows(books[rdBook.id].asks, books[rdBook.id].askCount, whole[rdBook.id].asks)
BY DEF BookInv, ReaderSteps, LockInv, Reads, SideInv

\* What the reader copies of a side that shows shown.
LEMMA CopyIsShallow ==
    ASSUME NEW n \in 0 .. MaxLevels, NEW side \in [1 .. MaxLevels -> Nat], NEW shown,
           Shows(side, n, shown), NEW depth \in Nat
    PROVE  SubSeq(side, 1, Min({n, depth})) = Shallow(shown, depth)
<1>. DEFINE m == Min({n, depth})
<1>1. MaxLevels \in Nat /\ n \in Nat /\ \A x \in {n, depth} : x \in Nat
  BY BookAssumption
<1>2. m \in {n, depth} /\ m <= n
  BY <1>1, MinBounds
<1>3. m \in Nat /\ m <= Len(shown) /\ m <= MaxLevels /\ Len(shown) = n
  BY <1>1, <1>2 DEF Shows
<1>. HIDE DEF m
<1>4. SubSeq(side, 1, m) = [k \in 1 .. m |-> side[k]]
  BY <1>1, <1>3
<1>5. SubSeq(shown, 1, m) = [k \in 1 .. m |-> shown[k]]
  BY <1>3 DEF Shows
<1>6. \A k \in 1 .. m : side[k] = shown[k]
  BY <1>1, <1>2, <1>3 DEF Shows
<1>7. Shallow(shown, depth) = SubSeq(shown, 1, m)
  BY <1>3 DEF Shallow, m
<1> QED BY <1>4, <1>5, <1>6, <1>7 DEF m

\* on_bbo and on_depth find the book or create an empty one.
LEMMA OnEventKeeps ==
    ASSUME BookInv, NEW e \in Events, OnEvent(e)
    PROVE  BookInv'
<1>. DEFINE id == e.id
<1>0. bkPc = "idle" /\ bkPc' = "lock" /\ stamp' = stamp + 1 /\ applying' = e
  BY DEF OnEvent
<1>1. /\ DOMAIN books' = DOMAIN books \cup {id} /\ DOMAIN whole' = DOMAIN books'
      /\ \A i \in DOMAIN books : books'[i] = books[i] /\ whole'[i] = whole[i]
      /\ id \notin DOMAIN books => books'[id] = EmptyBook /\ whole'[id] = NoContents
  BY DEF OnEvent, GetOrCreate, BookInv, BooksType
<1>2. EmptyBook \in [bids : [1 .. MaxLevels -> Nat], asks : [1 .. MaxLevels -> Nat],
                     bidCount : 0 .. MaxLevels, askCount : 0 .. MaxLevels, lock : BOOLEAN]
      /\ NoContents \in [bids : Seq(Nat), asks : Seq(Nat)]
  BY BookAssumption DEF EmptyBook, NoContents
<1>3. rdPc' = rdPc /\ rdBook' = rdBook /\ snap' = snap
  BY DEF OnEvent, readerVars
<1>4. BooksType'
  BY <1>1, <1>2 DEF BookInv, BooksType
<1>5. WriterInv'
  BY <1>0, <1>1 DEF BookInv, WriterInv
<1>6. ReaderSteps'
  BY <1>1, <1>3 DEF BookInv, ReaderSteps
<1>7. LockInv'
  <2>1. ~books'[id].lock \/ id \in DOMAIN books
    BY <1>1 DEF EmptyBook
  <2> QED BY <2>1, <1>0, <1>1, <1>3 DEF BookInv, LockInv, Applies, Reads, ReaderSteps
<1>8. SnapInv'
  BY <1>1, <1>3 DEF BookInv, SnapInv, ReaderSteps
<1>9. ASSUME NEW i \in DOMAIN books' PROVE SideInv(i)'
  <2>0. bkPc \notin {"asks", "counts"} /\ bkPc' \notin {"asks", "counts"}
    BY <1>0
  <2>1. CASE i \in DOMAIN books
    BY <2>0, <2>1, <1>1 DEF BookInv, SideInv, Shows
  <2>2. CASE i \notin DOMAIN books
    <3>1. i = id /\ books'[i] = EmptyBook /\ whole'[i] = NoContents
      BY <2>2, <1>1
    <3> QED BY <2>0, <3>1 DEF SideInv, Shows, EmptyBook, NoContents
  <2> QED BY <2>1, <2>2
<1> QED BY <1>4, <1>5, <1>6, <1>7, <1>8, <1>9 DEF BookInv

\* Taking the lock.
LEMMA LockKeeps == ASSUME BookInv, ApplyLocks PROVE BookInv'
<1>. DEFINE id == applying.id
<1>0. /\ bkPc = "lock" /\ bkPc' = "bids" /\ id \in DOMAIN books /\ ~books[id].lock
      /\ books' = [books EXCEPT ![id].lock = TRUE]
      /\ UNCHANGED <<applying, stamp, whole, rdPc, rdBook, snap>>
  BY DEF ApplyLocks, readerVars, BookInv, WriterInv
<1>1. /\ DOMAIN books' = DOMAIN books
      /\ \A i \in DOMAIN books : i # id => books'[i] = books[i]
      /\ books'[id] = [books[id] EXCEPT !.lock = TRUE]
  BY <1>0
<1>2. /\ books[id] \in [bids : [1 .. MaxLevels -> Nat], asks : [1 .. MaxLevels -> Nat],
                     bidCount : 0 .. MaxLevels, askCount : 0 .. MaxLevels, lock : BOOLEAN]
  BY <1>0 DEF BookInv, BooksType
<1>3. /\ books'[id].lock = TRUE /\ books'[id].bids = books[id].bids
      /\ books'[id].asks = books[id].asks /\ books'[id].bidCount = books[id].bidCount
      /\ books'[id].askCount = books[id].askCount
      /\ books'[id] \in [bids : [1 .. MaxLevels -> Nat], asks : [1 .. MaxLevels -> Nat],
                     bidCount : 0 .. MaxLevels, askCount : 0 .. MaxLevels, lock : BOOLEAN]
  BY <1>1, <1>2
<1>4. BooksType'
  BY <1>0, <1>1, <1>3 DEF BookInv, BooksType
<1>5. WriterInv' /\ ReaderSteps' /\ SnapInv'
  BY <1>0, <1>1 DEF BookInv, WriterInv, ReaderSteps, SnapInv
<1>6. LockInv'
  BY <1>0, <1>1, <1>3 DEF BookInv, LockInv, Applies, Reads
<1>7. ASSUME NEW i \in DOMAIN books' PROVE SideInv(i)'
  <2>1. SideInv(i) /\ bkPc \notin {"asks", "counts"} /\ bkPc' \notin {"asks", "counts"}
    BY <1>0, <1>1 DEF BookInv
  <2>2. books'[i].bids = books[i].bids /\ books'[i].asks = books[i].asks
        /\ books'[i].bidCount = books[i].bidCount /\ books'[i].askCount = books[i].askCount
    BY <1>1, <1>3
  <2> QED BY <2>1, <2>2, <1>0 DEF SideInv, Shows
<1> QED BY <1>4, <1>5, <1>6, <1>7 DEF BookInv

\* One book, and what a step that only touches book id makes of the others.
BookType ==
    [bids : [1 .. MaxLevels -> Nat], asks : [1 .. MaxLevels -> Nat],
     bidCount : 0 .. MaxLevels, askCount : 0 .. MaxLevels, lock : BOOLEAN]
ContentsType == [bids : Seq(Nat), asks : Seq(Nat)]
Touches(id) ==
    /\ DOMAIN books' = DOMAIN books /\ DOMAIN whole' = DOMAIN whole
    /\ books'[id] \in BookType /\ whole'[id] \in ContentsType
    /\ \A i \in DOMAIN books \ {id} : books'[i] = books[i] /\ whole'[i] = whole[i]

\* A step inside one book leaves the others as they are.
LEMMA OtherBooks ==
    ASSUME BookInv, NEW id \in DOMAIN books, Touches(id),
           \A i \in DOMAIN books \ {id} :
               \/ ~Applies(i) /\ ~Applies(i)'
               \/ UNCHANGED <<bkPc, applying, stamp>>
    PROVE  BooksType' /\ \A i \in DOMAIN books \ {id} : SideInv(i)'
<1>1. BooksType'
  BY DEF BookInv, BooksType, Touches, BookType, ContentsType
<1>2. ASSUME NEW i \in DOMAIN books \ {id} PROVE SideInv(i)'
  <2>1. SideInv(i) /\ books'[i] = books[i] /\ whole'[i] = whole[i]
    BY DEF BookInv, Touches
  <2>2. CASE ~Applies(i) /\ ~Applies(i)'
    BY <2>1, <2>2 DEF SideInv, Shows
  <2>3. CASE UNCHANGED <<bkPc, applying, stamp>>
    BY <2>1, <2>3 DEF SideInv, Shows, HalfShows, Applies, Levels
  <2> QED BY <2>2, <2>3
<1> QED BY <1>1, <1>2

\* A step of the writer inside its book that leaves the lock alone.
LEMMA InsideStep ==
    ASSUME BookInv, bkPc \in {"bids", "asks", "counts"}, bkPc' \in {"asks", "counts"},
           UNCHANGED <<applying, stamp, whole, rdPc, rdBook, snap>>,
           Touches(applying.id), books'[applying.id].lock = books[applying.id].lock,
           SideInv(applying.id)'
    PROVE  BookInv'
<1>. DEFINE id == applying.id
<1>0. id \in DOMAIN books
  BY DEF BookInv, WriterInv
<1>1. BooksType' /\ \A i \in DOMAIN books \ {id} : SideInv(i)'
  BY <1>0, OtherBooks DEF Applies
<1>2. WriterInv' /\ ReaderSteps' /\ SnapInv'
  BY DEF BookInv, WriterInv, ReaderSteps, SnapInv, Touches
<1>3. LockInv'
  BY <1>0 DEF BookInv, LockInv, Applies, Reads, Touches
<1>4. \A i \in DOMAIN books' : SideInv(i)'
  BY <1>1 DEF Touches
<1> QED BY <1>1, <1>2, <1>3, <1>4 DEF BookInv

\* What a side shows once its first levels were written.
LEMMA WrittenShows ==
    ASSUME NEW n \in 0 .. MaxLevels, NEW side \in [1 .. MaxLevels -> Nat], NEW shown,
           Shows(side, n, shown), NEW levels \in Nat, stamp \in Nat
    PROVE  /\ Written(side, levels) \in [1 .. MaxLevels -> Nat]
           /\ HalfShows(Written(side, levels), n, shown, Levels(levels))
<1>1. Levels(levels) \in 0 .. MaxLevels /\ MaxLevels \in Nat
  BY LevelsOf, BookAssumption
<1> QED BY <1>1 DEF Written, HalfShows, Shows

\* on_bbo and on_depth write the bid levels, ...
LEMMA ApplyBidsKeeps == ASSUME BookInv, ApplyBids PROVE BookInv'
<1>. DEFINE id == applying.id
            w  == Written(books[id].bids, applying.nb)
            b  == [books[id] EXCEPT !.bids = w]
<1>0. bkPc = "bids" /\ bkPc' = "asks"
      /\ UNCHANGED <<applying, stamp, whole, rdPc, rdBook, snap>>
  BY DEF ApplyBids, readerVars
<1>1. /\ id \in DOMAIN books /\ applying \in Events /\ books[id] \in BookType /\ stamp \in Nat
      /\ whole[id] \in ContentsType
  BY <1>0 DEF BookInv, BooksType, BookType, WriterInv, ContentsType
<1>2. Shows(books[id].bids, books[id].bidCount, whole[id].bids)
      /\ Shows(books[id].asks, books[id].askCount, whole[id].asks)
  BY <1>0, <1>1 DEF BookInv, SideInv
<1>3. books' = [books EXCEPT ![id] = b]
  BY DEF ApplyBids
<1>4. w \in [1 .. MaxLevels -> Nat]
      /\ HalfShows(w, books[id].bidCount, whole[id].bids, Levels(applying.nb))
  BY <1>1, <1>2, EventType, WrittenShows DEF BookType
<1>. HIDE DEF w
<1>5. b \in BookType /\ b.bids = w
      /\ b.asks = books[id].asks /\ b.bidCount = books[id].bidCount
      /\ b.askCount = books[id].askCount /\ b.lock = books[id].lock
  BY <1>1, <1>4 DEF BookType
<1>. HIDE DEF b
<1>6. Touches(id) /\ books'[id] = b
  BY <1>0, <1>1, <1>3, <1>5 DEF Touches, BookInv, BooksType
<1>7. SideInv(id)'
  BY <1>0, <1>2, <1>4, <1>5, <1>6 DEF SideInv, Applies, Shows, HalfShows, Levels
<1> QED BY <1>0, <1>5, <1>6, <1>7, InsideStep

\* ... then the ask levels, ...
LEMMA ApplyAsksKeeps == ASSUME BookInv, ApplyAsks PROVE BookInv'
<1>. DEFINE id == applying.id
            w  == Written(books[id].asks, applying.na)
            b  == [books[id] EXCEPT !.asks = w]
<1>0. bkPc = "asks" /\ bkPc' = "counts"
      /\ UNCHANGED <<applying, stamp, whole, rdPc, rdBook, snap>>
  BY DEF ApplyAsks, readerVars
<1>1. /\ id \in DOMAIN books /\ applying \in Events /\ books[id] \in BookType /\ stamp \in Nat
      /\ whole[id] \in ContentsType
  BY <1>0 DEF BookInv, BooksType, BookType, WriterInv, ContentsType
<1>2. HalfShows(books[id].bids, books[id].bidCount, whole[id].bids, Levels(applying.nb))
      /\ Shows(books[id].asks, books[id].askCount, whole[id].asks)
  BY <1>0, <1>1 DEF BookInv, SideInv, Applies
<1>3. books' = [books EXCEPT ![id] = b]
  BY DEF ApplyAsks
<1>4. w \in [1 .. MaxLevels -> Nat]
      /\ HalfShows(w, books[id].askCount, whole[id].asks, Levels(applying.na))
  BY <1>1, <1>2, EventType, WrittenShows DEF BookType
<1>. HIDE DEF w
<1>5. b \in BookType /\ b.asks = w
      /\ b.bids = books[id].bids /\ b.bidCount = books[id].bidCount
      /\ b.askCount = books[id].askCount /\ b.lock = books[id].lock
  BY <1>1, <1>4 DEF BookType
<1>. HIDE DEF b
<1>6. Touches(id) /\ books'[id] = b
  BY <1>0, <1>1, <1>3, <1>5 DEF Touches, BookInv, BooksType
<1>7. SideInv(id)'
  BY <1>0, <1>2, <1>4, <1>5, <1>6 DEF SideInv, Applies, Shows, HalfShows, Levels
<1> QED BY <1>0, <1>5, <1>6, <1>7, InsideStep

\* One side once the counts are stored: what its event and the update before
\* left.
LEMMA SideCompletes ==
    ASSUME NEW n \in 0 .. MaxLevels, NEW side \in [1 .. MaxLevels -> Nat],
           NEW old, applying \in Events, stamp \in Nat, NEW new \in Nat,
           applying.kind = "bbo" => new = 1,
           HalfShows(side, n, old, Levels(new))
    PROVE  /\ CountAfter(n, new) \in 0 .. MaxLevels
           /\ SideAfter(old, new) \in Seq(Nat)
           /\ Shows(side, CountAfter(n, new), SideAfter(old, new))
<1>1. Levels(new) \in 0 .. MaxLevels /\ MaxLevels \in Nat \ {0}
      /\ (applying.kind = "bbo" => Levels(new) = 1)
  BY LevelsOf, BookAssumption
<1>2. old \in Seq(Nat) /\ Len(old) = n /\ n \in Nat
  BY <1>1 DEF HalfShows
<1>3. CASE applying.kind = "bbo" /\ old # << >>
  <2>1. n >= 1 /\ \A x \in {n, 1} : x \in Int
    BY <1>2, <1>3
  <2>2. Max({n, 1}) = n
    <3>1. n \in Int /\ 1 \in Int
      BY <2>1
    <3>2. Max({n, 1}) \in {n, 1} /\ Max({n, 1}) >= n /\ Max({n, 1}) >= 1
      BY <3>1, MaxOfTwo, Zenon
    <3> QED BY <2>1, <3>2
  <2>3. SideAfter(old, new) = [old EXCEPT ![1] = stamp] /\ CountAfter(n, new) = n
    BY <1>3, <2>2 DEF SideAfter, CountAfter
  <2> QED BY <1>1, <1>2, <1>3, <2>1, <2>3 DEF HalfShows, Shows
<1>4. CASE applying.kind = "bbo" /\ old = << >>
  <2>1. n = 0
    BY <1>2, <1>4
  <2>2. Max({n, 1}) = 1
    <3>1. 0 \in Int /\ 1 \in Int
      OBVIOUS
    <3>2. Max({0, 1}) \in {0, 1} /\ Max({0, 1}) >= 1
      BY <3>1, MaxOfTwo, Zenon
    <3> QED BY <2>1, <3>2
  <2>3. SideAfter(old, new) = [i \in 1 .. 1 |-> stamp] /\ CountAfter(n, new) = 1
    BY <1>1, <1>4, <2>2 DEF SideAfter, CountAfter
  <2>4. side[1] = stamp
    BY <1>1, <1>4 DEF HalfShows
  <2> QED BY <1>1, <2>3, <2>4 DEF Shows
<1>5. CASE applying.kind # "bbo"
  <2>1. SideAfter(old, new) = [i \in 1 .. Levels(new) |-> stamp]
        /\ CountAfter(n, new) = Levels(new)
    BY <1>5 DEF SideAfter, CountAfter
  <2> QED BY <1>1, <2>1 DEF HalfShows, Shows
<1> QED BY <1>3, <1>4, <1>5

\* The counts, and the end of the update.
LEMMA ApplyUnlocksKeeps == ASSUME BookInv, ApplyUnlocks PROVE BookInv'
<1>. DEFINE id == applying.id
            bc == CountAfter(books[id].bidCount, applying.nb)
            ac == CountAfter(books[id].askCount, applying.na)
            bs == SideAfter(whole[id].bids, applying.nb)
            as == SideAfter(whole[id].asks, applying.na)
<1>0. bkPc = "counts" /\ bkPc' = "idle" /\ UNCHANGED <<stamp, rdPc, rdBook, snap>>
  BY DEF ApplyUnlocks, readerVars
<1>1. /\ id \in DOMAIN books /\ applying \in Events /\ books[id] \in BookType /\ stamp \in Nat
      /\ whole[id] \in ContentsType /\ DOMAIN whole = DOMAIN books
      /\ rdPc # "idle" => rdBook.id # id
  BY <1>0, InsideAlone DEF BookInv, BooksType, BookType, WriterInv, ContentsType
<1>2. HalfShows(books[id].bids, books[id].bidCount, whole[id].bids, Levels(applying.nb))
      /\ HalfShows(books[id].asks, books[id].askCount, whole[id].asks, Levels(applying.na))
  BY <1>0, <1>1 DEF BookInv, SideInv, Applies
<1>3. /\ bc \in 0 .. MaxLevels /\ ac \in 0 .. MaxLevels /\ bs \in Seq(Nat) /\ as \in Seq(Nat)
      /\ Shows(books[id].bids, bc, bs) /\ Shows(books[id].asks, ac, as)
  BY <1>1, <1>2, EventType, SideCompletes DEF BookType
<1>4. /\ books' = [books EXCEPT ![id].bidCount = bc, ![id].askCount = ac, ![id].lock = FALSE]
      /\ whole' = [whole EXCEPT ![id] = [bids |-> bs, asks |-> as]]
  BY <1>1 DEF ApplyUnlocks, BookType
<1>. HIDE DEF bc, ac, bs, as
<1>5. /\ books'[id].bids = books[id].bids /\ books'[id].asks = books[id].asks
      /\ books'[id].bidCount = bc /\ books'[id].askCount = ac /\ books'[id].lock = FALSE
      /\ books'[id] \in BookType /\ DOMAIN books' = DOMAIN books
      /\ \A i \in DOMAIN books \ {id} : books'[i] = books[i]
  BY <1>1, <1>3, <1>4 DEF BookType
<1>6. /\ whole'[id].bids = bs /\ whole'[id].asks = as /\ whole'[id] \in ContentsType
      /\ DOMAIN whole' = DOMAIN whole /\ \A i \in DOMAIN books \ {id} : whole'[i] = whole[i]
  BY <1>1, <1>3, <1>4 DEF ContentsType
<1>7. Touches(id)
  BY <1>5, <1>6 DEF Touches
<1>8. BooksType' /\ \A i \in DOMAIN books \ {id} : SideInv(i)'
  BY <1>0, <1>1, <1>7, OtherBooks DEF Applies
<1>9. ASSUME NEW i \in DOMAIN books, i = id PROVE SideInv(i)'
  BY <1>0, <1>3, <1>5, <1>6, <1>9 DEF SideInv, Shows
<1>10. WriterInv' /\ ReaderSteps' /\ SnapInv'
  BY <1>0, <1>1, <1>5, <1>6 DEF BookInv, WriterInv, ReaderSteps, SnapInv
<1>11. LockInv'
  BY <1>0, <1>1, <1>5 DEF BookInv, LockInv, Applies, Reads
<1> QED BY <1>5, <1>8, <1>9, <1>10, <1>11 DEF BookInv

\* The reader takes the lock of a book: its writer is outside.
LEMMA SnapshotLocksKeeps ==
    ASSUME BookInv, NEW id \in Instruments, NEW depth \in {1, MarketDepth},
           SnapshotLocks(id, depth)
    PROVE  BookInv'
<1>. DEFINE b == [books[id] EXCEPT !.lock = TRUE]
<1>0. /\ rdPc = "idle" /\ rdPc' = "bids" /\ rdBook' = [id |-> id, depth |-> depth]
      /\ id \in DOMAIN books /\ books[id].lock # TRUE
      /\ UNCHANGED <<bkPc, applying, stamp, whole, snap>>
  BY DEF SnapshotLocks
<1>1. books[id] \in BookType /\ whole[id] \in ContentsType /\ DOMAIN whole = DOMAIN books
      /\ depth \in Nat
  BY <1>0, BookAssumption DEF BookInv, BooksType, BookType, ContentsType
<1>2. books' = [books EXCEPT ![id] = b]
  BY DEF SnapshotLocks
<1>3. b \in BookType /\ b.lock = TRUE /\ b.bids = books[id].bids /\ b.asks = books[id].asks
      /\ b.bidCount = books[id].bidCount /\ b.askCount = books[id].askCount
  BY <1>1 DEF BookType
<1>. HIDE DEF b
<1>4. Touches(id) /\ books'[id] = b
  BY <1>0, <1>1, <1>2, <1>3 DEF Touches
<1>5. BooksType' /\ \A i \in DOMAIN books \ {id} : SideInv(i)'
  BY <1>0, <1>4, OtherBooks
<1>6. ~Applies(id)
  BY <1>0 DEF BookInv, LockInv
<1>7. SideInv(id)'
  BY <1>0, <1>3, <1>4, <1>6 DEF BookInv, SideInv, Applies, Shows
<1>8. WriterInv' /\ ReaderSteps' /\ SnapInv'
  BY <1>0, <1>1, <1>4 DEF BookInv, WriterInv, ReaderSteps, SnapInv, Touches
<1>9. LockInv'
  BY <1>0, <1>3, <1>4, <1>6 DEF BookInv, LockInv, Applies, Reads, Touches
<1> QED BY <1>4, <1>5, <1>7, <1>8, <1>9 DEF BookInv, Touches

\* The reader returns the lock.
LEMMA SnapshotUnlocksKeeps == ASSUME BookInv, SnapshotUnlocks PROVE BookInv'
<1>. DEFINE id == rdBook.id
            b  == [books[id] EXCEPT !.lock = FALSE]
<1>0. /\ rdPc = "unlock" /\ rdPc' = "idle" /\ snap' = NoContents
      /\ UNCHANGED <<bkPc, applying, stamp, whole>>
  BY DEF SnapshotUnlocks
<1>1. books[id] \in BookType /\ whole[id] \in ContentsType /\ DOMAIN whole = DOMAIN books
      /\ id \in DOMAIN books
  BY <1>0 DEF BookInv, BooksType, BookType, ContentsType, ReaderSteps
<1>2. books' = [books EXCEPT ![id] = b]
  BY DEF SnapshotUnlocks
<1>3. b \in BookType /\ b.lock = FALSE /\ b.bids = books[id].bids /\ b.asks = books[id].asks
      /\ b.bidCount = books[id].bidCount /\ b.askCount = books[id].askCount
  BY <1>1 DEF BookType
<1>. HIDE DEF b
<1>4. Touches(id) /\ books'[id] = b
  BY <1>0, <1>1, <1>2, <1>3 DEF Touches
<1>5. BooksType' /\ \A i \in DOMAIN books \ {id} : SideInv(i)'
  BY <1>0, <1>1, <1>4, OtherBooks
<1>6. ~Applies(id)
  BY <1>0, <1>1 DEF BookInv, LockInv, Reads
<1>7. ASSUME NEW i \in DOMAIN books, i = id PROVE SideInv(i)'
  <2>1. SideInv(i) /\ ~Applies(i) /\ ~Applies(i)'
    BY <1>0, <1>6, <1>7 DEF BookInv, Applies
  <2> QED BY <2>1, <1>0, <1>3, <1>4, <1>7 DEF SideInv, Shows
<1>8. WriterInv' /\ ReaderSteps' /\ SnapInv'
  BY <1>0, <1>1, <1>4 DEF BookInv, WriterInv, ReaderSteps, SnapInv, Touches, NoContents
<1>9. LockInv'
  BY <1>0, <1>1, <1>3, <1>4, <1>6 DEF BookInv, LockInv, Applies, Reads, Touches
<1> QED BY <1>4, <1>5, <1>7, <1>8, <1>9 DEF BookInv, Touches

\* The reader copies one side of the book it holds.
LEMMA SnapshotCopies == ASSUME BookInv, SnapshotBids \/ SnapshotAsks PROVE BookInv'
<1>. DEFINE id == rdBook.id
<1>0. UNCHANGED <<books, bkPc, applying, stamp, whole, rdBook>> /\ rdPc # "idle" /\ rdPc' # "idle"
  BY DEF SnapshotBids, SnapshotAsks, writerVars
<1>1. /\ id \in DOMAIN books /\ books[id] \in BookType /\ rdBook.depth \in Nat
      /\ DOMAIN snap = {"bids", "asks"} /\ snap = [bids |-> snap.bids, asks |-> snap.asks]
  BY <1>0 DEF BookInv, BooksType, BookType, ReaderSteps
<1>2. /\ Shown(books[id].bids, books[id].bidCount) = Shallow(whole[id].bids, rdBook.depth)
      /\ Shown(books[id].asks, books[id].askCount) = Shallow(whole[id].asks, rdBook.depth)
  <2>1. /\ books[id].bids \in [1 .. MaxLevels -> Nat] /\ books[id].bidCount \in 0 .. MaxLevels
        /\ books[id].asks \in [1 .. MaxLevels -> Nat] /\ books[id].askCount \in 0 .. MaxLevels
    BY <1>1 DEF BookType
  <2>2. /\ Shows(books[id].bids, books[id].bidCount, whole[id].bids)
        /\ Shows(books[id].asks, books[id].askCount, whole[id].asks)
    BY <1>0, ReaderSeesWhole
  <2>3. rdBook.depth \in Nat
    BY <1>1
  <2>4. ASSUME NEW n \in 0 .. MaxLevels, NEW side \in [1 .. MaxLevels -> Nat], NEW shown,
               Shows(side, n, shown)
        PROVE  Shown(side, n) = Shallow(shown, rdBook.depth)
    BY <2>3, <2>4, CopyIsShallow DEF Shown
  <2> QED BY <2>1, <2>2, <2>4
<1>3. ReaderSteps' /\ SnapInv'
  <2>1. CASE SnapshotBids
    <3>1. rdPc' = "asks" /\ snap' = [snap EXCEPT !.bids = Shallow(whole[id].bids, rdBook.depth)]
      BY <1>2, <2>1 DEF SnapshotBids
    <3> QED BY <3>1, <1>0, <1>1 DEF ReaderSteps, SnapInv, Shallow
  <2>2. CASE SnapshotAsks
    <3>1. rdPc = "asks" /\ rdPc' = "unlock"
          /\ snap' = [snap EXCEPT !.asks = Shallow(whole[id].asks, rdBook.depth)]
      BY <1>2, <2>2 DEF SnapshotAsks
    <3> QED BY <3>1, <1>0, <1>1 DEF BookInv, ReaderSteps, SnapInv, Shallow
  <2> QED BY <2>1, <2>2
<1>4. BooksType' /\ WriterInv' /\ LockInv'
  BY <1>0 DEF BookInv, BooksType, WriterInv, LockInv, Applies, Reads
<1>5. \A i \in DOMAIN books' : SideInv(i)'
  BY <1>0 DEF BookInv, SideInv, Applies, Shows, HalfShows, Levels
<1> QED BY <1>3, <1>4, <1>5 DEF BookInv

\* Whatever the writer and the reader do.
BookSteps == (\E e \in Events : OnEvent(e)) \/ Writer \/ Reader \/ UNCHANGED bookVars

\* No step of the writer or of the reader breaks the invariant.
LEMMA BookStep == BookInv /\ BookSteps => BookInv'
<1>. SUFFICES ASSUME BookInv, BookSteps PROVE BookInv'
  OBVIOUS
<1>1. CASE \E e \in Events : OnEvent(e)
  BY <1>1, OnEventKeeps
<1>2. CASE Writer
  BY <1>2, LockKeeps, ApplyBidsKeeps, ApplyAsksKeeps, ApplyUnlocksKeeps DEF Writer
<1>3. CASE Reader
  BY <1>3, SnapshotLocksKeeps, SnapshotCopies, SnapshotUnlocksKeeps DEF Reader, SnapshotReturns
<1>4. CASE UNCHANGED bookVars
  <2>. USE <1>4 DEF bookVars, writerVars, readerVars, BookInv
  <2>1. BooksType' /\ WriterInv' /\ ReaderSteps' /\ SnapInv'
    BY DEF BooksType, WriterInv, ReaderSteps, SnapInv
  <2>2. LockInv'
    BY DEF LockInv, Applies, Reads
  <2>3. \A i \in DOMAIN books' : SideInv(i)'
    BY DEF SideInv, Applies, Shows, HalfShows, Levels
  <2> QED BY <2>1, <2>2, <2>3
<1> QED BY <1>1, <1>2, <1>3, <1>4 DEF BookSteps

\* What the market data thread, its stopper and the consumers do with the books.
LEMMA FeedUsesBooks == [MarketDataNext]_marketDataVars => BookSteps
<1>. SUFFICES ASSUME [MarketDataNext]_marketDataVars PROVE BookSteps
  OBVIOUS
<1>1. CASE Signal \/ Stopper \/ PopBbo
  BY <1>1 DEF Signal, Stopper, StopperSees, StopperStops, PopBbo, BookSteps
<1>2. CASE Live
  BY <1>2 DEF Live, OpenFails, OpenSucceeds, Run, LeaveLoop, RecvPackets, NextPacket,
              ReceiveEnds, CallBack, PushEvent, CountBatch, JoinStopper, BookSteps, Events
<1>3. CASE Replay
  BY <1>3 DEF Replay, ReplayOpens, ReplayEnds, ReplayPacket, ReplaySkips, DispatchPayload,
              BookSteps, Events
<1>4. CASE Books
  BY <1>4 DEF Books, BookSteps
<1>5. CASE UNCHANGED marketDataVars
  BY <1>5 DEF marketDataVars, BookSteps
<1> QED BY <1>1, <1>2, <1>3, <1>4, <1>5 DEF MarketDataNext

\* A reader never sees half of an update, for any number of instruments, any
\* depth of the events and of the books, and any number of snapshots.
THEOREM SnapshotsAreWhole == MarketDataSpec => []SnapshotIsWhole
<1>1. MarketDataInit => BookInv
  BY DEF MarketDataInit, BookInit, BookInv, BooksType, WriterInv, ReaderSteps, LockInv, SnapInv,
         NoContents
<1>2. BookInv /\ [MarketDataNext]_marketDataVars => BookInv'
  BY BookStep, FeedUsesBooks
<1>3. BookInv => SnapshotIsWhole
  BY DEF BookInv, SnapInv, SnapshotIsWhole, Shallow
<1> QED BY <1>1, <1>2, <1>3, PTL DEF MarketDataSpec
-----------------------------------------------------------------------------
(* The feed                                                                *)

\* The quotes of a packet, all of them and those that parse_batch comes to.

-----------------------------------------------------------------------------
(* FeedHandler and Normalizer                                              *)

QuotesOf(pkt) == {i \in DOMAIN pkt : ParseBbo(pkt[i])}

\* A packet is a sequence of at most PacketMax messages.
LEMMA PacketType ==
    ASSUME NEW pkt \in Packets
    PROVE  /\ pkt \in Seq(WireMessages) /\ Len(pkt) \in 0 .. PacketMax
           /\ IsFiniteSet(QuotesOf(pkt)) /\ Cardinality(QuotesOf(pkt)) \in 0 .. PacketMax
<1>1. PICK m \in 0 .. PacketMax : pkt \in [1 .. m -> WireMessages]
  BY DEF Packets, SeqOf
<1>2. pkt \in Seq(WireMessages) /\ Len(pkt) = m
  BY <1>1, NormalizerAssumption
<1>3. IsFiniteSet(1 .. m) /\ Cardinality(1 .. m) = m
  BY <1>1, NormalizerAssumption, FS_Interval
<1>4. QuotesOf(pkt) \subseteq 1 .. m
  BY <1>1 DEF QuotesOf
<1>5. IsFiniteSet(QuotesOf(pkt)) /\ Cardinality(QuotesOf(pkt)) <= m
  BY <1>3, <1>4, FS_Subset
<1>6. Cardinality(QuotesOf(pkt)) \in Nat
  BY <1>5, FS_CardinalityType
<1> QED BY <1>1, <1>2, <1>5, <1>6, NormalizerAssumption

\* parse_batch delivers every quote of a packet unless one stands behind the
\* end of its walk.
LEMMA BatchIsComplete ==
    ASSUME NEW pkt \in Packets
    PROVE  /\ ParseBatch(pkt) \in Nat
           /\ QuotesOf(pkt) \subseteq DOMAIN Walked(pkt) => ParseBatch(pkt) = Cardinality(QuotesOf(pkt))
<1>. DEFINE ends == {i \in DOMAIN pkt : pkt[i] \in {"unknown", "fragment"}}
            walked == Walked(pkt)
            seen == {i \in DOMAIN walked : ParseBbo(walked[i])}
<1>1. pkt \in Seq(WireMessages) /\ Len(pkt) \in Nat /\ DOMAIN pkt = 1 .. Len(pkt)
  BY PacketType, NormalizerAssumption
<1>2. DOMAIN walked \subseteq DOMAIN pkt /\ \A i \in DOMAIN walked : walked[i] = pkt[i]
  <2>1. CASE ends = {}
    BY <2>1 DEF Walked
  <2>2. CASE ends # {}
    <3>1. \A x \in ends : x \in Nat
      BY <1>1
    <3>2. Min(ends) \in ends
      BY <2>2, <3>1, MinBounds
    <3>3. walked = SubSeq(pkt, 1, Min(ends) - 1)
      BY <2>2 DEF Walked
    <3>8. Min(ends) \in 1 .. Len(pkt)
      BY <1>1, <3>2
    <3>9. Min(ends) - 1 \in 0 .. Len(pkt)
      BY <1>1, <3>8
    <3>4. PICK k \in 0 .. Len(pkt) : walked = SubSeq(pkt, 1, k)
      BY <3>3, <3>9
    <3> HIDE DEF walked, ends
    <3>5. \A i \in 1 .. k : pkt[i] \in WireMessages
      BY <1>1, <3>4
    <3>6. Len(walked) = k /\ DOMAIN walked = 1 .. k
      BY <1>1, <3>4, <3>5, SubSeqProperties
    <3>7. \A i \in 1 .. k : walked[i] = pkt[i]
      BY <1>1, <3>4, <3>5, SubSeqProperties
    <3> QED BY <1>1, <3>4, <3>6, <3>7
  <2> QED BY <2>1, <2>2
<1>3. seen \subseteq QuotesOf(pkt)
      /\ (QuotesOf(pkt) \subseteq DOMAIN walked => seen = QuotesOf(pkt))
  BY <1>2 DEF QuotesOf
<1>4. ParseBatch(pkt) = Min({BatchSize, Cardinality(seen)})
  BY DEF ParseBatch
<1>. HIDE DEF seen, walked, ends
<1>5. Cardinality(seen) \in 0 .. PacketMax
  <2>1. IsFiniteSet(seen) /\ Cardinality(seen) <= Cardinality(QuotesOf(pkt))
    BY <1>3, PacketType, FS_Subset
  <2>2. Cardinality(seen) \in Nat
    BY <2>1, FS_CardinalityType
  <2> QED BY <2>1, <2>2, PacketType, NormalizerAssumption
<1>6. /\ Min({BatchSize, Cardinality(seen)}) \in {BatchSize, Cardinality(seen)}
      /\ Min({BatchSize, Cardinality(seen)}) <= Cardinality(seen)
  BY <1>5, NormalizerAssumption, MinBounds
<1>7. ParseBatch(pkt) = Cardinality(seen)
  BY <1>4, <1>5, <1>6, NormalizerAssumption
<1> QED BY <1>3, <1>5, <1>7, NormalizerAssumption DEF walked

(***************************************************************************)
(* Live, the events of the packet at hand are accounted for by left until  *)
(* the packet is counted; on replay there is never a packet at hand.       *)
(***************************************************************************)
FeedInv ==
    /\ EventsAreAccounted
    /\ called \in Nat /\ queued \in Nat /\ popped \in Nat /\ dropped \in Nat /\ msgs \in Nat
    /\ errs \in Nat /\ pkts \in Nat /\ left \in Nat /\ batch \in Nat /\ onWire \in Nat
    /\ mode \in {"live", "replay"} /\ spoiled \in BOOLEAN
    /\ mode = "replay" => mdPc \in {"open", "replay", "done"}
    /\ mode = "live" => mdPc # "replay"
    /\ mdPc \notin {"process", "callback"} => left = 0 /\ batch = 0
    /\ mdPc = "callback" => left > 0

\* No step of the feed's thread, its caller or its reader breaks the account.
LEMMA FeedStep == FeedInv /\ [MarketDataNext]_marketDataVars => FeedInv'
<1>. SUFFICES ASSUME FeedInv, [MarketDataNext]_marketDataVars PROVE FeedInv'
  OBVIOUS
<1>. USE DEF FeedInv, EventsAreAccounted
<1>1. CASE Signal \/ Stopper \/ Books \/ UNCHANGED marketDataVars
  BY <1>1 DEF Signal, Stopper, StopperSees, StopperStops, Books, marketDataVars, feed, packetVars,
              feedVars
<1>2. CASE PopBbo
  BY <1>2 DEF PopBbo, packetVars
<1>3. CASE Live
  <2>1. CASE OpenFails \/ OpenSucceeds \/ Run \/ LeaveLoop \/ JoinStopper
    BY <2>1 DEF OpenFails, OpenSucceeds, Run, LeaveLoop, JoinStopper, packetVars, feedVars
  <2>2. ASSUME NEW n \in 1 .. MaxPackets, RecvPackets(n) PROVE FeedInv'
    BY <2>2 DEF RecvPackets, feedVars
  <2>3. ASSUME NEW pkt \in Packets, NextPacket(pkt) PROVE FeedInv'
    <3>1. /\ ParseBatch(pkt) \in Nat
          /\ QuotesOf(pkt) \subseteq DOMAIN Walked(pkt) => ParseBatch(pkt) = Cardinality(QuotesOf(pkt))
          /\ Cardinality(QuotesOf(pkt)) \in Nat
      BY BatchIsComplete, PacketType, NormalizerAssumption
    <3>2. /\ onWire' = onWire + Cardinality(QuotesOf(pkt))
          /\ spoiled' = (spoiled \/ ~ QuotesOf(pkt) \subseteq DOMAIN Walked(pkt))
      BY <2>3 DEF NextPacket, Arrives, QuotesOf
    <3>3. /\ mdPc = "packet" /\ mdPc' = "process" /\ left' = ParseBatch(pkt) /\ batch' = left'
          /\ UNCHANGED <<mode, pkts, queued, called, popped, msgs, dropped, errs>>
      BY <2>3 DEF NextPacket, feedVars
    <3>4. spoiled' \/ called' + left' = onWire'
      <4>. SUFFICES ASSUME ~spoiled' PROVE called' + left' = onWire'
        OBVIOUS
      <4>1. ~spoiled /\ ParseBatch(pkt) = Cardinality(QuotesOf(pkt))
        BY <3>1, <3>2
      <4>2. called = onWire
        BY <4>1, <3>3
      <4> QED BY <3>2, <3>3, <4>1, <4>2
    <3>5. spoiled' \in BOOLEAN
      BY <3>2
    <3> QED BY <3>1, <3>2, <3>3, <3>4, <3>5
  <2>4. CASE ReceiveEnds
    BY <2>4 DEF ReceiveEnds, packetVars, feedVars
  <2>5. ASSUME NEW e \in BboEvents, CallBack(e) PROVE FeedInv'
    BY <2>5 DEF CallBack, packetVars, feedVars
  <2>6. CASE PushEvent
    BY <2>6 DEF PushEvent
  <2>7. CASE CountBatch
    BY <2>7 DEF CountBatch
  <2> QED BY <1>3, <2>1, <2>2, <2>3, <2>4, <2>5, <2>6, <2>7 DEF Live
<1>4. CASE Replay
  <2>1. CASE ReplayOpens \/ ReplayEnds
    BY <2>1 DEF ReplayOpens, ReplayEnds, packetVars, feedVars
  <2>2. ASSUME NEW pkt \in Packets, ReplayPacket(pkt) PROVE FeedInv'
    <3>1. pkt \in Seq(WireMessages) /\ Len(pkt) \in Nat /\ Cardinality(QuotesOf(pkt)) \in Nat
          /\ IsFiniteSet(QuotesOf(pkt))
      BY PacketType, NormalizerAssumption
    <3>2. /\ onWire' = onWire + Cardinality(QuotesOf(pkt)) /\ onWire' \in Nat
          /\ spoiled' = (spoiled \/ ~ QuotesOf(pkt) \subseteq {1})
      BY <2>2, <3>1 DEF ReplayPacket, Arrives, QuotesOf
    <3>3. mode = "replay" /\ mode' = mode /\ mdPc' = mdPc /\ left' = 0 /\ batch' = 0 /\ left = 0
          /\ UNCHANGED <<queued, popped, dropped>> /\ pkts' = pkts + 1
      BY <2>2 DEF ReplayPacket
    <3>4. CASE pkt = << >>
      <4>1. Cardinality(QuotesOf(pkt)) = 0
        BY <3>4, FS_EmptySet DEF QuotesOf
      <4>2. UNCHANGED <<called, msgs, errs>>
        BY <2>2, <3>4 DEF ReplayPacket
      <4>3. spoiled' \/ called' + left' = onWire'
        BY <3>2, <3>3, <4>1, <4>2
      <4> QED BY <3>2, <3>3, <4>2, <4>3
    <3>5. CASE pkt # << >>
      <4>0. DispatchPayload(pkt)
        BY <2>2, <3>5 DEF ReplayPacket
      <4>1. called' = IF ParseBbo(pkt[1]) THEN called + 1 ELSE called
        BY <4>0 DEF DispatchPayload
      <4>2. \/ msgs' = msgs + 1 /\ errs' = errs
            \/ ~ParseBbo(pkt[1]) /\ msgs' = msgs /\ errs' \in {errs, errs + 1}
        BY <4>0 DEF DispatchPayload
      <4>3. QuotesOf(pkt) \subseteq {1} =>
                Cardinality(QuotesOf(pkt)) = IF ParseBbo(pkt[1]) THEN 1 ELSE 0
        <5>. SUFFICES ASSUME QuotesOf(pkt) \subseteq {1}
                      PROVE  Cardinality(QuotesOf(pkt)) = IF ParseBbo(pkt[1]) THEN 1 ELSE 0
          OBVIOUS
        <5>1. 1 \in DOMAIN pkt
          BY <3>1, <3>5
        <5>2. QuotesOf(pkt) = IF ParseBbo(pkt[1]) THEN {1} ELSE {}
          BY <5>1 DEF QuotesOf
        <5> QED BY <5>2, FS_EmptySet, FS_Singleton
      <4>4. spoiled' \/ called' + left' = onWire'
        <5>. SUFFICES ASSUME ~spoiled' PROVE called' + left' = onWire'
          OBVIOUS
        <5>1. ~spoiled /\ Cardinality(QuotesOf(pkt)) = IF ParseBbo(pkt[1]) THEN 1 ELSE 0
          BY <3>2, <4>3
        <5>2. called = onWire
          BY <5>1, <3>3
        <5> QED BY <3>2, <3>3, <4>1, <5>1, <5>2
      <4> QED BY <3>2, <3>3, <4>1, <4>2, <4>4
    <3> QED BY <3>4, <3>5
  <2>3. ASSUME NEW pkt \in Packets, ReplaySkips(pkt) PROVE FeedInv'
    <3>1. IsFiniteSet(QuotesOf(pkt)) /\ Cardinality(QuotesOf(pkt)) \in Nat
      BY PacketType, NormalizerAssumption
    <3>2. /\ onWire' = onWire + Cardinality(QuotesOf(pkt)) /\ onWire' \in Nat
          /\ spoiled' = (spoiled \/ ~ QuotesOf(pkt) \subseteq {})
      BY <2>3, <3>1 DEF ReplaySkips, Arrives, QuotesOf
    <3>3. UNCHANGED <<mode, mdPc, left, batch, pkts, queued, called, popped, msgs, dropped, errs>>
      BY <2>3 DEF ReplaySkips, feedVars
    <3>4. spoiled' \/ called' + left' = onWire'
      <4>. SUFFICES ASSUME ~spoiled' PROVE called' + left' = onWire'
        OBVIOUS
      <4>1. ~spoiled /\ QuotesOf(pkt) = {}
        BY <3>2
      <4>2. Cardinality(QuotesOf(pkt)) = 0
        BY <4>1, FS_EmptySet
      <4> QED BY <3>2, <3>3, <4>1, <4>2
    <3>5. spoiled' \in BOOLEAN
      BY <3>2
    <3> QED BY <3>2, <3>3, <3>4, <3>5
  <2> QED BY <1>4, <2>1, <2>2, <2>3 DEF Replay
<1> QED BY <1>1, <1>2, <1>3, <1>4 DEF MarketDataNext

\* No event is lost unnoticed, for any packets, batch and queue size.
THEOREM NoEventIsLost == MarketDataSpec => []EventsAreAccounted
<1>1. MarketDataInit => FeedInv
  <2>. SUFFICES ASSUME MarketDataInit PROVE FeedInv
    OBVIOUS
  <2>1. EventsAreAccounted
    BY DEF MarketDataInit, EventsAreAccounted
  <2> QED BY <2>1 DEF MarketDataInit, FeedInv
<1>2. FeedInv => EventsAreAccounted
  BY DEF FeedInv
<1> QED BY <1>1, <1>2, FeedStep, PTL DEF MarketDataSpec
=============================================================================
