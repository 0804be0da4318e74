----------------------------- MODULE MarketData -----------------------------
(***************************************************************************)
(* MarketDataThread of main.cpp with its two sources.  Live, it opens the  *)
(* socket of a FeedHandler, starts a stopper thread that polls g_stop and  *)
(* then calls stop(), and enters the receive loop; every event goes to the *)
(* callback and into a bounded queue that drops when full.  On replay, it  *)
(* walks a capture with a PcapReplayer to its end and then stops the whole *)
(* process; nobody calls the replayer's stop().  The callbacks put the     *)
(* event into the books (OrderBook) and then call the strategies.          *)
(***************************************************************************)
EXTENDS Normalizer, OrderBook

CONSTANTS QueueDepth,   \* QUEUE_DEPTH
          MaxPackets    \* bound: packets received, or in the capture

ASSUME FeedAssumption == QueueDepth \in Nat \ {0} /\ MaxPackets \in Nat

VARIABLES mode,       \* use_pcap
          stop,       \* g_stop
          feedRunning,\* running_ of FeedHandler
          mdPc,       \* MarketDataThread
          stopper,    \* the stopper thread
          inbox,      \* packets of the current recvmmsg not yet processed
          left,       \* events of the current packet not yet processed
          batch,      \* events of the current packet
          queued,     \* length of bbo_queue_
          called,     \* history: callbacks made with a BBO
          popped,     \* history: events a consumer took
          pkts,       \* rx_pkts_, or pkts_replayed_
          msgs,       \* rx_msgs_, or msgs_replayed_
          dropped,    \* dropped_
          errs,       \* parse_errors_
          skipped,    \* packets of the capture too long for the buffer
          onWire,     \* history: quotes in the packets taken up
          spoiled,    \* history: a quote stood where the walk does not come
          overwritten \* history: run() overwrote an earlier stop()

packetVars == <<inbox, left, batch, pkts, skipped, onWire, spoiled>>
feedVars == <<queued, called, popped, msgs, dropped, errs>>
feed == <<mode, stop, feedRunning, mdPc, stopper, packetVars, feedVars, overwritten>>
marketDataVars == <<feed, bookVars>>

MarketDataInit ==
    /\ mode \in {"live", "replay"}
    /\ stop = FALSE /\ feedRunning = FALSE
    /\ mdPc = "open" /\ stopper = "none"
    /\ inbox = 0 /\ left = 0 /\ batch = 0 /\ queued = 0
    /\ called = 0 /\ popped = 0 /\ pkts = 0 /\ msgs = 0 /\ dropped = 0 /\ errs = 0
    /\ skipped = 0 /\ onWire = 0 /\ spoiled = FALSE /\ overwritten = FALSE
    /\ BookInit

\* SIGINT or SIGTERM.
Signal ==
    /\ ~stop
    /\ stop' = TRUE
    /\ UNCHANGED <<mode, feedRunning, mdPc, stopper, packetVars, feedVars, overwritten, bookVars>>

\* The quotes of a packet, and whether one of them is out of reach.
Arrives(pkt, reach) ==
    LET quotes == {i \in DOMAIN pkt : ParseBbo(pkt[i])} IN
    /\ onWire' = onWire + Cardinality(quotes)
    /\ spoiled' = (spoiled \/ ~ quotes \subseteq reach)

-----------------------------------------------------------------------------
(* Live: FeedHandler                                                       *)

\* open() fails: stop the whole process and leave.
OpenFails ==
    /\ mode = "live" /\ mdPc = "open"
    /\ stop' = TRUE
    /\ mdPc' = "done"
    /\ UNCHANGED <<mode, feedRunning, stopper, packetVars, feedVars, overwritten, bookVars>>

\* open() succeeds; the stopper thread is started.
OpenSucceeds ==
    /\ mode = "live" /\ mdPc = "open"
    /\ stopper' = "poll"
    /\ mdPc' = "run"
    /\ UNCHANGED <<mode, stop, feedRunning, packetVars, feedVars, overwritten, bookVars>>

\* run(): running_ is set, whatever stop() stored before.
Run ==
    /\ mdPc = "run"
    /\ feedRunning' = TRUE
    /\ overwritten' = (stopper = "done")
    /\ mdPc' = "loop"
    /\ UNCHANGED <<mode, stop, stopper, packetVars, feedVars, bookVars>>

\* The loop condition fails: run() returns, the stopper is joined.
LeaveLoop ==
    /\ mdPc = "loop" /\ ~feedRunning
    /\ mdPc' = "join"
    /\ UNCHANGED <<mode, stop, feedRunning, stopper, packetVars, feedVars, overwritten, bookVars>>

\* recvmmsg returns n packets; with none the loop goes on.
RecvPackets(n) ==
    /\ mdPc = "loop" /\ feedRunning
    /\ pkts + n <= MaxPackets
    /\ inbox' = n
    /\ pkts' = pkts + n
    /\ mdPc' = "packet"
    /\ UNCHANGED <<mode, stop, feedRunning, stopper, left, batch, skipped, onWire, spoiled,
                   feedVars, overwritten, bookVars>>

\* process_packet: parse the next packet, or back to the loop condition.
NextPacket(pkt) ==
    /\ mdPc = "packet" /\ inbox > 0
    /\ inbox' = inbox - 1
    /\ batch' = ParseBatch(pkt) /\ left' = ParseBatch(pkt)
    /\ Arrives(pkt, DOMAIN Walked(pkt))
    /\ mdPc' = "process"
    /\ UNCHANGED <<mode, stop, feedRunning, stopper, pkts, skipped, feedVars, overwritten, bookVars>>

ReceiveEnds ==
    /\ mdPc = "packet" /\ inbox = 0
    /\ mdPc' = "loop"
    /\ UNCHANGED <<mode, stop, feedRunning, stopper, packetVars, feedVars, overwritten, bookVars>>

\* process_packet, one event: the callback begins with the event's book.
CallBack(e) ==
    /\ mdPc = "process" /\ left > 0
    /\ OnEvent(e)
    /\ mdPc' = "callback"
    /\ UNCHANGED <<mode, stop, feedRunning, stopper, packetVars, feedVars, overwritten>>

\* Mutant: an event the full queue refuses is not counted.
PushEventUncounted ==
    /\ mdPc = "callback" /\ bkPc = "idle"
    /\ called' = called + 1
    /\ queued' = IF queued < QueueDepth THEN queued + 1 ELSE queued
    /\ left' = left - 1
    /\ mdPc' = "process"
    /\ UNCHANGED <<mode, stop, feedRunning, stopper, inbox, batch, pkts, skipped, onWire,
                   spoiled, popped, msgs, dropped, errs, overwritten, bookVars>>

\* The book is up to date and the strategies have seen the event: the callback
\* returns, and the event is pushed or counted as dropped.
PushEvent ==
    /\ mdPc = "callback" /\ bkPc = "idle"
    /\ called' = called + 1
    /\ IF queued < QueueDepth
       THEN queued' = queued + 1 /\ dropped' = dropped
       ELSE queued' = queued /\ dropped' = dropped + 1
    /\ left' = left - 1
    /\ mdPc' = "process"
    /\ UNCHANGED <<mode, stop, feedRunning, stopper, inbox, batch, pkts, skipped, onWire,
                   spoiled, popped, msgs, errs, overwritten, bookVars>>

\* process_packet, the end: the whole packet is counted.
CountBatch ==
    /\ mdPc = "process" /\ left = 0
    /\ msgs' = msgs + batch
    /\ batch' = 0
    /\ mdPc' = "packet"
    /\ UNCHANGED <<mode, stop, feedRunning, stopper, inbox, left, pkts, skipped, onWire, spoiled,
                   queued, called, popped, dropped, errs, overwritten, bookVars>>

JoinStopper ==
    /\ mdPc = "join" /\ stopper = "done"
    /\ mdPc' = "done"
    /\ UNCHANGED <<mode, stop, feedRunning, stopper, packetVars, feedVars, overwritten, bookVars>>

\* pop_bbo by a consumer thread.
PopBbo ==
    /\ queued > 0
    /\ queued' = queued - 1
    /\ popped' = popped + 1
    /\ UNCHANGED <<mode, stop, feedRunning, mdPc, stopper, packetVars, called, msgs,
                   dropped, errs, overwritten, bookVars>>

-----------------------------------------------------------------------------
(* The stopper thread                                                      *)

StopperSees ==
    /\ stopper = "poll" /\ stop
    /\ stopper' = "stop"
    /\ UNCHANGED <<mode, stop, feedRunning, mdPc, packetVars, feedVars, overwritten, bookVars>>

\* Mutant: the stopper ends without calling stop().
StopperForgets ==
    /\ stopper = "stop"
    /\ stopper' = "done"
    /\ UNCHANGED <<mode, stop, feedRunning, mdPc, packetVars, feedVars, overwritten, bookVars>>

\* feed_handler->stop().
StopperStops ==
    /\ stopper = "stop"
    /\ feedRunning' = FALSE
    /\ stopper' = "done"
    /\ UNCHANGED <<mode, stop, mdPc, packetVars, feedVars, overwritten, bookVars>>

-----------------------------------------------------------------------------
(* Replay: PcapReplayer                                                    *)

\* open_file: the file is there and has a known magic.
ReplayOpens ==
    /\ mode = "replay" /\ mdPc = "open"
    /\ mdPc' = "replay"
    /\ UNCHANGED <<mode, stop, feedRunning, stopper, packetVars, feedVars, overwritten, bookVars>>

\* open_file fails, or the capture is at its end or cut: main stops everybody.
ReplayEnds ==
    /\ mode = "replay" /\ mdPc \in {"open", "replay"} /\ bkPc = "idle"
    /\ stop' = TRUE
    /\ mdPc' = "done"
    /\ UNCHANGED <<mode, feedRunning, stopper, packetVars, feedVars, overwritten, bookVars>>

\* dispatch_payload: only the first message of the packet is looked at.  The
\* type of a fragment is read behind its end.
DispatchPayload(pkt) ==
    LET known == ParseBbo(pkt[1]) \/ ParseDepth(pkt[1]) IN
    /\ called' = IF ParseBbo(pkt[1]) THEN called + 1 ELSE called
    /\ msgs' = IF known THEN msgs + 1 ELSE msgs
    /\ \/ /\ pkt[1] \in {"foreign", "badDepth", "fragment"} /\ ~known
          /\ errs' = errs + 1
       \/ /\ known \/ pkt[1] \in {"unknown", "fragment"}
          /\ errs' = errs
    /\ \/ ParseBbo(pkt[1]) /\ \E e \in BboEvents : OnEvent(e)
       \/ ParseDepth(pkt[1]) /\ \E e \in DepthEvents : OnEvent(e)
       \/ ~known /\ UNCHANGED bookVars

\* One packet of the capture, once the callback of the one before returned;
\* one without payload is only counted.
ReplayPacket(pkt) ==
    /\ mdPc = "replay" /\ bkPc = "idle" /\ pkts + skipped < MaxPackets
    /\ pkts' = pkts + 1
    /\ Arrives(pkt, {1})
    /\ IF pkt = << >> THEN UNCHANGED <<called, msgs, errs, bookVars>> ELSE DispatchPayload(pkt)
    /\ UNCHANGED <<mode, stop, feedRunning, mdPc, stopper, inbox, left, batch, skipped, queued,
                   popped, dropped, overwritten>>

\* A packet longer than the buffer is skipped and not counted.
ReplaySkips(pkt) ==
    /\ mdPc = "replay" /\ bkPc = "idle" /\ pkts + skipped < MaxPackets
    /\ skipped' = skipped + 1
    /\ Arrives(pkt, {})
    /\ UNCHANGED <<mode, stop, feedRunning, mdPc, stopper, inbox, left, batch, pkts,
                   feedVars, overwritten, bookVars>>

-----------------------------------------------------------------------------
Live ==
    \/ OpenFails \/ OpenSucceeds \/ Run \/ LeaveLoop
    \/ \E n \in 1 .. MaxPackets : RecvPackets(n)
    \/ \E pkt \in Packets : NextPacket(pkt)
    \/ ReceiveEnds \/ (\E e \in BboEvents : CallBack(e)) \/ PushEvent \/ CountBatch \/ JoinStopper
Replay == ReplayOpens \/ ReplayEnds \/ \E pkt \in Packets : ReplayPacket(pkt) \/ ReplaySkips(pkt)
Stopper == StopperSees \/ StopperStops

Books == (Writer \/ Reader) /\ UNCHANGED feed

MarketDataNext == Signal \/ Live \/ Replay \/ Stopper \/ PopBbo \/ Books

MarketDataSpec == MarketDataInit /\ [][MarketDataNext]_marketDataVars

\* The threads run, inside the books too; a capture has an end.  Nobody has to
\* send a signal, to send packets, to pop or to take a snapshot.
FairSpec ==
    /\ MarketDataSpec
    /\ WF_marketDataVars(Live) /\ WF_marketDataVars(Replay) /\ WF_marketDataVars(Stopper)
    /\ WF_marketDataVars(Writer /\ UNCHANGED feed) /\ WF_marketDataVars(SnapshotReturns /\ UNCHANGED feed)

-----------------------------------------------------------------------------
(***************************************************************************)
(* No event gets lost unnoticed.  Live, an event the callback saw is in    *)
(* the queue, was popped or was counted as dropped, and the statistics     *)
(* catch up with every packet; on replay no packet is counted twice.  And  *)
(* every quote on the wire reaches the callback, unless it stands where    *)
(* the decoder does not look: behind a message it cannot read or, on       *)
(* replay, behind the first message of its packet or in one too long.      *)
(***************************************************************************)
EventsAreAccounted ==
    /\ mode = "live" => /\ called = queued + popped + dropped
                        /\ called = msgs + batch - left
    /\ mode = "replay" => called <= msgs /\ msgs + errs <= pkts
    /\ spoiled \/ called + left = onWire

\* After SIGINT, when open() failed, and in any case on replay, the market data
\* thread comes back and main can join it, unless run() overwrote a stop() that
\* came before it.
FeedStops == (stop \/ mode = "replay") ~> (mdPc = "done" \/ overwritten)

\* "run() blocks until stop() is called": once the stopper has called stop() of
\* the feed handler, its receive loop is left.  While it is not, a loop without
\* packets polls the socket, which changes nothing here.
StopEndsRun == stopper = "done" ~> mdPc \in {"join", "done"}
=============================================================================
