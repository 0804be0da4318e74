----------------------------- MODULE Normalizer -----------------------------
(***************************************************************************)
(* Normalizer (src/src/market_data/normalizer.cpp): which messages of a    *)
(* packet become events.  A message is what the decoder can tell apart:    *)
(*   quote     a WireBBO or trade with the right magic                     *)
(*   foreign   a WireBBO or trade with another magic                       *)
(*   depth     a complete WireDepth; badDepth one that is cut or foreign   *)
(*   unknown   any other message type                                      *)
(*   fragment  fewer bytes than a WireBBO, at the end of a packet          *)
(***************************************************************************)
EXTENDS Naturals, Sequences, SequencesExt, FiniteSetsExt

CONSTANTS Exchange,     \* exchange_: "INTERNAL" or "BINANCE"
          BatchSize,    \* BATCH_SIZE, the room for the events of a packet
          PacketMax     \* messages that fit into MAX_PKT_BYTES

ASSUME NormalizerAssumption ==
    /\ Exchange \in {"INTERNAL", "BINANCE"}
    /\ BatchSize \in Nat \ {0} /\ PacketMax \in 1 .. BatchSize

WireMessages == {"quote", "foreign", "depth", "badDepth", "unknown", "fragment"}

\* Every sequence of messages that can stand in a packet.
Packets ==
    {pkt \in SeqOf(WireMessages, PacketMax) :
        \A i \in 1 .. Len(pkt) - 1 : pkt[i] # "fragment"}

\* parse_bbo: the format of Binance has no magic to test.
ParseInternalBbo(msg) == msg = "quote"
ParseBinanceBbo(msg) == msg \in {"quote", "foreign"}
ParseBbo(msg) ==
    IF Exchange = "BINANCE" THEN ParseBinanceBbo(msg) ELSE ParseInternalBbo(msg)

\* parse_depth: the same for every exchange.
ParseDepth(msg) == msg = "depth"

\* parse_batch: depth messages are skipped, an unknown one or a fragment ends
\* the walk, and so does a full buffer.
Walked(pkt) ==
    LET ends == {i \in DOMAIN pkt : pkt[i] \in {"unknown", "fragment"}} IN
    IF ends = {} THEN pkt ELSE SubSeq(pkt, 1, Min(ends) - 1)
ParseBatch(pkt) ==
    LET quotes == {i \in DOMAIN Walked(pkt) : ParseBbo(Walked(pkt)[i])} IN
    Min({BatchSize, Cardinality(quotes)})
=============================================================================
