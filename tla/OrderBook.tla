----------------------------- MODULE OrderBook -----------------------------
(***************************************************************************)
(* BookBuilder and OrderBook (src/src/market_data/book_builder.cpp and     *)
(* order_book.cpp): one book per instrument, created by its first event.   *)
(* A quote overwrites level 0 of both sides, a depth event the first       *)
(* levels and the numbers of valid levels.  Every method holds the book's  *)
(* spinlock; the arrays inside are plain memory, written and copied side   *)
(* by side.  The writer is the market data thread; the reader is another   *)
(* thread that holds a pointer to a book.                                  *)
(*                                                                         *)
(* A level holds the number of the event it comes from: what prices and    *)
(* quantities a level shows is what its event said.                        *)
(***************************************************************************)
EXTENDS Integers, Sequences, FiniteSetsExt

CONSTANTS Instruments,
          MarketDepth,  \* MARKET_DEPTH, the levels of a depth event
          MaxLevels,    \* MAX_LEVELS, the levels a book stores
          MaxSnapshots  \* bound: snapshots taken

ASSUME BookAssumption ==
    /\ MarketDepth \in Nat \ {0} /\ MaxLevels \in Nat \ {0} /\ MaxSnapshots \in Nat

VARIABLES books,    \* books_: instrument -> OrderBook, for those seen so far
          bkPc,     \* the writer: where it is in on_bbo or on_depth
          applying, \* the writer: the event
          stamp,    \* history: events given to the books so far
          rdPc,     \* the reader: where it is in a snapshot
          rdBook,   \* the reader: which book, and how many levels it wants
          snap,     \* the reader: what it has copied
          snapshots,\* snapshots begun so far
          whole     \* history: the contents every completed update left

writerVars == <<books, bkPc, applying, stamp, whole>>
readerVars == <<rdPc, rdBook, snap, snapshots>>
bookVars == <<writerVars, readerVars>>

\* A BBOEvent carries one level per side, a DepthEvent up to MARKET_DEPTH.
BboEvents == [kind : {"bbo"}, id : Instruments, nb : {1}, na : {1}]
DepthEvents ==
    [kind : {"depth"}, id : Instruments, nb : 0 .. MarketDepth, na : 0 .. MarketDepth]

EmptyBook ==
    [bids |-> [i \in 1 .. MaxLevels |-> 0], asks |-> [i \in 1 .. MaxLevels |-> 0],
     bidCount |-> 0, askCount |-> 0, lock |-> FALSE]
NoEvent == CHOOSE e \in BboEvents : TRUE
NoRead == [id |-> NoEvent.id, depth |-> 1]
NoContents == [bids |-> << >>, asks |-> << >>]

BookInit ==
    /\ books = << >> /\ whole = << >>
    /\ bkPc = "idle" /\ stamp = 0
    /\ applying = NoEvent
    /\ rdPc = "idle" /\ snap = NoContents /\ snapshots = 0
    /\ rdBook = NoRead

-----------------------------------------------------------------------------
(* The writer: BookBuilder::on_bbo and on_depth                            *)

\* get_or_create: the book is there or becomes an empty one.
GetOrCreate(id) ==
    LET seen == DOMAIN books IN
    /\ books' = [i \in seen \cup {id} |-> IF i \in seen THEN books[i] ELSE EmptyBook]
    /\ whole' = [i \in seen \cup {id} |-> IF i \in seen THEN whole[i] ELSE NoContents]

\* on_bbo, on_depth: find the book, then apply.
OnEvent(e) ==
    /\ bkPc = "idle"
    /\ GetOrCreate(e.id)
    /\ applying' = e
    /\ stamp' = stamp + 1
    /\ bkPc' = "lock"
    /\ UNCHANGED readerVars

\* SpinGuard: the flag was clear.
ApplyLocks ==
    /\ bkPc = "lock" /\ ~books[applying.id].lock
    /\ books' = [books EXCEPT ![applying.id].lock = TRUE]
    /\ bkPc' = "bids"
    /\ UNCHANGED <<applying, stamp, whole, readerVars>>

\* apply_depth truncates what the book cannot store.
Levels(n) == Min({n, MaxLevels})
Written(side, n) == [i \in DOMAIN side |-> IF i <= Levels(n) THEN stamp ELSE side[i]]

ApplyBids ==
    /\ bkPc = "bids"
    /\ books' = [books EXCEPT ![applying.id].bids = Written(@, applying.nb)]
    /\ bkPc' = "asks"
    /\ UNCHANGED <<applying, stamp, whole, readerVars>>

ApplyAsks ==
    /\ bkPc = "asks"
    /\ books' = [books EXCEPT ![applying.id].asks = Written(@, applying.na)]
    /\ bkPc' = "counts"
    /\ UNCHANGED <<applying, stamp, whole, readerVars>>

\* A quote only makes sure that there is a first level.
CountAfter(count, n) ==
    IF applying.kind = "bbo" THEN Max({count, 1}) ELSE Levels(n)

\* What one side shows once the event is applied.
SideAfter(old, n) ==
    IF applying.kind = "bbo" /\ old # << >> THEN [old EXCEPT ![1] = stamp]
    ELSE [i \in 1 .. Levels(n) |-> stamp]

\* The level counts, then the guard's destructor.
ApplyUnlocks ==
    /\ bkPc = "counts"
    /\ books' = [books EXCEPT
           ![applying.id].bidCount = CountAfter(@, applying.nb),
           ![applying.id].askCount = CountAfter(@, applying.na),
           ![applying.id].lock = FALSE]
    /\ whole' = [whole EXCEPT ![applying.id] =
           [bids |-> SideAfter(@.bids, applying.nb),
            asks |-> SideAfter(@.asks, applying.na)]]
    /\ bkPc' = "idle" /\ applying' = NoEvent
    /\ UNCHANGED <<stamp, readerVars>>

-----------------------------------------------------------------------------
(* The reader: snapshot_bbo and snapshot_depth                             *)

\* Mutant: the snapshot does not wait for the lock.
SnapshotBarges(id, depth) ==
    /\ rdPc = "idle" /\ id \in DOMAIN books /\ snapshots < MaxSnapshots
    /\ books' = [books EXCEPT ![id].lock = TRUE]
    /\ rdBook' = [id |-> id, depth |-> depth]
    /\ snapshots' = snapshots + 1
    /\ rdPc' = "bids"
    /\ UNCHANGED <<bkPc, applying, stamp, whole, snap>>

SnapshotLocks(id, depth) ==
    /\ rdPc = "idle" /\ id \in DOMAIN books /\ snapshots < MaxSnapshots
    /\ ~books[id].lock
    /\ books' = [books EXCEPT ![id].lock = TRUE]
    /\ rdBook' = [id |-> id, depth |-> depth]
    /\ snapshots' = snapshots + 1
    /\ rdPc' = "bids"
    /\ UNCHANGED <<bkPc, applying, stamp, whole, snap>>

Shown(side, count) == SubSeq(side, 1, Min({count, rdBook.depth}))

SnapshotBids ==
    /\ rdPc = "bids"
    /\ LET b == books[rdBook.id] IN snap' = [snap EXCEPT !.bids = Shown(b.bids, b.bidCount)]
    /\ rdPc' = "asks"
    /\ UNCHANGED <<writerVars, rdBook, snapshots>>

SnapshotAsks ==
    /\ rdPc = "asks"
    /\ LET b == books[rdBook.id] IN snap' = [snap EXCEPT !.asks = Shown(b.asks, b.askCount)]
    /\ rdPc' = "unlock"
    /\ UNCHANGED <<writerVars, rdBook, snapshots>>

SnapshotUnlocks ==
    /\ rdPc = "unlock"
    /\ books' = [books EXCEPT ![rdBook.id].lock = FALSE]
    /\ snap' = NoContents /\ rdBook' = NoRead
    /\ rdPc' = "idle"
    /\ UNCHANGED <<bkPc, applying, stamp, whole, snapshots>>

-----------------------------------------------------------------------------
Writer == ApplyLocks \/ ApplyBids \/ ApplyAsks \/ ApplyUnlocks
SnapshotReturns == SnapshotBids \/ SnapshotAsks \/ SnapshotUnlocks
Reader ==
    \/ \E id \in Instruments, depth \in {1, MarketDepth} : SnapshotLocks(id, depth)
    \/ SnapshotReturns

-----------------------------------------------------------------------------
(***************************************************************************)
(* A snapshot shows the book as the last completed update of its           *)
(* instrument left it, never half of an update: the first level of both    *)
(* sides comes from the latest event and every further level from the      *)
(* latest depth event, so that a shallower depth event hides the levels of *)
(* a deeper one before it.                                                 *)
(***************************************************************************)
SnapshotIsWhole ==
    rdPc = "unlock" =>
        LET now == whole[rdBook.id] IN
        /\ snap.bids = SubSeq(now.bids, 1, Min({Len(now.bids), rdBook.depth}))
        /\ snap.asks = SubSeq(now.asks, 1, Min({Len(now.asks), rdBook.depth}))
=============================================================================
