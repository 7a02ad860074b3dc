------------------------ MODULE TradingPipeline_proofs ------------------------
(***************************************************************************)
(* Proofs about TradingPipeline, for any strategies, queues of any size    *)
(* and any number of ticks: the types, the order of fills and ticks, the   *)
(* replay without loss, the swap between ticks, the positions, the desks   *)
(* and the books.                                                          *)
(*                                                                         *)
(* To all but the books the text of a message matters by the types of what *)
(* is read of it: a feed is a push of some tick with the next number, or a *)
(* change of the books.  The last section follows the texts themselves.    *)
(***************************************************************************)
EXTENDS TradingPipeline, SequenceTheorems, FiniteSetTheorems, TLAPS

-----------------------------------------------------------------------------
(* What is read of a message.                                              *)

(* Every text counts as a number of the feed, or as 0.                     *)
LEMMA NumberTyped ==
  \A text : Number(text) \in Written \union {0}
<1>1. ASSUME NEW text PROVE Number(text) \in Written \union {0}
  <2> DEFINE meant == {n \in Written : Numeral[n] = text}
  <2>1. CASE meant = {}
    BY <2>1 DEF Number
  <2>2. CASE meant # {}
    <3>1. \E n \in meant : TRUE
      BY <2>2
    <3>2. (CHOOSE n \in meant : TRUE) \in meant
      BY <3>1
    <3>3. QED
      BY <2>2, <3>2 DEF Number
  <2>3. QED
    BY <2>1, <2>2
<1>2. QED
  BY <1>1

(* The numbers of the feed.                                                *)
LEMMA NumbersAreIntegers ==
  \A n \in Written \union {0} : n \in Int /\ (n > 0 => n \in Positive)
<1>1. \A n \in Written \union {0} : n \in Int
  BY NumeralAssumption
<1>2. ~(0 > 0)
  OBVIOUS
<1>3. QED
  BY <1>1, <1>2 DEF Positive

(* The fields of a message have their types, whatever its text.            *)
LEMMA ReadTyped ==
  ASSUME NEW msg
  PROVE  /\ Read(msg).sym \in Symbols
         /\ Read(msg).rate \in Int
         /\ Read(msg).trade.valid => Read(msg).trade.price \in Nat
         /\ Read(msg).depth.valid => /\ Read(msg).depth.bid \in Positive
                                     /\ Read(msg).depth.ask \in Positive
<1>1. SymbolOf(msg) \in Symbols
  BY DEF SymbolOf, Symbols
<1>2. ParseFundingRate(msg) \in Int
  BY NumberTyped, NumbersAreIntegers DEF ParseFundingRate
<1>3. ParseTrade(msg).valid => ParseTrade(msg).price \in Nat
  <2> DEFINE p == Number(QuotedValue(Data(msg), "p"))
             q == Number(QuotedValue(Data(msg), "q"))
  <2>1. ParseTrade(msg).price = p
    BY DEF ParseTrade
  <2>2. ParseTrade(msg).valid = (p > 0 /\ q > 0)
    BY Zenon DEF ParseTrade
  <2>3. p \in Int
    BY NumberTyped, NumbersAreIntegers
  <2> HIDE DEF p, q
  <2>4. p > 0 => p \in Nat
    BY <2>3
  <2>5. QED
    BY <2>1, <2>2, <2>4, Zenon
<1>4. \A list : FirstLevel(list).price \in Written \union {0}
  <2>1. ASSUME NEW list PROVE FirstLevel(list).price \in Written \union {0}
    BY NumberTyped DEF FirstLevel, NoLevel
  <2>2. QED
    BY <2>1
<1>5. ParseDepth(msg).valid => /\ ParseDepth(msg).bid \in Positive
                               /\ ParseDepth(msg).ask \in Positive
  <2> DEFINE b == FirstLevel(ListOf(Data(msg), "bids")).price
             a == FirstLevel(ListOf(Data(msg), "asks")).price
  <2>1. ParseDepth(msg).bid = b /\ ParseDepth(msg).ask = a
    BY DEF ParseDepth
  <2>2. ParseDepth(msg).valid = (b > 0 /\ a > 0)
    BY Zenon DEF ParseDepth
  <2>3. b \in Written \union {0} /\ a \in Written \union {0}
    BY <1>4
  <2> HIDE DEF a, b
  <2>4. (b > 0 => b \in Positive) /\ (a > 0 => a \in Positive)
    BY <2>3, NumbersAreIntegers
  <2>5. QED
    BY <2>1, <2>2, <2>4, Zenon
<1>6. QED
  BY <1>1, <1>2, <1>3, <1>5 DEF Read

-----------------------------------------------------------------------------
(* What a step of the feed does: it pushes a tick, or changes the books.   *)

Ticking ==
  \E t \in TickType :
    /\ tickSeq < MaxTicks
    /\ t.seq = tickSeq + 1 /\ tickSeq' = tickSeq + 1
    /\ mode = "replay" => Len(tickQueue) < TickCapacity
    /\ PushTick(t)
    /\ UNCHANGED <<mode, book, told, feedOnly>>

Booking ==
  /\ {book, told}' \subseteq [Symbols -> Tops]
  /\ UNCHANGED <<mode, tickSeq, tickQueue, feedOnly>>

(* A tick the feed numbers has the type of one.                            *)
LEMMA NextTickTyped ==
  ASSUME tickSeq \in Nat, NEW sym \in Symbols, NEW price \in Nat,
         NEW funding \in Int, NEW quote \in Quotes
  PROVE  /\ NextTick(sym, price, funding, quote) \in TickType
         /\ NextTick(sym, price, funding, quote).seq = tickSeq + 1
  BY DEF NextTick, TickType

(* Every step of the feed is one of the two.                               *)
LEMMA FeedMoves ==
  ASSUME TypeOK, Feed
  PROVE  Ticking \/ Booking
<1>1. /\ tickSeq \in Nat /\ book \in [Symbols -> Tops] /\ told \in [Symbols -> Tops]
  BY DEF TypeOK, Tops
<1>2. \A sym : TopOfBook(sym) \in Quotes \/ sym \notin Symbols
  BY DEF TopOfBook, Quotes
<1>3. ASSUME NEW h \in Heard
      PROVE  /\ h.message \in Messages
             /\ h.read.sym \in Symbols /\ h.read.rate \in Int
             /\ h.read.trade.valid => h.read.trade.price \in Nat
             /\ h.read.depth.valid => /\ h.read.depth.bid \in Positive
                                      /\ h.read.depth.ask \in Positive
  <2>1. PICK m \in Messages : h = [message |-> m, read |-> Read(Text(m))]
    BY DEF Heard
  <2>2. h.message = m /\ h.read = Read(Text(m))
    BY <2>1
  <2>3. QED
    BY <2>2, ReadTyped
<1>4. ASSUME NEW h \in Heard, Trade(h.read) PROVE Ticking
  <2> DEFINE t == NextTick(h.read.sym, h.read.trade.price, 0, TopOfBook(h.read.sym))
  <2>1. h.read.sym \in Symbols /\ h.read.trade.price \in Nat
    BY <1>3, <1>4 DEF Trade
  <2>2. t \in TickType /\ t.seq = tickSeq + 1
    BY <1>1, <1>2, <2>1, NextTickTyped
  <2>3. /\ tickSeq < MaxTicks /\ tickSeq' = tickSeq + 1
        /\ mode = "live" /\ PushTick(t)
        /\ UNCHANGED <<mode, book, told, feedOnly>>
    BY <1>4 DEF Trade
  <2> HIDE DEF t
  <2>4. mode # "replay"
    BY <2>3
  <2>5. QED
    BY <2>2, <2>3, <2>4 DEF Ticking
<1>5. ASSUME NEW h \in Heard, Funding(h.read) PROVE Ticking
  <2> DEFINE t == NextTick(h.read.sym, 0, h.read.rate, TopOfBook(h.read.sym))
  <2>1. h.read.sym \in Symbols /\ h.read.rate \in Int
    BY <1>3
  <2>2. t \in TickType /\ t.seq = tickSeq + 1
    BY <1>1, <1>2, <2>1, NextTickTyped
  <2>3. /\ tickSeq < MaxTicks /\ tickSeq' = tickSeq + 1
        /\ mode = "live" /\ PushTick(t)
        /\ UNCHANGED <<mode, book, told, feedOnly>>
    BY <1>5 DEF Funding
  <2> HIDE DEF t
  <2>4. mode # "replay"
    BY <2>3
  <2>5. QED
    BY <2>2, <2>3, <2>4 DEF Ticking
<1>6. ASSUME NEW price \in Prices, Replay(price) PROVE Ticking
  <2> DEFINE t == NextTick("btc", price, 0, "btc")
  <2>1. price \in Nat /\ "btc" \in Symbols /\ "btc" \in Quotes
    <3>1. price \in Positive
      BY InputAssumption
    <3>2. price \in Int /\ price > 0
      BY <3>1, NumeralAssumption DEF Positive
    <3>3. QED
      BY <3>2 DEF Symbols, Quotes
  <2>2. t \in TickType /\ t.seq = tickSeq + 1
    BY <1>1, <2>1, NextTickTyped
  <2>3. /\ tickSeq < MaxTicks /\ tickSeq' = tickSeq + 1
        /\ Len(tickQueue) < TickCapacity /\ PushTick(t)
        /\ UNCHANGED <<mode, book, told, feedOnly>>
    BY <1>6 DEF Replay
  <2> HIDE DEF t
  <2>4. QED
    BY <2>2, <2>3 DEF Ticking
<1>7. ASSUME NEW h \in Heard, Depth(h.message, h.read) PROVE Booking
  <2> DEFINE m == h.message
             r == h.read
  <2>1. /\ book' = [book EXCEPT ![r.sym] = BookAfter(@, r.depth)]
        /\ told' = IF m.event = "depth" /\ m.bids # <<>> /\ m.asks # <<>>
                     THEN [told EXCEPT ![m.sym] = [bid |-> m.bids[1], ask |-> m.asks[1]]]
                     ELSE told
        /\ UNCHANGED <<mode, tickSeq, tickQueue, feedOnly>>
    BY <1>7 DEF Depth
  <2>2. ASSUME NEW top \in Tops PROVE BookAfter(top, r.depth) \in Tops
    <3>1. CASE r.depth.valid
      BY <1>3, <3>1 DEF BookAfter, Tops
    <3>2. CASE ~r.depth.valid
      BY <3>2 DEF BookAfter
    <3>3. QED
      BY <3>1, <3>2
  <2>3. book' \in [Symbols -> Tops]
    BY <1>1, <2>1, <2>2
  <2>4. told' \in [Symbols -> Tops]
    <3>1. CASE m.event = "depth" /\ m.bids # <<>> /\ m.asks # <<>>
      <4>1. PICK sym \in Symbols, d \in Depths :
              m = [event |-> "depth", sym |-> sym, bids |-> d.bids, asks |-> d.asks]
        BY <1>3, <3>1 DEF Messages, DepthMessages
      <4>2. m.sym \in Symbols /\ m.bids = d.bids /\ m.asks = d.asks
        BY <4>1
      <4>3. d.bids \in Seq(Positive) /\ d.asks \in Seq(Positive)
        BY InputAssumption
      <4>4. Len(m.bids) \in Nat \ {0} /\ Len(m.asks) \in Nat \ {0}
        BY <3>1, <4>2, <4>3, EmptySeq
      <4>5. m.bids[1] \in Positive /\ m.asks[1] \in Positive
        <5>1. ASSUME NEW q \in Seq(Positive), Len(q) \in Nat \ {0}
              PROVE  q[1] \in Positive
          <6>1. 1 \in 1 .. Len(q)
            BY <5>1
          <6>2. QED
            BY <5>1, <6>1, ElementOfSeq, Zenon
        <5>2. QED
          BY <4>2, <4>3, <4>4, <5>1
      <4>6. [bid |-> m.bids[1], ask |-> m.asks[1]] \in Tops
        BY <4>5 DEF Tops
      <4>7. QED
        BY <1>1, <2>1, <3>1, <4>2, <4>6
    <3>2. CASE ~(m.event = "depth" /\ m.bids # <<>> /\ m.asks # <<>>)
      BY <1>1, <2>1, <3>2
    <3>3. QED
      BY <3>1, <3>2
  <2>5. QED
    BY <2>1, <2>3, <2>4 DEF Booking, Tops
<1>8. QED
  BY <1>4, <1>5, <1>6, <1>7 DEF Feed
-----------------------------------------------------------------------------
(* Types.                                                                  *)

(* The strategies are numbered from 1.                                     *)
LEMMA StrategiesAreNumbers ==
  /\ Strategies = 1 .. Len(Kind) /\ Len(Kind) \in Nat \ {0}
  /\ All \notin Strategies
<1>1. Len(Kind) \in Nat \ {0}
  BY KindAssumption, EmptySeq
<1>2. Strategies = 1 .. Len(Kind)
  BY KindAssumption, LenProperties DEF Strategies
<1>3. QED
  BY <1>1, <1>2 DEF All

(* The parts of TypeOK, by who writes them.                                *)
FeedTyped ==
  /\ mode \in {"live", "replay"}
  /\ book \in [Symbols -> Tops] /\ told \in [Symbols -> Tops]
  /\ tickSeq \in Nat

TicksTyped == tickQueue \in Seq(TickType) /\ Len(tickQueue) <= TickCapacity

MarketTyped ==
  /\ activeIdx \in Strategies \union {All}
  /\ turn \in Strategies \union {0}
  /\ tick \in TickType
  /\ selected \in Strategies \union {All}
  /\ btcPrice \in Nat /\ ethPrice \in Nat /\ fundingRate \in Int

FlatTyped == flat \in [Strategies -> BOOLEAN]

ObservedTyped == prev \in [Strategies -> Nat] /\ counter \in [Strategies -> Nat]

SignalsTyped == signalQueue \in Seq(SignalType) /\ Len(signalQueue) <= SignalCapacity

FillsTyped ==
  /\ qty \in [Strategies -> Int]
  /\ lastFill \in [Strategies -> SignalType]
  /\ lost \in [Strategies -> Int]

(* TypeOK, in parts.                                                        *)
LEMMA TypeOKIsTyped ==
  TypeOK <=> /\ FeedTyped /\ TicksTyped /\ MarketTyped /\ FlatTyped
             /\ ObservedTyped /\ SignalsTyped /\ FillsTyped
<1>1. TypeOK => FeedTyped
  BY DEF TypeOK, FeedTyped, Tops
<1>2. TypeOK => TicksTyped /\ MarketTyped /\ FlatTyped /\ ObservedTyped
                  /\ SignalsTyped /\ FillsTyped
  BY Zenon DEF TypeOK, TicksTyped, MarketTyped, FlatTyped, ObservedTyped,
               SignalsTyped, FillsTyped
<1>3. FeedTyped => {book, told} \subseteq [Symbols -> Tops]
  BY DEF FeedTyped, Tops
<1> DEFINE Books == {book, told} \subseteq
                      [Symbols -> Tops]
<1>4. ASSUME FeedTyped, TicksTyped, MarketTyped, FlatTyped, ObservedTyped,
             SignalsTyped, FillsTyped
      PROVE  TypeOK
  <2>1. mode \in {"live", "replay"} /\ tickSeq \in Nat /\ Books
    BY <1>3, <1>4 DEF FeedTyped
  <2>2. Books /\ mode \in {"live", "replay"} /\ tickSeq \in Nat /\ TicksTyped
          /\ MarketTyped /\ FlatTyped /\ ObservedTyped /\ SignalsTyped /\ FillsTyped
          => TypeOK
    BY Zenon DEF TypeOK, TicksTyped, MarketTyped, FlatTyped, ObservedTyped,
                 SignalsTyped, FillsTyped
  <2>3. QED
    BY <1>4, <2>1, <2>2
<1>5. QED
  BY <1>1, <1>2, <1>4

(* Pushing a tick keeps the queue typed and within its room.               *)
LEMMA PushKeepsTicks ==
  ASSUME TicksTyped, NEW t \in TickType, PushTick(t)
  PROVE  TicksTyped'
<1>1. /\ TickCapacity \in Nat /\ Len(tickQueue) \in Nat
      /\ tickQueue \in Seq(TickType)
  BY BoundAssumption, LenProperties DEF TicksTyped
<1>2. Append(tickQueue, t) \in Seq(TickType) /\ Len(Append(tickQueue, t)) = Len(tickQueue) + 1
  BY <1>1, AppendProperties
<1>3. CASE Len(tickQueue) < TickCapacity
  BY <1>1, <1>2, <1>3 DEF PushTick, TicksTyped
<1>4. CASE ~(Len(tickQueue) < TickCapacity)
  BY <1>4 DEF PushTick, TicksTyped
<1>5. QED
  BY <1>3, <1>4

(* Taking a tick.                                                          *)
LEMMA PopTickTyped ==
  ASSUME TicksTyped, MarketTyped, PopTick
  PROVE  /\ TicksTyped' /\ MarketTyped'
         /\ UNCHANGED <<feedVars, strategyVars, signalQueue, execVars, lost>>
<1>1. /\ tickQueue \in Seq(TickType) /\ tickQueue # <<>>
      /\ Len(tickQueue) \in Nat /\ TickCapacity \in Nat
      /\ Len(tickQueue) <= TickCapacity
  BY BoundAssumption, LenProperties DEF TicksTyped, PopTick, TickReady
<1>2. /\ Head(tickQueue) \in TickType /\ Tail(tickQueue) \in Seq(TickType)
      /\ Len(Tail(tickQueue)) = Len(tickQueue) - 1
  BY <1>1, HeadTailProperties
<1>3. TicksTyped'
  BY <1>1, <1>2 DEF PopTick, TicksTyped
<1>4. Head(tickQueue).price \in Nat /\ Head(tickQueue).funding \in Int
  BY <1>2 DEF TickType
<1>5. 1 \in Strategies
  BY StrategiesAreNumbers
<1>6. turn' \in Strategies \union {0} /\ selected' \in Strategies \union {All}
  BY <1>5 DEF PopTick, MarketTyped
<1>7. btcPrice' \in Nat /\ ethPrice' \in Nat /\ fundingRate' \in Int
  BY <1>4 DEF PopTick, MarketTyped
<1>8. tick' \in TickType /\ activeIdx' \in Strategies \union {All}
  BY <1>2 DEF PopTick, MarketTyped
<1>9. MarketTyped'
  BY <1>6, <1>7, <1>8 DEF MarketTyped
<1>10. QED
  BY <1>3, <1>9 DEF PopTick

(* The turn goes round.                                                    *)
LEMMA AdvanceTyped ==
  ASSUME MarketTyped, turn # 0, Advance,
         UNCHANGED <<activeIdx, tick, selected, marketVars>>
  PROVE  MarketTyped'
<1>1. turn' \in Strategies \union {0}
  BY StrategiesAreNumbers DEF Advance, MarketTyped
<1>2. QED
  BY <1>1 DEF MarketTyped, marketVars

(* What a strategy remembers of the price.                                 *)
LEMMA ObserveTyped ==
  ASSUME MarketTyped, ObservedTyped, NEW s \in Strategies, Observe(s)
  PROVE  ObservedTyped'
<1>1. counter[s] \in Nat /\ btcPrice \in Nat
  BY DEF MarketTyped, ObservedTyped
<1>2. CounterAfter(s) \in Nat
  BY <1>1 DEF CounterAfter
<1>3. QED
  BY <1>1, <1>2 DEF Observe, ObservedTyped

(* A signal has its type, and a unit is a number.                          *)
LEMMA SignalTyped ==
  ASSUME MarketTyped, NEW s \in Strategies
  PROVE  /\ SignalOf(s) \in SignalType
         /\ SignalOf(s).strategy = s /\ SignalOf(s).seq = tick.seq
         /\ \A sig : Unit(sig) \in Int
<1>1. tick.quote \in Quotes /\ tick.seq \in Nat
  BY DEF MarketTyped, TickType
<1>2. QED
  BY <1>1 DEF SignalOf, SignalType, Unit

(* A signal that is pushed, or lost.                                       *)
LEMMA EmitTyped ==
  ASSUME MarketTyped, SignalsTyped, FillsTyped, turn \in Strategies, Emit
  PROVE  SignalsTyped' /\ FillsTyped'
<1>1. /\ SignalOf(turn) \in SignalType /\ Unit(SignalOf(turn)) \in Int
  BY SignalTyped
<1>2. /\ signalQueue \in Seq(SignalType) /\ Len(signalQueue) \in Nat
      /\ SignalCapacity \in Nat
  BY BoundAssumption, LenProperties DEF SignalsTyped
<1>3. /\ Append(signalQueue, SignalOf(turn)) \in Seq(SignalType)
      /\ Len(Append(signalQueue, SignalOf(turn))) = Len(signalQueue) + 1
  BY <1>1, <1>2, AppendProperties
<1>4. SignalsTyped'
  BY <1>2, <1>3 DEF Emit, SignalsTyped
<1>5. lost' \in [Strategies -> Int]
  BY <1>1 DEF Emit, FillsTyped
<1>6. QED
  BY <1>4, <1>5 DEF Emit, strategyOnly, execVars, FillsTyped

(* A signal that is taken, and filled or lost.                             *)
LEMMA ExecuteTyped ==
  ASSUME SignalsTyped, FillsTyped, Execute
  PROVE  SignalsTyped' /\ FillsTyped'
<1> DEFINE sig == Head(signalQueue)
<1>1. /\ signalQueue \in Seq(SignalType) /\ signalQueue # <<>>
      /\ Len(signalQueue) \in Nat /\ SignalCapacity \in Nat
  BY BoundAssumption, LenProperties DEF SignalsTyped, Execute
<1>2. /\ sig \in SignalType /\ Tail(signalQueue) \in Seq(SignalType)
      /\ Len(Tail(signalQueue)) = Len(signalQueue) - 1
  BY <1>1, HeadTailProperties
<1>3. SignalsTyped'
  BY <1>1, <1>2 DEF Execute, Popped, SignalsTyped
<1>4. sig.strategy \in Strategies /\ Unit(sig) \in Int
  BY <1>2 DEF SignalType, Unit
<1>5. FillsTyped'
  <2> DEFINE n == Unit(sig)
             c == sig.strategy
  <2>1. CASE sig.quote = NoQuote
    <3>1. lost' = [lost EXCEPT ![c] = @ + n] /\ UNCHANGED execVars
      BY <2>1 DEF Execute, Popped
    <3> HIDE DEF n, c
    <3>2. QED
      BY <1>4, <3>1 DEF execVars, FillsTyped, n, c
  <2>2. CASE sig.quote # NoQuote
    <3>1. /\ qty' = [qty EXCEPT ![c] = @ + n]
          /\ lastFill' = [lastFill EXCEPT ![c] = sig]
          /\ UNCHANGED lost
      BY <2>2 DEF Execute, Popped
    <3>2. c \in Strategies /\ n \in Int /\ sig \in SignalType
      BY <1>2, <1>4
    <3> HIDE DEF n, c, sig
    <3>3. QED
      BY <3>1, <3>2 DEF FillsTyped
  <2>3. QED
    BY <2>1, <2>2
<1>6. QED
  BY <1>3, <1>5

(* The variables of the pipeline keep their types, whatever the texts of   *)
(* the messages: no text makes a tick the queue does not expect.           *)
THEOREM TypeCorrect == Spec => []TypeOK
<1>1. Init => TypeOK
  <2>1. SUFFICES ASSUME Init PROVE TypeOK
    OBVIOUS
  <2>2. FeedTyped
    BY <2>1 DEF Init, FeedTyped, NoTop, Tops
  <2>3. TicksTyped /\ SignalsTyped
    BY <2>1, EmptySeq, BoundAssumption DEF Init, TicksTyped, SignalsTyped
  <2>4. MarketTyped
    BY <2>1 DEF Init, MarketTyped, NoTick, TickType, Symbols, Quotes
  <2>5. FlatTyped /\ ObservedTyped
    BY <2>1 DEF Init, FlatTyped, ObservedTyped
  <2>6. FillsTyped
    <3>1. 1 \in Strategies
      BY StrategiesAreNumbers
    <3>2. NoFill \in SignalType
      BY <3>1 DEF NoFill, SignalType, Quotes
    <3>3. QED
      BY <2>1, <3>2 DEF Init, FillsTyped
  <2>7. QED
    BY <2>2, <2>3, <2>4, <2>5, <2>6, TypeOKIsTyped
<1>2. TypeOK /\ [Next]_vars => TypeOK'
  <2>1. SUFFICES ASSUME TypeOK, [Next]_vars PROVE TypeOK'
    OBVIOUS
  <2>2. /\ FeedTyped /\ TicksTyped /\ MarketTyped /\ FlatTyped
        /\ ObservedTyped /\ SignalsTyped /\ FillsTyped
    BY <2>1, TypeOKIsTyped
  <2> DEFINE T == /\ FeedTyped /\ TicksTyped /\ MarketTyped /\ FlatTyped
                  /\ ObservedTyped /\ SignalsTyped /\ FillsTyped
  <2>3. SUFFICES T'
    BY TypeOKIsTyped, PTL
  <2>4. UNCHANGED feedVars => FeedTyped'
    BY <2>2 DEF feedVars, FeedTyped
  <2>5. UNCHANGED tickQueue => TicksTyped'
    BY <2>2 DEF TicksTyped
  <2>6. UNCHANGED <<activeIdx, turn, tick, selected, marketVars>> => MarketTyped'
    BY <2>2 DEF marketVars, MarketTyped
  <2>7. (UNCHANGED flat => FlatTyped') /\ (UNCHANGED <<prev, counter>> => ObservedTyped')
    BY <2>2 DEF FlatTyped, ObservedTyped
  <2>8. UNCHANGED signalQueue => SignalsTyped'
    BY <2>2 DEF SignalsTyped
  <2>9. UNCHANGED <<execVars, lost>> => FillsTyped'
    BY <2>2 DEF execVars, FillsTyped
  <2>10. CASE Ticking
    <3>1. PICK t \in TickType :
            /\ tickSeq' = tickSeq + 1 /\ PushTick(t)
            /\ UNCHANGED <<mode, book, told, feedOnly>>
      BY <2>10 DEF Ticking
    <3>2. TicksTyped'
      BY <2>2, <3>1, PushKeepsTicks
    <3>3. FeedTyped'
      BY <2>2, <3>1 DEF FeedTyped
    <3>4. QED
      BY <2>6, <2>7, <2>8, <2>9, <3>1, <3>2, <3>3 DEF feedOnly, strategyVars
  <2>11. CASE Booking
    <3>1. FeedTyped'
      BY <2>2, <2>11 DEF Booking, FeedTyped, Tops
    <3>2. QED
      BY <2>5, <2>6, <2>7, <2>8, <2>9, <2>11, <3>1 DEF Booking, feedOnly, strategyVars
  <2>12. ASSUME NEW s \in Strategies \union {All}, Swap(s) PROVE T'
    <3>1. MarketTyped'
      BY <2>2, <2>12 DEF Swap, marketVars, MarketTyped
    <3>2. QED
      BY <2>4, <2>5, <2>7, <2>8, <2>9, <2>12, <3>1 DEF Swap, strategyVars
  <2>13. CASE PopTick
    BY <2>2, <2>4, <2>7, <2>8, <2>9, <2>13, PopTickTyped DEF strategyVars
  <2>14. CASE Skip
    <3>1. MarketTyped'
      BY <2>2, <2>14, AdvanceTyped DEF Skip, strategyOnly
    <3>2. QED
      BY <2>4, <2>5, <2>7, <2>8, <2>9, <2>14, <3>1 DEF Skip, strategyOnly, strategyVars
  <2>15. CASE Hold
    <3>1. turn # 0 /\ turn \in Strategies
      BY <2>2, <2>15 DEF Hold, MayRun, MarketTyped
    <3>2. MarketTyped'
      BY <2>2, <2>15, <3>1, AdvanceTyped DEF Hold, strategyOnly
    <3>3. ObservedTyped'
      BY <2>2, <2>15, <3>1, ObserveTyped DEF Hold
    <3>4. QED
      BY <2>4, <2>5, <2>7, <2>8, <2>9, <2>15, <3>2, <3>3 DEF Hold, strategyOnly
  <2>16. CASE Emit
    <3>1. turn # 0 /\ turn \in Strategies
      BY <2>2, <2>16 DEF Emit, MayRun, MarketTyped
    <3>2. MarketTyped'
      BY <2>2, <2>16, <3>1, AdvanceTyped DEF Emit, strategyOnly
    <3>3. ObservedTyped'
      BY <2>2, <2>16, <3>1, ObserveTyped DEF Emit
    <3>4. SignalsTyped' /\ FillsTyped'
      BY <2>2, <2>16, <3>1, EmitTyped
    <3>5. FlatTyped'
      <4>1. flat' = [flat EXCEPT ![turn] = ~@]
        BY <2>16 DEF Emit
      <4>2. flat' = [s \in Strategies |-> IF s = turn THEN ~flat[s] ELSE flat[s]]
        BY <2>2, <4>1 DEF FlatTyped
      <4>3. QED
        BY <2>2, <4>2 DEF FlatTyped
    <3>6. QED
      BY <2>4, <2>5, <2>16, <3>2, <3>3, <3>4, <3>5 DEF Emit, strategyOnly
  <2>17. CASE Execute
    BY <2>2, <2>4, <2>5, <2>6, <2>7, <2>17, ExecuteTyped DEF Execute, strategyVars
  <2>18. CASE UNCHANGED vars
    BY <2>4, <2>5, <2>6, <2>7, <2>8, <2>9, <2>18 DEF vars, strategyVars
  <2>19. CASE Feed
    BY <2>1, <2>10, <2>11, <2>19, FeedMoves
  <2>20. QED
    BY <2>1, <2>12, <2>13, <2>14, <2>15, <2>16, <2>17, <2>18, <2>19 DEF Next, StrategyStep
<1>3. QED
  BY <1>1, <1>2, PTL DEF Spec
-----------------------------------------------------------------------------
(* The order of ticks and fills.                                           *)

TickOrder ==
  /\ \A i, j \in DOMAIN tickQueue : i < j => tickQueue[i].seq < tickQueue[j].seq
  /\ \A i \in DOMAIN tickQueue :
       tick.seq < tickQueue[i].seq /\ tickQueue[i].seq <= tickSeq
  /\ tick.seq <= tickSeq

Before(x, y) == x.seq < y.seq \/ (x.seq = y.seq /\ x.strategy < y.strategy)

(* Signals of the tick under evaluation are of strategies that had their   *)
(* turn, and the others have not filled on it.                             *)
SignalOrder ==
  /\ \A i, j \in DOMAIN signalQueue : i < j => Before(signalQueue[i], signalQueue[j])
  /\ \A i \in DOMAIN signalQueue :
       /\ lastFill[signalQueue[i].strategy].seq < signalQueue[i].seq
       /\ signalQueue[i].seq <= tick.seq
       /\ turn # 0 /\ signalQueue[i].seq = tick.seq => signalQueue[i].strategy < turn
  /\ \A s \in Strategies :
       /\ lastFill[s].seq <= tick.seq
       /\ turn # 0 /\ s >= turn => lastFill[s].seq < tick.seq

(* In a replay nothing is missing between the tick under evaluation and    *)
(* the last one delivered.                                                 *)
NoGap ==
  mode = "replay" =>
    /\ \A i \in DOMAIN tickQueue : tickQueue[i].seq = tick.seq + i
    /\ tick.seq + Len(tickQueue) = tickSeq

(* The types the order is about.                                           *)
LEMMA Numbers ==
  ASSUME TypeOK
  PROVE  /\ tickQueue \in Seq(TickType) /\ signalQueue \in Seq(SignalType)
         /\ Len(tickQueue) \in Nat /\ Len(signalQueue) \in Nat
         /\ DOMAIN tickQueue = 1 .. Len(tickQueue)
         /\ DOMAIN signalQueue = 1 .. Len(signalQueue)
         /\ \A i \in DOMAIN tickQueue : tickQueue[i].seq \in Nat
         /\ \A i \in DOMAIN signalQueue :
              signalQueue[i].seq \in Nat /\ signalQueue[i].strategy \in Strategies
         /\ tick.seq \in Nat /\ tickSeq \in Nat /\ turn \in Nat
         /\ lastFill \in [Strategies -> SignalType]
         /\ \A s \in Strategies : lastFill[s].seq \in Nat /\ s \in Nat
<1>1. /\ FeedTyped /\ TicksTyped /\ MarketTyped /\ SignalsTyped /\ FillsTyped
  BY TypeOKIsTyped
<1>2. /\ tickQueue \in Seq(TickType) /\ signalQueue \in Seq(SignalType)
      /\ tick \in TickType /\ tickSeq \in Nat
      /\ lastFill \in [Strategies -> SignalType]
      /\ turn \in Strategies \union {0}
  BY <1>1 DEF FeedTyped, TicksTyped, MarketTyped, SignalsTyped, FillsTyped
<1>3. /\ Len(tickQueue) \in Nat /\ Len(signalQueue) \in Nat
      /\ DOMAIN tickQueue = 1 .. Len(tickQueue)
      /\ DOMAIN signalQueue = 1 .. Len(signalQueue)
  BY <1>2, LenProperties
<1>4. \A i \in DOMAIN tickQueue : tickQueue[i] \in TickType
  BY <1>2, <1>3, ElementOfSeq
<1>5. \A i \in DOMAIN signalQueue : signalQueue[i] \in SignalType
  BY <1>2, <1>3, ElementOfSeq
<1>6. \A i \in DOMAIN tickQueue : tickQueue[i].seq \in Nat
  BY <1>4 DEF TickType
<1>7. \A i \in DOMAIN signalQueue :
        signalQueue[i].seq \in Nat /\ signalQueue[i].strategy \in Strategies
  BY <1>5 DEF SignalType
<1>8. tick.seq \in Nat
  BY <1>2 DEF TickType
<1>9. \A s \in Strategies : s \in Nat
  BY StrategiesAreNumbers
<1>10. \A s \in Strategies : lastFill[s].seq \in Nat
  BY <1>2 DEF SignalType
<1>11. QED
  BY <1>2, <1>3, <1>6, <1>7, <1>8, <1>9, <1>10

(* Taking a tick, as the order sees it: the queue moves up.                *)
LEMMA PopTickMoves ==
  ASSUME TypeOK, PopTick
  PROVE  /\ turn = 0 /\ turn' \in {0, 1}
         /\ tick' = tickQueue[1] /\ 1 \in DOMAIN tickQueue
         /\ Len(tickQueue') = Len(tickQueue) - 1
         /\ DOMAIN tickQueue' = 1 .. Len(tickQueue) - 1
         /\ \A i \in DOMAIN tickQueue' :
              i + 1 \in DOMAIN tickQueue /\ tickQueue'[i] = tickQueue[i + 1]
         /\ UNCHANGED <<mode, tickSeq, signalQueue, lastFill>>
<1>1. /\ turn = 0 /\ tickQueue # <<>> /\ tickQueue' = Tail(tickQueue)
      /\ tick' = Head(tickQueue)
      /\ UNCHANGED <<mode, tickSeq, signalQueue, lastFill>>
      /\ turn' \in {0, 1}
  BY DEF PopTick, TickReady, feedVars, execVars
<1>2. /\ tickQueue \in Seq(TickType)
      /\ Len(tickQueue) \in Nat \ {0} /\ DOMAIN tickQueue = 1 .. Len(tickQueue)
  BY <1>1, Numbers, EmptySeq
<1>3. /\ tickQueue' \in Seq(TickType) /\ Len(tickQueue') = Len(tickQueue) - 1
      /\ \A i \in 1 .. Len(tickQueue') : tickQueue'[i] = tickQueue[i + 1]
  BY <1>1, <1>2, HeadTailProperties
<1>4. DOMAIN tickQueue' = 1 .. Len(tickQueue) - 1
  BY <1>3, LenProperties
<1>5. Head(tickQueue) = tickQueue[1]
  BY <1>1, <1>2
<1>6. QED
  BY <1>1, <1>2, <1>3, <1>4, <1>5

(* Pushing a tick, as the order sees it.                                   *)
LEMMA TickingMoves ==
  ASSUME TypeOK, Ticking
  PROVE  /\ tickSeq < MaxTicks /\ tickSeq' = tickSeq + 1
         /\ UNCHANGED <<mode, tick, turn, signalQueue, lastFill>>
         /\ \/ UNCHANGED tickQueue /\ mode # "replay"
            \/ /\ Len(tickQueue') = Len(tickQueue) + 1
               /\ DOMAIN tickQueue' = 1 .. Len(tickQueue) + 1
               /\ \A i \in DOMAIN tickQueue : tickQueue'[i] = tickQueue[i]
               /\ tickQueue'[Len(tickQueue) + 1].seq = tickSeq + 1
<1>1. PICK t \in TickType :
        /\ tickSeq < MaxTicks
        /\ t.seq = tickSeq + 1 /\ tickSeq' = tickSeq + 1
        /\ mode = "replay" => Len(tickQueue) < TickCapacity
        /\ PushTick(t)
        /\ UNCHANGED <<mode, book, told, feedOnly>>
  BY DEF Ticking
<1>2. UNCHANGED <<mode, tick, turn, signalQueue, lastFill>>
  BY <1>1 DEF feedOnly, execVars
<1>3. tickQueue \in Seq(TickType) /\ DOMAIN tickQueue = 1 .. Len(tickQueue)
  BY Numbers
<1>4. /\ Append(tickQueue, t) \in Seq(TickType)
      /\ Len(Append(tickQueue, t)) = Len(tickQueue) + 1
      /\ \A i \in 1 .. Len(tickQueue) : Append(tickQueue, t)[i] = tickQueue[i]
      /\ Append(tickQueue, t)[Len(tickQueue) + 1] = t
  BY <1>3, AppendProperties
<1>5. DOMAIN Append(tickQueue, t) = 1 .. Len(tickQueue) + 1
  BY <1>4, LenProperties
<1>6. CASE Len(tickQueue) < TickCapacity
  <2>1. tickQueue' = Append(tickQueue, t)
    BY <1>1, <1>6 DEF PushTick
  <2>2. QED
    BY <1>1, <1>2, <1>3, <1>4, <1>5, <2>1
<1>7. CASE ~(Len(tickQueue) < TickCapacity)
  BY <1>1, <1>2, <1>7 DEF PushTick
<1>8. QED
  BY <1>6, <1>7

(* Passing the turn on, as the order sees it.                              *)
LEMMA TurnMoves ==
  ASSUME TypeOK, Skip \/ Hold \/ Emit
  PROVE  /\ turn \in Strategies /\ turn' \in {0, turn + 1}
         /\ UNCHANGED <<mode, tickSeq, tickQueue, tick, selected, btcPrice, lastFill>>
<1>1. /\ turn # 0 /\ Advance /\ UNCHANGED strategyOnly
  BY DEF Skip, Hold, Emit, MayRun
<1>2. turn \in Strategies
  BY <1>1, TypeOKIsTyped DEF MarketTyped
<1>3. QED
  BY <1>1, <1>2 DEF Advance, strategyOnly, feedVars, marketVars, execVars

(* Ticks stay in order.                                                    *)
LEMMA TickOrderKept ==
  ASSUME TypeOK, TickOrder, [Next]_vars
  PROVE  TickOrder'
<1>0. /\ \A i, j \in DOMAIN tickQueue : i < j => tickQueue[i].seq < tickQueue[j].seq
      /\ \A i \in DOMAIN tickQueue :
           tick.seq < tickQueue[i].seq /\ tickQueue[i].seq <= tickSeq
      /\ tick.seq <= tickSeq
  BY DEF TickOrder
<1>1. CASE Ticking
  <2>1. /\ tick.seq \in Nat /\ tickSeq \in Nat /\ Len(tickQueue) \in Nat
        /\ DOMAIN tickQueue = 1 .. Len(tickQueue)
        /\ \A i \in DOMAIN tickQueue : tickQueue[i].seq \in Nat
    BY Numbers
  <2>2. tickSeq' = tickSeq + 1 /\ tick' = tick
    BY <1>1, TickingMoves
  <2>3. CASE UNCHANGED tickQueue
    BY <1>0, <2>1, <2>2, <2>3 DEF TickOrder
  <2>4. CASE /\ DOMAIN tickQueue' = 1 .. Len(tickQueue) + 1
             /\ \A i \in DOMAIN tickQueue : tickQueue'[i] = tickQueue[i]
             /\ tickQueue'[Len(tickQueue) + 1].seq = tickSeq + 1
    <3>1. \A i \in DOMAIN tickQueue' : i \in DOMAIN tickQueue \/ i = Len(tickQueue) + 1
      BY <2>1, <2>4
    <3>2. \A i \in DOMAIN tickQueue' :
            tick.seq < tickQueue'[i].seq /\ tickQueue'[i].seq <= tickSeq + 1
      BY <1>0, <2>1, <2>4, <3>1
    <3>3. ASSUME NEW i \in DOMAIN tickQueue', NEW j \in DOMAIN tickQueue', i < j
          PROVE  tickQueue'[i].seq < tickQueue'[j].seq
      <4>1. i \in DOMAIN tickQueue
        BY <2>1, <2>4, <3>3
      <4>2. CASE j \in DOMAIN tickQueue
        BY <1>0, <2>4, <3>3, <4>1, <4>2
      <4>3. CASE j = Len(tickQueue) + 1
        BY <1>0, <2>1, <2>4, <4>1, <4>3
      <4>4. QED
        BY <3>1, <3>3, <4>2, <4>3
    <3>4. QED
      BY <1>0, <2>1, <2>2, <3>2, <3>3 DEF TickOrder
  <2>5. QED
    BY <1>1, <2>3, <2>4, TickingMoves
<1>2. CASE PopTick
  <2>1. /\ tick' = tickQueue[1] /\ 1 \in DOMAIN tickQueue /\ tickSeq' = tickSeq
        /\ \A i \in DOMAIN tickQueue' :
             /\ i \in 1 .. Len(tickQueue) - 1
             /\ i + 1 \in DOMAIN tickQueue /\ tickQueue'[i] = tickQueue[i + 1]
    BY <1>2, PopTickMoves
  <2>2. \A i \in DOMAIN tickQueue' : i \in Nat /\ i > 0
    BY <2>1, Numbers
  <2>3. ASSUME NEW i \in DOMAIN tickQueue', NEW j \in DOMAIN tickQueue', i < j
        PROVE  tickQueue'[i].seq < tickQueue'[j].seq
    <3>1. i + 1 < j + 1
      BY <2>2, <2>3
    <3>2. QED
      BY <1>0, <2>1, <3>1
  <2>4. ASSUME NEW i \in DOMAIN tickQueue'
        PROVE  tick'.seq < tickQueue'[i].seq /\ tickQueue'[i].seq <= tickSeq
    <3>1. 1 < i + 1
      BY <2>2
    <3>2. QED
      BY <1>0, <2>1, <3>1
  <2>5. QED
    BY <1>0, <2>1, <2>3, <2>4 DEF TickOrder
<1>3. CASE UNCHANGED <<tickQueue, tick, tickSeq>>
  BY <1>3 DEF TickOrder
<1>4. CASE Booking
  BY <1>3, <1>4 DEF Booking, feedOnly
<1>5. CASE Skip \/ Hold \/ Emit
  BY <1>3, <1>5, TurnMoves
<1>6. ASSUME NEW s \in Strategies \union {All}, Swap(s)
      PROVE  UNCHANGED <<tickQueue, tick, tickSeq>>
  BY <1>6 DEF Swap, feedVars
<1>7. CASE Execute \/ UNCHANGED vars
  BY <1>3, <1>7 DEF Execute, vars, feedVars
<1>8. CASE Feed
  BY <1>1, <1>4, <1>8, FeedMoves
<1>9. QED
  BY <1>2, <1>3, <1>5, <1>6, <1>7, <1>8 DEF Next, StrategyStep

(* A replay keeps its ticks without a gap.                                 *)
LEMMA NoGapKept ==
  ASSUME TypeOK, NoGap, [Next]_vars
  PROVE  NoGap'
<1>0. mode = "replay" =>
        /\ \A i \in DOMAIN tickQueue : tickQueue[i].seq = tick.seq + i
        /\ tick.seq + Len(tickQueue) = tickSeq
  BY DEF NoGap
<1>1. CASE Ticking /\ mode = "replay"
  <2>1. /\ tick.seq \in Nat /\ tickSeq \in Nat /\ Len(tickQueue) \in Nat
        /\ DOMAIN tickQueue = 1 .. Len(tickQueue)
    BY Numbers
  <2>2. /\ tickSeq' = tickSeq + 1 /\ tick' = tick
        /\ Len(tickQueue') = Len(tickQueue) + 1
        /\ DOMAIN tickQueue' = 1 .. Len(tickQueue) + 1
        /\ \A i \in DOMAIN tickQueue : tickQueue'[i] = tickQueue[i]
        /\ tickQueue'[Len(tickQueue) + 1].seq = tickSeq + 1
    BY <1>1, TickingMoves
  <2>3. ASSUME NEW i \in DOMAIN tickQueue' PROVE tickQueue'[i].seq = tick.seq + i
    <3>1. CASE i \in DOMAIN tickQueue
      BY <1>0, <1>1, <2>2, <3>1
    <3>2. CASE i = Len(tickQueue) + 1
      BY <1>0, <1>1, <2>1, <2>2, <3>2
    <3>3. QED
      BY <2>1, <2>2, <3>1, <3>2
  <2>4. tick.seq + Len(tickQueue') = tickSeq'
    <3> DEFINE n == Len(tickQueue)
               m == tick.seq
    <3>1. /\ m \in Nat /\ n \in Nat /\ m + n = tickSeq
          /\ Len(tickQueue') = n + 1 /\ tickSeq' = tickSeq + 1
      BY <1>0, <1>1, <2>1, <2>2
    <3> HIDE DEF n, m
    <3>2. m + Len(tickQueue') = tickSeq'
      BY <3>1
    <3>3. QED
      BY <3>2 DEF m
  <2>5. QED
    BY <2>2, <2>3, <2>4 DEF NoGap
<1>2. CASE PopTick /\ mode = "replay"
  <2>1. /\ tick' = tickQueue[1] /\ 1 \in DOMAIN tickQueue /\ tickSeq' = tickSeq
        /\ Len(tickQueue') = Len(tickQueue) - 1
        /\ \A i \in DOMAIN tickQueue' :
             /\ i \in 1 .. Len(tickQueue) - 1
             /\ i + 1 \in DOMAIN tickQueue /\ tickQueue'[i] = tickQueue[i + 1]
    BY <1>2, PopTickMoves
  <2>2. tick.seq \in Nat /\ Len(tickQueue) \in Nat
    BY Numbers
  <2>3. tick'.seq = tick.seq + 1
    BY <1>0, <1>2, <2>1
  <2>4. ASSUME NEW i \in DOMAIN tickQueue' PROVE tickQueue'[i].seq = tick'.seq + i
    <3>1. i \in Int /\ i + 1 \in DOMAIN tickQueue /\ tickQueue'[i] = tickQueue[i + 1]
      BY <2>1
    <3>2. tickQueue[i + 1].seq = tick.seq + (i + 1)
      BY <1>0, <1>2, <3>1
    <3>3. QED
      BY <2>2, <2>3, <3>1, <3>2
  <2>5. tick'.seq + Len(tickQueue') = tickSeq'
    BY <1>0, <1>2, <2>1, <2>2, <2>3
  <2>6. QED
    BY <2>4, <2>5 DEF NoGap
<1>10. CASE (Ticking \/ PopTick) /\ mode # "replay"
  BY <1>10, TickingMoves, PopTickMoves DEF NoGap
<1>3. CASE UNCHANGED <<mode, tickQueue, tick, tickSeq>>
  BY <1>3 DEF NoGap
<1>4. CASE Booking
  BY <1>3, <1>4 DEF Booking, feedOnly
<1>5. CASE Skip \/ Hold \/ Emit
  BY <1>3, <1>5, TurnMoves
<1>6. ASSUME NEW s \in Strategies \union {All}, Swap(s)
      PROVE  UNCHANGED <<mode, tickQueue, tick, tickSeq>>
  BY <1>6 DEF Swap, feedVars
<1>7. CASE Execute \/ UNCHANGED vars
  BY <1>3, <1>7 DEF Execute, vars, feedVars
<1>8. CASE Feed
  BY <1>1, <1>4, <1>8, <1>10, FeedMoves
<1>9. QED
  BY <1>2, <1>3, <1>5, <1>6, <1>7, <1>8, <1>10 DEF Next, StrategyStep

(* A signal that is raised comes after all that are queued.                *)
LEMMA EmitKeepsOrder ==
  ASSUME TypeOK, SignalOrder, Emit
  PROVE  SignalOrder'
<1> DEFINE sig == SignalOf(turn)
<1>1. /\ turn \in Strategies /\ turn # 0 /\ turn' \in {0, turn + 1}
      /\ UNCHANGED <<tick, lastFill>>
  BY TurnMoves, StrategiesAreNumbers
<1>2. sig \in SignalType /\ sig.strategy = turn /\ sig.seq = tick.seq
  BY <1>1, SignalTyped, TypeOKIsTyped
<1>3. /\ Append(signalQueue, sig) \in Seq(SignalType)
      /\ Len(Append(signalQueue, sig)) = Len(signalQueue) + 1
      /\ \A i \in 1 .. Len(signalQueue) : Append(signalQueue, sig)[i] = signalQueue[i]
      /\ Append(signalQueue, sig)[Len(signalQueue) + 1] = sig
  BY <1>2, Numbers, AppendProperties
<1>4. DOMAIN Append(signalQueue, sig) = 1 .. Len(signalQueue) + 1
  BY <1>3, LenProperties
<1> HIDE DEF sig
<1>5. CASE signalQueue' = signalQueue
  BY <1>1, <1>5, Numbers DEF SignalOrder
<1>6. CASE signalQueue' = Append(signalQueue, sig)
  <2>1. /\ DOMAIN signalQueue' = 1 .. Len(signalQueue) + 1
        /\ \A i \in DOMAIN signalQueue : signalQueue'[i] = signalQueue[i]
        /\ signalQueue'[Len(signalQueue) + 1].strategy = turn
        /\ signalQueue'[Len(signalQueue) + 1].seq = tick.seq
    BY <1>2, <1>3, <1>4, <1>6, Numbers
  <2>2. \A i \in DOMAIN signalQueue :
          signalQueue[i].seq < tick.seq \/
          (signalQueue[i].seq = tick.seq /\ signalQueue[i].strategy < turn)
    BY <1>1, Numbers DEF SignalOrder
  <2>3. lastFill[turn].seq < tick.seq
    BY <1>1, Numbers DEF SignalOrder
  <2>4. \A i, j \in DOMAIN signalQueue' :
          i < j => Before(signalQueue'[i], signalQueue'[j])
    <3>1. /\ Len(signalQueue) \in Nat /\ DOMAIN signalQueue = 1 .. Len(signalQueue)
      BY Numbers
    <3>2. ASSUME NEW i \in DOMAIN signalQueue', NEW j \in DOMAIN signalQueue', i < j
          PROVE  Before(signalQueue'[i], signalQueue'[j])
      <4>1. i \in DOMAIN signalQueue
        BY <2>1, <3>1, <3>2
      <4>2. CASE j \in DOMAIN signalQueue
        BY <2>1, <3>2, <4>1, <4>2 DEF SignalOrder
      <4>3. CASE j = Len(signalQueue) + 1
        BY <2>1, <2>2, <4>1, <4>3 DEF Before
      <4>4. QED
        BY <2>1, <3>1, <3>2, <4>2, <4>3
    <3>3. QED
      BY <3>2
  <2>5. \A i \in DOMAIN signalQueue' :
          /\ lastFill[signalQueue'[i].strategy].seq < signalQueue'[i].seq
          /\ signalQueue'[i].seq <= tick.seq
          /\ turn' # 0 /\ signalQueue'[i].seq = tick.seq => signalQueue'[i].strategy < turn'
    BY <1>1, <2>1, <2>2, <2>3, Numbers DEF SignalOrder
  <2>6. \A s \in Strategies :
          /\ lastFill[s].seq <= tick.seq
          /\ turn' # 0 /\ s >= turn' => lastFill[s].seq < tick.seq
    BY <1>1, Numbers DEF SignalOrder
  <2>7. QED
    BY <1>1, <2>4, <2>5, <2>6 DEF SignalOrder
<1>7. signalQueue' = signalQueue \/ signalQueue' = Append(signalQueue, sig)
  BY DEF Emit, sig
<1>8. QED
  BY <1>5, <1>6, <1>7

(* A signal that is taken comes before all that stay.                      *)
LEMMA ExecuteKeepsOrder ==
  ASSUME TypeOK, SignalOrder, Execute
  PROVE  SignalOrder'
<1> DEFINE sig == signalQueue[1]
<1>1. /\ signalQueue # <<>> /\ signalQueue' = Tail(signalQueue)
      /\ UNCHANGED <<tick, turn>>
      /\ lastFill' = lastFill \/ lastFill' = [lastFill EXCEPT ![Head(signalQueue).strategy]
                                                = Head(signalQueue)]
  BY DEF Execute, Popped, execVars
<1>2. /\ signalQueue \in Seq(SignalType)
      /\ Len(signalQueue) \in Nat \ {0} /\ DOMAIN signalQueue = 1 .. Len(signalQueue)
  BY <1>1, Numbers, EmptySeq
<1>3. /\ signalQueue' \in Seq(SignalType) /\ Len(signalQueue') = Len(signalQueue) - 1
      /\ \A i \in 1 .. Len(signalQueue') : signalQueue'[i] = signalQueue[i + 1]
  BY <1>1, <1>2, HeadTailProperties
<1>4. DOMAIN signalQueue' = 1 .. Len(signalQueue) - 1
  BY <1>3, LenProperties
<1>5. Head(signalQueue) = sig /\ 1 \in DOMAIN signalQueue
  BY <1>1, <1>2
<1>6. sig.strategy \in Strategies /\ sig.seq \in Nat
  BY <1>5, Numbers
<1>7. \A i \in DOMAIN signalQueue' :
        /\ i + 1 \in DOMAIN signalQueue /\ signalQueue'[i] = signalQueue[i + 1]
        /\ Before(sig, signalQueue[i + 1])
  BY <1>2, <1>3, <1>4, <1>5 DEF SignalOrder
<1>8. /\ sig.seq <= tick.seq
      /\ turn # 0 /\ sig.seq = tick.seq => sig.strategy < turn
  BY <1>5 DEF SignalOrder
<1>9. \A i, j \in DOMAIN signalQueue' :
        i < j => Before(signalQueue'[i], signalQueue'[j])
  <2>1. ASSUME NEW i \in DOMAIN signalQueue', NEW j \in DOMAIN signalQueue', i < j
        PROVE  Before(signalQueue'[i], signalQueue'[j])
    <3>1. i + 1 < j + 1
      BY <1>2, <1>4, <2>1
    <3>2. QED
      BY <1>7, <3>1 DEF SignalOrder
  <2>2. QED
    BY <2>1
<1>10. CASE lastFill' = lastFill
  BY <1>1, <1>7, <1>9, <1>10 DEF SignalOrder
<1>11. CASE lastFill' = [lastFill EXCEPT ![sig.strategy] = sig]
  <2>1. \A s \in Strategies : lastFill'[s] = IF s = sig.strategy THEN sig ELSE lastFill[s]
    BY <1>11, Numbers
  <2> HIDE DEF sig
  <2>2. \A i \in DOMAIN signalQueue' :
          signalQueue'[i].strategy \in Strategies /\ signalQueue'[i].seq \in Nat
    BY <1>7, Numbers
  <2>3. \A i \in DOMAIN signalQueue' :
          lastFill'[signalQueue'[i].strategy].seq < signalQueue'[i].seq
    <3>1. ASSUME NEW i \in DOMAIN signalQueue'
          PROVE  lastFill'[signalQueue'[i].strategy].seq < signalQueue'[i].seq
      <4>1. CASE signalQueue'[i].strategy = sig.strategy
        BY <1>6, <1>7, <2>1, <2>2, <4>1, Numbers DEF Before
      <4>2. CASE signalQueue'[i].strategy # sig.strategy
        BY <1>7, <2>1, <2>2, <4>2 DEF SignalOrder
      <4>3. QED
        BY <4>1, <4>2
    <3>2. QED
      BY <3>1
  <2>4. \A i \in DOMAIN signalQueue' :
          /\ signalQueue'[i].seq <= tick.seq
          /\ turn # 0 /\ signalQueue'[i].seq = tick.seq => signalQueue'[i].strategy < turn
    BY <1>7 DEF SignalOrder
  <2>5. \A s \in Strategies :
          /\ lastFill'[s].seq <= tick.seq
          /\ turn # 0 /\ s >= turn => lastFill'[s].seq < tick.seq
    BY <1>6, <1>8, <2>1, Numbers DEF SignalOrder
  <2>6. QED
    BY <1>1, <1>9, <2>3, <2>4, <2>5 DEF SignalOrder
<1>12. QED
  BY <1>1, <1>5, <1>10, <1>11

(* Every step keeps the order of signals and fills.                        *)
LEMMA SignalOrderKept ==
  ASSUME TypeOK, TickOrder, SignalOrder, [Next]_vars
  PROVE  SignalOrder'
<1>1. CASE UNCHANGED <<tick, turn, signalQueue, lastFill>>
  BY <1>1 DEF SignalOrder
<1>2. CASE PopTick
  <2>1. /\ turn' \in {0, 1} /\ UNCHANGED <<signalQueue, lastFill>>
        /\ tick.seq < tick'.seq /\ tick'.seq \in Nat
    BY <1>2, PopTickMoves, Numbers DEF TickOrder
  <2>2. \A i \in DOMAIN signalQueue : signalQueue[i].seq < tick'.seq
    BY <2>1, Numbers DEF SignalOrder
  <2>3. \A s \in Strategies : lastFill[s].seq < tick'.seq
    BY <2>1, Numbers DEF SignalOrder
  <2>4. QED
    BY <2>1, <2>2, <2>3, Numbers DEF SignalOrder
<1>3. CASE Skip \/ Hold
  <2>1. /\ turn \in Strategies /\ turn # 0 /\ turn' \in {0, turn + 1}
        /\ UNCHANGED <<tick, lastFill, signalQueue>>
    <3>1. UNCHANGED signalQueue
      BY <1>3 DEF Skip, Hold
    <3>2. /\ turn \in Strategies /\ turn' \in {0, turn + 1}
          /\ UNCHANGED <<tick, lastFill>>
      BY <1>3, TurnMoves
    <3>3. QED
      BY <3>1, <3>2, StrategiesAreNumbers
  <2>2. QED
    BY <2>1, Numbers DEF SignalOrder
<1>4. CASE Ticking
  BY <1>1, <1>4, TickingMoves
<1>5. CASE Booking
  BY <1>1, <1>5 DEF Booking, feedOnly, execVars
<1>6. ASSUME NEW s \in Strategies \union {All}, Swap(s)
      PROVE  UNCHANGED <<tick, turn, signalQueue, lastFill>>
  BY <1>6 DEF Swap, execVars
<1>7. CASE UNCHANGED vars
  BY <1>1, <1>7 DEF vars, execVars
<1>8. CASE Feed
  BY <1>4, <1>5, <1>8, FeedMoves
<1>9. QED
  BY <1>1, <1>2, <1>3, <1>6, <1>7, <1>8, EmitKeepsOrder, ExecuteKeepsOrder
     DEF Next, StrategyStep

Inv == TickOrder /\ SignalOrder /\ NoGap

(* The order holds at first and is kept by every step.                     *)
THEOREM InvCorrect == Spec => []Inv
<1>1. Init => Inv
  <2>1. SUFFICES ASSUME Init PROVE Inv
    OBVIOUS
  <2>2. /\ DOMAIN tickQueue = {} /\ DOMAIN signalQueue = {} /\ Len(tickQueue) = 0
        /\ tick.seq = 0 /\ tickSeq = 0 /\ turn = 0
        /\ \A s \in Strategies : lastFill[s].seq = 0
    BY <2>1 DEF Init, NoTick, NoFill
  <2>3. QED
    BY <2>2 DEF Inv, TickOrder, SignalOrder, NoGap
<1>2. TypeOK /\ Inv /\ [Next]_vars => Inv'
  BY TickOrderKept, SignalOrderKept, NoGapKept DEF Inv
<1>3. QED
  BY <1>1, <1>2, TypeCorrect, PTL DEF Spec

(* Along the pipeline ticks, signals and fills stay in the order of the    *)
(* market, and no strategy answers a tick twice.                           *)
THEOREM FillsInTickOrder == Spec => []InTickOrder
<1>1. Inv => InTickOrder
  BY DEF Inv, TickOrder, SignalOrder, Before, InTickOrder
<1>2. QED
  BY <1>1, InvCorrect, PTL

(* A replay loses no tick between its query and the strategies.            *)
THEOREM ReplayLosesNothing == Spec => []ReplayIsLossless
<1>1. Inv => ReplayIsLossless
  BY DEF Inv, NoGap, ReplayIsLossless
<1>2. QED
  BY <1>1, InvCorrect, PTL

-----------------------------------------------------------------------------
(* A swap of the active strategy never comes between two turns of a tick.  *)
THEOREM SwapBetweenTicks == Spec => []SwapDoesNotSplitTick
<1>1. Init => SwapDoesNotSplitTick
  BY DEF Init, SwapDoesNotSplitTick
<1>2. TypeOK /\ SwapDoesNotSplitTick /\ [Next]_vars => SwapDoesNotSplitTick'
  <2>1. SUFFICES ASSUME TypeOK, SwapDoesNotSplitTick, [Next]_vars
                 PROVE  SwapDoesNotSplitTick'
    OBVIOUS
  <2>2. CASE UNCHANGED <<turn, selected, prev, btcPrice>>
    BY <2>1, <2>2 DEF SwapDoesNotSplitTick
  <2>3. CASE PopTick
    <3>1. turn' \in {0, 1}
      BY <2>1, <2>3, PopTickMoves
    <3>2. CASE turn' = 0
      BY <3>2 DEF SwapDoesNotSplitTick
    <3>3. CASE turn' = 1
      <4>1. 1 .. turn' - 1 = {}
        BY <3>3
      <4>2. QED
        BY <4>1 DEF SwapDoesNotSplitTick
    <3>4. QED
      BY <3>1, <3>2, <3>3
  <2>4. CASE Skip \/ Hold \/ Emit
    <3>1. /\ turn \in Strategies /\ turn # 0 /\ turn \in Nat
          /\ turn' \in {0, turn + 1} /\ UNCHANGED <<selected, btcPrice>>
      BY <2>1, <2>4, TurnMoves, StrategiesAreNumbers
    <3>2. selected = All => prev' = [prev EXCEPT ![turn] = btcPrice]
      BY <2>4, <3>1 DEF Skip, Chosen, Hold, Emit, Observe
    <3>3. prev \in [Strategies -> Nat]
      BY <2>1, TypeOKIsTyped DEF ObservedTyped
    <3>4. \A s \in 1 .. turn : s \in Strategies
      BY <3>1, StrategiesAreNumbers
    <3>5. ASSUME selected = All, turn' = turn + 1, NEW s \in 1 .. turn
          PROVE  prev'[s] = btcPrice
      <4>1. CASE s = turn
        BY <3>1, <3>2, <3>3, <3>5, <4>1
      <4>2. CASE s # turn
        <5>1. s \in 1 .. turn - 1
          BY <3>1, <4>2
        <5>2. prev[s] = btcPrice
          BY <2>1, <3>1, <3>5, <5>1 DEF SwapDoesNotSplitTick
        <5>3. QED
          BY <3>1, <3>2, <3>3, <3>4, <3>5, <4>2, <5>2
      <4>3. QED
        BY <4>1, <4>2
    <3>6. turn' = turn + 1 => turn' - 1 = turn
      BY <3>1
    <3>7. QED
      BY <3>1, <3>5, <3>6 DEF SwapDoesNotSplitTick
  <2>5. CASE Ticking \/ Booking
    BY <2>2, <2>5 DEF Ticking, Booking, feedOnly, marketVars, strategyVars
  <2>6. ASSUME NEW s \in Strategies \union {All}, Swap(s)
        PROVE  UNCHANGED <<turn, selected, prev, btcPrice>>
    BY <2>6 DEF Swap, marketVars, strategyVars
  <2>7. CASE Execute \/ UNCHANGED vars
    BY <2>2, <2>7 DEF Execute, vars, marketVars, strategyVars
  <2>8. CASE Feed
    BY <2>1, <2>5, <2>8, FeedMoves
  <2>9. QED
    BY <2>1, <2>2, <2>3, <2>4, <2>6, <2>7, <2>8 DEF Next, StrategyStep
<1>3. QED
  BY <1>1, <1>2, TypeCorrect, PTL DEF Spec

-----------------------------------------------------------------------------
(* The units under way.                                                    *)

(* The places of a side are finitely many.                                 *)
LEMMA RaisedFinite ==
  ASSUME NEW queue \in Seq(SignalType), NEW s, NEW side
  PROVE  /\ IsFiniteSet(Raised(queue, s, side))
         /\ Cardinality(Raised(queue, s, side)) \in Nat
<1>1. Len(queue) \in Nat /\ DOMAIN queue = 1 .. Len(queue)
  BY LenProperties
<1>2. IsFiniteSet(1 .. Len(queue))
  BY <1>1, FS_Interval
<1>3. Raised(queue, s, side) \in SUBSET (1 .. Len(queue))
  BY <1>1 DEF Raised
<1>4. IsFiniteSet(Raised(queue, s, side))
  BY <1>2, <1>3, FS_Subset, Zenon
<1>5. QED
  BY <1>4, FS_CardinalityType

Counts(signal, s, side) ==
  IF signal.strategy = s /\ signal.side = side THEN 1 ELSE 0

(* A signal more.                                                          *)
LEMMA RaisedAppend ==
  ASSUME NEW queue \in Seq(SignalType), NEW signal \in SignalType, NEW s, NEW side
  PROVE  Cardinality(Raised(Append(queue, signal), s, side))
           = Cardinality(Raised(queue, s, side)) + Counts(signal, s, side)
<1> DEFINE longer == Append(queue, signal)
           n == Len(queue) + 1
<1>1. Len(queue) \in Nat /\ DOMAIN queue = 1 .. Len(queue)
  BY LenProperties
<1>2. /\ longer \in Seq(SignalType) /\ Len(longer) = n /\ longer[n] = signal
      /\ \A i \in 1 .. Len(queue) : longer[i] = queue[i]
  BY AppendProperties
<1>3. DOMAIN longer = 1 .. n
  BY <1>2, LenProperties
<1>4. n \notin DOMAIN queue /\ \A i \in 1 .. n : i \in DOMAIN queue \/ i = n
  BY <1>1
<1> HIDE DEF longer, n
<1>5. n \notin Raised(queue, s, side)
  BY <1>4 DEF Raised
<1>6. IsFiniteSet(Raised(queue, s, side)) /\ Cardinality(Raised(queue, s, side)) \in Nat
  BY RaisedFinite
<1>7. n \in 1 .. n /\ \A i \in DOMAIN queue : i \in 1 .. n
  BY <1>1 DEF n
<1>8. CASE signal.strategy = s /\ signal.side = side
  <2>1. Raised(longer, s, side) = Raised(queue, s, side) \union {n}
    BY <1>1, <1>2, <1>3, <1>4, <1>7, <1>8 DEF Raised
  <2>2. Cardinality(Raised(queue, s, side) \union {n}) = Cardinality(Raised(queue, s, side)) + 1
    BY <1>5, <1>6, FS_AddElement
  <2>3. QED
    BY <1>8, <2>1, <2>2 DEF Counts, longer
<1>9. CASE ~(signal.strategy = s /\ signal.side = side)
  <2>1. Raised(longer, s, side) = Raised(queue, s, side)
    BY <1>1, <1>2, <1>3, <1>4, <1>7, <1>9 DEF Raised
  <2>2. QED
    BY <1>6, <1>9, <2>1 DEF Counts, longer
<1>10. QED
  BY <1>8, <1>9

(* A signal less: the places of the others move up.                        *)
LEMMA RaisedTail ==
  ASSUME NEW queue \in Seq(SignalType), queue # <<>>, NEW s, NEW side
  PROVE  Cardinality(Raised(queue, s, side))
           = Cardinality(Raised(Tail(queue), s, side)) + Counts(Head(queue), s, side)
<1> DEFINE all == Raised(queue, s, side)
           later == Raised(Tail(queue), s, side)
<1>1. Len(queue) \in Nat \ {0} /\ DOMAIN queue = 1 .. Len(queue)
  BY LenProperties, EmptySeq
<1>2. /\ Tail(queue) \in Seq(SignalType) /\ Len(Tail(queue)) = Len(queue) - 1
      /\ \A i \in 1 .. Len(Tail(queue)) : Tail(queue)[i] = queue[i + 1]
  BY HeadTailProperties
<1>3. DOMAIN Tail(queue) = 1 .. Len(queue) - 1
  BY <1>2, LenProperties
<1>4. Head(queue) = queue[1] /\ 1 \in DOMAIN queue
  BY <1>1
<1>5. IsFiniteSet(all) /\ IsFiniteSet(later) /\ Cardinality(all) \in Nat
  BY <1>2, RaisedFinite
<1>6. Cardinality(all \ {1}) = Cardinality(later)
  <2> DEFINE up == [i \in later |-> i + 1]
  <2>1. \A i \in later : i \in Nat /\ i # 0 /\ i + 1 \in all
    BY <1>1, <1>2, <1>3 DEF Raised
  <2>2. \A i \in all \ {1} : i \in Nat /\ i - 1 \in later /\ (i - 1) + 1 = i
    <3>1. ASSUME NEW i \in all \ {1}
          PROVE  i \in Nat /\ i - 1 \in later /\ (i - 1) + 1 = i
      <4>1. i \in 2 .. Len(queue) /\ queue[i].strategy = s /\ queue[i].side = side
        BY <1>1 DEF Raised
      <4>2. i - 1 \in 1 .. Len(queue) - 1 /\ (i - 1) + 1 = i
        BY <1>1, <4>1
      <4>3. Tail(queue)[i - 1] = queue[i]
        BY <1>2, <4>2
      <4>4. i - 1 \in later
        BY <1>3, <4>1, <4>2, <4>3 DEF Raised
      <4>5. QED
        BY <4>1, <4>2, <4>4
    <3>2. QED
      BY <3>1
  <2> HIDE DEF all, later
  <2>3. up \in Bijection(later, all \ {1})
    <3>1. up \in [later -> all \ {1}]
      BY <2>1
    <3>2. \A i, j \in later : up[i] = up[j] => i = j
      BY <2>1
    <3>3. \A j \in all \ {1} : \E i \in later : up[i] = j
      BY <2>1, <2>2
    <3> HIDE DEF up
    <3>4. QED
      BY <3>1, <3>2, <3>3 DEF Bijection, Injection, Surjection, IsInjective
  <2>4. ExistsBijection(later, all \ {1})
    BY <2>3 DEF ExistsBijection
  <2>5. QED
    BY <1>5, <2>4, FS_Bijection
<1>7. 1 \in all <=> Counts(Head(queue), s, side) = 1
  BY <1>4 DEF Raised, Counts
<1>8. Cardinality(all \ {1}) = IF 1 \in all THEN Cardinality(all) - 1 ELSE Cardinality(all)
  BY <1>5, FS_RemoveElement
<1> HIDE DEF all, later
<1>9. Counts(Head(queue), s, side) \in {0, 1}
  BY DEF Counts
<1>10. Cardinality(all) = Cardinality(later) + Counts(Head(queue), s, side)
  BY <1>5, <1>6, <1>7, <1>8, <1>9
<1>11. QED
  BY <1>10 DEF all, later

(* The units under way change by the unit of the signal.                   *)
LEMMA NetProperties ==
  ASSUME NEW queue \in Seq(SignalType), NEW s
  PROVE  /\ Net(queue, s) \in Int
         /\ \A signal \in SignalType :
              Net(Append(queue, signal), s)
                = Net(queue, s) + IF signal.strategy = s THEN Unit(signal) ELSE 0
         /\ queue # <<>> =>
              Net(queue, s) = Net(Tail(queue), s)
                                + IF Head(queue).strategy = s THEN Unit(Head(queue)) ELSE 0
<1> DEFINE count(q, side) == Cardinality(Raised(q, s, side))
<1>1. \A signal \in SignalType :
        /\ signal.side \in {"BUY", "SELL"}
        /\ Counts(signal, s, "BUY") - Counts(signal, s, "SELL")
             = IF signal.strategy = s THEN Unit(signal) ELSE 0
        /\ Counts(signal, s, "BUY") \in Nat /\ Counts(signal, s, "SELL") \in Nat
  BY DEF SignalType, Counts, Unit
<1>2. ASSUME NEW side PROVE count(queue, side) \in Nat
  BY RaisedFinite
<1>3. Net(queue, s) = count(queue, "BUY") - count(queue, "SELL")
  BY DEF Net
<1>4. ASSUME NEW signal \in SignalType
      PROVE  Net(Append(queue, signal), s)
               = Net(queue, s) + IF signal.strategy = s THEN Unit(signal) ELSE 0
  <2>1. /\ count(Append(queue, signal), "BUY") = count(queue, "BUY") + Counts(signal, s, "BUY")
        /\ count(Append(queue, signal), "SELL") = count(queue, "SELL") + Counts(signal, s, "SELL")
    BY RaisedAppend
  <2>2. Net(Append(queue, signal), s)
          = count(Append(queue, signal), "BUY") - count(Append(queue, signal), "SELL")
    BY DEF Net
  <2>3. count(queue, "BUY") \in Nat /\ count(queue, "SELL") \in Nat
    BY <1>2
  <2>4. /\ Counts(signal, s, "BUY") \in Nat /\ Counts(signal, s, "SELL") \in Nat
        /\ Counts(signal, s, "BUY") - Counts(signal, s, "SELL")
             = IF signal.strategy = s THEN Unit(signal) ELSE 0
    BY <1>1
  <2> HIDE DEF count
  <2>5. QED
    BY <1>3, <2>1, <2>2, <2>3, <2>4
<1>5. ASSUME queue # <<>>
      PROVE  Net(queue, s) = Net(Tail(queue), s)
               + IF Head(queue).strategy = s THEN Unit(Head(queue)) ELSE 0
  <2> DEFINE h == Head(queue)
             rest == Tail(queue)
  <2>1. h \in SignalType /\ rest \in Seq(SignalType)
    BY <1>5, HeadTailProperties
  <2>2. /\ count(queue, "BUY") = count(rest, "BUY") + Counts(h, s, "BUY")
        /\ count(queue, "SELL") = count(rest, "SELL") + Counts(h, s, "SELL")
    BY <1>5, RaisedTail
  <2>3. Net(rest, s) = count(rest, "BUY") - count(rest, "SELL")
    BY DEF Net
  <2>4. count(rest, "BUY") \in Nat /\ count(rest, "SELL") \in Nat
    BY <2>1, RaisedFinite
  <2>5. /\ Counts(h, s, "BUY") \in Nat /\ Counts(h, s, "SELL") \in Nat
        /\ Counts(h, s, "BUY") - Counts(h, s, "SELL")
             = IF h.strategy = s THEN Unit(h) ELSE 0
    BY <1>1, <2>1
  <2> HIDE DEF count, h, rest
  <2>6. Net(queue, s) = Net(rest, s) + IF h.strategy = s THEN Unit(h) ELSE 0
    BY <1>3, <2>2, <2>3, <2>4, <2>5
  <2>7. QED
    BY <2>6 DEF h, rest
<1>6. Net(queue, s) \in Int
  BY <1>2, <1>3
<1>7. QED
  BY <1>4, <1>5, <1>6

(* What a step does to the signals under way: none, one is raised and      *)
(* queued or lost, or one is taken and filled or lost.                     *)
Quiet == UNCHANGED <<flat, signalQueue, qty, lost>>

Raising(s) ==
  /\ turn = s /\ tick.seq > 0
  /\ flat' = [flat EXCEPT ![s] = ~flat[s]]
  /\ UNCHANGED qty
  /\ \/ signalQueue' = Append(signalQueue, SignalOf(s)) /\ UNCHANGED lost
     \/ /\ lost' = [lost EXCEPT ![s] = lost[s] + Unit(SignalOf(s))]
        /\ UNCHANGED signalQueue

Taking(sig) ==
  /\ signalQueue # <<>> /\ sig = Head(signalQueue)
  /\ signalQueue' = Tail(signalQueue)
  /\ UNCHANGED flat
  /\ \/ /\ lost' = [lost EXCEPT ![sig.strategy] = lost[sig.strategy] + Unit(sig)]
        /\ UNCHANGED qty
     \/ /\ qty' = [qty EXCEPT ![sig.strategy] = qty[sig.strategy] + Unit(sig)]
        /\ UNCHANGED lost

(* Every step is one of these.                                             *)
LEMMA SignalMoves ==
  ASSUME TypeOK, SignalOrder, [Next]_vars
  PROVE  \/ Quiet
         \/ \E s \in Strategies : Raising(s)
         \/ \E sig \in SignalType : Taking(sig)
<1>1. CASE Emit
  <2>1. turn \in Strategies /\ turn # 0
    BY <1>1, TurnMoves, StrategiesAreNumbers
  <2>2. tick.seq > 0
    <3>1. lastFill[turn].seq < tick.seq /\ lastFill[turn].seq \in Nat /\ tick.seq \in Nat
      BY <2>1, Numbers DEF SignalOrder
    <3>2. QED
      BY <3>1
  <2>3. Raising(turn)
    BY <1>1, <2>2 DEF Emit, Raising, strategyOnly, execVars
  <2>4. QED
    BY <2>1, <2>3
<1>2. CASE Execute
  <2>1. Head(signalQueue) \in SignalType
    BY <1>2, Numbers, HeadTailProperties DEF Execute
  <2>2. Taking(Head(signalQueue))
    BY <1>2 DEF Execute, Popped, Taking, execVars, strategyVars
  <2>3. QED
    BY <2>1, <2>2
<1>3. CASE Ticking \/ Booking
  BY <1>3 DEF Ticking, Booking, feedOnly, strategyVars, execVars, Quiet
<1>4. CASE PopTick \/ Skip \/ Hold
  BY <1>4 DEF PopTick, Skip, Hold, strategyOnly, strategyVars, execVars, Quiet
<1>5. ASSUME NEW s \in Strategies \union {All}, Swap(s) PROVE Quiet
  BY <1>5 DEF Swap, strategyVars, execVars, Quiet
<1>6. CASE UNCHANGED vars
  BY <1>6 DEF vars, strategyVars, execVars, Quiet
<1>7. CASE Feed
  BY <1>3, <1>7, FeedMoves
<1>8. QED
  BY <1>1, <1>2, <1>4, <1>5, <1>6, <1>7 DEF Next, StrategyStep

(* The positions of a strategy and of the engine differ by the units under *)
(* way and the units lost.                                                 *)
THEOREM PositionsExplained == Spec => []PositionExplained
<1>1. Init => PositionExplained
  <2>1. ASSUME Init, NEW s \in Strategies
        PROVE  qty[s] + Pending(s) + lost[s] = Wanted(s)
    <3>1. signalQueue = <<>> /\ qty[s] = 0 /\ lost[s] = 0 /\ flat[s] = TRUE
      BY <2>1 DEF Init
    <3>2. ASSUME NEW side PROVE Raised(<<>>, s, side) = {}
      BY DEF Raised
    <3>3. Net(<<>>, s) = Cardinality({}) - Cardinality({})
      BY <3>2 DEF Net
    <3>5. Pending(s) = 0
      BY <3>1, <3>3, FS_EmptySet DEF Pending
    <3>4. QED
      BY <3>1, <3>5 DEF Wanted
  <2>2. QED
    BY <2>1 DEF PositionExplained
<1>2. TypeOK /\ SignalOrder /\ PositionExplained /\ [Next]_vars => PositionExplained'
  <2>1. SUFFICES ASSUME TypeOK, SignalOrder, PositionExplained, [Next]_vars,
                        NEW r \in Strategies
                 PROVE  (qty[r] + Pending(r) + lost[r] = Wanted(r))'
    BY DEF PositionExplained
  <2>2. /\ signalQueue \in Seq(SignalType) /\ flat \in [Strategies -> BOOLEAN]
        /\ qty \in [Strategies -> Int] /\ lost \in [Strategies -> Int]
    BY <2>1, TypeOKIsTyped DEF SignalsTyped, FlatTyped, FillsTyped
  <2>3. qty[r] + Net(signalQueue, r) + lost[r] = Wanted(r)
    BY <2>1 DEF PositionExplained, Pending
  <2>4. /\ Net(signalQueue, r) \in Int /\ Wanted(r) \in {0, 1}
        /\ qty[r] \in Int /\ lost[r] \in Int
    BY <2>2, NetProperties DEF Wanted
  <2>5. SUFFICES qty'[r] + Net(signalQueue', r) + lost'[r] = Wanted(r)'
    BY DEF Pending
  <2>6. CASE Quiet
    BY <2>3, <2>6 DEF Quiet, Wanted
  <2>7. ASSUME NEW s \in Strategies, Raising(s)
        PROVE  qty'[r] + Net(signalQueue', r) + lost'[r] = Wanted(r)'
    <3> DEFINE signal == SignalOf(s)
               u == IF s = r THEN Unit(signal) ELSE 0
    <3>1. signal \in SignalType /\ signal.strategy = s /\ u \in Int
      BY <2>1, SignalTyped, TypeOKIsTyped
    <3>2. Wanted(r)' = Wanted(r) + u
      <4>1. flat' = [flat EXCEPT ![s] = ~flat[s]]
        BY <2>7 DEF Raising
      <4>2. /\ s = r => (flat'[r] <=> ~flat[r])
            /\ s # r => (flat'[r] <=> flat[r])
        BY <2>2, <4>1
      <4>3. CASE s = r /\ flat[r]
        <5>1. u = 1
          BY <4>3 DEF SignalOf, Unit
        <5>2. Wanted(r) = 0 /\ Wanted(r)' = 1
          BY <4>2, <4>3, Zenon DEF Wanted
        <5>3. QED
          BY <5>1, <5>2
      <4>4. CASE s = r /\ ~flat[r]
        <5>1. u = -1
          BY <4>4 DEF SignalOf, Unit
        <5>2. Wanted(r) = 1 /\ Wanted(r)' = 0
          BY <4>2, <4>4, Zenon DEF Wanted
        <5>3. QED
          BY <5>1, <5>2
      <4>5. CASE s # r
        <5>1. u = 0
          BY <4>5
        <5>2. Wanted(r)' = Wanted(r)
          <6>1. CASE flat[r]
            BY <4>2, <4>5, <6>1, Zenon DEF Wanted
          <6>2. CASE ~flat[r]
            BY <4>2, <4>5, <6>2, Zenon DEF Wanted
          <6>3. QED
            BY <6>1, <6>2
        <5> HIDE DEF u
        <5>3. QED
          BY <2>4, <5>1, <5>2
      <4>6. QED
        BY <4>3, <4>4, <4>5
    <3>3. Net(Append(signalQueue, signal), r) = Net(signalQueue, r) + u
      BY <2>2, <3>1, NetProperties
    <3>4. qty' = qty
      BY <2>7 DEF Raising
    <3>5. CASE signalQueue' = Append(signalQueue, signal) /\ lost' = lost
      <4> HIDE DEF u, signal
      <4>1. QED
        BY <2>3, <2>4, <3>1, <3>2, <3>3, <3>4, <3>5
    <3>6. CASE /\ lost' = [lost EXCEPT ![s] = lost[s] + Unit(SignalOf(s))]
               /\ signalQueue' = signalQueue
      <4>1. lost'[r] = lost[r] + u
        BY <2>2, <2>4, <3>6
      <4> HIDE DEF u, signal
      <4>2. QED
        BY <2>3, <2>4, <3>1, <3>2, <3>4, <3>6, <4>1
    <3>7. QED
      BY <2>7, <3>5, <3>6 DEF Raising
  <2>8. ASSUME NEW sig \in SignalType, Taking(sig)
        PROVE  qty'[r] + Net(signalQueue', r) + lost'[r] = Wanted(r)'
    <3> DEFINE u == IF sig.strategy = r THEN Unit(sig) ELSE 0
    <3>1. u \in Int /\ sig.strategy \in Strategies
      BY DEF Unit, SignalType
    <3>2. Net(signalQueue, r) = Net(Tail(signalQueue), r) + u
      BY <2>2, <2>8, NetProperties DEF Taking
    <3>3. Net(Tail(signalQueue), r) \in Int
      BY <2>2, <2>8, NetProperties, HeadTailProperties DEF Taking
    <3>4. signalQueue' = Tail(signalQueue) /\ Wanted(r)' = Wanted(r)
      BY <2>8 DEF Taking, Wanted
    <3>5. CASE /\ lost' = [lost EXCEPT ![sig.strategy] = lost[sig.strategy] + Unit(sig)]
               /\ qty' = qty
      <4>1. lost'[r] = lost[r] + u
        BY <2>2, <2>4, <3>5
      <4> HIDE DEF u
      <4>2. QED
        BY <2>3, <2>4, <3>1, <3>2, <3>3, <3>4, <3>5, <4>1
    <3>6. CASE /\ qty' = [qty EXCEPT ![sig.strategy] = qty[sig.strategy] + Unit(sig)]
               /\ lost' = lost
      <4>1. qty'[r] = qty[r] + u
        BY <2>2, <2>4, <3>6
      <4> HIDE DEF u
      <4>2. QED
        BY <2>3, <2>4, <3>1, <3>2, <3>3, <3>4, <3>6, <4>1
    <3>7. QED
      BY <2>8, <3>5, <3>6 DEF Taking
  <2>9. QED
    BY <2>1, <2>6, <2>7, <2>8, SignalMoves
<1>3. Inv => SignalOrder
  BY DEF Inv
<1>4. QED
  BY <1>1, <1>2, <1>3, TypeCorrect, InvCorrect, PTL DEF Spec

-----------------------------------------------------------------------------
(* The pipeline as a desk.                                                 *)

(* The feed produces no more ticks than the bound.                         *)
LEMMA TicksBounded == Spec => [](tickSeq <= MaxTicks)
<1>1. Init => tickSeq <= MaxTicks
  BY BoundAssumption DEF Init
<1>2. TypeOK /\ tickSeq <= MaxTicks /\ [Next]_vars => (tickSeq <= MaxTicks)'
  <2>1. SUFFICES ASSUME TypeOK, tickSeq <= MaxTicks, [Next]_vars
                 PROVE  tickSeq' <= MaxTicks
    OBVIOUS
  <2>2. CASE Ticking
    BY <2>2, TickingMoves, Numbers, <2>1, BoundAssumption
  <2>3. CASE Booking
    BY <2>1, <2>3 DEF Booking
  <2>4. CASE PopTick \/ Skip \/ Hold \/ Emit
    BY <2>1, <2>4 DEF PopTick, Skip, Hold, Emit, strategyOnly, feedVars
  <2>5. ASSUME NEW s \in Strategies \union {All}, Swap(s) PROVE tickSeq' = tickSeq
    BY <2>5 DEF Swap, feedVars
  <2>6. CASE Execute \/ UNCHANGED vars
    BY <2>1, <2>6 DEF Execute, vars, feedVars
  <2>7. CASE Feed
    BY <2>1, <2>2, <2>3, <2>7, FeedMoves
  <2>8. QED
    BY <2>1, <2>4, <2>5, <2>6, <2>7 DEF Next, StrategyStep
<1>3. QED
  BY <1>1, <1>2, TypeCorrect, PTL DEF Spec

OrderOf(signal) == [at |-> signal.seq, side |-> signal.side]

(* An open order is one of the signals of the strategy.                    *)
LEMMA OpenOrder ==
  ASSUME NEW s, NEW o
  PROVE  /\ o \in OpenOrders(s) <=>
              \E i \in DOMAIN signalQueue :
                signalQueue[i].strategy = s /\ o = OrderOf(signalQueue[i])
         /\ o \in OpenOrders(s)' <=>
              \E i \in DOMAIN signalQueue' :
                signalQueue'[i].strategy = s /\ o = OrderOf(signalQueue'[i])
  BY DEF OpenOrders, OrderOf

(* A signal that is queued opens an order of its strategy only.            *)
LEMMA QueuedOpensOrder ==
  ASSUME TypeOK, NEW signal \in SignalType,
         signalQueue' = Append(signalQueue, signal), NEW s
  PROVE  OpenOrders(s)' = IF s = signal.strategy
                            THEN OpenOrders(s) \union {OrderOf(signal)}
                            ELSE OpenOrders(s)
<1> DEFINE n == Len(signalQueue) + 1
<1>1. /\ signalQueue \in Seq(SignalType) /\ Len(signalQueue) \in Nat
      /\ DOMAIN signalQueue = 1 .. Len(signalQueue)
  BY Numbers
<1>2. /\ signalQueue' \in Seq(SignalType) /\ Len(signalQueue') = n
      /\ \A i \in 1 .. Len(signalQueue) : signalQueue'[i] = signalQueue[i]
      /\ signalQueue'[n] = signal
  BY <1>1, AppendProperties
<1>3. DOMAIN signalQueue' = 1 .. n
  BY <1>2, LenProperties
<1>4. /\ n \in 1 .. n /\ \A i \in DOMAIN signalQueue : i \in 1 .. n
      /\ \A i \in 1 .. n : i \in DOMAIN signalQueue \/ i = n
  BY <1>1
<1> HIDE DEF n
<1>5. ASSUME NEW o
      PROVE  o \in OpenOrders(s)' <=>
               \/ o \in OpenOrders(s)
               \/ s = signal.strategy /\ o = OrderOf(signal)
  <2>1. o \in OpenOrders(s)' <=>
          \E i \in DOMAIN signalQueue' :
            signalQueue'[i].strategy = s /\ o = OrderOf(signalQueue'[i])
    BY OpenOrder
  <2>2. o \in OpenOrders(s) <=>
          \E i \in DOMAIN signalQueue :
            signalQueue[i].strategy = s /\ o = OrderOf(signalQueue[i])
    BY OpenOrder
  <2>3. QED
    BY <1>1, <1>2, <1>3, <1>4, <2>1, <2>2
<1>6. CASE s = signal.strategy
  BY <1>5, <1>6
<1>7. CASE s # signal.strategy
  BY <1>5, <1>7
<1>8. QED
  BY <1>6, <1>7

(* The signal that is taken closes the oldest order of its strategy, and   *)
(* no order of another.                                                    *)
LEMMA TakenClosesOldest ==
  ASSUME TypeOK, SignalOrder, NEW sig \in SignalType, Taking(sig)
  PROVE  /\ OrderOf(sig) \in OpenOrders(sig.strategy)
         /\ \A o \in OpenOrders(sig.strategy) : OrderOf(sig).at <= o.at
         /\ \A s : OpenOrders(s)' = IF s = sig.strategy
                                      THEN OpenOrders(s) \ {OrderOf(sig)}
                                      ELSE OpenOrders(s)
<1>1. /\ signalQueue \in Seq(SignalType) /\ signalQueue # <<>>
      /\ sig = Head(signalQueue) /\ signalQueue' = Tail(signalQueue)
      /\ Len(signalQueue) \in Nat \ {0} /\ DOMAIN signalQueue = 1 .. Len(signalQueue)
  BY Numbers, EmptySeq DEF Taking
<1>2. /\ signalQueue' \in Seq(SignalType) /\ Len(signalQueue') = Len(signalQueue) - 1
      /\ \A i \in 1 .. Len(signalQueue') : signalQueue'[i] = signalQueue[i + 1]
  BY <1>1, HeadTailProperties
<1>3. DOMAIN signalQueue' = 1 .. Len(signalQueue) - 1
  BY <1>2, LenProperties
<1>4. sig = signalQueue[1] /\ 1 \in DOMAIN signalQueue
  BY <1>1
<1>5. \A i \in DOMAIN signalQueue :
        /\ i # 1 => Before(sig, signalQueue[i])
        /\ signalQueue[i].seq \in Nat /\ signalQueue[i].strategy \in Nat
  <2>1. \A i \in DOMAIN signalQueue : i # 1 => 1 < i
    BY <1>1
  <2>2. \A i \in DOMAIN signalQueue :
          signalQueue[i].seq \in Nat /\ signalQueue[i].strategy \in Nat
    BY Numbers
  <2>3. QED
    BY <1>4, <2>1, <2>2 DEF SignalOrder
<1>6. \A i \in DOMAIN signalQueue :
        i # 1 /\ signalQueue[i].strategy = sig.strategy => sig.seq < signalQueue[i].seq
  BY <1>4, <1>5 DEF Before
<1>7. \A i \in DOMAIN signalQueue :
        i = 1 \/ (i - 1 \in DOMAIN signalQueue' /\ signalQueue'[i - 1] = signalQueue[i])
  <2>1. ASSUME NEW i \in DOMAIN signalQueue, i # 1
        PROVE  i - 1 \in DOMAIN signalQueue' /\ signalQueue'[i - 1] = signalQueue[i]
    <3>1. i - 1 \in 1 .. Len(signalQueue) - 1 /\ (i - 1) + 1 = i
      BY <1>1, <2>1
    <3>2. QED
      BY <1>2, <1>3, <3>1
  <2>2. QED
    BY <2>1
<1>8. \A i \in DOMAIN signalQueue' :
        /\ i + 1 \in DOMAIN signalQueue /\ i + 1 # 1
        /\ signalQueue'[i] = signalQueue[i + 1]
  BY <1>1, <1>2, <1>3
<1>9. OrderOf(sig) \in OpenOrders(sig.strategy)
  BY <1>4, OpenOrder
<1>10. ASSUME NEW o \in OpenOrders(sig.strategy) PROVE OrderOf(sig).at <= o.at
  <2>1. PICK i \in DOMAIN signalQueue :
          signalQueue[i].strategy = sig.strategy /\ o = OrderOf(signalQueue[i])
    BY OpenOrder
  <2>2. sig.seq <= signalQueue[i].seq
    BY <1>4, <1>5, <1>6, <2>1
  <2>3. QED
    BY <2>1, <2>2 DEF OrderOf
<1>11. ASSUME NEW s, NEW o
       PROVE  o \in OpenOrders(s)' <=>
                o \in OpenOrders(s) /\ ~(s = sig.strategy /\ o = OrderOf(sig))
  <2>1. ASSUME o \in OpenOrders(s)'
        PROVE  o \in OpenOrders(s) /\ ~(s = sig.strategy /\ o = OrderOf(sig))
    <3>1. PICK i \in DOMAIN signalQueue' :
            signalQueue'[i].strategy = s /\ o = OrderOf(signalQueue'[i])
      BY <2>1, OpenOrder
    <3>2. /\ i + 1 \in DOMAIN signalQueue /\ i + 1 # 1
          /\ signalQueue[i + 1].strategy = s /\ o = OrderOf(signalQueue[i + 1])
      BY <1>8, <3>1
    <3>3. s = sig.strategy => o # OrderOf(sig)
      <4>1. s = sig.strategy => sig.seq < signalQueue[i + 1].seq
        BY <1>6, <3>2
      <4>2. sig.seq \in Nat /\ signalQueue[i + 1].seq \in Nat
        BY <1>4, <1>5, <3>2
      <4>3. o.at = signalQueue[i + 1].seq /\ OrderOf(sig).at = sig.seq
        BY <3>2 DEF OrderOf
      <4>4. QED
        BY <4>1, <4>2, <4>3
    <3>4. o \in OpenOrders(s)
      BY <3>2, OpenOrder
    <3>5. QED
      BY <3>3, <3>4
  <2>2. ASSUME o \in OpenOrders(s), ~(s = sig.strategy /\ o = OrderOf(sig))
        PROVE  o \in OpenOrders(s)'
    <3>1. PICK i \in DOMAIN signalQueue :
            signalQueue[i].strategy = s /\ o = OrderOf(signalQueue[i])
      BY <2>2, OpenOrder
    <3>2. i # 1
      BY <1>4, <2>2, <3>1
    <3>3. /\ i - 1 \in DOMAIN signalQueue'
          /\ signalQueue'[i - 1].strategy = s /\ o = OrderOf(signalQueue'[i - 1])
      BY <1>7, <3>1, <3>2
    <3>4. QED
      BY <3>3, OpenOrder
  <2>3. QED
    BY <2>1, <2>2
<1>12. ASSUME NEW s
       PROVE  OpenOrders(s)' = IF s = sig.strategy
                                 THEN OpenOrders(s) \ {OrderOf(sig)}
                                 ELSE OpenOrders(s)
  <2>1. \A o : o \in OpenOrders(s)' <=>
               o \in OpenOrders(s) /\ ~(s = sig.strategy /\ o = OrderOf(sig))
    BY <1>11
  <2>2. CASE s = sig.strategy
    BY <2>1, <2>2
  <2>3. CASE s # sig.strategy
    BY <2>1, <2>3
  <2>4. QED
    BY <2>2, <2>3
<1>13. QED
  BY <1>9, <1>10, <1>12

(* The desk's variables, as functions of the pipeline's.                   *)
Orders == [s \in Strategies |-> OpenOrders(s)]
Long == [s \in Strategies |-> ~flat[s]]

(* A signal that is raised is an order that is placed.                     *)
LEMMA RaisingPlaces ==
  ASSUME TypeOK, SignalOrder, tick.seq <= MaxTicks, NEW s \in Strategies, Raising(s),
         turn # 0
  PROVE  Desk!Place(s)
<1>1. flat \in [Strategies -> BOOLEAN]
  BY TypeOKIsTyped DEF FlatTyped
<1>2. Long' = [Long EXCEPT ![s] = ~@]
  <2>1. flat' = [flat EXCEPT ![s] = ~flat[s]]
    BY DEF Raising
  <2>2. \A r \in Strategies : flat'[r] = IF r = s THEN ~flat[s] ELSE flat[r]
    BY <1>1, <2>1
  <2>3. Long' = [r \in Strategies |-> ~flat'[r]]
    BY DEF Long
  <2>4. [Long EXCEPT ![s] = ~@] = [r \in Strategies |-> IF r = s THEN ~Long[s] ELSE Long[r]]
    BY DEF Long
  <2>5. \A r \in Strategies : (~flat'[r]) = IF r = s THEN ~Long[s] ELSE Long[r]
    BY <2>2 DEF Long
  <2>6. QED
    BY <2>3, <2>4, <2>5
<1>3. OrderOf(SignalOf(s)) = [at |-> tick.seq, side |-> IF Long[s] THEN "SELL" ELSE "BUY"]
  BY DEF OrderOf, SignalOf, Long
<1>4. UNCHANGED qty
  BY DEF Raising
<1>5. CASE UNCHANGED signalQueue
  <2>1. UNCHANGED Orders
    BY <1>5 DEF Orders, OpenOrders
  <2>2. QED
    BY <1>2, <1>4, <2>1 DEF Desk!Place, Orders, Long
<1>6. CASE signalQueue' = Append(signalQueue, SignalOf(s))
  <2>1. SignalOf(s) \in SignalType /\ SignalOf(s).strategy = s
    BY SignalTyped, TypeOKIsTyped
  <2>2. \A r : OpenOrders(r)' = IF r = s THEN OpenOrders(r) \union {OrderOf(SignalOf(s))}
                                         ELSE OpenOrders(r)
    BY <1>6, <2>1, QueuedOpensOrder
  <2>3. Orders' = [Orders EXCEPT ![s] = @ \union {OrderOf(SignalOf(s))}]
    BY <2>2 DEF Orders
  <2>4. ASSUME NEW o \in Orders[s] PROVE o.at < tick.seq
    <3>1. PICK i \in DOMAIN signalQueue :
            signalQueue[i].strategy = s /\ o = OrderOf(signalQueue[i])
      BY <2>4, OpenOrder DEF Orders
    <3>2. /\ signalQueue[i].seq <= tick.seq
          /\ signalQueue[i].seq = tick.seq => s < turn
          /\ turn = s /\ s \in Nat /\ tick.seq \in Nat /\ signalQueue[i].seq \in Nat
      BY <3>1, Numbers DEF SignalOrder, Raising
    <3>3. QED
      BY <3>1, <3>2 DEF OrderOf
  <2>5. tick.seq \in 1 .. MaxTicks
    BY Numbers, BoundAssumption DEF Raising
  <2>6. QED
    BY <1>2, <1>3, <1>4, <2>3, <2>4, <2>5 DEF Desk!Place, Desk!Order, Orders, Long
<1>7. QED
  BY <1>5, <1>6 DEF Raising

(* A signal that is taken is an order that is filled or lost.              *)
LEMMA TakingCloses ==
  ASSUME TypeOK, SignalOrder, NEW sig \in SignalType, Taking(sig)
  PROVE  Desk!Fill(sig.strategy) \/ Desk!Lose(sig.strategy)
<1> DEFINE s == sig.strategy
           o == OrderOf(sig)
<1>1. s \in Strategies /\ sig.side \in {"BUY", "SELL"}
  BY DEF SignalType
<1>2. /\ o \in OpenOrders(s) /\ \A p \in OpenOrders(s) : o.at <= p.at
      /\ \A r : OpenOrders(r)' = IF r = s THEN OpenOrders(r) \ {o} ELSE OpenOrders(r)
  BY TakenClosesOldest
<1>3. o.side = sig.side
  BY DEF OrderOf
<1>4. UNCHANGED Long
  BY DEF Taking, Long
<1>5. qty \in [Strategies -> Int]
  BY TypeOKIsTyped DEF FillsTyped
<1> HIDE DEF o
<1>6. Orders[s] = OpenOrders(s)
  BY <1>1 DEF Orders
<1>7. Orders' = [Orders EXCEPT ![s] = @ \ {o}]
  BY <1>1, <1>2 DEF Orders
<1>8. o \in Desk!Oldest(s)
  BY <1>2, <1>6 DEF Desk!Oldest, Orders
<1>9. CASE UNCHANGED qty
  BY <1>4, <1>7, <1>8, <1>9 DEF Desk!Lose, Orders, Long
<1>10. CASE qty' = [qty EXCEPT ![s] = qty[s] + Unit(sig)]
  <2>1. qty[s] + Unit(sig) = IF o.side = "BUY" THEN qty[s] + 1 ELSE qty[s] - 1
    BY <1>1, <1>3, <1>5 DEF Unit
  <2>2. qty' = [qty EXCEPT ![s] = IF o.side = "BUY" THEN @ + 1 ELSE @ - 1]
    BY <1>10, <2>1
  <2>3. QED
    BY <1>4, <1>7, <1>8, <2>2 DEF Desk!Fill, Orders, Long
<1>11. QED
  BY <1>9, <1>10 DEF Taking

(* To each strategy the pipeline is a desk of its own: whatever the        *)
(* threads, the swaps and the other strategies do, its orders are executed *)
(* in the order it placed them, at most once each, or lost.                *)
THEOREM PipelineIsADesk == Spec => IsADesk
<1>1. Init => Desk!Init
  <2>1. ASSUME Init PROVE Desk!Init
    <3>1. signalQueue = <<>> /\ flat = [s \in Strategies |-> TRUE]
          /\ qty = [s \in Strategies |-> 0]
      BY <2>1 DEF Init
    <3>2. \A s \in Strategies : OpenOrders(s) = {}
      BY <3>1 DEF OpenOrders
    <3>3. QED
      BY <3>1, <3>2 DEF Desk!Init
  <2>2. QED
    BY <2>1
<1>2. TypeOK /\ Inv /\ tickSeq <= MaxTicks /\ [Next]_vars => [Desk!Next]_(Desk!vars)
  <2>1. SUFFICES ASSUME TypeOK, Inv, tickSeq <= MaxTicks, [Next]_vars
                 PROVE  [Desk!Next]_(Desk!vars)
    OBVIOUS
  <2>2. SignalOrder /\ tick.seq <= MaxTicks
    BY <2>1, Numbers, BoundAssumption DEF Inv, TickOrder
  <2>3. CASE Quiet
    BY <2>3 DEF Quiet, Desk!vars, OpenOrders
  <2>4. ASSUME NEW s \in Strategies, Raising(s) PROVE Desk!Next
    <3>1. turn # 0
      BY <2>4, StrategiesAreNumbers DEF Raising
    <3>2. QED
      BY <2>1, <2>2, <2>4, <3>1, RaisingPlaces DEF Desk!Next
  <2>5. ASSUME NEW sig \in SignalType, Taking(sig) PROVE Desk!Next
    <3>1. sig.strategy \in Strategies
      BY DEF SignalType
    <3>2. QED
      BY <2>1, <2>2, <2>5, <3>1, TakingCloses DEF Desk!Next
  <2>6. QED
    BY <2>1, <2>2, <2>3, <2>4, <2>5, SignalMoves
<1>3. QED
  BY <1>1, <1>2, TypeCorrect, InvCorrect, TicksBounded, PTL DEF Spec, IsADesk, Desk!Spec

-----------------------------------------------------------------------------
(* What the ring buffer offers is what the tick queue is used as: the      *)
(* producer puts ticks or is refused, the strategy thread gets the oldest. *)
TickQueue == INSTANCE BoundedQueue WITH
               Items <- TickType, Capacity <- TickCapacity, Default <- NoTick,
               queue <- tickQueue, received <- tick

(* The pipeline uses its tick queue as SPSCRingBuffer implements it: what  *)
(* the strategies evaluate are the ticks accepted, each once and in order. *)
THEOREM TickQueueIsBounded == Spec => TickQueue!SafeSpec
<1>1. Init => TickQueue!Init
  BY DEF Init, TickQueue!Init
<1>2. TypeOK /\ [Next]_vars => [TickQueue!Next]_(TickQueue!vars)
  <2>1. SUFFICES ASSUME TypeOK, [Next]_vars
                 PROVE  [TickQueue!Next]_(TickQueue!vars)
    OBVIOUS
  <2>2. CASE UNCHANGED <<tickQueue, tick>>
    BY <2>2 DEF TickQueue!vars
  <2>3. CASE Ticking
    <3>1. PICK t \in TickType : PushTick(t) /\ UNCHANGED feedOnly
      BY <2>3 DEF Ticking
    <3>2. tick' = tick
      BY <3>1 DEF feedOnly
    <3>3. CASE Len(tickQueue) < TickCapacity
      BY <3>1, <3>2, <3>3 DEF PushTick, TickQueue!Next, TickQueue!Put
    <3>4. CASE ~(Len(tickQueue) < TickCapacity)
      BY <3>1, <3>2, <3>4 DEF PushTick, TickQueue!vars
    <3>5. QED
      BY <3>3, <3>4
  <2>4. CASE PopTick
    BY <2>4 DEF PopTick, TickReady, TickQueue!Next, TickQueue!Get
  <2>5. CASE Skip \/ Hold \/ Emit
    BY <2>1, <2>2, <2>5, TurnMoves
  <2>6. CASE Booking
    BY <2>2, <2>6 DEF Booking, feedOnly
  <2>7. ASSUME NEW s \in Strategies \union {All}, Swap(s)
        PROVE  UNCHANGED <<tickQueue, tick>>
    BY <2>7 DEF Swap
  <2>8. CASE Execute \/ UNCHANGED vars
    BY <2>2, <2>8 DEF Execute, vars
  <2>9. CASE Feed
    BY <2>1, <2>3, <2>6, <2>9, FeedMoves
  <2>10. QED
    BY <2>1, <2>2, <2>4, <2>5, <2>7, <2>8, <2>9 DEF Next, StrategyStep
<1>3. QED
  BY <1>1, <1>2, TypeCorrect, PTL DEF Spec, TickQueue!SafeSpec

-----------------------------------------------------------------------------
(* What is read of the text of a message is what it tells.  A text is      *)
(* followed token by token: where each part of it stands, which tokens     *)
(* cannot occur in it, and how many brackets are open at each place of a   *)
(* list.                                                                   *)

(* The tokens of a list of levels.                                         *)
LevelTokens ==
  {Mark("["), Mark("]"), Mark(","), Quoted("1")}
    \union {Quoted(Numeral[n]) : n \in Written}

(* Texts of a few tokens.                                                  *)
LEMMA OneToken ==
  ASSUME NEW T, NEW a \in T
  PROVE  <<a>> \in Seq(T) /\ Len(<<a>>) = 1
  OBVIOUS

(* A key and its colon.                                                    *)
LEMMA TwoTokens ==
  ASSUME NEW T, NEW a \in T, NEW b \in T
  PROVE  <<a, b>> \in Seq(T) /\ Len(<<a, b>>) = 2
  OBVIOUS

(* A key, its colon and its value.                                         *)
LEMMA ThreeTokens ==
  ASSUME NEW T, NEW a \in T, NEW b \in T, NEW c \in T
  PROVE  <<a, b, c>> \in Seq(T) /\ Len(<<a, b, c>>) = 3
  OBVIOUS

(* A pair and a comma.                                                     *)
LEMMA FourTokens ==
  ASSUME NEW T, NEW a \in T, NEW b \in T, NEW c \in T, NEW d \in T
  PROVE  <<a, b, c, d>> \in Seq(T) /\ Len(<<a, b, c, d>>) = 4
  OBVIOUS

(* A level.                                                                *)
LEMMA SixTokens ==
  ASSUME NEW T, NEW a \in T, NEW b \in T, NEW c \in T, NEW d \in T, NEW e \in T,
         NEW f \in T
  PROVE  <<a, b, c, d, e, f>> \in Seq(T) /\ Len(<<a, b, c, d, e, f>>) = 6
  OBVIOUS

(* What stands before an event.                                            *)
LEMMA EightTokens ==
  ASSUME NEW T, NEW a \in T, NEW b \in T, NEW c \in T, NEW d \in T, NEW e \in T,
         NEW f \in T, NEW g \in T, NEW h \in T
  PROVE  <<a, b, c, d, e, f, g, h>> \in Seq(T) /\ Len(<<a, b, c, d, e, f, g, h>>) = 8
  OBVIOUS

(* An answer.                                                              *)
LEMMA NineTokens ==
  ASSUME NEW T, NEW a \in T, NEW b \in T, NEW c \in T, NEW d \in T, NEW e \in T,
         NEW f \in T, NEW g \in T, NEW h \in T, NEW i \in T
  PROVE  <<a, b, c, d, e, f, g, h, i>> \in Seq(T)
  OBVIOUS

(* A token of a text is one of the set the text is written in.             *)
LEMMA TokenOf ==
  ASSUME NEW T, NEW s \in Seq(T), NEW i \in 1 .. Len(s)
  PROVE  s[i] \in T
  BY ElementOfSeq

(* The first place of a token.                                             *)
LEMMA FirstAt ==
  ASSUME NEW T, NEW msg \in Seq(T), NEW i \in Nat \ {0}, NEW tokens,
         NEW k \in i .. Len(msg), msg[k] \in tokens,
         \A j \in i .. Len(msg) : j < k => msg[j] \notin tokens
  PROVE  First(msg, i, tokens) = k
<1> DEFINE places == {j \in i .. Len(msg) : msg[j] \in tokens}
<1>1. places # {}
  OBVIOUS
<1>2. places \subseteq Int /\ k \in places /\ \A j \in places : k <= j
  OBVIOUS
<1> HIDE DEF places
<1>3. Min(places) = k
  <2>1. \A x \in places : (\A y \in places : x <= y) => x = k
    BY <1>2
  <2>2. QED
    BY <1>2, <2>1 DEF Min
<1>4. QED
  BY <1>1, <1>3 DEF First, places

(* No place of a token.                                                    *)
LEMMA FirstNone ==
  ASSUME NEW msg, NEW i, NEW tokens,
         \A j \in i .. Len(msg) : msg[j] \notin tokens
  PROVE  First(msg, i, tokens) = 0
  BY DEF First

(* A level has six tokens.                                                 *)
LEMMA LevelTyped ==
  ASSUME NEW p \in Written
  PROVE  \A k \in 1 .. 6 : Level(p)[k] \in LevelTokens
<1>1. Quoted(Numeral[p]) \in LevelTokens
  BY DEF LevelTokens
<1>2. Mark("[") \in LevelTokens
  BY DEF LevelTokens
<1>3. Mark(",") \in LevelTokens
  BY DEF LevelTokens
<1>4. Quoted("1") \in LevelTokens
  BY DEF LevelTokens
<1>5. Mark("]") \in LevelTokens
  BY DEF LevelTokens
<1>6. Level(p) \in Seq(LevelTokens) /\ Len(Level(p)) = 6
  BY <1>1, <1>2, <1>3, <1>4, <1>5, SixTokens DEF Level
<1>7. \A k \in 1 .. Len(Level(p)) : Level(p)[k] \in LevelTokens
  BY <1>6, TokenOf
<1>8. QED
  BY <1>6, <1>7

(* Levels as tokens, place by place.                                       *)
LEMMA LevelsAt ==
  ASSUME NEW prices \in Seq(Written), prices # <<>>
  PROVE  LET L == Levels(prices)
             n == 6 * Len(prices) + 1
         IN  /\ L \in Seq(LevelTokens) /\ Len(L) = n
             /\ L[1] = Mark("[") /\ L[n] = Mark("]")
             /\ \A i \in 2 .. n - 1 :
                  L[i] = Level(prices[((i - 2) \div 6) + 1])[((i - 2) % 6) + 1]
<1> DEFINE n == 6 * Len(prices) + 1
           L == Levels(prices)
           at(i) == IF i = 1 THEN Mark("[") ELSE IF i = n THEN Mark("]")
                    ELSE Level(prices[((i - 2) \div 6) + 1])[((i - 2) % 6) + 1]
<1>1. L = [i \in 1 .. n |-> at(i)]
  BY DEF Levels
<1>2. n \in Nat /\ n >= 7
  OBVIOUS
<1>3. ASSUME NEW i \in 2 .. n - 1
      PROVE  /\ ((i - 2) \div 6) + 1 \in DOMAIN prices
             /\ ((i - 2) % 6) + 1 \in 1 .. 6
  OBVIOUS
<1>4. \A p \in Written : \A k \in 1 .. 6 : Level(p)[k] \in LevelTokens
  BY LevelTyped
<1>5. \A i \in 1 .. n : at(i) \in LevelTokens
  <2>1. ASSUME NEW i \in 1 .. n PROVE at(i) \in LevelTokens
    <3>1. CASE i = 1 \/ i = n
      <4>1. Mark("[") \in LevelTokens /\ Mark("]") \in LevelTokens
        BY DEF LevelTokens
      <4>2. at(i) = Mark("[") \/ at(i) = Mark("]")
        BY <3>1
      <4>3. QED
        BY <4>1, <4>2
    <3>2. CASE i # 1 /\ i # n
      <4>1. i \in 2 .. n - 1
        BY <3>2, <1>2
      <4>2. prices[((i - 2) \div 6) + 1] \in Written
        BY <4>1, <1>3
      <4>3. Level(prices[((i - 2) \div 6) + 1])[((i - 2) % 6) + 1] \in LevelTokens
        BY <4>1, <4>2, <1>3, <1>4
      <4>4. at(i) = Level(prices[((i - 2) \div 6) + 1])[((i - 2) % 6) + 1]
        BY <3>2
      <4>5. QED
        BY <4>3, <4>4
    <3>3. QED
      BY <3>1, <3>2
  <2>2. QED
    BY <2>1
<1> HIDE DEF at
<1>6. L \in Seq(LevelTokens) /\ Len(L) = n
  BY <1>1, <1>2, <1>5
<1>7. \A i \in 1 .. n : L[i] = at(i)
  BY <1>1
<1>8. QED
  BY <1>2, <1>6, <1>7 DEF at

(* Every closing bracket of a level stands four places behind an opening   *)
(* one.                                                                    *)
LEMMA Shifted ==
  ASSUME NEW A \in SUBSET Int, NEW C \in SUBSET Int, IsFiniteSet(A),
         \A c \in C : c - 4 \in A
  PROVE  /\ IsFiniteSet(C) /\ Cardinality(C) <= Cardinality(A)
         /\ (\A a \in A : a + 4 \in C) => Cardinality(C) = Cardinality(A)
<1> DEFINE back == [c \in C |-> c - 4]
<1>1. back \in [C -> A]
  OBVIOUS
<1>2. \A c, d \in C : back[c] = back[d] => c = d
  OBVIOUS
<1>3. back \in Injection(C, A)
  BY <1>1, <1>2 DEF Injection, IsInjective
<1>4. ASSUME \A a \in A : a + 4 \in C PROVE back \in Surjection(C, A)
  <2>1. \A a \in A : back[a + 4] = a
    BY <1>4
  <2>2. QED
    BY <1>1, <1>4, <2>1 DEF Surjection
<1> HIDE DEF back
<1>5. QED
  BY <1>3, <1>4, FS_Injection

(* The brackets of a list of m levels: where the first ones open and       *)
(* close, from the place o on up to its i-th token.                        *)
Opens(o, n, i) ==
  {j \in o + 1 .. o + i : \/ j = o + 1
                          \/ (j < o + n /\ j > o + 1 /\ (j - o - 2) % 6 = 0)}
Closes(o, n, i) ==
  {j \in o + 1 .. o + i : \/ j = o + n
                          \/ (j < o + n /\ j > o + 1 /\ (j - o - 2) % 6 = 4)}

(* There are as many of both at the end of the list, and not before.       *)
LEMMA BracketsBalance ==
  ASSUME NEW m \in Nat \ {0}, NEW n, n = 6 * m + 1, NEW o \in Nat, NEW i \in 1 .. n
  PROVE  Cardinality(Opens(o, n, i)) = Cardinality(Closes(o, n, i)) <=> i = n
<1> DEFINE A == Opens(o, n, i)
           C == Closes(o, n, i)
<1>0. n \in Nat /\ n >= 7
  OBVIOUS
<1>1. A \in SUBSET Int /\ C \in SUBSET Int
  BY <1>0 DEF Opens, Closes
<1>2. IsFiniteSet(A) /\ IsFiniteSet(C)
  <2>1. IsFiniteSet(o + 1 .. o + i)
    BY <1>0, FS_Interval
  <2>2. A \in SUBSET (o + 1 .. o + i) /\ C \in SUBSET (o + 1 .. o + i)
    BY DEF Opens, Closes
  <2> HIDE DEF A, C
  <2>3. QED
    BY <2>1, <2>2, FS_Subset
<1>3. o + 1 \in A
  BY <1>0 DEF Opens
<1>4. \A c \in C : c # o + n => c - 4 \in A \ {o + 1}
  BY <1>0 DEF Opens, Closes
<1>5. i = n => o + n \in C
  BY <1>0 DEF Closes
<1>6. i # n => o + n \notin C
  BY <1>0 DEF Closes
<1>7. i = n => \A a \in A \ {o + 1} : a + 4 \in C \ {o + n}
  BY <1>0 DEF Opens, Closes
<1> HIDE DEF A, C
<1>8. IsFiniteSet(A \ {o + 1}) /\ Cardinality(A \ {o + 1}) = Cardinality(A) - 1
  BY <1>2, <1>3, FS_RemoveElement
<1>9. Cardinality(A) \in Nat /\ Cardinality(C) \in Nat
  BY <1>2, FS_CardinalityType
<1>10. A \ {o + 1} \in SUBSET Int /\ C \ {o + n} \in SUBSET Int
  BY <1>1
<1>11. CASE i # n
  <2>1. \A c \in C : c - 4 \in A \ {o + 1}
    BY <1>4, <1>6, <1>11
  <2>2. Cardinality(C) <= Cardinality(A \ {o + 1})
    BY <2>1, <1>1, <1>8, <1>10, Shifted
  <2>3. QED
    BY <2>2, <1>8, <1>9, <1>11 DEF A, C
<1>12. CASE i = n
  <2>1. \A c \in C \ {o + n} : c - 4 \in A \ {o + 1}
    BY <1>4
  <2>2. Cardinality(C \ {o + n}) = Cardinality(A \ {o + 1})
    BY <2>1, <1>7, <1>8, <1>10, <1>12, Shifted
  <2>3. Cardinality(C \ {o + n}) = Cardinality(C) - 1
    BY <1>2, <1>5, <1>12, FS_RemoveElement
  <2>4. Cardinality(C) - 1 = Cardinality(A) - 1
    BY <2>2, <2>3, <1>8
  <2>5. Cardinality(A) = Cardinality(C)
    BY <2>4, <1>9
  <2>6. QED
    BY <2>5, <1>12 DEF A, C
<1>13. QED
  BY <1>11, <1>12

(* The kinds of the tokens of a level.                                     *)
LEMMA LevelMarks ==
  \A p \in Written :
    /\ Level(p)[1] = Mark("[") /\ Level(p)[2] = Quoted(Numeral[p])
    /\ Level(p)[3] = Mark(",") /\ Level(p)[4] = Quoted("1")
    /\ Level(p)[5] = Mark("]") /\ Level(p)[6] = Mark(",")
  BY DEF Level

(* Marks are no quoted texts, and differ.                                  *)
LEMMA MarksDiffer ==
  /\ Mark("[") # Mark("]") /\ Mark("[") # Mark(",") /\ Mark("]") # Mark(",")
  /\ \A s : Quoted(s) # Mark("[") /\ Quoted(s) # Mark("]")
  /\ \A s : Mark(s).kind # "quoted" /\ Quoted(s).kind = "quoted"
  /\ Quoted("1") # Mark("[") /\ Quoted("1") # Mark("]") /\ Quoted("1").kind = "quoted"
  /\ Mark(",").kind # "quoted" /\ Mark("[").kind # "quoted" /\ Mark("]").kind # "quoted"
  BY DEF Mark, Quoted

(* Where the brackets and the quoted texts of a list stand.                *)
LEMMA LevelsMarked ==
  ASSUME NEW prices \in Seq(Written), prices # <<>>,
         NEW n, n = 6 * Len(prices) + 1, NEW i \in 2 .. n - 1
  PROVE  /\ Levels(prices)[i] = Mark("[") <=> (i - 2) % 6 = 0
         /\ Levels(prices)[i] = Mark("]") <=> (i - 2) % 6 = 4
         /\ Levels(prices)[i].kind = "quoted" <=> (i - 2) % 6 \in {1, 3}
<1> DEFINE p == prices[((i - 2) \div 6) + 1]
           k == ((i - 2) % 6) + 1
<1>1. p \in Written /\ k \in 1 .. 6
  OBVIOUS
<1>2. Levels(prices)[i] = Level(p)[k]
  BY LevelsAt
<1> HIDE DEF p, k
<1>3. k = 1 \/ k = 2 \/ k = 3 \/ k = 4 \/ k = 5 \/ k = 6
  BY <1>1
<1>4. /\ Level(p)[k] = Mark("[") <=> k = 1
      /\ Level(p)[k] = Mark("]") <=> k = 5
      /\ Level(p)[k].kind = "quoted" <=> k \in {2, 4}
  <2>1. CASE k = 1
    BY <2>1, <1>1, LevelMarks, MarksDiffer
  <2>2. CASE k = 2
    BY <2>2, <1>1, LevelMarks, MarksDiffer
  <2>3. CASE k = 3
    BY <2>3, <1>1, LevelMarks, MarksDiffer
  <2>4. CASE k = 4
    <3>1. Level(p)[4] = Quoted("1")
      BY <1>1, LevelMarks
    <3>2. /\ Quoted("1") # Mark("[") /\ Quoted("1") # Mark("]")
          /\ Quoted("1").kind = "quoted"
      BY MarksDiffer
    <3>3. /\ Level(p)[4] # Mark("[") /\ Level(p)[4] # Mark("]")
          /\ Level(p)[4].kind = "quoted"
      BY <3>1, <3>2, Zenon
    <3>4. QED
      BY <2>4, <3>3
  <2>5. CASE k = 5
    BY <2>5, <1>1, LevelMarks, MarksDiffer
  <2>6. CASE k = 6
    BY <2>6, <1>1, LevelMarks, MarksDiffer
  <2>7. QED
    BY <1>3, <2>1, <2>2, <2>3, <2>4, <2>5, <2>6
<1>5. /\ k = 1 <=> (i - 2) % 6 = 0
      /\ k = 5 <=> (i - 2) % 6 = 4
      /\ k \in {2, 4} <=> (i - 2) % 6 \in {1, 3}
  BY DEF k
<1>6. QED
  BY <1>2, <1>4, <1>5, Zenon

(* The best price of a list, 0 of an empty one.                            *)
Best(prices) == IF prices = <<>> THEN 0 ELSE prices[1]

(* A number that is written is read again.                                 *)
LEMMA NumberOfNumeral ==
  ASSUME NEW p \in Written
  PROVE  Number(Numeral[p]) = p
<1> DEFINE meant == {n \in Written : Numeral[n] = Numeral[p]}
<1>1. meant = {p}
  BY NumeralAssumption
<1>2. (CHOOSE n \in meant : TRUE) = p
  BY <1>1
<1>3. QED
  BY <1>1, <1>2 DEF Number

(* The first level of a list has its best price.                           *)
LEMMA FirstLevelOfLevels ==
  ASSUME NEW prices \in Seq(Written), prices # <<>>
  PROVE  FirstLevel(Levels(prices)).price = prices[1]
<1> DEFINE L == Levels(prices)
           n == 6 * Len(prices) + 1
           quotes == {i \in DOMAIN L : /\ i > First(L, First(L, 1, {Mark("[")}) + 1, {Mark("[")})
                                       /\ L[i].kind = "quoted"}
<1>a. L \in Seq(LevelTokens)
  BY LevelsAt
<1>1. n \in Nat /\ n >= 7 /\ Len(L) = n
  BY LevelsAt
<1>2. L[1] = Mark("[")
  BY LevelsAt
<1>3. L[2] = Mark("[") /\ L[3].kind = "quoted" /\ L[5].kind = "quoted"
  <2>1. 2 \in 2 .. n - 1 /\ 3 \in 2 .. n - 1 /\ 5 \in 2 .. n - 1
    BY <1>1
  <2>2. (2 - 2) % 6 = 0 /\ (3 - 2) % 6 = 1 /\ (5 - 2) % 6 = 3
    OBVIOUS
  <2>3. L[2] = Mark("[") <=> (2 - 2) % 6 = 0
    BY <2>1, LevelsMarked
  <2>4. L[3].kind = "quoted" <=> (3 - 2) % 6 \in {1, 3}
    BY <2>1, LevelsMarked
  <2>5. L[5].kind = "quoted" <=> (5 - 2) % 6 \in {1, 3}
    BY <2>1, LevelsMarked
  <2>6. QED
    BY <2>2, <2>3, <2>4, <2>5
<1>4. L[3] = Quoted(Numeral[prices[1]])
  <2>1. 3 \in 2 .. n - 1 /\ ((3 - 2) \div 6) + 1 = 1 /\ ((3 - 2) % 6) + 1 = 2
    BY <1>1
  <2>2. L[3] = Level(prices[((3 - 2) \div 6) + 1])[((3 - 2) % 6) + 1]
    BY <2>1, LevelsAt
  <2>3. L[3] = Level(prices[1])[2]
    BY <2>1, <2>2
  <2>4. prices[1] \in Written
    OBVIOUS
  <2>5. QED
    BY <2>3, <2>4, LevelMarks
<1> HIDE DEF L, n
<1>5. First(L, 1, {Mark("[")}) = 1
  <2>1. L[1] \in {Mark("[")}
    BY <1>2
  <2>2. \A j \in 1 .. Len(L) : j < 1 => L[j] \notin {Mark("[")}
    BY <1>1
  <2>3. 1 \in 1 .. Len(L) /\ 1 \in Nat \ {0}
    BY <1>1
  <2>4. QED
    BY <1>a, <2>1, <2>2, <2>3, FirstAt
<1>6. First(L, 2, {Mark("[")}) = 2
  <2>1. L[2] \in {Mark("[")}
    BY <1>3
  <2>2. \A j \in 2 .. Len(L) : j < 2 => L[j] \notin {Mark("[")}
    BY <1>1
  <2>3. 2 \in 2 .. Len(L) /\ 2 \in Nat \ {0}
    BY <1>1
  <2>4. QED
    BY <1>a, <2>1, <2>2, <2>3, FirstAt
<1>7. First(L, First(L, 1, {Mark("[")}) + 1, {Mark("[")}) = 2
  BY <1>5, <1>6
<1>8. quotes = {i \in DOMAIN L : i > 2 /\ L[i].kind = "quoted"}
  BY <1>7
<1>9. DOMAIN L = 1 .. n
  BY <1>1
<1> HIDE DEF quotes
<1>10. quotes \in SUBSET (1 .. n) /\ 3 \in quotes /\ 5 \in quotes /\ \A i \in quotes : 3 <= i
  BY <1>1, <1>3, <1>8, <1>9
<1>11. Min(quotes) = 3
  <2>1. \A x \in quotes : (\A y \in quotes : x <= y) => x = 3
    BY <1>10
  <2>2. QED
    BY <1>10, <2>1 DEF Min
<1>12. ~(Cardinality(quotes) < 2)
  <2>1. IsFiniteSet(quotes)
    <3>1. IsFiniteSet(1 .. n)
      BY <1>1, FS_Interval
    <3>2. QED
      BY <1>10, <3>1, FS_Subset
  <2>2. /\ IsFiniteSet(quotes \ {3})
        /\ Cardinality(quotes \ {3}) = Cardinality(quotes) - 1
    BY <1>10, <2>1, FS_RemoveElement
  <2>3. quotes \ {3} # {}
    BY <1>10
  <2>4. Cardinality(quotes \ {3}) # 0
    BY <2>2, <2>3, FS_EmptySet
  <2>5. Cardinality(quotes \ {3}) \in Nat /\ Cardinality(quotes) \in Nat
    BY <2>1, <2>2, FS_CardinalityType
  <2>6. QED
    BY <2>2, <2>4, <2>5
<1>13. FirstLevel(L).price = Number(L[3].text)
  <2>1. FirstLevel(L) =
          IF \/ First(L, 1, {Mark("[")}) = 0
             \/ First(L, First(L, 1, {Mark("[")}) + 1, {Mark("[")}) = 0
             \/ Cardinality(quotes) < 2
            THEN NoLevel
            ELSE [price |-> Number(L[Min(quotes)].text),
                  qty |-> Number(L[Min(quotes \ {Min(quotes)})].text)]
    BY Zenon DEF FirstLevel, quotes
  <2>2. QED
    BY <1>5, <1>7, <1>11, <1>12, <2>1
<1>14. L[3].text = Numeral[prices[1]]
  BY <1>4 DEF Quoted
<1>15. prices[1] \in Written
  OBVIOUS
<1>16. QED
  BY <1>13, <1>14, <1>15, NumberOfNumeral DEF L

(* The list of no levels.                                                  *)
LEMMA NoLevels ==
  /\ Levels(<<>>) \in Seq(LevelTokens) /\ Len(Levels(<<>>)) = 2
  /\ Levels(<<>>)[1] = Mark("[") /\ Levels(<<>>)[2] = Mark("]")
<1>1. Mark("[") \in LevelTokens
  BY DEF LevelTokens
<1>2. Mark("]") \in LevelTokens
  BY DEF LevelTokens
<1>3. Levels(<<>>) = <<Mark("["), Mark("]")>>
  BY DEF Levels
<1>4. <<Mark("["), Mark("]")>> \in Seq(LevelTokens) /\ Len(<<Mark("["), Mark("]")>>) = 2
  BY <1>1, <1>2, TwoTokens
<1>5. QED
  BY <1>3, <1>4

(* A list opens with its first token and closes with its last one.         *)
LEMMA LevelsTyped ==
  ASSUME NEW prices \in Seq(Written)
  PROVE  /\ Levels(prices) \in Seq(LevelTokens)
         /\ Len(Levels(prices)) \in Nat /\ Len(Levels(prices)) >= 2
         /\ Levels(prices)[1] = Mark("[")
<1>1. CASE prices = <<>>
  BY <1>1, NoLevels
<1>2. CASE prices # <<>>
  BY <1>2, LevelsAt
<1>3. QED
  BY <1>1, <1>2

(* Where a list stands in a text.                                          *)
Stands(L, msg, o) ==
  /\ o + Len(L) <= Len(msg)
  /\ \A j \in 1 .. Len(L) : msg[o + j] = L[j]

Brackets(msg, c, first, last) == {j \in first .. last : msg[j] = Mark(c)}

(* Within a list, as many brackets are closed as opened at its end only.   *)
LEMMA ListCloses ==
  ASSUME NEW prices \in Seq(Written), NEW msg, NEW o \in Nat,
         Stands(Levels(prices), msg, o), NEW i \in 1 .. Len(Levels(prices))
  PROVE  Cardinality(Brackets(msg, "[", o + 1, o + i))
           = Cardinality(Brackets(msg, "]", o + 1, o + i))
           <=> i = Len(Levels(prices))
<1> DEFINE L == Levels(prices)
           A == Brackets(msg, "[", o + 1, o + i)
           C == Brackets(msg, "]", o + 1, o + i)
<1>1. CASE prices = <<>>
  <2>1. Len(L) = 2 /\ L[1] = Mark("[") /\ L[2] = Mark("]")
    BY <1>1, NoLevels
  <2>2. msg[o + 1] = L[1] /\ (i = 2 => msg[o + 2] = L[2]) /\ i \in {1, 2}
    BY <2>1 DEF Stands
  <2> HIDE DEF L
  <2>3. msg[o + 1] = Mark("[") /\ (i = 2 => msg[o + 2] = Mark("]"))
    BY <2>1, <2>2
  <2>4. Mark("[") # Mark("]")
    BY MarksDiffer
  <2>5. A = {o + 1}
    BY <2>2, <2>3, <2>4 DEF Brackets
  <2>6. C = IF i = 2 THEN {o + 2} ELSE {}
    BY <2>2, <2>3, <2>4 DEF Brackets
  <2> HIDE DEF A, C
  <2>7. Cardinality(A) = 1
    BY <2>5, FS_Singleton
  <2>8. Cardinality(C) = IF i = 2 THEN 1 ELSE 0
    BY <2>2, <2>6, FS_Singleton, FS_EmptySet
  <2>9. QED
    BY <2>1, <2>2, <2>7, <2>8 DEF A, C, L
<1>2. CASE prices # <<>>
  <2> DEFINE n == 6 * Len(prices) + 1
  <2>1. Len(prices) \in Nat \ {0}
    BY <1>2
  <2>2. Len(L) = n /\ L[1] = Mark("[") /\ L[n] = Mark("]")
    BY <1>2, LevelsAt
  <2>3. \A j \in 2 .. n - 1 : /\ L[j] = Mark("[") <=> (j - 2) % 6 = 0
                              /\ L[j] = Mark("]") <=> (j - 2) % 6 = 4
    BY <1>2, LevelsMarked
  <2>4. n \in Nat /\ n >= 7
    BY <2>1
  <2>5. \A j \in 1 .. n : msg[o + j] = L[j]
    BY <2>2 DEF Stands
  <2>6. i \in 1 .. n
    BY <2>2
  <2>7. Mark("[") # Mark("]")
    BY MarksDiffer
  <2> HIDE DEF n, L
  <2>8. \A j \in o + 1 .. o + i : /\ msg[j] = L[j - o]
                                  /\ j - o \in 1 .. n
    <3>1. ASSUME NEW j \in o + 1 .. o + i PROVE msg[j] = L[j - o] /\ j - o \in 1 .. n
      <4>1. j - o \in 1 .. n
        BY <2>4, <2>6
      <4>2. o + (j - o) = j
        OBVIOUS
      <4>3. QED
        BY <4>1, <4>2, <2>5
    <3>2. QED
      BY <3>1
  <2>9. A = Opens(o, n, i)
    <3>1. \A j \in o + 1 .. o + i :
            msg[j] = Mark("[") <=> \/ j = o + 1
                                   \/ (j < o + n /\ j > o + 1 /\ (j - o - 2) % 6 = 0)
      BY <2>2, <2>3, <2>4, <2>6, <2>7, <2>8
    <3>2. QED
      BY <3>1, Zenon DEF Brackets, Opens
  <2>10. C = Closes(o, n, i)
    <3>1. \A j \in o + 1 .. o + i :
            msg[j] = Mark("]") <=> \/ j = o + n
                                   \/ (j < o + n /\ j > o + 1 /\ (j - o - 2) % 6 = 4)
      BY <2>2, <2>3, <2>4, <2>6, <2>7, <2>8
    <3>2. QED
      BY <3>1, Zenon DEF Brackets, Closes
  <2> HIDE DEF A, C
  <2>11. Cardinality(Opens(o, n, i)) = Cardinality(Closes(o, n, i)) <=> i = n
    BY <2>1, <2>6, BracketsBalance DEF n
  <2>12. Cardinality(A) = Cardinality(C) <=> i = Len(L)
    BY <2>2, <2>9, <2>10, <2>11
  <2>13. QED
    BY <2>12 DEF A, C, L
<1>3. QED
  BY <1>1, <1>2

(* The list under a key is found, whatever stands behind it.               *)
LEMMA ListOfFound ==
  ASSUME NEW T, NEW msg \in Seq(T), NEW key, NEW o \in Nat \ {0, 1},
         NEW prices \in Seq(Written),
         msg[o - 1] = Quoted(key), msg[o] = Mark(":"),
         \A j \in 1 .. o - 2 : msg[j] # Quoted(key),
         Stands(Levels(prices), msg, o)
  PROVE  ListOf(msg, key) = Levels(prices)
<1> DEFINE L == Levels(prices)
           n == Len(L)
           k == First(msg, 1, {Quoted(key)})
           from == IF k = 0 THEN 0 ELSE First(msg, k, {Mark("[")})
           count(i, c) == Cardinality({j \in from .. i : msg[j] = Mark(c)})
           ends == {i \in from .. Len(msg) : count(i, "[") = count(i, "]")}
<1>1. /\ n \in Nat /\ n >= 2 /\ L[1] = Mark("[") /\ L \in Seq(LevelTokens)
  BY LevelsTyped
<1>2. o + n <= Len(msg) /\ \A j \in 1 .. n : msg[o + j] = L[j]
  BY DEF Stands
<1>3. Len(msg) \in Nat
  OBVIOUS
<1> HIDE DEF L, n
<1>4. k = o - 1
  <2>1. o - 1 \in 1 .. Len(msg) /\ 1 \in Nat \ {0}
    BY <1>1, <1>2, <1>3
  <2>2. msg[o - 1] \in {Quoted(key)}
    OBVIOUS
  <2>3. \A j \in 1 .. Len(msg) : j < o - 1 => msg[j] \notin {Quoted(key)}
    OBVIOUS
  <2>4. QED
    BY <2>1, <2>2, <2>3, FirstAt
<1> HIDE DEF k
<1>5. from = o + 1
  <2>1. First(msg, o - 1, {Mark("[")}) = o + 1
    <3>1. o + 1 \in o - 1 .. Len(msg) /\ o - 1 \in Nat \ {0}
      BY <1>1, <1>2, <1>3
    <3>2. msg[o + 1] = Mark("[")
      BY <1>1, <1>2
    <3>3. msg[o + 1] \in {Mark("[")}
      BY <3>2
    <3>4. Mark(":") # Mark("[") /\ Quoted(key) # Mark("[")
      BY DEF Mark, Quoted
    <3>5. \A j \in o - 1 .. Len(msg) : j < o + 1 => j = o - 1 \/ j = o
      OBVIOUS
    <3>6. \A j \in o - 1 .. Len(msg) : j < o + 1 => msg[j] \notin {Mark("[")}
      BY <3>4, <3>5, Zenon
    <3>7. QED
      BY <3>1, <3>3, <3>6, FirstAt
  <2>2. o - 1 # 0
    OBVIOUS
  <2>3. QED
    BY <1>4, <2>1, <2>2
<1> HIDE DEF from
<1>6. ends = {i \in o + 1 .. Len(msg) :
               Cardinality(Brackets(msg, "[", o + 1, i))
                 = Cardinality(Brackets(msg, "]", o + 1, i))}
  BY <1>5 DEF Brackets
<1> HIDE DEF ends
<1>7. \A i \in o + 1 .. o + n : i \in ends <=> i = o + n
  <2>1. ASSUME NEW i \in o + 1 .. o + n PROVE i \in ends <=> i = o + n
    <3>1. i - o \in 1 .. n /\ o + (i - o) = i /\ i \in o + 1 .. Len(msg)
      BY <1>1, <1>2, <1>3
    <3>2. Cardinality(Brackets(msg, "[", o + 1, o + (i - o)))
            = Cardinality(Brackets(msg, "]", o + 1, o + (i - o)))
            <=> i - o = n
      BY <3>1, ListCloses DEF n, L
    <3>3. i - o = n <=> i = o + n
      BY <1>1
    <3>4. QED
      BY <1>6, <3>1, <3>2, <3>3
  <2>2. QED
    BY <2>1
<1>8. o + n \in ends /\ ends \in SUBSET Int /\ \A i \in ends : o + n <= i
  <2>1. o + n \in o + 1 .. o + n
    BY <1>1
  <2>2. ends \in SUBSET (o + 1 .. Len(msg))
    BY <1>6
  <2>3. o + n \in ends
    BY <1>7, <2>1
  <2>4. ASSUME NEW i \in ends PROVE o + n <= i
    <3>1. i \in Int /\ i >= o + 1
      BY <2>2, <1>3
    <3>2. i \in o + 1 .. o + n => i = o + n
      BY <1>7
    <3>3. QED
      BY <3>1, <3>2, <1>1
  <2>5. QED
    BY <2>2, <2>3, <2>4, <1>3
<1>9. Min(ends) = o + n
  <2>1. ASSUME NEW x \in ends, \A y \in ends : x <= y PROVE x = o + n
    <3>1. x <= o + n /\ o + n <= x
      BY <1>8, <2>1
    <3>2. x \in Int /\ o + n \in Int
      BY <1>1, <1>8
    <3>3. QED
      BY <3>1, <3>2
  <2>2. QED
    BY <1>8, <2>1 DEF Min
<1>10. ListOf(msg, key) = SubSeq(msg, o + 1, o + n)
  <2>1. ListOf(msg, key) = IF from = 0 \/ ends = {} THEN <<>>
                           ELSE SubSeq(msg, from, Min(ends))
    BY Zenon DEF ListOf, k, from, ends
  <2>2. o + 1 # 0 /\ ends # {}
    BY <1>8
  <2>3. QED
    BY <1>5, <1>9, <2>1, <2>2
<1>11. SubSeq(msg, o + 1, o + n) = L
  <2>1. \A i \in o + 1 .. o + n : msg[i] \in T
    BY <1>1, <1>2, <1>3, TokenOf
  <2>2. o + 1 \in Int /\ o + n \in Int
    BY <1>1
  <2>3. /\ SubSeq(msg, o + 1, o + n) \in Seq(T)
        /\ Len(SubSeq(msg, o + 1, o + n)) = IF o + 1 <= o + n THEN (o + n) - (o + 1) + 1 ELSE 0
        /\ \A i \in 1 .. (o + n) - (o + 1) + 1 :
             SubSeq(msg, o + 1, o + n)[i] = msg[(o + 1) + i - 1]
    BY <2>1, <2>2, SubSeqProperties
  <2>4. Len(SubSeq(msg, o + 1, o + n)) = n
    BY <2>3, <1>1
  <2>5. \A i \in 1 .. n : SubSeq(msg, o + 1, o + n)[i] = L[i]
    <3>1. \A i \in 1 .. n : (o + 1) + i - 1 = o + i /\ i \in 1 .. (o + n) - (o + 1) + 1
      BY <1>1
    <3>2. QED
      BY <1>2, <2>3, <3>1
  <2>6. SubSeq(msg, o + 1, o + n) \in Seq(T \union LevelTokens)
    BY <2>3, SeqMonotonic
  <2>7. L \in Seq(T \union LevelTokens)
    BY <1>1, SeqMonotonic
  <2>8. Len(L) = n
    BY DEF n
  <2>9. QED
    BY <2>4, <2>5, <2>6, <2>7, <2>8, SeqEqual
<1>12. QED
  BY <1>10, <1>11 DEF L

(* The price read of a list is its best one.                               *)
LEMMA BestIsRead ==
  ASSUME NEW prices \in Seq(Written)
  PROVE  FirstLevel(Levels(prices)).price = Best(prices)
<1>1. CASE prices # <<>>
  BY <1>1, FirstLevelOfLevels DEF Best
<1>2. CASE prices = <<>>
  <2> DEFINE L == Levels(<<>>)
  <2>1. L \in Seq(LevelTokens)
    BY NoLevels
  <2>2. Len(L) = 2 /\ L[1] = Mark("[") /\ L[2] = Mark("]")
    BY NoLevels
  <2> HIDE DEF L
  <2>3. First(L, 1, {Mark("[")}) = 1
    <3>1. L[1] \in {Mark("[")}
      BY <2>2
    <3>2. \A j \in 1 .. Len(L) : j < 1 => L[j] \notin {Mark("[")}
      BY <2>2
    <3>3. 1 \in 1 .. Len(L) /\ 1 \in Nat \ {0}
      BY <2>2
    <3>4. QED
      BY <2>1, <3>1, <3>2, <3>3, FirstAt
  <2>4. First(L, 1 + 1, {Mark("[")}) = 0
    <3>1. \A j \in 1 + 1 .. Len(L) : L[j] = Mark("]")
      BY <2>2
    <3>2. \A j \in 1 + 1 .. Len(L) : L[j] \notin {Mark("[")}
      BY <3>1, MarksDiffer
    <3>3. QED
      BY <3>2, FirstNone
  <2>5. FirstLevel(L) = NoLevel
    BY <2>3, <2>4 DEF FirstLevel
  <2>6. FirstLevel(L).price = 0
    BY <2>5 DEF NoLevel
  <2>7. QED
    BY <1>2, <2>6 DEF L, Best
<1>3. QED
  BY <1>1, <1>2

(* Where the parts of a text stand in it.                                  *)
LEMMA Placed ==
  ASSUME NEW T, NEW s \in Seq(T), NEW t \in Seq(T), NEW o \in Nat, NEW msg,
         Stands(s \o t, msg, o)
  PROVE  Stands(s, msg, o) /\ Stands(t, msg, o + Len(s))
<1>1. Len(s) \in Nat /\ Len(t) \in Nat
  OBVIOUS
<1>2. Len(s \o t) = Len(s) + Len(t)
  BY ConcatProperties
<1>3. \A i \in 1 .. Len(s) + Len(t) :
        (s \o t)[i] = IF i <= Len(s) THEN s[i] ELSE t[i - Len(s)]
  BY ConcatProperties
<1>4. /\ o + (Len(s) + Len(t)) <= Len(msg)
      /\ \A i \in 1 .. Len(s) + Len(t) :
           msg[o + i] = IF i <= Len(s) THEN s[i] ELSE t[i - Len(s)]
  BY <1>2, <1>3 DEF Stands
<1>5. Stands(s, msg, o)
  <2>1. o + Len(s) <= Len(msg)
    BY <1>1, <1>4
  <2>2. \A i \in 1 .. Len(s) : msg[o + i] = s[i]
    BY <1>1, <1>4
  <2>3. QED
    BY <2>1, <2>2 DEF Stands
<1>6. Stands(t, msg, o + Len(s))
  <2>1. (o + Len(s)) + Len(t) <= Len(msg)
    BY <1>1, <1>4
  <2>2. ASSUME NEW i \in 1 .. Len(t) PROVE msg[(o + Len(s)) + i] = t[i]
    <3>1. Len(s) + i \in 1 .. Len(s) + Len(t) /\ ~(Len(s) + i <= Len(s))
      BY <1>1
    <3>2. msg[o + (Len(s) + i)] = t[(Len(s) + i) - Len(s)]
      BY <1>4, <3>1
    <3>3. (Len(s) + i) - Len(s) = i /\ o + (Len(s) + i) = (o + Len(s)) + i
      BY <1>1
    <3>4. QED
      BY <3>2, <3>3
  <2>3. QED
    BY <2>1, <2>2 DEF Stands
<1>7. QED
  BY <1>5, <1>6

(* A text stands in itself, and in what is behind a prefix of it.          *)
LEMMA StandsInItself ==
  ASSUME NEW T, NEW s \in Seq(T)
  PROVE  Stands(s, s, 0)
  BY DEF Stands

(* The tokens of the messages of the depth streams.                        *)
DepthTokens(message) ==
  LevelTokens
    \union {Mark("{"), Mark("}"), Mark(":"), Quoted("stream"), Quoted("data"),
            Quoted("lastUpdateId"), Plain("7"), Quoted("bids"), Quoted("asks"),
            Quoted(StreamOf(message))}

LastUpdate == <<Quoted("lastUpdateId"), Mark(":"), Plain("7"), Mark(",")>>
KeyOf(key) == <<Quoted(key), Mark(":")>>
Braces == <<Mark("}"), Mark("}")>>

(* The parts of a depth message, and where each of them stands.            *)
LEMMA DepthText ==
  ASSUME NEW message, message.event = "depth",
         message.bids \in Seq(Written), message.asks \in Seq(Written)
  PROVE  LET t == Text(message)
             b == Len(Levels(message.bids))
         IN  /\ t \in Seq(DepthTokens(message))
             /\ Stands(Envelope(message), t, 0)
             /\ Stands(LastUpdate, t, 8)
             /\ Stands(KeyOf("bids"), t, 12) /\ Stands(Levels(message.bids), t, 14)
             /\ Stands(Comma, t, 14 + b)
             /\ Stands(KeyOf("asks"), t, 15 + b)
             /\ Stands(Levels(message.asks), t, 17 + b)
<1> DEFINE T == DepthTokens(message)
           LB == Levels(message.bids)
           LA == Levels(message.asks)
           t == Text(message)
           b == Len(LB)
           askPart == KeyOf("asks") \o LA
           behindBids == Comma \o askPart
           bidPart == KeyOf("bids") \o LB
           lists == bidPart \o behindBids
           event == LastUpdate \o lists
           rest == event \o Braces
<1>1. Mark("{") \in T /\ Mark("}") \in T /\ Mark(":") \in T /\ Mark(",") \in T
  BY DEF DepthTokens, LevelTokens
<1>2. /\ Quoted("stream") \in T /\ Quoted("data") \in T /\ Quoted("lastUpdateId") \in T
      /\ Plain("7") \in T /\ Quoted("bids") \in T /\ Quoted("asks") \in T
      /\ Quoted(StreamOf(message)) \in T
  BY DEF DepthTokens
<1>3. LevelTokens \subseteq T
  BY Zenon DEF DepthTokens
<1>4. LB \in Seq(T) /\ LA \in Seq(T)
  BY <1>3, LevelsTyped, SeqMonotonic
<1>5. t = Envelope(message) \o rest
  <2>1. Event(message) = event
    BY Zenon DEF Event, Listed, LastUpdate, KeyOf
  <2>2. message.event # "answer"
    OBVIOUS
  <2>3. QED
    BY <2>1, <2>2, Zenon DEF Text, Braces
<1> HIDE DEF T, LB, LA, t
<1>6. Envelope(message) \in Seq(T) /\ Len(Envelope(message)) = 8
  BY <1>1, <1>2, EightTokens DEF Envelope
<1>7. LastUpdate \in Seq(T) /\ Len(LastUpdate) = 4
  BY <1>1, <1>2, FourTokens DEF LastUpdate
<1>8. /\ KeyOf("bids") \in Seq(T) /\ Len(KeyOf("bids")) = 2
      /\ KeyOf("asks") \in Seq(T) /\ Len(KeyOf("asks")) = 2
  BY <1>1, <1>2, TwoTokens DEF KeyOf
<1>9. Braces \in Seq(T)
  BY <1>1, TwoTokens DEF Braces
<1>10. Comma \in Seq(T) /\ Len(Comma) = 1
  BY <1>1, OneToken DEF Comma
<1>11. askPart \in Seq(T)
  BY <1>4, <1>8, ConcatProperties
<1> HIDE DEF askPart
<1>12. behindBids \in Seq(T)
  BY <1>10, <1>11, ConcatProperties
<1> HIDE DEF behindBids
<1>13. bidPart \in Seq(T) /\ Len(bidPart) = 2 + b
  <2>1. bidPart \in Seq(T) /\ Len(bidPart) = Len(KeyOf("bids")) + Len(LB)
    BY <1>4, <1>8, ConcatProperties
  <2>2. QED
    BY <1>8, <2>1
<1> HIDE DEF bidPart
<1>14. lists \in Seq(T)
  BY <1>12, <1>13, ConcatProperties
<1> HIDE DEF lists
<1>15. event \in Seq(T)
  BY <1>7, <1>14, ConcatProperties
<1> HIDE DEF event
<1>16. rest \in Seq(T)
  BY <1>9, <1>15, ConcatProperties
<1> HIDE DEF rest
<1>17. t \in Seq(T)
  BY <1>5, <1>6, <1>16, ConcatProperties
<1>18. Stands(Envelope(message) \o rest, t, 0)
  BY <1>5, <1>17, StandsInItself
<1>19. Stands(Envelope(message), t, 0) /\ Stands(rest, t, 0 + 8)
  BY <1>6, <1>16, <1>18, Placed
<1>20. Stands(event, t, 8)
  BY <1>9, <1>15, <1>19, Placed DEF rest
<1>21. Stands(LastUpdate, t, 8) /\ Stands(lists, t, 8 + 4)
  BY <1>7, <1>14, <1>20, Placed DEF event
<1>22. Stands(bidPart, t, 12) /\ Stands(behindBids, t, 12 + (2 + b))
  BY <1>12, <1>13, <1>21, Placed DEF lists
<1>23. Stands(KeyOf("bids"), t, 12) /\ Stands(LB, t, 12 + 2)
  BY <1>4, <1>8, <1>22, Placed DEF bidPart
<1>24. b \in Nat
  BY <1>4
<1>25. 12 + (2 + b) = 14 + b /\ (14 + b) + 1 = 15 + b /\ (15 + b) + 2 = 17 + b
  BY <1>24
<1>26. Stands(Comma, t, 14 + b) /\ Stands(askPart, t, 15 + b)
  <2>1. 14 + b \in Nat /\ Stands(Comma \o askPart, t, 14 + b)
    BY <1>22, <1>24, <1>25 DEF behindBids
  <2>2. Stands(Comma, t, 14 + b) /\ Stands(askPart, t, (14 + b) + Len(Comma))
    BY <1>10, <1>11, <2>1, Placed
  <2>3. QED
    BY <1>10, <1>25, <2>2
<1>27. Stands(KeyOf("asks"), t, 15 + b) /\ Stands(LA, t, 17 + b)
  <2>1. 15 + b \in Nat /\ Stands(KeyOf("asks") \o LA, t, 15 + b)
    BY <1>24, <1>26 DEF askPart
  <2>2. Stands(KeyOf("asks"), t, 15 + b) /\ Stands(LA, t, (15 + b) + Len(KeyOf("asks")))
    BY <1>4, <1>8, <2>1, Placed
  <2>3. QED
    BY <1>8, <1>25, <2>2
<1>28. QED
  BY <1>17, <1>19, <1>21, <1>23, <1>25, <1>26, <1>27 DEF T, LB, LA, t

(* The streams that carry books, by their names.                           *)
LEMMA DepthStreams ==
  ASSUME NEW message, message.event = "depth", message.sym \in {"btc", "eth"}
  PROVE  /\ StreamOf(message) \in Containing["depth"]
         /\ StreamOf(message) \notin Containing["trade"]
         /\ StreamOf(message) \notin Keys
         /\ StreamOf(message) \in Containing["eth"] <=> message.sym = "eth"
<1>1. CASE message.sym = "btc"
  <2>1. StreamOf(message) = "btcusdt@depth5@100ms"
    BY <1>1 DEF StreamOf
  <2>2. QED
    BY <1>1, <2>1 DEF Containing, Keys
<1>2. CASE message.sym = "eth"
  <2>1. StreamOf(message) = "ethusdt@depth5@100ms"
    BY <1>2 DEF StreamOf
  <2>2. QED
    BY <1>2, <2>1 DEF Containing, Keys
<1>3. QED
  BY <1>1, <1>2

(* No number is written as a key or a stream, nor do marks name a stream.  *)
LEMMA LevelsAreOfNoStream ==
  ASSUME NEW x \in LevelTokens
  PROVE  /\ x # Quoted("bids") /\ x # Quoted("asks")
         /\ x.text \notin Containing["trade"]
<1>1. \A w \in {"trade", "depth", "markPrice", "eth"} : Containing[w] \subseteq Names
  BY DEF Names, Containing
<1>2. "bids" \in Keys /\ "asks" \in Keys
  BY DEF Keys
<1>3. CASE x \in {Mark("["), Mark("]"), Mark(","), Quoted("1")}
  <2>1. /\ Mark("[").text = "[" /\ Mark("]").text = "]"
        /\ Mark(",").text = "," /\ Quoted("1").text = "1"
        /\ Quoted("bids").text = "bids" /\ Quoted("asks").text = "asks"
    BY DEF Mark, Quoted
  <2>2. x.text \in {"[", "]", ",", "1"}
    BY <1>3, <2>1, Zenon
  <2>3. x.text # "bids" /\ x.text # "asks" /\ x.text \notin Containing["trade"]
    BY <2>2 DEF Containing
  <2>4. QED
    BY <2>1, <2>3, Zenon
<1>4. CASE \E n \in Written : x = Quoted(Numeral[n])
  <2>1. PICK n \in Written : x = Quoted(Numeral[n])
    BY <1>4
  <2>2. x.text = Numeral[n] /\ \A s : Quoted(s).text = s
    BY <2>1 DEF Quoted
  <2>3. Numeral[n] \notin Keys /\ Numeral[n] \notin Names
    BY NumeralAssumption
  <2>4. QED
    BY <1>1, <1>2, <2>2, <2>3, Zenon
<1>5. QED
  BY <1>3, <1>4 DEF LevelTokens

(* What stands in a text is read there.                                    *)
LEMMA Within ==
  ASSUME NEW X, NEW s \in Seq(X), NEW msg, NEW o \in Nat, Stands(s, msg, o),
         NEW j \in o + 1 .. o + Len(s)
  PROVE  msg[j] \in X
<1>1. j - o \in 1 .. Len(s) /\ o + (j - o) = j
  OBVIOUS
<1>2. s[j - o] \in X
  BY <1>1, TokenOf
<1>3. QED
  BY <1>1, <1>2 DEF Stands

(* The first tokens left out, the others stand nearer.                     *)
LEMMA StandsBehind ==
  ASSUME NEW T, NEW t \in Seq(T), NEW s, NEW S, s \in Seq(S), NEW o \in Nat, NEW k \in 0 .. o,
         Stands(s, t, o)
  PROVE  Stands(s, SubSeq(t, k + 1, Len(t)), o - k)
<1> DEFINE d == SubSeq(t, k + 1, Len(t))
<1>1. Len(t) \in Nat /\ Len(s) \in Nat
  OBVIOUS
<1>2. o + Len(s) <= Len(t) /\ \A j \in 1 .. Len(s) : t[o + j] = s[j]
  BY DEF Stands
<1>3. \A i \in k + 1 .. Len(t) : t[i] \in T
  BY <1>1, TokenOf
<1>4. k + 1 \in Int /\ Len(t) \in Int
  BY <1>1
<1>5. /\ Len(d) = IF k + 1 <= Len(t) THEN Len(t) - (k + 1) + 1 ELSE 0
      /\ \A i \in 1 .. Len(t) - (k + 1) + 1 : d[i] = t[(k + 1) + i - 1]
  BY <1>3, <1>4, SubSeqProperties
<1> HIDE DEF d
<1>6. (o - k) + Len(s) <= Len(d)
  BY <1>1, <1>2, <1>5
<1>7. ASSUME NEW j \in 1 .. Len(s) PROVE d[(o - k) + j] = s[j]
  <2>1. /\ (o - k) + j \in 1 .. Len(t) - (k + 1) + 1
        /\ (k + 1) + ((o - k) + j) - 1 = o + j
    BY <1>1, <1>2
  <2>2. d[(o - k) + j] = t[(k + 1) + ((o - k) + j) - 1]
    BY <1>5, <2>1
  <2>3. QED
    BY <1>2, <2>1, <2>2
<1>8. QED
  BY <1>6, <1>7 DEF Stands, d

(* The data of a message of a stream begins behind its name.               *)
LEMMA DataOfStream ==
  ASSUME NEW T, NEW message, NEW t \in Seq(T), Stands(Envelope(message), t, 0),
         StreamOf(message) \notin Keys
  PROVE  /\ Data(t) = SubSeq(t, 6, Len(t))
         /\ QuotedValue(t, "stream") = StreamOf(message)
         /\ 4 \in DOMAIN t /\ t[4].text = StreamOf(message)
<1>1. Len(Envelope(message)) = 8
  BY DEF Envelope
<1>2. Len(t) \in Nat /\ Len(t) >= 8 /\ \A j \in 1 .. 8 : t[j] = Envelope(message)[j]
  BY <1>1 DEF Stands
<1>3. /\ t[1] = Mark("{") /\ t[2] = Quoted("stream") /\ t[3] = Mark(":")
      /\ t[4] = Quoted(StreamOf(message)) /\ t[5] = Mark(",") /\ t[6] = Quoted("data")
  <2>1. LET e == Envelope(message)
        IN  /\ e[1] = Mark("{") /\ e[2] = Quoted("stream") /\ e[3] = Mark(":")
            /\ e[4] = Quoted(StreamOf(message)) /\ e[5] = Mark(",") /\ e[6] = Quoted("data")
    BY DEF Envelope
  <2>2. LET e == Envelope(message)
        IN  /\ t[1] = e[1] /\ t[2] = e[2] /\ t[3] = e[3]
            /\ t[4] = e[4] /\ t[5] = e[5] /\ t[6] = e[6]
    BY <1>2
  <2>3. QED
    BY <2>1, <2>2, Zenon
<1>4. "data" \in Keys
  BY DEF Keys
<1>5. /\ Mark("{") # Quoted("data") /\ Mark(":") # Quoted("data")
      /\ Mark(",") # Quoted("data") /\ Quoted("stream") # Quoted("data")
      /\ Mark("{") # Quoted("stream")
  BY DEF Mark, Quoted
<1>6. Quoted(StreamOf(message)) # Quoted("data")
  <2>1. \A s, u : Quoted(s) = Quoted(u) => s = u
    BY DEF Quoted
  <2>2. QED
    BY <1>4, <2>1, Zenon
<1>7. First(t, 1, {Quoted("data")}) = 6
  <2>1. 6 \in 1 .. Len(t) /\ 1 \in Nat \ {0}
    BY <1>2
  <2>2. t[6] \in {Quoted("data")}
    BY <1>3
  <2>3. \A j \in 1 .. Len(t) : j < 6 => j = 1 \/ j = 2 \/ j = 3 \/ j = 4 \/ j = 5
    OBVIOUS
  <2>4. \A j \in 1 .. Len(t) : j < 6 => t[j] \notin {Quoted("data")}
    BY <2>3, <1>3, <1>5, <1>6, Zenon
  <2>5. QED
    BY <2>1, <2>2, <2>4, FirstAt
<1>8. Data(t) = SubSeq(t, 6, Len(t))
  <2>1. Data(t) = IF 6 = 0 THEN t ELSE SubSeq(t, 6, Len(t))
    BY <1>7, Zenon DEF Data
  <2>2. QED
    BY <2>1
<1>9. QuotedValue(t, "stream") = StreamOf(message)
  <2> DEFINE places == {i \in 1 .. Len(t) - 2 :
                          /\ t[i] = Quoted("stream") /\ t[i + 1] = Mark(":")
                          /\ t[i + 2].kind \in {"quoted"}}
  <2>1. /\ Quoted(StreamOf(message)).kind = "quoted"
        /\ Quoted(StreamOf(message)).text = StreamOf(message)
    BY DEF Quoted
  <2>2. 2 \in 1 .. Len(t) - 2 /\ 2 + 1 = 3 /\ 2 + 2 = 4
    BY <1>2
  <2>3. t[4].kind \in {"quoted"}
    BY <1>3, <2>1
  <2>4. 2 \in places
    BY <1>3, <2>2, <2>3
  <2>5. 1 \notin places
    BY <1>3, <1>5
  <2>6. places \in SUBSET (1 .. Len(t) - 2)
    OBVIOUS
  <2>7. Behind(t, "stream", {"quoted"}) =
          IF places = {} THEN Plain("") ELSE t[Min(places) + 2]
    BY Zenon DEF Behind
  <2> HIDE DEF places
  <2>8. \A i \in places : i \in Int /\ 2 <= i
    BY <1>2, <2>5, <2>6
  <2>9. Min(places) = 2
    <3>1. \A x \in places : (\A y \in places : x <= y) => x = 2
      BY <2>4, <2>8
    <3>2. QED
      BY <2>4, <2>8, <3>1 DEF Min
  <2>10. Behind(t, "stream", {"quoted"}) = t[4]
    <3>1. places # {} /\ Min(places) + 2 = 4
      BY <2>4, <2>9
    <3>2. QED
      BY <2>7, <3>1, Zenon
  <2>11. QED
    BY <1>3, <2>1, <2>10 DEF QuotedValue
<1>10. 4 \in DOMAIN t /\ t[4].text = StreamOf(message)
  <2>1. 4 \in 1 .. Len(t) /\ DOMAIN t = 1 .. Len(t)
    BY <1>2
  <2>2. Quoted(StreamOf(message)).text = StreamOf(message)
    BY DEF Quoted
  <2>3. QED
    BY <1>3, <2>1, <2>2, Zenon
<1>11. QED
  BY <1>8, <1>9, <1>10

(* A depth message is known by its stream, and is of its symbol.           *)
LEMMA DepthIsKnown ==
  ASSUME NEW message, message.event = "depth", message.sym \in {"btc", "eth"},
         message.bids \in Seq(Written), message.asks \in Seq(Written)
  PROVE  StreamType(Text(message)) = "DEPTH" /\ SymbolOf(Text(message)) = message.sym
<1> DEFINE T == DepthTokens(message)
           t == Text(message)
<1>1. t \in Seq(T) /\ Stands(Envelope(message), t, 0)
  BY DepthText
<1>2. /\ StreamOf(message) \in Containing["depth"] /\ StreamOf(message) \notin Containing["trade"]
      /\ StreamOf(message) \notin Keys
      /\ StreamOf(message) \in Containing["eth"] <=> message.sym = "eth"
  BY DepthStreams
<1> HIDE DEF t
<1>3. /\ QuotedValue(t, "stream") = StreamOf(message)
      /\ 4 \in DOMAIN t /\ t[4].text = StreamOf(message)
  BY <1>1, <1>2, DataOfStream
<1>4. \A x \in T : x.text \notin Containing["trade"]
  <2>1. /\ Mark("{").text = "{" /\ Mark("}").text = "}" /\ Mark(":").text = ":"
        /\ Quoted("stream").text = "stream" /\ Quoted("data").text = "data"
        /\ Quoted("lastUpdateId").text = "lastUpdateId" /\ Plain("7").text = "7"
        /\ Quoted("bids").text = "bids" /\ Quoted("asks").text = "asks"
        /\ Quoted(StreamOf(message)).text = StreamOf(message)
    BY DEF Mark, Quoted, Plain
  <2>2. ASSUME NEW x \in T, x \notin LevelTokens
        PROVE  x.text \in {"{", "}", ":", "stream", "data", "lastUpdateId", "7",
                           "bids", "asks", StreamOf(message)}
    BY <2>1, <2>2, Zenon DEF DepthTokens
  <2>3. \A s \in {"{", "}", ":", "stream", "data", "lastUpdateId", "7", "bids", "asks"} :
          s \notin Containing["trade"]
    BY DEF Containing
  <2>4. QED
    BY <1>2, <2>2, <2>3, LevelsAreOfNoStream, Zenon
<1>5. \A i \in DOMAIN t : t[i].text \notin Containing["trade"]
  <2>1. \A i \in DOMAIN t : t[i] \in T
    BY <1>1
  <2>2. QED
    BY <1>4, <2>1, Zenon
<1>6. StreamType(t) = "DEPTH"
  BY <1>2, <1>3, <1>5, Zenon DEF StreamType
<1>7. SymbolOf(t) = message.sym
  BY <1>2, <1>3, Zenon DEF SymbolOf
<1>8. QED
  BY <1>6, <1>7 DEF t


(* Each of the two lists of a depth message is found under its key.        *)
LEMMA ListsAreFound ==
  ASSUME NEW message, message.event = "depth", message.sym \in {"btc", "eth"},
         message.bids \in Seq(Written), message.asks \in Seq(Written)
  PROVE  /\ ListOf(Data(Text(message)), "bids") = Levels(message.bids)
         /\ ListOf(Data(Text(message)), "asks") = Levels(message.asks)
<1> DEFINE T == DepthTokens(message)
           t == Text(message)
           d == SubSeq(t, 6, Len(t))
           LB == Levels(message.bids)
           LA == Levels(message.asks)
           b == Len(LB)
           X == T \ {Quoted("bids"), Quoted("asks")}
           Y == T \ {Quoted("asks")}
<1>1. t \in Seq(T)
  BY DepthText
<1>2. /\ Stands(Envelope(message), t, 0) /\ Stands(LastUpdate, t, 8)
      /\ Stands(KeyOf("bids"), t, 12) /\ Stands(LB, t, 14)
      /\ Stands(Comma, t, 14 + b)
      /\ Stands(KeyOf("asks"), t, 15 + b) /\ Stands(LA, t, 17 + b)
  BY DepthText
<1>3. LB \in Seq(LevelTokens) /\ b \in Nat /\ LA \in Seq(LevelTokens)
  BY LevelsTyped
<1>4. StreamOf(message) \notin Keys
  BY DepthStreams
<1>5. "bids" \in Keys /\ "asks" \in Keys
  BY DEF Keys
<1>6. Quoted(StreamOf(message)) # Quoted("bids") /\ Quoted(StreamOf(message)) # Quoted("asks")
  <2>1. \A s, u : Quoted(s) = Quoted(u) => s = u
    BY DEF Quoted
  <2>2. QED
    BY <1>4, <1>5, <2>1, Zenon
<1>7. \A x \in {Mark("{"), Mark(":"), Mark(","), Quoted("stream"), Quoted("data"),
                Quoted("lastUpdateId"), Plain("7")} :
        x # Quoted("bids") /\ x # Quoted("asks")
  <2>1. /\ Mark("{").text = "{" /\ Mark(":").text = ":" /\ Mark(",").text = ","
        /\ Quoted("stream").text = "stream" /\ Quoted("data").text = "data"
        /\ Quoted("lastUpdateId").text = "lastUpdateId" /\ Plain("7").text = "7"
        /\ Quoted("bids").text = "bids" /\ Quoted("asks").text = "asks"
    BY DEF Mark, Quoted, Plain
  <2>2. \A s \in {"{", ":", ",", "stream", "data", "lastUpdateId", "7"} :
          s # "bids" /\ s # "asks"
    OBVIOUS
  <2>3. QED
    BY <2>1, <2>2, Zenon
<1>8. /\ Mark("{") \in X /\ Mark(":") \in X /\ Mark(",") \in X /\ Quoted("stream") \in X
      /\ Quoted("data") \in X /\ Quoted("lastUpdateId") \in X /\ Plain("7") \in X
      /\ Quoted(StreamOf(message)) \in X
  BY <1>6, <1>7, Zenon DEF DepthTokens, LevelTokens
<1>9. Quoted("bids") \in Y
  <2>1. Quoted("bids") # Quoted("asks")
    BY DEF Quoted
  <2>2. QED
    BY <2>1, Zenon DEF DepthTokens
<1>10. X \subseteq Y /\ Quoted("bids") \notin X /\ Quoted("asks") \notin Y
  OBVIOUS
<1>11. LevelTokens \subseteq Y
  <2>1. LevelTokens \subseteq T
    BY Zenon DEF DepthTokens
  <2>2. QED
    BY <2>1, LevelsAreOfNoStream, Zenon
<1> HIDE DEF T, t, LB, LA, b, X, Y
<1>12. Data(t) = d
  BY <1>1, <1>2, <1>4, DataOfStream
<1>13. d \in Seq(T)
  BY <1>1, SubSeqProperties, TokenOf
<1>14. Envelope(message) \in Seq(X) /\ Len(Envelope(message)) = 8
  BY <1>8, EightTokens DEF Envelope
<1>15. LastUpdate \in Seq(X) /\ Len(LastUpdate) = 4
  BY <1>8, FourTokens DEF LastUpdate
<1>16. \A j \in 1 .. 8 : t[j] \in X
  <2>1. \A j \in 0 + 1 .. 0 + Len(Envelope(message)) : t[j] \in X
    BY <1>2, <1>14, Within
  <2>2. QED
    BY <1>14, <2>1
<1>17. \A j \in 9 .. 12 : t[j] \in X
  <2>1. \A j \in 8 + 1 .. 8 + Len(LastUpdate) : t[j] \in X
    BY <1>2, <1>15, Within
  <2>2. QED
    BY <1>15, <2>1
<1>18. KeyOf("bids") \in Seq(Y) /\ Len(KeyOf("bids")) = 2
  <2>1. Mark(":") \in Y
    BY <1>8, <1>10
  <2>2. QED
    BY <1>9, <2>1, TwoTokens DEF KeyOf
<1>19. \A j \in 13 .. 14 : t[j] \in Y
  <2>1. t[13] = Quoted("bids") /\ t[14] = Mark(":")
    BY <1>2, <1>18 DEF Stands, KeyOf
  <2>2. Quoted("bids") \in Y /\ Mark(":") \in Y
    BY <1>8, <1>9, <1>10
  <2>3. t[13] \in Y /\ t[14] \in Y
    BY <2>1, <2>2, Zenon
  <2>4. QED
    BY <2>3
<1>20. LB \in Seq(Y)
  BY <1>3, <1>11, SeqMonotonic
<1>21. \A j \in 15 .. 14 + b : t[j] \in Y
  BY <1>2, <1>20, Within DEF b
<1>22. Comma \in Seq(Y) /\ Len(Comma) = 1
  <2>1. Mark(",") \in Y
    BY <1>8, <1>10
  <2>2. QED
    BY <2>1, OneToken DEF Comma
<1>23. t[15 + b] \in Y
  <2>1. 14 + b \in Nat /\ 15 + b \in (14 + b) + 1 .. (14 + b) + 1
    BY <1>3
  <2>2. \A j \in (14 + b) + 1 .. (14 + b) + Len(Comma) : t[j] \in Y
    BY <1>2, <1>22, <2>1, Within
  <2>3. QED
    BY <1>22, <2>1, <2>2
<1>24. t[13] = Quoted("bids") /\ t[14] = Mark(":")
  BY <1>2, <1>18 DEF Stands, KeyOf
<1>25. t[16 + b] = Quoted("asks") /\ t[17 + b] = Mark(":")
  BY <1>2, <1>3 DEF Stands, KeyOf
<1>26. Len(t) \in Nat /\ Len(t) >= 17 + b
  <2>1. Len(t) \in Nat /\ Len(LA) \in Nat
    BY <1>1, <1>3
  <2>2. (17 + b) + Len(LA) <= Len(t)
    BY <1>2 DEF Stands
  <2>3. QED
    BY <1>3, <2>1, <2>2
<1>27. \A i \in 1 .. 12 + b : d[i] = t[i + 5]
  <2>1. \A i \in 6 .. Len(t) : t[i] \in T
    BY <1>1, TokenOf
  <2>2. 6 \in Int /\ Len(t) \in Int
    BY <1>26
  <2>3. \A i \in 1 .. Len(t) - 6 + 1 : d[i] = t[6 + i - 1]
    BY <2>1, <2>2, SubSeqProperties
  <2> HIDE DEF d
  <2>4. \A i \in 1 .. 12 + b : i \in 1 .. Len(t) - 6 + 1 /\ 6 + i - 1 = i + 5
    BY <1>3, <1>26
  <2>5. QED
    BY <2>3, <2>4
<1>28. Stands(LB, d, 9) /\ Stands(LA, d, 12 + b)
  <2>1. 5 + 1 = 6 /\ 14 - 5 = 9 /\ (17 + b) - 5 = 12 + b /\ 5 \in 0 .. 14
        /\ 5 \in 0 .. 17 + b /\ 17 + b \in Nat
    BY <1>3
  <2>2. Stands(LB, SubSeq(t, 5 + 1, Len(t)), 14 - 5)
    BY <1>1, <1>2, <1>3, <2>1, StandsBehind
  <2>3. Stands(LA, SubSeq(t, 5 + 1, Len(t)), (17 + b) - 5)
    BY <1>1, <1>2, <1>3, <2>1, StandsBehind
  <2>4. QED
    BY <2>1, <2>2, <2>3
<1> HIDE DEF d
<1>29. ListOf(d, "bids") = LB
  <2>1. d[9 - 1] = Quoted("bids") /\ d[9] = Mark(":")
    BY <1>3, <1>24, <1>27
  <2>2. \A j \in 1 .. 9 - 2 : d[j] \in X
    <3>1. \A j \in 1 .. 9 - 2 : /\ j \in 1 .. 12 + b
                                /\ (j + 5 \in 1 .. 8 \/ j + 5 \in 9 .. 12)
      BY <1>3
    <3>2. QED
      BY <1>16, <1>17, <1>27, <3>1
  <2>3. \A j \in 1 .. 9 - 2 : d[j] # Quoted("bids")
    BY <1>10, <2>2, Zenon
  <2>4. 9 \in Nat \ {0, 1}
    OBVIOUS
  <2>5. QED
    BY <1>13, <1>28, <2>1, <2>3, <2>4, ListOfFound DEF LB
<1>30. ListOf(d, "asks") = LA
  <2> DEFINE o == 12 + b
  <2>1. o \in Nat \ {0, 1} /\ o - 1 = 11 + b /\ o - 2 = 10 + b
    BY <1>3
  <2>2. d[o - 1] = Quoted("asks") /\ d[o] = Mark(":")
    <3>1. d[11 + b] = t[(11 + b) + 5] /\ d[12 + b] = t[(12 + b) + 5]
      BY <1>3, <1>27
    <3>2. (11 + b) + 5 = 16 + b /\ (12 + b) + 5 = 17 + b
      BY <1>3
    <3>3. QED
      BY <1>25, <2>1, <3>1, <3>2
  <2>3. \A j \in 1 .. o - 2 : d[j] \in Y
    <3>1. ASSUME NEW j \in 1 .. 10 + b PROVE d[j] \in Y
      <4>1. j \in 1 .. 12 + b
        BY <1>3
      <4>2. \/ j + 5 \in 1 .. 8 \/ j + 5 \in 9 .. 12 \/ j + 5 \in 13 .. 14
            \/ j + 5 \in 15 .. 14 + b \/ j + 5 = 15 + b
        BY <1>3
      <4>3. t[j + 5] \in Y
        BY <4>2, <1>10, <1>16, <1>17, <1>19, <1>21, <1>23
      <4>4. QED
        BY <1>27, <4>1, <4>3
    <3>2. QED
      BY <2>1, <3>1
  <2>4. \A j \in 1 .. o - 2 : d[j] # Quoted("asks")
    BY <1>10, <2>3, Zenon
  <2>5. Stands(LA, d, o)
    BY <1>28
  <2> HIDE DEF o
  <2>6. QED
    BY <1>13, <2>1, <2>2, <2>4, <2>5, ListOfFound DEF LA
<1>31. QED
  BY <1>12, <1>29, <1>30 DEF t, LB, LA

(* The prices a depth message is read to tell are those it lists first.    *)
LEMMA DepthIsRead ==
  ASSUME NEW message, message.event = "depth", message.sym \in {"btc", "eth"},
         message.bids \in Seq(Written), message.asks \in Seq(Written)
  PROVE  LET depth == ParseDepth(Text(message))
         IN  /\ depth.bid = Best(message.bids) /\ depth.ask = Best(message.asks)
             /\ depth.valid = (Best(message.bids) > 0 /\ Best(message.asks) > 0)
<1> DEFINE B == FirstLevel(ListOf(Data(Text(message)), "bids"))
           A == FirstLevel(ListOf(Data(Text(message)), "asks"))
           depth == ParseDepth(Text(message))
<1>1. B.price = Best(message.bids) /\ A.price = Best(message.asks)
  BY ListsAreFound, BestIsRead
<1>2. depth.bid = B.price /\ depth.ask = A.price
  BY DEF ParseDepth
<1>3. depth.valid = (B.price > 0 /\ A.price > 0)
  BY Zenon DEF ParseDepth
<1> HIDE DEF B, A, depth
<1>4. QED
  BY <1>1, <1>2, <1>3, Zenon DEF depth

(* The tokens of a trade message.                                          *)
TradeTokens(message) ==
  {Mark("{"), Mark("}"), Mark(":"), Mark(","), Quoted("stream"), Quoted("data"),
   Quoted(StreamOf(message)), Quoted("e"), Quoted("trade"), Quoted("E"), Plain("9"),
   Quoted("p"), Quoted(Numeral[message.price]), Quoted("q"), Quoted(Numeral[message.size]),
   Quoted("T"), Plain("8"), Quoted("m"), Plain("true")}

(* The tokens of a mark-price message.                                     *)
MarkPriceTokens(message) ==
  {Mark("{"), Mark("}"), Mark(":"), Mark(","), Quoted("stream"), Quoted("data"),
   Quoted(StreamOf(message)), Quoted("e"), Quoted("markPriceUpdate"), Quoted("E"),
   Plain("9"), Quoted("p"), Quoted("5"), Quoted("P"), Quoted("6"), Quoted("r"),
   Quoted(Numeral[message.rate]), Quoted("T"), Plain("8")}

(* The tokens of an answer.                                                *)
AnswerTokens ==
  {Mark("{"), Mark("}"), Mark(":"), Mark(","), Quoted("result"), Plain("null"),
   Quoted("id"), Plain("1")}

(* A pair is written in the tokens of its parts.                           *)
LEMMA PairTyped ==
  ASSUME NEW T, NEW key, NEW value, Quoted(key) \in T, Mark(":") \in T, value \in T
  PROVE  Pair(key, value) \in Seq(T)
  BY ThreeTokens DEF Pair

(* One text behind another is written in the tokens of both.               *)
LEMMA JoinTyped ==
  ASSUME NEW T, NEW s \in Seq(T), NEW t \in Seq(T)
  PROVE  s \o t \in Seq(T)
  BY ConcatProperties

(* The name of the stream stands in the text of its message.               *)
LEMMA StreamIsNamed ==
  ASSUME NEW T, NEW message, message.event # "answer", Event(message) \in Seq(T),
         StreamOf(message) \notin Keys,
         Mark("{") \in T, Mark("}") \in T, Mark(":") \in T, Mark(",") \in T,
         Quoted("stream") \in T, Quoted("data") \in T, Quoted(StreamOf(message)) \in T
  PROVE  /\ Text(message) \in Seq(T)
         /\ 4 \in DOMAIN Text(message) /\ Text(message)[4].text = StreamOf(message)
<1> DEFINE rest == Event(message) \o Braces
           t == Text(message)
<1>1. Envelope(message) \in Seq(T)
  BY EightTokens DEF Envelope
<1>2. Braces \in Seq(T)
  BY TwoTokens DEF Braces
<1>3. rest \in Seq(T)
  BY <1>2, JoinTyped
<1>4. t = Envelope(message) \o rest
  BY Zenon DEF Text, Braces
<1> HIDE DEF rest, t
<1>5. t \in Seq(T)
  BY <1>1, <1>3, <1>4, JoinTyped
<1>6. Stands(Envelope(message) \o rest, t, 0)
  BY <1>4, <1>5, StandsInItself
<1>7. Stands(Envelope(message), t, 0)
  BY <1>1, <1>3, <1>6, Placed
<1>8. 4 \in DOMAIN t /\ t[4].text = StreamOf(message)
  BY <1>5, <1>7, DataOfStream
<1>9. QED
  BY <1>5, <1>8 DEF t

(* A message is of no depth stream when nothing in it says so.             *)
LEMMA NoDepth ==
  ASSUME NEW t,
         \A i \in DOMAIN t : t[i].text \notin Containing["depth"],
         \/ \E i \in DOMAIN t : t[i].text \in Containing["markPrice"]
         \/ First(t, 1, {Quoted("lastUpdateId")}) = 0
  PROVE  StreamType(t) # "DEPTH"
<1>1. "TRADE" # "DEPTH" /\ "FUNDING" # "DEPTH" /\ "UNKNOWN" # "DEPTH"
  OBVIOUS
<1>2. QED
  BY <1>1, Zenon DEF StreamType

(* A trade message is of no depth stream.                                  *)
LEMMA TradeIsNoDepth ==
  ASSUME NEW message, message.event = "trade", message.sym \in {"btc", "eth"}
  PROVE  StreamType(Text(message)) # "DEPTH"
<1> DEFINE T == TradeTokens(message)
<1>1. StreamOf(message) \in Containing["trade"] /\ StreamOf(message) \notin Keys
  <2>1. CASE message.sym = "btc"
    <3>1. StreamOf(message) = "btcusdt@trade"
      BY <2>1 DEF StreamOf
    <3>2. QED
      BY <3>1 DEF Containing, Keys
  <2>2. CASE message.sym = "eth"
    <3>1. StreamOf(message) = "ethusdt@trade"
      BY <2>2 DEF StreamOf
    <3>2. QED
      BY <3>1 DEF Containing, Keys
  <2>3. QED
    BY <2>1, <2>2
<1>2. /\ Mark("{") \in T /\ Mark("}") \in T /\ Mark(":") \in T /\ Mark(",") \in T
      /\ Quoted("stream") \in T /\ Quoted("data") \in T /\ Quoted(StreamOf(message)) \in T
  BY Zenon DEF TradeTokens
<1>3. /\ Quoted("e") \in T /\ Quoted("trade") \in T /\ Quoted("E") \in T
      /\ Plain("9") \in T /\ Quoted("p") \in T /\ Quoted(Numeral[message.price]) \in T
      /\ Quoted("q") \in T /\ Quoted(Numeral[message.size]) \in T /\ Quoted("T") \in T
      /\ Plain("8") \in T /\ Quoted("m") \in T /\ Plain("true") \in T
  BY Zenon DEF TradeTokens
<1> HIDE DEF T
<1>4. /\ Pair("e", Quoted("trade")) \in Seq(T) /\ Pair("E", Plain("9")) \in Seq(T)
      /\ Pair("p", Quoted(Numeral[message.price])) \in Seq(T)
      /\ Pair("q", Quoted(Numeral[message.size])) \in Seq(T)
      /\ Pair("T", Plain("8")) \in Seq(T) /\ Pair("m", Plain("true")) \in Seq(T)
  BY <1>2, <1>3, PairTyped
<1>5. Comma \in Seq(T)
  BY <1>2, OneToken DEF Comma
<1>6. Event(message) =
        Pair("e", Quoted("trade")) \o Comma \o Pair("E", Plain("9"))
          \o Comma \o Pair("p", Quoted(Numeral[message.price]))
          \o Comma \o Pair("q", Quoted(Numeral[message.size]))
          \o Comma \o Pair("T", Plain("8")) \o Comma \o Pair("m", Plain("true"))
  BY Zenon DEF Event
<1>7. Event(message) \in Seq(T)
  BY <1>4, <1>5, <1>6, JoinTyped
<1>8. 4 \in DOMAIN Text(message) /\ Text(message)[4].text = StreamOf(message)
  BY <1>1, <1>2, <1>7, StreamIsNamed
<1>9. \E i \in DOMAIN Text(message) : Text(message)[i].text \in Containing["trade"]
  BY <1>1, <1>8, Zenon
<1>10. StreamType(Text(message)) = "TRADE"
  BY <1>9, Zenon DEF StreamType
<1>11. QED
  BY <1>10

(* A mark-price message is of no depth stream, whatever rate it tells.     *)
LEMMA MarkPriceIsNoDepth ==
  ASSUME NEW message, message.event = "markPrice", message.sym = "btc", message.rate \in Written
  PROVE  StreamType(Text(message)) # "DEPTH"
<1> DEFINE T == MarkPriceTokens(message)
           t == Text(message)
<1>1. StreamOf(message) = "btcusdt@markPrice@1s"
  BY DEF StreamOf
<1>2. /\ StreamOf(message) \in Containing["markPrice"] /\ StreamOf(message) \notin Keys
      /\ StreamOf(message) \notin Containing["depth"]
  BY <1>1 DEF Containing, Keys
<1>3. /\ Mark("{") \in T /\ Mark("}") \in T /\ Mark(":") \in T /\ Mark(",") \in T
      /\ Quoted("stream") \in T /\ Quoted("data") \in T /\ Quoted(StreamOf(message)) \in T
  BY Zenon DEF MarkPriceTokens
<1>4. /\ Quoted("e") \in T /\ Quoted("markPriceUpdate") \in T /\ Quoted("E") \in T
      /\ Plain("9") \in T /\ Quoted("p") \in T /\ Quoted("5") \in T
      /\ Quoted("P") \in T /\ Quoted("6") \in T /\ Quoted("r") \in T
      /\ Quoted(Numeral[message.rate]) \in T /\ Quoted("T") \in T /\ Plain("8") \in T
  BY Zenon DEF MarkPriceTokens
<1>5. \A x \in T : x.text \notin Containing["depth"]
  <2>1. /\ Mark("{").text = "{" /\ Mark("}").text = "}" /\ Mark(":").text = ":"
        /\ Mark(",").text = "," /\ Quoted("stream").text = "stream"
        /\ Quoted("data").text = "data" /\ Quoted("e").text = "e"
        /\ Quoted("markPriceUpdate").text = "markPriceUpdate" /\ Quoted("E").text = "E"
        /\ Plain("9").text = "9" /\ Quoted("p").text = "p" /\ Quoted("5").text = "5"
        /\ Quoted("P").text = "P" /\ Quoted("6").text = "6" /\ Quoted("r").text = "r"
        /\ Quoted("T").text = "T" /\ Plain("8").text = "8"
        /\ Quoted(StreamOf(message)).text = StreamOf(message)
        /\ Quoted(Numeral[message.rate]).text = Numeral[message.rate]
    BY DEF Mark, Quoted, Plain
  <2>2. \A x \in T : x.text \in {"{", "}", ":", ",", "stream", "data", "e",
                                 "markPriceUpdate", "E", "9", "p", "5", "P", "6", "r",
                                 "T", "8", StreamOf(message), Numeral[message.rate]}
    BY <2>1, Zenon DEF MarkPriceTokens
  <2>3. \A s \in {"{", "}", ":", ",", "stream", "data", "e", "markPriceUpdate", "E",
                  "9", "p", "5", "P", "6", "r", "T", "8"} : s \notin Containing["depth"]
    BY DEF Containing
  <2>4. Numeral[message.rate] \notin Containing["depth"]
    <3>1. Containing["depth"] \subseteq Names
      BY DEF Names, Containing
    <3>2. QED
      BY <3>1, NumeralAssumption, Zenon
  <2>5. QED
    BY <1>2, <2>2, <2>3, <2>4, Zenon
<1> HIDE DEF T
<1>6. /\ Pair("e", Quoted("markPriceUpdate")) \in Seq(T) /\ Pair("E", Plain("9")) \in Seq(T)
      /\ Pair("p", Quoted("5")) \in Seq(T) /\ Pair("P", Quoted("6")) \in Seq(T)
      /\ Pair("r", Quoted(Numeral[message.rate])) \in Seq(T)
      /\ Pair("T", Plain("8")) \in Seq(T)
  BY <1>3, <1>4, PairTyped
<1>7. Comma \in Seq(T)
  BY <1>3, OneToken DEF Comma
<1>8. Event(message) =
        Pair("e", Quoted("markPriceUpdate")) \o Comma \o Pair("E", Plain("9"))
          \o Comma \o Pair("p", Quoted("5")) \o Comma \o Pair("P", Quoted("6"))
          \o Comma \o Pair("r", Quoted(Numeral[message.rate]))
          \o Comma \o Pair("T", Plain("8"))
  BY Zenon DEF Event
<1>9. Event(message) \in Seq(T)
  BY <1>6, <1>7, <1>8, JoinTyped
<1>10. t \in Seq(T) /\ 4 \in DOMAIN t /\ t[4].text = StreamOf(message)
  BY <1>2, <1>3, <1>9, StreamIsNamed
<1> HIDE DEF t
<1>11. \A i \in DOMAIN t : t[i].text \notin Containing["depth"]
  <2>1. \A i \in DOMAIN t : t[i] \in T
    BY <1>10
  <2>2. QED
    BY <1>5, <2>1, Zenon
<1>12. \E i \in DOMAIN t : t[i].text \in Containing["markPrice"]
  BY <1>2, <1>10, Zenon
<1>13. StreamType(t) # "DEPTH"
  BY <1>11, <1>12, NoDepth
<1>14. QED
  BY <1>13 DEF t

(* Nor is the answer to the subscription.                                  *)
LEMMA AnswerIsNoDepth ==
  ASSUME NEW message, message.event = "answer"
  PROVE  StreamType(Text(message)) # "DEPTH"
<1> DEFINE T == AnswerTokens
           t == Text(message)
<1>1. t = <<Mark("{"), Quoted("result"), Mark(":"), Plain("null"), Mark(","),
            Quoted("id"), Mark(":"), Plain("1"), Mark("}")>>
  BY Zenon DEF Text
<1>2. /\ Mark("{") \in T /\ Mark("}") \in T /\ Mark(":") \in T /\ Mark(",") \in T
      /\ Quoted("result") \in T /\ Plain("null") \in T /\ Quoted("id") \in T
      /\ Plain("1") \in T
  BY Zenon DEF AnswerTokens
<1>3. \A x \in T : x.text \notin Containing["depth"] /\ x # Quoted("lastUpdateId")
  <2>1. /\ Mark("{").text = "{" /\ Mark("}").text = "}" /\ Mark(":").text = ":"
        /\ Mark(",").text = "," /\ Quoted("result").text = "result"
        /\ Plain("null").text = "null" /\ Quoted("id").text = "id"
        /\ Plain("1").text = "1" /\ Quoted("lastUpdateId").text = "lastUpdateId"
    BY DEF Mark, Quoted, Plain
  <2>2. \A x \in T : x.text \in {"{", "}", ":", ",", "result", "null", "id", "1"}
    BY <2>1, Zenon DEF AnswerTokens
  <2>3. \A s \in {"{", "}", ":", ",", "result", "null", "id", "1"} :
          s \notin Containing["depth"] /\ s # "lastUpdateId"
    BY DEF Containing
  <2>4. QED
    BY <2>1, <2>2, <2>3, Zenon
<1> HIDE DEF T, t
<1>4. t \in Seq(T)
  BY <1>1, <1>2, NineTokens
<1>5. DOMAIN t = 1 .. Len(t) /\ \A i \in DOMAIN t : t[i] \in T
  BY <1>4
<1>6. First(t, 1, {Quoted("lastUpdateId")}) = 0
  <2>1. \A i \in 1 .. Len(t) : t[i] \notin {Quoted("lastUpdateId")}
    BY <1>3, <1>5, Zenon
  <2>2. QED
    BY <2>1, FirstNone
<1>7. \A i \in DOMAIN t : t[i].text \notin Containing["depth"]
  BY <1>3, <1>5, Zenon
<1>8. StreamType(t) # "DEPTH"
  BY <1>6, <1>7, NoDepth
<1>9. QED
  BY <1>8 DEF t

(* Only the messages of the depth streams are taken for such, and what is  *)
(* read of them is the symbol and the best prices they tell.               *)
LEMMA DepthHeard ==
  ASSUME NEW h \in Heard, h.read.stream = "DEPTH"
  PROVE  /\ h.message.event = "depth" /\ h.message.sym \in Symbols
         /\ h.message.bids \in Seq(Positive) /\ h.message.asks \in Seq(Positive)
         /\ h.read.sym = h.message.sym
         /\ h.read.depth.bid = Best(h.message.bids)
         /\ h.read.depth.ask = Best(h.message.asks)
         /\ h.read.depth.valid =
              (Best(h.message.bids) > 0 /\ Best(h.message.asks) > 0)
<1> DEFINE A == [event : {"trade"}, sym : Symbols, price : Prices, size : {1}]
           B == [event : {"markPrice"}, sym : {"btc"}, rate : Rates]
           C == [event : {"answer"}]
           D == DepthMessages
<1>1. PICK m \in Messages : h = [message |-> m, read |-> Read(Text(m))]
  BY Zenon DEF Heard
<1>2. h.message = m /\ h.read = Read(Text(m))
  BY <1>1
<1>3. /\ h.read.stream = StreamType(Text(m)) /\ h.read.sym = SymbolOf(Text(m))
      /\ h.read.depth = ParseDepth(Text(m))
  BY <1>2 DEF Read
<1>4. CASE m \in A
  <2>1. m.event = "trade" /\ m.sym \in {"btc", "eth"}
    BY <1>4 DEF Symbols
  <2>2. QED
    BY <1>3, <2>1, TradeIsNoDepth
<1>5. CASE m \in B
  <2>1. m.event = "markPrice" /\ m.sym = "btc" /\ m.rate \in Rates
    BY <1>5
  <2>2. m.rate \in Written
    BY <2>1, InputAssumption
  <2>3. QED
    BY <1>3, <2>1, <2>2, MarkPriceIsNoDepth
<1>6. CASE m \in C
  <2>1. m.event = "answer"
    BY <1>6
  <2>2. QED
    BY <1>3, <2>1, AnswerIsNoDepth
<1>7. CASE m \in D
  <2>1. PICK sym \in Symbols, d \in Depths :
          m = [event |-> "depth", sym |-> sym, bids |-> d.bids, asks |-> d.asks]
    BY <1>7 DEF DepthMessages
  <2>2. m.event = "depth" /\ m.sym = sym /\ m.bids = d.bids /\ m.asks = d.asks
    BY <2>1
  <2>3. d \in [bids : Seq(Positive), asks : Seq(Positive)]
    BY InputAssumption, Zenon
  <2>4. m.bids \in Seq(Positive) /\ m.asks \in Seq(Positive)
    BY <2>2, <2>3
  <2>5. Positive \subseteq Written
    BY DEF Positive
  <2>6. m.bids \in Seq(Written) /\ m.asks \in Seq(Written)
    BY <2>4, <2>5, SeqMonotonic
  <2>7. m.sym \in {"btc", "eth"} /\ m.sym \in Symbols
    BY <2>2, Zenon DEF Symbols
  <2>8. SymbolOf(Text(m)) = m.sym
    BY <2>2, <2>6, <2>7, DepthIsKnown
  <2>9. /\ ParseDepth(Text(m)).bid = Best(m.bids)
        /\ ParseDepth(Text(m)).ask = Best(m.asks)
        /\ ParseDepth(Text(m)).valid = (Best(m.bids) > 0 /\ Best(m.asks) > 0)
    BY <2>2, <2>6, <2>7, DepthIsRead
  <2>10. QED
    BY <1>2, <1>3, <2>2, <2>4, <2>7, <2>8, <2>9, Zenon
<1>8. \/ m \in A \/ m \in B \/ m \in C \/ m \in D
  <2>1. Messages = A \union D \union B \union C
    BY Zenon DEF Messages
  <2>2. m \in Messages
    BY <1>1
  <2> HIDE DEF A, B, C, D
  <2>3. QED
    BY <2>1, <2>2, Zenon
<1> HIDE DEF A, B, C, D
<1>9. QED
  BY <1>4, <1>5, <1>6, <1>7, <1>8

(* A list has a best price that is one when it has a level.                *)
LEMMA BestIsPositive ==
  ASSUME NEW prices \in Seq(Positive)
  PROVE  (Best(prices) > 0) <=> prices # <<>>
<1>1. CASE prices = <<>>
  BY <1>1 DEF Best
<1>2. CASE prices # <<>>
  <2>1. prices[1] \in Positive
    BY <1>2
  <2>2. prices[1] > 0
    BY <2>1 DEF Positive
  <2>3. QED
    BY <1>2, <2>2 DEF Best
<1>3. QED
  BY <1>1, <1>2

(* A book holds both sides of the last message that told both: what is     *)
(* read of a message are the best prices of its two lists, however long    *)
(* they are and however its numbers are written, and no other message is   *)
(* taken for one of a book.                                                *)
THEOREM BooksAreOfOneMessage == Spec => []BookIsOfOneMessage
<1>1. Init => BookIsOfOneMessage
  BY DEF Init, BookIsOfOneMessage
<1>2. TypeOK /\ BookIsOfOneMessage /\ [Next]_vars => BookIsOfOneMessage'
  <2> SUFFICES ASSUME TypeOK, BookIsOfOneMessage, [Next]_vars
               PROVE  BookIsOfOneMessage'
    OBVIOUS
  <2> USE DEF BookIsOfOneMessage
  <2>1. ASSUME NEW h \in Heard, Depth(h.message, h.read) PROVE book' = told'
    <3> DEFINE m == h.message
               best == [bid |-> Best(m.bids), ask |-> Best(m.asks)]
               full == m.bids # <<>> /\ m.asks # <<>>
    <3>1. h.read.stream = "DEPTH"
      BY <2>1 DEF Depth
    <3>2. /\ m.event = "depth" /\ m.sym \in Symbols
          /\ m.bids \in Seq(Positive) /\ m.asks \in Seq(Positive)
          /\ h.read.sym = m.sym
          /\ h.read.depth.bid = Best(m.bids) /\ h.read.depth.ask = Best(m.asks)
          /\ h.read.depth.valid = (Best(m.bids) > 0 /\ Best(m.asks) > 0)
      BY <3>1, DepthHeard
    <3>3. (Best(m.bids) > 0 /\ Best(m.asks) > 0) <=> full
      BY <3>2, BestIsPositive
    <3>4. BookAfter(book[m.sym], h.read.depth) = IF full THEN best ELSE book[m.sym]
      <4>1. h.read.depth.valid <=> full
        BY <3>2, <3>3, Zenon
      <4>2. QED
        BY <3>2, <4>1, Zenon DEF BookAfter
    <3>5. book' = [book EXCEPT ![m.sym] = BookAfter(book[m.sym], h.read.depth)]
      BY <2>1, <3>2 DEF Depth
    <3>6. full => best = [bid |-> m.bids[1], ask |-> m.asks[1]]
      BY DEF Best
    <3>7. told' = IF full THEN [told EXCEPT ![m.sym] = best] ELSE told
      BY <2>1, <3>2, <3>6, Zenon DEF Depth
    <3>8. book \in [Symbols -> Tops]
      BY DEF TypeOK
    <3> HIDE DEF m, best, full
    <3>9. QED
      BY <3>2, <3>4, <3>5, <3>7, <3>8
  <2>2. ASSUME NEW h \in Heard, Trade(h.read) \/ Funding(h.read) PROVE book' = told'
    BY <2>2 DEF Trade, Funding
  <2>3. ASSUME NEW price \in Prices, Replay(price) PROVE book' = told'
    BY <2>3 DEF Replay
  <2>4. ASSUME NEW s \in Strategies \union {All}, Swap(s) PROVE book' = told'
    BY <2>4 DEF Swap, feedVars
  <2>5. CASE StrategyStep
    BY <2>5 DEF StrategyStep, PopTick, Skip, Hold, Emit, strategyOnly, feedVars
  <2>6. CASE Execute
    BY <2>6 DEF Execute, feedVars
  <2>7. CASE UNCHANGED vars
    BY <2>7 DEF vars, feedVars
  <2>8. QED
    BY <2>1, <2>2, <2>3, <2>4, <2>5, <2>6, <2>7, Zenon DEF Next, Feed
<1>3. QED
  BY <1>1, <1>2, TypeCorrect, PTL DEF Spec
=============================================================================
