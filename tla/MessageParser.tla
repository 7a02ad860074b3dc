---------------------------- MODULE MessageParser ----------------------------
(***************************************************************************)
(* How the text of a message becomes numbers                               *)
(* (core/feed_handler/message_parser.hpp).  The parser is no JSON parser:  *)
(* it finds a key by the first place where its text stands, takes what     *)
(* follows, and counts brackets to find the end of a list.                 *)
(*                                                                         *)
(* A text is a sequence of tokens: a mark, a quoted text or a plain one.   *)
(* A search for a text within a name is a look at Containing.              *)
(***************************************************************************)
EXTENDS Integers, Sequences, FiniteSetsExt

CONSTANT Numeral   (* the numbers the feed tells, and how it writes each   *)

Written == DOMAIN Numeral
Positive == {n \in Written : n > 0}

Mark(c) == [kind |-> "mark", text |-> c]
Quoted(s) == [kind |-> "quoted", text |-> s]
Plain(s) == [kind |-> "plain", text |-> s]

Containing ==
  [trade |-> {"btcusdt@trade", "ethusdt@trade"},
   depth |-> {"btcusdt@depth5@100ms", "ethusdt@depth5@100ms"},
   markPrice |-> {"btcusdt@markPrice@1s"},
   eth |-> {"ethusdt@trade", "ethusdt@depth5@100ms"}]

(* The keys of the messages, and the names of the streams.                 *)
Keys == {"stream", "data", "lastUpdateId", "bids", "asks",
         "e", "E", "p", "P", "q", "r", "T", "m", "result", "id"}
Names == UNION {Containing[word] : word \in DOMAIN Containing}

(* Every number is written in its own way, and as no key or name.          *)
ASSUME NumeralAssumption ==
  /\ Written \subseteq Int /\ 1 \in Written
  /\ \A n \in Written : Numeral[n] \in STRING /\ Numeral[n] \notin Keys \union Names
  /\ \A m, n \in Written : Numeral[m] = Numeral[n] => m = n

(* sv_to_double and sv_to_int64: a text that is no number counts as 0.     *)
Number(text) ==
  LET meant == {n \in Written : Numeral[n] = text}
  IN  IF meant = {} THEN 0 ELSE CHOOSE n \in meant : TRUE

-----------------------------------------------------------------------------
(* find: the first place of one of the tokens, at i or after it; 0: none.  *)
First(msg, i, tokens) ==
  LET places == {j \in i .. Len(msg) : msg[j] \in tokens}
  IN  IF places = {} THEN 0 ELSE Min(places)

(* The part from the key data on, or all of it.                            *)
Data(msg) ==
  LET i == First(msg, 1, {Quoted("data")})
  IN  IF i = 0 THEN msg ELSE SubSeq(msg, i, Len(msg))

(* What stands behind the first place of the key, its colon and a token of *)
(* one of the kinds; an empty text when there is none.                     *)
Behind(msg, key, kinds) ==
  LET places == {i \in 1 .. Len(msg) - 2 :
                   /\ msg[i] = Quoted(key) /\ msg[i + 1] = Mark(":")
                   /\ msg[i + 2].kind \in kinds}
  IN  IF places = {} THEN Plain("") ELSE msg[Min(places) + 2]

QuotedValue(msg, key) == Behind(msg, key, {"quoted"}).text

(* A quoted text is no number here, for its quotes are taken with it.      *)
NumericValue(msg, key) ==
  LET found == Behind(msg, key, {"quoted", "plain", "mark"})
  IN  IF found.kind = "plain" THEN found.text ELSE ""

NoLevel == [price |-> 0, qty |-> 0]

(* The first two quoted texts behind the second opening bracket.           *)
FirstLevel(list) ==
  LET open(i) == First(list, i, {Mark("[")})
      quotes == {i \in DOMAIN list : /\ i > open(open(1) + 1)
                                     /\ list[i].kind = "quoted"}
      price == Min(quotes)
  IN  IF open(1) = 0 \/ open(open(1) + 1) = 0 \/ Cardinality(quotes) < 2
        THEN NoLevel
        ELSE [price |-> Number(list[price].text),
              qty |-> Number(list[Min(quotes \ {price})].text)]

(* Mutation of ListOf: all of the text from the opening bracket on.        *)
ListOfUnclosed(msg, key) ==
  LET k == First(msg, 1, {Quoted(key)})
      from == IF k = 0 THEN 0 ELSE First(msg, k, {Mark("[")})
  IN  IF from = 0 THEN <<>> ELSE SubSeq(msg, from, Len(msg))

(* The list under a key, up to the bracket that closes it.                 *)
ListOf(msg, key) ==
  LET k == First(msg, 1, {Quoted(key)})
      from == IF k = 0 THEN 0 ELSE First(msg, k, {Mark("[")})
      count(i, c) == Cardinality({j \in from .. i : msg[j] = Mark(c)})
      ends == {i \in from .. Len(msg) : count(i, "[") = count(i, "]")}
  IN  IF from = 0 \/ ends = {} THEN <<>> ELSE SubSeq(msg, from, Min(ends))

-----------------------------------------------------------------------------
(* The functions on_message calls.                                         *)

StreamType(msg) ==
  LET names(word) == \E i \in DOMAIN msg : msg[i].text \in Containing[word]
  IN  IF names("trade") THEN "TRADE"
      ELSE IF names("depth") THEN "DEPTH"
      ELSE IF names("markPrice") THEN "FUNDING"
      ELSE IF QuotedValue(msg, "e") = "trade" THEN "TRADE"
      ELSE IF First(msg, 1, {Quoted("lastUpdateId")}) # 0 THEN "DEPTH"
      ELSE "UNKNOWN"

(* symbol_id, by the name of the stream.                                   *)
SymbolOf(msg) ==
  IF QuotedValue(msg, "stream") \in Containing["eth"] THEN "eth" ELSE "btc"

ParseTrade(msg) ==
  LET price == Number(QuotedValue(Data(msg), "p"))
      quantity == Number(QuotedValue(Data(msg), "q"))
  IN  [price |-> price, quantity |-> quantity,
       timestamp |-> Number(NumericValue(Data(msg), "T")),
       valid |-> price > 0 /\ quantity > 0]

ParseDepth(msg) ==
  LET bid == FirstLevel(ListOf(Data(msg), "bids"))
      ask == FirstLevel(ListOf(Data(msg), "asks"))
  IN  [bid |-> bid.price, ask |-> ask.price,
       valid |-> bid.price > 0 /\ ask.price > 0]

ParseFundingRate(msg) == Number(QuotedValue(Data(msg), "r"))

-----------------------------------------------------------------------------
(* External: the messages of the streams the program asks for, see the     *)
(* comments of message_parser.hpp and the streams of binance_ws.cpp.  What *)
(* is told is a record; Text is how Binance writes it.                     *)

Pair(key, value) == <<Quoted(key), Mark(":"), value>>
Comma == <<Mark(",")>>

(* A level and the comma that divides it from the next one.                *)
Level(price) ==
  <<Mark("["), Quoted(Numeral[price]), Mark(","), Quoted("1"), Mark("]"), Mark(",")>>

(* A list of levels: a bracket, the levels, a bracket for the last comma.  *)
Levels(prices) ==
  IF prices = <<>> THEN <<Mark("["), Mark("]")>>
  ELSE [i \in 1 .. 6 * Len(prices) + 1 |->
          IF i = 1 THEN Mark("[")
          ELSE IF i = 6 * Len(prices) + 1 THEN Mark("]")
          ELSE Level(prices[((i - 2) \div 6) + 1])[((i - 2) % 6) + 1]]

Listed(key, prices) == <<Quoted(key), Mark(":")>> \o Levels(prices)

Event(told) ==
  CASE told.event = "trade" ->
         Pair("e", Quoted("trade")) \o Comma \o Pair("E", Plain("9"))
           \o Comma \o Pair("p", Quoted(Numeral[told.price]))
           \o Comma \o Pair("q", Quoted(Numeral[told.size]))
           \o Comma \o Pair("T", Plain("8")) \o Comma \o Pair("m", Plain("true"))
    [] told.event = "depth" ->
         <<Quoted("lastUpdateId"), Mark(":"), Plain("7"), Mark(",")>>
           \o (Listed("bids", told.bids) \o (Comma \o Listed("asks", told.asks)))
    [] told.event = "markPrice" ->
         Pair("e", Quoted("markPriceUpdate")) \o Comma \o Pair("E", Plain("9"))
           \o Comma \o Pair("p", Quoted("5")) \o Comma \o Pair("P", Quoted("6"))
           \o Comma \o Pair("r", Quoted(Numeral[told.rate]))
           \o Comma \o Pair("T", Plain("8"))

StreamOf(told) ==
  [trade |-> [btc |-> "btcusdt@trade", eth |-> "ethusdt@trade"],
   depth |-> [btc |-> "btcusdt@depth5@100ms", eth |-> "ethusdt@depth5@100ms"],
   markPrice |-> [btc |-> "btcusdt@markPrice@1s"]][told.event][told.sym]

Envelope(told) ==
  <<Mark("{"), Quoted("stream"), Mark(":"), Quoted(StreamOf(told)), Mark(","),
    Quoted("data"), Mark(":"), Mark("{")>>

Text(told) ==
  IF told.event = "answer"
    THEN <<Mark("{"), Quoted("result"), Mark(":"), Plain("null"), Mark(","),
           Quoted("id"), Mark(":"), Plain("1"), Mark("}")>>
    ELSE Envelope(told) \o (Event(told) \o <<Mark("}"), Mark("}")>>)
=============================================================================
