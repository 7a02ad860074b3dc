--------------------------- MODULE TradeStore_proofs ---------------------------
(***************************************************************************)
(* Proofs about TradeStore, for queues and batches of any size, any times, *)
(* ranges, speeds and any number of trades: that the store is a KdbWriter  *)
(* with a table behind it, the types, and what a replay delivers when.     *)
(*                                                                         *)
(* The table holds, in their order, some of the rows that were sent; the   *)
(* rows of the query some of the table's; the ticks delivered are the      *)
(* first of those rows.                                                    *)
(***************************************************************************)
EXTENDS TradeStore, KdbWriter_proofs, RemainderLemmas, SequenceTheorems,
        FiniteSetTheorems, TLAPS

-----------------------------------------------------------------------------
(* The writer in the store.                                                *)

(* A step of the store is one of the writer's module, or none there.       *)
LEMMA StoreStepsAreWriterSteps ==
  ASSUME [NextStore]_storeVars
  PROVE  [Next]_vars
<1>1. CASE UNCHANGED storeVars
  BY <1>1 DEF storeVars
<1>2. ASSUME NEW t \in Times, PushTrade(t) PROVE Next
  BY <1>2 DEF PushTrade, Next, Kinds
<1>3. CASE PushFill
  BY <1>3 DEF PushFill, Next, Kinds
<1>4. CASE (Stop \/ LinkFails) /\ UNCHANGED <<stamp, table, replayVars>>
  BY <1>4 DEF Next
<1>5. CASE Write
  BY <1>5 DEF Write, Next
<1>6. CASE Replay
  BY <1>6 DEF Replay, Fetch, Deliver, Finish, PassTime
<1>7. QED
  BY <1>1, <1>2, <1>3, <1>4, <1>5, <1>6 DEF NextStore, Live

(* What KdbWriter promises holds with a table and a replay behind it.      *)
THEOREM StoreHasWriter == SpecStore => Spec
<1>1. InitStore => Init
  BY DEF InitStore
<1>2. QED
  BY <1>1, StoreStepsAreWriterSteps, PTL DEF SpecStore, Spec

-----------------------------------------------------------------------------
(* The steps, as the trades see them.                                      *)

Pushing(t) ==
  /\ pushed'["trade"] = pushed["trade"] + 1
  /\ stamp' = Append(stamp, t)
  /\ UNCHANGED <<pc, table, replayVars>>
  /\ sent'["trade"] = sent["trade"]

Resting ==
  /\ pushed'["trade"] = pushed["trade"] /\ sent'["trade"] = sent["trade"]
  /\ UNCHANGED <<pc, stamp, table, replayVars>>

Writing ==
  /\ pc # "closed" /\ pushed'["trade"] = pushed["trade"]
  /\ UNCHANGED <<stamp, replayVars>>
  /\ \/ sent'["trade"] = sent["trade"] /\ table' = table
     \/ /\ sent'["trade"] = sent["trade"] \o batch["trade"]
        /\ table' \in {table, table \o batch["trade"]}

Replaying ==
  /\ UNCHANGED <<vars, stamp, table>>
  /\ Replay

(* What is pushed, sent and closed by a step of the writer.                *)
LEMMA WriterMoves ==
  ASSUME TypeOK, Writer
  PROVE  /\ pc # "closed" /\ pushed' = pushed
         /\ \/ sent'["trade"] = sent["trade"]
            \/ sent'["trade"] = sent["trade"] \o batch["trade"]
<1>1. Domains /\ RowsTyped("trade") /\ "trade" \in Kinds
  BY TypeOKIsTyped DEF Kinds
<1>2. Move("trade")
  BY <1>1, StepMoves DEF Next
<1>3. /\ sent'["trade"] = sent["trade"] \/ sent'["trade"] = sent["trade"] \o batch["trade"]
  BY <1>2 DEF Move, Still, Refused, Admitted, Batched, Dropped, SentOff, LostOff
<1>4. pc # "closed" /\ pushed' = pushed
  BY DEF Writer, Connect, BeginRound, Drain, Drained, EndRound, Close,
         producerVars, Kinds
<1>5. QED
  BY <1>3, <1>4

(* The rows a step of the writer calls with.                               *)
LEMMA CallIsBatch ==
  ASSUME NEW s \in Seq(Int), NEW b \in Seq(Int)
  PROVE  /\ SubSeq(s, Len(s) + 1, Len(s)) = <<>>
         /\ SubSeq(s \o b, Len(s) + 1, Len(s \o b)) = b
<1>1. Len(s) \in Nat /\ Len(b) \in Nat
  BY LenProperties
<1>2. SubSeq(s, Len(s) + 1, Len(s)) = <<>>
  <2>1. Len(s) + 1 \in Int /\ Len(s) \in Int /\ Len(s) < Len(s) + 1
    BY <1>1
  <2>2. QED
    BY <2>1, SubSeqEmpty
<1>3. SubSeq(s \o b, Len(s) + 1, Len(s \o b)) = b
  <2> DEFINE t == s \o b
             m == Len(s) + 1
             n == Len(s) + Len(b)
  <2>1. /\ t \in Seq(Int) /\ Len(t) = n
        /\ \A i \in 1 .. n : t[i] = IF i <= Len(s) THEN s[i] ELSE b[i - Len(s)]
    BY ConcatProperties
  <2>2. m \in Int /\ n \in Int /\ n - m + 1 = Len(b)
    BY <1>1
  <2>3. \A i \in m .. n : t[i] \in Int
    <3>1. \A i \in m .. n : i \in 1 .. n
      BY <1>1
    <3>2. QED
      BY <2>1, <3>1, ElementOfSeq
  <2>4. ASSUME NEW i \in 1 .. Len(b) PROVE t[m + i - 1] = b[i]
    <3>1. m + i - 1 \in 1 .. n /\ ~(m + i - 1 <= Len(s)) /\ (m + i - 1) - Len(s) = i
      BY <1>1
    <3>2. QED
      BY <2>1, <3>1
  <2> HIDE DEF t, m, n
  <2>5. /\ SubSeq(t, m, n) \in Seq(Int)
        /\ Len(SubSeq(t, m, n)) = IF m <= n THEN n - m + 1 ELSE 0
        /\ \A i \in 1 .. n - m + 1 : SubSeq(t, m, n)[i] = t[m + i - 1]
    BY <2>2, <2>3, SubSeqProperties
  <2>6. Len(SubSeq(t, m, n)) = Len(b)
    BY <1>1, <2>2, <2>5
  <2>7. \A i \in 1 .. Len(b) : SubSeq(t, m, n)[i] = b[i]
    BY <2>2, <2>4, <2>5
  <2>8. SubSeq(t, m, n) = b
    BY <2>5, <2>6, <2>7, SeqEqual
  <2>9. QED
    BY <2>1, <2>8 DEF t, m, n
<1>4. QED
  BY <1>2, <1>3

(* Every step is one of these.                                             *)
LEMMA StoreMoves ==
  ASSUME TypeOK, table \in Rows("trade"), [NextStore]_storeVars
  PROVE  \/ \E t \in Times : Pushing(t)
         \/ Resting \/ Writing \/ Replaying
<1>1. /\ Domains /\ RowsTyped("trade") /\ "trade" \in Kinds
      /\ sent["trade"] \in Seq(Int) /\ batch["trade"] \in Seq(Int)
  BY TypeOKIsTyped, RowsAreNumbers DEF Kinds
<1>2. ASSUME NEW t \in Times, PushTrade(t) PROVE Pushing(t)
  BY <1>1, <1>2 DEF PushTrade, Push, Pushing, Domains, writerVars
<1>3. CASE PushFill
  <2>1. "trade" # "fill"
    OBVIOUS
  <2>2. QED
    BY <1>1, <1>3, <2>1 DEF PushFill, Push, Resting, Domains, writerVars
<1>4. CASE (Stop \/ LinkFails) /\ UNCHANGED <<stamp, table, replayVars>>
  BY <1>4 DEF Stop, LinkFails, Resting, writerVars, producerVars
<1>5. CASE Write
  <2>1. /\ pc # "closed" /\ pushed' = pushed
        /\ \/ sent'["trade"] = sent["trade"]
           \/ sent'["trade"] = sent["trade"] \o batch["trade"]
    BY <1>5, WriterMoves DEF Write
  <2>2. table' = Insert(Call) /\ UNCHANGED <<stamp, replayVars>>
    BY <1>5 DEF Write
  <2>3. table' \in {table, table \o Call}
    BY <2>2 DEF Insert
  <2>4. CASE sent'["trade"] = sent["trade"]
    <3>1. Call = <<>>
      BY <1>1, <2>4, CallIsBatch DEF Call
    <3>2. table \o <<>> = table
      BY ConcatEmptySeq DEF Rows
    <3>3. QED
      BY <2>1, <2>2, <2>3, <2>4, <3>1, <3>2 DEF Writing
  <2>5. CASE sent'["trade"] = sent["trade"] \o batch["trade"]
    <3>1. Call = batch["trade"]
      BY <1>1, <2>5, CallIsBatch DEF Call
    <3>2. QED
      BY <2>1, <2>2, <2>3, <2>5, <3>1 DEF Writing
  <2>6. QED
    BY <2>1, <2>4, <2>5
<1>6. CASE Replay
  BY <1>6 DEF Replay, Fetch, Deliver, Finish, PassTime, Replaying
<1>7. CASE UNCHANGED storeVars
  BY <1>7 DEF storeVars, vars, writerVars, producerVars, Resting
<1>8. QED
  BY <1>2, <1>3, <1>4, <1>5, <1>6, <1>7 DEF NextStore, Live
-----------------------------------------------------------------------------
(* The inductive invariant.                                                *)

(* Every trade pushed has its time; the types of what the replay holds.    *)
Typed ==
  /\ stamp \in Seq(Times) /\ Len(stamp) = pushed["trade"]
  /\ table \in Rows("trade") /\ rows \in Rows("trade")
  /\ cli \in [start : Starts \union {0}, end : Ends \union {0},
               speed : Speeds \union {0}]
  /\ replay \in {"off", "play", "done"}
  /\ wall \in 0 .. MaxWall
  /\ delivered \in Seq([row : 1 .. MaxRecords["trade"], at : 0 .. MaxWall])

(* The table holds rows that were sent, in the order of their pushes.      *)
Stored == Rising(table) /\ ToSet(table) \subseteq ToSet(sent["trade"])

Asked(n) == InRange(n, cli.start, cli.end)

(* A replay holds the rows of the table that its range asks for, all or    *)
(* none; while it holds them the table does not change.                    *)
Selected ==
  /\ replay = "off" => rows = <<>>
  /\ replay # "off" => pc = "closed"
  /\ Rising(rows) /\ ToSet(rows) \subseteq ToSet(table)
  /\ \A n \in ToSet(rows) : Asked(n)
  /\ rows # <<>> => \A n \in ToSet(table) : Asked(n) => n \in ToSet(rows)

(* The first of the rows were delivered, each when it was due.             *)
Delivering ==
  /\ replay = "off" => delivered = <<>>
  /\ Len(delivered) <= Len(rows)
  /\ \A i \in 1 .. Len(delivered) :
       /\ delivered[i].row = rows[i]
       /\ cli.speed > 0 /\ i > 1 => delivered[i].at >= ElapsedSim(i) \div cli.speed

Lists(list, P) ==
  \E k \in Nat :
    /\ list \in [1 .. k -> P]
    /\ \A i, j \in 1 .. k : i < j => list[i] < list[j]
    /\ \A p \in P : \E i \in 1 .. k : list[i] = p

(* The listing of a set of places has each of them, in their order.        *)
LEMMA ListingProperties ==
  ASSUME NEW n \in Nat, NEW P \in SUBSET (1 .. n), NEW list \in Listings(P)
  PROVE  Lists(list, P)
<1> DEFINE c == Cardinality(P)
<1>1. IsFiniteSet(P) /\ c \in Nat
  <2>1. IsFiniteSet(1 .. n)
    BY FS_Interval
  <2>2. IsFiniteSet(P)
    BY <2>1, FS_Subset
  <2>3. QED
    BY <2>2, FS_CardinalityType
<1>2. list \in [1 .. c -> P] /\ \A i, j \in 1 .. c : i < j => list[i] < list[j]
  BY DEF Listings
<1>3. IsFiniteSet(1 .. c) /\ Cardinality(1 .. c) = c
  <2>1. IsFiniteSet(1 .. c) /\ Cardinality(1 .. c) = IF 1 > c THEN 0 ELSE c - 1 + 1
    BY <1>1, FS_Interval
  <2> HIDE DEF c
  <2>2. QED
    BY <1>1, <2>1
<1> HIDE DEF c
<1>4. list \in Injection(1 .. c, P)
  <2>1. ASSUME NEW i \in 1 .. c, NEW j \in 1 .. c, list[i] = list[j] PROVE i = j
    <3>1. list[i] \in 1 .. n /\ list[j] \in 1 .. n
      BY <1>2
    <3>2. ~(list[i] < list[j]) /\ ~(list[j] < list[i])
      BY <2>1, <3>1
    <3>3. ~(i < j) /\ ~(j < i)
      BY <1>2, <3>2
    <3>4. i \in Int /\ j \in Int
      BY <1>1
    <3>5. QED
      BY <3>3, <3>4
  <2>2. \A i, j \in 1 .. c : list[i] = list[j] => i = j
    BY <2>1
  <2>3. QED
    BY <1>2, <2>2 DEF Injection, IsInjective
<1>5. list \in Surjection(1 .. c, P)
  BY <1>1, <1>3, <1>4, FS_Injection DEF c
<1>6. \A p \in P : \E i \in 1 .. c : list[i] = p
  BY <1>5 DEF Surjection
<1>7. QED
  BY <1>1, <1>2, <1>6 DEF Lists

(* The answer to the query: the rows of the table that are in the range,   *)
(* in the table's order.                                                   *)
LEMMA AnswerProperties ==
  ASSUME table \in Rows("trade"), Rising(table), NEW start, NEW end,
         NEW list \in Listings({i \in DOMAIN table : InRange(table[i], start, end)}),
         NEW r, r = [i \in DOMAIN list |-> table[list[i]]]
  PROVE  /\ r \in Rows("trade") /\ Rising(r)
         /\ \A m : m \in ToSet(r) <=> m \in ToSet(table) /\ InRange(m, start, end)
<1> DEFINE S == 1 .. MaxRecords["trade"]
           P == {i \in DOMAIN table : InRange(table[i], start, end)}
<1>1. /\ Len(table) \in Nat /\ DOMAIN table = 1 .. Len(table)
      /\ \A i \in 1 .. Len(table) : table[i] \in S
  BY LenProperties, ElementOfSeq DEF Rows
<1>2. P \in SUBSET (1 .. Len(table))
  BY <1>1
<1>3. PICK k \in Nat :
        /\ list \in [1 .. k -> P]
        /\ \A i, j \in 1 .. k : i < j => list[i] < list[j]
        /\ \A p \in P : \E i \in 1 .. k : list[i] = p
  <2>1. list \in Listings(P) /\ Len(table) \in Nat
    BY <1>1
  <2>2. Lists(list, P)
    <3> HIDE DEF P
    <3>1. QED
      BY <1>2, <2>1, ListingProperties
  <2>3. QED
    BY <2>2 DEF Lists
<1>4. DOMAIN list = 1 .. k /\ \A i \in 1 .. k : list[i] \in P
  BY <1>3
<1>5. \A i \in 1 .. k : list[i] \in 1 .. Len(table) /\ InRange(table[list[i]], start, end)
  BY <1>1, <1>4
<1>6. r = [i \in 1 .. k |-> table[list[i]]] /\ DOMAIN r = 1 .. k
  BY <1>4
<1>7. r \in Rows("trade")
  <2>1. r \in [1 .. k -> S]
    BY <1>1, <1>5, <1>6
  <2>2. QED
    BY <1>3, <2>1, SeqDef DEF Rows
<1>8. Rising(r)
  <2>1. ASSUME NEW i \in 1 .. k, NEW j \in 1 .. k, i < j PROVE r[i] < r[j]
    <3>1. list[i] < list[j] /\ list[i] \in DOMAIN table /\ list[j] \in DOMAIN table
      BY <1>1, <1>3, <1>5, <2>1
    <3>2. table[list[i]] < table[list[j]]
      BY <3>1 DEF Rising
    <3>3. QED
      BY <1>6, <3>2
  <2>2. QED
    BY <1>6, <2>1 DEF Rising
<1>9. ASSUME NEW m, m \in ToSet(r)
      PROVE  m \in ToSet(table) /\ InRange(m, start, end)
  <2>1. PICK i \in 1 .. k : m = r[i]
    BY <1>6, <1>9 DEF ToSet
  <2>2. m = table[list[i]]
    BY <1>6, <2>1
  <2>3. QED
    BY <1>1, <1>5, <2>2 DEF ToSet
<1>10. ASSUME NEW m, m \in ToSet(table), InRange(m, start, end)
       PROVE  m \in ToSet(r)
  <2>1. PICK p \in DOMAIN table : m = table[p]
    BY <1>10 DEF ToSet
  <2>2. p \in P
    BY <1>10, <2>1
  <2>3. PICK i \in 1 .. k : list[i] = p
    BY <1>3, <2>2
  <2>4. r[i] = m
    BY <1>6, <2>1, <2>3
  <2>5. QED
    BY <1>6, <2>4 DEF ToSet
<1>11. QED
  BY <1>7, <1>8, <1>9, <1>10

(* A replay begins with the rows of its range, or with none.               *)
LEMMA FetchSelects ==
  ASSUME Typed, Stored, NEW start \in Starts, NEW end \in Ends, NEW speed \in Speeds,
         Fetch(start, end, speed)
  PROVE  /\ pc = "closed" /\ replay = "off" /\ replay' \in {"play", "done"}
         /\ cli' = [start |-> start, end |-> end, speed |-> speed]
         /\ UNCHANGED <<vars, stamp, table, wall, delivered>>
         /\ rows' \in Rows("trade")
         /\ \/ rows' = rows
            \/ /\ Rising(rows')
               /\ \A m : m \in ToSet(rows') <=> m \in ToSet(table) /\ InRange(m, start, end)
<1>1. /\ pc = "closed" /\ replay = "off" /\ replay' \in {"play", "done"}
      /\ cli' = [start |-> start, end |-> end, speed |-> speed]
      /\ UNCHANGED <<vars, stamp, table, wall, delivered>>
  BY DEF Fetch
<1>2. table \in Rows("trade") /\ rows \in Rows("trade") /\ Rising(table)
  BY DEF Typed, Stored
<1>3. CASE UNCHANGED rows
  BY <1>1, <1>2, <1>3
<1>4. ASSUME NEW list \in Listings({i \in DOMAIN table : InRange(table[i], start, end)}),
             rows' = [i \in DOMAIN list |-> table[list[i]]]
      PROVE  /\ rows' \in Rows("trade") /\ Rising(rows')
             /\ \A m : m \in ToSet(rows') <=> m \in ToSet(table) /\ InRange(m, start, end)
  BY <1>2, <1>4, AnswerProperties
<1>5. \/ UNCHANGED rows
      \/ \E list \in Listings({i \in DOMAIN table : InRange(table[i], start, end)}) :
           rows' = [i \in DOMAIN list |-> table[list[i]]]
  BY DEF Fetch
<1>6. CASE ~UNCHANGED rows
  BY <1>1, <1>4, <1>5, <1>6
<1>7. QED
  BY <1>3, <1>6

(* What a tick delivered adds.                                             *)
LEMMA DeliverAdds ==
  ASSUME Typed, Deliver
  PROVE  /\ replay = "play" /\ Len(delivered') = Len(delivered) + 1
         /\ Len(delivered) \in Nat /\ Len(delivered') <= Len(rows)
         /\ delivered' \in Seq([row : 1 .. MaxRecords["trade"], at : 0 .. MaxWall])
         /\ delivered'[Len(delivered) + 1] = [row |-> rows[Len(delivered) + 1], at |-> wall]
         /\ \A i \in 1 .. Len(delivered) : delivered'[i] = delivered[i]
         /\ IsDue(Len(delivered) + 1)
         /\ UNCHANGED <<vars, stamp, table, cli, replay, rows, wall>>
<1> DEFINE i == Len(delivered) + 1
           e == [row |-> rows[i], at |-> wall]
           S == [row : 1 .. MaxRecords["trade"], at : 0 .. MaxWall]
<1>1. /\ replay = "play" /\ i <= Len(rows) /\ IsDue(i)
      /\ delivered' = Append(delivered, e)
      /\ UNCHANGED <<vars, stamp, table, cli, replay, rows, wall>>
  BY DEF Deliver
<1>2. delivered \in Seq(S) /\ wall \in 0 .. MaxWall /\ rows \in Seq(1 .. MaxRecords["trade"])
  BY DEF Typed, Rows
<1>3. Len(delivered) \in Nat /\ Len(rows) \in Nat
  BY <1>2, LenProperties
<1>4. i \in 1 .. Len(rows)
  BY <1>1, <1>3
<1>5. e \in S
  BY <1>2, <1>4, ElementOfSeq
<1> HIDE DEF e, S
<1>6. /\ Append(delivered, e) \in Seq(S) /\ Len(Append(delivered, e)) = Len(delivered) + 1
      /\ \A j \in 1 .. Len(delivered) : Append(delivered, e)[j] = delivered[j]
      /\ Append(delivered, e)[Len(delivered) + 1] = e
  BY <1>2, <1>5, AppendProperties
<1>7. QED
  BY <1>1, <1>3, <1>6 DEF e, S

(* The parameters of a replay.                                             *)
LEMMA CliTyped ==
  ASSUME NEW start \in Starts, NEW end \in Ends, NEW speed \in Speeds
  PROVE  [start |-> start, end |-> end, speed |-> speed]
           \in [start : Starts \union {0}, end : Ends \union {0}, speed : Speeds \union {0}]
  OBVIOUS

(* The types are kept.                                                     *)
LEMMA StepKeepsTyped ==
  ASSUME TypeOK, Typed, Stored, [NextStore]_storeVars
  PROVE  Typed'
<1> DEFINE S == [row : 1 .. MaxRecords["trade"], at : 0 .. MaxWall]
<1>1. /\ stamp \in Seq(Times) /\ Len(stamp) = pushed["trade"]
      /\ table \in Rows("trade") /\ rows \in Rows("trade")
      /\ replay \in {"off", "play", "done"} /\ wall \in 0 .. MaxWall
  BY DEF Typed
<1>2. /\ cli \in [start : Starts \union {0}, end : Ends \union {0}, speed : Speeds \union {0}]
      /\ delivered \in Seq(S)
  BY DEF Typed
<1>3. batch["trade"] \in Rows("trade")
  BY TypeOKIsTyped DEF Kinds, RowsTyped
<1>4. ASSUME NEW t \in Times, Pushing(t) PROVE Typed'
  <2>1. /\ Append(stamp, t) \in Seq(Times) /\ Len(Append(stamp, t)) = Len(stamp) + 1
    BY <1>1, AppendProperties
  <2>2. stamp' \in Seq(Times) /\ Len(stamp') = pushed'["trade"]
    BY <1>1, <1>4, <2>1 DEF Pushing
  <2>3. UNCHANGED <<table, rows, cli, replay, wall, delivered>>
    BY <1>4 DEF Pushing, replayVars
  <2>4. QED
    BY <1>1, <1>2, <2>2, <2>3 DEF Typed
<1>5. CASE Resting
  <2>1. UNCHANGED <<stamp, table, rows, cli, replay, wall, delivered>>
        /\ pushed'["trade"] = pushed["trade"]
    BY <1>5 DEF Resting, replayVars
  <2>2. QED
    BY <1>1, <1>2, <2>1 DEF Typed
<1>6. CASE Writing
  <2>1. UNCHANGED <<stamp, rows, cli, replay, wall, delivered>>
        /\ pushed'["trade"] = pushed["trade"]
    BY <1>6 DEF Writing, replayVars
  <2>2. table' \in {table, table \o batch["trade"]}
    BY <1>6 DEF Writing
  <2>3. table \o batch["trade"] \in Rows("trade")
    BY <1>1, <1>3, ConcatProperties DEF Rows
  <2>4. table' \in Rows("trade")
    BY <1>1, <2>2, <2>3
  <2>5. QED
    BY <1>1, <1>2, <2>1, <2>4 DEF Typed
<1>7. ASSUME NEW start \in Starts, NEW end \in Ends, NEW speed \in Speeds,
             Fetch(start, end, speed)
      PROVE  Typed'
  <2>1. /\ replay' \in {"play", "done"} /\ rows' \in Rows("trade")
        /\ cli' = [start |-> start, end |-> end, speed |-> speed]
        /\ UNCHANGED <<stamp, table, wall, delivered>> /\ UNCHANGED vars
    BY <1>7, FetchSelects
  <2>2. cli' \in [start : Starts \union {0}, end : Ends \union {0}, speed : Speeds \union {0}]
    BY <2>1, CliTyped
  <2>3. UNCHANGED pushed
    BY <2>1 DEF vars, producerVars
  <2>4. QED
    BY <1>1, <1>2, <2>1, <2>2, <2>3 DEF Typed
<1>8. CASE Deliver
  <2>1. /\ delivered' \in Seq(S) /\ UNCHANGED vars
        /\ UNCHANGED <<stamp, table, cli, replay, rows, wall>>
    BY <1>8, DeliverAdds
  <2>2. UNCHANGED pushed
    BY <2>1 DEF vars, producerVars
  <2>3. QED
    BY <1>1, <1>2, <2>1, <2>2 DEF Typed
<1>9. CASE Finish
  <2>1. replay' = "done" /\ UNCHANGED <<stamp, table, cli, rows, wall, delivered, pushed>>
    BY <1>9 DEF Finish, vars, producerVars
  <2>2. QED
    BY <1>1, <1>2, <2>1 DEF Typed
<1>10. CASE PassTime
  <2>1. /\ wall < MaxWall /\ wall' = wall + 1
        /\ UNCHANGED <<stamp, table, cli, rows, replay, delivered, pushed>>
    BY <1>10 DEF PassTime, vars, producerVars
  <2>2. wall' \in 0 .. MaxWall
    BY <1>1, <2>1, TimeAssumption
  <2>3. QED
    BY <1>1, <1>2, <2>1, <2>2 DEF Typed
<1>11. \/ \E t \in Times : Pushing(t)
       \/ Resting \/ Writing \/ Replaying
  BY <1>1, StoreMoves
<1>12. QED
  BY <1>4, <1>5, <1>6, <1>7, <1>8, <1>9, <1>10, <1>11 DEF Replaying, Replay

(* The members of a concatenation.                                         *)
LEMMA ConcatMembers ==
  ASSUME NEW s \in Seq(Int), NEW t \in Seq(Int)
  PROVE  ToSet(s \o t) = ToSet(s) \union ToSet(t)
<1>1. /\ Len(s) \in Nat /\ DOMAIN s = 1 .. Len(s)
      /\ Len(t) \in Nat /\ DOMAIN t = 1 .. Len(t)
  BY LenProperties
<1>2. /\ s \o t \in Seq(Int) /\ Len(s \o t) = Len(s) + Len(t)
      /\ \A i \in 1 .. Len(s) + Len(t) :
           (s \o t)[i] = IF i <= Len(s) THEN s[i] ELSE t[i - Len(s)]
  BY ConcatProperties
<1>3. DOMAIN (s \o t) = 1 .. Len(s) + Len(t)
  BY <1>2, LenProperties
<1>4. ASSUME NEW i \in DOMAIN (s \o t)
      PROVE  (s \o t)[i] \in ToSet(s) \union ToSet(t)
  <2>1. CASE i <= Len(s)
    <3>1. i \in DOMAIN s /\ (s \o t)[i] = s[i]
      BY <1>1, <1>2, <1>3, <2>1
    <3>2. QED
      BY <3>1 DEF ToSet
  <2>2. CASE ~(i <= Len(s))
    <3>1. i - Len(s) \in DOMAIN t /\ (s \o t)[i] = t[i - Len(s)]
      BY <1>1, <1>2, <1>3, <2>2
    <3>2. QED
      BY <3>1 DEF ToSet
  <2>3. QED
    BY <2>1, <2>2
<1>5. ASSUME NEW i \in DOMAIN s PROVE s[i] \in ToSet(s \o t)
  <2>1. i \in DOMAIN (s \o t) /\ (s \o t)[i] = s[i]
    BY <1>1, <1>2, <1>3
  <2>2. QED
    BY <2>1 DEF ToSet
<1>6. ASSUME NEW i \in DOMAIN t PROVE t[i] \in ToSet(s \o t)
  <2>1. /\ Len(s) + i \in DOMAIN (s \o t) /\ (Len(s) + i) - Len(s) = i
        /\ ~(Len(s) + i <= Len(s))
    BY <1>1, <1>3
  <2>2. (s \o t)[Len(s) + i] = t[i]
    BY <1>2, <1>3, <2>1
  <2>3. QED
    BY <2>1, <2>2 DEF ToSet
<1>7. QED
  BY <1>4, <1>5, <1>6 DEF ToSet

(* Rows that were sent were pushed, and so have a time.                    *)
LEMMA StoredIsStamped ==
  ASSUME TypeOK, Ordered("trade"), Typed, Stored, NEW n \in ToSet(table)
  PROVE  n \in 1 .. Len(stamp)
<1>1. /\ "trade" \in Kinds /\ RowsTyped("trade")
      /\ sent["trade"] \in Seq(Int) /\ batch["trade"] \in Seq(Int)
      /\ queue["trade"] \in Seq(Int) /\ pushed["trade"] \in Int
  BY TypeOKIsTyped, RowsAreNumbers DEF Kinds
<1>2. sent["trade"] \o batch["trade"] \in Seq(Int)
  BY <1>1, ConcatProperties
<1>3. AtMost(sent["trade"], pushed["trade"])
  <2>1. AtMost(sent["trade"] \o batch["trade"] \o queue["trade"], pushed["trade"])
    BY DEF Ordered, Way
  <2>2. AtMost(sent["trade"] \o batch["trade"], pushed["trade"])
    BY <1>1, <1>2, <2>1, BelowConcat
  <2>3. QED
    BY <1>1, <2>2, BelowConcat
<1>4. n \in ToSet(sent["trade"])
  BY DEF Stored
<1>5. PICK i \in DOMAIN sent["trade"] : n = sent["trade"][i]
  BY <1>4 DEF ToSet
<1>6. n <= pushed["trade"]
  BY <1>3, <1>5 DEF AtMost
<1>7. n \in 1 .. MaxRecords["trade"]
  <2>1. sent["trade"] \in Seq(1 .. MaxRecords["trade"])
    BY <1>1 DEF RowsTyped, Rows
  <2>2. i \in 1 .. Len(sent["trade"])
    BY <1>5, <2>1, LenProperties
  <2>3. QED
    BY <1>5, <2>1, <2>2, ElementOfSeq
<1>8. Len(stamp) = pushed["trade"]
  BY DEF Typed
<1>9. QED
  BY <1>1, <1>6, <1>7, <1>8

(* A push leaves the times there are.                                      *)
LEMMA StampsStay ==
  ASSUME Typed, NEW t \in Times, Pushing(t), NEW n \in 1 .. Len(stamp)
  PROVE  stamp'[n] = stamp[n]
<1>1. stamp \in Seq(Times) /\ stamp' = Append(stamp, t)
  BY DEF Typed, Pushing
<1>2. QED
  BY <1>1, AppendProperties

(* The table keeps to the order of the pushes.                             *)
LEMMA StepKeepsStored ==
  ASSUME TypeOK, Ordered("trade"), Typed, Stored, [NextStore]_storeVars
  PROVE  Stored'
<1>1. /\ "trade" \in Kinds /\ RowsTyped("trade")
      /\ sent["trade"] \in Seq(Int) /\ batch["trade"] \in Seq(Int)
      /\ queue["trade"] \in Seq(Int)
  BY TypeOKIsTyped, RowsAreNumbers DEF Kinds
<1>2. table \in Rows("trade") /\ table \in Seq(Int)
  <2>1. MaxRecords["trade"] \in Nat /\ 1 .. MaxRecords["trade"] \subseteq Int
    BY <1>1, BoundAssumption
  <2>2. table \in Seq(1 .. MaxRecords["trade"])
    BY DEF Typed, Rows
  <2>3. QED
    BY <2>1, <2>2 DEF Rows
<1>3. Rising(table) /\ ToSet(table) \subseteq ToSet(sent["trade"])
  BY DEF Stored
<1>4. CASE /\ sent'["trade"] = sent["trade"] \o batch["trade"]
           /\ table' \in {table, table \o batch["trade"]}
  <2>1. /\ ToSet(sent["trade"] \o batch["trade"]) = ToSet(sent["trade"]) \union ToSet(batch["trade"])
        /\ ToSet(table \o batch["trade"]) = ToSet(table) \union ToSet(batch["trade"])
    BY <1>1, <1>2, ConcatMembers
  <2>2. sent["trade"] \o batch["trade"] \in Seq(Int)
    BY <1>1, ConcatProperties
  <2>3. Below(sent["trade"], batch["trade"]) /\ Rising(batch["trade"])
    <3>1. Rising(sent["trade"] \o batch["trade"] \o queue["trade"])
      BY DEF Ordered, Way
    <3>2. Rising(sent["trade"] \o batch["trade"])
      BY <1>1, <2>2, <3>1, RisingConcat
    <3>3. QED
      BY <1>1, <3>2, RisingConcat
  <2>4. Below(table, batch["trade"])
    <3>1. ASSUME NEW i \in DOMAIN table, NEW j \in DOMAIN batch["trade"]
          PROVE  table[i] < batch["trade"][j]
      <4>1. table[i] \in ToSet(sent["trade"])
        BY <1>3 DEF ToSet
      <4>2. PICK p \in DOMAIN sent["trade"] : table[i] = sent["trade"][p]
        BY <4>1 DEF ToSet
      <4>3. sent["trade"][p] < batch["trade"][j]
        BY <2>3 DEF Below
      <4>4. QED
        BY <4>2, <4>3
    <3>2. QED
      BY <3>1 DEF Below
  <2>5. Rising(table \o batch["trade"])
    BY <1>1, <1>2, <1>3, <2>3, <2>4, RisingConcat
  <2>6. ToSet(sent'["trade"]) = ToSet(sent["trade"]) \union ToSet(batch["trade"])
    BY <1>4, <2>1
  <2>7. CASE table' = table
    BY <1>3, <2>6, <2>7 DEF Stored
  <2>8. CASE table' = table \o batch["trade"]
    <3>1. ToSet(table') = ToSet(table) \union ToSet(batch["trade"])
      BY <2>1, <2>8
    <3>2. Rising(table')
      BY <2>5, <2>8
    <3>3. QED
      BY <1>3, <2>6, <3>1, <3>2 DEF Stored
  <2>9. QED
    BY <1>4, <2>7, <2>8
<1>5. CASE sent'["trade"] = sent["trade"] /\ table' = table
  BY <1>3, <1>5 DEF Stored
<1>6. Replaying => sent'["trade"] = sent["trade"] /\ table' = table
  BY DEF Replaying, vars, writerVars
<1>7. \/ \E t \in Times : Pushing(t)
      \/ Resting \/ Writing \/ Replaying
  BY <1>2, StoreMoves
<1>8. QED
  BY <1>4, <1>5, <1>6, <1>7 DEF Pushing, Resting, Writing

(* No rows are none of the table's, and in order.                          *)
LEMMA NoRows ==
  ASSUME rows = <<>>
  PROVE  ToSet(rows) = {} /\ Rising(rows) /\ Len(rows) = 0
<1>1. DOMAIN rows = {} /\ Len(rows) = 0
  OBVIOUS
<1>2. QED
  BY <1>1 DEF ToSet, Rising

(* A replay keeps the rows of its range while trades are still pushed.     *)
LEMMA StepKeepsSelected ==
  ASSUME TypeOK, Ordered("trade"), Typed, Stored, Selected, [NextStore]_storeVars
  PROVE  Selected'
<1>1. /\ replay = "off" => rows = <<>>
      /\ replay # "off" => pc = "closed"
      /\ Rising(rows) /\ ToSet(rows) \subseteq ToSet(table)
      /\ \A n \in ToSet(rows) : Asked(n)
      /\ rows # <<>> => \A n \in ToSet(table) : Asked(n) => n \in ToSet(rows)
  BY DEF Selected
<1>2. table \in Rows("trade")
  BY DEF Typed
<1>3. ASSUME NEW t \in Times, Pushing(t) PROVE Selected'
  <2>1. UNCHANGED <<pc, table, cli, replay, rows>>
    BY <1>3 DEF Pushing, replayVars
  <2>2. ASSUME NEW n \in ToSet(table) PROVE Asked(n)' <=> Asked(n)
    <3>1. n \in 1 .. Len(stamp)
      BY StoredIsStamped
    <3>2. stamp'[n] = stamp[n]
      BY <1>3, <3>1, StampsStay
    <3>3. QED
      BY <2>1, <3>2 DEF Asked, InRange, KdbTime
  <2>3. \A n \in ToSet(rows) : Asked(n)'
    BY <1>1, <2>2
  <2>4. rows # <<>> => \A n \in ToSet(table) : Asked(n)' => n \in ToSet(rows)
    BY <1>1, <2>2
  <2>5. QED
    BY <1>1, <2>1, <2>3, <2>4 DEF Selected
<1>4. ASSUME UNCHANGED <<pc, stamp, table, cli, rows>>,
             replay' = replay \/ (replay # "off" /\ replay' # "off")
      PROVE  Selected'
  <2>1. \A n : Asked(n)' <=> Asked(n)
    BY <1>4 DEF Asked, InRange, KdbTime
  <2>2. QED
    BY <1>1, <1>4, <2>1 DEF Selected
<1>5. CASE Resting
  <2>1. UNCHANGED <<pc, stamp, table, cli, rows>> /\ replay' = replay
    BY <1>5 DEF Resting, replayVars
  <2>2. QED
    BY <1>4, <2>1
<1>6. CASE Writing
  <2>1. rows = <<>> /\ replay = "off" /\ UNCHANGED <<rows, replay>>
    BY <1>1, <1>6 DEF Writing, replayVars
  <2>2. rows' = <<>> /\ replay' = "off"
    BY <2>1
  <2>3. ToSet(rows)' = {} /\ Rising(rows)'
    BY <2>1, NoRows
  <2>4. QED
    BY <2>2, <2>3 DEF Selected
<1>7. ASSUME NEW start \in Starts, NEW end \in Ends, NEW speed \in Speeds,
             Fetch(start, end, speed)
      PROVE  Selected'
  <2>1. /\ pc = "closed" /\ replay = "off" /\ replay' \in {"play", "done"}
        /\ cli' = [start |-> start, end |-> end, speed |-> speed]
        /\ UNCHANGED <<vars, stamp, table, wall, delivered>>
        /\ \/ rows' = rows
           \/ /\ Rising(rows')
              /\ \A m : m \in ToSet(rows') <=> m \in ToSet(table) /\ InRange(m, start, end)
    BY <1>7, FetchSelects
  <2>2. pc' = "closed" /\ replay' # "off" /\ table' = table
    BY <2>1 DEF vars, writerVars
  <2>3. CASE rows' = rows
    <3>1. rows = <<>>
      BY <1>1, <2>1
    <3>2. rows' = <<>> /\ ToSet(rows)' = {} /\ Rising(rows)'
      BY <2>3, <3>1, NoRows
    <3>3. QED
      BY <2>2, <3>2 DEF Selected
  <2>4. CASE /\ Rising(rows')
             /\ \A m : m \in ToSet(rows') <=> m \in ToSet(table) /\ InRange(m, start, end)
    <3>1. cli'.start = start /\ cli'.end = end
      BY <2>1
    <3>2. \A m : Asked(m)' <=> InRange(m, start, end)
      BY <2>1, <3>1 DEF Asked, InRange, KdbTime
    <3>3. QED
      BY <2>2, <2>4, <3>2 DEF Selected
  <2>5. QED
    BY <2>1, <2>3, <2>4
<1>8. CASE Deliver \/ Finish \/ PassTime
  <2>1. UNCHANGED <<vars, stamp, table, cli, rows>> /\ replay = "play" /\ replay' \in {"play", "done"}
    BY <1>8 DEF Deliver, Finish, PassTime
  <2>2. UNCHANGED pc
    BY <2>1 DEF vars, writerVars
  <2>3. QED
    BY <1>4, <2>1, <2>2
<1>9. \/ \E t \in Times : Pushing(t)
      \/ Resting \/ Writing \/ Replaying
  BY <1>2, StoreMoves
<1>10. QED
  BY <1>3, <1>5, <1>6, <1>7, <1>8, <1>9 DEF Replaying, Replay

(* What is delivered is what was due.                                      *)
LEMMA StepKeepsDelivering ==
  ASSUME TypeOK, Ordered("trade"), Typed, Stored, Selected, Delivering,
         [NextStore]_storeVars
  PROVE  Delivering'
<1>1. /\ replay = "off" => delivered = <<>>
      /\ Len(delivered) <= Len(rows)
      /\ \A i \in 1 .. Len(delivered) :
           /\ delivered[i].row = rows[i]
           /\ cli.speed > 0 /\ i > 1 => delivered[i].at >= ElapsedSim(i) \div cli.speed
  BY DEF Delivering
<1>2. table \in Rows("trade") /\ rows \in Rows("trade")
  BY DEF Typed
<1>3. ASSUME UNCHANGED <<cli, rows, delivered>>,
             \A i \in 1 .. Len(delivered) : ElapsedSim(i)' = ElapsedSim(i),
             replay' = replay \/ replay' # "off"
      PROVE  Delivering'
  BY <1>1, <1>3 DEF Delivering
<1>4. ASSUME UNCHANGED <<cli, rows, delivered, stamp>>,
             replay' = replay \/ replay' # "off"
      PROVE  Delivering'
  <2>1. \A i : ElapsedSim(i)' = ElapsedSim(i)
    BY <1>4 DEF ElapsedSim, TickTs, KdbTime
  <2>2. QED
    BY <1>3, <1>4, <2>1
<1>5. ASSUME NEW t \in Times, Pushing(t) PROVE Delivering'
  <2>1. UNCHANGED <<cli, rows, delivered, replay>>
    BY <1>5 DEF Pushing, replayVars
  <2>2. ASSUME NEW i \in 1 .. Len(rows) PROVE stamp'[rows[i]] = stamp[rows[i]]
    <3>1. rows[i] \in ToSet(rows)
      <4>1. i \in DOMAIN rows
        BY <1>2, LenProperties DEF Rows
      <4>2. QED
        BY <4>1 DEF ToSet
    <3>2. rows[i] \in ToSet(table)
      BY <3>1 DEF Selected
    <3>3. rows[i] \in 1 .. Len(stamp)
      BY <3>2, StoredIsStamped
    <3>4. QED
      BY <1>5, <3>3, StampsStay
  <2>3. ASSUME NEW i \in 1 .. Len(delivered) PROVE ElapsedSim(i)' = ElapsedSim(i)
    <3>1. i \in 1 .. Len(rows) /\ 1 \in 1 .. Len(rows)
      <4>1. Len(rows) \in Nat /\ Len(delivered) \in Nat
        BY LenProperties DEF Typed, Rows
      <4>2. QED
        BY <1>1, <4>1
    <3>2. stamp'[rows[i]] = stamp[rows[i]] /\ stamp'[rows[1]] = stamp[rows[1]]
      BY <2>2, <3>1
    <3>3. QED
      BY <2>1, <3>2 DEF ElapsedSim, TickTs, KdbTime
  <2>4. QED
    BY <1>3, <2>1, <2>3
<1>6. CASE Resting
  BY <1>4, <1>6 DEF Resting, replayVars
<1>7. CASE Writing
  BY <1>4, <1>7 DEF Writing, replayVars
<1>8. ASSUME NEW start \in Starts, NEW end \in Ends, NEW speed \in Speeds,
             Fetch(start, end, speed)
      PROVE  Delivering'
  <2>1. /\ replay = "off" /\ replay' \in {"play", "done"} /\ delivered' = delivered
        /\ rows' \in Rows("trade")
    BY <1>8, FetchSelects
  <2>2. delivered' = <<>> /\ Len(delivered') = 0
    BY <1>1, <2>1
  <2>3. Len(rows') \in Nat
    BY <2>1, LenProperties DEF Rows
  <2>4. Len(delivered') <= Len(rows') /\ 1 .. Len(delivered') = {}
    BY <2>2, <2>3
  <2>5. QED
    BY <2>2, <2>4 DEF Delivering
<1>9. CASE Deliver
  <2> DEFINE n == Len(delivered)
  <2>1. /\ replay = "play" /\ Len(delivered') = n + 1 /\ n \in Nat
        /\ Len(delivered') <= Len(rows)
        /\ delivered'[n + 1] = [row |-> rows[n + 1], at |-> wall]
        /\ \A i \in 1 .. n : delivered'[i] = delivered[i]
        /\ IsDue(n + 1)
        /\ UNCHANGED <<stamp, cli, replay, rows, wall>>
    BY <1>9, DeliverAdds
  <2>2. \A i : ElapsedSim(i)' = ElapsedSim(i)
    BY <2>1 DEF ElapsedSim, TickTs, KdbTime
  <2>3. /\ delivered'[n + 1].row = rows[n + 1]
        /\ cli.speed > 0 /\ n + 1 > 1 =>
             delivered'[n + 1].at >= ElapsedSim(n + 1) \div cli.speed
    <3>1. delivered'[n + 1].row = rows[n + 1] /\ delivered'[n + 1].at = wall
      BY <2>1
    <3>2. QED
      BY <2>1, <3>1 DEF IsDue
  <2> HIDE DEF n
  <2>4. ASSUME NEW i \in 1 .. n + 1
        PROVE  /\ delivered'[i].row = rows'[i]
               /\ cli'.speed > 0 /\ i > 1 => delivered'[i].at >= ElapsedSim(i)' \div cli'.speed
    <3>1. CASE i = n + 1
      BY <2>1, <2>2, <2>3, <3>1
    <3>2. CASE i # n + 1
      <4>1. i \in 1 .. n
        BY <2>1, <3>2
      <4>2. /\ delivered[i].row = rows[i]
            /\ cli.speed > 0 /\ i > 1 => delivered[i].at >= ElapsedSim(i) \div cli.speed
        BY <1>1, <4>1 DEF n
      <4>3. delivered'[i] = delivered[i]
        BY <2>1, <4>1
      <4>4. QED
        BY <2>1, <2>2, <4>2, <4>3
    <3>3. QED
      BY <3>1, <3>2
  <2>5. QED
    BY <2>1, <2>4 DEF Delivering
<1>10. CASE Finish \/ PassTime
  <2>1. UNCHANGED <<cli, rows, delivered, stamp>> /\ (replay' = replay \/ replay' # "off")
    BY <1>10 DEF Finish, PassTime
  <2>2. QED
    BY <1>4, <2>1
<1>11. \/ \E t \in Times : Pushing(t)
       \/ Resting \/ Writing \/ Replaying
  BY <1>2, StoreMoves
<1>12. QED
  BY <1>5, <1>6, <1>7, <1>8, <1>9, <1>10, <1>11 DEF Replaying, Replay

-----------------------------------------------------------------------------
(* The theorems.                                                           *)

StoreInv == Typed /\ Stored /\ Selected /\ Delivering

(* At first there are no trades, no rows and no ticks.                     *)
LEMMA InitHasStoreInv == InitStore => StoreInv
<1> SUFFICES ASSUME InitStore PROVE StoreInv
  OBVIOUS
<1>1. /\ stamp = <<>> /\ table = <<>> /\ rows = <<>> /\ delivered = <<>>
      /\ cli = [start |-> 0, end |-> 0, speed |-> 0] /\ replay = "off" /\ wall = 0
      /\ pushed["trade"] = 0
  BY DEF InitStore, Init, Kinds
<1>2. Typed
  <2>1. wall \in 0 .. MaxWall
    BY <1>1, TimeAssumption
  <2>2. /\ stamp \in Seq(Times) /\ table \in Rows("trade") /\ rows \in Rows("trade")
        /\ delivered \in Seq([row : 1 .. MaxRecords["trade"], at : 0 .. MaxWall])
        /\ Len(stamp) = 0
    BY <1>1, EmptySeq DEF Rows
  <2>3. cli \in [start : Starts \union {0}, end : Ends \union {0}, speed : Speeds \union {0}]
    BY <1>1
  <2>4. QED
    BY <1>1, <2>1, <2>2, <2>3 DEF Typed
<1>3. /\ ToSet(rows) = {} /\ Rising(rows) /\ Len(rows) = 0
      /\ ToSet(table) = {} /\ Rising(table)
  <2>1. rows = <<>> /\ table = rows
    BY <1>1
  <2>2. QED
    BY <2>1, NoRows
<1>4. Stored /\ Selected
  BY <1>1, <1>3 DEF Stored, Selected
<1>5. Delivering
  <2>1. Len(delivered) = 0 /\ 1 .. Len(delivered) = {}
    BY <1>1
  <2>2. QED
    BY <1>1, <1>3, <2>1 DEF Delivering
<1>6. QED
  BY <1>2, <1>4, <1>5 DEF StoreInv

(* The invariant of the store, on that of its writer.                      *)
THEOREM StoreInvCorrect == SpecStore => [](Inv /\ StoreInv)
<1>1. Inv /\ StoreInv /\ [NextStore]_storeVars => StoreInv'
  <2>1. SUFFICES ASSUME Inv, StoreInv, [NextStore]_storeVars PROVE StoreInv'
    OBVIOUS
  <2>2. TypeOK /\ Ordered("trade")
    BY <2>1 DEF Inv, Kinds
  <2>3. Typed /\ Stored /\ Selected /\ Delivering
    BY <2>1 DEF StoreInv
  <2>4. Typed'
    BY <2>1, <2>2, <2>3, StepKeepsTyped
  <2>5. Stored'
    BY <2>1, <2>2, <2>3, StepKeepsStored
  <2>6. Selected'
    BY <2>1, <2>2, <2>3, StepKeepsSelected
  <2>7. Delivering'
    BY <2>1, <2>2, <2>3, StepKeepsDelivering
  <2>8. QED
    BY <2>4, <2>5, <2>6, <2>7 DEF StoreInv
<1>2. QED
  BY <1>1, InitHasStoreInv, StoreHasWriter, InvCorrect, PTL DEF SpecStore

(* The types of the store, its writer's among them.                        *)
THEOREM StoreTypeCorrect == SpecStore => []TypeOKStore
<1>1. Inv /\ StoreInv => TypeOKStore
  BY Zenon DEF Inv, StoreInv, Typed, TypeOKStore
<1>2. QED
  BY <1>1, StoreInvCorrect, PTL

(* What the table, the answer and the ticks have in common.                *)
LEMMA DeliveredRows ==
  ASSUME Inv, StoreInv, NEW i \in DOMAIN delivered
  PROVE  /\ i \in Nat \ {0} /\ i \in DOMAIN rows /\ delivered[i].row = rows[i]
         /\ rows[i] \in 1 .. Len(stamp) /\ stamp[rows[i]] \in Times
<1>1. /\ TypeOK /\ Ordered("trade") /\ Typed /\ Stored /\ Selected /\ Delivering
  BY DEF Inv, StoreInv, Kinds
<1>2. /\ Len(rows) \in Nat /\ DOMAIN rows = 1 .. Len(rows)
      /\ Len(delivered) \in Nat /\ DOMAIN delivered = 1 .. Len(delivered)
  BY <1>1, LenProperties DEF Typed, Rows
<1>3. i \in 1 .. Len(rows) /\ i \in 1 .. Len(delivered)
  BY <1>1, <1>2 DEF Delivering
<1>4. delivered[i].row = rows[i]
  BY <1>1, <1>3 DEF Delivering
<1>5. rows[i] \in ToSet(rows)
  BY <1>2, <1>3 DEF ToSet
<1>6. rows[i] \in ToSet(table)
  BY <1>1, <1>5 DEF Selected
<1>7. rows[i] \in 1 .. Len(stamp)
  BY <1>1, <1>6, StoredIsStamped
<1>8. stamp[rows[i]] \in Times
  BY <1>1, <1>7, ElementOfSeq DEF Typed
<1>9. QED
  BY <1>2, <1>3, <1>4, <1>7, <1>8

(* A replay delivers trades that the feed pushed, each once, in order.     *)
THEOREM ReplayIsOfTheFeed == SpecStore => []ReplayFollowsFeed
<1>1. Inv /\ StoreInv => ReplayFollowsFeed
  <2>1. SUFFICES ASSUME Inv, StoreInv, NEW i \in DOMAIN delivered
                 PROVE  /\ delivered[i].row <= pushed["trade"]
                        /\ i > 1 => delivered[i].row > delivered[i - 1].row
    BY DEF ReplayFollowsFeed
  <2>2. /\ i \in Nat \ {0} /\ i \in DOMAIN rows /\ delivered[i].row = rows[i]
        /\ rows[i] \in 1 .. Len(stamp)
    BY <2>1, DeliveredRows
  <2>3. Len(stamp) = pushed["trade"] /\ stamp \in Seq(Times)
    BY <2>1 DEF StoreInv, Typed
  <2>4. delivered[i].row <= pushed["trade"]
    BY <2>2, <2>3, LenProperties
  <2>5. ASSUME i > 1 PROVE delivered[i].row > delivered[i - 1].row
    <3>1. i - 1 \in DOMAIN delivered
      <4>1. /\ Len(delivered) \in Nat /\ DOMAIN delivered = 1 .. Len(delivered)
        BY <2>1, LenProperties DEF StoreInv, Typed
      <4>2. QED
        BY <2>1, <2>2, <2>5, <4>1
    <3>2. /\ i - 1 \in DOMAIN rows /\ delivered[i - 1].row = rows[i - 1]
          /\ rows[i - 1] \in 1 .. Len(stamp)
      BY <2>1, <3>1, DeliveredRows
    <3>3. i - 1 < i
      BY <2>2
    <3>4. rows[i - 1] < rows[i]
      BY <2>1, <2>2, <3>2, <3>3 DEF StoreInv, Selected, Rising
    <3>5. QED
      BY <2>2, <3>2, <3>4
  <2>6. QED
    BY <2>4, <2>5
<1>2. QED
  BY <1>1, StoreInvCorrect, PTL

(* The range of a query, for times that a signed count can hold.           *)
LEMMA AskedIsInRange ==
  ASSUME Inv, StoreInv, cli.start < Half, cli.end < Half, NEW n \in 1 .. Len(stamp)
  PROVE  Asked(n) <=> cli.start <= stamp[n] /\ stamp[n] <= cli.end
<1>1. Half \in Nat /\ Epoch \in Nat /\ Times \subseteq Epoch .. Half - 1
      /\ Starts \subseteq Int /\ Ends \subseteq Int
  <2>1. Modulus \in Int
    BY TimeAssumption DEF Modulus
  <2>2. QED
    BY <2>1, TimeAssumption
<1>2. cli.start \in Int /\ cli.end \in Int
  <2>1. cli.start \in Starts \union {0} /\ cli.end \in Ends \union {0}
    <3>1. cli \in [start : Starts \union {0}, end : Ends \union {0}, speed : Speeds \union {0}]
      BY DEF StoreInv, Typed
    <3>2. QED
      BY <3>1
  <2>2. 0 \in Int /\ Starts \subseteq Int /\ Ends \subseteq Int
    BY <1>1
  <2>3. QED
    BY <2>1, <2>2, Zenon
<1>3. stamp[n] \in Epoch .. Half - 1
  <2>1. stamp \in Seq(Times)
    BY DEF StoreInv, Typed
  <2>2. stamp[n] \in Times
    BY <2>1, ElementOfSeq
  <2>3. QED
    BY <1>1, <2>2
<1>4. /\ AsSigned(cli.start) = cli.start /\ AsSigned(cli.end) = cli.end
      /\ AsSigned(stamp[n]) = stamp[n]
  BY <1>1, <1>2, <1>3 DEF AsSigned
<1>5. QED
  BY <1>1, <1>2, <1>3, <1>4 DEF Asked, InRange, Bound, KdbTime

(* A replay has the trades of its range, no others, and all that the table *)
(* has if it has any.                                                      *)
THEOREM TheRangeIsReplayed == SpecStore => []RangeIsReplayed
<1>1. Inv /\ StoreInv => RangeIsReplayed
  <2>1. SUFFICES ASSUME Inv, StoreInv, replay # "off", cli.start < Half, cli.end < Half
                 PROVE  /\ \A n \in ToSet(rows) : cli.start <= stamp[n] /\ stamp[n] <= cli.end
                        /\ rows # <<>> => \A n \in ToSet(table) :
                             cli.start <= stamp[n] /\ stamp[n] <= cli.end => n \in ToSet(rows)
    BY DEF RangeIsReplayed
  <2>2. /\ TypeOK /\ Ordered("trade") /\ Typed /\ Stored /\ Selected
    BY <2>1 DEF Inv, StoreInv, Kinds
  <2>3. ASSUME NEW n \in ToSet(table)
        PROVE  Asked(n) <=> cli.start <= stamp[n] /\ stamp[n] <= cli.end
    <3>1. n \in 1 .. Len(stamp)
      BY <2>2, StoredIsStamped
    <3>2. QED
      BY <2>1, <3>1, AskedIsInRange
  <2>4. QED
    BY <2>2, <2>3 DEF Selected
<1>2. QED
  BY <1>1, StoreInvCorrect, PTL

(* The distance of two trades is not more than the one the replay waits    *)
(* for: it wraps round to a longer one, never to a shorter.                *)
LEMMA ElapsedCoversDistance ==
  ASSUME Inv, StoreInv, NEW i \in DOMAIN delivered
  PROVE  /\ ElapsedSim(i) \in Nat
         /\ stamp[rows[i]] - stamp[rows[1]] <= ElapsedSim(i)
<1> DEFINE x == stamp[rows[i]]
           y == stamp[rows[1]]
<1>1. Half \in Nat \ {0} /\ Epoch \in Nat /\ Times \subseteq Epoch .. Half - 1
  BY TimeAssumption
<1>2. 1 \in DOMAIN delivered
  <2>1. Len(delivered) \in Nat /\ DOMAIN delivered = 1 .. Len(delivered)
    BY LenProperties DEF StoreInv, Typed
  <2>2. QED
    BY <2>1
<1>3. x \in Epoch .. Half - 1 /\ y \in Epoch .. Half - 1
  <2>1. x \in Times /\ y \in Times
    BY <1>2, DeliveredRows
  <2>2. QED
    BY <1>1, <2>1
<1>4. ElapsedSim(i) = (x - y) % Modulus
  <2>1. AsSigned(x) = x /\ AsSigned(y) = y
    BY <1>1, <1>3 DEF AsSigned
  <2>2. TickTs(rows[i]) = x % Modulus /\ TickTs(rows[1]) = y % Modulus
    <3>1. KdbTime(rows[i]) = x - Epoch /\ KdbTime(rows[1]) = y - Epoch
      BY <2>1 DEF KdbTime
    <3>2. (x - Epoch) + Epoch = x /\ (y - Epoch) + Epoch = y
      BY <1>1, <1>3
    <3>3. QED
      BY <3>1, <3>2 DEF TickTs
  <2>3. Modulus \in Nat \ {0} /\ x \in Int /\ y \in Int
    BY <1>1, <1>3 DEF Modulus
  <2>4. ((x % Modulus) - (y % Modulus)) % Modulus = (x - y) % Modulus
    BY <2>3, ModSub
  <2>5. QED
    BY <2>2, <2>4 DEF ElapsedSim
<1> HIDE DEF x, y
<1>5. x - y \in Int /\ x - y < Modulus /\ Modulus \in Nat \ {0}
  BY <1>1, <1>3 DEF Modulus
<1>6. (x - y) % Modulus \in 0 .. Modulus - 1
  BY <1>5, DivMod
<1>7. x - y <= (x - y) % Modulus
  <2>1. CASE x - y < 0
    BY <1>5, <1>6, <2>1
  <2>2. CASE x - y >= 0
    <3>1. Modulus * 0 + (x - y) = x - y /\ x - y \in 0 .. Modulus - 1
      BY <1>5, <2>2
    <3>2. (x - y) % Modulus = x - y
      BY <1>5, <3>1, ModUnique
    <3>3. QED
      BY <1>5, <3>2
  <2>3. QED
    BY <1>5, <2>1, <2>2
<1>8. QED
  BY <1>4, <1>6, <1>7 DEF x, y

(* A quotient rounded down is less than one below the exact one.           *)
LEMMA QuotientRoundsDown ==
  ASSUME NEW d \in Int, NEW e \in Nat, NEW s \in Nat \ {0}, NEW w \in Nat,
         d <= e, w >= e \div s
  PROVE  d < (w + 1) * s
<1> DEFINE q == e \div s
           r == e % s
<1>1. q \in Int /\ r \in 0 .. s - 1 /\ e = s * q + r
  BY DivMod
<1>2. w >= q
  OBVIOUS
<1> HIDE DEF q, r
<1>3. w - q >= 0 /\ s * (w - q) >= 0
  BY <1>1, <1>2
<1>4. s * (w - q) = s * w - s * q /\ (w + 1) * s = s * w + s
  BY <1>1
<1>5. QED
  BY <1>1, <1>3, <1>4

(* No trade is delivered before its distance to the first, at the speed    *)
(* asked for, has passed.                                                  *)
THEOREM NoTickIsEarly == SpecStore => []NeverAheadOfTime
<1>1. Inv /\ StoreInv => NeverAheadOfTime
  <2>1. SUFFICES ASSUME Inv, StoreInv, NEW i \in DOMAIN delivered, cli.speed > 0
                 PROVE  stamp[delivered[i].row] - stamp[delivered[1].row]
                          < (delivered[i].at + 1) * cli.speed
    BY DEF NeverAheadOfTime
  <2>2. Len(delivered) \in Nat /\ DOMAIN delivered = 1 .. Len(delivered)
    BY <2>1, LenProperties DEF StoreInv, Typed
  <2>3. 1 \in DOMAIN delivered
    BY <2>2
  <2>4. /\ delivered[i].row = rows[i] /\ delivered[1].row = rows[1]
        /\ stamp[rows[i]] \in Times /\ stamp[rows[1]] \in Times
    BY <2>1, <2>3, DeliveredRows
  <2>5. stamp[rows[i]] \in Int /\ stamp[rows[1]] \in Int
    <3>1. Times \subseteq Int
      BY TimeAssumption
    <3>2. QED
      BY <2>4, <3>1, Zenon
  <2>6. cli.speed \in Nat \ {0}
    <3>1. cli \in [start : Starts \union {0}, end : Ends \union {0}, speed : Speeds \union {0}]
      BY <2>1 DEF StoreInv, Typed
    <3>2. cli.speed \in Speeds \union {0} /\ 0 \in Nat /\ Speeds \subseteq Nat
      BY <3>1, TimeAssumption
    <3>3. cli.speed \in Nat
      BY <3>2, Zenon
    <3>4. QED
      BY <2>1, <3>3
  <2>7. delivered[i].at \in Nat
    <3>1. delivered[i] \in [row : 1 .. MaxRecords["trade"], at : 0 .. MaxWall]
      BY <2>1, <2>2, ElementOfSeq DEF StoreInv, Typed
    <3>2. QED
      BY <3>1, TimeAssumption
  <2> DEFINE d == stamp[rows[i]] - stamp[rows[1]]
             w == delivered[i].at
             s == cli.speed
  <2>8. d \in Int
    BY <2>5
  <2>9. CASE i > 1
    <3>1. ElapsedSim(i) \in Nat /\ d <= ElapsedSim(i)
      BY <2>1, ElapsedCoversDistance
    <3>2. w >= ElapsedSim(i) \div s
      BY <2>1, <2>2, <2>9 DEF StoreInv, Delivering
    <3> HIDE DEF d, w, s
    <3>3. d < (w + 1) * s
      BY <2>6, <2>7, <2>8, <3>1, <3>2, QuotientRoundsDown DEF s, w
    <3>4. QED
      BY <2>4, <3>3 DEF d, w, s
  <2>10. CASE i = 1
    <3>1. d = 0
      BY <2>5, <2>10
    <3>2. 0 \div s = 0 /\ w >= 0
      BY <2>6, <2>7
    <3> HIDE DEF d, w, s
    <3>3. (w + 1) * s > 0
      BY <2>6, <2>7, <3>2 DEF s, w
    <3>4. QED
      BY <2>4, <3>1, <3>3 DEF d, w, s
  <2>11. QED
    BY <2>2, <2>9, <2>10
<1>2. QED
  BY <1>1, StoreInvCorrect, PTL

(* Rows are sent once and in order with a table behind the writer.         *)
THEOREM StoreSentInOrder == SpecStore => []SentOnceInOrder
  BY StoreHasWriter, SentInOrder, PTL

(* Nor does the writer lose any then.                                      *)
THEOREM StoreNothingIsLost == SpecStore => []NothingVanishes
  BY StoreHasWriter, NothingIsLost, PTL
=============================================================================
