--------------------------- MODULE KdbWriter_proofs ---------------------------
(***************************************************************************)
(* Proofs about KdbWriter, for queues, batches and numbers of pushes of    *)
(* any size: the types, that rows are sent once and in order, and that     *)
(* none is lost on the writer's side.                                      *)
(*                                                                         *)
(* Each step of the writer or of a producer is one of seven moves of the   *)
(* rows of a kind; what is proved is proved of the moves.                  *)
(***************************************************************************)
EXTENDS KdbWriter, SequenceTheorems, TLAPS

-----------------------------------------------------------------------------
(* Sequences of numbers.                                                   *)

Rising(s) == \A i, j \in DOMAIN s : i < j => s[i] < s[j]

Below(s, t) == \A i \in DOMAIN s, j \in DOMAIN t : s[i] < t[j]

AtMost(s, n) == \A i \in DOMAIN s : s[i] <= n

(* A concatenation rises when both parts do, the first below the second.   *)
LEMMA RisingConcat ==
  ASSUME NEW s \in Seq(Int), NEW t \in Seq(Int)
  PROVE  Rising(s \o t) <=> Rising(s) /\ Rising(t) /\ Below(s, t)
<1>1. /\ Len(s) \in Nat /\ DOMAIN s = 1 .. Len(s)
      /\ Len(t) \in Nat /\ DOMAIN t = 1 .. Len(t)
  BY LenProperties
<1>2. /\ s \o t \in Seq(Int) /\ Len(s \o t) = Len(s) + Len(t)
      /\ \A i \in 1 .. Len(s) + Len(t) :
           (s \o t)[i] = IF i <= Len(s) THEN s[i] ELSE t[i - Len(s)]
  BY ConcatProperties
<1>3. DOMAIN (s \o t) = 1 .. Len(s) + Len(t)
  BY <1>2, LenProperties
<1>4. ASSUME Rising(s \o t) PROVE Rising(s) /\ Rising(t) /\ Below(s, t)
  <2>1. ASSUME NEW i \in DOMAIN s, NEW j \in DOMAIN s, i < j PROVE s[i] < s[j]
    <3>1. /\ (s \o t)[i] = s[i] /\ (s \o t)[j] = s[j]
          /\ i \in DOMAIN (s \o t) /\ j \in DOMAIN (s \o t)
      BY <1>1, <1>2, <1>3
    <3>2. QED
      BY <1>4, <2>1, <3>1 DEF Rising
  <2>2. ASSUME NEW i \in DOMAIN t, NEW j \in DOMAIN t, i < j PROVE t[i] < t[j]
    <3>1. /\ (s \o t)[Len(s) + i] = t[i] /\ (s \o t)[Len(s) + j] = t[j]
          /\ Len(s) + i \in DOMAIN (s \o t) /\ Len(s) + j \in DOMAIN (s \o t)
      BY <1>1, <1>2, <1>3, <2>2
    <3>2. QED
      BY <1>1, <1>4, <2>2, <3>1 DEF Rising
  <2>3. ASSUME NEW i \in DOMAIN s, NEW j \in DOMAIN t PROVE s[i] < t[j]
    <3>1. /\ (s \o t)[i] = s[i] /\ (s \o t)[Len(s) + j] = t[j]
          /\ i \in DOMAIN (s \o t) /\ Len(s) + j \in DOMAIN (s \o t)
          /\ i < Len(s) + j
      BY <1>1, <1>2, <1>3, <2>3
    <3>2. QED
      BY <1>4, <3>1 DEF Rising
  <2>4. QED
    BY <2>1, <2>2, <2>3 DEF Rising, Below
<1>5. ASSUME Rising(s), Rising(t), Below(s, t),
             NEW i \in DOMAIN (s \o t), NEW j \in DOMAIN (s \o t), i < j
      PROVE  (s \o t)[i] < (s \o t)[j]
  <2>1. CASE j <= Len(s)
    BY <1>1, <1>2, <1>3, <1>5, <2>1 DEF Rising
  <2>2. CASE i <= Len(s) /\ j > Len(s)
    <3>1. i \in DOMAIN s /\ j - Len(s) \in DOMAIN t
      BY <1>1, <1>3, <2>2
    <3>2. (s \o t)[i] = s[i] /\ (s \o t)[j] = t[j - Len(s)]
      BY <1>1, <1>2, <1>3, <2>2
    <3>3. QED
      BY <1>5, <3>1, <3>2 DEF Below
  <2>3. CASE i > Len(s)
    <3>1. i - Len(s) \in DOMAIN t /\ j - Len(s) \in DOMAIN t
          /\ i - Len(s) < j - Len(s)
      BY <1>1, <1>3, <1>5, <2>3
    <3>2. (s \o t)[i] = t[i - Len(s)] /\ (s \o t)[j] = t[j - Len(s)]
      BY <1>1, <1>2, <1>3, <1>5, <2>3
    <3>3. QED
      BY <1>5, <3>1, <3>2 DEF Rising
  <2>4. QED
    BY <1>1, <1>3, <1>5, <2>1, <2>2, <2>3
<1>6. QED
  BY <1>4, <1>5 DEF Rising

(* A concatenation is below, above or bounded as its parts are.            *)
LEMMA BelowConcat ==
  ASSUME NEW s \in Seq(Int), NEW t \in Seq(Int), NEW u \in Seq(Int)
  PROVE  /\ Below(s \o t, u) <=> Below(s, u) /\ Below(t, u)
         /\ Below(u, s \o t) <=> Below(u, s) /\ Below(u, t)
         /\ \A n \in Int : AtMost(s \o t, n) <=> AtMost(s, n) /\ AtMost(t, n)
<1>1. /\ Len(s) \in Nat /\ DOMAIN s = 1 .. Len(s)
      /\ Len(t) \in Nat /\ DOMAIN t = 1 .. Len(t)
  BY LenProperties
<1>2. /\ s \o t \in Seq(Int) /\ Len(s \o t) = Len(s) + Len(t)
      /\ \A i \in 1 .. Len(s) + Len(t) :
           (s \o t)[i] = IF i <= Len(s) THEN s[i] ELSE t[i - Len(s)]
  BY ConcatProperties
<1>3. DOMAIN (s \o t) = 1 .. Len(s) + Len(t)
  BY <1>2, LenProperties
<1>4. \A i \in DOMAIN s : i \in DOMAIN (s \o t) /\ (s \o t)[i] = s[i]
  BY <1>1, <1>2, <1>3
<1>5. \A i \in DOMAIN t : /\ Len(s) + i \in DOMAIN (s \o t)
                          /\ (s \o t)[Len(s) + i] = t[i]
  BY <1>1, <1>2, <1>3
<1>6. \A i \in DOMAIN (s \o t) :
        \/ i \in DOMAIN s /\ (s \o t)[i] = s[i]
        \/ i - Len(s) \in DOMAIN t /\ (s \o t)[i] = t[i - Len(s)]
  BY <1>1, <1>2, <1>3
<1>7. QED
  BY <1>4, <1>5, <1>6 DEF Below, AtMost

(* One number behind the others.                                           *)
LEMMA RisingAppend ==
  ASSUME NEW s \in Seq(Int), NEW n \in Int, NEW e \in Int,
         Rising(s), AtMost(s, n), n < e
  PROVE  Rising(Append(s, e)) /\ AtMost(Append(s, e), e)
<1>1. Len(s) \in Nat /\ DOMAIN s = 1 .. Len(s) /\ \A i \in 1 .. Len(s) : s[i] \in Int
  BY LenProperties, ElementOfSeq
<1>2. /\ Append(s, e) \in Seq(Int) /\ Len(Append(s, e)) = Len(s) + 1
      /\ \A i \in 1 .. Len(s) : Append(s, e)[i] = s[i]
      /\ Append(s, e)[Len(s) + 1] = e
  BY AppendProperties
<1>3. DOMAIN Append(s, e) = 1 .. Len(s) + 1
  BY <1>2, LenProperties
<1>4. QED
  BY <1>1, <1>2, <1>3 DEF Rising, AtMost
-----------------------------------------------------------------------------
(* Types.                                                                  *)

Domains ==
  /\ DOMAIN queue = Kinds /\ DOMAIN batch = Kinds /\ DOMAIN sent = Kinds
  /\ DOMAIN pushed = Kinds /\ DOMAIN accepted = Kinds

RowsTyped(k) ==
  /\ queue[k] \in Rows(k) /\ batch[k] \in Rows(k)
  /\ sent[k] \in Rows(k) /\ accepted[k] \in Rows(k)
  /\ Len(queue[k]) <= Capacity
  /\ pushed[k] \in 0 .. MaxRecords[k]

Places ==
  /\ running \in BOOLEAN /\ connected \in BOOLEAN /\ link \in BOOLEAN
  /\ idle \in BOOLEAN /\ gone \in BOOLEAN
  /\ pc \in {"connect", "check", "flush", "closed"} \union Kinds

(* TypeOK, by places, domains and rows.                                    *)
LEMMA TypeOKIsTyped == TypeOK <=> Places /\ Domains /\ \A k \in Kinds : RowsTyped(k)
<1>1. TypeOK => Places
  BY DEF TypeOK, Places
<1>2. TypeOK => Domains
  BY DEF TypeOK, Domains
<1>3. TypeOK => \A k \in Kinds : RowsTyped(k)
  BY DEF TypeOK, RowsTyped
<1>4. Places /\ Domains /\ (\A k \in Kinds : RowsTyped(k)) => TypeOK
  BY DEF TypeOK, Places, Domains, RowsTyped
<1>5. QED
  BY <1>1, <1>2, <1>3, <1>4

-----------------------------------------------------------------------------
(* The moves of the rows of one kind.                                      *)

Still(k) ==
  /\ queue'[k] = queue[k] /\ batch'[k] = batch[k] /\ sent'[k] = sent[k]
  /\ accepted'[k] = accepted[k] /\ pushed'[k] = pushed[k]

Refused(k) ==
  /\ pushed[k] < MaxRecords[k] /\ pushed'[k] = pushed[k] + 1
  /\ queue'[k] = queue[k] /\ batch'[k] = batch[k] /\ sent'[k] = sent[k]
  /\ accepted'[k] = accepted[k]

Admitted(k) ==
  /\ pushed[k] < MaxRecords[k] /\ pushed'[k] = pushed[k] + 1
  /\ Len(queue[k]) < Capacity
  /\ queue'[k] = Append(queue[k], pushed[k] + 1)
  /\ accepted'[k] = Append(accepted[k], pushed[k] + 1)
  /\ batch'[k] = batch[k] /\ sent'[k] = sent[k]

Batched(k) ==
  /\ queue[k] # <<>> /\ queue'[k] = Tail(queue[k])
  /\ batch'[k] = Append(batch[k], Head(queue[k]))
  /\ sent'[k] = sent[k] /\ accepted'[k] = accepted[k] /\ pushed'[k] = pushed[k]

Dropped(k) ==
  /\ ~connected' /\ pc' # "connect"
  /\ queue[k] # <<>> /\ queue'[k] = Tail(queue[k])
  /\ batch'[k] = batch[k]
  /\ sent'[k] = sent[k] /\ accepted'[k] = accepted[k] /\ pushed'[k] = pushed[k]

SentOff(k) ==
  /\ sent'[k] = sent[k] \o batch[k] /\ batch'[k] = <<>>
  /\ queue'[k] = queue[k] /\ accepted'[k] = accepted[k] /\ pushed'[k] = pushed[k]

LostOff(k) ==
  /\ (gone' /\ pc' # "connect") \/ batch[k] = <<>>
  /\ sent'[k] = sent[k] /\ batch'[k] = <<>>
  /\ queue'[k] = queue[k] /\ accepted'[k] = accepted[k] /\ pushed'[k] = pushed[k]

Move(k) == \/ Still(k) \/ Refused(k) \/ Admitted(k) \/ Batched(k)
           \/ Dropped(k) \/ SentOff(k) \/ LostOff(k)

(* A flush of some kinds moves the batches of those, and no others.        *)
LEMMA FlushMoves ==
  ASSUME Domains, NEW ks \in SUBSET Kinds, Flush(ks), pc' # "connect",
         UNCHANGED <<queue, accepted, pushed>>, NEW k \in Kinds
  PROVE  Move(k)
<1>1. CASE k \notin ks
  <2>1. sent'[k] = sent[k]
    BY <1>1 DEF Flush, Arrive
  <2>2. batch'[k] = batch[k]
    BY <1>1 DEF Flush
  <2>3. QED
    BY <2>1, <2>2 DEF Move, Still
<1>2. CASE k \in ks /\ link
  <2>1. sent'[k] = sent[k] \o batch[k]
    BY <1>2 DEF Flush, Arrive
  <2>2. batch'[k] = <<>>
    BY <1>2 DEF Flush
  <2>3. QED
    BY <2>1, <2>2 DEF Move, SentOff
<1>3. CASE k \in ks /\ ~link
  <2>1. sent'[k] = sent[k]
    BY <1>3 DEF Flush, Arrive
  <2>2. batch'[k] = <<>>
    BY <1>3 DEF Flush
  <2>3. gone' \/ batch[k] = <<>>
    BY <1>3, Zenon DEF Flush, Arrive
  <2>4. QED
    BY <2>1, <2>2, <2>3 DEF Move, LostOff
<1>4. QED
  BY <1>1, <1>2, <1>3

(* A flush keeps a batch and the sent rows for each kind.                  *)
LEMMA FlushKeepsDomains ==
  ASSUME NEW ks \in SUBSET Kinds, Flush(ks)
  PROVE  DOMAIN sent' = Kinds /\ DOMAIN batch' = Kinds
<1>1. DOMAIN sent' = Kinds
  BY DEF Flush, Arrive
<1>2. DOMAIN batch' = Kinds
  BY DEF Flush
<1>3. QED
  BY <1>1, <1>2

(* A step moves each kind and keeps the domains.                           *)
LEMMA StepMoves ==
  ASSUME Domains, [Next]_vars
  PROVE  Domains' /\ \A k \in Kinds : Move(k)
<1>1. ASSUME NEW c \in Kinds, Push(c) PROVE Domains' /\ \A k \in Kinds : Move(k)
  <2>1. Domains'
    BY <1>1 DEF Push, Domains, writerVars
  <2>2. ASSUME NEW k \in Kinds PROVE Move(k)
    <3>1. CASE k # c
      BY <1>1, <3>1 DEF Push, Domains, writerVars, Move, Still
    <3>2. CASE k = c /\ HasRoom(c)
      BY <1>1, <3>2 DEF Push, HasRoom, Domains, writerVars, Move, Admitted
    <3>3. CASE k = c /\ ~HasRoom(c)
      BY <1>1, <3>3 DEF Push, Domains, writerVars, Move, Refused
    <3>4. QED
      BY <3>1, <3>2, <3>3
  <2>3. QED
    BY <2>1, <2>2
<1>2. CASE UNCHANGED <<queue, batch, sent, accepted, pushed>>
  BY <1>2 DEF Domains, Move, Still
<1>3. ASSUME NEW c \in Kinds, Drain(c) PROVE Domains' /\ \A k \in Kinds : Move(k)
  <2>1. Domains'
    BY <1>3 DEF Drain, InBatch, Domains, producerVars
  <2>2. ASSUME NEW k \in Kinds PROVE Move(k)
    <3>1. CASE k # c
      BY <1>3, <3>1 DEF Drain, InBatch, Domains, producerVars, Move, Still
    <3>2. CASE k = c /\ connected
      BY <1>3, <3>2 DEF Drain, InBatch, Domains, producerVars, Move, Batched
    <3>3. CASE k = c /\ ~connected
      BY <1>3, <3>3 DEF Drain, Kinds, Domains, producerVars, Move, Dropped
    <3>4. QED
      BY <3>1, <3>2, <3>3
  <2>3. QED
    BY <2>1, <2>2
<1>4. ASSUME NEW ks \in SUBSET Kinds, Flush(ks), pc' # "connect",
             UNCHANGED <<queue, producerVars>>
      PROVE  Domains' /\ \A k \in Kinds : Move(k)
  <2>1. UNCHANGED <<queue, accepted, pushed>>
    BY <1>4 DEF producerVars
  <2>2. \A k \in Kinds : Move(k)
    BY <1>4, <2>1, FlushMoves
  <2>3. DOMAIN sent' = Kinds /\ DOMAIN batch' = Kinds
    BY <1>4, FlushKeepsDomains
  <2>4. QED
    BY <2>1, <2>2, <2>3 DEF Domains
<1>5. CASE EndRound
  <2>1. Due \in SUBSET Kinds
    BY DEF Due, FullBatches
  <2>2. Flush(Due) /\ pc' # "connect" /\ UNCHANGED <<queue, producerVars>>
    BY <1>5 DEF EndRound
  <2>3. QED
    BY <1>4, <2>1, <2>2
<1>6. CASE Close
  <2>1. Flush(Kinds) /\ pc' # "connect" /\ UNCHANGED <<queue, producerVars>>
    BY <1>6 DEF Close
  <2>2. QED
    BY <1>4, <2>1
<1>7. CASE Stop \/ LinkFails \/ Connect \/ BeginRound \/ Ended \/ UNCHANGED vars
           \/ \E k \in Kinds : Drained(k)
  BY <1>2, <1>7 DEF Stop, LinkFails, Connect, BeginRound, Drained, Ended, vars,
                    writerVars, producerVars
<1>8. QED
  BY <1>1, <1>3, <1>5, <1>6, <1>7 DEF Next, Writer
-----------------------------------------------------------------------------
(* The types.                                                              *)

(* Every row is a number.                                                  *)
LEMMA RowsAreNumbers ==
  ASSUME NEW k \in Kinds, RowsTyped(k)
  PROVE  /\ queue[k] \in Seq(Int) /\ batch[k] \in Seq(Int)
         /\ sent[k] \in Seq(Int) /\ accepted[k] \in Seq(Int)
         /\ pushed[k] \in Int
<1>1. 1 .. MaxRecords[k] \subseteq Int
  BY BoundAssumption
<1>2. QED
  BY <1>1, SeqMonotonic, BoundAssumption DEF RowsTyped, Rows

(* A move keeps the rows of its kind typed and the queue within its room.  *)
LEMMA MoveKeepsRowsTyped ==
  ASSUME NEW k \in Kinds, RowsTyped(k), Move(k)
  PROVE  RowsTyped(k)'
<1> DEFINE S == 1 .. MaxRecords[k]
<1>1. /\ Capacity \in Nat /\ MaxRecords[k] \in Nat
  BY BoundAssumption
<1>2. /\ queue[k] \in Seq(S) /\ batch[k] \in Seq(S) /\ sent[k] \in Seq(S)
      /\ accepted[k] \in Seq(S) /\ <<>> \in Seq(S)
      /\ Len(queue[k]) <= Capacity /\ Len(queue[k]) \in Nat
      /\ pushed[k] \in 0 .. MaxRecords[k]
  BY LenProperties, EmptySeq DEF RowsTyped, Rows
<1>3. SUFFICES /\ queue'[k] \in Seq(S) /\ batch'[k] \in Seq(S)
               /\ sent'[k] \in Seq(S) /\ accepted'[k] \in Seq(S)
               /\ Len(queue'[k]) <= Capacity
               /\ pushed'[k] \in 0 .. MaxRecords[k]
  BY DEF RowsTyped, Rows
<1>4. pushed[k] < MaxRecords[k] => pushed[k] + 1 \in S /\ pushed[k] + 1 \in 0 .. MaxRecords[k]
  BY <1>1, <1>2
<1> HIDE DEF S
<1>5. CASE Still(k) \/ Refused(k) \/ LostOff(k)
  BY <1>2, <1>4, <1>5 DEF Still, Refused, LostOff
<1>6. CASE Admitted(k)
  <2>1. /\ Append(queue[k], pushed[k] + 1) \in Seq(S)
        /\ Len(Append(queue[k], pushed[k] + 1)) = Len(queue[k]) + 1
        /\ Append(accepted[k], pushed[k] + 1) \in Seq(S)
    BY <1>2, <1>4, <1>6, AppendProperties DEF Admitted
  <2>2. Len(queue[k]) + 1 <= Capacity
    BY <1>1, <1>2, <1>6 DEF Admitted
  <2>3. QED
    BY <1>2, <1>4, <1>6, <2>1, <2>2 DEF Admitted
<1>7. CASE Batched(k) \/ Dropped(k)
  <2>1. queue[k] # <<>>
    BY <1>7 DEF Batched, Dropped
  <2>2. /\ Head(queue[k]) \in S /\ Tail(queue[k]) \in Seq(S)
        /\ Len(Tail(queue[k])) = Len(queue[k]) - 1
    BY <1>2, <2>1, HeadTailProperties
  <2>3. Append(batch[k], Head(queue[k])) \in Seq(S)
    BY <1>2, <2>2, AppendProperties
  <2>4. Len(Tail(queue[k])) <= Capacity
    BY <1>1, <1>2, <2>2
  <2>5. QED
    BY <1>2, <1>7, <2>2, <2>3, <2>4 DEF Batched, Dropped
<1>8. CASE SentOff(k)
  <2>1. sent[k] \o batch[k] \in Seq(S)
    BY <1>2, ConcatProperties
  <2>2. QED
    BY <1>2, <1>8, <2>1 DEF SentOff
<1>9. QED
  BY <1>5, <1>6, <1>7, <1>8 DEF Move

(* Every step leaves the writer at one of its places.                      *)
LEMMA StepKeepsPlaces ==
  ASSUME Places, [Next]_vars
  PROVE  Places'
<1>1. ASSUME NEW k \in Kinds, Push(k) PROVE Places'
  BY <1>1, Zenon DEF Push, Places, writerVars
<1>2. CASE Stop
  BY <1>2, Zenon DEF Stop, Places, writerVars
<1>3. CASE LinkFails
  BY <1>3, Zenon DEF LinkFails, Places, writerVars
<1>4. CASE Connect
  <2>1. connected' \in BOOLEAN
    BY <1>4 DEF Connect
  <2>2. QED
    BY <1>4, <2>1, Zenon DEF Connect, Places
<1>5. CASE BeginRound
  BY <1>5, Zenon DEF BeginRound, Places, Kinds
<1>6. ASSUME NEW k \in Kinds, Drain(k) PROVE Places'
  BY <1>6, Zenon DEF Drain, Places
<1>7. ASSUME NEW k \in Kinds, Drained(k) PROVE Places'
  <2>1. pc' \in {"connect", "check", "flush", "closed"} \union Kinds
    BY <1>7 DEF Drained, Kinds
  <2>2. QED
    BY <1>7, <2>1, Zenon DEF Drained, Places
<1>8. ASSUME NEW ks, Arrive(ks) PROVE gone' \in BOOLEAN
  BY <1>8, Zenon DEF Arrive
<1>9. CASE EndRound
  <2>1. gone' \in BOOLEAN
    BY <1>8, <1>9 DEF EndRound, Flush
  <2>2. QED
    BY <1>9, <2>1, Zenon DEF EndRound, Places
<1>10. CASE Close
  <2>1. gone' \in BOOLEAN
    BY <1>8, <1>10 DEF Close, Flush
  <2>2. QED
    BY <1>10, <2>1, Zenon DEF Close, Places
<1>11. CASE Ended \/ UNCHANGED vars
  BY <1>11, Zenon DEF Ended, Places, vars, writerVars
<1>12. QED
  BY <1>1, <1>2, <1>3, <1>4, <1>5, <1>6, <1>7, <1>9, <1>10, <1>11, Zenon DEF Next, Writer

(* The state begins with its types.                                        *)
LEMMA InitTyped == Init => TypeOK
<1>1. Init => Places
  BY Zenon DEF Init, Places
<1>2. Init => Domains
  BY DEF Init, Domains, Empty
<1>3. ASSUME Init, NEW k \in Kinds PROVE RowsTyped(k)
  BY <1>3, BoundAssumption, EmptySeq DEF Init, Empty, RowsTyped, Rows
<1>4. QED
  BY <1>1, <1>2, <1>3, TypeOKIsTyped

(* The state of the writer keeps its types: the queues keep their bound.   *)
THEOREM TypeCorrect == Spec => []TypeOK
<1>1. TypeOK /\ [Next]_vars => TypeOK'
  <2>1. SUFFICES ASSUME TypeOK, [Next]_vars PROVE TypeOK'
    OBVIOUS
  <2>2. Places /\ Domains /\ \A k \in Kinds : RowsTyped(k)
    BY <2>1, TypeOKIsTyped
  <2>3. Places'
    BY <2>1, <2>2, StepKeepsPlaces
  <2>4. Domains' /\ \A k \in Kinds : Move(k)
    BY <2>1, <2>2, StepMoves
  <2>5. \A k \in Kinds : RowsTyped(k)'
    BY <2>2, <2>4, MoveKeepsRowsTyped
  <2>6. (Places /\ Domains /\ \A k \in Kinds : RowsTyped(k))'
    BY <2>3, <2>4, <2>5
  <2>7. QED
    BY <2>6, TypeOKIsTyped, PTL
<1>2. QED
  BY <1>1, InitTyped, PTL DEF Spec
-----------------------------------------------------------------------------
(* The way of the rows from the queue to the server.                       *)

Way(k) == sent[k] \o batch[k] \o queue[k]

(* Concatenating is associative.                                           *)
LEMMA ConcatNumbers ==
  \A s, t, u \in Seq(Int) : s \o t \o u = s \o (t \o u)
  BY ConcatAssociative

(* Appending is concatenating one number.                                  *)
LEMMA AppendNumber ==
  \A s \in Seq(Int), e \in Int : Append(s, e) = s \o <<e>>
  BY AppendIsConcat

(* A sequence is its first element and the rest.                           *)
LEMMA HeadThenTail ==
  ASSUME NEW s \in Seq(Int), s # <<>>
  PROVE  /\ Head(s) \in Int /\ Tail(s) \in Seq(Int) /\ <<Head(s)>> \in Seq(Int)
         /\ s = <<Head(s)>> \o Tail(s)
<1>1. /\ Head(s) \in Int /\ Tail(s) \in Seq(Int) /\ Len(Tail(s)) = Len(s) - 1
      /\ \A i \in 1 .. Len(Tail(s)) : Tail(s)[i] = s[i + 1]
  BY HeadTailProperties
<1>2. <<Head(s)>> \in Seq(Int) /\ Len(<<Head(s)>>) = 1 /\ <<Head(s)>>[1] = Head(s)
  BY <1>1
<1>3. Len(s) \in Nat \ {0} /\ Head(s) = s[1]
  BY EmptySeq
<1>4. /\ <<Head(s)>> \o Tail(s) \in Seq(Int)
      /\ Len(<<Head(s)>> \o Tail(s)) = Len(s)
      /\ \A i \in 1 .. Len(s) : (<<Head(s)>> \o Tail(s))[i] =
                                  IF i <= 1 THEN Head(s) ELSE Tail(s)[i - 1]
  BY <1>1, <1>2, <1>3, ConcatProperties
<1>5. \A i \in 1 .. Len(s) : (<<Head(s)>> \o Tail(s))[i] = s[i]
  BY <1>1, <1>3, <1>4
<1>6. QED
  BY <1>1, <1>2, <1>4, <1>5, SeqEqual

(* What a move does to the way: it keeps it, adds the accepted record at   *)
(* its end, or takes some rows out of it.                                  *)
LEMMA MoveOnTheWay ==
  ASSUME NEW k \in Kinds, RowsTyped(k), Move(k)
  PROVE  \/ /\ Way(k)' = Way(k) /\ accepted'[k] = accepted[k]
            /\ pushed'[k] \in {pushed[k], pushed[k] + 1}
         \/ /\ Way(k)' = Append(Way(k), pushed[k] + 1)
            /\ accepted'[k] = Append(accepted[k], pushed[k] + 1)
            /\ pushed'[k] = pushed[k] + 1
         \/ /\ Dropped(k) \/ (LostOff(k) /\ batch[k] # <<>>)
<1>1. /\ queue[k] \in Seq(Int) /\ batch[k] \in Seq(Int)
      /\ sent[k] \in Seq(Int) /\ accepted[k] \in Seq(Int)
      /\ pushed[k] \in Int
  BY RowsAreNumbers
<1>2. sent[k] \o batch[k] \in Seq(Int) /\ batch[k] \o queue[k] \in Seq(Int)
  BY <1>1, ConcatProperties
<1>3. Way(k)' = sent'[k] \o batch'[k] \o queue'[k]
  BY DEF Way
<1>4. CASE Still(k) \/ Refused(k) \/ (LostOff(k) /\ batch[k] = <<>>)
  BY <1>3, <1>4 DEF Still, Refused, LostOff, Way
<1>5. CASE Admitted(k)
  <2> DEFINE e == pushed[k] + 1
             f == <<pushed[k] + 1>>
             q == queue[k]
             b == sent[k] \o batch[k]
  <2>1. e \in Int /\ f \in Seq(Int) /\ q \in Seq(Int) /\ b \in Seq(Int) /\ f = <<e>>
    BY <1>1, <1>2
  <2>2. Way(k) = b \o q /\ Way(k)' = b \o Append(q, e)
    BY <1>3, <1>5 DEF Admitted, Way
  <2>3. QED
    <3> HIDE DEF e, f, q, b
    <3>1. b \o q \in Seq(Int)
      BY <2>1, ConcatProperties
    <3>2. Append(q, e) = q \o f /\ Append(b \o q, e) = b \o q \o f
      BY <2>1, <3>1, AppendNumber
    <3>3. b \o (q \o f) = b \o q \o f
      BY <2>1, ConcatNumbers
    <3>4. Way(k)' = Append(Way(k), e)
      BY <2>2, <3>2, <3>3
    <3>5. QED
      BY <1>5, <3>4 DEF Admitted, e
<1>6. CASE Batched(k)
  <2> DEFINE e == Head(queue[k])
             h == <<Head(queue[k])>>
             t == Tail(queue[k])
             a == sent[k]
             b == batch[k]
  <2>1. /\ queue[k] = h \o t /\ h \in Seq(Int) /\ t \in Seq(Int) /\ e \in Int
        /\ h = <<e>> /\ a \in Seq(Int) /\ b \in Seq(Int)
    BY <1>1, <1>6, HeadThenTail DEF Batched
  <2>2. Way(k) = a \o b \o queue[k] /\ Way(k)' = a \o Append(b, e) \o t
    BY <1>3, <1>6 DEF Batched, Way
  <2>3. Way(k)' = Way(k)
    <3> HIDE DEF e, h, t, a, b
    <3>1. Append(b, e) = b \o h
      BY <2>1, AppendNumber
    <3>2. a \o b \in Seq(Int)
      BY <2>1, ConcatProperties
    <3>3. a \o (b \o h) = a \o b \o h
      BY <2>1, ConcatNumbers
    <3>4. a \o b \o h \o t = a \o b \o (h \o t)
      BY <2>1, <3>2, ConcatNumbers
    <3>5. QED
      BY <2>1, <2>2, <3>1, <3>3, <3>4
  <2>4. QED
    BY <1>6, <2>3 DEF Batched
<1>7. CASE SentOff(k)
  <2>1. sent[k] \o batch[k] \o <<>> = sent[k] \o batch[k]
    BY <1>2, ConcatEmptySeq
  <2>2. QED
    BY <1>3, <1>7, <2>1 DEF SentOff, Way
<1>8. QED
  BY <1>4, <1>5, <1>6, <1>7 DEF Move

(* Rows that are taken out leave the others in order.                      *)
LEMMA LossKeepsOrder ==
  ASSUME NEW k \in Kinds, RowsTyped(k), Dropped(k) \/ LostOff(k),
         Rising(Way(k)), AtMost(Way(k), pushed[k])
  PROVE  Rising(Way(k))' /\ AtMost(Way(k), pushed[k])'
<1>1. /\ queue[k] \in Seq(Int) /\ batch[k] \in Seq(Int) /\ sent[k] \in Seq(Int)
      /\ <<>> \in Seq(Int) /\ pushed[k] \in Int
  BY RowsAreNumbers
<1>2. sent[k] \o batch[k] \in Seq(Int)
  BY <1>1, ConcatProperties
<1>3. Way(k)' = sent'[k] \o batch'[k] \o queue'[k] /\ pushed'[k] = pushed[k]
  BY DEF Way, Dropped, LostOff
<1>4. /\ Rising(sent[k] \o batch[k]) /\ Rising(queue[k])
      /\ Below(sent[k] \o batch[k], queue[k])
  BY <1>1, <1>2, RisingConcat DEF Way
<1>5. /\ AtMost(sent[k] \o batch[k], pushed[k]) /\ AtMost(queue[k], pushed[k])
  BY <1>1, <1>2, BelowConcat DEF Way
<1>6. CASE Dropped(k)
  <2> DEFINE h == <<Head(queue[k])>>
             t == Tail(queue[k])
  <2>1. queue[k] = h \o t /\ h \in Seq(Int) /\ t \in Seq(Int)
    BY <1>1, <1>6, HeadThenTail DEF Dropped
  <2>2. Way(k)' = sent[k] \o batch[k] \o t
    BY <1>3, <1>6 DEF Dropped
  <2> HIDE DEF h, t
  <2>3. Rising(t)
    BY <1>4, <2>1, RisingConcat
  <2>4. Below(sent[k] \o batch[k], t) /\ AtMost(t, pushed[k])
    <3>1. Below(sent[k] \o batch[k], h \o t) /\ AtMost(h \o t, pushed[k])
      BY <1>4, <1>5, <2>1
    <3>2. Below(sent[k] \o batch[k], t)
      <4> DEFINE b == sent[k] \o batch[k]
      <4>1. b \in Seq(Int) /\ Below(b, h \o t)
        BY <1>2, <3>1
      <4> HIDE DEF b
      <4>2. Below(b, t)
        BY <2>1, <4>1, BelowConcat
      <4>3. QED
        BY <4>2 DEF b
    <3>3. AtMost(t, pushed[k])
      BY <1>1, <2>1, <3>1, BelowConcat
    <3>4. QED
      BY <3>2, <3>3
  <2>5. Rising(sent[k] \o batch[k] \o t)
    BY <1>2, <1>4, <2>1, <2>3, <2>4, RisingConcat
  <2>6. AtMost(sent[k] \o batch[k] \o t, pushed[k])
    BY <1>1, <1>2, <1>5, <2>1, <2>4, BelowConcat
  <2>7. QED
    BY <1>3, <2>2, <2>5, <2>6
<1>7. CASE LostOff(k)
  <2>1. Way(k)' = sent[k] \o queue[k]
    BY <1>1, <1>3, <1>7, ConcatEmptySeq DEF LostOff
  <2>2. Rising(sent[k])
    BY <1>1, <1>4, RisingConcat
  <2>3. Below(sent[k], queue[k]) /\ AtMost(sent[k], pushed[k])
    BY <1>1, <1>4, <1>5, BelowConcat
  <2>4. Rising(sent[k] \o queue[k])
    BY <1>1, <1>4, <2>2, <2>3, RisingConcat
  <2>5. AtMost(sent[k] \o queue[k], pushed[k])
    BY <1>1, <1>5, <2>3, BelowConcat
  <2>6. QED
    BY <1>3, <2>1, <2>4, <2>5
<1>8. QED
  BY <1>6, <1>7

(* The invariant: the rows on the way rise and none is newer than the last *)
(* push; they are all that was accepted until the connection is refused or *)
(* a batch lost.                                                           *)
Ordered(k) == Rising(Way(k)) /\ AtMost(Way(k), pushed[k])

Whole(k) == pc = "connect" \/ (connected /\ ~gone) => Way(k) = accepted[k]

(* Every move keeps the order.                                             *)
LEMMA MoveKeepsOrdered ==
  ASSUME NEW k \in Kinds, RowsTyped(k), Move(k), Ordered(k)
  PROVE  Ordered(k)'
<1>1. pushed[k] \in Int /\ Way(k) \in Seq(Int)
  <2>1. /\ queue[k] \in Seq(Int) /\ batch[k] \in Seq(Int) /\ sent[k] \in Seq(Int)
        /\ pushed[k] \in Int
    BY RowsAreNumbers
  <2>2. sent[k] \o batch[k] \in Seq(Int)
    BY <2>1, ConcatProperties
  <2>3. QED
    BY <2>1, <2>2, ConcatProperties DEF Way
<1>2. \A i \in DOMAIN Way(k) : Way(k)[i] \in Int
  BY <1>1, LenProperties, ElementOfSeq
<1>3. CASE /\ Way(k)' = Way(k)
           /\ pushed'[k] \in {pushed[k], pushed[k] + 1}
  <2>1. Rising(Way(k)')
    BY <1>3 DEF Ordered
  <2>2. AtMost(Way(k), pushed[k])
    BY DEF Ordered
  <2>3. AtMost(Way(k), pushed'[k])
    <3> DEFINE W == Way(k)
    <3>1. \A i \in DOMAIN W : W[i] \in Int /\ W[i] <= pushed[k]
      BY <1>2, <2>2 DEF AtMost
    <3>2. pushed'[k] \in Int /\ pushed[k] <= pushed'[k]
      BY <1>1, <1>3
    <3> HIDE DEF W
    <3>3. \A i \in DOMAIN W : W[i] <= pushed'[k]
      BY <1>1, <3>1, <3>2
    <3>4. QED
      BY <3>3 DEF W, AtMost
  <2>4. QED
    BY <1>3, <2>1, <2>3 DEF Ordered
<1>4. CASE /\ Way(k)' = Append(Way(k), pushed[k] + 1)
           /\ pushed'[k] = pushed[k] + 1
  <2>1. Rising(Way(k)) /\ AtMost(Way(k), pushed[k])
    BY DEF Ordered
  <2>2. /\ Rising(Append(Way(k), pushed[k] + 1))
        /\ AtMost(Append(Way(k), pushed[k] + 1), pushed[k] + 1)
    BY <1>1, <2>1, RisingAppend
  <2>3. QED
    BY <1>4, <2>2 DEF Ordered
<1>5. CASE Dropped(k) \/ LostOff(k)
  BY <1>5, LossKeepsOrder DEF Ordered
<1>6. QED
  BY <1>3, <1>4, <1>5, MoveOnTheWay

(* A connection that is up was up before, or was just made; a batch that   *)
(* is lost is remembered.                                                  *)
LEMMA StepKeepsHistory ==
  ASSUME [Next]_vars
  PROVE  pc' = "connect" \/ (connected' /\ ~gone')
           => pc = "connect" \/ (connected /\ ~gone)
<1>1. ASSUME NEW k \in Kinds, Push(k) PROVE UNCHANGED <<pc, connected, gone>>
  BY <1>1 DEF Push, writerVars
<1>2. CASE Connect
  BY <1>2 DEF Connect
<1>3. ASSUME NEW ks, Arrive(ks) PROVE gone => gone'
  BY <1>3, Zenon DEF Arrive
<1>4. CASE EndRound
  <2>1. pc' # "connect" /\ UNCHANGED connected
    BY <1>4 DEF EndRound
  <2>2. gone => gone'
    BY <1>3, <1>4 DEF EndRound, Flush
  <2>3. QED
    BY <2>1, <2>2, Zenon
<1>5. CASE Close
  <2>1. pc' # "connect" /\ UNCHANGED connected
    BY <1>5 DEF Close
  <2>2. gone => gone'
    BY <1>3, <1>5 DEF Close, Flush
  <2>3. QED
    BY <2>1, <2>2, Zenon
<1>6. ASSUME NEW k \in Kinds, Drain(k) \/ Drained(k)
      PROVE  pc' # "connect" /\ UNCHANGED <<connected, gone>>
  BY <1>6 DEF Drain, Drained, Kinds
<1>7. CASE BeginRound
  BY <1>7, Zenon DEF BeginRound
<1>8. CASE Stop \/ LinkFails \/ Ended \/ UNCHANGED vars
  BY <1>8, Zenon DEF Stop, LinkFails, Ended, vars, writerVars
<1>9. QED
  BY <1>1, <1>2, <1>4, <1>5, <1>6, <1>7, <1>8, Zenon DEF Next, Writer

(* Every move keeps the way whole where it has to be.                      *)
LEMMA MoveKeepsWhole ==
  ASSUME NEW k \in Kinds, RowsTyped(k), Move(k), Whole(k), [Next]_vars
  PROVE  Whole(k)'
<1>1. SUFFICES ASSUME pc' = "connect" \/ (connected' /\ ~gone')
               PROVE  Way(k)' = accepted'[k]
  BY DEF Whole
<1>2. Way(k) = accepted[k]
  BY <1>1, StepKeepsHistory, Zenon DEF Whole
<1>3. ~(Dropped(k) \/ (LostOff(k) /\ batch[k] # <<>>))
  BY <1>1, Zenon DEF Dropped, LostOff
<1>4. QED
  BY <1>2, <1>3, MoveOnTheWay

Inv == TypeOK /\ \A k \in Kinds : Ordered(k) /\ Whole(k)

(* The invariant holds at first and is kept by every step.                 *)
THEOREM InvCorrect == Spec => []Inv
<1>1. Init => Inv
  <2>1. ASSUME Init, NEW k \in Kinds PROVE Way(k) = <<>> /\ accepted[k] = <<>>
    <3>1. sent[k] = <<>> /\ batch[k] = <<>> /\ queue[k] = <<>> /\ accepted[k] = <<>>
      BY <2>1 DEF Init, Empty
    <3>2. <<>> \o <<>> = <<>>
      BY EmptySeq, ConcatEmptySeq
    <3>3. QED
      BY <3>1, <3>2 DEF Way
  <2>2. ASSUME NEW s, s = <<>>, NEW n PROVE Rising(s) /\ AtMost(s, n)
    BY <2>2 DEF Rising, AtMost
  <2>3. ASSUME Init, NEW k \in Kinds PROVE Ordered(k) /\ Whole(k)
    BY <2>1, <2>2, <2>3 DEF Ordered, Whole
  <2>4. QED
    BY <2>3, InitTyped DEF Inv
<1>2. TypeOK /\ TypeOK' /\ Inv /\ [Next]_vars => Inv'
  <2>1. SUFFICES ASSUME TypeOK, TypeOK', Inv, [Next]_vars PROVE Inv'
    OBVIOUS
  <2>2. Domains /\ \A k \in Kinds : RowsTyped(k)
    BY <2>1, TypeOKIsTyped
  <2>3. \A k \in Kinds : Move(k)
    BY <2>1, <2>2, StepMoves
  <2>4. \A k \in Kinds : Ordered(k)'
    BY <2>1, <2>2, <2>3, MoveKeepsOrdered DEF Inv
  <2>5. \A k \in Kinds : Whole(k)'
    BY <2>1, <2>2, <2>3, MoveKeepsWhole DEF Inv
  <2>6. QED
    BY <2>1, <2>4, <2>5 DEF Inv
<1>3. QED
  BY <1>1, <1>2, TypeCorrect, PTL DEF Spec

(* The writer sends no row twice and lets none overtake another of its     *)
(* kind, whatever becomes of the connection, for queues and batches of any *)
(* size.                                                                   *)
THEOREM SentInOrder == Spec => []SentOnceInOrder
<1>1. Inv => SentOnceInOrder
  BY DEF Inv, Ordered, Rising, Way, SentOnceInOrder
<1>2. QED
  BY <1>1, InvCorrect, PTL

(* Until a batch is sent over a lost connection, no record that a queue    *)
(* took is missing on the way to the server.                               *)
THEOREM NothingIsLost == Spec => []NothingVanishes
<1>1. Inv => NothingVanishes
  BY DEF Inv, Whole, Way, NothingVanishes
<1>2. QED
  BY <1>1, InvCorrect, PTL
=============================================================================
