----------------------- MODULE SPSCRingBuffer_proofs -----------------------
(***************************************************************************)
(* Proofs about the ring buffer, for every number of slots N, every        *)
(* counter modulus W that is a multiple of N, and every set of items.      *)
(*                                                                         *)
(* The argument: undo the wrapping.  IndexOrder says exactly that the four *)
(* indices are the remainders modulo W of four integers ps <= t <= cs <= h *)
(* with h < ps + N (Unwrapped).  Those integers move by plain additions,   *)
(* so each step is linear arithmetic, and two integers less than N apart   *)
(* have different remainders modulo N, hence different slots.              *)
(***************************************************************************)
EXTENDS SPSCRingBuffer, RemainderLemmas, SequenceTheorems, TLAPS

-----------------------------------------------------------------------------
(* Indices and slots.                                                      *)

(* The wrapped difference of two indices less than W apart is their        *)
(* difference, and a wrapped increment is an increment.                    *)
LEMMA DistUnwrap ==
  ASSUME NEW a \in Int, NEW b \in Int, a <= b, b - a < W
  PROVE  Dist(a % W, b % W) = b - a
<1>1. W \in Nat \ {0}
  BY NAssumption, WAssumption
<1>2. ((b % W) - (a % W)) % W = (b - a) % W
  BY <1>1, ModSub
<1>3. (b - a) % W = b - a
  BY <1>1
<1> QED
  BY <1>2, <1>3 DEF Dist

(* A step of a wrapped index is the wrapped step.                          *)
LEMMA StepUnwrap ==
  ASSUME NEW a \in Int, NEW k \in Int
  PROVE  Step(a % W, k) = (a + k) % W
<1>1. W \in Nat \ {0}
  BY NAssumption, WAssumption
<1> QED
  BY <1>1, ModAdd DEF Step

(* Because N divides W, the slot of a counter does not depend on how often *)
(* the counter has wrapped.                                                *)
LEMMA SlotUnwrap ==
  ASSUME NEW a \in Int
  PROVE  Slot(a % W) = a % N
<1>0. W \in Nat \ {0} /\ N \in Nat \ {0}
  BY NAssumption, WAssumption
<1> DEFINE q == a \div W
           r == a % W
           k == W \div N
<1>1. q \in Int /\ r \in 0 .. W - 1 /\ a = W * q + r
  BY <1>0, DivMod
<1>2. k \in Int /\ W = N * k
  BY <1>0, WAssumption, DivMod
<1> HIDE DEF q, r, k
<1>3. k * q \in Int /\ a = r + N * (k * q)
  <2>1. W * q = N * (k * q)
    BY <1>0, <1>1, <1>2
  <2> QED
    BY <1>1, <1>2, <2>1
<1>4. (r + N * (k * q)) % N = r % N
  <2>1. r \in Int
    BY <1>0, <1>1
  <2> QED
    BY <1>0, <1>3, <2>1, ModAddMultiple
<1> QED
  BY <1>3, <1>4 DEF Slot, r

(* Two indices less than N apart designate different slots.                *)
LEMMA SlotsDiffer ==
  ASSUME NEW a \in Int, NEW b \in Int, a < b, b - a < N
  PROVE  Slot(a % W) # Slot(b % W)
  BY SlotUnwrap, ModDistinct, NAssumption

-----------------------------------------------------------------------------
(* Type correctness: every variable keeps its type, whatever the program   *)
(* counters and the wrapped indices do.                                    *)
THEOREM TypeCorrect == Spec => []TypeOK
<1> USE NAssumption, WAssumption
<1>1. Init => TypeOK
  BY DEF Init, TypeOK, Slots, Indices
<1>2. TypeOK /\ [Next]_vars => TypeOK'
  <2> SUFFICES ASSUME TypeOK, [Next]_vars
               PROVE  TypeOK'
    OBVIOUS
  <2>0. /\ \A i, k \in Int : Step(i, k) \in Indices
        /\ \A i \in Int : Slot(i) \in Slots
    <3>1. ASSUME NEW i \in Int, NEW k \in Int
          PROVE  Step(i, k) \in Indices
      <4>1. i + k \in Int /\ W \in Nat \ {0}
        OBVIOUS
      <4> QED
        BY <4>1, DivMod DEF Step, Indices
    <3>2. ASSUME NEW i \in Int
          PROVE  Slot(i) \in Slots
      BY DivMod DEF Slot, Slots
    <3> QED
      BY <3>1, <3>2
  <2>00. \A i, j \in Indices : Visible(i, j) \subseteq Indices
    <3> SUFFICES ASSUME NEW i \in Indices, NEW j \in Indices,
                        NEW k \in 0 .. Dist(i, j)
                 PROVE  Step(i, k) \in Indices
      BY DEF Visible
    <3>1. i \in Int /\ k \in Int
      BY DEF Indices
    <3> QED
      BY <2>0, <3>1
  <2>1. CASE PushRefused
    BY <2>1, <2>00 DEF TypeOK, PushRefused, consumerVars
  <2>2. ASSUME NEW d \in Items, PushAdmitted(d)
        PROVE  TypeOK'
    BY <2>2, <2>00 DEF TypeOK, PushAdmitted, consumerVars
  <2>3. CASE WriteSlot
    BY <2>3 DEF TypeOK, WriteSlot, consumerVars
  <2>4. CASE PublishHead
    <3>1. head' \in Indices
      BY <2>4, <2>0 DEF TypeOK, PublishHead, Indices
    <3> QED
      BY <2>4, <3>1 DEF TypeOK, PublishHead, consumerVars
  <2>5. CASE PopAdmitted
    BY <2>5, <2>00 DEF TypeOK, PopAdmitted, producerVars
  <2>6. CASE PopEmpty
    BY <2>6, <2>00 DEF TypeOK, PopEmpty, producerVars
  <2>7. CASE ReadSlot
    <3>1. Slot(tail) \in Slots
      BY <2>0 DEF TypeOK, Indices
    <3> QED
      BY <2>7, <3>1 DEF TypeOK, ReadSlot, producerVars
  <2>8. CASE AdvanceTail
    <3>1. tail' \in Indices
      BY <2>8, <2>0 DEF TypeOK, AdvanceTail, Indices
    <3> QED
      BY <2>8, <3>1 DEF TypeOK, AdvanceTail, producerVars
  <2>9. CASE UNCHANGED vars
    BY <2>9 DEF TypeOK, vars, producerVars, consumerVars
  <2> QED
    BY <2>1, <2>2, <2>3, <2>4, <2>5, <2>6, <2>7, <2>8, <2>9 DEF Next
<1> QED
  BY <1>1, <1>2, PTL DEF Spec

-----------------------------------------------------------------------------
(* The order of the indices.                                               *)

(* The four indices as integers that have not been wrapped.                *)
Unwrapped(ps, t, cs, h) ==
  /\ pSeen = ps % W
  /\ tail = t % W
  /\ cSeen = cs % W
  /\ head = h % W
  /\ ps <= t /\ t <= cs /\ cs <= h /\ h < ps + N
  /\ ppc # "idle" => h + 1 < ps + N
  /\ cpc # "idle" => t < cs

InOrder == \E ps, t, cs, h \in Int : Unwrapped(ps, t, cs, h)

(* Going forward from index i by the wrapped difference leads to j.        *)
LEMMA Forward ==
  ASSUME NEW x \in Int, NEW i \in Indices, NEW j \in Indices, i = x % W
  PROVE  /\ Dist(i, j) \in 0 .. W - 1
         /\ j = (x + Dist(i, j)) % W
<1>0. W \in Nat \ {0} /\ i \in Int /\ j \in Int /\ j - i \in Int
  BY NAssumption, WAssumption DEF Indices
<1>1. Dist(i, j) \in 0 .. W - 1
  BY <1>0, DivMod DEF Dist
<1>2. (((j - i) % W) + x) % W = ((j - i) + x) % W
  BY <1>0, ModAdd
<1>3. ((x % W) + (j - i)) % W = (x + (j - i)) % W
  BY <1>0, ModAdd
<1>4. (x % W) + (j - i) = j
  BY <1>0
<1>5. j % W = j
  BY <1>0 DEF Indices
<1>6. (j - i) + x = x + (j - i) /\ ((j - i) % W) + x = x + ((j - i) % W)
  BY <1>0, <1>1 DEF Dist
<1> QED
  BY <1>1, <1>2, <1>3, <1>4, <1>5, <1>6 DEF Dist

(* Wrapped indices in order are those of four ordered counters.            *)
LEMMA Unwrap ==
  TypeOK /\ IndexOrder => InOrder
<1> SUFFICES ASSUME TypeOK, IndexOrder
             PROVE  InOrder
  OBVIOUS
<1> DEFINE ps == pSeen
           t  == ps + Dist(pSeen, tail)
           cs == t + Dist(tail, cSeen)
           h  == cs + Dist(cSeen, head)
<1>0. /\ W \in Nat \ {0} /\ N \in Nat \ {0}
      /\ pSeen \in Indices /\ tail \in Indices
      /\ cSeen \in Indices /\ head \in Indices
  BY NAssumption, WAssumption DEF TypeOK
<1>1. ps \in Int /\ pSeen = ps % W
  BY <1>0 DEF Indices
<1>2. /\ Dist(pSeen, tail) \in 0 .. W - 1
      /\ t \in Int /\ tail = t % W
  BY <1>0, <1>1, Forward
<1> HIDE DEF t
<1>3. /\ Dist(tail, cSeen) \in 0 .. W - 1
      /\ cs \in Int /\ cSeen = cs % W
  BY <1>0, <1>2, Forward
<1> HIDE DEF cs
<1>4. /\ Dist(cSeen, head) \in 0 .. W - 1
      /\ h \in Int /\ head = h % W
  BY <1>0, <1>3, Forward
<1> HIDE DEF h
<1>5. ps <= t /\ t <= cs /\ cs <= h /\ Span = h - ps
  BY <1>0, <1>1, <1>2, <1>3, <1>4 DEF t, cs, h, Span
<1>6. h < ps + N /\ (ppc # "idle" => h + 1 < ps + N)
  BY <1>0, <1>1, <1>4, <1>5 DEF IndexOrder
<1>7. cpc # "idle" => t < cs
  BY <1>2, <1>3, <1>5 DEF IndexOrder
<1>8. Unwrapped(ps, t, cs, h)
  BY <1>1, <1>2, <1>3, <1>4, <1>5, <1>6, <1>7 DEF Unwrapped
<1> QED
  BY <1>1, <1>2, <1>3, <1>4, <1>8 DEF InOrder

(* And ordered counters, wrapped, are indices in order.                    *)
LEMMA Rewrap == InOrder => IndexOrder
<1> SUFFICES ASSUME NEW ps \in Int, NEW t \in Int, NEW cs \in Int,
                    NEW h \in Int, Unwrapped(ps, t, cs, h)
             PROVE  IndexOrder
  BY DEF InOrder
<1>0. W \in Nat \ {0} /\ N \in Nat \ {0} /\ N < W
  BY NAssumption, WAssumption
<1>a. /\ ps <= t /\ t - ps < W
      /\ t <= cs /\ cs - t < W
      /\ cs <= h /\ h - cs < W
  BY <1>0 DEF Unwrapped
<1>1. /\ Dist(pSeen, tail) = t - ps
      /\ Dist(tail, cSeen) = cs - t
      /\ Dist(cSeen, head) = h - cs
  <2>1. Dist(ps % W, t % W) = t - ps
    BY <1>a, DistUnwrap
  <2>2. Dist(t % W, cs % W) = cs - t
    BY <1>a, DistUnwrap
  <2>3. Dist(cs % W, h % W) = h - cs
    BY <1>a, DistUnwrap
  <2> QED
    BY <2>1, <2>2, <2>3 DEF Unwrapped
<1>2. Span = h - ps
  BY <1>1 DEF Span
<1>3. cpc # "idle" => tail # cSeen
  <2> SUFFICES ASSUME cpc # "idle"
               PROVE  tail # cSeen
    OBVIOUS
  <2>1. t < cs
    BY DEF Unwrapped
  <2>2. t % W # cs % W
    BY <1>0, <1>a, <2>1, ModDistinct
  <2> QED
    BY <2>2 DEF Unwrapped
<1> QED
  BY <1>0, <1>2, <1>3 DEF IndexOrder, Unwrapped

(* What a load may return, unwrapped: an index between the last one seen   *)
(* and the current one.                                                    *)
LEMMA VisibleUnwrap ==
  ASSUME NEW a \in Int, NEW b \in Int, a <= b, b - a < W,
         NEW v \in Visible(a % W, b % W)
  PROVE  \E c \in Int : a <= c /\ c <= b /\ v = c % W
<1>1. PICK k \in 0 .. Dist(a % W, b % W) : v = Step(a % W, k)
  BY DEF Visible
<1>2. Dist(a % W, b % W) = b - a
  BY DistUnwrap
<1>3. k \in Int /\ a <= a + k /\ a + k <= b
  BY <1>1, <1>2
<1>4. v = (a + k) % W
  BY <1>1, <1>3, StepUnwrap
<1> QED
  BY <1>3, <1>4

(* The test of try_push, unwrapped: there is room when the integer after   *)
(* head is less than N ahead of the tail that was loaded.                  *)
LEMMA RoomUnwrap ==
  ASSUME NEW c \in Int, NEW h \in Int, c <= h, h < c + N, head = h % W
  PROVE  NoRoom(c % W) <=> h + 1 >= c + N
<1>0. W \in Nat \ {0} /\ N \in Nat \ {0} /\ N < W
  BY NAssumption, WAssumption
<1>1. Step(head, 1) = (h + 1) % W
  BY StepUnwrap
<1>2. h + 1 \in Int /\ c <= h + 1 /\ (h + 1) - c < W
  BY <1>0
<1>3. Dist(c % W, (h + 1) % W) = (h + 1) - c
  BY <1>2, DistUnwrap
<1> QED
  BY <1>0, <1>1, <1>3 DEF NoRoom

(* Every step moves the four integers forward and keeps their order.       *)
LEMMA InOrderStep == InOrder /\ [Next]_vars => InOrder'
<1> SUFFICES ASSUME NEW ps \in Int, NEW t \in Int, NEW cs \in Int,
                    NEW h \in Int, Unwrapped(ps, t, cs, h), [Next]_vars
             PROVE  InOrder'
  BY DEF InOrder
<1>0. W \in Nat \ {0} /\ N \in Nat \ {0} /\ N < W
  BY NAssumption, WAssumption
<1>p. \A v \in Visible(pSeen, tail) :
        \E c \in Int : ps <= c /\ c <= t /\ v = c % W
  <2>1. ps <= t /\ t - ps < W
    BY <1>0 DEF Unwrapped
  <2> QED
    BY <2>1, VisibleUnwrap DEF Unwrapped
<1>c. \A v \in Visible(cSeen, head) :
        \E c \in Int : cs <= c /\ c <= h /\ v = c % W
  <2>1. cs <= h /\ h - cs < W
    BY <1>0 DEF Unwrapped
  <2> QED
    BY <2>1, VisibleUnwrap DEF Unwrapped
<1>1. CASE PushRefused
  <2>1. PICK c \in Int : ps <= c /\ c <= t /\ pSeen' = c % W
    BY <1>1, <1>p DEF PushRefused
  <2>2. Unwrapped(c, t, cs, h)'
    BY <1>0, <1>1, <2>1 DEF PushRefused, Unwrapped, consumerVars
  <2> QED
    BY <2>2 DEF InOrder
<1>2. ASSUME NEW d \in Items, PushAdmitted(d)
      PROVE  InOrder'
  <2>1. PICK v \in Visible(pSeen, tail) : ~NoRoom(v) /\ pSeen' = v
    BY <1>2 DEF PushAdmitted
  <2>2. PICK c \in Int : ps <= c /\ c <= t /\ v = c % W
    BY <1>p
  <2>3. c <= h /\ h < c + N /\ head = h % W
    BY <1>0, <2>2 DEF Unwrapped
  <2>4. h + 1 < c + N
    <3>1. NoRoom(c % W) <=> h + 1 >= c + N
      BY <2>3, RoomUnwrap
    <3> QED
      BY <1>0, <2>1, <2>2, <3>1
  <2>5. Unwrapped(c, t, cs, h)'
    BY <1>0, <1>2, <2>1, <2>2, <2>3, <2>4
       DEF PushAdmitted, Unwrapped, consumerVars
  <2> QED
    BY <2>5 DEF InOrder
<1>3. CASE WriteSlot
  <2>1. Unwrapped(ps, t, cs, h)'
    BY <1>3 DEF WriteSlot, Unwrapped, consumerVars
  <2> QED
    BY <2>1 DEF InOrder
<1>4. CASE PublishHead
  <2>1. head' = (h + 1) % W
    BY <1>4, StepUnwrap DEF PublishHead, Unwrapped
  <2>2. Unwrapped(ps, t, cs, h + 1)'
    BY <1>0, <1>4, <2>1 DEF PublishHead, Unwrapped, consumerVars
  <2> QED
    BY <2>2 DEF InOrder
<1>5. CASE PopAdmitted
  <2>1. PICK v \in Visible(cSeen, head) : v # tail /\ cSeen' = v
    BY <1>5 DEF PopAdmitted
  <2>2. PICK c \in Int : cs <= c /\ c <= h /\ v = c % W
    BY <1>c
  <2>3. t < c
    BY <2>1, <2>2 DEF Unwrapped
  <2>4. Unwrapped(ps, t, c, h)'
    BY <1>0, <1>5, <2>1, <2>2, <2>3 DEF PopAdmitted, Unwrapped, producerVars
  <2> QED
    BY <2>4 DEF InOrder
<1>6. CASE PopEmpty
  <2>1. PICK c \in Int : cs <= c /\ c <= h /\ cSeen' = c % W
    BY <1>6, <1>c DEF PopEmpty
  <2>2. Unwrapped(ps, t, c, h)'
    BY <1>0, <1>6, <2>1 DEF PopEmpty, Unwrapped, producerVars
  <2> QED
    BY <2>2 DEF InOrder
<1>7. CASE ReadSlot
  <2>1. Unwrapped(ps, t, cs, h)'
    BY <1>7 DEF ReadSlot, Unwrapped, producerVars
  <2> QED
    BY <2>1 DEF InOrder
<1>8. CASE AdvanceTail
  <2>1. tail' = (t + 1) % W
    BY <1>8, StepUnwrap DEF AdvanceTail, Unwrapped
  <2>2. Unwrapped(ps, t + 1, cs, h)'
    BY <1>0, <1>8, <2>1 DEF AdvanceTail, Unwrapped, producerVars
  <2> QED
    BY <2>2 DEF InOrder
<1>9. CASE UNCHANGED vars
  <2>1. Unwrapped(ps, t, cs, h)'
    BY <1>9 DEF vars, Unwrapped, producerVars, consumerVars
  <2> QED
    BY <2>1 DEF InOrder
<1> QED
  BY <1>1, <1>2, <1>3, <1>4, <1>5, <1>6, <1>7, <1>8, <1>9 DEF Next

(* The views the two threads have of each other stay in order, for every   *)
(* interleaving and however old the indices are that their loads return.   *)
THEOREM IndicesOrdered == Spec => []IndexOrder
<1>1. Init => IndexOrder
  <2> SUFFICES ASSUME Init
               PROVE  IndexOrder
    OBVIOUS
  <2>1. W \in Nat \ {0} /\ N \in Nat \ {0} /\ 0 % W = 0
    BY NAssumption, WAssumption
  <2>2. Unwrapped(0, 0, 0, 0)
    BY <2>1 DEF Init, Unwrapped
  <2> QED
    BY <2>2, Rewrap DEF InOrder
<1>2. TypeOK /\ IndexOrder /\ [Next]_vars => IndexOrder'
  <2> SUFFICES ASSUME TypeOK, IndexOrder, [Next]_vars
               PROVE  IndexOrder'
    OBVIOUS
  <2>1. InOrder'
    BY Unwrap, InOrderStep
  <2>2. (InOrder => IndexOrder)'
    BY Rewrap, PTL
  <2> QED
    BY <2>1, <2>2
<1> QED
  BY <1>1, <1>2, TypeCorrect, PTL DEF Spec

-----------------------------------------------------------------------------
(* Slots.                                                                  *)

(* Between the test of a push and its store, the slot at head_ is none of  *)
(* the slots that hold an item; during a pop, the slot at tail_ is one.    *)
LEMMA FreeSlot ==
  ASSUME TypeOK, IndexOrder, ppc # "idle",
         NEW k \in 0 .. Size - 1
  PROVE  Slot(Step(tail, k)) # Slot(head)
<1>0. W \in Nat \ {0} /\ N \in Nat \ {0} /\ N < W
  BY NAssumption, WAssumption
<1>1. PICK ps, t, cs, h \in Int : Unwrapped(ps, t, cs, h)
  BY Unwrap DEF InOrder
<1>2. t <= h /\ h - t < N /\ h - t < W
  BY <1>0, <1>1 DEF Unwrapped
<1>3. Size = h - t
  <2>1. Dist(t % W, h % W) = h - t
    BY <1>0, <1>2, DistUnwrap
  <2> QED
    BY <1>1, <2>1 DEF Size, Unwrapped
<1>4. t + k \in Int /\ t + k < h /\ h - (t + k) < N
  <2>1. k \in Int /\ 0 <= k /\ k < h - t
    BY <1>3
  <2> QED
    BY <1>0, <1>2, <2>1
<1>5. Step(tail, k) = (t + k) % W /\ head = h % W
  BY <1>1, StepUnwrap DEF Unwrapped
<1>6. Slot((t + k) % W) # Slot(h % W)
  BY <1>4, SlotsDiffer
<1> QED
  BY <1>5, <1>6

(* What the four integers say about the number of items held.              *)
LEMMA Occupancy ==
  ASSUME TypeOK, IndexOrder
  PROVE  /\ Size \in 0 .. N - 1
         /\ head = Step(tail, Size)
         /\ ppc # "idle" => Size < N - 1
         /\ cpc # "idle" => Size > 0
<1>0. W \in Nat \ {0} /\ N \in Nat \ {0} /\ N < W
  BY NAssumption, WAssumption
<1>1. PICK ps, t, cs, h \in Int : Unwrapped(ps, t, cs, h)
  BY Unwrap DEF InOrder
<1>2. t <= h /\ h - t < N /\ h - t < W
  BY <1>0, <1>1 DEF Unwrapped
<1>3. Size = h - t
  <2>1. Dist(t % W, h % W) = h - t
    BY <1>0, <1>2, DistUnwrap
  <2> QED
    BY <1>1, <2>1 DEF Size, Unwrapped
<1>4. Step(t % W, h - t) = (t + (h - t)) % W /\ t + (h - t) = h
  BY StepUnwrap
<1> QED
  BY <1>0, <1>1, <1>2, <1>3, <1>4 DEF Unwrapped

(* No slot is ever written and read at the same time.                      *)
THEOREM RaceFree == Spec => []NoSlotRace
<1>1. TypeOK /\ IndexOrder => NoSlotRace
  <2> SUFFICES ASSUME TypeOK, IndexOrder, ppc = "write", cpc = "read"
               PROVE  Slot(head) # Slot(tail)
    BY DEF NoSlotRace
  <2>1. Size \in Nat /\ 0 \in 0 .. Size - 1
    BY Occupancy, NAssumption
  <2>2. Slot(Step(tail, 0)) # Slot(head)
    BY <2>1, FreeSlot
  <2>3. Step(tail, 0) = tail
    BY WAssumption DEF Step, TypeOK, Indices
  <2> QED
    BY <2>2, <2>3
<1> QED
  BY <1>1, TypeCorrect, IndicesOrdered, PTL

(* What a slot held when its copy began is what try_pop hands over, and    *)
(* what a push wrote is what it publishes.                                 *)
THEOREM HandoffCorrect == Spec => []HandoffIntact
<1>1. Init => HandoffIntact
  BY DEF Init, HandoffIntact
<1>2. TypeOK /\ IndexOrder /\ HandoffIntact /\ [Next]_vars => HandoffIntact'
  <2> SUFFICES ASSUME TypeOK, IndexOrder, HandoffIntact, [Next]_vars
               PROVE  HandoffIntact'
    OBVIOUS
  <2>1. CASE PushRefused
    BY <2>1 DEF PushRefused, HandoffIntact, consumerVars
  <2>2. ASSUME NEW d \in Items, PushAdmitted(d)
        PROVE  HandoffIntact'
    BY <2>2 DEF PushAdmitted, HandoffIntact, consumerVars
  <2>3. CASE WriteSlot
    <3>1. Slot(head) \in Slots
      BY NAssumption, DivMod DEF TypeOK, Indices, Slot, Slots
    <3>2. buffer'[Slot(head)] = pItem
      BY <2>3, <3>1 DEF WriteSlot, TypeOK
    <3>3. cpc = "advance" => buffer'[Slot(tail)] = buffer[Slot(tail)]
      <4> SUFFICES ASSUME cpc = "advance"
                   PROVE  buffer'[Slot(tail)] = buffer[Slot(tail)]
        OBVIOUS
      <4>1. Size \in Nat /\ 0 \in 0 .. Size - 1
        BY Occupancy, NAssumption
      <4>2. ppc # "idle"
        BY <2>3 DEF WriteSlot
      <4>3. Slot(Step(tail, 0)) # Slot(head)
        BY <4>1, <4>2, FreeSlot
      <4>4. Step(tail, 0) = tail
        BY WAssumption DEF Step, TypeOK, Indices
      <4> QED
        BY <2>3, <4>3, <4>4 DEF WriteSlot, TypeOK
    <3> QED
      BY <2>3, <3>2, <3>3 DEF WriteSlot, HandoffIntact, consumerVars
  <2>4. CASE PublishHead
    BY <2>4 DEF PublishHead, HandoffIntact, consumerVars
  <2>5. CASE PopAdmitted
    BY <2>5 DEF PopAdmitted, HandoffIntact, producerVars
  <2>6. CASE PopEmpty
    BY <2>6 DEF PopEmpty, HandoffIntact, producerVars
  <2>7. CASE ReadSlot
    BY <2>7 DEF ReadSlot, HandoffIntact, producerVars
  <2>8. CASE AdvanceTail
    BY <2>8 DEF AdvanceTail, HandoffIntact, producerVars
  <2>9. CASE UNCHANGED vars
    BY <2>9 DEF vars, HandoffIntact, producerVars, consumerVars
  <2> QED
    BY <2>1, <2>2, <2>3, <2>4, <2>5, <2>6, <2>7, <2>8, <2>9 DEF Next
<1> QED
  BY <1>1, <1>2, TypeCorrect, IndicesOrdered, PTL DEF Spec

-----------------------------------------------------------------------------
(* Refinement.                                                             *)

(* The contents are a sequence of items, in the order of their slots.      *)
LEMMA ContentsIsSeq ==
  ASSUME TypeOK, IndexOrder
  PROVE  /\ Contents \in Seq(Items \union {Default})
         /\ Len(Contents) = Size
         /\ \A k \in 1 .. Size : Contents[k] = buffer[Slot(Step(tail, k - 1))]
<1>1. Size \in Nat
  BY Occupancy, NAssumption
<1>2. ASSUME NEW k \in 1 .. Size
      PROVE  buffer[Slot(Step(tail, k - 1))] \in Items \union {Default}
  <2>1. W \in Nat \ {0} /\ N \in Nat \ {0} /\ tail + (k - 1) \in Int
    BY NAssumption, WAssumption, <1>1 DEF TypeOK, Indices
  <2>2. Step(tail, k - 1) \in Int
    BY <2>1, DivMod DEF Step
  <2>3. Slot(Step(tail, k - 1)) \in Slots
    BY <2>1, <2>2, DivMod DEF Slot, Slots
  <2> QED
    BY <2>3 DEF TypeOK
<1>3. Contents \in [1 .. Size -> Items \union {Default}]
  BY <1>2 DEF Contents
<1> QED
  BY <1>1, <1>3 DEF Contents

(* A store of head_ appends the pushed item to the contents.               *)
LEMMA PublishAppends ==
  ASSUME TypeOK, IndexOrder, HandoffIntact, PublishHead
  PROVE  Contents' = Append(Contents, pItem) /\ Len(Contents) < N - 1
<1>0. W \in Nat \ {0} /\ N \in Nat \ {0} /\ N < W
  BY NAssumption, WAssumption
<1>1. Size \in 0 .. N - 1 /\ Size < N - 1 /\ head = Step(tail, Size)
  BY Occupancy DEF PublishHead
<1>2. PICK ps, t, cs, h \in Int : Unwrapped(ps, t, cs, h)
  BY Unwrap DEF InOrder
<1>3. t <= h /\ h + 1 - t < N /\ h - t < W /\ h + 1 - t < W /\ t <= h + 1
  BY <1>0, <1>2 DEF Unwrapped, PublishHead
<1>4. Size = h - t
  <2>1. Dist(t % W, h % W) = h - t
    BY <1>3, DistUnwrap
  <2> QED
    BY <1>2, <2>1 DEF Size, Unwrapped
<1>5. Size' = Size + 1
  <2>1. head' = (h + 1) % W /\ tail' = t % W
    BY <1>2, StepUnwrap DEF PublishHead, Unwrapped
  <2>2. h + 1 \in Int /\ Dist(t % W, (h + 1) % W) = h + 1 - t
    BY <1>3, DistUnwrap
  <2> QED
    BY <1>4, <2>1, <2>2 DEF Size, Dist
<1>6. /\ Contents \in Seq(Items \union {Default}) /\ Len(Contents) = Size
      /\ \A k \in 1 .. Size : Contents[k] = buffer[Slot(Step(tail, k - 1))]
  BY ContentsIsSeq
<1>7. Contents' = [k \in 1 .. Size + 1 |-> buffer[Slot(Step(tail, k - 1))]]
  BY <1>5 DEF Contents, PublishHead, Slot, Step
<1>8. buffer[Slot(Step(tail, (Size + 1) - 1))] = pItem
  BY <1>1 DEF HandoffIntact, PublishHead
<1> DEFINE S == Items \union {Default}
           A == Append(Contents, pItem)
<1>9. /\ A \in [1 .. Size + 1 -> S]
      /\ \A k \in 1 .. Size : A[k] = Contents[k]
      /\ A[Size + 1] = pItem
  <2>1. pItem \in S
    BY DEF TypeOK
  <2>2. /\ A \in Seq(S) /\ Len(A) = Len(Contents) + 1
        /\ \A k \in 1 .. Len(Contents) : A[k] = Contents[k]
        /\ A[Len(Contents) + 1] = pItem
    BY <1>6, <2>1, AppendProperties
  <2>3. A \in [1 .. Len(A) -> S]
    BY <2>2, LenProperties
  <2> QED
    BY <1>6, <2>2, <2>3
<1>10. ASSUME NEW k \in 1 .. Size + 1
       PROVE  buffer[Slot(Step(tail, k - 1))] = A[k]
  <2>1. CASE k = Size + 1
    BY <1>8, <1>9, <2>1
  <2>2. CASE k # Size + 1
    <3>1. k \in 1 .. Size
      BY <1>1, <2>2
    <3> QED
      BY <1>6, <1>9, <3>1
  <2> QED
    BY <2>1, <2>2
<1>11. Contents' = A
  <2> HIDE DEF A, S
  <2> QED
    BY <1>7, <1>9, <1>10
<1> QED
  BY <1>1, <1>6, <1>11

(* A copy into a free slot does not show in the contents.                  *)
LEMMA WriteHidden ==
  ASSUME TypeOK, IndexOrder, WriteSlot
  PROVE  Contents' = Contents
<1>1. Size \in Nat /\ Size' = Size
  BY Occupancy, NAssumption DEF WriteSlot, Size, Dist
<1>2. ASSUME NEW k \in 1 .. Size
      PROVE  buffer'[Slot(Step(tail, k - 1))] = buffer[Slot(Step(tail, k - 1))]
  <2>1. k - 1 \in 0 .. Size - 1 /\ ppc # "idle"
    BY <1>1 DEF WriteSlot
  <2>2. Slot(Step(tail, k - 1)) # Slot(head)
    BY <2>1, FreeSlot
  <2> QED
    BY <2>2 DEF WriteSlot, TypeOK
<1>3. Contents' = [k \in 1 .. Size |-> buffer'[Slot(Step(tail, k - 1))]]
  BY <1>1 DEF Contents, WriteSlot, Slot, Step
<1> QED
  BY <1>2, <1>3 DEF Contents

(* A store of tail_ removes the oldest item, the one handed over.          *)
LEMMA AdvanceRemoves ==
  ASSUME TypeOK, IndexOrder, HandoffIntact, AdvanceTail
  PROVE  /\ Contents # <<>>
         /\ received' = Head(Contents)
         /\ Contents' = Tail(Contents)
<1>0. W \in Nat \ {0} /\ N \in Nat \ {0} /\ N < W
  BY NAssumption, WAssumption
<1>1. Size \in 0 .. N - 1 /\ Size > 0
  BY Occupancy DEF AdvanceTail
<1>2. PICK ps, t, cs, h \in Int : Unwrapped(ps, t, cs, h)
  BY Unwrap DEF InOrder
<1>3. t < h /\ h - t < W /\ t + 1 <= h /\ h - (t + 1) < W
  BY <1>0, <1>2 DEF Unwrapped, AdvanceTail
<1>4. Size = h - t
  <2>1. Dist(t % W, h % W) = h - t
    BY <1>3, DistUnwrap
  <2> QED
    BY <1>2, <2>1 DEF Size, Unwrapped
<1>5. Size' = Size - 1
  <2>1. tail' = (t + 1) % W /\ head' = h % W
    BY <1>2, StepUnwrap DEF AdvanceTail, Unwrapped
  <2>2. t + 1 \in Int /\ Dist((t + 1) % W, h % W) = h - (t + 1)
    BY <1>3, DistUnwrap
  <2> QED
    BY <1>4, <2>1, <2>2 DEF Size, Dist
<1>6. /\ Contents \in Seq(Items \union {Default}) /\ Len(Contents) = Size
      /\ \A k \in 1 .. Size : Contents[k] = buffer[Slot(Step(tail, k - 1))]
  BY ContentsIsSeq
<1>7. Contents # <<>> /\ Head(Contents) = Contents[1]
  BY <1>1, <1>6
<1>8. received' = Head(Contents)
  <2>1. Step(tail, 1 - 1) = tail
    BY <1>0 DEF Step, TypeOK, Indices
  <2> QED
    BY <1>1, <1>6, <1>7, <2>1 DEF AdvanceTail, HandoffIntact
<1>9. ASSUME NEW k \in 1 .. Size - 1
      PROVE  Step(tail', k - 1) = Step(tail, (k + 1) - 1)
  <2>1. Step((t + 1) % W, k - 1) = ((t + 1) + (k - 1)) % W
    <3>1. t + 1 \in Int /\ k - 1 \in Int
      BY <1>1
    <3> QED
      BY <3>1, StepUnwrap
  <2>2. Step(t % W, (k + 1) - 1) = (t + ((k + 1) - 1)) % W
    <3>1. (k + 1) - 1 \in Int
      BY <1>1
    <3> QED
      BY <3>1, StepUnwrap
  <2>3. (t + 1) + (k - 1) = t + ((k + 1) - 1)
    BY <1>1
  <2>4. tail' = (t + 1) % W
    BY <1>2, StepUnwrap DEF AdvanceTail, Unwrapped
  <2> QED
    BY <1>2, <2>1, <2>2, <2>3, <2>4 DEF Unwrapped
<1>10. Contents' = [k \in 1 .. Size - 1 |-> buffer[Slot(Step(tail', k - 1))]]
  BY <1>5 DEF Contents, AdvanceTail, Slot, Step
<1> DEFINE S == Items \union {Default}
           T == Tail(Contents)
<1>11. /\ T \in [1 .. Size - 1 -> S]
       /\ \A k \in 1 .. Size - 1 : T[k] = Contents[k + 1]
  <2>1. /\ T \in Seq(S) /\ Len(T) = Len(Contents) - 1
        /\ \A k \in 1 .. Len(T) : T[k] = Contents[k + 1]
    BY <1>6, <1>7, HeadTailProperties
  <2>2. T \in [1 .. Len(T) -> S]
    BY <2>1, LenProperties
  <2> QED
    BY <1>6, <2>1, <2>2
<1>12. ASSUME NEW k \in 1 .. Size - 1
       PROVE  buffer[Slot(Step(tail', k - 1))] = Contents[k + 1]
  <2>1. k + 1 \in 1 .. Size
    BY <1>1
  <2> QED
    BY <1>6, <1>9, <2>1
<1>13. Contents' = T
  <2> HIDE DEF T, S
  <2> QED
    BY <1>10, <1>11, <1>12
<1> QED
  BY <1>7, <1>8, <1>13

(* The lock-free buffer is a first-in first-out queue of N - 1 items, for  *)
(* every N, W and set of items: a step of the buffer is a Put, a Get or a  *)
(* step that the queue does not see.                                       *)
THEOREM Refinement == Spec => ImplementsQueue
<1>1. Init => Q!Init
  <2> SUFFICES ASSUME Init
               PROVE  Q!Init
    OBVIOUS
  <2>1. Size = 0
    BY NAssumption, WAssumption DEF Init, Size, Dist
  <2>2. Contents = <<>>
    BY <2>1 DEF Contents
  <2> QED
    BY <2>2 DEF Init, Q!Init
<1>2. TypeOK /\ IndexOrder /\ HandoffIntact /\ [Next]_vars => [Q!Next]_(Q!vars)
  <2> SUFFICES ASSUME TypeOK, IndexOrder, HandoffIntact, [Next]_vars
               PROVE  [Q!Next]_(Q!vars)
    OBVIOUS
  <2>1. CASE PushRefused
    BY <2>1 DEF PushRefused, consumerVars, Q!vars, Contents, Size, Dist, Slot, Step
  <2>2. ASSUME NEW d \in Items, PushAdmitted(d)
        PROVE  UNCHANGED Q!vars
    BY <2>2 DEF PushAdmitted, consumerVars, Q!vars, Contents, Size, Dist, Slot, Step
  <2>3. CASE WriteSlot
    BY <2>3, WriteHidden DEF WriteSlot, consumerVars, Q!vars
  <2>4. CASE PublishHead
    <3>1. pItem \in Items
      BY <2>4 DEF HandoffIntact, PublishHead
    <3>2. received' = received
      BY <2>4 DEF PublishHead, consumerVars
    <3>3. Q!Put(pItem)
      BY <2>4, <3>2, PublishAppends DEF Q!Put
    <3> QED
      BY <3>1, <3>3 DEF Q!Next
  <2>5. CASE PopAdmitted
    BY <2>5 DEF PopAdmitted, Q!vars, Contents, Size, Dist, Slot, Step
  <2>6. CASE PopEmpty
    BY <2>6 DEF PopEmpty, Q!vars, Contents, Size, Dist, Slot, Step
  <2>7. CASE ReadSlot
    BY <2>7 DEF ReadSlot, Q!vars, Contents, Size, Dist, Slot, Step
  <2>8. CASE AdvanceTail
    BY <2>8, AdvanceRemoves DEF Q!Get, Q!Next
  <2>9. CASE UNCHANGED vars
    BY <2>9 DEF vars, consumerVars, Q!vars, Contents, Size, Dist, Slot, Step
  <2> QED
    BY <2>1, <2>2, <2>3, <2>4, <2>5, <2>6, <2>7, <2>8, <2>9 DEF Next
<1> QED
  BY <1>1, <1>2, TypeCorrect, IndicesOrdered, HandoffCorrect, PTL
     DEF Spec, ImplementsQueue, Q!SafeSpec
=============================================================================
