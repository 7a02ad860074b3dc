--------------------------- MODULE Dashboard_proofs ---------------------------
(***************************************************************************)
(* Proofs about Dashboard, for any files, a ring of any size and any       *)
(* number of fills: the types; that lists that nothing disturbed are the   *)
(* newest fills; that the first lap round the ring is free of races; that  *)
(* labels are those of the fills; and that rows keep up with the list.     *)
(***************************************************************************)
EXTENDS Dashboard, RemainderLemmas, SequenceTheorems, TLAPS

Definitions == {Parse(file) : file \in FileRecords}

-----------------------------------------------------------------------------
(* Types.                                                                  *)

SetTyped ==
  /\ next \in 1 .. Len(Files) + 1
  /\ phase \in {"load", "run", "exit"}
  /\ strats \in Seq(Definitions)
  /\ phase # "run" => filler = <<>>

ExecTyped ==
  /\ filler \in Seq(DOMAIN strats) /\ Len(filler) <= MaxFills
  /\ metrics \in [Rows -> 0 .. MaxFills]
  /\ trades \in [Slots -> 0 .. MaxFills]
  /\ released \in Seq([Rows -> 0 .. MaxFills])
  /\ exec \in {"idle", "metrics", "entry", "copy", "publish"}

ServerTyped ==
  /\ server \in {"idle", "index", "list"}
  /\ shown \in [Rows -> 0 .. MaxFills]
  /\ newest \in 0 .. Len(released)
  /\ listed \in Seq(Torn .. MaxFills) /\ Len(listed) <= Count(Index(newest))

Flags == watched \in BOOLEAN /\ disturbed \in BOOLEAN

(* The stores the execution thread has made for the fills so far.          *)
Stored == IF exec = "metrics" THEN fill - 1 ELSE fill
Begun == IF exec \in {"metrics", "entry"} THEN fill - 1 ELSE fill
Written == IF exec \in {"idle", "publish"} THEN fill ELSE fill - 1
Published == IF exec = "idle" THEN fill ELSE fill - 1

Progress ==
  /\ exec # "idle" => fill > 0
  /\ Len(released) = Published

Typed == SetTyped /\ ExecTyped /\ ServerTyped /\ Progress

(* The sizes are numbers.                                                  *)
LEMMA Sizes ==
  /\ MaxTrades \in Nat \ {0} /\ MaxFills \in Nat
  /\ Files \in Seq(FileRecords) /\ Len(Files) \in Nat \ {0}
  /\ \A i \in 1 .. Len(Files) : Files[i] \in FileRecords
<1>1. Files \in Seq(FileRecords) /\ Files # <<>>
  BY FilesAssumption
<1>2. Len(Files) \in Nat \ {0}
  BY <1>1, EmptySeq
<1>3. \A i \in 1 .. Len(Files) : Files[i] \in FileRecords
  BY <1>1, ElementOfSeq
<1>4. QED
  BY <1>1, <1>2, <1>3, BoundAssumption

(* The index after so many stores, the list it stands for, and the slots.  *)
LEMMA IndexIs ==
  ASSUME NEW s \in Nat
  PROVE  /\ s > 0 => Index(s) = ((s - 1) % MaxTrades) + 1
         /\ s = 0 => Index(s) = 0
         /\ Index(s) \in 0 .. MaxTrades /\ Index(s) <= s
         /\ Count(Index(s)) = Index(s)
<1>1. MaxTrades \in Nat \ {0}
  BY Sizes
<1>2. s > 0 => /\ (s - 1) % MaxTrades \in 0 .. MaxTrades - 1
               /\ (s - 1) % MaxTrades <= s - 1
  <2>1. s > 0 => s - 1 \in Nat
    OBVIOUS
  <2>2. ASSUME NEW x \in Nat PROVE x % MaxTrades \in 0 .. MaxTrades - 1 /\ x % MaxTrades <= x
    <3> DEFINE q == x \div MaxTrades
               r == x % MaxTrades
    <3>1. q \in Int /\ r \in 0 .. MaxTrades - 1 /\ x = MaxTrades * q + r
      BY <1>1, DivMod
    <3> HIDE DEF q, r
    <3>2. q >= 0
      <4>1. q <= -1 => MaxTrades * q <= -MaxTrades
        BY <1>1, <3>1
      <4>2. MaxTrades * q \in Int
        BY <1>1, <3>1
      <4>3. QED
        BY <1>1, <3>1, <4>1, <4>2
    <3>3. MaxTrades * q >= 0
      BY <1>1, <3>1, <3>2
    <3>4. r <= x
      BY <1>1, <3>1, <3>3
    <3>5. QED
      BY <3>1, <3>4 DEF r
  <2>3. QED
    BY <2>1, <2>2
<1>3. Index(s) \in 0 .. MaxTrades /\ Index(s) <= s
  BY <1>1, <1>2 DEF Index
<1>4. QED
  BY <1>1, <1>3 DEF Index, Count

(* The slot of a fill, and of a fill on the first lap.                     *)
LEMMA SlotIs ==
  ASSUME NEW n \in Nat \ {0}
  PROVE  /\ SlotOf(n) = (n - 1) % MaxTrades
         /\ SlotOf(n) \in Slots
         /\ n <= MaxTrades => SlotOf(n) = n - 1
<1>1. MaxTrades \in Nat \ {0}
  BY Sizes
<1>2. (n - 1) % MaxTrades \in 0 .. MaxTrades - 1
  BY <1>1, DivMod
<1>3. n <= MaxTrades => (n - 1) % MaxTrades = n - 1
  <2>1. n <= MaxTrades => n - 1 \in 0 .. MaxTrades - 1
    BY <1>1
  <2>2. n <= MaxTrades => (MaxTrades * 0 + (n - 1)) % MaxTrades = n - 1
    BY <1>1, <2>1, ModUnique
  <2>3. MaxTrades * 0 + (n - 1) = n - 1
    BY <1>1
  <2>4. QED
    BY <2>2, <2>3
<1>4. SlotOf(n) = (n - 1) % MaxTrades
  <2>1. CASE n = 1
    BY <1>1, <1>3, <2>1 DEF SlotOf, Index
  <2>2. CASE n > 1
    <3>1. Index(n - 1) = ((n - 2) % MaxTrades) + 1
      BY <2>2 DEF Index
    <3>2. (((n - 2) % MaxTrades) + 1) % MaxTrades = (n - 2 + 1) % MaxTrades
      <4>1. n - 2 \in Int
        OBVIOUS
      <4>2. QED
        BY <1>1, <4>1, ModAdd
    <3>3. n - 2 + 1 = n - 1
      OBVIOUS
    <3>4. QED
      BY <3>1, <3>2, <3>3 DEF SlotOf
  <2>3. QED
    BY <2>1, <2>2
<1>5. QED
  BY <1>2, <1>3, <1>4 DEF Slots

(* The entry number i of a list that begins at the store s is in the slot  *)
(* of the fill s - i, and that slot is in the list.                        *)
LEMMA ReadSlotIs ==
  ASSUME NEW s \in Nat, NEW i \in 0 .. Index(s) - 1
  PROVE  /\ s - i \in Nat \ {0}
         /\ (Index(s) - 1 - i) % MaxTrades = SlotOf(s - i)
         /\ SlotOf(s - i) < Count(Index(s))
<1> DEFINE q == (s - 1) \div MaxTrades
           r == (s - 1) % MaxTrades
<1>1. MaxTrades \in Nat \ {0}
  BY Sizes
<1>2. /\ s > 0 /\ Index(s) = r + 1 /\ Index(s) <= s /\ Count(Index(s)) = Index(s)
  BY IndexIs
<1>3. q \in Int /\ r \in 0 .. MaxTrades - 1 /\ s - 1 = MaxTrades * q + r
  <2>1. s - 1 \in Int
    OBVIOUS
  <2>2. QED
    BY <1>1, <2>1, DivMod
<1> HIDE DEF q, r
<1>4. i \in 0 .. r /\ r - i \in 0 .. MaxTrades - 1 /\ s - i \in Nat \ {0}
  <2>1. i \in 0 .. r /\ r < s
    BY <1>2, <1>3
  <2>2. QED
    BY <1>1, <1>3, <2>1
<1>5. (MaxTrades * q + (r - i)) % MaxTrades = r - i
  BY <1>1, <1>3, <1>4, ModUnique
<1>6. MaxTrades * q + (r - i) = s - i - 1
  <2>1. MaxTrades * q \in Int
    BY <1>1, <1>3
  <2>2. QED
    BY <1>3, <1>4, <2>1
<1>7. SlotOf(s - i) = r - i
  BY <1>4, <1>5, <1>6, SlotIs
<1>8. (r - i) % MaxTrades = r - i
  <2>1. (MaxTrades * 0 + (r - i)) % MaxTrades = r - i
    BY <1>1, <1>4, ModUnique
  <2>2. MaxTrades * 0 + (r - i) = r - i
    BY <1>1, <1>4
  <2>3. QED
    BY <2>1, <2>2
<1>9. Index(s) - 1 - i = r - i
  BY <1>2, <1>3, <1>4
<1>10. r - i < Index(s)
  BY <1>2, <1>3, <1>4
<1>11. QED
  BY <1>2, <1>4, <1>7, <1>8, <1>9, <1>10

(* Fills as far apart as the ring is long share a slot; nearer ones do not. *)
LEMMA SlotsOfFills ==
  ASSUME NEW m \in Nat \ {0}, NEW n \in Nat \ {0}, m < n
  PROVE  /\ n - m < MaxTrades => SlotOf(m) # SlotOf(n)
         /\ n = m + MaxTrades => SlotOf(m) = SlotOf(n)
<1>1. MaxTrades \in Nat \ {0}
  BY Sizes
<1>2. SlotOf(m) = (m - 1) % MaxTrades /\ SlotOf(n) = (n - 1) % MaxTrades
  BY SlotIs
<1>3. n - m < MaxTrades => (m - 1) % MaxTrades # (n - 1) % MaxTrades
  <2>1. m - 1 \in Int /\ n - 1 \in Int /\ m - 1 < n - 1 /\ (n - 1) - (m - 1) = n - m
    OBVIOUS
  <2>2. QED
    BY <1>1, <2>1, ModDistinct
<1>4. n = m + MaxTrades => (n - 1) % MaxTrades = (m - 1) % MaxTrades
  <2>1. (m - 1 + MaxTrades * 1) % MaxTrades = (m - 1) % MaxTrades
    <3>1. m - 1 \in Int /\ 1 \in Int
      OBVIOUS
    <3>2. QED
      BY <1>1, <3>1, ModAddMultiple
  <2>2. n = m + MaxTrades => n - 1 = m - 1 + MaxTrades * 1
    BY <1>1
  <2>3. QED
    BY <2>1, <2>2
<1>5. QED
  BY <1>2, <1>3, <1>4
-----------------------------------------------------------------------------
(* The types are kept.                                                     *)

(* What the types say in numbers.                                          *)
LEMMA Numbers ==
  ASSUME Typed
  PROVE  /\ fill \in 0 .. MaxFills /\ MaxFills \in Nat
         /\ Len(released) \in Nat /\ newest \in 0 .. Len(released)
         /\ Len(listed) \in Nat
         /\ DOMAIN filler = 1 .. fill /\ \A n \in 1 .. fill : filler[n] \in DOMAIN strats
         /\ DOMAIN listed = 1 .. Len(listed)
         /\ DOMAIN released = 1 .. Len(released)
         /\ \A n \in 1 .. Len(released) : released[n] \in [Rows -> 0 .. MaxFills]
<1>1. /\ filler \in Seq(DOMAIN strats) /\ Len(filler) <= MaxFills
      /\ released \in Seq([Rows -> 0 .. MaxFills])
      /\ listed \in Seq(Torn .. MaxFills) /\ newest \in 0 .. Len(released)
  BY DEF Typed, ExecTyped, ServerTyped
<1>2. Len(filler) \in Nat /\ DOMAIN filler = 1 .. Len(filler)
  BY <1>1, LenProperties
<1>3. Len(released) \in Nat /\ DOMAIN released = 1 .. Len(released)
  BY <1>1, LenProperties
<1>4. Len(listed) \in Nat /\ DOMAIN listed = 1 .. Len(listed)
  BY <1>1, LenProperties
<1>5. \A n \in 1 .. Len(filler) : filler[n] \in DOMAIN strats
  BY <1>1, ElementOfSeq
<1>6. \A n \in 1 .. Len(released) : released[n] \in [Rows -> 0 .. MaxFills]
  BY <1>1, ElementOfSeq
<1>7. QED
  BY <1>1, <1>2, <1>3, <1>4, <1>5, <1>6, Sizes DEF fill

(* The order of the execution thread's steps.                              *)
LEMMA AfterIs ==
  /\ After("idle") = "metrics" /\ After("metrics") = "entry"
  /\ After("entry") = "copy" /\ After("copy") = "publish"
  /\ After("publish") = "idle"
  BY DEF After

(* Files are loaded before there is a fill.                                *)
LEMMA LoadingTyped ==
  ASSUME Typed, Loading, UNCHANGED threadVars
  PROVE  Typed' /\ filler = <<>> /\ filler' = <<>>
<1>1. phase = "load" /\ filler = <<>> /\ filler' = <<>>
  BY DEF Typed, SetTyped, Loading, LoadFile, EndLoading, threadVars, execVars
<1>2. /\ strats \in Seq(Definitions) /\ next \in 1 .. Len(Files) + 1
      /\ Len(Files) \in Nat
  BY Sizes DEF Typed, SetTyped
<1>3. SetTyped'
  <2>1. CASE LoadFile
    <3>1. next <= Len(Files) /\ next' = next + 1 /\ phase' = phase
      BY <2>1 DEF LoadFile
    <3>2. Parse(Files[next]) \in Definitions
      BY <1>2, <3>1, Sizes DEF Definitions
    <3>3. strats' \in Seq(Definitions)
      BY <1>2, <2>1, <3>2, AppendProperties DEF LoadFile
    <3>4. next' \in 1 .. Len(Files) + 1
      BY <1>2, <3>1
    <3>5. QED
      BY <1>1, <3>1, <3>3, <3>4 DEF SetTyped
  <2>2. CASE EndLoading
    BY <1>1, <1>2, <2>2 DEF EndLoading, SetTyped
  <2>3. QED
    BY <2>1, <2>2 DEF Loading
<1>4. filler' \in Seq(DOMAIN strats')
  BY <1>1, EmptySeq
<1>5. ExecTyped'
  BY <1>4 DEF Typed, ExecTyped, threadVars, execVars
<1>6. ServerTyped' /\ Progress'
  BY DEF Typed, ServerTyped, Progress, Published, fill, threadVars, execVars, serverVars
<1>7. QED
  BY <1>1, <1>3, <1>5, <1>6 DEF Typed

(* The steps of the execution thread, in numbers.                          *)
LEMMA BeginFillMoves ==
  ASSUME Typed, NEW s \in DOMAIN strats, BeginFill(s)
  PROVE  /\ Typed'
         /\ exec = "idle" /\ exec' = "metrics"
         /\ fill' = fill + 1
         /\ \A n \in 1 .. fill : filler'[n] = filler[n]
         /\ UNCHANGED <<setVars, metrics, trades, released, watched, serverVars,
                        disturbed>>
<1>1. /\ phase = "run" /\ exec = "idle" /\ fill < MaxFills
      /\ filler' = Append(filler, s) /\ exec' = "metrics"
      /\ UNCHANGED <<setVars, metrics, trades, released, watched, serverVars,
                     disturbed>>
  BY AfterIs DEF BeginFill
<1>2. /\ filler \in Seq(DOMAIN strats) /\ fill \in Nat /\ MaxFills \in Nat
  BY Numbers DEF Typed, ExecTyped
<1>3. /\ filler' \in Seq(DOMAIN strats) /\ Len(filler') = Len(filler) + 1
      /\ \A n \in 1 .. Len(filler) : filler'[n] = filler[n]
  BY <1>1, <1>2, AppendProperties
<1>4. fill' = fill + 1
  BY <1>3 DEF fill
<1>5. SetTyped'
  BY <1>1 DEF Typed, SetTyped, setVars
<1>6. ExecTyped'
  BY <1>1, <1>2, <1>3 DEF Typed, ExecTyped, setVars, fill
<1>7. ServerTyped'
  BY <1>1 DEF Typed, ServerTyped, serverVars
<1>8. Progress'
  BY <1>1, <1>2, <1>4 DEF Typed, Progress, Published
<1>9. QED
  BY <1>1, <1>3, <1>4, <1>5, <1>6, <1>7, <1>8 DEF Typed, fill

(* The row of the fill, if it has one, is of it.                           *)
LEMMA StoreMetricsMoves ==
  ASSUME Typed, StoreMetrics
  PROVE  /\ Typed'
         /\ exec = "metrics" /\ exec' = "entry" /\ fill > 0
         /\ metrics' = [r \in Rows |-> IF r = RowOf(fill) THEN fill ELSE metrics[r]]
         /\ UNCHANGED <<setVars, filler, trades, released, watched, serverVars,
                        disturbed>>
<1>1. /\ exec = "metrics" /\ exec' = "entry"
      /\ metrics' = IF RowOf(fill) \in Rows
                      THEN [metrics EXCEPT ![RowOf(fill)] = fill] ELSE metrics
      /\ UNCHANGED <<setVars, filler, trades, released, watched, serverVars,
                     disturbed>>
  BY AfterIs DEF StoreMetrics
<1>2. metrics \in [Rows -> 0 .. MaxFills] /\ fill \in 0 .. MaxFills /\ fill > 0
  BY <1>1, Numbers DEF Typed, ExecTyped, Progress
<1>3. metrics' = [r \in Rows |-> IF r = RowOf(fill) THEN fill ELSE metrics[r]]
  BY <1>1, <1>2
<1>4. metrics' \in [Rows -> 0 .. MaxFills]
  BY <1>2, <1>3
<1>5. SetTyped' /\ ServerTyped'
  BY <1>1 DEF Typed, SetTyped, ServerTyped, setVars, serverVars
<1>6. ExecTyped'
  BY <1>1, <1>4 DEF Typed, ExecTyped, setVars
<1>7. Progress'
  BY <1>1 DEF Typed, Progress, Published, fill
<1>8. QED
  BY <1>1, <1>2, <1>3, <1>5, <1>6, <1>7 DEF Typed

(* The copy of the entry begins.                                           *)
LEMMA BeginEntryMoves ==
  ASSUME Typed, BeginEntry
  PROVE  /\ Typed'
         /\ exec = "entry" /\ exec' = "copy" /\ fill > 0
         /\ UNCHANGED <<setVars, filler, metrics, trades, released, watched,
                        serverVars>>
<1>1. /\ exec = "entry" /\ exec' = "copy"
      /\ UNCHANGED <<setVars, filler, metrics, trades, released, watched,
                     serverVars>>
  BY AfterIs DEF BeginEntry
<1>2. SetTyped' /\ ServerTyped' /\ ExecTyped'
  BY <1>1 DEF Typed, SetTyped, ServerTyped, ExecTyped, setVars, serverVars
<1>3. Progress' /\ fill > 0
  BY <1>1 DEF Typed, Progress, Published, fill
<1>4. QED
  BY <1>1, <1>2, <1>3 DEF Typed

(* The slot of the fill holds it.                                          *)
LEMMA EndEntryMoves ==
  ASSUME Typed, EndEntry
  PROVE  /\ Typed'
         /\ exec = "copy" /\ exec' = "publish" /\ fill > 0
         /\ trades' = [i \in Slots |-> IF i = SlotOf(fill) THEN fill ELSE trades[i]]
         /\ UNCHANGED <<setVars, filler, metrics, released, watched, serverVars,
                        disturbed>>
<1>1. /\ exec = "copy" /\ exec' = "publish"
      /\ trades' = [trades EXCEPT ![SlotOf(fill)] = fill]
      /\ UNCHANGED <<setVars, filler, metrics, released, watched, serverVars,
                     disturbed>>
  BY AfterIs DEF EndEntry
<1>2. trades \in [Slots -> 0 .. MaxFills] /\ fill \in 0 .. MaxFills /\ fill > 0
  BY <1>1, Numbers DEF Typed, ExecTyped, Progress
<1>3. trades' = [i \in Slots |-> IF i = SlotOf(fill) THEN fill ELSE trades[i]]
  BY <1>1, <1>2
<1>4. trades' \in [Slots -> 0 .. MaxFills]
  BY <1>2, <1>3
<1>5. SetTyped' /\ ServerTyped'
  BY <1>1 DEF Typed, SetTyped, ServerTyped, setVars, serverVars
<1>6. ExecTyped'
  BY <1>1, <1>4 DEF Typed, ExecTyped, setVars
<1>7. Progress'
  BY <1>1 DEF Typed, Progress, Published, fill
<1>8. QED
  BY <1>1, <1>2, <1>3, <1>5, <1>6, <1>7 DEF Typed

(* The metrics as they are go with the next store of the index.            *)
LEMMA StoreIndexMoves ==
  ASSUME Typed, StoreIndex
  PROVE  /\ Typed'
         /\ exec = "publish" /\ exec' = "idle" /\ fill > 0
         /\ Len(released') = fill /\ Len(released) = fill - 1
         /\ \A n \in 1 .. Len(released) : released'[n] = released[n]
         /\ released'[fill] = metrics
         /\ UNCHANGED <<setVars, filler, metrics, trades, watched, serverVars,
                        disturbed>>
<1>1. /\ exec = "publish" /\ exec' = "idle"
      /\ released' = Append(released, metrics)
      /\ UNCHANGED <<setVars, filler, metrics, trades, watched, serverVars,
                     disturbed>>
  BY AfterIs DEF StoreIndex
<1>2. /\ released \in Seq([Rows -> 0 .. MaxFills]) /\ metrics \in [Rows -> 0 .. MaxFills]
      /\ Len(released) = fill - 1 /\ fill > 0 /\ fill \in Nat /\ Len(released) \in Nat
  BY <1>1, Numbers DEF Typed, ExecTyped, Progress, Published
<1>3. /\ released' \in Seq([Rows -> 0 .. MaxFills])
      /\ Len(released') = Len(released) + 1
      /\ \A n \in 1 .. Len(released) : released'[n] = released[n]
      /\ released'[Len(released) + 1] = metrics
  BY <1>1, <1>2, AppendProperties
<1>4. SetTyped'
  BY <1>1 DEF Typed, SetTyped, setVars
<1>5. ExecTyped'
  BY <1>1, <1>3 DEF Typed, ExecTyped, setVars
<1>6. newest' \in 0 .. Len(released')
  BY <1>1, <1>2, <1>3, Numbers DEF serverVars
<1>7. ServerTyped'
  BY <1>1, <1>6 DEF Typed, ServerTyped, serverVars
<1>8. Progress'
  BY <1>1, <1>2, <1>3 DEF Progress, Published, fill
<1>9. Len(released) + 1 = fill
  BY <1>2
<1>10. QED
  BY <1>1, <1>2, <1>3, <1>4, <1>5, <1>7, <1>8, <1>9 DEF Typed

(* The steps of the server, in numbers.                                    *)
LEMMA WatchMoves ==
  ASSUME Typed, Watch
  PROVE  Typed' /\ UNCHANGED <<setVars, execVars, serverVars, disturbed>>
<1>1. UNCHANGED <<setVars, execVars, serverVars, disturbed>>
  BY DEF Watch
<1>2. SetTyped' /\ ServerTyped' /\ ExecTyped' /\ Progress'
  BY <1>1 DEF Typed, SetTyped, ServerTyped, ExecTyped, Progress, Published, fill,
            setVars, serverVars, execVars
<1>3. QED
  BY <1>1, <1>2 DEF Typed

(* A load answers a store of its row that is not older than the one the    *)
(* server saw before, nor than what the index acquired.                    *)
LEMMA LoadRowsMoves ==
  ASSUME Typed, LoadRows
  PROVE  /\ Typed'
         /\ server = "idle" /\ server' = "index"
         /\ \A r \in Rows :
              \/ metrics[r] = None /\ shown'[r] = shown[r]
              \/ /\ shown'[r] \in Stores(r)
                 /\ shown'[r] >= shown[r] /\ shown'[r] >= Acquired(r)
         /\ UNCHANGED <<setVars, execVars, watched, newest, listed, disturbed>>
<1> DEFINE stored == {r \in Rows : metrics[r] # None}
<1>1. PICK loaded \in [stored -> UNION {Stores(r) : r \in stored}] :
        /\ \A r \in stored :
             /\ loaded[r] \in Stores(r)
             /\ loaded[r] >= shown[r] /\ loaded[r] >= Acquired(r)
        /\ shown' = [r \in Rows |-> IF r \in stored THEN loaded[r] ELSE shown[r]]
  BY DEF LoadRows
<1>2. /\ server = "idle" /\ server' = "index"
      /\ UNCHANGED <<setVars, execVars, watched, newest, listed, disturbed>>
  BY DEF LoadRows
<1>3. \A r \in Rows :
        \/ metrics[r] = None /\ shown'[r] = shown[r]
        \/ /\ shown'[r] \in Stores(r)
           /\ shown'[r] >= shown[r] /\ shown'[r] >= Acquired(r)
  BY <1>1
<1>4. \A r \in Rows : Stores(r) \subseteq 0 .. MaxFills
  BY Numbers DEF Stores, None
<1>5. shown \in [Rows -> 0 .. MaxFills]
  BY DEF Typed, ServerTyped
<1>6. \A r \in Rows : shown'[r] \in 0 .. MaxFills
  BY <1>3, <1>4, <1>5
<1>7. shown' \in [Rows -> 0 .. MaxFills]
  BY <1>1, <1>6
<1>8. SetTyped' /\ ExecTyped' /\ Progress'
  BY <1>2 DEF Typed, SetTyped, ExecTyped, Progress, Published, fill, setVars,
            execVars
<1>9. ServerTyped'
  BY <1>2, <1>7 DEF Typed, ServerTyped, execVars
<1>10. QED
  BY <1>2, <1>3, <1>8, <1>9 DEF Typed

(* The server turns to the list of a store of the index.                   *)
LEMMA LoadIndexMoves ==
  ASSUME Typed, NEW n \in 0 .. MaxFills, LoadIndex(n)
  PROVE  /\ Typed'
         /\ server = "index" /\ server' = "list"
         /\ n \in newest .. Len(released) /\ newest' = n /\ listed' = <<>>
         /\ UNCHANGED <<setVars, execVars, watched, shown>>
<1>1. /\ server = "index" /\ server' = "list"
      /\ n \in newest .. Len(released) /\ newest' = n /\ listed' = <<>>
      /\ UNCHANGED <<setVars, execVars, watched, shown>>
  BY DEF LoadIndex
<1>2. SetTyped' /\ ExecTyped' /\ Progress'
  BY <1>1 DEF Typed, SetTyped, ExecTyped, Progress, Published, fill, setVars,
            execVars
<1>3. Count(Index(n)) \in Nat
  <2>1. n \in Nat
    BY Numbers
  <2>2. Index(n) \in 0 .. MaxTrades /\ Count(Index(n)) = Index(n)
    BY <2>1, IndexIs
  <2>3. QED
    BY <2>2, Sizes
<1>4. listed' \in Seq(Torn .. MaxFills) /\ Len(listed') = 0
  BY <1>1, EmptySeq
<1>5. newest' \in 0 .. Len(released')
  BY <1>1, Numbers DEF execVars
<1>6. Len(listed') <= Count(Index(newest'))
  BY <1>1, <1>3, <1>4
<1>7. ServerTyped'
  <2>1. Len(listed)' <= Count(Index(newest))'
    BY <1>6 DEF Count, Index
  <2>2. QED
    BY <1>1, <1>4, <1>5, <2>1 DEF Typed, ServerTyped
<1>8. QED
  BY <1>1, <1>2, <1>7 DEF Typed

(* The next entry of the list is what is in the slot of the next older     *)
(* fill, which is one of the slots the list stands for.                    *)
LEMMA ListEntryMoves ==
  ASSUME Typed, ListEntry
  PROVE  /\ Typed'
         /\ server = "list"
         /\ newest - Len(listed) \in Nat \ {0}
         /\ InList(newest - Len(listed), newest)
         /\ Len(listed') = Len(listed) + 1
         /\ \A i \in 1 .. Len(listed) : listed'[i] = listed[i]
         /\ listed'[Len(listed) + 1] =
              IF exec = "copy" /\ SlotOf(newest - Len(listed)) = SlotOf(fill)
                THEN Torn ELSE trades[SlotOf(newest - Len(listed))]
         /\ UNCHANGED <<setVars, execVars, watched, server, shown, newest,
                        disturbed>>
<1> DEFINE slot == ReadSlot(Len(listed))
           entry == IF exec = "copy" /\ slot = SlotOf(fill) THEN Torn ELSE trades[slot]
           n == newest - Len(listed)
<1>1. /\ server = "list" /\ Len(listed) < Count(Index(newest))
      /\ listed' = Append(listed, entry)
      /\ UNCHANGED <<setVars, execVars, watched, server, shown, newest, disturbed>>
  BY DEF ListEntry
<1>2. /\ newest \in Nat /\ Len(listed) \in Nat
      /\ listed \in Seq(Torn .. MaxFills)
      /\ trades \in [Slots -> 0 .. MaxFills]
      /\ newest \in 0 .. Len(released)
  BY Numbers DEF Typed, ServerTyped, ExecTyped
<1>3. /\ Count(Index(newest)) = Index(newest) /\ Index(newest) \in 0 .. MaxTrades
  BY <1>2, IndexIs
<1>4. Len(listed) \in 0 .. Index(newest) - 1
  BY <1>1, <1>2, <1>3, Sizes
<1>5. /\ n \in Nat \ {0} /\ slot = SlotOf(n)
      /\ SlotOf(n) < Count(Index(newest))
  BY <1>2, <1>4, ReadSlotIs DEF ReadSlot
<1>6. SlotOf(n) \in Slots
  BY <1>5, SlotIs
<1>7. entry \in Torn .. MaxFills
  <2>1. trades[slot] \in 0 .. MaxFills
    BY <1>2, <1>5, <1>6
  <2>2. QED
    BY <2>1, Sizes DEF Torn
<1> HIDE DEF entry
<1>8. /\ listed' \in Seq(Torn .. MaxFills)
      /\ Len(listed') = Len(listed) + 1
      /\ \A i \in 1 .. Len(listed) : listed'[i] = listed[i]
      /\ listed'[Len(listed) + 1] = entry
  BY <1>1, <1>2, <1>7, AppendProperties
<1>9. entry = IF exec = "copy" /\ SlotOf(n) = SlotOf(fill)
                THEN Torn ELSE trades[SlotOf(n)]
  BY <1>5 DEF entry
<1>10. SetTyped' /\ ExecTyped' /\ Progress'
  BY <1>1 DEF Typed, SetTyped, ExecTyped, Progress, Published, fill, setVars,
            execVars
<1>11. ServerTyped'
  <2>1. Len(listed') <= Count(Index(newest))
    BY <1>1, <1>2, <1>3, <1>8, Sizes
  <2>2. Len(listed)' <= Count(Index(newest))'
    BY <1>1, <2>1 DEF Count, Index
  <2>3. QED
    BY <1>1, <1>8, <2>2 DEF Typed, ServerTyped, execVars
<1>12. QED
  BY <1>1, <1>5, <1>8, <1>9, <1>10, <1>11 DEF Typed, InList

(* A list that is complete goes out.                                       *)
LEMMA SendMoves ==
  ASSUME Typed, Send
  PROVE  /\ Typed'
         /\ server = "list" /\ server' = "idle"
         /\ UNCHANGED <<setVars, execVars, watched, shown, newest, listed,
                        disturbed>>
<1>1. /\ server = "list" /\ server' = "idle"
      /\ UNCHANGED <<setVars, execVars, watched, shown, newest, listed,
                     disturbed>>
  BY DEF Send
<1>2. SetTyped' /\ ExecTyped' /\ Progress' /\ ServerTyped'
  BY <1>1 DEF Typed, SetTyped, ExecTyped, ServerTyped, Progress, Published, fill,
            setVars, execVars
<1>3. QED
  BY <1>1, <1>2 DEF Typed

(* The flags are Booleans.                                                 *)
LEMMA FlagsKept ==
  ASSUME Flags, [Next]_vars
  PROVE  Flags'
<1>1. CASE UNCHANGED vars
  BY <1>1, Zenon DEF Flags, vars
<1>2. CASE Loading /\ UNCHANGED threadVars
  BY <1>2, Zenon DEF Flags, threadVars
<1>3. CASE \E s \in DOMAIN strats : BeginFill(s)
  BY <1>3, Zenon DEF Flags, BeginFill
<1>4. CASE StoreMetrics \/ EndEntry \/ StoreIndex
  BY <1>4, Zenon DEF Flags, StoreMetrics, EndEntry, StoreIndex
<1>5. CASE BeginEntry
  <2>1. watched' = watched
    BY <1>5, Zenon DEF BeginEntry
  <2>2. disturbed' = (disturbed \/ (server = "list" /\ InList(fill, newest)))
    BY <1>5, Zenon DEF BeginEntry
  <2>3. (disturbed \/ (server = "list" /\ InList(fill, newest))) \in BOOLEAN
    BY Zenon
  <2>4. QED
    BY <2>1, <2>2, <2>3, Zenon DEF Flags
<1>6. CASE Watch
  BY <1>6, Zenon DEF Flags, Watch
<1>7. CASE LoadRows \/ ListEntry \/ Send
  BY <1>7, Zenon DEF Flags, LoadRows, ListEntry, Send
<1>8. ASSUME NEW n \in 0 .. MaxFills, LoadIndex(n) PROVE Flags'
  <2>1. watched' = watched
    BY <1>8, Zenon DEF LoadIndex
  <2>2. disturbed' \in BOOLEAN
    BY <1>8, Zenon DEF LoadIndex
  <2>3. QED
    BY <2>1, <2>2, Zenon DEF Flags
<1>9. QED
  BY <1>1, <1>2, <1>3, <1>4, <1>5, <1>6, <1>7, <1>8, Zenon DEF Next, Exec, Server

(* Nothing changes.                                                        *)
LEMMA StillTyped ==
  ASSUME Typed, UNCHANGED vars
  PROVE  Typed'
BY DEF Typed, SetTyped, ExecTyped, ServerTyped, Progress, Published, fill, vars,
       setVars, execVars, serverVars

(* One step of the specification is one of these.                          *)
LEMMA Steps ==
  ASSUME [Next]_vars
  PROVE  \/ UNCHANGED vars
         \/ Loading /\ UNCHANGED threadVars
         \/ \E s \in DOMAIN strats : BeginFill(s)
         \/ StoreMetrics \/ BeginEntry \/ EndEntry \/ StoreIndex
         \/ Watch \/ LoadRows \/ ListEntry \/ Send
         \/ \E n \in 0 .. MaxFills : LoadIndex(n)
BY Zenon DEF Next, Exec, Server

(* Every step keeps the types.                                             *)
LEMMA TypedKept ==
  ASSUME Typed, [Next]_vars
  PROVE  Typed'
BY Steps, StillTyped, LoadingTyped, BeginFillMoves, StoreMetricsMoves,
   BeginEntryMoves, EndEntryMoves, StoreIndexMoves, WatchMoves, LoadRowsMoves,
   LoadIndexMoves, ListEntryMoves, SendMoves

(* They hold at first.                                                     *)
LEMMA TypedInit ==
  ASSUME Init
  PROVE  Typed /\ Flags /\ fill = 0
<1>1. /\ next = 1 /\ strats = <<>> /\ phase = "load"
      /\ filler = <<>> /\ exec = "idle"
      /\ metrics = [r \in Rows |-> None]
      /\ trades = [i \in Slots |-> None]
      /\ released = <<>>
      /\ server = "idle" /\ newest = 0 /\ listed = <<>>
      /\ shown = [r \in Rows |-> None]
  BY DEF Init, InitSet
<1>2. fill = 0 /\ Len(released) = 0 /\ Len(listed) = 0
  BY <1>1, EmptySeq DEF fill
<1>3. SetTyped
  <2>1. strats \in Seq(Definitions)
    BY <1>1, EmptySeq
  <2>2. QED
    BY <1>1, <2>1, Sizes DEF SetTyped
<1>4. ExecTyped
  <2>1. filler \in Seq(DOMAIN strats) /\ released \in Seq([Rows -> 0 .. MaxFills])
    BY <1>1, EmptySeq
  <2>2. QED
    BY <1>1, <1>2, <2>1, Sizes DEF ExecTyped, None, fill
<1>5. ServerTyped
  <2>1. listed \in Seq(Torn .. MaxFills)
    BY <1>1, EmptySeq
  <2>2. Count(Index(newest)) = 0
    BY <1>1, Sizes DEF Count, Index
  <2>3. QED
    BY <1>1, <1>2, <2>1, <2>2, Sizes DEF ServerTyped, None
<1>6. Progress
  BY <1>1, <1>2 DEF Progress, Published
<1>7. Flags
  BY Zenon DEF Init, Flags
<1>8. QED
  BY <1>2, <1>3, <1>4, <1>5, <1>6, <1>7 DEF Typed

(* The types hold throughout.                                              *)
LEMMA AlwaysTyped == Spec => [](Typed /\ Flags)
<1>1. Init => Typed /\ Flags
  BY TypedInit
<1>2. Typed /\ Flags /\ [Next]_vars => (Typed /\ Flags)'
  BY TypedKept, FlagsKept
<1>3. QED
  BY <1>1, <1>2, PTL DEF Spec

(* The variables of the engine, of the server and of the loader have the   *)
(* types their code gives them, a list is no longer than the ring, and the *)
(* server never loads a store of the index that was not made.              *)
THEOREM TypeCorrect == Spec => []TypeOK
<1>1. Typed /\ Flags => TypeOK
  <2>1. SUFFICES ASSUME Typed, Flags PROVE TypeOK
    OBVIOUS
  <2>2. Len(listed) <= MaxTrades
    <3>1. /\ newest \in Nat /\ Len(listed) \in Nat
          /\ Len(listed) <= Count(Index(newest))
      BY <2>1, Numbers DEF Typed, ServerTyped
    <3>2. Count(Index(newest)) = Index(newest) /\ Index(newest) \in 0 .. MaxTrades
      BY <3>1, IndexIs
    <3>3. QED
      BY <3>1, <3>2, Sizes
  <2>3. watched \in BOOLEAN /\ disturbed \in BOOLEAN
    BY <2>1, Zenon DEF Flags
  <2>4. QED
    BY <2>1, <2>2, <2>3 DEF TypeOK, Typed, SetTyped, ExecTyped, ServerTyped
<1>2. QED
  BY <1>1, AlwaysTyped, PTL

-----------------------------------------------------------------------------
(* Labels: the engine's table of names and the dashboard's agree.          *)

(* A row is of one of the names, and the name with a row is its label.     *)
LEMMA Labels ==
  ASSUME NEW name
  PROVE  /\ IdOf(name) \in Rows => LabelOf(IdOf(name)) = name
         /\ LabelOf(IdOf(name)) = IF name \in Range(DashboardNames) THEN name ELSE "unknown"
<1>1. EngineNames = DashboardNames
  BY DEF EngineNames, DashboardNames
<1>2. Len(DashboardNames) = 9
  BY DEF DashboardNames
<1>3. DOMAIN DashboardNames = 1 .. 9
  BY DEF DashboardNames
<1>4. CASE \E i \in 1 .. 9 : DashboardNames[i] = name
  <2> DEFINE i == CHOOSE i \in DOMAIN EngineNames : EngineNames[i] = name
  <2>1. i \in 1 .. 9 /\ DashboardNames[i] = name
    BY <1>1, <1>3, <1>4
  <2>2. IdOf(name) = i - 1
    BY <1>1, <1>3, <1>4 DEF IdOf
  <2> HIDE DEF i
  <2>3. LabelOf(IdOf(name)) = DashboardNames[i]
    BY <1>2, <2>1, <2>2 DEF LabelOf
  <2>4. name \in Range(DashboardNames)
    BY <1>3, <2>1 DEF Range
  <2>5. QED
    BY <2>1, <2>3, <2>4
<1>5. CASE ~ \E i \in 1 .. 9 : DashboardNames[i] = name
  <2>1. IdOf(name) = -1
    BY <1>1, <1>3, <1>5 DEF IdOf, NoId
  <2>2. LabelOf(IdOf(name)) = "unknown" /\ IdOf(name) \notin Rows
    BY <1>2, <2>1 DEF LabelOf, Rows
  <2>3. name \notin Range(DashboardNames)
    BY <1>3, <1>5 DEF Range
  <2>4. QED
    BY <2>2, <2>3
<1>6. QED
  BY <1>4, <1>5

(* What is in a row is a fill of the row's strategy.                       *)
RowsKnown ==
  \A r \in Rows :
    /\ metrics[r] # None => metrics[r] \in 1 .. fill /\ RowOf(metrics[r]) = r
    /\ shown[r] # None => shown[r] \in 1 .. fill /\ RowOf(shown[r]) = r

(* What the index acquires, and what a row answers, is no older than the   *)
(* fills before.                                                           *)
KeepUp ==
  /\ \A n \in 1 .. Stored : RowOf(n) \in Rows => metrics[RowOf(n)] >= n
  /\ \A k \in 1 .. Len(released) : \A n \in 1 .. k :
       RowOf(n) \in Rows => released[k][RowOf(n)] >= n
  /\ server = "index" =>
       \A n \in 1 .. newest : RowOf(n) \in Rows => shown[RowOf(n)] >= n

(* A fill keeps its row while others follow.                               *)
LEMMA RowsStay ==
  ASSUME Typed, NEW s \in DOMAIN strats, BeginFill(s)
  PROVE  \A n \in 1 .. fill : RowOf(n)' = RowOf(n)
<1>1. \A n \in 1 .. fill : filler'[n] = filler[n]
  BY BeginFillMoves
<1>2. UNCHANGED setVars
  BY BeginFillMoves
<1>3. QED
  BY <1>1, <1>2 DEF RowOf, IdOf, setVars

(* Steps that leave the fills and the files alone change no row.           *)
LEMMA RowsStill ==
  ASSUME UNCHANGED <<setVars, filler>>
  PROVE  /\ fill' = fill
         /\ \A n : RowOf(n)' = RowOf(n)
BY DEF fill, RowOf, IdOf, setVars

(* Every step keeps what is known of the rows.                             *)
LEMMA RowsKnownKept ==
  ASSUME Typed, RowsKnown, [Next]_vars
  PROVE  RowsKnown'
<1> USE DEF None
<1>1. CASE Loading /\ UNCHANGED threadVars
  <2>1. fill = 0 /\ fill' = 0
    BY <1>1, LoadingTyped, EmptySeq DEF fill
  <2>2. UNCHANGED <<metrics, shown>>
    BY <1>1 DEF threadVars, execVars, serverVars
  <2>3. QED
    BY <2>1, <2>2 DEF RowsKnown
<1>2. CASE \E s \in DOMAIN strats : BeginFill(s)
  <2>1. PICK s \in DOMAIN strats : BeginFill(s)
    BY <1>2
  <2>2. fill' = fill + 1 /\ UNCHANGED <<metrics, shown>>
    BY <2>1, BeginFillMoves DEF serverVars
  <2>3. \A n \in 1 .. fill : RowOf(n)' = RowOf(n)
    BY <2>1, RowsStay
  <2>4. \A r \in Rows :
          /\ metrics[r] # None => metrics'[r] \in 1 .. fill' /\ RowOf(metrics[r])' = r
          /\ shown[r] # None => shown'[r] \in 1 .. fill' /\ RowOf(shown[r])' = r
    BY <2>2, <2>3, Numbers DEF RowsKnown
  <2>5. QED
    BY <2>2, <2>4 DEF RowsKnown
<1>3. CASE StoreMetrics
  <2>1. /\ fill' = fill /\ fill > 0 /\ fill \in Nat /\ shown' = shown
        /\ metrics' = [r \in Rows |-> IF r = RowOf(fill) THEN fill ELSE metrics[r]]
    BY <1>3, StoreMetricsMoves, RowsStill, Numbers DEF serverVars
  <2>2. \A n : RowOf(n)' = RowOf(n)
    BY <1>3, StoreMetricsMoves, RowsStill
  <2>3. \A r \in Rows :
          /\ metrics'[r] # None => metrics'[r] \in 1 .. fill /\ RowOf(metrics'[r]) = r
          /\ shown'[r] # None => shown'[r] \in 1 .. fill /\ RowOf(shown'[r]) = r
    BY <2>1 DEF RowsKnown
  <2>4. \A r \in Rows :
          RowOf(metrics'[r]) = RowOf(metrics[r])' /\ RowOf(shown'[r]) = RowOf(shown[r])'
    BY <1>3, StoreMetricsMoves DEF RowOf, IdOf, setVars
  <2>5. QED
    BY <2>1, <2>3, <2>4 DEF RowsKnown
<1>4. CASE LoadRows
  <2>1. /\ fill' = fill /\ metrics' = metrics
        /\ \A r \in Rows : shown'[r] = shown[r] \/ shown'[r] \in Stores(r)
    BY <1>4, LoadRowsMoves, RowsStill DEF execVars
  <2>2. \A r \in Rows :
          /\ metrics'[r] # None => metrics'[r] \in 1 .. fill /\ RowOf(metrics'[r]) = r
          /\ shown'[r] # None => shown'[r] \in 1 .. fill /\ RowOf(shown'[r]) = r
    BY <2>1 DEF RowsKnown, Stores
  <2>3. \A r \in Rows :
          RowOf(metrics'[r]) = RowOf(metrics[r])' /\ RowOf(shown'[r]) = RowOf(shown[r])'
    BY <1>4, LoadRowsMoves DEF RowOf, IdOf, setVars, execVars
  <2>4. QED
    BY <2>1, <2>2, <2>3 DEF RowsKnown
<1>5. ASSUME UNCHANGED <<setVars, filler, metrics, shown>> PROVE RowsKnown'
  BY <1>5 DEF RowsKnown, RowOf, IdOf, fill, setVars
<1>6. CASE UNCHANGED vars
  BY <1>5, <1>6 DEF vars, execVars, serverVars
<1>7. CASE BeginEntry \/ EndEntry \/ StoreIndex
  <2>1. UNCHANGED <<setVars, filler, metrics, shown>>
    BY <1>7, BeginEntryMoves, EndEntryMoves, StoreIndexMoves DEF serverVars
  <2>2. QED
    BY <1>5, <2>1
<1>8. CASE Watch \/ ListEntry \/ Send \/ \E n \in 0 .. MaxFills : LoadIndex(n)
  <2>1. UNCHANGED <<setVars, filler, metrics, shown>>
    BY <1>8, WatchMoves, ListEntryMoves, SendMoves, LoadIndexMoves DEF execVars, serverVars
  <2>2. QED
    BY <1>5, <2>1
<1>9. QED
  BY <1>1, <1>2, <1>3, <1>4, <1>6, <1>7, <1>8, Steps

(* A row and an entry are labelled with the strategy whose fill they show, *)
(* for any files, any of which may fail to load: the table the engine      *)
(* looks names up in and the dashboard's own agree.                        *)
THEOREM LabelsCorrect == Spec => []LabelIsOfTheFill
<1>1. Init => RowsKnown
  BY DEF Init, RowsKnown
<1>2. (Typed /\ Flags) /\ RowsKnown /\ [Next]_vars => RowsKnown'
  BY RowsKnownKept
<1>3. RowsKnown => LabelIsOfTheFill
  <2>1. SUFFICES ASSUME RowsKnown PROVE LabelIsOfTheFill
    OBVIOUS
  <2>2. ASSUME NEW r \in Rows, shown[r] # None
        PROVE  LabelOf(r) = strats[filler[shown[r]]].name
    <3>1. RowOf(shown[r]) = r
      BY <2>1, <2>2 DEF RowsKnown
    <3>2. IdOf(strats[filler[shown[r]]].name) = r
      BY <3>1 DEF RowOf
    <3>3. QED
      BY <3>2, Labels
  <2>3. ASSUME NEW n \in 1 .. fill
        PROVE  LET name == strats[filler[n]].name IN
               LabelOf(RowOf(n)) = IF name \in Range(DashboardNames) THEN name ELSE "unknown"
    BY Labels DEF RowOf
  <2>4. QED
    BY <2>2, <2>3 DEF LabelIsOfTheFill
<1>4. QED
  BY <1>1, <1>2, <1>3, AlwaysTyped, PTL DEF Spec

-----------------------------------------------------------------------------
(* Rows and the list.                                                      *)

(* Every step keeps the rows up with the list.                             *)
LEMMA KeepUpKept ==
  ASSUME Typed, KeepUp, [Next]_vars
  PROVE  KeepUp'
<1>1. /\ fill \in Nat /\ Len(released) \in Nat /\ newest \in 0 .. Len(released)
      /\ metrics \in [Rows -> 0 .. MaxFills] /\ shown \in [Rows -> 0 .. MaxFills]
      /\ \A k \in 1 .. Len(released) : released[k] \in [Rows -> 0 .. MaxFills]
      /\ MaxFills \in Nat
  BY Numbers DEF Typed, ExecTyped, ServerTyped
<1>2. CASE Loading /\ UNCHANGED threadVars
  <2>1. fill = 0 /\ fill' = 0 /\ exec = "idle" /\ Len(released) = 0
    BY <1>1, <1>2, LoadingTyped, EmptySeq DEF fill, Typed, Progress, Published
  <2>2. UNCHANGED <<exec, metrics, shown, released, newest, server>>
    BY <1>2 DEF threadVars, execVars, serverVars
  <2>3. QED
    BY <1>1, <2>1, <2>2 DEF KeepUp, Stored
<1>3. CASE \E s \in DOMAIN strats : BeginFill(s)
  <2>1. PICK s \in DOMAIN strats : BeginFill(s)
    BY <1>3
  <2>2. /\ fill' = fill + 1 /\ exec = "idle" /\ exec' = "metrics"
        /\ UNCHANGED <<metrics, shown, released, newest, server>>
    BY <2>1, BeginFillMoves DEF serverVars
  <2>3. \A n \in 1 .. fill : RowOf(n)' = RowOf(n)
    BY <2>1, RowsStay
  <2>4. Stored = fill /\ Stored' = fill /\ Len(released) = fill
    BY <1>1, <2>2 DEF Stored, Typed, Progress, Published
  <2>5. \A n \in 1 .. Stored' : RowOf(n)' \in Rows => metrics'[RowOf(n)'] >= n
    BY <2>2, <2>3, <2>4 DEF KeepUp
  <2>6. \A k \in 1 .. Len(released) : \A n \in 1 .. k :
          RowOf(n)' \in Rows => released'[k][RowOf(n)'] >= n
    BY <1>1, <2>2, <2>3, <2>4 DEF KeepUp
  <2>7. server' = "index" =>
          \A n \in 1 .. newest : RowOf(n)' \in Rows => shown'[RowOf(n)'] >= n
    BY <1>1, <2>2, <2>3, <2>4 DEF KeepUp
  <2>8. QED
    BY <2>2, <2>5, <2>6, <2>7 DEF KeepUp
<1>4. CASE StoreMetrics
  <2>1. /\ exec = "metrics" /\ exec' = "entry" /\ fill > 0 /\ fill' = fill
        /\ metrics' = [r \in Rows |-> IF r = RowOf(fill) THEN fill ELSE metrics[r]]
        /\ UNCHANGED <<shown, released, newest, server>>
        /\ \A n : RowOf(n)' = RowOf(n)
    BY <1>4, StoreMetricsMoves, RowsStill DEF serverVars
  <2>2. Stored = fill - 1 /\ Stored' = fill
    BY <2>1 DEF Stored
  <2>3. \A n \in 1 .. fill : RowOf(n) \in Rows => metrics'[RowOf(n)] >= n
    <3>1. SUFFICES ASSUME NEW n \in 1 .. fill, RowOf(n) \in Rows
                   PROVE  metrics'[RowOf(n)] >= n
      OBVIOUS
    <3>2. CASE RowOf(n) = RowOf(fill)
      BY <1>1, <2>1, <3>1, <3>2
    <3>3. CASE RowOf(n) # RowOf(fill)
      <4>1. n \in 1 .. Stored
        BY <1>1, <2>2, <3>3
      <4>2. metrics'[RowOf(n)] = metrics[RowOf(n)]
        BY <2>1, <3>1, <3>3
      <4>3. QED
        BY <3>1, <4>1, <4>2 DEF KeepUp
    <3>4. QED
      BY <3>2, <3>3
  <2>4. QED
    BY <2>1, <2>2, <2>3 DEF KeepUp
<1>5. CASE StoreIndex
  <2>1. /\ exec = "publish" /\ exec' = "idle" /\ fill > 0 /\ fill' = fill
        /\ Len(released') = fill /\ Len(released) = fill - 1
        /\ \A n \in 1 .. Len(released) : released'[n] = released[n]
        /\ released'[fill] = metrics
        /\ UNCHANGED <<metrics, shown, newest, server>>
        /\ \A n : RowOf(n)' = RowOf(n)
    BY <1>5, StoreIndexMoves, RowsStill DEF serverVars
  <2>2. Stored = fill /\ Stored' = fill
    BY <2>1 DEF Stored
  <2>3. \A k \in 1 .. fill : \A n \in 1 .. k :
          RowOf(n) \in Rows => released'[k][RowOf(n)] >= n
    <3>1. SUFFICES ASSUME NEW k \in 1 .. fill, NEW n \in 1 .. k, RowOf(n) \in Rows
                   PROVE  released'[k][RowOf(n)] >= n
      OBVIOUS
    <3>2. CASE k = fill
      BY <1>1, <2>1, <2>2, <3>1, <3>2 DEF KeepUp
    <3>3. CASE k < fill
      <4>1. k \in 1 .. Len(released)
        BY <1>1, <2>1, <3>3
      <4>2. QED
        BY <2>1, <3>1, <4>1 DEF KeepUp
    <3>4. QED
      BY <1>1, <3>2, <3>3
  <2>4. QED
    BY <2>1, <2>2, <2>3 DEF KeepUp
<1>6. CASE LoadRows
  <2>1. /\ \A r \in Rows :
             \/ metrics[r] = None /\ shown'[r] = shown[r]
             \/ /\ shown'[r] \in Stores(r)
                /\ shown'[r] >= shown[r] /\ shown'[r] >= Acquired(r)
        /\ UNCHANGED <<exec, metrics, released, newest>>
        /\ fill' = fill /\ \A n : RowOf(n)' = RowOf(n)
    BY <1>6, LoadRowsMoves, RowsStill DEF execVars
  <2>2. newest <= Stored
    BY <1>1 DEF Typed, Progress, Published, Stored
  <2>3. \A n \in 1 .. newest : RowOf(n) \in Rows => shown'[RowOf(n)] >= n
    <3>1. SUFFICES ASSUME NEW n \in 1 .. newest, RowOf(n) \in Rows
                   PROVE  shown'[RowOf(n)] >= n
      OBVIOUS
    <3>2. n \in 1 .. Stored /\ newest \in 1 .. Len(released) /\ newest # 0
      BY <1>1, <2>2 DEF Stored
    <3>3. metrics[RowOf(n)] >= n /\ released[newest][RowOf(n)] >= n
      BY <3>1, <3>2 DEF KeepUp
    <3>4. metrics[RowOf(n)] # None
      BY <3>2, <3>3 DEF None
    <3>5. shown'[RowOf(n)] \in Stores(RowOf(n)) /\ shown'[RowOf(n)] >= released[newest][RowOf(n)]
      BY <2>1, <3>1, <3>2, <3>4 DEF Acquired
    <3>6. shown'[RowOf(n)] \in Nat /\ released[newest][RowOf(n)] \in Nat
      BY <1>1, <3>1, <3>2, <3>5 DEF Stores, None
    <3>7. QED
      BY <1>1, <3>3, <3>5, <3>6
  <2>4. Stored' = Stored
    BY <2>1 DEF Stored
  <2>5. QED
    BY <2>1, <2>3, <2>4 DEF KeepUp
<1>7. ASSUME UNCHANGED <<setVars, filler, metrics, released>>,
             Stored' = Stored,
             server' = "index" => /\ server = "index"
                                  /\ UNCHANGED <<shown, newest>>
      PROVE  KeepUp'
  <2>1. \A n : RowOf(n)' = RowOf(n)
    BY <1>7, RowsStill
  <2>2. QED
    BY <1>7, <2>1 DEF KeepUp
<1>8. CASE UNCHANGED vars
  BY <1>7, <1>8 DEF vars, execVars, serverVars, Stored, fill
<1>9. CASE BeginEntry \/ EndEntry
  <2>1. /\ UNCHANGED <<setVars, filler, metrics, released, shown, newest, server>>
        /\ Stored' = Stored
    BY <1>9, BeginEntryMoves, EndEntryMoves DEF serverVars, Stored, fill
  <2>2. QED
    BY <1>7, <2>1
<1>10. CASE Watch \/ ListEntry \/ Send \/ \E n \in 0 .. MaxFills : LoadIndex(n)
  <2>1. /\ UNCHANGED <<setVars, filler, metrics, released>>
        /\ Stored' = Stored
    BY <1>10, WatchMoves, ListEntryMoves, SendMoves, LoadIndexMoves
       DEF execVars, Stored, fill
  <2>2. server' = "index" => server = "index" /\ UNCHANGED <<shown, newest>>
    BY <1>10, WatchMoves, ListEntryMoves, SendMoves, LoadIndexMoves DEF serverVars
  <2>3. QED
    BY <1>7, <2>1, <2>2
<1>11. QED
  BY <1>2, <1>3, <1>4, <1>5, <1>6, <1>8, <1>9, <1>10, Steps

(* When the server has read the rows, each is as new as the list it showed *)
(* last, however the loads and stores of the two threads are ordered: the  *)
(* release of trade_idx after the metrics, and its acquire, are enough.    *)
THEOREM RowsFollowList == Spec => []RowsKeepUpWithList
<1>1. Init => KeepUp
  <2>1. SUFFICES ASSUME Init PROVE KeepUp
    OBVIOUS
  <2>2. exec = "idle" /\ released = <<>> /\ server = "idle"
    BY <2>1 DEF Init
  <2>3. fill = 0
    BY <2>1, TypedInit
  <2>4. Len(released) = 0
    BY <2>2, EmptySeq
  <2>5. QED
    BY <2>2, <2>3, <2>4 DEF KeepUp, Stored
<1>2. (Typed /\ Flags) /\ KeepUp /\ [Next]_vars => KeepUp'
  BY KeepUpKept
<1>3. KeepUp => RowsKeepUpWithList
  BY DEF KeepUp, RowsKeepUpWithList
<1>4. QED
  BY <1>1, <1>2, <1>3, AlwaysTyped, PTL DEF Spec

-----------------------------------------------------------------------------
(* The ring.                                                               *)

(* The slots hold the last fills, as many as there are slots.              *)
Ring ==
  \A n \in 1 .. Written : n > Written - MaxTrades => trades[SlotOf(n)] = n

(* Nothing was written over the undisturbed list, which is what it should. *)
Listing ==
  server = "list" /\ ~disturbed =>
    /\ \A k \in newest + 1 .. Begun : ~InList(k, newest)
    /\ \A i \in DOMAIN listed : listed[i] = newest - i + 1

(* On the first lap nothing can be.                                        *)
FirstLap == fill <= MaxTrades => ~disturbed

(* Where the execution thread is, in numbers.                              *)
LEMMA Counts ==
  ASSUME Typed
  PROVE  /\ fill \in Nat /\ newest \in Nat /\ MaxTrades \in Nat \ {0}
         /\ Written \in Nat /\ Begun \in Nat
         /\ newest <= Len(released) /\ Len(released) = Published
         /\ Published <= Written /\ Written <= Begun /\ Begun <= fill
         /\ exec # "idle" => newest < fill
         /\ newest <= Written
BY Numbers, Sizes DEF Typed, ExecTyped, Progress, Published, Written, Begun

(* A fill is written over what the slot held a lap ago, and nothing else.  *)
LEMMA RingKept ==
  ASSUME Typed, Ring, [Next]_vars
  PROVE  Ring'
<1>1. CASE Loading /\ UNCHANGED threadVars
  <2>1. Written' = Written /\ trades' = trades
    BY <1>1 DEF threadVars, execVars, Written, fill
  <2>2. QED
    BY <2>1 DEF Ring
<1>2. CASE \E s \in DOMAIN strats : BeginFill(s)
  <2>1. PICK s \in DOMAIN strats : BeginFill(s)
    BY <1>2
  <2>2. fill' = fill + 1 /\ exec = "idle" /\ exec' = "metrics" /\ trades' = trades
    BY <2>1, BeginFillMoves
  <2>3. Written' = Written
    BY <2>2, Counts DEF Written
  <2>4. QED
    BY <2>2, <2>3 DEF Ring
<1>3. CASE EndEntry
  <2>1. /\ exec = "copy" /\ exec' = "publish" /\ fill > 0 /\ fill' = fill
        /\ trades' = [i \in Slots |-> IF i = SlotOf(fill) THEN fill ELSE trades[i]]
    BY <1>3, EndEntryMoves, RowsStill
  <2>2. Written' = fill /\ Written = fill - 1
    BY <2>1 DEF Written
  <2>3. fill \in Nat \ {0} /\ MaxTrades \in Nat \ {0}
    BY <2>1, Counts
  <2>4. ASSUME NEW n \in 1 .. fill, n > fill - MaxTrades
        PROVE  trades'[SlotOf(n)] = n
    <3>1. SlotOf(n) \in Slots /\ SlotOf(fill) \in Slots
      BY <2>3, SlotIs
    <3>2. CASE n = fill
      BY <2>1, <3>1, <3>2
    <3>3. CASE n < fill
      <4>1. SlotOf(n) # SlotOf(fill)
        <5>1. n \in Nat \ {0} /\ fill - n < MaxTrades
          BY <2>3, <2>4
        <5>2. QED
          BY <2>3, <3>3, <5>1, SlotsOfFills
      <4>2. trades[SlotOf(n)] = n
        <5>1. n \in 1 .. Written /\ n > Written - MaxTrades
          BY <2>2, <2>3, <2>4, <3>3
        <5>2. QED
          BY <5>1 DEF Ring
      <4>3. QED
        BY <2>1, <3>1, <4>1, <4>2
    <3>4. QED
      BY <2>3, <3>2, <3>3
  <2>5. QED
    BY <2>2, <2>4 DEF Ring
<1>4. CASE StoreMetrics \/ BeginEntry \/ StoreIndex
  <2>1. Written' = Written /\ trades' = trades
    BY <1>4, StoreMetricsMoves, BeginEntryMoves, StoreIndexMoves DEF Written, fill
  <2>2. QED
    BY <2>1 DEF Ring
<1>5. CASE \/ UNCHANGED vars
           \/ Watch \/ LoadRows \/ ListEntry \/ Send
           \/ \E n \in 0 .. MaxFills : LoadIndex(n)
  <2>1. UNCHANGED execVars
    BY <1>5, WatchMoves, LoadRowsMoves, ListEntryMoves, SendMoves, LoadIndexMoves DEF vars
  <2>2. QED
    BY <2>1 DEF Ring, Written, fill, execVars
<1>6. QED
  BY <1>1, <1>2, <1>3, <1>4, <1>5, Steps

(* The entry the server lists next is whole and of the fill its place in   *)
(* the list is for: the slot was not written since, for a later fill there *)
(* would be one of the list.                                               *)
LEMMA EntryIsOfItsFill ==
  ASSUME Typed, Ring, Listing, ~disturbed, ListEntry
  PROVE  listed'[Len(listed) + 1] = newest - Len(listed)
<1> DEFINE n == newest - Len(listed)
<1>1. /\ server = "list" /\ n \in Nat \ {0} /\ InList(n, newest)
      /\ listed'[Len(listed) + 1] =
           IF exec = "copy" /\ SlotOf(n) = SlotOf(fill) THEN Torn ELSE trades[SlotOf(n)]
  BY ListEntryMoves
<1>2. \A k \in newest + 1 .. Begun : ~InList(k, newest)
  BY <1>1 DEF Listing
<1>3. Len(listed) < MaxTrades
  <2>1. Len(listed) < Count(Index(newest)) /\ newest \in Nat
    BY Counts DEF ListEntry
  <2>2. Count(Index(newest)) = Index(newest) /\ Index(newest) \in 0 .. MaxTrades
    BY <2>1, IndexIs
  <2>3. QED
    BY <2>1, <2>2, Counts, Numbers
<1>4. Len(listed) \in Nat /\ n \in Nat /\ n <= newest /\ n + MaxTrades > newest
  BY <1>1, <1>3, Counts, Numbers
<1>5. ~(exec = "copy" /\ SlotOf(n) = SlotOf(fill))
  <2>1. SUFFICES ASSUME exec = "copy", SlotOf(n) = SlotOf(fill) PROVE FALSE
    OBVIOUS
  <2>2. Begun = fill /\ fill \in newest + 1 .. Begun
    BY <2>1, Counts DEF Begun
  <2>3. InList(fill, newest)
    BY <1>1, <2>1 DEF InList
  <2>4. QED
    BY <1>2, <2>2, <2>3
<1>6. n > Written - MaxTrades
  <2>1. SUFFICES ASSUME n + MaxTrades <= Written PROVE FALSE
    BY <1>4, Counts
  <2>2. n + MaxTrades \in newest + 1 .. Begun
    BY <1>4, <2>1, Counts
  <2>3. SlotOf(n) = SlotOf(n + MaxTrades)
    <3>1. n + MaxTrades \in Nat \ {0} /\ n < n + MaxTrades
      BY <1>1, Counts
    <3>2. QED
      BY <1>1, <3>1, SlotsOfFills
  <2>4. InList(n + MaxTrades, newest)
    BY <1>1, <2>3 DEF InList
  <2>5. QED
    BY <1>2, <2>2, <2>4
<1>7. trades[SlotOf(n)] = n
  <2>1. n \in 1 .. Written
    BY <1>1, <1>4, Counts
  <2>2. QED
    BY <1>6, <2>1 DEF Ring
<1>8. QED
  BY <1>1, <1>5, <1>7

(* A list is disturbed when the copy of an entry into it begins.           *)
LEMMA BeginEntryDisturbs ==
  ASSUME BeginEntry, ~disturbed'
  PROVE  ~disturbed /\ ~(server = "list" /\ InList(fill, newest))
BY Zenon DEF BeginEntry

(* Or when it begins after the copy did.                                   *)
LEMMA LoadIndexDisturbs ==
  ASSUME Typed, Ring, NEW n \in 0 .. MaxFills, LoadIndex(n), ~disturbed'
  PROVE  \A k \in n + 1 .. Begun : ~InList(k, n)
<1>1. \A k \in n + 1 .. fill :
        ~(InList(k, n) /\ (k < fill \/ exec = "copy" \/ trades[SlotOf(k)] = k))
  BY Zenon DEF LoadIndex
<1>2. SUFFICES ASSUME NEW k \in n + 1 .. Begun, InList(k, n) PROVE FALSE
  OBVIOUS
<1>3. n \in Nat /\ fill \in Nat /\ Begun \in Nat /\ Begun <= fill
  BY Numbers, Counts
<1>4. k \in n + 1 .. fill /\ k >= 1
  BY <1>3
<1>5. k = fill /\ exec # "copy" /\ trades[SlotOf(k)] # k
  BY <1>1, <1>2, <1>3, <1>4
<1>6. Written = fill
  BY <1>3, <1>5 DEF Begun, Written, Typed, ExecTyped
<1>7. trades[SlotOf(k)] = k
  <2>1. k \in 1 .. Written /\ k > Written - MaxTrades
    BY <1>3, <1>4, <1>5, <1>6, Sizes
  <2>2. QED
    BY <2>1 DEF Ring
<1>8. QED
  BY <1>5, <1>7

(* Every step keeps the list.                                              *)
LEMMA ListingKept ==
  ASSUME Typed, Ring, Listing, [Next]_vars
  PROVE  Listing'
<1>1. ASSUME Begun' = Begun, UNCHANGED <<server, newest, listed, disturbed>>
      PROVE  Listing'
  <2>1. \A k : InList(k, newest)' <=> InList(k, newest)
    BY <1>1 DEF InList, SlotOf, Count, Index
  <2>2. CASE disturbed
    <3>1. disturbed'
      BY <1>1, <2>2, Zenon
    <3>2. QED
      BY <3>1 DEF Listing
  <2>3. CASE ~disturbed
    BY <1>1, <2>1, <2>3 DEF Listing
  <2>4. QED
    BY <2>2, <2>3
<1>2. CASE UNCHANGED vars \/ (Loading /\ UNCHANGED threadVars)
  <2>1. Begun' = Begun /\ UNCHANGED <<server, newest, listed, disturbed>>
    BY <1>2 DEF vars, threadVars, execVars, serverVars, Begun, fill
  <2>2. QED
    BY <1>1, <2>1
<1>3. CASE \E s \in DOMAIN strats : BeginFill(s)
  <2>1. PICK s \in DOMAIN strats : BeginFill(s)
    BY <1>3
  <2>2. /\ fill' = fill + 1 /\ exec = "idle" /\ exec' = "metrics"
        /\ UNCHANGED <<server, newest, listed, disturbed>>
    BY <2>1, BeginFillMoves DEF serverVars
  <2>3. Begun' = Begun
    BY <2>2, Counts DEF Begun
  <2>4. QED
    BY <1>1, <2>2, <2>3
<1>4. CASE StoreMetrics \/ EndEntry \/ StoreIndex
  <2>1. Begun' = Begun /\ UNCHANGED <<server, newest, listed, disturbed>>
    BY <1>4, StoreMetricsMoves, EndEntryMoves, StoreIndexMoves DEF serverVars, Begun, fill
  <2>2. QED
    BY <1>1, <2>1
<1>5. CASE BeginEntry
  <2>1. SUFFICES ASSUME server' = "list", ~disturbed'
                 PROVE  /\ \A k \in newest' + 1 .. Begun' : ~InList(k, newest')
                        /\ \A i \in DOMAIN listed' : listed'[i] = newest' - i + 1
    BY DEF Listing, InList, SlotOf, Count, Index
  <2>2. /\ exec = "entry" /\ exec' = "copy" /\ fill' = fill
        /\ UNCHANGED <<server, newest, listed>>
    BY <1>5, BeginEntryMoves, RowsStill DEF serverVars
  <2>3. ~disturbed /\ ~InList(fill, newest)
    BY <1>5, <2>1, <2>2, BeginEntryDisturbs
  <2>4. Begun = fill - 1 /\ Begun' = fill
    BY <2>2 DEF Begun
  <2>5. \A k \in newest + 1 .. fill : ~InList(k, newest)
    BY <2>1, <2>2, <2>3, <2>4, Counts DEF Listing
  <2>6. QED
    BY <2>1, <2>2, <2>3, <2>4, <2>5 DEF Listing
<1>6. ASSUME NEW n \in 0 .. MaxFills, LoadIndex(n) PROVE Listing'
  <2>1. SUFFICES ASSUME server' = "list", ~disturbed'
                 PROVE  /\ \A k \in newest' + 1 .. Begun' : ~InList(k, newest')
                        /\ \A i \in DOMAIN listed' : listed'[i] = newest' - i + 1
    BY DEF Listing, InList, SlotOf, Count, Index
  <2>2. newest' = n /\ listed' = <<>> /\ Begun' = Begun
    BY <1>6, LoadIndexMoves DEF execVars, Begun, fill
  <2>3. \A k \in n + 1 .. Begun : ~InList(k, n)
    BY <1>6, <2>1, LoadIndexDisturbs
  <2>4. QED
    BY <2>2, <2>3
<1>7. CASE ListEntry
  <2>1. SUFFICES ASSUME server' = "list", ~disturbed'
                 PROVE  /\ \A k \in newest' + 1 .. Begun' : ~InList(k, newest')
                        /\ \A i \in DOMAIN listed' : listed'[i] = newest' - i + 1
    BY DEF Listing, InList, SlotOf, Count, Index
  <2>2. /\ server = "list" /\ Len(listed') = Len(listed) + 1
        /\ \A i \in 1 .. Len(listed) : listed'[i] = listed[i]
        /\ newest' = newest /\ Begun' = Begun
    BY <1>7, ListEntryMoves DEF execVars, Begun, fill
  <2>3. ~disturbed
    <3>1. disturbed' = disturbed
      BY <1>7, Zenon DEF ListEntry
    <3>2. QED
      BY <2>1, <3>1, Zenon
  <2>4. listed'[Len(listed) + 1] = newest - Len(listed)
    BY <1>7, <2>3, EntryIsOfItsFill
  <2>5. \A i \in 1 .. Len(listed) : listed[i] = newest - i + 1
    BY <2>2, <2>3, Numbers DEF Listing
  <2>6. DOMAIN listed' = 1 .. Len(listed) + 1 /\ Len(listed) \in Nat
    <3>1. listed' \in Seq(Torn .. MaxFills)
      BY <1>7, ListEntryMoves DEF Typed, ServerTyped
    <3>2. QED
      BY <2>2, <3>1, Numbers, LenProperties
  <2>7. ASSUME NEW i \in DOMAIN listed' PROVE listed'[i] = newest - i + 1
    <3>1. CASE i = Len(listed) + 1
      BY <2>4, <2>6, <3>1, Counts
    <3>2. CASE i \in 1 .. Len(listed)
      BY <2>2, <2>5, <3>2
    <3>3. QED
      BY <2>6, <2>7, <3>1, <3>2
  <2>8. QED
    BY <2>2, <2>3, <2>7 DEF Listing
<1>8. CASE Watch
  <2>1. Begun' = Begun /\ UNCHANGED <<server, newest, listed, disturbed>>
    BY <1>8, WatchMoves DEF execVars, serverVars, Begun, fill
  <2>2. QED
    BY <1>1, <2>1
<1>9. CASE LoadRows \/ Send
  <2>1. server' # "list"
    BY <1>9, LoadRowsMoves, SendMoves
  <2>2. QED
    BY <2>1 DEF Listing
<1>10. QED
  BY <1>2, <1>3, <1>4, <1>5, <1>6, <1>7, <1>8, <1>9, Steps

(* On the first lap the slots of a list are those of fills it may know.    *)
LEMMA NewFillsAreNotListed ==
  ASSUME NEW s \in Nat, NEW k \in Nat \ {0}, s < k, k <= MaxTrades
  PROVE  ~InList(k, s)
<1>1. SlotOf(k) = k - 1
  BY SlotIs
<1>2. Count(Index(s)) = Index(s) /\ Index(s) <= s /\ Index(s) \in 0 .. MaxTrades
  BY IndexIs
<1>3. QED
  BY <1>1, <1>2, Sizes DEF InList

(* Every step keeps the first lap undisturbed.                             *)
LEMMA FirstLapKept ==
  ASSUME Typed, FirstLap, [Next]_vars
  PROVE  FirstLap'
<1>1. ASSUME fill' = fill, disturbed' = disturbed PROVE FirstLap'
  BY <1>1, Zenon DEF FirstLap
<1>2. CASE UNCHANGED vars \/ (Loading /\ UNCHANGED threadVars)
  <2>1. fill' = fill /\ disturbed' = disturbed
    BY <1>2 DEF vars, threadVars, execVars, fill
  <2>2. QED
    BY <1>1, <2>1
<1>3. CASE \E s \in DOMAIN strats : BeginFill(s)
  <2>1. PICK s \in DOMAIN strats : BeginFill(s)
    BY <1>3
  <2>2. fill' = fill + 1 /\ fill \in Nat /\ MaxTrades \in Nat
    BY <2>1, BeginFillMoves, Counts
  <2>3. disturbed' = disturbed
    BY <2>1, BeginFillMoves
  <2>4. fill' <= MaxTrades => fill <= MaxTrades
    BY <2>2
  <2>5. QED
    BY <2>3, <2>4, Zenon DEF FirstLap
<1>4. CASE StoreMetrics \/ EndEntry \/ StoreIndex
  <2>1. fill' = fill /\ disturbed' = disturbed
    BY <1>4, StoreMetricsMoves, EndEntryMoves, StoreIndexMoves DEF fill
  <2>2. QED
    BY <1>1, <2>1
<1>5. CASE BeginEntry
  <2>1. SUFFICES ASSUME fill' <= MaxTrades PROVE ~disturbed'
    BY DEF FirstLap
  <2>2. fill' = fill /\ exec = "entry"
    BY <1>5, BeginEntryMoves DEF fill
  <2>3. ~InList(fill, newest)
    BY <2>1, <2>2, Counts, NewFillsAreNotListed
  <2>4. ~disturbed
    BY <2>1, <2>2 DEF FirstLap
  <2>5. disturbed' = (disturbed \/ (server = "list" /\ InList(fill, newest)))
    BY <1>5, Zenon DEF BeginEntry
  <2>6. QED
    BY <2>3, <2>4, <2>5, Zenon
<1>6. ASSUME NEW n \in 0 .. MaxFills, LoadIndex(n) PROVE FirstLap'
  <2>1. SUFFICES ASSUME fill' <= MaxTrades PROVE ~disturbed'
    BY DEF FirstLap
  <2>2. fill' = fill /\ fill \in Nat /\ n \in Nat /\ MaxTrades \in Nat
    BY <1>6, LoadIndexMoves, Counts, Numbers DEF execVars, fill
  <2>3. \A k \in n + 1 .. fill : ~InList(k, n)
    BY <2>1, <2>2, NewFillsAreNotListed
  <2>4. disturbed' = \E k \in n + 1 .. fill :
                       /\ InList(k, n)
                       /\ k < fill \/ exec = "copy" \/ trades[SlotOf(k)] = k
    BY <1>6, Zenon DEF LoadIndex
  <2>5. QED
    BY <2>3, <2>4, Zenon
<1>7. CASE Watch \/ LoadRows \/ ListEntry \/ Send
  <2>1. fill' = fill
    BY <1>7, WatchMoves, LoadRowsMoves, ListEntryMoves, SendMoves DEF execVars, fill
  <2>2. disturbed' = disturbed
    BY <1>7, Zenon DEF Watch, LoadRows, ListEntry, Send
  <2>3. QED
    BY <1>1, <2>1, <2>2
<1>8. QED
  BY <1>2, <1>3, <1>4, <1>5, <1>6, <1>7, Steps

(* The ring and the list hold throughout.                                  *)
LEMMA AlwaysListed == Spec => [](Ring /\ Listing)
<1>1. Init => Ring /\ Listing
  <2>1. SUFFICES ASSUME Init PROVE Ring /\ Listing
    OBVIOUS
  <2>2. exec = "idle" /\ server = "idle"
    BY <2>1 DEF Init
  <2>3. fill = 0
    BY <2>1, TypedInit
  <2>4. QED
    BY <2>2, <2>3 DEF Ring, Listing, Written
<1>2. (Typed /\ Flags) /\ (Ring /\ Listing) /\ [Next]_vars => (Ring /\ Listing)'
  BY RingKept, ListingKept
<1>3. QED
  BY <1>1, <1>2, AlwaysTyped, PTL DEF Spec

(* A list no entry of which was written while it was read is the last      *)
(* fills before its index, newest first, for a ring of any size.           *)
THEOREM ListCorrect == Spec => []ListIsNewestFirst
<1>1. Ring /\ Listing => ListIsNewestFirst
  BY DEF Listing, ListIsNewestFirst
<1>2. QED
  BY <1>1, AlwaysListed, PTL

(* As long as the fills fit into the ring, no list is disturbed.           *)
THEOREM FirstLapCorrect == Spec => []FirstLapIsRaceFree
<1>1. Init => FirstLap
  BY Zenon DEF Init, FirstLap
<1>2. (Typed /\ Flags) /\ FirstLap /\ [Next]_vars => FirstLap'
  BY FirstLapKept
<1>3. (Ring /\ Listing) /\ FirstLap => FirstLapIsRaceFree
  <2>1. SUFFICES ASSUME Listing, fill <= MaxTrades, ~disturbed PROVE FirstLapIsRaceFree
    BY DEF FirstLap, FirstLapIsRaceFree
  <2>2. QED
    BY <2>1 DEF Listing, FirstLapIsRaceFree
<1>4. QED
  BY <1>1, <1>2, <1>3, AlwaysTyped, AlwaysListed, PTL DEF Spec
=============================================================================
