------------------------------ MODULE Esp32Proofs ------------------------------
(* Proofs about the connection to the ESP32: the serial link and its driver   *)
(* (EspLink), and the network tool that types over it (NetFetch).             *)
EXTENDS EspLink, NetFetch, Integers, SequenceTheorems, FiniteSetTheorems, WellFoundedInduction, TLAPS

-----------------------------------------------------------------------------
(* EspLink *)

Number == 0 .. K - 1
Pointer == 0 .. 2 * Depth - 1

Typed ==
    /\ wptr \in Pointer /\ rptr \in Pointer
    /\ txf \in Seq(Number) /\ xmit \in Seq(Number) /\ wire \in Number /\ last \in Number
    /\ n \in Int /\ stopped \in BOOLEAN
    /\ mode \in [Users -> BOOLEAN] /\ step \in [Users -> 0 .. 3]

\* The lock's holder is in a place of its own code, and waits for a register
\* only where that code reads it.
Placed ==
    /\ holder = "none" <=> pc = "idle"
    /\ holder \in Users <=> pc = "straps"
    /\ bus = "data" => pc = "byte"
    /\ bus = "stat" => pc \in {"status", "level", "room"}
    /\ bus = "ctrl" => pc \in {"arm", "disarm", "straps"}
    /\ bus \in {"none", "stat", "data", "ctrl"}

\* The level the driver read covers what it still has to pop: nobody else pops.
Counted ==
    /\ f_level <= Depth
    /\ pc = "level" => ~f_empty
    /\ pc = "byte" => n >= 1 /\ n <= f_level + (IF bus = "data" THEN 1 ELSE 0)

\* Room that was seen is still there: only the driver fills the FIFO.
RoomKept == Len(txf) <= Depth /\ (pc = "send" => Len(txf) < Depth)

\* No process moves the straps while opening or closing the port rewrites them:
\* the access without the lock writes back what it read.
Rewritten == kept # <<>> => kept = <<straps>> /\ holder \notin Users

IInv == Typed /\ Placed /\ Counted /\ RoomKept /\ Rewritten /\ TxStream

\* The process that last set the straps finds its settled GPIO0 on them.
LastSettled ==
    \A u \in Users :
        mover = u /\ (step[u] = 3 \/ (step[u] = 2 /\ holder # u)) => straps.gpio0 = mode[u]
-----------------------------------------------------------------------------
(* The receive FIFO's level *)

LEMMA ModLow ==
    ASSUME NEW M \in Nat \ {0}, NEW k \in 0 .. M - 1
    PROVE  k % M = k
OBVIOUS

LEMMA ModUnder ==
    ASSUME NEW M \in Nat \ {0}, NEW k \in 1 .. M
    PROVE  (-k) % M = M - k
OBVIOUS

LEMMA LevelIs ==
    ASSUME NEW w \in Pointer, NEW r \in Pointer
    PROVE  (w - r) % (2 * Depth) = (IF w >= r THEN w - r ELSE w - r + 2 * Depth)
<1> DEFINE M == 2 * Depth
<1>1. M \in Nat \ {0} /\ w \in 0 .. M - 1 /\ r \in 0 .. M - 1
    BY EspAssumption DEF Pointer
<1> HIDE DEF M
<1>2. CASE w >= r
    <2>1. w - r \in 0 .. M - 1
        BY <1>1, <1>2
    <2>2. (w - r) % M = w - r
        BY <1>1, <2>1, ModLow
    <2> QED BY <1>2, <2>2 DEF M
<1>3. CASE ~(w >= r)
    <2>1. r - w \in 1 .. M /\ w - r = -(r - w)
        BY <1>1, <1>3
    <2>2. (-(r - w)) % M = M - (r - w)
        BY <1>1, <2>1, ModUnder
    <2>3. (w - r) % M = w - r + M
        BY <1>1, <2>1, <2>2
    <2> QED BY <1>3, <2>3 DEF M
<1> QED BY <1>2, <1>3

\* A pointer's step is by one, or around.
LEMMA StepIs ==
    ASSUME NEW ptr \in Pointer
    PROVE  Step(ptr) = (IF ptr = 2 * Depth - 1 THEN 0 ELSE ptr + 1) /\ Step(ptr) \in Pointer
<1> DEFINE M == 2 * Depth
<1>1. M \in Nat \ {0} /\ ptr \in 0 .. M - 1
    BY EspAssumption DEF Pointer
<1> HIDE DEF M
<1>2. CASE ptr = M - 1
    <2>1. (ptr + 1) % M = 0
        BY <1>1, <1>2
    <2> QED BY <1>1, <1>2, <2>1 DEF Step, Pointer, M
<1>3. CASE ptr # M - 1
    <2>1. ptr + 1 \in 0 .. M - 1
        BY <1>1, <1>3
    <2>2. (ptr + 1) % M = ptr + 1
        BY <1>1, <2>1, ModLow
    <2> QED BY <1>1, <1>3, <2>2 DEF Step, Pointer, M
<1> QED BY <1>2, <1>3
-----------------------------------------------------------------------------
(* The numbered stream *)

Stream(w, t, x) == <<w>> \o t \o x
Successive(s, end) ==
    s[Len(s)] = end /\ \A i \in 1 .. Len(s) - 1 : s[i + 1] = (s[i] + 1) % K

LEMMA NextNumber == \A k \in Int : (k + 1) % K \in Number
BY EspAssumption DEF Number

LEMMA StreamType ==
    ASSUME NEW w \in Number, NEW t \in Seq(Number), NEW x \in Seq(Number)
    PROVE  Stream(w, t, x) \in Seq(Number) /\ Stream(w, t, x) # <<>>
<1>1. <<w>> \in Seq(Number) /\ Len(<<w>>) = 1
    OBVIOUS
<1>2. <<w>> \o t \in Seq(Number) /\ Len(<<w>> \o t) = 1 + Len(t)
    BY <1>1, ConcatProperties
<1>3. Stream(w, t, x) \in Seq(Number) /\ Len(Stream(w, t, x)) = 1 + Len(t) + Len(x)
    BY <1>2, ConcatProperties, LenProperties DEF Stream
<1> QED BY <1>3, LenProperties, EmptySeq

\* The byte the shifter takes leaves the others as they are.
LEMMA StreamTail ==
    ASSUME NEW w \in Number, NEW t \in Seq(Number), NEW x \in Seq(Number), t # <<>>
    PROVE  Stream(Head(t), Tail(t), x) = Tail(Stream(w, t, x))
<1> DEFINE S == Stream(w, t, x)
           R == Stream(Head(t), Tail(t), x)
<1>1. Head(t) \in Number /\ Tail(t) \in Seq(Number)
    BY HeadTailProperties
<1>2. S \in Seq(Number) /\ S # <<>> /\ R \in Seq(Number)
    BY <1>1, StreamType
<1>3. <<Head(t)>> \o Tail(t) = t
    OBVIOUS
<1>4. R = t \o x
    BY <1>3 DEF Stream
<1>5. S = <<w>> \o (t \o x)
    BY ConcatAssociative DEF Stream
<1>6. t \o x \in Seq(Number)
    BY ConcatProperties
<1>7. Tail(<<w>> \o (t \o x)) = t \o x
    BY <1>6
<1> QED BY <1>4, <1>5, <1>7

\* A byte moved from the kfifo to the hardware FIFO stays where it was.
LEMMA StreamMoves ==
    ASSUME NEW w \in Number, NEW t \in Seq(Number), NEW x \in Seq(Number), x # <<>>
    PROVE  Stream(w, Append(t, Head(x)), Tail(x)) = Stream(w, t, x)
<1>1. Head(x) \in Number /\ Tail(x) \in Seq(Number) /\ <<Head(x)>> \in Seq(Number)
    BY HeadTailProperties
<1>2. Append(t, Head(x)) = t \o <<Head(x)>>
    BY <1>1, AppendIsConcat
<1>3. x = <<Head(x)>> \o Tail(x)
    OBVIOUS
<1>4. <<w>> \in Seq(Number) /\ <<w>> \o t \in Seq(Number)
    BY ConcatProperties
<1>5. <<w>> \o (t \o <<Head(x)>>) = (<<w>> \o t) \o <<Head(x)>>
    BY <1>1, <1>4, ConcatAssociative
<1>6. ((<<w>> \o t) \o <<Head(x)>>) \o Tail(x) = (<<w>> \o t) \o (<<Head(x)>> \o Tail(x))
    BY <1>1, <1>4, ConcatAssociative
<1> QED BY <1>2, <1>3, <1>5, <1>6 DEF Stream

\* A byte written follows them all.
LEMMA StreamGrows ==
    ASSUME NEW w \in Number, NEW t \in Seq(Number), NEW x \in Seq(Number), NEW byte \in Number
    PROVE  Stream(w, t, Append(x, byte)) = Append(Stream(w, t, x), byte)
<1>1. <<byte>> \in Seq(Number) /\ <<w>> \in Seq(Number) /\ <<w>> \o t \in Seq(Number)
    BY ConcatProperties
<1>2. Append(x, byte) = x \o <<byte>>
    BY AppendIsConcat
<1>3. (<<w>> \o t) \o (x \o <<byte>>) = ((<<w>> \o t) \o x) \o <<byte>>
    BY <1>1, ConcatAssociative
<1>4. Append(Stream(w, t, x), byte) = Stream(w, t, x) \o <<byte>>
    BY StreamType, AppendIsConcat
<1> QED BY <1>2, <1>3, <1>4 DEF Stream

LEMMA SuccessiveTail ==
    ASSUME NEW s \in Seq(Number), NEW e, Successive(s, e), Len(s) > 1
    PROVE  Successive(Tail(s), e)
<1>1. Len(Tail(s)) = Len(s) - 1 /\ (\A i \in 1 .. Len(Tail(s)) : Tail(s)[i] = s[i + 1])
    BY HeadTailProperties, EmptySeq
<1>2. Len(s) \in Nat
    BY LenProperties
<1> QED BY <1>1, <1>2 DEF Successive

LEMMA SuccessiveGrows ==
    ASSUME NEW s \in Seq(Number), s # <<>>, NEW e \in Number, Successive(s, e)
    PROVE  Successive(Append(s, (e + 1) % K), (e + 1) % K)
<1> DEFINE byte == (e + 1) % K
           r == Append(s, byte)
<1>1. byte \in Number
    BY NextNumber DEF Number
<1> HIDE DEF byte
<1>2. /\ Len(r) = Len(s) + 1 /\ r[Len(s) + 1] = byte
      /\ \A i \in 1 .. Len(s) : r[i] = s[i]
    BY <1>1, AppendProperties
<1>3. Len(s) \in Nat \ {0}
    BY EmptySeq
<1>4. r[Len(s) + 1] = (r[Len(s)] + 1) % K
    BY <1>2, <1>3 DEF Successive, byte
<1>5. \A i \in 1 .. Len(r) - 1 : r[i + 1] = (r[i] + 1) % K
    BY <1>2, <1>3, <1>4 DEF Successive
<1> QED BY <1>2, <1>5 DEF Successive, byte
-----------------------------------------------------------------------------
(* The steps *)

LEMMA Initially == Init => IInv
<1> SUFFICES ASSUME Init PROVE IInv
    OBVIOUS
<1> USE EspAssumption DEF Init
<1>1. Typed
    <2>1. wptr \in Pointer /\ rptr \in Pointer /\ wire \in Number /\ last \in Number /\ n \in Int
        BY DEF Number, Pointer
    <2>2. txf = <<>> /\ xmit = <<>> /\ stopped = FALSE
        OBVIOUS
    <2>3. mode \in [Users -> BOOLEAN] /\ step \in [Users -> 0 .. 3]
        OBVIOUS
    <2>4. <<>> \in Seq(Number)
        OBVIOUS
    <2> HIDE DEF Init
    <2> QED BY <2>1, <2>2, <2>3, <2>4 DEF Typed
<1>2. Placed
    BY UserAssumption DEF Placed
<1>3. Counted
    <2>1. f_level = 0
        BY <1>1, LevelIs DEF f_level, Typed
    <2> QED BY <2>1 DEF Counted
<1>4. RoomKept
    BY DEF RoomKept
<1>5. TxStream
    <2>1. <<wire>> \o txf \o xmit = <<0>>
        BY ConcatEmptySeq
    <2> QED BY <2>1 DEF TxStream
<1>6. Rewritten
    BY DEF Rewritten
<1> QED BY <1>1, <1>2, <1>3, <1>4, <1>5, <1>6 DEF IInv

LEMMA TypedStep ==
    ASSUME IInv, Next
    PROVE  Typed'
<1> USE DEF IInv, Typed, rx, tx, ctrl, queue, driver, opened, history
<1>1. ASSUME NEW byte \in Byte, RxArrive(byte) PROVE Typed'
    BY <1>1, StepIs DEF RxArrive
<1>2. CASE TxGo
    BY <1>2, HeadTailProperties DEF TxGo
<1>3. CASE TxDone
    BY <1>3 DEF TxDone
<1>4. CASE IrqEnter
    BY <1>4 DEF IrqEnter
<1>5. CASE WriteEnter
    <2>1. last' \in Number
        BY <1>5, NextNumber DEF WriteEnter, Number
    <2>2. xmit' \in Seq(Number)
        BY <1>5, <2>1, AppendProperties DEF WriteEnter
    <2> QED BY <1>5, <2>1, <2>2 DEF WriteEnter
<1>6. CASE FlowEnter
    BY <1>6 DEF FlowEnter
<1>7. CASE SelectNext
    BY <1>7, StepIs DEF SelectNext, Select
<1>8. CASE Status \/ LookForRoom \/ Pending \/ SetTxIrq
    BY <1>8 DEF Status, LookForRoom, Pending, SetTxIrq
<1>9. CASE Level
    <2>1. f_level \in Int
        BY LevelIs, EspAssumption DEF f_level, Pointer
    <2> QED BY <1>9, <2>1 DEF Level, BytesToPop
<1>10. CASE TakeByte
    BY <1>10 DEF TakeByte
<1>11. CASE Send
    <2>1. CASE stopped \/ xmit = <<>>
        BY <1>11, <2>1 DEF Send
    <2>2. CASE ~(stopped \/ xmit = <<>>)
        <3>1. Head(xmit) \in Number /\ Tail(xmit) \in Seq(Number)
            BY <2>2, HeadTailProperties
        <3>2. Append(txf, Head(xmit)) \in Seq(Number)
            BY <3>1, AppendProperties
        <3> QED BY <1>11, <2>2, <3>1, <3>2 DEF Send
    <2> QED BY <2>1, <2>2
<1>12. CASE SetStraps
    BY <1>12 DEF SetStraps
<1>13. ASSUME NEW u \in Users, PowerEnter(u) PROVE Typed'
    <2>1. mode' \in [Users -> BOOLEAN]
        <3>1. mode \in [Users -> BOOLEAN]
            OBVIOUS
        <3>2. mode' = mode \/ \E g \in BOOLEAN : mode' = [mode EXCEPT ![u] = g]
            BY <1>13 DEF PowerEnter
        <3> HIDE DEF IInv, Typed
        <3> QED BY <3>1, <3>2
    <2>2. step' \in [Users -> 0 .. 3]
        <3>1. step \in [Users -> 0 .. 3]
            OBVIOUS
        <3>2. \/ step[u] \in 0 .. 2 /\ step' = [step EXCEPT ![u] = @ + 1]
              \/ step' = [step EXCEPT ![u] = 0]
            BY <1>13 DEF PowerEnter
        <3> HIDE DEF IInv, Typed
        <3> QED BY <3>1, <3>2
    <2>3. UNCHANGED <<rx, txf, xmit, wire, last, n, stopped>>
        BY <1>13 DEF PowerEnter
    <2> QED BY <2>1, <2>2, <2>3
<1>14. CASE Opening \/ Closing \/ UnlockedRead \/ UnlockedWrite
    BY <1>14 DEF Opening, Closing, UnlockedRead, UnlockedWrite
<1> QED BY <1>1, <1>2, <1>3, <1>4, <1>5, <1>6, <1>7, <1>8, <1>9, <1>10, <1>11, <1>12, <1>13,
           <1>14 DEF Next, Inside

LEMMA PlacedStep ==
    ASSUME IInv, Next
    PROVE  Placed'
<1> USE UserAssumption DEF IInv, Placed, Contexts, rx, tx, ctrl, queue, driver, opened, history
<1>1. CASE (\E byte \in Byte : RxArrive(byte)) \/ TxGo \/ TxDone
    BY <1>1 DEF RxArrive, TxGo, TxDone
<1>2. CASE IrqEnter \/ WriteEnter \/ FlowEnter
    BY <1>2 DEF IrqEnter, WriteEnter, FlowEnter, Enter
<1>3. CASE SelectNext
    BY <1>3 DEF SelectNext, Select
<1>4. CASE Status \/ Level \/ TakeByte \/ LookForRoom
    BY <1>4 DEF Status, Level, TakeByte, LookForRoom, Take, Go
<1>5. CASE Send \/ Pending
    BY <1>5 DEF Send, Pending, PendingNext, Go
<1>6. CASE SetTxIrq \/ SetStraps
    BY <1>6 DEF SetTxIrq, SetStraps, Take, Unlock
<1>7. ASSUME NEW u \in Users, PowerEnter(u) PROVE Placed'
    BY <1>7 DEF PowerEnter, Enter
<1>8. CASE Opening \/ Closing \/ UnlockedRead \/ UnlockedWrite
    BY <1>8 DEF Opening, Closing, UnlockedRead, UnlockedWrite
<1> QED BY <1>1, <1>2, <1>3, <1>4, <1>5, <1>6, <1>7, <1>8 DEF Next, Inside

LEMMA CountedStep ==
    ASSUME IInv, Next
    PROVE  Counted'
<1> USE DEF IInv, Counted, rx, tx, ctrl, queue, driver, opened, history
<1>1. /\ wptr \in Pointer /\ rptr \in Pointer /\ n \in Int
      /\ Depth \in Nat \ {0}
    BY EspAssumption DEF Typed
<1>2. /\ f_level = (IF wptr >= rptr THEN wptr - rptr ELSE wptr - rptr + 2 * Depth)
      /\ f_level \in Nat /\ (f_level = 0 <=> f_empty)
    BY <1>1, LevelIs DEF f_level, f_empty, Pointer
<1>3. ASSUME NEW byte \in Byte, RxArrive(byte)
      PROVE  Counted'
    <2>1. CASE f_full
        BY <1>3, <2>1 DEF RxArrive, f_level, f_empty
    <2>2. CASE ~f_full
        <3>1. wptr' = Step(wptr) /\ rptr' = rptr /\ pc' = pc /\ n' = n /\ bus' = bus
            BY <1>3, <2>2 DEF RxArrive
        <3>2. Step(wptr) = (IF wptr = 2 * Depth - 1 THEN 0 ELSE wptr + 1) /\ Step(wptr) \in Pointer
            BY <1>1, StepIs
        <3>3. f_level' = (IF wptr' >= rptr' THEN wptr' - rptr' ELSE wptr' - rptr' + 2 * Depth)
            BY <1>1, <3>1, <3>2, LevelIs DEF f_level
        <3>4. f_level < Depth
            BY <1>1, <1>2, <2>2 DEF f_full
        <3>5. f_level' = f_level + 1
            BY <1>1, <1>2, <3>1, <3>2, <3>3, <3>4 DEF Pointer
        <3>6. ~f_empty'
            BY <1>1, <1>2, <3>1, <3>2, <3>4 DEF f_empty, Pointer
        <3> QED BY <1>1, <1>2, <3>1, <3>4, <3>5, <3>6
    <2> QED BY <2>1, <2>2
<1>4. CASE SelectNext
    <2>1. CASE pc = "byte"
        <3>1. bus = "none" /\ bus' = "data" /\ wptr' = wptr /\ pc' = pc /\ n' = n
            BY <1>4, <2>1 DEF SelectNext, Select
        <3>2. n <= f_level /\ ~f_empty
            BY <1>1, <1>2, <2>1, <3>1
        <3>3. rptr' = Step(rptr)
            BY <1>4, <2>1, <3>2 DEF SelectNext, Select
        <3>4. Step(rptr) = (IF rptr = 2 * Depth - 1 THEN 0 ELSE rptr + 1) /\ Step(rptr) \in Pointer
            BY <1>1, StepIs
        <3>5. f_level' = (IF wptr' >= rptr' THEN wptr' - rptr' ELSE wptr' - rptr' + 2 * Depth)
            BY <1>1, <3>1, <3>3, <3>4, LevelIs DEF f_level
        <3>6. f_level' = f_level - 1
            BY <1>1, <1>2, <3>1, <3>2, <3>3, <3>4, <3>5 DEF Pointer
        <3> QED BY <1>1, <1>2, <2>1, <3>1, <3>2, <3>6
    <2>2. CASE pc # "byte"
        <3>1. wptr' = wptr /\ rptr' = rptr /\ pc' = pc
            BY <1>4, <2>2 DEF SelectNext, Select
        <3> QED BY <2>2, <3>1 DEF f_level, f_empty
    <2> QED BY <2>1, <2>2
<1>5. CASE Status
    BY <1>5 DEF Status, Go, f_level, f_empty
<1>6. CASE Level
    <2>1. wptr' = wptr /\ rptr' = rptr /\ n' = f_level /\ pc' = "byte" /\ bus' = "none"
        BY <1>6 DEF Level, BytesToPop, Go, Take
    <2>2. f_level' = f_level /\ f_level # 0
        BY <1>2, <1>6, <2>1 DEF Level, f_level
    <2> QED BY <1>2, <2>1, <2>2
<1>7. CASE TakeByte
    <2>1. /\ wptr' = wptr /\ rptr' = rptr /\ n' = n - 1 /\ bus = "data" /\ bus' = "none"
          /\ pc = "byte" /\ pc' = (IF n = 1 THEN "room" ELSE "byte")
        BY <1>7 DEF TakeByte, Go, Take
    <2>2. f_level' = f_level
        BY <2>1 DEF f_level
    <2> QED BY <1>1, <1>2, <2>1, <2>2
<1>8. CASE TxGo \/ TxDone \/ WriteEnter
    BY <1>8 DEF TxGo, TxDone, WriteEnter, Enter, f_level, f_empty
<1>9. CASE IrqEnter \/ FlowEnter
    BY <1>9 DEF IrqEnter, FlowEnter, Enter, f_level, f_empty
<1>10. CASE LookForRoom \/ Send \/ Pending \/ SetTxIrq \/ SetStraps
    BY <1>10 DEF LookForRoom, Send, Pending, PendingNext, SetTxIrq, SetStraps, Go, Unlock,
       f_level, f_empty
<1>11. ASSUME NEW u \in Users, PowerEnter(u)
       PROVE  Counted'
    BY <1>11 DEF PowerEnter, Enter, f_level, f_empty
<1>12. CASE Opening \/ Closing \/ UnlockedRead \/ UnlockedWrite
    BY <1>12 DEF Opening, Closing, UnlockedRead, UnlockedWrite, f_level, f_empty
<1> QED BY <1>3, <1>4, <1>5, <1>6, <1>7, <1>8, <1>9, <1>10, <1>11, <1>12 DEF Next, Inside

LEMMA RoomStep ==
    ASSUME IInv, Next
    PROVE  RoomKept'
<1> USE EspAssumption DEF IInv, RoomKept, rx, tx, ctrl, queue, driver, opened, history
<1>1. txf \in Seq(Number) /\ xmit \in Seq(Number) /\ Len(txf) \in Nat
    BY LenProperties DEF Typed
<1>2. CASE TxGo
    <2>1. Len(txf') = Len(txf) - 1 /\ pc' = pc
        BY <1>1, <1>2, HeadTailProperties DEF TxGo
    <2> QED BY <1>1, <2>1
<1>3. CASE Send
    <2>1. CASE stopped \/ xmit = <<>>
        BY <1>3, <2>1 DEF Send, Go
    <2>2. CASE ~(stopped \/ xmit = <<>>)
        <3>1. txf' = Append(txf, Head(xmit)) /\ pc' = "room"
            BY <1>1, <1>3, <2>2 DEF Send, Go, tx_full
        <3>2. Head(xmit) \in Number
            BY <1>1, <2>2, HeadTailProperties
        <3>3. Len(txf') = Len(txf) + 1
            BY <1>1, <3>1, <3>2, AppendProperties
        <3> QED BY <1>1, <1>3, <3>1, <3>3 DEF Send
    <2> QED BY <2>1, <2>2
<1>4. CASE LookForRoom
    BY <1>1, <1>4 DEF LookForRoom, RoomFor, Go
<1>5. CASE (\E byte \in Byte : RxArrive(byte)) \/ TxDone \/ SelectNext
    BY <1>5 DEF RxArrive, TxDone, SelectNext, Select
<1>6. CASE IrqEnter \/ WriteEnter \/ FlowEnter
    BY <1>6 DEF IrqEnter, WriteEnter, FlowEnter, Enter
<1>7. CASE Status \/ Level \/ TakeByte \/ Pending \/ SetTxIrq \/ SetStraps
    BY <1>7 DEF Status, Level, TakeByte, Pending, PendingNext, SetTxIrq, SetStraps, Go, Unlock
<1>8. ASSUME NEW u \in Users, PowerEnter(u)
      PROVE  RoomKept'
    BY <1>8 DEF PowerEnter, Enter
<1>9. CASE Opening \/ Closing \/ UnlockedRead \/ UnlockedWrite
    BY <1>9 DEF Opening, Closing, UnlockedRead, UnlockedWrite
<1> QED BY <1>2, <1>3, <1>4, <1>5, <1>6, <1>7, <1>8, <1>9 DEF Next, Inside

LEMMA RewrittenStep ==
    ASSUME IInv, Next
    PROVE  Rewritten'
<1> USE UserAssumption DEF IInv, Rewritten, Placed, Contexts, rx, tx, ctrl, queue, driver, opened,
        history
<1>1. CASE (\E byte \in Byte : RxArrive(byte)) \/ TxGo \/ TxDone \/ SelectNext
    BY <1>1 DEF RxArrive, TxGo, TxDone, SelectNext, Select
<1>2. CASE IrqEnter \/ WriteEnter \/ FlowEnter
    BY <1>2 DEF IrqEnter, WriteEnter, FlowEnter, Enter
<1>3. CASE Status \/ Level \/ TakeByte \/ LookForRoom \/ Send \/ Pending
    BY <1>3 DEF Status, Level, TakeByte, LookForRoom, Send, Pending, PendingNext, Go
<1>4. CASE SetTxIrq
    BY <1>4 DEF SetTxIrq, StrapsPreserved, Unlock
<1>5. CASE SetStraps
    BY <1>5 DEF SetStraps, Unlock
<1>6. CASE Opening \/ Closing \/ UnlockedRead \/ UnlockedWrite
    BY <1>6 DEF Opening, Closing, UnlockedRead, UnlockedWrite
<1>7. ASSUME NEW u \in Users, PowerEnter(u) PROVE Rewritten'
    BY <1>7 DEF PowerEnter, Enter
<1> QED BY <1>1, <1>2, <1>3, <1>4, <1>5, <1>6, <1>7 DEF Next, Inside

LEMMA StreamStep ==
    ASSUME IInv, Next
    PROVE  TxStream'
<1> USE DEF IInv, rx, tx, ctrl, queue, driver, opened, history
<1> DEFINE S == Stream(wire, txf, xmit)
<1>1. TxStream <=> Successive(Stream(wire, txf, xmit), last)
    BY DEF TxStream, Successive, Stream
<1>2. TxStream' <=> Successive(Stream(wire', txf', xmit'), last')
    BY DEF TxStream, Successive, Stream
<1>3. /\ wire \in Number /\ txf \in Seq(Number) /\ xmit \in Seq(Number) /\ last \in Number
      /\ S \in Seq(Number) /\ S # <<>>
    BY StreamType DEF Typed
<1> HIDE DEF S
<1>4. CASE TxGo
    <2>1. txf # <<>> /\ wire' = Head(txf) /\ txf' = Tail(txf) /\ xmit' = xmit /\ last' = last
        BY <1>4 DEF TxGo
    <2>2. Stream(wire', txf', xmit') = Tail(S)
        BY <1>3, <2>1, StreamTail DEF S
    <2>3. Len(S) > 1
        <3>1. <<wire>> \o txf \in Seq(Number) /\ Len(<<wire>> \o txf) = 1 + Len(txf)
            BY <1>3, ConcatProperties
        <3>2. Len(S) = 1 + Len(txf) + Len(xmit)
            BY <1>3, <3>1, ConcatProperties DEF S, Stream
        <3>3. Len(txf) \in Nat \ {0} /\ Len(xmit) \in Nat
            BY <1>3, <2>1, EmptySeq, LenProperties
        <3> QED BY <3>2, <3>3
    <2> QED BY <1>1, <1>2, <1>3, <2>1, <2>2, <2>3, SuccessiveTail DEF S
<1>5. CASE WriteEnter
    <2>1. /\ last' = (last + 1) % K /\ xmit' = Append(xmit, last') /\ wire' = wire /\ txf' = txf
          /\ last' \in Number
        BY <1>3, <1>5, NextNumber DEF WriteEnter, Number
    <2>2. Stream(wire', txf', xmit') = Append(S, last')
        <3>1. \A byte \in Number : Stream(wire, txf, Append(xmit, byte)) = Append(S, byte)
            BY <1>3, StreamGrows DEF S
        <3> QED BY <2>1, <3>1
    <2> QED BY <1>1, <1>2, <1>3, <2>1, <2>2, SuccessiveGrows DEF S
<1>6. CASE Send
    <2>1. CASE stopped \/ xmit = <<>>
        BY <1>1, <1>2, <1>6, <2>1 DEF Send
    <2>2. CASE ~(stopped \/ xmit = <<>>)
        <3>1. /\ txf' = Append(txf, Head(xmit)) /\ xmit' = Tail(xmit)
              /\ wire' = wire /\ last' = last
            BY <1>3, <1>6, <2>2, LenProperties DEF Send, tx_full, RoomKept
        <3>2. Stream(wire', txf', xmit') = Stream(wire, txf, xmit)
            BY <1>3, <2>2, <3>1, StreamMoves
        <3> QED BY <1>1, <1>2, <3>1, <3>2
    <2> QED BY <2>1, <2>2
<1>7. CASE UNCHANGED <<wire, txf, xmit, last>>
    BY <1>1, <1>2, <1>7
<1>8. CASE (\E byte \in Byte : RxArrive(byte)) \/ TxDone \/ SelectNext
    BY <1>7, <1>8 DEF RxArrive, TxDone, SelectNext, Select
<1>9. CASE IrqEnter \/ FlowEnter \/ (\E u \in Users : PowerEnter(u))
    BY <1>7, <1>9 DEF IrqEnter, FlowEnter, PowerEnter
<1>10. CASE Status \/ Level \/ TakeByte \/ LookForRoom \/ Pending \/ SetTxIrq \/ SetStraps
    BY <1>7, <1>10 DEF Status, Level, TakeByte, LookForRoom, Pending, SetTxIrq, SetStraps
<1>11. CASE Opening \/ Closing \/ UnlockedRead \/ UnlockedWrite
    BY <1>7, <1>11 DEF Opening, Closing, UnlockedRead, UnlockedWrite
<1> QED BY <1>4, <1>5, <1>6, <1>8, <1>9, <1>10, <1>11 DEF Next, Inside

LEMMA StepKeeps == IInv /\ [Next]_vars => IInv'
<1>1. CASE UNCHANGED vars
    BY <1>1 DEF vars, rx, tx, ctrl, queue, driver, opened, history, IInv, Typed, Placed, Counted, RoomKept, Rewritten,
       TxStream,        f_level, f_empty
<1>2. CASE Next
    BY <1>2, TypedStep, PlacedStep, CountedStep, RoomStep, RewrittenStep, StreamStep DEF IInv
<1> QED BY <1>1, <1>2

\* The inductive invariant: the lock and the bus, the two FIFOs, the straps that an
\* access without the lock keeps, the stream.
THEOREM Invariant == Spec => []IInv
BY Initially, StepKeeps, PTL DEF Spec

\* TxStream: what is written to the port reaches the wire whole and in order,
\* through the kfifo and the hardware FIFO, for FIFOs of every size.
THEOREM NothingIsLost == Spec => []TxStream
BY Invariant, PTL DEF IInv

\* NeverPopsEmpty: the driver pops as many bytes as it read the level for, and
\* every one of them is there (koti_esp_rx_chars, esp_uart.sv f_level).
THEOREM PopsAreOfBytes == Spec => []NeverPopsEmpty
<1>1. IInv => NeverPopsEmpty
    <2> SUFFICES ASSUME IInv PROVE NeverPopsEmpty
        OBVIOUS
    <2>1. wptr \in Pointer /\ rptr \in Pointer /\ n \in Int /\ Depth \in Nat
        BY EspAssumption DEF IInv, Typed
    <2>2. f_empty => f_level = 0
        BY <2>1, LevelIs DEF f_empty, f_level, Pointer
    <2> QED BY <2>1, <2>2 DEF IInv, Counted, NeverPopsEmpty
<1> QED BY <1>1, Invariant, PTL
-----------------------------------------------------------------------------
(* The straps *)

\* Of all the steps only an esp_power write's moves the straps.
LEMMA OnlyPowerMoves ==
    ASSUME IInv, [Next]_vars
    PROVE  [(holder \in Users)]_straps
<1>1. CASE SetStraps
    BY <1>1 DEF SetStraps, IInv, Placed
<1>2. CASE UnlockedWrite
    <2>1. kept = <<straps>> /\ straps' = Head(kept)
        BY <1>2 DEF UnlockedWrite, IInv, Rewritten
    <2> QED BY <2>1
<1>3. CASE ~SetStraps /\ ~UnlockedWrite
    BY <1>3 DEF Next, Inside, vars, rx, tx, ctrl, queue, driver, opened, history, RxArrive, TxGo,
       TxDone, IrqEnter, WriteEnter, FlowEnter, SelectNext, Select, Status, Level, TakeByte,
       LookForRoom, Send, Pending, SetTxIrq, StrapsPreserved, PowerEnter, Opening, Closing,
       UnlockedRead
<1> QED BY <1>1, <1>2, <1>3

\* StrapsKept: opening and closing the port, traffic and flow control leave the
\* straps alone, however many processes write esp_power (koti_esp_set_txirq keeps
\* what it reads, and nobody moves the straps while the port is opened or closed).
THEOREM StrapsAreKept == Spec => StrapsKept
BY Invariant, OnlyPowerMoves, PTL DEF Spec, StrapsKept

\* What each of the three stages of an esp_power write leaves.
LEMMA StrapValues ==
    ASSUME Typed, NEW u \in Users
    PROVE  /\ step[u] = 1 => StrapValue(u) = Off
           /\ step[u] = 2 => StrapValue(u) = [en |-> FALSE, gpio0 |-> mode[u]]
           /\ step[u] = 3 => StrapValue(u) = [en |-> TRUE, gpio0 |-> mode[u]]
<1>1. step[u] \in 0 .. 3 /\ mode[u] \in BOOLEAN
    BY DEF Typed
<1>2. ASSUME NEW e \in BOOLEAN, NEW g \in BOOLEAN, (step[u] = 3) = e, (step[u] > 1 /\ mode[u]) = g
      PROVE  StrapValue(u) = [en |-> e, gpio0 |-> g]
    BY <1>2 DEF StrapValue
<1>3. CASE step[u] = 1
    <2>1. (step[u] = 3) = FALSE /\ (step[u] > 1 /\ mode[u]) = FALSE
        BY <1>3
    <2> QED BY <1>2, <1>3, <2>1 DEF Off
<1>4. CASE step[u] \in {2, 3}
    <2>1. step[u] > 1
        BY <1>4
    <2>2. (step[u] > 1 /\ mode[u]) = mode[u]
        BY <1>1, <2>1, Zenon
    <2>3. CASE step[u] = 2
        <3>1. (step[u] = 3) = FALSE
            BY <2>3
        <3>2. StrapValue(u) = [en |-> FALSE, gpio0 |-> mode[u]]
            BY <1>1, <1>2, <2>2, <3>1, Zenon
        <3> QED BY <2>3, <3>2
    <2>4. CASE step[u] = 3
        <3>1. (step[u] = 3) = TRUE
            BY <2>4
        <3>2. StrapValue(u) = [en |-> TRUE, gpio0 |-> mode[u]]
            BY <1>1, <1>2, <2>2, <3>1, Zenon
        <3> QED BY <2>4, <3>2
    <2> QED BY <1>4, <2>3, <2>4
<1>5. CASE step[u] = 0
    BY <1>5
<1> QED BY <1>1, <1>3, <1>4, <1>5

LEMMA SettledInit == Init => LastSettled
BY UserAssumption DEF Init, LastSettled

LEMMA SettledStep ==
    ASSUME IInv, LastSettled, [Next]_vars
    PROVE  LastSettled'
<1> USE UserAssumption DEF rx, tx, ctrl, queue, driver, opened, history, LastSettled, Contexts
<1>1. step \in [Users -> 0 .. 3] /\ mode \in [Users -> BOOLEAN]
    BY DEF IInv, Typed
<1>2. (holder = "none" <=> pc = "idle") /\ (holder \in Users <=> pc = "straps")
    BY DEF IInv, Placed
<1>3. CASE SetStraps
    <2>1. /\ holder \in Users /\ mode' = mode /\ straps' = StrapValue(holder) /\ mover' = holder
          /\ \/ step[holder] # 3 /\ step' = step
             \/ step[holder] # 2 /\ step' = [step EXCEPT ![holder] = 0]
        BY <1>2, <1>3 DEF SetStraps
    <2>2. step[holder] = 2 => StrapValue(holder).gpio0 = mode[holder]
        BY <2>1, StrapValues DEF IInv
    <2> QED BY <1>1, <2>1, <2>2
<1>4. ASSUME NEW u \in Users, PowerEnter(u)
      PROVE  LastSettled'
    <2>1. /\ holder = "none" /\ holder' = u /\ mover' = mover /\ straps' = straps
          /\ step' = [step EXCEPT ![u] = @ + 1]
          /\ \/ step[u] = 0 /\ \E g \in BOOLEAN : mode' = [mode EXCEPT ![u] = g]
             \/ step[u] \in {1, 2} /\ mode' = mode
        BY <1>4 DEF PowerEnter, Enter
    <2>2. \A v \in Users : v # u => step'[v] = step[v] /\ mode'[v] = mode[v]
        BY <1>1, <2>1
    <2>3. step'[u] = step[u] + 1
        BY <1>1, <2>1
    <2>4. step'[u] = 3 => step[u] = 2 /\ mode' = mode
        BY <1>1, <2>1, <2>3
    <2>5. u \notin Contexts /\ u # "none"
        BY DEF Contexts
    <2>6. ASSUME NEW v \in Users, mover' = v, step'[v] = 3 \/ (step'[v] = 2 /\ holder' # v)
          PROVE  straps'.gpio0 = mode'[v]
        <3>1. CASE v = u
            BY <2>1, <2>4, <2>5, <2>6, <3>1
        <3>2. CASE v # u
            BY <2>1, <2>2, <2>6, <3>2
        <3> QED BY <3>1, <3>2
    <2> QED BY <2>6
<1>5. CASE IrqEnter \/ WriteEnter \/ FlowEnter
    BY <1>1, <1>2, <1>5 DEF IrqEnter, WriteEnter, FlowEnter, Enter
<1>6. CASE SetTxIrq
    BY <1>1, <1>2, <1>6 DEF SetTxIrq, StrapsPreserved, Unlock
<1>7. CASE UnlockedWrite
    BY <1>7 DEF UnlockedWrite, IInv, Rewritten
<1>8. CASE UNCHANGED <<straps, mode, step, holder, mover>>
    BY <1>8
<1>9. CASE (\E byte \in Byte : RxArrive(byte)) \/ TxGo \/ TxDone \/ SelectNext \/ UNCHANGED vars
    BY <1>8, <1>9 DEF RxArrive, TxGo, TxDone, SelectNext, Select, vars
<1>10. CASE Status \/ Level \/ TakeByte \/ LookForRoom
    BY <1>8, <1>10 DEF Status, Level, TakeByte, LookForRoom, Go
<1>11. CASE Send \/ Pending
    BY <1>1, <1>2, <1>11 DEF Send, Pending, PendingNext, Go
<1>12. CASE Opening \/ Closing \/ UnlockedRead
    BY <1>8, <1>12 DEF Opening, Closing, UnlockedRead
<1> QED BY <1>3, <1>4, <1>5, <1>6, <1>7, <1>9, <1>10, <1>11, <1>12 DEF Next, Inside

\* StrapsInOrder, for any number of processes that write esp_power: where the
\* enable is up or rises, GPIO0 stays as it was, unless another esp_power write
\* came in since this one last set the straps; and nothing but those writes
\* moves them, opening and closing the port without the lock included.
THEOREM StrapsAreInOrder == Spec => StrapsInOrder
<1>1. ASSUME IInv, LastSettled, [Next]_vars
      PROVE  [straps'.en => straps'.gpio0 = straps.gpio0 \/ mover # holder]_straps
    <2>1. CASE SetStraps
        <3>1. holder \in Users /\ straps' = StrapValue(holder)
            BY <1>1, <2>1 DEF SetStraps, IInv, Placed
        <3>2. straps'.en => step[holder] = 3
            BY <3>1 DEF StrapValue
        <3>3. step[holder] = 3 /\ mover = holder => straps.gpio0 = mode[holder]
            BY <1>1, <3>1 DEF LastSettled
        <3>4. step[holder] = 3 => straps'.gpio0 = mode[holder]
            BY <1>1, <3>1, StrapValues DEF IInv
        <3> QED BY <3>2, <3>3, <3>4
    <2>2. CASE ~(holder \in Users)
        BY <1>1, <2>2, OnlyPowerMoves
    <2>3. CASE holder \in Users /\ ~SetStraps
        <3>1. pc = "straps" /\ holder # "none" /\ kept = <<>>
            BY <1>1, <2>3, UserAssumption DEF IInv, Placed, Rewritten
        <3> QED BY <1>1, <2>3, <3>1 DEF Next, Inside, vars, rx, tx, ctrl, queue, driver, opened,
               history, RxArrive, TxGo, TxDone, IrqEnter, WriteEnter, FlowEnter, Enter, SelectNext,
               Select, Status, Level, TakeByte, LookForRoom, Send, Pending, SetTxIrq, PowerEnter,
               Opening, Closing, UnlockedRead, UnlockedWrite
    <2> QED BY <2>1, <2>2, <2>3
<1>2. Init => LastSettled
    BY SettledInit
<1>3. IInv /\ LastSettled /\ [Next]_vars => LastSettled'
    BY SettledStep
<1>4. Spec => OthersUnsettle
    BY <1>1, <1>2, <1>3, Invariant, PTL DEF Spec, OthersUnsettle
<1> QED BY <1>4, StrapsAreKept DEF StrapsInOrder
-----------------------------------------------------------------------------
(* NetFetch: what a get may have said and heard *)

Sayings ==
    {"zz", "echo", ">>", "..", "TB", "UP", "VA", "PG", "CN", "CUT", "BEGIN", "page", "END", "?"}
Token == [t: Sayings, x: Int, y: Int]
\* All but link_up's answer.
Other == [t: Sayings \ {"UP"}, x: Int, y: Int]
Str == [id: Nat, len: Int]
BuildKinds ==
    {"req1", "req2", "octet", "if", "fix", "socket", "connect", "CN", "while", "recv", "CUT",
     "BEGIN", "write", "END", "q", "pg"}
Asking == {"up", "import", "a", "h", "va", "p", "build", "exec"}
Kinds == BuildKinds \cup Asking \cup {"", "^C", "user"}
Fates == {"none", "raise", "short", "bracket", "wedge", "bad", "plus", "quiet", "unmarked"}

NetTyped ==
    /\ at \in {"rest", "sync"} \cup Asking /\ st \in {"send", "wait", "expect"}
    /\ far \in {"idle", "cont", "busy", "say", "gone"}
    /\ line \in 1 .. 16 /\ get \in 0 .. Len(Lens) /\ (at # "rest" => get # 0)
    /\ cap \in Seq(Token) /\ b0 \in Nat /\ b \in Seq(Other)
    /\ cmd \in [k: Kinds, s: Str, d: Fates]
    /\ a \in Str /\ h \in Str /\ p \in Str
    /\ req \in [st: {"none", "str", "bytes"}, of: Nat \X Nat, len: Int]
    /\ q \in Int /\ c1 \in Seq([k: Kinds, d: Fates])
    /\ lost \in BOOLEAN

\* What the far end has yet to say: the last burst, with the prompt, or one burst
\* before it that says no more than that it is connected.
Has(s, k) == \E i \in DOMAIN s : s[i].t = k
Outs ==
    far = "say" =>
        /\ out \in Seq(Seq(Token)) /\ Len(out) \in 1 .. 3
        /\ Len(out) = 3 => cmd.k = "exec" /\ out[1] \in {<<>>, Says(Mark("CN"))}
        /\ cmd.k # "exec" => \A m \in DOMAIN out : ~Has(out[m], "END")
        /\ cmd.k # "up" => \A m \in DOMAIN out : ~Has(out[m], "UP")

Ready == far \in {"idle", "cont", "gone"}
\* It may still be at an earlier fetch, or a user's command.
Old == cmd.k \in {"exec", "user"}

\* Whose turn it is.  Only link_up and a resync write to a far end that may be at
\* work; every other line is written when it is ready, and answered, or given up
\* once nothing more will come, before the next.
Turns ==
    /\ at = "rest" => st = "send"
    /\ at \in {"rest", "up"} /\ st = "send" => dev = <<>> /\ (Ready \/ Old)
    /\ at \in Asking \ {"up"} /\ st = "send" => dev = <<>> /\ Ready
    /\ at = "up" /\ st # "send" =>
         \/ dev = <<>> /\ (Ready \/ Old \/ cmd.k = "up")
         \/ dev = <<LineOf("up")>> /\ (Ready \/ Old)
    /\ at \in Asking \ {"up"} /\ st = "wait" =>
         \/ dev = <<>> /\ (Ready \/ (cmd.k = Kind /\ cap # <<>> /\ Last(cap).t # ">>"))
         \/ dev = <<LineOf(Kind)>> /\ Ready /\ b0 = Len(cap)
    /\ at \in Asking \ {"up"} /\ st = "expect" =>
         at \in {"va", "build", "exec"} /\ dev = <<>> /\ (Ready \/ (at = "exec" /\ cmd.k = "exec"))
    /\ at = "sync" =>
         /\ back \in {"rest", "up", "build"} /\ st # "expect"
         /\ dev \in IF st = "send" THEN {<<>>, <<Ctrl>>} ELSE {<<>>, <<Ctrl>>, <<Bare>>, <<Ctrl, Bare>>}
         /\ Ready \/ (Old /\ back # "build") \/ (cmd.k = "" /\ st = "wait" /\ dev = <<>>)

\* link_up's answer and the end marker are only there when the far end has said
\* everything.
MarksAreLast ==
    /\ at = "up" /\ st # "send" /\ Found("UP") => dev = <<>> /\ Ready
    /\ Found("END") =>
         \/ at \in {"rest", "sync", "up"} \/ (at = "import" /\ st = "send")
         \/ at = "exec" /\ st # "send" /\ dev = <<>> /\ Ready

Honest == NetTyped /\ Outs /\ Turns /\ MarksAreLast /\ ~lost

\* A string is as it was sent, or short of a character.
Sent(s) == s = NoStr \/ (s.id \in 1 .. get /\ s.len = Lens[s.id])
Known(s) == Sent(s) \/ (s.id = 0 /\ (s.len < 0 \/ \E m \in 1 .. get : s.len = Lens[m] - 1))
Measured(s) == \A i \in DOMAIN s : s[i].t = "VA" => s[i].x = a.len

\* The address the far end has is measured before it is dialled, and not assigned
\* again in between.
Named ==
    /\ Known(a) /\ Sent(cmd.s)
    /\ at = "va" /\ st # "send" => Measured(cap) /\ (far = "say" => \A m \in DOMAIN out : Measured(out[m]))
    /\ at \in {"p", "build", "exec"} \/ (at = "sync" /\ back = "build") => Ends(a.len, Lens[get])
    /\ cmd.k = "exec" /\ cmd.s.id = get /\ ~Ready => Ends(a.len, Lens[get])
    /\ DialsWhatWasAsked

NetInv == Honest /\ Named
-----------------------------------------------------------------------------
(* Tokens *)

LEMMA CatFacts ==
    ASSUME NEW s \in Seq(Token), NEW u \in Seq(Token)
    PROVE  /\ s \o u \in Seq(Token)
           /\ u # <<>> => s \o u # <<>> /\ Last(s \o u) = Last(u)
           /\ \A k : Has(s \o u, k) <=> Has(s, k) \/ Has(u, k)
           /\ Measured(s) /\ Measured(u) => Measured(s \o u)
<1>1. /\ s \o u \in Seq(Token) /\ Len(s \o u) = Len(s) + Len(u)
      /\ \A i \in 1 .. Len(s) : (s \o u)[i] = s[i]
      /\ \A i \in 1 .. Len(u) : (s \o u)[Len(s) + i] = u[i]
    OBVIOUS
<1>2. \A i \in 1 .. Len(s) + Len(u) : i \in 1 .. Len(s) \/ \E j \in 1 .. Len(u) : i = Len(s) + j
    <2> TAKE i \in 1 .. Len(s) + Len(u)
    <2>1. i \notin 1 .. Len(s) => i - Len(s) \in 1 .. Len(u) /\ i = Len(s) + (i - Len(s))
        OBVIOUS
    <2> QED BY <2>1
<1>3. \A j \in 1 .. Len(u) : Len(s) + j \in 1 .. Len(s \o u)
    BY <1>1
<1>4. u # <<>> => s \o u # <<>> /\ Last(s \o u) = Last(u)
    <2> HAVE u # <<>>
    <2>1. Len(u) \in 1 .. Len(u)
        OBVIOUS
    <2> QED BY <1>1, <2>1 DEF Last
<1>5. ASSUME NEW k PROVE Has(s \o u, k) <=> Has(s, k) \/ Has(u, k)
    <2>1. Has(s \o u, k) => Has(s, k) \/ Has(u, k)
        BY <1>1, <1>2 DEF Has
    <2>2. Has(s, k) => Has(s \o u, k)
        BY <1>1 DEF Has
    <2>3. Has(u, k) => Has(s \o u, k)
        <3>1. SUFFICES ASSUME NEW j \in 1 .. Len(u), u[j].t = k PROVE Has(s \o u, k)
            BY DEF Has
        <3>2. Len(s) + j \in DOMAIN (s \o u) /\ (s \o u)[Len(s) + j].t = k
            BY <1>1, <1>3, <3>1
        <3> QED BY <3>2 DEF Has
    <2> QED BY <2>1, <2>2, <2>3
<1>6. Measured(s) /\ Measured(u) => Measured(s \o u)
    <2>1. SUFFICES ASSUME Measured(s), Measured(u), NEW i \in 1 .. Len(s) + Len(u), (s \o u)[i].t = "VA"
                   PROVE  (s \o u)[i].x = a.len
        BY <1>1 DEF Measured
    <2>2. CASE i \in 1 .. Len(s)
        BY <1>1, <2>1, <2>2 DEF Measured
    <2>3. CASE i \notin 1 .. Len(s)
        <3>1. PICK j \in 1 .. Len(u) : i = Len(s) + j
            BY <1>2, <2>3
        <3> QED BY <1>1, <2>1, <3>1 DEF Measured
    <2> QED BY <2>2, <2>3
<1> QED BY <1>1, <1>4, <1>5, <1>6

LEMMA OneToken ==
    ASSUME NEW e \in Token
    PROVE  /\ <<e>> \in Seq(Token) /\ <<e>> # <<>> /\ Last(<<e>>) = e
           /\ \A k : Has(<<e>>, k) <=> e.t = k
           /\ e.t # "VA" => Measured(<<e>>)
BY DEF Last, Has, Measured

LEMMA TwoTokens ==
    ASSUME NEW e \in Token, NEW f \in Token
    PROVE  /\ <<e, f>> \in Seq(Token) /\ <<e, f>> # <<>> /\ Last(<<e, f>>) = f
           /\ \A k : Has(<<e, f>>, k) <=> e.t = k \/ f.t = k
           /\ e.t # "VA" /\ (f.t = "VA" => f.x = a.len) => Measured(<<e, f>>)
BY DEF Last, Has, Measured

LEMMA Marks ==
    /\ Echo \in Seq(Token) /\ Echo # <<>> /\ Last(Echo).t = "echo"
    /\ Prompt \in Seq(Token) /\ More \in Seq(Token) /\ <<>> \in Seq(Token)
    /\ Measured(Echo) /\ Measured(Prompt) /\ Measured(More) /\ Measured(<<>>)
    /\ \A k \in {"UP", "END"} :
         /\ ~Has(Echo, k) /\ ~Has(Prompt, k) /\ ~Has(More, k) /\ ~Has(<<>>, k)
         /\ ~Has(Says(Mark("CN")), k)
    /\ Says(Mark("CN")) \in Seq(Token) /\ Says(Mark("CN")) # <<>>
<1>2. Echo = <<Mark("echo")>>
    BY DEF Echo, Burst, Mark, Tok
<1>4. <<>> \in Seq(Token) /\ (\A k : ~Has(<<>>, k)) /\ Measured(<<>>)
    BY DEF Has, Measured
<1>5. Mark("zz") \in Token /\ Mark("zz").t = "zz" /\ Mark("CN") \in Token /\ Mark("CN").t = "CN"
    BY DEF Mark, Tok, Token, Sayings
<1>6. /\ Says(Mark("CN")) \in Seq(Token) /\ Says(Mark("CN")) # <<>>
      /\ \A k \in {"UP", "END"} : ~Has(Says(Mark("CN")), k)
    BY <1>5, TwoTokens DEF Says
<1>7. Mark("echo") \in Token /\ Mark("echo").t = "echo" /\ Mark(">>") \in Token
      /\ Mark(">>").t = ">>" /\ Mark("..") \in Token /\ Mark("..").t = ".."
    BY DEF Mark, Tok, Token, Sayings
<1>8. /\ Echo \in Seq(Token) /\ Echo # <<>> /\ Last(Echo).t = "echo"
      /\ Measured(Echo) /\ \A k \in {"UP", "END"} : ~Has(Echo, k)
    BY <1>2, <1>7, OneToken
<1>9. /\ Prompt \in Seq(Token) /\ More \in Seq(Token) /\ Measured(Prompt) /\ Measured(More)
      /\ \A k \in {"UP", "END"} : ~Has(Prompt, k) /\ ~Has(More, k)
    BY <1>7, OneToken DEF Prompt, More
<1> QED BY <1>4, <1>6, <1>8, <1>9

\* A burst loses its first character, and with it a marker, never gains one.
LEMMA BurstFacts ==
    ASSUME NEW s \in Seq(Token)
    PROVE  /\ Burst(s) \in Seq(Token)
           /\ \A k \in {"UP", "END"} : Has(Burst(s), k) => Has(s, k)
           /\ Measured(s) => Measured(Burst(s))
<1>1. CASE s = <<>>
    BY <1>1 DEF Burst, Has, Measured
<1>2. CASE s # <<>> /\ s[1].t = "zz"
    <2>1. Burst(s) = Tail(s)
        BY <1>2 DEF Burst
    <2>2. Tail(s) \in Seq(Token) /\ \A i \in 1 .. Len(Tail(s)) : Tail(s)[i] = s[i + 1] /\ i + 1 \in 1 .. Len(s)
        BY <1>2
    <2> QED BY <2>1, <2>2 DEF Has, Measured
<1>3. CASE s # <<>> /\ s[1].t \in {">>", "..", "echo"}
    <2>1. Burst(s) = s
        BY <1>3 DEF Burst
    <2> QED BY <2>1
<1>4. CASE s # <<>> /\ s[1].t \notin {"zz", ">>", "..", "echo"}
    <2> DEFINE e == Tok(IF s[1].t = "page" THEN "page" ELSE "?", s[1].x, 0)
    <2>1. Burst(s) = <<e>> \o Tail(s)
        BY <1>4 DEF Burst
    <2>2. Tail(s) \in Seq(Token) /\ \A i \in 1 .. Len(Tail(s)) : Tail(s)[i] = s[i + 1] /\ i + 1 \in 1 .. Len(s)
        BY <1>4
    <2>3. s[1] \in Token
        BY <1>4
    <2>4. e \in Token /\ e.t \in {"page", "?"}
        <3>1. s[1].x \in Int
            BY <2>3 DEF Token
        <3>2. \A k \in {"page", "?"} : Tok(k, s[1].x, 0) \in Token /\ Tok(k, s[1].x, 0).t = k
            BY <3>1 DEF Tok, Token, Sayings
        <3>3. e = Tok("page", s[1].x, 0) \/ e = Tok("?", s[1].x, 0)
            OBVIOUS
        <3> QED BY <3>2, <3>3
    <2> HIDE DEF e
    <2>5. <<e>> \in Seq(Token) /\ (\A k \in {"UP", "END"} : ~Has(<<e>>, k)) /\ Measured(<<e>>)
        BY <2>4 DEF Has, Measured
    <2>6. \A k : Has(Tail(s), k) => Has(s, k)
        BY <2>2 DEF Has
    <2>7. Measured(s) => Measured(Tail(s))
        BY <2>2 DEF Measured
    <2>8. /\ <<e>> \o Tail(s) \in Seq(Token)
          /\ \A k : Has(<<e>> \o Tail(s), k) <=> Has(<<e>>, k) \/ Has(Tail(s), k)
          /\ Measured(<<e>>) /\ Measured(Tail(s)) => Measured(<<e>> \o Tail(s))
        BY <2>2, <2>5, CatFacts
    <2> QED BY <2>1, <2>5, <2>6, <2>7, <2>8
<1> QED BY <1>1, <1>2, <1>3, <1>4

\* The lines of the build are the ones of the build.
LEMMA BuildIs ==
    /\ Len(BuildLines) = 16
    /\ \A i \in 1 .. 16 : BuildLines[i] \in BuildKinds
    /\ BuildLines[16] = "pg"
<1> DEFINE first == <<"req1", "req2">>
           end == <<"q", "pg">>
<1>1. /\ first \in Seq(BuildKinds) /\ Len(first) = 2
      /\ Program \in Seq(BuildKinds) /\ Len(Program) = 12
      /\ end \in Seq(BuildKinds) /\ Len(end) = 2 /\ end[2] = "pg"
    BY DEF Program, BuildKinds
<1>2. BuildLines = (first \o Program) \o end
    BY DEF BuildLines
<1> HIDE DEF first, end
<1>3. ASSUME NEW s \in Seq(BuildKinds), NEW u \in Seq(BuildKinds)
      PROVE  /\ s \o u \in Seq(BuildKinds) /\ Len(s \o u) = Len(s) + Len(u)
             /\ \A i \in 1 .. Len(u) : (s \o u)[Len(s) + i] = u[i]
    OBVIOUS
<1>4. first \o Program \in Seq(BuildKinds)
    BY <1>1, <1>3
<1>5. Len(first \o Program) = Len(first) + Len(Program)
    BY <1>1, <1>3
<1>6. Len(first \o Program) = 14
    BY <1>1, <1>5
<1>7. BuildLines \in Seq(BuildKinds)
    BY <1>1, <1>2, <1>3, <1>4
<1>8. Len(BuildLines) = Len(first \o Program) + Len(end)
    BY <1>1, <1>2, <1>3, <1>4
<1>9. BuildLines[Len(first \o Program) + 2] = end[2]
    <2>1. 2 \in 1 .. Len(end)
        BY <1>1
    <2> QED BY <1>1, <1>2, <1>3, <1>4, <2>1
<1>10. Len(BuildLines) = 16 /\ BuildLines[16] = "pg"
    BY <1>1, <1>6, <1>8, <1>9
<1>11. \A i \in 1 .. Len(BuildLines) : BuildLines[i] \in BuildKinds
    BY <1>7, ElementOfSeq
<1> QED BY <1>10, <1>11

LEMMA KindIs ==
    ASSUME NetTyped, at \in Asking
    PROVE  /\ Kind \in Kinds \ {"", "^C", "user"}
           /\ \A k \in Asking \ {"build"} : Kind = k <=> at = k
           /\ LineOf(Kind) # Ctrl /\ LineOf(Kind).k = Kind
           /\ LineOf(Kind).s \in Str /\ Sent(LineOf(Kind).s)
           /\ Bare # Ctrl
<1>1. Kind \in Kinds \ {"", "^C", "user"} /\ \A k \in Asking \ {"build"} : Kind = k <=> at = k
    <2>1. CASE at = "build"
        <3>1. Kind \in BuildKinds
            BY <2>1, BuildIs DEF Kind, NetTyped
        <3> QED BY <2>1, <3>1 DEF BuildKinds, Kinds, Asking
    <2>2. CASE at # "build"
        BY <2>2 DEF Kind, Asking, Kinds
    <2> QED BY <2>1, <2>2
<1>2. get \in 1 .. get /\ get \in Nat /\ Lens[get] \in Nat
    BY LensAssumption DEF NetTyped, Asking
<1>3. Asked \in Str /\ Sent(Asked) /\ NoStr \in Str /\ Sent(NoStr)
    BY <1>2 DEF Asked, Sent, Str, NoStr
<1>4. LineOf(Kind).k = Kind /\ LineOf(Kind).s \in {Asked, NoStr} /\ Ctrl.k = "^C" /\ Bare.k = ""
    BY DEF LineOf, Ctrl, Bare
<1> QED BY <1>1, <1>3, <1>4
-----------------------------------------------------------------------------
(* What the far end says and assigns *)

\* A sequence's elements are in a set if each of them is.
LEMMA AllIn ==
    ASSUME NEW S, NEW T, NEW s \in Seq(S), \A i \in DOMAIN s : s[i] \in T
    PROVE  s \in Seq(T)
<1>1. Len(s) \in Nat /\ DOMAIN s = 1 .. Len(s) /\ s = [i \in 1 .. Len(s) |-> s[i]]
    OBVIOUS
<1> QED BY <1>1

LEMMA StrIs == \A s \in Str : s.id \in Nat /\ s.len \in Int
BY DEF Str

LEMMA BodyType ==
    ASSUME NetTyped
    PROVE  Body(c1) \in Seq(Other)
<1>1. ASSUME NEW i \in Int, NEW j \in Int PROVE <<Tok("page", i, j)>> \in Seq(Other)
    BY DEF Tok, Other, Sayings
<1>2. a.id \in Int
    BY DEF NetTyped, Str
<1> DEFINE i == IF req.of = <<a.id, a.id>> THEN a.id ELSE 0
           j == IF \E m \in DOMAIN c1 : c1[m].d = "quiet" THEN 0
                ELSE IF net = "long" THEN CUT ELSE WHOLE
<1>3. Body(c1) = IF ~Ran(c1, "recv") THEN b ELSE <<Tok("page", i, j)>>
    BY DEF Body
<1>4. i \in Int /\ j \in Int
    BY <1>2 DEF CUT, WHOLE
<1> HIDE DEF i, j
<1> QED BY <1>1, <1>3, <1>4 DEF NetTyped

LEMMA OtherCat ==
    ASSUME NEW s \in Seq(Other), NEW u \in Seq(Other)
    PROVE  s \o u \in Seq(Other)
OBVIOUS

LEMMA OthersAreTokens ==
    ASSUME NEW s \in Seq(Other)
    PROVE  s \in Seq(Token) /\ ~Has(s, "UP")
<1>1. Len(s) \in Nat /\ s = [i \in 1 .. Len(s) |-> s[i]] /\ \A i \in 1 .. Len(s) : s[i] \in Other
    OBVIOUS
<1>2. \A e \in Other : e \in Token /\ e.t # "UP"
    BY DEF Other, Token
<1> QED BY <1>1, <1>2 DEF Has

LEMMA SpokenShape ==
    ASSUME NetTyped
    PROVE  /\ Spoken(c1) \in Seq(Seq(Other)) /\ Len(Spoken(c1)) \in 1 .. 3
           /\ Len(Spoken(c1)) = 3 => Spoken(c1)[1] \in {<<>>, Says(Mark("CN"))}
<1> DEFINE cn == IF \E i \in 1 .. Stop(c1) : i \in DOMAIN c1 /\ c1[i].k = "CN" /\ c1[i].d # "bad"
                 THEN Says(Mark("CN")) ELSE <<>>
           p0 == IF Ran(c1, "CUT") /\ IsCut(Body(c1)) THEN Says(Mark("CUT")) ELSE <<>>
           p1 == IF Ran(c1, "BEGIN") THEN Says(Mark("BEGIN")) ELSE <<>>
           p2 == IF Ran(c1, "write") THEN Body(c1) ELSE <<>>
           p3 == IF Ran(c1, "END") THEN Says(Mark("END")) ELSE <<>>
           p4 == IF Stop(c1) <= Len(c1) THEN <<Mark("TB")>> ELSE <<>>
           rest == p0 \o p1 \o p2 \o p3 \o p4
<1>1. Spoken(c1) = (IF Ran(c1, "recv") THEN <<cn, rest>> ELSE <<cn \o rest>>) \o <<Prompt>>
    BY DEF Spoken, Quietly
<1>2. \A k \in {"zz", "CN", "CUT", "BEGIN", "END", "TB", ">>"} : Mark(k) \in Other
    BY DEF Mark, Tok, Other, Sayings
<1>3. <<>> \in Seq(Other) /\ \A e \in Other : <<e>> \in Seq(Other) /\ \A f \in Other : <<f, e>> \in Seq(Other)
    OBVIOUS
<1>4. \A k \in {"CN", "CUT", "BEGIN", "END"} : Says(Mark(k)) \in Seq(Other)
    BY <1>2, <1>3 DEF Says
<1>14. Prompt \in Seq(Other) /\ <<Mark("TB")>> \in Seq(Other)
    BY <1>2, <1>3 DEF Prompt
<1>5. /\ p0 \in Seq(Other) /\ p1 \in Seq(Other) /\ p2 \in Seq(Other) /\ p3 \in Seq(Other)
      /\ p4 \in Seq(Other) /\ cn \in Seq(Other) /\ cn \in {<<>>, Says(Mark("CN"))}
    BY <1>3, <1>4, <1>14, BodyType
<1> HIDE DEF p0, p1, p2, p3, p4, cn
<1>6. p0 \o p1 \in Seq(Other)
    BY <1>5, OtherCat
<1>7. (p0 \o p1) \o p2 \in Seq(Other)
    BY <1>5, <1>6, OtherCat
<1>15. (p0 \o p1 \o p2) \o p3 \in Seq(Other)
    BY <1>5, <1>7, OtherCat
<1>8. rest \in Seq(Other)
    BY <1>5, <1>15, OtherCat
<1> HIDE DEF rest
<1>9. cn \o rest \in Seq(Other)
    BY <1>5, <1>8, OtherCat
<1> DEFINE end == <<Prompt>>
           Bursts == Seq(Other)
<1>10. ASSUME NEW s \in Seq(Bursts)
       PROVE  /\ s \o end \in Seq(Bursts) /\ Len(s \o end) = Len(s) + Len(end)
              /\ Len(s) # 0 => (s \o end)[1] = s[1]
    <2>1. end \in Seq(Bursts)
        BY <1>14
    <2> HIDE DEF end, Bursts
    <2> QED BY <2>1
<1>11. Len(end) = 1
    OBVIOUS
<1>12. CASE Ran(c1, "recv")
    <2> DEFINE s == <<cn, rest>>
    <2>1. s \in Seq(Bursts)
        BY <1>5, <1>8
    <2>2. Len(s) = 2 /\ s[1] = cn
        OBVIOUS
    <2>3. Spoken(c1) = s \o end
        BY <1>1, <1>12
    <2> HIDE DEF s, end, Bursts
    <2>4. /\ s \o end \in Seq(Bursts) /\ Len(s \o end) = Len(s) + Len(end)
          /\ Len(s) # 0 => (s \o end)[1] = s[1]
        BY <1>10, <2>1
    <2> QED BY <1>5, <1>11, <2>2, <2>3, <2>4 DEF Bursts
<1>13. CASE ~Ran(c1, "recv")
    <2> DEFINE s == <<cn \o rest>>
    <2>1. s \in Seq(Bursts)
        BY <1>9
    <2>2. Len(s) = 1
        OBVIOUS
    <2>3. Spoken(c1) = s \o end
        BY <1>1, <1>13
    <2> HIDE DEF s, end, Bursts
    <2>4. s \o end \in Seq(Bursts) /\ Len(s \o end) = Len(s) + Len(end)
        BY <1>10, <2>1
    <2> QED BY <1>11, <2>2, <2>3, <2>4 DEF Bursts
<1> QED BY <1>12, <1>13

LEMMA Variables ==
    ASSUME NetTyped, Executes
    PROVE  /\ a' \in Str /\ h' \in Str /\ p' \in Str
           /\ req' \in [st: {"none", "str", "bytes"}, of: Nat \X Nat, len: Int]
           /\ q' \in Int /\ c1' \in Seq([k: Kinds, d: Fates]) /\ b' \in Seq(Other)
           /\ cmd.k # "a" => a' = a
           /\ Known(a) /\ Sent(cmd.s) /\ get' = get => Known(a)'
           /\ dialled' # dialled =>
                cmd.k = "exec" /\ cmd.s.id = get /\ dialled' = dialled \cup {a.id}
<1>1. cmd.s \in Str /\ cmd.k \in Kinds /\ cmd.d \in Fates
    BY DEF NetTyped
<1>2. Assigned \in {Short(cmd.s), cmd.s}
    BY DEF Assigned
<1>3. Short(cmd.s) \in Str
    BY <1>1 DEF Short, Str
<1>4. a' \in Str /\ h' \in Str /\ p' \in Str
    BY <1>1, <1>2, <1>3 DEF Executes, NetTyped
<1>5. req' \in [st: {"none", "str", "bytes"}, of: Nat \X Nat, len: Int]
    <2> DEFINE R == [st: {"none", "str", "bytes"}, of: Nat \X Nat, len: Int]
    <2>1. ASSUME NEW x \in Nat, NEW y \in Nat, NEW l \in Int, NEW s \in {"str", "bytes"}
          PROVE  [st |-> s, of |-> <<x, y>>, len |-> l] \in R
        OBVIOUS
    <2>2. req \in R /\ req.len \in Int /\ req.of[1] \in Nat
          /\ p.id \in Nat /\ p.len \in Int /\ h.id \in Nat /\ h.len \in Int
        BY DEF NetTyped, Str
    <2> DEFINE cut == IF cmd.d = "short" THEN 1 ELSE 0
               of(m) == IF cmd.d = "short" THEN 0 ELSE m
    <2>3. cut \in Int /\ of(p.id) \in Nat /\ of(h.id) \in Nat
        BY <2>2
    <2> DEFINE r1 == [st |-> "str", of |-> <<of(p.id), 0>>, len |-> 21 + p.len - cut]
               r2 == [st |-> "bytes", of |-> <<req.of[1], of(h.id)>>, len |-> req.len + 23 + h.len - cut]
    <2>4. Requested \in {req, r1, r2}
        BY DEF Requested
    <2> HIDE DEF of, cut
    <2>5. r1 \in R /\ r2 \in R
        BY <2>1, <2>2, <2>3
    <2> QED BY <2>2, <2>4, <2>5 DEF Executes
<1>6. c1' \in Seq([k: Kinds, d: Fates])
    <2> DEFINE L == [k: Kinds, d: Fates]
               l == [k |-> cmd.k, d |-> cmd.d]
               fresh == [l EXCEPT !.d = IF @ = "plus" THEN "none" ELSE @]
    <2>1. c1 \in Seq(L) /\ l \in L
        BY <1>1 DEF NetTyped
    <2>2. fresh \in L
        BY <1>1 DEF Fates
    <2>3. <<fresh>> \in Seq(L) /\ Append(c1, l) \in Seq(L)
        BY <2>1, <2>2
    <2>4. Appended \in {c1, <<fresh>>, Append(c1, l)}
        BY DEF Appended
    <2> HIDE DEF L
    <2> QED BY <2>1, <2>3, <2>4 DEF Executes, L
<1>7. q' \in Int
    <2>1. IsFiniteSet(DOMAIN c1)
        BY FS_Interval DEF NetTyped
    <2>2. CountKoti(c1) \in Nat
        BY <2>1, FS_Subset, FS_CardinalityType DEF CountKoti
    <2> QED BY <2>2 DEF Executes, NetTyped
<1>8. b' \in Seq(Other)
    BY BodyType DEF Executes, NetTyped
<1>9. cmd.k # "a" => a' = a
    BY DEF Executes
<1>10. ASSUME Known(a), Sent(cmd.s), get' = get PROVE Known(a)'
    <2>1. CASE a' = a
        BY <1>10, <2>1 DEF Known, Sent
    <2>2. CASE a' = cmd.s
        BY <1>10, <2>2 DEF Known, Sent
    <2>3. CASE a' = Short(cmd.s)
        BY <1>1, <1>10, <2>3, StrIs DEF Known, Sent, Short, NoStr
    <2> QED BY <1>2, <2>1, <2>2, <2>3 DEF Executes
<1>11. dialled' # dialled => cmd.k = "exec" /\ cmd.s.id = get /\ dialled' = dialled \cup {a.id}
    BY DEF Executes
<1> QED BY <1>4, <1>5, <1>6, <1>7, <1>8, <1>9, <1>10, <1>11

LEMMA PairIs ==
    ASSUME NEW x \in Seq(Token), NEW y \in Seq(Token), ~Has(y, "END"), ~Has(y, "UP")
    PROVE  /\ <<x, y>> \in Seq(Seq(Token)) /\ Len(<<x, y>>) = 2
           /\ \A k \in {"UP", "END"} : ~Has(x, k) => \A m \in DOMAIN <<x, y>> : ~Has(<<x, y>>[m], k)
           /\ Measured(x) /\ Measured(y) => \A m \in DOMAIN <<x, y>> : Measured(<<x, y>>[m])
<1>1. <<x, y>> \in Seq(Seq(Token))
    OBVIOUS
<1>2. Len(<<x, y>>) = 2 /\ \A m \in DOMAIN <<x, y>> : <<x, y>>[m] \in {x, y}
    OBVIOUS
<1> QED BY <1>1, <1>2

\* What a command says: only link_up's says its answer, and only the fetch its
\* end marker.
LEMMA Said ==
    ASSUME NetTyped, Executes
    PROVE  /\ out' \in Seq(Seq(Token)) /\ Len(out') \in 1 .. 3
           /\ Len(out') = 3 => cmd.k = "exec" /\ out'[1] \in {<<>>, Says(Mark("CN"))}
           /\ cmd.k # "exec" => \A m \in DOMAIN out' : ~Has(out'[m], "END")
           /\ cmd.k # "up" => \A m \in DOMAIN out' : ~Has(out'[m], "UP")
           /\ cmd.k = "va" => \A m \in DOMAIN out' : Measured(out'[m])
<1> DEFINE Fine(s) ==
             /\ s \in Seq(Seq(Token)) /\ Len(s) \in 1 .. 3
             /\ Len(s) = 3 => cmd.k = "exec" /\ s[1] \in {<<>>, Says(Mark("CN"))}
             /\ cmd.k # "exec" => \A m \in DOMAIN s : ~Has(s[m], "END")
             /\ cmd.k # "up" => \A m \in DOMAIN s : ~Has(s[m], "UP")
             /\ cmd.k = "va" => \A m \in DOMAIN s : Measured(s[m])
<1>1. Prompt \in Seq(Token) /\ ~Has(Prompt, "END") /\ ~Has(Prompt, "UP") /\ Measured(Prompt)
    BY Marks
<1>2. ASSUME NEW x \in Seq(Token), ~Has(x, "END"), cmd.k # "up" => ~Has(x, "UP"),
             cmd.k = "va" => Measured(x)
      PROVE  Fine(<<x, Prompt>>)
    BY <1>1, <1>2, PairIs
<1>3. Fine(Raised)
    <2>1. Mark("TB") \in Token /\ Mark("TB").t = "TB"
        BY DEF Mark, Tok, Token, Sayings
    <2> QED BY <1>2, <2>1, OneToken DEF Raised
<1>4. Fine(Quietly)
    BY <1>1 DEF Quietly
<1>5. CASE cmd.k = "exec"
    <2>1. Fine(Spoken(c1))
        <3>1. /\ Spoken(c1) \in Seq(Seq(Other)) /\ Len(Spoken(c1)) \in 1 .. 3
              /\ Len(Spoken(c1)) = 3 => Spoken(c1)[1] \in {<<>>, Says(Mark("CN"))}
            BY SpokenShape
        <3>2. \A m \in DOMAIN Spoken(c1) : Spoken(c1)[m] \in Seq(Other)
            BY <3>1
        <3>3. \A m \in DOMAIN Spoken(c1) : Spoken(c1)[m] \in Seq(Token) /\ ~Has(Spoken(c1)[m], "UP")
            BY <3>2, OthersAreTokens
        <3>4. Spoken(c1) \in Seq(Seq(Token))
            BY <3>1, <3>3, AllIn
        <3> QED BY <1>5, <3>1, <3>3, <3>4
    <2>2. out' = Spoken(c1) \/ out' = Raised
        BY <1>5 DEF Executes
    <2> HIDE DEF Fine
    <2>3. Fine(out')
        BY <1>3, <2>1, <2>2
    <2> QED BY <2>3 DEF Fine
<1>6. ASSUME NEW e \in Token, e.t # "END", e.t = "UP" => cmd.k = "up",
             cmd.k = "va" /\ e.t = "VA" => e.x = a.len
      PROVE  Fine(<<Says(e), Prompt>>)
    <2>1. Mark("zz") \in Token /\ Mark("zz").t = "zz"
        BY DEF Mark, Tok, Token, Sayings
    <2>2. /\ Says(e) \in Seq(Token) /\ ~Has(Says(e), "END") /\ (cmd.k # "up" => ~Has(Says(e), "UP"))
          /\ (cmd.k = "va" => Measured(Says(e)))
        BY <1>6, <2>1, TwoTokens DEF Says
    <2> QED BY <1>2, <2>2
<1>7. ASSUME NEW k \in {"UP", "VA", "PG"}, NEW i \in Int, NEW j \in Int
      PROVE  Tok(k, i, j) \in Token /\ Tok(k, i, j).t = k /\ Tok(k, i, j).x = i
    BY DEF Tok, Token, Sayings
<1>8. a.len \in Int /\ h.len \in Int /\ q \in Int /\ req.len \in Int
    BY DEF NetTyped, Str
<1> HIDE DEF Fine
<1>9. CASE cmd.k = "up"
    <2>1. \A i \in {0, 1} : Fine(<<Says(Tok("UP", i, 0)), Prompt>>)
        BY <1>6, <1>7, <1>9
    <2>2. out' \in {Raised, <<Says(Tok("UP", 0, 0)), Prompt>>, <<Says(Tok("UP", 1, 0)), Prompt>>}
        BY <1>9 DEF Executes
    <2>3. Fine(out')
        BY <1>3, <2>1, <2>2
    <2> QED BY <2>3 DEF Fine
<1>10. CASE cmd.k = "va"
    <2>1. Fine(<<Says(Tok("VA", a.len, h.len)), Prompt>>)
        BY <1>6, <1>7, <1>8, <1>10
    <2>2. out' \in {Raised, <<Says(Tok("VA", a.len, h.len)), Prompt>>}
        BY <1>10 DEF Executes
    <2>3. Fine(out')
        BY <1>3, <2>1, <2>2
    <2> QED BY <2>3 DEF Fine
<1>11. CASE cmd.k = "pg"
    <2>1. Fine(<<Says(Tok("PG", q, req.len)), Prompt>>)
        BY <1>6, <1>7, <1>8, <1>11
    <2>2. out' \in {Raised, <<Says(Tok("PG", q, req.len)), Prompt>>}
        BY <1>11 DEF Executes
    <2>3. Fine(out')
        BY <1>3, <2>1, <2>2
    <2> QED BY <2>3 DEF Fine
<1>12. CASE cmd.k \notin {"up", "va", "pg", "exec"}
    <2>1. out' \in {Raised, Quietly}
        BY <1>12 DEF Executes
    <2>3. Fine(out')
        BY <1>3, <1>4, <2>1
    <2> QED BY <2>3 DEF Fine
<1> QED BY <1>5, <1>9, <1>10, <1>11, <1>12

LEMMA HitIs ==
    ASSUME NEW k, NEW d \in Hits(k)
    PROVE  d \in Fates /\ (k = "" => d # "bracket")
<1>1. Damages(k) \subseteq Fates /\ (k = "" => Damages(k) = {})
    BY DEF Damages, Fates, Marked
<1>2. HardHit(k) \in {"plus", "raise"}
    BY DEF HardHit
<1> QED BY <1>1, <1>2 DEF Hits, Fates
-----------------------------------------------------------------------------
(* The far end's steps *)

\* Something is on its way to the far end only when it is ready, or from link_up,
\* or from a resync.
LEMMA OnTheWay ==
    ASSUME Honest, dev # <<>>
    PROVE  /\ LineOf("up") # Ctrl /\ Bare # Ctrl /\ LineOf("up").k = "up" /\ Bare.k = ""
           /\ \/ /\ at = "up" /\ st # "send" /\ Kind = "up" /\ (Ready \/ Old) /\ ~Found("UP")
                 /\ Head(dev) = LineOf("up") /\ Tail(dev) = <<>>
              \/ /\ at \in Asking \ {"up"} /\ st = "wait" /\ Ready /\ ~Found("END")
                 /\ Head(dev) = LineOf(Kind) /\ Head(dev) # Ctrl /\ Tail(dev) = <<>>
              \/ /\ at = "sync" /\ (Ready \/ (Old /\ back # "build"))
                 /\ \/ Head(dev) = Ctrl /\ (Tail(dev) = <<>> \/ (st = "wait" /\ Tail(dev) = <<Bare>>))
                    \/ st = "wait" /\ Head(dev) = Bare /\ Tail(dev) = <<>>
<1>1. LineOf("up") # Ctrl /\ Bare # Ctrl /\ LineOf("up").k = "up" /\ Bare.k = ""
    <2>1. Bare.k = "" /\ Ctrl.k = "^C" /\ LineOf("up").k = "up"
        BY DEF Bare, Ctrl, LineOf
    <2> QED BY <2>1
<1>2. /\ \A x : Head(<<x>>) = x /\ Tail(<<x>>) = <<>>
      /\ \A x, y : Head(<<x, y>>) = x /\ Tail(<<x, y>>) = <<y>>
    OBVIOUS
<1>3. CASE at = "up"
    BY <1>1, <1>2, <1>3 DEF Honest, Turns, MarksAreLast, NetTyped, Asking, Kind
<1>4. CASE at \in Asking \ {"up"}
    <2>1. st = "wait" /\ Ready /\ dev = <<LineOf(Kind)>>
        BY <1>4 DEF Honest, Turns, NetTyped
    <2>2. ~Found("END")
        BY <1>4, <2>1 DEF Honest, MarksAreLast, Asking
    <2>3. LineOf(Kind) # Ctrl
        BY <1>4, KindIs DEF Honest
    <2> QED BY <1>1, <1>2, <1>4, <2>1, <2>2, <2>3
<1>5. CASE at = "sync"
    <2>1. st \in {"send", "wait"} /\ (Ready \/ (Old /\ back # "build"))
        BY <1>5 DEF Honest, Turns, NetTyped
    <2>2. dev \in IF st = "send" THEN {<<>>, <<Ctrl>>} ELSE {<<>>, <<Ctrl>>, <<Bare>>, <<Ctrl, Bare>>}
        BY <1>5 DEF Honest, Turns
    <2>3. CASE dev = <<Ctrl>>
        BY <1>1, <1>2, <1>5, <2>1, <2>3
    <2>4. CASE dev = <<Bare>> /\ st = "wait"
        BY <1>1, <1>2, <1>5, <2>1, <2>4
    <2>5. CASE dev = <<Ctrl, Bare>> /\ st = "wait"
        BY <1>1, <1>2, <1>5, <2>1, <2>5
    <2> QED BY <2>1, <2>2, <2>3, <2>4, <2>5
<1>6. CASE at = "rest"
    BY <1>6 DEF Honest, Turns
<1> QED BY <1>3, <1>4, <1>5, <1>6 DEF Honest, NetTyped

\* While it executes or speaks it is at the script's line, or, of an earlier get,
\* at its fetch or at a user's command.
LEMMA AtWork ==
    ASSUME Honest, ~Ready
    PROVE  /\ far \in {"busy", "say"}
           /\ at \in {"rest", "up"} => Old \/ (at = "up" /\ st # "send" /\ cmd.k = "up" /\ dev = <<>>)
           /\ at \in Asking \ {"up"} => st # "send" /\ dev = <<>> /\ cmd.k = Kind
           /\ at \in Asking \ {"up"} /\ st = "wait" => cap # <<>> /\ Last(cap).t # ">>"
           /\ at \in Asking \ {"up"} /\ st = "expect" => at = "exec"
           /\ at = "sync" => (Old /\ back # "build") \/ (cmd.k = "" /\ dev = <<>>)
           /\ cmd.k = "a" => at = "a"
           /\ at = "va" => cmd.k = "va"
           /\ Found("END") => at \in {"rest", "sync", "up"}
           /\ at = "up" /\ st # "send" => ~Found("UP")
           /\ cmd.k = "exec" => at \in {"rest", "sync", "up", "exec"}
           /\ cmd.k = "up" => at = "up" /\ st # "send" /\ dev = <<>>
<1>1. /\ at \in {"rest", "sync"} \cup Asking /\ st \in {"send", "wait", "expect"}
      /\ far \in {"busy", "say"}
    BY DEF Honest, NetTyped, Ready
<1>2. at \in {"rest", "up"} => Old \/ (at = "up" /\ st # "send" /\ cmd.k = "up" /\ dev = <<>>)
    BY DEF Honest, Turns
<1>3. ASSUME at \in Asking \ {"up"}
      PROVE  /\ st # "send" /\ dev = <<>> /\ cmd.k = Kind
             /\ st = "wait" => cap # <<>> /\ Last(cap).t # ">>"
             /\ st = "expect" => at = "exec"
    <2>1. CASE st = "wait"
        BY <1>3, <2>1 DEF Honest, Turns
    <2>2. CASE st = "expect"
        BY <1>3, <2>2 DEF Honest, Turns, Kind
    <2>3. st # "send"
        BY <1>3 DEF Honest, Turns
    <2> QED BY <1>1, <2>1, <2>2, <2>3
<1>4. at = "sync" => (Old /\ back # "build") \/ (cmd.k = "" /\ dev = <<>>)
    BY DEF Honest, Turns
<1>5. at \in Asking => \A k \in Asking \ {"build"} : Kind = k <=> at = k
    BY KindIs DEF Honest
<1>6. /\ cmd.k = "a" => at = "a"
      /\ at = "va" => cmd.k = "va"
      /\ cmd.k = "exec" => at \in {"rest", "sync", "up", "exec"}
      /\ cmd.k = "up" => at = "up" /\ st # "send" /\ dev = <<>>
    BY <1>1, <1>2, <1>3, <1>4, <1>5 DEF Old, Asking
<1>7. /\ Found("END") => at \in {"rest", "sync", "up"}
      /\ at = "up" /\ st # "send" => ~Found("UP")
    BY <1>3, <1>1 DEF Honest, MarksAreLast, Asking
<1> QED BY <1>1, <1>2, <1>3, <1>4, <1>6, <1>7

\* Kind is the script's own.
LEMMA SameLine == ASSUME at' = at, line' = line PROVE Kind' = Kind
BY DEF Kind

LEMMA SameLines == ASSUME get' = get PROVE \A k : LineOf(k)' = LineOf(k)
BY DEF LineOf, Asked

LEMMA FoundIs == \A k : Found(k) <=> Has(cap, k)
BY DEF Found, Has

\* What a step that neither assigns nor dials leaves.
LEMMA SameNames ==
    ASSUME Named, UNCHANGED <<get, a, cmd, dialled>>
    PROVE  /\ Known(a)' /\ Sent(cmd.s)' /\ DialsWhatWasAsked'
           /\ \A s : Measured(s) <=> Measured(s)'
BY DEF Named, Known, Sent, DialsWhatWasAsked, Apart, Measured

LEMMA FarInterruptStep ==
    ASSUME NetInv, FarInterrupt
    PROVE  NetInv'
<1>1. /\ at = "sync" /\ Head(dev) = Ctrl
      /\ (dev' = <<>> \/ (st = "wait" /\ dev' = <<Bare>>)) /\ (Ready \/ (Old /\ back # "build"))
      /\ \/ far' = "idle" /\ out' = <<>> /\ cap' = cap \o Prompt
         \/ UNCHANGED <<far, out, cap>>
      /\ UNCHANGED <<scriptVars, cmd, a, h, p, req, c1, q, b, dialled, lost>>
    <2>1. dev # <<>> /\ Head(dev) = Ctrl
        BY DEF FarInterrupt
    <2> QED BY <2>1, OnTheWay DEF FarInterrupt, NetInv, Asking
<1> USE DEF scriptVars
<1>2. NetTyped'
    BY <1>1, CatFacts, Marks DEF NetInv, Honest, NetTyped
<1>3. Turns'
    BY <1>1 DEF NetInv, Honest, Turns, Ready, Old, Asking
<1>4. Outs' /\ MarksAreLast' /\ ~lost'
    BY <1>1 DEF NetInv, Honest, Outs, MarksAreLast, Asking
<1>5. Named'
    <2>1. Ready => Ready'
        BY <1>1 DEF Ready
    <2> QED BY <1>1, <2>1, SameNames DEF NetInv, Named
<1> QED BY <1>2, <1>3, <1>4, <1>5 DEF NetInv, Honest

LEMMA FarGoneStep ==
    ASSUME NetInv, FarGone
    PROVE  NetInv'
<1>1. /\ far' = "gone" /\ dev' = <<>> /\ out' = <<>>
      /\ UNCHANGED <<cap, scriptVars, cmd, a, h, p, req, c1, q, b, dialled, lost>>
    BY DEF FarGone
<1> USE DEF scriptVars
<1>2. NetTyped'
    BY <1>1 DEF NetInv, Honest, NetTyped
<1>3. Turns'
    <2>1. Ready' /\ Kind' = Kind
        BY <1>1, SameLine DEF Ready
    <2> QED BY <1>1, <2>1 DEF NetInv, Honest, Turns, Asking
<1>4. Outs' /\ MarksAreLast' /\ ~lost'
    <2>1. \A k : Found(k)' <=> Found(k)
        BY <1>1 DEF Found
    <2> QED BY <1>1, <2>1 DEF NetInv, Honest, Outs, MarksAreLast, Ready, Asking
<1>5. Named'
    <2>1. Ready' /\ (Measured(cap)' <=> Measured(cap))
        BY <1>1 DEF Ready, Measured
    <2> QED BY <1>1, <2>1, SameNames DEF NetInv, Named
<1> QED BY <1>2, <1>3, <1>4, <1>5 DEF NetInv, Honest

LEMMA FarSwallowStep ==
    ASSUME NetInv, FarSwallow
    PROVE  NetInv'
<1>1. /\ far = "cont" /\ dev # <<>> /\ Head(dev) # Ctrl
      /\ dev' = Tail(dev) /\ cap' = (cap \o Echo) \o More
      /\ UNCHANGED <<scriptVars, farVars>>
    BY DEF FarSwallow
<1>2. /\ dev' = <<>> /\ at # "rest"
      /\ at \in Asking => at = "up" \/ ~Found("END")
      /\ at = "up" => st # "send" /\ ~Found("UP")
      /\ at \in Asking => st # "send"
      /\ at = "sync" => st = "wait"
    BY <1>1, OnTheWay DEF NetInv, Asking
<1> USE DEF scriptVars, farVars
<1>3. cap \in Seq(Token)
    BY DEF NetInv, Honest, NetTyped
<1>4. /\ cap \o Echo \in Seq(Token) /\ (Measured(cap) => Measured(cap \o Echo))
      /\ \A k \in {"UP", "END"} : Has(cap \o Echo, k) <=> Has(cap, k)
    BY <1>3, CatFacts, Marks
<1>5. /\ cap' \in Seq(Token) /\ (Measured(cap) => Measured(cap'))
      /\ \A k \in {"UP", "END"} : Has(cap', k) <=> Has(cap, k)
    BY <1>1, <1>4, CatFacts, Marks
<1>6. NetTyped'
    BY <1>1, <1>5 DEF NetInv, Honest, NetTyped
<1>7. Turns'
    <2>1. Ready /\ Ready' /\ Kind' = Kind
        BY <1>1, SameLine DEF Ready
    <2> QED BY <1>1, <1>2, <2>1 DEF NetInv, Honest, Turns, Asking
<1>8. Outs' /\ MarksAreLast' /\ ~lost'
    <2>1. \A k \in {"UP", "END"} : Found(k)' <=> Found(k)
        BY <1>5 DEF Found, Has
    <2> QED BY <1>1, <1>2, <2>1 DEF NetInv, Honest, Outs, MarksAreLast, Ready, Asking
<1>9. Named'
    <2>1. Ready' /\ (Measured(cap) => Measured(cap)') /\ far' # "say"
        BY <1>1, <1>5 DEF Ready, Measured
    <2> QED BY <1>1, <2>1, SameNames DEF NetInv, Named
<1> QED BY <1>6, <1>7, <1>8, <1>9 DEF NetInv, Honest

\* Only link_up's own line, or a resync's bare one, is lost.
LEMMA FarBusyStep ==
    ASSUME NetInv, FarBusy
    PROVE  NetInv'
<1>1. ~Ready /\ dev # <<>> /\ Head(dev) # Ctrl /\ dev' = Tail(dev)
    BY DEF FarBusy, Deaf, Waits, Ready
<1>2. /\ dev' = <<>> /\ Head(dev).k \in {"up", ""}
      /\ \/ at = "up" /\ st # "send" /\ Old /\ ~Found("UP")
         \/ at = "sync" /\ st = "wait" /\ Old /\ back # "build"
    BY <1>1, OnTheWay DEF NetInv
<1>3. UNCHANGED <<cap, scriptVars, far, cmd, out, a, h, p, req, c1, q, b, dialled, lost>>
    <2>1. lost = FALSE /\ lost' = (lost \/ Head(dev).k \notin {"up", ""})
        BY DEF FarBusy, NetInv, Honest, NetTyped
    <2>2. lost' = lost
        BY <1>2, <2>1, Zenon
    <2> QED BY <2>2 DEF FarBusy
<1> USE DEF scriptVars
<1>4. NetTyped'
    BY <1>3 DEF NetInv, Honest, NetTyped
<1>5. Turns'
    BY <1>2, <1>3 DEF NetInv, Honest, Turns, Ready, Old, Asking
<1>6. Outs' /\ MarksAreLast' /\ ~lost'
    <2>1. \A k : Found(k)' <=> Found(k)
        BY <1>3 DEF Found
    <2> QED BY <1>2, <1>3, <2>1 DEF NetInv, Honest, Outs, MarksAreLast, Asking
<1>7. Named'
    <2>1. at # "va" /\ (Ready' <=> Ready)
        BY <1>2, <1>3 DEF Ready
    <2> QED BY <1>3, <2>1, SameNames DEF NetInv, Named
<1> QED BY <1>4, <1>5, <1>6, <1>7 DEF NetInv, Honest

LEMMA FarTakeStep ==
    ASSUME NetInv, FarTake
    PROVE  NetInv'
<1> DEFINE k == Head(dev).k
<1>1. PICK fate \in Hits(k) :
        /\ dev' = Tail(dev)
        /\ IF fate = "bracket"
           THEN far' = "cont" /\ cap' = cap \o Echo \o More /\ UNCHANGED cmd
           ELSE far' = "busy" /\ cap' = cap \o Echo
                /\ cmd' = [k |-> k, s |-> Head(dev).s, d |-> fate]
    BY DEF FarTake
<1>2. /\ far = "idle" /\ dev # <<>> /\ Head(dev) # Ctrl
      /\ UNCHANGED <<scriptVars, out, a, h, p, req, c1, q, b, dialled, lost>>
    BY DEF FarTake
<1>3. /\ dev' = <<>>
      /\ \/ at = "up" /\ st # "send" /\ ~Found("UP") /\ Head(dev) = LineOf(Kind)
         \/ at \in Asking \ {"up"} /\ st = "wait" /\ ~Found("END") /\ Head(dev) = LineOf(Kind)
         \/ at = "sync" /\ st = "wait" /\ Head(dev) = Bare
    BY <1>1, <1>2, OnTheWay DEF NetInv
<1>4. /\ k \in Kinds /\ Head(dev).s \in Str /\ Sent(Head(dev).s)
      /\ at \in Asking => k = Kind
      /\ at = "sync" => k = ""
      /\ k = "exec" => at = "exec"
    <2>1. CASE at \in Asking
        <3>1. Head(dev) = LineOf(Kind) /\ at # "sync"
            BY <1>3, <2>1 DEF Asking
        <3>2. k = Kind /\ (Kind = "exec" => at = "exec")
            BY <2>1, <3>1, KindIs DEF NetInv, Honest, Asking
        <3> QED BY <2>1, <3>1, <3>2, KindIs DEF NetInv, Honest
    <2>2. CASE at = "sync" /\ Head(dev) = Bare
        <3>1. NoStr \in Str /\ Sent(NoStr) /\ "" \in Kinds /\ "sync" \notin Asking
            BY DEF NoStr, Str, Sent, Kinds, Asking
        <3>2. k = "" /\ Head(dev).s = NoStr
            <4>1. Bare.k = "" /\ Bare.s = NoStr
                BY DEF Bare
            <4> QED BY <2>2, <4>1
        <3> QED BY <2>2, <3>1, <3>2
    <2> QED BY <1>3, <2>1, <2>2 DEF Asking
<1>5. fate \in Fates /\ (k = "" => fate # "bracket")
    BY HitIs
<1> HIDE DEF k
<1> USE DEF scriptVars
<1>6. cap \in Seq(Token)
    BY DEF NetInv, Honest, NetTyped
<1>7. /\ cap \o Echo \in Seq(Token) /\ cap \o Echo # <<>> /\ Last(cap \o Echo).t = "echo"
      /\ \A m \in {"UP", "END"} : Has(cap \o Echo, m) <=> Has(cap, m)
      /\ Measured(cap) => Measured(cap \o Echo)
    BY <1>6, CatFacts, Marks
<1>8. /\ cap' \in Seq(Token) /\ (\A m \in {"UP", "END"} : Has(cap', m) <=> Has(cap, m))
      /\ Measured(cap) => Measured(cap')
      /\ fate # "bracket" => cap' # <<>> /\ Last(cap').t = "echo"
    <2>1. CASE fate = "bracket"
        <3>1. cap' = (cap \o Echo) \o More
            BY <1>1, <2>1
        <3> QED BY <1>7, <2>1, <3>1, CatFacts, Marks
    <2>2. CASE fate # "bracket"
        BY <1>1, <1>7, <2>2
    <2> QED BY <2>1, <2>2
<1>9. /\ cmd' \in [k: Kinds, s: Str, d: Fates] /\ Sent(cmd'.s) /\ far' \in {"cont", "busy"}
      /\ far' = "cont" \/ cmd'.k = k
    <2>1. cmd \in [k: Kinds, s: Str, d: Fates] /\ Sent(cmd.s)
        BY DEF NetInv, Honest, NetTyped, Named
    <2>2. CASE fate = "bracket"
        BY <1>1, <2>1, <2>2
    <2>3. CASE fate # "bracket"
        <3>1. cmd' = [k |-> k, s |-> Head(dev).s, d |-> fate] /\ far' = "busy"
            BY <1>1, <2>3
        <3>2. cmd' \in [k: Kinds, s: Str, d: Fates] /\ cmd'.s = Head(dev).s /\ cmd'.k = k
            BY <1>4, <1>5, <3>1
        <3> QED BY <1>4, <3>1, <3>2
    <2> QED BY <2>2, <2>3
<1>10. NetTyped'
    BY <1>2, <1>8, <1>9 DEF NetInv, Honest, NetTyped
<1>11. Turns'
    <2>1. Kind' = Kind
        BY <1>2, SameLine
    <2>2. CASE at \in Asking \ {"up"}
        <3>1. far' = "cont" \/ (cmd'.k = Kind' /\ cap' # <<>> /\ Last(cap').t # ">>")
            BY <1>1, <1>4, <1>8, <1>9, <2>1, <2>2
        <3> QED BY <1>2, <1>3, <2>2, <3>1 DEF Turns, Ready, Asking
    <2>3. CASE at = "up"
        <3>1. far' = "cont" \/ cmd'.k = "up"
            BY <1>4, <1>9, <2>3 DEF Kind, Asking
        <3> QED BY <1>2, <1>3, <2>3, <3>1 DEF Turns, Ready, Asking
    <2>4. CASE at = "sync"
        <3>1. cmd'.k = ""
            <4>1. k = "" /\ fate # "bracket"
                BY <1>4, <1>5, <2>4
            <4>2. cmd' = [k |-> k, s |-> Head(dev).s, d |-> fate]
                BY <1>1, <4>1
            <4> QED BY <4>1, <4>2
        <3> QED BY <1>2, <1>3, <2>4, <3>1 DEF NetInv, Honest, Turns, Ready, Asking
    <2> QED BY <1>3, <2>2, <2>3, <2>4
<1>12. Outs' /\ MarksAreLast' /\ ~lost'
    <2>1. \A m \in {"UP", "END"} : Found(m)' <=> Found(m)
        BY <1>8 DEF Found, Has
    <2> QED BY <1>2, <1>3, <1>9, <2>1 DEF NetInv, Honest, Outs, MarksAreLast, Asking
<1>13. Named'
    <2>1. (Measured(cap) => Measured(cap)') /\ far' # "say"
        BY <1>2, <1>8, <1>9 DEF Measured
    <2>2. Known(a)' /\ DialsWhatWasAsked' /\ Sent(cmd.s)'
        BY <1>2, <1>9 DEF NetInv, Named, Known, Sent, DialsWhatWasAsked, Apart
    <2>3. far' # "cont" /\ cmd'.k = "exec" => at = "exec"
        BY <1>4, <1>9
    <2> QED BY <1>2, <1>3, <2>1, <2>2, <2>3 DEF NetInv, Named, Ready
<1> QED BY <1>10, <1>11, <1>12, <1>13 DEF NetInv, Honest

\* A length that reads as another one is no shorter.
LEMMA EndsIsLonger ==
    ASSUME NEW len \in Int, NEW w \in Nat, Ends(len, w)
    PROVE  len >= w
<1>1. PICK t \in Powers, k \in 0 .. len : w < t /\ len = w + k * t
    BY DEF Ends
<1>2. t \in Nat /\ k \in Nat
    BY <1>1 DEF Powers
<1>3. k * t \in Nat
    <2>1. \A x, y \in Nat : x * y \in Nat
        OBVIOUS
    <2> QED BY <1>2, <2>1
<1> QED BY <1>1, <1>3

\* A name with a length that reads as this get's is this get's, where no other can
\* have one.
LEMMA DialIs ==
    ASSUME NetTyped, get # 0, Known(a), Ends(a.len, Lens[get]), Apart
    PROVE  a.id = get
<1>1. /\ get \in Nat /\ get \in DOMAIN Lens /\ Lens[get] \in Nat /\ Lens[get] > 0
      /\ a.len \in Int
    <2>1. Len(Lens) \in Nat /\ DOMAIN Lens = 1 .. Len(Lens) /\ \A i \in 1 .. Len(Lens) : Lens[i] \in Nat \ {0}
        BY LensAssumption
    <2>2. get \in 1 .. Len(Lens)
        BY <2>1 DEF NetTyped
    <2>3. Lens[get] \in Nat \ {0}
        BY <2>1, <2>2
    <2> QED BY <2>1, <2>2, <2>3, StrIs DEF NetTyped
<1>2. a.len >= Lens[get]
    BY <1>1, EndsIsLonger
<1>3. a # NoStr /\ ~(a.len < 0)
    <2>1. NoStr.len = 0
        BY DEF NoStr
    <2> QED BY <1>1, <1>2, <2>1
<1>4. CASE a.id \in 1 .. get /\ a.len = Lens[a.id]
    BY <1>4 DEF Apart
<1>5. CASE \E m \in 1 .. get : a.len = Lens[m] - 1
    BY <1>5 DEF Apart
<1> QED BY <1>3, <1>4, <1>5 DEF Known, Sent

LEMMA FarRunStep ==
    ASSUME NetInv, FarRun
    PROVE  NetInv'
<1>1. /\ far = "busy" /\ far' = "say" /\ dev = <<>> /\ Executes
      /\ UNCHANGED <<dev, cap, scriptVars, cmd, lost>>
    BY DEF FarRun
<1>2. /\ ~Ready /\ ~Ready'
      /\ cmd.k = "a" => at = "a"
      /\ at = "va" => cmd.k = "va"
      /\ cmd.k = "exec" => at \in {"rest", "sync", "up", "exec"}
      /\ Found("END") => at \in {"rest", "sync", "up"}
      /\ at = "up" /\ st # "send" => ~Found("UP")
    <2>1. ~Ready /\ ~Ready'
        BY <1>1 DEF Ready
    <2> QED BY <2>1, AtWork DEF NetInv
<1>3. NetTyped /\ Honest
    BY DEF NetInv, Honest
<1> USE DEF scriptVars
<1>4. NetTyped'
    BY <1>1, <1>3, Variables DEF NetTyped
<1>5. Outs'
    BY <1>1, <1>3, Said DEF Outs
<1>6. Turns'
    <2>1. Kind' = Kind /\ (Old' <=> Old)
        BY <1>1, SameLine DEF Old
    <2> QED BY <1>1, <1>2, <1>3, <2>1 DEF Honest, Turns
<1>7. MarksAreLast' /\ ~lost'
    <2>1. \A k : Found(k)' <=> Found(k)
        BY <1>1 DEF Found
    <2> QED BY <1>1, <1>2, <1>3, <2>1 DEF Honest, MarksAreLast
<1>8. Named'
    <2>1. cmd.k # "a" => a' = a
        BY <1>3, <1>1, Variables
    <2>2. Known(a)' /\ Sent(cmd.s)'
        BY <1>1, <1>3, Variables DEF NetInv, Named, Sent
    <2>3. at = "va" => Measured(cap)' /\ \A m \in DOMAIN out' : Measured(out[m])'
        <3> HAVE at = "va"
        <3>1. st # "send"
            BY <1>2, <1>3, AtWork DEF Asking
        <3>2. \A s : Measured(s)' <=> Measured(s)
            BY <1>2, <2>1 DEF Measured
        <3> QED BY <1>1, <1>2, <1>3, <3>1, <3>2, Said DEF NetInv, Named
    <2>4. at \in {"p", "build", "exec"} \/ (at = "sync" /\ back = "build") => Ends(a'.len, Lens[get])
        BY <1>2, <2>1 DEF NetInv, Named
    <2>5. cmd.k = "exec" /\ cmd.s.id = get => Ends(a'.len, Lens[get])
        BY <1>2, <2>1 DEF NetInv, Named
    <2>6. DialsWhatWasAsked'
        <3>1. Apart' = Apart
            BY <1>1 DEF Apart
        <3>2. CASE dialled' = dialled
            BY <1>1, <3>1, <3>2 DEF NetInv, Named, DialsWhatWasAsked
        <3>3. CASE dialled' # dialled
            <4>1. cmd.k = "exec" /\ cmd.s.id = get /\ dialled' = dialled \cup {a.id}
                BY <1>1, <1>3, <3>3, Variables
            <4>2. Known(a) /\ Ends(a.len, Lens[get])
                BY <1>2, <4>1 DEF NetInv, Named
            <4>3. CASE get = 0
                <5>1. a.id = get
                    <6>1. NoStr.id = 0
                        BY DEF NoStr
                    <6> QED BY <4>2, <4>3, <6>1 DEF Known, Sent
                <5> QED BY <1>1, <3>1, <4>1, <5>1 DEF NetInv, Named, DialsWhatWasAsked
            <4>4. CASE get # 0
                <5>1. Apart => a.id = get
                    BY <1>3, <4>2, <4>4, DialIs
                <5> QED BY <1>1, <3>1, <4>1, <5>1 DEF NetInv, Named, DialsWhatWasAsked
            <4> QED BY <4>3, <4>4
        <3> QED BY <3>2, <3>3
    <2> QED BY <1>1, <2>2, <2>3, <2>4, <2>5, <2>6 DEF NetInv, Named
<1> QED BY <1>4, <1>5, <1>6, <1>7, <1>8 DEF NetInv, Honest

LEMMA FarSayStep ==
    ASSUME NetInv, FarSay
    PROVE  NetInv'
<1>1. /\ far = "say"
      /\ UNCHANGED <<dev, scriptVars, cmd, a, h, p, req, c1, q, b, dialled, lost>>
    BY DEF FarSay
<1>2. /\ out \in Seq(Seq(Token)) /\ Len(out) \in 1 .. 3
      /\ Len(out) = 3 => cmd.k = "exec" /\ out[1] \in {<<>>, Says(Mark("CN"))}
      /\ cmd.k # "exec" => \A m \in DOMAIN out : ~Has(out[m], "END")
      /\ cmd.k # "up" => \A m \in DOMAIN out : ~Has(out[m], "UP")
      /\ cap \in Seq(Token) /\ Honest /\ ~Ready
    BY <1>1 DEF NetInv, Honest, NetTyped, Outs, Ready
<1>3. /\ at \in Asking \ {"up"} => st # "send" /\ dev = <<>> /\ cmd.k = Kind
      /\ at \in Asking \ {"up"} /\ st = "wait" => cap # <<>> /\ Last(cap).t # ">>"
      /\ at \in Asking \ {"up"} /\ st = "expect" => at = "exec"
      /\ Has(cap, "END") => at \in {"rest", "sync", "up"}
      /\ at = "up" /\ st # "send" => ~Has(cap, "UP")
      /\ cmd.k = "exec" => at \in {"rest", "sync", "up", "exec"}
      /\ cmd.k = "up" => at = "up" /\ st # "send" /\ dev = <<>>
      /\ at = "sync" => (Old /\ back # "build") \/ (cmd.k = "" /\ dev = <<>>)
      /\ at \in {"rest", "up"} => Old \/ (at = "up" /\ st # "send" /\ cmd.k = "up" /\ dev = <<>>)
    BY <1>2, AtWork, FoundIs
<1>9. at = "va" => Measured(cap) /\ \A m \in DOMAIN out : Measured(out[m])
    <2>1. at = "va" => st # "send"
        BY <1>3 DEF Asking
    <2> QED BY <1>1, <2>1 DEF NetInv, Named
<1> USE DEF scriptVars
<1>4. /\ Head(out) = out[1] /\ out[1] \in Seq(Token) /\ 1 \in DOMAIN out
      /\ Len(out) = 2 => out[2] \in Seq(Token) /\ 2 \in DOMAIN out
    BY <1>2
<1>5. Kind' = Kind /\ (Old' <=> Old) /\ \A k : LineOf(k)' = LineOf(k)
    BY <1>1, SameLine, SameLines DEF Old
<1>6. CASE Len(out) <= 2
    <2> DEFINE one == Burst(out[1])
               two == IF Len(out) = 2 THEN Burst(out[2]) ELSE <<>>
    <2>1. far' = "idle" /\ cap' = (cap \o one) \o two
        BY <1>4, <1>6 DEF FarSay
    <2>2. /\ one \in Seq(Token) /\ two \in Seq(Token)
          /\ cmd.k # "exec" => ~Has(one, "END") /\ ~Has(two, "END")
          /\ at = "va" => Measured(one) /\ Measured(two)
        BY <1>2, <1>4, <1>9, BurstFacts, Marks
    <2> HIDE DEF one, two
    <2>3. /\ cap \o one \in Seq(Token)
          /\ at \notin {"rest", "sync", "up", "exec"} => ~Has(cap \o one, "END")
          /\ at = "va" => Measured(cap \o one)
        BY <1>2, <1>3, <1>9, <2>2, CatFacts
    <2>4. /\ cap' \in Seq(Token)
          /\ at \notin {"rest", "sync", "up", "exec"} => ~Has(cap', "END")
          /\ at = "va" => Measured(cap')
        BY <1>3, <2>1, <2>2, <2>3, CatFacts
    <2>5. NetTyped'
        BY <1>1, <1>2, <2>1, <2>4 DEF Honest, NetTyped
    <2>6. Outs' /\ Turns' /\ ~lost'
        <3>1. Ready'
            BY <2>1 DEF Ready
        <3> QED BY <1>1, <1>2, <1>3, <1>5, <2>1, <3>1 DEF Honest, Outs, Turns
    <2>7. MarksAreLast'
        <3>1. at \notin {"rest", "sync", "up", "exec"} => ~Found("END")'
            BY <2>4 DEF Found, Has
        <3>2. at = "up" /\ st # "send" /\ dev # <<>> => ~Has(cap', "UP")
            <4> HAVE at = "up" /\ st # "send" /\ dev # <<>>
            <4>1. cmd.k # "up" /\ ~Has(cap, "UP")
                BY <1>3
            <4>2. ~Has(one, "UP") /\ ~Has(two, "UP")
                BY <1>2, <1>4, <4>1, BurstFacts, Marks DEF one, two
            <4>3. ~Has(cap \o one, "UP")
                BY <1>2, <2>2, <4>1, <4>2, CatFacts
            <4> QED BY <2>1, <2>2, <2>3, <4>2, <4>3, CatFacts
        <3>3. at = "up" /\ st # "send" /\ dev # <<>> => ~Found("UP")'
            BY <3>2 DEF Found, Has
        <3>4. Ready'
            BY <2>1 DEF Ready
        <3> QED BY <1>1, <1>2, <1>3, <3>1, <3>3, <3>4 DEF MarksAreLast, Asking
    <2>8. Named'
        <3>1. Ready' /\ far' # "say" /\ (at = "va" => Measured(cap)')
            BY <1>1, <2>1, <2>4 DEF Ready, Measured
        <3> QED BY <1>1, <3>1, SameNames DEF NetInv, Named
    <2> QED BY <2>5, <2>6, <2>7, <2>8 DEF NetInv, Honest
<1>7. CASE Len(out) = 3
    <2> DEFINE one == Burst(out[1])
    <2>1. far' = "say" /\ out' = Tail(out) /\ cap' = cap \o one
        <3>1. cap' = (cap \o one) \o <<>> /\ far' = "say" /\ out' = Tail(out)
            BY <1>4, <1>7 DEF FarSay
        <3>2. one \in Seq(Token)
            BY <1>4, BurstFacts
        <3> HIDE DEF one
        <3>3. cap \o one \in Seq(Token)
            BY <1>2, <3>2, CatFacts
        <3> QED BY <3>1, <3>3, ConcatEmptySeq
    <2>2. /\ one \in Seq(Token) /\ (\A k \in {"UP", "END"} : ~Has(one, k))
          /\ one = <<>> \/ Last(one).t # ">>"
          /\ at = "va" => Measured(one)
        <3>1. /\ one \in Seq(Token) /\ (\A k \in {"UP", "END"} : ~Has(one, k))
              /\ at = "va" => Measured(one)
            BY <1>2, <1>4, <1>7, <1>9, BurstFacts, Marks
        <3>2. CASE out[1] = <<>>
            BY <3>1, <3>2 DEF Burst
        <3>3. CASE out[1] = Says(Mark("CN"))
            <4>1. one = <<Mark("CN")>>
                BY <3>3 DEF Burst, Says, Mark, Tok
            <4> QED BY <3>1, <4>1 DEF Last, Mark, Tok
        <3> QED BY <1>2, <1>7, <3>1, <3>2, <3>3
    <2> HIDE DEF one
    <2>3. /\ cap' \in Seq(Token) /\ (\A k \in {"UP", "END"} : Has(cap', k) => Has(cap, k))
          /\ at = "va" => Measured(cap')
          /\ cap # <<>> /\ Last(cap).t # ">>" => cap' # <<>> /\ Last(cap').t # ">>"
        <3>1. CASE one = <<>>
            <4>1. cap' = cap
                BY <1>2, <2>1, <3>1, ConcatEmptySeq
            <4> QED BY <1>2, <1>9, <4>1
        <3>2. CASE one # <<>>
            BY <1>2, <1>9, <2>1, <2>2, <3>2, CatFacts
        <3> QED BY <1>9, <3>1, <3>2
    <2>4. /\ out' \in Seq(Seq(Token)) /\ Len(out') = 2
          /\ \A m \in DOMAIN out' : m + 1 \in DOMAIN out /\ out'[m] = out[m + 1]
        <3>1. /\ Tail(out) \in Seq(Seq(Token)) /\ Len(Tail(out)) = Len(out) - 1
              /\ \A m \in 1 .. Len(out) - 1 : Tail(out)[m] = out[m + 1]
            <4>1. out \in Seq(Seq(Token))
                BY <1>2
            <4>2. out # <<>>
                BY <1>7
            <4> QED BY <4>1, <4>2, HeadTailProperties
        <3>2. DOMAIN out = 1 .. Len(out) /\ DOMAIN Tail(out) = 1 .. Len(Tail(out))
            BY <1>2, <3>1
        <3>3. Len(out') = 2
            BY <1>7, <2>1, <3>1
        <3>4. DOMAIN out = 1 .. 3 /\ DOMAIN out' = 1 .. 2
            BY <1>7, <2>1, <3>2, <3>3
        <3>5. out' = Tail(out)
            BY <1>7, <2>1
        <3>6. \A m \in 1 .. 2 : m + 1 \in 1 .. 3 /\ m \in 1 .. Len(out) - 1
            <4>1. Len(out) - 1 = 2
                BY <3>1, <3>3, <3>5
            <4>2. \A m \in 1 .. 2 : m + 1 \in 1 .. 3
                OBVIOUS
            <4> QED BY <4>1, <4>2
        <3> QED BY <3>1, <3>3, <3>4, <3>5, <3>6
    <2>5. NetTyped'
        BY <1>1, <1>2, <2>1, <2>3 DEF Honest, NetTyped
    <2>6. Outs' /\ ~lost'
        <3>1. /\ cmd.k = "exec" /\ \A m \in DOMAIN out : ~Has(out[m], "UP")
            BY <1>2, <1>7
        <3> QED BY <1>1, <1>2, <2>4, <3>1 DEF Honest, Outs
    <2>7. Turns'
        <3>1. cmd.k = "exec" /\ Old /\ ~Ready'
            BY <1>2, <1>7, <2>1 DEF Old, Ready
        <3> QED BY <1>1, <1>2, <1>3, <1>5, <2>1, <2>3, <3>1 DEF Honest, Turns
    <2>8. MarksAreLast'
        <3>1. cmd.k = "exec"
            BY <1>2, <1>7
        <3>2. \A k \in {"UP", "END"} : Found(k)' => Has(cap, k)
            BY <2>3 DEF Found, Has
        <3> QED BY <1>1, <1>3, <3>1, <3>2 DEF MarksAreLast
    <2>9. Named'
        <3>1. ~Ready /\ (at = "va" => Measured(cap)' /\ \A m \in DOMAIN out' : Measured(out[m])')
            BY <1>1, <1>2, <1>9, <2>3, <2>4 DEF Measured
        <3> QED BY <1>1, <3>1, SameNames DEF NetInv, Named
    <2> QED BY <2>5, <2>6, <2>7, <2>8, <2>9 DEF NetInv, Honest
<1>8. Len(out) <= 2 \/ Len(out) = 3
    <2>1. Len(out) \in 1 .. 3
        BY <1>2
    <2> QED BY <2>1
<1> QED BY <1>6, <1>7, <1>8
-----------------------------------------------------------------------------
(* The script's steps *)

\* A prompt at the end of the new output is the answer's own.
LEMMA NewIs ==
    ASSUME NetTyped
    PROVE  /\ b0 = Len(cap) => New = <<>>
           /\ New # <<>> => Last(New) = Last(cap)
<1>1. cap \in Seq(Token) /\ b0 \in Nat
    BY DEF NetTyped
<1>2. \A i \in b0 + 1 .. Len(cap) : cap[i] \in Token
    BY <1>1
<1>3. /\ New \in Seq(Token)
      /\ Len(New) = IF b0 + 1 <= Len(cap) THEN Len(cap) - (b0 + 1) + 1 ELSE 0
      /\ \A i \in 1 .. Len(cap) - (b0 + 1) + 1 : New[i] = cap[b0 + 1 + i - 1]
    BY <1>1, <1>2, SubSeqProperties DEF New
<1>4. b0 = Len(cap) => New = <<>>
    <2>1. b0 = Len(cap) => Len(New) = 0
        BY <1>1, <1>3
    <2> QED BY <1>3, <2>1
<1>5. ASSUME New # <<>> PROVE Last(New) = Last(cap)
    <2>1. Len(New) # 0
        BY <1>3, <1>5
    <2>2. Len(New) = Len(cap) - b0 /\ Len(New) \in 1 .. Len(cap) - (b0 + 1) + 1
        BY <1>1, <1>3, <2>1
    <2>3. New[Len(New)] = cap[b0 + 1 + Len(New) - 1]
        BY <1>3, <2>2
    <2>4. b0 + 1 + Len(New) - 1 = Len(cap)
        BY <1>1, <2>2
    <2> QED BY <2>3, <2>4 DEF Last
<1> QED BY <1>4, <1>5

LEMMA SendEnds ==
    ASSUME Honest, SendOk \/ SendFails
    PROVE  /\ at \in Asking /\ st = "wait"
           /\ at # "up" => dev = <<>> /\ (Ready \/ (at = "exec" /\ Old))
<1>1. at \in Asking /\ st = "wait"
    BY DEF SendOk, SendFails, Honest, Turns, NetTyped
<1>2. ASSUME at # "up" PROVE dev = <<>> /\ (Ready \/ (at = "exec" /\ Old))
    <2>1. CASE SendOk
        <3>1. New # <<>> /\ Last(New).t = ">>"
            BY <2>1 DEF SendOk, Prompted
        <3>2. b0 # Len(cap) /\ Last(cap).t = ">>"
            BY <3>1, NewIs DEF Honest
        <3> QED BY <1>1, <1>2, <3>2 DEF Honest, Turns
    <2>2. CASE SendFails /\ Settled
        BY <2>2 DEF Settled, Ready
    <2>3. CASE SendFails /\ Slow
        <3>1. ~Ready /\ Old /\ dev = <<>>
            BY <2>3 DEF Slow, Deaf, Waits, Ready, Old
        <3>2. cmd.k = Kind
            BY <1>1, <1>2, <3>1, AtWork
        <3>3. Kind # "user" /\ (Kind = "exec" => at = "exec")
            BY <1>1, KindIs DEF Honest, Asking
        <3> QED BY <3>1, <3>2, <3>3 DEF Old
    <2> QED BY <2>1, <2>2, <2>3 DEF SendFails, Deadline
<1> QED BY <1>1, <1>2

\* Nothing the script does touches what the far end has, but the line it sends.
LEMMA StaysTyped ==
    ASSUME NetTyped, UNCHANGED farVars,
           at' \in {"rest", "sync"} \cup Asking, st' \in {"send", "wait", "expect"},
           line' \in 1 .. 16, get' = get, at # "rest", cap' \in {cap, <<>>}, b0' \in Nat
    PROVE  NetTyped'
<1>1. cap' \in Seq(Token)
    BY Marks DEF NetTyped
<1> QED BY <1>1 DEF NetTyped, farVars

\* Where the script goes: on, to the answer, or to a resync.
GoesOn(where) ==
    /\ at' = where /\ st' = "send" /\ cap' = cap /\ dev' = dev
GoesToSee ==
    /\ at' = at /\ at \in {"va", "build", "exec"} /\ st' = "expect"
    /\ line' = line /\ cap' = cap /\ dev' = dev
GoesBack ==
    /\ at' = "sync" /\ st' = "send" /\ cap' = <<>> /\ dev' = Written(Ctrl)
    /\ back' \in {"rest", "up", "build"} /\ (back' = "build" => at = "build")

\* Each of the three keeps what must hold, from where the script is ready to go.
LEMMA GoKeeps ==
    ASSUME NetInv, at \in Asking, st # "send", dev = <<>>, UNCHANGED farVars,
           line' \in 1 .. 16, get' = get, b0' = b0,
           Ready \/ (at \in {"up", "exec"} /\ Old),
           \/ GoesToSee
           \/ GoesBack
           \/ \E w \in Asking \ {"exec", "up"} :
                /\ GoesOn(w) /\ at # "exec" /\ Ready /\ (at = "up" => w = "import")
                /\ at = "va" => w = "a"
                /\ w # "p" /\ (w = "build" => at \in {"p", "build"})
    PROVE  NetInv'
<1> USE DEF farVars
<1>1. Found("END") => at = "up" \/ (at = "exec" /\ Ready)
    BY DEF NetInv, Honest, MarksAreLast, Asking
<1>2. at # "rest" /\ at # "sync" /\ b0 \in Nat
    BY DEF Asking, NetInv, Honest, NetTyped
<1>6. /\ (Ready' <=> Ready) /\ (Old' <=> Old)
      /\ Known(a)' /\ Sent(cmd.s)' /\ DialsWhatWasAsked' /\ \A s : Measured(s) <=> Measured(s)'
      /\ cmd.k = "exec" /\ cmd.s.id = get /\ ~Ready => Ends(a.len, Lens[get])
    BY SameNames DEF Ready, Old, NetInv, Named
<1>3. CASE GoesToSee
    <2>1. NetTyped'
        BY <1>2, <1>3, StaysTyped DEF GoesToSee, NetInv, Honest
    <2>2. ~Ready => at = "exec" /\ cmd.k = "exec"
        <3>1. ~Ready => cmd.k = Kind
            BY <1>3, AtWork DEF NetInv, GoesToSee
        <3> QED BY <1>3, <3>1 DEF Kind, GoesToSee
    <2>3. Turns' /\ Outs' /\ MarksAreLast' /\ ~lost'
        BY <1>1, <1>2, <1>3, <1>6, <2>2 DEF GoesToSee, NetInv, Honest, Turns, Outs, MarksAreLast, Found,
           Asking
    <2>4. Named'
        <3>1. at = "va" => Measured(cap)' /\ (far = "say" => \A m \in DOMAIN out : Measured(out[m])')
            BY <1>3, <1>6 DEF GoesToSee, NetInv, Named, Measured
        <3> QED BY <1>2, <1>3, <1>6, <3>1 DEF GoesToSee, NetInv, Named
    <2> QED BY <2>1, <2>3, <2>4 DEF NetInv, Honest
<1>4. CASE GoesBack
    <2>1. NetTyped'
        BY <1>2, <1>4, StaysTyped DEF GoesBack, NetInv, Honest
    <2>2. dev' \in {<<>>, <<Ctrl>>}
        BY <1>4 DEF GoesBack, Written
    <2>3. Turns' /\ Outs' /\ MarksAreLast' /\ ~lost'
        BY <1>1, <1>2, <1>4, <1>6, <2>2 DEF GoesBack, NetInv, Honest, Turns, Outs, MarksAreLast, Found,
           Asking
    <2>4. Named'
        BY <1>2, <1>4, <1>6 DEF GoesBack, NetInv, Named
    <2> QED BY <2>1, <2>3, <2>4 DEF NetInv, Honest
<1>5. ASSUME NEW w \in Asking \ {"exec", "up"}, GoesOn(w), at # "exec", Ready, at = "up" => w = "import",
             at = "va" => w = "a", w # "p", w = "build" => at \in {"p", "build"}
      PROVE  NetInv'
    <2>1. NetTyped'
        BY <1>2, <1>5, StaysTyped DEF GoesOn, NetInv, Honest
    <2>2. (Found("END") => w = "import") /\ w # "rest" /\ w # "sync"
        BY <1>1, <1>5 DEF Asking
    <2>3. Turns' /\ Outs' /\ MarksAreLast' /\ ~lost'
        BY <1>2, <1>5, <1>6, <2>2 DEF GoesOn, NetInv, Honest, Turns, Outs, MarksAreLast, Found,
           Asking
    <2>4. Named'
        BY <1>2, <1>5, <1>6, <2>2 DEF GoesOn, NetInv, Named
    <2> QED BY <2>1, <2>3, <2>4 DEF NetInv, Honest
<1> QED BY <1>3, <1>4, <1>5

LEMMA RestKeeps ==
    ASSUME NetInv, at \in Asking, dev = <<>>, Ready \/ Old, UNCHANGED farVars,
           at' = "rest", st' = "send", UNCHANGED <<get, b0, back, line, cap, dev>>
    PROVE  NetInv'
<1> USE DEF farVars
<1>1. at # "rest" /\ b0 \in Nat /\ line \in 1 .. 16
    BY DEF Asking, NetInv, Honest, NetTyped
<1>2. NetTyped'
    BY <1>1, StaysTyped DEF NetInv, Honest
<1>3. Turns' /\ Outs' /\ MarksAreLast' /\ ~lost'
    BY DEF NetInv, Honest, Turns, Outs, MarksAreLast, Ready, Old, Asking
<1>4. Named'
    <2>1. Ready' <=> Ready
        BY DEF Ready
    <2> QED BY <2>1, SameNames DEF NetInv, Named
<1> QED BY <1>2, <1>3, <1>4 DEF NetInv, Honest

\* On to a place that needs the measured address.
LEMMA GoesOnMeasured ==
    ASSUME NetInv, at \in Asking, st # "send", dev = <<>>, Ready, ~Found("END"),
           UNCHANGED farVars, UNCHANGED <<line, get, b0>>,
           NEW w \in {"p", "exec"}, GoesOn(w), Ends(a.len, Lens[get])
    PROVE  NetInv'
<1> USE DEF farVars
<1>1. at # "rest" /\ w \in Asking /\ w # "rest" /\ w # "sync" /\ b0 \in Nat /\ line \in 1 .. 16
    BY DEF Asking, NetInv, Honest, NetTyped
<1>2. NetTyped'
    BY <1>1, StaysTyped DEF GoesOn, NetInv, Honest
<1>3. Turns' /\ Outs' /\ MarksAreLast' /\ ~lost'
    BY <1>1 DEF GoesOn, NetInv, Honest, Turns, Outs, MarksAreLast, Ready, Found, Asking
<1>4. Named'
    BY <1>1, SameNames DEF GoesOn, NetInv, Named
<1> QED BY <1>2, <1>3, <1>4 DEF NetInv, Honest

\* link_up looks for its answer, whatever the far end is at.
LEMMA UpLooks ==
    ASSUME NetInv, at = "up", st = "wait", UNCHANGED farVars,
           at' = at, st' = "expect", UNCHANGED <<line, get, b0, cap, dev, back>>
    PROVE  NetInv'
<1> USE DEF farVars
<1>1. NetTyped'
    BY DEF NetInv, Honest, NetTyped
<1>2. (Ready' <=> Ready) /\ (Old' <=> Old) /\ \A k : LineOf(k)' = LineOf(k)
    BY SameLines DEF Ready, Old
<1>3. Turns' /\ Outs' /\ MarksAreLast' /\ ~lost'
    BY <1>2 DEF NetInv, Honest, Turns, Outs, MarksAreLast, Found, Asking
<1>4. Named'
    BY <1>2, SameNames DEF NetInv, Named
<1> QED BY <1>1, <1>3, <1>4 DEF NetInv, Honest

LEMMA SendStep ==
    ASSUME NetInv, SendOk \/ SendFails
    PROVE  NetInv'
<1>1. /\ at \in Asking /\ st = "wait"
      /\ at # "up" => dev = <<>> /\ (Ready \/ (at = "exec" /\ Old))
    BY SendEnds DEF NetInv
<1>2. PICK ok \in BOOLEAN : After(ok) /\ UNCHANGED farVars
    BY DEF SendOk, SendFails
<1>3. line \in 1 .. 16 /\ 1 \in 1 .. 16
    BY DEF NetInv, Honest, NetTyped
<1>9. CASE at = "up"
    <2>1. at' = at /\ st' = "expect" /\ UNCHANGED <<line, get, b0, cap, dev, back>>
        BY <1>2, <1>9 DEF After, Goto, Stay
    <2> QED BY <1>1, <1>2, <1>9, <2>1, UpLooks
<1>4. CASE at = "va"
    <2>1. GoesToSee /\ line' \in 1 .. 16 /\ get' = get /\ b0' = b0
        BY <1>2, <1>3, <1>4 DEF After, Goto, Stay, GoesToSee
    <2> QED BY <1>1, <1>2, <1>4, <2>1, GoKeeps
<1>5. CASE at \in {"a", "h"}
    <2>1. /\ \E w \in {"h", "va"} : GoesOn(w)
          /\ line' \in 1 .. 16 /\ get' = get /\ b0' = b0
        BY <1>2, <1>3, <1>5 DEF After, Goto, Stay, GoesOn
    <2> QED BY <1>1, <1>2, <1>5, <2>1, GoKeeps DEF Asking
<1>6. CASE at \in {"import", "p"}
    <2>1. /\ GoesBack \/ (at = "import" /\ GoesOn("a")) \/ (at = "p" /\ GoesOn("build"))
          /\ line' \in 1 .. 16 /\ get' = get /\ b0' = b0
        BY <1>2, <1>3, <1>6 DEF After, Goto, Stay, Resync, GoesOn, GoesBack
    <2> QED BY <1>1, <1>2, <1>6, <2>1, GoKeeps DEF Asking
<1>7. CASE at = "build"
    <2>1. /\ get' = get /\ b0' = b0
          /\ \/ GoesBack /\ line' = 1
             \/ GoesToSee /\ line' = line
             \/ Kind # "pg" /\ GoesOn("build") /\ line' = line + 1
        BY <1>2, <1>7 DEF After, Goto, Stay, Resync, Rebuild, GoesOn, GoesBack, GoesToSee
    <2>2. Kind # "pg" => line + 1 \in 1 .. 16
        <3>1. Kind # "pg" => line # 16
            BY <1>7, BuildIs DEF Kind
        <3> QED BY <1>3, <3>1
    <2>3. line' \in 1 .. 16
        BY <1>3, <2>1, <2>2
    <2> QED BY <1>1, <1>2, <1>7, <2>1, <2>3, GoKeeps DEF Asking
<1>8. CASE at = "exec"
    <2>1. /\ GoesBack \/ GoesToSee
          /\ line' \in 1 .. 16 /\ get' = get /\ b0' = b0
        BY <1>2, <1>3, <1>8 DEF After, Goto, Stay, Resync, GoesBack, GoesToSee
    <2> QED BY <1>1, <1>2, <1>8, <2>1, GoKeeps
<1> QED BY <1>1, <1>4, <1>5, <1>6, <1>7, <1>8, <1>9 DEF Asking

LEMMA ExpectUpStep ==
    ASSUME NetInv, ExpectUp
    PROVE  NetInv'
<1>1. at = "up" /\ at \in Asking /\ st = "expect" /\ UNCHANGED farVars
    BY DEF ExpectUp, Asking
<1>2. line \in 1 .. 16
    BY DEF NetInv, Honest, NetTyped
<1>3. dev = <<>> /\ (Ready \/ Old) /\ (Found("UP") => Ready)
    <2>1. CASE Found("UP")
        BY <1>1, <2>1 DEF NetInv, Honest, MarksAreLast
    <2>2. CASE Deadline
        <3>1. dev = <<>> /\ (Ready \/ Old)
            BY <2>2 DEF Deadline, Settled, Slow, Ready, Old
        <3>2. Found("UP") => Ready
            BY <1>1, AtWork DEF NetInv
        <3> QED BY <3>1, <3>2
    <2> QED BY <2>1, <2>2 DEF ExpectUp
<1>4. /\ get' = get /\ b0' = b0 /\ line' = line
      /\ \/ Found("UP") /\ GoesOn("import")
         \/ GoesBack
         \/ at' = "rest" /\ st' = "send" /\ UNCHANGED <<back, cap, dev>>
    BY <1>1 DEF ExpectUp, Goto, Stay, Return, Resync, GoesOn, GoesBack
<1> QED BY <1>1, <1>2, <1>3, <1>4, GoKeeps, RestKeeps DEF Asking

LEMMA ExpectVaStep ==
    ASSUME NetInv, ExpectVa
    PROVE  NetInv'
<1>1. at = "va" /\ at \in Asking /\ st = "expect" /\ dev = <<>> /\ Ready /\ UNCHANGED farVars
    BY DEF ExpectVa, NetInv, Honest, Turns, Asking
<1>2. line \in 1 .. 16 /\ ~Found("END")
    BY <1>1 DEF NetInv, Honest, NetTyped, MarksAreLast
<1>3. /\ get' = get /\ b0' = b0 /\ line' = line
      /\ \/ GoesOn("a")
         \/ LengthsMatch /\ GoesOn("p")
         \/ at' = "rest" /\ st' = "send" /\ UNCHANGED <<back, cap, dev>>
    BY <1>1 DEF ExpectVa, Goto, Stay, Return, GoesOn
<1>4. LengthsMatch => Ends(a.len, Lens[get])
    <2>1. Measured(cap)
        BY <1>1 DEF NetInv, Named
    <2> QED BY <2>1 DEF Measured, LengthsMatch, Asked
<1> QED BY <1>1, <1>2, <1>3, <1>4, GoKeeps, RestKeeps, GoesOnMeasured DEF Asking

LEMMA ExpectPgStep ==
    ASSUME NetInv, ExpectPg
    PROVE  NetInv'
<1>1. at = "build" /\ at \in Asking /\ st = "expect" /\ dev = <<>> /\ Ready /\ UNCHANGED farVars
    BY DEF ExpectPg, NetInv, Honest, Turns, Asking
<1>2. line \in 1 .. 16 /\ 1 \in 1 .. 16 /\ ~Found("END") /\ Ends(a.len, Lens[get])
    BY <1>1 DEF NetInv, Honest, NetTyped, MarksAreLast, Named
<1>3. /\ get' = get /\ b0' = b0
      /\ (GoesBack /\ line' = 1) \/ (GoesOn("exec") /\ line' = line)
    BY <1>1 DEF ExpectPg, Rebuild, Resync, Goto, Stay, GoesOn, GoesBack
<1> QED BY <1>1, <1>2, <1>3, GoKeeps, GoesOnMeasured

LEMMA ExpectEndStep ==
    ASSUME NetInv, ExpectEnd
    PROVE  NetInv'
<1>1. /\ at = "exec" /\ at \in Asking /\ st = "expect" /\ dev = <<>> /\ UNCHANGED farVars
      /\ Ready \/ (at = "exec" /\ Old)
      /\ Found("END") => Ready
    BY DEF ExpectEnd, NetInv, Honest, Turns, MarksAreLast, Asking, Old
<1>2. line \in 1 .. 16
    BY DEF NetInv, Honest, NetTyped
<1>3. /\ get' = get /\ b0' = b0 /\ line' = line
      /\ \/ GoesBack
         \/ Ready /\ at' = "rest" /\ st' = "send" /\ UNCHANGED <<back, cap, dev>>
    BY <1>1 DEF ExpectEnd, Goto, Resync, GoesBack
<1> QED BY <1>1, <1>2, <1>3, GoKeeps, RestKeeps

LEMMA NoReq ==
    [st |-> "none", of |-> <<0, 0>>, len |-> 0] \in [st: {"none", "str", "bytes"}, of: Nat \X Nat, len: Int]
<1>1. \A o \in Nat \X Nat, l \in Int :
        [st |-> "none", of |-> o, len |-> l] \in [st: {"none", "str", "bytes"}, of: Nat \X Nat, len: Int]
    OBVIOUS
<1> QED BY <1>1

\* A get starts whatever the far end is at, or after it has been started over.
LEMMA StartGetStep ==
    ASSUME NetInv, StartGet
    PROVE  NetInv'
<1>1. /\ at = "rest" /\ st = "send" /\ dev = <<>> /\ (Ready \/ Old)
      /\ get \in Nat /\ get < Len(Lens) /\ Len(Lens) \in Nat
    BY LensAssumption DEF StartGet, NetInv, Honest, NetTyped, Turns
<1>2. /\ at' = "up" /\ st' = "send" /\ get' = get + 1 /\ line' = 1 /\ dialled' = {} /\ b0' = 0
      /\ lost' = lost
    BY DEF StartGet, Goto
<1>3. get' \in 0 .. Len(Lens) /\ get' # 0 /\ 1 \in 1 .. 16
    BY <1>1, <1>2
<1>4. \A s \in Str : /\ Sent(s) => Sent(s)' /\ s.id # get'
                     /\ Known(s) => Known(s)'
    <2> TAKE s \in Str
    <2>1. 1 .. get \subseteq 1 .. get' /\ get' \notin 1 .. get /\ get' # 0 /\ NoStr.id = 0
        BY <1>1, <1>2 DEF NoStr
    <2>2. Sent(s) => Sent(s)' /\ s.id # get'
        BY <2>1 DEF Sent
    <2> QED BY <2>1, <2>2 DEF Known
<1>5. DialsWhatWasAsked'
    BY <1>2 DEF DialsWhatWasAsked
<1>6. CASE AsLeft
    <2>1. NetTyped'
        BY <1>2, <1>3, <1>6 DEF NetInv, Honest, NetTyped, Asking, AsLeft
    <2>2. Turns' /\ Outs' /\ MarksAreLast' /\ ~lost'
        BY <1>1, <1>2, <1>6 DEF NetInv, Honest, Turns, Outs, MarksAreLast, Ready, Old, Asking, AsLeft
    <2>3. Named'
        <3>1. Known(a)' /\ Sent(cmd.s)' /\ cmd'.s.id # get'
            BY <1>4, <1>6 DEF NetInv, Named, Honest, NetTyped, AsLeft, Known, Sent
        <3> QED BY <1>2, <1>5, <3>1 DEF Named
    <2> QED BY <2>1, <2>2, <2>3 DEF NetInv, Honest
<1>7. CASE UserLeft
    <2>1. PICK d \in {"none", "wedge"} :
            /\ far' = "busy" /\ cmd' = [k |-> "user", s |-> NoStr, d |-> d]
            /\ UNCHANGED <<dev, cap, a, h, p, req, c1, q, b>>
        BY <1>7 DEF UserLeft
    <2>2. /\ cmd' \in [k: Kinds, s: Str, d: Fates] /\ cmd'.k = "user" /\ cmd'.s = NoStr
        BY <2>1 DEF Kinds, Str, NoStr, Fates
    <2>3. NetTyped'
        BY <1>2, <1>3, <2>1, <2>2 DEF NetInv, Honest, NetTyped, Asking
    <2>4. Turns' /\ Outs' /\ MarksAreLast' /\ ~lost'
        BY <1>1, <1>2, <2>1, <2>2 DEF NetInv, Honest, Turns, Outs, MarksAreLast, Old, Asking
    <2>5. Named'
        <3>1. Known(a)' /\ Sent(cmd.s)'
            BY <1>4, <2>1, <2>2 DEF NetInv, Named, Honest, NetTyped, Known, Sent
        <3> QED BY <1>2, <1>5, <2>2, <3>1 DEF Named
    <2> QED BY <2>3, <2>4, <2>5 DEF NetInv, Honest
<1>8. CASE Woken
    <2>1. /\ far' = "idle" /\ dev' = <<>> /\ cap' = <<>> /\ out' = <<>>
          /\ a' = NoStr /\ h' = NoStr /\ p' = NoStr /\ c1' = <<>> /\ q' = 0 /\ b' = <<>>
          /\ req' = [st |-> "none", of |-> <<0, 0>>, len |-> 0] /\ cmd' = cmd
        BY <1>8 DEF Woken
    <2>2. NoStr \in Str /\ <<>> \in Seq(Token) /\ <<>> \in Seq(Other) /\ <<>> \in Seq([k: Kinds, d: Fates])
        BY DEF NoStr, Str
    <2>3. req' \in [st: {"none", "str", "bytes"}, of: Nat \X Nat, len: Int]
        BY <2>1, NoReq
    <2>4. NetTyped'
        BY <1>2, <1>3, <2>1, <2>2, <2>3 DEF NetInv, Honest, NetTyped, Asking
    <2>5. Turns' /\ Outs' /\ MarksAreLast' /\ ~lost'
        BY <1>1, <1>2, <2>1 DEF NetInv, Honest, Turns, Outs, MarksAreLast, Ready, Asking
    <2>6. Named'
        <3>1. Known(a)' /\ Sent(cmd.s)' /\ Ready'
            BY <1>4, <2>1 DEF NetInv, Named, Honest, NetTyped, Known, Sent, Ready
        <3> QED BY <1>2, <1>5, <3>1 DEF Named
    <2> QED BY <2>4, <2>5, <2>6 DEF NetInv, Honest
<1> QED BY <1>6, <1>7, <1>8 DEF StartGet

LEMMA SendLineStep ==
    ASSUME NetInv, SendLine
    PROVE  NetInv'
<1>1. /\ at \in Asking /\ at # "rest" /\ at # "sync" /\ st = "send" /\ dev = <<>>
      /\ Ready \/ (at = "up" /\ Old)
    BY DEF SendLine, NetInv, Honest, NetTyped, Turns
<1>2. /\ st' = "wait" /\ dev' \in {<<>>, <<LineOf(Kind)>>} /\ (~Ready => far # "gone")
      /\ far = "gone" => dev' = <<>>
      /\ cap' = (IF Resets THEN <<>> ELSE cap) /\ b0' = Len(cap')
      /\ UNCHANGED <<at, line, back, get, farVars>>
    BY <1>1 DEF SendLine, Written, Ready
<1>3. at \in {"up", "import", "va"} => cap' = <<>>
    <2>1. at \in {"up", "import", "va"} => Kind = at
        BY DEF Kind
    <2> QED BY <1>2, <2>1 DEF Resets
<1>4. cap' \in Seq(Token) /\ b0' \in Nat
    <2>1. cap' \in Seq(Token)
        BY <1>2, Marks DEF NetInv, Honest, NetTyped
    <2> QED BY <1>2, <2>1
<1> USE DEF farVars
<1>5. NetTyped'
    BY <1>1, <1>2, <1>4, StaysTyped DEF NetInv, Honest, NetTyped
<1>6. LineOf(Kind)' = LineOf(Kind) /\ (at = "up" => LineOf("up")' = LineOf(Kind))
    <2>1. Kind' = Kind /\ (at = "up" => Kind = "up")
        BY <1>2, SameLine DEF Kind
    <2> QED BY <1>2, <2>1 DEF LineOf, Asked
<1>7. ~Found("END")' /\ (at = "up" => ~Found("UP")')
    <2>1. CASE at \in {"up", "import"}
        BY <1>3, <2>1 DEF Found
    <2>2. CASE at \notin {"up", "import"}
        <3>1. ~Found("END")
            BY <1>1, <2>2 DEF NetInv, Honest, MarksAreLast, Asking
        <3> QED BY <1>2, <2>2, <3>1 DEF Found
    <2> QED BY <2>1, <2>2
<1>8. Turns' /\ Outs' /\ MarksAreLast' /\ ~lost'
    <2>1. (Ready' <=> Ready) /\ (Old' <=> Old)
        BY <1>2 DEF Ready, Old
    <2> QED BY <1>1, <1>2, <1>6, <1>7, <2>1 DEF NetInv, Honest, Turns, Outs, MarksAreLast, Asking
<1>9. Named'
    <2>1. at = "va" => Measured(cap)' /\ Ready /\ far # "say"
        BY <1>1, <1>3 DEF Measured, Ready
    <2>2. Ready' <=> Ready
        BY <1>2 DEF Ready
    <2> QED BY <1>1, <1>2, <2>1, <2>2, SameNames DEF NetInv, Named
<1> QED BY <1>5, <1>8, <1>9 DEF NetInv, Honest

LEMMA SyncLineStep ==
    ASSUME NetInv, SyncLine
    PROVE  NetInv'
<1>1. /\ at = "sync" /\ st = "send" /\ st' = "wait"
      /\ dev' \in {<<>>, <<Ctrl>>, <<Bare>>, <<Ctrl, Bare>>} /\ (Ready \/ (Old /\ back # "build"))
      /\ UNCHANGED <<cap, at, line, back, get, b0, farVars>>
    <2>1. /\ at = "sync" /\ st = "send" /\ st' = "wait" /\ dev' = Written(Bare)
          /\ UNCHANGED <<cap, at, line, back, get, b0, farVars>>
        BY DEF SyncLine
    <2>2. dev \in {<<>>, <<Ctrl>>} /\ (Ready \/ (Old /\ back # "build"))
        BY <2>1 DEF NetInv, Honest, Turns
    <2>3. Append(<<>>, Bare) = <<Bare>> /\ Append(<<Ctrl>>, Bare) = <<Ctrl, Bare>>
        <3>1. \A x, y : <<x>> \in Seq({x, y}) /\ Append(<<x>>, y) = <<x, y>>
            <4> TAKE x, y
            <4>1. <<x>> \in Seq({x, y}) /\ Len(<<x>>) = 1 /\ <<x>>[1] = x
                OBVIOUS
            <4>2. /\ Append(<<x>>, y) \in Seq({x, y}) /\ Len(Append(<<x>>, y)) = 2
                  /\ Append(<<x>>, y)[1] = x /\ Append(<<x>>, y)[2] = y
                BY <4>1, AppendProperties
            <4>3. <<x, y>> \in Seq({x, y}) /\ Len(<<x, y>>) = 2 /\ <<x, y>>[1] = x /\ <<x, y>>[2] = y
                OBVIOUS
            <4>4. \A i \in 1 .. 2 : Append(<<x>>, y)[i] = <<x, y>>[i]
                BY <4>2, <4>3
            <4> QED BY <4>1, <4>2, <4>3, <4>4, SeqEqual
        <3>2. Append(<<>>, Bare) = <<Bare>>
            OBVIOUS
        <3> QED BY <3>1, <3>2
    <2> QED BY <2>1, <2>2, <2>3 DEF Written
<1> USE DEF farVars
<1>2. NetTyped'
    BY <1>1 DEF NetInv, Honest, NetTyped
<1>3. Turns' /\ Outs' /\ MarksAreLast' /\ ~lost'
    BY <1>1 DEF NetInv, Honest, Turns, Outs, MarksAreLast, Ready, Old, Asking
<1>4. Named'
    <2>1. Ready' <=> Ready
        BY <1>1 DEF Ready
    <2> QED BY <1>1, <2>1, SameNames DEF NetInv, Named
<1> QED BY <1>2, <1>3, <1>4 DEF NetInv, Honest

\* A resync returns when it has seen its prompt, or nothing more will come, or a
\* fetch or a user's command keeps it waiting.
LEMMA SyncEndsStep ==
    ASSUME NetInv, SyncDone \/ SyncFails
    PROVE  NetInv'
<1>1. /\ at = "sync" /\ dev = <<>> /\ (Ready \/ (Old /\ back # "build"))
      /\ back \in {"rest", "up", "build"} /\ at' = back /\ st' = "send" /\ cap' = <<>>
      /\ UNCHANGED <<dev, line, back, get, b0, farVars>>
    BY DEF SyncDone, SyncFails, SyncReturns, Settled, Slow, Deadline, Goto, NetInv, Honest, Turns, Ready,
       Old
<1> USE DEF farVars
<1>2. NetTyped'
    BY <1>1, Marks DEF NetInv, Honest, NetTyped, Asking
<1>3. Turns'
    BY <1>1 DEF NetInv, Honest, Turns, Ready, Old, Asking
<1>4. Outs' /\ MarksAreLast' /\ ~lost'
    <2>1. ~Found("END")'
        BY <1>1 DEF Found
    <2> QED BY <1>1, <2>1 DEF NetInv, Honest, Outs, MarksAreLast
<1>5. Named'
    <2>1. Ready' <=> Ready
        BY <1>1 DEF Ready
    <2> QED BY <1>1, <2>1, SameNames DEF NetInv, Named
<1> QED BY <1>2, <1>3, <1>4, <1>5 DEF NetInv, Honest
-----------------------------------------------------------------------------
LEMMA NetStarts == NetInit => NetInv
<1> SUFFICES ASSUME NetInit PROVE NetInv
    OBVIOUS
<1>1. NetTyped
    <2>1. NoStr \in Str /\ "" \in Kinds /\ "none" \in Fates /\ <<>> \in Seq(Token)
          /\ <<0, 0>> \in Nat \X Nat
        BY Marks DEF NoStr, Str, Kinds, Fates
    <2>2. cmd \in [k: Kinds, s: Str, d: Fates]
        <3>1. cmd = [k |-> "", s |-> NoStr, d |-> "none"]
            BY DEF NetInit
        <3> QED BY <2>1, <3>1
    <2>3. req \in [st: {"none", "str", "bytes"}, of: Nat \X Nat, len: Int]
        <3>1. req = [st |-> "none", of |-> <<0, 0>>, len |-> 0]
            BY DEF NetInit
        <3> QED BY <3>1, NoReq
    <2>4. c1 \in Seq([k: Kinds, d: Fates])
        <3>1. c1 = <<>>
            BY DEF NetInit
        <3> QED BY <3>1
    <2>5. /\ at = "rest" /\ st = "send" /\ far = "idle" /\ line = 1 /\ get = 0 /\ b0 = 0 /\ q = 0
          /\ cap = <<>> /\ b = <<>>
        BY DEF NetInit
    <2>6. a = NoStr /\ h = NoStr /\ p = NoStr /\ lost = FALSE
        BY DEF NetInit
    <2>7. at \in {"rest", "sync"} \cup Asking /\ st \in {"send", "wait", "expect"}
          /\ far \in {"idle", "cont", "busy", "say", "gone"} /\ line \in 1 .. 16
        BY <2>5
    <2>8. get \in 0 .. Len(Lens) /\ b0 \in Nat /\ q \in Int
        <3>1. Len(Lens) \in Nat
            BY LensAssumption
        <3> QED BY ONLY <2>5, <3>1
    <2>9. cap \in Seq(Token) /\ b \in Seq(Other)
        BY <2>5
    <2>10. a \in Str /\ h \in Str /\ p \in Str /\ lost \in BOOLEAN
        BY <2>1, <2>6
    <2> QED BY <2>2, <2>3, <2>4, <2>5, <2>7, <2>8, <2>9, <2>10 DEF NetTyped
<1>2. Turns /\ Outs /\ MarksAreLast /\ ~lost
    BY DEF NetInit, Turns, Outs, MarksAreLast, Ready, Asking
<1>3. Named
    BY DEF NetInit, Named, Known, Sent, DialsWhatWasAsked, Ready
<1> QED BY <1>1, <1>2, <1>3 DEF NetInv, Honest

LEMMA NetSteps == NetInv /\ [NetNext]_netVars => NetInv'
<1> SUFFICES ASSUME NetInv, [NetNext]_netVars PROVE NetInv'
    OBVIOUS
<1>1. CASE StartGet
    BY <1>1, StartGetStep
<1>2. CASE ScriptNext
    BY <1>2, SendLineStep, SendStep, SyncLineStep, SyncEndsStep, ExpectUpStep, ExpectVaStep,
       ExpectPgStep, ExpectEndStep DEF ScriptNext
<1>3. CASE FarNext
    BY <1>3, FarInterruptStep, FarGoneStep, FarSwallowStep, FarTakeStep, FarBusyStep, FarRunStep, FarSayStep
       DEF FarNext
<1>4. CASE UNCHANGED netVars
    <2> USE <1>4 DEF netVars, scriptVars, farVars
    <2>1. NetTyped'
        BY DEF NetInv, Honest, NetTyped
    <2>2. Turns'
        BY DEF NetInv, Honest, Turns, Ready, Old, LineOf, Asked, Kind
    <2>4. Outs' /\ MarksAreLast' /\ ~lost'
        BY DEF NetInv, Honest, Outs, MarksAreLast, Ready, Found
    <2>3. Named'
        BY SameNames DEF NetInv, Named, Ready, Measured
    <2> QED BY <2>1, <2>2, <2>3, <2>4 DEF NetInv, Honest
<1> QED BY <1>1, <1>2, <1>3, <1>4 DEF NetNext

THEOREM NetInvariant == NetSpec => []NetInv
<1> QED BY NetStarts, NetSteps, PTL DEF NetSpec

\* Whatever the link damages and however long the network takes, no line of a get
\* meets a far end that is deaf, once link_up has had its answer: link_up's own
\* first line and a resync's Ctrl-C may.
THEOREM LinesAreHeard == NetSpec => []NoLineLost
<1>1. NetInv => NoLineLost
    BY DEF NetInv, Honest, NoLineLost
<1> QED BY <1>1, NetInvariant, PTL

\* The host a get dials is the one it was asked for, or none.
THEOREM RightHostIsDialled == NetSpec => []DialsWhatWasAsked
<1>1. NetInv => DialsWhatWasAsked
    BY DEF NetInv, Named
<1> QED BY <1>1, NetInvariant, PTL
=============================================================================
