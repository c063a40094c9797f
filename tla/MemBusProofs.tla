----------------------------- MODULE MemBusProofs -----------------------------
(* Proofs about the memory side of the machine.                             *)
EXTENDS MemBus, SequenceTheorems, TLAPS

\* The longest access, from ACTIVE to the clock the controller is idle again,
\* and the refresh interval it asks for: a burst under way, then the refresh.
Pass == C_RCD + RD_WAIT + C_RP + 5
RefreshFits == 2 * Pass + C_RFC + 2 <= RefInterval

States == {"idle", "refresh", "act", "rcd", "rd", "rd_lo", "rd_hi", "wr_lo", "wr_hi", "done"}

PortsTyped ==
    /\ grant \in {"none", "vid", "data", "fetch"}
    /\ v_left \in 0 .. RowTxns /\ v_addr \in Addr
    /\ d \in {NoReq} \cup [we: BOOLEAN, addr: DAddr]
    /\ f \in {NoReq} \cup [ptw: BOOLEAN, seen: BOOLEAN, addr: FAddr]
    /\ inflight \in BOOLEAN /\ sel_q \in BOOLEAN
    /\ v_waits \in 0 .. 2
SdramTyped ==
    /\ st \in States /\ tmr \in Nat
    /\ second \in BOOLEAN /\ r_we \in BOOLEAN /\ r_burst \in BOOLEAN
    /\ acked \in BOOLEAN /\ s_ack \in BOOLEAN
    /\ refi \in 0 .. RefInterval /\ ref_pending \in BOOLEAN
FlashTyped ==
    /\ q_st \in {"idle", "shift", "fin"} /\ q_addr \in Addr
    /\ q_burst \in BOOLEAN /\ q_ack \in BOOLEAN
Typed == PortsTyped /\ SdramTyped /\ FlashTyped

\* Who holds the bus is asking; only a walker that has been answered, and has
\* not yet noticed, asks for nothing, and then nobody holds it.
Holds ==
    /\ grant = "vid" => v_left # 0
    /\ grant = "data" => d # NoReq
    /\ f # NoReq /\ f.seen => grant = "none"

Working == st \notin {"idle", "refresh"}
Flashing == q_st # "idle"

\* The selection is the holder's, and without a request all is at rest.
Selected ==
    /\ inflight => m_req /\ sel_q = bus.addr.ram
    /\ Working \/ s_ack => inflight /\ sel_q
    /\ Flashing \/ q_ack => inflight /\ ~sel_q
    /\ ~(Flashing /\ q_ack)
    /\ acked => s_ack \/ grant = "none"
    /\ s_ack => st = "idle" /\ acked

\* A controller works on the request that is on the bus.
OnRequest ==
    /\ Working => r_we = bus.we /\ r_burst = bus.burst
    /\ Flashing => q_addr = bus.addr /\ q_burst = bus.burst /\ ~bus.we
    /\ Working /\ second => ~r_we /\ r_burst
    /\ ~Working /\ second => s_ack
    /\ st \in {"wr_lo", "wr_hi"} => r_we
    /\ st \in {"rd", "rd_lo", "rd_hi"} => ~r_we

\* The open row is that of the current word, from ACTIVE to the last command.
RowOpen == IF st \in {"rcd", "wr_lo"} THEN row = cur ELSE row = NoReq

\* What the SDRAM controller at work has done for the request so far.
Half(name) == <<name, bus.addr>>
SecondRead == <<"rd", Up(bus.addr, 1)>>
DoneSoFar ==
    IF st \in {"act", "rcd"} THEN IF second THEN <<Half("rd")>> ELSE <<>>
    ELSE IF r_we THEN IF st = "wr_lo" THEN <<Half("lo")>> ELSE <<Half("lo"), Half("hi")>>
    ELSE IF second THEN <<Half("rd"), SecondRead>> ELSE <<Half("rd")>>
Logged ==
    log = IF m_ack THEN Wanted(bus)
          ELSE IF Working THEN DoneSoFar ELSE <<>>

\* Who has waited for one transaction is next, or is being served.
Waited ==
    /\ v_waits <= 1
    /\ v_waits = 1 => v_left # 0 /\ grant \in {"none", "vid"}

\* Clocks until the controller can refresh.
HalfLeft ==
    CASE st = "act"   -> Pass
      [] st = "rcd"   -> tmr + RD_WAIT + C_RP + 5
      [] st = "rd"    -> tmr + C_RP + 4
      [] st = "rd_lo" -> C_RP + 3
      [] st = "rd_hi" -> C_RP + 2
      [] st = "wr_lo" -> C_RP + 3
      [] st = "wr_hi" -> tmr + 2
      [] st = "done"  -> tmr + 1
      [] OTHER        -> 0
Left == HalfLeft + IF Working /\ r_burst /\ ~r_we /\ ~second THEN Pass ELSE 0
Deadline ==
    /\ Left <= 2 * Pass
    /\ st = "refresh" => refi + tmr + 1 <= RefInterval
    /\ st # "refresh" /\ ref_pending => refi + Left + C_RFC + 2 <= RefInterval

Exact == Holds /\ Selected /\ OnRequest /\ RowOpen /\ Logged
IInv == Typed /\ Exact /\ Waited
-----------------------------------------------------------------------------
(* The bus *)

\* No request is taken for the absence of one.
LEMMA SomeIsNotNone ==
    /\ \A a, b, c : [we |-> a, burst |-> b, addr |-> c] # NoReq
    /\ \A a, b : [we |-> a, addr |-> b] # NoReq
    /\ \A a, b, c : [ptw |-> a, seen |-> b, addr |-> c] # NoReq
    /\ \A a \in Addr : a # NoReq
BY DEF NoReq, Addr

\* What is on the bus is a request, and no write is a burst.
LEMMA BusType ==
    ASSUME Typed, m_req
    PROVE  /\ bus \in [we: BOOLEAN, burst: BOOLEAN, addr: Addr]
           /\ ~(bus.we /\ bus.burst)
<1>1. d # NoReq => d.we \in BOOLEAN /\ d.addr \in Addr
    BY PortAssumption DEF Typed, PortsTyped
<1>2. f # NoReq => f.addr \in Addr
    BY PortAssumption DEF Typed, PortsTyped
<1>3. v_addr \in Addr
    BY DEF Typed, PortsTyped
<1> QED BY <1>1, <1>2, <1>3 DEF Typed, PortsTyped, m_req, bus, v_req, d_req, f_req

\* The word after a word is a word.
LEMMA UpType == \A a \in Addr, n \in Nat : Up(a, n) \in Addr
BY BusAssumption DEF Addr, Up

\* Until it is answered the request stays on the bus, and its device selected.
LEMMA BusKept ==
    ASSUME IInv, Next, m_req, ~m_ack
    PROVE  bus' = bus /\ m_req' /\ inflight' = TRUE /\ sel_q' = bus.addr.ram
<1>1. grant' = grant /\ grant # "none"
    BY DEF Next, ArbiterEdge, Release, m_req, bus
<1>2. ~v_ack /\ ~d_ack /\ ~f_ack
    BY DEF v_ack, d_ack, f_ack
<1>3. grant = "vid" => v_req' = v_req
    BY <1>2 DEF Next, VideoEdge, v_req, IInv, Exact, Holds
<1>4. grant = "data" => d_req' = d_req
    BY <1>2 DEF Next, DataEdge, d_req, IInv, Exact, Holds
<1>5. grant = "fetch" => f # NoReq /\ ~f.seen
    BY <1>1 DEF m_req, bus, f_req, IInv, Exact, Holds
<1>6. grant = "fetch" => f_req' = f_req
    BY <1>2, <1>5 DEF Next, FetchEdge, f_req
<1>7. bus' = bus
    BY <1>1, <1>3, <1>4, <1>6 DEF bus, IInv, Typed, PortsTyped
<1>8. inflight' = TRUE /\ sel_q' = bus.addr.ram
    BY DEF Next, SelectEdge, IInv, Exact, Selected, Typed, PortsTyped
<1> QED BY <1>7, <1>8 DEF m_req

\* The answer ends the grant and the selection.
LEMMA BusFreed ==
    ASSUME IInv, Next, m_ack
    PROVE  grant' = "none" /\ bus' = NoReq /\ ~m_req' /\ inflight' = FALSE
<1>1. m_req /\ inflight
    BY DEF m_ack, IInv, Exact, Selected
<1>2. grant' = "none"
    BY <1>1 DEF Next, ArbiterEdge, Release, m_req, bus
<1>3. inflight' = FALSE
    BY <1>1 DEF Next, SelectEdge
<1> QED BY <1>2, <1>3 DEF bus, m_req

\* Without a request nothing is selected.
LEMMA BusIdle ==
    ASSUME IInv, Next, ~m_req
    PROVE  inflight' = FALSE
BY DEF Next, SelectEdge, IInv, Typed, PortsTyped

LEMMA PortsStep ==
    ASSUME IInv, Next
    PROVE  PortsTyped' /\ Holds' /\ Waited'
<1> USE DEF IInv, Typed, PortsTyped, Exact, Holds
<1>1. v_left' \in 0 .. RowTxns /\ v_addr' \in Addr
    BY UpType, BusAssumption, PortAssumption DEF Next, VideoEdge, v_ack
<1>2. d' \in {NoReq} \cup [we: BOOLEAN, addr: DAddr]
    BY DEF Next, DataEdge
<1>3. f' \in {NoReq} \cup [ptw: BOOLEAN, seen: BOOLEAN, addr: FAddr]
    BY DEF Next, FetchEdge
<1>4. grant' \in {"none", "vid", "data", "fetch"}
    BY DEF Next, ArbiterEdge, Pick
<1>5. inflight' \in BOOLEAN /\ sel_q' \in BOOLEAN
    <2>1. m_req => bus.addr.ram \in BOOLEAN
        BY BusType DEF Addr
    <2> QED BY <2>1 DEF Next, SelectEdge
<1>6. grant' = "vid" => v_left' # 0
    <2>1. CASE grant = "vid"
        <3>1. grant' = "vid" => ~m_ack
            BY <2>1 DEF Next, ArbiterEdge, Release
        <3> QED BY <2>1, <3>1 DEF Next, VideoEdge, v_ack
    <2>2. CASE grant # "vid"
        BY <2>2, BusAssumption DEF Next, ArbiterEdge, Release, Pick, v_req, VideoEdge, v_ack
    <2> QED BY <2>1, <2>2
<1>7. grant' = "data" => d' # NoReq
    <2>1. grant' = "data" => ~d_ack /\ d # NoReq
        BY DEF Next, ArbiterEdge, Release, Pick, d_req, d_ack
    <2> QED BY <2>1 DEF Next, DataEdge
<1>8. f' # NoReq /\ f'.seen => grant' = "none"
    <2>1. f' # NoReq /\ f'.seen => f_ack
        BY DEF Next, FetchEdge
    <2> QED BY <2>1 DEF f_ack, Next, ArbiterEdge, Release
<1>9. v_waits' \in 0 .. 2 /\ Waited'
    <2>1. CASE v_left = 0 \/ v_ack
        BY <2>1 DEF Next, HistoryEdge, v_req, Waited
    <2>2. CASE v_left # 0 /\ ~v_ack
        <3>1. v_req # NoReq /\ v_left' = v_left
            BY <2>2, SomeIsNotNone DEF v_req, Next, VideoEdge
        <3>2. CASE m_ack
            <4>1. grant' = "none"
                BY <3>2, BusFreed
            <4>2. grant # "none"
                BY <3>2 DEF m_ack, Selected, m_req, bus
            <4>3. v_waits = 0
                BY <2>2, <3>2, <4>2 DEF Waited, v_ack
            <4> QED BY <2>2, <3>1, <3>2, <4>1, <4>3 DEF Next, HistoryEdge, Waited
        <3>3. CASE ~m_ack
            <4>1. v_waits' = v_waits
                BY <2>2, <3>1, <3>3 DEF Next, HistoryEdge
            <4>2. grant \in {"none", "vid"} => grant' \in {"vid", "none"}
                BY <3>1 DEF Next, ArbiterEdge, Pick
            <4> QED BY <2>2, <3>1, <4>1, <4>2 DEF Waited
        <3> QED BY <3>2, <3>3
    <2> QED BY <2>1, <2>2
<1> QED BY <1>1, <1>2, <1>3, <1>4, <1>5, <1>6, <1>7, <1>8, <1>9
-----------------------------------------------------------------------------
(* The controllers *)

\* The logs of one or two accesses.
LEMMA Concats ==
    /\ <<>> \o <<>> = <<>>
    /\ \A x : <<>> \o <<x>> = <<x>>
    /\ \A x : <<x>> \o <<>> = <<x>>
    /\ \A x, y : <<x>> \o <<y>> = <<x, y>>
    /\ \A x, y : <<>> \o <<x, y>> = <<x, y>>
    /\ \A x, y : <<x, y>> \o <<>> = <<x, y>>
<1>1. <<>> \o <<>> = <<>>
    OBVIOUS
<1>2. \A x : <<>> \o <<x>> = <<x>>
    OBVIOUS
<1>3. \A x : <<x>> \o <<>> = <<x>>
    OBVIOUS
<1>4. ASSUME NEW x, NEW y PROVE <<x>> \o <<y>> = <<x, y>>
    <2> DEFINE S == {x, y}
    <2>1. <<x>> \in Seq(S) /\ <<y>> \in Seq(S) /\ <<x, y>> \in Seq(S)
        OBVIOUS
    <2>2. Len(<<x>>) = 1 /\ Len(<<y>>) = 1 /\ Len(<<x, y>>) = 2
        OBVIOUS
    <2>3. <<x>> \o <<y>> \in Seq(S) /\ Len(<<x>> \o <<y>>) = 2
        BY <2>1, <2>2, ConcatProperties
    <2>4. (<<x>> \o <<y>>)[1] = x /\ (<<x>> \o <<y>>)[2] = y
        BY <2>1, <2>2, ConcatProperties
    <2>5. \A i \in 1 .. 2 : (<<x>> \o <<y>>)[i] = <<x, y>>[i]
        BY <2>4
    <2> HIDE DEF S
    <2> QED BY <2>1, <2>2, <2>3, <2>5, SeqEqual
<1>5. \A x, y : <<>> \o <<x, y>> = <<x, y>>
    OBVIOUS
<1>6. \A x, y : <<x, y>> \o <<>> = <<x, y>>
    OBVIOUS
<1> QED BY <1>1, <1>2, <1>3, <1>4, <1>5, <1>6

\* The device selected is the one the request on the bus addresses.
LEMMA SelIsDevice ==
    ASSUME IInv, m_req PROVE sel_ram = bus.addr.ram
BY DEF sel_ram, IInv, Exact, Selected

\* The parts of a clock's accesses.
SdAccesses ==
    IF st = "rcd" /\ tmr = 0 THEN <<<<IF r_we THEN "lo" ELSE "rd", cur>>>>
    ELSE IF st = "wr_lo" THEN <<<<"hi", cur>>>> ELSE <<>>
FlashAccesses == IF q_st = "fin" THEN Reads(q_addr, q_burst) ELSE <<>>

LEMMA AccessesAre ==
    /\ Accesses = SdAccesses \o FlashAccesses
    /\ q_st # "fin" => Accesses = SdAccesses
    /\ ~Working => Accesses = FlashAccesses
<1>1. Accesses = SdAccesses \o FlashAccesses
    BY DEF Accesses, SdAccesses, FlashAccesses
<1>2. \A x : <<x>> \o <<>> = <<x>>
    OBVIOUS
<1>3. \A x, y : <<>> \o <<x>> = <<x>> /\ <<>> \o <<x, y>> = <<x, y>> /\ <<>> \o <<>> = <<>>
    OBVIOUS
<1>4. q_st # "fin" => SdAccesses \o FlashAccesses = SdAccesses
    BY <1>2, <1>3 DEF SdAccesses, FlashAccesses
<1>5. ~Working => SdAccesses \o FlashAccesses = FlashAccesses
    BY <1>3 DEF SdAccesses, FlashAccesses, Working, Reads
<1> QED BY <1>1, <1>4, <1>5

\* A clock on which nothing is asked, or an answer is given, leaves both
\* controllers without work.
LEMMA AtRest ==
    ASSUME IInv, Next, ~m_req \/ m_ack
    PROVE  /\ ~Working' /\ ~Flashing' /\ ~m_ack' /\ second' = FALSE
           /\ row' = NoReq /\ log' = <<>> /\ inflight' = FALSE
           /\ acked' => grant' = "none"
<1> USE DEF IInv, Exact, Typed, Selected
<1>1. ~Working /\ ~Flashing
    BY DEF m_ack, Working, PortsTyped
<1>2. m_ack => m_req
    BY DEF m_ack
<1>3. ~Ready
    BY <1>1, SelIsDevice DEF Ready, s_req, m_ack
<1>4. ~(q_req /\ ~q_ack)
    BY SelIsDevice DEF q_req, m_ack
<1>5. ~Working' /\ s_ack' = FALSE /\ acked' = Released /\ row' = row
    BY <1>1, <1>3 DEF Next, SdramEdge, SdIdle, SdAct, SdRcd, SdWrLo, SdPass, Passing, SdRead,
       SdDone, SdWait, Goes, Working, SdramTyped, States, RefreshFirst
<1>6. second' = FALSE
    BY <1>1 DEF Next, SdramEdge, SdIdle, SdAct, SdRcd, SdWrLo, SdPass, Passing, SdRead, SdDone,
       SdWait, Working, OnRequest, SdramTyped, States
<1>7. ~Flashing' /\ q_ack' = FALSE
    BY <1>1, <1>4 DEF Next, QspiEdge, Flashing
<1>8. Accesses = <<>>
    BY <1>1, AccessesAre DEF FlashAccesses, Flashing
<1>9. log' = <<>>
    <2>1. m_ack => log' = <<>>
        BY <1>8 DEF Next, HistoryEdge
    <2>2. ~m_ack => log = <<>>
        BY <1>1 DEF Logged
    <2>3. <<>> \o <<>> = <<>>
        OBVIOUS
    <2> QED BY <1>8, <2>1, <2>2, <2>3 DEF Next, HistoryEdge
<1>10. inflight' = FALSE
    BY BusFreed, BusIdle
<1>11. acked' => grant' = "none"
    BY <1>2, <1>5, BusFreed DEF Released, s_req
<1>12. row' = NoReq
    BY <1>1, <1>5 DEF RowOpen, Working
<1> QED BY <1>5, <1>6, <1>7, <1>9, <1>10, <1>11, <1>12 DEF m_ack

\* A request meets both controllers at rest: its device starts, or refreshes first.
LEMMA Starts ==
    ASSUME IInv, Next, m_req, ~m_ack, ~Working, ~Flashing
    PROVE  Selected' /\ OnRequest' /\ RowOpen' /\ Logged'
<1> USE DEF IInv, Exact, Typed, SdramTyped, FlashTyped, Selected
<1>1. bus' = bus /\ m_req' /\ inflight' = TRUE /\ sel_q' = bus.addr.ram
    BY BusKept
<1>2. bus.we \in BOOLEAN /\ bus.burst \in BOOLEAN /\ bus.addr.ram \in BOOLEAN
    BY BusType DEF Addr
<1>3. log' = <<>>
    <2>1. Accesses = <<>> /\ log = <<>>
        BY AccessesAre DEF FlashAccesses, Flashing, Logged
    <2>2. <<>> \o <<>> = <<>>
        OBVIOUS
    <2> QED BY <2>1, <2>2 DEF Next, HistoryEdge
<1>4. /\ s_ack' = FALSE /\ ~acked' /\ ~second' /\ row' = NoReq
      /\ \/ st' \in {"idle", "refresh"}
         \/ st' = "act" /\ Ready /\ r_we' = bus.we /\ r_burst' = bus.burst
    <2>1. ~acked /\ ~second /\ row = NoReq /\ ~s_ack
        BY DEF m_ack, m_req, bus, OnRequest, RowOpen, Working
    <2> QED BY <2>1 DEF Next, SdramEdge, SdIdle, SdAct, SdRcd, SdWrLo, SdPass, Passing,
           SdRead, SdDone, SdWait, Goes, Working, RefreshFirst, Released, States
<1>5. /\ q_ack' => q_req /\ bus.we
      /\ \/ q_st' = "idle"
         \/ q_st' = "shift" /\ q_req /\ ~bus.we /\ ~q_ack'
            /\ q_addr' = bus.addr /\ q_burst' = bus.burst
    BY DEF Next, QspiEdge, Flashing, m_ack
<1>6. (Ready => bus.addr.ram) /\ (q_req => ~bus.addr.ram)
    BY SelIsDevice DEF Ready, s_req, q_req
<1>7. Selected'
    BY <1>1, <1>4, <1>5, <1>6 DEF Working, Flashing
<1>8. OnRequest'
    BY <1>1, <1>4, <1>5 DEF OnRequest, Working, Flashing
<1>9. RowOpen'
    BY <1>4 DEF RowOpen
<1>10. Logged'
    <2>1. CASE m_ack'
        <3>1. q_req /\ bus.we
            BY <2>1, <1>4, <1>5 DEF m_ack
        <3> QED BY <3>1, <2>1, <1>1, <1>3, <1>6 DEF Logged, Wanted
    <2>2. CASE ~m_ack'
        <3>1. Working' => st' = "act" /\ ~second'
            BY <1>4 DEF Working
        <3> QED BY <1>3, <2>2, <3>1 DEF Logged, DoneSoFar
    <2> QED BY <2>1, <2>2
<1> QED BY <1>7, <1>8, <1>9, <1>10

\* The flash shifts its bits, and answers with the words it latched.
LEMMA FlashStep ==
    ASSUME IInv, Next, Flashing
    PROVE  Selected' /\ OnRequest' /\ RowOpen' /\ Logged'
<1> USE DEF IInv, Exact, Typed, SdramTyped, FlashTyped, Selected
<1>1. ~Working /\ ~s_ack /\ ~q_ack /\ m_req
    BY DEF Flashing
<1>2. bus' = bus /\ m_req' /\ inflight' = TRUE /\ sel_q' = bus.addr.ram /\ ~bus.addr.ram
    BY <1>1, BusKept DEF m_ack
<1>3. /\ s_ack' = FALSE /\ ~acked' /\ ~second' /\ row' = NoReq /\ ~Working'
    <2>1. ~acked /\ ~second /\ row = NoReq
        BY <1>1 DEF m_req, bus, OnRequest, RowOpen, Working
    <2>2. ~Ready
        BY <1>1, <1>2, SelIsDevice DEF Ready, s_req
    <2> QED BY <1>1, <2>1, <2>2 DEF Next, SdramEdge, SdIdle, SdAct, SdRcd, SdWrLo, SdPass,
           Passing, SdRead, SdDone, SdWait, Goes, Working, RefreshFirst, Released
<1>4. q_addr' = q_addr /\ q_burst' = q_burst /\ (q_ack' => q_st' = "idle")
      /\ (q_ack' <=> q_st = "fin") /\ (q_st' = "idle" <=> q_ack')
    BY <1>1 DEF Next, QspiEdge, Flashing
<1>5. Selected'
    BY <1>2, <1>3, <1>4 DEF Flashing, Working
<1>6. OnRequest'
    BY <1>1, <1>2, <1>3, <1>4 DEF OnRequest, Working, Flashing
<1>7. RowOpen'
    BY <1>3 DEF RowOpen, Working
<1>8. Logged'
    <2>1. log = <<>> /\ Accesses = FlashAccesses
        BY <1>1, AccessesAre DEF Logged, m_ack
    <2>2. log' = FlashAccesses
        <3>1. log' = <<>> \o FlashAccesses
            BY <1>1, <2>1 DEF Next, HistoryEdge, m_ack
        <3>2. \A x, y : <<>> \o <<x>> = <<x>> /\ <<>> \o <<x, y>> = <<x, y>>
                     /\ <<>> \o <<>> = <<>>
            OBVIOUS
        <3> QED BY <3>1, <3>2 DEF FlashAccesses, Reads
    <2>3. m_ack' <=> q_st = "fin"
        BY <1>3, <1>4 DEF m_ack
    <2>4. q_st = "fin" => FlashAccesses = Wanted(bus)
        BY DEF FlashAccesses, Wanted, OnRequest, Flashing
    <2> QED BY <1>2, <1>3, <2>2, <2>3, <2>4 DEF Logged, FlashAccesses, Wanted
<1> QED BY <1>5, <1>6, <1>7, <1>8

\* While the SDRAM works the flash rests, and the guard is down.
LEMMA WhileWorking ==
    ASSUME IInv, Next, Working
    PROVE  /\ m_req /\ bus' = bus /\ m_req' /\ inflight' = TRUE /\ sel_q' = TRUE
           /\ ~m_ack /\ q_st' = "idle" /\ q_ack' = FALSE
           /\ acked' = TRUE => s_ack' = TRUE
           /\ cur = IF second THEN Up(bus.addr, 1) ELSE bus.addr
           /\ log' = log \o SdAccesses
<1> USE DEF IInv, Exact, Typed, SdramTyped, FlashTyped, Selected
<1>1. m_req /\ ~m_ack /\ ~Flashing /\ sel_q /\ inflight
    BY DEF Working, m_ack, Flashing
<1>2. bus' = bus /\ m_req' /\ inflight' = TRUE /\ sel_q' = TRUE
    BY <1>1, BusKept, BusType DEF Addr, Typed, PortsTyped
<1>3. q_st' = "idle" /\ q_ack' = FALSE
    <2>1. ~q_req
        BY <1>1 DEF q_req, sel_ram
    <2> QED BY <1>1, <2>1 DEF Next, QspiEdge, Flashing
<1>4. ~acked
    BY <1>1 DEF Working, m_req, bus
<1>5. acked' = TRUE => s_ack' = TRUE
    BY <1>4 DEF Next, SdramEdge, SdIdle, SdAct, SdRcd, SdWrLo, SdPass, SdRead, SdDone, SdWait,
       Released, Working
<1>6. log' = log \o SdAccesses
    BY <1>1, AccessesAre DEF Next, HistoryEdge, Flashing
<1> QED BY <1>1, <1>2, <1>3, <1>5, <1>6 DEF cur

\* The hops of the controller at work: its state, row, answer and burst half.
Hops ==
    /\ r_we' = r_we /\ r_burst' = r_burst
    /\ \/ st = "act" /\ st' = "rcd" /\ row' = cur /\ ~s_ack' /\ second' = second
       \/ st = "rcd" /\ tmr = 0 /\ st' = (IF r_we THEN "wr_lo" ELSE "rd")
          /\ row' = RowAfterCas /\ ~s_ack' /\ second' = second
       \/ st = "wr_lo" /\ st' = "wr_hi" /\ row' = NoReq /\ ~s_ack' /\ second' = second
       \/ st = "wr_hi" /\ st' = "done" /\ row' = row /\ ~s_ack' /\ second' = second
       \/ st = "rd" /\ st' = "rd_lo" /\ row' = row /\ ~s_ack' /\ second' = second
       \/ st = "rd_lo" /\ st' = "rd_hi" /\ row' = row /\ ~s_ack' /\ second' = second
       \/ st = "rd_hi" /\ st' = "done" /\ row' = row /\ ~s_ack' /\ second' = second
       \/ st = "done" /\ r_burst /\ ~r_we /\ ~second /\ st' = "act" /\ row' = row
          /\ ~s_ack' /\ second' = TRUE
       \/ st = "done" /\ ~(r_burst /\ ~r_we /\ ~second) /\ st' = "idle" /\ row' = row
          /\ s_ack' = TRUE /\ acked' = TRUE /\ second' = second
       \/ st \in {"rcd", "rd", "wr_hi", "done"} /\ tmr # 0 /\ st' = st /\ row' = row
          /\ ~s_ack' /\ second' = second

\* Where the controller goes from each working state.
LEMMA WorkGoes ==
    ASSUME IInv, Next, Working
    PROVE  Hops
<1> USE DEF Hops
<1>1. CASE SdIdle
    BY <1>1 DEF SdIdle, Working
<1>2. CASE SdAct
    BY <1>2 DEF SdAct, Goes
<1>3. CASE SdRcd
    BY <1>3 DEF SdRcd, Goes
<1>4. CASE SdWrLo
    BY <1>4 DEF SdWrLo, Goes
<1>5. CASE SdPass
    BY <1>5 DEF SdPass, Passing, Goes, Working
<1>6. CASE SdRead
    BY <1>6 DEF SdRead, Goes
<1>7. CASE SdDone
    BY <1>7 DEF SdDone, Goes
<1>8. CASE SdWait
    BY <1>8 DEF SdWait, Goes, Working
<1> QED BY <1>1, <1>2, <1>3, <1>4, <1>5, <1>6, <1>7, <1>8 DEF Next, SdramEdge

LEMMA WorkStep ==
    ASSUME IInv, Next, Working
    PROVE  Selected' /\ OnRequest' /\ RowOpen' /\ Logged'
<1>h. Hops
    BY WorkGoes
<1>b. /\ m_req /\ bus' = bus /\ m_req' /\ inflight' = TRUE /\ sel_q' = TRUE
      /\ ~m_ack /\ q_st' = "idle" /\ q_ack' = FALSE
      /\ acked' = TRUE => s_ack' = TRUE
      /\ cur = IF second THEN Up(bus.addr, 1) ELSE bus.addr
      /\ log' = log \o SdAccesses
    BY WhileWorking
<1>1. bus.we \in BOOLEAN /\ bus.burst \in BOOLEAN /\ ~(bus.we /\ bus.burst)
    BY <1>b, BusType DEF IInv
<1>2. bus.addr.ram = TRUE
    BY <1>b, SelIsDevice DEF IInv, Exact, Selected, sel_ram
<1>t. st \in States /\ second \in BOOLEAN /\ r_we \in BOOLEAN /\ r_burst \in BOOLEAN
    BY DEF IInv, Typed, SdramTyped
<1>o. OnRequest /\ RowOpen /\ Logged /\ Selected
    BY DEF IInv, Exact
<1>3. Selected'
    BY <1>h, <1>b, <1>2 DEF Hops, Selected, Working, Flashing
<1>4. OnRequest'
    BY <1>h, <1>b, <1>1, <1>t, <1>o DEF Hops, OnRequest, Working, Flashing
<1>c. cur' = IF second' THEN Up(bus.addr, 1) ELSE bus.addr
    BY <1>b DEF cur
<1>5. RowOpen'
    BY <1>h, <1>b, <1>c, <1>o, <1>t DEF Hops, RowOpen, RowAfterCas, OnRequest, Working
<1>6. Logged'
    <2>1. log = DoneSoFar
        BY <1>b, <1>o DEF Logged
    <2>2. second => ~r_we /\ r_burst
        BY <1>o DEF OnRequest
    <2>3. Half("rd")' = Half("rd") /\ Half("lo")' = Half("lo") /\ Half("hi")' = Half("hi")
          /\ SecondRead' = SecondRead
        BY <1>b DEF Half, SecondRead
    <2>4. m_ack' <=> s_ack'
        BY <1>b DEF m_ack
    <2>5. CASE st = "rcd" /\ tmr = 0
        <3>1. cur = IF second THEN Up(bus.addr, 1) ELSE bus.addr
            BY <1>b
        <3>2. SdAccesses = IF r_we THEN <<Half("lo")>>
                           ELSE IF second THEN <<SecondRead>> ELSE <<Half("rd")>>
            BY <2>2, <2>5, <3>1 DEF SdAccesses, Half, SecondRead
        <3>3. DoneSoFar = IF second THEN <<Half("rd")>> ELSE <<>>
            BY <2>5 DEF DoneSoFar
        <3>4. log' = IF r_we THEN <<Half("lo")>>
                     ELSE IF second THEN <<Half("rd"), SecondRead>> ELSE <<Half("rd")>>
            BY <1>b, <1>t, <2>1, <2>2, <3>2, <3>3, Concats
        <3>5. DoneSoFar' = log'
            BY <1>h, <1>t, <2>2, <2>3, <2>5, <3>4 DEF Hops, DoneSoFar
        <3> QED BY <1>h, <2>4, <2>5, <3>5 DEF Hops, Logged, Working
    <2>6. CASE st = "wr_lo"
        <3>1. cur = bus.addr /\ r_we
            BY <1>b, <1>o, <2>2, <2>6 DEF OnRequest
        <3>2. log' = <<Half("lo"), Half("hi")>>
            BY <1>b, <2>1, <2>6, <3>1, Concats DEF DoneSoFar, SdAccesses, Half
        <3>3. DoneSoFar' = log'
            BY <1>h, <2>3, <2>6, <3>1, <3>2 DEF Hops, DoneSoFar
        <3> QED BY <1>h, <2>4, <2>6, <3>3 DEF Hops, Logged, Working
    <2>7. CASE st # "wr_lo" /\ ~(st = "rcd" /\ tmr = 0)
        <3>1. SdAccesses = <<>>
            BY <2>7 DEF SdAccesses
        <3>2. log' = DoneSoFar
            BY <1>b, <2>1, <3>1, Concats DEF DoneSoFar
        <3>3. CASE ~s_ack'
            <4>1. DoneSoFar' = DoneSoFar
                BY <1>h, <1>o, <1>t, <2>2, <2>3, <2>7, <3>3
                   DEF Hops, DoneSoFar, OnRequest, Working
            <4> QED BY <1>h, <2>4, <2>7, <3>2, <3>3, <4>1 DEF Hops, Logged, Working
        <3>4. CASE s_ack'
            <4>1. st = "done" /\ ~(r_burst /\ ~r_we /\ ~second)
                BY <1>h, <3>4 DEF Hops
            <4>2. r_we = bus.we /\ r_burst = bus.burst
                BY <1>o, <4>1 DEF OnRequest, Working
            <4>3. DoneSoFar = Wanted(bus)
                BY <1>1, <1>2, <1>t, <2>2, <4>1, <4>2
                   DEF DoneSoFar, Wanted, Reads, Half, SecondRead
            <4> QED BY <1>b, <2>4, <3>2, <3>4, <4>3 DEF Logged, Wanted
        <3> QED BY <3>3, <3>4
    <2> QED BY <2>5, <2>6, <2>7
<1> QED BY <1>3, <1>4, <1>5, <1>6

LEMMA ControllersTyped ==
    ASSUME IInv, Next PROVE SdramTyped' /\ FlashTyped'
<1> USE DEF IInv, Typed, SdramTyped, FlashTyped
<1>1. m_req => bus.we \in BOOLEAN /\ bus.burst \in BOOLEAN /\ bus.addr \in Addr
    BY BusType
<1>2. tmr \in Nat /\ Down \in Nat
    BY DEF Down
<1>3. refi' \in 0 .. RefInterval /\ ref_pending' \in BOOLEAN
    BY TimingAssumption DEF Next, RefreshEdge, CountRefi
<1>4. acked' \in BOOLEAN /\ s_ack' \in BOOLEAN /\ second' \in BOOLEAN
    BY DEF Next, SdramEdge, SdIdle, SdAct, SdRcd, SdWrLo, SdPass, SdRead, SdDone, SdWait, Released
<1>5. r_we' \in BOOLEAN /\ r_burst' \in BOOLEAN
    BY <1>1 DEF Next, SdramEdge, SdIdle, SdAct, SdRcd, SdWrLo, SdPass, SdRead, SdDone, SdWait,
       Ready, s_req
<1>6. st' \in States /\ tmr' \in Nat
    BY <1>2, TimingAssumption DEF Next, SdramEdge, SdIdle, SdAct, SdRcd, SdWrLo, SdPass, Passing,
       SdRead, SdDone, SdWait, Goes, States
<1>7. FlashTyped'
    BY <1>1 DEF Next, QspiEdge, q_req
<1> QED BY <1>3, <1>4, <1>5, <1>6, <1>7

LEMMA Initially == Init => IInv
<1> SUFFICES ASSUME Init PROVE IInv
    OBVIOUS
<1>1. Typed
    <2>1. v_addr \in Addr /\ q_addr \in Addr
        BY PortAssumption DEF Init
    <2>2. 0 \in 0 .. RowTxns /\ 0 \in 0 .. RefInterval /\ 0 \in 0 .. 2
        BY TimingAssumption, BusAssumption
    <2>3. PortsTyped
        BY <2>1, <2>2 DEF Init, PortsTyped
    <2> QED BY <2>1, <2>2, <2>3 DEF Init, Typed, SdramTyped, FlashTyped, States
<1>2. bus = NoReq /\ ~m_req /\ ~m_ack /\ ~Working /\ ~Flashing
    BY DEF Init, bus, m_req, m_ack, Working, Flashing
<1>3. Exact
    BY <1>2 DEF Init, Exact, Holds, Selected, OnRequest, RowOpen, Logged, Working
<1> QED BY <1>1, <1>3 DEF IInv, Waited, Init

LEMMA StepKeeps ==
    ASSUME IInv, [Next]_vars PROVE IInv'
<1>1. CASE UNCHANGED vars
    <2>1. Typed' /\ Waited'
        BY <1>1 DEF vars, ports, sdram, qspi, IInv, Typed, PortsTyped, SdramTyped, FlashTyped, Waited
    <2>2. bus' = bus /\ m_req' = m_req /\ cur' = cur /\ m_ack' = m_ack
        BY <1>1 DEF vars, ports, sdram, qspi, bus, v_req, d_req, f_req, m_req, cur, m_ack
    <2>3. Exact'
        BY <1>1, <2>2 DEF vars, ports, sdram, qspi, IInv, Exact, Holds, Selected, OnRequest,
           RowOpen, Logged, DoneSoFar, Half, SecondRead, Working, Flashing
    <2> QED BY <2>1, <2>3 DEF IInv
<1>2. CASE Next
    <2>1. Typed' /\ Holds' /\ Waited'
        BY <1>2, PortsStep, ControllersTyped DEF Typed
    <2>2. Selected' /\ OnRequest' /\ RowOpen' /\ Logged'
        <3>1. CASE ~m_req \/ m_ack
            <4>1. /\ ~Working' /\ ~Flashing' /\ ~m_ack' /\ second' = FALSE
                  /\ row' = NoReq /\ log' = <<>> /\ inflight' = FALSE
                  /\ acked' => grant' = "none"
                BY <1>2, <3>1, AtRest
            <4> QED BY <4>1 DEF Selected, OnRequest, RowOpen, Logged, Working, m_ack
        <3>2. CASE m_req /\ ~m_ack /\ ~Working /\ ~Flashing
            BY <1>2, <3>2, Starts
        <3>3. CASE Working
            BY <1>2, <3>3, WorkStep
        <3>4. CASE Flashing
            BY <1>2, <3>4, FlashStep
        <3> QED BY <3>1, <3>2, <3>3, <3>4
    <2> QED BY <2>1, <2>2 DEF IInv, Exact
<1> QED BY <1>1, <1>2


\* A pass through the controller takes the clocks it is said to take.
LEMMA LeftFalls ==
    ASSUME IInv, Next, Working
    PROVE  Left \in Nat /\ Left' \in Nat /\ Left' + 1 <= Left
<1> USE TimingAssumption DEF Left, HalfLeft, Pass, Working, Goes
<1>1. /\ tmr \in Nat /\ st \in States
      /\ r_we \in BOOLEAN /\ r_burst \in BOOLEAN /\ second \in BOOLEAN
    BY DEF IInv, Typed, SdramTyped
<1>2. Down \in Nat /\ (tmr # 0 => Down = tmr - 1) /\ (tmr = 0 => Down = 0)
    BY <1>1 DEF Down
<1>3. CASE SdIdle
    BY <1>3 DEF SdIdle
<1>4. CASE SdAct
    BY <1>1, <1>4 DEF SdAct
<1>5. CASE SdRcd
    BY <1>1, <1>2, <1>5 DEF SdRcd
<1>6. CASE SdWrLo
    BY <1>1, <1>6 DEF SdWrLo
<1>7. CASE SdPass
    BY <1>1, <1>2, <1>7 DEF SdPass, Passing
<1>8. CASE SdRead
    BY <1>1, <1>2, <1>8 DEF SdRead
<1>9. CASE SdDone
    BY <1>1, <1>2, <1>9 DEF SdDone
<1>10. CASE SdWait
    BY <1>1, <1>2, <1>10 DEF SdWait
<1> QED BY <1>3, <1>4, <1>5, <1>6, <1>7, <1>8, <1>9, <1>10 DEF Next, SdramEdge

\* The refresh debt and its deadline, kept by every clock.
LEMMA DeadlineStep ==
    ASSUME RefreshFits, IInv, Deadline, [Next]_vars PROVE Deadline'
<1>1. CASE UNCHANGED vars
    BY <1>1 DEF vars, sdram, Deadline, Left, HalfLeft, Working
<1>2. CASE Next
    <2>1. refi \in 0 .. RefInterval /\ tmr \in Nat /\ ref_pending \in BOOLEAN
        BY DEF IInv, Typed, SdramTyped
    <2>p. PICK p \in Nat : Pass = p /\ 2 * p + C_RFC + 2 <= RefInterval
        BY TimingAssumption DEF Pass, RefreshFits
    <2>2. /\ refi' = IF refi >= RefInterval THEN 0 ELSE refi + 1
          /\ ref_pending' => st # "refresh" /\ (ref_pending \/ refi >= RefInterval)
        BY <1>2 DEF Next, RefreshEdge, CountRefi
    <2> USE TimingAssumption
    <2>3. CASE Working
        <3>1. st' # "refresh"
            BY <1>2, <2>3, WorkGoes DEF Hops, Working
        <3>2. PICK l \in Nat, k \in Nat : Left = l /\ Left' = k /\ k + 1 <= l
            BY <1>2, <2>3, LeftFalls
        <3>3. k <= 2 * p
            BY <2>p, <3>2 DEF Deadline
        <3>4. ref_pending' => refi' + k + C_RFC + 2 <= RefInterval
            <4>1. CASE refi >= RefInterval
                BY <2>1, <2>2, <2>p, <3>2, <3>3, <4>1
            <4>2. CASE ~(refi >= RefInterval)
                <5>1. ref_pending' => refi + l + C_RFC + 2 <= RefInterval
                    BY <2>2, <2>3, <3>2, <4>2 DEF Deadline, Working
                <5> QED BY <2>1, <2>2, <3>2, <4>2, <5>1
            <4> QED BY <4>1, <4>2
        <3> QED BY <2>p, <3>1, <3>2, <3>3, <3>4 DEF Deadline
    <2>4. CASE st = "idle"
        <3>1. SdIdle
            BY <1>2, <2>4 DEF Next, SdramEdge, SdIdle, SdAct, SdRcd, SdWrLo, SdPass, Passing,
               SdRead, SdDone, SdWait
        <3>2. PICK k \in Nat : Left = 0 /\ Left' = k /\ k <= 2 * p
            <4>1. Left = 0 /\ Left' \in Nat /\ Left' <= 2 * Pass
                BY <2>4, <3>1 DEF SdIdle, Goes, Left, HalfLeft, Working, Pass
            <4> QED BY <2>p, <4>1
        <3>3. ref_pending => st' = "refresh" /\ tmr' = C_RFC
            BY <3>1 DEF SdIdle, Goes, RefreshFirst
        <3>4. ~ref_pending => st' # "refresh"
            BY <3>1 DEF SdIdle, Goes, RefreshFirst
        <3>5. CASE ref_pending
            <4>1. refi + C_RFC + 2 <= RefInterval
                BY <2>1, <2>4, <3>2, <3>5 DEF Deadline
            <4>2. refi' = refi + 1
                BY <2>1, <2>2, <4>1
            <4>3. refi' + tmr' + 1 <= RefInterval
                BY <2>1, <3>3, <3>5, <4>1, <4>2
            <4> QED BY <2>p, <3>2, <3>3, <3>5, <4>3 DEF Deadline
        <3>6. CASE ~ref_pending
            <4>1. ref_pending' => refi' + k + C_RFC + 2 <= RefInterval
                BY <2>1, <2>2, <2>p, <3>2, <3>6
            <4> QED BY <2>p, <3>2, <3>4, <3>6, <4>1 DEF Deadline
        <3> QED BY <3>5, <3>6
    <2>5. CASE st = "refresh"
        <3>1. \/ st' = "refresh" /\ tmr # 0 /\ tmr' = tmr - 1
              \/ st' = "idle"
            BY <1>2, <2>1, <2>5 DEF Next, SdramEdge, SdIdle, SdAct, SdRcd, SdWrLo, SdPass,
               Passing, SdRead, SdDone, SdWait, Goes, Down
        <3>2. Left' = 0
            BY <3>1 DEF Left, HalfLeft, Working
        <3> QED BY <2>1, <2>2, <2>5, <3>1, <3>2 DEF Deadline, Pass
    <2> QED BY <2>3, <2>4, <2>5 DEF Working
<1> QED BY <1>1, <1>2
-----------------------------------------------------------------------------
(* The theorems *)

LEMMA Invariance == Spec => []IInv
<1>1. Init => IInv
    BY Initially
<1>2. IInv /\ [Next]_vars => IInv'
    BY StepKeeps
<1> QED BY <1>1, <1>2, PTL DEF Spec

\* For any words, row lengths and timings: an acknowledgement reaches a port that
\* is asking, from one controller, and memory has done exactly what that port
\* asked for since the one before (TransactionExact).
THEOREM TransactionsAreExact == Spec => []TransactionExact
<1>1. IInv => TransactionExact
    BY DEF IInv, Exact, Selected, Logged, TransactionExact, m_ack
<1> QED BY <1>1, Invariance, PTL

\* For any of them the SDRAM is commanded as it must be: rows closed at ACTIVE
\* and REFRESH, and the open row the addressed one at every command to it, though
\* the controller keeps no address (CommandsLegal).
THEOREM CommandsAreLegal == Spec => []CommandsLegal
<1>1. IInv => CommandsLegal
    <2>1. ASSUME IInv, st \in {"rcd", "wr_lo"} PROVE cur # NoReq
        <3>1. m_req
            BY <2>1 DEF IInv, Exact, Selected, Working
        <3>2. bus.addr \in Addr
            BY <2>1, <3>1, BusType DEF IInv
        <3>3. cur \in Addr
            BY <3>1, <3>2, UpType DEF cur
        <3> QED BY <3>3, SomeIsNotNone
    <2> QED BY <2>1 DEF IInv, Exact, RowOpen, CommandsLegal
<1> QED BY <1>1, Invariance, PTL

\* For any of them the picture waits for one transaction at most, the one it
\* found under way (VideoWaitsOnce).
THEOREM PictureWaitsOnce == Spec => []VideoWaitsOnce
<1>1. IInv => VideoWaitsOnce
    BY DEF IInv, Waited, VideoWaitsOnce
<1> QED BY <1>1, Invariance, PTL

\* If the refresh interval has room for a burst and a refresh, no refresh is ever
\* lost, however the ports load the bus (RefreshInTime).
THEOREM RefreshesAreInTime == RefreshFits /\ Spec => []RefreshInTime
<1> SUFFICES ASSUME RefreshFits PROVE Spec => []RefreshInTime
    OBVIOUS
<1>1. Init => Deadline
    BY TimingAssumption DEF Init, Deadline, Left, HalfLeft, Working, Pass, RefreshFits
<1>2. IInv /\ Deadline /\ [Next]_vars => Deadline'
    BY DeadlineStep
<1>3. IInv /\ Deadline => RefreshInTime
    <2>1. IInv => tmr \in Nat /\ Left \in Nat
        BY TimingAssumption
           DEF IInv, Typed, SdramTyped, States, Left, HalfLeft, Working, Pass
    <2> QED BY <2>1, TimingAssumption DEF Deadline, RefreshInTime
<1> QED BY <1>1, <1>2, <1>3, Invariance, PTL DEF Spec
=============================================================================
