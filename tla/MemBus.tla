------------------------------- MODULE MemBus -------------------------------
(* The memory side of the machine: the three-way arbiter (src/arbiter3.sv), *)
(* the device-select latch (src/project.sv), the SDRAM controller with its  *)
(* refresh timer (src/sdram_ctrl.sv), the flash controller (src/qspi_ctrl.sv)*)
(* and the three ports that share them: the text fetcher of src/vga_text.sv, *)
(* the data cache's miss port and the instruction cache's.  One step is one  *)
(* rising clock edge.  What a transaction touches is recorded in a log, to be *)
(* compared with what its port asked for when it is acknowledged.            *)
EXTENDS Integers, Sequences

CONSTANTS
    W,              \* words per device; a burst's second word wraps
    RowTxns,        \* transactions of a text row (10 in the code)
    RowGap,         \* arbitration rounds the raster leaves between two rows
    RefInterval,    \* C_REFI (195 in the code)
    C_RFC, C_RCD, C_RP, RD_WAIT,
    VAddr, DAddr, FAddr      \* the words each port may ask for

ASSUME BusAssumption == W \in Nat \ {0} /\ RowTxns \in Nat \ {0} /\ RowGap \in Nat
ASSUME TimingAssumption == RefInterval \in Nat /\ C_RFC \in Nat /\ C_RCD \in Nat \ {0}
                           /\ C_RP \in Nat /\ RD_WAIT \in Nat

Addr == [ram: BOOLEAN, w: 0 .. W - 1]
ASSUME PortAssumption == VAddr \cup DAddr \cup FAddr \subseteq Addr
Up(a, n) == [a EXCEPT !.w = (a.w + n) % W]
NoReq == [none |-> TRUE]

VARIABLES
    grant,                       \* who holds the bus: "none", "vid", "data", "fetch"
    v_left, v_addr, v_gap,       \* vga_text: f_busy and f_txn, v_addr; the raster
    d,                           \* dcache: pending and the latched request
    f,                           \* icache: filling, or an uncached PTE read
    inflight, sel_q,             \* project.sv: the device of the transaction in flight
    st, tmr, second, r_we, r_burst, acked, s_ack,     \* sdram_ctrl
    refi, ref_pending,
    row,                         \* the SDRAM word whose row is open, or NoReq
    q_st, q_addr, q_burst, q_ack,                     \* qspi_ctrl
    log,                         \* history: accesses since the last acknowledgement
    v_waits                      \* history: others served while the fetcher waits

ports == <<v_left, v_addr, v_gap, d, f>>
sdram == <<st, tmr, second, r_we, r_burst, acked, s_ack, row>>
qspi  == <<q_st, q_addr, q_burst, q_ack>>
vars  == <<grant, ports, inflight, sel_q, sdram, refi, ref_pending, qspi, log, v_waits>>
-----------------------------------------------------------------------------
(* Wires *)
m_ack == s_ack \/ q_ack

\* The request of each port, and the one the grant puts on the bus.
v_req == IF v_left = 0 THEN NoReq ELSE [we |-> FALSE, burst |-> TRUE, addr |-> v_addr]
d_req == IF d = NoReq THEN NoReq ELSE [we |-> d.we, burst |-> FALSE, addr |-> d.addr]
f_req == IF f = NoReq THEN NoReq ELSE [we |-> FALSE, burst |-> TRUE, addr |-> f.addr]
bus == CASE grant = "vid"   -> v_req
         [] grant = "data"  -> d_req
         [] grant = "fetch" -> f_req
         [] grant = "none"  -> NoReq
m_req == bus # NoReq

v_ack == grant = "vid" /\ m_ack
d_ack == grant = "data" /\ m_ack
f_ack == grant = "fetch" /\ m_ack

\* A device is selected when its transaction starts, and stays selected.
sel_ram == IF inflight THEN sel_q ELSE bus.addr.ram
s_req == m_req /\ sel_ram
q_req == m_req /\ ~sel_ram
-----------------------------------------------------------------------------
(* The ports *)
\* A text row is RowTxns bursts; once started it is finished, whatever software
\* does to the enable bit and the base register meanwhile.
VideoEdge ==
    IF v_left = 0
    THEN /\ \/ UNCHANGED <<v_left, v_addr>>
            \/ v_gap = 0 /\ v_left' = RowTxns /\ v_addr' \in VAddr
         /\ v_gap' = IF grant = "none" /\ v_gap > 0 THEN v_gap - 1 ELSE v_gap
    ELSE IF v_ack
    THEN /\ v_left' = v_left - 1
         /\ v_addr' = Up(v_addr, 2)
         /\ v_gap' = RowGap
    ELSE UNCHANGED <<v_left, v_addr, v_gap>>

\* The data cache holds its request until it is answered, then drops it.
DataEdge ==
    d' \in IF d = NoReq THEN {NoReq} \cup [we: BOOLEAN, addr: DAddr]
           ELSE IF d_ack THEN {NoReq} ELSE {d}

\* The instruction cache holds a line fill until it is answered.  A page-table
\* read passes through it: the walker learns of the answer a clock later, and
\* until then the answered request stays up; then comes its next read, or none.
FetchEdge ==
    f' \in IF f = NoReq THEN {NoReq} \cup [ptw: BOOLEAN, seen: {FALSE}, addr: FAddr]
           ELSE IF f.seen THEN {NoReq} \cup [ptw: {TRUE}, seen: {FALSE}, addr: FAddr]
           ELSE IF ~f_ack THEN {f}
           ELSE IF f.ptw THEN {[f EXCEPT !.seen = TRUE]} ELSE {NoReq}

(* The arbiter: the picture first, then data, then fetch *)
PickDataFirst == IF d_req # NoReq THEN "data"    \* mutant
                 ELSE IF v_req # NoReq THEN "vid"
                 ELSE IF f_req # NoReq THEN "fetch" ELSE "none"
Pick == IF v_req # NoReq THEN "vid"
        ELSE IF d_req # NoReq THEN "data"
        ELSE IF f_req # NoReq THEN "fetch" ELSE "none"

\* A grant ends with the answer, or when its request is withdrawn.
ReleaseOnAck == m_ack                  \* mutant: a withdrawn request keeps the bus
Release == m_ack \/ ~m_req

ArbiterEdge ==
    grant' = IF grant = "none" THEN Pick ELSE IF Release THEN "none" ELSE grant

SelectEdge ==
    IF ~inflight /\ m_req THEN inflight' = TRUE /\ sel_q' = bus.addr.ram
    ELSE /\ inflight' = (inflight /\ ~(m_ack \/ ~m_req))
         /\ UNCHANGED sel_q
-----------------------------------------------------------------------------
(* The SDRAM controller *)
\* The address is not latched: every phase reads the wires.
cur == IF ~m_req THEN NoReq ELSE IF second THEN Up(bus.addr, 1) ELSE bus.addr

Down == IF tmr = 0 THEN 0 ELSE tmr - 1
Released == acked /\ s_req      \* !req clears the guard on an answered request

Goes(next, time) == st' = next /\ tmr' = time

\* Refresh goes before work.  (Mutants: it waits for a clock on which nobody asks
\* for the bus; the guard is not consulted.)
RefreshWhenIdle == ref_pending /\ {v_req, d_req, f_req} = {NoReq}
RefreshFirst == ref_pending
ReadyAlways == s_req
Ready == s_req /\ ~acked

SdIdle ==
    /\ st = "idle"
    /\ second' = FALSE
    /\ IF RefreshFirst THEN Goes("refresh", C_RFC) /\ UNCHANGED <<r_we, r_burst>>
       ELSE IF Ready THEN Goes("act", Down) /\ r_we' = bus.we /\ r_burst' = bus.burst
       ELSE Goes("idle", Down) /\ UNCHANGED <<r_we, r_burst>>
    /\ s_ack' = FALSE /\ acked' = Released
    /\ UNCHANGED row

\* ACTIVE opens the row of the current word.
SdAct ==
    /\ st = "act"
    /\ Goes("rcd", C_RCD - 1)
    /\ row' = cur
    /\ s_ack' = FALSE /\ acked' = Released
    /\ UNCHANGED <<second, r_we, r_burst>>

\* READ closes its row by itself; the low half of a write keeps it open for the
\* high half.  (Mutant: both halves auto-precharge.)
RowAfterFirst == NoReq
RowAfterCas == IF r_we THEN row ELSE NoReq

SdRcd ==
    /\ st = "rcd" /\ tmr = 0
    /\ IF r_we THEN Goes("wr_lo", Down) ELSE Goes("rd", RD_WAIT)
    /\ row' = RowAfterCas
    /\ s_ack' = FALSE /\ acked' = Released
    /\ UNCHANGED <<second, r_we, r_burst>>

SdWrLo ==
    /\ st = "wr_lo"
    /\ Goes("wr_hi", C_RP)
    /\ row' = NoReq
    /\ s_ack' = FALSE /\ acked' = Released
    /\ UNCHANGED <<second, r_we, r_burst>>

\* The states that only pass time, each with the state it leads to.
Passing == {<<"refresh", "idle">>, <<"wr_hi", "done">>, <<"rd", "rd_lo">>}

SdPass ==
    /\ \E hop \in Passing : st = hop[1] /\ tmr = 0 /\ Goes(hop[2], Down)
    /\ s_ack' = FALSE /\ acked' = Released
    /\ UNCHANGED <<second, r_we, r_burst, row>>

\* The two half-words of a read arrive on two clocks.
SdRead ==
    /\ \/ st = "rd_lo" /\ Goes("rd_hi", Down)
       \/ st = "rd_hi" /\ Goes("done", C_RP)
    /\ s_ack' = FALSE /\ acked' = Released
    /\ UNCHANGED <<second, r_we, r_burst, row>>

\* A burst is two accesses; the second one acknowledges.
SdDone ==
    /\ st = "done" /\ tmr = 0
    /\ IF r_burst /\ ~r_we /\ ~second
       THEN Goes("act", Down) /\ second' = TRUE /\ s_ack' = FALSE /\ acked' = Released
       ELSE Goes("idle", Down) /\ s_ack' = TRUE /\ acked' = TRUE /\ UNCHANGED second
    /\ UNCHANGED <<r_we, r_burst, row>>

SdWait ==
    /\ st \in {"refresh", "rcd", "rd", "wr_hi", "done"} /\ tmr # 0
    /\ Goes(st, Down)
    /\ s_ack' = FALSE /\ acked' = Released
    /\ UNCHANGED <<second, r_we, r_burst, row>>

SdramEdge == SdIdle \/ SdAct \/ SdRcd \/ SdWrLo \/ SdPass \/ SdRead \/ SdDone \/ SdWait

\* The refresh timer runs freely; a refresh that starts pays the debt.
CountRefi == IF refi >= RefInterval THEN 0 ELSE refi + 1

RefreshEdge ==
    /\ refi' = CountRefi
    /\ ref_pending' = (st # "refresh" /\ (ref_pending \/ refi >= RefInterval))

(* The flash controller: it latches the address; a write is a no-op *)
QspiEdge ==
    \/ /\ q_st = "idle"
       /\ IF q_req /\ ~q_ack
          THEN IF bus.we THEN q_ack' = TRUE /\ UNCHANGED <<q_st, q_addr, q_burst>>
               ELSE /\ q_st' = "shift" /\ q_ack' = FALSE
                    /\ q_addr' = bus.addr /\ q_burst' = bus.burst
          ELSE q_ack' = FALSE /\ UNCHANGED <<q_st, q_addr, q_burst>>
    \/ /\ q_st = "shift"                \* command, address, dummy and data bits
       /\ q_st' \in {"shift", "fin"}
       /\ UNCHANGED <<q_ack, q_addr, q_burst>>
    \/ /\ q_st = "fin"
       /\ q_st' = "idle" /\ q_ack' = TRUE
       /\ UNCHANGED <<q_addr, q_burst>>
-----------------------------------------------------------------------------
\* What this clock does to memory: an SDRAM half-write or read goes to the open
\* row and the current column; the flash is read where its latch says.
Reads(a, burst) == IF burst THEN <<<<"rd", a>>, <<"rd", Up(a, 1)>>>> ELSE <<<<"rd", a>>>>

Accesses ==
    (IF st = "rcd" /\ tmr = 0 THEN <<<<IF r_we THEN "lo" ELSE "rd", cur>>>>
     ELSE IF st = "wr_lo" THEN <<<<"hi", cur>>>> ELSE <<>>)
    \o (IF q_st = "fin" THEN Reads(q_addr, q_burst) ELSE <<>>)

HistoryEdge ==
    /\ log' = IF m_ack THEN Accesses ELSE log \o Accesses
    /\ v_waits' = IF v_req = NoReq \/ v_ack THEN 0
                  ELSE IF m_ack /\ v_waits < 2 THEN v_waits + 1 ELSE v_waits

\* Power-up ends with a refresh owed, the timer somewhere before its top.
Init ==
    /\ grant = "none"
    /\ v_left = 0 /\ v_addr \in VAddr /\ v_gap = 0
    /\ d = NoReq /\ f = NoReq
    /\ inflight = FALSE /\ sel_q = FALSE
    /\ st = "idle" /\ tmr = 0 /\ second = FALSE
    /\ r_we = FALSE /\ r_burst = FALSE /\ acked = FALSE /\ s_ack = FALSE
    /\ refi = 0 /\ ref_pending = TRUE
    /\ row = NoReq
    /\ q_st = "idle" /\ q_addr \in VAddr /\ q_burst = FALSE /\ q_ack = FALSE
    /\ log = <<>> /\ v_waits = 0

Next == /\ VideoEdge /\ DataEdge /\ FetchEdge
        /\ ArbiterEdge /\ SelectEdge
        /\ SdramEdge /\ RefreshEdge /\ QspiEdge
        /\ HistoryEdge

Spec == Init /\ [][Next]_vars

\* The clock runs, and the bits of a flash transfer come to an end.
FlashEnds == q_st = "shift" /\ Next /\ q_st' = "fin"
FairSpec == Spec /\ WF_vars(Next) /\ WF_vars(FlashEnds)
-----------------------------------------------------------------------------
(* Properties *)

\* What a request has to do to memory, in order.
Wanted(r) ==
    IF ~r.we THEN Reads(r.addr, r.burst)
    ELSE IF r.addr.ram THEN <<<<"lo", r.addr>>, <<"hi", r.addr>>>> ELSE <<>>

\* An acknowledgement reaches a port that is asking, from one controller, and
\* what memory did since the previous one is exactly what that port asked for:
\* nothing performed twice, nothing for a request that has gone, no burst whose
\* second word follows another port's address.
TransactionExact ==
    m_ack => m_req /\ ~(s_ack /\ q_ack) /\ log = Wanted(bus)

\* The SDRAM is commanded as it must be: ACTIVE and REFRESH with every row
\* closed, READ and WRITE to the row that is open, though the address comes from
\* wires the arbiter could have moved since.
CommandsLegal ==
    /\ st \in {"act", "refresh"} => row = NoReq
    /\ st = "idle" /\ ref_pending => row = NoReq
    /\ (st = "rcd" /\ tmr = 0) \/ st = "wr_lo" => row = cur /\ row # NoReq

\* No refresh is lost: when the timer comes round, the one it asked for before
\* has been issued, however the three ports load the bus.
RefreshInTime == refi = RefInterval => ~ref_pending /\ st # "refresh"

\* The picture waits for one transaction at most, the one it found under way.
VideoWaitsOnce == v_waits <= 1

\* Every request is served in the end, the lowest priority's too.
EveryoneServed ==
    /\ (v_req # NoReq) ~> v_ack
    /\ (d # NoReq) ~> d_ack
    /\ (f # NoReq /\ ~f.seen) ~> f_ack
=============================================================================
