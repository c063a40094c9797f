---------------------------- MODULE CorePortProofs ----------------------------
(* Proofs about the core's data side.                                       *)
EXTENDS CorePort, TLAPS

CoreTyped ==
    /\ mmu_on \in Modes
    /\ ex \in Instruction /\ m \in {Bubble} \cup [op: MemOps, st: Word, addr: Addr]
    /\ d_seen \in BOOLEAN /\ amo_wr \in BOOLEAN
    /\ d_data_r \in Word /\ old_q \in Word
    /\ res \in Addr \cup {"none"}
    /\ d_inflight \in BOOLEAN /\ d_owner_dw \in BOOLEAN
    /\ dw_state \in 0 .. 2 /\ dw_vpn \in Pages /\ dw_addr \in Addr \ IOAddr
    /\ dtlb \in [1 .. N -> {Empty} \cup Entry] /\ rr \in 1 .. N
SlaveTyped ==
    /\ busy \in BOOLEAN /\ ack_q \in BOOLEAN /\ x_ack \in BOOLEAN
    /\ rdata_q \in Word /\ mem \in [Addr -> Word]
Typed == CoreTyped /\ SlaveTyped

\* A page has one entry at most: the TLB is filled only after a miss.
OneEntry ==
    \A i, j \in 1 .. N : dtlb[i].valid /\ dtlb[j].valid /\ dtlb[i].vpn = dtlb[j].vpn => i = j

\* What M remembers is of the instruction it holds.
Remembers ==
    /\ d_seen => m.op \in MemOps /\ ~amo_wr /\ ~(m.op = "sc" /\ ~sc_ok)
    /\ amo_wr => m.op = "amo"

\* One transaction at a time, its owner is who asks, and it is what the port shows.
OneOwner ==
    /\ d_inflight <=> busy \/ ack_q \/ x_ack
    /\ ~(busy /\ ack_q) /\ ~(busy /\ x_ack) /\ ~(ack_q /\ x_ack)
    /\ d_inflight => (d_owner_dw <=> dw_req) /\ (dw_req \/ d_active)
    /\ busy \/ ack_q => sreq = Shows /\ Shows # NoReq
    /\ x_ack => d_active /\ m.addr \in IOAddr
    /\ ack_q => IF sreq.we THEN mem[sreq.addr] = sreq.wdata
                           ELSE rdata_q = mem[sreq.addr]

\* A walk is for the page EX waits for, through the tables as they are; from its
\* second read on M is quiet.
Walking ==
    dw_state # 0 =>
        /\ tlb_stall /\ dw_vpn = ex.page
        /\ dw_state = 1 => dw_addr = L1Addr(ex.page)
        /\ dw_state = 2 =>
             LET pte1 == mem[L1Addr(ex.page)]
             IN  ~d_active /\ ~PteBad(pte1) /\ ~PteLeaf(pte1) /\ dw_addr = L0Addr(pte1, ex.page)

\* M's last access has been made: it is acknowledged now, or has been.
Made == d_seen \/ (d_active /\ d_ack)

Count(r, w) == [rd |-> r, wr |-> w]
Counted ==
    /\ m.op \in {"load", "lr"} => acc = IF Made THEN Count(1, 0) ELSE Count(0, 0)
    /\ m.op = "store"          => acc = IF Made THEN Count(0, 1) ELSE Count(0, 0)
    /\ m.op = "sc"             => acc = IF Made THEN Count(0, 1) ELSE Count(0, 0)
    /\ m.op = "amo" =>
          acc = IF d_seen \/ (amo_wr /\ Made) THEN Count(1, 1)
                ELSE IF amo_wr \/ Made THEN Count(1, 0) ELSE Count(0, 0)

\* What M's word holds, and what M holds of it, after each access.
Valued ==
    m.op \in MemOps /\ m.addr \notin IOAddr =>
        /\ mem[m.addr] = IF m.op \in {"store", "sc"} /\ Made THEN m.st
                         ELSE IF m.op = "amo" /\ (d_seen \/ (amo_wr /\ Made)) THEN AmoNew(m0, m.st)
                         ELSE m0
        /\ m.op \in {"load", "lr", "amo"} /\ d_seen => d_data_r = m0
        /\ amo_wr => old_q = m0
        /\ ~m_writes /\ d_active /\ d_ack => rdata_q = m0

\* The reservation is the link until M itself writes.
Linked ==
    res # "none" /\ ~(m.op \in {"store", "sc", "amo"} /\ acc.wr # 0) => linked = res

IInv == Typed /\ OneEntry /\ Remembers /\ OneOwner /\ Walking /\ Counted /\ Valued /\ Linked
-----------------------------------------------------------------------------
(* The wires *)

\* No instruction of memory is an empty stage, and no request none.
LEMMA SomeIsNotNone ==
    /\ \A a, b, c : [op |-> a, st |-> b, addr |-> c] = Bubble => a \notin MemOps
    /\ \A r : r.op \in MemOps => r # Bubble
    /\ Bubble.op \notin MemOps
    /\ \A a, b, c : [we |-> a, ptw |-> b, addr |-> c] # NoReq
    /\ \A a, b, c, d : [we |-> a, ptw |-> b, addr |-> c, wdata |-> d] # NoReq
    /\ ~Empty.valid
BY DEF Bubble, MemOps, NoReq, Empty

LEMMA MTyped ==
    ASSUME Typed, m.op \in MemOps
    PROVE  m.st \in Word /\ m.addr \in Addr
BY SomeIsNotNone DEF Typed, CoreTyped

LEMMA ExTyped ==
    ASSUME Typed, ex.op \in MemOps
    PROVE  ex.page \in Pages /\ ex.st \in Word
BY DEF Typed, CoreTyped, Instruction, Bubble, MemOps

\* Who asks is who will be answered.
LEMMA WhoAsks ==
    ASSUME IInv
    PROVE  /\ ~(dw_req /\ d_active)
           /\ d_ack => dw_req \/ d_active
           /\ dw_ack <=> d_ack /\ dw_req
           /\ m_ack_here <=> d_ack /\ d_active
           /\ d_req <=> (d_active /\ ~d_ack) \/ dw_req
           /\ mstall <=> d_active /\ ~d_ack
           /\ dw_req => dw_state # 0 /\ tlb_stall
           /\ pstall <=> (d_active /\ ~d_ack) \/ md_stall \/ astall \/ tlb_stall
BY DEF IInv, Typed, CoreTyped, SlaveTyped, OneOwner, Walking, dw_req, d_ack, dw_ack, m_ack_here,
   d_owner_is_dw, d_req, mstall, pstall

\* What the port shows is a request for a word of memory.
LEMMA ShowsType ==
    ASSUME IInv
    PROVE  /\ Shows # NoReq =>
                 /\ Shows \in [we: {FALSE}, ptw: BOOLEAN, addr: Addr \ IOAddr]
                              \cup [we: {TRUE}, ptw: {FALSE}, addr: Addr \ IOAddr, wdata: Word]
                 /\ Shows.ptw <=> dw_req
                 /\ dw_req => Shows.addr = dw_addr /\ ~Shows.we
                 /\ ~dw_req => /\ d_active /\ m.addr \notin IOAddr /\ Shows.addr = m.addr
                               /\ Shows.we <=> m_writes
                               /\ Shows.we => Shows.wdata = m_data
           /\ Shows = NoReq <=> ~dw_req /\ (~d_active \/ m.addr \in IOAddr)
<1>1. dw_addr \in Addr \ IOAddr
    BY DEF IInv, Typed, CoreTyped
<1>2. d_active => m.addr \in Addr /\ m.st \in Word
    BY MTyped DEF d_active, IInv
<1>3. d_active => m_data \in Word
    BY <1>2, PlaceAssumption DEF m_data, IInv, Typed, CoreTyped
<1>4. CASE dw_req
    BY <1>1, <1>4, SomeIsNotNone DEF Shows
<1>5. CASE ~dw_req /\ (~d_active \/ m.addr \in IOAddr)
    BY <1>5 DEF Shows
<1>6. CASE ~dw_req /\ d_active /\ m.addr \notin IOAddr /\ m_writes
    BY <1>2, <1>3, <1>6, SomeIsNotNone DEF Shows
<1>7. CASE ~dw_req /\ d_active /\ m.addr \notin IOAddr /\ ~m_writes
    BY <1>2, <1>7, SomeIsNotNone DEF Shows
<1> QED BY <1>4, <1>5, <1>6, <1>7
-----------------------------------------------------------------------------
(* The port, from one clock to the next *)

\* Nobody asks: the port stays at rest.
LEMMA PortRests ==
    ASSUME IInv, NEW irq, NEW instr, Clock(irq, instr), ~d_active, ~dw_req
    PROVE  ~busy' /\ ~ack_q' /\ ~x_ack' /\ ~d_inflight' /\ mem' = mem /\ rdata_q' = rdata_q
<1> USE DEF IInv, Typed, CoreTyped, SlaveTyped
<1>1. ~d_req /\ ~d_ack /\ ~busy /\ ~d_inflight
    BY WhoAsks DEF OneOwner, d_ack
<1>2. ~SlaveReady /\ ~x_sel
    BY <1>1 DEF SlaveReady, dc_req, x_sel
<1>3. SlaveWaits
    BY <1>1, <1>2 DEF Clock, SlaveAccepts, SlaveAnswers
<1>4. d_inflight' = d_inflight
    BY <1>1 DEF Clock, OwnerEdge
<1> QED BY <1>1, <1>2, <1>3, <1>4 DEF SlaveWaits, Clock, DeviceEdge

\* An acknowledgement: the clock after it the port is at rest.
LEMMA PortAnswered ==
    ASSUME IInv, NEW irq, NEW instr, Clock(irq, instr), d_ack
    PROVE  ~busy' /\ ~ack_q' /\ ~x_ack' /\ ~d_inflight' /\ mem' = mem /\ rdata_q' = rdata_q
<1> USE DEF IInv, Typed, CoreTyped, SlaveTyped
<1>1. ~busy
    BY DEF OneOwner, d_ack
<1>2. ~SlaveReady
    <2>1. CASE ack_q
        BY <2>1 DEF SlaveReady
    <2>2. CASE x_ack
        BY <2>2, WhoAsks DEF SlaveReady, dc_req, OneOwner
    <2> QED BY <2>1, <2>2 DEF d_ack
<1>3. SlaveWaits
    BY <1>1, <1>2 DEF Clock, SlaveAccepts, SlaveAnswers
<1>4. ~(x_sel /\ ~x_ack)
    <2>1. CASE dw_req
        BY <2>1 DEF x_sel, d_addr
    <2>2. CASE ~dw_req
        BY <2>2, WhoAsks DEF x_sel
    <2> QED BY <2>1, <2>2
<1> QED BY <1>1, <1>3, <1>4 DEF SlaveWaits, Clock, DeviceEdge, OwnerEdge

\* A request that is not answered yet: it is accepted, a device is selected, the
\* memory is at work, or it answers.
LEMMA PortAsks ==
    ASSUME IInv, NEW irq, NEW instr, Clock(irq, instr), d_active \/ dw_req, ~d_ack
    PROVE  /\ d_inflight' /\ (d_owner_dw' <=> dw_req)
           /\ \/ ~busy /\ Shows # NoReq /\ busy' /\ sreq' = Shows /\ ~ack_q' /\ ~x_ack'
                 /\ mem' = mem /\ rdata_q' = rdata_q
              \/ ~busy /\ Shows = NoReq /\ ~dw_req /\ m.addr \in IOAddr
                 /\ ~busy' /\ ~ack_q' /\ x_ack' /\ mem' = mem /\ rdata_q' = rdata_q
              \/ busy /\ Shows # NoReq /\ busy' /\ sreq' = Shows /\ ~ack_q' /\ ~x_ack'
                 /\ mem' = mem /\ rdata_q' = rdata_q
              \/ busy /\ Shows # NoReq /\ ~busy' /\ sreq' = Shows /\ ack_q' /\ ~x_ack'
                 /\ IF Shows.we THEN mem' = Effect(mem, Shows) /\ rdata_q' \in Word
                                ELSE mem' = mem /\ rdata_q' = mem[Shows.addr]
<1> USE DEF IInv, Typed, CoreTyped, SlaveTyped
<1>1. d_req /\ ~ack_q /\ ~x_ack /\ (d_inflight <=> busy)
    BY WhoAsks DEF OneOwner, d_ack
<1>2. d_inflight' /\ (d_owner_dw' <=> dw_req)
    BY <1>1 DEF Clock, OwnerEdge, d_ack, OneOwner
<1>3. (d_addr \in IOAddr <=> Shows = NoReq) /\ (Shows = NoReq => ~dw_req /\ m.addr \in IOAddr)
    BY ShowsType DEF d_addr
<1>4. (dc_req <=> Shows # NoReq) /\ (x_sel <=> Shows = NoReq)
    BY <1>1, <1>3 DEF dc_req, x_sel
<1>5. x_ack' <=> Shows = NoReq
    BY <1>1, <1>4 DEF Clock, DeviceEdge
<1>6. busy => Shows # NoReq /\ sreq = Shows
    BY DEF OneOwner
<1>7. CASE SlaveAccepts
    BY <1>1, <1>2, <1>4, <1>5, <1>7 DEF SlaveAccepts, SlaveReady
<1>8. CASE SlaveAnswers
    BY <1>1, <1>2, <1>5, <1>6, <1>8 DEF SlaveAnswers
<1>9. CASE SlaveWaits
    BY <1>1, <1>2, <1>3, <1>4, <1>5, <1>6, <1>9 DEF SlaveWaits, SlaveReady
<1> QED BY <1>7, <1>8, <1>9 DEF Clock
-----------------------------------------------------------------------------
(* The M stage, from one clock to the next *)

\* A stalled clock moves no instruction.
LEMMA Frozen ==
    ASSUME NEW irq, NEW instr, Clock(irq, instr), pstall
    PROVE  /\ m' = m /\ ex' = ex /\ res' = res /\ mmu_on' = mmu_on /\ m0' = m0
           /\ sc_ok' = sc_ok /\ rmw_m' = rmw_m
           /\ TlbEdge(FALSE) /\ WalkerEdge
BY DEF Clock, PipelineEdge, ReservationEdge, HistoryEdge, sc_ok, rmw_m

\* M asks: it keeps what it is doing.
LEMMA MAsks ==
    ASSUME IInv, NEW irq, NEW instr, Clock(irq, instr), d_active, ~d_ack
    PROVE  /\ pstall /\ ~d_seen' /\ amo_wr' = amo_wr /\ old_q' = old_q
           /\ d_data_r' = d_data_r
           /\ d_active' /\ ~dw_req' /\ Shows' = Shows /\ m_writes' = m_writes
<1>1. pstall /\ mstall /\ ~dw_req
    BY WhoAsks
<1>2. ~d_seen' /\ d_data_r' = d_data_r
    BY <1>1 DEF Clock, SeenEdge, SeenNow, KeptWord, d_active
<1>3. amo_wr' = amo_wr /\ old_q' = old_q
    BY <1>1 DEF Clock, AmoEdge
<1>4. m' = m /\ sc_ok' = sc_ok
    BY <1>1, Frozen
<1>5. d_active' /\ m_writes' = m_writes /\ m_data' = m_data
    BY <1>2, <1>3, <1>4 DEF d_active, m_writes, m_data
<1>6. ~dw_req'
    BY <1>5 DEF dw_req
<1>7. Shows' = Shows
    BY <1>1, <1>4, <1>5, <1>6 DEF Shows
<1> QED BY <1>1, <1>2, <1>3, <1>5, <1>6, <1>7

\* M is answered and stays: an AMO turns to its write, anything else is done.
LEMMA MAnswered ==
    ASSUME IInv, NEW irq, NEW instr, Clock(irq, instr), d_active, d_ack, pstall
    PROVE  \/ /\ m.op = "amo" /\ ~amo_wr
              /\ ~d_seen' /\ amo_wr' /\ old_q' = d_rdata /\ d_data_r' = d_data_r
           \/ /\ ~(m.op = "amo" /\ ~amo_wr)
              /\ d_seen' /\ ~amo_wr'
              /\ d_data_r' = IF amo_wr THEN old_q ELSE d_rdata
<1>1. ~mstall /\ ~d_seen /\ d_ack
    BY WhoAsks DEF d_active
<1>2. CASE m.op = "amo" /\ ~amo_wr
    BY <1>1, <1>2 DEF Clock, SeenEdge, SeenNow, KeptWord, AmoEdge, mem_word, rmw_m
<1>3. CASE ~(m.op = "amo" /\ ~amo_wr)
    <2>1. d_seen' /\ d_data_r' = IF amo_wr THEN old_q ELSE d_rdata
        BY <1>3 DEF Clock, SeenEdge, SeenNow, KeptWord, rmw_m, IInv, Remembers
    <2>2. ~amo_wr'
        BY <1>3 DEF Clock, AmoEdge, rmw_m, IInv, Remembers, Typed, CoreTyped
    <2> QED BY <1>3, <2>1, <2>2
<1> QED BY <1>2, <1>3

\* M is quiet and stays: nothing of it changes, and it stays quiet.
LEMMA MQuiet ==
    ASSUME IInv, NEW irq, NEW instr, Clock(irq, instr), ~d_active, pstall
    PROVE  /\ d_seen' = d_seen /\ ~amo_wr /\ ~amo_wr' /\ old_q' = old_q
           /\ d_data_r' = d_data_r /\ ~d_active'
<1> USE DEF IInv, Remembers
<1>1. d_seen' = d_seen
    BY DEF Clock, SeenEdge, SeenNow, Typed, CoreTyped
<1>2. d_data_r' = d_data_r
    BY DEF Clock, SeenEdge, KeptWord
<1>3. m.op = "amo" => d_seen
    BY DEF d_active, MemOps
<1>4. ~amo_wr /\ ~amo_wr' /\ old_q' = old_q
    BY <1>3 DEF Clock, AmoEdge, rmw_m, Typed, CoreTyped
<1>5. ~d_active'
    BY <1>1, Frozen DEF d_active
<1> QED BY <1>1, <1>2, <1>4, <1>5

\* A clock that commits: M has been answered or asks nothing, and leaves the
\* port, its memory of the access and the walker at rest.
LEMMA Commits ==
    ASSUME IInv, NEW irq, NEW instr, Clock(irq, instr), ~pstall
    PROVE  /\ ~busy' /\ ~ack_q' /\ ~x_ack' /\ ~d_inflight' /\ mem' = mem /\ rdata_q' = rdata_q
           /\ ~d_seen' /\ ~amo_wr' /\ dw_state' = 0 /\ acc' = Count(0, 0)
           /\ old_q' = old_q /\ d_data_r' \in Word
           /\ dw_state = 0 /\ dw_addr' = dw_addr /\ dw_vpn' = dw_vpn
           /\ ~tlb_stall /\ ~dw_fill
<1> USE DEF IInv
<1>1. ~tlb_stall /\ ~astall /\ ~dw_req /\ (d_active => d_ack)
    BY WhoAsks
<1>2. dw_state = 0
    BY <1>1 DEF Walking
<1>3. ~busy' /\ ~ack_q' /\ ~x_ack' /\ ~d_inflight' /\ mem' = mem /\ rdata_q' = rdata_q
    BY <1>1, PortRests, PortAnswered
<1>4. ~d_seen' /\ d_data_r' \in Word
    BY DEF Clock, SeenEdge, KeptWord, Typed, CoreTyped, SlaveTyped, d_rdata
<1>5. ~amo_wr /\ ~amo_wr' /\ old_q' = old_q
    BY <1>1 DEF Clock, AmoEdge, astall, rmw_m, Remembers, Typed, CoreTyped
<1>6. ~dw_fill
    BY <1>2 DEF dw_fill, dw_l1, dw_l0
<1>7. dw_state' = 0 /\ dw_addr' = dw_addr /\ dw_vpn' = dw_vpn
    BY <1>1, <1>2, <1>6 DEF Clock, WalkerEdge, dw_l1
<1>8. acc' = Count(0, 0)
    BY DEF Clock, HistoryEdge, Count
<1> QED BY <1>1, <1>2, <1>3, <1>4, <1>5, <1>6, <1>7, <1>8
-----------------------------------------------------------------------------
(* The walker and its TLB, from one clock to the next *)

\* The lookup's last match is the only one.
LEMMA HitIsEntry ==
    ASSUME IInv, dtlb_hit, NEW i \in Hits(ex.page) PROVE HitEntry = dtlb[i] /\ dtlb[i] \in Entry
<1>1. \A j \in Hits(ex.page) : j = i
    BY DEF Hits, IInv, OneEntry
<1>2. \A j \in Hits(ex.page) : j <= i
    BY <1>1, SizeAssumption DEF Hits
<1>3. (CHOOSE k \in Hits(ex.page) : \A j \in Hits(ex.page) : j <= k) = i
    BY <1>1, <1>2
<1>4. dtlb[i] \in Entry
    BY SomeIsNotNone DEF Hits, IInv, Typed, CoreTyped
<1> QED BY <1>3, <1>4 DEF HitEntry

\* A walk that ends is for the page EX waits for, and has read what memory holds.
LEMMA WalkEnds ==
    ASSUME IInv, dw_ack
    PROVE  /\ dpte = mem[dw_addr] /\ dpte \in Word
           /\ tlb_stall /\ dw_vpn = ex.page /\ dw_state # 0 /\ ~d_active
<1>1. d_ack /\ dw_req /\ ~d_active /\ dw_state # 0
    BY WhoAsks
<1>2. ack_q
    BY <1>1 DEF d_ack, IInv, OneOwner
<1>3. sreq = Shows /\ Shows.addr = dw_addr /\ ~Shows.we
    BY <1>1, <1>2, ShowsType DEF IInv, OneOwner
<1>4. dpte = mem[dw_addr]
    BY <1>2, <1>3 DEF dpte, d_rdata, IInv, OneOwner
<1>5. dpte \in Word
    BY DEF dpte, d_rdata, IInv, Typed, SlaveTyped
<1> QED BY <1>1, <1>4, <1>5 DEF IInv, Walking

\* What a final answer puts into the TLB is what the tables say.
LEMMA FillIsWalk ==
    ASSUME IInv, dw_fill
    PROVE  /\ tlb_stall /\ dw_vpn = ex.page
           /\ Fill(2 - dw_state, dpte, dw_vpn) = Walk(mem, ex.page)
           /\ Fill(2 - dw_state, dpte, dw_vpn) \in Entry
<1>1. dw_ack /\ dw_state \in {1, 2}
    BY DEF dw_fill, dw_l1, dw_l0
<1>2. /\ dpte = mem[dw_addr] /\ dpte \in Word
      /\ tlb_stall /\ dw_vpn = ex.page /\ dw_state # 0 /\ ~d_active
    BY <1>1, WalkEnds
<1>3. ex.page \in Pages
    BY <1>2, ExTyped DEF tlb_stall, d_xlate, IInv
<1>4. Fill(2 - dw_state, dpte, dw_vpn) \in Entry
    <2> DEFINE e == Fill(2 - dw_state, dpte, dw_vpn)
    <2>1. Direct(dw_vpn) \in Addr
        BY <1>2, <1>3, PlaceAssumption
    <2>2. ~PteBad(dpte) /\ PteLeaf(dpte) => Phys(dpte, dw_vpn) \in Addr
        BY <1>2, <1>3, PlaceAssumption
    <2> QED BY <1>2, <1>3, <2>1, <2>2 DEF Fill, Entry
<1>5. CASE dw_state = 1
    <2>1. dw_addr = L1Addr(ex.page) /\ (PteBad(dpte) \/ PteLeaf(dpte))
        BY <1>5 DEF IInv, Walking, dw_fill, dw_l0
    <2> QED BY <1>2, <1>4, <1>5, <2>1 DEF Walk
<1>6. CASE dw_state = 2
    BY <1>2, <1>4, <1>6 DEF IInv, Walking, Walk
<1> QED BY <1>1, <1>5, <1>6

\* The walker holds its request until it is answered.
LEMMA WalkerAsks ==
    ASSUME IInv, NEW irq, NEW instr, Clock(irq, instr), dw_req, ~d_ack
    PROVE  /\ pstall /\ dw_state' = dw_state /\ dw_addr' = dw_addr /\ dw_vpn' = dw_vpn
           /\ ~d_active' /\ dw_req' /\ Shows' = Shows /\ mem' = mem
<1>1. pstall /\ dw_state # 0 /\ ~dw_ack /\ ~d_active
    BY WhoAsks
<1>2. ~dw_l1 /\ ~dw_fill
    BY <1>1 DEF dw_l1, dw_l0, dw_fill
<1>3. dw_state' = dw_state /\ dw_addr' = dw_addr /\ dw_vpn' = dw_vpn
    BY <1>1, <1>2, Frozen DEF WalkerEdge
<1>4. ~d_active'
    BY <1>1, MQuiet
<1>5. dw_req' /\ Shows' = Shows
    BY <1>1, <1>3, <1>4 DEF dw_req, Shows
<1>6. mem' = mem
    <2>1. Shows # NoReq /\ ~Shows.we
        BY ShowsType
    <2> QED BY <2>1, PortAsks
<1> QED BY <1>1, <1>3, <1>4, <1>5, <1>6

LEMMA TlbStep ==
    ASSUME IInv, NEW irq, NEW instr, Clock(irq, instr)
    PROVE  /\ dtlb' \in [1 .. N -> {Empty} \cup Entry] /\ rr' \in 1 .. N
           /\ OneEntry'
           /\ pstall /\ ~dw_fill => dtlb' = dtlb
<1> USE SizeAssumption DEF IInv, Typed, CoreTyped
<1>1. CASE pstall /\ dw_fill
    <2>1. /\ dtlb' = [dtlb EXCEPT ![rr] = Fill(2 - dw_state, dpte, dw_vpn)]
          /\ rr' = NextWay
        BY <1>1, Frozen DEF TlbEdge
    <2>2. /\ tlb_stall /\ dw_vpn = ex.page
          /\ Fill(2 - dw_state, dpte, dw_vpn) \in Entry
        BY <1>1, FillIsWalk
    <2>3. Fill(2 - dw_state, dpte, dw_vpn).vpn = ex.page
        BY <2>2 DEF Fill
    <2>4. \A i \in 1 .. N : dtlb[i].valid => dtlb[i].vpn # ex.page
        BY <2>2 DEF tlb_stall, dtlb_hit, Hits
    <2>5. OneEntry'
        BY <2>1, <2>2, <2>3, <2>4 DEF OneEntry
    <2> QED BY <1>1, <2>1, <2>2, <2>5 DEF NextWay
<1>2. CASE pstall /\ ~dw_fill
    BY <1>2, Frozen DEF TlbEdge, OneEntry
<1>3. CASE ~pstall
    <2>1. PICK flush : TlbEdge(flush)
        BY DEF Clock
    <2>2. ~dw_fill
        BY <1>3, Commits
    <2> QED BY <1>3, <2>1, <2>2, SomeIsNotNone DEF TlbEdge, OneEntry
<1> QED BY <1>1, <1>2, <1>3

LEMMA WalkStep ==
    ASSUME IInv, NEW irq, NEW instr, Clock(irq, instr)
    PROVE  /\ dw_state' \in 0 .. 2 /\ dw_vpn' \in Pages /\ dw_addr' \in Addr \ IOAddr
           /\ Walking'
<1> USE DEF IInv, Typed, CoreTyped
<1>1. CASE ~pstall
    BY <1>1, Commits DEF Walking
<1>2. CASE pstall
    <2>1. m' = m /\ ex' = ex /\ mmu_on' = mmu_on /\ WalkerEdge
        BY <1>2, Frozen
    <2>2. ~dw_fill /\ tlb_stall => tlb_stall'
        BY <1>2, <2>1, TlbStep DEF tlb_stall, d_xlate, dtlb_hit, Hits
    <2>3. CASE dw_state = 0 /\ tlb_stall
        <3>1. dw_vpn' = ex.page /\ dw_addr' = L1Addr(ex.page) /\ dw_state' = 1 /\ ~dw_fill
            BY <2>1, <2>3 DEF WalkerEdge, dw_fill, dw_l1, dw_l0
        <3>2. ex.page \in Pages
            BY <2>3, ExTyped DEF tlb_stall, d_xlate
        <3> QED BY <2>1, <2>2, <2>3, <3>1, <3>2, PlaceAssumption DEF Walking
    <2>4. CASE dw_l1 /\ ~dw_fill
        <3>1. dw_ack /\ dw_state = 1
            BY <2>4 DEF dw_l1
        <3>2. /\ dpte = mem[dw_addr] /\ dpte \in Word
              /\ tlb_stall /\ dw_vpn = ex.page /\ ~d_active
            BY <3>1, WalkEnds
        <3>3. ~PteBad(dpte) /\ ~PteLeaf(dpte)
            BY <2>4 DEF dw_fill
        <3>4. dw_addr' = L0Addr(dpte, dw_vpn) /\ dw_state' = 2 /\ dw_vpn' = dw_vpn
            BY <2>1, <2>4, <3>1 DEF WalkerEdge
        <3>5. mem' = mem /\ ~d_active'
            BY <1>2, <3>1, <3>2, WhoAsks, PortAnswered, MQuiet
        <3>6. dw_addr = L1Addr(ex.page)
            BY <3>1 DEF Walking
        <3>7. dw_addr' \in Addr \ IOAddr
            BY <3>2, <3>3, <3>4, PlaceAssumption
        <3> QED BY <2>1, <2>2, <2>4, <3>2, <3>3, <3>4, <3>5, <3>6, <3>7 DEF Walking
    <2>5. CASE dw_fill
        BY <2>1, <2>5 DEF WalkerEdge, Walking, dw_fill, dw_l1, dw_l0
    <2>6. CASE ~dw_fill /\ IF dw_state = 0 THEN ~tlb_stall ELSE ~dw_ack
        <3>1. dw_state' = dw_state /\ dw_addr' = dw_addr /\ dw_vpn' = dw_vpn
            BY <2>1, <2>6 DEF WalkerEdge, dw_l1
        <3>2. dw_state = 2 => dw_req /\ ~d_ack
            BY <2>6, WhoAsks DEF Walking, dw_req
        <3>3. dw_state = 2 => mem' = mem /\ ~d_active'
            BY <3>2, WalkerAsks
        <3> QED BY <2>1, <2>2, <2>6, <3>1, <3>3 DEF Walking
    <2> QED BY <2>1, <2>3, <2>4, <2>5, <2>6 DEF WalkerEdge, dw_fill, dw_l1, dw_l0
<1> QED BY <1>1, <1>2
-----------------------------------------------------------------------------
(* One owner, and the accesses of M *)

LEMMA OwnerStep ==
    ASSUME IInv, NEW irq, NEW instr, Clock(irq, instr)
    PROVE  OneOwner'
<1>1. CASE ~busy' /\ ~ack_q' /\ ~x_ack' /\ ~d_inflight'
    BY <1>1 DEF OneOwner
<1>2. CASE d_ack \/ (~d_active /\ ~dw_req)
    BY <1>1, <1>2, PortAnswered, PortRests
<1>3. CASE ~d_ack /\ (d_active \/ dw_req)
    <2>1. /\ Shows' = Shows /\ m' = m
          /\ dw_req' <=> dw_req
          /\ d_active' <=> d_active
        <3>1. CASE d_active
            BY <1>3, <3>1, MAsks, Frozen, WhoAsks
        <3>2. CASE dw_req
            BY <1>3, <3>2, WalkerAsks, Frozen, WhoAsks
        <3> QED BY <1>3, <3>1, <3>2
    <2>2. Shows # NoReq => Shows.addr \in Addr /\ (Shows.we => Shows.wdata \in Word)
        BY ShowsType
    <2>3. mem \in [Addr -> Word]
        BY DEF IInv, Typed, SlaveTyped
    <2> QED BY <1>3, <2>1, <2>2, <2>3, PortAsks, WhoAsks DEF OneOwner, Effect
<1> QED BY <1>2, <1>3

LEMMA RemembersStep ==
    ASSUME IInv, NEW irq, NEW instr, Clock(irq, instr)
    PROVE  Remembers'
<1>1. CASE ~pstall
    BY <1>1, Commits DEF Remembers
<1>2. CASE pstall /\ d_active /\ ~d_ack
    BY <1>2, MAsks, Frozen DEF Remembers, IInv
<1>3. CASE pstall /\ d_active /\ d_ack
    BY <1>3, MAnswered, Frozen DEF Remembers, d_active
<1>4. CASE pstall /\ ~d_active
    BY <1>4, MQuiet, Frozen DEF Remembers, IInv
<1> QED BY <1>1, <1>2, <1>3, <1>4

\* The history of a stalled clock: one access, on the clock M is answered.
LEMMA Accesses ==
    ASSUME IInv, NEW irq, NEW instr, Clock(irq, instr), pstall
    PROVE  /\ acc' = IF ~(d_active /\ ~d_ack /\ d_ack') THEN acc
                     ELSE IF m_writes THEN [acc EXCEPT !.wr = Saturated(@)]
                                      ELSE [acc EXCEPT !.rd = Saturated(@)]
           /\ linked' = IF /\ d_active /\ ~d_ack /\ ack_q'
                           /\ m_writes /\ m.addr = linked
                        THEN "none" ELSE linked
<1> DEFINE served == busy /\ ~busy' /\ ~sreq.ptw
           device == x_sel /\ ~x_ack
           writes == IF device THEN d_we ELSE sreq.we
<1>1. /\ acc' = IF ~served /\ ~device THEN acc
                 ELSE IF writes THEN [acc EXCEPT !.wr = Saturated(@)]
                                ELSE [acc EXCEPT !.rd = Saturated(@)]
      /\ linked' = IF served /\ sreq.we /\ sreq.addr = linked THEN "none" ELSE linked
    BY DEF Clock, HistoryEdge
<1> USE DEF IInv, Typed, SlaveTyped, CoreTyped
<1>2. CASE d_active /\ ~d_ack
    <2>1. ~dw_req /\ d_req
        BY <1>2, WhoAsks
    <2>2. x_sel <=> m.addr \in IOAddr
        BY <2>1 DEF x_sel, d_addr
    <2>3. Shows = NoReq <=> m.addr \in IOAddr
        BY <1>2, <2>1, ShowsType
    <2>4. busy => sreq = Shows
        BY DEF OneOwner
    <2>5. d_we <=> m_writes
        BY <2>1 DEF d_we
    <2>6. Shows # NoReq => ~Shows.ptw /\ (Shows.we <=> m_writes) /\ Shows.addr = m.addr
        BY <2>1, ShowsType
    <2>7. ~x_ack
        BY <1>2 DEF d_ack
    <2>8. CASE Shows = NoReq
        <3>1. ~busy /\ x_ack' /\ ~ack_q'
            BY <1>2, <2>8, PortAsks
        <3> QED BY <1>1, <1>2, <2>2, <2>3, <2>5, <2>7, <2>8, <3>1 DEF d_ack
    <2>9. CASE Shows # NoReq
        <3>1. ~x_ack' /\ (busy /\ ~busy' <=> ack_q')
            BY <1>2, <2>9, PortAsks
        <3>2. ~device
            BY <2>2, <2>3, <2>9
        <3>3. served <=> ack_q'
            BY <2>4, <2>6, <2>9, <3>1
        <3>4. CASE ack_q'
            <4>1. served /\ (writes <=> m_writes) /\ (sreq.we <=> m_writes) /\ sreq.addr = m.addr
                BY <2>4, <2>6, <2>9, <3>2, <3>3, <3>4
            <4> HIDE DEF served, device, writes
            <4> QED BY <1>1, <1>2, <3>4, <4>1 DEF d_ack
        <3>5. CASE ~ack_q'
            <4> HIDE DEF served, device, writes
            <4> QED BY <1>1, <3>1, <3>2, <3>3, <3>5 DEF d_ack
        <3> QED BY <3>4, <3>5
    <2> QED BY <2>8, <2>9
<1>3. CASE d_ack
    <2>1. ~busy
        BY <1>3 DEF OneOwner, d_ack
    <2>2. ~device
        <3>1. CASE dw_req
            BY <3>1 DEF x_sel, d_addr
        <3>2. CASE ~dw_req
            BY <1>3, <3>2, WhoAsks DEF x_sel
        <3> QED BY <3>1, <3>2
    <2> QED BY <1>1, <1>3, <2>1, <2>2
<1>4. CASE ~d_active
    <2>1. ~device
        <3>1. CASE dw_req
            BY <3>1 DEF x_sel, d_addr
        <3>2. CASE ~dw_req
            BY <1>4, <3>2, WhoAsks DEF x_sel
        <3> QED BY <3>1, <3>2
    <2>2. ~served
        <3>1. busy => dw_req /\ sreq = Shows /\ Shows # NoReq
            BY <1>4 DEF OneOwner
        <3> QED BY <3>1, ShowsType
    <2> QED BY <1>1, <1>4, <2>1, <2>2
<1> QED BY <1>2, <1>3, <1>4

LEMMA CountStep ==
    ASSUME IInv, NEW irq, NEW instr, Clock(irq, instr)
    PROVE  Counted'
<1>1. CASE ~pstall
    BY <1>1, Commits DEF Counted, Made, d_ack
<1>2. CASE pstall /\ d_active /\ ~d_ack
    <2>1. m' = m /\ ~d_seen /\ ~d_seen' /\ d_active' /\ amo_wr' = amo_wr
        BY <1>2, MAsks, Frozen DEF d_active
    <2>2. /\ m_writes <=> m.op = "store" \/ amo_wr \/ m.op = "sc"
          /\ amo_wr => m.op = "amo"
        BY <1>2 DEF m_writes, d_active, IInv, Remembers
    <2>3. ~Made /\ (Made' <=> d_ack')
        BY <1>2, <2>1 DEF Made
    <2>4. CASE ~d_ack'
        BY <1>2, <2>1, <2>3, <2>4, Accesses DEF Counted, IInv
    <2>5. CASE d_ack'
        <3>1. acc' = IF m_writes THEN [acc EXCEPT !.wr = Saturated(@)]
                                 ELSE [acc EXCEPT !.rd = Saturated(@)]
            BY <1>2, <2>5, Accesses
        <3> QED BY <2>1, <2>2, <2>3, <2>5, <3>1 DEF Counted, IInv, Count, Saturated
    <2> QED BY <2>4, <2>5
<1>3. CASE pstall /\ d_active /\ d_ack
    <2>1. acc' = acc /\ m' = m /\ ~d_ack' /\ ~d_seen /\ Made
        BY <1>3, Accesses, Frozen, PortAnswered DEF Made, d_active, d_ack
    <2>2. Made' <=> d_seen'
        BY <2>1 DEF Made
    <2> QED BY <1>3, <2>1, <2>2, MAnswered DEF Counted, IInv, Remembers
<1>4. CASE pstall /\ ~d_active
    <2>1. acc' = acc /\ m' = m
        BY <1>4, Accesses, Frozen
    <2>2. (Made <=> d_seen) /\ (Made' <=> d_seen') /\ (d_seen' <=> d_seen) /\ ~amo_wr /\ ~amo_wr'
        BY <1>4, MQuiet DEF Made
    <2> QED BY <2>1, <2>2 DEF Counted, IInv
<1> QED BY <1>1, <1>2, <1>3, <1>4

LEMMA ValueStep ==
    ASSUME IInv, NEW irq, NEW instr, Clock(irq, instr)
    PROVE  Valued'
<1>1. CASE ~pstall
    <2>1. m' # Bubble => m0' = mem'[m'.addr]
        BY <1>1 DEF Clock, HistoryEdge
    <2>2. m'.op \in MemOps => m' # Bubble
        BY SomeIsNotNone
    <2> QED BY <1>1, <2>1, <2>2, Commits DEF Valued, Made, d_ack
<1>2. CASE pstall /\ d_active /\ ~d_ack
    <2> SUFFICES ASSUME m.op \in MemOps, m.addr \notin IOAddr
                 PROVE  Valued'
        BY <1>2, Frozen DEF Valued
    <2>1. /\ m' = m /\ m0' = m0 /\ ~d_seen /\ ~d_seen' /\ d_active' /\ ~x_ack
          /\ amo_wr' = amo_wr /\ old_q' = old_q /\ m_writes' = m_writes
        BY <1>2, MAsks, Frozen DEF d_active, d_ack
    <2>2. ~Made /\ (Made' <=> d_ack')
        BY <1>2, <2>1 DEF Made
    <2>3. Shows # NoReq /\ ~dw_req
        BY <1>2, ShowsType, WhoAsks
    <2>4. (Shows.we <=> m_writes) /\ Shows.addr = m.addr /\ (Shows.we => Shows.wdata = m_data)
        BY <2>3, ShowsType
    <2>5. (amo_wr => old_q = m0) /\ mem[m.addr] = m0
        BY <2>1, <2>2 DEF Valued, IInv
    <2>6. /\ m_writes <=> m.op = "store" \/ amo_wr \/ m.op = "sc"
          /\ amo_wr => m.op = "amo"
        BY <1>2 DEF m_writes, d_active, IInv, Remembers
    <2>7. CASE ~d_ack'
        <3>1. mem' = mem
            BY <1>2, <2>7, PortAsks DEF d_ack
        <3> QED BY <2>1, <2>2, <2>5, <2>7, <3>1 DEF Valued
    <2>8. CASE d_ack'
        <3>1. IF m_writes THEN mem' = Effect(mem, Shows)
                          ELSE mem' = mem /\ rdata_q' = mem[m.addr]
            BY <1>2, <2>3, <2>4, <2>8, PortAsks DEF d_ack
        <3>2. mem \in [Addr -> Word] /\ m.addr \in Addr
            BY MTyped DEF IInv, Typed, SlaveTyped
        <3>3. CASE m_writes
            <4>1. mem'[m.addr] = m_data
                BY <2>4, <3>1, <3>2, <3>3 DEF Effect
            <4>2. m_data = IF amo_wr THEN AmoNew(m0, m.st) ELSE m.st
                BY <2>5 DEF m_data
            <4> QED BY <2>1, <2>2, <2>5, <2>6, <2>8, <3>3, <4>1, <4>2 DEF Valued
        <3>4. CASE ~m_writes
            BY <2>1, <2>2, <2>5, <2>6, <2>8, <3>1, <3>4 DEF Valued
        <3> QED BY <3>3, <3>4
    <2> QED BY <2>7, <2>8
<1>3. CASE pstall /\ d_active /\ d_ack
    <2>1. m' = m /\ m0' = m0 /\ mem' = mem /\ ~d_ack' /\ ~d_seen /\ Made
        BY <1>3, Frozen, PortAnswered DEF Made, d_active, d_ack
    <2>2. Made' <=> d_seen'
        BY <2>1 DEF Made
    <2>3. m_writes <=> m.op = "store" \/ amo_wr \/ m.op = "sc"
        BY <1>3 DEF m_writes, d_active
    <2> QED BY <1>3, <2>1, <2>2, <2>3, MAnswered DEF Valued, IInv, Remembers, d_rdata
<1>4. CASE pstall /\ ~d_active
    <2>1. m' = m /\ m0' = m0
        BY <1>4, Frozen
    <2>2. (Made <=> d_seen) /\ (Made' <=> d_seen') /\ (d_seen' <=> d_seen) /\ ~amo_wr /\ ~amo_wr'
        BY <1>4, MQuiet DEF Made
    <2>3. d_data_r' = d_data_r /\ ~d_active'
        BY <1>4, MQuiet
    <2>4. mem' = mem
        BY <1>4, PortRests, PortAnswered, WalkerAsks
    <2> QED BY <2>1, <2>2, <2>3, <2>4 DEF Valued, IInv
<1> QED BY <1>1, <1>2, <1>3, <1>4

LEMMA LinkStep ==
    ASSUME IInv, NEW irq, NEW instr, Clock(irq, instr)
    PROVE  Linked'
<1>1. CASE ~pstall
    <2>1. ~busy
        BY <1>1, WhoAsks DEF IInv, OneOwner, d_ack
    <2>2. PICK trap : HistoryEdge(trap) /\ ReservationEdge(trap)
        BY DEF Clock
    <2>3. linked' = IF trap THEN "none" ELSE IF m.op = "lr" THEN m.addr ELSE linked
        BY <1>1, <2>1, <2>2 DEF HistoryEdge
    <2>4. res' = IF m.op \in {"sc", "store", "amo"} \/ trap THEN "none"
                 ELSE IF m.op = "lr" THEN m.addr ELSE res
        BY <1>1, <2>2 DEF ReservationEdge
    <2> QED BY <2>3, <2>4 DEF Linked, IInv
<1>2. CASE pstall /\ d_active /\ ~d_ack /\ d_ack'
    <2>1. m' = m /\ res' = res
        BY <1>2, Frozen
    <2>2. CASE m_writes
        <3>1. m.op \in {"store", "sc", "amo"}
            BY <2>2 DEF m_writes, IInv, Remembers
        <3>2. acc' = [acc EXCEPT !.wr = Saturated(@)]
            BY <1>2, <2>2, Accesses
        <3>3. acc \in [rd: Nat, wr: Nat]
            BY <3>1 DEF IInv, Counted, Count
        <3>4. acc'.wr # 0
            BY <3>2, <3>3 DEF Saturated
        <3> QED BY <2>1, <3>1, <3>4 DEF Linked
    <2>3. CASE ~m_writes
        <3>1. acc' = [acc EXCEPT !.rd = Saturated(@)] /\ linked' = linked
            BY <1>2, <2>3, Accesses
        <3>2. m.op \in {"store", "sc", "amo"} => acc'.wr = acc.wr
            BY <3>1 DEF IInv, Counted, Count
        <3> QED BY <2>1, <3>1, <3>2 DEF Linked, IInv
    <2> QED BY <2>2, <2>3
<1>3. CASE pstall /\ ~(d_active /\ ~d_ack /\ d_ack')
    <2>1. m' = m /\ res' = res /\ acc' = acc /\ linked' = linked
        BY <1>3, Frozen, Accesses DEF d_ack
    <2> QED BY <2>1 DEF Linked, IInv
<1> QED BY <1>1, <1>2, <1>3
-----------------------------------------------------------------------------
(* The invariant *)

LEMMA TypedStep ==
    ASSUME IInv, NEW irq \in BOOLEAN, NEW instr \in Program(mmu_on), Clock(irq, instr)
    PROVE  Typed'
<1> USE DEF IInv, Typed, CoreTyped, SlaveTyped
<1>1. mmu_on' \in Modes
    BY DEF Clock
<1>2. ex' \in Instruction
    BY ProgramAssumption DEF Clock, PipelineEdge
<1>3. /\ m' \in {Bubble} \cup [op: MemOps, st: Word, addr: Addr]
      /\ res' \in Addr \cup {"none"}
    <2>1. CASE pstall
        BY <2>1, Frozen
    <2>2. CASE ~pstall
        <3>1. PICK trap : ReservationEdge(trap) /\ PipelineEdge(trap, instr)
            BY DEF Clock
        <3>2. ToM(trap) \in {Bubble} \cup [op: MemOps, st: Word, addr: Addr]
            <4>1. CASE trap \/ ex.op \notin MemOps
                BY <4>1 DEF ToM
            <4>2. CASE ~trap /\ ex.op \in MemOps
                <5>1. ex.page \in Pages /\ ex.st \in Word /\ Direct(ex.page) \in Addr
                    BY <4>2, ExTyped, PlaceAssumption
                <5>2. mmu_on => HitEntry.pa \in Addr
                    <6> SUFFICES ASSUME mmu_on PROVE HitEntry.pa \in Addr
                        OBVIOUS
                    <6>1. dtlb_hit
                        BY <2>2, <4>2, WhoAsks DEF tlb_stall, d_xlate
                    <6>2. PICK i \in Hits(ex.page) : TRUE
                        BY <6>1 DEF dtlb_hit
                    <6> QED BY <6>1, <6>2, HitIsEntry DEF Entry
                <5> QED BY <4>2, <5>1, <5>2 DEF ToM
            <4> QED BY <4>1, <4>2
        <3>3. m.op = "lr" => m.addr \in Addr
            BY MTyped DEF MemOps
        <3> QED BY <2>2, <3>1, <3>2, <3>3 DEF PipelineEdge, ReservationEdge
    <2> QED BY <2>1, <2>2
<1>4. /\ d_seen' \in BOOLEAN /\ amo_wr' \in BOOLEAN
      /\ d_data_r' \in Word /\ old_q' \in Word
    BY DEF Clock, SeenEdge, SeenNow, KeptWord, AmoEdge, mem_word, d_rdata, d_active
<1>5. d_inflight' \in BOOLEAN /\ d_owner_dw' \in BOOLEAN
    BY DEF Clock, OwnerEdge, dw_req
<1>6. dw_state' \in 0 .. 2 /\ dw_vpn' \in Pages /\ dw_addr' \in Addr \ IOAddr
    BY WalkStep
<1>7. dtlb' \in [1 .. N -> {Empty} \cup Entry] /\ rr' \in 1 .. N
    BY TlbStep
<1>8. SlaveTyped'
    <2>1. x_ack' \in BOOLEAN
        BY DEF Clock, DeviceEdge, x_sel, d_req
    <2>2. CASE SlaveAccepts
        BY <2>1, <2>2 DEF SlaveAccepts
    <2>3. CASE SlaveAnswers
        <3>1. sreq = Shows /\ Shows # NoReq
            BY <2>3 DEF SlaveAnswers, OneOwner
        <3>2. sreq.addr \in Addr /\ (sreq.we => sreq.wdata \in Word)
            BY <3>1, ShowsType
        <3> QED BY <2>1, <2>3, <3>2 DEF SlaveAnswers, Effect
    <2>4. CASE SlaveWaits
        BY <2>1, <2>4 DEF SlaveWaits
    <2> QED BY <2>2, <2>3, <2>4 DEF Clock
<1> QED BY <1>1, <1>2, <1>3, <1>4, <1>5, <1>6, <1>7, <1>8

LEMMA Initially == Init => IInv
<1> SUFFICES ASSUME Init PROVE IInv
    OBVIOUS
<1> USE DEF Init
<1>1. dw_vpn \in Pages /\ dw_addr \in Addr \ IOAddr
    BY PlaceAssumption
<1>2. mem \in [Addr -> Word]
    BY MemoryAssumption
<1>3. Typed
    <2>1. ex \in Instruction /\ m = Bubble
        BY DEF Instruction
    <2>2. PICK w \in Word : d_data_r = w /\ old_q = w /\ rdata_q = w
        OBVIOUS
    <2>3. /\ dtlb \in [1 .. N -> {Empty} \cup Entry] /\ rr \in 1 .. N
          /\ dw_state \in 0 .. 2
        BY SizeAssumption
    <2> QED BY <1>1, <1>2, <2>1, <2>2, <2>3 DEF Typed, CoreTyped, SlaveTyped
<1>4. OneEntry
    BY SomeIsNotNone DEF OneEntry
<1>5. m.op \notin MemOps /\ m.op = "none"
    BY DEF Bubble, MemOps
<1>6. Remembers /\ OneOwner /\ Walking /\ Counted /\ Valued /\ Linked
    BY <1>5 DEF Remembers, OneOwner, Walking, Counted, Valued, Linked, MemOps
<1> QED BY <1>3, <1>4, <1>6 DEF IInv

LEMMA StepKeeps == IInv /\ [Next]_vars => IInv'
<1>1. ASSUME IInv, UNCHANGED vars
      PROVE  IInv'
    BY <1>1 DEF vars, core, slave, IInv, Typed, CoreTyped, SlaveTyped, OneEntry, Remembers,
       OneOwner, Walking, Counted, Valued, Linked, Made, d_ack, d_rdata, d_active, sc_ok, dw_req,
       Shows, m_writes, m_data, tlb_stall, d_xlate, dtlb_hit, Hits
<1>2. ASSUME IInv, NEW irq \in BOOLEAN, NEW instr \in Program(mmu_on), Clock(irq, instr)
      PROVE  IInv'
    BY <1>2, TypedStep, TlbStep, RemembersStep, OwnerStep, WalkStep, CountStep, ValueStep, LinkStep
       DEF IInv
<1> QED BY <1>1, <1>2 DEF Next

\* The inductive invariant: one owner of the port, one access at a time for the
\* instruction in M, a walk that reads the tables as they are.
THEOREM Invariant == Spec => []IInv
BY Initially, StepKeeps, PTL DEF Spec
-----------------------------------------------------------------------------
(* What the invariant says of the program *)

\* What retires has made its access, and all of it: a store's, an AMO's and a
\* successful SC's write, and no write for a failed SC.
LEMMA RetiresMade ==
    ASSUME IInv, Retires
    PROVE  /\ m.op \in {"load", "lr", "store"} => Made
           /\ m.op = "amo" => d_seen
           /\ m.op = "sc" => (Made <=> sc_ok)
<1>1. ~astall /\ ~(d_active /\ ~d_ack) /\ m.op \in MemOps
    BY WhoAsks DEF Retires
<1> QED BY <1>1 DEF astall, rmw_m, Made, d_active, IInv, Remembers

\* AccessesOnce: an instruction that retires from M has made exactly the
\* accesses it stands for, however long it was frozen (koti_core.sv d_seen).
THEOREM AccessesAreOnce == Spec => []AccessesOnce
<1>1. IInv => AccessesOnce
    <2> SUFFICES ASSUME IInv, Retires
                 PROVE  AccessesOnce
        BY DEF AccessesOnce
    <2>1. m.op \in MemOps
        BY DEF Retires
    <2>2. CASE m.op \in {"load", "lr", "store", "amo"}
        BY <2>2, RetiresMade DEF AccessesOnce, IInv, Counted, Count
    <2>3. CASE m.op = "sc"
        BY <2>3, RetiresMade DEF AccessesOnce, IInv, Counted, Count
    <2> QED BY <2>1, <2>2, <2>3 DEF MemOps
<1> QED BY <1>1, Invariant, PTL

\* RetiresRight: the word an instruction takes along and the word it leaves in
\* memory are the ones it stands for, with the walker on the same port.
THEOREM InstructionsAreRight == Spec => []RetiresRight
<1>1. IInv => RetiresRight
    <2> SUFFICES ASSUME IInv, Retires, m.addr \notin IOAddr
                 PROVE  RetiresRight
        BY DEF RetiresRight
    <2>1. m.op \in MemOps /\ (d_active => d_ack)
        BY WhoAsks DEF Retires
    <2>2. CASE m.op \in {"load", "lr"}
        <3>1. d_seen \/ (d_active /\ d_ack)
            BY <2>2, RetiresMade DEF Made
        <3>2. ~m_writes
            BY <2>2 DEF m_writes, IInv, Remembers
        <3>3. mem_word = m0
            BY <2>1, <2>2, <3>1, <3>2 DEF mem_word, d_rdata, IInv, Valued
        <3>4. mem[m.addr] = m0
            BY <2>1, <2>2 DEF IInv, Valued
        <3> QED BY <2>2, <3>3, <3>4 DEF RetiresRight
    <2>3. CASE m.op \in {"store", "sc"}
        BY <2>1, <2>3, RetiresMade DEF IInv, Valued, RetiresRight
    <2>4. CASE m.op = "amo"
        BY <2>1, <2>4, RetiresMade DEF IInv, Valued, RetiresRight, mem_word
    <2> QED BY <2>1, <2>2, <2>3, <2>4 DEF MemOps
<1> QED BY <1>1, Invariant, PTL

\* WalkIsRight: what enters the data TLB is the translation the page tables
\* give, for the page EX waits for (koti_core.sv dw_*, src/tlb.sv).
THEOREM TranslationsAreRight == Spec => []WalkIsRight
<1>1. IInv => WalkIsRight
    BY FillIsWalk DEF WalkIsRight
<1> QED BY <1>1, Invariant, PTL

\* ScAfterLr: no successful SC writes a word that something has written, or a
\* trap has interrupted, since the LR (koti_core.sv res_valid).
THEOREM ConditionalsAreLinked == Spec => []ScAfterLr
<1>1. IInv => ScAfterLr
    <2> SUFFICES ASSUME IInv, m.op = "sc", sc_ok, acc.wr = 0
                 PROVE  linked = m.addr
        BY DEF ScAfterLr
    <2>1. m.addr \in Addr
        BY MTyped DEF IInv, MemOps
    <2> QED BY <2>1, PlaceAssumption DEF IInv, Linked, sc_ok
<1> QED BY <1>1, Invariant, PTL

\* The port as PortMemory sees it, over one clock.
PortRequest == [we: {FALSE}, ptw: BOOLEAN, addr: Addr \ IOAddr]
               \cup [we: {TRUE}, ptw: {FALSE}, addr: Addr \ IOAddr, wdata: Word]

ShowsTyped == Shows \in PortRequest \cup {NoReq}

LEMMA ShowsRequest == IInv => ShowsTyped
BY ShowsType DEF ShowsTyped, PortRequest

LEMMA PortStep ==
    ASSUME IInv, IInv', NEW irq, NEW instr, Clock(irq, instr)
    PROVE  PM!Raise \/ PM!Serve \/ PM!Finish \/ UNCHANGED <<Shows, ack_q, mem>>
<1>1. ShowsTyped'
    BY ShowsRequest, PTL
<1>2. CASE ack_q
    <2>1. ~ack_q' /\ mem' = mem /\ rdata_q' = rdata_q
        BY <1>2, PortAnswered DEF d_ack
    <2>2. ack_q' = FALSE
        BY <2>1 DEF IInv, Typed, SlaveTyped
    <2> QED BY <1>1, <1>2, <2>1, <2>2 DEF PM!Finish, ShowsTyped, PortRequest
<1>3. CASE ~ack_q /\ (x_ack \/ (~d_active /\ ~dw_req))
    <2>1. Shows = NoReq
        BY <1>3, ShowsType, WhoAsks DEF IInv, OneOwner, d_ack
    <2>2. ~ack_q' /\ mem' = mem /\ rdata_q' = rdata_q
        BY <1>3, PortRests, PortAnswered DEF d_ack
    <2>3. ack_q' = ack_q
        BY <1>3, <2>2 DEF IInv, Typed, SlaveTyped
    <2> QED BY <1>1, <1>3, <2>1, <2>2, <2>3 DEF PM!Raise, ShowsTyped, PortRequest
<1>4. CASE ~d_ack /\ (d_active \/ dw_req)
    <2>1. Shows' = Shows
        BY <1>4, MAsks, WalkerAsks
    <2>2. ack_q \in BOOLEAN /\ ack_q' \in BOOLEAN
        BY DEF IInv, Typed, SlaveTyped
    <2> QED BY <1>4, <2>1, <2>2, PortAsks DEF PM!Serve, d_ack
<1> QED BY <1>2, <1>3, <1>4 DEF d_ack

\* PortContract: all that M, the walker and the reservation do together is to
\* raise a request, hold it until it is answered, and move on (PortMemory).
THEOREM ContractIsKept == Spec => PortContract
<1>1. IInv /\ IInv' /\ [Next]_vars => [PM!Raise \/ PM!Serve \/ PM!Finish]_<<Shows, ack_q, mem>>
    <2>1. ASSUME UNCHANGED vars
          PROVE  UNCHANGED <<Shows, ack_q, mem>>
        BY <2>1 DEF vars, core, slave, Shows, dw_req, d_active, sc_ok, m_writes, m_data
    <2> QED BY <2>1, PortStep DEF Next
<1> QED BY <1>1, Invariant, PTL DEF Spec, PortContract
===============================================================================
