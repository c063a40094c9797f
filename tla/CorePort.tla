------------------------------ MODULE CorePort ------------------------------
(* src/koti_core.sv, the data side: the M stage, the read-modify-write and  *)
(* LR/SC machinery, the data-side page walker with its TLB (src/tlb.sv),    *)
(* and the one data port they share.  One step is one rising clock edge and *)
(* every "...Edge" operator is one always_ff block.  The port is served by  *)
(* a memory that latches what it accepts (DCache, seen as PortMemory), and  *)
(* by the memory-mapped devices of src/project.sv, which answer in a clock. *)
EXTENDS Integers

CONSTANTS
    Pages,            \* virtual pages the program touches
    Addr, IOAddr,     \* physical words, and those that are device registers
    Word,
    Modes,            \* the modes explored: TRUE is satp enabled below M mode
    Memories(_),      \* mode |-> what memory may hold at reset
    Program(_),       \* mode |-> what may enter EX: records [op, page, st]
    N,                \* TLB entries
    MdClocks,         \* clocks a multiplication or division takes
    Direct(_),        \* page |-> word, with the MMU off
    L1Addr(_),        \* page |-> its level-1 PTE
    L0Addr(_, _),     \* level-1 PTE, page |-> its level-0 PTE
    PteBad(_), PteLeaf(_),
    PteFault(_, _),   \* level, PTE: misaligned superpage or A = 0
    Phys(_, _),       \* leaf PTE, page |-> the word the page's access reaches
    AmoNew(_, _)      \* old word, operand |-> the word an AMO writes back

ASSUME IOAssumption == IOAddr \subseteq Addr
ASSUME MemoryAssumption ==
    Modes \subseteq BOOLEAN /\ \A on \in Modes : Memories(on) \subseteq [Addr -> Word]
ASSUME SizeAssumption == N \in Nat \ {0} /\ MdClocks \in Nat

MemOps == {"load", "store", "amo", "lr", "sc"}
NoReq == [none |-> TRUE]
Entry == [valid: {TRUE}, vpn: Pages, pa: Addr, fault: BOOLEAN]
Bubble == [op |-> "none"]
Empty == [valid |-> FALSE]

\* Page tables lie in memory, translations and untranslated pages among the
\* words, and what enters EX is an instruction.
ASSUME PlaceAssumption ==
    /\ Pages # {} /\ "none" \notin Addr
    /\ \A p \in Pages : L1Addr(p) \in Addr \ IOAddr /\ Direct(p) \in Addr
    /\ \A p \in Pages, w \in Word :
          ~PteBad(w) => IF PteLeaf(w) THEN Phys(w, p) \in Addr
                                      ELSE L0Addr(w, p) \in Addr \ IOAddr
    /\ \A v, w \in Word : AmoNew(v, w) \in Word
Instruction == {Bubble} \cup [op: {"md", "sfence"}]
               \cup [op: MemOps, page: Pages, st: Word]
ASSUME ProgramAssumption == \A on \in Modes : Program(on) \subseteq Instruction

VARIABLES
    mmu_on,                         \* the mode, of which the program stays in one
    ex, m,                          \* the instructions in EX and in M
    md,                             \* muldiv: clocks spent on EX's operation
    d_seen, d_data_r, amo_wr, old_q,
    res,                            \* res_valid and res_addr: an address or none
    d_inflight, d_owner_dw,
    dw_state, dw_addr, dw_vpn,
    dtlb, rr,
    busy, sreq, ack_q, rdata_q, mem, \* the cache and the memory behind it
    x_ack,                          \* the devices' acknowledgement
    acc, m0, linked                 \* history: M's accesses; M's word on entry;
                                    \* the word an LR read, while untouched

core == <<mmu_on, ex, m, md, d_seen, d_data_r, amo_wr, old_q, res, d_inflight,
          d_owner_dw, dw_state, dw_addr, dw_vpn, dtlb, rr>>
slave == <<busy, sreq, ack_q, rdata_q, mem, x_ack>>
vars == <<core, slave, acc, m0, linked>>
-----------------------------------------------------------------------------
(* Wires *)
d_ack   == ack_q \/ x_ack
d_rdata == rdata_q

rmw_m == m.op = "amo"
sc_ok == res = m.addr

d_active == /\ m.op \in MemOps
            /\ ~d_seen
            /\ ~(m.op = "sc" /\ ~sc_ok)

DwReqUngated == dw_state # 0                 \* mutant: the walker does not yield to M
dw_req == dw_state # 0 /\ ~d_active

\* The acknowledgement belongs to whoever issued the transaction in flight.
d_owner_is_dw == IF d_inflight THEN d_owner_dw ELSE dw_req
dw_ack     == d_ack /\ d_owner_is_dw
m_ack_here == d_ack /\ ~d_owner_is_dw

m_writes == m.op = "store" \/ amo_wr \/ (m.op = "sc" /\ sc_ok)
d_req  == (d_active /\ ~m_ack_here) \/ dw_req
d_we   == ~dw_req /\ m_writes
d_addr == IF dw_req THEN dw_addr ELSE m.addr
m_data == IF amo_wr THEN AmoNew(old_q, m.st) ELSE m.st

\* Which TLB entry answers for a page: the last match of the lookup's loop.
Hits(p) == {i \in 1 .. N : dtlb[i].valid /\ dtlb[i].vpn = p}
d_xlate == mmu_on /\ ex.op \in MemOps
dtlb_hit == Hits(ex.page) # {}
HitEntry == dtlb[CHOOSE i \in Hits(ex.page) : \A j \in Hits(ex.page) : j <= i]

mstall    == d_active /\ ~m_ack_here
\* (Mutant: the stall ends with the write's acknowledgement, not with d_seen.)
AstallToAck == rmw_m /\ ~(amo_wr /\ d_active /\ d_ack)
astall    == rmw_m /\ ~d_seen
md_stall  == ex.op = "md" /\ md < MdClocks
tlb_stall == d_xlate /\ ~dtlb_hit
pstall    == mstall \/ md_stall \/ astall \/ tlb_stall

mem_word == IF d_seen THEN d_data_r ELSE d_rdata

\* The devices see the port's request with no cache in between.
x_sel  == d_req /\ d_addr \in IOAddr
dc_req == d_req /\ d_addr \notin IOAddr

\* What the port shows, before M's withdrawal on its own acknowledgement.
Shows ==
    IF dw_req THEN [we |-> FALSE, ptw |-> TRUE, addr |-> dw_addr]
    ELSE IF ~d_active \/ m.addr \in IOAddr THEN NoReq
    ELSE IF m_writes
         THEN [we |-> TRUE, ptw |-> FALSE, addr |-> m.addr, wdata |-> m_data]
         ELSE [we |-> FALSE, ptw |-> FALSE, addr |-> m.addr]

Effect(mm, r) == [mm EXCEPT ![r.addr] = r.wdata]
-----------------------------------------------------------------------------
(* The walker *)
dpte == d_rdata
dw_l1 == dw_ack /\ dw_state = 1
dw_l0 == dw_ack /\ dw_state = 2
dw_fill == (dw_l1 /\ (PteBad(dpte) \/ PteLeaf(dpte))) \/ dw_l0

\* The TLB entry a final PTE of a level stands for.
Fill(level, pte, p) ==
    LET fault == PteBad(pte) \/ ~PteLeaf(pte) \/ PteFault(level, pte)
    IN  [valid |-> TRUE, vpn |-> p, fault |-> fault,
         pa |-> IF fault THEN Direct(p) ELSE Phys(pte, p)]

WalkerEdge ==
    \/ /\ dw_state = 0 /\ tlb_stall
       /\ dw_vpn' = ex.page
       /\ dw_addr' = L1Addr(ex.page)
       /\ dw_state' = 1
    \/ /\ dw_l1 /\ ~dw_fill
       /\ dw_addr' = L0Addr(dpte, dw_vpn)
       /\ dw_state' = 2
       /\ UNCHANGED dw_vpn
    \/ /\ dw_fill
       /\ dw_state' = 0
       /\ UNCHANGED <<dw_addr, dw_vpn>>
    \/ /\ IF dw_state = 0 THEN ~tlb_stall ELSE ~dw_ack
       /\ UNCHANGED <<dw_state, dw_addr, dw_vpn>>

NextWay == IF rr = N THEN 1 ELSE rr + 1

TlbEdge(flush) ==
    IF flush THEN dtlb' = [i \in 1 .. N |-> Empty] /\ rr' = 1
    ELSE IF dw_fill THEN /\ dtlb' = [dtlb EXCEPT ![rr] = Fill(2 - dw_state, dpte, dw_vpn)]
                         /\ rr' = NextWay
    ELSE UNCHANGED <<dtlb, rr>>

(* The port's owner, and what M remembers of its own transaction *)
OwnerEdge ==
    IF d_ack THEN d_inflight' = FALSE /\ UNCHANGED d_owner_dw
    ELSE IF d_req /\ ~d_inflight THEN d_inflight' = TRUE /\ d_owner_dw' = dw_req
    ELSE UNCHANGED <<d_inflight, d_owner_dw>>

\* (Mutants: an access is forgotten at once; an AMO keeps the bus's word.)
SeenForgets == FALSE
SeenNow == d_seen \/ (d_active /\ d_ack /\ (~rmw_m \/ amo_wr))
BusWord == IF d_active /\ d_ack THEN d_rdata ELSE d_data_r
KeptWord == IF amo_wr /\ d_active /\ d_ack THEN old_q
            ELSE IF d_active /\ d_ack /\ ~rmw_m THEN d_rdata
            ELSE d_data_r

SeenEdge == d_seen' = (pstall /\ SeenNow) /\ d_data_r' = KeptWord

AmoEdge ==
    IF amo_wr /\ d_active /\ d_ack THEN amo_wr' = FALSE /\ UNCHANGED old_q
    ELSE IF rmw_m /\ ~amo_wr /\ ~mstall /\ ~d_seen
         THEN amo_wr' = TRUE /\ old_q' = mem_word
         ELSE UNCHANGED <<amo_wr, old_q>>

\* A retiring LR reserves; a retiring write, SC or AMO, and any trap, clears.
ReservationKept(trap) ==                     \* mutant: a trap leaves it standing
    res' = IF ~pstall /\ m.op \in {"sc", "store", "amo"} THEN "none"
           ELSE IF ~pstall /\ m.op = "lr" THEN m.addr
           ELSE res
ReservationEdge(trap) ==
    res' = IF (~pstall /\ m.op \in {"sc", "store", "amo"}) \/ trap THEN "none"
           ELSE IF ~pstall /\ m.op = "lr" THEN m.addr
           ELSE res

(* The pipeline: EX moves to M, and anything of the program enters EX *)
faults == d_xlate /\ HitEntry.fault
ToM(trap) ==
    IF trap \/ ex.op \notin MemOps THEN Bubble
    ELSE [op |-> ex.op, st |-> ex.st,
          addr |-> IF mmu_on THEN HitEntry.pa ELSE Direct(ex.page)]

PipelineEdge(trap, instr) ==
    IF pstall THEN /\ UNCHANGED <<ex, m>>
                   /\ md' = IF md_stall THEN md + 1 ELSE md
              ELSE /\ m' = ToM(trap)
                   /\ ex' = instr
                   /\ md' = 0
-----------------------------------------------------------------------------
(* The other end of the port *)
\* The cache accepts a request on any clock but an acknowledgement's, and
\* answers the request it latched, whoever is asking by then.
ReadyOnAck == dc_req /\ ~busy                \* mutant: the acknowledged request again
SlaveReady == dc_req /\ ~busy /\ ~ack_q

SlaveAccepts ==
    /\ SlaveReady
    /\ busy' = TRUE
    /\ sreq' = Shows
    /\ ack_q' = FALSE
    /\ UNCHANGED <<rdata_q, mem>>

SlaveAnswers ==
    /\ busy
    /\ busy' = FALSE
    /\ ack_q' = TRUE
    /\ IF sreq.we THEN mem' = Effect(mem, sreq) /\ rdata_q' \in Word
                  ELSE rdata_q' = mem[sreq.addr] /\ UNCHANGED mem
    /\ UNCHANGED sreq

SlaveWaits ==
    /\ ~SlaveReady
    /\ ack_q' = FALSE
    /\ UNCHANGED <<busy, sreq, rdata_q, mem>>

DeviceEdge == x_ack' = (x_sel /\ ~x_ack)
-----------------------------------------------------------------------------
Saturated(k) == IF k < 2 THEN k + 1 ELSE k

\* History.  An access happens when the memory answers, or on a device's
\* select clock; it is M's unless the walker's read is what was latched.
HistoryEdge(trap) ==
    LET served == busy /\ ~busy' /\ ~sreq.ptw
        device == x_sel /\ ~x_ack
        writes == IF device THEN d_we ELSE sreq.we
    IN  /\ acc' = IF ~pstall THEN [rd |-> 0, wr |-> 0]
                  ELSE IF ~served /\ ~device THEN acc
                  ELSE IF writes THEN [acc EXCEPT !.wr = Saturated(@)]
                                 ELSE [acc EXCEPT !.rd = Saturated(@)]
        /\ m0' = IF pstall \/ m' = Bubble THEN m0 ELSE mem'[m'.addr]
        /\ linked' = IF trap \/ (served /\ sreq.we /\ sreq.addr = linked) THEN "none"
                     ELSE IF ~pstall /\ m.op = "lr" THEN m.addr
                     ELSE linked

\* One clock.  An interrupt is taken only on a clock that commits.
Clock(irq, instr) ==
    LET trap  == ~pstall /\ (irq \/ faults)
        flush == ~pstall /\ ~trap /\ ex.op = "sfence"
    IN  /\ irq => ~pstall /\ ex.op \notin {"none", "md"}
        /\ WalkerEdge /\ TlbEdge(flush) /\ OwnerEdge
        /\ SeenEdge /\ AmoEdge /\ ReservationEdge(trap)
        /\ PipelineEdge(trap, instr)
        /\ SlaveAccepts \/ SlaveAnswers \/ SlaveWaits
        /\ DeviceEdge
        /\ HistoryEdge(trap)
        /\ UNCHANGED mmu_on

\* Reset leaves the TLB empty, the port idle and the walker's registers zero
\* (here a page and its level-1 PTE); the data registers keep what they held.
Init ==
    /\ ex = Bubble /\ m = Bubble /\ md = 0
    /\ d_seen = FALSE /\ amo_wr = FALSE /\ res = "none"
    /\ d_inflight = FALSE /\ d_owner_dw = FALSE
    /\ dw_state = 0
    /\ dtlb = [i \in 1 .. N |-> Empty] /\ rr = 1
    /\ busy = FALSE /\ ack_q = FALSE /\ x_ack = FALSE
    /\ mmu_on \in Modes /\ mem \in Memories(mmu_on)
    /\ acc = [rd |-> 0, wr |-> 0] /\ linked = "none"
    /\ dw_vpn = CHOOSE p \in Pages : TRUE
    /\ dw_addr = L1Addr(dw_vpn)
    /\ sreq = [we |-> FALSE, ptw |-> FALSE, addr |-> dw_addr]
    /\ \E w \in Word : d_data_r = w /\ old_q = w /\ rdata_q = w /\ m0 = w

Next == \E irq \in BOOLEAN, instr \in Program(mmu_on) : Clock(irq, instr)

Spec == Init /\ [][Next]_vars

\* The clock runs, and the memory answers what it has accepted.
FairSpec == Spec /\ WF_vars(Next) /\ WF_busy(SlaveAnswers)
-----------------------------------------------------------------------------
(* Properties *)

Retires == ~pstall /\ m.op \in MemOps

\* However long the instruction behind it freezes the pipeline, an instruction
\* in M makes exactly the accesses it stands for: a load one read, a store one
\* write, an AMO one read and one write, a failed SC none.  A device register
\* whose read pops a FIFO depends on it.
AccessesOnce ==
    Retires => acc = CASE m.op \in {"load", "lr"} -> [rd |-> 1, wr |-> 0]
                       [] m.op = "store"          -> [rd |-> 0, wr |-> 1]
                       [] m.op = "amo"            -> [rd |-> 1, wr |-> 1]
                       [] m.op = "sc" -> [rd |-> 0, wr |-> IF sc_ok THEN 1 ELSE 0]

\* What retires from M is what the instruction means: a load brings the word
\* that was there, a store leaves its own, an AMO returns the old word and
\* leaves the new one, a failed SC leaves memory alone.  The page walker shares
\* the port and the acknowledgement, and its answer must never be taken for it.
RetiresRight ==
    Retires /\ m.addr \notin IOAddr =>
        CASE m.op \in {"load", "lr"} -> mem_word = m0 /\ mem[m.addr] = m0
          [] m.op = "store"          -> mem[m.addr] = m.st
          [] m.op = "amo" -> mem_word = m0 /\ mem[m.addr] = AmoNew(m0, m.st)
          [] m.op = "sc"  -> mem[m.addr] = IF sc_ok THEN m.st ELSE m0

\* The reference: the entry the page tables in memory give a page.
Walk(mm, p) ==
    LET pte1 == mm[L1Addr(p)]
    IN  IF PteBad(pte1) \/ PteLeaf(pte1) THEN Fill(1, pte1, p)
        ELSE Fill(0, mm[L0Addr(pte1, p)], p)

\* Whatever fills the TLB is the translation the page tables give at that
\* moment, for the page the instruction in EX is waiting for.
WalkIsRight ==
    dw_fill => /\ tlb_stall /\ dw_vpn = ex.page
               /\ Fill(2 - dw_state, dpte, dw_vpn) = Walk(mem, ex.page)

\* A successful SC writes a word that nothing has written, and no trap has
\* interrupted, since the LR that reserved it.
ScAfterLr == m.op = "sc" /\ sc_ok /\ acc.wr = 0 => linked = m.addr

\* The core keeps the cache's port contract: what it shows is held until it is
\* acknowledged, however M, the walker and the reservation change meanwhile.
PM == INSTANCE PortMemory WITH
        creq <- Shows, ack <- ack_q, rdata <- rdata_q, Addr <- Addr \ IOAddr,
        Request <- [we: {FALSE}, ptw: BOOLEAN, addr: Addr \ IOAddr]
              \cup [we: {TRUE}, ptw: {FALSE}, addr: Addr \ IOAddr, wdata: Word]
PortContract == [][PM!Raise \/ PM!Serve \/ PM!Finish]_<<Shows, ack_q, mem>>

\* The pipeline always moves again: neither an AMO whose successor misses the
\* TLB nor a walker waiting for M to fall quiet can hold the other for ever.
PipelineMoves == []<>(~pstall)
=============================================================================
