------------------------------- MODULE DCache -------------------------------
(* src/dcache.sv: the direct-mapped, write-through, no-write-allocate data  *)
(* cache between the core's data port and the arbiter.  One step is one     *)
(* rising clock edge.  CacheEdge is the module's always_ff block, with the  *)
(* memory-side inputs m_ack and m_rdata as parameters; Next closes it with  *)
(* a requester that follows the port's contract and a memory of arbitrary   *)
(* latency, and lets reset strike at any clock.                             *)
EXTENDS Integers

CONSTANTS
    Tags,        \* address tags
    Lines,       \* number of cache lines (LINES in the code, 512)
    Bytes,       \* the byte lanes of a word
    Vals,        \* the values of a byte
    MaxResets    \* bound: how often reset may strike

ASSUME LinesAssumption == Lines \in Nat \ {0}
ASSUME ResetsAssumption == MaxResets \in Nat

Index == 0 .. Lines - 1
Addr  == [tag: Tags, idx: Index]
Word  == [Bytes -> Vals]
Read  == [we: {FALSE}, ptw: BOOLEAN, addr: Addr]
Write == [we: {TRUE}, ptw: {FALSE}, addr: Addr, wdata: Word,
           be: SUBSET Bytes \ {{}}]
Request == Read \cup Write
NoReq == [none |-> TRUE]
Line  == [valid: BOOLEAN, tag: Tags, data: Word]

VARIABLES
    creq,        \* the core side wires c_req, c_we, c_ptw, c_addr, c_wdata, c_be
    initing, init_i,
    line,        \* tags, data and valid, indexed
    look, lreq,  \* look; look_tag, look_idx, look_we, look_ptw, c_wdata_q, c_be_q
    rd,          \* rd_tag, rd_data, rd_valid
    pending,
    ack_q, rdata_q,
    mem,         \* the memory behind the arbiter
    resets       \* history: resets so far

cacheVars == <<initing, init_i, line, look, lreq, rd, pending, ack_q, rdata_q>>
vars == <<creq, cacheVars, mem, resets>>

Merge(old, neu, be) == [b \in Bytes |-> IF b \in be THEN neu[b] ELSE old[b]]

\* What a request does to the memory it reaches.
Effect(m, r) ==
    IF r.we THEN [m EXCEPT ![r.addr] = Merge(@, r.wdata, r.be)] ELSE m

-----------------------------------------------------------------------------
\* Wires.  The M stage withdraws its request on its own ack, combinationally
\* (koti_core.sv d_req); the page walker does not, and shows the acknowledged
\* request until the edge that ends the ack cycle.
c_req == creq # NoReq /\ (creq.ptw \/ ~ack_q)

HitAnyTag == rd.valid                            \* mutant: the tag is not compared
hit      == rd.valid /\ rd.tag = lreq.addr.tag
read_hit == hit /\ ~lreq.we /\ ~lreq.ptw

CanAcceptOnAck == ~initing /\ c_req /\ ~look /\ ~pending   \* mutant: no !ack_q
CanAccept == ~initing /\ c_req /\ ~look /\ ~pending /\ ~ack_q

\* The sweep's counter.  (Mutant: it stops late.)
SweepNext == IF init_i = Lines - 1 THEN 0 ELSE init_i + 1
SweepLate == init_i = Lines
SweepDone == init_i = Lines - 1

\* The line a write leaves.  (Mutant: the store bypasses the array.)
LineBypassed == line
LineWritten ==
    IF lreq.we /\ hit
    THEN [line EXCEPT ![lreq.addr.idx].data = Merge(rd.data, lreq.wdata, lreq.be)]
    ELSE line

\* After reset one valid bit is cleared per clock; nothing is accepted meanwhile.
Clear ==
    /\ initing
    /\ line' = [line EXCEPT ![init_i].valid = FALSE]
    /\ init_i' = SweepNext
    /\ initing' = ~SweepDone
    /\ ack_q' = FALSE
    /\ UNCHANGED <<look, lreq, rd, pending, rdata_q>>

\* The request is latched, and the arrays are read with its index.
Accept ==
    /\ CanAccept
    /\ look' = TRUE
    /\ lreq' = creq
    /\ rd' = line[creq.addr.idx]
    /\ ack_q' = FALSE
    /\ UNCHANGED <<initing, init_i, line, pending, rdata_q>>

\* The lookup answers a cacheable read out of the line.
Hit ==
    /\ look
    /\ read_hit
    /\ look' = FALSE
    /\ rdata_q' = rd.data
    /\ ack_q' = TRUE
    /\ UNCHANGED <<initing, init_i, line, lreq, rd, pending>>

\* Everything else goes to memory; a write updates a matching line on its way.
Forward ==
    /\ look
    /\ ~read_hit
    /\ look' = FALSE
    /\ pending' = TRUE
    /\ line' = LineWritten
    /\ ack_q' = FALSE
    /\ UNCHANGED <<initing, init_i, lreq, rd, rdata_q>>

\* Memory answered: acknowledge, and fill the line on a cacheable read.
Answered(m_ack, m_rdata) ==
    /\ pending
    /\ m_ack
    /\ pending' = FALSE
    /\ rdata_q' = m_rdata
    /\ ack_q' = TRUE
    /\ line' = IF ~lreq.we /\ ~lreq.ptw
               THEN [line EXCEPT ![lreq.addr.idx] =
                        [valid |-> TRUE, tag |-> lreq.addr.tag, data |-> m_rdata]]
               ELSE line
    /\ UNCHANGED <<initing, init_i, look, lreq, rd>>

\* No branch of the block is taken: only a standing acknowledgement ends.
Quiet(m_ack) ==
    /\ ~initing
    /\ ~CanAccept
    /\ ~look
    /\ ~(pending /\ m_ack)
    /\ ack_q' = FALSE
    /\ UNCHANGED <<initing, init_i, line, look, lreq, rd, pending, rdata_q>>

CacheEdge(m_ack, m_rdata) ==
    Clear \/ Accept \/ Hit \/ Forward \/ Answered(m_ack, m_rdata) \/ Quiet(m_ack)
-----------------------------------------------------------------------------
\* The requester's side of the contract: a request is held until it is
\* acknowledged (mstall freezes the M stage, dw_state keeps the walker's), and
\* another, or none, may show in the very next clock.
PortMoves ==
    IF creq # NoReq /\ ~ack_q THEN creq' = creq
                              ELSE creq' \in Request \cup {NoReq}

\* The memory answers only what is pending, after any number of clocks.
Clock(m_ack) ==
    /\ m_ack => pending
    /\ CacheEdge(m_ack, mem[lreq.addr])
    /\ mem' = IF m_ack THEN Effect(mem, lreq) ELSE mem
    /\ PortMoves
    /\ UNCHANGED resets

\* Reset forgets the handshake but not the arrays: that is what Clear is for.
\* It resets the core too, and a write under way may or may not have landed.
Reset ==
    /\ resets < MaxResets
    /\ resets' = resets + 1
    /\ initing' = TRUE
    /\ init_i' = 0
    /\ look' = FALSE
    /\ pending' = FALSE
    /\ ack_q' = FALSE
    /\ creq' = NoReq
    /\ \/ mem' = mem
       \/ pending /\ mem' = Effect(mem, lreq)
    /\ UNCHANGED <<line, lreq, rd, rdata_q>>

\* Power-up leaves the arrays unknown; reset has put initing up.
Init ==
    /\ creq = NoReq
    /\ initing = TRUE /\ init_i = 0
    /\ line \in [Index -> Line]
    /\ look = FALSE /\ pending = FALSE /\ ack_q = FALSE
    /\ lreq \in [we: {FALSE}, ptw: {FALSE}, addr: Addr]
    /\ rd \in {line[i] : i \in Index}
    /\ rdata_q \in Word
    /\ mem \in [Addr -> Word]
    /\ resets = 0

Next == (\E m_ack \in BOOLEAN : Clock(m_ack)) \/ Reset

Spec == Init /\ [][Next]_vars

\* The clock keeps running, and a pending transaction is answered some day.
Fairness == /\ WF_vars(\E m_ack \in BOOLEAN : Clock(m_ack))
            /\ WF_vars(Clock(TRUE))

FairSpec == Spec /\ Fairness
-----------------------------------------------------------------------------
(* Properties *)

\* Every register keeps its type: in particular init_i never leaves the index.
TypeOK ==
    /\ creq \in Request \cup {NoReq}
    /\ initing \in BOOLEAN /\ init_i \in Index
    /\ line \in [Index -> Line]
    /\ look \in BOOLEAN /\ lreq \in Request /\ rd \in Line
    /\ pending \in BOOLEAN
    /\ ack_q \in BOOLEAN /\ rdata_q \in Word
    /\ mem \in [Addr -> Word]
    /\ resets \in 0 .. MaxResets

\* The word memory holds at a, or will hold once the write under way lands.
Upcoming(a) ==
    IF pending /\ lreq.we /\ lreq.addr = a THEN Effect(mem, lreq)[a] ELSE mem[a]

\* Coherence: outside the clearing sweep a valid line never differs from the
\* word of memory it stands for, except that it is early by the one write that
\* is on its way there.  A reset between two steps of a transaction, a partial
\* store, and a conflicting fill all have to keep it.
Coherent ==
    ~initing => \A i \in Index :
        line[i].valid => line[i].data = Upcoming([tag |-> line[i].tag, idx |-> i])

\* An acknowledgement is for the request the port is showing, and a read's
\* carries the word memory holds: never an earlier request's, whose address the
\* cache had latched.  (Without !ack_q in the accept condition the walker's
\* level-1 PTE read was repeated and came back as the level-0 PTE.)
AckAnswersPort ==
    ack_q => /\ creq # NoReq
             /\ lreq = creq
             /\ ~creq.we => rdata_q = mem[creq.addr]

\* The cache is invisible: with memory behind it, it is a plain word memory in
\* which each request takes effect once, before its acknowledgement.
PM == INSTANCE PortMemory WITH ack <- ack_q, rdata <- rdata_q
ImplementsPortMemory == PM!Spec

\* Every request the port shows is acknowledged, unless reset takes it away.
RequestAnswered == (creq # NoReq) ~> (ack_q \/ creq = NoReq)
=============================================================================
