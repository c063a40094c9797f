-------------------------------- MODULE Fetch --------------------------------
(* The front of the pipeline: the fetch FSM of src/koti_core.sv with its    *)
(* skid word, its instruction walker and its TLB (src/tlb.sv), the ID and   *)
(* EX latches it feeds, the redirects of EX, and the instruction cache      *)
(* between the fetch port and memory (src/icache.sv).  One step is one      *)
(* rising clock edge.  What an instruction does is chosen when it commits;  *)
(* a word of memory carries its address, so that two are never confused.    *)
EXTENDS Integers

CONSTANTS
    PageWords, NPages,  \* words of a page, and pages: addresses wrap after them
    Lines, N,           \* lines of the instruction cache, entries of the TLB
    Idx(_), Tag(_),     \* address |-> its index in the cache, and its tag there
    Roots, Tables,      \* page-table roots; the addresses of PTEs
    Word, Memories,     \* contents of a word; what memory may hold at reset
    Stores,             \* what the program may store: records [at, val]
    Targets,            \* where a jump, a trap or a return may lead
    L1Addr(_, _),       \* root, page |-> its level-1 PTE
    L0Addr(_, _),       \* level-1 PTE, page |-> its level-0 PTE
    PteBad(_), PteLeaf(_),
    PteFault(_, _),     \* level, PTE: misaligned superpage or A = 0
    Denied(_, _),       \* privilege, PTE: not executable there
    Frame(_, _, _)      \* level, leaf PTE, page |-> the frame it maps to

ASSUME SizeAssumption == {PageWords, NPages, N} \subseteq Nat \ {0}

Pages == 0 .. NPages - 1
VA == [page: Pages, off: 0 .. PageWords - 1]
Code == VA                 \* the physical words that may be fetched
Privs == {"M", "S", "U"}
LastOfPage(v) == v.off = PageWords - 1
NextPage(p) == IF p = NPages - 1 THEN 0 ELSE p + 1
Up(a) == IF LastOfPage(a) THEN [page |-> NextPage(a.page), off |-> 0]
                          ELSE [page |-> a.page, off |-> a.off + 1]

ASSUME PlaceAssumption ==
    /\ Tables \cap Code = {} /\ "off" \notin Roots
    /\ Memories \subseteq [Code \cup Tables -> Word]
    /\ Stores \subseteq [at: Code \cup Tables, val: Word]
    /\ Targets \subseteq VA
    /\ \A a \in Code : Idx(a) \in Lines

\* A table holds PTEs only at its own addresses, a leaf maps to a frame.
ASSUME WalkAssumption ==
    \A p \in Pages :
        /\ \A r \in Roots : L1Addr(r, p) \in Tables
        /\ \A w \in Word : L0Addr(w, p) \in Tables
        /\ \A w \in Word, level \in 0 .. 1 : Frame(level, w, p) \in Pages

None == [none |-> TRUE]

VARIABLES
    f,             \* fbusy, fpc, fpc_pa, fdrop: the fetch in flight, or None
    iw,            \* iw_state, iw_vpn, iw_addr: the walk in flight, or None
    npc,
    head, fbuf,    \* the IF/ID latch and the skid word
    ex,            \* the instruction in EX
    itlb, rr,
    satp, priv,    \* csr.sv: the root, or "off"; the privilege
    st,            \* M's store, until memory has taken it
    ic, filling, flush_seen,
    reply,         \* ack, rdata and rdata2 of the instruction cache
    mem,
    due,           \* history: the address of the instruction that EX awaits
    since_i,       \* history: what each word has held since the last fence.i
    since_v        \* history: and each PTE since the last flush of the TLB

front == <<f, iw, npc, head, fbuf, ex, itlb, rr>>
cache == <<ic, filling, flush_seen, reply>>
vars  == <<front, satp, priv, st, cache, mem, due, since_i, since_v>>
-----------------------------------------------------------------------------
(* Wires *)
mmu_i_on == satp # "off" /\ priv # "M"
if_ack == reply # None
ipte == reply.w.val

Final(level, pte) == PteBad(pte) \/ PteLeaf(pte) \/ level = 0
Faulty(e) == \/ PteBad(e.pte)
             \/ ~PteLeaf(e.pte)
             \/ PteFault(e.level, e.pte)
             \/ Denied(priv, e.pte)
Phys(e, v) == [page |-> Frame(e.level, e.pte, e.vpn), off |-> v.off]

\* Which TLB entry answers for npc: the last match of the lookup's loop.
Hits == {i \in 1 .. N : itlb[i] # None /\ itlb[i].vpn = npc.page}
Hit == itlb[CHOOSE i \in Hits : \A j \in Hits : j <= i]

FillUnlessFault == iw # None /\ if_ack /\ PteLeaf(ipte)   \* mutant: faults are not kept
iw_fill == iw # None /\ if_ack /\ Final(iw.level, ipte)

\* What the instruction in EX does as it commits: a poisoned one traps, and
\* what is privileged is illegal in U mode and traps as well.
Quiet == [kind |-> "none"]
Traps == [kind: {"trap"}, to: Targets, priv: IF priv = "M" THEN {"M"} ELSE {"M", "S"}]
Plain == [kind: {"plain", "fencei"}] \cup [kind: {"jump"}, to: Targets]
         \cup [kind: {"store"}, what: Stores]
Privileged == [kind: {"sfence"}] \cup [kind: {"satp"}, root: Roots \cup {"off"}]
              \cup [kind: {"ret"}, to: Targets,
                    priv: IF priv = "M" THEN Privs ELSE {"S", "U"}]
Ops == IF ex = None THEN {Quiet}
       ELSE Traps \cup (IF ex.ipf THEN {} ELSE Plain)
                  \cup (IF ex.ipf \/ priv = "U" THEN {} ELSE Privileged)

FlushOnSfence(op) == op.kind = "sfence"     \* mutant: a write to satp keeps the TLB
tlb_flush(op) == op.kind \in {"sfence", "satp"}
flush_ex(op)  == op.kind \notin {"none", "plain", "store"}
target_ex(op) == IF op.kind \in {"jump", "trap", "ret"} THEN op.to ELSE Up(ex.pc)
-----------------------------------------------------------------------------
(* The fetch FSM.  `go` is a clock that is not stalled (advance). *)

\* (Mutants: a fetch starts behind a stalled stage; a straddling pair's second
\* word is dropped and stepped over.)
LaunchesInStall(go, op) ==
    f = None /\ iw = None /\ head = None /\ fbuf = None /\ ~if_ack /\ ~flush_ex(op)
Launches(go, op) ==
    f = None /\ iw = None /\ head = None /\ fbuf = None /\ ~if_ack /\ ~flush_ex(op) /\ go
Translated == ~mmu_i_on \/ (Hits # {} /\ ~Faulty(Hit))
Poisoned   == mmu_i_on /\ Hits # {} /\ Faulty(Hit)

Answered  == if_ack /\ iw = None
Delivered == Answered /\ f # None /\ ~f.drop
Straddles == mmu_i_on /\ LastOfPage(f.pc)
StepTwo == Up(Up(f.pc))
Step    == IF Straddles THEN Up(f.pc) ELSE Up(Up(f.pc))

Consumes(go, lu, op) == go /\ head # None /\ ~lu /\ ~flush_ex(op)

FetchEdge(go, op) ==
    f' = IF Answered THEN None
         ELSE IF Launches(go, op) /\ Translated
              THEN [pc |-> npc, drop |-> FALSE,
                    pa |-> IF mmu_i_on THEN Phys(Hit, npc) ELSE npc]
         ELSE IF f # None /\ go /\ flush_ex(op) /\ ~if_ack THEN [f EXCEPT !.drop = TRUE]
         ELSE f

WalkerEdge(go, op) ==
    iw' = IF iw # None
          THEN IF ~if_ack THEN iw
               ELSE IF Final(iw.level, ipte) THEN None
               ELSE [iw EXCEPT !.level = 0, !.addr = L0Addr(ipte, iw.vpn)]
          ELSE IF Launches(go, op) /\ mmu_i_on /\ Hits = {}
               THEN [level |-> 1, vpn |-> npc.page, addr |-> L1Addr(satp, npc.page)]
          ELSE None

\* The redirect comes last and overrides a delivery or a promotion.
HeadEdge(go, lu, op) ==
    IF go /\ flush_ex(op)
    THEN head' = None /\ fbuf' = None /\ npc' = target_ex(op)
    ELSE IF Delivered
    THEN /\ head' = [pc |-> f.pc, word |-> reply.w, ipf |-> FALSE]
         /\ fbuf' = IF Straddles THEN None ELSE reply.w2
         /\ npc' = Step
    ELSE IF Launches(go, op) /\ Poisoned
    THEN /\ head' = [pc |-> npc, word |-> None, ipf |-> TRUE]
         /\ UNCHANGED <<fbuf, npc>>
    ELSE IF Consumes(go, lu, op)
    THEN /\ head' = IF fbuf = None THEN None
                    ELSE [head EXCEPT !.word = fbuf, !.pc = Up(head.pc)]
         /\ fbuf' = None
         /\ UNCHANGED npc
    ELSE UNCHANGED <<head, fbuf, npc>>

ExEdge(go, lu, op) ==
    ex' = IF ~go THEN ex ELSE IF flush_ex(op) \/ lu THEN None ELSE head

TlbEdge(op) ==
    IF tlb_flush(op) THEN itlb' = [i \in 1 .. N |-> None] /\ rr' = 1
    ELSE IF iw_fill
    THEN /\ itlb' = [itlb EXCEPT ![rr] = [vpn |-> iw.vpn, level |-> iw.level, pte |-> ipte]]
         /\ rr' = IF rr = N THEN 1 ELSE rr + 1
    ELSE UNCHANGED <<itlb, rr>>

CsrEdge(op) ==
    /\ satp' = IF op.kind = "satp" THEN op.root ELSE satp
    /\ priv' = IF op.kind \in {"trap", "ret"} THEN op.priv ELSE priv
-----------------------------------------------------------------------------
(* The instruction cache.  `m_ack` is memory's answer on this clock. *)
Reads(a) == [at |-> a, val |-> mem[a]]
Fetched(a) == [w |-> Reads(a), w2 |-> Reads(Up(a))]

bypass == iw # None
m_req  == bypass \/ filling
hit == ic[Idx(f.pa)] # None /\ ic[Idx(f.pa)].tag = Tag(f.pa)

CacheEdge(m_ack, flush) ==
    LET swept == IF flush THEN [i \in Lines |-> None] ELSE ic IN
    \/ /\ bypass                                  \* a page-table read: uncached
       /\ reply' = IF m_ack THEN [w |-> Reads(iw.addr), w2 |-> None] ELSE None
       /\ ic' = swept
       /\ flush_seen' = (flush_seen \/ (flush /\ filling))
       /\ UNCHANGED filling
    \/ /\ ~bypass /\ filling
       /\ IF m_ack
          THEN /\ reply' = Fetched(f.pa)
               /\ filling' = FALSE /\ flush_seen' = FALSE
               /\ ic' = IF flush_seen \/ flush THEN swept
                        ELSE [ic EXCEPT ![Idx(f.pa)] =
                                   [tag |-> Tag(f.pa), pair |-> Fetched(f.pa)]]
          ELSE /\ reply' = None
               /\ flush_seen' = (flush_seen \/ flush)
               /\ ic' = swept
               /\ UNCHANGED filling
    \/ /\ ~bypass /\ ~filling
       /\ LET lookup == f # None /\ ~if_ack
          IN  /\ reply' = IF lookup /\ hit THEN ic[Idx(f.pa)].pair ELSE None
              /\ filling' = (lookup /\ ~hit)
       /\ ic' = swept
       /\ UNCHANGED flush_seen

\* M's store is taken by memory on a clock of its own choosing.
StoreEdge(taken, op) ==
    /\ st' = IF taken THEN None ELSE IF op.kind = "store" THEN op.what ELSE st
    /\ mem' = IF taken THEN [mem EXCEPT ![st.at] = st.val] ELSE mem

HistoryEdge(op) ==
    /\ due' = IF op = Quiet THEN due ELSE IF flush_ex(op) THEN target_ex(op) ELSE Up(due)
    /\ since_i' = [a \in Code |-> {mem'[a]} \cup (IF op.kind = "fencei" THEN {} ELSE since_i[a])]
    /\ since_v' = [a \in Tables |-> {mem'[a]} \cup (IF op.kind \in {"sfence", "satp"} THEN {}
                                                   ELSE since_v[a])]
-----------------------------------------------------------------------------
\* One clock.  A store that memory has not taken stalls the pipeline, and other
\* waits of EX and M may; nothing commits on a stalled clock.  A load in EX may
\* hold back the instruction behind it.
Clock(go, lu, op, m_ack, taken) ==
    /\ go => st = None
    /\ taken => st # None
    /\ lu => go /\ ex # None /\ op.kind = "plain" /\ head # None
    /\ IF go THEN op \in Ops ELSE op = Quiet
    /\ m_ack => m_req /\ ~if_ack
    /\ FetchEdge(go, op) /\ WalkerEdge(go, op) /\ HeadEdge(go, lu, op)
    /\ ExEdge(go, lu, op) /\ TlbEdge(op) /\ CsrEdge(op)
    /\ CacheEdge(m_ack, op.kind = "fencei")
    /\ StoreEdge(taken, op)
    /\ HistoryEdge(op)

Zero == [page |-> 0, off |-> 0]
Init ==
    /\ f = None /\ iw = None /\ npc = Zero
    /\ head = None /\ fbuf = None /\ ex = None
    /\ itlb = [i \in 1 .. N |-> None] /\ rr = 1
    /\ satp = "off" /\ priv = "M" /\ st = None
    /\ ic = [i \in Lines |-> None]
    /\ filling = FALSE /\ flush_seen = FALSE /\ reply = None
    /\ mem \in Memories
    /\ due = Zero
    /\ since_i = [a \in Code |-> {mem[a]}]
    /\ since_v = [a \in Tables |-> {mem[a]}]

Advances == \E op \in Ops, lu, m_ack \in BOOLEAN : Clock(TRUE, lu, op, m_ack, FALSE)
Stalls == \E m_ack, taken \in BOOLEAN : Clock(FALSE, FALSE, Quiet, m_ack, taken)

Next == Advances \/ Stalls

Spec == Init /\ [][Next]_vars

\* The clock runs: memory takes the store and answers the request it is shown,
\* and no other stall lasts for ever (CorePort's PipelineMoves).
Takes == st # None /\ Stalls /\ st' = None
Answers == m_req /\ ~if_ack /\ Next /\ reply' # None
FairSpec == Spec /\ WF_vars(st = None /\ Advances) /\ WF_vars(Takes) /\ WF_vars(Answers)
-----------------------------------------------------------------------------
(* Properties *)

\* A fetch or a walk is started only into an empty front: while one is in flight
\* nothing is in the IF/ID latch, the skid or EX.  So no redirect, fence.i,
\* sfence or satp write can commit under it.
FrontQuiet == f # None \/ iw # None => head = None /\ fbuf = None /\ ex = None

\* What the page tables have said of a page since the TLB was last flushed.
Walks(p) ==
    {e \in [vpn: {p}, level: 0 .. 1, pte: Word] :
        \E w1 \in since_v[L1Addr(satp, p)] :
            IF Final(1, w1) THEN e.level = 1 /\ e.pte = w1
                            ELSE e.level = 0 /\ e.pte \in since_v[L0Addr(w1, p)]}
Held(a) == {[at |-> a, val |-> x] : x \in since_i[a]}

\* Where an instruction may be read from, and what may be executed there.
Places(v) == IF mmu_i_on THEN {Phys(e, v) : e \in {e \in Walks(v.page) : ~Faulty(e)}} ELSE {v}
Legal(i) == IF i.ipf THEN mmu_i_on /\ \E e \in Walks(i.pc.page) : Faulty(e)
                     ELSE \E a \in Places(i.pc) : i.word \in Held(a)

\* What EX executes is the program: the instruction at the address that follows
\* from the one before it, none skipped or repeated, read at the place where the
\* page tables put it since the last flush of the TLB, and with a content that
\* the place has had since the last fence.i; or a trap, if they deny it.
ExecutesProgram == ex # None => ex.pc = due /\ Legal(ex)

\* No cache outlives its fence: a valid line of the instruction cache holds the
\* two words of its own address as they have been since the last fence.i, and a
\* TLB entry is a walk of the current tables since the last flush.
CachesFresh ==
    /\ \A a \in Code : LET line == ic[Idx(a)] IN
          line # None /\ line.tag = Tag(a) =>
              line.pair.w \in Held(a) /\ line.pair.w2 \in Held(Up(a))
    /\ \A i \in 1 .. N : itlb[i] # None => itlb[i] \in Walks(itlb[i].vpn)

\* The front never starves the pipeline: an instruction reaches EX again, the
\* poisoned one of a page that cannot be executed included.
ExKeepsComing == []<>(ex # None)
=============================================================================
