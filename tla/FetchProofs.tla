----------------------------- MODULE FetchProofs -----------------------------
(* Proofs about the front of the pipeline.                                  *)
EXTENDS Fetch, TLAPS

\* The tag and the index tell any two words of code apart.
TagsDistinct ==
    \A a, b \in Code : Idx(a) = Idx(b) /\ Tag(a) = Tag(b) => a = b

Instr == [pc: VA, ipf: {TRUE}, word: {None}] \cup
         [pc: VA, ipf: {FALSE}, word: [at: Code, val: Word]]

FrontTyped ==
    /\ f \in {None} \cup [pc: VA, drop: BOOLEAN, pa: Code]
    /\ iw \in {None} \cup [level: 0 .. 1, vpn: Pages, addr: Tables]
    /\ npc \in VA /\ due \in VA
    /\ head \in {None} \cup Instr /\ ex \in {None} \cup Instr
    /\ fbuf \in {None} \cup [at: Code, val: Word]
Typed ==
    /\ FrontTyped
    /\ rr \in 1 .. N
    /\ itlb \in [1 .. N -> {None} \cup [vpn: Pages, level: 0 .. 1, pte: Word]]
    /\ satp \in Roots \cup {"off"} /\ priv \in Privs
    /\ st \in {None} \cup [at: Code \cup Tables, val: Word]
    /\ filling \in BOOLEAN /\ ic = [i \in Lines |-> ic[i]]
    /\ mem \in [Code \cup Tables -> Word]

\* The histories hold what memory holds now.
Current ==
    /\ since_i \in [Code -> SUBSET Word] /\ since_v \in [Tables -> SUBSET Word]
    /\ \A a \in Code : mem[a] \in since_i[a]
    /\ \A a \in Tables : mem[a] \in since_v[a]

Quietly ==
    /\ FrontQuiet
    /\ f = None \/ iw = None
    /\ reply # None => f # None \/ iw # None
    /\ filling => f # None /\ reply = None
    /\ head = None => fbuf = None

\* The address that follows the instruction in EX, and who awaits it.
After == IF ex = None THEN due ELSE Up(due)
InStep ==
    /\ ex # None => ex.pc = due /\ (ex.ipf => head = None)
    /\ head # None => /\ head.pc = After
                      /\ head.ipf => fbuf = None
                      /\ ~head.ipf => npc = IF fbuf = None THEN Up(After) ELSE Up(Up(After))
    /\ head = None /\ (ex # None => ~ex.ipf) => npc = After

Walking ==
    iw # None =>
        /\ mmu_i_on /\ iw.vpn = npc.page /\ Hits = {}
        /\ IF iw.level = 1 THEN iw.addr = L1Addr(satp, iw.vpn)
           ELSE \E w1 \in since_v[L1Addr(satp, iw.vpn)] :
                    ~Final(1, w1) /\ iw.addr = L0Addr(w1, iw.vpn)
        /\ reply # None => ipte \in since_v[iw.addr]

Fetching ==
    f # None =>
        /\ f.pc = npc /\ ~f.drop /\ f.pa \in Places(npc)
        /\ reply # None => reply.w \in Held(f.pa) /\ reply.w2 \in Held(Up(f.pa))

Latched ==
    /\ ex # None => Legal(ex)
    /\ head # None => Legal(head)
    /\ fbuf # None => \E a \in Places(Up(head.pc)) : fbuf \in Held(a)

\* The TLB has one entry for a page at most: it is filled only after a miss.
TlbFresh ==
    /\ \A i \in 1 .. N : itlb[i] # None => satp # "off" /\ itlb[i] \in Walks(itlb[i].vpn)
    /\ \A i, j \in 1 .. N :
          itlb[i] # None /\ itlb[j] # None /\ itlb[i].vpn = itlb[j].vpn => i = j

LinesFresh ==
    \A a \in Code : LET line == ic[Idx(a)] IN
        line # None /\ line.tag = Tag(a) =>
            line.pair.w \in Held(a) /\ line.pair.w2 \in Held(Up(a))

Front == FrontTyped /\ Quietly /\ InStep /\ Walking /\ Fetching /\ Latched

IInv == Typed /\ Current /\ Front /\ TlbFresh /\ LinesFresh
-----------------------------------------------------------------------------
(* The operators *)

\* No register's content is taken for an empty register.
LEMMA SomeIsNotNone ==
    /\ \A a, b, c : [pc |-> a, drop |-> b, pa |-> c] # None
    /\ \A a, b, c : [level |-> a, vpn |-> b, addr |-> c] # None
    /\ \A a, b, c : [pc |-> a, word |-> b, ipf |-> c] # None
    /\ \A a, b, c : [vpn |-> a, level |-> b, pte |-> c] # None
    /\ \A a, b : [at |-> a, val |-> b] # None
    /\ \A a, b : [w |-> a, w2 |-> b] # None
    /\ \A a, b : [tag |-> a, pair |-> b] # None
BY DEF None

\* The next address is an address.
LEMMA UpType == \A a \in VA : Up(a) \in VA
BY SizeAssumption DEF VA, Up, Pages, LastOfPage, NextPage

\* Where a page's translation puts a word is a word of code.
LEMMA PlacesType ==
    ASSUME Typed, NEW v \in VA PROVE Places(v) \subseteq Code
<1>1. \A e \in Walks(v.page) : Frame(e.level, e.pte, e.vpn) \in Pages
    <2>1. v.page \in Pages BY DEF VA
    <2> QED BY <2>1, WalkAssumption DEF Walks
<1>2. \A e \in Walks(v.page) : Phys(e, v) \in Code
    BY <1>1 DEF Phys, Code, VA
<1> QED BY <1>2 DEF Places, Code

\* Within a page, the word after a place of an address is a place of the next
\* address: a translation moves a page as a whole.
LEMMA PairFits ==
    ASSUME Typed, NEW v \in VA, NEW a \in Places(v), ~(mmu_i_on /\ LastOfPage(v))
    PROVE  Up(a) \in Places(Up(v))
<1>1. CASE ~mmu_i_on
    BY <1>1 DEF Places
<1>2. CASE mmu_i_on
    <2>1. PICK e \in Walks(v.page) : ~Faulty(e) /\ a = Phys(e, v)
        BY <1>2 DEF Places
    <2>2. Up(v) = [page |-> v.page, off |-> v.off + 1]
        BY <1>2 DEF Up
    <2>3. Up(a) = Phys(e, Up(v))
        BY <1>2, <2>1, <2>2 DEF Up, Phys, LastOfPage
    <2> QED BY <1>2, <2>1, <2>2, <2>3 DEF Places
<1> QED BY <1>1, <1>2

\* The lookup returns an entry of the page the FSM asks for.
LEMMA HitIsEntry ==
    ASSUME Typed, TlbFresh, Hits # {}
    PROVE  Hit \in Walks(npc.page) /\ Hit.vpn = npc.page /\ satp # "off"
<1>1. PICK i \in Hits : TRUE
    OBVIOUS
<1>2. \A j \in Hits : j = i
    BY <1>1 DEF Hits, TlbFresh
<1>3. \A j \in Hits : j <= i
    BY <1>1, <1>2, SizeAssumption DEF Hits
<1>4. (CHOOSE k \in Hits : \A j \in Hits : j <= k) \in Hits
    BY <1>1, <1>3
<1> QED BY <1>4 DEF Hit, Hits, TlbFresh
-----------------------------------------------------------------------------
(* What may commit *)

LEMMA OpFacts ==
    ASSUME Typed, NEW go \in BOOLEAN, NEW op, IF go THEN op \in Ops ELSE op = Quiet
    PROVE  /\ op.kind = "none" <=> op = Quiet
           /\ ~go \/ ex = None => op = Quiet
           /\ go /\ ex # None => op # Quiet
           /\ flush_ex(op) => go /\ ex # None /\ op # Quiet
           /\ tlb_flush(op) \/ op.kind = "fencei" => flush_ex(op)
           /\ ~flush_ex(op) => /\ op.kind \notin {"satp", "trap", "ret", "fencei"}
                               /\ ~tlb_flush(op)
           /\ go /\ ex # None /\ ex.ipf => flush_ex(op)
           /\ op.kind = "store" => op.what \in [at: Code \cup Tables, val: Word]
           /\ op.kind = "satp" => op.root \in Roots \cup {"off"} /\ tlb_flush(op)
           /\ op.kind \in {"trap", "ret"} => op.priv \in Privs
           /\ flush_ex(op) => target_ex(op) \in VA
<1> USE DEF Quiet, flush_ex, tlb_flush
<1>1. CASE op = Quiet
    <2>1. go => ex = None
        BY <1>1 DEF Ops, Traps, Plain, Privileged
    <2> QED BY <1>1, <2>1
<1>2. CASE op # Quiet
    <2>1. go /\ ex # None /\ op \in Ops
        BY <1>2 DEF Ops
    <2>2. op \in Traps \cup Plain \cup Privileged /\ (ex.ipf => op \in Traps)
        BY <2>1 DEF Ops
    <2>3. ex.pc \in VA
        BY <2>1 DEF Typed, FrontTyped, Instr
    <2>4. CASE op \in Traps
        BY <2>1, <2>4, PlaceAssumption DEF Traps, target_ex, Privs
    <2>5. CASE op \in Plain
        BY <2>1, <2>2, <2>3, <2>5, PlaceAssumption, UpType DEF Plain, Traps, target_ex
    <2>6. CASE op \in Privileged
        BY <2>1, <2>2, <2>3, <2>6, UpType, PlaceAssumption DEF Privileged, Traps, target_ex, Privs
    <2> QED BY <2>2, <2>4, <2>5, <2>6
<1> QED BY <1>1, <1>2
-----------------------------------------------------------------------------
(* Memory, its histories, and what they allow *)

LEMMA MemoryStep ==
    ASSUME Typed, Current,
           NEW go \in BOOLEAN, NEW lu \in BOOLEAN, NEW op,
           NEW m_ack \in BOOLEAN, NEW taken \in BOOLEAN,
           Clock(go, lu, op, m_ack, taken)
    PROVE  /\ mem' \in [Code \cup Tables -> Word]
           /\ st' \in {None} \cup [at: Code \cup Tables, val: Word]
           /\ Current'
           /\ ~(op.kind = "fencei") =>
                  \A a \in Code : since_i[a] \subseteq since_i'[a] /\ mem[a] \in since_i'[a]
           /\ ~tlb_flush(op) =>
                  \A a \in Tables : since_v[a] \subseteq since_v'[a] /\ mem[a] \in since_v'[a]
<1>1. IF go THEN op \in Ops ELSE op = Quiet
    BY DEF Clock
<1>2. op.kind = "store" => op.what \in [at: Code \cup Tables, val: Word]
    BY <1>1, OpFacts
<1>3. taken => st # None /\ st \in [at: Code \cup Tables, val: Word]
    BY DEF Clock, Typed
<1>4. mem' \in [Code \cup Tables -> Word]
    BY <1>3 DEF Clock, StoreEdge, Typed
<1>5. st' \in {None} \cup [at: Code \cup Tables, val: Word]
    BY <1>2 DEF Clock, StoreEdge, Typed
<1>6. /\ since_i' = [a \in Code |-> {mem'[a]} \cup (IF op.kind = "fencei" THEN {} ELSE since_i[a])]
      /\ since_v' = [a \in Tables |-> {mem'[a]} \cup (IF tlb_flush(op) THEN {} ELSE since_v[a])]
    BY DEF Clock, HistoryEdge, tlb_flush
<1>7. Current'
    BY <1>4, <1>6 DEF Current
<1> QED BY <1>4, <1>5, <1>6, <1>7 DEF Current

\* Until fence.i, what a word has held it has held.
LEMMA HeldGrows ==
    ASSUME Typed, Current,
           NEW go \in BOOLEAN, NEW lu \in BOOLEAN, NEW op,
           NEW m_ack \in BOOLEAN, NEW taken \in BOOLEAN,
           Clock(go, lu, op, m_ack, taken), op.kind # "fencei"
    PROVE  \A a \in Code : Held(a) \subseteq Held(a)' /\ Reads(a) \in Held(a)'
BY MemoryStep DEF Held, Reads

\* Until the TLB is flushed, what has been a walk is one.
LEMMA WalksGrow ==
    ASSUME Typed, Current,
           NEW go \in BOOLEAN, NEW lu \in BOOLEAN, NEW op,
           NEW m_ack \in BOOLEAN, NEW taken \in BOOLEAN,
           Clock(go, lu, op, m_ack, taken), ~tlb_flush(op)
    PROVE  /\ satp' = satp
           /\ satp # "off" => \A p \in Pages : Walks(p) \subseteq Walks(p)'
<1>1. satp' = satp
    BY DEF Clock, CsrEdge, tlb_flush
<1>2. \A a \in Tables : since_v[a] \subseteq since_v'[a]
    BY MemoryStep
<1>3. ASSUME satp # "off", NEW p \in Pages PROVE Walks(p) \subseteq Walks(p)'
    <2>1. satp \in Roots
        BY <1>3 DEF Typed
    <2>2. L1Addr(satp, p) \in Tables /\ \A w \in Word : L0Addr(w, p) \in Tables
        BY <2>1, WalkAssumption
    <2>3. since_v[L1Addr(satp, p)] \subseteq Word
        BY <2>2 DEF Current
    <2>4. since_v[L1Addr(satp, p)] \subseteq since_v'[L1Addr(satp, p)]
        BY <1>2, <2>2
    <2>5. \A w \in Word : since_v[L0Addr(w, p)] \subseteq since_v'[L0Addr(w, p)]
        BY <1>2, <2>2
    <2>6. Walks(p)' = {e \in [vpn: {p}, level: 0 .. 1, pte: Word] :
            \E w1 \in since_v'[L1Addr(satp, p)] :
                IF Final(1, w1) THEN e.level = 1 /\ e.pte = w1
                                ELSE e.level = 0 /\ e.pte \in since_v'[L0Addr(w1, p)]}
        BY <1>1 DEF Walks
    <2> QED BY <2>3, <2>4, <2>5, <2>6 DEF Walks
<1> QED BY <1>1, <1>3

\* Without a redirect, what is allowed stays allowed.
LEMMA Grows ==
    ASSUME Typed, Current,
           NEW go \in BOOLEAN, NEW lu \in BOOLEAN, NEW op,
           NEW m_ack \in BOOLEAN, NEW taken \in BOOLEAN,
           Clock(go, lu, op, m_ack, taken), ~flush_ex(op)
    PROVE  /\ satp' = satp /\ priv' = priv /\ (mmu_i_on' <=> mmu_i_on)
           /\ \A a \in Code : Held(a) \subseteq Held(a)' /\ Reads(a) \in Held(a)'
           /\ satp # "off" => \A p \in Pages : Walks(p) \subseteq Walks(p)'
           /\ \A v \in VA : Places(v) \subseteq Places(v)'
           /\ \A i \in Instr : Legal(i) => Legal(i)'
<1>1. IF go THEN op \in Ops ELSE op = Quiet
    BY DEF Clock
<1>2. op.kind \notin {"satp", "trap", "ret", "fencei"} /\ ~tlb_flush(op)
    BY <1>1, OpFacts
<1>3. satp' = satp /\ priv' = priv /\ (mmu_i_on' <=> mmu_i_on)
    BY <1>2 DEF Clock, CsrEdge, mmu_i_on
<1>4. \A a \in Code : Held(a) \subseteq Held(a)' /\ Reads(a) \in Held(a)'
    BY <1>2, HeldGrows
<1>5. satp # "off" => \A p \in Pages : Walks(p) \subseteq Walks(p)'
    BY <1>2, WalksGrow
<1>6. \A e : Faulty(e)' <=> Faulty(e)
    BY <1>3 DEF Faulty
<1>7. ASSUME NEW v \in VA PROVE Places(v) \subseteq Places(v)'
    <2>1. CASE mmu_i_on
        <3>1. satp # "off" /\ v.page \in Pages
            BY <2>1 DEF mmu_i_on, VA
        <3>2. Places(v) = {Phys(e, v) : e \in {e \in Walks(v.page) : ~Faulty(e)}}
            BY <2>1 DEF Places
        <3>3. Places(v)' = {Phys(e, v) : e \in {e \in Walks(v.page)' : ~Faulty(e)'}}
            BY <1>3, <2>1 DEF Places, Phys
        <3>4. Walks(v.page) \subseteq Walks(v.page)'
            BY <1>5, <3>1
        <3> QED BY <1>6, <3>2, <3>3, <3>4
    <2>2. CASE ~mmu_i_on
        BY <1>3, <2>2 DEF Places
    <2> QED BY <2>1, <2>2
<1>8. ASSUME NEW i \in Instr, Legal(i) PROVE Legal(i)'
    <2>1. i.pc \in VA /\ i.pc.page \in Pages
        BY DEF Instr, VA
    <2>2. CASE i.ipf
        <3>1. mmu_i_on /\ \E e \in Walks(i.pc.page) : Faulty(e)
            BY <1>8, <2>2 DEF Legal
        <3>2. Walks(i.pc.page) \subseteq Walks(i.pc.page)'
            BY <1>5, <2>1, <3>1 DEF mmu_i_on
        <3>3. \E e \in Walks(i.pc.page)' : Faulty(e)'
            BY <1>6, <3>1, <3>2
        <3> QED BY <1>3, <2>2, <3>1, <3>3 DEF Legal
    <2>3. CASE ~i.ipf
        <3>1. PICK a \in Places(i.pc) : i.word \in Held(a)
            BY <1>8, <2>3 DEF Legal
        <3>2. a \in Places(i.pc)' /\ a \in Code
            BY <1>7, <2>1, <3>1, PlacesType
        <3>3. i.word \in Held(a)'
            BY <1>4, <3>1, <3>2
        <3> QED BY <2>3, <3>2, <3>3 DEF Legal
    <2> QED BY <2>2, <2>3
<1> QED BY <1>3, <1>4, <1>5, <1>7, <1>8
-----------------------------------------------------------------------------
(* The instruction cache *)

\* On a clock without fence.i: the lines stay fresh, and what the cache answers
\* is the word of the walker's address or the pair of the fetch's.
LEMMA CacheStep ==
    ASSUME TagsDistinct, IInv,
           NEW go \in BOOLEAN, NEW lu \in BOOLEAN, NEW op,
           NEW m_ack \in BOOLEAN, NEW taken \in BOOLEAN,
           Clock(go, lu, op, m_ack, taken), ~flush_ex(op)
    PROVE  /\ ic' = [i \in Lines |-> ic'[i]]
           /\ filling' \in BOOLEAN
           /\ LinesFresh'
           /\ reply' # None =>
                 /\ reply = None
                 /\ iw # None => reply'.w.val = mem[iw.addr]
                 /\ iw = None =>
                       /\ f # None
                       /\ \A a \in Code : a = f.pa => /\ reply'.w \in Held(a)'
                                                    /\ reply'.w2 \in Held(Up(a))'
           /\ filling' => iw = None /\ f # None /\ reply = None /\ reply' = None
<1>1. IF go THEN op \in Ops ELSE op = Quiet
    BY DEF Clock
<1>2. op.kind # "fencei"
    BY <1>1, OpFacts DEF IInv
<1>3. CacheEdge(m_ack, FALSE) /\ (m_ack => reply = None)
    BY <1>2 DEF Clock, if_ack
<1>4. \A a \in Code : Held(a) \subseteq Held(a)' /\ Reads(a) \in Held(a)'
    BY Grows DEF IInv
<1>5. f # None => f.pa \in Code /\ Up(f.pa) \in Code /\ Idx(f.pa) \in Lines
    BY UpType, PlaceAssumption DEF IInv, Typed, FrontTyped, Code
<1>6. filling => iw = None /\ f # None /\ reply = None
    BY DEF IInv, Front, Quietly
<1>7. \A a \in Code : Up(a) \in Code /\ Idx(a) \in Lines
    BY UpType, PlaceAssumption DEF Code
<1>8. ASSUME ic' = ic PROVE LinesFresh'
    <2> SUFFICES ASSUME NEW a \in Code, ic'[Idx(a)] # None, ic'[Idx(a)].tag = Tag(a)
                 PROVE  /\ ic'[Idx(a)].pair.w \in Held(a)'
                        /\ ic'[Idx(a)].pair.w2 \in Held(Up(a))'
        BY DEF LinesFresh
    <2>1. ic[Idx(a)].pair.w \in Held(a) /\ ic[Idx(a)].pair.w2 \in Held(Up(a))
        BY <1>8 DEF IInv, LinesFresh
    <2>2. Held(Up(a)) \subseteq Held(Up(a))' /\ Held(a) \subseteq Held(a)'
        BY <1>4, <1>7
    <2> QED BY <1>8, <2>1, <2>2
<1>9. CASE bypass
    <2>1. /\ reply' = IF m_ack THEN [w |-> Reads(iw.addr), w2 |-> None] ELSE None
          /\ ic' = ic /\ filling' = filling
        BY <1>3, <1>9 DEF CacheEdge
    <2>2. iw # None /\ ~filling
        BY <1>6, <1>9 DEF bypass
    <2>3. reply' # None => reply'.w.val = mem[iw.addr] /\ reply = None
        BY <1>3, <2>1 DEF Reads
    <2>4. ic' = [i \in Lines |-> ic'[i]]
        BY <2>1 DEF IInv, Typed
    <2>5. filling \in BOOLEAN
        BY DEF IInv, Typed
    <2>6. filling' \in BOOLEAN /\ ~filling'
        BY <2>1, <2>2, <2>5
    <2> QED BY <1>8, <2>1, <2>2, <2>3, <2>4, <2>6
<1>10. CASE ~bypass /\ filling /\ m_ack
    <2>1. /\ reply' = Fetched(f.pa) /\ filling' = FALSE
          /\ \/ ic' = ic
             \/ ic' = [ic EXCEPT ![Idx(f.pa)] = [tag |-> Tag(f.pa), pair |-> Fetched(f.pa)]]
        BY <1>3, <1>10 DEF CacheEdge
    <2>2. f # None /\ iw = None /\ reply = None /\ f.pa \in Code /\ Up(f.pa) \in Code
        BY <1>5, <1>6, <1>10
    <2>3. \A a \in Code : /\ Fetched(a).w \in Held(a)'
                          /\ Fetched(a).w2 \in Held(Up(a))'
        BY <1>4, <1>7 DEF Fetched
    <2>4. ic' = [i \in Lines |-> ic'[i]]
        BY <2>1 DEF IInv, Typed
    <2>5. LinesFresh'
        <3> SUFFICES ASSUME NEW a \in Code, ic'[Idx(a)] # None, ic'[Idx(a)].tag = Tag(a),
                            ic' # ic
                     PROVE  /\ ic'[Idx(a)].pair.w \in Held(a)'
                            /\ ic'[Idx(a)].pair.w2 \in Held(Up(a))'
            BY <1>8 DEF LinesFresh
        <3>1. ic' = [ic EXCEPT ![Idx(f.pa)] = [tag |-> Tag(f.pa), pair |-> Fetched(f.pa)]]
            BY <2>1
        <3>2. CASE Idx(a) = Idx(f.pa)
            <4>1. ic'[Idx(a)] = [tag |-> Tag(f.pa), pair |-> Fetched(f.pa)]
                BY <1>5, <2>2, <3>1, <3>2 DEF IInv, Typed
            <4>2. a = f.pa
                BY <2>2, <3>2, <4>1 DEF TagsDistinct
            <4> QED BY <2>3, <4>1, <4>2
        <3>3. CASE Idx(a) # Idx(f.pa)
            <4>1. ic'[Idx(a)] = ic[Idx(a)]
                BY <1>7, <3>1, <3>3 DEF IInv, Typed
            <4>2. ic[Idx(a)].pair.w \in Held(a) /\ ic[Idx(a)].pair.w2 \in Held(Up(a))
                BY <4>1 DEF IInv, LinesFresh
            <4>3. Held(Up(a)) \subseteq Held(Up(a))' /\ Held(a) \subseteq Held(a)'
                BY <1>4, <1>7
            <4> QED BY <4>1, <4>2, <4>3
        <3> QED BY <3>2, <3>3
    <2> QED BY <2>1, <2>2, <2>3, <2>4, <2>5
<1>11. CASE ~bypass /\ filling /\ ~m_ack
    <2>1. reply' = None /\ filling' = filling /\ ic' = ic
        BY <1>3, <1>11 DEF CacheEdge
    <2>2. ic' = [i \in Lines |-> ic'[i]]
        BY <2>1 DEF IInv, Typed
    <2> QED BY <1>6, <1>8, <1>11, <2>1, <2>2
<1>12. CASE ~bypass /\ ~filling
    <2>1. /\ ic' = ic
          /\ reply' = IF (f # None /\ reply = None) /\ hit THEN ic[Idx(f.pa)].pair ELSE None
          /\ filling' = ((f # None /\ reply = None) /\ ~hit)
        BY <1>3, <1>12 DEF CacheEdge, if_ack
    <2>2. iw = None
        BY <1>12 DEF bypass
    <2>3. ASSUME reply' # None
          PROVE  /\ f # None /\ reply = None
                 /\ \A a \in Code : a = f.pa => /\ reply'.w \in Held(a)'
                                              /\ reply'.w2 \in Held(Up(a))'
        <3>1. f # None /\ reply = None /\ hit /\ reply' = ic[Idx(f.pa)].pair
            BY <2>1, <2>3
        <3>2. reply'.w \in Held(f.pa) /\ reply'.w2 \in Held(Up(f.pa))
            BY <1>5, <3>1 DEF hit, IInv, LinesFresh
        <3> QED BY <1>4, <1>7, <3>1, <3>2
    <2>4. ic' = [i \in Lines |-> ic'[i]]
        BY <2>1 DEF IInv, Typed
    <2> QED BY <1>8, <2>1, <2>2, <2>3, <2>4
<1> QED BY <1>9, <1>10, <1>11, <1>12
-----------------------------------------------------------------------------
(* A redirect: trap, return, jump, fence.i, sfence or a write to satp *)

\* It finds nothing in flight, and it leaves an empty front.
LEMMA RedirectEmpties ==
    ASSUME IInv, NEW go \in BOOLEAN, NEW lu \in BOOLEAN, NEW op,
           NEW m_ack \in BOOLEAN, NEW taken \in BOOLEAN,
           Clock(go, lu, op, m_ack, taken), flush_ex(op)
    PROVE  /\ go /\ ex # None /\ op # Quiet
           /\ f = None /\ iw = None /\ reply = None /\ ~filling
           /\ f' = None /\ iw' = None /\ head' = None /\ fbuf' = None /\ ex' = None
           /\ npc' = target_ex(op) /\ due' = target_ex(op) /\ target_ex(op) \in VA
           /\ reply' = None /\ filling' = FALSE
<1>1. IF go THEN op \in Ops ELSE op = Quiet
    BY DEF Clock
<1>2. go /\ ex # None /\ op # Quiet /\ target_ex(op) \in VA
    BY <1>1, OpFacts DEF IInv
<1>3. f = None /\ iw = None
    BY <1>2 DEF IInv, Front, Quietly, FrontQuiet
<1>4. reply = None /\ ~filling
    BY <1>3 DEF IInv, Front, Quietly
<1>5. ~Answered /\ ~Launches(go, op)
    BY <1>4 DEF Answered, if_ack, Launches
<1>6. f' = None /\ iw' = None
    BY <1>3, <1>5 DEF Clock, FetchEdge, WalkerEdge
<1>7. head' = None /\ fbuf' = None /\ npc' = target_ex(op)
    BY <1>2 DEF Clock, HeadEdge
<1>8. ex' = None /\ due' = target_ex(op)
    BY <1>2 DEF Clock, ExEdge, HistoryEdge
<1>9. reply' = None /\ filling' = FALSE
    BY <1>3, <1>4 DEF Clock, CacheEdge, bypass
<1> QED BY <1>2, <1>3, <1>4, <1>6, <1>7, <1>8, <1>9

LEMMA RedirectKeeps ==
    ASSUME TagsDistinct, IInv, NEW go \in BOOLEAN, NEW lu \in BOOLEAN, NEW op,
           NEW m_ack \in BOOLEAN, NEW taken \in BOOLEAN,
           Clock(go, lu, op, m_ack, taken), flush_ex(op)
    PROVE  IInv'
<1>1. IF go THEN op \in Ops ELSE op = Quiet
    BY DEF Clock
<1>2. /\ f = None /\ iw = None /\ reply = None /\ ~filling
      /\ f' = None /\ iw' = None /\ head' = None /\ fbuf' = None /\ ex' = None
      /\ npc' = target_ex(op) /\ due' = target_ex(op) /\ target_ex(op) \in VA
      /\ reply' = None /\ filling' = FALSE
    BY RedirectEmpties
<1>3. Current' /\ mem' \in [Code \cup Tables -> Word]
      /\ st' \in {None} \cup [at: Code \cup Tables, val: Word]
    BY MemoryStep DEF IInv
<1>4. Front'
    BY <1>2 DEF Front, FrontTyped, Quietly, FrontQuiet, InStep, After, Walking, Fetching, Latched
<1>5. /\ op.kind = "satp" => op.root \in Roots \cup {"off"} /\ tlb_flush(op)
      /\ op.kind \in {"trap", "ret"} => op.priv \in Privs
    BY <1>1, OpFacts DEF IInv
<1>6. satp' \in Roots \cup {"off"} /\ priv' \in Privs
    BY <1>5 DEF Clock, CsrEdge, IInv, Typed
<1>7. \/ tlb_flush(op) /\ itlb' = [i \in 1 .. N |-> None] /\ rr' = 1
      \/ ~tlb_flush(op) /\ UNCHANGED <<itlb, rr>>
    BY <1>2 DEF Clock, TlbEdge, iw_fill
<1>8. \/ op.kind = "fencei" /\ ic' = [i \in Lines |-> None]
      \/ op.kind # "fencei" /\ ic' = ic
    BY <1>2 DEF Clock, CacheEdge, bypass
<1>9. Typed'
    <2>1. rr' \in 1 .. N /\ itlb' \in [1 .. N -> {None} \cup [vpn: Pages, level: 0 .. 1, pte: Word]]
        BY <1>7, SizeAssumption DEF IInv, Typed
    <2>2. ic' = [i \in Lines |-> ic'[i]]
        BY <1>8 DEF IInv, Typed
    <2> QED BY <1>2, <1>3, <1>4, <1>6, <2>1, <2>2 DEF Typed, Front
<1>10. TlbFresh'
    <2>1. CASE tlb_flush(op)
        BY <1>7, <2>1 DEF TlbFresh
    <2>2. CASE ~tlb_flush(op)
        <3>1. satp' = satp /\ (satp # "off" => \A p \in Pages : Walks(p) \subseteq Walks(p)')
            BY <2>2, WalksGrow DEF IInv
        <3>2. \A i \in 1 .. N : itlb[i] # None => itlb[i].vpn \in Pages
            BY DEF IInv, Typed
        <3>3. itlb' = itlb
            BY <1>7, <2>2
        <3>4. ASSUME NEW i \in 1 .. N, itlb[i] # None
              PROVE  satp' # "off" /\ itlb[i] \in Walks(itlb[i].vpn)'
            <4>1. satp # "off" /\ itlb[i] \in Walks(itlb[i].vpn)
                BY <3>4 DEF IInv, TlbFresh
            <4>2. \A p \in Pages : itlb[i].vpn = p => itlb[i] \in Walks(p)'
                BY <3>1, <4>1
            <4> QED BY <3>1, <3>2, <3>3, <3>4, <4>1, <4>2
        <3> QED BY <3>3, <3>4 DEF IInv, TlbFresh
    <2> QED BY <2>1, <2>2
<1>11. LinesFresh'
    <2>1. CASE op.kind = "fencei"
        BY <1>8, <2>1, PlaceAssumption DEF LinesFresh
    <2>2. CASE op.kind # "fencei"
        <3> SUFFICES ASSUME NEW a \in Code, ic'[Idx(a)] # None, ic'[Idx(a)].tag = Tag(a)
                     PROVE  /\ ic'[Idx(a)].pair.w \in Held(a)'
                            /\ ic'[Idx(a)].pair.w2 \in Held(Up(a))'
            BY DEF LinesFresh
        <3>1. ic[Idx(a)].pair.w \in Held(a) /\ ic[Idx(a)].pair.w2 \in Held(Up(a))
            BY <1>8, <2>2 DEF IInv, LinesFresh
        <3>2. Held(a) \subseteq Held(a)' /\ Held(Up(a)) \subseteq Held(Up(a))'
            BY <2>2, HeldGrows, UpType DEF IInv, Code
        <3> QED BY <1>8, <2>2, <3>1, <3>2
    <2> QED BY <2>1, <2>2
<1> QED BY <1>3, <1>4, <1>9, <1>10, <1>11 DEF IInv
-----------------------------------------------------------------------------
(* A clock without a redirect: the TLB *)

LEMMA FillStep ==
    ASSUME IInv, NEW go \in BOOLEAN, NEW lu \in BOOLEAN, NEW op,
           NEW m_ack \in BOOLEAN, NEW taken \in BOOLEAN,
           Clock(go, lu, op, m_ack, taken), ~flush_ex(op)
    PROVE  /\ rr' \in 1 .. N
           /\ itlb' \in [1 .. N -> {None} \cup [vpn: Pages, level: 0 .. 1, pte: Word]]
           /\ TlbFresh'
<1>1. IF go THEN op \in Ops ELSE op = Quiet
    BY DEF Clock
<1>2. ~tlb_flush(op)
    BY <1>1, OpFacts DEF IInv
<1>3. satp' = satp /\ (satp # "off" => \A p \in Pages : Walks(p) \subseteq Walks(p)')
    BY <1>2, WalksGrow DEF IInv
<1>4. ASSUME NEW i \in 1 .. N, itlb[i] # None
      PROVE  satp' # "off" /\ \A p \in Pages : itlb[i].vpn = p => itlb[i] \in Walks(p)'
    BY <1>3, <1>4 DEF IInv, TlbFresh
<1>5. \A i \in 1 .. N : itlb[i] # None => itlb[i].vpn \in Pages
    BY DEF IInv, Typed
<1>6. CASE ~iw_fill
    <2>1. UNCHANGED <<itlb, rr>>
        BY <1>2, <1>6 DEF Clock, TlbEdge
    <2> QED BY <1>4, <1>5, <2>1 DEF IInv, Typed, TlbFresh
<1>7. CASE iw_fill
    <2> DEFINE e == [vpn |-> iw.vpn, level |-> iw.level, pte |-> ipte]
    <2>1. /\ itlb' = [itlb EXCEPT ![rr] = e]
          /\ rr' = IF rr = N THEN 1 ELSE rr + 1
        BY <1>2, <1>7 DEF Clock, TlbEdge
    <2>2. rr' \in 1 .. N
        BY <2>1, SizeAssumption DEF IInv, Typed
    <2>3. /\ iw # None /\ reply # None /\ Final(iw.level, ipte)
          /\ iw.vpn \in Pages /\ iw.level \in 0 .. 1 /\ iw.addr \in Tables
        BY <1>7 DEF iw_fill, if_ack, IInv, Typed, FrontTyped
    <2>4. /\ satp # "off" /\ iw.vpn = npc.page /\ Hits = {} /\ ipte \in since_v[iw.addr]
          /\ IF iw.level = 1 THEN iw.addr = L1Addr(satp, iw.vpn)
             ELSE \E w1 \in since_v[L1Addr(satp, iw.vpn)] :
                      ~Final(1, w1) /\ iw.addr = L0Addr(w1, iw.vpn)
        BY <2>3 DEF IInv, Front, Walking, mmu_i_on
    <2>5. ipte \in Word
        BY <2>3, <2>4 DEF IInv, Current
    <2>6. e \in Walks(iw.vpn)
        BY <2>3, <2>4, <2>5 DEF Walks
    <2>7. \A p \in Pages : iw.vpn = p => e \in Walks(p)'
        BY <1>3, <2>4, <2>6
    <2>8. itlb' \in [1 .. N -> {None} \cup [vpn: Pages, level: 0 .. 1, pte: Word]]
        BY <2>1, <2>3, <2>5 DEF IInv, Typed
    <2>9. \A i \in 1 .. N : itlb'[i] = IF i = rr THEN e ELSE itlb[i]
        BY <2>1 DEF IInv, Typed
    <2>10. ASSUME NEW i \in 1 .. N, itlb'[i] # None
           PROVE  satp' # "off" /\ \A p \in Pages : itlb'[i].vpn = p => itlb'[i] \in Walks(p)'
        BY <1>3, <1>4, <2>4, <2>7, <2>9, <2>10
    <2>11. \A i \in 1 .. N : itlb'[i] # None => itlb'[i].vpn \in Pages
        BY <1>5, <2>3, <2>9
    <2>12. \A i \in 1 .. N : ~(itlb[i] # None /\ itlb[i].vpn = iw.vpn)
        BY <2>4 DEF Hits
    <2>13. ASSUME NEW i \in 1 .. N, NEW j \in 1 .. N,
                  itlb'[i] # None, itlb'[j] # None, itlb'[i].vpn = itlb'[j].vpn
           PROVE  i = j
        <3>1. CASE i = rr \/ j = rr
            BY <2>9, <2>12, <2>13, <3>1
        <3>2. CASE i # rr /\ j # rr
            BY <2>9, <2>13, <3>2 DEF IInv, TlbFresh
        <3> QED BY <3>1, <3>2
    <2> HIDE DEF e
    <2>14. \A i \in 1 .. N : itlb'[i] # None => satp' # "off" /\ itlb'[i] \in Walks(itlb[i].vpn)'
        BY <2>10, <2>11
    <2> QED BY <2>2, <2>8, <2>13, <2>14 DEF TlbFresh
<1> QED BY <1>6, <1>7
-----------------------------------------------------------------------------
(* A clock without a redirect: the front *)

\* With a walk in flight the rest of the front stands still.
LEMMA WalkClock ==
    ASSUME TagsDistinct, IInv, NEW go \in BOOLEAN, NEW lu \in BOOLEAN, NEW op,
           NEW m_ack \in BOOLEAN, NEW taken \in BOOLEAN,
           Clock(go, lu, op, m_ack, taken), ~flush_ex(op), iw # None
    PROVE  Front'
<1>1. op = Quiet /\ f = None /\ head = None /\ fbuf = None /\ ex = None
    BY OpFacts DEF Clock, IInv, Front, Quietly, FrontQuiet
<1>2. ~Answered /\ ~Launches(go, op) /\ ~Consumes(go, lu, op) /\ ~Delivered
    BY <1>1 DEF Answered, Launches, Consumes, Delivered
<1>3. f' = None /\ head' = None /\ fbuf' = None /\ npc' = npc /\ ex' = None /\ due' = due
    BY <1>1, <1>2 DEF Clock, FetchEdge, HeadEdge, ExEdge, HistoryEdge, flush_ex, Quiet
<1>4. /\ mmu_i_on /\ iw.vpn = npc.page /\ Hits = {} /\ satp # "off"
      /\ IF iw.level = 1 THEN iw.addr = L1Addr(satp, iw.vpn)
         ELSE \E w1 \in since_v[L1Addr(satp, iw.vpn)] :
                  ~Final(1, w1) /\ iw.addr = L0Addr(w1, iw.vpn)
      /\ reply # None => ipte \in since_v[iw.addr]
    BY DEF IInv, Front, Walking, mmu_i_on
<1>5. iw.vpn \in Pages /\ iw.level \in 0 .. 1 /\ iw.addr \in Tables
    BY DEF IInv, Typed, FrontTyped
<1>6. /\ satp' = satp /\ (mmu_i_on' <=> mmu_i_on)
      /\ op.kind # "fencei" /\ ~tlb_flush(op)
    BY <1>1, Grows DEF IInv, Quiet, tlb_flush
<1>7. \A a \in Tables : since_v[a] \subseteq since_v'[a] /\ mem[a] \in since_v'[a]
    BY <1>6, MemoryStep DEF IInv
<1>8. /\ reply' # None => reply = None /\ reply'.w.val = mem[iw.addr]
      /\ ~filling'
    BY CacheStep
<1>9. L1Addr(satp, iw.vpn) \in Tables
    BY <1>4, <1>5, WalkAssumption DEF IInv, Typed
<1>10. CASE reply = None
    <2>1. iw' = iw
        BY <1>10 DEF Clock, WalkerEdge, if_ack
    <2>2. Hits' = {}
        <3>1. itlb' = itlb
            BY <1>6, <1>10 DEF Clock, TlbEdge, iw_fill, if_ack
        <3> QED BY <1>3, <1>4, <3>1 DEF Hits
    <2>3. FrontTyped'
        BY <1>3, <2>1 DEF IInv, Typed, FrontTyped
    <2>4. Quietly' /\ InStep' /\ Fetching' /\ Latched'
        BY <1>1, <1>3, <1>8, <2>1 DEF Quietly, FrontQuiet, InStep, After, Fetching, Latched,
           IInv, Front
    <2>5. reply' # None => ipte' \in since_v'[iw.addr]
        BY <1>5, <1>7, <1>8 DEF ipte
    <2>6. iw.level # 1 =>
             \E w1 \in since_v'[L1Addr(satp, iw.vpn)] :
                  ~Final(1, w1) /\ iw.addr = L0Addr(w1, iw.vpn)
        BY <1>4, <1>7, <1>9
    <2>7. Walking'
        BY <1>3, <1>4, <1>6, <2>1, <2>2, <2>5, <2>6 DEF Walking
    <2> QED BY <2>3, <2>4, <2>7 DEF Front
<1>11. CASE reply # None /\ Final(iw.level, ipte)
    <2>1. iw' = None
        BY <1>11 DEF Clock, WalkerEdge, if_ack
    <2>2. reply' = None
        BY <1>8, <1>11
    <2>3. FrontTyped'
        BY <1>3, <2>1 DEF IInv, Typed, FrontTyped
    <2>4. Quietly' /\ InStep' /\ Fetching' /\ Latched' /\ Walking'
        BY <1>1, <1>3, <1>8, <2>1, <2>2 DEF Quietly, FrontQuiet, InStep, After, Fetching,
           Latched, Walking, IInv, Front
    <2> QED BY <2>3, <2>4 DEF Front
<1>12. CASE reply # None /\ ~Final(iw.level, ipte)
    <2>1. iw.level = 1
        BY <1>5, <1>12 DEF Final
    <2>2. ipte \in since_v[L1Addr(satp, iw.vpn)] /\ ipte \in Word
        BY <1>4, <1>9, <1>12, <2>1 DEF IInv, Current
    <2>3. iw' = [iw EXCEPT !.level = 0, !.addr = L0Addr(ipte, iw.vpn)]
        BY <1>12 DEF Clock, WalkerEdge, if_ack
    <2>4. iw' = [level |-> 0, vpn |-> iw.vpn, addr |-> L0Addr(ipte, iw.vpn)]
        BY <2>3 DEF IInv, Typed, FrontTyped
    <2>5. L0Addr(ipte, iw.vpn) \in Tables
        BY <1>5, <2>2, WalkAssumption
    <2>6. Hits' = {}
        <3>1. itlb' = itlb
            BY <1>6, <1>12 DEF Clock, TlbEdge, iw_fill
        <3> QED BY <1>3, <1>4, <3>1 DEF Hits
    <2>7. reply' = None
        BY <1>8, <1>12
    <2>8. FrontTyped'
        BY <1>3, <1>5, <2>4, <2>5 DEF IInv, Typed, FrontTyped
    <2>9. Quietly' /\ InStep' /\ Fetching' /\ Latched'
        BY <1>1, <1>3, <1>8, <2>7 DEF Quietly, FrontQuiet, InStep, After, Fetching, Latched,
           IInv, Front
    <2>10. ~Final(1, ipte) /\ ipte \in since_v'[L1Addr(satp, iw.vpn)]
        BY <1>7, <1>9, <1>12, <2>1, <2>2
    <2>11. Walking'
        BY <1>3, <1>4, <1>6, <2>4, <2>6, <2>7, <2>10 DEF Walking
    <2> QED BY <2>8, <2>9, <2>11 DEF Front
<1> QED BY <1>10, <1>11, <1>12

\* A fetch in flight: its pair is delivered into an empty front.
LEMMA FetchClock ==
    ASSUME TagsDistinct, IInv, NEW go \in BOOLEAN, NEW lu \in BOOLEAN, NEW op,
           NEW m_ack \in BOOLEAN, NEW taken \in BOOLEAN,
           Clock(go, lu, op, m_ack, taken), ~flush_ex(op), f # None
    PROVE  Front'
<1>1. op = Quiet /\ iw = None /\ head = None /\ fbuf = None /\ ex = None
    BY OpFacts DEF Clock, IInv, Front, Quietly, FrontQuiet
<1>2. ~Launches(go, op) /\ ~Consumes(go, lu, op)
    BY <1>1 DEF Launches, Consumes
<1>3. iw' = None /\ ex' = None /\ due' = due
    BY <1>1, <1>2 DEF Clock, WalkerEdge, ExEdge, HistoryEdge, flush_ex, Quiet
<1>4. f.pc = npc /\ npc = due /\ ~f.drop /\ f.pa \in Places(npc)
    BY <1>1 DEF IInv, Front, Fetching, InStep, After
<1>5. npc \in VA /\ f.pa \in Code /\ due \in VA /\ Up(npc) \in VA /\ Up(f.pa) \in Code
    BY UpType DEF IInv, Typed, FrontTyped, Code
<1>6. /\ mmu_i_on' <=> mmu_i_on
      /\ \A a \in Code : Held(a) \subseteq Held(a)'
      /\ \A v \in VA : Places(v) \subseteq Places(v)'
    BY Grows DEF IInv
<1>7. /\ reply' # None =>
             /\ reply = None
             /\ \A a \in Code : a = f.pa => /\ reply'.w \in Held(a)'
                                          /\ reply'.w2 \in Held(Up(a))'
      /\ filling' => reply = None /\ reply' = None
    BY <1>1, CacheStep
<1>8. CASE reply = None
    <2>1. ~Answered /\ ~Delivered
        BY <1>8 DEF Answered, Delivered, if_ack
    <2>2. f' = f /\ head' = None /\ fbuf' = None /\ npc' = npc
        BY <1>1, <1>2, <2>1 DEF Clock, FetchEdge, HeadEdge, flush_ex, Quiet
    <2>3. FrontTyped'
        BY <1>3, <2>2 DEF IInv, Typed, FrontTyped
    <2>4. Quietly' /\ InStep' /\ Walking' /\ Latched'
        BY <1>1, <1>3, <1>4, <1>7, <2>2 DEF Quietly, FrontQuiet, InStep, After, Walking, Latched
    <2>5. f.pa \in Places(npc)'
        <3>1. \A v \in VA : v = npc => f.pa \in Places(v)'
            BY <1>4, <1>6
        <3> QED BY <1>5, <2>2, <3>1 DEF Places
    <2>6. Fetching'
        BY <1>4, <1>5, <1>7, <2>2, <2>5 DEF Fetching, Held, Places
    <2> QED BY <2>3, <2>4, <2>6 DEF Front
<1>9. CASE reply # None
    <2>1. Answered /\ Delivered
        BY <1>1, <1>4, <1>9 DEF Answered, Delivered, if_ack
    <2>2. /\ f' = None
          /\ head' = [pc |-> npc, word |-> reply.w, ipf |-> FALSE]
          /\ fbuf' = IF Straddles THEN None ELSE reply.w2
          /\ npc' = IF Straddles THEN Up(npc) ELSE Up(Up(npc))
        BY <1>1, <1>4, <2>1 DEF Clock, FetchEdge, HeadEdge, flush_ex, Quiet, Step
    <2>3. reply' = None /\ ~filling'
        BY <1>7, <1>9
    <2>4. reply.w \in Held(f.pa) /\ reply.w2 \in Held(Up(f.pa))
        BY <1>9 DEF IInv, Front, Fetching
    <2>5. \A a \in Code : Held(a) \subseteq [at: Code, val: Word] /\ \A x \in Held(a) : x # None
        BY SomeIsNotNone DEF Held, IInv, Current
    <2>6. reply.w \in [at: Code, val: Word] /\ reply.w2 \in [at: Code, val: Word]
          /\ reply.w2 # None
        BY <1>5, <2>4, <2>5
    <2>7. head' \in Instr /\ head' # None /\ head'.pc = npc /\ ~head'.ipf /\ head'.word = reply.w
        BY <1>5, <2>2, <2>6, SomeIsNotNone DEF Instr
    <2>8. FrontTyped'
        BY <1>3, <1>5, <2>2, <2>6, <2>7, UpType DEF FrontTyped, IInv, Typed
    <2>9. Quietly' /\ Walking' /\ Fetching'
        BY <1>3, <2>2, <2>3, <2>7 DEF Quietly, FrontQuiet, Walking, Fetching
    <2>10. InStep'
        BY <1>3, <1>4, <2>2, <2>6, <2>7 DEF InStep, After
    <2>11. Legal(head)'
        <3>1. \A v \in VA : v = npc => f.pa \in Places(v)'
            BY <1>4, <1>6
        <3>2. \A a \in Code : a = f.pa => reply.w \in Held(a)'
            BY <1>6, <2>4
        <3>3. \A a \in Code, v \in VA : a = f.pa /\ v = npc =>
                  a \in Places(v)' /\ reply.w \in Held(a)'
            BY <3>1, <3>2
        <3>4. \E a \in Places(head.pc)' : reply.w \in Held(a)'
            BY <1>5, <2>7, <3>3 DEF Places
        <3> QED BY <2>7, <3>4 DEF Legal
    <2>12. fbuf' # None => \E a \in Places(Up(head.pc))' : fbuf' \in Held(a)'
        <3> SUFFICES ASSUME fbuf' # None
                     PROVE  \E a \in Places(Up(head.pc))' : fbuf' \in Held(a)'
            OBVIOUS
        <3>1. ~Straddles /\ fbuf' = reply.w2
            BY <2>2
        <3>2. Up(f.pa) \in Places(Up(npc))
            BY <1>4, <1>5, <3>1, PairFits DEF Straddles, IInv
        <3>3. \A a \in Code, v \in VA : a = Up(f.pa) /\ v = Up(npc) =>
                  a \in Places(v)' /\ fbuf' \in Held(a)'
            BY <1>6, <2>4, <3>1, <3>2
        <3>4. head'.pc = npc
            BY <2>7
        <3> QED BY <1>5, <3>3, <3>4 DEF Places, Up, LastOfPage, NextPage
    <2>13. Latched'
        BY <1>3, <2>11, <2>12 DEF Latched
    <2> QED BY <2>8, <2>9, <2>10, <2>13 DEF Front
<1> QED BY <1>8, <1>9

\* Nothing in flight, and the FSM starts something: a fetch at the place of the
\* next address, the poisoned instruction of a denied page, or a walk.
LEMMA LaunchClock ==
    ASSUME TagsDistinct, IInv, NEW go \in BOOLEAN, NEW lu \in BOOLEAN, NEW op,
           NEW m_ack \in BOOLEAN, NEW taken \in BOOLEAN,
           Clock(go, lu, op, m_ack, taken), ~flush_ex(op),
           Launches(go, op)
    PROVE  Front'
<1>1. go /\ f = None /\ iw = None /\ head = None /\ fbuf = None /\ reply = None
    BY DEF Launches, if_ack
<1>2. ~Answered /\ ~Delivered /\ ~Consumes(go, lu, op)
    BY <1>1 DEF Answered, Delivered, Consumes, if_ack
<1>3. ex' = None /\ (ex = None <=> op = Quiet) /\ (ex # None => ~ex.ipf)
    BY <1>1, OpFacts DEF Clock, ExEdge, IInv
<1>4. npc = After /\ due' = npc
    BY <1>1, <1>3 DEF IInv, Front, InStep, After, Clock, HistoryEdge
<1>5. npc \in VA /\ npc.page \in Pages
    BY DEF IInv, Typed, FrontTyped, VA
<1>6. reply' = None /\ ~filling'
    BY <1>1, CacheStep
<1>7. /\ mmu_i_on' <=> mmu_i_on
      /\ satp' = satp
      /\ \A v \in VA : Places(v) \subseteq Places(v)'
      /\ \A i \in Instr : Legal(i) => Legal(i)'
    BY Grows DEF IInv
<1>8. CASE Translated
    <2> DEFINE pa == IF mmu_i_on THEN Phys(Hit, npc) ELSE npc
    <2>1. f' = [pc |-> npc, drop |-> FALSE, pa |-> pa]
        BY <1>2, <1>8 DEF Clock, FetchEdge
    <2>2. iw' = None
        BY <1>1, <1>8 DEF Clock, WalkerEdge, Translated
    <2>3. head' = None /\ fbuf' = None /\ npc' = npc
        BY <1>1, <1>2, <1>8 DEF Clock, HeadEdge, Translated, Poisoned
    <2>4. pa \in Places(npc)
        BY <1>8, HitIsEntry DEF Translated, Places, IInv
    <2>5. pa \in Code
        BY <1>5, <2>4, PlacesType DEF IInv
    <2>6. \A v \in VA : v = npc => pa \in Places(v)'
        BY <1>7, <2>4
    <2> HIDE DEF pa
    <2>7. f'.pa \in Places(npc)'
        BY <1>5, <2>1, <2>3, <2>6 DEF Places
    <2>8. FrontTyped'
        BY <1>3, <1>4, <1>5, <2>1, <2>2, <2>3, <2>5 DEF FrontTyped
    <2>9. Quietly' /\ InStep' /\ Walking' /\ Latched'
        BY <1>3, <1>4, <1>6, <2>1, <2>2, <2>3 DEF Quietly, FrontQuiet, InStep, After, Walking, Latched
    <2>10. Fetching'
        BY <1>6, <2>1, <2>3, <2>7 DEF Fetching
    <2> QED BY <2>8, <2>9, <2>10 DEF Front
<1>9. CASE Poisoned
    <2>1. f' = None /\ iw' = None
        BY <1>1, <1>2, <1>9 DEF Clock, FetchEdge, WalkerEdge, Translated, Poisoned
    <2>2. head' = [pc |-> npc, word |-> None, ipf |-> TRUE] /\ fbuf' = None /\ npc' = npc
        BY <1>1, <1>2, <1>9 DEF Clock, HeadEdge
    <2>3. head' \in Instr /\ head' # None /\ head'.ipf /\ head'.pc = npc
        BY <1>5, <2>2, SomeIsNotNone DEF Instr
    <2>4. Legal([pc |-> npc, word |-> None, ipf |-> TRUE])
        BY <1>9, HitIsEntry DEF Poisoned, Legal, IInv
    <2>5. \A i \in Instr : i = [pc |-> npc, word |-> None, ipf |-> TRUE] => Legal(i)'
        BY <1>7, <2>4
    <2>6. Legal(head)'
        BY <2>2, <2>3, <2>5 DEF Legal, Places, Walks, Held, Faulty
    <2>7. FrontTyped'
        BY <1>3, <1>4, <1>5, <2>1, <2>2, <2>3 DEF FrontTyped
    <2>8. Quietly' /\ InStep' /\ Walking' /\ Fetching'
        BY <1>3, <1>4, <1>6, <2>1, <2>2, <2>3 DEF Quietly, FrontQuiet, InStep, After, Walking, Fetching
    <2>9. Latched'
        BY <1>3, <2>2, <2>6 DEF Latched
    <2> QED BY <2>7, <2>8, <2>9 DEF Front
<1>10. CASE mmu_i_on /\ Hits = {}
    <2>1. f' = None
        BY <1>1, <1>2, <1>10 DEF Clock, FetchEdge, Translated
    <2>2. iw' = [level |-> 1, vpn |-> npc.page, addr |-> L1Addr(satp, npc.page)]
        BY <1>1, <1>10 DEF Clock, WalkerEdge
    <2>3. head' = None /\ fbuf' = None /\ npc' = npc
        BY <1>1, <1>2, <1>10 DEF Clock, HeadEdge, Poisoned
    <2>4. L1Addr(satp, npc.page) \in Tables
        BY <1>5, <1>10, WalkAssumption DEF mmu_i_on, IInv, Typed
    <2>5. Hits' = {}
        <3>1. ~tlb_flush(op) /\ ~iw_fill
            BY <1>1, OpFacts DEF iw_fill, Clock, IInv
        <3>2. itlb' = itlb
            BY <3>1 DEF Clock, TlbEdge
        <3> QED BY <1>10, <2>3, <3>2 DEF Hits
    <2>6. FrontTyped'
        BY <1>3, <1>4, <1>5, <2>1, <2>2, <2>3, <2>4 DEF FrontTyped
    <2>7. Quietly' /\ InStep' /\ Fetching' /\ Latched'
        BY <1>3, <1>4, <1>6, <2>1, <2>3 DEF Quietly, FrontQuiet, InStep, After, Fetching, Latched
    <2>8. Walking'
        BY <1>6, <1>7, <1>10, <2>2, <2>3, <2>5 DEF Walking
    <2> QED BY <2>6, <2>7, <2>8 DEF Front
<1> QED BY <1>8, <1>9, <1>10 DEF Translated, Poisoned

\* Nothing in flight and nothing started: the head moves on to EX, the skid word
\* becomes the head, or all is held.
LEMMA IdleClock ==
    ASSUME TagsDistinct, IInv, NEW go \in BOOLEAN, NEW lu \in BOOLEAN, NEW op,
           NEW m_ack \in BOOLEAN, NEW taken \in BOOLEAN,
           Clock(go, lu, op, m_ack, taken), ~flush_ex(op),
           f = None, iw = None, ~Launches(go, op)
    PROVE  Front'
<1>1. reply = None /\ ~filling
    BY DEF IInv, Front, Quietly
<1>2. ~Answered /\ ~Delivered
    BY <1>1 DEF Answered, Delivered, if_ack
<1>3. f' = None /\ iw' = None
    BY <1>2 DEF Clock, FetchEdge, WalkerEdge
<1>4. reply' = None /\ ~filling'
    BY CacheStep
<1>5. Walking' /\ Fetching'
    BY <1>3 DEF Walking, Fetching
<1>6. /\ \A a \in Code : Held(a) \subseteq Held(a)'
      /\ \A v \in VA : Places(v) \subseteq Places(v)'
      /\ \A i \in Instr : Legal(i) => Legal(i)'
    BY Grows DEF IInv
<1>7. /\ due \in VA /\ npc \in VA /\ After \in VA /\ Up(After) \in VA
      /\ head \in {None} \cup Instr /\ ex \in {None} \cup Instr
      /\ fbuf \in {None} \cup [at: Code, val: Word]
    BY UpType DEF IInv, Typed, FrontTyped, After
<1>8. ASSUME NEW i \in Instr, Legal(i), UNCHANGED ex, ex = i PROVE Legal(ex)'
    BY <1>6, <1>8 DEF Legal, Places, Walks, Held, Faulty
<1>9. ASSUME NEW i \in Instr, Legal(i), head' = i PROVE Legal(head)'
    BY <1>6, <1>9 DEF Legal, Places, Walks, Held, Faulty
<1>10. ASSUME NEW i \in Instr, Legal(i), ex' = i PROVE Legal(ex)'
    BY <1>6, <1>10 DEF Legal, Places, Walks, Held, Faulty
<1>11. ASSUME fbuf # None, head # None
       PROVE  \A v \in VA : v = Up(head.pc) => \E a \in Places(v)' : a \in Code /\ fbuf \in Held(a)'
    <2>1. PICK a \in Places(Up(head.pc)) : fbuf \in Held(a)
        BY <1>11 DEF IInv, Front, Latched
    <2>2. Up(head.pc) \in VA
        BY <1>7, <1>11, UpType DEF Instr
    <2>3. a \in Code
        BY <2>1, <2>2, PlacesType DEF IInv
    <2> QED BY <1>6, <2>1, <2>3
<1>12. CASE ~go
    <2>1. op = Quiet /\ ~Consumes(go, lu, op)
        BY <1>12 DEF Clock, Consumes
    <2>2. UNCHANGED <<head, fbuf, npc, ex, due>>
        BY <1>2, <1>12, <2>1 DEF Clock, HeadEdge, ExEdge, HistoryEdge
    <2>3. FrontTyped'
        BY <1>3, <1>7, <2>2 DEF FrontTyped
    <2>4. Quietly' /\ InStep'
        BY <1>3, <1>4, <2>2 DEF Quietly, FrontQuiet, InStep, After, IInv, Front
    <2>5. Latched'
        <3>1. ex # None => Legal(ex)'
            BY <1>7, <1>10, <2>2 DEF IInv, Front, Latched
        <3>2. head # None => Legal(head)'
            BY <1>7, <1>9, <2>2 DEF IInv, Front, Latched
        <3>3. fbuf # None => head # None
            BY DEF IInv, Front, Quietly
        <3>4. fbuf # None => \E a \in Places(Up(head.pc))' : fbuf' \in Held(a)'
            <4> SUFFICES ASSUME fbuf # None
                         PROVE  \E a \in Places(Up(head.pc))' : fbuf' \in Held(a)'
                OBVIOUS
            <4>1. Up(head.pc) \in VA
                BY <1>7, <3>3, UpType DEF Instr
            <4> QED BY <1>11, <2>2, <3>3, <4>1 DEF Places, Up, LastOfPage, NextPage
        <3> QED BY <2>2, <3>1, <3>2, <3>4 DEF Latched
    <2> QED BY <1>5, <2>3, <2>4, <2>5 DEF Front
<1>13. CASE go /\ lu
    <2>1. op # Quiet /\ ex # None /\ head # None /\ ~Consumes(go, lu, op)
        BY <1>13 DEF Clock, Consumes, Quiet
    <2>2. UNCHANGED <<head, fbuf, npc>> /\ ex' = None /\ due' = Up(due)
        BY <1>2, <1>13, <2>1 DEF Clock, HeadEdge, ExEdge, HistoryEdge, Launches
    <2>3. FrontTyped'
        BY <1>3, <1>7, <2>1, <2>2, UpType DEF FrontTyped
    <2>4. Quietly' /\ InStep'
        BY <1>3, <1>4, <2>1, <2>2 DEF Quietly, FrontQuiet, InStep, After, IInv, Front
    <2>5. Latched'
        <3>1. Legal(head)'
            BY <1>7, <1>9, <2>1, <2>2 DEF IInv, Front, Latched
        <3>2. Up(head.pc) \in VA
            BY <1>7, <2>1, UpType DEF Instr
        <3>3. fbuf # None => \E a \in Places(Up(head.pc))' : fbuf' \in Held(a)'
            BY <1>11, <2>1, <2>2, <3>2 DEF Places, Up, LastOfPage, NextPage
        <3> QED BY <2>2, <3>1, <3>3 DEF Latched
    <2> QED BY <1>5, <2>3, <2>4, <2>5 DEF Front
<1>14. CASE go /\ ~lu /\ head # None
    <2>1. Consumes(go, lu, op) /\ (op = Quiet <=> ex = None) /\ (ex # None => ~ex.ipf)
        BY <1>14, OpFacts DEF Consumes, Clock, IInv
    <2>2. /\ ex' = head
          /\ head' = IF fbuf = None THEN None
                     ELSE [head EXCEPT !.word = fbuf, !.pc = Up(head.pc)]
          /\ fbuf' = None /\ npc' = npc
        BY <1>2, <1>14, <2>1 DEF Clock, HeadEdge, ExEdge, Launches
    <2>3. due' = After
        BY <2>1 DEF Clock, HistoryEdge, After
    <2>4. head.pc = After /\ (head.ipf => fbuf = None) /\ head \in Instr
          /\ (~head.ipf => npc = IF fbuf = None THEN Up(After) ELSE Up(Up(After)))
        BY <1>7, <1>14 DEF IInv, Front, InStep
    <2>5. fbuf # None => /\ head' = [pc |-> Up(After), ipf |-> FALSE, word |-> fbuf]
                         /\ head' \in Instr
        BY <1>7, <2>2, <2>4 DEF Instr
    <2>6. FrontTyped'
        BY <1>3, <1>7, <2>2, <2>3, <2>5 DEF FrontTyped
    <2>7. Quietly'
        BY <1>3, <1>4, <2>2 DEF Quietly, FrontQuiet
    <2>8. InStep'
        <3>1. ex' = head /\ ex' # None /\ After' = Up(After)
            BY <1>14, <2>2, <2>3 DEF After
        <3>2. CASE fbuf = None
            <4>1. head' = None
                BY <2>2, <3>2
            <4> QED BY <2>2, <2>3, <2>4, <3>1, <3>2, <4>1 DEF InStep
        <3>3. CASE fbuf # None
            <4>1. /\ head' # None /\ head'.pc = Up(After) /\ ~head'.ipf
                  /\ ~head.ipf /\ npc' = Up(Up(After))
                BY <2>2, <2>4, <2>5, <3>3, SomeIsNotNone
            <4> QED BY <2>2, <2>3, <2>4, <3>1, <4>1 DEF InStep
        <3> QED BY <3>2, <3>3
    <2>9. Legal(ex)'
        BY <1>10, <1>14, <2>2, <2>4 DEF IInv, Front, Latched
    <2>10. ASSUME fbuf # None PROVE Legal(head)'
        <3>1. \E a \in Places(Up(head.pc)) : fbuf \in Held(a)
            BY <2>10 DEF IInv, Front, Latched
        <3> DEFINE i == [pc |-> Up(After), ipf |-> FALSE, word |-> fbuf]
        <3>2. Legal(i) /\ i \in Instr
            BY <2>4, <2>5, <2>10, <3>1 DEF Legal
        <3>3. head' = i
            BY <2>5, <2>10
        <3> HIDE DEF i
        <3> QED BY <1>9, <3>2, <3>3
    <2>11. Latched'
        BY <2>2, <2>9, <2>10 DEF Latched
    <2> QED BY <1>5, <2>6, <2>7, <2>8, <2>11 DEF Front
<1>15. CASE go /\ head = None
    BY <1>1, <1>15 DEF Launches, if_ack, IInv, Front, Quietly
<1> QED BY <1>12, <1>13, <1>14, <1>15
-----------------------------------------------------------------------------
(* The invariant, and the theorems *)

LEMMA Initially == Init => IInv
<1> SUFFICES ASSUME Init PROVE IInv
    OBVIOUS
<1>1. Zero \in VA
    BY SizeAssumption DEF Zero, VA, Pages
<1>2. mem \in [Code \cup Tables -> Word]
    BY PlaceAssumption DEF Init
<1>3. Typed
    <2>1. FrontTyped
        BY <1>1 DEF Init, FrontTyped
    <2>2. rr \in 1 .. N /\ itlb \in [1 .. N -> {None} \cup [vpn: Pages, level: 0 .. 1, pte: Word]]
        BY SizeAssumption DEF Init
    <2>3. ic = [i \in Lines |-> ic[i]] /\ filling \in BOOLEAN
        BY DEF Init
    <2> QED BY <1>2, <2>1, <2>2, <2>3 DEF Init, Typed, Privs
<1>4. Current
    BY <1>2 DEF Init, Current
<1>5. Front
    BY <1>3 DEF Init, Typed, Front, Quietly, FrontQuiet, InStep, After, Walking, Fetching, Latched
<1>6. TlbFresh /\ LinesFresh
    BY PlaceAssumption DEF Init, TlbFresh, LinesFresh
<1> QED BY <1>3, <1>4, <1>5, <1>6 DEF IInv

LEMMA ClockKeeps ==
    ASSUME TagsDistinct, IInv, NEW go \in BOOLEAN, NEW lu \in BOOLEAN, NEW op,
           NEW m_ack \in BOOLEAN, NEW taken \in BOOLEAN,
           Clock(go, lu, op, m_ack, taken)
    PROVE  IInv'
<1>1. CASE flush_ex(op)
    BY <1>1, RedirectKeeps
<1>2. CASE ~flush_ex(op)
    <2>1. Front'
        BY <1>2, WalkClock, FetchClock, LaunchClock, IdleClock
    <2>2. /\ satp' \in Roots \cup {"off"} /\ priv' \in Privs
        BY <1>2, Grows DEF IInv, Typed
    <2>3. /\ mem' \in [Code \cup Tables -> Word] /\ Current'
          /\ st' \in {None} \cup [at: Code \cup Tables, val: Word]
        BY MemoryStep DEF IInv
    <2>4. /\ ic' = [i \in Lines |-> ic'[i]] /\ filling' \in BOOLEAN /\ LinesFresh'
        BY <1>2, CacheStep
    <2>5. /\ rr' \in 1 .. N /\ TlbFresh'
          /\ itlb' \in [1 .. N -> {None} \cup [vpn: Pages, level: 0 .. 1, pte: Word]]
        BY <1>2, FillStep
    <2>6. Typed'
        BY <2>1, <2>2, <2>3, <2>4, <2>5 DEF Typed, Front
    <2> QED BY <2>1, <2>3, <2>4, <2>5, <2>6 DEF IInv
<1> QED BY <1>1, <1>2

LEMMA StepKeeps ==
    ASSUME TagsDistinct, IInv, [Next]_vars PROVE IInv'
<1>1. CASE UNCHANGED vars
    <2>1. Typed' /\ Current' /\ LinesFresh'
        BY <1>1 DEF vars, front, cache, IInv, Typed, FrontTyped, Current, LinesFresh, Held
    <2>2. TlbFresh'
        BY <1>1 DEF vars, front, cache, IInv, TlbFresh, Walks
    <2>3. Front'
        BY <1>1 DEF vars, front, cache, IInv, Front, FrontTyped, Quietly, FrontQuiet, InStep,
           After, Walking, Fetching, Latched, Legal, Places, Walks, Held, Faulty, Hits,
           mmu_i_on, ipte
    <2> QED BY <2>1, <2>2, <2>3 DEF IInv
<1>2. CASE Advances
    <2>1. PICK op \in Ops, lu \in BOOLEAN, m_ack \in BOOLEAN :
              Clock(TRUE, lu, op, m_ack, FALSE)
        BY <1>2 DEF Advances
    <2> QED BY <2>1, ClockKeeps
<1>3. CASE Stalls
    <2>1. PICK m_ack \in BOOLEAN, taken \in BOOLEAN :
              Clock(FALSE, FALSE, Quiet, m_ack, taken)
        BY <1>3 DEF Stalls
    <2> QED BY <2>1, ClockKeeps
<1> QED BY <1>1, <1>2, <1>3 DEF Next

\* While a fetch or a walk is in flight, nothing of the program is behind it in
\* the latch, the skid or EX, so that no redirect can meet it (FrontQuiet).
THEOREM NothingBehindAFetch == TagsDistinct /\ Spec => []FrontQuiet
<1> SUFFICES ASSUME TagsDistinct PROVE Spec => []FrontQuiet
    OBVIOUS
<1>1. Init => IInv
    BY Initially
<1>2. IInv /\ [Next]_vars => IInv'
    BY StepKeeps
<1>3. IInv => FrontQuiet
    BY DEF IInv, Front, Quietly
<1> QED BY <1>1, <1>2, <1>3, PTL DEF Spec

\* For every page table, program and size of the caches: what EX executes is the
\* program (ExecutesProgram), as long as index and tag tell addresses apart.
THEOREM FetchExecutesProgram == TagsDistinct /\ Spec => []ExecutesProgram
<1> SUFFICES ASSUME TagsDistinct PROVE Spec => []ExecutesProgram
    OBVIOUS
<1>1. Init => IInv
    BY Initially
<1>2. IInv /\ [Next]_vars => IInv'
    BY StepKeeps
<1>3. IInv => ExecutesProgram
    BY DEF IInv, Front, InStep, Latched, ExecutesProgram
<1> QED BY <1>1, <1>2, <1>3, PTL DEF Spec

\* And no line and no TLB entry outlives its fence (CachesFresh).
THEOREM FetchCachesFresh == TagsDistinct /\ Spec => []CachesFresh
<1> SUFFICES ASSUME TagsDistinct PROVE Spec => []CachesFresh
    OBVIOUS
<1>1. Init => IInv
    BY Initially
<1>2. IInv /\ [Next]_vars => IInv'
    BY StepKeeps
<1>3. IInv => CachesFresh
    BY DEF IInv, LinesFresh, TlbFresh, CachesFresh
<1> QED BY <1>1, <1>2, <1>3, PTL DEF Spec
==============================================================================
