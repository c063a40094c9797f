---------------------------- MODULE DCacheProofs ----------------------------
(* What DCache promises for every number of lines, tags, lanes and values:  *)
(* its type invariant, its coherence with memory, the ownership of its      *)
(* acknowledgement, and that it implements PortMemory.                      *)
EXTENDS DCache, TLAPS

\* A request is in exactly one of its stages, and in none during the sweep.
Phases ==
    /\ initing => ~look /\ ~pending /\ ~ack_q
    /\ ~(look /\ pending) /\ ~(look /\ ack_q) /\ ~(pending /\ ack_q)

\* In every stage the latched request is the one the port still shows.
Latched == look \/ pending \/ ack_q => creq # NoReq /\ lreq = creq

\* The array outputs are current on the one clock they are used.
Looked == look => rd = line[lreq.addr.idx]

\* The sweep leaves no valid line behind it.
Swept == initing => \A i \in Index : i < init_i => ~line[i].valid

\* A read is acknowledged with memory's word.
AckData == ack_q /\ ~creq.we => rdata_q = mem[creq.addr]

IInv == TypeOK /\ Phases /\ Latched /\ Looked /\ Swept /\ Coherent /\ AckData

\* Byte-lane merging yields a word.
LEMMA MergeType ==
    ASSUME NEW old \in Word, NEW neu \in Word, NEW be
    PROVE  Merge(old, neu, be) \in Word
BY DEF Merge, Word

\* A request's effect on memory is a memory.
LEMMA EffectType ==
    ASSUME NEW m \in [Addr -> Word], NEW r \in Request
    PROVE  Effect(m, r) \in [Addr -> Word]
<1>1. CASE r.we
  <2>1. r.addr \in Addr /\ r.wdata \in Word
    BY <1>1 DEF Request, Read, Write
  <2> QED BY <1>1, <2>1, MergeType DEF Effect
<1>2. CASE ~r.we
  BY <1>2 DEF Effect
<1> QED BY <1>1, <1>2

\* A request's effect leaves every other word alone.
LEMMA EffectElsewhere ==
    ASSUME NEW m \in [Addr -> Word], NEW r \in Request,
           NEW a \in Addr, ~r.we \/ r.addr # a
    PROVE  Effect(m, r)[a] = m[a]
BY DEF Effect

\* The fields of a request the port may show.
LEMMA ReqParts ==
    ASSUME NEW r \in Request
    PROVE  /\ r.addr \in Addr
           /\ r.addr.idx \in Index /\ r.addr.tag \in Tags
           /\ r.we \in BOOLEAN /\ r.ptw \in BOOLEAN
           /\ r.we => r.wdata \in Word /\ r.be \in SUBSET Bytes
BY DEF Request, Read, Write, Addr

\* Out of reset the inductive invariant holds, whatever the arrays contain.
LEMMA InitInv == Init => IInv
<1> SUFFICES ASSUME Init PROVE IInv
  OBVIOUS
<1>1. 0 \in Index
  BY LinesAssumption DEF Index
<1>2. lreq \in Request
  BY DEF Init, Request, Read
<1>3. rd \in Line
  BY DEF Init
<1>4. TypeOK
  <2>1. resets \in 0 .. MaxResets
    BY ResetsAssumption DEF Init
  <2> QED BY <1>1, <1>2, <1>3, <2>1, Zenon DEF Init, TypeOK
<1>5. Phases /\ Latched /\ Looked /\ AckData /\ Coherent
  BY DEF Init, Phases, Latched, Looked, AckData, Coherent
<1>6. Swept
  BY DEF Init, Swept, Index
<1> QED BY <1>4, <1>5, <1>6 DEF IInv

\* The port side of a clock: what it shows stays a request or nothing, and is
\* held until it is acknowledged.
LEMMA PortType ==
    ASSUME TypeOK, PortMoves
    PROVE  /\ creq' \in Request \cup {NoReq}
           /\ creq # NoReq /\ ~ack_q => creq' = creq
BY DEF TypeOK, PortMoves

\* A clock keeps the types.
LEMMA TypeStep ==
    ASSUME IInv, NEW m_ack \in BOOLEAN, Clock(m_ack)
    PROVE  TypeOK'
<1> DEFINE w == mem[lreq.addr]
<1>1. lreq \in Request /\ lreq.addr \in Addr /\ lreq.addr.idx \in Index
      /\ lreq.addr.tag \in Tags /\ w \in Word
  BY ReqParts DEF IInv, TypeOK
<1>2. mem' \in [Addr -> Word]
  BY <1>1, EffectType DEF Clock, IInv, TypeOK
<1>3. creq' \in Request \cup {NoReq}
  BY PortType DEF Clock, IInv
<1>4. resets' \in 0 .. MaxResets
  BY DEF Clock, IInv, TypeOK
<1>5. rdata_q' \in Word
  BY <1>1
     DEF Clock, CacheEdge, Clear, SweepNext, SweepDone, Accept, Hit, Forward, LineWritten, Answered, Quiet, IInv, TypeOK, Line
<1>6. ack_q' \in BOOLEAN /\ pending' \in BOOLEAN /\ look' \in BOOLEAN
  BY
     DEF Clock, CacheEdge, Clear, SweepNext, SweepDone, Accept, Hit, Forward, LineWritten, Answered, Quiet, IInv, TypeOK
<1>7. initing' \in BOOLEAN /\ init_i' \in Index
  <2>1. CASE Clear
    <3>1. init_i' \in Index
      BY <2>1, LinesAssumption DEF Clear, SweepNext, SweepDone, IInv, TypeOK, Index
    <3>2. initing' \in BOOLEAN
      BY <2>1 DEF Clear, SweepNext, SweepDone
    <3> QED BY <3>1, <3>2
  <2>2. CASE ~Clear
    <3>1. initing' = initing /\ init_i' = init_i
      BY <2>2 DEF Clock, CacheEdge, Accept, Hit, Forward, LineWritten, Answered, Quiet
    <3> QED BY <3>1 DEF IInv, TypeOK
  <2> QED BY <2>1, <2>2
<1>8. lreq' \in Request
  <2>1. CASE Accept
    BY <2>1 DEF Accept, CanAccept, c_req, IInv, TypeOK
  <2>2. CASE ~Accept
    <3>1. lreq' = lreq
      BY <2>2
         DEF Clock, CacheEdge, Clear, SweepNext, SweepDone, Hit, Forward, LineWritten, Answered, Quiet
    <3> QED BY <3>1, <1>1
  <2> QED BY <2>1, <2>2
<1>9. rd' \in Line
  <2>1. CASE Accept
    <3>1. creq.addr.idx \in Index
      BY <2>1, ReqParts DEF Accept, CanAccept, c_req, IInv, TypeOK
    <3> QED BY <2>1, <3>1 DEF Accept, IInv, TypeOK
  <2>2. CASE ~Accept
    <3>1. rd' = rd
      BY <2>2
         DEF Clock, CacheEdge, Clear, SweepNext, SweepDone, Hit, Forward, LineWritten, Answered, Quiet
    <3> QED BY <3>1 DEF IInv, TypeOK
  <2> QED BY <2>1, <2>2
<1>10. line' \in [Index -> Line]
  <2>1. line \in [Index -> Line] /\ init_i \in Index /\ rd \in Line
    BY DEF IInv, TypeOK
  <2>2. CASE Clear
    BY <2>1, <2>2 DEF Clear, SweepNext, SweepDone, Line
  <2>3. CASE Forward
    <3>1. lreq.we => Merge(rd.data, lreq.wdata, lreq.be) \in Word
      BY <1>1, <2>1, MergeType, ReqParts DEF Line
    <3> QED BY <2>1, <2>3, <3>1, <1>1 DEF Forward, LineWritten, Line
  <2>4. CASE Answered(m_ack, w)
    BY <2>1, <2>4, <1>1 DEF Answered, Line
  <2>5. CASE Accept \/ Hit \/ Quiet(m_ack)
    BY <2>1, <2>5 DEF Accept, Hit, Quiet
  <2> QED BY <2>2, <2>3, <2>4, <2>5 DEF Clock, CacheEdge
<1> QED BY <1>2, <1>3, <1>4, <1>5, <1>6, <1>7, <1>8, <1>9, <1>10, Zenon DEF TypeOK

\* Sweeping: one valid bit fewer, and when the last is gone the cache is empty.
LEMMA ClearInv ==
    ASSUME IInv, NEW m_ack \in BOOLEAN, Clock(m_ack), Clear
    PROVE  IInv'
<1>1. initing /\ ~look /\ ~pending /\ ~ack_q
  BY DEF IInv, Clear, SweepNext, SweepDone, Phases
<1>2. ~look' /\ ~pending' /\ ~ack_q'
  BY <1>1 DEF Clear, SweepNext, SweepDone
<1>3. init_i \in Index /\ line \in [Index -> Line]
  BY DEF IInv, TypeOK
<1>4. \A i \in Index : i < init_i \/ i = init_i => ~line'[i].valid
  <2>1. TAKE i \in Index
  <2>2. CASE i = init_i
    BY <2>2, <1>3 DEF Clear, SweepNext, SweepDone, Line
  <2>3. CASE i < init_i
    BY <2>3, <1>1, <1>3 DEF Clear, SweepNext, SweepDone, Swept, IInv, Index
  <2> QED BY <2>2, <2>3
<1>5. Swept'
  BY <1>3, <1>4, LinesAssumption DEF Swept, Clear, SweepNext, SweepDone, Index
<1>6. Coherent'
  <2>1. ~initing' => \A i \in Index : i < init_i \/ i = init_i
    <3>1. ~initing' => init_i = Lines - 1
      BY Zenon DEF Clear, SweepNext, SweepDone
    <3> QED BY <3>1, <1>3, LinesAssumption DEF Index
  <2> QED BY <2>1, <1>4 DEF Coherent
<1> QED BY <1>2, <1>5, <1>6, TypeStep DEF IInv, Phases, Latched, Looked, AckData

\* Accepting: the array outputs are those of the request just latched.
LEMMA AcceptInv ==
    ASSUME IInv, NEW m_ack \in BOOLEAN, Clock(m_ack), Accept
    PROVE  IInv'
<1>1. ~initing /\ creq # NoReq /\ ~look /\ ~pending /\ ~ack_q
  BY DEF Accept, CanAccept, c_req
<1>2. ~initing' /\ look' /\ ~pending' /\ ~ack_q' /\ line' = line
  BY <1>1 DEF Accept
<1>3. mem' = mem /\ creq' = creq /\ lreq' = creq
  BY <1>1, PortType DEF Clock, Accept, IInv
<1>4. Looked'
  BY <1>2, <1>3 DEF Looked, Accept
<1>5. Coherent'
  BY <1>1, <1>2, <1>3 DEF IInv, Coherent, Upcoming
<1> QED BY <1>1, <1>2, <1>3, <1>4, <1>5, TypeStep
        DEF IInv, Phases, Latched, Swept, AckData

\* A hit is answered with memory's word, by coherence.
LEMMA HitInv ==
    ASSUME IInv, NEW m_ack \in BOOLEAN, Clock(m_ack), Hit
    PROVE  IInv'
<1>1. ~initing /\ look /\ ~pending /\ ~ack_q /\ creq # NoReq /\ lreq = creq
      /\ rd = line[lreq.addr.idx]
  BY DEF IInv, Hit, Phases, Latched, Looked
<1>2. ~initing' /\ ~look' /\ ~pending' /\ line' = line /\ lreq' = lreq
  BY <1>1 DEF Hit
<1>3. mem' = mem /\ creq' = creq
  BY <1>1, PortType DEF Clock, IInv
<1>4. lreq.addr \in Addr /\ lreq.addr.idx \in Index
  BY ReqParts DEF IInv, TypeOK
<1>5. rd.data = mem[creq.addr]
  <2>1. [tag |-> line[lreq.addr.idx].tag, idx |-> lreq.addr.idx] = lreq.addr
    BY <1>1, <1>4 DEF Hit, read_hit, hit, Addr
  <2>2. line[lreq.addr.idx].valid
    BY <1>1 DEF Hit, read_hit, hit
  <2> QED BY <1>1, <1>4, <2>1, <2>2 DEF IInv, Coherent, Upcoming
<1>6. AckData'
  BY <1>3, <1>5 DEF AckData, Hit
<1>7. Coherent'
  BY <1>1, <1>2, <1>3 DEF IInv, Coherent, Upcoming
<1> QED BY <1>1, <1>2, <1>3, <1>6, <1>7, TypeStep
        DEF IInv, Phases, Latched, Looked, Swept

\* Sent to memory: a write's line and the word it is about to become agree.
LEMMA ForwardInv ==
    ASSUME IInv, NEW m_ack \in BOOLEAN, Clock(m_ack), Forward
    PROVE  IInv'
<1>1. ~initing /\ look /\ ~pending /\ ~ack_q /\ creq # NoReq /\ lreq = creq
      /\ rd = line[lreq.addr.idx]
  BY DEF IInv, Forward, LineWritten, Phases, Latched, Looked
<1>2. ~initing' /\ ~look' /\ pending' /\ ~ack_q' /\ lreq' = lreq
  BY <1>1 DEF Forward, LineWritten
<1>3. mem' = mem /\ creq' = creq
  BY <1>1, PortType DEF Clock, IInv
<1>4. /\ lreq \in Request /\ lreq.addr \in Addr /\ lreq.addr.idx \in Index
      /\ mem \in [Addr -> Word] /\ line \in [Index -> Line]
  BY ReqParts DEF IInv, TypeOK
<1>5. Coherent'
  <2> SUFFICES ASSUME NEW i \in Index, line'[i].valid
               PROVE  LET a == [tag |-> line'[i].tag, idx |-> i]
                      IN  line'[i].data = IF lreq.we /\ lreq.addr = a
                                          THEN Effect(mem, lreq)[a] ELSE mem[a]
    BY <1>2, <1>3 DEF Coherent, Upcoming, Effect
  <2> DEFINE a == [tag |-> line[i].tag, idx |-> i]
  <2>1. line'[i].tag = line[i].tag /\ line[i].valid
    BY <1>4 DEF Forward, LineWritten, Line
  <2>2. a \in Addr
    BY <1>4 DEF Addr, Line
  <2>3. line[i].data = mem[a]
    BY <1>1, <2>1 DEF IInv, Coherent, Upcoming
  <2>4. CASE lreq.we /\ lreq.addr = a
    <3>1. lreq.addr.idx = i /\ hit
      BY <1>1, <2>1, <2>4 DEF hit
    <3>2. line'[i].data = Merge(rd.data, lreq.wdata, lreq.be)
      BY <1>4, <2>4, <3>1 DEF Forward, LineWritten
    <3>3. Effect(mem, lreq)[a] = Merge(mem[a], lreq.wdata, lreq.be)
      BY <1>4, <2>2, <2>4 DEF Effect
    <3>4. rd.data = mem[a]
      BY <1>1, <2>3, <3>1
    <3> QED BY <2>1, <2>4, <3>2, <3>3, <3>4
  <2>5. CASE ~(lreq.we /\ lreq.addr = a)
    <3>1. ~(lreq.we /\ hit /\ lreq.addr.idx = i)
      BY <1>1, <1>4, <2>5 DEF hit, Addr
    <3>2. line'[i].data = line[i].data
      BY <1>4, <3>1 DEF Forward, LineWritten
    <3> QED BY <2>1, <2>3, <2>5, <3>2
  <2> QED BY <2>4, <2>5
<1> QED BY <1>1, <1>2, <1>3, <1>5, TypeStep
        DEF IInv, Phases, Latched, Looked, Swept, AckData

\* Memory's answer: a write has landed, a fill brings the word memory holds.
LEMMA AnsweredInv ==
    ASSUME IInv, NEW m_ack \in BOOLEAN, Clock(m_ack), Answered(m_ack, mem[lreq.addr])
    PROVE  IInv'
<1>1. ~initing /\ ~look /\ pending /\ m_ack /\ ~ack_q /\ creq # NoReq /\ lreq = creq
  BY DEF IInv, Answered, Phases, Latched
<1>2. ~initing' /\ ~look' /\ ~pending' /\ ack_q' /\ lreq' = lreq
  BY <1>1 DEF Answered
<1>3. mem' = Effect(mem, lreq) /\ creq' = creq
  BY <1>1, PortType DEF Clock, IInv
<1>4. /\ lreq \in Request /\ lreq.addr \in Addr /\ lreq.addr.idx \in Index
      /\ mem \in [Addr -> Word] /\ line \in [Index -> Line]
  BY ReqParts DEF IInv, TypeOK
<1>5. AckData'
  BY <1>1, <1>2, <1>3 DEF AckData, Answered, Effect
<1>6. Coherent'
  <2> SUFFICES ASSUME NEW i \in Index, line'[i].valid
               PROVE  line'[i].data = mem'[[tag |-> line'[i].tag, idx |-> i]]
    BY <1>2 DEF Coherent, Upcoming
  <2>1. CASE ~lreq.we /\ ~lreq.ptw /\ i = lreq.addr.idx
    <3>1. line'[i].tag = lreq.addr.tag /\ line'[i].data = mem[lreq.addr]
      BY <1>4, <2>1 DEF Answered
    <3>2. [tag |-> lreq.addr.tag, idx |-> i] = lreq.addr
      BY <1>4, <2>1 DEF Addr
    <3> QED BY <1>3, <2>1, <3>1, <3>2 DEF Effect
  <2>2. CASE ~(~lreq.we /\ ~lreq.ptw /\ i = lreq.addr.idx)
    <3>1. line'[i] = line[i]
      BY <1>4, <2>2 DEF Answered
    <3> DEFINE a == [tag |-> line[i].tag, idx |-> i]
    <3>2. a \in Addr
      BY <1>4 DEF Addr, Line
    <3>3. line[i].data = Upcoming(a)
      BY <1>1, <3>1 DEF IInv, Coherent
    <3>4. Upcoming(a) = Effect(mem, lreq)[a]
      BY <1>1, <1>4, <3>2, EffectElsewhere DEF Upcoming
    <3> QED BY <1>3, <3>1, <3>3, <3>4
  <2> QED BY <2>1, <2>2
<1> QED BY <1>1, <1>2, <1>3, <1>5, <1>6, TypeStep
        DEF IInv, Phases, Latched, Looked, Swept

\* A quiet clock changes nothing but ends an acknowledgement.
LEMMA QuietInv ==
    ASSUME IInv, NEW m_ack \in BOOLEAN, Clock(m_ack), Quiet(m_ack)
    PROVE  IInv'
<1>1. ~initing /\ ~look /\ mem' = mem
  BY DEF Quiet, Clock
<1>2. ~initing' /\ ~look' /\ ~ack_q' /\ pending' = pending /\ lreq' = lreq /\ line' = line
  BY <1>1 DEF Quiet
<1>3. pending => creq' = creq
  BY PortType DEF Clock, IInv, Phases, Latched
<1>4. Coherent'
  BY <1>1, <1>2 DEF IInv, Coherent, Upcoming
<1> QED BY <1>1, <1>2, <1>3, <1>4, TypeStep
        DEF IInv, Phases, Latched, Looked, Swept, AckData

\* Reset: the sweep starts again before anything can be accepted.
LEMMA ResetInv ==
    ASSUME IInv, Reset
    PROVE  IInv'
<1>1. initing' /\ init_i' = 0 /\ ~look' /\ ~pending' /\ ~ack_q'
  BY DEF Reset
<1>2. mem' \in [Addr -> Word]
  BY EffectType DEF Reset, IInv, TypeOK
<1>3. resets' \in 0 .. MaxResets
  BY ResetsAssumption DEF Reset, IInv, TypeOK
<1>4. 0 \in Index
  BY LinesAssumption DEF Index
<1>5. TypeOK'
  BY <1>1, <1>2, <1>3, <1>4, Zenon DEF Reset, IInv, TypeOK
<1>6. Swept'
  BY <1>1 DEF Swept, Index
<1> QED BY <1>1, <1>5, <1>6 DEF IInv, Phases, Latched, Looked, Coherent, AckData

\* Every clock, and reset, keeps the inductive invariant.
THEOREM StepInv == IInv /\ [Next]_vars => IInv'
<1> SUFFICES ASSUME IInv, [Next]_vars PROVE IInv'
  OBVIOUS
<1>1. ASSUME NEW m_ack \in BOOLEAN, Clock(m_ack) PROVE IInv'
  BY <1>1, ClearInv, AcceptInv, HitInv, ForwardInv, AnsweredInv, QuietInv
     DEF Clock, CacheEdge
<1>2. CASE Reset
  BY <1>2, ResetInv
<1>3. CASE UNCHANGED vars
  BY <1>3 DEF vars, cacheVars, IInv, TypeOK, Phases, Latched, Looked, Swept,
              Coherent, Upcoming, AckData
<1> QED BY <1>1, <1>2, <1>3 DEF Next

\* The inductive invariant holds in every reachable state of the cache.
THEOREM Invariance == Spec => []IInv
<1>1. Init => IInv
  BY InitInv
<1>2. IInv /\ [Next]_vars => IInv'
  BY StepInv
<1> QED BY <1>1, <1>2, PTL DEF Spec

\* The registers keep their types in every behaviour.
THEOREM TypeCorrect == Spec => []TypeOK
<1>1. IInv => TypeOK
  BY DEF IInv
<1> QED BY <1>1, Invariance, PTL

\* A valid line never disagrees with memory beyond the one write under way.
THEOREM Coherence == Spec => []Coherent
<1>1. IInv => Coherent
  BY DEF IInv
<1> QED BY <1>1, Invariance, PTL

\* The acknowledgement on the port is the port's own, with memory's word.
THEOREM AckOwnership == Spec => []AckAnswersPort
<1>1. IInv => AckAnswersPort
  BY DEF IInv, Latched, AckData, AckAnswersPort
<1> QED BY <1>1, Invariance, PTL

\* A clock of the cache is a step of the plain memory, or none.
LEMMA ClockRefines ==
    ASSUME IInv, NEW m_ack \in BOOLEAN, Clock(m_ack)
    PROVE  [PM!Next]_(PM!vars)
<1>1. CASE Clear
  <2>1. mem' = mem /\ ~ack_q /\ ~ack_q' /\ rdata_q' = rdata_q
    BY <1>1 DEF Clock, Clear, SweepNext, SweepDone, IInv, Phases
  <2>2. creq' = creq \/ (creq = NoReq /\ creq' \in Request)
    BY <2>1 DEF Clock, PortMoves
  <2>3. ack_q' = ack_q
    BY <1>1, <2>1 DEF Clear, SweepNext, SweepDone, IInv, TypeOK
  <2> QED BY <2>1, <2>2, <2>3 DEF PM!vars, PM!Next, PM!Raise
<1>2. CASE Accept \/ Forward
  <2>1. mem' = mem /\ ~ack_q /\ ~ack_q' /\ rdata_q' = rdata_q /\ creq # NoReq
    BY <1>2
       DEF Clock, Accept, CanAccept, c_req, Forward, LineWritten, IInv, Phases, Latched
  <2>2. creq' = creq
    BY <2>1 DEF Clock, PortMoves
  <2>3. ack_q' = ack_q
    BY <1>2, <2>1 DEF Accept, Forward, LineWritten, IInv, TypeOK
  <2> QED BY <2>1, <2>2, <2>3 DEF PM!vars
<1>3. CASE Hit
  <2>1. mem' = mem /\ ~ack_q /\ ack_q' /\ creq # NoReq /\ lreq = creq /\ ~creq.we
    BY <1>3 DEF Clock, Hit, read_hit, IInv, Phases, Latched
  <2>2. creq' = creq
    BY <2>1 DEF Clock, PortMoves
  <2>3. rdata_q' = mem'[creq'.addr]
    BY <1>3, <2>1, <2>2, HitInv DEF IInv, AckData
  <2> QED BY <1>3, <2>1, <2>2, <2>3 DEF PM!Next, PM!Serve, Hit
<1>4. CASE Answered(m_ack, mem[lreq.addr])
  <2>1. ~ack_q /\ ack_q' /\ creq # NoReq /\ lreq = creq /\ rdata_q' = mem[creq.addr]
    BY <1>4 DEF Answered, IInv, Phases, Latched
  <2>2. creq' = creq /\ mem' = Effect(mem, creq)
    BY <1>4, <2>1 DEF Clock, PortMoves, Answered
  <2>3. rdata_q' \in Word
    BY <2>1, ReqParts DEF IInv, TypeOK
  <2>4. ack_q' = TRUE
    BY <1>4 DEF Answered
  <2> QED BY <2>1, <2>2, <2>3, <2>4 DEF PM!Next, PM!Serve, Effect
<1>5. CASE Quiet(m_ack)
  <2>1. mem' = mem /\ ack_q' = FALSE /\ rdata_q' = rdata_q
    BY <1>5 DEF Clock, Quiet
  <2>2. creq' \in Request \cup {NoReq}
    BY PortType DEF Clock, IInv
  <2>3. CASE ack_q
    BY <2>1, <2>2, <2>3 DEF PM!Next, PM!Finish
  <2>4. CASE ~ack_q
    <3>1. creq' = creq \/ (creq = NoReq /\ creq' \in Request)
      BY <2>2, <2>4 DEF Clock, PortMoves
    <3> QED BY <2>1, <2>4, <3>1 DEF PM!vars, PM!Next, PM!Raise, IInv, TypeOK
  <2> QED BY <2>3, <2>4
<1> QED BY <1>1, <1>2, <1>3, <1>4, <1>5 DEF Clock, CacheEdge

\* The cache is invisible: every behaviour of it, seen at the port, is a
\* behaviour of the plain word memory.
THEOREM Refinement == Spec => ImplementsPortMemory
<1>1. Init => PM!Init
  BY DEF Init, PM!Init
<1>2. IInv /\ [Next]_vars => [PM!Next]_(PM!vars)
  <2> SUFFICES ASSUME IInv, [Next]_vars PROVE [PM!Next]_(PM!vars)
    OBVIOUS
  <2>1. CASE Reset
    <3>1. pending => creq # NoReq /\ lreq = creq
      BY DEF IInv, Latched
    <3>2. mem' = mem \/ (creq # NoReq /\ creq.we /\ mem' = Effect(mem, creq))
      BY <2>1, <3>1 DEF Reset, Effect
    <3> QED BY <2>1, <3>2 DEF Reset, PM!Next, PM!Reset
  <2>2. CASE UNCHANGED vars
    BY <2>2 DEF vars, cacheVars, PM!vars
  <2> QED BY <2>1, <2>2, ClockRefines DEF Next
<1> QED BY <1>1, <1>2, Invariance, PTL DEF Spec, ImplementsPortMemory, PM!Spec
=============================================================================
