-------------------------- MODULE InterruptsProofs --------------------------
(* The safety properties of Interrupts for any number of sources, any        *)
(* priorities and any threshold.  The arbiter always has a winner, so that   *)
(* what is claimed can be completed; no M interrupt nests, so that mtip is   *)
(* only looked at when it tells the truth.                                   *)
EXTENDS Interrupts, WellFoundedInduction, TLAPS

GateInv ==
  /\ src \subseteq Sources /\ ip \subseteq Sources
  /\ at \in {"serve", "complete"} => held \in Sources
  /\ InflightIsHeld

\* M-mode runs with interrupts off, and mret leaves them off for the next entry.
NoNesting == /\ priv \in {"M", "S", "U"} /\ ~mie_g /\ (priv = "M" => ~mpie)
             /\ mpp \in {"S", "U"} /\ spp \in {"S", "U"}

\* Outside M-mode mtip is never ahead of the comparator.
TimerInv == (mtip /\ priv # "M") => cmp = "past"

\* The kernel's handlers run in S-mode with interrupts off, be they interrupted
\* by M-mode or not.
HandlerMasked == at # "thread" => ~sie_g /\ (IF priv = "M" THEN mpp ELSE priv) = "S"

IInv == GateInv /\ SeipIsPin /\ NoNesting /\ HandlerMasked /\ TimerInv
-----------------------------------------------------------------------------
\* A nonempty set of naturals has a least member.
LEMMA LeastMember ==
  ASSUME NEW T \in SUBSET Nat, T # {}
  PROVE  \E x \in T : \A y \in T : x <= y
<1>1. PICK x \in T : \A y \in T : ~(<<y, x>> \in OpToRel(<, Nat))
  BY NatLessThanWellFounded, WFMin
<1>2. \A y \in T : ~(y < x)
  BY <1>1 DEF OpToRel
<1> QED
  BY <1>2

\* Among the sources that are pending, enabled and above the threshold there is
\* one of highest priority and, of those, lowest number: the loop of plic.sv
\* finds it, and a claim that returns a number names a source.
LEMMA BestIsOffered ==
  ASSUME ip \subseteq Sources
  PROVE  /\ Best = 0 <=> Offered = {}
         /\ Best # 0 => Best \in Offered /\ Wins(Best)
<1>1. CASE Offered = {}
  BY <1>1 DEF Best
<1>2. CASE Offered # {}
  <2>1. Offered \subseteq Sources /\ Sources \subseteq Nat \ {0}
    <3>1. Sources \subseteq Nat \ {0}
      BY PlicAssumption DEF Sources
    <3> QED BY <3>1 DEF Offered
  <2>2. \A s \in Offered : Priority[s] \in 0 .. 7
    BY <2>1, PlicAssumption DEF Prio
  <2> DEFINE Slack(s) == 7 - Priority[s]
             Slacks == {Slack(s) : s \in Offered}
  <2>3. Slacks \in SUBSET Nat /\ Slacks # {}
    BY <1>2, <2>2
  <2>4. PICK low \in Slacks : \A y \in Slacks : low <= y
    <3> HIDE DEF Slacks
    <3> QED BY <2>3, LeastMember
  <2> DEFINE Top == {s \in Offered : Slack(s) = low}
  <2>5. Top \in SUBSET Nat /\ Top # {}
    BY <2>1, <2>4
  <2>6. PICK s \in Top : \A t \in Top : s <= t
    <3> HIDE DEF Top
    <3> QED BY <2>5, LeastMember
  <2>7. Wins(s)
    <3> SUFFICES ASSUME NEW t \in Offered
                 PROVE  Priority[t] < Priority[s] \/ (Priority[t] = Priority[s] /\ s <= t)
      BY DEF Wins
    <3>1. Slack(s) = low /\ Slack(s) <= Slack(t)
      BY <2>4, <2>6
    <3>2. CASE Slack(t) = low
      BY <2>2, <2>6, <3>1, <3>2
    <3>3. CASE Slack(t) # low
      BY <2>2, <3>1, <3>3
    <3> QED BY <3>2, <3>3
  <2>8. Best \in Offered /\ Wins(Best)
    BY <1>2, <2>6, <2>7 DEF Best
  <2>9. Best # 0
    BY <2>1, <2>8
  <2> QED BY <1>2, <2>8, <2>9
<1> QED BY <1>1, <1>2

\* A clock without a claim or a completion keeps the gateways as the kernel has
\* left them.
LEMMA QuietGates ==
  ASSUME GateInv, Quiet
  PROVE  /\ ip' \subseteq Sources /\ inflight' = inflight
         /\ ip' \cap inflight' = {} /\ mtip' = (cmp = "past")
<1>1. ~Completes(0)
  BY DEF Completes
<1> QED
  BY <1>1 DEF Quiet, Clock, Gateways, Compare, Following, GateInv, InflightIsHeld

\* Steps in which the kernel's handler neither claims nor completes.
LEMMA GatesKept ==
  ASSUME GateInv, Quiet, src' \subseteq Sources,
         \/ at' \in {"serve", "complete"} /\ at \in {"serve", "complete"} /\ held' = held
         \/ at' \notin {"serve", "complete"} /\ at \notin {"serve", "complete"}
  PROVE  GateInv'
BY QuietGates DEF GateInv, InflightIsHeld

\* As long as the comparator is not written and no mode is left for M, mtip
\* moves to the truth.
LEMMA TimerKept ==
  ASSUME GateInv, Quiet, cmp' = cmp \/ cmp' = "past" \/ priv' = "M"
  PROVE  TimerInv'
BY QuietGates DEF TimerInv
-----------------------------------------------------------------------------
\* After boot nothing is in flight and no handler runs.
LEMMA InitInv == Init => IInv
BY DEF Init, IInv, GateInv, InflightIsHeld, SeipIsPin, NoNesting, HandlerMasked, TimerInv

\* A claim marks the source it returns; whether there is one is the arbiter's answer.
LEMMA ClaimInv == ASSUME IInv, Claim PROVE IInv'
<1>1. inflight = {} /\ ip \subseteq Sources /\ src \subseteq Sources
  BY DEF IInv, GateInv, InflightIsHeld, Claim
<1>2. Best # 0 => Best \in Sources
  BY <1>1, BestIsOffered DEF Offered
<1>3. /\ ip' \subseteq Sources
      /\ inflight' = {Best} \ {0}
      /\ ip' \cap inflight' = {}
  <2>1. ~Completes(0)
    BY DEF Completes
  <2> QED BY <1>1, <2>1 DEF Claim, Clock, Gateways, Following
<1>4. GateInv'
  BY <1>1, <1>2, <1>3 DEF Claim, GateInv, InflightIsHeld
<1>5. SeipIsPin' /\ NoNesting' /\ HandlerMasked'
  BY DEF IInv, Claim, OnHart, Untouched, pend, mstatusM, mstatusS, SeipIsPin, NoNesting, HandlerMasked
<1>6. TimerInv'
  BY DEF IInv, Claim, Untouched, Clock, Compare, TimerInv
<1> QED BY <1>4, <1>5, <1>6 DEF IInv

\* The number written back is in range, so the gateway takes it.
LEMMA CompleteInv == ASSUME IInv, Complete PROVE IInv'
<1>1. inflight = {held} /\ held \in Sources /\ ip \subseteq Sources /\ src \subseteq Sources
  BY DEF IInv, GateInv, InflightIsHeld, Complete
<1>2. Completes(held)
  BY <1>1, PlicAssumption DEF Completes, Sources
<1>3. ip' \subseteq Sources /\ inflight' = {}
  BY <1>1, <1>2 DEF Complete, Clock, Gateways, Following
<1>4. GateInv'
  BY <1>1, <1>3 DEF Complete, GateInv, InflightIsHeld
<1>5. SeipIsPin' /\ NoNesting' /\ HandlerMasked'
  BY DEF IInv, Complete, OnHart, Untouched, pend, mstatusM, mstatusS, SeipIsPin, NoNesting, HandlerMasked
<1>6. TimerInv'
  BY DEF IInv, Complete, Untouched, Clock, Compare, TimerInv
<1> QED BY <1>4, <1>5, <1>6 DEF IInv

\* The handlers' other steps leave the gateways alone.
LEMMA HandlerInv == ASSUME IInv, Handler PROVE IInv'
<1>1. CASE Claim
  BY <1>1, ClaimInv
<1>2. CASE Complete
  BY <1>2, CompleteInv
<1>3. CASE Serve
  <2>1. GateInv'
    BY <1>3, GatesKept DEF Serve, IInv, GateInv
  <2>2. TimerInv'
    BY <1>3, TimerKept DEF Serve, Untouched, IInv
  <2> QED BY <1>3, <2>1, <2>2 DEF Serve, OnHart, Untouched, pend, mstatusM, mstatusS, IInv, SeipIsPin, NoNesting, HandlerMasked
<1>4. CASE Tick
  <2>1. GateInv'
    BY <1>4, GatesKept DEF Tick, lines, IInv, GateInv
  <2>2. TimerInv'
    BY <1>4, TimerKept DEF Tick, IInv
  <2> QED BY <1>4, <2>1, <2>2 DEF Tick, OnHart, pend, mstatusM, mstatusS, IInv, SeipIsPin, NoNesting, HandlerMasked
<1>5. CASE NextEvent
  <2>1. GateInv'
    BY <1>5, GatesKept DEF NextEvent, lines, IInv, GateInv
  <2>2. TimerInv'
    BY <1>5, TimerKept DEF NextEvent, IInv
  <2> QED BY <1>5, <2>1, <2>2 DEF NextEvent, OnHart, pend, mstatusM, mstatusS, IInv, SeipIsPin, NoNesting, HandlerMasked
<1>6. CASE CallSetTimer
  <2>1. GateInv'
    BY <1>6, GatesKept DEF CallSetTimer, lines, IInv, GateInv
  <2>2. TimerInv'
    BY <1>6, TimerKept DEF CallSetTimer, IInv
  <2>3. SeipIsPin' /\ NoNesting' /\ HandlerMasked'
    <3>1. priv = "S" /\ at # "thread" /\ \E d \in {"past", "ahead"} : TrapToM(SetTimer(d))
      BY <1>6 DEF CallSetTimer, OnHart
    <3> QED BY <3>1 DEF TrapToM, pend, mstatusS, IInv, SeipIsPin, NoNesting, HandlerMasked
  <2> QED BY <2>1, <2>2, <2>3 DEF IInv
<1>7. CASE Return
  <2>1. GateInv'
    BY <1>7, GatesKept DEF Return, lines, IInv, GateInv
  <2>2. TimerInv'
    BY <1>7, TimerKept DEF Return, IInv
  <2>3. SeipIsPin' /\ NoNesting' /\ HandlerMasked'
    BY <1>7 DEF Return, OnHart, Sret, pend, mstatusM, IInv, SeipIsPin, NoNesting, HandlerMasked
  <2> QED BY <2>1, <2>2, <2>3 DEF IInv
<1> QED BY <1>1, <1>2, <1>3, <1>4, <1>5, <1>6, <1>7 DEF Handler

\* A step of the M-mode handler: the writes that arm the comparator leave the
\* mode alone, mret leaves it with interrupts off.
LEMMA MStepInv == ASSUME IInv, MStep PROVE IInv'
<1>1. GateInv'
  BY GatesKept DEF MStep, lines, kernel, IInv, GateInv
<1> DEFINE i == Head(mcode)
           Writes == i.op \in {"park", "high", "low"} /\ UNCHANGED <<priv, mstatusM, mstatusS, stie, mtie, pend>>
           Pends == /\ stip' = (i.op = "set stip") /\ seip_sw' = RmwSeip
                    /\ UNCHANGED <<cmp, priv, mstatusM, mstatusS>>
           Enables == UNCHANGED <<cmp, priv, mstatusM, mstatusS, pend>>
           Leaves == Mret /\ UNCHANGED cmp
<1>2. priv = "M" /\ Quiet /\ UNCHANGED kernel /\ (Writes \/ Pends \/ Enables \/ Leaves)
  BY DEF MStep
<1>3. CASE Writes
  <2>1. TimerInv'
    BY <1>2, <1>3, TimerKept DEF IInv
  <2> QED BY <1>1, <1>2, <1>3, <2>1 DEF kernel, pend, mstatusM, mstatusS, IInv, SeipIsPin, NoNesting, HandlerMasked
<1>4. CASE Pends
  <2>1. TimerInv'
    BY <1>2, <1>4, TimerKept DEF IInv
  <2> QED BY <1>1, <1>2, <1>4, <2>1 DEF kernel, RmwSeip, mstatusM, mstatusS, IInv, SeipIsPin, NoNesting, HandlerMasked
<1>5. CASE Enables
  <2>1. TimerInv'
    BY <1>2, <1>5, TimerKept DEF IInv
  <2> QED BY <1>1, <1>2, <1>5, <2>1 DEF kernel, pend, mstatusM, mstatusS, IInv, SeipIsPin, NoNesting, HandlerMasked
<1>6. CASE Leaves
  <2>1. TimerInv'
    BY <1>2, <1>6, TimerKept DEF IInv
  <2> QED BY <1>1, <1>2, <1>6, <2>1 DEF kernel, Mret, pend, mstatusS, IInv, SeipIsPin, NoNesting, HandlerMasked
<1> QED BY <1>2, <1>3, <1>4, <1>5, <1>6

\* The timer interrupt is taken outside M-mode and leaves the kernel where it is.
LEMMA TakeMInv == ASSUME IInv, TakeM PROVE IInv'
<1>1. GateInv'
  BY GatesKept DEF TakeM, lines, kernel, IInv, GateInv
<1>2. TimerInv'
  BY TimerKept DEF TakeM, IInv
<1>3. priv # "M"
  BY DEF TakeM, TakeMachine, IInv, NoNesting
<1>4. SeipIsPin'
  BY DEF TakeM, TrapToM, pend, IInv, SeipIsPin
<1>5. NoNesting' /\ HandlerMasked'
  <2>1. priv \in {"S", "U"}
    BY <1>3 DEF IInv, NoNesting
  <2> QED BY <2>1 DEF TakeM, TrapToM, mstatusS, kernel, IInv, NoNesting, HandlerMasked
<1> QED BY <1>1, <1>2, <1>4, <1>5 DEF IInv

\* A supervisor interrupt finds no handler of the kernel under way.
LEMMA TakeSInv == ASSUME IInv, TakeS PROVE IInv'
<1>1. GateInv'
  <2>1. priv \in {"S", "U"} /\ (priv = "S" => sie_g)
    BY DEF TakeS, TakeSuper
  <2>2. at \notin {"serve", "complete"}
    BY <2>1 DEF IInv, HandlerMasked
  <2> QED BY <2>2, GatesKept DEF TakeS, IInv, GateInv
<1>2. TimerInv'
  BY TimerKept DEF TakeS, IInv
<1> QED BY <1>1, <1>2 DEF TakeS, TakeSuper, TrapToS, pend, mstatusM, IInv, SeipIsPin, NoNesting, HandlerMasked

\* What thread code, the devices and time do: none touches the gateways, and
\* M-mode is entered with interrupts off.
LEMMA ThreadInv ==
  ASSUME IInv, MaskIrqs \/ UnmaskIrqs \/ ToggleSource \/ StartTimer \/ OtherTrap \/ Syscall \/ ToUser
  PROVE  IInv'
<1>1. /\ Quiet /\ cmp' = cmp /\ src' = src /\ held' = held
      /\ at \in {"thread"} /\ at' \in {"thread", "first"}
  BY DEF MaskIrqs, UnmaskIrqs, ToggleSource, StartTimer, OtherTrap, Syscall, ToUser, Thread,
         Untouched, lines, kernel, IInv, HandlerMasked
<1>2. GateInv'
  BY <1>1, GatesKept DEF IInv, GateInv
<1>3. TimerInv'
  BY <1>1, TimerKept DEF IInv
<1>4. SeipIsPin'
  BY DEF MaskIrqs, UnmaskIrqs, ToggleSource, StartTimer, OtherTrap, Syscall, ToUser,
         TrapToM, TrapToS, Untouched, pend, IInv, SeipIsPin
<1>5. NoNesting' /\ HandlerMasked'
  <2>1. CASE OtherTrap
    BY <2>1 DEF OtherTrap, TrapToM, mstatusS, kernel, IInv, NoNesting, HandlerMasked
  <2>2. CASE Syscall \/ ToUser
    BY <2>2, <1>1 DEF Syscall, ToUser, TrapToS, mstatusM, kernel, IInv, NoNesting, HandlerMasked
  <2>3. CASE MaskIrqs \/ UnmaskIrqs
    BY <2>3, <1>1 DEF MaskIrqs, UnmaskIrqs, mstatusM, kernel, IInv, NoNesting, HandlerMasked
  <2>4. CASE ToggleSource \/ StartTimer
    BY <2>4, <1>1 DEF ToggleSource, StartTimer, Thread, OnHart, Untouched, mstatusM, mstatusS,
                      kernel, IInv, NoNesting, HandlerMasked
  <2> QED BY <2>1, <2>2, <2>3, <2>4
<1> QED BY <1>2, <1>3, <1>4, <1>5 DEF IInv

\* The devices move the lines and time the comparator; the hart stands still.
LEMMA StalledInv == ASSUME IInv, Wait \/ Raise \/ Lower \/ Elapse PROVE IInv'
<1>1. Quiet /\ Stalled /\ src' \subseteq Sources /\ (cmp' = cmp \/ cmp' = "past")
  BY DEF Wait, Raise, Lower, Elapse, lines, IInv, GateInv
<1>2. GateInv'
  BY <1>1, GatesKept DEF Stalled, kernel, IInv, GateInv
<1>3. TimerInv'
  BY <1>1, TimerKept DEF IInv
<1> QED
  BY <1>1, <1>2, <1>3 DEF Stalled, pend, mstatusM, mstatusS, kernel, IInv, SeipIsPin, NoNesting, HandlerMasked

\* Every step keeps the invariant.
LEMMA StepInv == ASSUME IInv, [Next]_vars PROVE IInv'
<1>1. CASE UNCHANGED vars
  BY <1>1 DEF vars, lines, plic, mstatusM, mstatusS, pend, kernel, IInv, GateInv, InflightIsHeld,
              SeipIsPin, NoNesting, HandlerMasked, TimerInv
<1>2. CASE Next
  BY <1>2, MStepInv, TakeMInv, TakeSInv, HandlerInv, ThreadInv, StalledInv DEF Next
<1> QED BY <1>1, <1>2

\* It holds in every state.
LEMMA Invariant == Spec => []IInv
BY InitInv, StepInv, PTL DEF Spec
-----------------------------------------------------------------------------
\* Every claim is on its way to its completion, and nothing interrupts
\* underneath a handler.
THEOREM ClaimsAreHeld == Spec => []InflightIsHeld
<1>1. IInv => InflightIsHeld
  BY DEF IInv, GateInv
<1> QED BY <1>1, Invariant, PTL

\* The firmware's read-modify-writes of mip never set the software SEIP bit.
THEOREM SeipFollowsPin == Spec => []SeipIsPin
<1>1. IInv => SeipIsPin
  BY DEF IInv
<1> QED BY <1>1, Invariant, PTL

\* No timer interrupt before its deadline, whatever the two halves of mtimecmp
\* held while it was written.
THEOREM TimerIsNotEarly == Spec => TickNotEarly
<1>1. IInv /\ [Next]_vars => [TakeM => cmp = "past"]_vars
  BY DEF IInv, TakeM, TakeMachine, NoNesting, TimerInv
<1> QED BY <1>1, Invariant, PTL DEF Spec, TickNotEarly
=============================================================================
