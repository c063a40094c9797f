---------------------------- MODULE Interrupts ----------------------------
(* How an interrupt reaches Linux: the gateways and the claim register of    *)
(* src/plic.sv, the comparator of src/clint.sv, the pending bits and the trap *)
(* routing of src/csr.sv, the M-mode handler in sw/sbi/sbi.c, and the kernel's *)
(* two handlers, which are outside the repository.                           *)
(*                                                                           *)
(* Every step is one clock edge: the gateways and mtip are registers and move *)
(* on each.  The hart commits one instruction, takes one interrupt or stalls. *)
(* M-mode code is the list of instructions it has left, the kernel's place is *)
(* `at`.  Registers software writes once at boot are constants or left out:   *)
(* mideleg has the three S bits set, the M sources other than the timer are   *)
(* tied low or unused, the kernel has set SEIE.                              *)
EXTENDS Integers, Sequences, FiniteSets

CONSTANTS
  SOURCES,      \* sources are numbered 1 .. SOURCES; 0 means "nothing pending"
  Priority,     \* [source -> what the driver wrote to its priority register]
  Threshold,    \* the priority threshold of the one context
  Burst         \* environment: how often lines may rise between two kernel ticks

Sources == 1 .. SOURCES
Prio == 0 .. 7
ASSUME PlicAssumption ==
  SOURCES \in Nat /\ Priority \in [Sources -> Prio] /\ Threshold \in Prio /\ Burst \in Nat

VARIABLES
  src, quota,               \* the request lines; how many rises are left
  enable, ip, inflight,     \* plic.sv
  cmp, mtip,                \* clint.sv: mtimecmp against mtime, and the registered compare
  priv, mie_g, mpie, mpp,   \* csr.sv: mode and mstatus
  sie_g, spie, spp,
  stie, mtie,               \* interrupt enables
  stip, seip_sw,            \* software-set pending bits
  mcode,                    \* what is left of the M-mode handler
  at, held                  \* where the kernel is; the source its handler serves

lines == <<src, quota>>
plic == <<ip, inflight>>
mstatusM == <<mie_g, mpie, mpp>>
mstatusS == <<sie_g, spie, spp>>
pend == <<stip, seip_sw>>
kernel == <<at, held>>
vars == <<lines, enable, plic, cmp, mtip, priv, mstatusM, mstatusS, stie, mtie,
          pend, mcode, kernel>>
-----------------------------------------------------------------------------
(* plic.sv *)
Offered == {s \in ip \cap enable : Priority[s] > Threshold}
\* The highest priority wins, a tie goes to the lowest number.
Wins(s) == \A t \in Offered : Priority[t] < Priority[s] \/ (Priority[t] = Priority[s] /\ s <= t)
Best == IF Offered = {} THEN 0 ELSE CHOOSE s \in Offered : Wins(s)
eip == Best # 0

\* A write to the claim register completes any source number in range.
\* (Mutant: the last number is left out.)
CompletesBelow(id) == id >= 1 /\ id < SOURCES
Completes(id) == id >= 1 /\ id <= SOURCES

\* Whose pending bit follows its line: those not in flight, and one completed now.
\* (Mutant: everyone's.)
FollowsAlways(done) == Sources
Following(done) == (Sources \ inflight) \cup done

\* One clock of the gateways.  A claim takes the bit and marks the source.
Gateways(claim, complete) ==
  LET taken == IF claim THEN {Best} \ {0} ELSE {}
      done == IF Completes(complete) THEN {complete} ELSE {}
  IN  /\ ip' = ((src \cap Following(done)) \cup (ip \ Following(done))) \ taken
      /\ inflight' = (inflight \ done) \cup taken

(* clint.sv: mtip is the comparison one clock ago.  (Mutant: it is kept.) *)
CompareKept == mtip' = (mtip \/ cmp = "past")
Compare == mtip' = (cmp = "past")

\* A clock in which the core touches neither block's registers.
Clock(claim, complete) == Gateways(claim, complete) /\ Compare
Quiet == Clock(FALSE, 0)
-----------------------------------------------------------------------------
(* csr.sv *)
seip == seip_sw \/ eip
\* What CSRRS and CSRRC on mip put back into the SEIP bit.  (Mutant: what they read.)
RmwSeipRead == seip
RmwSeip == seip_sw
TakeMachine == mtip /\ mtie /\ (priv # "M" \/ mie_g)
TakeSuper == /\ ~TakeMachine
             /\ seip \/ (stip /\ stie)
             /\ priv = "U" \/ (priv = "S" /\ sie_g)
irq == TakeMachine \/ TakeSuper

TrapToM(code) ==
  /\ mpie' = mie_g /\ mie_g' = FALSE /\ mpp' = priv /\ priv' = "M"
  /\ mcode' = code
  /\ UNCHANGED <<mstatusS, stie, mtie, pend>>
TrapToS ==
  /\ spie' = sie_g /\ sie_g' = FALSE /\ spp' = priv /\ priv' = "S"
  /\ UNCHANGED <<mstatusM, stie, mtie, pend, mcode>>
Mret ==
  /\ priv' = mpp /\ mie_g' = mpie /\ mpie' = TRUE /\ mpp' = "U"
  /\ UNCHANGED <<mstatusS, stie, mtie, pend>>
Sret ==
  /\ priv' = spp /\ sie_g' = spie /\ spie' = TRUE /\ spp' = "U"
  /\ UNCHANGED <<mstatusM, stie, mtie, pend, mcode>>
-----------------------------------------------------------------------------
(* sbi.c: the writes that arm the comparator.  A deadline is past or ahead;  *)
(* after the first write the low half is all ones, after the second the high *)
(* half is the new one.  What the first leaves depends on the old high half. *)
Instr(op, d) == [op |-> op, when |-> d]
Arm(d) == <<Instr("park", d), Instr("high", d), Instr("low", d)>>
Written(i) ==
  CASE i.op = "park" -> IF cmp = "past" THEN {"past", "ahead"} ELSE {"ahead"}
    [] i.op = "high" -> IF i.when = "past" THEN {"past", "ahead"} ELSE {"ahead"}
    [] i.op = "low"  -> {i.when}

Back == Instr("mret", "past")
TimerHandler == <<Instr("set stip", "past")>> \o Arm("ahead") \o <<Instr("mret", "ahead")>>
SetTimer(d) == Arm(d) \o <<Instr("clear stip", "past"), Instr("set mtie", "past"), Back>>
OtherCall == <<Back>>

\* The M-mode handler's next instruction.
MStep ==
  /\ priv = "M" /\ mcode # <<>> /\ ~irq
  /\ mcode' = Tail(mcode)
  /\ LET i == Head(mcode)
     IN  \/ /\ i.op \in {"park", "high", "low"}
            /\ cmp' \in Written(i)
            /\ UNCHANGED <<priv, mstatusM, mstatusS, stie, mtie, pend>>
         \/ /\ i.op \in {"set stip", "clear stip"}
            /\ stip' = (i.op = "set stip") /\ seip_sw' = RmwSeip
            /\ UNCHANGED <<cmp, priv, mstatusM, mstatusS, stie, mtie>>
         \/ /\ i.op = "set mtie"
            /\ mtie' = TRUE
            /\ UNCHANGED <<cmp, priv, mstatusM, mstatusS, stie, pend>>
         \/ i.op = "mret" /\ Mret /\ UNCHANGED cmp
  /\ Quiet
  /\ UNCHANGED <<lines, enable, kernel>>

\* The M timer interrupt.
TakeM ==
  /\ TakeMachine
  /\ TrapToM(TimerHandler)
  /\ Quiet
  /\ UNCHANGED <<lines, enable, cmp, kernel>>

\* An S interrupt: the external one is reported before the timer.
TakeS ==
  /\ TakeSuper
  /\ TrapToS
  /\ at' = IF seip THEN "claim" ELSE "tick"
  /\ quota' = IF seip THEN quota ELSE Burst
  /\ Quiet
  /\ UNCHANGED <<src, enable, cmp, held>>
-----------------------------------------------------------------------------
(* The kernel. *)
OnHart == priv = "S" /\ ~irq
Untouched == UNCHANGED <<quota, cmp, priv, mstatusM, mstatusS, stie, mtie, pend, mcode>>

\* The external handler: claim until nothing is pending; serve the device,
\* which drops its line; complete.
Claim ==
  /\ OnHart /\ at = "claim"
  /\ held' = Best /\ at' = IF Best = 0 THEN "return" ELSE "serve"
  /\ Clock(TRUE, 0)
  /\ Untouched /\ UNCHANGED <<src, enable>>
Serve ==
  /\ OnHart /\ at = "serve"
  /\ src' = src \ {held} /\ at' = "complete"
  /\ Quiet
  /\ Untouched /\ UNCHANGED <<enable, held>>
Complete ==
  /\ OnHart /\ at = "complete"
  /\ held' = 0 /\ at' = "claim"
  /\ Clock(FALSE, held)
  /\ Untouched /\ UNCHANGED <<src, enable>>

\* The timer handler masks STIE; then it programs the next event, or does not.
Tick ==
  /\ OnHart /\ at = "tick"
  /\ stie' = FALSE
  /\ at' \in {"next", "return"}
  /\ Quiet
  /\ UNCHANGED <<lines, enable, cmp, priv, mstatusM, mstatusS, mtie, pend, mcode, held>>
NextEvent ==
  /\ OnHart /\ at \in {"next", "first"}
  /\ stie' = TRUE
  /\ at' = IF at = "next" THEN "call" ELSE "first call"
  /\ Quiet
  /\ UNCHANGED <<lines, enable, cmp, priv, mstatusM, mstatusS, mtie, pend, mcode, held>>
CallSetTimer ==
  /\ OnHart /\ at \in {"call", "first call"}
  /\ \E d \in {"past", "ahead"} : TrapToM(SetTimer(d))
  /\ at' = IF at = "call" THEN "return" ELSE "thread"
  /\ Quiet
  /\ UNCHANGED <<lines, enable, cmp, held>>
Return ==
  /\ OnHart /\ at = "return"
  /\ Sret /\ at' = "thread"
  /\ Quiet
  /\ UNCHANGED <<lines, enable, cmp, held>>
Handler == Claim \/ Serve \/ Complete \/ Tick \/ NextEvent \/ CallSetTimer \/ Return

(* Code that is in no handler. *)
Thread == OnHart /\ at = "thread"
MaskIrqs ==
  /\ Thread /\ sie_g /\ sie_g' = FALSE
  /\ Quiet
  /\ UNCHANGED <<lines, enable, cmp, priv, mstatusM, spie, spp, stie, mtie, pend, mcode, kernel>>
UnmaskIrqs ==
  /\ Thread /\ ~sie_g /\ sie_g' = TRUE
  /\ Quiet
  /\ UNCHANGED <<lines, enable, cmp, priv, mstatusM, spie, spp, stie, mtie, pend, mcode, kernel>>
\* request_irq and free_irq: free_irq waits for a handler that runs, and on one
\* hart no thread runs beside one.
ToggleSource ==
  /\ Thread
  /\ \E s \in Sources : enable' = IF s \in enable THEN enable \ {s} ELSE enable \cup {s}
  /\ Quiet
  /\ Untouched /\ UNCHANGED <<src, kernel>>
\* With no event programmed the kernel may program one.
StartTimer ==
  /\ Thread /\ ~sie_g /\ ~stie
  /\ at' = "first"
  /\ Quiet
  /\ Untouched /\ UNCHANGED <<src, enable, held>>
\* The other SBI calls, and the emulation of rdtime: in and out of M-mode.
OtherTrap ==
  /\ ~irq /\ priv \in {"S", "U"} /\ at = "thread"
  /\ TrapToM(OtherCall)
  /\ Quiet
  /\ UNCHANGED <<lines, enable, cmp, kernel>>
Syscall ==
  /\ ~irq /\ priv = "U"
  /\ TrapToS
  /\ Quiet
  /\ UNCHANGED <<lines, enable, cmp, kernel>>
\* sstatus is written for user mode, then sret.
ToUser ==
  /\ Thread /\ ~sie_g
  /\ priv' = "U" /\ sie_g' = TRUE /\ spie' = TRUE /\ spp' = "U"
  /\ Quiet
  /\ UNCHANGED <<lines, enable, cmp, mstatusM, stie, mtie, pend, mcode, kernel>>
-----------------------------------------------------------------------------
(* Clocks in which the hart waits or computes. *)
Stalled == UNCHANGED <<enable, priv, mstatusM, mstatusS, stie, mtie, pend, mcode, kernel>>
Wait == Quiet /\ Stalled /\ UNCHANGED <<lines, cmp>>
\* A device raises its line, or lowers it by itself (a full transmit queue).
Raise ==
  /\ quota > 0 /\ quota' = quota - 1
  /\ \E s \in Sources \ src : src' = src \cup {s}
  /\ Quiet /\ Stalled /\ UNCHANGED cmp
Lower ==
  /\ \E s \in src : src' = src \ {s}
  /\ Quiet /\ Stalled /\ UNCHANGED <<quota, cmp>>
\* mtime reaches mtimecmp.  Instructions marked "ahead" are over before it does:
\* they follow a low half of all ones, or an armed fallback of 100 ms.
Elapse ==
  /\ cmp = "ahead" /\ cmp' = "past"
  /\ mcode # <<>> => Head(mcode).when = "past"
  /\ Quiet /\ Stalled /\ UNCHANGED lines

\* After boot: the firmware has entered the kernel, whose PLIC driver has probed.
Init ==
  /\ src = {} /\ quota = Burst
  /\ enable = {} /\ ip = {} /\ inflight = {}
  /\ cmp = "past" /\ mtip = TRUE
  /\ priv = "S" /\ mie_g = FALSE /\ mpie = TRUE /\ mpp = "U"
  /\ sie_g = FALSE /\ spie = FALSE /\ spp = "U"
  /\ stie = FALSE /\ mtie = FALSE /\ stip = FALSE /\ seip_sw = FALSE
  /\ mcode = <<>> /\ at = "thread" /\ held = 0

Next == \/ MStep \/ TakeM \/ TakeS \/ Handler
        \/ MaskIrqs \/ UnmaskIrqs \/ ToggleSource \/ StartTimer \/ OtherTrap \/ Syscall \/ ToUser
        \/ Wait \/ Raise \/ Lower \/ Elapse
Spec == Init /\ [][Next]_vars

\* The clock runs and time passes; the hart gets on.  A handler step may find an
\* M interrupt in its way again and again, but a period of the timer is long
\* against a handler: what can go on repeatedly does.  Masked sections end.
Fairness == /\ WF_vars(Wait) /\ WF_vars(Elapse) /\ WF_vars(MStep) /\ WF_vars(TakeM)
            /\ SF_vars(TakeS) /\ SF_vars(Handler) /\ SF_vars(UnmaskIrqs)
FairSpec == Spec /\ Fairness
-----------------------------------------------------------------------------
\* A source is in flight exactly while the kernel's handler holds it, and while
\* it is, its pending bit is down: no claim is left without its completion, and
\* no source interrupts again underneath its handler (plic.sv, the gateways).
InflightIsHeld ==
  /\ inflight = (IF at \in {"serve", "complete"} THEN {held} ELSE {})
  /\ ip \cap inflight = {}

\* The software bit of SEIP stays clear, whatever the timer handler and
\* sbi_set_timer do to mip while a device holds the PLIC's line up (csr.sv,
\* rval_rmw).
SeipIsPin == ~seip_sw

\* The timer never fires before the deadline last asked for, though that deadline
\* is written in two halves and mtip lags by a clock (sbi_set_timer,
\* timer_fallback_arm, clint.sv).
TickNotEarly == [][TakeM => cmp = "past"]_vars

\* Once a first tick was asked for, the firmware's ticks never end, whether the
\* kernel asks again or not; and a tick handed to a kernel that listens is taken:
\* the external interrupts, which go first, do not bar it for ever (sbi.c, the
\* handler of cause 7; csr.sv, irq_cause and rval_rmw).
TicksKeepComing ==
  /\ (<>(mcode = TimerHandler)) => []<>(mcode = TimerHandler)
  /\ (stip /\ stie) ~> (at = "tick")

\* Whoever raises an enabled line is served, unless the line falls by itself or
\* the source is disabled (plic.sv, arbitration and gateways).
SourceServed ==
  \A s \in Sources : (s \in src \cap enable /\ Priority[s] > Threshold)
                       ~> (s \notin src \/ s \notin enable \/ (at = "serve" /\ held = s))
=============================================================================
