------------------------------ MODULE EspLink ------------------------------
(* The serial link to the ESP32: src/esp_uart.sv with its select and         *)
(* acknowledge cycles in src/project.sv, and the Linux driver koti_esp.c that *)
(* drives it.  A register read is two steps: the select cycle, which has the *)
(* side effects, and the acknowledge cycle, in which the core takes the data. *)
(* The driver's contexts (interrupt, write, flow control, a write to the     *)
(* esp_power attribute) exclude each other by the port lock; the wires do not *)
(* wait for any of them.  Opening and closing the port write the control     *)
(* register without that lock: the kernel has one CPU and is not preemptible *)
(* (koti_defconfig), so only the interrupt handler can come between.         *)
EXTENDS Integers, Sequences, SequencesExt

CONSTANTS
    Depth,        \* entries of each hardware FIFO (64)
    Room,         \* bytes the driver's transmit kfifo holds
    K,            \* transmitted bytes are numbered modulo K
    Byte,         \* received bytes
    Loads         \* what goes on at once in a behaviour: the processes that write
                  \* esp_power, whether bytes arrive, and whether the tty layer
                  \* stops and restarts the transmitter

ASSUME EspAssumption ==
    Depth \in Nat \ {0} /\ Room \in Nat /\ K \in Nat /\ K > Room + 1 /\ K > 2

Users == UNION {l.users : l \in Loads}
\* Who may hold the port lock beside them: the driver's own contexts.
Contexts == {"irq", "write", "flow"}
ASSUME UserAssumption == Users \cap (Contexts \cup {"none"}) = {}

Straps == [en: BOOLEAN, gpio0: BOOLEAN]
Off == [en |-> FALSE, gpio0 |-> FALSE]

VARIABLES
    fifo, wptr, rptr, rx_ovf,      \* esp_uart's receive side
    txf, tx_busy, wire,            \* its transmit side; the last byte on the wire
    straps, tx_irq_en,             \* its control register
    xmit, last, stopped,           \* tty layer: kfifo, the number of the last byte
                                   \* written to it, and whether it may send
    holder, pc, bus, n,            \* who holds the port lock; its next access; the
                                   \* register whose select cycle is past; bytes to pop
    mode, step,                    \* each esp_power write: its GPIO0, its stage
    port, kept,                    \* the port open or not; the straps its unlocked
                                   \* access of the control register has read
    popped, mover,                 \* history: the byte the select cycle popped, who
                                   \* set the straps last
    load                           \* what goes on, from the start

rx == <<fifo, wptr, rptr, rx_ovf>>
tx == <<txf, tx_busy, wire>>
ctrl == <<straps, tx_irq_en>>
queue == <<xmit, last>>
driver == <<queue, stopped, holder, pc, n, mode, step>>
opened == <<port, kept>>
history == <<popped, mover, load>>
vars == <<rx, tx, ctrl, driver, opened, bus, history>>
-----------------------------------------------------------------------------
(* esp_uart.sv *)
f_level == (wptr - rptr) % (2 * Depth)
f_empty == wptr = rptr
rx_byte == fifo[rptr % Depth]
f_full == f_level = Depth
tx_full == Len(txf) = Depth
rx_irq == ~f_empty \/ (tx_irq_en /\ ~tx_full)

Step(p) == (p + 1) % (2 * Depth)

\* A byte arrives: queued, or refused with the overrun flag.
RxArrive(b) ==
    /\ load.rx
    /\ IF f_full THEN rx_ovf' = TRUE /\ UNCHANGED <<fifo, wptr>>
       ELSE /\ fifo' = [fifo EXCEPT ![wptr % Depth] = b]
            /\ wptr' = Step(wptr)
            /\ UNCHANGED rx_ovf
    /\ UNCHANGED <<rptr, tx, ctrl, driver, opened, bus, history>>

\* The shifter takes the next byte, and some time later has sent it.
TxGo ==
    /\ ~tx_busy /\ txf # <<>>
    /\ tx_busy' = TRUE
    /\ wire' = Head(txf) /\ txf' = Tail(txf)
    /\ UNCHANGED <<rx, ctrl, driver, opened, bus, history>>

TxDone ==
    /\ tx_busy
    /\ tx_busy' = FALSE
    /\ UNCHANGED <<rx, txf, wire, ctrl, driver, opened, bus, history>>

\* The select cycle of a read: STAT clears the overrun flag, DATA pops.
Select(reg) ==
    /\ bus = "none" /\ bus' = reg
    /\ rx_ovf' = IF reg = "stat" THEN FALSE ELSE rx_ovf
    /\ IF reg = "data" /\ ~f_empty THEN rptr' = Step(rptr) /\ popped' = rx_byte
                                   ELSE UNCHANGED <<rptr, popped>>
    /\ UNCHANGED <<fifo, wptr, tx, ctrl, driver, opened, mover, load>>

\* The acknowledge cycle: the read multiplexer is combinational, so what the
\* core takes is what the registers hold now.
Take(reg) == bus = reg /\ bus' = "none"
-----------------------------------------------------------------------------
(* koti_esp.c, entered with the port lock free and left by releasing it *)
Go(where) == pc' = where /\ UNCHANGED holder
Unlock == holder' = "none" /\ pc' = "idle"
Enter(who, where) == holder = "none" /\ holder' = who /\ pc' = where

IrqEnter ==
    /\ port # "closed" /\ rx_irq /\ Enter("irq", "status")
    /\ UNCHANGED <<rx, tx, ctrl, queue, stopped, n, mode, step, bus, opened, history>>

\* uart_write: the bytes go to the kfifo, and start_tx follows unless stopped.
WriteEnter ==
    /\ port = "open" /\ holder = "none" /\ Len(xmit) < Room
    /\ last' = (last + 1) % K
    /\ xmit' = Append(xmit, last')
    /\ IF stopped THEN UNCHANGED <<holder, pc>> ELSE Enter("write", "room")
    /\ UNCHANGED <<rx, tx, ctrl, stopped, n, mode, step, bus, opened, history>>

\* The tty layer stops the transmitter (stop_tx), and starts it again (start_tx).
FlowEnter ==
    /\ load.flow /\ port = "open"
    /\ Enter("flow", IF stopped THEN "room" ELSE "disarm")
    /\ stopped' = ~stopped
    /\ UNCHANGED <<rx, tx, ctrl, queue, n, mode, step, bus, opened, history>>

Status ==                                        \* koti_esp_irq
    /\ pc = "status" /\ Take("stat")
    /\ Go(IF f_empty THEN "room" ELSE "level")
    /\ UNCHANGED <<rx, tx, ctrl, queue, stopped, n, mode, step, opened, history>>

\* koti_esp_rx_chars: the level is read once, and that many bytes are popped.
BytesUpTo(level) == level + 1                    \* mutant: one too many
BytesToPop(level) == level

Level ==
    /\ pc = "level" /\ Take("stat")
    /\ n' = BytesToPop(f_level)
    /\ Go("byte")
    /\ UNCHANGED <<rx, tx, ctrl, queue, stopped, mode, step, opened, history>>

TakeByte ==
    /\ pc = "byte" /\ Take("data")
    /\ n' = n - 1
    /\ Go(IF n = 1 THEN "room" ELSE "byte")
    /\ UNCHANGED <<rx, tx, ctrl, queue, stopped, mode, step, opened, history>>

\* koti_esp_tx_chars: uart_port_tx looks for room, then for a byte it may send.
RoomAtFull(level) == level <= Depth              \* mutant: < became <=
RoomFor(level) == level < Depth

LookForRoom ==
    /\ pc = "room" /\ Take("stat")
    /\ Go(IF RoomFor(Len(txf)) THEN "send" ELSE "pending")
    /\ UNCHANGED <<rx, tx, ctrl, queue, stopped, n, mode, step, opened, history>>

Send ==
    /\ pc = "send" /\ bus = "none"
    /\ IF stopped \/ xmit = <<>> THEN Go("pending") /\ UNCHANGED <<txf, xmit>>
       ELSE /\ xmit' = Tail(xmit)
            /\ txf' = IF tx_full THEN txf ELSE Append(txf, Head(xmit))
            /\ Go("room")
    /\ UNCHANGED <<rx, tx_busy, wire, ctrl, last, stopped, n, mode, step, bus, opened, history>>

\* Run dry, it calls stop_tx; with bytes left, it asks to be woken for room.
\* (Mutant: dry, it simply returns.)
PendingKept == IF xmit = <<>> THEN Unlock ELSE Go("arm")
PendingNext == Go(IF xmit = <<>> THEN "disarm" ELSE "arm")

Pending ==
    /\ pc = "pending" /\ bus = "none"
    /\ PendingNext
    /\ UNCHANGED <<rx, tx, ctrl, queue, stopped, n, mode, step, bus, opened, history>>

\* koti_esp_set_txirq: read-modify-write, the straps are not this driver's.
\* (Mutant: the whole register is written.)
StrapsDropped == straps' = Off
StrapsPreserved == UNCHANGED straps

SetTxIrq ==
    /\ pc \in {"arm", "disarm"} /\ Take("ctrl")
    /\ tx_irq_en' = (pc = "arm")
    /\ StrapsPreserved
    /\ Unlock
    /\ UNCHANGED <<rx, tx, queue, stopped, n, mode, step, opened, history>>

\* koti_esp_startup, from the moment the interrupt is requested, and
\* koti_esp_shutdown until it is freed: each calls set_txirq, here without the
\* lock.  (The tty layer closes a port that has drained.)
Opening ==
    /\ port = "closed" /\ holder = "none"
    /\ port' = "startup" /\ stopped' = FALSE
    /\ UNCHANGED <<rx, tx, ctrl, queue, holder, pc, n, mode, step, bus, kept, history>>

Closing ==
    /\ port = "open" /\ holder = "none" /\ xmit = <<>>
    /\ port' = "shutdown"
    /\ UNCHANGED <<rx, tx, ctrl, driver, bus, kept, history>>

UnlockedRead ==
    /\ port \in {"startup", "shutdown"} /\ kept = <<>> /\ holder = "none"
    /\ kept' = <<straps>>
    /\ UNCHANGED <<rx, tx, ctrl, driver, port, bus, history>>

UnlockedWrite ==
    /\ kept # <<>> /\ holder = "none"
    /\ straps' = Head(kept) /\ tx_irq_en' = FALSE
    /\ kept' = <<>>
    /\ port' = IF port = "startup" THEN "open" ELSE "closed"
    /\ UNCHANGED <<rx, tx, driver, bus, history>>

\* esp_power_store: everything low, then GPIO0, then GPIO0 with the enable, each
\* under the lock, and asleep in between; "off" is the first of them alone.
\* (Mutants: GPIO0 rises with the enable; the transmit interrupt is cleared.)
StrapsTogether(u) == [en |-> step[u] = 3, gpio0 |-> step[u] > 2 /\ mode[u]]
StrapValue(u) == [en |-> step[u] = 3, gpio0 |-> step[u] > 1 /\ mode[u]]
TxIrqCleared == tx_irq_en' = FALSE
TxIrqKept == UNCHANGED tx_irq_en

PowerEnter(u) ==
    /\ u \in load.users /\ holder = "none" /\ kept = <<>>
    /\ \/ step[u] = 0 /\ mode' \in {[mode EXCEPT ![u] = g] : g \in BOOLEAN}
       \/ step[u] \in {1, 2} /\ UNCHANGED mode
    /\ step' = [step EXCEPT ![u] = @ + 1]
    /\ Enter(u, "straps")
    /\ UNCHANGED <<rx, tx, ctrl, queue, stopped, n, bus, opened, history>>

SetStraps ==
    /\ pc = "straps" /\ Take("ctrl")
    /\ straps' = StrapValue(holder)
    /\ TxIrqKept
    /\ \/ step[holder] # 3 /\ UNCHANGED step
       \/ step[holder] # 2 /\ step' = [step EXCEPT ![holder] = 0]   \* off, or run
    /\ Unlock
    /\ mover' = holder
    /\ UNCHANGED <<rx, tx, queue, stopped, n, mode, opened, popped, load>>
-----------------------------------------------------------------------------
\* The register each access of the driver selects.
SelectNext ==
    \/ pc \in {"status", "level", "room"} /\ Select("stat")
    \/ pc = "byte" /\ Select("data")
    \/ pc \in {"arm", "disarm", "straps"} /\ Select("ctrl")

Init ==
    /\ fifo \in [0 .. Depth - 1 -> Byte] /\ wptr = 0 /\ rptr = 0 /\ rx_ovf = FALSE
    /\ txf = <<>> /\ tx_busy = FALSE /\ wire = 0
    /\ straps = Off /\ tx_irq_en = FALSE
    /\ xmit = <<>> /\ last = 0 /\ stopped = FALSE
    /\ holder = "none" /\ pc = "idle" /\ bus = "none" /\ n = 0
    /\ mode = [u \in Users |-> FALSE] /\ step = [u \in Users |-> 0]
    /\ port = "closed" /\ kept = <<>>
    /\ popped \in Byte /\ mover = "none" /\ load \in Loads

Inside == SelectNext \/ Status \/ Level \/ TakeByte \/ LookForRoom \/ Send
          \/ Pending \/ SetTxIrq \/ SetStraps

Next ==
    \/ \E b \in Byte : RxArrive(b)
    \/ TxGo \/ TxDone
    \/ IrqEnter \/ WriteEnter \/ FlowEnter
    \/ Inside
    \/ Opening \/ Closing \/ UnlockedRead \/ UnlockedWrite
    \/ \E u \in Users : PowerEnter(u)

Spec == Init /\ [][Next]_vars

\* The lock's holder gets on, the wire gets on, a raised line is taken.
FairSpec == Spec /\ WF_vars(Inside) /\ WF_vars(TxGo) /\ WF_vars(TxDone)
                 /\ SF_vars(IrqEnter)
-----------------------------------------------------------------------------
(* Properties *)

\* Nothing written is lost, repeated or reordered between the kfifo, the
\* hardware FIFO and the wire, whoever fills the FIFO while it drains: the bytes
\* on their way are numbered without a gap, up to the last one written.
TxStream ==
    LET s == <<wire>> \o txf \o xmit
    IN  /\ s[Len(s)] = last
        /\ \A i \in 1 .. Len(s) - 1 : s[i + 1] = (s[i] + 1) % K

\* No byte is stranded in the kfifo: not when the FIFO fills, and not when an
\* esp_power write comes between the request for a wake-up and the wake-up.
\* (Numbers come round, so what holds of the bytes with number 1 holds of all.)
TxDrains == []<>(~stopped) => (1 \in ToSet(xmit)) ~> (1 \notin ToSet(xmit))

\* The interrupt line does not stay up for ever once nothing is received:
\* the driver asks for transmit room only while it can use it.
LineFalls == (<>[]f_empty) => []<>(~rx_irq)

\* It does not, at least, as long as the tty layer keeps letting it send.
LineFallsRunning == (<>[]f_empty) /\ []<>(~stopped) => []<>(~rx_irq)

\* The driver never pops an empty FIFO, though it counts the bytes beforehand,
\* and the link never fills it past its depth.
NeverPopsEmpty == f_level <= Depth /\ (pc = "byte" /\ bus = "none" => ~f_empty)

\* GPIO0 is settled whenever the enable is up or rises: the ESP32 samples it at
\* that instant (koti_esp.c "The order", esp_uart.sv).  Several writers can come
\* between each other's three steps; but nothing else unsettles it than another
\* process's write since this one last set the straps.
OthersUnsettle == [][straps'.en => straps'.gpio0 = straps.gpio0 \/ mover # holder]_straps

\* The straps move only in an esp_power write: opening and closing the port,
\* without the lock, traffic and flow control leave the chip that shares the SD
\* bus alone.
StrapsKept == [][(holder \in Users)]_straps

\* Both: who moves the straps, and in what order (esp_power_store, set_txirq).
StrapsInOrder == OthersUnsettle /\ StrapsKept

\* The byte the core takes is the byte its read popped.
PoppedIsTaken == bus = "data" => rx_byte = popped
=============================================================================
