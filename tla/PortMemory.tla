----------------------------- MODULE PortMemory -----------------------------
(* What the core's data port is promised: a word memory behind a req/ack    *)
(* handshake, where every request takes effect at one instant, between the  *)
(* clock that shows it and the clock that acknowledges it.  No cache, no     *)
(* arbiter and no device appears here; DCache implements this module.        *)
CONSTANTS Addr, Word, Request, NoReq, Effect(_, _)

VARIABLES
    mem,     \* the memory, Addr -> Word
    creq,    \* what the port shows: a Request, or NoReq
    ack,     \* the port is being acknowledged
    rdata    \* the word that goes with the acknowledgement of a read

vars == <<mem, creq, ack, rdata>>

Init == /\ mem \in [Addr -> Word]
        /\ creq = NoReq
        /\ ack = FALSE
        /\ rdata \in Word

\* The requester raises a request on an idle port.
Raise == /\ creq = NoReq
         /\ ~ack
         /\ creq' \in Request
         /\ UNCHANGED <<mem, ack, rdata>>

\* The request takes effect: a write reaches memory, a read gets its word.
Serve == /\ creq # NoReq
         /\ ~ack
         /\ ack' = TRUE
         /\ IF creq.we THEN /\ mem' = Effect(mem, creq)
                            /\ rdata' \in Word
                       ELSE /\ mem' = mem
                            /\ rdata' = mem[creq.addr]
         /\ creq' = creq

\* The acknowledged requester moves on, at once to its next request or to none.
Finish == /\ ack
          /\ ack' = FALSE
          /\ creq' \in Request \cup {NoReq}
          /\ UNCHANGED <<mem, rdata>>

\* Reset forgets the request; a write in progress may or may not have landed.
Reset == /\ creq' = NoReq
         /\ ack' = FALSE
         /\ \/ mem' = mem
            \/ creq # NoReq /\ creq.we /\ mem' = Effect(mem, creq)
         /\ UNCHANGED rdata

Next == Raise \/ Serve \/ Finish \/ Reset

Spec == Init /\ [][Next]_vars
=============================================================================
