------------------------------ MODULE MCMemBus ------------------------------
(* A small instance of MemBus: three words per device, and for each port     *)
(* words that no other port asks for, of both devices but for the picture,   *)
(* whose buffer lies in SDRAM.                                               *)
EXTENDS MemBus

Ram(i) == [ram |-> TRUE, w |-> i]
Flash(i) == [ram |-> FALSE, w |-> i]
MCVAddr == {Ram(0)}
MCDAddr == {Ram(1), Flash(1)}
MCFAddr == {Ram(2), Flash(2)}
=============================================================================
