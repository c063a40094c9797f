--------------------------- MODULE MCInterrupts ---------------------------
(* An instance of Interrupts: the two lines that are wired, the keyboard's   *)
(* and the link's, at the priority the kernel's driver gives every source.   *)
EXTENDS Interrupts

MCPriority == [s \in Sources |-> 1]
=============================================================================
