----------------------------- MODULE MCCorePort -----------------------------
(* An instance of CorePort in both modes.  Under the MMU: a root word with  *)
(* the level-1 PTE, a table with a level-0 PTE for each of two pages, and a *)
(* data word; page p1 maps to the data, p2 to p1's own PTE, so that the     *)
(* program edits its page table as the kernel does.  In M mode: the same    *)
(* two words directly, and a device register.                               *)
EXTENDS CorePort

MCPages == {"p1", "p2", "io"}
MCAddr == {"root", "pte1", "pte2", "data", "io"}
MCIO == {"io"}
MCWord == {"zero", "ptr", "leaf"}
MCMemories(on) ==
    {[a \in MCAddr |-> CASE a = "root" -> r
                         [] a \in {"pte1", "pte2"} -> IF on THEN "leaf" ELSE "zero"
                         [] a \in {"data", "io"} -> "zero"] :
        r \in IF on THEN MCWord ELSE {"zero"}}
MCL1Addr(p) == "root"
MCL0Addr(w, p) == IF p = "p1" THEN "pte1" ELSE "pte2"
MCPteBad(w) == w = "zero"
MCPteLeaf(w) == w = "leaf"
MCPteFault(level, w) == FALSE
MCPhys(w, p) == IF p = "p1" THEN "data" ELSE "pte1"
MCDirect(p) == CASE p = "p1" -> "data" [] p = "p2" -> "pte1" [] p = "io" -> "io"
MCAmoNew(old, st) == IF old = "zero" THEN "leaf" ELSE "zero"

Instr(op, p, st) == [op |-> op, page |-> p, st |-> st]
MCProgram(on) ==
    IF on
    THEN {Bubble, [op |-> "sfence"]}
         \cup {Instr(op, p, "zero") : op \in {"load", "store", "amo"}, p \in {"p1", "p2"}}
    ELSE {Bubble, [op |-> "md"], Instr("sc", "p2", "leaf")}
         \cup {Instr(op, "p1", "zero") : op \in {"load", "amo", "lr"}}
         \cup {Instr(op, "p1", "leaf") : op \in {"store", "sc"}}
         \cup {Instr(op, "io", "zero") : op \in {"load", "store"}}
=============================================================================
