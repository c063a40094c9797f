------------------------------- MODULE MCFetch -------------------------------
(* An instance of Fetch: two pages of two words, so that every second word  *)
(* ends a page, one root whose PTE is shared, and a level-0 PTE for each    *)
(* page.  The program rewrites one word of code and one PTE.                *)
EXTENDS Fetch

W(p, o) == [page |-> p, off |-> o]
Root == W(9, 0)
Pte(p) == W(9, 1 + p)
MCLines == {0, 1}
MCIdx(a) == a.off
MCTag(a) == a.page
MCRoots == {"r"}
MCTables == {Root, Pte(0), Pte(1)}
MCWord == {"old", "new", "ptr", "f0", "f1", "bad"}
MCMemories == {[a \in Code \cup MCTables |->
                  CASE a \in Code -> "old" [] a = Root -> root
                    [] a = Pte(0) -> "f1" [] a = Pte(1) -> "f0"] : root \in {"ptr", "f1"}}
MCStores == {[at |-> W(1, 0), val |-> "new"],
             [at |-> Pte(0), val |-> "f0"], [at |-> Pte(0), val |-> "bad"]}
MCTargets == {W(0, 0), W(0, 1)}
MCL1Addr(r, p) == Root
MCL0Addr(w, p) == Pte(p)
MCPteBad(w) == w = "bad"
MCPteLeaf(w) == w \in {"f0", "f1"}
MCPteFault(level, w) == FALSE
MCDenied(p, w) == p = "U" /\ w = "f0"
MCFrame(level, w, p) == IF level = 1 THEN p ELSE IF w = "f0" THEN 0 ELSE 1

\* Page 0 in flash, page 1 in the high half of RAM: the tag has 14 bits, from
\* bit 9 to bit 22, and these two differ in bit 23 alone.
AliasTag(a) == 0
==============================================================================
