----------------------------- MODULE MCNetFetch -----------------------------
(* Two fetches in a row, of names one character apart: what is left of the    *)
(* longer one after a loss has the length of the shorter.  And one fetch that *)
(* is damaged twice, one on each network that does not work, and one with a   *)
(* line that never arrives.                                                   *)
EXTENDS NetFetch
MCLens == <<4, 5>>
World(n, d, k, m) == [net |-> n, dhcp |-> d, hard |-> k, most |-> m]
MCWorlds ==
  {World("ok", TRUE, "none", <<1, 1>>), World("long", FALSE, "none", <<2>>)}
  \cup {World(n, FALSE, "none", <<1>>) : n \in {"refuse", "down", "nojoin"}}
  \cup {World("long", TRUE, k, <<0, 0>>) : k \in {"up", "a", "BEGIN"}}
=============================================================================
