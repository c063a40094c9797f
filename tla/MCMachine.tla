------------------------------ MODULE MCMachine ------------------------------
EXTENDS Machine
MCSources == {"koti.h", "koti.dtb", "sdboot.c", "usbkbd.h"}
MCIMAGES == [t \in {"sw", "sbi"} |-> IF t = "sw" THEN <<"hello">> ELSE <<"sbi_test", "sbi_sd">>]
MCListed == [i \in {"hello", "sbi_test", "sbi_sd"} |->
  CASE i = "hello" -> {"koti.h"}
    [] i = "sbi_test" -> {"koti.h", "koti.dtb"}
    [] i = "sbi_sd" -> {"koti.h", "koti.dtb", "sdboot.c"}]
MCReads == [i \in {"hello", "sbi_test", "sbi_sd"} |->
  IF i = "sbi_sd" THEN MCListed[i] \cup {"usbkbd.h"} ELSE MCListed[i]]
MCKernels == {<<>>, <<1, 2>>, <<1, 0>>, <<1, 1, 2>>, <<1, 1, 1, 1>>}
MCFsImages == {<<2>>}

\* Once the board is flashed the tree no longer moves and nothing reads it: the
\* states that differ only there are one.
MCView == IF flash = {} THEN machineVars ELSE <<cardVars, flash>>
=============================================================================
