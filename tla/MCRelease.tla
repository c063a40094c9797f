------------------------------ MODULE MCRelease ------------------------------
EXTENDS Release
MCExtra == {"usr/bin/koti-net"}
MCToggles ==
  [p \in OverlayNames |->
     CASE p = "init" -> {"noparse"}
       [] p = "etc/init.d/S99koti" -> {"shebang", "noparse", "cr"}
       [] OTHER -> {"split"}]
MCSlips == {"big", "damaged", "flags", "eth0", "tty1", "nooverlay"}
=============================================================================
