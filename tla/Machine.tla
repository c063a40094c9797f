------------------------------ MODULE Machine -------------------------------
(* The bench: firmware from a green tree is flashed, and the board then boots *)
(* a kernel off the card with the device tree that firmware carries.  After   *)
(* the flash the tree rests: nothing the board does depends on it any more.   *)
EXTENDS Firmware, Card

\* sbi_sd is one of the images of sw/sbi; it includes the device tree, and the
\* build's table says so.
ASSUME MachineAssumption ==
  "sbi_sd" \in ImagesOf("sbi") /\ "koti.dtb" \in Listed["sbi_sd"] \cap Reads["sbi_sd"]

VARIABLE flash     \* the image on the board: empty or one

machineVars == <<fwVars, cardVars, flash>>

MachineInit == FwInit /\ CardInit /\ flash = {}

\* sbi_sd.bin as it stands: dtb is the blob boot_target will find at flash
\* 0x6000, if its magic is there; of is the device tree beside the image.
Flash ==
  /\ flash = {} /\ make = {} /\ FirmwareOk
  /\ \E b \in bin["sbi_sd"] :
       flash' = {[dtb |-> IF b.fdt THEN {b.from["koti.dtb"]} ELSE {},
                  of |-> src["koti.dtb"],
                  clean |-> Touched("sbi") \cap {"sbi_sd", "koti.dtb"} = {}]}
  /\ UNCHANGED <<fwVars, cardVars>>

Workshop == flash = {} /\ FwNext /\ UNCHANGED <<cardVars, flash>>

FlashDtb == UNION {f.dtb : f \in flash}
Bench ==
  /\ flash # {}
  /\ HostNext \/ LoadNext \/ BootTarget(FlashDtb)
  /\ UNCHANGED <<fwVars, flash>>

MachineNext == Workshop \/ Flash \/ Bench
MachineSpec == MachineInit /\ [][MachineNext]_machineVars

----------------------------------------------------------------------------
MachineTypeOK == FwTypeOK /\ CardTypeOK /\ Cardinality(flash) <= 1

\* A kernel that starts is handed the device tree committed beside the firmware
\* that was flashed, not one of an earlier build.
KernelGetsItsTree ==
  \A s \in started : \A f \in flash :
    (s.entry = "kernel" /\ f.clean /\ f.of # 0) => s.dtb = {f.of}
=============================================================================
