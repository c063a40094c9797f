-------------------------------- MODULE Gates --------------------------------
(* The checks that stand between the sources and the machine, as the sets of *)
(* complaints they collect: a check passes when its set is empty.  A file is *)
(* its kind, its execute bit and its bytes; of the bytes a check reads a few *)
(* facts ("shebang", "cr", ...), and two files are equal when both their     *)
(* version and these facts are.  A hash is the value it is taken of.         *)
EXTENDS Naturals, FiniteSets

\* check_rootfs.py and check_initramfs.py: the size budget, 2.5 MiB.
MAX_CPIO_BYTES == 2560 * 1024

Bytes(v, facts) == [ver |-> v, has |-> facts]
File(k, x, b) == [kind |-> k, exec |-> x, data |-> b]

----------------------------------------------------------------------------
(* kconfig: a configuration maps the symbols the file mentions to values,    *)
(* "n" standing for "is not set"; an absent symbol is not in its domain.     *)
NotGot(cfg, required) ==
  {w \in required :
     IF w[1] \in DOMAIN cfg
     THEN cfg[w[1]] # (IF w[2] = "n?" THEN "n" ELSE w[2])
     ELSE w[2] # "n?"}

IsOn(cfg, s) == s \in DOMAIN cfg /\ cfg[s] = "y"

RootfsRequired ==
  ({"riscv", "RISCV_32", "RISCV_USE_MMU", "RISCV_ISA_RVM", "RISCV_ISA_RVA",
    "RISCV_ABI_ILP32", "TARGET_ROOTFS_CPIO", "TOOLCHAIN_BUILDROOT_MUSL",
    "STATIC_LIBS", "PACKAGE_E2FSPROGS"} \X {"y"})
  \cup ({"RISCV_ISA_RVC", "RISCV_ISA_RVF", "LINUX_KERNEL", "TARGET_OPENSBI"} \X {"n"})
  \cup {<<"RISCV_ISA_RVD", "n?">>, <<"ROOTFS_OVERLAY", "../sw/linux/rootfs-overlay">>}

KernelRequired ==
  ({"ARCH_RV32I", "32BIT", "NONPORTABLE", "MMU", "RISCV_SBI", "RISCV_SBI_V01",
    "HVC_RISCV_SBI", "SERIAL_EARLYCON_RISCV_SBI", "RISCV_TIMER", "RISCV_INTC",
    "SIFIVE_PLIC", "CRYPTO", "CRYPTO_MANAGER_DISABLE_TESTS", "OF",
    "BLK_DEV_INITRD", "BINFMT_ELF", "I2C", "I2C_ALGOBIT", "I2C_KOTI",
    "I2C_CHARDEV", "RTC_CLASS", "RTC_DRV_DS1307", "RTC_HCTOSYS", "REGMAP_I2C",
    "PRINTK", "PRINTK_TIME"} \X {"y"})
  \cup ({"RISCV_ISA_C", "EFI", "FPU", "SMP", "STRICT_KERNEL_RWX"} \X {"n"})
  \cup {<<"CMDLINE", "">>, <<"CMDLINE_FORCE", "n?">>, <<"RTC_HCTOSYS_DEVICE", "rtc0">>}

\* (Mutant: only the symbols the file mentions are looked at.)
MentionedBad(cfg) == {w \in NotGot(cfg, KernelRequired) : w[1] \in DOMAIN cfg}
KernelConfigBad(cfg) == NotGot(cfg, KernelRequired)

----------------------------------------------------------------------------
(* check_rootfs.py: an ELF that is not ELF32, not RISC-V, or has e_flags.    *)
IsElf(f) == f.kind = "reg" /\ "elf" \in f.data.has
CannotRun(f) == f.data.has \cap {"elf64", "machine", "flags"}

\* The run with --cpio: configuration, binaries, size, and at least one ELF.
RootfsOk(cfg, binaries, size) ==
  /\ NotGot(cfg, RootfsRequired) = {}
  /\ \E b \in binaries : IsElf(b)
  /\ \A b \in binaries : IsElf(b) => CannotRun(b) = {}
  /\ size <= MAX_CPIO_BYTES

----------------------------------------------------------------------------
(* check_initramfs.py, section by section; m maps the archive's member names *)
(* to files, overlay the working tree's overlay paths to files.              *)
RequiredMembers ==
  {"init", "sbin/init", "sbin/switch_root", "bin/busybox", "etc/inittab",
   "etc/init.d/S99koti", "dev/console"}
MustExec == {"init", "bin/busybox", "etc/init.d/S99koti"}

SizeBad(size) == IF size <= MAX_CPIO_BYTES THEN {} ELSE {<<"size">>}

MembersBad(m) ==
  {<<"missing", n>> : n \in RequiredMembers \ DOMAIN m}
  \cup {<<"not a device", n>> :
          n \in {x \in {"dev/console"} \cap DOMAIN m : m[x].kind # "chr"}}
  \cup {<<"not executable", n>> :
          n \in {x \in MustExec \cap DOMAIN m : m[x].kind = "reg" /\ ~m[x].exec}}

MarkerBad(m) ==
  {<<"no marker", n>> :
     n \in {x \in {"etc/init.d/S99koti"} \cap DOMAIN m : "marker" \notin m[x].data.has}}

InitBad(m) ==
  IF "init" \notin DOMAIN m THEN {}
  ELSE LET has == m["init"].data.has
       IN  {<<"init lacks", k>> : k \in {"switch_root", "ram", "shebang"} \ has}
           \cup {<<"init has", k>> : k \in {"cr"} \cap has}

ElfBad(m) ==
  {<<"cannot execute", n>> :
     n \in {x \in DOMAIN m : IsElf(m[x]) /\ CannotRun(m[x]) # {}}}

IfacesBad(m) ==
  IF "etc/network/interfaces" \notin DOMAIN m THEN {}
  ELSE {<<"iface", i>> : i \in m["etc/network/interfaces"].data.has \ {"lo"}}

\* (Mutant: a getty on either console will do.)
AnyGetty(m) ==
  IF "etc/inittab" \notin DOMAIN m \/ {"tty1", "hvc0"} \cap m["etc/inittab"].data.has # {} THEN {}
  ELSE {<<"no getty">>}
InittabBad(m) ==
  IF "etc/inittab" \notin DOMAIN m THEN {}
  ELSE {<<"no getty", p>> : p \in {"tty1", "hvc0"} \ m["etc/inittab"].data.has}

OverlayBad(m, overlay) ==
  {<<"overlay", p>> : p \in {x \in DOMAIN overlay :
     x \notin DOMAIN m \/ m[x].data # overlay[x].data}}

\* `sh -n`, only on files whose first line names a shell.
ShellBad(overlay) ==
  {<<"does not parse", p>> : p \in {x \in DOMAIN overlay :
     {"shebang", "noparse"} \subseteq overlay[x].data.has}}

\* A send argument across a newline; a send echo wider than the FIFO.
SplitBad(overlay) ==
  {<<"send spans a newline", p>> :
     p \in {x \in DOMAIN overlay : "split" \in overlay[x].data.has}}
FatBad(overlay) ==
  {<<"echo over 64", p>> :
     p \in {x \in DOMAIN overlay : "fat" \in overlay[x].data.has}}

\* rec is the empty set when there is no record beside the archive.
\* (Mutant: the fragment's hash is not compared.)
RecordBadOnlyCpio(rec, cpio, frag) ==
  IF rec = {} THEN {<<"no record">>}
  ELSE IF \A r \in rec : r.cpio = cpio THEN {} ELSE {<<"cpio hash">>}
RecordBad(rec, cpio, frag) ==
  IF rec = {} THEN {<<"no record">>}
  ELSE (IF \A r \in rec : r.cpio = cpio THEN {} ELSE {<<"cpio hash">>})
       \cup (IF \A r \in rec : r.frag = frag THEN {} ELSE {<<"fragment hash">>})

\* --write-provenance: what the record says, whoever runs it.  (It lists the
\* overlay's hashes too; nothing ever reads them.)
WriteProvenance(cpio, frag) == [cpio |-> cpio, frag |-> frag]

\* The whole check of a committed archive; a damaged one is refused at once.
InitramfsBad(cpio, rec, overlay, frag) ==
  IF cpio.damaged THEN {<<"archive">>}
  ELSE SizeBad(cpio.size) \cup MembersBad(cpio.files) \cup MarkerBad(cpio.files)
       \cup InitBad(cpio.files) \cup ElfBad(cpio.files) \cup IfacesBad(cpio.files)
       \cup InittabBad(cpio.files) \cup OverlayBad(cpio.files, overlay)
       \cup ShellBad(overlay) \cup SplitBad(overlay) \cup FatBad(overlay)
       \cup RecordBad(rec, cpio, frag)

----------------------------------------------------------------------------
(* check_image.py: the boot contract of a kernel Image.                      *)
RAM_BASE == 16777216              \* 0x0100_0000
RAM_SIZE == 33554432              \* 0x0200_0000
KERNEL_ADDR == 20971520           \* 0x0140_0000
HEADROOM == RAM_BASE + RAM_SIZE - KERNEL_ADDR
ImageOk(h) ==
  /\ h.len >= 64
  /\ h.magic2 = "RSC5"
  /\ ~h.big
  /\ RAM_BASE + h.text_offset = KERNEL_ADDR
  /\ h.image_size <= HEADROOM
  /\ KERNEL_ADDR % (4 * 1024 * 1024) = 0

(* check_image_initramfs.py: the overlay inside the Image, the tree's line   *)
(* endings normalised, the Image's as they are.                              *)
Lf(b) == [b EXCEPT !.has = @ \ {"cr"}]
ImageInitramfsOk(embedded, overlay) ==
  /\ embedded # {}
  /\ DOMAIN overlay # {}
  /\ \A m \in embedded : \A p \in DOMAIN overlay :
       p \in DOMAIN m /\ m[p].data = Lf(overlay[p].data)
=============================================================================
