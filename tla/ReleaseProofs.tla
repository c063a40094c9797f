---------------------------- MODULE ReleaseProofs ----------------------------
(* PublishedIsCurrent and GreenComesUp for every overlay, every set of slips  *)
(* and edits, and any number of edits and builds.  The invariants follow a    *)
(* fragment version from the checkout of a userspace run, through its record, *)
(* to the Image, and what an archive and an overlay always hold, which no     *)
(* check has to look at.                                                      *)
EXTENDS Release, TLAPS

Busybox(m) == m["bin/busybox"].data.ver

\* A record that tells the truth: its archive's userspace is of its fragment.
BuiltFrom(r) == Busybox(r.cpio.files) = r.frag

OverlayInv ==
  /\ "bin/busybox" \notin DOMAIN overlay
  /\ \A j \in job : "bin/busybox" \notin DOMAIN j.overlay

RecordInv ==
  /\ \A r \in pair.rec : BuiltFrom(r)
  /\ ~byHand => \A r \in rec : BuiltFrom(r)

RelInv == OverlayInv /\ RecordInv /\ PublishedIsCurrent

----------------------------------------------------------------------------
\* Whatever slipped, the busybox in the archive is of the fragment it was built
\* from: the overlay does not reach it (Archive; the userspace workflow).
LEMMA ArchiveVersion ==
  ASSUME NEW o, NEW f, NEW cfg, NEW slip, "bin/busybox" \notin DOMAIN o
  PROVE  Busybox(Archive(o, f, cfg, slip).files) = f
<1> DEFINE g == Generated(f, cfg, slip)
           over == IF "nooverlay" \in slip \/ ~Overlaid(cfg) THEN {} ELSE DOMAIN o
           files == [n \in DOMAIN g \cup over |-> IF n \in over THEN o[n] ELSE g[n]]
<1>1. "bin/busybox" \in DOMAIN g /\ g["bin/busybox"].data.ver = f
  BY DEF Generated, File, Bytes
<1>2. "bin/busybox" \notin over
  OBVIOUS
<1>3. Archive(o, f, cfg, slip).files = files
  BY DEF Archive
<1>4. files["bin/busybox"] = g["bin/busybox"]
  BY <1>1, <1>2
<1> QED
  BY <1>1, <1>3, <1>4 DEF Busybox

\* OverlayNames are the overlay's paths; busybox is none of them.
LEMMA BusyboxIsNoScript == "bin/busybox" \notin OverlayNames
BY OverlayAssumption DEF OverlayNames

\* What the checks before a kernel build leave true of the committed archive:
\* it carries the overlay, and there is a record of it and of the fragment
\* (check_initramfs.py, overlay and provenance sections).
LEMMA CheckedArchive ==
  ASSUME InitramfsBad(cpio, rec, overlay, frag) = {}
  PROVE  /\ \A p \in DOMAIN overlay : p \in DOMAIN cpio.files /\ cpio.files[p].data = overlay[p].data
         /\ \E r \in rec : r.cpio = cpio /\ r.frag = frag
<1>1. OverlayBad(cpio.files, overlay) = {} /\ RecordBad(rec, cpio, frag) = {}
  <2>1. ~cpio.damaged
    BY DEF InitramfsBad
  <2> QED
    BY <2>1 DEF InitramfsBad
<1>2. \A p \in DOMAIN overlay : p \in DOMAIN cpio.files /\ cpio.files[p].data = overlay[p].data
  <2> SUFFICES ASSUME NEW p \in DOMAIN overlay,
                      p \notin DOMAIN cpio.files \/ cpio.files[p].data # overlay[p].data
               PROVE  FALSE
    OBVIOUS
  <2>1. <<"overlay", p>> \in OverlayBad(cpio.files, overlay)
    BY DEF OverlayBad
  <2> QED
    BY <1>1, <2>1
<1>3. rec # {} /\ \A r \in rec : r.cpio = cpio /\ r.frag = frag
  <2>1. rec # {}
    BY <1>1 DEF RecordBad
  <2>2. \A r \in rec : r.cpio = cpio
    BY <1>1, <2>1 DEF RecordBad
  <2>3. \A r \in rec : r.frag = frag
    BY <1>1, <2>1 DEF RecordBad
  <2> QED
    BY <2>1, <2>2, <2>3
<1> QED
  BY <1>2, <1>3

LEMMA RelInvInit == RelInit => RelInv
<1> SUFFICES ASSUME RelInit PROVE RelInv
  OBVIOUS
<1>1. "bin/busybox" \notin DOMAIN overlay
  BY BusyboxIsNoScript DEF RelInit
<1>2. OverlayInv
  BY <1>1 DEF RelInit, OverlayInv
<1>3. Busybox(cpio.files) = 0
  BY <1>1, ArchiveVersion DEF RelInit
<1>4. RecordInv
  BY <1>3 DEF RelInit, RecordInv, BuiltFrom, WriteProvenance
<1>5. PublishedIsCurrent
  BY DEF RelInit, PublishedIsCurrent
<1> QED
  BY <1>2, <1>4, <1>5 DEF RelInv

----------------------------------------------------------------------------
\* An edit changes neither a record nor a published Image.
LEMMA EditKeeps ==
  ASSUME RelInv, Edit, "bin/busybox" \notin DOMAIN overlay'
  PROVE  RelInv'
BY DEF RelInv, OverlayInv, RecordInv, PublishedIsCurrent, Edit, BuiltFrom, Busybox

\* The record a userspace run leaves tells the truth.
LEMMA FinishKeeps ==
  ASSUME RelInv, FinishUserspace
  PROVE  RelInv'
<1>1. PICK j \in job :
        /\ job' = {} /\ image' = {}
        /\ \/ pair' = pair
           \/ \E cfg, slip : pair' = Product(j, cfg, Archive(j.overlay, j.frag, cfg, slip))
        /\ UNCHANGED <<overlay, frag, cpio, rec, byHand, edits, builds>>
  BY DEF FinishUserspace
<1>2. \A r \in pair'.rec : BuiltFrom(r)
  <2>1. CASE pair' = pair
    BY <2>1 DEF RelInv, RecordInv
  <2>2. ASSUME NEW cfg, NEW slip, pair' = Product(j, cfg, Archive(j.overlay, j.frag, cfg, slip))
        PROVE  \A r \in pair'.rec : BuiltFrom(r)
    <3>1. Busybox(Archive(j.overlay, j.frag, cfg, slip).files) = j.frag
      BY ArchiveVersion DEF RelInv, OverlayInv
    <3>2. \A r \in pair'.rec : r = WriteProvenance(Archive(j.overlay, j.frag, cfg, slip), j.frag)
      BY <2>2 DEF Product
    <3> QED
      BY <3>1, <3>2 DEF BuiltFrom, WriteProvenance
  <2> QED
    BY <1>1, <2>1, <2>2
<1>3. RecordInv'
  BY <1>1, <1>2 DEF RelInv, RecordInv, BuiltFrom, Busybox
<1>4. OverlayInv' /\ PublishedIsCurrent'
  BY <1>1 DEF RelInv, OverlayInv, PublishedIsCurrent
<1> QED
  BY <1>3, <1>4 DEF RelInv

\* A green linux run publishes what is committed.
LEMMA BuildKeeps ==
  ASSUME RelInv, BuildLinux
  PROVE  RelInv'
<1>1. PICK which \in {"rootfs", "init"}, cfg \in GreenKernels, h \in Headers :
        /\ which = "rootfs" => InitramfsBad(cpio, rec, overlay, frag) = {}
        /\ \E embedded \in {{}, {IF which = "rootfs" THEN cpio.files ELSE StandIn}} :
             image' = {[which |-> which, cfg |-> cfg, header |-> h, initramfs |-> embedded,
                        overlay |-> overlay, frag |-> frag, byHand |-> byHand]}
        /\ UNCHANGED <<overlay, frag, cpio, rec, byHand, job, pair, edits, builds>>
  BY DEF BuildLinux
<1>2. PICK embedded \in {{}, {IF which = "rootfs" THEN cpio.files ELSE StandIn}} :
        image' = {[which |-> which, cfg |-> cfg, header |-> h, initramfs |-> embedded,
                   overlay |-> overlay, frag |-> frag, byHand |-> byHand]}
  BY <1>1
<1>3. OverlayInv' /\ RecordInv'
  BY <1>1 DEF RelInv, OverlayInv, RecordInv, BuiltFrom, Busybox
<1>4. PublishedIsCurrent'
  <2> SUFFICES ASSUME NEW i \in image', i.which = "rootfs", NEW m \in i.initramfs
               PROVE  /\ \A p \in DOMAIN i.overlay : p \in DOMAIN m /\ m[p].data = i.overlay[p].data
                      /\ ~i.byHand => m["bin/busybox"].data.ver = i.frag
    BY DEF PublishedIsCurrent
  <2>1. /\ i.which = which /\ i.overlay = overlay /\ i.frag = frag /\ i.byHand = byHand
        /\ i.initramfs = embedded
    BY <1>2
  <2>2. which = "rootfs" /\ m = cpio.files
    BY <1>2, <2>1
  <2>3. /\ \A p \in DOMAIN overlay : p \in DOMAIN cpio.files /\ cpio.files[p].data = overlay[p].data
        /\ \E r \in rec : r.cpio = cpio /\ r.frag = frag
    BY <1>1, <2>2, CheckedArchive
  <2>4. ~byHand => cpio.files["bin/busybox"].data.ver = frag
    BY <2>3 DEF RelInv, RecordInv, BuiltFrom, Busybox
  <2> QED
    BY <2>1, <2>2, <2>3, <2>4
<1> QED
  BY <1>3, <1>4 DEF RelInv

LEMMA RelInvStep ==
  ASSUME RelInv, [RelNext]_relVars
  PROVE  RelInv'
<1> USE DEF RelInv
<1>1. CASE EditOverlay
  <2>1. DOMAIN overlay' \subseteq DOMAIN overlay \cup OverlayNames
    BY <1>1 DEF EditOverlay
  <2> QED
    BY <1>1, <2>1, BusyboxIsNoScript, EditKeeps DEF EditOverlay, OverlayInv
<1>2. CASE RemoveOverlay
  BY <1>2, EditKeeps DEF RemoveOverlay, OverlayInv
<1>3. CASE EditFragment
  BY <1>3, EditKeeps DEF EditFragment, OverlayInv
<1>4. CASE StartUserspace
  BY <1>4 DEF StartUserspace, OverlayInv, RecordInv, PublishedIsCurrent, BuiltFrom, Busybox
<1>5. CASE FinishUserspace
  BY <1>5, FinishKeeps
<1>6. CASE CommitCpio
  BY <1>6 DEF CommitCpio, OverlayInv, RecordInv, PublishedIsCurrent, BuiltFrom, Busybox
<1>7. CASE CommitRecord
  BY <1>7 DEF CommitRecord, OverlayInv, RecordInv, PublishedIsCurrent, BuiltFrom, Busybox
<1>8. CASE RecordByHand
  BY <1>8 DEF RecordByHand, OverlayInv, RecordInv, PublishedIsCurrent, BuiltFrom, Busybox
<1>9. CASE BuildLinux
  BY <1>9, BuildKeeps
<1>10. CASE UNCHANGED relVars
  BY <1>10 DEF relVars, OverlayInv, RecordInv, PublishedIsCurrent, BuiltFrom, Busybox
<1> QED
  BY <1>1, <1>2, <1>3, <1>4, <1>5, <1>6, <1>7, <1>8, <1>9, <1>10 DEF RelNext

\* An Image whose checks are green carries the overlay of its commit, and,
\* unless the record was written by hand, a userspace built from its fragment.
THEOREM PublishedIsCurrentAlways == RelSpec => []PublishedIsCurrent
<1>1. RelInv => PublishedIsCurrent
  BY DEF RelInv
<1> QED
  BY RelInvInit, RelInvStep, <1>1, PTL DEF RelSpec
----------------------------------------------------------------------------
\* What is true of an archive whatever slipped, and of a script whatever was
\* edited.
Laid(m) ==
  /\ {"sbin/e2fsck", "etc/network/interfaces"} \subseteq DOMAIN m
  /\ \A p \in {"init", "etc/init.d/S99koti"} \cap DOMAIN m : m[p].kind = "reg"
Scripts(o) ==
  \A p \in DOMAIN o : o[p].kind = "reg" /\ o[p].data = Bytes(o[p].data.ver, o[p].data.has)

LaidInv ==
  /\ Scripts(overlay) /\ \A j \in job : Scripts(j.overlay)
  /\ Laid(cpio.files) /\ \A c \in pair.cpio : Laid(c.files)

GreenInv == LaidInv /\ GreenComesUp

LEMMA ScriptIsScript ==
  ASSUME NEW p \in OverlayNames, NEW v, NEW f \in Versions(p, v)
  PROVE  f.kind = "reg" /\ f.data = Bytes(f.data.ver, f.data.has)
BY DEF Versions, Script, File, Bytes

\* What the configuration check asks of a file it passes, symbol by symbol.
LEMMA Got ==
  ASSUME NEW cfg, NEW required, NotGot(cfg, required) = {}, NEW s, NEW v, <<s, v>> \in required
  PROVE  /\ v # "n?" => s \in DOMAIN cfg /\ cfg[s] = v
         /\ v = "n?" => s \notin DOMAIN cfg \/ cfg[s] = "n"
<1>1. <<s, v>> \notin NotGot(cfg, required)
  OBVIOUS
<1>2. ~(IF <<s, v>>[1] \in DOMAIN cfg
        THEN cfg[<<s, v>>[1]] # (IF <<s, v>>[2] = "n?" THEN "n" ELSE <<s, v>>[2])
        ELSE <<s, v>>[2] # "n?")
  BY <1>1 DEF NotGot
<1> QED
  BY <1>2

LEMMA GreenHasE2fsprogs ==
  ASSUME NEW cfg, NotGot(cfg, RootfsRequired) = {}
  PROVE  IsOn(cfg, "PACKAGE_E2FSPROGS")
<1>1. <<"PACKAGE_E2FSPROGS", "y">> \in RootfsRequired
  BY DEF RootfsRequired
<1> QED
  BY <1>1, Got DEF IsOn

LEMMA AskedHasE2fsprogs == IsOn(Asked(RootfsRequired), "PACKAGE_E2FSPROGS")
<1> DEFINE s == "PACKAGE_E2FSPROGS"
           w == CHOOSE x \in RootfsRequired : x[1] = s
<1>1. <<s, "y">> \in RootfsRequired
  BY DEF RootfsRequired
<1>2. w \in RootfsRequired /\ w[1] = s
  <2>1. \E x \in RootfsRequired : x[1] = s
    BY <1>1
  <2> HIDE DEF s
  <2> QED
    BY <2>1
<1>3. ASSUME NEW x \in RootfsRequired, x[1] = s PROVE x[2] = "y"
  BY <1>3 DEF RootfsRequired
<1>4. w[2] = "y"
  BY <1>2, <1>3
<1>5. s \in {x[1] : x \in RootfsRequired}
  BY <1>2
<1>6. s \in DOMAIN Asked(RootfsRequired)
      /\ Asked(RootfsRequired)[s] = (IF w[2] = "n?" THEN "n" ELSE w[2])
  BY <1>5 DEF Asked
<1> QED
  BY <1>4, <1>6 DEF IsOn

\* A kernel whose configuration check_config.py passes is one koti starts.
LEMMA GreenBoots ==
  ASSUME NEW cfg, KernelConfigBad(cfg) = {}
  PROVE  Boots(cfg)
<1> USE DEF KernelConfigBad
<1>1. ASSUME NEW s \in {"ARCH_RV32I", "32BIT", "MMU", "RISCV_SBI", "RISCV_SBI_V01",
                      "HVC_RISCV_SBI", "RISCV_TIMER", "RISCV_INTC", "SIFIVE_PLIC", "OF",
                      "BLK_DEV_INITRD", "BINFMT_ELF"}
      PROVE  IsOn(cfg, s)
  <2>1. <<s, "y">> \in KernelRequired
    BY DEF KernelRequired
  <2> QED
    BY <2>1, Got DEF IsOn
<1>2. ASSUME NEW s \in {"RISCV_ISA_C", "FPU", "SMP"}
      PROVE  ~IsOn(cfg, s)
  <2>1. <<s, "n">> \in KernelRequired
    BY DEF KernelRequired
  <2>2. cfg[s] = "n"
    BY <2>1, Got
  <2> QED
    BY <2>2 DEF IsOn
<1>3. ~IsOn(cfg, "CMDLINE_FORCE")
  <2>1. <<"CMDLINE_FORCE", "n?">> \in KernelRequired
    BY DEF KernelRequired
  <2>2. "CMDLINE_FORCE" \notin DOMAIN cfg \/ cfg["CMDLINE_FORCE"] = "n"
    BY <2>1, Got
  <2> QED
    BY <2>2 DEF IsOn
<1> QED
  BY <1>1, <1>2, <1>3 DEF Boots

LEMMA ArchiveIsLaid ==
  ASSUME NEW o, NEW f, NEW cfg, NEW slip, Scripts(o), IsOn(cfg, "PACKAGE_E2FSPROGS")
  PROVE  Laid(Archive(o, f, cfg, slip).files)
<1> DEFINE g == Generated(f, cfg, slip)
           over == IF "nooverlay" \in slip \/ ~Overlaid(cfg) THEN {} ELSE DOMAIN o
           files == [n \in DOMAIN g \cup over |-> IF n \in over THEN o[n] ELSE g[n]]
<1>1. Archive(o, f, cfg, slip).files = files
  BY DEF Archive
<1>2. {"sbin/e2fsck", "etc/network/interfaces"} \subseteq DOMAIN g
  BY DEF Generated
<1>3. "init" \in DOMAIN g /\ g["init"].kind = "reg" /\ "etc/init.d/S99koti" \notin DOMAIN g
  BY DEF Generated, File, Bytes
<1> HIDE DEF g
<1>4. \A p \in over : o[p].kind = "reg"
  BY DEF Scripts
<1>5. {"sbin/e2fsck", "etc/network/interfaces"} \subseteq DOMAIN files
  BY <1>2
<1>6. ASSUME NEW p \in {"init", "etc/init.d/S99koti"} \cap DOMAIN files
      PROVE  files[p].kind = "reg"
  BY <1>3, <1>4
<1> QED
  BY <1>1, <1>5, <1>6 DEF Laid

\* What each section of check_initramfs.py says of an archive it passes.
LEMMA MembersGood ==
  ASSUME NEW m, MembersBad(m) = {}
  PROVE  /\ RequiredMembers \subseteq DOMAIN m
         /\ m["dev/console"].kind = "chr"
         /\ \A n \in MustExec : m[n].kind = "reg" => m[n].exec
<1>1. RequiredMembers \subseteq DOMAIN m
  <2> SUFFICES ASSUME NEW n \in RequiredMembers, n \notin DOMAIN m
               PROVE  <<"missing", n>> \in MembersBad(m)
    OBVIOUS
  <2> QED
    BY DEF MembersBad
<1>2. m["dev/console"].kind = "chr"
  <2> SUFFICES ASSUME m["dev/console"].kind # "chr"
               PROVE  <<"not a device", "dev/console">> \in MembersBad(m)
    OBVIOUS
  <2> QED
    BY <1>1 DEF MembersBad, RequiredMembers
<1>3. ASSUME NEW n \in MustExec, m[n].kind = "reg", ~m[n].exec
      PROVE  FALSE
  <2>1. n \in DOMAIN m
    BY <1>1 DEF RequiredMembers, MustExec
  <2>2. <<"not executable", n>> \in MembersBad(m)
    BY <1>3, <2>1 DEF MembersBad
  <2> QED
    BY <2>2
<1> QED
  BY <1>1, <1>2, <1>3

LEMMA InitGood ==
  ASSUME NEW m, "init" \in DOMAIN m, InitBad(m) = {}
  PROVE  "shebang" \in m["init"].data.has /\ "cr" \notin m["init"].data.has
<1> DEFINE has == m["init"].data.has
<1>1. InitBad(m) = {<<"init lacks", k>> : k \in {"switch_root", "ram", "shebang"} \ has}
                   \cup {<<"init has", k>> : k \in {"cr"} \cap has}
  BY DEF InitBad
<1> HIDE DEF has
<1>2. "shebang" \notin has => <<"init lacks", "shebang">> \in InitBad(m)
  BY <1>1
<1>3. "cr" \in has => <<"init has", "cr">> \in InitBad(m)
  BY <1>1
<1> QED
  BY <1>2, <1>3 DEF has

LEMMA ElvesGood ==
  ASSUME NEW m, ElfBad(m) = {}
  PROVE  \A n \in DOMAIN m : IsElf(m[n]) => CannotRun(m[n]) = {}
<1> SUFFICES ASSUME NEW n \in DOMAIN m, IsElf(m[n]), CannotRun(m[n]) # {}
             PROVE  <<"cannot execute", n>> \in ElfBad(m)
  OBVIOUS
<1> QED
  BY DEF ElfBad

LEMMA ConsolesGood ==
  ASSUME NEW m, {"etc/inittab", "etc/network/interfaces"} \subseteq DOMAIN m,
         IfacesBad(m) = {}, InittabBad(m) = {}
  PROVE  /\ m["etc/network/interfaces"].data.has \subseteq {"lo"}
         /\ {"tty1", "hvc0"} \subseteq m["etc/inittab"].data.has
<1>1. ASSUME NEW i \in m["etc/network/interfaces"].data.has, i # "lo"
      PROVE  <<"iface", i>> \in IfacesBad(m)
  BY <1>1 DEF IfacesBad
<1>2. ASSUME NEW c \in {"tty1", "hvc0"}, c \notin m["etc/inittab"].data.has
      PROVE  <<"no getty", c>> \in InittabBad(m)
  BY <1>2 DEF InittabBad
<1> QED
  BY <1>1, <1>2

\* An archive that passes, and that the Image holds with the overlay's line
\* endings, comes up.
LEMMA GreenArchive ==
  ASSUME LaidInv, InitramfsBad(cpio, rec, overlay, frag) = {},
         ImageInitramfsOk({cpio.files}, overlay),
         {"init", "etc/init.d/S99koti"} \subseteq DOMAIN overlay,
         "shebang" \in overlay["etc/init.d/S99koti"].data.has
  PROVE  ComesUp(cpio.files)
<1> DEFINE m == cpio.files
           S == "etc/init.d/S99koti"
<1>1. /\ MembersBad(m) = {} /\ MarkerBad(m) = {} /\ InitBad(m) = {} /\ ElfBad(m) = {}
      /\ IfacesBad(m) = {} /\ InittabBad(m) = {} /\ ShellBad(overlay) = {}
  <2>1. ~cpio.damaged
    BY DEF InitramfsBad
  <2> QED
    BY <2>1 DEF InitramfsBad
<1>2. \A p \in DOMAIN overlay : m[p].data = overlay[p].data /\ m[p].data = Lf(overlay[p].data)
  BY CheckedArchive DEF ImageInitramfsOk
<1>3. Laid(m) /\ Scripts(overlay)
  BY DEF LaidInv
<1> HIDE DEF m
<1>4. /\ RequiredMembers \subseteq DOMAIN m /\ m["dev/console"].kind = "chr"
      /\ \A n \in MustExec : m[n].kind = "reg" => m[n].exec
  BY <1>1, MembersGood
<1>5. "shebang" \in m["init"].data.has /\ "cr" \notin m["init"].data.has
  BY <1>1, <1>4, InitGood DEF RequiredMembers
<1>6. "noparse" \notin m["init"].data.has /\ "noparse" \notin m[S].data.has
  <2> SUFFICES ASSUME NEW p \in {"init", S}, "noparse" \in overlay[p].data.has
               PROVE  <<"does not parse", p>> \in ShellBad(overlay)
    BY <1>1, <1>2
  <2>1. p \in DOMAIN overlay /\ {"shebang", "noparse"} \subseteq overlay[p].data.has
    BY <1>2, <1>5
  <2> QED
    BY <2>1 DEF ShellBad
<1>7. "cr" \notin m[S].data.has
  BY <1>2, <1>3 DEF Lf, Scripts, Bytes
<1>8. "marker" \in m[S].data.has
  <2> SUFFICES ASSUME "marker" \notin m[S].data.has
               PROVE  <<"no marker", S>> \in MarkerBad(m)
    BY <1>1
  <2> QED
    BY <1>4 DEF MarkerBad, RequiredMembers
<1>9. Runs(m, "init") /\ Runs(m, S)
  BY <1>3, <1>4, <1>5, <1>6, <1>7 DEF Runs, Laid, RequiredMembers, MustExec
<1>10. \A n \in DOMAIN m : IsElf(m[n]) => CannotRun(m[n]) = {}
  BY <1>1, ElvesGood
<1>11. /\ m["etc/network/interfaces"].data.has \subseteq {"lo"}
       /\ {"tty1", "hvc0"} \subseteq m["etc/inittab"].data.has
  BY <1>1, <1>3, <1>4, ConsolesGood DEF Laid, RequiredMembers
<1>12. {"bin/busybox", "sbin/init", "sbin/e2fsck"} \subseteq DOMAIN m
  BY <1>3, <1>4 DEF Laid, RequiredMembers
<1> QED
  BY <1>4, <1>5, <1>8, <1>9, <1>10, <1>11, <1>12 DEF ComesUp, m

LEMMA LaidStep ==
  ASSUME LaidInv, [RelNext]_relVars
  PROVE  LaidInv'
<1> USE DEF LaidInv
<1>1. CASE EditOverlay
  <2>1. PICK p \in OverlayNames : \E f \in Versions(p, edits + 1) :
          overlay' = [n \in DOMAIN overlay \cup {p} |-> IF n = p THEN f ELSE overlay[n]]
    BY <1>1 DEF EditOverlay
  <2>2. Scripts(overlay')
    BY <2>1, ScriptIsScript DEF Scripts
  <2> QED
    BY <1>1, <2>2 DEF EditOverlay, Edit
<1>2. CASE RemoveOverlay
  BY <1>2 DEF RemoveOverlay, Edit, Scripts
<1>3. CASE EditFragment
  BY <1>3 DEF EditFragment, Edit
<1>4. CASE StartUserspace
  BY <1>4 DEF StartUserspace
<1>5. CASE FinishUserspace
  <2>1. PICK j \in job :
          /\ job' = {}
          /\ \/ pair' = pair
             \/ \E cfg \in GreenRootfs : \E slip :
                  pair' = Product(j, cfg, Archive(j.overlay, j.frag, cfg, slip))
          /\ UNCHANGED <<overlay, frag, cpio, rec, byHand, edits, builds>>
    BY <1>5 DEF FinishUserspace
  <2>2. \A cfg \in GreenRootfs : IsOn(cfg, "PACKAGE_E2FSPROGS")
    BY GreenHasE2fsprogs DEF GreenRootfs
  <2>3. \A c \in pair'.cpio : Laid(c.files)
    BY <2>1, <2>2, ArchiveIsLaid DEF Product
  <2> QED
    BY <2>1, <2>3
<1>6. CASE CommitCpio
  BY <1>6 DEF CommitCpio
<1>7. CASE CommitRecord \/ RecordByHand \/ BuildLinux \/ UNCHANGED relVars
  BY <1>7 DEF CommitRecord, RecordByHand, BuildLinux, relVars
<1> QED
  BY <1>1, <1>2, <1>3, <1>4, <1>5, <1>6, <1>7 DEF RelNext

LEMMA GreenBuild ==
  ASSUME LaidInv, BuildLinux
  PROVE  GreenComesUp'
<1>1. PICK which \in {"rootfs", "init"}, cfg \in GreenKernels, h \in Headers :
        /\ which = "rootfs" => InitramfsBad(cpio, rec, overlay, frag) = {}
        /\ ImageOk(h)
        /\ \E embedded \in {{}, {IF which = "rootfs" THEN cpio.files ELSE StandIn}} :
             /\ which = "rootfs" => ImageInitramfsOk(embedded, overlay)
             /\ image' = {[which |-> which, cfg |-> cfg, header |-> h, initramfs |-> embedded,
                           overlay |-> overlay, frag |-> frag, byHand |-> byHand]}
  BY DEF BuildLinux
<1>2. PICK embedded \in {{}, {IF which = "rootfs" THEN cpio.files ELSE StandIn}} :
        /\ which = "rootfs" => ImageInitramfsOk(embedded, overlay)
        /\ image' = {[which |-> which, cfg |-> cfg, header |-> h, initramfs |-> embedded,
                      overlay |-> overlay, frag |-> frag, byHand |-> byHand]}
  BY <1>1
<1>3. which = "rootfs" => embedded = {cpio.files} /\ embedded # {}
  BY <1>2 DEF ImageInitramfsOk
<1>4. {"init", "etc/init.d/S99koti"} \subseteq OverlayNames \ Extra
  BY OverlayAssumption DEF OverlayNames
<1>5. which = "rootfs" /\ BootScripts(overlay) => ComesUp(cpio.files)
  BY <1>1, <1>2, <1>3, <1>4, GreenArchive DEF BootScripts
<1>6. h.magic2 = "RSC5" /\ KERNEL_ADDR + h.image_size <= RAM_BASE + RAM_SIZE
  <2>1. h.image_size \in Nat
    BY DEF Headers, HEADROOM, RAM_BASE, RAM_SIZE, KERNEL_ADDR
  <2> QED
    BY <1>1, <2>1 DEF ImageOk, HEADROOM, RAM_BASE, RAM_SIZE, KERNEL_ADDR
<1>7. Boots(cfg)
  BY GreenBoots DEF GreenKernels
<1> QED
  BY <1>2, <1>3, <1>5, <1>6, <1>7 DEF GreenComesUp

\* GreenComesUp: an Image of a green run has a configuration koti's core and
\* firmware can start, is the kernel's and fits RAM, and, unless it carries the
\* stand-in, its initramfs brings the machine up, as long as the overlay still has
\* its two scripts and S99koti its first line (check_config.py, check_image.py and
\* the sections of check_initramfs.py together, over any faults of any script).
THEOREM GreenImagesComeUp == RelSpec => []GreenComesUp
<1>1. RelInit => GreenInv
  <2> SUFFICES ASSUME RelInit PROVE GreenInv
    OBVIOUS
  <2>1. Scripts(overlay)
    BY DEF RelInit, Scripts, Script, File, Bytes
  <2>2. Laid(cpio.files)
    BY <2>1, ArchiveIsLaid, AskedHasE2fsprogs DEF RelInit
  <2> QED
    BY <2>1, <2>2 DEF RelInit, GreenInv, LaidInv, GreenComesUp
<1>2. GreenInv /\ [RelNext]_relVars => GreenInv'
  <2> SUFFICES ASSUME GreenInv, [RelNext]_relVars PROVE GreenInv'
    OBVIOUS
  <2>1. CASE BuildLinux
    BY <2>1, LaidStep, GreenBuild DEF GreenInv
  <2>2. CASE image' = {} \/ UNCHANGED image
    BY <2>2, LaidStep DEF GreenInv, GreenComesUp
  <2>3. CASE ~BuildLinux
    BY <2>2, <2>3 DEF RelNext, relVars, EditOverlay, RemoveOverlay, EditFragment, Edit,
       StartUserspace, FinishUserspace, CommitCpio, CommitRecord, RecordByHand
  <2> QED
    BY <2>1, <2>3
<1>3. GreenInv => GreenComesUp
  BY DEF GreenInv
<1> QED
  BY <1>1, <1>2, <1>3, PTL DEF RelSpec
===============================================================================
