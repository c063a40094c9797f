------------------------------- MODULE Release -------------------------------
(* From an edit to a kernel Image: the working tree, the two workflows that  *)
(* build from it, and the artefacts committed in between.                    *)
(*                                                                           *)
(* The userspace archive and the record beside it are build products kept in *)
(* the repository.  A workflow run works on the tree as it was checked out;  *)
(* meanwhile the tree moves on, and its products come back one by one.       *)
EXTENDS Gates

CONSTANTS
  Extra,        \* overlay files beside /init and S99koti
  Toggles,      \* [overlay file -> facts an edit may add to or take from it]
  Slips,        \* what Buildroot may get wrong
  MaxEdits,     \* bound: edits of the tree
  MaxBuilds     \* bound: runs of the userspace workflow

ASSUME BoundsAssumption == MaxEdits \in Nat /\ MaxBuilds \in Nat
\* The overlay holds scripts; busybox comes from Buildroot alone.
ASSUME OverlayAssumption ==
  Extra \cap {"bin/busybox", "init", "etc/init.d/S99koti"} = {}

VARIABLES
  overlay,   \* sw/linux/rootfs-overlay
  frag,      \* sw/linux/buildroot_koti.fragment, by version
  cpio,      \* sw/linux/rootfs.cpio, as committed
  rec,       \* sw/linux/rootfs.provenance, as committed: empty or one record
  byHand,    \* observation: rec was last written without a build
  job,       \* the checkout of a userspace run under way: empty or one
  pair,      \* the artefact of the last userspace run
  image,     \* observation: the Image of a green linux run, just built: empty or one
  edits, builds

relVars == <<overlay, frag, cpio, rec, byHand, job, pair, image, edits, builds>>

OverlayNames == {"init", "etc/init.d/S99koti"} \cup Extra
Facts(p) == CASE p = "init" -> {"shebang", "switch_root", "ram"}
              [] p = "etc/init.d/S99koti" -> {"shebang", "marker"}
              [] OTHER -> {"shebang"}
Script(p, v, toggled, x) ==
  File("reg", x, Bytes(v, (Facts(p) \ toggled) \cup (toggled \ Facts(p))))

\* What an edit may leave behind: any of the file's facts changed, the execute
\* bit kept or lost.
Versions(p, v) == {Script(p, v, t, x) : t \in SUBSET Toggles[p], x \in BOOLEAN}

----------------------------------------------------------------------------
(* Buildroot: `make olddefconfig` may drop a symbol, the build may slip.     *)
Asked(required) ==
  [s \in {w[1] : w \in required} |->
     LET v == (CHOOSE w \in required : w[1] = s)[2] IN IF v = "n?" THEN "n" ELSE v]
Resolved(required) ==
  LET good == Asked(required)
      d == DOMAIN good
  IN  {good} \cup {[s \in d \ {x} |-> good[s]] : x \in d}
      \cup {[good EXCEPT ![x] = IF @ = "n" THEN "y" ELSE "n"] : x \in d}

\* What a configuration does to every binary, and to the archive.
ElfFacts(cfg) ==
  {"elf"} \cup (IF IsOn(cfg, "RISCV_32") THEN {} ELSE {"elf64"})
  \cup (IF \E s \in {"RISCV_ISA_RVC", "RISCV_ISA_RVF", "RISCV_ISA_RVD"} : IsOn(cfg, s)
       THEN {"flags"} ELSE {})
Overlaid(cfg) ==
  "ROOTFS_OVERLAY" \in DOMAIN cfg /\ cfg["ROOTFS_OVERLAY"] = "../sw/linux/rootfs-overlay"

Generated(f, cfg, slip) ==
  LET elf == Bytes(f, ElfFacts(cfg) \cup (slip \cap {"elf64", "machine", "flags"}))
      names == {"sbin/init", "bin/busybox",
                "etc/inittab", "etc/network/interfaces", "dev/console", "init"}
               \cup (IF "noswitchroot" \in slip THEN {} ELSE {"sbin/switch_root"})
               \cup (IF IsOn(cfg, "PACKAGE_E2FSPROGS") THEN {"sbin/e2fsck"} ELSE {})
  IN  [n \in names |->
         CASE n = "etc/inittab" -> File("reg", FALSE, Bytes(f, {"tty1", "hvc0"} \ slip))
           [] n = "etc/network/interfaces" -> File("reg", FALSE, Bytes(f, {"lo"} \cup (slip \cap {"eth0"})))
           [] n = "dev/console" -> File(IF "plain" \in slip THEN "reg" ELSE "chr", FALSE, Bytes(f, {}))
           [] n = "init" -> File("reg", TRUE, Bytes(f, {"shebang"}))
           [] OTHER -> File("reg", TRUE, elf)]

\* The archive: what Buildroot generates, overlaid unless the overlay slipped.
Archive(o, f, cfg, slip) ==
  LET g == Generated(f, cfg, slip)
      over == IF "nooverlay" \in slip \/ ~Overlaid(cfg) THEN {} ELSE DOMAIN o
  IN  [damaged |-> "damaged" \in slip,
       size |-> IF "big" \in slip THEN 7382000 ELSE 2502656,
       files |-> [n \in DOMAIN g \cup over |-> IF n \in over THEN o[n] ELSE g[n]]]

RelInit ==
  /\ overlay = [p \in OverlayNames |-> Script(p, 0, {}, TRUE)]
  /\ frag = 0
  /\ cpio = Archive(overlay, 0, Asked(RootfsRequired), {})
  /\ rec = {WriteProvenance(cpio, 0)} /\ byHand = FALSE
  /\ job = {} /\ pair = [cpio |-> {}, rec |-> {}] /\ image = {}
  /\ edits = 0 /\ builds = 0

----------------------------------------------------------------------------
Edit ==
  /\ edits < MaxEdits /\ edits' = edits + 1
  /\ image' = {}
  /\ UNCHANGED <<cpio, rec, byHand, job, pair, builds>>

EditOverlay ==
  /\ Edit
  /\ \E p \in OverlayNames : \E f \in Versions(p, edits + 1) :
       overlay' = [n \in DOMAIN overlay \cup {p} |-> IF n = p THEN f ELSE overlay[n]]
  /\ UNCHANGED frag

RemoveOverlay ==
  /\ Edit
  /\ \E p \in DOMAIN overlay : overlay' = [n \in DOMAIN overlay \ {p} |-> overlay[n]]
  /\ UNCHANGED frag

EditFragment ==
  /\ Edit
  /\ frag' = edits + 1
  /\ UNCHANGED overlay

\* The userspace workflow is started on the tree as it stands.
StartUserspace ==
  /\ job = {} /\ builds < MaxBuilds
  /\ job' = {[overlay |-> overlay, frag |-> frag]} /\ builds' = builds + 1
  /\ image' = {}
  /\ UNCHANGED <<overlay, frag, cpio, rec, byHand, pair, edits>>

GreenRootfs == {cfg \in Resolved(RootfsRequired) : NotGot(cfg, RootfsRequired) = {}}
UserspaceOk(cfg, c) ==
  /\ RootfsOk(cfg, {c.files[n] : n \in {x \in DOMAIN c.files : IsElf(c.files[x])}}, c.size)
  /\ "etc/init.d/S99koti" \in DOMAIN c.files
  /\ c.files["etc/init.d/S99koti"].exec /\ MarkerBad(c.files) = {}

\* A wrong configuration stops the run before the build.  After it the archive
\* is uploaded whether the later steps pass or not, and the record with it if
\* the run came as far as writing one: an archive that cannot be read has none.
Product(j, cfg, c) ==
  [cpio |-> {c},
   rec |-> IF UserspaceOk(cfg, c) /\ ~c.damaged THEN {WriteProvenance(c, j.frag)} ELSE {}]
FinishUserspace ==
  \E j \in job :
    /\ job' = {}
    /\ \/ pair' = pair                                 \* no green configuration
       \/ \E cfg \in GreenRootfs, slip \in {{}} \cup {{s} : s \in Slips} :
            pair' = Product(j, cfg, Archive(j.overlay, j.frag, cfg, slip))
    /\ image' = {}
    /\ UNCHANGED <<overlay, frag, cpio, rec, byHand, edits, builds>>

\* The two halves of the artefact are committed by hand, together or not.
CommitCpio ==
  /\ \E c \in pair.cpio : cpio' = c
  /\ image' = {}
  /\ UNCHANGED <<overlay, frag, rec, byHand, job, pair, edits, builds>>

CommitRecord ==
  /\ \E r \in pair.rec : rec' = {r}
  /\ byHand' = FALSE
  /\ image' = {}
  /\ UNCHANGED <<overlay, frag, cpio, job, pair, edits, builds>>

\* --write-provenance on the tree as it stands, with no build before it.
RecordByHand ==
  /\ ~cpio.damaged
  /\ rec' = {WriteProvenance(cpio, frag)} /\ byHand' = TRUE
  /\ image' = {}
  /\ UNCHANGED <<overlay, frag, cpio, job, pair, edits, builds>>

Headers ==
  LET good == [len |-> 4000000, magic2 |-> "RSC5", big |-> FALSE,
               text_offset |-> 4194304, image_size |-> 4500000]
  IN  {good, [good EXCEPT !.len = 63], [good EXCEPT !.magic2 = "none"],
       [good EXCEPT !.big = TRUE], [good EXCEPT !.text_offset = 0],
       [good EXCEPT !.image_size = HEADROOM + 1]}

\* The archive of the fallback that the input `initramfs: init` asks for.
StandIn ==
  [n \in {"init", "dev/console"} |->
     IF n = "init" THEN File("reg", TRUE, Bytes(0, {"elf"})) ELSE File("chr", FALSE, Bytes(0, {}))]

\* The linux workflow on the tree as it stands: the archive and the resolved
\* configuration are checked before the build, the Image and the initramfs in
\* it after; kbuild may leave the initramfs out.  For the stand-in neither
\* archive check is made.  A red run changes nothing.
GreenKernels == {cfg \in Resolved(KernelRequired) : KernelConfigBad(cfg) = {}}
BuildLinux ==
  \E which \in {"rootfs", "init"}, cfg \in GreenKernels, h \in Headers :
    /\ which = "rootfs" => InitramfsBad(cpio, rec, overlay, frag) = {}
    /\ ImageOk(h)
    /\ \E embedded \in {{}, {IF which = "rootfs" THEN cpio.files ELSE StandIn}} :
         /\ which = "rootfs" => ImageInitramfsOk(embedded, overlay)
         /\ image' = {[which |-> which, cfg |-> cfg, header |-> h, initramfs |-> embedded,
                       overlay |-> overlay, frag |-> frag, byHand |-> byHand]}
    /\ UNCHANGED <<overlay, frag, cpio, rec, byHand, job, pair, edits, builds>>

RelNext ==
  \/ EditOverlay \/ RemoveOverlay \/ EditFragment
  \/ StartUserspace \/ FinishUserspace
  \/ CommitCpio \/ CommitRecord \/ RecordByHand
  \/ BuildLinux

RelSpec == RelInit /\ [][RelNext]_relVars
----------------------------------------------------------------------------
(* What koti's core and firmware need of a kernel's configuration: no        *)
(* compressed or floating-point instruction, one CPU, and the drivers of the *)
(* console, the timer and the interrupts.                                    *)
Boots(cfg) ==
  /\ \A s \in {"ARCH_RV32I", "32BIT", "MMU", "RISCV_SBI", "RISCV_SBI_V01", "HVC_RISCV_SBI",
              "RISCV_TIMER", "RISCV_INTC", "SIFIVE_PLIC", "OF", "BLK_DEV_INITRD", "BINFMT_ELF"} :
       IsOn(cfg, s)
  /\ \A s \in {"RISCV_ISA_C", "FPU", "SMP", "CMDLINE_FORCE"} : ~IsOn(cfg, s)

(* What the kernel and busybox need of an archive to bring the machine up to *)
(* the marker and a login on both consoles.                                  *)
Runs(m, p) ==
  /\ p \in DOMAIN m /\ m[p].kind = "reg" /\ m[p].exec
  /\ {"cr", "noparse"} \cap m[p].data.has = {}
ComesUp(m) ==
  /\ Runs(m, "init") /\ "shebang" \in m["init"].data.has
  /\ Runs(m, "etc/init.d/S99koti") /\ "marker" \in m["etc/init.d/S99koti"].data.has
  /\ {"bin/busybox", "sbin/init", "sbin/e2fsck"} \subseteq DOMAIN m
  /\ \A n \in DOMAIN m : IsElf(m[n]) => CannotRun(m[n]) = {}
  /\ m["dev/console"].kind = "chr"
  /\ m["etc/network/interfaces"].data.has \subseteq {"lo"}
  /\ {"tty1", "hvc0"} \subseteq m["etc/inittab"].data.has

\* An Image of a green run carries every overlay file of its commit byte for
\* byte, and, unless the record was written by hand, a userspace built from the
\* fragment of that commit: no order of edits, builds and half-commits leaves an
\* old archive behind a green run (the stand-in aside, which carries neither).
PublishedIsCurrent ==
  \A i \in image : i.which = "rootfs" => \A m \in i.initramfs :
    /\ \A p \in DOMAIN i.overlay : p \in DOMAIN m /\ m[p].data = i.overlay[p].data
    /\ ~i.byHand => m["bin/busybox"].data.ver = i.frag

\* An Image whose checks are all green comes up on koti, whatever a build, a
\* configuration or an edit got wrong on the way.  Of a userspace the checks show
\* it as long as its two scripts are still in the overlay, since a file taken out
\* of it stays in the archive unseen, and S99koti begins with #!, since without
\* it nothing parses the script.
BootScripts(o) ==
  /\ OverlayNames \ Extra \subseteq DOMAIN o
  /\ "shebang" \in o["etc/init.d/S99koti"].data.has
GreenComesUp ==
  \A i \in image :
    /\ Boots(i.cfg)
    /\ i.header.magic2 = "RSC5" /\ KERNEL_ADDR + i.header.image_size <= RAM_BASE + RAM_SIZE
    /\ i.which = "rootfs" =>
         /\ i.initramfs # {}
         /\ BootScripts(i.overlay) => \A m \in i.initramfs : ComesUp(m)
=============================================================================
