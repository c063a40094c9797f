------------------------------ MODULE Firmware ------------------------------
(* The committed firmware images, the records written when they are built,   *)
(* and the check that compares both with the sources beside them.            *)
(*                                                                           *)
(* A file's content is a version; a hash is the content it is taken of (of a *)
(* text source, up to its line endings).  The build is not atomic: the tree  *)
(* is edited, restored from git or left half built while it runs.            *)
EXTENDS Naturals, Sequences, FiniteSets

CONSTANTS
  Sources,     \* the source files
  IMAGES,      \* [tree -> its images, in the order they are built]
  Listed,      \* [image -> the sources the build's table names for it]
  Reads,       \* [image -> the sources the compiler reads]
  MaxEdits     \* bound: changes made to the tree by hand

Trees == DOMAIN IMAGES
ImagesOf(t) == {IMAGES[t][n] : n \in DOMAIN IMAGES[t]}
Images == UNION {ImagesOf(t) : t \in Trees}

ASSUME FirmwareAssumption ==
  /\ Trees = {"sw", "sbi"} /\ MaxEdits \in Nat
  /\ \A t \in Trees : IMAGES[t] \in Seq(STRING)
  /\ \A i \in Images : Listed[i] \subseteq Sources /\ Reads[i] \subseteq Sources

VARIABLES
  src,     \* [source -> version], 0 when the file does not exist, 1 at HEAD
  bin,     \* [image -> empty, or the .bin on disk]
  prov,    \* [tree -> empty, or its firmware.provenance]
  make,    \* the build under way: empty or one
  edits

fwVars == <<src, bin, prov, make, edits>>

\* objcopy's output: what was compiled in, and whether the device tree landed
\* at flash 0x6000.
Bin(from, fdt) == [from |-> from, fdt |-> fdt]
Compiled(i, s) == [x \in Reads[i] |-> s[x]]

\* What write_provenance records of the tree on disk.  (touched is an
\* observation: the files changed by hand while the recorded build ran.)
\* (Mutant: a shared header is not hashed.)
RecordNoHeader(t, s, b, touched) ==
  [entries |-> [i \in {x \in ImagesOf(t) : b[x] # {}} |->
                  [bin |-> b[i],
                   srcs |-> [x \in {y \in Listed[i] \ {"koti.h"} : s[y] # 0} |-> s[x]]]],
   touched |-> touched]
Record(t, s, b, touched) ==
  [entries |-> [i \in {x \in ImagesOf(t) : b[x] # {}} |->
                  [bin |-> b[i],
                   srcs |-> [x \in {y \in Listed[i] : s[y] # 0} |-> s[x]]]],
   touched |-> touched]

HeadSrc == [x \in Sources |-> 1]
HeadBin == [i \in Images |-> {Bin(Compiled(i, HeadSrc), TRUE)}]
HeadProv == [t \in Trees |-> {Record(t, HeadSrc, HeadBin, {})}]

FwInit == src = HeadSrc /\ bin = HeadBin /\ prov = HeadProv /\ make = {} /\ edits = 0

----------------------------------------------------------------------------
\* A change by hand, noted against the build under way if there is one.
Touch(files) ==
  /\ edits < MaxEdits /\ edits' = edits + 1
  /\ make' = {[m EXCEPT !.touched = @ \cup files] : m \in make}

EditSource ==
  /\ \E x \in Sources : \E v \in {0, 1, edits + 2} \ {src[x]} :
       src' = [src EXCEPT ![x] = v] /\ Touch({x})
  /\ UNCHANGED <<bin, prov>>

\* git checkout, or a delete, of one build product.
RestoreBin ==
  /\ \E i \in Images : \E b \in {{}, HeadBin[i]} \ {bin[i]} :
       bin' = [bin EXCEPT ![i] = b] /\ Touch({i})
  /\ UNCHANGED <<src, prov>>

RestoreProv ==
  /\ \E t \in Trees : \E p \in {{}, HeadProv[t]} \ {prov[t]} :
       prov' = [prov EXCEPT ![t] = p] /\ Touch({})
  /\ UNCHANGED <<src, bin>>

\* python build.py; the SBI one needs the device tree blob to be there.
BuildStart ==
  /\ make = {}
  /\ \E t \in Trees :
       /\ t = "sbi" => src["koti.dtb"] # 0
       /\ make' = {[tree |-> t, next |-> 1, touched |-> {}]}
  /\ UNCHANGED <<src, bin, prov, edits>>

\* One turn of the loop: gcc reads the sources as they are at that moment.
Compile ==
  \E m \in make :
    /\ m.next <= Len(IMAGES[m.tree])
    /\ LET i == IMAGES[m.tree][m.next]
       IN  /\ \A x \in Reads[i] : src[x] # 0
           /\ \E fdt \in IF m.tree = "sbi" THEN BOOLEAN ELSE {TRUE} :
                bin' = [bin EXCEPT ![i] = {Bin(Compiled(i, src), fdt)}]
    /\ make' = {[m EXCEPT !.next = @ + 1]}
    /\ UNCHANGED <<src, prov, edits>>

\* A compiler error, an interrupt, or no FDT magic where the firmware looks:
\* the images built so far stay, the record is the old one.
BuildFails == make # {} /\ make' = {} /\ UNCHANGED <<src, bin, prov, edits>>

FdtPlaced(t) == t = "sbi" => \A i \in ImagesOf(t) : \A b \in bin[i] : b.fdt

WriteProvenance ==
  \E m \in make :
    /\ m.next > Len(IMAGES[m.tree])
    /\ m.tree = "sbi" => \A i \in ImagesOf(m.tree) : bin[i] # {}
    /\ FdtPlaced(m.tree)
    /\ prov' = [prov EXCEPT ![m.tree] = {Record(m.tree, src, bin, m.touched)}]
    /\ make' = {}
    /\ UNCHANGED <<src, bin, edits>>

FwNext ==
  \/ EditSource \/ RestoreBin \/ RestoreProv
  \/ BuildStart \/ Compile \/ BuildFails \/ WriteProvenance

----------------------------------------------------------------------------
(* check_firmware.py, as the complaints it collects.                         *)
\* (Mutants: a recorded hash is not compared; the device tree is skipped.)
OnlyUnhashed(i, entry) ==
  {<<i, x>> : x \in {y \in Listed[i] : src[y] # 0 /\ y \notin DOMAIN entry.srcs}}
NoDeviceTree(i, entry) ==
  LET differs(y) == y \in DOMAIN entry.srcs => entry.srcs[y] # src[y]
  IN  {<<i, x>> : x \in {y \in Listed[i] \ {"koti.dtb"} : src[y] # 0 /\ differs(y)}}
SourcesBad(i, entry) ==
  LET differs(y) == y \in DOMAIN entry.srcs => entry.srcs[y] # src[y]
  IN  {<<i, x>> : x \in {y \in Listed[i] : src[y] # 0 /\ differs(y)}}
ImageBad(i, rec) ==
  CASE bin[i] = {} -> {<<i, "missing">>}
    [] bin[i] # {} /\ i \notin DOMAIN rec.entries -> {<<i, "no record">>}
    [] OTHER -> IF rec.entries[i].bin # bin[i] THEN {<<i, "not as recorded">>}
                ELSE SourcesBad(i, rec.entries[i])
TreeBad(t) ==
  IF prov[t] = {} THEN {<<t, "no record">>}
  ELSE UNION {UNION {ImageBad(i, rec) : i \in ImagesOf(t)} : rec \in prov[t]}

\* The sw tree's missing record ends the check before the SBI tree is looked at.
FirmwareOk == prov["sw"] # {} /\ TreeBad("sw") = {} /\ TreeBad("sbi") = {}

Touched(t) == UNION {r.touched : r \in prov[t]}
----------------------------------------------------------------------------
FwTypeOK ==
  /\ src \in [Sources -> 0 .. MaxEdits + 1] /\ edits \in 0 .. MaxEdits
  /\ \A i \in Images : Cardinality(bin[i]) <= 1 /\ \A b \in bin[i] : DOMAIN b.from = Reads[i]
  /\ \A t \in Trees : Cardinality(prov[t]) <= 1
  /\ Cardinality(make) <= 1
  /\ \A m \in make : m.tree \in Trees /\ m.next \in 1 .. Len(IMAGES[m.tree]) + 1

\* A tree the check passes holds images compiled from the sources beside them,
\* the device tree where the firmware looks for it: whatever was edited, half
\* built or restored from git in which order, except for what changed by hand
\* while the recorded build itself was running.
GreenFirmware ==
  FirmwareOk =>
    \A t \in Trees : \A i \in ImagesOf(t) \ Touched(t) : \A b \in bin[i] :
      /\ \A x \in (Listed[i] \cap Reads[i]) \ Touched(t) : src[x] = 0 \/ b.from[x] = src[x]
      /\ t = "sbi" => b.fdt

\* A build that ran undisturbed to its record leaves a tree the check passes.
FreshIsGreen ==
  [][\A m \in make : (WriteProvenance /\ m.touched = {}) => TreeBad(m.tree)' = {}]_fwVars
=============================================================================
