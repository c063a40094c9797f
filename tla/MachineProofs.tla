----------------------------- MODULE MachineProofs ---------------------------
(* The theorems about the bench, for every set of sources, images, edits,     *)
(* kernels and filesystems, and every size of the card's parts: the           *)
(* invariants of the firmware tree and of the card, each an invariant of its  *)
(* own module's steps, carried through Machine's, what a load brings into RAM *)
(* and what a started kernel is handed.                                       *)
EXTENDS Machine, FiniteSetTheorems, WellFoundedInduction, TLAPS

(* The firmware tree.  What a record says of an image is what was compiled    *)
(* into it, and what a build under way has compiled is what the tree holds,   *)
(* save for what was changed by hand since the build began.                   *)

FwShape ==
  /\ DOMAIN src = Sources /\ DOMAIN bin = Images /\ DOMAIN prov = Trees
  /\ \A t \in Trees : \A r, s \in prov[t] : r = s
  /\ \A m, n \in make : m = n
  /\ \A m \in make : /\ m.tree \in Trees /\ m.next \in Nat \ {0}
                     /\ m = [tree |-> m.tree, next |-> m.next, touched |-> m.touched]

\* The record of tree t, of an image that nobody touched while it was built.
RecordedOf(t, r, i) ==
  \A b \in r.entries[i].bin :
    /\ \A x \in (Listed[i] \cap Reads[i]) \ r.touched :
         x \in DOMAIN r.entries[i].srcs => b.from[x] = r.entries[i].srcs[x]
    /\ t = "sbi" => b.fdt
RecordInv ==
  \A t \in Trees : \A r \in prov[t] :
    \A i \in (ImagesOf(t) \cap DOMAIN r.entries) \ r.touched : RecordedOf(t, r, i)

\* What the loop has built so far.
FreshBin(m, i) ==
  /\ bin[i] # {}
  /\ \A b \in bin[i] : \A x \in Reads[i] \ m.touched : b.from[x] = src[x]
MakeInv ==
  \A m \in make : \A n \in DOMAIN IMAGES[m.tree] :
    (n < m.next /\ IMAGES[m.tree][n] \notin m.touched) => FreshBin(m, IMAGES[m.tree][n])

FwInv == FwShape /\ RecordInv /\ MakeInv

----------------------------------------------------------------------------
LEMMA ImagesOfTrees ==
  ASSUME NEW t \in Trees, NEW n \in DOMAIN IMAGES[t]
  PROVE  IMAGES[t][n] \in ImagesOf(t) /\ IMAGES[t][n] \in Images
BY DEF ImagesOf, Images

LEMMA ImagesAreNumbered ==
  ASSUME NEW t \in Trees
  PROVE  DOMAIN IMAGES[t] = 1 .. Len(IMAGES[t]) /\ Len(IMAGES[t]) \in Nat
BY FirmwareAssumption

LEMMA TreeImages == \A t \in Trees : ImagesOf(t) \subseteq Images
BY DEF Images

\* What a record written now says of an image (write_provenance).
LEMMA RecordOf ==
  ASSUME NEW t, NEW s, NEW d, NEW touched, NEW i \in ImagesOf(t)
  PROVE  LET r == Record(t, s, d, touched)
         IN  /\ r.touched = touched
             /\ i \in DOMAIN r.entries <=> d[i] # {}
             /\ d[i] # {} => /\ r.entries[i].bin = d[i]
                             /\ DOMAIN r.entries[i].srcs = {y \in Listed[i] : s[y] # 0}
                             /\ \A x \in Listed[i] : s[x] # 0 => r.entries[i].srcs[x] = s[x]
BY DEF Record

\* The products in git are of the sources in git.
LEMMA HeadIsRecorded ==
  ASSUME NEW t \in Trees, NEW r \in HeadProv[t], NEW i \in ImagesOf(t)
  PROVE  RecordedOf(t, r, i)
<1>1. r = Record(t, HeadSrc, HeadBin, {})
  BY DEF HeadProv
<1>2. i \in Images
  BY TreeImages
<1>3. HeadBin[i] = {Bin(Compiled(i, HeadSrc), TRUE)}
  BY <1>2 DEF HeadBin
<1>4. SUFFICES ASSUME NEW b \in r.entries[i].bin
               PROVE  /\ \A x \in (Listed[i] \cap Reads[i]) \ r.touched :
                           x \in DOMAIN r.entries[i].srcs => b.from[x] = r.entries[i].srcs[x]
                      /\ t = "sbi" => b.fdt
  BY DEF RecordedOf
<1>5. b = Bin(Compiled(i, HeadSrc), TRUE)
  <2>1. HeadBin[i] # {}
    BY <1>3
  <2>2. Record(t, HeadSrc, HeadBin, {}).entries[i].bin = HeadBin[i]
    BY <2>1, RecordOf
  <2> QED
    BY <1>1, <1>3, <2>2
<1>6. b.fdt /\ \A x \in Reads[i] : b.from[x] = HeadSrc[x]
  BY <1>5 DEF Bin, Compiled
<1>7. /\ DOMAIN r.entries[i].srcs = {y \in Listed[i] : HeadSrc[y] # 0}
      /\ \A x \in Listed[i] : HeadSrc[x] # 0 => r.entries[i].srcs[x] = HeadSrc[x]
  <2>1. HeadBin[i] # {}
    BY <1>3
  <2>2. LET q == Record(t, HeadSrc, HeadBin, {})
        IN  /\ DOMAIN q.entries[i].srcs = {y \in Listed[i] : HeadSrc[y] # 0}
            /\ \A x \in Listed[i] : HeadSrc[x] # 0 => q.entries[i].srcs[x] = HeadSrc[x]
    BY <2>1, RecordOf
  <2> QED
    BY <1>1, <2>2
<1> QED
  BY <1>6, <1>7

LEMMA FwInvInit == FwInit => FwInv
<1> SUFFICES ASSUME FwInit PROVE FwInv
  OBVIOUS
<1>1. FwShape
  BY DEF FwInit, FwShape, HeadSrc, HeadBin, HeadProv
<1>2. RecordInv
  BY HeadIsRecorded DEF FwInit, RecordInv
<1>3. MakeInv
  BY DEF FwInit, MakeInv
<1> QED
  BY <1>1, <1>2, <1>3 DEF FwInv

----------------------------------------------------------------------------
\* A change by hand is noted by the build under way and leaves it what it is.
LEMMA TouchedBuild ==
  ASSUME FwShape, NEW files, Touch(files)
  PROVE  /\ \A k, n \in make' : k = n
         /\ \A k \in make' : \E m \in make :
              /\ k.tree = m.tree /\ k.next = m.next /\ k.touched = m.touched \cup files
              /\ k = [tree |-> k.tree, next |-> k.next, touched |-> k.touched]
<1>1. ASSUME NEW k \in make'
      PROVE  \E m \in make :
               /\ k.tree = m.tree /\ k.next = m.next /\ k.touched = m.touched \cup files
               /\ k = [tree |-> k.tree, next |-> k.next, touched |-> k.touched]
  <2>1. PICK m \in make : k = [m EXCEPT !.touched = @ \cup files]
    BY DEF Touch
  <2>2. m = [tree |-> m.tree, next |-> m.next, touched |-> m.touched]
    BY DEF FwShape
  <2> QED
    BY <2>1, <2>2
<1>2. ASSUME NEW k \in make', NEW n \in make'
      PROVE  k = n
  BY DEF FwShape, Touch
<1> QED
  BY <1>1, <1>2

\* A change by hand to source x, noted by the build under way.
LEMMA EditSourceKeeps ==
  ASSUME FwInv, EditSource
  PROVE  FwInv'
<1>1. PICK x \in Sources : \E v : src' = [src EXCEPT ![x] = v] /\ Touch({x})
  BY DEF EditSource
<1>2. bin' = bin /\ prov' = prov
  BY DEF EditSource
<1>3. Touch({x})
  BY <1>1
<1>4. FwShape'
  <2>1. DOMAIN src' = Sources /\ DOMAIN bin' = Images /\ prov' = prov
    BY <1>1, <1>2 DEF FwInv, FwShape
  <2>2. /\ \A k, n \in make' : k = n
        /\ \A k \in make' : \E m \in make :
             /\ k.tree = m.tree /\ k.next = m.next
             /\ k = [tree |-> k.tree, next |-> k.next, touched |-> k.touched]
    BY <1>3, TouchedBuild DEF FwInv
  <2> QED
    BY <2>1, <2>2 DEF FwInv, FwShape
<1>5. RecordInv'
  BY <1>2 DEF FwInv, RecordInv, RecordedOf
<1>6. MakeInv'
  <2> SUFFICES ASSUME NEW k \in make', NEW n \in DOMAIN IMAGES[k.tree],
                      n < k.next, IMAGES[k.tree][n] \notin k.touched
               PROVE  FreshBin(k, IMAGES[k.tree][n])'
    BY DEF MakeInv, FreshBin
  <2>1. PICK m \in make :
          k.tree = m.tree /\ k.next = m.next /\ k.touched = m.touched \cup {x}
    BY <1>3, TouchedBuild DEF FwInv
  <2>2. k.tree = m.tree /\ k.next = m.next /\ k.touched = m.touched \cup {x}
    BY <2>1
  <2>3. FreshBin(m, IMAGES[m.tree][n])
    BY <2>2 DEF FwInv, MakeInv
  <2>4. \A i, y : i \in Images /\ y \in Reads[i] \ k.touched => src'[y] = src[y]
    BY <1>1, <2>2, FirmwareAssumption DEF FwInv, FwShape
  <2>5. IMAGES[m.tree][n] \in Images
    BY <2>2, ImagesOfTrees DEF FwInv, FwShape
  <2> QED
    BY <1>2, <2>2, <2>3, <2>4, <2>5 DEF FreshBin
<1> QED
  BY <1>4, <1>5, <1>6 DEF FwInv

LEMMA RestoreBinKeeps ==
  ASSUME FwInv, RestoreBin
  PROVE  FwInv'
<1>1. PICK i \in Images : \E b : bin' = [bin EXCEPT ![i] = b] /\ Touch({i})
  BY DEF RestoreBin
<1>2. src' = src /\ prov' = prov
  BY DEF RestoreBin
<1>3. Touch({i})
  BY <1>1
<1>4. FwShape'
  <2>1. DOMAIN src' = Sources /\ DOMAIN bin' = Images /\ prov' = prov
    BY <1>1, <1>2 DEF FwInv, FwShape
  <2>2. /\ \A k, n \in make' : k = n
        /\ \A k \in make' : \E m \in make :
             /\ k.tree = m.tree /\ k.next = m.next
             /\ k = [tree |-> k.tree, next |-> k.next, touched |-> k.touched]
    BY <1>3, TouchedBuild DEF FwInv
  <2> QED
    BY <2>1, <2>2 DEF FwInv, FwShape
<1>5. RecordInv'
  BY <1>2 DEF FwInv, RecordInv, RecordedOf
<1>6. MakeInv'
  <2> SUFFICES ASSUME NEW k \in make', NEW n \in DOMAIN IMAGES[k.tree],
                      n < k.next, IMAGES[k.tree][n] \notin k.touched
               PROVE  FreshBin(k, IMAGES[k.tree][n])'
    BY DEF MakeInv, FreshBin
  <2>1. PICK m \in make :
          k.tree = m.tree /\ k.next = m.next /\ k.touched = m.touched \cup {i}
    BY <1>3, TouchedBuild DEF FwInv
  <2>2. k.tree = m.tree /\ k.next = m.next /\ k.touched = m.touched \cup {i}
    BY <2>1
  <2>3. FreshBin(m, IMAGES[m.tree][n])
    BY <2>2 DEF FwInv, MakeInv
  <2>4. IMAGES[m.tree][n] \in Images /\ IMAGES[m.tree][n] # i
    BY <2>2, ImagesOfTrees DEF FwInv, FwShape
  <2>5. bin'[IMAGES[m.tree][n]] = bin[IMAGES[m.tree][n]]
    BY <1>1, <2>4 DEF FwInv, FwShape
  <2> QED
    BY <1>2, <2>2, <2>3, <2>5 DEF FreshBin
<1> QED
  BY <1>4, <1>5, <1>6 DEF FwInv

LEMMA RestoreProvKeeps ==
  ASSUME FwInv, RestoreProv
  PROVE  FwInv'
<1>1. PICK t \in Trees :
        \E p \in {{}, HeadProv[t]} : prov' = [prov EXCEPT ![t] = p] /\ Touch({})
  BY DEF RestoreProv
<1>2. src' = src /\ bin' = bin
  BY DEF RestoreProv
<1>3. make' = {[m EXCEPT !.touched = @ \cup {}] : m \in make}
  BY <1>1 DEF Touch
<1>4. make' = make
  <2>1. \A m \in make : [m EXCEPT !.touched = @ \cup {}] = m
    BY DEF FwInv, FwShape
  <2> QED
    BY <1>3, <2>1
<1>5. \A r, s \in HeadProv[t] : r = s
  BY DEF HeadProv
<1>6. FwShape'
  BY <1>1, <1>2, <1>4, <1>5 DEF FwInv, FwShape
<1>7. RecordInv'
  BY <1>1, HeadIsRecorded DEF FwInv, FwShape, RecordInv, RecordedOf
<1>8. MakeInv'
  BY <1>2, <1>4 DEF FwInv, MakeInv, FreshBin
<1> QED
  BY <1>6, <1>7, <1>8 DEF FwInv

\* A build begins with nothing built, and can end at any moment.
LEMMA BuildStartKeeps ==
  ASSUME FwInv, BuildStart
  PROVE  FwInv'
<1>1. PICK t \in Trees : make' = {[tree |-> t, next |-> 1, touched |-> {}]}
  BY DEF BuildStart
<1>2. UNCHANGED <<src, bin, prov>>
  BY DEF BuildStart
<1>3. FwShape'
  BY <1>1, <1>2 DEF FwInv, FwShape
<1>4. RecordInv'
  BY <1>2 DEF FwInv, RecordInv, RecordedOf
<1>5. MakeInv'
  BY <1>1, ImagesAreNumbered DEF MakeInv
<1> QED
  BY <1>3, <1>4, <1>5 DEF FwInv

LEMMA BuildFailsKeeps ==
  ASSUME FwInv, BuildFails
  PROVE  FwInv'
BY DEF BuildFails, FwInv, FwShape, RecordInv, RecordedOf, MakeInv

\* A turn of the loop: the image is compiled from the tree as it stands.
LEMMA CompileKeeps ==
  ASSUME FwInv, Compile
  PROVE  FwInv'
<1>1. PICK m \in make, fdt \in BOOLEAN :
        /\ m.next <= Len(IMAGES[m.tree])
        /\ bin' = [bin EXCEPT ![IMAGES[m.tree][m.next]] = {Bin(Compiled(IMAGES[m.tree][m.next], src), fdt)}]
        /\ make' = {[m EXCEPT !.next = @ + 1]}
        /\ UNCHANGED <<src, prov, edits>>
  BY DEF Compile
<1> DEFINE i == IMAGES[m.tree][m.next]
<1>2. PICK k : /\ make' = {k} /\ k.tree = m.tree /\ k.next = m.next + 1 /\ k.touched = m.touched
               /\ k = [tree |-> k.tree, next |-> k.next, touched |-> k.touched]
  <2>1. PICK k : k = [m EXCEPT !.next = @ + 1]
    OBVIOUS
  <2>2. m = [tree |-> m.tree, next |-> m.next, touched |-> m.touched]
    BY DEF FwInv, FwShape
  <2>3. /\ k.tree = m.tree /\ k.next = m.next + 1 /\ k.touched = m.touched
        /\ k = [tree |-> k.tree, next |-> k.next, touched |-> k.touched]
    BY <2>1, <2>2
  <2> QED
    BY <1>1, <2>1, <2>3
<1>3. m.next \in DOMAIN IMAGES[m.tree] /\ m.tree \in Trees /\ m.next \in Nat \ {0}
  BY <1>1, ImagesAreNumbered DEF FwInv, FwShape
<1>4. i \in Images
  BY <1>3, ImagesOfTrees
<1>5. FwShape'
  BY <1>1, <1>2, <1>3 DEF FwInv, FwShape
<1>6. RecordInv'
  BY <1>1 DEF FwInv, RecordInv, RecordedOf
<1>7. MakeInv'
  <2> SUFFICES ASSUME NEW n \in DOMAIN IMAGES[k.tree], n < k.next,
                      IMAGES[k.tree][n] \notin k.touched
               PROVE  FreshBin(k, IMAGES[k.tree][n])'
    BY <1>2 DEF MakeInv
  <2>1. CASE IMAGES[k.tree][n] = i
    <3>1. bin'[i] = {Bin(Compiled(i, src), fdt)}
      BY <1>1, <1>4 DEF FwInv, FwShape
    <3>2. \A b \in bin'[i] : \A x \in Reads[i] : b.from[x] = src[x]
      BY <3>1 DEF Bin, Compiled
    <3>3. bin'[i] # {} /\ src' = src
      BY <1>1, <3>1
    <3> QED
      BY <2>1, <3>2, <3>3 DEF FreshBin
  <2>2. CASE IMAGES[k.tree][n] # i
    <3>1. n < m.next
      BY <1>2, <1>3, <2>2, ImagesAreNumbered
    <3>2. FreshBin(m, IMAGES[k.tree][n])
      BY <1>2, <3>1 DEF FwInv, MakeInv
    <3>3. bin'[IMAGES[k.tree][n]] = bin[IMAGES[k.tree][n]]
      BY <1>1, <1>2, <1>3, <2>2, ImagesOfTrees DEF FwInv, FwShape
    <3> QED
      BY <1>1, <1>2, <3>2, <3>3 DEF FreshBin
  <2> QED
    BY <2>1, <2>2
<1> QED
  BY <1>5, <1>6, <1>7 DEF FwInv

----------------------------------------------------------------------------
\* The record a finished build m writes, image by image.
LEMMA FreshRecord ==
  ASSUME FwInv, NEW m \in make, m.next > Len(IMAGES[m.tree]), FdtPlaced(m.tree),
         NEW i \in ImagesOf(m.tree), i \notin m.touched
  PROVE  LET r == Record(m.tree, src, bin, m.touched)
         IN  /\ i \in DOMAIN r.entries /\ r.entries[i].bin = bin[i] /\ bin[i] # {}
             /\ \A y \in Listed[i] : src[y] # 0 =>
                  y \in DOMAIN r.entries[i].srcs /\ r.entries[i].srcs[y] = src[y]
             /\ RecordedOf(m.tree, r, i)
<1> DEFINE r == Record(m.tree, src, bin, m.touched)
<1>1. PICK n \in DOMAIN IMAGES[m.tree] : i = IMAGES[m.tree][n]
  BY DEF ImagesOf
<1>2. n < m.next
  BY <1>1, ImagesAreNumbered DEF FwInv, FwShape
<1>3. FreshBin(m, i)
  BY <1>1, <1>2 DEF FwInv, MakeInv
<1>4. bin[i] # {}
  BY <1>3 DEF FreshBin
<1>5. /\ r.touched = m.touched /\ i \in DOMAIN r.entries /\ r.entries[i].bin = bin[i]
      /\ DOMAIN r.entries[i].srcs = {y \in Listed[i] : src[y] # 0}
      /\ \A x \in Listed[i] : src[x] # 0 => r.entries[i].srcs[x] = src[x]
  BY <1>4, RecordOf
<1>6. RecordedOf(m.tree, r, i)
  <2> HIDE DEF r
  <2> SUFFICES ASSUME NEW b \in bin[i]
               PROVE  /\ \A x \in (Listed[i] \cap Reads[i]) \ r.touched :
                           x \in DOMAIN r.entries[i].srcs => b.from[x] = r.entries[i].srcs[x]
                      /\ m.tree = "sbi" => b.fdt
    BY <1>5 DEF RecordedOf
  <2>1. m.tree = "sbi" => b.fdt
    BY DEF FdtPlaced
  <2> QED
    BY <1>3, <1>5, <2>1 DEF FreshBin
<1> HIDE DEF r
<1>7. \A y \in Listed[i] : src[y] # 0 =>
        y \in DOMAIN r.entries[i].srcs /\ r.entries[i].srcs[y] = src[y]
  BY <1>5
<1> QED
  BY <1>4, <1>5, <1>6, <1>7 DEF r

LEMMA WriteProvenanceKeeps ==
  ASSUME FwInv, WriteProvenance
  PROVE  FwInv'
<1>1. PICK m \in make :
        /\ m.next > Len(IMAGES[m.tree]) /\ FdtPlaced(m.tree)
        /\ prov' = [prov EXCEPT ![m.tree] = {Record(m.tree, src, bin, m.touched)}]
        /\ make' = {} /\ UNCHANGED <<src, bin, edits>>
  BY DEF WriteProvenance
<1>2. m.tree \in Trees
  BY DEF FwInv, FwShape
<1>3. FwShape'
  BY <1>1, <1>2 DEF FwInv, FwShape
<1>4. MakeInv'
  BY <1>1 DEF MakeInv
<1>5. RecordInv'
  <2> SUFFICES ASSUME NEW t \in Trees, NEW r \in prov'[t],
                      NEW i \in (ImagesOf(t) \cap DOMAIN r.entries) \ r.touched
               PROVE  RecordedOf(t, r, i)
    BY DEF RecordInv, RecordedOf
  <2>1. CASE t = m.tree
    <3>1. r = Record(m.tree, src, bin, m.touched)
      BY <1>1, <1>2, <2>1 DEF FwInv, FwShape
    <3>2. i \notin m.touched
      BY <2>1, <3>1, RecordOf
    <3> QED
      BY <1>1, <2>1, <3>1, <3>2, FreshRecord
  <2>2. CASE t # m.tree
    <3>1. prov'[t] = prov[t]
      BY <1>1, <2>2 DEF FwInv, FwShape
    <3> QED
      BY <3>1 DEF FwInv, RecordInv
  <2> QED
    BY <2>1, <2>2
<1> QED
  BY <1>3, <1>4, <1>5 DEF FwInv

LEMMA FwInvStep ==
  ASSUME FwInv, [FwNext]_fwVars
  PROVE  FwInv'
<1>1. CASE UNCHANGED fwVars
  BY <1>1 DEF fwVars, FwInv, FwShape, RecordInv, RecordedOf, MakeInv, FreshBin
<1> QED
  BY <1>1, EditSourceKeeps, RestoreBinKeeps, RestoreProvKeeps, BuildStartKeeps, CompileKeeps,
     BuildFailsKeeps, WriteProvenanceKeeps DEF FwNext

----------------------------------------------------------------------------
\* A tree without complaints has a record, and it agrees with the tree.
LEMMA GreenTree ==
  ASSUME NEW t \in Trees, prov[t] # {}, TreeBad(t) = {}, NEW i \in ImagesOf(t)
  PROVE  \E r \in prov[t] :
           /\ i \in DOMAIN r.entries /\ r.entries[i].bin = bin[i] /\ bin[i] # {}
           /\ \A y \in Listed[i] : src[y] # 0 =>
                y \in DOMAIN r.entries[i].srcs /\ r.entries[i].srcs[y] = src[y]
<1>1. PICK r \in prov[t] : TRUE
  OBVIOUS
<1>2. ImageBad(i, r) = {}
  <2>1. UNION {UNION {ImageBad(j, rec) : j \in ImagesOf(t)} : rec \in prov[t]} = {}
    BY DEF TreeBad
  <2>2. UNION {ImageBad(j, r) : j \in ImagesOf(t)} = {}
    BY <1>1, <2>1
  <2> QED
    BY <2>2
<1>3. bin[i] # {} /\ i \in DOMAIN r.entries /\ r.entries[i].bin = bin[i]
  BY <1>2 DEF ImageBad
<1>4. SourcesBad(i, r.entries[i]) = {}
  BY <1>2, <1>3 DEF ImageBad
<1>5. \A y \in Listed[i] : src[y] # 0 =>
        y \in DOMAIN r.entries[i].srcs /\ r.entries[i].srcs[y] = src[y]
  <2> SUFFICES ASSUME NEW y \in Listed[i], src[y] # 0,
                      y \in DOMAIN r.entries[i].srcs => r.entries[i].srcs[y] # src[y]
               PROVE  FALSE
    OBVIOUS
  <2>1. <<i, y>> \in SourcesBad(i, r.entries[i])
    BY DEF SourcesBad
  <2> QED
    BY <1>4, <2>1
<1> QED
  BY <1>3, <1>5

\* The invariant is enough for what a green check is to mean.
LEMMA FwInvIsGreen ==
  ASSUME FwInv
  PROVE  GreenFirmware
<1> SUFFICES ASSUME FirmwareOk, NEW t \in Trees, NEW i \in ImagesOf(t) \ Touched(t),
                    NEW b \in bin[i]
             PROVE  /\ \A x \in (Listed[i] \cap Reads[i]) \ Touched(t) :
                         src[x] = 0 \/ b.from[x] = src[x]
                    /\ t = "sbi" => b.fdt
  BY DEF GreenFirmware
<1>1. TreeBad(t) = {} /\ prov[t] # {}
  <2>1. TreeBad(t) = {}
    BY FirmwareAssumption DEF FirmwareOk
  <2>2. prov[t] = {} => TreeBad(t) = {<<t, "no record">>}
    BY DEF TreeBad
  <2> QED
    BY <2>1, <2>2
<1>2. PICK r \in prov[t] :
        /\ i \in DOMAIN r.entries /\ r.entries[i].bin = bin[i]
        /\ \A y \in Listed[i] : src[y] # 0 =>
             y \in DOMAIN r.entries[i].srcs /\ r.entries[i].srcs[y] = src[y]
  BY <1>1, GreenTree
<1>3. r.touched \subseteq Touched(t)
  BY DEF Touched
<1>4. RecordedOf(t, r, i)
  BY <1>2, <1>3 DEF FwInv, RecordInv
<1> QED
  BY <1>2, <1>3, <1>4 DEF RecordedOf

\* A build nobody disturbed leaves nothing to complain of.
LEMMA FreshBuildIsGreen ==
  ASSUME FwInv, NEW m \in make, WriteProvenance, m.touched = {}
  PROVE  TreeBad(m.tree)' = {}
<1>1. /\ m.next > Len(IMAGES[m.tree]) /\ FdtPlaced(m.tree)
      /\ prov' = [prov EXCEPT ![m.tree] = {Record(m.tree, src, bin, m.touched)}]
      /\ src' = src /\ bin' = bin
  BY DEF WriteProvenance, FwInv, FwShape
<1>2. PICK r : r = Record(m.tree, src, bin, m.touched)
  OBVIOUS
<1>3. prov'[m.tree] = {r}
  BY <1>1, <1>2 DEF FwInv, FwShape
<1>4. \A i \in ImagesOf(m.tree) : ImageBad(i, r)' = {}
  <2> SUFFICES ASSUME NEW i \in ImagesOf(m.tree) PROVE ImageBad(i, r)' = {}
    OBVIOUS
  <2>1. /\ i \in DOMAIN r.entries /\ r.entries[i].bin = bin[i] /\ bin[i] # {}
        /\ \A y \in Listed[i] : src[y] # 0 =>
             y \in DOMAIN r.entries[i].srcs /\ r.entries[i].srcs[y] = src[y]
    BY <1>1, <1>2, FreshRecord
  <2>2. SourcesBad(i, r.entries[i])' = {}
    <3> DEFINE e == r.entries[i]
               stale == {y \in Listed[i] : src'[y] # 0 /\ (y \in DOMAIN e.srcs => e.srcs[y] # src'[y])}
    <3>1. stale = {}
      BY <1>1, <2>1
    <3>2. SourcesBad(i, e)' = {<<i, x>> : x \in stale}
      BY DEF SourcesBad
    <3> HIDE DEF stale
    <3> QED
      BY <3>1, <3>2
  <2> QED
    BY <1>1, <2>1, <2>2 DEF ImageBad
<1>5. UNION {UNION {ImageBad(i, rec)' : i \in ImagesOf(m.tree)} : rec \in prov'[m.tree]} = {}
  <2>1. UNION {ImageBad(i, r)' : i \in ImagesOf(m.tree)} = {}
    BY <1>4
  <2> QED
    BY <1>3, <2>1
<1> QED
  BY <1>3, <1>5 DEF TreeBad

----------------------------------------------------------------------------
(* Types.                                                                    *)
FwTypes ==
  /\ src \in [Sources -> 0 .. MaxEdits + 1] /\ edits \in 0 .. MaxEdits
  /\ \A i \in Images : \A b, c \in bin[i] : b = c /\ DOMAIN b.from = Reads[i]
  /\ \A m \in make : m.next <= Len(IMAGES[m.tree]) + 1

LEMMA AtMostOne ==
  ASSUME NEW S, \A x, y \in S : x = y
  PROVE  Cardinality(S) <= 1
<1>1. CASE S = {}
  BY <1>1, FS_EmptySet
<1>2. ASSUME NEW x \in S
      PROVE  Cardinality(S) <= 1
  <2>1. S = {x}
    OBVIOUS
  <2> QED
    BY <2>1, FS_Singleton
<1> QED
  BY <1>1, <1>2

LEMMA HeadBinIsOne ==
  ASSUME NEW i \in Images, NEW b \in HeadBin[i], NEW c \in HeadBin[i]
  PROVE  b = c /\ DOMAIN b.from = Reads[i]
<1>1. HeadBin[i] = {Bin(Compiled(i, HeadSrc), TRUE)}
  BY DEF HeadBin
<1>2. b = Bin(Compiled(i, HeadSrc), TRUE) /\ c = b
  BY <1>1
<1>3. b.from = Compiled(i, HeadSrc)
  BY <1>2 DEF Bin
<1> QED
  BY <1>2, <1>3 DEF Compiled

LEMMA FwTypesInit == FwInit => FwTypes
<1> SUFFICES ASSUME FwInit PROVE FwTypes
  OBVIOUS
<1>1. src \in [Sources -> 0 .. MaxEdits + 1] /\ edits \in 0 .. MaxEdits
  BY FirmwareAssumption DEF FwInit, HeadSrc
<1>2. \A i \in Images : \A b, c \in bin[i] : b = c /\ DOMAIN b.from = Reads[i]
  BY HeadBinIsOne DEF FwInit
<1> QED
  BY <1>1, <1>2 DEF FwInit, FwTypes

LEMMA FwTypesStep ==
  ASSUME FwInv, FwTypes, [FwNext]_fwVars
  PROVE  FwTypes'
<1>1. CASE EditSource
  <2>1. PICK x \in Sources : \E v \in {0, 1, edits + 2} :
          src' = [src EXCEPT ![x] = v] /\ Touch({x}) /\ bin' = bin
    BY <1>1 DEF EditSource
  <2>2. edits < MaxEdits /\ edits' = edits + 1
    BY <2>1 DEF Touch
  <2>3. src' \in [Sources -> 0 .. MaxEdits + 1] /\ edits' \in 0 .. MaxEdits
    BY <2>1, <2>2, FirmwareAssumption DEF FwTypes
  <2> QED
    BY <2>1, <2>3, TouchedBuild DEF FwInv, FwTypes
<1>2. CASE RestoreBin
  <2>1. PICK i \in Images : \E b \in {{}, HeadBin[i]} :
          bin' = [bin EXCEPT ![i] = b] /\ Touch({i}) /\ src' = src
    BY <1>2 DEF RestoreBin
  <2>2. \A b, c \in HeadBin[i] : b = c /\ DOMAIN b.from = Reads[i]
    BY HeadBinIsOne
  <2>3. \A j \in Images : \A b, c \in bin'[j] : b = c /\ DOMAIN b.from = Reads[j]
    BY <2>1, <2>2 DEF FwInv, FwShape, FwTypes
  <2>4. edits' \in 0 .. MaxEdits
    BY <2>1, FirmwareAssumption DEF Touch, FwTypes
  <2> QED
    BY <2>1, <2>3, <2>4, TouchedBuild DEF FwInv, FwTypes
<1>3. CASE RestoreProv
  <2>1. Touch({}) /\ src' = src /\ bin' = bin
    BY <1>3 DEF RestoreProv
  <2>2. edits' \in 0 .. MaxEdits
    BY <2>1, FirmwareAssumption DEF Touch, FwTypes
  <2> QED
    BY <2>1, <2>2, TouchedBuild DEF FwInv, FwTypes
<1>4. CASE BuildStart
  <2>1. PICK t \in Trees : make' = {[tree |-> t, next |-> 1, touched |-> {}]}
    BY <1>4 DEF BuildStart
  <2>2. \A m \in make' : m.next <= Len(IMAGES[m.tree]) + 1
    BY <2>1, ImagesAreNumbered
  <2> QED
    BY <1>4, <2>2 DEF BuildStart, FwTypes
<1>5. CASE Compile
  <2>1. PICK m \in make, fdt \in BOOLEAN :
          /\ m.next <= Len(IMAGES[m.tree])
          /\ bin' = [bin EXCEPT ![IMAGES[m.tree][m.next]] = {Bin(Compiled(IMAGES[m.tree][m.next], src), fdt)}]
          /\ make' = {[m EXCEPT !.next = @ + 1]}
          /\ UNCHANGED <<src, edits>>
    BY <1>5 DEF Compile
  <2>2. m.tree \in Trees /\ m.next \in Nat
        /\ m = [tree |-> m.tree, next |-> m.next, touched |-> m.touched]
    BY DEF FwInv, FwShape
  <2>3. \A k \in make' : k.tree = m.tree /\ k.next = m.next + 1
    BY <2>1, <2>2
  <2>4. \A k \in make' : k.next <= Len(IMAGES[k.tree]) + 1
    BY <2>1, <2>2, <2>3, ImagesAreNumbered
  <2>5. \A i \in Images : \A b, c \in bin'[i] : b = c /\ DOMAIN b.from = Reads[i]
    BY <2>1 DEF FwInv, FwShape, FwTypes, Bin, Compiled
  <2> QED
    BY <2>1, <2>4, <2>5 DEF FwTypes
<1>6. CASE BuildFails
  BY <1>6 DEF BuildFails, FwTypes
<1>7. CASE WriteProvenance
  BY <1>7 DEF WriteProvenance, FwTypes
<1>8. CASE UNCHANGED fwVars
  BY <1>8 DEF fwVars, FwTypes
<1> QED
  BY <1>1, <1>2, <1>3, <1>4, <1>5, <1>6, <1>7, <1>8 DEF FwNext

LEMMA FwTypesAreTypes ==
  ASSUME FwInv, FwTypes
  PROVE  FwTypeOK
<1>1. \A i \in Images : Cardinality(bin[i]) <= 1 /\ \A b \in bin[i] : DOMAIN b.from = Reads[i]
  BY AtMostOne DEF FwTypes
<1>2. (\A t \in Trees : Cardinality(prov[t]) <= 1) /\ Cardinality(make) <= 1
  BY AtMostOne DEF FwInv, FwShape
<1>3. \A m \in make : m.tree \in Trees /\ m.next \in 1 .. Len(IMAGES[m.tree]) + 1
  BY ImagesAreNumbered DEF FwInv, FwShape, FwTypes
<1> QED
  BY <1>1, <1>2, <1>3 DEF FwTypeOK, FwTypes

-----------------------------------------------------------------------------
(* The card.  What is written to it never reaches p2 while a filesystem is    *)
(* kept there, and every word that has been read is accounted for.            *)

CardShape ==
  /\ DOMAIN card = 0 .. LastLba
  /\ \A p, q \in put : p = q
  /\ \A f, g \in fs : f = g
  /\ \A p \in put :
       /\ p.at \in Nat /\ Len(p.sectors) \in Nat
       /\ p = [cmd |-> p.cmd, lba |-> p.lba, sectors |-> p.sectors, image |-> p.image, at |-> p.at]

\* The host's command under way stays on its own side of p2: a kernel that
\* might reach into it is only written once no filesystem is kept there.
Aimed(p) ==
  \/ p.cmd = "write" /\ p.lba = HDR_LBA
     /\ (fs # {} => HDR_LBA + Len(p.sectors) <= ROOTFS_PART_LBA)
  \/ p.cmd = "writefs" /\ p.lba = ROOTFS_PART_LBA /\ fs = {} /\ p.image \in FsImages
     /\ p.sectors = [n \in 1 .. Len(p.image) |-> <<p.image[n]>>]
  \/ p.cmd = "partition" /\ p.lba = 0 /\ Len(p.sectors) = 1
PutInv == \A p \in put : Aimed(p)

FsInv == CardShape /\ PutInv /\ fs \subseteq FsImages /\ FsSurvives

----------------------------------------------------------------------------
LEMMA Layout ==
  /\ KERNEL_PART_SECTORS \in Nat /\ MAX_BLOCKS \in Nat /\ LastLba \in Nat
  /\ ROOTFS_PART_LBA \in Nat /\ ROOTFS_PART_LBA > 1 /\ HDR_LBA = 1
  /\ ROOTFS_PART_LBA = 1 + KERNEL_PART_SECTORS
BY CardAssumption DEF HDR_LBA, ROOTFS_PART_LBA, LastLba

LEMMA ImagesHaveLength ==
  /\ \A k \in Kernels \cup FsImages : k \in Seq(Word) /\ Len(k) \in Nat
  /\ \A f \in FsImages : ROOTFS_PART_LBA + Len(f) - 1 <= LastLba
BY CardAssumption

LEMMA PayloadLength ==
  ASSUME NEW k \in Kernels, NEW s \in BuildPayload(k)
  PROVE  Len(s) = 1 + Len(k) /\ Len(s) \in Nat /\ Len(k) \in Nat
<1> DEFINE body == [n \in 1 .. Len(k) |-> <<k[n]>>]
<1>1. Len(k) \in Nat /\ s = <<Header(k)>> \o body
  BY ImagesHaveLength DEF BuildPayload
<1>2. body \in Seq({<<w>> : w \in Word}) /\ Len(body) = Len(k)
  BY <1>1, ImagesHaveLength
<1> QED
  BY <1>1, <1>2

\* A kernel the host takes for p1 ends before p2 begins (build_payload,
\* cmd_partition).
LEMMA PayloadFits ==
  ASSUME NEW k \in Kernels, NEW s \in BuildPayload(k), FitsP1(k)
  PROVE  HDR_LBA + Len(s) <= ROOTFS_PART_LBA
BY PayloadLength, Layout DEF FitsP1

LEMMA FsInvInit == CardInit => FsInv
BY DEF CardInit, FsInv, CardShape, PutInv, FsSurvives

----------------------------------------------------------------------------
LEMMA CmdWriteKeeps ==
  ASSUME FsInv, CmdWrite
  PROVE  FsInv'
<1>1. PICK k \in Kernels : \E s \in BuildPayload(k) :
        Put("write", HDR_LBA, s, k) /\ fs' = IF FitsP1(k) THEN fs ELSE {}
  BY DEF CmdWrite
<1>2. PICK s \in BuildPayload(k) : Put("write", HDR_LBA, s, k)
  BY <1>1
<1>3. card' = card
  BY DEF CmdWrite
<1>4. fs' \subseteq fs /\ (fs' # {} => FitsP1(k))
  BY <1>1
<1>5. \A p \in put' : p = [cmd |-> "write", lba |-> HDR_LBA, sectors |-> s, image |-> k, at |-> 0]
  BY <1>2 DEF Put
<1>6. PutInv'
  BY <1>4, <1>5, PayloadFits DEF PutInv, Aimed
<1>7. CardShape'
  BY <1>3, <1>4, <1>5, PayloadLength DEF FsInv, CardShape
<1> QED
  BY <1>3, <1>4, <1>6, <1>7 DEF FsInv, FsSurvives

LEMMA CmdWriteFsKeeps ==
  ASSUME FsInv, CmdWriteFs
  PROVE  FsInv'
<1>1. PICK f \in FsImages : Put("writefs", ROOTFS_PART_LBA, [n \in 1 .. Len(f) |-> <<f[n]>>], f)
  BY DEF CmdWriteFs
<1>2. card' = card /\ fs' = {}
  BY DEF CmdWriteFs
<1>3. CardShape'
  <2>1. Len([n \in 1 .. Len(f) |-> <<f[n]>>]) \in Nat
    BY ImagesHaveLength
  <2> QED
    BY <1>1, <1>2, <2>1 DEF Put, FsInv, CardShape
<1>4. PutInv'
  BY <1>1, <1>2 DEF Put, PutInv, Aimed
<1> QED
  BY <1>2, <1>3, <1>4 DEF FsInv, FsSurvives

LEMMA CmdPartitionKeeps ==
  ASSUME FsInv, CmdPartition
  PROVE  FsInv'
<1>1. Put("partition", 0, <<Mbr>>, <<>>) /\ card' = card /\ fs' = fs
  BY DEF CmdPartition
<1>2. Len(<<Mbr>>) = 1
  OBVIOUS
<1>3. PutInv'
  BY <1>1, <1>2 DEF Put, PutInv, Aimed
<1>4. CardShape'
  BY <1>1, <1>2 DEF Put, FsInv, CardShape
<1> QED
  BY <1>1, <1>3, <1>4 DEF FsInv, FsSurvives

\* No sector the host puts lies in a filesystem that is kept.
LEMMA PutSectorKeeps ==
  ASSUME FsInv, PutSector
  PROVE  FsInv'
<1>1. PICK p \in put :
        /\ p.at < Len(p.sectors)
        /\ put' = {[p EXCEPT !.at = @ + 1]}
        /\ card' = card \/ card' = [card EXCEPT ![p.lba + p.at] = p.sectors[p.at + 1]]
        /\ fs' = fs
  BY DEF PutSector
<1>2. PICK q : /\ put' = {q} /\ q.at = p.at + 1
               /\ q = [cmd |-> p.cmd, lba |-> p.lba, sectors |-> p.sectors, image |-> p.image, at |-> q.at]
  <2>1. PICK q : q = [p EXCEPT !.at = @ + 1]
    OBVIOUS
  <2>2. p = [cmd |-> p.cmd, lba |-> p.lba, sectors |-> p.sectors, image |-> p.image, at |-> p.at]
    BY DEF FsInv, CardShape
  <2> QED
    BY <1>1, <2>1, <2>2
<1>3. p.at \in Nat /\ Len(p.sectors) \in Nat /\ Aimed(p)
  BY DEF FsInv, CardShape, PutInv
<1>4. CardShape'
  BY <1>1, <1>2, <1>3 DEF FsInv, CardShape
<1>5. PutInv'
  <2>1. q.cmd = p.cmd /\ q.lba = p.lba /\ q.sectors = p.sectors /\ q.image = p.image
    BY <1>2
  <2>2. Aimed(q)'
    BY <1>1, <1>3, <2>1 DEF Aimed
  <2> QED
    BY <1>2, <2>2 DEF PutInv
<1>6. ASSUME NEW f \in fs, NEW n \in 1 .. Len(f)
      PROVE  card'[ROOTFS_PART_LBA + n - 1] = <<f[n]>>
  <2>1. card[ROOTFS_PART_LBA + n - 1] = <<f[n]>> /\ f \in FsImages
    BY DEF FsInv, FsSurvives
  <2>2. p.lba + p.at < ROOTFS_PART_LBA
    <3>1. \/ p.lba = 1 /\ 1 + Len(p.sectors) <= ROOTFS_PART_LBA
          \/ p.lba = 0 /\ Len(p.sectors) = 1
      BY <1>3, Layout DEF Aimed
    <3>2. p.at < Len(p.sectors) /\ p.at \in Nat /\ Len(p.sectors) \in Nat
      BY <1>1, <1>3
    <3>3. CASE p.lba = 1 /\ 1 + Len(p.sectors) <= ROOTFS_PART_LBA
      BY <3>2, <3>3, Layout
    <3>4. CASE p.lba = 0 /\ Len(p.sectors) = 1
      BY <3>2, <3>4, Layout
    <3> QED
      BY <3>1, <3>3, <3>4
  <2>3. ROOTFS_PART_LBA + n - 1 \in DOMAIN card /\ ROOTFS_PART_LBA + n - 1 # p.lba + p.at
    BY <2>1, <2>2, Layout, ImagesHaveLength DEF FsInv, CardShape
  <2> QED
    BY <1>1, <2>1, <2>3
<1> QED
  BY <1>1, <1>4, <1>5, <1>6 DEF FsInv, FsSurvives

\* What is read back right is kept; from then on it is there.
LEMMA VerifyKeeps ==
  ASSUME FsInv, Verify
  PROVE  FsInv'
<1>1. PICK p \in put :
        /\ put' = {} /\ card' = card
        /\ fs' = IF p.cmd = "writefs" /\ ReadBack(p) = p.sectors THEN {p.image} ELSE fs
  BY DEF Verify
<1>2. CardShape' /\ PutInv'
  BY <1>1 DEF FsInv, CardShape, PutInv
<1>3. CASE fs' = fs
  BY <1>1, <1>2, <1>3 DEF FsInv, FsSurvives
<1>4. CASE fs' # fs
  <2>1. p.cmd = "writefs" /\ ReadBack(p) = p.sectors /\ fs' = {p.image}
    BY <1>1, <1>4
  <2>2. /\ p.lba = ROOTFS_PART_LBA /\ p.image \in FsImages
        /\ p.sectors = [n \in 1 .. Len(p.image) |-> <<p.image[n]>>]
    BY <2>1 DEF FsInv, PutInv, Aimed
  <2>3. Len(p.image) \in Nat
    BY <2>2, ImagesHaveLength
  <2>4. Len(p.sectors) = Len(p.image)
    BY <2>2, <2>3
  <2>5. \A n \in 1 .. Len(p.image) : card[ROOTFS_PART_LBA + n - 1] = <<p.image[n]>>
    BY <2>1, <2>2, <2>4 DEF ReadBack
  <2> QED
    BY <1>1, <1>2, <2>1, <2>2, <2>5 DEF FsInv, FsSurvives
<1> QED
  BY <1>3, <1>4

LEMMA BoardKeeps ==
  ASSUME FsInv, UNCHANGED <<card, put, fs>>
  PROVE  FsInv'
BY DEF FsInv, CardShape, PutInv, Aimed, FsSurvives

LEMMA MoveCardKeeps ==
  ASSUME FsInv, MoveCard
  PROVE  FsInv'
BY DEF MoveCard, FsInv, CardShape, PutInv, FsSurvives

\* The board only reads the card.
LEMMA LoadLeavesCard ==
  ASSUME NEW dtb, LoadNext \/ BootTarget(dtb)
  PROVE  UNCHANGED <<card, put, fs, slot, asked, kept>>
BY DEF LoadNext, BootTarget, PowerOn, Reset, PowerOff, Restart, SdInit, SdHeader, SdBlock, SdSum,
       hostVars

LEMMA FsInvStep ==
  ASSUME FsInv, NEW dtb, HostNext \/ LoadNext \/ BootTarget(dtb) \/ UNCHANGED cardVars
  PROVE  FsInv'
<1>1. CASE HostNext
  BY <1>1, CmdWriteKeeps, CmdWriteFsKeeps, CmdPartitionKeeps, PutSectorKeeps, VerifyKeeps,
     MoveCardKeeps DEF HostNext
<1>2. CASE LoadNext \/ BootTarget(dtb)
  BY <1>2, LoadLeavesCard, BoardKeeps
<1>3. CASE UNCHANGED cardVars
  BY <1>3, BoardKeeps DEF cardVars
<1> QED
  BY <1>1, <1>2, <1>3

----------------------------------------------------------------------------
(* Types.                                                                    *)
LoadOk(l) ==
  /\ l = [b |-> l.b, blocks |-> l.blocks, want |-> l.want, sum |-> l.sum, bad |-> l.bad]
  /\ l.blocks \in 0 .. MAX_BLOCKS /\ l.b \in 0 .. l.blocks
CardTypes ==
  /\ slot \in {"host", "board"} /\ kept \in BOOLEAN
  /\ \A k, l \in asked : k = l
  /\ ram \in [1 .. MAX_BLOCKS -> Word]
  /\ pc \in {"off", "init", "header", "block", "target", "run"}
  /\ said \in {"", "timed out", "checksum", "ok"}
  /\ LoadOk(ld) /\ harm \in 0 .. MaxHarm

LEMMA AtMostOneOf ==
  ASSUME NEW S, \A x, y \in S : x = y
  PROVE  Cardinality(S) <= 1
<1>1. CASE S = {}
  BY <1>1, FS_EmptySet
<1>2. ASSUME NEW x \in S
      PROVE  Cardinality(S) <= 1
  <2>1. S = {x}
    OBVIOUS
  <2> QED
    BY <2>1, FS_Singleton
<1> QED
  BY <1>1, <1>2

LEMMA ZeroIsAWord == 0 \in Word /\ MaxHarm \in Nat
BY CardAssumption DEF Word, MAGIC2

LEMMA LoadsAreOk ==
  /\ LoadOk(NoLoad)
  /\ \A bad : LoadOk([NoLoad EXCEPT !.bad = bad])
  /\ \A n \in 1 .. MAX_BLOCKS : \A w : LoadOk([NoLoad EXCEPT !.blocks = n, !.want = w])
  /\ \A l, sum, bad : (LoadOk(l) /\ l.b < l.blocks) =>
       LoadOk([l EXCEPT !.b = @ + 1, !.sum = sum, !.bad = bad])
<1>1. MAX_BLOCKS \in Nat
  BY CardAssumption
<1>2. LoadOk(NoLoad)
  BY <1>1 DEF LoadOk, NoLoad
<1>3. ASSUME NEW bad PROVE LoadOk([NoLoad EXCEPT !.bad = bad])
  BY <1>1 DEF LoadOk, NoLoad
<1>4. ASSUME NEW n \in 1 .. MAX_BLOCKS, NEW w
      PROVE  LoadOk([NoLoad EXCEPT !.blocks = n, !.want = w])
  <2>1. PICK k : k = [NoLoad EXCEPT !.blocks = n, !.want = w]
    OBVIOUS
  <2>2. k = [b |-> 0, blocks |-> n, want |-> w, sum |-> 0, bad |-> 0]
    BY <2>1 DEF NoLoad
  <2>3. n \in 0 .. MAX_BLOCKS /\ 0 \in 0 .. n
    BY <1>1
  <2>4. k.b = 0 /\ k.blocks = n /\ k.want = w /\ k.sum = 0 /\ k.bad = 0
    BY <2>2
  <2>5. LoadOk(k)
    BY <1>1, <2>2, <2>3, <2>4 DEF LoadOk
  <2> QED
    BY <2>1, <2>5
<1>5. ASSUME NEW l, NEW sum, NEW bad, LoadOk(l), l.b < l.blocks
      PROVE  LoadOk([l EXCEPT !.b = @ + 1, !.sum = sum, !.bad = bad])
  <2>1. PICK k : k = [l EXCEPT !.b = @ + 1, !.sum = sum, !.bad = bad]
    OBVIOUS
  <2>2. /\ k.blocks = l.blocks /\ k.b = l.b + 1
        /\ k = [b |-> k.b, blocks |-> k.blocks, want |-> k.want, sum |-> k.sum, bad |-> k.bad]
    BY <1>5, <2>1 DEF LoadOk
  <2>3. k.blocks \in 0 .. MAX_BLOCKS /\ k.b \in 0 .. k.blocks
    BY <1>1, <1>5, <2>2 DEF LoadOk
  <2> QED
    BY <2>1, <2>2, <2>3 DEF LoadOk
<1> QED
  BY <1>2, <1>3, <1>4, <1>5

LEMMA CardTypesInit == CardInit => CardTypes
<1> SUFFICES ASSUME CardInit PROVE CardTypes
  OBVIOUS
<1>1. ram \in [1 .. MAX_BLOCKS -> Word]
  <2>1. [n \in 1 .. MAX_BLOCKS |-> 0] \in [1 .. MAX_BLOCKS -> Word]
    BY ZeroIsAWord
  <2> QED
    BY <2>1 DEF CardInit
<1>2. harm \in 0 .. MaxHarm
  <2>1. 0 \in 0 .. MaxHarm
    BY ZeroIsAWord
  <2> QED
    BY <2>1 DEF CardInit
<1> QED
  BY <1>1, <1>2, LoadsAreOk DEF CardInit, CardTypes

LEMMA HostTypes ==
  ASSUME CardTypes, HostNext
  PROVE  CardTypes'
<1> USE DEF CardTypes, boardVars
<1>1. CASE CmdWrite
  <2>1. PICK k : asked' = {k}
    BY <1>1 DEF CmdWrite
  <2>2. UNCHANGED <<slot, boardVars, harm>> /\ kept' = FALSE
    BY <1>1 DEF CmdWrite
  <2> QED
    BY <2>1, <2>2
<1>2. CASE CmdWriteFs
  BY <1>2 DEF CmdWriteFs
<1>3. CASE CmdPartition
  BY <1>3 DEF CmdPartition
<1>4. CASE PutSector
  <2>1. UNCHANGED <<slot, asked, kept, boardVars>>
    BY <1>4 DEF PutSector
  <2>2. harm' = harm \/ (harm < MaxHarm /\ harm' = harm + 1)
    BY <1>4 DEF PutSector
  <2>3. harm' \in 0 .. MaxHarm
    <3>1. harm \in 0 .. MaxHarm
      OBVIOUS
    <3> HIDE DEF CardTypes
    <3> QED
      BY <2>2, <3>1, ZeroIsAWord
  <2> QED
    BY <2>1, <2>3
<1>5. CASE Verify
  <2>1. UNCHANGED <<slot, asked, boardVars, harm>>
    BY <1>5 DEF Verify
  <2>2. kept' \in BOOLEAN
    BY <1>5 DEF Verify
  <2> QED
    BY <2>1, <2>2
<1>6. CASE MoveCard
  BY <1>6 DEF MoveCard
<1> QED
  BY <1>1, <1>2, <1>3, <1>4, <1>5, <1>6 DEF HostNext

LEMMA BoardTypes ==
  ASSUME CardTypes, NEW dtb, LoadNext \/ BootTarget(dtb)
  PROVE  CardTypes'
<1> USE DEF CardTypes
<1>0. UNCHANGED <<slot, asked, kept>>
  BY LoadLeavesCard
<1>1. [n \in 1 .. MAX_BLOCKS |-> 0] \in [1 .. MAX_BLOCKS -> Word]
  BY ZeroIsAWord
<1>2. ASSUME NEW words, Return(words)
      PROVE  LoadOk(ld') /\ pc' = "target" /\ said' = words
  BY <1>2, LoadsAreOk DEF Return
<1>3. CASE PowerOn \/ Reset \/ PowerOff
  <2>1. ld' = NoLoad /\ said' = "" /\ harm' = harm /\ pc' \in {"init", "off"}
    BY <1>3 DEF PowerOn, Reset, PowerOff, Restart
  <2>2. ram' = ram \/ ram' = [n \in 1 .. MAX_BLOCKS |-> 0]
    BY <1>3 DEF PowerOn, Reset, PowerOff, Restart
  <2>3. LoadOk(ld')
    BY <2>1, LoadsAreOk
  <2> QED
    BY <1>0, <1>1, <2>1, <2>2, <2>3
<1>4. CASE SdInit
  <2>1. ram' = ram /\ harm' = harm
    BY <1>4 DEF SdInit
  <2>2. (pc' = "header" /\ said' = said /\ ld' = ld) \/ Return("")
    BY <1>4 DEF SdInit
  <2> QED
    BY <1>0, <1>2, <2>1, <2>2
<1>5. CASE SdHeader
  <2>1. ram' = ram /\ harm' = harm
    BY <1>5 DEF SdHeader
  <2>2. CASE Return("")
    BY <1>0, <1>2, <2>1, <2>2
  <2>3. CASE ~Return("")
    <3>1. PICK h : /\ HeaderOk(h) /\ pc' = "block" /\ said' = said
                   /\ ld' = [NoLoad EXCEPT !.blocks = h[3], !.want = h[5]]
      BY <1>5, <2>3 DEF SdHeader
    <3>2. h[3] \in 1 .. MAX_BLOCKS
      BY <3>1 DEF HeaderOk
    <3>3. LoadOk(ld')
      BY <3>1, <3>2, LoadsAreOk
    <3> QED
      BY <1>0, <2>1, <3>1, <3>3
  <2> QED
    BY <2>2, <2>3
<1>6. CASE SdBlock
  <2>1. CASE Return("timed out") /\ UNCHANGED <<ram, harm>>
    BY <1>0, <1>2, <2>1
  <2>2. CASE ~(Return("timed out") /\ UNCHANGED <<ram, harm>>)
    <3>1. PICK w \in Word, wrong \in {0, 1} :
            /\ harm + wrong <= MaxHarm /\ harm' = harm + wrong
            /\ ram' = [ram EXCEPT ![ld.b + 1] = w]
            /\ ld' = [ld EXCEPT !.b = @ + 1, !.sum = (@ + w) % WORDS, !.bad = @ + wrong]
            /\ pc' = pc /\ said' = said
      BY <1>6, <2>2 DEF SdBlock
    <3>2. ld.b < ld.blocks
      BY <1>6 DEF SdBlock
    <3>3. LoadOk(ld')
      BY <3>1, <3>2, LoadsAreOk
    <3>4. harm' \in 0 .. MaxHarm
      <4>1. harm \in 0 .. MaxHarm
        OBVIOUS
      <4>2. harm' = harm + wrong /\ harm + wrong <= MaxHarm
        BY <3>1
      <4> HIDE DEF CardTypes
      <4> QED
        BY <4>1, <4>2, ZeroIsAWord
    <3> QED
      BY <1>0, <3>1, <3>3, <3>4
  <2> QED
    BY <2>1, <2>2
<1>7. CASE SdSum
  <2>1. PICK words \in {"ok", "checksum"} : Return(words)
    BY <1>7 DEF SdSum
  <2>2. ram' = ram /\ harm' = harm
    BY <1>7 DEF SdSum
  <2> QED
    BY <1>0, <1>2, <2>1, <2>2
<1>8. CASE BootTarget(dtb)
  <2>1. pc' = "run" /\ said' = "" /\ ld' = NoLoad /\ ram' = ram /\ harm' = harm
    BY <1>8 DEF BootTarget
  <2>2. LoadOk(ld')
    BY <2>1, LoadsAreOk
  <2> QED
    BY <1>0, <2>1, <2>2
<1> QED
  BY <1>3, <1>4, <1>5, <1>6, <1>7, <1>8 DEF LoadNext

LEMMA CardTypesAreTypes ==
  ASSUME FsInv, CardTypes
  PROVE  CardTypeOK
BY AtMostOneOf DEF CardTypeOK, CardTypes, LoadOk, FsInv, CardShape

-----------------------------------------------------------------------------
(* The load.  The loader's sum is the running sum of what it stored, the      *)
(* header's is that of what was to be stored, and two sums over words that    *)
(* differ in one place differ.  Inductions are by least counterexample.       *)

\* A nonempty set of naturals has a least member.
LEMMA LeastMember ==
  ASSUME NEW T \in SUBSET Nat, T # {}
  PROVE  \E x \in T : \A y \in T : x <= y
<1>1. PICK x \in T : \A y \in T : ~(<<y, x>> \in OpToRel(<, Nat))
  BY NatLessThanWellFounded, WFMin
<1>2. \A y \in T : ~(y < x)
  BY <1>1 DEF OpToRel
<1> QED
  BY <1>2

\* f is the running sum of v's first m words.
Runs(f, m, v) ==
  /\ f \in [0 .. m -> Word] /\ f[0] = 0
  /\ \A n \in 1 .. m : f[n] = (f[n - 1] + v[n]) % WORDS

LEMMA WordsAdd ==
  ASSUME NEW x \in Word, NEW y \in Word
  PROVE  /\ (x + y) % WORDS = IF x + y < WORDS THEN x + y ELSE x + y - WORDS
         /\ (x + y) % WORDS \in Word
<1>1. WORDS \in Nat \ {0} /\ x \in 0 .. WORDS - 1 /\ y \in 0 .. WORDS - 1
  BY CardAssumption DEF Word, MAGIC2
<1>2. ASSUME NEW M \in Nat \ {0}, NEW k \in 0 .. M - 1 PROVE k % M = k /\ (k + M) % M = k
  OBVIOUS
<1>3. CASE x + y < WORDS
  <2>1. x + y \in 0 .. WORDS - 1
    BY <1>1, <1>3
  <2>2. (x + y) % WORDS = x + y
    BY <1>1, <1>2, <2>1
  <2> QED
    BY <1>3, <2>1, <2>2 DEF Word
<1>4. CASE ~(x + y < WORDS)
  <2>1. x + y - WORDS \in 0 .. WORDS - 1 /\ x + y = (x + y - WORDS) + WORDS
    BY <1>1, <1>4
  <2>2. (x + y) % WORDS = x + y - WORDS
    BY <1>1, <1>2, <2>1
  <2> QED
    BY <1>4, <2>1, <2>2 DEF Word
<1> QED
  BY <1>3, <1>4

\* Different totals stay different when the same word is added to both, and one
\* total becomes two when different words are.
LEMMA WordsTellApart ==
  ASSUME NEW x \in Word, NEW y \in Word, NEW w \in Word, x # y
  PROVE  /\ (x + w) % WORDS # (y + w) % WORDS
         /\ (w + x) % WORDS # (w + y) % WORDS
<1>1. WORDS \in Nat \ {0} /\ x \in 0 .. WORDS - 1 /\ y \in 0 .. WORDS - 1 /\ w \in 0 .. WORDS - 1
  BY CardAssumption DEF Word, MAGIC2
<1>2. /\ (x + w) % WORDS = IF x + w < WORDS THEN x + w ELSE x + w - WORDS
      /\ (y + w) % WORDS = IF y + w < WORDS THEN y + w ELSE y + w - WORDS
      /\ (w + x) % WORDS = IF w + x < WORDS THEN w + x ELSE w + x - WORDS
      /\ (w + y) % WORDS = IF w + y < WORDS THEN w + y ELSE w + y - WORDS
  BY WordsAdd
<1> QED
  BY <1>1, <1>2

LEMMA NothingRuns ==
  ASSUME NEW v
  PROVE  Runs([n \in 0 .. 0 |-> 0], 0, v)
<1>1. 0 \in Word
  BY CardAssumption DEF Word, MAGIC2
<1>2. [n \in 0 .. 0 |-> 0] \in [0 .. 0 -> Word] /\ [n \in 0 .. 0 |-> 0][0] = 0
  BY <1>1
<1> QED
  BY <1>2 DEF Runs

LEMMA OneMoreRuns ==
  ASSUME NEW m \in Nat, NEW v, NEW f, Runs(f, m, v), v[m + 1] \in Word
  PROVE  \E g : Runs(g, m + 1, v) /\ g[m + 1] = (f[m] + v[m + 1]) % WORDS
<1> DEFINE next == (f[m] + v[m + 1]) % WORDS
           g == [n \in 0 .. m + 1 |-> IF n <= m THEN f[n] ELSE next]
<1>1. f[m] \in Word /\ \A n \in 0 .. m : f[n] \in Word
  BY DEF Runs
<1>2. next \in Word
  BY <1>1, WordsAdd
<1> HIDE DEF next
<1>3. g \in [0 .. m + 1 -> Word] /\ g[m + 1] = next /\ \A n \in 0 .. m : g[n] = f[n]
  BY <1>1, <1>2
<1> HIDE DEF g
<1>4. ASSUME NEW n \in 1 .. m + 1
      PROVE  g[n] = (g[n - 1] + v[n]) % WORDS
  <2>1. CASE n = m + 1
    <3>1. n - 1 = m /\ m \in 0 .. m
      BY <2>1
    <3> QED
      BY <1>3, <2>1, <3>1 DEF next
  <2>2. CASE n # m + 1
    <3>1. n \in 1 .. m /\ n \in 0 .. m /\ n - 1 \in 0 .. m
      BY <2>2
    <3> QED
      BY <1>3, <3>1 DEF Runs
  <2> QED
    BY <2>1, <2>2
<1>5. g[0] = 0
  BY <1>3 DEF Runs
<1> QED
  BY <1>3, <1>4, <1>5 DEF Runs, next

\* SumOf is the last of the running sums (build_payload).
LEMMA SumIs ==
  ASSUME NEW s \in Seq(Word)
  PROVE  \E f : Runs(f, Len(s), s) /\ f[Len(s)] = SumOf(s)
<1> DEFINE Left == {m \in 0 .. Len(s) : ~(\E f : Runs(f, m, s))}
<1>1. Len(s) \in Nat /\ \A n \in 1 .. Len(s) : s[n] \in Word
  OBVIOUS
<1>2. Left = {}
  <2> SUFFICES ASSUME Left # {} PROVE FALSE
    OBVIOUS
  <2>1. Left \in SUBSET Nat
    BY <1>1
  <2>2. PICK m \in Left : \A n \in Left : m <= n
    <3> HIDE DEF Left
    <3> QED
      BY <2>1, LeastMember
  <2>8. m \in 0 .. Len(s) /\ ~(\E f : Runs(f, m, s))
    BY <2>2
  <2>3. m \in Nat /\ m # 0 /\ m <= Len(s)
    <3>1. m # 0
      BY <2>8, NothingRuns
    <3> QED
      BY <1>1, <2>8, <3>1
  <2>4. m - 1 \in 0 .. Len(s) /\ m - 1 \notin Left
    <3>1. m - 1 \in 0 .. Len(s) /\ ~(m <= m - 1)
      BY <1>1, <2>3
    <3> HIDE DEF Left
    <3> QED
      BY <2>2, <3>1
  <2>5. PICK f : Runs(f, m - 1, s)
    BY <2>4
  <2>6. m - 1 \in Nat /\ (m - 1) + 1 = m /\ m \in 1 .. Len(s)
    BY <1>1, <2>3
  <2>7. \E g : Runs(g, m, s)
    BY <1>1, <2>5, <2>6, OneMoreRuns
  <2> QED
    BY <2>2, <2>7
<1>3. PICK f : Runs(f, Len(s), s)
  <2>1. Len(s) \in 0 .. Len(s)
    BY <1>1
  <2> QED
    BY <1>2, <2>1
<1> DEFINE Is(g) == g = [n \in 0 .. Len(s) |-> IF n = 0 THEN 0 ELSE (g[n - 1] + s[n]) % WORDS]
           sum == CHOOSE g : Is(g)
<1>4. Is(f)
  <2>1. \A n \in 0 .. Len(s) : f[n] = IF n = 0 THEN 0 ELSE (f[n - 1] + s[n]) % WORDS
    <3> TAKE n \in 0 .. Len(s)
    <3>1. n # 0 => n \in 1 .. Len(s)
      BY <1>1
    <3> QED
      BY <1>3, <3>1 DEF Runs
  <2>2. f = [n \in 0 .. Len(s) |-> f[n]]
    BY <1>3 DEF Runs
  <2> QED
    BY <2>1, <2>2
<1>5. SumOf(s) = sum[Len(s)]
  BY DEF SumOf
<1>6. Is(sum)
  <2> HIDE DEF Is
  <2> QED
    BY <1>4
<1> HIDE DEF sum
<1>7. sum = f
  <2> DEFINE Off == {n \in 0 .. Len(s) : sum[n] # f[n]}
  <2>1. /\ DOMAIN sum = 0 .. Len(s) /\ sum = [n \in 0 .. Len(s) |-> sum[n]]
        /\ \A n \in 0 .. Len(s) : sum[n] = IF n = 0 THEN 0 ELSE (sum[n - 1] + s[n]) % WORDS
    BY <1>6
  <2>2. f = [n \in 0 .. Len(s) |-> f[n]]
    BY <1>3 DEF Runs
  <2>3. Off = {}
    <3> SUFFICES ASSUME Off # {} PROVE FALSE
      OBVIOUS
    <3>1. Off \in SUBSET Nat
      BY <1>1
    <3>2. PICK n \in Off : \A m \in Off : n <= m
      <4> HIDE DEF Off
      <4> QED
        BY <3>1, LeastMember
    <3>7. n \in 0 .. Len(s) /\ sum[n] # f[n]
      BY <3>2
    <3>3. n \in 0 .. Len(s) /\ n # 0 /\ n \in 1 .. Len(s)
      <4>1. sum[0] = 0 /\ f[0] = 0
        <5>1. 0 \in 0 .. Len(s)
          BY <1>1
        <5> QED
          BY <1>3, <2>1, <5>1 DEF Runs
      <4>2. n # 0
        BY <3>7, <4>1
      <4> QED
        BY <1>1, <3>7, <4>2
    <3>4. n - 1 \in 0 .. Len(s) /\ n - 1 \notin Off
      BY <1>1, <3>1, <3>2, <3>3
    <3>5. sum[n - 1] = f[n - 1]
      BY <3>4
    <3>6. sum[n] = f[n]
      BY <1>3, <2>1, <3>3, <3>5 DEF Runs
    <3> QED
      BY <3>2, <3>6
  <2> QED
    BY <2>1, <2>2, <2>3
<1> QED
  BY <1>3, <1>5, <1>7

\* Two sums over words that differ in one place differ.
LEMMA OneWordShows ==
  ASSUME NEW m \in Nat, NEW u, NEW v, NEW f, NEW g, Runs(f, m, u), Runs(g, m, v),
         NEW i \in 1 .. m, u[i] # v[i],
         \A n \in 1 .. m : u[n] \in Word /\ v[n] \in Word /\ (n # i => u[n] = v[n])
  PROVE  f[m] # g[m]
<1> DEFINE Off == {n \in 0 .. m : (n < i) # (f[n] = g[n])}
<1>1. Off = {}
  <2> SUFFICES ASSUME Off # {} PROVE FALSE
    OBVIOUS
  <2>1. Off \in SUBSET Nat
    OBVIOUS
  <2>2. PICK n \in Off : \A j \in Off : n <= j
    <3> HIDE DEF Off
    <3> QED
      BY <2>1, LeastMember
  <2>3. n \in 1 .. m
    <3>1. f[0] = g[0] /\ 0 < i
      BY DEF Runs
    <3> QED
      BY <3>1
  <2>4. n - 1 \in 0 .. m /\ n - 1 \notin Off
    BY <2>1, <2>2, <2>3
  <2>5. /\ f[n - 1] \in Word /\ g[n - 1] \in Word
        /\ f[n] = (f[n - 1] + u[n]) % WORDS /\ g[n] = (g[n - 1] + v[n]) % WORDS
    BY <2>3, <2>4 DEF Runs
  <2>6. (n - 1 < i) <=> (f[n - 1] = g[n - 1])
    BY <2>4
  <2>7. CASE n < i
    <3>1. f[n - 1] = g[n - 1] /\ u[n] = v[n]
      BY <2>3, <2>6, <2>7
    <3> QED
      BY <2>2, <2>5, <2>7, <3>1
  <2>8. CASE n = i
    <3>1. f[n - 1] = g[n - 1] /\ u[n] # v[n] /\ u[n] \in Word /\ v[n] \in Word
      BY <2>3, <2>6, <2>8
    <3>2. f[n] # g[n]
      BY <2>5, <3>1, WordsTellApart
    <3> QED
      BY <2>2, <2>8, <3>2
  <2>9. CASE n > i
    <3>1. f[n - 1] # g[n - 1] /\ u[n] = v[n] /\ u[n] \in Word
      BY <2>3, <2>6, <2>9
    <3>2. f[n] # g[n]
      BY <2>5, <3>1, WordsTellApart
    <3> QED
      BY <2>2, <2>9, <3>2
  <2> QED
    BY <2>3, <2>7, <2>8, <2>9
<1>2. m \in 0 .. m /\ ~(m < i)
  OBVIOUS
<1> QED
  BY <1>1, <1>2

----------------------------------------------------------------------------
\* The first m words of v come to total.
RunsTo(m, v, total) == \E f : Runs(f, m, v) /\ f[m] = total
\* Of v's first m words, those that are not the card c's.
Garbled(m, v, c) == {n \in 1 .. m : v[n] # c[HDR_LBA + n][1]}
Loaded == card[HDR_LBA]

\* A write that was read back right is still there.
WriteInv ==
  /\ put # {} => slot = "host"
  /\ asked \subseteq Kernels
  /\ \A p \in put : p.cmd = "write" => /\ asked = {p.image} /\ ~kept
                                       /\ p.sectors \in BuildPayload(p.image)
  /\ kept => \A k \in asked : FitsP1(k) =>
               \A n \in 1 .. Len(k) : card[HDR_LBA + n] = <<k[n]>>

\* What has been loaded comes to the sum, and is the card's but for what was
\* garbled on the way.
LoadInv ==
  /\ pc \notin {"off", "run"} => slot = "board"
  /\ ld.bad \in Nat
  /\ pc = "block" => /\ HeaderOk(Loaded) /\ ld.blocks = Loaded[3] /\ ld.want = Loaded[5]
                     /\ RunsTo(ld.b, ram, ld.sum) /\ Cardinality(Garbled(ld.b, ram, card)) <= ld.bad
  /\ pc = "target" /\ said = "ok" =>
       /\ HeaderOk(Loaded) /\ RunsTo(Loaded[3], ram, Loaded[5])
       /\ Cardinality(Garbled(Loaded[3], ram, card)) <= ld.bad

LEMMA PayloadIs ==
  ASSUME NEW k \in Kernels, NEW s \in BuildPayload(k)
  PROVE  /\ Len(s) = 1 + Len(k) /\ Len(k) \in Nat
         /\ \A n \in 1 .. Len(k) : s[n + 1] = <<k[n]>>
<1> DEFINE body == [n \in 1 .. Len(k) |-> <<k[n]>>]
<1>1. Len(k) \in Nat /\ s = <<Header(k)>> \o body
  BY ImagesHaveLength DEF BuildPayload
<1>2. body \in Seq({<<w>> : w \in Word}) /\ Len(body) = Len(k)
      /\ \A n \in 1 .. Len(k) : body[n] = <<k[n]>>
  BY <1>1, ImagesHaveLength
<1> HIDE DEF body
<1>3. Len(s) = 1 + Len(body) /\ \A n \in 1 .. Len(body) : s[1 + n] = body[n]
  BY <1>1, <1>2
<1> QED
  BY <1>1, <1>2, <1>3

LEMMA WriteInvInit == CardInit => WriteInv
BY DEF CardInit, WriteInv

\* The host's commands, of which only a write is for p1.
LEMMA WriteInvHost ==
  ASSUME WriteInv, FsInv, HostNext
  PROVE  WriteInv'
<1>1. CASE CmdWrite
  <2>5. PICK k \in Kernels : \E s \in BuildPayload(k) :
          Put("write", HDR_LBA, s, k) /\ asked' = {k} /\ kept' = FALSE
    BY <1>1 DEF CmdWrite
  <2>1. PICK s \in BuildPayload(k) :
          Put("write", HDR_LBA, s, k) /\ asked' = {k} /\ kept' = FALSE
    BY <2>5
  <2>2. slot' = slot /\ slot = "host"
    BY <1>1 DEF CmdWrite
  <2>3. \A p \in put' : p = [cmd |-> "write", lba |-> HDR_LBA, sectors |-> s, image |-> k, at |-> 0]
    BY <2>1 DEF Put
  <2>4. \A p \in put' : p.image = k /\ p.sectors = s
    BY <2>3
  <2> QED
    BY <2>1, <2>2, <2>4 DEF WriteInv
<1>2. CASE CmdWriteFs
  <2>1. PICK f \in FsImages : Put("writefs", ROOTFS_PART_LBA, [n \in 1 .. Len(f) |-> <<f[n]>>], f)
    BY <1>2 DEF CmdWriteFs
  <2>2. UNCHANGED <<card, slot, asked, kept>> /\ slot = "host"
    BY <1>2 DEF CmdWriteFs
  <2>3. \A p \in put' : p.cmd # "write"
    BY <2>1 DEF Put
  <2> QED
    BY <2>2, <2>3 DEF WriteInv
<1>3. CASE CmdPartition
  <2>1. Put("partition", 0, <<Mbr>>, <<>>) /\ UNCHANGED <<card, slot, asked, kept>> /\ slot = "host"
    BY <1>3 DEF CmdPartition
  <2>2. \A p \in put' : p.cmd # "write"
    BY <2>1 DEF Put
  <2> QED
    BY <2>1, <2>2 DEF WriteInv
<1>4. CASE PutSector
  <2>1. PICK p \in put :
          /\ p.at < Len(p.sectors)
          /\ put' = {[p EXCEPT !.at = @ + 1]}
          /\ card' = card \/ card' = [card EXCEPT ![p.lba + p.at] = p.sectors[p.at + 1]]
          /\ UNCHANGED <<slot, asked, kept>>
    BY <1>4 DEF PutSector
  <2>2. PICK q : put' = {q} /\ q = [p EXCEPT !.at = @ + 1]
    BY <2>1
  <2>3. q.cmd = p.cmd /\ q.sectors = p.sectors /\ q.image = p.image
    <3>1. p = [cmd |-> p.cmd, lba |-> p.lba, sectors |-> p.sectors, image |-> p.image, at |-> p.at]
      BY DEF FsInv, CardShape
    <3> QED
      BY <2>2, <3>1
  <2>4. p.at \in Nat /\ Len(p.sectors) \in Nat /\ Aimed(p) /\ DOMAIN card = 0 .. LastLba
    BY DEF FsInv, CardShape, PutInv
  <2>5. ASSUME kept, NEW k \in asked, FitsP1(k), NEW n \in 1 .. Len(k)
        PROVE  card'[HDR_LBA + n] = <<k[n]>>
    <3>1. card[HDR_LBA + n] = <<k[n]>> /\ p.cmd # "write" /\ k \in Kernels
      BY <2>5 DEF WriteInv
    <3>2. Len(k) \in Nat /\ Len(k) < KERNEL_PART_SECTORS
      BY <2>5, <3>1, ImagesHaveLength DEF FitsP1
    <3>3. (p.lba = 0 /\ p.at = 0) \/ p.lba = ROOTFS_PART_LBA
      <4>1. (p.lba = 0 /\ Len(p.sectors) = 1) \/ p.lba = ROOTFS_PART_LBA
        BY <2>4, <3>1 DEF Aimed
      <4>2. Len(p.sectors) = 1 => p.at = 0
        BY <2>1, <2>4
      <4> QED
        BY <4>1, <4>2
    <3>4. HDR_LBA + n # p.lba + p.at
      <4>1. n \in Nat /\ n > 0 /\ n < KERNEL_PART_SECTORS
        BY <3>2, Layout
      <4> QED
        BY <2>4, <3>3, <4>1, Layout
    <3>5. card'[HDR_LBA + n] = card[HDR_LBA + n]
      <4>1. CASE card' = card
        BY <4>1
      <4>2. CASE card' = [card EXCEPT ![p.lba + p.at] = p.sectors[p.at + 1]]
        <5>1. HDR_LBA + n \in DOMAIN card
          <6>1. n \in Nat /\ n < KERNEL_PART_SECTORS /\ KERNEL_PART_SECTORS <= MAX_BLOCKS
            BY <3>2, Layout, CardAssumption
          <6> QED
            BY <2>4, <6>1, Layout DEF LastLba
        <5> QED
          BY <3>4, <4>2, <5>1
      <4> QED
        BY <2>1, <4>1, <4>2
    <3> QED
      BY <3>1, <3>5
  <2> QED
    BY <2>1, <2>2, <2>3, <2>5 DEF WriteInv
<1>5. CASE Verify
  <2>1. PICK p \in put :
          /\ put' = {} /\ UNCHANGED <<card, slot, asked>>
          /\ kept' = IF p.cmd = "write" THEN ReadBack(p) = p.sectors ELSE kept
    BY <1>5 DEF Verify
  <2>2. CASE p.cmd # "write"
    BY <2>1, <2>2 DEF WriteInv
  <2>3. CASE p.cmd = "write"
    <3>1. asked = {p.image} /\ p.sectors \in BuildPayload(p.image) /\ p.image \in Kernels
      BY <2>3 DEF WriteInv
    <3>2. p.lba = HDR_LBA
      BY <2>3 DEF FsInv, PutInv, Aimed
    <3>3. /\ Len(p.sectors) = 1 + Len(p.image) /\ Len(p.image) \in Nat
          /\ \A n \in 1 .. Len(p.image) : p.sectors[n + 1] = <<p.image[n]>>
      BY <3>1, PayloadIs
    <3>4. ASSUME kept', NEW n \in 1 .. Len(p.image)
          PROVE  card[HDR_LBA + n] = <<p.image[n]>>
      <4>1. ReadBack(p) = p.sectors
        BY <2>1, <2>3, <3>4
      <4>2. n + 1 \in 1 .. Len(p.sectors)
        BY <3>3
      <4>3. ReadBack(p)[n + 1] = card[p.lba + (n + 1) - 1]
        BY <4>2 DEF ReadBack
      <4>4. p.lba + (n + 1) - 1 = HDR_LBA + n
        BY <3>2, Layout
      <4> QED
        BY <3>3, <4>1, <4>3, <4>4
    <3> QED
      BY <2>1, <3>1, <3>4 DEF WriteInv
  <2> QED
    BY <2>2, <2>3
<1>6. CASE MoveCard
  BY <1>6 DEF MoveCard, WriteInv
<1> QED
  BY <1>1, <1>2, <1>3, <1>4, <1>5, <1>6 DEF HostNext

LEMMA WriteInvKept ==
  ASSUME WriteInv, UNCHANGED <<card, put, slot, asked, kept>>
  PROVE  WriteInv'
BY DEF WriteInv

----------------------------------------------------------------------------
LEMMA NothingBad == NoLoad.bad \in Nat
BY DEF NoLoad

LEMMA LoadInvInit == CardInit => LoadInv
BY NothingBad DEF CardInit, LoadInv

\* While the board loads, the card is in it, and nobody writes it.
LEMMA LoadInvHost ==
  ASSUME LoadInv, WriteInv, HostNext
  PROVE  LoadInv'
<1>1. UNCHANGED boardVars
  BY DEF HostNext, CmdWrite, CmdWriteFs, CmdPartition, PutSector, Verify, MoveCard
<1>2. pc \in {"off", "run"}
  BY DEF HostNext, CmdWrite, CmdWriteFs, CmdPartition, PutSector, Verify, MoveCard, LoadInv, WriteInv
<1> QED
  BY <1>1, <1>2 DEF LoadInv, boardVars

LEMMA LoadInvKept ==
  ASSUME LoadInv, UNCHANGED cardVars
  PROVE  LoadInv'
BY DEF LoadInv, cardVars, RunsTo, Garbled, Loaded

\* A return is to boot_target, with what was garbled counted.
LEMMA ReturnIs ==
  ASSUME CardTypes, NEW words, Return(words)
  PROVE  pc' = "target" /\ said' = words /\ ld'.bad = ld.bad
BY DEF Return, NoLoad

\* To return with anything but ok promises nothing.
LEMMA FailureKeeps ==
  ASSUME LoadInv, CardTypes, NEW words, Return(words), words # "ok", slot' = slot, slot = "board"
  PROVE  LoadInv'
<1>1. pc' = "target" /\ said' # "ok" /\ ld'.bad = ld.bad
  BY ReturnIs
<1> QED
  BY <1>1 DEF LoadInv

LEMMA LoadInvBoard ==
  ASSUME LoadInv, CardTypes, NEW dtb, LoadNext \/ BootTarget(dtb)
  PROVE  LoadInv'
<1>0. slot' = slot /\ card' = card
  BY LoadLeavesCard
<1>1. CASE PowerOn \/ Reset \/ PowerOff
  BY <1>0, <1>1, NothingBad DEF PowerOn, Reset, PowerOff, Restart, LoadInv, hostVars
<1>2. CASE SdInit
  <2>1. CASE pc' = "header" /\ ld' = ld
    BY <1>0, <1>2, <2>1 DEF SdInit, LoadInv
  <2>2. CASE Return("")
    <3>1. slot = "board" /\ "" # "ok"
      BY <1>2 DEF SdInit, LoadInv
    <3> QED
      BY <1>0, <2>2, <3>1, FailureKeeps
  <2> QED
    BY <1>2, <2>1, <2>2 DEF SdInit
<1>3. CASE SdHeader
  <2>1. ram' = ram /\ slot = "board"
    BY <1>3 DEF SdHeader, LoadInv
  <2>2. CASE Return("")
    <3>1. "" # "ok"
      OBVIOUS
    <3> QED
      BY <1>0, <2>1, <2>2, <3>1, FailureKeeps
  <2>3. CASE ~Return("")
    <3>1. /\ HeaderOk(Loaded) /\ pc' = "block"
          /\ ld' = [NoLoad EXCEPT !.blocks = Loaded[3], !.want = Loaded[5]]
      BY <1>3, <2>3 DEF SdHeader, Loaded
    <3>2. ld'.blocks = Loaded[3] /\ ld'.want = Loaded[5] /\ ld'.b = 0 /\ ld'.sum = 0 /\ ld'.bad = 0 /\ 0 \in Nat
      BY <3>1 DEF NoLoad
    <3>3. RunsTo(0, ram', 0)
      <4>1. [n \in 0 .. 0 |-> 0][0] = 0
        OBVIOUS
      <4> QED
        BY <4>1, NothingRuns DEF RunsTo
    <3>4. Cardinality(Garbled(0, ram', card')) = 0
      <4>1. Garbled(0, ram', card') = {}
        BY DEF Garbled
      <4> QED
        BY <4>1, FS_EmptySet
    <3>5. Loaded' = Loaded
      BY <1>0 DEF Loaded
    <3>6. Garbled(ld'.b, ram', card') = Garbled(0, ram', card') /\ (RunsTo(0, ram', 0) => RunsTo(ld'.b, ram', ld'.sum))
      BY <3>2 DEF Garbled, RunsTo
    <3> QED
      BY <1>0, <2>1, <3>1, <3>2, <3>3, <3>4, <3>5, <3>6 DEF LoadInv, Garbled
  <2> QED
    BY <2>2, <2>3
<1>4. CASE SdBlock
  <2>1. CASE Return("timed out")
    <3>1. slot = "board" /\ "timed out" # "ok"
      BY <1>4 DEF SdBlock, LoadInv
    <3> QED
      BY <1>0, <2>1, <3>1, FailureKeeps
  <2>2. CASE ~Return("timed out")
    <3> DEFINE sector == card[HDR_LBA + 1 + ld.b][1]
    <3>1. PICK w \in Word :
            /\ ram' = [ram EXCEPT ![ld.b + 1] = w]
            /\ ld' = [ld EXCEPT !.b = @ + 1, !.sum = (@ + w) % WORDS,
                                !.bad = @ + (IF w = sector THEN 0 ELSE 1)]
            /\ pc' = pc /\ said' = said
      BY <1>4, <2>2 DEF SdBlock
    <3>2. /\ pc = "block" /\ ld.b < ld.blocks /\ ld.b \in Nat /\ ld.blocks \in Nat
          /\ ld.blocks <= MAX_BLOCKS /\ MAX_BLOCKS \in Nat /\ ld.bad \in Nat
      <4>1. pc = "block" /\ ld.b < ld.blocks /\ ld.bad \in Nat
        BY <1>4 DEF SdBlock, LoadInv
      <4>2. ld.blocks \in 0 .. MAX_BLOCKS /\ ld.b \in 0 .. ld.blocks
        BY DEF CardTypes, LoadOk
      <4> QED
        BY <4>1, <4>2, Layout
    <3>11. PICK m : m = ld.b
      OBVIOUS
    <3>3. /\ ld'.b = m + 1 /\ ld'.sum = (ld.sum + w) % WORDS /\ ld'.blocks = ld.blocks
          /\ ld'.want = ld.want /\ ld'.bad = ld.bad + (IF w = sector THEN 0 ELSE 1)
      BY <3>1, <3>11 DEF CardTypes, LoadOk
    <3>4. /\ DOMAIN ram = 1 .. MAX_BLOCKS /\ m + 1 \in 1 .. MAX_BLOCKS
          /\ ram'[m + 1] = w /\ \A n \in 1 .. m : ram'[n] = ram[n]
      <4>1. DOMAIN ram = 1 .. MAX_BLOCKS
        BY DEF CardTypes
      <4>2. m + 1 \in 1 .. MAX_BLOCKS /\ \A n \in 1 .. m : n # m + 1
        BY <3>2, <3>11
      <4>3. ram' = [ram EXCEPT ![m + 1] = w]
        BY <3>1, <3>11
      <4> QED
        BY <4>1, <4>2, <4>3
    <3>5. m \in Nat /\ m = ld.b
      BY <3>2, <3>11
    <3>6. RunsTo(m + 1, ram', (ld.sum + w) % WORDS)
      <4>1. PICK f : Runs(f, m, ram) /\ f[m] = ld.sum
        BY <3>2, <3>5 DEF LoadInv, RunsTo
      <4>2. Runs(f, m, ram')
        BY <3>4, <4>1 DEF Runs
      <4>3. \E g : Runs(g, m + 1, ram') /\ g[m + 1] = (f[m] + ram'[m + 1]) % WORDS
        BY <3>4, <3>5, <4>2, OneMoreRuns
      <4>4. \E g : Runs(g, m + 1, ram') /\ g[m + 1] = (ld.sum + w) % WORDS
        BY <3>4, <4>1, <4>3
      <4> QED
        BY <4>4 DEF RunsTo, Runs
    <3>7. Cardinality(Garbled(m + 1, ram', card')) <= ld.bad + (IF w = sector THEN 0 ELSE 1)
      <4>1. IsFiniteSet(Garbled(m, ram, card)) /\ Cardinality(Garbled(m, ram, card)) <= ld.bad
            /\ Cardinality(Garbled(m, ram, card)) \in Nat
        <5>1. Garbled(m, ram, card) \subseteq 1 .. m /\ IsFiniteSet(1 .. m)
          <6>1. IsFiniteSet(1 .. m)
            BY <3>5, FS_Interval
          <6> QED
            BY <6>1 DEF Garbled
        <5>2. IsFiniteSet(Garbled(m, ram, card)) /\ Cardinality(Garbled(m, ram, card)) \in Nat
          BY <5>1, FS_Subset, FS_CardinalityType
        <5> QED
          BY <3>2, <3>5, <5>2 DEF LoadInv
      <4>2. HDR_LBA + 1 + m = HDR_LBA + (m + 1)
        BY <3>5, Layout
      <4>3. Garbled(m + 1, ram', card') = Garbled(m, ram, card) \cup (IF w = sector THEN {} ELSE {m + 1})
        <5>1. \A n \in 1 .. m + 1 : n \in 1 .. m \/ n = m + 1
          BY <3>5
        <5>2. 1 .. m \subseteq 1 .. m + 1 /\ m + 1 \in 1 .. m + 1
          BY <3>5
        <5>3. sector = card[HDR_LBA + (m + 1)][1]
          BY <3>5, <4>2
        <5> HIDE DEF sector
        <5>4. ASSUME NEW n \in 1 .. m
              PROVE  n \in Garbled(m + 1, ram', card') <=> n \in Garbled(m, ram, card)
          BY <1>0, <3>4, <5>2 DEF Garbled, HDR_LBA
        <5>5. m + 1 \in Garbled(m + 1, ram', card') <=> w # sector
          BY <1>0, <3>4, <5>2, <5>3 DEF Garbled, HDR_LBA
        <5>6. m + 1 \notin Garbled(m, ram, card)
          BY <3>5 DEF Garbled
        <5>7. Garbled(m, ram, card) \subseteq 1 .. m /\ Garbled(m + 1, ram', card') \subseteq 1 .. m + 1
          BY DEF Garbled
        <5> QED
          BY <5>1, <5>2, <5>4, <5>5, <5>6, <5>7
      <4>4. CASE w = sector
        <5>1. Garbled(m + 1, ram', card') = Garbled(m, ram, card)
          BY <4>3, <4>4
        <5> QED
          BY <3>2, <4>1, <4>4, <5>1
      <4>5. CASE w # sector
        <5>1. Garbled(m + 1, ram', card') = Garbled(m, ram, card) \cup {m + 1} /\ m + 1 \notin Garbled(m, ram, card)
          BY <3>5, <4>3, <4>5 DEF Garbled
        <5>2. Cardinality(Garbled(m, ram, card) \cup {m + 1}) = Cardinality(Garbled(m, ram, card)) + 1
          BY <4>1, <5>1, FS_AddElement
        <5> HIDE DEF sector
        <5> QED
          BY <3>2, <4>1, <4>5, <5>1, <5>2
      <4> QED
        BY <4>4, <4>5
    <3>8. Loaded' = Loaded
      BY <1>0 DEF Loaded
    <3>9. ld'.bad \in Nat
      BY <3>2, <3>3
    <3>10. RunsTo(ld'.b, ram', ld'.sum) /\ Cardinality(Garbled(ld'.b, ram', card')) <= ld'.bad
      <4>1. RunsTo(m + 1, ram', (ld.sum + w) % WORDS) => RunsTo(ld'.b, ram', ld'.sum)
        BY <3>3 DEF RunsTo
      <4>2. Garbled(ld'.b, ram', card') = Garbled(m + 1, ram', card')
        BY <3>3 DEF Garbled
      <4> QED
        BY <3>3, <3>6, <3>7, <4>1, <4>2
    <3> QED
      BY <1>0, <3>1, <3>2, <3>3, <3>8, <3>9, <3>10 DEF LoadInv
  <2> QED
    BY <2>1, <2>2
<1>5. CASE SdSum
  <2>1. PICK words : Return(words) /\ (words = "ok" => ld.sum = ld.want)
    BY <1>5 DEF SdSum, SumMatches
  <2>2. ram' = ram /\ pc = "block" /\ ld.b = ld.blocks
    BY <1>5 DEF SdSum
  <2>3. pc' = "target" /\ said' = words /\ ld'.bad = ld.bad
    BY <2>1, ReturnIs
  <2>4. Loaded' = Loaded /\ Garbled(Loaded[3], ram', card') = Garbled(Loaded[3], ram, card)
    BY <1>0, <2>2 DEF Loaded, Garbled
  <2>5. CASE words = "ok"
    <3>1. /\ HeaderOk(Loaded) /\ RunsTo(Loaded[3], ram, Loaded[5])
          /\ Cardinality(Garbled(Loaded[3], ram, card)) <= ld.bad
      BY <2>1, <2>2, <2>5 DEF LoadInv
    <3>2. RunsTo(Loaded[3], ram', Loaded[5])
      BY <2>2, <2>4, <3>1 DEF RunsTo
    <3> QED
      BY <1>0, <2>2, <2>3, <2>4, <3>1, <3>2 DEF LoadInv
  <2>6. CASE words # "ok"
    <3>1. slot = "board"
      BY <2>2 DEF LoadInv
    <3> QED
      BY <1>0, <2>1, <2>6, <3>1, FailureKeeps
  <2> QED
    BY <2>5, <2>6
<1>6. CASE BootTarget(dtb)
  BY <1>0, <1>6, NothingBad DEF BootTarget, LoadInv
<1> QED
  BY <1>1, <1>2, <1>3, <1>4, <1>5, <1>6 DEF LoadNext

----------------------------------------------------------------------------
LEMMA LoadIsWritten ==
  ASSUME LoadInv, WriteInv, CardTypes
  PROVE  LoadedIsWritten
<1> SUFFICES ASSUME NEW k \in asked, said = "ok", pc = "target", FitsP1(k), Loaded = Header(k)
             PROVE  /\ Cardinality(Wrong(k)) # 1
                    /\ (kept /\ ld.bad <= 1) => Wrong(k) = {}
  BY DEF LoadedIsWritten, Loaded
<1> DEFINE m == Len(k)
<1>1. k \in Kernels /\ k \in Seq(Word) /\ m \in Nat
  BY ImagesHaveLength DEF WriteInv
<1>2. Loaded[3] = m /\ Loaded[5] = SumOf(k)
  BY DEF Header
<1>3. m \in 1 .. MAX_BLOCKS /\ RunsTo(m, ram, SumOf(k)) /\ Cardinality(Garbled(m, ram, card)) <= ld.bad
  BY <1>2 DEF LoadInv, HeaderOk
<1>4. \A n \in 1 .. m : ram[n] \in Word /\ k[n] \in Word
  BY <1>1, <1>3, CardAssumption DEF CardTypes
<1>5. IsFiniteSet(Wrong(k)) /\ Cardinality(Wrong(k)) \in Nat
  <2>1. Wrong(k) \subseteq 1 .. m /\ IsFiniteSet(1 .. m)
    BY <1>1, FS_Interval DEF Wrong
  <2> QED
    BY <2>1, FS_Subset, FS_CardinalityType
<1>6. Cardinality(Wrong(k)) # 1
  <2> SUFFICES ASSUME Cardinality(Wrong(k)) = 1 PROVE FALSE
    OBVIOUS
  <2>1. PICK i : Wrong(k) = {i}
    BY <1>5, FS_Singleton
  <2>2. i \in 1 .. m /\ ram[i] # k[i] /\ \A n \in 1 .. m : n # i => ram[n] = k[n]
    BY <2>1 DEF Wrong
  <2>3. PICK f : Runs(f, m, ram) /\ f[m] = SumOf(k)
    BY <1>3 DEF RunsTo
  <2>4. PICK g : Runs(g, m, k) /\ g[m] = SumOf(k)
    BY <1>1, SumIs
  <2> QED
    BY <1>1, <1>4, <2>2, <2>3, <2>4, OneWordShows
<1>7. ASSUME kept, ld.bad <= 1
      PROVE  Wrong(k) = {}
  <2>1. \A n \in 1 .. m : card[HDR_LBA + n][1] = k[n]
    BY <1>7 DEF WriteInv
  <2>2. Garbled(m, ram, card) = Wrong(k)
    BY <2>1 DEF Garbled, Wrong
  <2>3. Cardinality(Wrong(k)) = 0
    BY <1>3, <1>5, <1>6, <1>7, <2>2 DEF LoadInv
  <2> QED
    BY <1>5, <2>3, FS_EmptySet
<1> QED
  BY <1>6, <1>7
-----------------------------------------------------------------------------
(* The machine: the tree, the card and the board together.                    *)

FlashInv ==
  /\ \A f, g \in flash : f = g
  /\ \A f \in flash : (f.clean /\ f.of # 0) => f.dtb = {f.of}
  /\ flash = {} => started = {}
  /\ \A s \in started : s.entry = "kernel" => s.dtb = FlashDtb

MachineInv == FwInv /\ FwTypes /\ FsInv /\ CardTypes /\ WriteInv /\ LoadInv /\ FlashInv

LEMMA MachineInvInit == MachineInit => MachineInv
<1>1. MachineInit => FlashInv
  BY DEF MachineInit, CardInit, FlashInv
<1> QED
  BY <1>1, FwInvInit, FwTypesInit, FsInvInit, CardTypesInit, WriteInvInit, LoadInvInit DEF MachineInit, MachineInv

----------------------------------------------------------------------------
LEMMA CardRests ==
  ASSUME WriteInv, LoadInv, UNCHANGED cardVars
  PROVE  WriteInv' /\ LoadInv'
<1>1. UNCHANGED <<card, put, slot, asked, kept>>
  BY DEF cardVars
<1> QED
  BY <1>1, WriteInvKept, LoadInvKept

LEMMA WorkshopKeeps ==
  ASSUME MachineInv, Workshop
  PROVE  MachineInv'
<1>1. FwNext /\ UNCHANGED cardVars /\ flash' = flash
  BY DEF Workshop
<1>2. FwInv' /\ FwTypes'
  BY <1>1, FwInvStep, FwTypesStep DEF MachineInv
<1>3. FsInv'
  BY <1>1, FsInvStep DEF MachineInv
<1>4. CardTypes'
  BY <1>1 DEF MachineInv, CardTypes, cardVars, LoadOk
<1>5. FlashInv'
  BY <1>1 DEF MachineInv, FlashInv, FlashDtb, cardVars
<1>6. WriteInv' /\ LoadInv'
  BY <1>1, CardRests DEF MachineInv
<1> QED
  BY <1>2, <1>3, <1>4, <1>5, <1>6 DEF MachineInv

\* What is flashed off a green tree carries the device tree beside it.
LEMMA FlashKeeps ==
  ASSUME MachineInv, Flash
  PROVE  MachineInv'
<1>1. PICK b \in bin["sbi_sd"] :
        flash' = {[dtb |-> IF b.fdt THEN {b.from["koti.dtb"]} ELSE {},
                   of |-> src["koti.dtb"],
                   clean |-> Touched("sbi") \cap {"sbi_sd", "koti.dtb"} = {}]}
  BY DEF Flash
<1>2. FirmwareOk /\ flash = {} /\ UNCHANGED <<fwVars, cardVars>>
  BY DEF Flash
<1>3. ASSUME Touched("sbi") \cap {"sbi_sd", "koti.dtb"} = {}, src["koti.dtb"] # 0
      PROVE  b.fdt /\ b.from["koti.dtb"] = src["koti.dtb"]
  <2>1. GreenFirmware
    BY FwInvIsGreen DEF MachineInv
  <2>2. "sbi" \in Trees /\ "sbi_sd" \in ImagesOf("sbi") \ Touched("sbi")
    BY <1>3, FirmwareAssumption, MachineAssumption
  <2>3. "koti.dtb" \in (Listed["sbi_sd"] \cap Reads["sbi_sd"]) \ Touched("sbi")
    BY <1>3, MachineAssumption
  <2> QED
    BY <1>2, <1>3, <2>1, <2>2, <2>3 DEF GreenFirmware
<1>4. FwInv' /\ FwTypes'
  <2>1. UNCHANGED fwVars
    BY <1>2
  <2> QED
    BY <2>1, FwInvStep, FwTypesStep DEF MachineInv
<1>5. FsInv'
  BY <1>2, FsInvStep DEF MachineInv
<1>6. CardTypes'
  BY <1>2 DEF MachineInv, CardTypes, cardVars, LoadOk
<1>7. FlashInv'
  <2>1. started' = {}
    BY <1>2 DEF MachineInv, FlashInv, cardVars
  <2>2. ASSUME NEW f \in flash', f.clean, f.of # 0
        PROVE  f.dtb = {f.of}
    <3>1. /\ f.of = src["koti.dtb"] /\ f.dtb = IF b.fdt THEN {b.from["koti.dtb"]} ELSE {}
          /\ f.clean = (Touched("sbi") \cap {"sbi_sd", "koti.dtb"} = {})
      BY <1>1
    <3>2. Touched("sbi") \cap {"sbi_sd", "koti.dtb"} = {}
      BY <2>2, <3>1
    <3> QED
      BY <1>3, <2>2, <3>1, <3>2
  <2> QED
    BY <1>1, <2>1, <2>2 DEF FlashInv
<1>8. WriteInv' /\ LoadInv'
  BY <1>2, CardRests DEF MachineInv
<1> QED
  BY <1>4, <1>5, <1>6, <1>7, <1>8 DEF MachineInv

\* The board starts a kernel with the tree of the firmware it runs.
LEMMA BenchKeeps ==
  ASSUME MachineInv, Bench
  PROVE  MachineInv'
<1>1. /\ flash # {} /\ UNCHANGED fwVars /\ flash' = flash
      /\ HostNext \/ LoadNext \/ BootTarget(FlashDtb)
  BY DEF Bench
<1>2. FwInv' /\ FwTypes'
  BY <1>1, FwInvStep, FwTypesStep DEF MachineInv
<1>3. FsInv'
  BY <1>1, FsInvStep DEF MachineInv
<1>4. CardTypes'
  BY <1>1, HostTypes, BoardTypes DEF MachineInv
<1>5. \A s \in started' : s.entry = "kernel" => s.dtb = FlashDtb
  <2>1. CASE HostNext
    <3>1. started' = started
      BY <2>1 DEF HostNext, CmdWrite, CmdWriteFs, CmdPartition, PutSector, Verify, MoveCard,
                  boardVars
    <3> QED
      BY <3>1 DEF MachineInv, FlashInv
  <2>2. CASE LoadNext
    <3>1. started' = started \/ started' = {}
      BY <2>2 DEF LoadNext, PowerOn, Reset, PowerOff, Restart, SdInit, SdHeader, SdBlock, SdSum
    <3> QED
      BY <3>1 DEF MachineInv, FlashInv
  <2>3. CASE BootTarget(FlashDtb)
    <3>1. started' = {IF ram[1] = MAGIC2 THEN [entry |-> "kernel", dtb |-> FlashDtb]
                      ELSE [entry |-> "payload", dtb |-> {}]}
      BY <2>3 DEF BootTarget
    <3>2. ASSUME NEW s \in started', s.entry = "kernel"
          PROVE  s.dtb = FlashDtb
      <4>1. CASE ram[1] = MAGIC2
        BY <3>1, <4>1
      <4>2. CASE ram[1] # MAGIC2
        BY <3>1, <3>2, <4>2
      <4> QED
        BY <4>1, <4>2
    <3> QED
      BY <3>2
  <2> QED
    BY <1>1, <2>1, <2>2, <2>3
<1>6. FlashDtb' = FlashDtb
  BY <1>1 DEF FlashDtb
<1>7. FlashInv'
  BY <1>1, <1>5, <1>6 DEF MachineInv, FlashInv
<1>8. WriteInv' /\ LoadInv'
  <2>1. CASE HostNext
    BY <2>1, WriteInvHost, LoadInvHost DEF MachineInv
  <2>2. CASE LoadNext \/ BootTarget(FlashDtb)
    BY <2>2, LoadLeavesCard, WriteInvKept, LoadInvBoard DEF MachineInv
  <2> QED
    BY <1>1, <2>1, <2>2
<1> QED
  BY <1>2, <1>3, <1>4, <1>7, <1>8 DEF MachineInv

LEMMA MachineInvStep ==
  ASSUME MachineInv, [MachineNext]_machineVars
  PROVE  MachineInv'
<1>1. CASE UNCHANGED machineVars
  <2>1. UNCHANGED fwVars /\ UNCHANGED cardVars /\ flash' = flash
    BY <1>1 DEF machineVars
  <2>2. FwInv' /\ FwTypes'
    BY <2>1, FwInvStep, FwTypesStep DEF MachineInv
  <2>3. FsInv'
    BY <2>1, FsInvStep DEF MachineInv
  <2>4. CardTypes'
    BY <2>1 DEF MachineInv, CardTypes, cardVars, LoadOk
  <2>5. FlashInv'
    BY <2>1 DEF MachineInv, FlashInv, FlashDtb, cardVars
  <2>6. WriteInv' /\ LoadInv'
    BY <2>1, CardRests DEF MachineInv
  <2> QED
    BY <2>2, <2>3, <2>4, <2>5, <2>6 DEF MachineInv
<1> QED
  BY <1>1, WorkshopKeeps, FlashKeeps, BenchKeeps DEF MachineNext

LEMMA InvariantHolds == MachineSpec => []MachineInv
BY MachineInvInit, MachineInvStep, PTL DEF MachineSpec

----------------------------------------------------------------------------
\* Every variable of the tree, the card, the host and the board keeps its type.
THEOREM MachineTypes == MachineSpec => []MachineTypeOK
<1>1. MachineInv => MachineTypeOK
  <2> SUFFICES ASSUME MachineInv PROVE MachineTypeOK
    OBVIOUS
  <2>1. FwTypeOK
    BY FwTypesAreTypes DEF MachineInv
  <2>2. CardTypeOK
    BY CardTypesAreTypes DEF MachineInv
  <2>3. Cardinality(flash) <= 1
    BY AtMostOne DEF MachineInv, FlashInv
  <2> QED
    BY <2>1, <2>2, <2>3 DEF MachineTypeOK
<1> QED
  BY InvariantHolds, <1>1, PTL

\* A tree the check passes holds images of the sources beside them, whatever
\* was edited, half built or restored before (check_firmware.py, build.py).
THEOREM GreenMeansBuilt == MachineSpec => []GreenFirmware
<1>1. MachineInv => GreenFirmware
  BY FwInvIsGreen DEF MachineInv
<1> QED
  BY InvariantHolds, <1>1, PTL

\* A build nobody disturbs leaves a tree the check passes (write_provenance).
THEOREM BuildEndsGreen == MachineSpec => FreshIsGreen
<1> DEFINE Fresh == \A m \in make : (WriteProvenance /\ m.touched = {}) => TreeBad(m.tree)' = {}
<1>1. MachineInv => [Fresh]_fwVars
  BY FreshBuildIsGreen DEF MachineInv
<1>2. MachineInv /\ [MachineNext]_machineVars => [Fresh]_fwVars
  BY <1>1
<1>3. FreshIsGreen <=> [][Fresh]_fwVars
  BY DEF FreshIsGreen
<1> HIDE DEF Fresh
<1> QED
  BY InvariantHolds, <1>2, <1>3, PTL DEF MachineSpec

\* A verified filesystem outlives every kernel that fits p1 and every partition
\* table, cut short or not (sdkernel.py).
THEOREM FilesystemSurvives == MachineSpec => []FsSurvives
<1>1. MachineInv => FsSurvives
  BY DEF MachineInv, FsInv
<1> QED
  BY InvariantHolds, <1>1, PTL

\* A kernel that starts is handed the device tree committed beside the firmware
\* that was flashed (check_firmware.py, boot_target).
THEOREM StartedWithItsTree == MachineSpec => []KernelGetsItsTree
<1>1. MachineInv => KernelGetsItsTree
  <2> SUFFICES ASSUME MachineInv, NEW s \in started, NEW f \in flash,
                      s.entry = "kernel", f.clean, f.of # 0
               PROVE  s.dtb = {f.of}
    BY DEF KernelGetsItsTree
  <2>1. flash = {f}
    BY DEF MachineInv, FlashInv
  <2>2. FlashDtb = f.dtb
    BY <2>1 DEF FlashDtb
  <2> QED
    BY <2>2 DEF MachineInv, FlashInv
<1> QED
  BY InvariantHolds, <1>1, PTL

\* What the firmware calls ok never differs from the kernel that was written in
\* one word alone, and in none if the write was verified and at most one read
\* went wrong, for kernels of any length and sums of any width (sd_load_kernel).
THEOREM OkIsWritten == MachineSpec => []LoadedIsWritten
<1>1. MachineInv => LoadedIsWritten
  BY LoadIsWritten DEF MachineInv
<1> QED
  BY InvariantHolds, <1>1, PTL
==============================================================================
