-------------------------------- MODULE Card --------------------------------
(* The microSD card between the host that writes it and the firmware that    *)
(* boots from it: tools/sdkernel.py on one side, sw/sbi/sdboot.c and         *)
(* boot_target on the other.                                                 *)
(*                                                                           *)
(* A block is one word.  A sector is <<word>>, a header <<"KOTI", version,   *)
(* blocks, load, sum>>, or a partition table <<p1, p2>>.  The layout keeps   *)
(* the order of the real one and scales its sizes.                           *)
EXTENDS Naturals, Sequences, FiniteSets

CONSTANTS
  WORDS,          \* a word is a number below it, and sums wrap at it
  MAX_BLOCKS,     \* the largest image either side accepts
  KERNEL_PART_SECTORS,
  Kernels,        \* images the host may be asked to write, whole blocks
  FsImages,       \* filesystems likewise
  MaxHarm         \* bound: sectors the card drops, words it garbles

HDR_LBA == 1
\* (Mutant: p2 starts in the last sector of p1.)
RootfsInP1 == HDR_LBA + KERNEL_PART_SECTORS - 1
ROOTFS_PART_LBA == HDR_LBA + KERNEL_PART_SECTORS
LastLba == HDR_LBA + MAX_BLOCKS
MAGIC2 == 1                          \* the block with "RSC\x05" in it
Word == 0 .. WORDS - 1

ASSUME CardAssumption ==
  /\ WORDS \in Nat /\ WORDS > MAGIC2
  /\ MAX_BLOCKS \in Nat /\ KERNEL_PART_SECTORS \in 2 .. MAX_BLOCKS
  /\ MaxHarm \in Nat
  /\ \A f \in FsImages : ROOTFS_PART_LBA + Len(f) - 1 <= LastLba
  /\ \A k \in Kernels \cup FsImages : k \in Seq(Word)

VARIABLES
  card,     \* [LBA -> sector]
  slot,     \* where the card is: "host" or "board"
  put,      \* the host's command under way: empty or one
  asked,    \* observation: the kernel whose write was begun last: empty or one
  kept,     \* observation: that write was read back and found right
  fs,       \* observation: a filesystem read back right and not overwritten since
  ram,      \* [1 .. MAX_BLOCKS -> word], from KERNEL_ADDR up
  pc,       \* the firmware's place
  ld,       \* its locals in sd_load_kernel; bad: the words garbled, as observed
  said,     \* what this attempt printed
  started,  \* what boot_target returned: empty or one
  harm

cardVars == <<card, slot, put, asked, kept, fs, ram, pc, ld, said, started, harm>>
hostVars == <<card, slot, put, asked, kept, fs>>
boardVars == <<ram, pc, ld, said, started>>

SumOf(s) ==
  LET sum[n \in 0 .. Len(s)] == IF n = 0 THEN 0 ELSE (sum[n - 1] + s[n]) % WORDS
  IN  sum[Len(s)]
Header(k) == <<"KOTI", 1, Len(k), "KERNEL_ADDR", SumOf(k)>>
Mbr == <<HDR_LBA, ROOTFS_PART_LBA>>
NoLoad == [b |-> 0, blocks |-> 0, want |-> 0, sum |-> 0, bad |-> 0]

\* Sectors as they go to the card.  An empty image or one beyond MAX_BLOCKS is
\* refused; one that is only too long for p1 is not.
BuildPayload(k) ==
  IF Len(k) \in 1 .. MAX_BLOCKS
  THEN {<<Header(k)>> \o [n \in 1 .. Len(k) |-> <<k[n]>>]} ELSE {}
FitsP1(k) == Len(k) < KERNEL_PART_SECTORS

CardInit ==
  /\ card = [l \in 0 .. LastLba |-> <<0>>]
  /\ slot = "host" /\ put = {} /\ asked = {} /\ kept = FALSE /\ fs = {}
  /\ ram = [n \in 1 .. MAX_BLOCKS |-> 0]
  /\ pc = "off" /\ ld = NoLoad /\ said = "" /\ started = {} /\ harm = 0

----------------------------------------------------------------------------
(* The host.  All three commands seek, write, seek again and read back.      *)
Put(cmd, lba, sectors, image) ==
  put' = {[cmd |-> cmd, lba |-> lba, sectors |-> sectors, image |-> image, at |-> 0]}

CmdWrite ==
  /\ slot = "host" /\ put = {}
  /\ \E k \in Kernels : \E s \in BuildPayload(k) :
       /\ Put("write", HDR_LBA, s, k)
       /\ asked' = {k} /\ kept' = FALSE
       /\ fs' = IF FitsP1(k) THEN fs ELSE {}
  /\ UNCHANGED <<card, slot, boardVars, harm>>

CmdWriteFs ==
  /\ slot = "host" /\ put = {}
  /\ \E f \in FsImages : Put("writefs", ROOTFS_PART_LBA, [n \in 1 .. Len(f) |-> <<f[n]>>], f)
  /\ fs' = {}
  /\ UNCHANGED <<card, slot, asked, kept, boardVars, harm>>

CmdPartition ==
  /\ slot = "host" /\ put = {}
  /\ Put("partition", 0, <<Mbr>>, <<>>)
  /\ UNCHANGED <<card, slot, asked, kept, fs, boardVars, harm>>

\* A sector reaches the card, or the card says so and drops it.
PutSector ==
  \E p \in put :
    /\ p.at < Len(p.sectors)
    /\ put' = {[p EXCEPT !.at = @ + 1]}
    /\ \/ card' = [card EXCEPT ![p.lba + p.at] = p.sectors[p.at + 1]] /\ UNCHANGED harm
       \/ harm < MaxHarm /\ harm' = harm + 1 /\ UNCHANGED card
    /\ UNCHANGED <<slot, asked, kept, fs, boardVars>>

ReadBack(p) == [n \in 1 .. Len(p.sectors) |-> card[p.lba + n - 1]]

\* The end of the command: verified, or READ-BACK MISMATCH.
Verify ==
  \E p \in put :
    /\ p.at = Len(p.sectors)
    /\ put' = {}
    /\ LET same == ReadBack(p) = p.sectors
       IN  /\ kept' = IF p.cmd = "write" THEN same ELSE kept
           /\ fs' = IF p.cmd = "writefs" /\ same THEN {p.image} ELSE fs
    /\ UNCHANGED <<card, slot, asked, boardVars, harm>>

\* The card goes over, in the middle of a command if need be.
MoveCard ==
  /\ pc \in {"off", "run"}
  /\ slot' = IF slot = "host" THEN "board" ELSE "host"
  /\ put' = {}
  /\ UNCHANGED <<card, asked, kept, fs, boardVars, harm>>

----------------------------------------------------------------------------
(* The board.  RAM survives a reset button and not a power cycle.  It is     *)
(* only restarted with the card in it: without one the engine answers ERR,   *)
(* which SdInit's failure covers.                                            *)
Restart(r) ==
  /\ ram' = r /\ pc' = "init" /\ ld' = NoLoad /\ said' = "" /\ started' = {}
  /\ UNCHANGED <<hostVars, harm>>
PowerOn == pc = "off" /\ slot = "board" /\ Restart([n \in 1 .. MAX_BLOCKS |-> 0])
Reset == pc = "run" /\ slot = "board" /\ Restart(ram)
PowerOff ==
  /\ pc = "run" /\ pc' = "off" /\ ram' = [n \in 1 .. MAX_BLOCKS |-> 0]
  /\ ld' = NoLoad /\ said' = "" /\ started' = {}
  /\ UNCHANGED <<hostVars, harm>>

\* sd_load_kernel returns, 1 or 0 alike, to a caller that does not look.
Return(words) == pc' = "target" /\ said' = words /\ ld' = [NoLoad EXCEPT !.bad = ld.bad]

\* READY, ERR, or neither in time.
SdInit ==
  /\ pc = "init"
  /\ \/ slot = "board" /\ pc' = "header" /\ UNCHANGED <<said, ld>>
     \/ Return("")
  /\ UNCHANGED <<hostVars, ram, started, harm>>

HeaderOk(h) ==
  /\ Len(h) = 5
  /\ h[1] = "KOTI" /\ h[2] = 1 /\ h[3] \in 1 .. MAX_BLOCKS /\ h[4] = "KERNEL_ADDR"
SdHeader ==
  /\ pc = "header"
  /\ \/ /\ HeaderOk(card[HDR_LBA])
        /\ LET h == card[HDR_LBA]
           IN  ld' = [NoLoad EXCEPT !.blocks = h[3], !.want = h[5]]
        /\ pc' = "block" /\ UNCHANGED said
     \/ Return("")
  /\ UNCHANGED <<hostVars, ram, started, harm>>

\* One block into RAM: as the card holds it, garbled, or timed out.
SdBlock ==
  /\ pc = "block" /\ ld.b < ld.blocks
  /\ \/ \E w \in Word :
          LET true == card[HDR_LBA + 1 + ld.b][1]
              wrong == IF w = true THEN 0 ELSE 1
          IN  /\ harm + wrong <= MaxHarm /\ harm' = harm + wrong
              /\ ram' = [ram EXCEPT ![ld.b + 1] = w]
              /\ ld' = [ld EXCEPT !.b = @ + 1, !.sum = (@ + w) % WORDS, !.bad = @ + wrong]
              /\ UNCHANGED <<pc, said>>
     \/ Return("timed out") /\ UNCHANGED <<ram, harm>>
  /\ UNCHANGED <<hostVars, started>>

\* (Mutant: the sum is not looked at.)
SumIgnored == TRUE
SumMatches == ld.sum = ld.want
SdSum ==
  /\ pc = "block" /\ ld.b = ld.blocks
  /\ Return(IF SumMatches THEN "ok" ELSE "checksum")
  /\ UNCHANGED <<hostVars, ram, started, harm>>

\* boot_target, after the attempt; dtb is the blob in flash: empty or one.
BootTarget(dtb) ==
  /\ pc = "target" /\ pc' = "run"
  /\ started' = {IF ram[1] = MAGIC2 THEN [entry |-> "kernel", dtb |-> dtb]
                 ELSE [entry |-> "payload", dtb |-> {}]}
  /\ said' = "" /\ ld' = NoLoad
  /\ UNCHANGED <<hostVars, ram, harm>>

HostNext == CmdWrite \/ CmdWriteFs \/ CmdPartition \/ PutSector \/ Verify \/ MoveCard
LoadNext == PowerOn \/ Reset \/ PowerOff \/ SdInit \/ SdHeader \/ SdBlock \/ SdSum
----------------------------------------------------------------------------
CardTypeOK ==
  /\ DOMAIN card = 0 .. LastLba /\ slot \in {"host", "board"}
  /\ Cardinality(put) <= 1 /\ Cardinality(asked) <= 1 /\ Cardinality(fs) <= 1
  /\ ram \in [1 .. MAX_BLOCKS -> Word] /\ kept \in BOOLEAN
  /\ pc \in {"off", "init", "header", "block", "target", "run"}
  /\ ld.b \in 0 .. ld.blocks /\ ld.blocks \in 0 .. MAX_BLOCKS
  /\ said \in {"", "timed out", "checksum", "ok"} /\ harm \in 0 .. MaxHarm

\* How RAM differs from the kernel the host was last asked to write.
Wrong(k) == {n \in 1 .. Len(k) : ram[n] # k[n]}

\* A load the firmware calls ok is never off by exactly one block, whether the
\* host was cut off, the card dropped the write, or the read was garbled; and
\* after a write the host verified, no single garbled read gets through.  (A
\* kernel too long for p1 can be overwritten behind the host's back by writefs.)
LoadedIsWritten ==
  \A k \in asked :
    (said = "ok" /\ pc = "target" /\ FitsP1(k) /\ card[HDR_LBA] = Header(k)) =>
       /\ Cardinality(Wrong(k)) # 1
       /\ (kept /\ ld.bad <= 1) => Wrong(k) = {}

\* A verified filesystem outlives every kernel that fits p1, and every
\* partition table, however they were cut short.
FsSurvives ==
  \A f \in fs : \A n \in 1 .. Len(f) : card[ROOTFS_PART_LBA + n - 1] = <<f[n]>>
=============================================================================
