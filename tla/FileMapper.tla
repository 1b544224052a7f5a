------------------------------ MODULE FileMapper ------------------------------
(***************************************************************************)
(* How SAFS lays out a file over the files of the disks                    *)
(* (libsafs/file_mapper.h and .cpp): the three mappings from a page of the *)
(* SAFS file to a stripe index and a page of the physical file there, and  *)
(* the size a physical file is created with.                               *)
(*                                                                         *)
(* rand_start of the RAID mappings is static and never assigned, hence 0.  *)
(* A file is identified with its index in the stripe.                      *)
(***************************************************************************)
EXTENDS Integers, FiniteSetsExt

CONSTANTS
    StripeBlockSize,  \* pages of a RAID block
    NumFiles,         \* physical files, one on each disk
    ConstA, ConstP    \* FILE_CONST_A, FILE_CONST_P (31 and 191): coprime

\* assert(power2(RAID_block_size)) in parameters.cpp; ROUND in access relies on it.
ASSUME StripeAssumption ==
    /\ NumFiles \in Nat \ {0} /\ StripeBlockSize \in Nat \ {0}
    /\ \E k \in 0 .. StripeBlockSize : StripeBlockSize = 2 ^ k
ASSUME HashAssumption ==
    /\ ConstA \in Nat \ {0} /\ ConstP \in Nat \ {0}
    /\ \A i, j \in 0 .. ConstP - 1 : (ConstA * i) % ConstP = (ConstA * j) % ConstP => i = j

Stripe == 0 .. NumFiles - 1

MappingOption == {"RAID0", "RAID5", "HASH"}

BlockIdx(off) == off \div StripeBlockSize

-----------------------------------------------------------------------------
(* map2file: the physical file of a page.                                  *)

RAID0File(off) == BlockIdx(off) % NumFiles

RAID5File(off) ==
    LET shift == (BlockIdx(off) \div NumFiles) % NumFiles
    IN  ((BlockIdx(off) % NumFiles) + shift) % NumFiles

PIdx(off) == (ConstA * BlockIdx(off)) % ConstP

HashFile(off) == PIdx(off) % NumFiles

Map2File(opt, off) ==
    CASE opt = "RAID0" -> RAID0File(off)
      [] opt = "RAID5" -> RAID5File(off)
      [] opt = "HASH"  -> HashFile(off)

-----------------------------------------------------------------------------
(* map: the physical file and the page in it.                              *)

Bid(idx, block, off) ==
    [idx |-> idx, off |-> block * StripeBlockSize + (off % StripeBlockSize)]

RAID0Map(off) == Bid(BlockIdx(off) % NumFiles, BlockIdx(off) \div NumFiles, off)

RAID5Map(off) ==
    LET row == BlockIdx(off) \div NumFiles
    IN  Bid(((BlockIdx(off) % NumFiles) + (row % NumFiles)) % NumFiles, row, off)

\* Mutant: the length of a cycle without the blocks of the incomplete last stripe.
CycleSizeShort(idx) == ConstP \div NumFiles

\* The blocks of file idx in a cycle of ConstP blocks.
CycleSizeInBucket(idx) ==
    ConstP \div NumFiles + (IF idx < ConstP % NumFiles THEN 1 ELSE 0)

HashMap(off) ==
    LET idx == PIdx(off) % NumFiles
    IN  Bid(idx, (BlockIdx(off) \div ConstP) * CycleSizeInBucket(idx) + PIdx(off) \div NumFiles, off)

Map(opt, off) ==
    CASE opt = "RAID0" -> RAID0Map(off)
      [] opt = "RAID5" -> RAID5Map(off)
      [] opt = "HASH"  -> HashMap(off)

-----------------------------------------------------------------------------
(* get_size_per_disk: the ends of the last blocks, two stripes of them or a *)
(* whole cycle, decide how large the physical files are made.               *)

SizePerDisk(opt, size) ==
    LET tried == IF opt = "HASH" THEN ConstP ELSE 2 * NumFiles
        lasts == {i \in 0 .. tried - 1 : size >= i * StripeBlockSize}
        ends  == {Map(opt, (size \div StripeBlockSize - i) * StripeBlockSize + StripeBlockSize - 1) :
                      i \in lasts}
    IN  [f \in Stripe |-> Max({0} \cup {b.off + 1 : b \in {e \in ends : e.idx = f}})]
===============================================================================
