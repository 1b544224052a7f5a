----------------------------- MODULE DiskIOProofs -----------------------------
(***************************************************************************)
(* What holds of the layout of a file over the disks and of the path from  *)
(* the threads to the disks, for any number of threads, disks, slots and   *)
(* requests, any RAID block and any size of the file.  The layout first:   *)
(* no two pages of a file share a place, a RAID block is in one piece, and *)
(* every page lies inside the physical file as it was created.  Then the   *)
(* path: no wake-up is lost, an I/O thread has no more requests with the   *)
(* kernel than slots, and what it is given lies in its own physical file,  *)
(* in one piece and apart from every other page.  Last the books: every    *)
(* part is in one place, what is left of a request is its parts under way, *)
(* and so each page is moved once and each request reported once.          *)
(***************************************************************************)
EXTENDS DiskIO, FiniteSetTheorems, SequenceTheorems, WellFoundedInduction, TLAPS

-------------------------------------------------------------------------------
(* Quotients and remainders                                                *)

\* The quotient and the remainder of a division ...
LEMMA DivMod == ASSUME NEW a \in Nat, NEW n \in Nat \ {0}
                PROVE \E q, r \in Nat : a \div n = q /\ a % n = r /\ r < n /\ a = n * q + r
<1>1. a \div n \in Int /\ a % n \in Int
  OBVIOUS
<1>2. PICK q \in Int, r \in Int : q = a \div n /\ r = a % n
  BY <1>1
<1>3. r = a - n * q
  BY <1>2
<1>4. a = n * q + r
  BY <1>3
<1>5. r >= 0 /\ r < n
  BY <1>2
<1>6. q >= 0
  BY <1>2
<1>7. q \in Nat /\ r \in Nat
  BY <1>5, <1>6
<1> WITNESS q \in Nat, r \in Nat
<1> QED BY <1>2, <1>4, <1>5

\* ... are the only numbers of this form.
LEMMA DivUnique == ASSUME NEW q \in Nat, NEW r \in Nat, NEW n \in Nat \ {0}, r < n
                   PROVE (n * q + r) \div n = q /\ (n * q + r) % n = r
OBVIOUS

\* A remainder does not see multiples of the divisor.
LEMMA ModMultiple == ASSUME NEW a \in Nat, NEW k \in Nat, NEW n \in Nat \ {0}
                     PROVE (n * k + a) % n = a % n /\ (n * k + a) \div n = k + a \div n
<1>1. PICK q \in Nat, r \in Nat : a = n * q + r /\ r < n /\ q = a \div n /\ r = a % n
  BY DivMod
<1>2. n * k + a = n * (k + q) + r
  BY <1>1
<1>3. k + q \in Nat
  BY <1>1
<1>4. (n * (k + q) + r) \div n = k + q /\ (n * (k + q) + r) % n = r
  BY <1>1, <1>3, DivUnique
<1> QED BY <1>1, <1>2, <1>4

\* Adding the same number keeps remainders apart.
LEMMA ModShift == ASSUME NEW n \in Nat \ {0}, NEW x \in 0 .. n - 1, NEW y \in 0 .. n - 1, NEW s \in 0 .. n - 1
                  PROVE /\ (x + s) % n = IF x + s < n THEN x + s ELSE x + s - n
                        /\ (x + s) % n = (y + s) % n => x = y
<1>1. \A z \in 0 .. n - 1 : (z + s) % n = IF z + s < n THEN z + s ELSE z + s - n
  <2> TAKE z \in 0 .. n - 1
  <2>1. CASE z + s < n
    <3>1. z + s = n * 0 + (z + s) /\ z + s \in Nat
      OBVIOUS
    <3> QED BY <2>1, <3>1, DivUnique
  <2>2. CASE ~(z + s < n)
    <3>1. z + s = n * 1 + (z + s - n) /\ z + s - n \in Nat /\ z + s - n < n
      BY <2>2
    <3> QED BY <2>2, <3>1, DivUnique
  <2> QED BY <2>1, <2>2
<1> QED BY <1>1

-------------------------------------------------------------------------------
(* Blocks: a mapping sends RAID block b to row BlockRow of file BlockFile  *)

HashIdx(b) == (ConstA * b) % ConstP

BlockFile(opt, b) ==
    IF opt = "RAID0" THEN b % NumFiles
    ELSE IF opt = "RAID5" THEN ((b % NumFiles) + ((b \div NumFiles) % NumFiles)) % NumFiles
    ELSE HashIdx(b) % NumFiles

BlockRow(opt, b) ==
    IF opt \in {"RAID0", "RAID5"} THEN b \div NumFiles
    ELSE (b \div ConstP) * CycleSizeInBucket(HashIdx(b) % NumFiles) + HashIdx(b) \div NumFiles

\* What map and map2file compute.
LEMMA MapForm == ASSUME NEW opt \in MappingOption, NEW off \in Nat
                 PROVE /\ Map(opt, off) = Bid(BlockFile(opt, BlockIdx(off)), BlockRow(opt, BlockIdx(off)), off)
                       /\ Map2File(opt, off) = BlockFile(opt, BlockIdx(off))
<1>1. CASE opt = "RAID0"
  BY <1>1 DEF Map, Map2File, RAID0Map, RAID0File, BlockFile, BlockRow
<1>2. CASE opt = "RAID5"
  BY <1>2 DEF Map, Map2File, RAID5Map, RAID5File, BlockFile, BlockRow
<1>3. CASE opt = "HASH"
  BY <1>3 DEF Map, Map2File, HashMap, HashFile, PIdx, HashIdx, BlockFile, BlockRow
<1> QED BY <1>1, <1>2, <1>3 DEF MappingOption

\* A file of the stripe has as many blocks in a cycle as there are numbers below ConstP with
\* its remainder.
LEMMA InCycle == ASSUME NEW p \in Nat, p < ConstP
                 PROVE /\ CycleSizeInBucket(p % NumFiles) \in Nat /\ p \div NumFiles \in Nat
                       /\ p \div NumFiles < CycleSizeInBucket(p % NumFiles)
<1>1. PICK q \in Nat, r \in Nat : p \div NumFiles = q /\ p % NumFiles = r /\ r < NumFiles /\ p = NumFiles * q + r
  BY StripeAssumption, DivMod
<1>2. PICK c \in Nat, e \in Nat : ConstP \div NumFiles = c /\ ConstP % NumFiles = e /\ e < NumFiles /\ ConstP = NumFiles * c + e
  BY StripeAssumption, HashAssumption, DivMod
<1>3. CASE q >= c + 1
  <2>1. q = c + 1 + (q - c - 1) /\ q - c - 1 \in Nat
    BY <1>3
  <2>2. NumFiles * q = NumFiles * c + NumFiles + NumFiles * (q - c - 1)
    BY <2>1, StripeAssumption
  <2>3. NumFiles * (q - c - 1) \in Nat
    BY <2>1, StripeAssumption
  <2> QED BY <1>1, <1>2, <2>2, <2>3, StripeAssumption
<1>4. q <= c /\ (q = c => r < e)
  BY <1>1, <1>2, <1>3, StripeAssumption
<1>5. CycleSizeInBucket(r) = IF r < e THEN c + 1 ELSE c
  BY <1>2 DEF CycleSizeInBucket
<1>6. CycleSizeInBucket(r) \in Nat /\ q < CycleSizeInBucket(r)
  BY <1>4, <1>5
<1> QED BY <1>1, <1>6

\* A file index is in the stripe and a row is a number.
LEMMA BlockTypes == ASSUME NEW opt \in MappingOption, NEW b \in Nat
                    PROVE BlockFile(opt, b) \in Stripe /\ BlockRow(opt, b) \in Nat
<1> USE StripeAssumption, HashAssumption
<1>1. \A a \in Nat : a % NumFiles \in Stripe /\ a \div NumFiles \in Nat /\ a % NumFiles \in Nat
  BY DivMod DEF Stripe
<1>2. ConstA * b \in Nat
  OBVIOUS
<1>3. HashIdx(b) \in Nat /\ HashIdx(b) < ConstP /\ b \div ConstP \in Nat
  BY <1>2, DivMod DEF HashIdx
<1>4. (b \div ConstP) * CycleSizeInBucket(HashIdx(b) % NumFiles) + HashIdx(b) \div NumFiles \in Nat
  <2>1. CycleSizeInBucket(HashIdx(b) % NumFiles) \in Nat /\ HashIdx(b) \div NumFiles \in Nat
    BY <1>3, InCycle
  <2> QED BY <1>3, <2>1
<1>5. BlockRow(opt, b) \in Nat
  BY <1>1, <1>4 DEF BlockRow
<1>6. (b % NumFiles) + ((b \div NumFiles) % NumFiles) \in Nat
  BY <1>1
<1>7. BlockFile(opt, b) \in Stripe
  BY <1>1, <1>3, <1>6 DEF BlockFile
<1> QED BY <1>5, <1>7

\* The parameters are positive numbers.
LEMMA Params == /\ NumFiles \in Nat \ {0} /\ ConstP \in Nat \ {0} /\ ConstA \in Nat
                /\ StripeBlockSize \in Nat \ {0}
BY StripeAssumption, HashAssumption

\* The hash of a block is a number of the cycle.
LEMMA HashType == ASSUME NEW b \in Nat
                  PROVE \E h \in Nat : h = HashIdx(b) /\ h < ConstP
<1>1. PICK x \in Nat : x = ConstA * b
  BY Params
<1>2. PICK q \in Nat, r \in Nat : x \div ConstP = q /\ x % ConstP = r /\ r < ConstP /\ x = ConstP * q + r
  BY DivMod, Params
<1>3. HashIdx(b) = r
  BY <1>1, <1>2 DEF HashIdx
<1> QED BY <1>2, <1>3

\* The hash of a block depends on its place in the cycle only ...
LEMMA HashCycle == ASSUME NEW k \in Nat, NEW a \in Nat
                   PROVE HashIdx(ConstP * k + a) = HashIdx(a)
<1>1. PICK u \in Nat, v \in Nat : u = ConstA * k /\ v = ConstA * a
  <2>1. ConstA * k \in Nat /\ ConstA * a \in Nat
    BY Params
  <2> QED BY <2>1
<1>2. ConstA * (ConstP * k + a) = ConstP * u + v
  <2>1. \A x, y \in Nat : x * (y * k + a) = y * (x * k) + x * a
    OBVIOUS
  <2> QED BY <1>1, <2>1, Params
<1>3. (ConstP * u + v) % ConstP = v % ConstP
  BY ModMultiple, Params, ZenonT(40)
<1> QED BY <1>1, <1>2, <1>3 DEF HashIdx

\* ... and tells the blocks of a cycle apart: ConstA and ConstP are coprime.
LEMMA HashApart == ASSUME NEW a \in Nat, NEW b \in Nat, a < ConstP, b < ConstP, HashIdx(a) = HashIdx(b)
                   PROVE a = b
<1>1. a \in 0 .. ConstP - 1 /\ b \in 0 .. ConstP - 1
  BY Params
<1> QED BY <1>1, HashAssumption DEF HashIdx

\* No two RAID blocks share a row of a file.
LEMMA BlocksApart == ASSUME NEW opt \in MappingOption, NEW b \in Nat, NEW c \in Nat,
                            BlockFile(opt, b) = BlockFile(opt, c), BlockRow(opt, b) = BlockRow(opt, c)
                     PROVE b = c
<1>1. PICK bq \in Nat, br \in Nat : b \div NumFiles = bq /\ b % NumFiles = br /\ br < NumFiles /\ b = NumFiles * bq + br
  BY DivMod, Params
<1>2. PICK cq \in Nat, cr \in Nat : c \div NumFiles = cq /\ c % NumFiles = cr /\ cr < NumFiles /\ c = NumFiles * cq + cr
  BY DivMod, Params
<1>3. CASE opt = "RAID0"
  <2>1. bq = cq /\ br = cr
    BY <1>1, <1>2, <1>3 DEF BlockFile, BlockRow
  <2> QED BY <1>1, <1>2, <2>1
<1>4. CASE opt = "RAID5"
  <2>1. bq = cq
    BY <1>1, <1>2, <1>4 DEF BlockRow
  <2>2. PICK q \in Nat, s \in Nat : bq \div NumFiles = q /\ bq % NumFiles = s /\ s < NumFiles /\ bq = NumFiles * q + s
    BY DivMod, Params
  <2>3. (br + s) % NumFiles = (cr + s) % NumFiles
    BY <1>1, <1>2, <1>4, <2>1, <2>2 DEF BlockFile
  <2>4. br \in 0 .. NumFiles - 1 /\ cr \in 0 .. NumFiles - 1 /\ s \in 0 .. NumFiles - 1
    BY <1>1, <1>2, <2>2, Params
  <2>5. br = cr
    BY <2>3, <2>4, ModShift, Params, ZenonT(40)
  <2> QED BY <1>1, <1>2, <2>1, <2>5
<1>5. CASE opt = "HASH"
  <2>1. PICK h \in Nat : h = HashIdx(b) /\ h < ConstP
    BY HashType
  <2>2. PICK g \in Nat : g = HashIdx(c) /\ g < ConstP
    BY HashType
  <2>3. PICK hq \in Nat, hr \in Nat : h \div NumFiles = hq /\ h % NumFiles = hr /\ hr < NumFiles /\ h = NumFiles * hq + hr
    BY DivMod, Params
  <2>4. PICK gq \in Nat, gr \in Nat : g \div NumFiles = gq /\ g % NumFiles = gr /\ gr < NumFiles /\ g = NumFiles * gq + gr
    BY DivMod, Params
  <2>5. hr = gr
    BY <1>5, <2>1, <2>2, <2>3, <2>4 DEF BlockFile
  <2>6. CycleSizeInBucket(hr) \in Nat /\ hq < CycleSizeInBucket(hr) /\ gq < CycleSizeInBucket(hr)
    BY <2>1, <2>2, <2>3, <2>4, <2>5, InCycle
  <2>7. PICK n \in Nat \ {0} : n = CycleSizeInBucket(hr)
    <3>1. CycleSizeInBucket(hr) # 0
      BY <2>6
    <3> QED BY <2>6, <3>1
  <2>8. PICK bk \in Nat, bo \in Nat : b \div ConstP = bk /\ b % ConstP = bo /\ bo < ConstP /\ b = ConstP * bk + bo
    BY DivMod, Params
  <2>9. PICK ck \in Nat, co \in Nat : c \div ConstP = ck /\ c % ConstP = co /\ co < ConstP /\ c = ConstP * ck + co
    BY DivMod, Params
  <2>10. BlockRow(opt, b) = bk * n + hq /\ BlockRow(opt, c) = ck * n + gq
    BY <1>5, <2>1, <2>2, <2>3, <2>4, <2>5, <2>7, <2>8, <2>9 DEF BlockRow
  <2>11. n * bk + hq = n * ck + gq
    <3>1. bk * n + hq = ck * n + gq
      BY <2>10
    <3> QED BY <3>1
  <2>a. hq < n /\ gq < n
    BY <2>6, <2>7
  <2>12. (n * bk + hq) \div n = bk /\ (n * bk + hq) % n = hq
    BY <2>a, DivUnique
  <2>13. (n * ck + gq) \div n = ck /\ (n * ck + gq) % n = gq
    BY <2>a, DivUnique
  <2>14. bk = ck /\ hq = gq
    BY <2>11, <2>12, <2>13
  <2>15. h = g
    BY <2>3, <2>4, <2>5, <2>14
  <2>16. HashIdx(b) = HashIdx(bo) /\ HashIdx(c) = HashIdx(co)
    BY <2>8, <2>9, HashCycle
  <2>17. bo = co
    BY <2>1, <2>2, <2>8, <2>9, <2>15, <2>16, HashApart
  <2> QED BY <2>8, <2>9, <2>14, <2>17
<1> QED BY <1>3, <1>4, <1>5 DEF MappingOption

\* The last blocks of a file that get_size_per_disk looks at.
Tried(opt) == IF opt = "HASH" THEN ConstP ELSE 2 * NumFiles

\* Numbers with a larger quotient are larger.
LEMMA QuotientOrder == ASSUME NEW n \in Nat \ {0}, NEW q \in Nat, NEW r \in Nat, NEW p \in Nat, NEW s \in Nat,
                              s < n, n * q + r <= n * p + s
                       PROVE q <= p
<1>1. SUFFICES ASSUME q > p PROVE FALSE
  OBVIOUS
<1>2. PICK e \in Nat : q = p + 1 + e
  <2>1. q - p - 1 \in Nat
    BY <1>1
  <2>2. q = p + 1 + (q - p - 1)
    BY <1>1
  <2> QED BY <2>1, <2>2
<1>3. n * q = n * p + n + n * e /\ n * e \in Nat
  BY <1>2
<1> QED BY <1>3

\* Among the blocks it looks at, up to the last one, is one in the same file as block b and
\* not below it.
LEMMA BlockAbove == ASSUME NEW opt \in MappingOption, NEW last \in Nat, NEW b \in Nat, b <= last
                    PROVE \E c \in Nat : /\ c <= last /\ last - c < Tried(opt)
                                         /\ BlockFile(opt, c) = BlockFile(opt, b)
                                         /\ BlockRow(opt, c) >= BlockRow(opt, b)
<1>1. PICK bq \in Nat, br \in Nat : b \div NumFiles = bq /\ b % NumFiles = br /\ br < NumFiles /\ b = NumFiles * bq + br
  BY DivMod, Params
<1>2. PICK m \in Nat : m = last - b
  OBVIOUS
<1>3. CASE opt = "RAID0"
  <2>1. PICK k \in Nat, j \in Nat : m \div NumFiles = k /\ m % NumFiles = j /\ j < NumFiles /\ m = NumFiles * k + j
    BY DivMod, Params
  <2>2. PICK c \in Nat : c = NumFiles * k + b
    BY Params
  <2>3. c % NumFiles = b % NumFiles /\ c \div NumFiles = k + b \div NumFiles
    <3>1. PICK e \in Nat : e = k + bq
      OBVIOUS
    <3>2. c = NumFiles * e + br
      BY <1>1, <2>2, <3>1, Params
    <3>3. c \div NumFiles = e /\ c % NumFiles = br
      BY <1>1, <3>2, DivUnique, Params
    <3> QED BY <1>1, <3>1, <3>3
  <2>4. BlockFile(opt, c) = BlockFile(opt, b) /\ BlockRow(opt, c) = k + bq /\ BlockRow(opt, b) = bq
    BY <1>1, <1>3, <2>3 DEF BlockFile, BlockRow
  <2>5. c = last - j
    BY <1>2, <2>1, <2>2, Params
  <2>6. c <= last /\ last - c < Tried(opt)
    BY <1>3, <2>1, <2>5, Params DEF Tried
  <2> QED BY <2>4, <2>6
<1>4. CASE opt = "RAID5"
  <2>1. PICK lq \in Nat, lr \in Nat : last \div NumFiles = lq /\ last % NumFiles = lr /\ lr < NumFiles /\ last = NumFiles * lq + lr
    BY DivMod, Params
  <2>2. bq <= lq
    BY <1>1, <2>1, QuotientOrder, Params
  <2>3. CASE bq = lq
    <3>1. last - b < Tried(opt)
      <4>1. last - b = lr - br
        BY <1>1, <2>1, <2>3, Params
      <4> QED BY <1>1, <1>4, <2>1, <4>1, Params DEF Tried
    <3>2. BlockRow(opt, b) >= BlockRow(opt, b)
      BY BlockTypes
    <3> QED BY <3>1, <3>2
  <2>4. CASE bq < lq
    <3>1. PICK row \in Nat : lq = row + 1
      <4>1. lq - 1 \in Nat /\ lq = (lq - 1) + 1
        BY <2>4
      <4> QED BY <4>1
    <3>2. PICK q \in Nat, s \in Nat : row \div NumFiles = q /\ row % NumFiles = s /\ s < NumFiles /\ row = NumFiles * q + s
      BY DivMod, Params
    <3>3. PICK f \in 0 .. NumFiles - 1 : f = BlockFile(opt, b)
      BY BlockTypes DEF Stripe
    <3>4. PICK col \in 0 .. NumFiles - 1 : col = IF f >= s THEN f - s ELSE f - s + NumFiles
      <4>1. CASE f >= s
        <5>1. f - s \in 0 .. NumFiles - 1
          BY <3>2, <4>1, Params
        <5> QED BY <4>1, <5>1
      <4>2. CASE ~(f >= s)
        <5>1. f - s + NumFiles \in 0 .. NumFiles - 1
          BY <3>2, <4>2, Params
        <5> QED BY <4>2, <5>1
      <4> QED BY <4>1, <4>2
    <3>5. s \in 0 .. NumFiles - 1
      BY <3>2, Params
    <3>6. (col + s) % NumFiles = IF col + s < NumFiles THEN col + s ELSE col + s - NumFiles
      BY <3>4, <3>5, ModShift, Params, ZenonT(40)
    <3>7. (col + s) % NumFiles = f
      BY <3>3, <3>4, <3>5, <3>6, Params
    <3>8. PICK c \in Nat : c = NumFiles * row + col
      BY Params
    <3>9. c % NumFiles = col /\ c \div NumFiles = row
      <4>1. col \in Nat /\ col < NumFiles
        BY Params
      <4> QED BY <3>8, <4>1, DivUnique, Params
    <3>10. BlockFile(opt, c) = f /\ BlockRow(opt, c) = row /\ BlockRow(opt, b) = bq
      BY <1>1, <1>4, <3>2, <3>7, <3>9 DEF BlockFile, BlockRow
    <3>11. last = c - col + NumFiles + lr
      <4>1. NumFiles * lq = NumFiles * row + NumFiles
        BY <3>1, Params
      <4> QED BY <2>1, <3>8, <4>1, Params
    <3>12. c <= last /\ last - c < Tried(opt)
      BY <1>4, <2>1, <3>4, <3>11, Params DEF Tried
    <3>13. row >= bq
      BY <2>4, <3>1
    <3> QED BY <3>3, <3>10, <3>12, <3>13
  <2> QED BY <2>2, <2>3, <2>4
<1>5. CASE opt = "HASH"
  <2>1. PICK k \in Nat, j \in Nat : m \div ConstP = k /\ m % ConstP = j /\ j < ConstP /\ m = ConstP * k + j
    BY DivMod, Params
  <2>2. PICK c \in Nat : c = ConstP * k + b
    BY Params
  <2>3. PICK bk \in Nat, bo \in Nat : b \div ConstP = bk /\ b % ConstP = bo /\ bo < ConstP /\ b = ConstP * bk + bo
    BY DivMod, Params
  <2>4. c \div ConstP = k + bk
    <3>1. PICK e \in Nat : e = k + bk
      OBVIOUS
    <3>2. c = ConstP * e + bo
      BY <2>2, <2>3, <3>1, Params
    <3>3. c \div ConstP = e
      BY <2>3, <3>2, DivUnique, Params
    <3> QED BY <3>1, <3>3
  <2>5. HashIdx(c) = HashIdx(b)
    BY <2>2, HashCycle
  <2>6. PICK p \in Nat : p = HashIdx(b) /\ p < ConstP
    BY HashType
  <2>7. CycleSizeInBucket(p % NumFiles) \in Nat /\ p \div NumFiles \in Nat
    BY <2>6, InCycle
  <2>8. PICK h \in Nat, n \in Nat : h = p \div NumFiles /\ n = CycleSizeInBucket(p % NumFiles)
    BY <2>7
  <2>9. BlockFile(opt, c) = BlockFile(opt, b)
    BY <1>5, <2>5 DEF BlockFile
  <2>10. BlockRow(opt, b) = bk * n + h /\ BlockRow(opt, c) = (k + bk) * n + h
    BY <1>5, <2>3, <2>4, <2>5, <2>6, <2>8 DEF BlockRow
  <2>11. (k + bk) * n = k * n + bk * n /\ k * n \in Nat /\ bk * n \in Nat
    OBVIOUS
  <2>12. BlockRow(opt, c) >= BlockRow(opt, b)
    BY <2>10, <2>11
  <2>13. c = last - j
    BY <1>2, <2>1, <2>2, Params
  <2>14. c <= last /\ last - c < Tried(opt)
    BY <1>5, <2>1, <2>13, Params DEF Tried
  <2> QED BY <2>9, <2>12, <2>14
<1> QED BY <1>3, <1>4, <1>5 DEF MappingOption

\* A bound for the rows of the blocks up to the last one.
RowBound(last) == last * (ConstP + 1) + ConstP + last

\* The rows that blocks up to the last one have are bounded.
LEMMA RowBounded == ASSUME NEW opt \in MappingOption, NEW last \in Nat, NEW b \in Nat, b <= last
                    PROVE RowBound(last) \in Nat /\ BlockRow(opt, b) <= RowBound(last)
<1>1. PICK m \in Nat : m = ConstP + 1
  BY Params
<1>2. RowBound(last) = last * m + ConstP + last /\ last * m \in Nat
  BY <1>1, Params DEF RowBound
<1>3. CASE opt \in {"RAID0", "RAID5"}
  <2>1. PICK bq \in Nat, br \in Nat : b \div NumFiles = bq /\ b % NumFiles = br /\ br < NumFiles /\ b = NumFiles * bq + br
    BY DivMod, Params
  <2>2. bq <= b
    <3>1. PICK n \in Nat : NumFiles = n + 1
      <4>1. NumFiles - 1 \in Nat /\ NumFiles = (NumFiles - 1) + 1
        BY Params
      <4> QED BY <4>1
    <3>2. NumFiles * bq = n * bq + bq /\ n * bq \in Nat
      BY <3>1
    <3> QED BY <2>1, <3>2
  <2>3. BlockRow(opt, b) = bq
    BY <1>3, <2>1 DEF BlockRow
  <2> QED BY <1>2, <2>2, <2>3, Params
<1>4. CASE opt = "HASH"
  <2>1. PICK bk \in Nat, bo \in Nat : b \div ConstP = bk /\ b % ConstP = bo /\ bo < ConstP /\ b = ConstP * bk + bo
    BY DivMod, Params
  <2>2. PICK h \in Nat : h = HashIdx(b) /\ h < ConstP
    BY HashType
  <2>3. PICK hq \in Nat, hr \in Nat : h \div NumFiles = hq /\ h % NumFiles = hr /\ hr < NumFiles /\ h = NumFiles * hq + hr
    BY DivMod, Params
  <2>4. PICK c \in Nat, e \in Nat : ConstP \div NumFiles = c /\ ConstP % NumFiles = e /\ e < NumFiles /\ ConstP = NumFiles * c + e
    BY DivMod, Params
  <2>5. PICK n \in Nat : NumFiles = n + 1
    <3>1. NumFiles - 1 \in Nat /\ NumFiles = (NumFiles - 1) + 1
      BY Params
    <3> QED BY <3>1
  <2>6. hq <= ConstP
    <3>1. NumFiles * hq = n * hq + hq /\ n * hq \in Nat
      BY <2>5
    <3> QED BY <2>2, <2>3, <3>1, Params
  <2>7. c <= ConstP
    <3>1. NumFiles * c = n * c + c /\ n * c \in Nat
      BY <2>5
    <3> QED BY <2>4, <3>1, Params
  <2>8. CycleSizeInBucket(hr) = IF hr < e THEN c + 1 ELSE c
    BY <2>4 DEF CycleSizeInBucket
  <2>9. PICK s \in Nat : s = CycleSizeInBucket(hr) /\ s <= m
    BY <1>1, <2>7, <2>8, Params
  <2>10. BlockRow(opt, b) = bk * s + hq
    BY <1>4, <2>1, <2>2, <2>3, <2>9 DEF BlockRow
  <2>11. bk <= last
    <3>1. PICK p \in Nat : ConstP = p + 1
      <4>1. ConstP - 1 \in Nat /\ ConstP = (ConstP - 1) + 1
        BY Params
      <4> QED BY <4>1
    <3>2. ConstP * bk = p * bk + bk /\ p * bk \in Nat
      BY <3>1
    <3> QED BY <2>1, <3>2
  <2>12. bk * s <= last * m
    <3>1. PICK u \in Nat, v \in Nat : last = bk + u /\ m = s + v
      <4>1. last - bk \in Nat /\ last = bk + (last - bk) /\ m - s \in Nat /\ m = s + (m - s)
        BY <2>9, <2>11
      <4> QED BY <4>1
    <3>2. last * m = bk * s + bk * v + u * s + u * v
      BY <3>1
    <3>3. bk * s \in Nat /\ bk * v \in Nat /\ u * s \in Nat /\ u * v \in Nat
      OBVIOUS
    <3> QED BY <3>2, <3>3
  <2>13. bk * s \in Nat
    OBVIOUS
  <2> QED BY <1>2, <2>6, <2>10, <2>12, <2>13, Params
<1>5. RowBound(last) \in Nat
  BY <1>2, Params
<1> QED BY <1>3, <1>4, <1>5 DEF MappingOption

\* A bounded set of numbers has a maximum.
LEMMA MaxOfBounded == ASSUME NEW T, T \subseteq Nat, NEW B \in Nat, \A t \in T : t <= B, NEW t \in T
                      PROVE Max(T) \in T /\ t <= Max(T)
<1> DEFINE G == {n \in Nat : \E x \in T : x + n = B}
<1>1. \A x \in T : \E n \in Nat : x + n = B
  <2> TAKE x \in T
  <2>1. x \in Nat /\ x <= B
    OBVIOUS
  <2>2. B - x \in Nat /\ x + (B - x) = B
    BY <2>1
  <2> QED BY <2>2
<1>2. G \subseteq Nat /\ G # {}
  BY <1>1
<1>3. PICK g \in G : \A y \in G : ~(y < g)
  <2> DEFINE R == {ss \in Nat \X Nat : ss[1] < ss[2]}
  <2>1. IsWellFoundedOn(R, Nat)
    BY NatLessThanWellFounded DEF OpToRel
  <2> HIDE DEF G, R
  <2>2. PICK g \in G : \A y \in G : ~(<<y, g>> \in R)
    BY <1>2, <2>1, WFMin
  <2>3. \A y \in G : ~(y < g)
    BY <1>2, <2>2 DEF R
  <2> QED BY <2>3
<1>4. \A y \in G : y >= g
  BY <1>2, <1>3
<1>5. PICK m \in T : m + g = B
  OBVIOUS
<1>6. \A x \in T : m >= x
  <2> TAKE x \in T
  <2>1. PICK n \in Nat : x + n = B
    BY <1>1
  <2>2. n \in G
    BY <2>1
  <2>3. n >= g /\ m \in Nat /\ x \in Nat
    BY <1>4, <2>2
  <2> QED BY <1>5, <2>1, <2>3
<1>7. \E x \in T : \A y \in T : x >= y
  BY <1>6
<1>8. Max(T) \in T /\ \A y \in T : Max(T) >= y
  <2> HIDE DEF G
  <2> QED BY <1>7 DEF Max
<1> QED BY <1>8

-------------------------------------------------------------------------------
(* Pages                                                                   *)

\* A page and its place, by the block it is in and its place in the block.
LEMMA PlaceForm == ASSUME NEW opt \in MappingOption, NEW i \in Nat
                   PROVE \E b, r \in Nat :
                           /\ BlockIdx(i) = b /\ r < StripeBlockSize /\ i = StripeBlockSize * b + r
                           /\ BlockFile(opt, b) \in Stripe /\ BlockRow(opt, b) \in Nat
                           /\ Map(opt, i) = [idx |-> BlockFile(opt, b), off |-> StripeBlockSize * BlockRow(opt, b) + r]
                           /\ Map2File(opt, i) = BlockFile(opt, b)
<1>1. PICK b \in Nat, r \in Nat : /\ i \div StripeBlockSize = b /\ i % StripeBlockSize = r
                                  /\ r < StripeBlockSize /\ i = StripeBlockSize * b + r
  BY DivMod, Params
<1>2. BlockIdx(i) = b
  BY <1>1 DEF BlockIdx
<1>3. Map(opt, i) = Bid(BlockFile(opt, b), BlockRow(opt, b), i) /\ Map2File(opt, i) = BlockFile(opt, b)
  BY <1>2, MapForm
<1>4. PICK row \in Nat : row = BlockRow(opt, b)
  BY BlockTypes
<1>5. row * StripeBlockSize = StripeBlockSize * row
  BY Params
<1>6. Bid(BlockFile(opt, b), row, i) = [idx |-> BlockFile(opt, b), off |-> StripeBlockSize * row + r]
  BY <1>1, <1>5 DEF Bid
<1>7. BlockFile(opt, b) \in Stripe /\ BlockRow(opt, b) \in Nat
  BY BlockTypes
<1> QED BY <1>1, <1>2, <1>3, <1>4, <1>6, <1>7

\* map and map2file agree on the file of a page, and it is one of the stripe.
THEOREM MapFindsTheFile == \A opt \in MappingOption, i \in Nat :
                               /\ Map(opt, i).idx = Map2File(opt, i)
                               /\ Map(opt, i) \in [idx : Stripe, off : Nat]
<1> TAKE opt \in MappingOption, i \in Nat
<1>1. PICK b \in Nat, r \in Nat :
        /\ BlockFile(opt, b) \in Stripe /\ BlockRow(opt, b) \in Nat
        /\ Map(opt, i) = [idx |-> BlockFile(opt, b), off |-> StripeBlockSize * BlockRow(opt, b) + r]
        /\ Map2File(opt, i) = BlockFile(opt, b)
  BY PlaceForm
<1>2. StripeBlockSize * BlockRow(opt, b) + r \in Nat
  BY <1>1, Params
<1> QED BY <1>1, <1>2

\* The pages of a RAID block follow each other in one physical file: a part of a request, which
\* stays inside a block, can be moved in one piece.
THEOREM BlockInOnePiece == \A opt \in MappingOption, i, j \in Nat :
                               BlockIdx(i) = BlockIdx(j) =>
                                   Map(opt, j) = [idx |-> Map(opt, i).idx, off |-> Map(opt, i).off + j - i]
<1> SUFFICES ASSUME NEW opt \in MappingOption, NEW i \in Nat, NEW j \in Nat, BlockIdx(i) = BlockIdx(j)
             PROVE  Map(opt, j) = [idx |-> Map(opt, i).idx, off |-> Map(opt, i).off + j - i]
  OBVIOUS
<1>1. PICK b \in Nat, r \in Nat :
        /\ BlockIdx(i) = b /\ i = StripeBlockSize * b + r /\ BlockRow(opt, b) \in Nat
        /\ Map(opt, i) = [idx |-> BlockFile(opt, b), off |-> StripeBlockSize * BlockRow(opt, b) + r]
  BY PlaceForm
<1>2. PICK c \in Nat, s \in Nat :
        /\ BlockIdx(j) = c /\ j = StripeBlockSize * c + s
        /\ Map(opt, j) = [idx |-> BlockFile(opt, c), off |-> StripeBlockSize * BlockRow(opt, c) + s]
  BY PlaceForm
<1>3. b = c
  BY <1>1, <1>2
<1>4. PICK x \in Nat, y \in Nat : x = StripeBlockSize * BlockRow(opt, b) /\ y = StripeBlockSize * b
  <2>1. StripeBlockSize * BlockRow(opt, b) \in Nat /\ StripeBlockSize * b \in Nat
    BY <1>1, Params
  <2> QED BY <2>1
<1>5. x + s = (x + r) + (y + s) - (y + r)
  OBVIOUS
<1> QED BY <1>1, <1>2, <1>3, <1>4, <1>5

\* No two pages of a file have the same place.
THEOREM PagesApart == \A opt \in MappingOption, i, j \in Nat : Map(opt, i) = Map(opt, j) => i = j
<1> SUFFICES ASSUME NEW opt \in MappingOption, NEW i \in Nat, NEW j \in Nat, Map(opt, i) = Map(opt, j)
             PROVE  i = j
  OBVIOUS
<1>1. PICK b \in Nat, r \in Nat :
        /\ i = StripeBlockSize * b + r /\ r < StripeBlockSize /\ BlockRow(opt, b) \in Nat
        /\ Map(opt, i) = [idx |-> BlockFile(opt, b), off |-> StripeBlockSize * BlockRow(opt, b) + r]
  BY PlaceForm
<1>2. PICK c \in Nat, s \in Nat :
        /\ j = StripeBlockSize * c + s /\ s < StripeBlockSize /\ BlockRow(opt, c) \in Nat
        /\ Map(opt, j) = [idx |-> BlockFile(opt, c), off |-> StripeBlockSize * BlockRow(opt, c) + s]
  BY PlaceForm
<1>3. PICK p \in Nat, q \in Nat : p = BlockRow(opt, b) /\ q = BlockRow(opt, c)
  BY <1>1, <1>2
<1>4. BlockFile(opt, b) = BlockFile(opt, c) /\ StripeBlockSize * p + r = StripeBlockSize * q + s
  BY <1>1, <1>2, <1>3
<1>5. (StripeBlockSize * p + r) \div StripeBlockSize = p /\ (StripeBlockSize * p + r) % StripeBlockSize = r
  BY <1>1, DivUnique, Params
<1>6. (StripeBlockSize * q + s) \div StripeBlockSize = q /\ (StripeBlockSize * q + s) % StripeBlockSize = s
  BY <1>2, DivUnique, Params
<1>7. p = q /\ r = s
  BY <1>4, <1>5, <1>6
<1>8. b = c
  BY <1>3, <1>4, <1>7, BlocksApart
<1> QED BY <1>1, <1>2, <1>7, <1>8

\* The ends of blocks that get_size_per_disk looks at in file f.
Ends(opt, size, f) ==
    {0} \cup {p.off + 1 : p \in
        {e \in {Map(opt, (size \div StripeBlockSize - k) * StripeBlockSize + StripeBlockSize - 1) :
                    k \in {k \in 0 .. Tried(opt) - 1 : size >= k * StripeBlockSize}} : e.idx = f}}

\* get_size_per_disk takes the largest of these ends.
LEMMA SizeForm == ASSUME NEW opt \in MappingOption, NEW size \in Nat, NEW f \in Stripe
                  PROVE SizePerDisk(opt, size)[f] = Max(Ends(opt, size, f))
BY DEF SizePerDisk, Ends, Tried

\* The place of the last page of a block.
LEMMA EndOfBlock == ASSUME NEW opt \in MappingOption, NEW c \in Nat
                    PROVE Map(opt, c * StripeBlockSize + StripeBlockSize - 1)
                            = [idx |-> BlockFile(opt, c),
                               off |-> StripeBlockSize * BlockRow(opt, c) + StripeBlockSize - 1]
<1>1. PICK e \in Nat : StripeBlockSize = e + 1
  <2>1. StripeBlockSize - 1 \in Nat /\ StripeBlockSize = (StripeBlockSize - 1) + 1
    BY Params
  <2> QED BY <2>1
<1>2. PICK i \in Nat : i = c * StripeBlockSize + StripeBlockSize - 1 /\ i = StripeBlockSize * c + e
  <2>1. c * StripeBlockSize + StripeBlockSize - 1 = StripeBlockSize * c + e
    BY <1>1, Params
  <2>2. StripeBlockSize * c + e \in Nat
    BY Params
  <2> QED BY <2>1, <2>2
<1>3. PICK b \in Nat, r \in Nat :
        /\ BlockRow(opt, b) \in Nat /\ r < StripeBlockSize /\ i = StripeBlockSize * b + r
        /\ Map(opt, i) = [idx |-> BlockFile(opt, b), off |-> StripeBlockSize * BlockRow(opt, b) + r]
  BY PlaceForm
<1>4. e < StripeBlockSize
  BY <1>1
<1>5. (StripeBlockSize * c + e) \div StripeBlockSize = c /\ (StripeBlockSize * c + e) % StripeBlockSize = e
  BY <1>4, DivUnique, Params
<1>6. (StripeBlockSize * b + r) \div StripeBlockSize = b /\ (StripeBlockSize * b + r) % StripeBlockSize = r
  BY <1>3, DivUnique, Params
<1>7. b = c /\ r = e
  BY <1>2, <1>3, <1>5, <1>6
<1>8. PICK x \in Nat : x = StripeBlockSize * BlockRow(opt, c)
  BY <1>3, <1>7, Params
<1>9. x + e = x + StripeBlockSize - 1
  BY <1>1
<1> QED BY <1>2, <1>3, <1>7, <1>8, <1>9

\* A physical file is created large enough for every page that the mapping puts there.
THEOREM PagesFit == \A opt \in MappingOption, size \in Nat, i \in Nat :
                        i < size => Map(opt, i).off < SizePerDisk(opt, size)[Map(opt, i).idx]
<1> SUFFICES ASSUME NEW opt \in MappingOption, NEW size \in Nat, NEW i \in Nat, i < size
             PROVE  Map(opt, i).off < SizePerDisk(opt, size)[Map(opt, i).idx]
  OBVIOUS
<1> DEFINE S == StripeBlockSize
<1>0. PICK e \in Nat : S = e + 1
  <2>1. S - 1 \in Nat /\ S = (S - 1) + 1
    BY Params
  <2> QED BY <2>1
<1>1. PICK last \in Nat, rest \in Nat : size \div S = last /\ size % S = rest /\ rest < S /\ size = S * last + rest
  BY DivMod, Params
<1>2. PICK b \in Nat, r \in Nat :
        /\ r < S /\ i = S * b + r /\ BlockFile(opt, b) \in Stripe /\ BlockRow(opt, b) \in Nat
        /\ Map(opt, i) = [idx |-> BlockFile(opt, b), off |-> S * BlockRow(opt, b) + r]
  BY PlaceForm
<1>3. b <= last
  <2>1. S * b + r <= S * last + rest
    BY <1>1, <1>2
  <2> QED BY <1>1, <2>1, QuotientOrder, Params
<1>4. PICK c \in Nat : /\ c <= last /\ last - c < Tried(opt) /\ BlockFile(opt, c) = BlockFile(opt, b)
                       /\ BlockRow(opt, c) >= BlockRow(opt, b)
  BY <1>3, BlockAbove
<1>5. PICK f \in Stripe, row \in Nat, low \in Nat : /\ f = BlockFile(opt, b) /\ low = BlockRow(opt, b)
                                                    /\ row = BlockRow(opt, c) /\ low <= row
  BY <1>2, <1>4, BlockTypes
<1>6. PICK k \in Nat : k = last - c /\ k <= last
  BY <1>4
<1>7. k \in 0 .. Tried(opt) - 1
  BY <1>4, <1>6, Params DEF Tried
<1>8. size >= k * S
  <2>1. PICK u \in Nat : last = k + u
    BY <1>4, <1>6
  <2>2. S * last = k * S + S * u /\ S * u \in Nat /\ k * S \in Nat
    BY <2>1, Params
  <2> QED BY <1>1, <2>2
<1>9. Map(opt, (size \div S - k) * S + S - 1) = [idx |-> f, off |-> S * row + S - 1]
  <2>1. size \div S - k = c
    BY <1>1, <1>6
  <2> QED BY <1>4, <1>5, <2>1, EndOfBlock
<1>10. PICK top \in Nat : top = S * row + S - 1
  <2>1. S * row + S - 1 = S * row + e /\ S * row + e \in Nat
    BY <1>0, Params
  <2> QED BY <2>1
<1>11. top + 1 \in Ends(opt, size, f)
  BY <1>7, <1>8, <1>9, <1>10 DEF Ends
<1>12. S * low + r < top + 1
  <2>1. PICK d \in Nat : row = low + d
    <3>1. row - low \in Nat /\ row = low + (row - low)
      BY <1>5
    <3> QED BY <3>1
  <2>2. S * row = S * low + S * d /\ S * d \in Nat /\ S * low \in Nat
    BY <2>1, Params
  <2> QED BY <1>2, <1>10, <2>2, Params
<1>13. PICK B \in Nat : B = S * RowBound(last) + S
  <2>1. RowBound(last) \in Nat
    BY RowBounded
  <2>2. S * RowBound(last) + S \in Nat
    BY <2>1, Params
  <2> QED BY <2>2
<1>14. \A t \in Ends(opt, size, f) : t \in Nat /\ t <= B
  <2> TAKE t \in Ends(opt, size, f)
  <2>1. CASE t = 0
    BY <2>1
  <2>2. CASE t # 0
    <3>1. PICK j \in 0 .. Tried(opt) - 1 : /\ size >= j * S
                                           /\ t = Map(opt, (size \div S - j) * S + S - 1).off + 1
      BY <2>2 DEF Ends
    <3>2. PICK a \in Nat : a = last - j /\ a <= last
      <4>1. j \in Nat
        BY Params DEF Tried
      <4>2. S * j + 0 <= S * last + rest
        BY <1>1, <3>1, <4>1, Params
      <4>3. j <= last
        BY <1>1, <4>1, <4>2, QuotientOrder, Params
      <4> QED BY <4>1, <4>3
    <3>3. size \div S - j = a
      BY <1>1, <3>2
    <3>4. PICK p \in Nat : p = BlockRow(opt, a)
      BY BlockTypes
    <3>5. t = (S * p + S - 1) + 1
      <4>1. Map(opt, a * S + S - 1) = [idx |-> BlockFile(opt, a), off |-> S * BlockRow(opt, a) + S - 1]
        BY EndOfBlock
      <4>2. Map(opt, a * S + S - 1).off = S * p + S - 1
        BY <3>4, <4>1
      <4> QED BY <3>1, <3>3, <4>2
    <3>6. t = S * p + S
      BY <3>5, Params
    <3>7. p <= RowBound(last) /\ RowBound(last) \in Nat
      BY <3>2, <3>4, RowBounded
    <3>8. PICK d \in Nat : RowBound(last) = p + d
      <4>1. RowBound(last) - p \in Nat /\ RowBound(last) = p + (RowBound(last) - p)
        BY <3>7
      <4> QED BY <4>1
    <3>9. S * (p + d) = S * p + S * d /\ S * d \in Nat /\ S * p \in Nat
      BY Params
    <3> QED BY <1>13, <3>6, <3>8, <3>9, Params
  <2> QED BY <2>1, <2>2
<1>15. PICK T : T = Ends(opt, size, f)
  OBVIOUS
<1>16. Max(T) \in T /\ top + 1 <= Max(T)
  BY <1>11, <1>14, <1>15, MaxOfBounded
<1>17. SizePerDisk(opt, size)[f] = Max(T)
  BY <1>15, SizeForm
<1>18. Max(T) \in Nat
  BY <1>14, <1>15, <1>16
<1>19. Map(opt, i).off = S * low + r /\ Map(opt, i).idx = f /\ S * low + r \in Nat
  BY <1>2, <1>5, Params
<1> QED BY <1>10, <1>12, <1>16, <1>17, <1>18, <1>19

-------------------------------------------------------------------------------
(* Sequences                                                               *)

\* The position with a given rank exists: ranks are as many as positions and no two are equal.
LEMMA RankExists == ASSUME NEW I, IsFiniteSet(I), I \subseteq Nat, NEW k \in 1 .. Cardinality(I)
                    PROVE \E i \in I : Cardinality({j \in I : j <= i}) = k
<1> DEFINE upto(i) == {j \in I : j <= i}
           rank == [i \in I |-> Cardinality(upto(i))]
           n == Cardinality(I)
<1>1. n \in Nat
  BY FS_CardinalityType
<1>2. \A i \in I : IsFiniteSet(upto(i)) /\ Cardinality(upto(i)) \in Nat /\ Cardinality(upto(i)) <= n
  <2> TAKE i \in I
  <2>1. PICK U : U = upto(i)
    OBVIOUS
  <2>2. U \subseteq I
    BY <2>1
  <2>3. IsFiniteSet(U) /\ Cardinality(U) <= Cardinality(I)
    BY <2>2, FS_Subset
  <2>4. Cardinality(U) \in Nat
    BY <2>3, FS_CardinalityType
  <2> QED BY <2>1, <2>3, <2>4
<1>3. \A i \in I : Cardinality(upto(i)) # 0
  <2> TAKE i \in I
  <2>1. PICK U : U = upto(i)
    OBVIOUS
  <2>2. i \in U
    BY <2>1
  <2>3. IsFiniteSet(U)
    BY <1>2, <2>1
  <2> QED BY <2>1, <2>2, <2>3, FS_EmptySet
<1>4. rank \in [I -> 1 .. n]
  <2> HIDE DEF upto
  <2>1. \A i \in I : Cardinality(upto(i)) \in 1 .. n
    BY <1>1, <1>2, <1>3
  <2> QED BY <2>1
<1>5. \A i, j \in I : i < j => Cardinality(upto(i)) < Cardinality(upto(j))
  <2> SUFFICES ASSUME NEW i \in I, NEW j \in I, i < j PROVE Cardinality(upto(i)) < Cardinality(upto(j))
    OBVIOUS
  <2>1. PICK U : U = upto(i)
    OBVIOUS
  <2>2. PICK V : V = upto(j)
    OBVIOUS
  <2>3. U \subseteq V /\ j \in V /\ j \notin U
    <3>1. i \in Nat /\ j \in Nat /\ \A x \in I : x \in Nat /\ (x <= i => x <= j)
      OBVIOUS
    <3>2. j <= j /\ ~(j <= i)
      BY <3>1
    <3> QED BY <2>1, <2>2, <3>1, <3>2
  <2>4. IsFiniteSet(V)
    BY <1>2, <2>2
  <2>5. IsFiniteSet(U) /\ Cardinality(U) <= Cardinality(V) /\ (Cardinality(U) = Cardinality(V) => U = V)
    BY <2>3, <2>4, FS_Subset
  <2>6. Cardinality(U) \in Nat /\ Cardinality(V) \in Nat
    BY <2>4, <2>5, FS_CardinalityType
  <2>7. Cardinality(U) < Cardinality(V)
    BY <2>3, <2>5, <2>6
  <2> QED BY <2>1, <2>2, <2>7
<1>6. \A i, j \in I : rank[i] = rank[j] => i = j
  <2> HIDE DEF upto
  <2> SUFFICES ASSUME NEW i \in I, NEW j \in I, rank[i] = rank[j], i # j PROVE FALSE
    OBVIOUS
  <2>1. i < j \/ j < i
    OBVIOUS
  <2>2. Cardinality(upto(i)) = Cardinality(upto(j)) /\ Cardinality(upto(i)) \in Nat
    BY <1>2
  <2> QED BY <1>5, <2>1, <2>2
<1> HIDE DEF rank
<1>7. PICK R : R = {rank[i] : i \in I}
  OBVIOUS
<1>8. R \subseteq 1 .. n /\ rank \in Bijection(I, R)
  <2>1. R \subseteq 1 .. n
    BY <1>4, <1>7
  <2>2. rank \in [I -> R]
    BY <1>4, <1>7
  <2> QED BY <1>6, <1>7, <2>1, <2>2 DEF Bijection, Injection, Surjection, IsInjective
<1>9. Cardinality(R) = n /\ IsFiniteSet(R)
  BY <1>8, FS_Bijection DEF ExistsBijection
<1>10. Cardinality(1 .. n) = n /\ IsFiniteSet(1 .. n)
  BY <1>1, FS_Interval
<1>11. R = 1 .. n
  <2> HIDE DEF n
  <2> QED BY <1>8, <1>9, <1>10, FS_Subset
<1>12. PICK i \in I : rank[i] = k
  BY <1>7, <1>11
<1> QED BY <1>12 DEF rank

\* A selection of a sequence consists of elements of it, one for each position.
LEMMA Selection == ASSUME NEW S, NEW s \in Seq(S), NEW I, I \subseteq DOMAIN s
                   PROVE /\ ElementsAt(s, I) \in Seq(S)
                         /\ IsFiniteSet(I) /\ Len(ElementsAt(s, I)) = Cardinality(I)
                         /\ \A k \in 1 .. Len(ElementsAt(s, I)) : \E i \in I : ElementsAt(s, I)[k] = s[i]
<1>1. Len(s) \in Nat /\ DOMAIN s = 1 .. Len(s)
  OBVIOUS
<1>2. IsFiniteSet(DOMAIN s)
  BY <1>1, FS_Interval
<1>3. IsFiniteSet(I) /\ I \subseteq Nat
  BY <1>1, <1>2, FS_Subset
<1>4. PICK n \in Nat : n = Cardinality(I)
  BY <1>3, FS_CardinalityType
<1> DEFINE pos(k) == CHOOSE i \in I : Cardinality({j \in I : j <= i}) = k
<1>5. \A k \in 1 .. n : pos(k) \in I
  <2> TAKE k \in 1 .. n
  <2>1. \E i \in I : Cardinality({j \in I : j <= i}) = k
    BY <1>3, <1>4, RankExists
  <2> QED BY <2>1
<1>6. ElementsAt(s, I) = [k \in 1 .. n |-> s[pos(k)]]
  BY <1>4 DEF ElementsAt
<1> HIDE DEF pos
<1>7. \A k \in 1 .. n : s[pos(k)] \in S
  BY <1>1, <1>5
<1>8. ElementsAt(s, I) \in Seq(S) /\ Len(ElementsAt(s, I)) = n
  BY <1>6, <1>7
<1> QED BY <1>3, <1>4, <1>5, <1>6, <1>8

\* As many numbers as the last one says.
LEMMA IntervalCard == ASSUME NEW n \in Nat PROVE IsFiniteSet(1 .. n) /\ Cardinality(1 .. n) = n
BY FS_Interval

\* The elements of a sequence are no more than its length.
LEMMA ElementsFinite == ASSUME NEW S, NEW s \in Seq(S)
                        PROVE /\ ToSet(s) \subseteq S /\ IsFiniteSet(ToSet(s))
                              /\ Cardinality(ToSet(s)) \in Nat /\ Cardinality(ToSet(s)) <= Len(s)
<1>1. PICK T : T = ToSet(s)
  OBVIOUS
<1>2. Len(s) \in Nat /\ DOMAIN s = 1 .. Len(s)
  OBVIOUS
<1>3. T \subseteq S
  BY <1>1, <1>2 DEF ToSet
<1>4. s \in Surjection(1 .. Len(s), T)
  <2>1. s \in [1 .. Len(s) -> T]
    BY <1>1, <1>2 DEF ToSet
  <2> QED BY <1>1, <1>2, <2>1 DEF Surjection, ToSet
<1>5. IsFiniteSet(1 .. Len(s)) /\ Cardinality(1 .. Len(s)) = Len(s)
  BY <1>2, IntervalCard
<1>6. IsFiniteSet(T) /\ Cardinality(T) <= Len(s)
  BY <1>4, <1>5, FS_Surjection
<1>7. Cardinality(T) \in Nat
  BY <1>6, FS_CardinalityType
<1> QED BY <1>1, <1>3, <1>6, <1>7

\* Min and Max of two numbers.
LEMMA MinMax == ASSUME NEW x \in Int, NEW y \in Int
                PROVE /\ Min({x, y}) = IF x <= y THEN x ELSE y
                      /\ Max({x, y}) = IF x >= y THEN x ELSE y
<1>1. \E m \in {x, y} : \A z \in {x, y} : m <= z
  OBVIOUS
<1>2. \E m \in {x, y} : \A z \in {x, y} : m >= z
  OBVIOUS
<1>3. Min({x, y}) \in {x, y} /\ \A z \in {x, y} : Min({x, y}) <= z
  BY <1>1 DEF Min
<1>4. Max({x, y}) \in {x, y} /\ \A z \in {x, y} : Max({x, y}) >= z
  BY <1>2 DEF Max
<1> QED BY <1>3, <1>4

-------------------------------------------------------------------------------
(* The inductive invariant                                                 *)

\* Parts inside the file.
GoodPart == {p \in Part : p.off + p.size <= FilePages}

\* Those of them that the mapping puts on disk d.
PartAt(d) == {p \in GoodPart : DiskOf(p) = d}

\* The record of an application thread; what counts its requests is left open.
AppRec(x) ==
    [pc : {"none", "idle", "flush", "flushed", "take", "call", "wait", "drain", "destroyed"},
     ret : {"idle", "take", "call"}, disk : Stripe, act : BOOLEAN,
     senders : [Stripe -> Seq(Part)], complete : Seq(Part), calls : Seq(Req), mode : {x.mode},
     issued : Nat, completed : {x.completed}, batch : {x.batch}, base : {x.base},
     target : {x.target}, num : {x.num}]

\* A sender holds parts of its disk, and a thread that flushes has something to flush.
AppOK(x) ==
    /\ x \in AppRec(x)
    /\ \A d \in Stripe : x.senders[d] \in Seq(PartAt(d))
    /\ x.pc = "flush" => \E d \in Stripe : x.senders[d] # <<>>

\* The record of the I/O thread of disk d, which has parts of its disk only.
IORec(d) ==
    [pc : {"comm", "fetch", "access", "iowait", "added", "notify", "notified", "wait"},
     act : BOOLEAN, queue : Seq(PartAt(d)), comm : Seq({"open", "close"}), open : BOOLEAN,
     local : Seq(PartAt(d)), kernel : SUBSET PartAt(d), finished : Seq(PartAt(d)), events : Nat,
     tcbs : Seq(PartAt(d)), grouped : BOOLEAN, to : App \cup {None}, ret : {"fetch", "access"}]

\* The slots of an I/O thread: those of the events it has collected are taken until it has handed
\* them on, and a thread that sleeps has none.
SlotsOK(x) ==
    /\ IsFiniteSet(x.kernel)
    /\ Cardinality(x.kernel) + Len(x.finished) + x.events <= AIODepth
    /\ x.pc \notin {"added", "notify", "notified"} => x.events = 0
    /\ x.pc = "wait" => x.kernel = {} /\ x.finished = <<>>

\* A thread that hands parts back has some, and knows to whom the last ones went until it has woken
\* that thread up.
HandsOK(x) ==
    /\ x.pc = "notify" => x.tcbs # <<>>
    /\ x.pc = "notified" <=> x.to \in App

\* What holds of the record x of the I/O thread of disk d.
IOOK(d, x) == x \in IORec(d) /\ SlotsOK(x) /\ HandsOK(x)

\* The record of the completion thread, and what holds of it: its queue does not overflow.
CTRec == [pc : {"notify", "notified", "wait"}, act : BOOLEAN, queue : Seq(Part), tcbs : Seq(Part),
          grouped : BOOLEAN, to : App \cup {None}]

CTOK(x) == x \in CTRec /\ HandsOK(x) /\ Len(x.queue) <= CompleteSize

\* The factory and its commands.
FileRec == [pc : {"command", "commanded", "answer", "opened", "closed"}, op : {"open", "close"},
            disk : Stripe, answered : BOOLEAN]

\* All application threads, and all I/O threads.
AppsOK == DOMAIN app = App /\ \A a \in App : AppOK(app[a])

IOsOK == DOMAIN io = Stripe /\ \A d \in Stripe : IOOK(d, io[d])

\* Whoever has something to do is active, or somebody is about to activate it, or it is about to
\* look for it anyway: an I/O thread for commands ...
CommandsSeen == \A d \in Stripe :
    io[d].comm # <<>> => io[d].act \/ (file.pc = "commanded" /\ file.disk = d)

\* ... and for requests,
QueuesSeen == \A d \in Stripe :
    io[d].queue # <<>> => io[d].act \/ \E a \in App : app[a].pc = "flushed" /\ app[a].disk = d

\* the completion thread for parts that are complete,
TcbsSeen == ct.queue # <<>> => ct.act \/ \E d \in Stripe : io[d].pc = "added"

\* and an application thread for its own.
Looks(x) == x.act \/ x.pc = "take" \/ (x.pc \in {"flush", "flushed"} /\ x.ret = "take")

\* Nobody adds to the queue of a thread without remembering whom to activate.
CompletionsSeen == \A a \in App :
    app[a].complete # <<>> => Looks(app[a]) \/ ct.to = a \/ \E d \in Stripe : io[d].to = a

\* The inductive invariant.
IInv ==
    /\ file \in FileRec /\ AppsOK /\ IOsOK /\ CTOK(ct)
    /\ CommandsSeen /\ QueuesSeen /\ TcbsSeen /\ CompletionsSeen

-------------------------------------------------------------------------------
(* Operators                                                               *)

\* Every part of a request stays inside a RAID block and inside the file.
LEMMA SplitType == ASSUME NEW r \in Req, NEW off \in Nat, NEW size \in Nat \ {0}, off + size <= FilePages
                   PROVE Split(r, off, size) \in Seq(GoodPart)
<1> DEFINE S == StripeBlockSize
<1>0. S \in Nat \ {0} /\ FilePages \in Nat
  BY Params, DiskIOAssumption
<1>1. PICK first \in Nat, r0 \in Nat : off \div S = first /\ off % S = r0 /\ r0 < S /\ off = S * first + r0
  BY <1>0, DivMod
<1>2. PICK e \in Nat : e = off + size - 1
  OBVIOUS
<1>3. PICK last \in Nat, r1 \in Nat : e \div S = last /\ e % S = r1 /\ r1 < S /\ e = S * last + r1
  BY <1>0, DivMod
<1>4. first <= last
  <2>1. S * first + r0 <= S * last + r1
    BY <1>1, <1>2, <1>3
  <2> QED BY <1>0, <1>3, <2>1, QuotientOrder
<1>5. BlockIdx(off) = first /\ BlockIdx(off + size - 1) = last
  BY <1>1, <1>2, <1>3 DEF BlockIdx
<1>6. PICK num \in Nat : num = last - first + 1
  BY <1>4
<1> DEFINE begin(i) == Max({off, (first + i - 1) * S})
           end(i) == Min({off + size, (first + i) * S})
           part(i) == [req |-> r, off |-> begin(i), size |-> end(i) - begin(i)]
<1>7. Split(r, off, size) = [i \in 1 .. num |-> part(i)]
  BY <1>5, <1>6 DEF Split
<1>8. ASSUME NEW i \in 1 .. num PROVE part(i) \in GoodPart
  <2>1. PICK k \in Nat : k = first + i - 1 /\ first <= k /\ k <= last
    BY <1>4, <1>6
  <2>2. PICK low \in Nat, high \in Nat : low = S * k /\ high = low + S /\ low = (first + i - 1) * S /\ high = (first + i) * S
    <3>1. first + i = k + 1
      BY <2>1
    <3>2. S * k \in Nat /\ S * k = k * S /\ (k + 1) * S = S * k + S
      BY <1>0
    <3> QED BY <1>0, <2>1, <3>1, <3>2
  <2>3. off < high
    <3>1. PICK u \in Nat : k = first + u
      BY <2>1
    <3>2. S * k = S * first + S * u /\ S * u \in Nat /\ S * first \in Nat
      BY <1>0, <3>1
    <3> QED BY <1>0, <1>1, <2>2, <3>2
  <2>4. low <= e
    <3>1. PICK u \in Nat : last = k + u
      BY <2>1
    <3>2. S * last = S * k + S * u /\ S * u \in Nat /\ S * k \in Nat
      BY <1>0, <3>1
    <3> QED BY <1>3, <2>2, <3>2
  <2>5. PICK b \in Nat : b = begin(i) /\ b = IF off >= low THEN off ELSE low
    <3>1. begin(i) = Max({off, low})
      BY <2>2
    <3>a. off \in Int /\ low \in Int
      OBVIOUS
    <3>2. Max({off, low}) = IF off >= low THEN off ELSE low
      BY <3>a, MinMax, Zenon
    <3> HIDE DEF begin
    <3> QED BY <3>1, <3>2
  <2>6. PICK n \in Nat : n = end(i) /\ n = IF off + size <= high THEN off + size ELSE high
    <3>1. PICK o \in Nat : o = off + size
      OBVIOUS
    <3>2. o \in Int /\ high \in Int
      OBVIOUS
    <3>3. Min({o, high}) = IF o <= high THEN o ELSE high
      BY <3>2, MinMax, Zenon
    <3>4. end(i) = Min({o, high})
      BY <2>2, <3>1
    <3> HIDE DEF end
    <3> QED BY <3>1, <3>3, <3>4
  <2> HIDE DEF begin, end
  <2>7. low <= b /\ b < n /\ n <= high /\ n <= off + size
    BY <1>0, <1>2, <2>2, <2>3, <2>4, <2>5, <2>6
  <2>8. PICK x \in Nat, y \in Nat : b = S * k + x /\ x < S /\ b + (n - b) - 1 = S * k + y /\ y < S
    <3>1. b - low \in Nat /\ b - low < S /\ n - 1 - low \in Nat /\ n - 1 - low < S
      BY <1>0, <2>2, <2>7
    <3>2. b = low + (b - low) /\ b + (n - b) - 1 = low + (n - 1 - low)
      OBVIOUS
    <3> QED BY <2>2, <3>1, <3>2
  <2>9. BlockIdx(b) = k /\ BlockIdx(b + (n - b) - 1) = k
    <3>1. (S * k + x) \div S = k /\ (S * k + y) \div S = k
      BY <1>0, <2>8, DivUnique
    <3> QED BY <2>8, <3>1 DEF BlockIdx
  <2>10. b \in 0 .. FilePages - 1 /\ n - b \in 1 .. S /\ b + (n - b) <= FilePages
    BY <1>0, <2>2, <2>7
  <2>11. part(i) = [req |-> r, off |-> b, size |-> n - b]
    BY <2>5, <2>6
  <2> QED BY <2>9, <2>10, <2>11 DEF Part, GoodPart
<1> HIDE DEF part
<1> QED BY <1>7, <1>8

\* The parts of a request that go to a sender are those of its disk.
LEMMA SentType == ASSUME NEW senders, NEW parts \in Seq(GoodPart), \A d \in Stripe : senders[d] \in Seq(PartAt(d))
                  PROVE /\ Sent(senders, parts) \in [Stripe -> Seq(Part)]
                        /\ \A d \in Stripe : Sent(senders, parts)[d] \in Seq(PartAt(d))
<1>1. ASSUME NEW d \in Stripe
      PROVE  senders[d] \o ElementsAt(parts, {i \in DOMAIN parts : DiskOf(parts[i]) = d}) \in Seq(PartAt(d))
  <2>1. PICK I : I = {i \in DOMAIN parts : DiskOf(parts[i]) = d}
    OBVIOUS
  <2>2. PICK s : s = ElementsAt(parts, I)
    OBVIOUS
  <2>3. s \in Seq(GoodPart) /\ \A k \in 1 .. Len(s) : \E i \in I : s[k] = parts[i]
    <3>1. I \subseteq DOMAIN parts
      BY <2>1
    <3> QED BY <2>2, <3>1, Selection
  <2>4. \A k \in 1 .. Len(s) : s[k] \in PartAt(d)
    BY <2>1, <2>3 DEF PartAt
  <2>5. s \in Seq(PartAt(d))
    BY <2>3, <2>4
  <2> QED BY <2>1, <2>2, <2>5
<1>2. \A d \in Stripe : Sent(senders, parts)[d] \in Seq(PartAt(d))
  BY <1>1 DEF Sent
<1>3. \A d \in Stripe : Seq(PartAt(d)) \subseteq Seq(Part)
  BY DEF PartAt, GoodPart
<1> QED BY <1>2, <1>3 DEF Sent

\* What has been fetched is put together again to requests.
LEMMA CompletedType == ASSUME NEW parts \in Seq(Part) PROVE Completed(parts) \in Seq(Req)
<1> DEFINE reqs == [i \in DOMAIN parts |-> parts[i].req]
<1>1. reqs \in Seq(Req)
  <2>1. Len(parts) \in Nat /\ DOMAIN parts = 1 .. Len(parts) /\ \A i \in DOMAIN parts : parts[i] \in Part
    OBVIOUS
  <2>2. \A i \in DOMAIN parts : parts[i].req \in Req
    BY <2>1 DEF Part
  <2> QED BY <2>1, <2>2
<1>2. DOMAIN reqs = DOMAIN parts
  OBVIOUS
<1> HIDE DEF reqs
<1>3. \A I \in SUBSET DOMAIN parts : ElementsAt(reqs, I) \in Seq(Req)
  BY <1>1, <1>2, Selection
<1> DEFINE ends == [i \in DOMAIN parts |->
                    IF ~IsSplit(parts[i].req) THEN "whole"
                    ELSE IF /\ PagesOf(parts[i].req, parts) = rq[parts[i].req].left
                            /\ \A j \in i + 1 .. Len(parts) : parts[j].req # parts[i].req
                         THEN "last" ELSE "part"]
           at(kind) == {i \in DOMAIN parts : ends[i] = kind}
<1>4. Completed(parts) = ElementsAt(reqs, at("whole")) \o ElementsAt(reqs, at("last"))
  BY Zenon DEF Completed, reqs
<1> HIDE DEF ends
<1>5. at("whole") \in SUBSET DOMAIN parts /\ at("last") \in SUBSET DOMAIN parts
  OBVIOUS
<1> HIDE DEF at
<1>6. ElementsAt(reqs, at("whole")) \in Seq(Req) /\ ElementsAt(reqs, at("last")) \in Seq(Req)
  BY <1>3, <1>5
<1> QED BY <1>4, <1>6

\* The parts handed back in one go, and those that are left for later.
LEMMA GroupType == ASSUME NEW S, S \subseteq Part, NEW t, t.tcbs \in Seq(S), t.tcbs # <<>>
                   PROVE /\ Head(t.tcbs).req[1] \in App
                         /\ Group(t) \in Seq(S) /\ Ungrouped(t) \in Seq(S)
<1>1. PICK s \in Seq(S) : s = t.tcbs /\ s # <<>>
  OBVIOUS
<1>2. Head(s) \in S /\ Tail(s) \in Seq(S) /\ <<Head(s)>> \in Seq(S)
  BY <1>1
<1>3. Head(s).req \in Req
  BY <1>2 DEF Part
<1>4. Head(s).req[1] \in App
  BY <1>3 DEF Req
<1>5. \A I \in SUBSET DOMAIN s : ElementsAt(s, I) \in Seq(S)
  BY Selection
<1>6. Group(t) \in Seq(S)
  <2>1. PICK I : I = {i \in DOMAIN s : s[i].req[1] = Head(s).req[1]}
    OBVIOUS
  <2>2. ElementsAt(s, I) \in Seq(S)
    BY <1>5, <2>1
  <2>3. Group(t) = IF t.grouped THEN ElementsAt(s, I) ELSE <<Head(s)>>
    BY <1>1, <2>1 DEF Group
  <2> QED BY <1>2, <2>2, <2>3
<1>7. Ungrouped(t) \in Seq(S)
  <2>1. PICK I : I = {i \in DOMAIN s : s[i].req[1] # Head(s).req[1]}
    OBVIOUS
  <2>2. ElementsAt(s, I) \in Seq(S)
    BY <1>5, <2>1
  <2>3. Ungrouped(t) = IF t.grouped THEN ElementsAt(s, I) ELSE Tail(s)
    BY <1>1, <2>1 DEF Ungrouped
  <2> QED BY <1>2, <2>2, <2>3
<1> QED BY <1>1, <1>4, <1>6, <1>7

\* The first elements of a sequence, and the others.
LEMMA Pieces == ASSUME NEW S, NEW s \in Seq(S), NEW n \in Nat, n <= Len(s)
                PROVE /\ SubSeq(s, 1, n) \in Seq(S) /\ Len(SubSeq(s, 1, n)) = n
                      /\ SubSeq(s, n + 1, Len(s)) \in Seq(S) /\ Len(SubSeq(s, n + 1, Len(s))) = Len(s) - n
<1>1. Len(s) \in Nat
  OBVIOUS
<1>2. 1 \in 1 .. Len(s) + 1 /\ n \in 1 - 1 .. Len(s) /\ n + 1 \in 1 .. Len(s) + 1 /\ Len(s) \in (n + 1) - 1 .. Len(s)
  BY <1>1
<1>3. SubSeq(s, 1, n) \in Seq(S) /\ Len(SubSeq(s, 1, n)) = n - 1 + 1
  BY <1>2, SubSeqProperties
<1>4. SubSeq(s, n + 1, Len(s)) \in Seq(S) /\ Len(SubSeq(s, n + 1, Len(s))) = Len(s) - (n + 1) + 1
  BY <1>2, SubSeqProperties
<1> QED BY <1>1, <1>3, <1>4

\* Two records of an I/O thread that differ in what it has to submit and has submitted.
SameBut(s, t) == /\ s.act = t.act /\ s.comm = t.comm /\ s.open = t.open /\ s.finished = t.finished
                 /\ s.events = t.events /\ s.tcbs = t.tcbs /\ s.to = t.to

\* async_io::access takes no more slots than are free.
LEMMA SubmittedForm ==
    ASSUME NEW d \in Stripe, NEW t \in IORec(d), NEW busy \in Nat, busy <= AIODepth, IsFiniteSet(t.kernel)
    PROVE  LET s == Submitted(t, busy)
           IN  /\ s \in IORec(d) /\ SameBut(s, t) /\ s.queue = t.queue /\ s.pc \in {"comm", "iowait"}
               /\ IsFiniteSet(s.kernel) /\ Cardinality(s.kernel) <= Cardinality(t.kernel) + AIODepth - busy
<1>1. PICK l \in Seq(PartAt(d)) : l = t.local
  BY DEF IORec
<1>2. AIODepth \in Nat
  BY DiskIOAssumption
<1>3. PICK len \in Nat : len = Len(l)
  <2>1. Len(l) \in Nat
    OBVIOUS
  <2> QED BY <2>1
<1>4. PICK num \in Nat : num = Min({AIODepth - busy, Len(l)}) /\ num <= AIODepth - busy /\ num <= Len(l)
  <2>1. AIODepth - busy \in Nat
    BY <1>2
  <2>a. AIODepth - busy \in Int /\ len \in Int
    BY <2>1
  <2>2. Min({AIODepth - busy, len}) = IF AIODepth - busy <= len THEN AIODepth - busy ELSE len
    BY <2>a, MinMax, Zenon
  <2> QED BY <1>3, <2>1, <2>2
<1>5. SubSeq(l, 1, num) \in Seq(PartAt(d)) /\ Len(SubSeq(l, 1, num)) = num /\ SubSeq(l, num + 1, Len(l)) \in Seq(PartAt(d))
  BY Pieces, <1>4
<1>6. PICK K : K = ToSet(SubSeq(l, 1, num))
  OBVIOUS
<1>7. K \subseteq PartAt(d) /\ IsFiniteSet(K) /\ Cardinality(K) \in Nat /\ Cardinality(K) <= num
  BY <1>5, <1>6, ElementsFinite
<1>8. PICK k : k = t.kernel /\ k \subseteq PartAt(d) /\ IsFiniteSet(k)
  BY DEF IORec
<1>9. IsFiniteSet(k \cup K) /\ Cardinality(k \cup K) <= Cardinality(k) + Cardinality(K)
  <2>1. IsFiniteSet(k \cup K) /\ Cardinality(k \cup K) = Cardinality(k) + Cardinality(K) - Cardinality(k \cap K)
    BY <1>7, <1>8, FS_Union
  <2>2. IsFiniteSet(k \cap K)
    BY <1>8, FS_Intersection
  <2>3. Cardinality(k \cap K) \in Nat /\ Cardinality(k) \in Nat
    BY <1>8, <2>2, FS_CardinalityType
  <2> QED BY <1>7, <2>1, <2>3
<1>10. Cardinality(k) \in Nat /\ Cardinality(k \cup K) \in Nat
  BY <1>8, <1>9, FS_CardinalityType
<1>11. PICK s : s = Submitted(t, busy)
  OBVIOUS
<1>12. s = [t EXCEPT !.kernel = k \cup K, !.local = SubSeq(l, num + 1, Len(l)),
                     !.pc = IF num = Len(l) THEN "comm" ELSE "iowait",
                     !.ret = IF num = Len(l) THEN "fetch" ELSE "access"]
  BY <1>1, <1>4, <1>6, <1>8, <1>11 DEF Submitted
<1>13. k \cup K \in SUBSET PartAt(d)
  BY <1>7, <1>8
<1>14. s \in IORec(d) /\ s.kernel = k \cup K /\ s.pc \in {"comm", "iowait"} /\ SameBut(s, t) /\ s.queue = t.queue
  BY <1>5, <1>12, <1>13 DEF IORec, SameBut
<1>15. Cardinality(s.kernel) <= Cardinality(t.kernel) + AIODepth - busy
  BY <1>2, <1>4, <1>7, <1>8, <1>9, <1>10, <1>14
<1> QED BY <1>9, <1>11, <1>14, <1>15

\* The slots an I/O thread uses are counted by numbers.
LEMMA UsedType == ASSUME NEW d \in Stripe, NEW x, IOOK(d, x)
                  PROVE /\ Cardinality(x.kernel) \in Nat /\ Len(x.finished) \in Nat /\ x.events \in Nat
                        /\ Cardinality(x.kernel) + Len(x.finished) + x.events \in Nat
                        /\ Cardinality(x.kernel) + Len(x.finished) + x.events <= AIODepth /\ AIODepth \in Nat \ {0}
                        /\ Cardinality(x.kernel) + Len(x.finished) + x.events = 0 =>
                              x.kernel = {} /\ x.finished = <<>> /\ x.events = 0
<1>1. IsFiniteSet(x.kernel) /\ Cardinality(x.kernel) + Len(x.finished) + x.events <= AIODepth
  BY DEF IOOK, SlotsOK
<1>2. Cardinality(x.kernel) \in Nat /\ (Cardinality(x.kernel) = 0 <=> x.kernel = {})
  BY <1>1, FS_CardinalityType, FS_EmptySet
<1>3. x.finished \in Seq(PartAt(d)) /\ x.events \in Nat
  BY DEF IOOK, IORec
<1>4. Len(x.finished) \in Nat /\ (Len(x.finished) = 0 => x.finished = <<>>)
  BY <1>3
<1>5. AIODepth \in Nat \ {0}
  BY DiskIOAssumption
<1>6. PICK c \in Nat, l \in Nat, e \in Nat : c = Cardinality(x.kernel) /\ l = Len(x.finished) /\ e = x.events
  BY <1>2, <1>3, <1>4
<1>7. c + l + e \in Nat /\ (c + l + e = 0 => c = 0 /\ l = 0 /\ e = 0)
  OBVIOUS
<1>8. Cardinality(x.kernel) + Len(x.finished) + x.events = 0 => x.kernel = {} /\ x.finished = <<>> /\ x.events = 0
  BY <1>2, <1>4, <1>6, <1>7
<1> QED BY <1>1, <1>2, <1>3, <1>4, <1>5, <1>6, <1>7, <1>8

\* get_all_reqs empties the queue, and leaves the thread to sleep only when it has nothing under way.
LEMMA FetchedForm ==
    ASSUME NEW d \in Stripe, IOOK(d, io[d]), io[d].pc \in {"wait", "comm", "fetch"}
    PROVE  LET s == Fetched(d)
           IN  IOOK(d, s) /\ SameBut(s, io[d]) /\ s.queue = <<>> /\ s.pc \in {"comm", "iowait", "wait"}
<1>1. PICK x : x = io[d] /\ IOOK(d, x) /\ x \in IORec(d) /\ IsFiniteSet(x.kernel) /\ x.events = 0 /\ x.to \notin App
  BY DEF IOOK, SlotsOK, HandsOK
<1>2. PICK busy \in Nat : /\ busy = Busy(d) /\ busy = Cardinality(x.kernel) + Len(x.finished) + x.events
                          /\ busy <= AIODepth /\ Cardinality(x.kernel) \in Nat /\ Len(x.finished) \in Nat /\ x.events \in Nat
                          /\ (busy = 0 => x.kernel = {} /\ x.finished = <<>> /\ x.events = 0) /\ AIODepth \in Nat
  BY <1>1, UsedType DEF Busy
<1>3. PICK s : s = Fetched(d)
  OBVIOUS
<1>4. CASE x.queue # <<>>
  <2>1. PICK t : t = [x EXCEPT !.queue = <<>>, !.local = x.queue]
    OBVIOUS
  <2>2. t \in IORec(d) /\ SameBut(t, x) /\ t.queue = <<>> /\ t.kernel = x.kernel
    <3>1. <<>> \in Seq(PartAt(d)) /\ x.queue \in Seq(PartAt(d))
      BY <1>1 DEF IORec
    <3> QED BY <1>1, <2>1, <3>1 DEF IORec, SameBut
  <2>3. s = Submitted(t, busy)
    BY <1>1, <1>2, <1>3, <1>4, <2>1 DEF Fetched
  <2>4. /\ s \in IORec(d) /\ SameBut(s, t) /\ s.queue = t.queue /\ s.pc \in {"comm", "iowait"}
        /\ IsFiniteSet(s.kernel) /\ Cardinality(s.kernel) <= Cardinality(t.kernel) + AIODepth - busy
    BY <1>1, <1>2, <2>2, <2>3, SubmittedForm
  <2>5. s.finished = x.finished /\ s.events = x.events /\ s.to = x.to /\ SameBut(s, x)
    BY <2>2, <2>4 DEF SameBut
  <2>6. Cardinality(s.kernel) \in Nat
    BY <2>4, FS_CardinalityType
  <2>7. Cardinality(s.kernel) + Len(s.finished) + s.events <= AIODepth
    BY <1>2, <2>2, <2>4, <2>5, <2>6, SMTT(30)
  <2>8. IOOK(d, s)
    BY <1>1, <2>4, <2>5, <2>7 DEF IOOK, SlotsOK, HandsOK
  <2> QED BY <1>1, <1>3, <2>2, <2>4, <2>5, <2>8
<1>5. CASE x.queue = <<>>
  <2>1. s = [x EXCEPT !.pc = IF busy > 0 THEN "iowait" ELSE "wait"]
    BY <1>1, <1>2, <1>3, <1>5 DEF Fetched
  <2>2. s \in IORec(d) /\ SameBut(s, x) /\ s.queue = <<>> /\ s.kernel = x.kernel /\ s.pc = IF busy > 0 THEN "iowait" ELSE "wait"
    BY <1>1, <1>5, <2>1 DEF IORec, SameBut
  <2>3. s.finished = x.finished /\ s.events = x.events /\ s.to = x.to
    BY <2>2 DEF SameBut
  <2>4. IOOK(d, s)
    BY <1>1, <1>2, <2>2, <2>3 DEF IOOK, SlotsOK, HandsOK
  <2> QED BY <1>1, <1>3, <2>2, <2>4
<1> QED BY <1>4, <1>5

-------------------------------------------------------------------------------
(* Steps                                                                   *)

\* The initial state.
LEMMA InitInv == Init => IInv
<1> SUFFICES ASSUME Init PROVE IInv
  OBVIOUS
<1>1. 0 \in Stripe /\ None \notin App
  BY Params, DiskIOAssumption DEF Stripe
<1>2. \A S : <<>> \in Seq(S)
  OBVIOUS
<1>3. \A a \in App : app[a] = [pc |-> "none", ret |-> "idle", disk |-> 0, act |-> FALSE,
                 senders |-> [d \in Stripe |-> <<>>], complete |-> <<>>, calls |-> <<>>,
                 mode |-> "none", issued |-> 0, completed |-> 0, batch |-> 0,
                 base |-> 0, target |-> 0, num |-> 0]
  BY DEF Init
<1>4. \A d \in Stripe : io[d] =
                [pc |-> "wait", act |-> FALSE, queue |-> <<>>, comm |-> <<>>, open |-> FALSE,
                 local |-> <<>>, kernel |-> {}, finished |-> <<>>, events |-> 0,
                 tcbs |-> <<>>, grouped |-> FALSE, to |-> None, ret |-> "fetch"]
  BY DEF Init
<1>5. file \in FileRec /\ CTOK(ct)
  <2>1. Len(<<>>) <= CompleteSize
    BY DiskIOAssumption
  <2>2. ct \in CTRec
    BY <1>2 DEF Init, CTRec
  <2> QED BY <1>1, <2>1, <2>2 DEF Init, FileRec, CTOK, HandsOK
<1>6. AppsOK
  <2>1. [d \in Stripe |-> <<>>] \in [Stripe -> Seq(Part)]
    BY <1>2
  <2>2. \A a \in App : app[a] \in AppRec(app[a])
    BY <1>1, <1>2, <1>3, <2>1, SMTT(30) DEF AppRec
  <2> SUFFICES ASSUME NEW a \in App PROVE AppOK(app[a])
    BY DEF AppsOK, Init
  <2>3. \A d \in Stripe : app[a].senders[d] \in Seq(PartAt(d))
    <3> TAKE d \in Stripe
    <3>1. app[a].senders[d] = <<>>
      BY <1>3
    <3> QED BY <3>1
  <2> QED BY <1>3, <2>2, <2>3 DEF AppOK
<1>7. IOsOK
  <2> SUFFICES ASSUME NEW d \in Stripe PROVE IOOK(d, io[d])
    BY DEF IOsOK, Init
  <2>1. <<>> \in Seq(PartAt(d)) /\ {} \in SUBSET PartAt(d) /\ <<>> \in Seq({"open", "close"})
    OBVIOUS
  <2>2. [pc |-> "wait", act |-> FALSE, queue |-> <<>>, comm |-> <<>>, open |-> FALSE,
         local |-> <<>>, kernel |-> {}, finished |-> <<>>, events |-> 0,
         tcbs |-> <<>>, grouped |-> FALSE, to |-> None, ret |-> "fetch"] \in IORec(d)
    BY <2>1, Zenon DEF IORec
  <2>3. Cardinality(io[d].kernel) = 0 /\ Len(io[d].finished) = 0 /\ io[d].events = 0 /\ IsFiniteSet(io[d].kernel)
    BY <1>4, FS_EmptySet, SMTT(30)
  <2>4. 0 <= AIODepth
    BY DiskIOAssumption
  <2>5. SlotsOK(io[d])
    BY <1>4, <2>3, <2>4 DEF SlotsOK
  <2> QED BY <1>1, <1>4, <2>2, <2>5 DEF IOOK, HandsOK
<1>8. CommandsSeen /\ QueuesSeen /\ TcbsSeen /\ CompletionsSeen
  BY <1>3, <1>4 DEF CommandsSeen, QueuesSeen, TcbsSeen, CompletionsSeen, Init
<1> QED BY <1>5, <1>6, <1>7, <1>8 DEF IInv

\* Changing the record of one application thread ...
LEMMA AppsKept == ASSUME AppsOK, NEW a \in App, NEW y, AppOK(y), app' = [app EXCEPT ![a] = y]
                  PROVE AppsOK' /\ app'[a] = y /\ \A b \in App : b # a => app'[b] = app[b]
<1>1. DOMAIN app = App /\ \A b \in App : AppOK(app[b])
  BY DEF AppsOK
<1>2. DOMAIN app' = App /\ app'[a] = y /\ \A b \in App : b # a => app'[b] = app[b]
  BY <1>1
<1>3. \A b \in App : AppOK(app'[b])
  BY <1>1, <1>2
<1>4. AppsOK'
  BY <1>2, <1>3 DEF AppsOK, AppOK, AppRec
<1> QED BY <1>2, <1>4

\* ... or of one I/O thread.
LEMMA IOsKept == ASSUME IOsOK, NEW d \in Stripe, NEW y, IOOK(d, y), io' = [io EXCEPT ![d] = y]
                 PROVE IOsOK' /\ io'[d] = y /\ \A e \in Stripe : e # d => io'[e] = io[e]
<1>1. DOMAIN io = Stripe /\ \A e \in Stripe : IOOK(e, io[e])
  BY DEF IOsOK
<1>2. DOMAIN io' = Stripe /\ io'[d] = y /\ \A e \in Stripe : e # d => io'[e] = io[e]
  BY <1>1
<1>3. \A e \in Stripe : IOOK(e, io'[e])
  BY <1>1, <1>2
<1>4. IOsOK'
  BY <1>2, <1>3 DEF IOsOK
<1> QED BY <1>2, <1>4

\* A step of an application thread by itself.
LEMMA AppOnly ==
    ASSUME IInv, NEW a \in App, NEW y, AppOK(y), app' = [app EXCEPT ![a] = y], UNCHANGED <<file, io, ct>>,
           app[a].pc # "flushed",
           y.complete = <<>> \/ (y.complete = app[a].complete /\ (Looks(app[a]) => Looks(y)))
    PROVE  IInv'
<1>1. AppsOK' /\ app'[a] = y /\ \A b \in App : b # a => app'[b] = app[b]
  BY AppsKept DEF IInv
<1>2. (file \in FileRec)' /\ IOsOK' /\ CTOK(ct)' /\ CommandsSeen' /\ TcbsSeen'
  BY DEF IInv, IOsOK, CommandsSeen, TcbsSeen
<1>3. QueuesSeen'
  BY <1>1 DEF IInv, QueuesSeen
<1>4. CompletionsSeen'
  BY <1>1 DEF IInv, CompletionsSeen, Looks
<1> QED BY <1>1, <1>2, <1>3, <1>4 DEF IInv

\* Where a thread goes on that may have something to flush.
LEMMA FlushOrForm == ASSUME NEW senders, NEW ret
                     PROVE /\ FlushOr(senders, ret) \in {"flush", ret}
                           /\ FlushOr(senders, ret) = "flush" => ret = "flush" \/ \E d \in Stripe : senders[d] # <<>>
BY DEF FlushOr

\* create_io.
LEMMA CreateIOStep == ASSUME IInv, NEW a \in App, CreateIO(a) PROVE IInv'
<1>1. PICK x : x = app[a] /\ AppOK(x) /\ x \in AppRec(x) /\ x.pc = "none"
  BY DEF IInv, AppsOK, AppOK, CreateIO
<1>2. PICK y : y = [x EXCEPT !.pc = "idle"]
  OBVIOUS
<1>3. app' = [app EXCEPT ![a] = y]
  BY <1>1, <1>2 DEF IInv, AppsOK, CreateIO
<1>4. AppOK(y)
  <2>0. x \in AppRec(x)
    BY <1>1
  <2>1. y \in AppRec(y)
    BY <2>0, <1>2 DEF AppRec
  <2> QED BY <1>1, <1>2, <2>1, SMTT(30) DEF AppOK, AppRec
<1>5. y.complete = <<>> \/ (y.complete = app[a].complete /\ (Looks(app[a]) => Looks(y)))
  BY <1>1, <1>2 DEF AppRec, Looks
<1> QED BY <1>1, <1>3, <1>4, <1>5, AppOnly DEF CreateIO

\* A flush request.
LEMMA FlushRequestStep == ASSUME IInv, NEW a \in App, FlushRequest(a) PROVE IInv'
<1>1. PICK x : x = app[a] /\ AppOK(x) /\ x \in AppRec(x) /\ x.pc = "idle"
  BY DEF IInv, AppsOK, AppOK, FlushRequest
<1>a. PICK pc : pc = FlushOr(x.senders, "idle") /\ pc \in {"flush", "idle"} /\ (pc = "flush" => \E d \in Stripe : x.senders[d] # <<>>)
  BY FlushOrForm
<1>b. PICK n \in Nat : n = x.issued + 1
  BY <1>1 DEF AppRec
<1>2. PICK y : y = [x EXCEPT !.issued = n, !.completed = @ + 1, !.pc = pc, !.ret = "idle"]
  OBVIOUS
<1>3. app' = [app EXCEPT ![a] = y]
  BY <1>1, <1>2, <1>a, <1>b DEF IInv, AppsOK, FlushRequest
<1>4. AppOK(y)
  <2>0. x \in AppRec(x)
    BY <1>1
  <2>a. pc \in {"flush", "idle"} /\ n \in Nat
    BY <1>1, <1>a, <1>b
  <2>1. y \in AppRec(y)
    BY <2>0, <1>2, <2>a, ZenonT(40) DEF AppRec
  <2> QED BY <1>1, <1>2, <2>1, <1>a, <1>b DEF AppOK, AppRec
<1>5. y.complete = <<>> \/ (y.complete = app[a].complete /\ (Looks(app[a]) => Looks(y)))
  BY <1>1, <1>2 DEF AppRec, Looks
<1> QED BY <1>1, <1>3, <1>4, <1>5, AppOnly DEF FlushRequest

\* The beginning of wait4complete.
LEMMA Wait4CompleteStep == ASSUME IInv, NEW a \in App, NEW mode, NEW num, Wait4Complete(a, mode, num) PROVE IInv'
<1>1. PICK x : x = app[a] /\ AppOK(x) /\ x \in AppRec(x) /\ x.pc = "idle"
  BY DEF IInv, AppsOK, AppOK, Wait4Complete
<1>a. PICK pc : pc = FlushOr(x.senders, "take") /\ pc \in {"flush", "take"} /\ (pc = "flush" => \E d \in Stripe : x.senders[d] # <<>>)
  BY FlushOrForm
<1>b. PICK base, target : base = Pending(a) /\ target = Min({Pending(a), num})
  OBVIOUS
<1>2. PICK y : y = [x EXCEPT !.mode = mode, !.ret = "take", !.pc = pc, !.base = base, !.target = target]
  OBVIOUS
<1>3. app' = [app EXCEPT ![a] = y]
  BY <1>1, <1>2, <1>a, <1>b DEF IInv, AppsOK, Wait4Complete
<1>4. AppOK(y)
  <2>0. x \in AppRec(x)
    BY <1>1
  <2>a. pc \in {"flush", "take"}
    BY <1>1, <1>a, <1>b
  <2>1. y \in AppRec(y)
    BY <2>0, <1>2, <2>a, ZenonT(40) DEF AppRec
  <2> QED BY <1>1, <1>2, <2>1, <1>a, <1>b DEF AppOK, AppRec
<1>5. y.complete = <<>> \/ (y.complete = app[a].complete /\ (Looks(app[a]) => Looks(y)))
  BY <1>1, <1>2, <1>a DEF AppRec, Looks
<1> QED BY <1>1, <1>3, <1>4, <1>5, AppOnly DEF Wait4Complete

\* Fetching what is complete.
LEMMA TakeCompletedStep == ASSUME IInv, NEW a \in App, TakeCompleted(a) PROVE IInv'
<1>1. PICK x : x = app[a] /\ AppOK(x) /\ x \in AppRec(x) /\ x.pc = "take"
  BY DEF IInv, AppsOK, AppOK, TakeCompleted
<1>a. PICK done \in Seq(Req) : done = Completed(x.complete)
  <2>1. x.complete \in Seq(Part)
    BY <1>1 DEF AppRec
  <2> QED BY <2>1, CompletedType
<1>b. PICK num, batch : num = x.num + Len(x.complete) /\ batch = Len(done)
  OBVIOUS
<1>c. <<>> \in Seq(Part)
  OBVIOUS
<1>2. PICK y : y = [x EXCEPT !.pc = "call", !.complete = <<>>, !.num = num, !.calls = done, !.batch = batch]
  OBVIOUS
<1>3. app' = [app EXCEPT ![a] = y]
  BY <1>1, <1>2, <1>a, <1>b, <1>c DEF IInv, AppsOK, TakeCompleted
<1>4. AppOK(y)
  <2>0. x \in AppRec(x)
    BY <1>1
  <2>a. done \in Seq(Req) /\ <<>> \in Seq(Part)
    BY <1>1, <1>a, <1>b, <1>c
  <2>1. y \in AppRec(y)
    BY <2>0, <1>2, <2>a, ZenonT(40) DEF AppRec
  <2> QED BY <1>1, <1>2, <2>1, <1>a, <1>b, <1>c DEF AppOK, AppRec
<1>5. y.complete = <<>> \/ (y.complete = app[a].complete /\ (Looks(app[a]) => Looks(y)))
  BY <1>1, <1>2 DEF AppRec, Looks
<1> QED BY <1>1, <1>3, <1>4, <1>5, AppOnly DEF TakeCompleted

\* thread::wait of an application thread returns.
LEMMA WakeAppStep == ASSUME IInv, NEW a \in App, WakeApp(a) PROVE IInv'
<1>1. PICK x : x = app[a] /\ AppOK(x) /\ x \in AppRec(x) /\ x.pc = "wait"
  BY DEF IInv, AppsOK, AppOK, WakeApp
<1>a. PICK pc : pc = FlushOr(x.senders, "take") /\ pc \in {"flush", "take"} /\ (pc = "flush" => \E d \in Stripe : x.senders[d] # <<>>)
  BY FlushOrForm
<1>b. PICK npc \in {"flush", "take"} : npc = (IF x.mode = "select" THEN pc ELSE "take") /\ (npc = "flush" => \E d \in Stripe : x.senders[d] # <<>>)
  BY <1>a
<1>2. PICK y : y = [x EXCEPT !.act = FALSE, !.ret = "take", !.pc = npc]
  OBVIOUS
<1>3. app' = [app EXCEPT ![a] = y]
  BY <1>1, <1>2, <1>a, <1>b DEF IInv, AppsOK, WakeApp
<1>4. AppOK(y)
  <2>0. x \in AppRec(x)
    BY <1>1
  <2>a. npc \in {"flush", "take"}
    BY <1>1, <1>a, <1>b
  <2>1. y \in AppRec(y)
    BY <2>0, <1>2, <2>a, ZenonT(40) DEF AppRec
  <2> QED BY <1>1, <1>2, <2>1, <1>a, <1>b DEF AppOK, AppRec
<1>5. y.complete = <<>> \/ (y.complete = app[a].complete /\ (Looks(app[a]) => Looks(y)))
  BY <1>1, <1>2, <1>b DEF AppRec, Looks
<1> QED BY <1>1, <1>3, <1>4, <1>5, AppOnly DEF WakeApp

\* cleanup of an instance.
LEMMA CleanupStep == ASSUME IInv, NEW a \in App, Cleanup(a) PROVE IInv'
<1>1. PICK x : x = app[a] /\ AppOK(x) /\ x \in AppRec(x) /\ x.pc = "idle"
  BY DEF IInv, AppsOK, AppOK, Cleanup
<1>2. PICK y : y = [x EXCEPT !.pc = "drain"]
  OBVIOUS
<1>3. app' = [app EXCEPT ![a] = y]
  BY <1>1, <1>2 DEF IInv, AppsOK, Cleanup
<1>4. AppOK(y)
  <2>0. x \in AppRec(x)
    BY <1>1
  <2>1. y \in AppRec(y)
    BY <2>0, <1>2 DEF AppRec
  <2> QED BY <1>1, <1>2, <2>1, SMTT(30) DEF AppOK, AppRec
<1>5. y.complete = <<>> \/ (y.complete = app[a].complete /\ (Looks(app[a]) => Looks(y)))
  BY <1>1, <1>2 DEF AppRec, Looks
<1> QED BY <1>1, <1>3, <1>4, <1>5, AppOnly DEF Cleanup

\* The end of a round of wait4complete.
LEMMA CountedStep == ASSUME IInv, NEW a \in App, Counted(a) PROVE IInv'
<1>1. PICK x : x = app[a] /\ AppOK(x) /\ x \in AppRec(x) /\ x.pc = "call"
  BY DEF IInv, AppsOK, AppOK, Counted
<1>2. PICK done : done = app[a].completed + app[a].batch
  OBVIOUS
<1>3. PICK y : y = [x EXCEPT !.completed = done, !.batch = 0, !.pc = "idle", !.ret = "idle", !.mode = "none",
                             !.base = 0, !.target = 0, !.num = 0]
  OBVIOUS
<1>4. PICK z : z = [x EXCEPT !.completed = done, !.batch = 0, !.pc = "wait"]
  OBVIOUS
<1>5. app' = [app EXCEPT ![a] = y] \/ app' = [app EXCEPT ![a] = z]
  <2>1. Returned(a, done) = y
    BY <1>1, <1>3 DEF Returned
  <2>2. app[a] = x /\ a \in DOMAIN app
    BY <1>1 DEF IInv, AppsOK
  <2> QED BY <1>2, <1>4, <2>1, <2>2 DEF Counted
<1>6. AppOK(y) /\ y.complete = x.complete /\ (Looks(x) => Looks(y))
  <2>0. x \in AppRec(x)
    BY <1>1
  <2>1. y \in AppRec(y)
    BY <2>0, <1>3, ZenonT(40) DEF AppRec
  <2>2. y.pc = "idle" /\ y.senders = x.senders /\ y.complete = x.complete /\ y.act = x.act
    BY <2>0, <1>3 DEF AppRec
  <2> QED BY <1>1, <2>1, <2>2 DEF AppOK, Looks
<1>7. AppOK(z) /\ z.complete = x.complete /\ (Looks(x) => Looks(z))
  <2>1. z \in AppRec(z)
    BY <1>1, <1>4, ZenonT(40) DEF AppRec
  <2> QED BY <1>1, <1>4, <2>1 DEF AppOK, AppRec, Looks
<1> QED BY <1>1, <1>5, <1>6, <1>7, AppOnly DEF Counted

\* access of a request, by the application or in a callback.
LEMMA AccessByStep ==
    ASSUME IInv, NEW a \in App, NEW e \in Extents[a], NEW sync \in BOOLEAN, NEW ret \in {"idle", "call"}, app[a].pc = ret,
           ret = "call" => app[a].calls # <<>>, AccessBy(a, e[1], e[2], sync, ret), UNCHANGED <<file, io, ct>>
    PROVE  IInv'
<1>1. PICK x : x = app[a] /\ AppOK(x) /\ x \in AppRec(x) /\ x.pc = ret
  BY DEF IInv, AppsOK, AppOK
<1>2. PICK n \in Nat : n = x.issued + 1
  BY <1>1 DEF AppRec
<1>3. PICK r \in Req : r = <<a, n>>
  <2>1. x.issued < MaxReqs[a] /\ MaxReqs[a] \in Nat /\ x.issued \in Nat
    BY <1>1, DiskIOAssumption DEF AccessBy, AppRec
  <2>2. n \in 1 .. MaxReqs[a]
    BY <1>2, <2>1
  <2>3. <<a, n>> \in {a} \X (1 .. MaxReqs[a])
    BY <2>2
  <2>4. <<a, n>> \in Req
    BY <2>3, Zenon DEF Req
  <2> QED BY <2>4
<1>4. PICK off \in Nat, size \in Nat \ {0} : off = e[1] /\ size = e[2] /\ off + size <= FilePages
  BY DiskIOAssumption
<1>5. PICK parts \in Seq(GoodPart) : parts = Split(r, off, size)
  BY <1>4, SplitType
<1>6. PICK sent : /\ sent = Sent(x.senders, parts) /\ sent \in [Stripe -> Seq(Part)]
                  /\ \A d \in Stripe : sent[d] \in Seq(PartAt(d))
  BY <1>1, SentType DEF AppOK
<1>7. PICK pc \in {"flush", ret} : /\ pc = IF sync \/ NumRemaining(sent) > MaxCached THEN FlushOr(sent, ret) ELSE ret
                                   /\ pc = "flush" => \E d \in Stripe : sent[d] # <<>>
  <2>1. /\ FlushOr(sent, ret) \in {"flush", ret}
        /\ FlushOr(sent, ret) = "flush" => ret = "flush" \/ \E d \in Stripe : sent[d] # <<>>
    BY FlushOrForm
  <2> QED BY <2>1
<1>8. PICK calls \in Seq(Req) : calls = IF ret = "call" THEN Tail(x.calls) ELSE x.calls
  <2>1. x.calls \in Seq(Req) /\ (ret = "call" => x.calls # <<>>)
    BY <1>1 DEF AppRec
  <2>2. ret = "call" => Tail(x.calls) \in Seq(Req)
    BY <2>1
  <2> QED BY <2>1, <2>2
<1>9. PICK y : y = [x EXCEPT !.issued = n, !.senders = sent, !.ret = ret, !.pc = pc, !.calls = calls]
  OBVIOUS
<1>10. app' = [app EXCEPT ![a] = y]
  <2>1. app' = [app EXCEPT ![a].issued = @ + 1, ![a].senders = sent, ![a].ret = ret,
                           ![a].pc = IF sync \/ NumRemaining(sent) > MaxCached THEN FlushOr(sent, ret) ELSE ret,
                           ![a].calls = IF ret = "call" THEN Tail(@) ELSE @]
    BY <1>1, <1>2, <1>3, <1>4, <1>5, <1>6 DEF AccessBy
  <2>2. app' = [app EXCEPT ![a].issued = @ + 1, ![a].senders = sent, ![a].ret = ret, ![a].pc = pc,
                           ![a].calls = IF ret = "call" THEN Tail(@) ELSE @]
    BY <1>7, <2>1, Zenon
  <2>3. DOMAIN app = App
    BY DEF IInv, AppsOK
  <2> QED BY <1>1, <1>2, <1>8, <1>9, <2>2, <2>3 DEF AppRec
<1>11. AppOK(y) /\ y.complete = x.complete /\ (Looks(x) => Looks(y))
  <2>1. x \in AppRec(x) /\ pc \in {"flush", "idle", "call"} /\ sent \in [Stripe -> Seq(Part)]
    BY <1>1, <1>6, <1>7
  <2>2. y \in AppRec(y) /\ y.pc = pc /\ y.senders = sent /\ y.complete = x.complete /\ y.act = x.act
    <3>1. y = [pc |-> pc, ret |-> ret, disk |-> x.disk, act |-> x.act, senders |-> sent, complete |-> x.complete,
               calls |-> calls, mode |-> x.mode, issued |-> n, completed |-> x.completed, batch |-> x.batch,
               base |-> x.base, target |-> x.target, num |-> x.num]
      BY <1>9, <2>1 DEF AppRec
    <3>2. x.disk \in Stripe /\ x.act \in BOOLEAN /\ x.complete \in Seq(Part)
      BY <2>1 DEF AppRec
    <3>3. /\ pc \in {"none", "idle", "flush", "flushed", "take", "call", "wait", "drain", "destroyed"}
          /\ ret \in {"idle", "take", "call"} /\ n \in Nat /\ calls \in Seq(Req)
      BY <2>1
    <3>4. y \in AppRec(y)
      BY <2>1, <3>1, <3>2, <3>3, Zenon DEF AppRec
    <3> QED BY <3>1, <3>4
  <2> QED BY <1>1, <1>6, <1>7, <2>2 DEF AppOK, Looks
<1>12. app[a].pc # "flushed"
  OBVIOUS
<1> QED BY <1>1, <1>10, <1>11, <1>12, AppOnly

\* access by the application.
LEMMA AccessStep == ASSUME IInv, NEW a \in App, NEW e \in Extents[a], NEW sync \in BOOLEAN, Access(a, e[1], e[2], sync)
                    PROVE IInv'
<1>1. app[a].pc = "idle" /\ AccessBy(a, e[1], e[2], sync, "idle") /\ UNCHANGED <<file, io, ct>>
  BY DEF Access
<1> QED BY <1>1, AccessByStep

\* A callback, which may issue a request.
LEMMA CallbackStep == ASSUME IInv, NEW a \in App, Callback(a) PROVE IInv'
<1>1. app[a].pc = "call" /\ app[a].calls # <<>> /\ UNCHANGED <<file, io, ct>>
  BY DEF Callback
<1>2. CASE app' = [app EXCEPT ![a].calls = Tail(@)]
  <2>1. PICK x : x = app[a] /\ AppOK(x) /\ x \in AppRec(x) /\ x.pc = "call" /\ x.calls # <<>>
    BY <1>1 DEF IInv, AppsOK, AppOK
  <2>2. PICK calls \in Seq(Req) : calls = Tail(x.calls)
    <3>1. x.calls \in Seq(Req)
      BY <2>1 DEF AppRec
    <3>2. Tail(x.calls) \in Seq(Req)
      BY <2>1, <3>1
    <3> QED BY <3>2
  <2>3. PICK y : y = [x EXCEPT !.calls = calls]
    OBVIOUS
  <2>4. app' = [app EXCEPT ![a] = y]
    BY <1>2, <2>1, <2>2, <2>3 DEF IInv, AppsOK
  <2>5. AppOK(y) /\ y.complete = x.complete /\ (Looks(x) => Looks(y))
    <3>1. y \in AppRec(y)
      BY <2>1, <2>3 DEF AppRec
    <3>2. y.pc = "call" /\ y.senders = x.senders /\ y.complete = x.complete /\ y.act = x.act
      BY <2>1, <2>3 DEF AppRec
    <3> QED BY <2>1, <3>1, <3>2 DEF AppOK, Looks
  <2> QED BY <1>1, <2>1, <2>4, <2>5, AppOnly
<1>3. CASE \E e \in Extents[a] : AccessBy(a, e[1], e[2], FALSE, "call")
  <2>1. PICK e \in Extents[a] : AccessBy(a, e[1], e[2], FALSE, "call")
    BY <1>3
  <2> QED BY <1>1, <2>1, AccessByStep
<1> QED BY <1>2, <1>3 DEF Callback

\* A step of an I/O thread that leaves the other threads alone, or one of the kernel.
LEMMA IOOnly ==
    ASSUME IInv, NEW d \in Stripe, NEW x, x = io[d], NEW y, IOOK(d, y), io' = [io EXCEPT ![d] = y], UNCHANGED <<app, ct>>,
           file' \in FileRec, file'.pc = file.pc, file'.disk = file.disk,
           y.to = x.to, x.pc = "added" => y.pc = "added",
           y.comm = <<>> \/ (y.comm = x.comm /\ (x.act => y.act)),
           y.queue = <<>> \/ (y.queue = x.queue /\ (x.act => y.act))
    PROVE  IInv'
<1>1. IOsOK' /\ io'[d] = y /\ \A e \in Stripe : e # d => io'[e] = io[e]
  BY IOsKept DEF IInv
<1>2. (file \in FileRec)' /\ AppsOK' /\ CTOK(ct)'
  BY DEF IInv, AppsOK
<1>3. CommandsSeen'
  BY <1>1 DEF IInv, CommandsSeen
<1>4. QueuesSeen'
  BY <1>1 DEF IInv, QueuesSeen
<1>5. TcbsSeen'
  BY <1>1 DEF IInv, TcbsSeen
<1>6. CompletionsSeen'
  BY <1>1 DEF IInv, CompletionsSeen
<1> QED BY <1>1, <1>2, <1>3, <1>4, <1>5, <1>6 DEF IInv

\* The commands of the queue are run, open or close, and answered.
LEMMA RunCommandsStep ==
    ASSUME IInv, NEW d \in Stripe, NEW t, IOOK(d, t), RunCommands(d, t), t.to = io[d].to, io[d].pc # "added",
           t.queue = <<>>
    PROVE  IInv'
<1>1. PICK b \in BOOLEAN : b = IF t.comm = <<>> THEN t.open ELSE Last(t.comm) = "open"
  <2>1. t.open \in BOOLEAN
    BY DEF IOOK, IORec
  <2>2. (Last(t.comm) = "open") \in BOOLEAN
    BY Zenon
  <2> QED BY <2>1, <2>2
<1>2. PICK y : y = [t EXCEPT !.comm = <<>>, !.open = b]
  OBVIOUS
<1>3. io' = [io EXCEPT ![d] = y]
  BY <1>1, <1>2, Zenon DEF RunCommands
<1>4. t \in IORec(d) /\ <<>> \in Seq({"open", "close"})
  BY DEF IOOK
<1>5. y \in IORec(d)
  BY <1>2, <1>4 DEF IORec
<1>6. /\ y.pc = t.pc /\ y.to = t.to /\ y.kernel = t.kernel /\ y.finished = t.finished /\ y.events = t.events
      /\ y.tcbs = t.tcbs /\ y.queue = t.queue /\ y.comm = <<>>
  BY <1>2, <1>4 DEF IORec
<1>7. IOOK(d, y)
  BY <1>5, <1>6 DEF IOOK, SlotsOK, HandsOK
<1>8. file' \in FileRec /\ file'.pc = file.pc /\ file'.disk = file.disk
  <2>1. file \in FileRec
    BY DEF IInv
  <2>2. PICK ans \in BOOLEAN : file' = [file EXCEPT !.answered = ans]
    <3>1. (file.answered \/ io[d].comm # <<>>) \in BOOLEAN
      BY Zenon
    <3>2. file' = [file EXCEPT !.answered = (file.answered \/ io[d].comm # <<>>)]
      BY Zenon DEF RunCommands
    <3> QED BY <3>1, <3>2, Zenon
  <2> QED BY <2>1, <2>2 DEF FileRec
<1>9. UNCHANGED <<app, ct>>
  BY DEF RunCommands
<1> QED BY <1>3, <1>6, <1>7, <1>8, <1>9, IOOnly

\* run, when thread::wait returns.
LEMMA RunStep == ASSUME IInv, NEW d \in Stripe, Run(d) PROVE IInv'
<1>1. io[d].pc = "wait" /\ IOOK(d, io[d]) /\ RunCommands(d, [Fetched(d) EXCEPT !.act = FALSE])
  BY DEF IInv, IOsOK, Run
<1>2. PICK s : s = Fetched(d) /\ IOOK(d, s) /\ SameBut(s, io[d]) /\ s.queue = <<>>
  BY <1>1, FetchedForm
<1>3. PICK t : t = [s EXCEPT !.act = FALSE]
  OBVIOUS
<1>4. s \in IORec(d) /\ t \in IORec(d)
  BY <1>2, <1>3 DEF IOOK, IORec
<1>5. /\ t.pc = s.pc /\ t.to = s.to /\ t.kernel = s.kernel /\ t.finished = s.finished /\ t.events = s.events
      /\ t.tcbs = s.tcbs /\ t.queue = <<>>
  BY <1>2, <1>3, <1>4 DEF IORec
<1>6. IOOK(d, t) /\ t.to = io[d].to
  BY <1>2, <1>4, <1>5 DEF IOOK, SlotsOK, HandsOK, SameBut
<1> QED BY <1>1, <1>2, <1>3, <1>5, <1>6, RunCommandsStep

\* The next round of the loop of an I/O thread.
LEMMA RoundStep == ASSUME IInv, NEW d \in Stripe, Round(d) PROVE IInv'
<1>1. io[d].pc = "comm" /\ IOOK(d, io[d]) /\ RunCommands(d, Fetched(d))
  BY DEF IInv, IOsOK, Round
<1>2. PICK s : s = Fetched(d) /\ IOOK(d, s) /\ SameBut(s, io[d]) /\ s.queue = <<>>
  BY <1>1, FetchedForm
<1>3. s.to = io[d].to
  BY <1>2 DEF SameBut
<1> QED BY <1>1, <1>2, <1>3, RunCommandsStep

\* get_all_reqs again.
LEMMA FetchAgainStep == ASSUME IInv, NEW d \in Stripe, FetchAgain(d) PROVE IInv'
<1>1. io[d].pc = "fetch" /\ IOOK(d, io[d]) /\ UNCHANGED <<file, app, ct>> /\ io' = [io EXCEPT ![d] = Fetched(d)]
  BY DEF IInv, IOsOK, FetchAgain
<1>2. PICK s : s = Fetched(d) /\ IOOK(d, s) /\ SameBut(s, io[d]) /\ s.queue = <<>>
  BY <1>1, FetchedForm
<1>3. file' \in FileRec /\ file'.pc = file.pc /\ file'.disk = file.disk
  BY <1>1 DEF IInv
<1>4. s.to = io[d].to /\ s.comm = io[d].comm /\ s.act = io[d].act
  BY <1>2 DEF SameBut
<1> QED BY <1>1, <1>2, <1>3, <1>4, IOOnly

\* More of what was fetched is submitted.
LEMMA SubmitMoreStep == ASSUME IInv, NEW d \in Stripe, SubmitMore(d) PROVE IInv'
<1>1. PICK x : x = io[d] /\ IOOK(d, x) /\ x.pc = "access" /\ x \in IORec(d) /\ IsFiniteSet(x.kernel)
  BY DEF IInv, IOsOK, SubmitMore, IOOK, SlotsOK
<1>2. PICK busy \in Nat : /\ busy = Busy(d) /\ busy = Cardinality(x.kernel) + Len(x.finished) + x.events
                          /\ busy <= AIODepth /\ Cardinality(x.kernel) \in Nat /\ Len(x.finished) \in Nat /\ x.events \in Nat
                          /\ AIODepth \in Nat
  BY <1>1, UsedType DEF Busy
<1>3. PICK s : /\ s = Submitted(x, busy) /\ s \in IORec(d) /\ SameBut(s, x) /\ s.queue = x.queue /\ s.pc \in {"comm", "iowait"}
               /\ IsFiniteSet(s.kernel) /\ Cardinality(s.kernel) <= Cardinality(x.kernel) + AIODepth - busy
  BY <1>1, <1>2, SubmittedForm
<1>4. Cardinality(s.kernel) \in Nat
  BY <1>3, FS_CardinalityType
<1>5. s.finished = x.finished /\ s.events = x.events /\ s.to = x.to /\ s.act = x.act /\ s.comm = x.comm
  BY <1>3 DEF SameBut
<1>6. Cardinality(s.kernel) + Len(s.finished) + s.events <= AIODepth
  <2>1. PICK c \in Nat, l \in Nat, e \in Nat, n \in Nat :
           c = Cardinality(x.kernel) /\ l = Len(x.finished) /\ e = x.events /\ n = Cardinality(s.kernel)
    BY <1>2, <1>4
  <2>2. busy = c + l + e /\ n <= c + AIODepth - busy /\ AIODepth \in Nat
    BY <1>2, <1>3, <2>1
  <2>3. n + l + e <= AIODepth
    BY <2>2
  <2> QED BY <1>5, <2>1, <2>3
<1>7. x.events = 0 /\ x.to \notin App
  BY <1>1 DEF IOOK, SlotsOK, HandsOK
<1>8. IOOK(d, s)
  BY <1>3, <1>5, <1>6, <1>7 DEF IOOK, SlotsOK, HandsOK
<1>9. io' = [io EXCEPT ![d] = s] /\ UNCHANGED <<file, app, ct>>
  BY <1>1, <1>2, <1>3 DEF SubmitMore, IInv, IOsOK
<1>10. file' \in FileRec /\ file'.pc = file.pc /\ file'.disk = file.disk
  BY <1>9 DEF IInv
<1> QED BY <1>1, <1>3, <1>5, <1>8, <1>9, <1>10, IOOnly

\* The kernel moves the pages of a part.
LEMMA KernelDoneStep == ASSUME IInv, NEW d \in Stripe, KernelDone(d) PROVE IInv'
<1>1. PICK x : x = io[d] /\ IOOK(d, x) /\ x \in IORec(d) /\ IsFiniteSet(x.kernel)
  BY DEF IInv, IOsOK, IOOK, SlotsOK
<1>2. PICK p \in x.kernel : io' = [io EXCEPT ![d].kernel = @ \ {p}, ![d].finished = Append(@, p)]
  BY <1>1 DEF KernelDone
<1>3. UNCHANGED <<file, app, ct>>
  BY DEF KernelDone
<1>4. PICK K : K = x.kernel \ {p}
  OBVIOUS
<1>5. IsFiniteSet(K) /\ Cardinality(K) = Cardinality(x.kernel) - 1 /\ K \in SUBSET PartAt(d)
  <2>1. IsFiniteSet(K) /\ Cardinality(K) = Cardinality(x.kernel) - 1
    BY <1>1, <1>2, <1>4, FS_RemoveElement
  <2>2. x.kernel \in SUBSET PartAt(d)
    BY <1>1 DEF IORec
  <2> QED BY <1>4, <2>1, <2>2
<1>6. PICK f \in Seq(PartAt(d)) : f = Append(x.finished, p) /\ Len(f) = Len(x.finished) + 1
  <2>1. x.finished \in Seq(PartAt(d)) /\ p \in PartAt(d)
    BY <1>1 DEF IORec
  <2>2. Append(x.finished, p) \in Seq(PartAt(d)) /\ Len(Append(x.finished, p)) = Len(x.finished) + 1
    BY <2>1
  <2> QED BY <2>2
<1>7. PICK y : y = [x EXCEPT !.kernel = K, !.finished = f]
  OBVIOUS
<1>8. io' = [io EXCEPT ![d] = y]
  BY <1>1, <1>2, <1>4, <1>6, <1>7 DEF IInv, IOsOK, IORec
<1>9. y \in IORec(d)
  BY <1>1, <1>5, <1>6, <1>7 DEF IORec
<1>10. /\ y.pc = x.pc /\ y.to = x.to /\ y.kernel = K /\ y.finished = f /\ y.events = x.events
       /\ y.tcbs = x.tcbs /\ y.queue = x.queue /\ y.comm = x.comm /\ y.act = x.act
  BY <1>1, <1>7 DEF IORec
<1>11. Cardinality(y.kernel) + Len(y.finished) + y.events <= AIODepth
  <2>1. /\ Cardinality(x.kernel) \in Nat /\ Len(x.finished) \in Nat /\ x.events \in Nat /\ AIODepth \in Nat
        /\ Cardinality(x.kernel) + Len(x.finished) + x.events <= AIODepth
    BY <1>1, UsedType
  <2>2. PICK c \in Nat, l \in Nat, e \in Nat : c = Cardinality(x.kernel) /\ l = Len(x.finished) /\ e = x.events
    BY <2>1
  <2>3. c + l + e <= AIODepth
    BY <2>1, <2>2
  <2>4. (c - 1) + (l + 1) + e <= AIODepth
    BY <2>1, <2>3
  <2>5. Cardinality(y.kernel) = c - 1 /\ Len(y.finished) = l + 1 /\ y.events = e
    BY <1>5, <1>6, <1>10, <2>2
  <2> QED BY <2>4, <2>5
<1>12. x.pc # "wait"
  BY <1>1, <1>2 DEF IOOK, SlotsOK
<1>13. IOOK(d, y)
  BY <1>1, <1>5, <1>9, <1>10, <1>11, <1>12 DEF IOOK, SlotsOK, HandsOK
<1>14. file' \in FileRec /\ file'.pc = file.pc /\ file'.disk = file.disk
  BY <1>3 DEF IInv
<1> QED BY <1>1, <1>3, <1>8, <1>10, <1>13, <1>14, IOOnly

\* The slots after the callbacks of io_wait are done.
LEMMA IOWaitedOK == ASSUME NEW d \in Stripe, NEW x, IOOK(d, x), x.pc \in {"added", "notify"}, x.to \notin App
                    PROVE LET y == IOWaited(x)
                          IN  /\ IOOK(d, y) /\ y.to = x.to /\ y.pc = x.ret /\ y.comm = x.comm /\ y.queue = x.queue
                              /\ y.act = x.act
<1>1. PICK y : y = IOWaited(x)
  OBVIOUS
<1>2. x \in IORec(d)
  BY DEF IOOK
<1>3. y = [x EXCEPT !.pc = x.ret, !.events = 0, !.grouped = FALSE]
  BY <1>1 DEF IOWaited
<1>4. y \in IORec(d)
  <2>1. x.ret \in {"fetch", "access"} /\ 0 \in Nat
    BY <1>2 DEF IORec
  <2> QED BY <1>2, <1>3, <2>1 DEF IORec
<1>5. /\ y.to = x.to /\ y.pc = x.ret /\ y.comm = x.comm /\ y.queue = x.queue /\ y.act = x.act /\ y.events = 0
      /\ y.kernel = x.kernel /\ y.finished = x.finished /\ x.ret \in {"fetch", "access"}
  BY <1>2, <1>3 DEF IORec
<1>6. Cardinality(y.kernel) + Len(y.finished) + y.events <= AIODepth
  <2>1. /\ Cardinality(x.kernel) \in Nat /\ Len(x.finished) \in Nat /\ x.events \in Nat /\ AIODepth \in Nat
        /\ Cardinality(x.kernel) + Len(x.finished) + x.events <= AIODepth
    BY UsedType
  <2>2. PICK c \in Nat, l \in Nat, e \in Nat : c = Cardinality(x.kernel) /\ l = Len(x.finished) /\ e = x.events
    BY <2>1
  <2>3. c + l + e <= AIODepth
    BY <2>1, <2>2
  <2>4. c + l + 0 <= AIODepth
    BY <2>1, <2>3
  <2> QED BY <1>5, <2>2, <2>4
<1>7. IOOK(d, y)
  BY <1>4, <1>5, <1>6 DEF IOOK, SlotsOK, HandsOK
<1> QED BY <1>1, <1>5, <1>7

\* io_wait gives the completion thread what its queue has room for.
LEMMA IOWaitStep == ASSUME IInv, NEW d \in Stripe, IOWait(d) PROVE IInv'
<1>1. PICK x : x = io[d] /\ IOOK(d, x) /\ x \in IORec(d) /\ x.pc = "iowait" /\ x.events = 0 /\ x.to \notin App /\ IsFiniteSet(x.kernel)
  BY DEF IInv, IOsOK, IOWait, IOOK, SlotsOK, HandsOK
<1>2. PICK q \in Seq(Part) : q = ct.queue /\ Len(q) \in Nat /\ Len(q) <= CompleteSize /\ CompleteSize \in Nat
  <2>1. ct.queue \in Seq(Part) /\ Len(ct.queue) <= CompleteSize
    BY DEF IInv, CTOK, CTRec
  <2>2. Len(ct.queue) \in Nat
    BY <2>1
  <2> QED BY <2>1, <2>2, DiskIOAssumption
<1>3. PICK done \in Seq(PartAt(d)) : done = x.finished
  BY <1>1 DEF IORec
<1>4. PICK n \in Nat : n = Len(done)
  <2>1. Len(done) \in Nat
    OBVIOUS
  <2> QED BY <2>1
<1>5. PICK room \in Nat : room = Min({Len(done), CompleteSize - Len(q)}) /\ room <= n /\ Len(q) + room <= CompleteSize
  <2>1. PICK c \in Nat : c = CompleteSize - Len(q)
    <3>1. CompleteSize - Len(q) \in Nat
      BY <1>2
    <3> QED BY <3>1
  <2>a. n \in Int /\ c \in Int
    OBVIOUS
  <2>2. Min({n, c}) = IF n <= c THEN n ELSE c
    BY <2>a, MinMax, Zenon
  <2> QED BY <1>2, <1>4, <2>1, <2>2
<1>6. PICK fst \in Seq(PartAt(d)), snd \in Seq(PartAt(d)) :
        fst = SubSeq(done, 1, room) /\ snd = SubSeq(done, room + 1, Len(done)) /\ Len(fst) = room
  BY <1>4, <1>5, Pieces
<1>7. PICK b \in BOOLEAN : b = (Len(done) - room >= GroupFrom)
  <2>1. (Len(done) - room >= GroupFrom) \in BOOLEAN
    BY <1>4, <1>5, DiskIOAssumption
  <2> QED BY <2>1, Zenon
<1>8. PICK y : y = [x EXCEPT !.pc = "added", !.finished = <<>>, !.events = n, !.tcbs = snd, !.grouped = b]
  OBVIOUS
<1>9. io' = [io EXCEPT ![d] = y]
  <2>1. io' = [io EXCEPT ![d].pc = "added", ![d].finished = <<>>, ![d].events = n, ![d].tcbs = snd, ![d].grouped = b]
    BY <1>1, <1>2, <1>3, <1>4, <1>5, <1>6, <1>7, Zenon DEF IOWait
  <2> QED BY <1>1, <1>8, <2>1 DEF IInv, IOsOK
<1>10. IOOK(d, y)
  <2>1. <<>> \in Seq(PartAt(d)) /\ Len(<<>>) = 0
    OBVIOUS
  <2>2. y \in IORec(d)
    BY <1>1, <1>8, <2>1 DEF IORec
  <2>3. y.pc = "added" /\ y.finished = <<>> /\ y.events = n /\ y.kernel = x.kernel /\ y.to = x.to
    BY <1>1, <1>8 DEF IORec
  <2>4. /\ Cardinality(x.kernel) \in Nat /\ Len(x.finished) \in Nat /\ x.events \in Nat /\ AIODepth \in Nat
        /\ Cardinality(x.kernel) + Len(x.finished) + x.events <= AIODepth
    BY <1>1, UsedType
  <2>5. PICK c \in Nat : c = Cardinality(x.kernel)
    BY <2>4
  <2>6. c + 0 + n <= AIODepth
    BY <1>1, <1>3, <1>4, <2>4, <2>5
  <2>7. Cardinality(y.kernel) + Len(y.finished) + y.events <= AIODepth
    BY <2>1, <2>3, <2>5, <2>6
  <2> QED BY <1>1, <2>2, <2>3, <2>7 DEF IOOK, SlotsOK, HandsOK
<1>11. IOsOK' /\ io'[d] = y /\ \A e \in Stripe : e # d => io'[e] = io[e]
  BY <1>9, <1>10, IOsKept DEF IInv
<1>12. y.pc = "added" /\ y.to = x.to /\ y.comm = x.comm /\ y.queue = x.queue /\ y.act = x.act
  BY <1>1, <1>8 DEF IORec
<1>a. \A e \in Stripe : /\ io'[e].to = io[e].to /\ io'[e].comm = io[e].comm
                        /\ io'[e].queue = io[e].queue /\ io'[e].act = io[e].act
  BY <1>1, <1>11, <1>12
<1>13. ct' = [ct EXCEPT !.queue = q \o fst]
  BY <1>1, <1>2, <1>3, <1>5, <1>6, Zenon DEF IOWait
<1>14. CTOK(ct)' /\ ct'.to = ct.to
  <2>1. ct \in CTRec /\ HandsOK(ct)
    BY DEF IInv, CTOK
  <2>2. fst \in Seq(Part)
    BY DEF PartAt, GoodPart
  <2>3. q \o fst \in Seq(Part) /\ Len(q \o fst) = Len(q) + Len(fst)
    BY <2>2
  <2>4. ct' \in CTRec /\ ct'.queue = q \o fst /\ ct'.to = ct.to /\ ct'.pc = ct.pc /\ ct'.tcbs = ct.tcbs
    BY <1>13, <2>1, <2>3 DEF CTRec
  <2>5. Len(ct'.queue) <= CompleteSize
    BY <1>2, <1>5, <1>6, <2>3, <2>4
  <2> QED BY <2>1, <2>4, <2>5 DEF CTOK, HandsOK
<1>15. UNCHANGED <<file, app>>
  BY DEF IOWait
<1>16. (file \in FileRec)' /\ AppsOK'
  BY <1>15 DEF IInv, AppsOK
<1>17. CommandsSeen'
  BY <1>a, <1>15 DEF IInv, CommandsSeen
<1>18. QueuesSeen'
  BY <1>a, <1>15 DEF IInv, QueuesSeen
<1>19. TcbsSeen'
  BY <1>11, <1>12 DEF TcbsSeen
<1>20. CompletionsSeen'
  BY <1>a, <1>14, <1>15, ZenonT(40) DEF IInv, CompletionsSeen
<1> QED BY <1>11, <1>14, <1>16, <1>17, <1>18, <1>19, <1>20 DEF IInv

\* The completion thread is activated.
LEMMA ActivateCTStep == ASSUME IInv, NEW d \in Stripe, ActivateCT(d) PROVE IInv'
<1>1. PICK x : x = io[d] /\ IOOK(d, x) /\ x \in IORec(d) /\ x.pc = "added" /\ x.to \notin App
  BY DEF IInv, IOsOK, ActivateCT, IOOK, HandsOK
<1>2. PICK y : /\ y = (IF x.tcbs = <<>> THEN IOWaited(x) ELSE [x EXCEPT !.pc = "notify"])
               /\ IOOK(d, y) /\ y.to = x.to /\ y.comm = x.comm /\ y.queue = x.queue /\ y.act = x.act
  <2>1. CASE x.tcbs = <<>>
    BY <1>1, <2>1, IOWaitedOK
  <2>2. CASE x.tcbs # <<>>
    <3>1. PICK z : z = [x EXCEPT !.pc = "notify"]
      OBVIOUS
    <3>2. z \in IORec(d)
      BY <1>1, <3>1 DEF IORec
    <3>3. /\ z.pc = "notify" /\ z.to = x.to /\ z.comm = x.comm /\ z.queue = x.queue /\ z.act = x.act /\ z.events = x.events
          /\ z.kernel = x.kernel /\ z.finished = x.finished /\ z.tcbs = x.tcbs
      BY <1>1, <3>1 DEF IORec
    <3>4. IOOK(d, z)
      BY <1>1, <2>2, <3>2, <3>3 DEF IOOK, SlotsOK, HandsOK
    <3> QED BY <2>2, <3>1, <3>3, <3>4
  <2> QED BY <2>1, <2>2
<1>3. io' = [io EXCEPT ![d] = y]
  BY <1>1, <1>2 DEF ActivateCT, IInv, IOsOK
<1>4. IOsOK' /\ io'[d] = y /\ \A e \in Stripe : e # d => io'[e] = io[e]
  <2>1. IOOK(d, y) /\ IOsOK
    BY <1>2 DEF IInv
  <2> QED BY <1>3, <2>1, IOsKept
<1>a. \A e \in Stripe : /\ io'[e].to = io[e].to /\ io'[e].comm = io[e].comm
                        /\ io'[e].queue = io[e].queue /\ io'[e].act = io[e].act
  BY <1>1, <1>2, <1>4
<1>5. CTOK(ct)' /\ ct'.to = ct.to /\ ct'.act = TRUE
  <2>1. ct \in CTRec /\ HandsOK(ct) /\ Len(ct.queue) <= CompleteSize /\ ct' = [ct EXCEPT !.act = TRUE]
    BY DEF IInv, CTOK, ActivateCT
  <2>2. ct' \in CTRec /\ ct'.queue = ct.queue /\ ct'.to = ct.to /\ ct'.pc = ct.pc /\ ct'.tcbs = ct.tcbs /\ ct'.act = TRUE
    BY <2>1 DEF CTRec
  <2> QED BY <2>1, <2>2 DEF CTOK, HandsOK
<1>6. UNCHANGED <<file, app>>
  BY DEF ActivateCT
<1>7. (file \in FileRec)' /\ AppsOK'
  BY <1>6 DEF IInv, AppsOK
<1>8. CommandsSeen'
  BY <1>a, <1>6 DEF IInv, CommandsSeen
<1>9. QueuesSeen'
  BY <1>a, <1>6 DEF IInv, QueuesSeen
<1>10. TcbsSeen'
  BY <1>5 DEF TcbsSeen
<1>11. CompletionsSeen'
  BY <1>a, <1>5, <1>6 DEF IInv, CompletionsSeen
<1> QED BY <1>4, <1>5, <1>7, <1>8, <1>9, <1>10, <1>11 DEF IInv

\* Parts are added to the queue of an application thread ...
LEMMA CompleteAdded ==
    ASSUME AppsOK, NEW a \in App, NEW g \in Seq(Part), app' = [app EXCEPT ![a].complete = @ \o g]
    PROVE  AppsOK' /\ \A b \in App : /\ app'[b].pc = app[b].pc /\ app'[b].disk = app[b].disk /\ app'[b].ret = app[b].ret
                                     /\ app'[b].act = app[b].act /\ (b # a => app'[b].complete = app[b].complete)
<1>1. PICK x : x = app[a] /\ AppOK(x) /\ x \in AppRec(x) /\ DOMAIN app = App
  BY DEF AppsOK, AppOK
<1>2. PICK c \in Seq(Part) : c = x.complete \o g
  <2>1. x.complete \in Seq(Part)
    BY <1>1 DEF AppRec
  <2>2. x.complete \o g \in Seq(Part)
    BY <2>1
  <2> QED BY <2>2
<1>3. PICK y : y = [x EXCEPT !.complete = c]
  OBVIOUS
<1>4. app' = [app EXCEPT ![a] = y]
  BY <1>1, <1>2, <1>3
<1>5. y \in AppRec(y) /\ y.pc = x.pc /\ y.disk = x.disk /\ y.ret = x.ret /\ y.act = x.act /\ y.senders = x.senders
  BY <1>1, <1>3, ZenonT(40) DEF AppRec
<1>6. AppOK(y)
  BY <1>1, <1>5 DEF AppOK
<1>7. AppsOK' /\ app'[a] = y /\ \A b \in App : b # a => app'[b] = app[b]
  BY <1>4, <1>6, AppsKept
<1> QED BY <1>1, <1>5, <1>7

\* ... which is activated.
LEMMA AppActivated ==
    ASSUME AppsOK, NEW a \in App, app' = [app EXCEPT ![a].act = TRUE]
    PROVE  AppsOK' /\ app'[a].act = TRUE
           /\ \A b \in App : /\ app'[b].pc = app[b].pc /\ app'[b].disk = app[b].disk /\ app'[b].complete = app[b].complete
                             /\ (b # a => app'[b] = app[b])
<1>1. PICK x : x = app[a] /\ AppOK(x) /\ x \in AppRec(x) /\ DOMAIN app = App
  BY DEF AppsOK, AppOK
<1>2. PICK y : y = [x EXCEPT !.act = TRUE]
  OBVIOUS
<1>3. app' = [app EXCEPT ![a] = y]
  BY <1>1, <1>2
<1>4. /\ y \in AppRec(y) /\ y.pc = x.pc /\ y.disk = x.disk /\ y.complete = x.complete /\ y.act = TRUE
      /\ y.senders = x.senders
  BY <1>1, <1>2, ZenonT(40) DEF AppRec
<1>5. AppOK(y)
  BY <1>1, <1>4 DEF AppOK
<1>6. AppsOK' /\ app'[a] = y /\ \A b \in App : b # a => app'[b] = app[b]
  BY <1>3, <1>5, AppsKept
<1> QED BY <1>1, <1>4, <1>6

\* The first half of notify_completion, by an I/O thread.
LEMMA NotifyByIOStep == ASSUME IInv, NEW d \in Stripe, NotifyByIO(d) PROVE IInv'
<1>1. PICK x : x = io[d] /\ IOOK(d, x) /\ x \in IORec(d) /\ x.pc = "notify" /\ x.to \notin App /\ x.tcbs # <<>> /\ x.tcbs \in Seq(PartAt(d))
  BY DEF IInv, IOsOK, NotifyByIO, IOOK, HandsOK, IORec
<1>2. PartAt(d) \subseteq Part
  BY DEF PartAt, GoodPart
<1>3. PICK to \in App, g \in Seq(PartAt(d)), u \in Seq(PartAt(d)) : to = Head(x.tcbs).req[1] /\ g = Group(x) /\ u = Ungrouped(x)
  BY <1>1, <1>2, GroupType
<1>4. g \in Seq(Part)
  BY <1>2
<1>5. app' = [app EXCEPT ![to].complete = @ \o g]
  <2>1. Notify(x)
    BY <1>1 DEF NotifyByIO
  <2>2. app' = [app EXCEPT ![Head(x.tcbs).req[1]].complete = @ \o Group(x)]
    BY <2>1, Zenon DEF Notify
  <2> QED BY <1>3, <2>2, Zenon
<1>6. AppsOK' /\ \A b \in App : /\ app'[b].pc = app[b].pc /\ app'[b].disk = app[b].disk /\ app'[b].ret = app[b].ret
                                /\ app'[b].act = app[b].act /\ (b # to => app'[b].complete = app[b].complete)
  BY <1>4, <1>5, CompleteAdded DEF IInv
<1>7. PICK y : y = [x EXCEPT !.pc = "notified", !.to = to, !.tcbs = u]
  OBVIOUS
<1>8. io' = [io EXCEPT ![d] = y]
  <2>1. Notified(x) = y
    BY <1>3, <1>7 DEF Notified
  <2> QED BY <1>1, <2>1 DEF NotifyByIO, IInv, IOsOK
<1>9. y \in IORec(d)
  <2>1. to \in App \cup {None}
    OBVIOUS
  <2> QED BY <1>1, <1>7, <2>1 DEF IORec
<1>10. /\ y.pc = "notified" /\ y.to = to /\ y.comm = x.comm /\ y.queue = x.queue /\ y.act = x.act /\ y.events = x.events
       /\ y.kernel = x.kernel /\ y.finished = x.finished
  BY <1>1, <1>7 DEF IORec
<1>11. IOOK(d, y)
  BY <1>1, <1>9, <1>10 DEF IOOK, SlotsOK, HandsOK
<1>12. IOsOK' /\ io'[d] = y /\ \A e \in Stripe : e # d => io'[e] = io[e]
  BY <1>8, <1>11, IOsKept DEF IInv
<1>13. \A e \in Stripe : /\ io'[e].comm = io[e].comm /\ io'[e].queue = io[e].queue /\ io'[e].act = io[e].act
                         /\ (io[e].pc = "added" => io'[e].pc = "added") /\ (io[e].to \in App => io'[e].to = io[e].to)
  BY <1>1, <1>10, <1>12
<1>14. UNCHANGED <<file, ct>>
  BY DEF NotifyByIO
<1>15. (file \in FileRec)' /\ CTOK(ct)'
  BY <1>14 DEF IInv
<1>16. CommandsSeen'
  BY <1>13, <1>14 DEF IInv, CommandsSeen
<1>17. QueuesSeen'
  BY <1>6, <1>13 DEF IInv, QueuesSeen
<1>18. TcbsSeen'
  BY <1>13, <1>14 DEF IInv, TcbsSeen
<1>19. CompletionsSeen'
  <2> SUFFICES ASSUME NEW b \in App, app'[b].complete # <<>>
               PROVE  Looks(app'[b]) \/ ct'.to = b \/ \E e \in Stripe : io'[e].to = b
    BY DEF CompletionsSeen
  <2>1. CASE b = to
    BY <1>10, <1>12, <2>1
  <2>2. CASE b # to
    <3>1. Looks(app[b]) \/ ct.to = b \/ \E e \in Stripe : io[e].to = b
      BY <1>6, <2>2 DEF IInv, CompletionsSeen
    <3>2. Looks(app[b]) => Looks(app'[b])
      BY <1>6 DEF Looks
    <3> QED BY <1>13, <1>14, <3>1, <3>2
  <2> QED BY <2>1, <2>2
<1> QED BY <1>6, <1>12, <1>15, <1>16, <1>17, <1>18, <1>19 DEF IInv

\* The second half, which wakes the thread up.
LEMMA WakeByIOStep == ASSUME IInv, NEW d \in Stripe, WakeByIO(d) PROVE IInv'
<1>1. PICK x : x = io[d] /\ IOOK(d, x) /\ x \in IORec(d) /\ x.pc = "notified" /\ x.to \in App
  BY DEF IInv, IOsOK, WakeByIO, IOOK, HandsOK
<1>2. PICK to \in App : to = x.to
  BY <1>1
<1>3. AppsOK' /\ app'[to].act = TRUE
      /\ \A b \in App : /\ app'[b].pc = app[b].pc /\ app'[b].disk = app[b].disk /\ app'[b].complete = app[b].complete
                        /\ (b # to => app'[b] = app[b])
  <2>1. app' = [app EXCEPT ![to].act = TRUE]
    BY <1>1, <1>2 DEF WakeByIO
  <2> QED BY <2>1, AppActivated DEF IInv
<1>4. PICK t : t = [x EXCEPT !.pc = "notify", !.to = None]
  OBVIOUS
<1>5. /\ t \in IORec(d) /\ t.pc = "notify" /\ t.to = None /\ t.comm = x.comm /\ t.queue = x.queue /\ t.act = x.act
      /\ t.events = x.events /\ t.kernel = x.kernel /\ t.finished = x.finished /\ t.tcbs = x.tcbs /\ t.ret = x.ret
  BY <1>1, <1>4 DEF IORec
<1>6. None \notin App
  BY DiskIOAssumption
<1>7. PICK y : /\ y = (IF t.tcbs = <<>> THEN IOWaited(t) ELSE t)
               /\ IOOK(d, y) /\ y.to = None /\ y.comm = x.comm /\ y.queue = x.queue /\ y.act = x.act
  <2>1. CASE t.tcbs = <<>>
    <3>1. PICK z : z = IOWaited(t)
      OBVIOUS
    <3>2. z = [t EXCEPT !.pc = t.ret, !.events = 0, !.grouped = FALSE]
      BY <3>1 DEF IOWaited
    <3>3. t.ret \in {"fetch", "access"} /\ 0 \in Nat
      BY <1>5 DEF IORec
    <3>4. /\ z \in IORec(d) /\ z.pc = t.ret /\ z.to = None /\ z.comm = x.comm /\ z.queue = x.queue /\ z.act = x.act
          /\ z.events = 0 /\ z.kernel = x.kernel /\ z.finished = x.finished
      BY <1>5, <3>2, <3>3 DEF IORec
    <3>5. /\ Cardinality(x.kernel) \in Nat /\ Len(x.finished) \in Nat /\ x.events \in Nat /\ AIODepth \in Nat
          /\ Cardinality(x.kernel) + Len(x.finished) + x.events <= AIODepth
      BY <1>1, UsedType
    <3>6. PICK c \in Nat, l \in Nat, e \in Nat : c = Cardinality(x.kernel) /\ l = Len(x.finished) /\ e = x.events
      BY <3>5
    <3>7. c + l + e <= AIODepth
      BY <3>5, <3>6
    <3>8. c + l + 0 <= AIODepth
      BY <3>5, <3>7
    <3>9. Cardinality(z.kernel) + Len(z.finished) + z.events <= AIODepth
      BY <3>4, <3>6, <3>8
    <3>10. IsFiniteSet(z.kernel)
      BY <1>1, <3>4 DEF IOOK, SlotsOK
    <3>11. IOOK(d, z)
      BY <1>6, <3>3, <3>4, <3>9, <3>10 DEF IOOK, SlotsOK, HandsOK
    <3> QED BY <2>1, <3>1, <3>4, <3>11
  <2>2. CASE t.tcbs # <<>>
    <3>1. IOOK(d, t)
      BY <1>1, <1>5, <1>6, <2>2 DEF IOOK, SlotsOK, HandsOK
    <3> QED BY <1>5, <2>2, <3>1
  <2> QED BY <2>1, <2>2
<1>8. io' = [io EXCEPT ![d] = y]
  BY <1>1, <1>4, <1>7 DEF WakeByIO, IInv, IOsOK
<1>9. IOsOK' /\ io'[d] = y /\ \A e \in Stripe : e # d => io'[e] = io[e]
  <2>1. IOOK(d, y) /\ IOsOK
    BY <1>7 DEF IInv
  <2> QED BY <1>8, <2>1, IOsKept
<1>10. \A e \in Stripe : /\ io'[e].comm = io[e].comm /\ io'[e].queue = io[e].queue /\ io'[e].act = io[e].act
                         /\ (io[e].pc = "added" => io'[e].pc = "added") /\ (e # d => io'[e].to = io[e].to)
  BY <1>1, <1>7, <1>9
<1>11. UNCHANGED <<file, ct>>
  BY DEF WakeByIO
<1>12. (file \in FileRec)' /\ CTOK(ct)'
  BY <1>11 DEF IInv
<1>13. CommandsSeen'
  BY <1>10, <1>11 DEF IInv, CommandsSeen
<1>14. QueuesSeen'
  BY <1>3, <1>10 DEF IInv, QueuesSeen
<1>15. TcbsSeen'
  BY <1>10, <1>11 DEF IInv, TcbsSeen
<1>16. CompletionsSeen'
  <2> SUFFICES ASSUME NEW b \in App, app'[b].complete # <<>>
               PROVE  Looks(app'[b]) \/ ct'.to = b \/ \E e \in Stripe : io'[e].to = b
    BY DEF CompletionsSeen
  <2>1. CASE b = to
    BY <1>3, <2>1 DEF Looks
  <2>2. CASE b # to
    <3>1. Looks(app[b]) \/ ct.to = b \/ \E e \in Stripe : io[e].to = b
      BY <1>3 DEF IInv, CompletionsSeen
    <3>2. \A e \in Stripe : io[e].to = b => e # d
      BY <1>1, <1>2, <2>2
    <3> QED BY <1>3, <1>10, <1>11, <2>2, <3>1, <3>2
  <2> QED BY <2>1, <2>2
<1> QED BY <1>3, <1>9, <1>12, <1>13, <1>14, <1>15, <1>16 DEF IInv

\* A step of the completion thread that leaves the others alone.
LEMMA TakeTcbsStep == ASSUME IInv, TakeTcbs PROVE IInv'
<1>1. PICK x : x = ct /\ x \in CTRec /\ HandsOK(x) /\ x.pc = "wait" /\ x.to \notin App /\ x.queue \in Seq(Part)
  BY DEF IInv, CTOK, TakeTcbs, HandsOK, CTRec
<1>2. PICK b \in BOOLEAN : b = (Len(x.queue) >= GroupFrom)
  <2>1. Len(x.queue) \in Nat /\ GroupFrom \in Nat
    BY <1>1, DiskIOAssumption
  <2>2. (Len(x.queue) >= GroupFrom) \in BOOLEAN
    BY <2>1
  <2> QED BY <2>2, Zenon
<1>3. PICK pc \in {"wait", "notify"} : pc = IF x.queue = <<>> THEN "wait" ELSE "notify"
  OBVIOUS
<1>4. PICK y : y = [x EXCEPT !.act = FALSE, !.pc = pc, !.queue = <<>>, !.tcbs = x.queue, !.grouped = b]
  OBVIOUS
<1>5. ct' = y
  BY <1>1, <1>2, <1>3, <1>4, Zenon DEF TakeTcbs
<1>6. y \in CTRec /\ y.pc = pc /\ y.queue = <<>> /\ y.tcbs = x.queue /\ y.to = x.to
  <2>1. <<>> \in Seq(Part)
    OBVIOUS
  <2> QED BY <1>1, <1>4, <2>1 DEF CTRec
<1>7. CTOK(ct)'
  <2>1. Len(<<>>) <= CompleteSize
    BY DiskIOAssumption
  <2> QED BY <1>1, <1>3, <1>5, <1>6, <2>1 DEF CTOK, HandsOK
<1>8. UNCHANGED <<file, app, io>>
  BY DEF TakeTcbs
<1>9. (file \in FileRec)' /\ AppsOK' /\ IOsOK' /\ CommandsSeen' /\ QueuesSeen'
  BY <1>8 DEF IInv, AppsOK, IOsOK, CommandsSeen, QueuesSeen
<1>10. TcbsSeen'
  BY <1>5, <1>6 DEF TcbsSeen
<1>11. CompletionsSeen'
  BY <1>1, <1>5, <1>6, <1>8 DEF IInv, CompletionsSeen
<1> QED BY <1>7, <1>9, <1>10, <1>11 DEF IInv

\* The first half of notify_completion, by the completion thread.
LEMMA NotifyByCTStep == ASSUME IInv, NotifyByCT PROVE IInv'
<1>1. PICK x : x = ct /\ x \in CTRec /\ CTOK(x) /\ x.pc = "notify" /\ x.to \notin App /\ x.tcbs # <<>> /\ x.tcbs \in Seq(Part)
  BY DEF IInv, CTOK, NotifyByCT, HandsOK, CTRec
<1>2. PICK to \in App, g \in Seq(Part), u \in Seq(Part) : to = Head(x.tcbs).req[1] /\ g = Group(x) /\ u = Ungrouped(x)
  <2>1. Part \subseteq Part
    OBVIOUS
  <2> QED BY <1>1, <2>1, GroupType
<1>3. app' = [app EXCEPT ![to].complete = @ \o g]
  <2>1. Notify(x)
    BY <1>1 DEF NotifyByCT
  <2>2. app' = [app EXCEPT ![Head(x.tcbs).req[1]].complete = @ \o Group(x)]
    BY <2>1, Zenon DEF Notify
  <2> QED BY <1>2, <2>2, Zenon
<1>4. AppsOK' /\ \A b \in App : /\ app'[b].pc = app[b].pc /\ app'[b].disk = app[b].disk /\ app'[b].ret = app[b].ret
                                /\ app'[b].act = app[b].act /\ (b # to => app'[b].complete = app[b].complete)
  BY <1>3, CompleteAdded DEF IInv
<1>5. PICK y : y = [x EXCEPT !.pc = "notified", !.to = to, !.tcbs = u]
  OBVIOUS
<1>6. ct' = y
  <2>1. Notified(x) = y
    BY <1>2, <1>5 DEF Notified
  <2> QED BY <1>1, <2>1 DEF NotifyByCT
<1>7. y \in CTRec /\ y.pc = "notified" /\ y.to = to /\ y.queue = x.queue /\ y.act = x.act
  <2>1. to \in App \cup {None}
    OBVIOUS
  <2> QED BY <1>1, <1>5, <2>1 DEF CTRec
<1>8. CTOK(ct)'
  BY <1>1, <1>6, <1>7 DEF CTOK, HandsOK
<1>9. UNCHANGED <<file, io>>
  BY DEF NotifyByCT
<1>10. (file \in FileRec)' /\ IOsOK' /\ CommandsSeen'
  BY <1>9 DEF IInv, IOsOK, CommandsSeen
<1>11. QueuesSeen'
  BY <1>4, <1>9 DEF IInv, QueuesSeen
<1>12. TcbsSeen'
  BY <1>1, <1>6, <1>7, <1>9 DEF IInv, TcbsSeen
<1>13. CompletionsSeen'
  <2> SUFFICES ASSUME NEW b \in App, app'[b].complete # <<>>
               PROVE  Looks(app'[b]) \/ ct'.to = b \/ \E e \in Stripe : io'[e].to = b
    BY DEF CompletionsSeen
  <2>1. CASE b = to
    BY <1>6, <1>7, <2>1
  <2>2. CASE b # to
    <3>1. Looks(app[b]) \/ \E e \in Stripe : io[e].to = b
      BY <1>1, <1>4, <2>2 DEF IInv, CompletionsSeen
    <3>2. Looks(app[b]) => Looks(app'[b])
      BY <1>4 DEF Looks
    <3> QED BY <1>9, <3>1, <3>2
  <2> QED BY <2>1, <2>2
<1> QED BY <1>4, <1>8, <1>10, <1>11, <1>12, <1>13 DEF IInv

\* The second half.
LEMMA WakeByCTStep == ASSUME IInv, WakeByCT PROVE IInv'
<1>1. PICK x : x = ct /\ x \in CTRec /\ CTOK(x) /\ x.pc = "notified" /\ x.to \in App
  BY DEF IInv, CTOK, WakeByCT, HandsOK
<1>2. PICK to \in App : to = x.to
  BY <1>1
<1>3. AppsOK' /\ app'[to].act = TRUE
      /\ \A b \in App : /\ app'[b].pc = app[b].pc /\ app'[b].disk = app[b].disk /\ app'[b].complete = app[b].complete
                        /\ (b # to => app'[b] = app[b])
  <2>1. app' = [app EXCEPT ![to].act = TRUE]
    BY <1>1, <1>2 DEF WakeByCT
  <2> QED BY <2>1, AppActivated DEF IInv
<1>4. None \notin App
  BY DiskIOAssumption
<1>5. PICK pc \in {"wait", "notify"} : pc = IF x.tcbs = <<>> THEN "wait" ELSE "notify"
  OBVIOUS
<1>6. ct' = [x EXCEPT !.pc = pc, !.to = None]
  BY <1>1, <1>5 DEF WakeByCT
<1>7. ct' \in CTRec /\ ct'.pc = pc /\ ct'.to = None /\ ct'.queue = x.queue /\ ct'.act = x.act /\ ct'.tcbs = x.tcbs
  BY <1>1, <1>6 DEF CTRec
<1>8. CTOK(ct)'
  BY <1>1, <1>4, <1>5, <1>7 DEF CTOK, HandsOK
<1>9. UNCHANGED <<file, io>>
  BY DEF WakeByCT
<1>10. (file \in FileRec)' /\ IOsOK' /\ CommandsSeen'
  BY <1>9 DEF IInv, IOsOK, CommandsSeen
<1>11. QueuesSeen'
  BY <1>3, <1>9 DEF IInv, QueuesSeen
<1>12. TcbsSeen'
  BY <1>1, <1>7, <1>9 DEF IInv, TcbsSeen
<1>13. CompletionsSeen'
  <2> SUFFICES ASSUME NEW b \in App, app'[b].complete # <<>>
               PROVE  Looks(app'[b]) \/ ct'.to = b \/ \E e \in Stripe : io'[e].to = b
    BY DEF CompletionsSeen
  <2>1. CASE b = to
    BY <1>3, <2>1 DEF Looks
  <2>2. CASE b # to
    BY <1>1, <1>2, <1>3, <1>9, <2>2 DEF IInv, CompletionsSeen
  <2> QED BY <2>1, <2>2
<1> QED BY <1>3, <1>8, <1>10, <1>11, <1>12, <1>13 DEF IInv

\* The least of some disks.
LEMMA MinOf == ASSUME NEW T, T \subseteq Nat, T # {} PROVE Min(T) \in T
<1>1. PICK g \in T : \A y \in T : ~(y < g)
  <2> DEFINE R == {ss \in Nat \X Nat : ss[1] < ss[2]}
  <2>1. IsWellFoundedOn(R, Nat)
    BY NatLessThanWellFounded DEF OpToRel
  <2> HIDE DEF R
  <2>2. PICK g \in T : \A y \in T : ~(<<y, g>> \in R)
    BY <2>1, WFMin
  <2>3. \A y \in T : ~(y < g)
    BY <2>2 DEF R
  <2> QED BY <2>3
<1>2. \A y \in T : g <= y
  BY <1>1
<1> QED BY <1>2 DEF Min

\* flush_requests moves the parts of one sender to the queue of its disk.
LEMMA FlushStep == ASSUME IInv, NEW a \in App, Flush(a) PROVE IInv'
<1>a. app[a].pc = "flush"
  BY Zenon DEF Flush
<1>1. PICK x : x = app[a] /\ AppOK(x) /\ x \in AppRec(x) /\ x.pc = "flush" /\ DOMAIN app = App
  BY <1>a DEF IInv, AppsOK, AppOK
<1>2. PICK d \in Stripe : d = Min({e \in Stripe : app[a].senders[e] # <<>>})
  <2>1. PICK T : T = {e \in Stripe : x.senders[e] # <<>>}
    OBVIOUS
  <2>2. T # {} /\ T \subseteq Stripe
    BY <1>1, <2>1 DEF AppOK
  <2>3. T \subseteq Nat
    BY <2>2, Params DEF Stripe
  <2>4. Min(T) \in T
    BY <2>2, <2>3, MinOf
  <2> QED BY <1>1, <2>1, <2>2, <2>4
<1>3. PICK s \in Seq(PartAt(d)) : s = x.senders[d]
  BY <1>1 DEF AppOK
<1>4. /\ app' = [app EXCEPT ![a].senders[d] = <<>>, ![a].disk = d, ![a].pc = "flushed"]
      /\ io' = [io EXCEPT ![d].queue = @ \o app[a].senders[d]]
      /\ UNCHANGED <<file, ct>>
  BY <1>2, Zenon DEF Flush
<1>5. PICK f \in [Stripe -> Seq(Part)] : f = [x.senders EXCEPT ![d] = <<>>] /\ \A e \in Stripe : f[e] \in Seq(PartAt(e))
  <2>1. x.senders \in [Stripe -> Seq(Part)] /\ <<>> \in Seq(Part) /\ \A e \in Stripe : <<>> \in Seq(PartAt(e))
    BY <1>1 DEF AppRec
  <2>2. [x.senders EXCEPT ![d] = <<>>] \in [Stripe -> Seq(Part)]
    BY <2>1
  <2>3. \A e \in Stripe : [x.senders EXCEPT ![d] = <<>>][e] \in Seq(PartAt(e))
    BY <1>1, <2>1 DEF AppOK
  <2> QED BY <2>2, <2>3
<1>6. PICK y : y = [x EXCEPT !.senders = f, !.disk = d, !.pc = "flushed"]
  OBVIOUS
<1>7. app' = [app EXCEPT ![a] = y]
  BY <1>1, <1>4, <1>5, <1>6 DEF AppRec
<1>8. /\ y \in AppRec(y) /\ y.pc = "flushed" /\ y.disk = d /\ y.senders = f /\ y.complete = x.complete /\ y.act = x.act
      /\ y.ret = x.ret
  <2>1. x \in AppRec(x)
    BY <1>1
  <2>2. y = [pc |-> "flushed", ret |-> x.ret, disk |-> d, act |-> x.act, senders |-> f, complete |-> x.complete,
             calls |-> x.calls, mode |-> x.mode, issued |-> x.issued, completed |-> x.completed, batch |-> x.batch,
             base |-> x.base, target |-> x.target, num |-> x.num]
    BY <1>6, <2>1 DEF AppRec
  <2>3. /\ x.act \in BOOLEAN /\ x.complete \in Seq(Part) /\ x.calls \in Seq(Req) /\ x.issued \in Nat
        /\ x.ret \in {"idle", "take", "call"}
    BY <2>1 DEF AppRec
  <2>4. y \in AppRec(y)
    BY <2>2, <2>3, Zenon DEF AppRec
  <2> QED BY <2>2, <2>4
<1>9. AppOK(y)
  BY <1>5, <1>8 DEF AppOK
<1>10. AppsOK' /\ app'[a] = y /\ \A b \in App : b # a => app'[b] = app[b]
  BY <1>7, <1>9, AppsKept DEF IInv
<1>11. PICK w : w = io[d] /\ IOOK(d, w) /\ w \in IORec(d) /\ DOMAIN io = Stripe
  BY DEF IInv, IOsOK, IOOK
<1>12. PICK q \in Seq(PartAt(d)) : q = w.queue \o s
  <2>1. w.queue \in Seq(PartAt(d))
    BY <1>11 DEF IORec
  <2>2. w.queue \o s \in Seq(PartAt(d))
    BY <2>1
  <2> QED BY <2>2
<1>13. PICK z : z = [w EXCEPT !.queue = q]
  OBVIOUS
<1>14. io' = [io EXCEPT ![d] = z]
  BY <1>1, <1>3, <1>4, <1>11, <1>12, <1>13
<1>15. /\ z \in IORec(d) /\ z.pc = w.pc /\ z.to = w.to /\ z.kernel = w.kernel /\ z.finished = w.finished /\ z.events = w.events
       /\ z.tcbs = w.tcbs /\ z.comm = w.comm /\ z.act = w.act
  BY <1>11, <1>13 DEF IORec
<1>16. IOOK(d, z)
  BY <1>11, <1>15 DEF IOOK, SlotsOK, HandsOK
<1>17. IOsOK' /\ io'[d] = z /\ \A e \in Stripe : e # d => io'[e] = io[e]
  BY <1>14, <1>16, IOsKept DEF IInv
<1>18. \A e \in Stripe : io'[e].pc = io[e].pc /\ io'[e].to = io[e].to /\ io'[e].comm = io[e].comm /\ io'[e].act = io[e].act
  BY <1>11, <1>15, <1>17
<1>19. (file \in FileRec)' /\ CTOK(ct)'
  BY <1>4 DEF IInv
<1>20. CommandsSeen'
  BY <1>4, <1>18 DEF IInv, CommandsSeen
<1>21. QueuesSeen'
  <2> SUFFICES ASSUME NEW e \in Stripe, io'[e].queue # <<>>
               PROVE  io'[e].act \/ \E b \in App : app'[b].pc = "flushed" /\ app'[b].disk = e
    BY DEF QueuesSeen
  <2>1. CASE e = d
    BY <1>8, <1>10, <2>1
  <2>2. CASE e # d
    <3>1. io[e].act \/ \E b \in App : app[b].pc = "flushed" /\ app[b].disk = e
      BY <1>17, <2>2 DEF IInv, QueuesSeen
    <3> QED BY <1>1, <1>10, <1>18, <3>1
  <2> QED BY <2>1, <2>2
<1>22. TcbsSeen'
  BY <1>4, <1>18 DEF IInv, TcbsSeen
<1>23. CompletionsSeen'
  <2>1. \A b \in App : app'[b].complete = app[b].complete /\ (Looks(app[b]) => Looks(app'[b]))
    BY <1>1, <1>8, <1>10 DEF Looks
  <2> SUFFICES ASSUME NEW b \in App, app'[b].complete # <<>>
               PROVE  Looks(app'[b]) \/ ct'.to = b \/ \E e \in Stripe : io'[e].to = b
    BY DEF CompletionsSeen
  <2>2. Looks(app[b]) \/ ct.to = b \/ \E e \in Stripe : io[e].to = b
    BY <2>1 DEF IInv, CompletionsSeen
  <2> QED BY <1>4, <1>18, <2>1, <2>2
<1> QED BY <1>10, <1>17, <1>19, <1>20, <1>21, <1>22, <1>23 DEF IInv

\* An I/O thread is activated.
LEMMA IOActivated == ASSUME NEW d \in Stripe, NEW x, IOOK(d, x)
                     PROVE LET y == [x EXCEPT !.act = TRUE]
                           IN  /\ IOOK(d, y) /\ y.pc = x.pc /\ y.to = x.to /\ y.comm = x.comm /\ y.queue = x.queue
                               /\ y.act = TRUE
<1>1. PICK y : y = [x EXCEPT !.act = TRUE]
  OBVIOUS
<1>2. x \in IORec(d)
  BY DEF IOOK
<1>3. /\ y \in IORec(d) /\ y.pc = x.pc /\ y.to = x.to /\ y.kernel = x.kernel /\ y.finished = x.finished /\ y.events = x.events
      /\ y.tcbs = x.tcbs /\ y.comm = x.comm /\ y.act = TRUE /\ y.queue = x.queue
  BY <1>1, <1>2 DEF IORec
<1>4. IOOK(d, y)
  BY <1>3 DEF IOOK, SlotsOK, HandsOK
<1> QED BY <1>1, <1>3, <1>4

\* The disk that was given something is activated.
LEMMA ActivateIOStep == ASSUME IInv, NEW a \in App, ActivateIO(a) PROVE IInv'
<1>1. PICK x : x = app[a] /\ AppOK(x) /\ x \in AppRec(x) /\ x.pc = "flushed" /\ DOMAIN app = App
  BY DEF IInv, AppsOK, AppOK, ActivateIO
<1>2. PICK d \in Stripe : d = x.disk
  BY <1>1 DEF AppRec
<1>3. PICK ret \in {"idle", "take", "call"} : ret = x.ret
  BY <1>1 DEF AppRec
<1>4. PICK pc : pc = FlushOr(x.senders, ret) /\ pc \in {"flush", ret} /\ (pc = "flush" => \E e \in Stripe : x.senders[e] # <<>>)
  BY FlushOrForm
<1>5. PICK y : y = [x EXCEPT !.pc = pc]
  OBVIOUS
<1>6. app' = [app EXCEPT ![a] = y]
  BY <1>1, <1>3, <1>4, <1>5 DEF ActivateIO
<1>7. /\ y \in AppRec(y) /\ y.pc = pc /\ y.senders = x.senders /\ y.complete = x.complete /\ y.act = x.act
      /\ y.ret = ret
  <2>1. x \in AppRec(x) /\ pc \in {"flush", "idle", "take", "call"}
    BY <1>1, <1>4
  <2> QED BY <1>3, <1>5, <2>1 DEF AppRec
<1>8. AppOK(y)
  BY <1>1, <1>4, <1>7 DEF AppOK
<1>9. AppsOK' /\ app'[a] = y /\ \A b \in App : b # a => app'[b] = app[b]
  BY <1>6, <1>8, AppsKept DEF IInv
<1>10. PICK z : /\ z = [io[d] EXCEPT !.act = TRUE] /\ IOOK(d, z) /\ z.pc = io[d].pc /\ z.to = io[d].to /\ z.comm = io[d].comm
                /\ z.queue = io[d].queue /\ z.act = TRUE
  BY IOActivated DEF IInv, IOsOK
<1>11. io' = [io EXCEPT ![d] = z] /\ UNCHANGED <<file, ct>>
  BY <1>1, <1>2, <1>10 DEF ActivateIO, IInv, IOsOK
<1>12. IOsOK' /\ io'[d] = z /\ \A e \in Stripe : e # d => io'[e] = io[e]
  BY <1>10, <1>11, IOsKept DEF IInv
<1>13. \A e \in Stripe : /\ io'[e].pc = io[e].pc /\ io'[e].to = io[e].to /\ io'[e].comm = io[e].comm
                         /\ io'[e].queue = io[e].queue /\ (io[e].act => io'[e].act)
  BY <1>10, <1>12
<1>14. (file \in FileRec)' /\ CTOK(ct)'
  BY <1>11 DEF IInv
<1>15. CommandsSeen'
  BY <1>11, <1>13 DEF IInv, CommandsSeen
<1>16. QueuesSeen'
  <2> SUFFICES ASSUME NEW e \in Stripe, io'[e].queue # <<>>
               PROVE  io'[e].act \/ \E b \in App : app'[b].pc = "flushed" /\ app'[b].disk = e
    BY DEF QueuesSeen
  <2>1. CASE e = d
    BY <1>10, <1>12, <2>1
  <2>2. CASE e # d
    <3>1. io[e].act \/ \E b \in App : app[b].pc = "flushed" /\ app[b].disk = e
      BY <1>13 DEF IInv, QueuesSeen
    <3> QED BY <1>1, <1>2, <1>9, <1>13, <2>2, <3>1
  <2> QED BY <2>1, <2>2
<1>17. TcbsSeen'
  BY <1>11, <1>13 DEF IInv, TcbsSeen
<1>18. CompletionsSeen'
  <2>1. \A b \in App : app'[b].complete = app[b].complete /\ (Looks(app[b]) => Looks(app'[b]))
    BY <1>1, <1>3, <1>4, <1>7, <1>9 DEF Looks
  <2> QED BY <1>11, <1>13, <2>1 DEF IInv, CompletionsSeen
<1> QED BY <1>9, <1>12, <1>14, <1>15, <1>16, <1>17, <1>18 DEF IInv

\* The end of an instance: all threads are activated.
LEMMA DrainStep == ASSUME IInv, NEW a \in App, Drain(a) PROVE IInv'
<1>1. PICK x : x = app[a] /\ AppOK(x) /\ x \in AppRec(x) /\ x.pc = "drain" /\ DOMAIN app = App
  BY DEF IInv, AppsOK, AppOK, Drain
<1>2. PICK pc \in {"destroyed", "drain"} : pc = IF \A d \in Stripe : io[d].queue = <<>> THEN "destroyed" ELSE "drain"
  OBVIOUS
<1>3. PICK y : y = [x EXCEPT !.pc = pc]
  OBVIOUS
<1>4. app' = [app EXCEPT ![a] = y]
  <2>1. app' = [app EXCEPT ![a].pc = pc]
    BY <1>2, Zenon DEF Drain
  <2> QED BY <1>1, <1>3, <2>1
<1>5. y \in AppRec(y) /\ y.pc = pc /\ y.senders = x.senders /\ y.complete = x.complete /\ y.act = x.act
  BY <1>1, <1>3, ZenonT(40) DEF AppRec
<1>6. AppOK(y)
  BY <1>1, <1>5 DEF AppOK
<1>7. AppsOK' /\ app'[a] = y /\ \A b \in App : b # a => app'[b] = app[b]
  BY <1>4, <1>6, AppsKept DEF IInv
<1>8. io' = [d \in Stripe |-> [io[d] EXCEPT !.act = TRUE]] /\ UNCHANGED <<file, ct>>
  BY DEF Drain
<1>9. \A d \in Stripe : /\ IOOK(d, io'[d]) /\ io'[d].pc = io[d].pc /\ io'[d].to = io[d].to /\ io'[d].comm = io[d].comm
                        /\ io'[d].queue = io[d].queue /\ io'[d].act = TRUE
  <2> TAKE d \in Stripe
  <2>1. io'[d] = [io[d] EXCEPT !.act = TRUE] /\ IOOK(d, io[d])
    BY <1>8 DEF IInv, IOsOK
  <2> QED BY <2>1, IOActivated
<1>10. IOsOK'
  BY <1>8, <1>9 DEF IOsOK
<1>11. (file \in FileRec)' /\ CTOK(ct)'
  BY <1>8 DEF IInv
<1>12. CommandsSeen' /\ QueuesSeen'
  BY <1>9 DEF CommandsSeen, QueuesSeen
<1>13. TcbsSeen'
  BY <1>8, <1>9 DEF IInv, TcbsSeen
<1>14. CompletionsSeen'
  <2>1. \A b \in App : app'[b].complete = app[b].complete /\ (Looks(app[b]) => Looks(app'[b]))
    BY <1>1, <1>5, <1>7 DEF Looks
  <2> SUFFICES ASSUME NEW b \in App, app'[b].complete # <<>>
               PROVE  Looks(app'[b]) \/ ct'.to = b \/ \E e \in Stripe : io'[e].to = b
    BY DEF CompletionsSeen
  <2>2. Looks(app[b]) \/ ct.to = b \/ \E e \in Stripe : io[e].to = b
    BY <2>1 DEF IInv, CompletionsSeen
  <2> QED BY <1>8, <1>9, <2>1, <2>2
<1> QED BY <1>7, <1>10, <1>11, <1>12, <1>13, <1>14 DEF IInv

\* A command is put into the queue of an I/O thread.
LEMMA CommandStep == ASSUME IInv, Command PROVE IInv'
<1>1. PICK d \in Stripe, op \in {"open", "close"} : d = file.disk /\ op = file.op
  BY DEF IInv, FileRec
<1>2. PICK w : w = io[d] /\ IOOK(d, w) /\ w \in IORec(d) /\ DOMAIN io = Stripe
  BY DEF IInv, IOsOK, IOOK
<1>3. PICK c \in Seq({"open", "close"}) : c = Append(w.comm, op)
  <2>1. w.comm \in Seq({"open", "close"})
    BY <1>2 DEF IORec
  <2>2. Append(w.comm, op) \in Seq({"open", "close"})
    BY <2>1
  <2> QED BY <2>2
<1>4. PICK z : z = [w EXCEPT !.comm = c]
  OBVIOUS
<1>5. io' = [io EXCEPT ![d] = z]
  BY <1>1, <1>2, <1>3, <1>4 DEF Command
<1>6. /\ z \in IORec(d) /\ z.pc = w.pc /\ z.to = w.to /\ z.kernel = w.kernel /\ z.finished = w.finished /\ z.events = w.events
      /\ z.tcbs = w.tcbs /\ z.queue = w.queue /\ z.act = w.act
  BY <1>2, <1>4 DEF IORec
<1>7. IOOK(d, z)
  BY <1>2, <1>6 DEF IOOK, SlotsOK, HandsOK
<1>8. IOsOK' /\ io'[d] = z /\ \A e \in Stripe : e # d => io'[e] = io[e]
  BY <1>5, <1>7, IOsKept DEF IInv
<1>9. \A e \in Stripe : io'[e].pc = io[e].pc /\ io'[e].to = io[e].to /\ io'[e].queue = io[e].queue /\ io'[e].act = io[e].act
  BY <1>2, <1>6, <1>8
<1>10. file \in FileRec /\ file.pc = "command" /\ file' = [file EXCEPT !.pc = "commanded", !.answered = FALSE] /\ UNCHANGED <<app, ct>>
  BY DEF IInv, Command
<1>11. file' \in FileRec /\ file'.pc = "commanded" /\ file'.disk = d
  BY <1>1, <1>10 DEF FileRec
<1>12. AppsOK' /\ CTOK(ct)'
  BY <1>10 DEF IInv, AppsOK
<1>13. CommandsSeen'
  <2> SUFFICES ASSUME NEW e \in Stripe, io'[e].comm # <<>>
               PROVE  io'[e].act \/ (file'.pc = "commanded" /\ file'.disk = e)
    BY DEF CommandsSeen
  <2>1. CASE e = d
    BY <1>11, <2>1
  <2>2. CASE e # d
    BY <1>8, <1>10, <2>2 DEF IInv, CommandsSeen
  <2> QED BY <2>1, <2>2
<1>14. QueuesSeen'
  BY <1>9, <1>10 DEF IInv, QueuesSeen
<1>15. TcbsSeen'
  BY <1>9, <1>10 DEF IInv, TcbsSeen
<1>16. CompletionsSeen'
  BY <1>9, <1>10 DEF IInv, CompletionsSeen
<1> QED BY <1>8, <1>11, <1>12, <1>13, <1>14, <1>15, <1>16 DEF IInv

\* The I/O thread is activated for it.
LEMMA CommandActivateStep == ASSUME IInv, CommandActivate PROVE IInv'
<1>1. PICK d \in Stripe : d = file.disk
  BY DEF IInv, FileRec
<1>2. PICK z : /\ z = [io[d] EXCEPT !.act = TRUE] /\ IOOK(d, z) /\ z.pc = io[d].pc /\ z.to = io[d].to /\ z.comm = io[d].comm
               /\ z.queue = io[d].queue /\ z.act = TRUE
  BY IOActivated DEF IInv, IOsOK
<1>3. io' = [io EXCEPT ![d] = z]
  BY <1>1, <1>2 DEF CommandActivate, IInv, IOsOK
<1>4. IOsOK' /\ io'[d] = z /\ \A e \in Stripe : e # d => io'[e] = io[e]
  BY <1>2, <1>3, IOsKept DEF IInv
<1>5. \A e \in Stripe : /\ io'[e].pc = io[e].pc /\ io'[e].to = io[e].to /\ io'[e].comm = io[e].comm
                        /\ io'[e].queue = io[e].queue /\ (io[e].act => io'[e].act)
  BY <1>2, <1>4
<1>6. file \in FileRec /\ file' = [file EXCEPT !.pc = "answer"] /\ UNCHANGED <<app, ct>>
  BY DEF IInv, CommandActivate
<1>7. file' \in FileRec
  BY <1>6 DEF FileRec
<1>8. AppsOK' /\ CTOK(ct)'
  BY <1>6 DEF IInv, AppsOK
<1>9. CommandsSeen'
  <2> SUFFICES ASSUME NEW e \in Stripe, io'[e].comm # <<>> PROVE io'[e].act
    BY DEF CommandsSeen
  <2>1. CASE e = d
    BY <1>2, <1>4, <2>1
  <2>2. CASE e # d
    <3>1. io[e].act \/ (file.pc = "commanded" /\ file.disk = e)
      BY <1>5 DEF IInv, CommandsSeen
    <3> QED BY <1>1, <1>5, <2>2, <3>1
  <2> QED BY <2>1, <2>2
<1>10. QueuesSeen'
  BY <1>5, <1>6 DEF IInv, QueuesSeen
<1>11. TcbsSeen'
  BY <1>5, <1>6 DEF IInv, TcbsSeen
<1>12. CompletionsSeen'
  BY <1>5, <1>6 DEF IInv, CompletionsSeen
<1> QED BY <1>4, <1>7, <1>8, <1>9, <1>10, <1>11, <1>12 DEF IInv

\* Steps of the factory alone, when no command is to be followed by an activation.
LEMMA FileOnly == ASSUME IInv, file.pc # "commanded", file' \in FileRec, UNCHANGED <<app, io, ct>> PROVE IInv'
<1>1. AppsOK' /\ IOsOK' /\ CTOK(ct)' /\ QueuesSeen' /\ TcbsSeen' /\ CompletionsSeen'
  BY DEF IInv, AppsOK, IOsOK, QueuesSeen, TcbsSeen, CompletionsSeen
<1>2. CommandsSeen'
  BY DEF IInv, CommandsSeen
<1> QED BY <1>1, <1>2 DEF IInv

\* The answer to a command.
LEMMA AnsweredStep == ASSUME IInv, Answered PROVE IInv'
<1>1. file \in FileRec /\ file.pc = "answer" /\ UNCHANGED <<app, io, ct>>
  BY DEF IInv, Answered
<1>2. 0 \in Stripe
  BY Params DEF Stripe
<1>3. CASE file.disk < NumFiles - 1
  <2>1. PICK n \in Stripe : n = file.disk + 1
    <3>1. file.disk \in 0 .. NumFiles - 1 /\ NumFiles \in Nat
      BY <1>1, Params DEF FileRec, Stripe
    <3>2. file.disk + 1 \in 0 .. NumFiles - 1
      BY <1>3, <3>1
    <3> QED BY <3>2 DEF Stripe
  <2>2. file' = [file EXCEPT !.pc = "command", !.disk = n]
    BY <1>3, <2>1 DEF Answered
  <2>3. file' \in FileRec
    BY <1>1, <2>2 DEF FileRec
  <2> QED BY <1>1, <2>3, FileOnly
<1>4. CASE ~(file.disk < NumFiles - 1)
  <2>1. PICK pc \in {"opened", "closed"} : file' = [file EXCEPT !.pc = pc, !.disk = 0]
    BY <1>4 DEF Answered
  <2>2. file' \in FileRec
    BY <1>1, <1>2, <2>1 DEF FileRec
  <2> QED BY <1>1, <2>2, FileOnly
<1> QED BY <1>3, <1>4

\* The last instance is gone and the file is closed.
LEMMA CloseStep == ASSUME IInv, Close PROVE IInv'
<1>1. file \in FileRec /\ file.pc = "opened" /\ UNCHANGED <<app, io, ct>> /\ file' = [file EXCEPT !.pc = "command", !.op = "close"]
  BY DEF IInv, Close
<1>2. file' \in FileRec
  BY <1>1 DEF FileRec
<1> QED BY <1>1, <1>2, FileOnly

\* Every step preserves the invariant.
LEMMA NextInv == ASSUME IInv, [Next]_vars PROVE IInv'
<1>1. CASE UNCHANGED vars
  BY <1>1 DEF vars, IInv, AppsOK, IOsOK, CommandsSeen, QueuesSeen, TcbsSeen, CompletionsSeen
<1>2. ASSUME NEW a \in App, NEW e \in Extents[a], NEW sync \in BOOLEAN, Access(a, e[1], e[2], sync) PROVE IInv'
  BY <1>2, AccessStep
<1>3. ASSUME NEW a \in App, Waits(a) PROVE IInv'
  <2>1. PICK mode \in Modes[a], num \in {1, MaxReqs[a]} : Wait4Complete(a, mode, num)
    BY <1>3 DEF Waits
  <2> QED BY <2>1, Wait4CompleteStep
<1>4. ASSUME NEW a \in App, FlushRequest(a) \/ Cleanup(a) PROVE IInv'
  BY <1>4, FlushRequestStep, CleanupStep
<1>5. ASSUME NEW a \in App, AppStep(a) PROVE IInv'
  BY <1>5, CreateIOStep, FlushStep, ActivateIOStep, TakeCompletedStep, CallbackStep, CountedStep, WakeAppStep, DrainStep
     DEF AppStep
<1>6. ASSUME NEW d \in Stripe, IOStep(d) PROVE IInv'
  BY <1>6, RunStep, RoundStep, FetchAgainStep, SubmitMoreStep, IOWaitStep, ActivateCTStep, NotifyByIOStep, WakeByIOStep
     DEF IOStep
<1>7. ASSUME NEW d \in Stripe, KernelDone(d) PROVE IInv'
  BY <1>7, KernelDoneStep
<1>8. CASE CTStep
  BY <1>8, TakeTcbsStep, NotifyByCTStep, WakeByCTStep DEF CTStep
<1>9. CASE FileStep
  BY <1>9, CommandStep, CommandActivateStep, AnsweredStep, CloseStep DEF FileStep
<1> QED BY <1>1, <1>2, <1>3, <1>4, <1>5, <1>6, <1>7, <1>8, <1>9 DEF Next

-------------------------------------------------------------------------------
(* Theorems                                                                *)

\* The inductive invariant holds: among others the kernel never has more requests of an I/O thread
\* than that thread has slots (async_io), and the queue of the completion thread never overflows.
THEOREM DiskIOInvariant == Spec => []IInv
<1>1. Init => IInv
  BY InitInv
<1>2. IInv /\ [Next]_vars => IInv'
  BY NextInv
<1> QED BY <1>1, <1>2, PTL DEF Spec

\* The invariant leaves no thread asleep on work.
LEMMA NobodyAsleep == IInv => NobodySleepsOnWork
<1> SUFFICES ASSUME IInv PROVE NobodySleepsOnWork
  OBVIOUS
<1>1. ASSUME NEW d \in Stripe, io[d].pc = "wait"
      PROVE  /\ Busy(d) = 0
             /\ \/ io[d].act
                \/ io[d].queue = <<>> /\ io[d].comm = <<>>
                \/ file.pc = "commanded" /\ file.disk = d
                \/ \E a \in App : app[a].pc = "flushed" /\ app[a].disk = d
  <2>1. io[d].kernel = {} /\ io[d].finished = <<>> /\ io[d].events = 0
    BY <1>1 DEF IInv, IOsOK, IOOK, SlotsOK
  <2>2. Cardinality({}) = 0 /\ Len(<<>>) = 0
    BY FS_EmptySet
  <2>3. Busy(d) = 0
    BY <2>1, <2>2 DEF Busy
  <2> QED BY <2>3 DEF IInv, CommandsSeen, QueuesSeen
<1>2. ct.pc = "wait" => ct.act \/ ct.queue = <<>> \/ \E d \in Stripe : io[d].pc = "added"
  BY DEF IInv, TcbsSeen
<1>3. \A a \in App : app[a].pc = "wait" =>
          app[a].act \/ app[a].complete = <<>> \/ ct.to = a \/ \E d \in Stripe : io[d].to = a
  BY DEF IInv, CompletionsSeen, Looks
<1> QED BY <1>1, <1>2, <1>3 DEF NobodySleepsOnWork

\* thread::wait and thread::activate lose no wake-up, however many threads and disks there are: whoever
\* sleeps has nothing to do or is about to be activated.
THEOREM DiskIONobodySleepsOnWork == Spec => []NobodySleepsOnWork
BY DiskIOInvariant, NobodyAsleep, PTL

\* The pages of a part are in the file and in one RAID block.
LEMMA PartInBlock == ASSUME NEW p \in GoodPart, NEW i \in PartPages(p)
                     PROVE /\ p.off \in 0 .. FilePages - 1 /\ i \in 0 .. FilePages - 1
                           /\ BlockIdx(i) = BlockIdx(p.off)
<1> DEFINE S == StripeBlockSize
<1>1. PICK off \in Nat, size \in Nat \ {0} : /\ off = p.off /\ size = p.size /\ off + size <= FilePages
                                              /\ BlockIdx(off) = BlockIdx(off + size - 1)
  BY DiskIOAssumption, Params DEF GoodPart, Part
<1>2. S \in Nat \ {0} /\ FilePages \in Nat
  BY Params, DiskIOAssumption
<1>3. i \in Nat /\ off <= i /\ i <= off + size - 1
  BY <1>1 DEF PartPages, Pages
<1>4. PICK e \in Nat : e = off + size - 1
  OBVIOUS
<1>5. PICK b0 \in Nat, r0 \in Nat : off \div S = b0 /\ off % S = r0 /\ r0 < S /\ off = S * b0 + r0
  BY <1>2, DivMod
<1>6. PICK b1 \in Nat, r1 \in Nat : i \div S = b1 /\ i % S = r1 /\ r1 < S /\ i = S * b1 + r1
  BY <1>2, <1>3, DivMod
<1>7. PICK b2 \in Nat, r2 \in Nat : e \div S = b2 /\ e % S = r2 /\ r2 < S /\ e = S * b2 + r2
  BY <1>2, DivMod
<1>8. b0 <= b1
  <2>1. S * b0 + r0 <= S * b1 + r1
    BY <1>3, <1>5, <1>6
  <2> QED BY <1>2, <1>6, <2>1, QuotientOrder
<1>9. b1 <= b2
  <2>1. S * b1 + r1 <= S * b2 + r2
    BY <1>3, <1>4, <1>6, <1>7
  <2> QED BY <1>2, <1>7, <2>1, QuotientOrder
<1>10. b0 = b2 /\ BlockIdx(i) = b1 /\ BlockIdx(p.off) = b0
  BY <1>1, <1>4, <1>5, <1>6, <1>7 DEF BlockIdx
<1>11. b1 = b0
  BY <1>8, <1>9, <1>10
<1>12. off \in 0 .. FilePages - 1 /\ i \in 0 .. FilePages - 1
  BY <1>1, <1>2, <1>3
<1> QED BY <1>1, <1>10, <1>11, <1>12

\* The invariant puts every part that is under way in its place.
LEMMA PartsApart == IInv => PartsLandApart
<1> SUFFICES ASSUME IInv PROVE PartsLandApart
  OBVIOUS
<1> DEFINE parts(d) == io[d].kernel \cup ToSet(io[d].queue \o io[d].local)
           under == UNION {PartPages(p) : p \in UNION {parts(d) : d \in Stripe}}
<1>1. \A d \in Stripe : parts(d) \subseteq PartAt(d)
  <2> TAKE d \in Stripe
  <2>1. io[d].kernel \subseteq PartAt(d) /\ io[d].queue \in Seq(PartAt(d)) /\ io[d].local \in Seq(PartAt(d))
    BY DEF IInv, IOsOK, IOOK, IORec
  <2>2. PICK s \in Seq(PartAt(d)) : s = io[d].queue \o io[d].local
    <3>1. PICK q \in Seq(PartAt(d)), l \in Seq(PartAt(d)) : q = io[d].queue /\ l = io[d].local
      BY <2>1
    <3>2. q \o l \in Seq(PartAt(d))
      OBVIOUS
    <3> QED BY <3>1, <3>2
  <2>3. ToSet(s) \subseteq PartAt(d)
    BY <2>2, ElementsFinite
  <2> QED BY <2>1, <2>2, <2>3
<1> HIDE DEF parts
<1>2. \A d \in Stripe : \A p \in parts(d) : p \in GoodPart /\ DiskOf(p) = d
  BY <1>1 DEF PartAt
<1>3. \A d \in Stripe : \A p \in parts(d) : \A i \in PartPages(p) :
         /\ p.off \in 0 .. FilePages - 1 /\ i \in 0 .. FilePages - 1 /\ BlockIdx(i) = BlockIdx(p.off)
  BY <1>2, PartInBlock
<1>4. \A i \in under : i \in 0 .. FilePages - 1
  BY <1>3
<1> HIDE DEF under
<1>5. \A opt \in MappingOption, i \in 0 .. FilePages - 1 : Place[opt][i] = Map(opt, i)
  BY DEF Place
<1>6. \A i \in 0 .. FilePages - 1 : i \in Nat /\ i < FilePages /\ FilePages \in Nat
  BY DiskIOAssumption
<1>7. ASSUME NEW d \in Stripe, NEW p \in parts(d) PROVE Place[Mapping][p.off].idx = d
  <2>1. p.off \in 0 .. FilePages - 1
    BY <1>2 DEF GoodPart, Part
  <2>2. Mapping \in MappingOption /\ p.off \in Nat
    BY <1>6, <2>1, DiskIOAssumption
  <2>3. Map(Mapping, p.off).idx = Map2File(Mapping, p.off)
    BY <2>2, MapFindsTheFile
  <2>4. Map2File(Mapping, p.off) = d
    BY <1>2 DEF DiskOf
  <2> QED BY <1>5, <2>1, <2>2, <2>3, <2>4
<1>8. ASSUME NEW opt \in MappingOption, NEW d \in Stripe, NEW p \in parts(d), NEW i \in PartPages(p)
      PROVE  Place[opt][i] = [idx |-> Map2File(opt, i), off |-> Place[opt][p.off].off + i - p.off]
  <2>1. PICK off \in Nat : /\ off = p.off /\ off \in 0 .. FilePages - 1 /\ i \in 0 .. FilePages - 1 /\ i \in Nat
                           /\ BlockIdx(off) = BlockIdx(i)
    BY <1>3, <1>6
  <2>2. Map(opt, i) = [idx |-> Map(opt, off).idx, off |-> Map(opt, off).off + i - off]
    BY <2>1, BlockInOnePiece
  <2>3. Map(opt, i).idx = Map2File(opt, i)
    BY <2>1, MapFindsTheFile
  <2>4. Map(opt, i) = [idx |-> Map2File(opt, i), off |-> Map(opt, off).off + i - off]
    BY <2>2, <2>3
  <2> QED BY <1>5, <2>1, <2>4
<1>9. ASSUME NEW opt \in MappingOption, NEW i \in under
      PROVE  Place[opt][i].off < Created[opt][Place[opt][i].idx]
  <2>1. i \in 0 .. FilePages - 1 /\ i \in Nat /\ i < FilePages /\ FilePages \in Nat
    BY <1>4, <1>6
  <2>2. Map(opt, i).off < SizePerDisk(opt, FilePages)[Map(opt, i).idx]
    BY <2>1, PagesFit
  <2>3. Place[opt][i] = Map(opt, i) /\ Created[opt] = SizePerDisk(opt, FilePages)
    BY <1>5, <2>1 DEF Created
  <2> QED BY <2>2, <2>3
<1>10. ASSUME NEW opt \in MappingOption, NEW i \in under, NEW j \in 0 .. FilePages - 1, i # j
       PROVE  Place[opt][i] # Place[opt][j]
  <2>1. i \in 0 .. FilePages - 1 /\ i \in Nat /\ j \in Nat
    BY <1>4, <1>6
  <2>2. Map(opt, i) # Map(opt, j)
    BY <1>10, <2>1, PagesApart
  <2> QED BY <1>5, <2>1, <2>2
<1> QED BY <1>7, <1>8, <1>9, <1>10 DEF PartsLandApart, parts, under

\* Whatever the disks, the mapping and the size of the file, the parts with an I/O thread belong to
\* its physical file, and file_mapper puts each of them there in one piece, inside the file as it was
\* created and apart from every other page.
THEOREM DiskIOPartsLandApart == Spec => []PartsLandApart
BY DiskIOInvariant, PartsApart, PTL

-------------------------------------------------------------------------------
(* The books: where the parts are, and what is counted                     *)

\* A sequence without repetitions.
Single(s) == \A i, j \in 1 .. Len(s) : s[i] = s[j] => i = j

\* The parts in the nine places where a part can be.  The disk and the thread of a part are known from
\* the part.
InSender   == {p \in Part : p \in ToSet(app[p.req[1]].senders[DiskOf(p)])}
InQueue    == {p \in Part : p \in ToSet(io[DiskOf(p)].queue)}
InLocal    == {p \in Part : p \in ToSet(io[DiskOf(p)].local)}
InKernel   == {p \in Part : p \in io[DiskOf(p)].kernel}
InFinished == {p \in Part : p \in ToSet(io[DiskOf(p)].finished)}
InTcbs     == {p \in Part : p \in ToSet(io[DiskOf(p)].tcbs)}
InCTQueue  == {p \in Part : p \in ToSet(ct.queue)}
InCTTcbs   == {p \in Part : p \in ToSet(ct.tcbs)}
InComplete == {p \in Part : p \in ToSet(app[p.req[1]].complete)}

Boxes == <<InSender, InQueue, InLocal, InKernel, InFinished, InTcbs, InCTQueue, InCTTcbs, InComplete>>

\* Sets without a common element.
Disjoint(B) == \A i, j \in 1 .. 9 : i # j => B[i] \cap B[j] = {}

\* What is in all the places, and in the first four: there the pages of a part have not been moved yet.
All(B) == UNION {B[i] : i \in 1 .. 9}
First4(B) == UNION {B[i] : i \in 1 .. 4}

\* The parts that are under way, and the early ones among them.
Under == All(Boxes)
Early == First4(Boxes)

\* Parts of a request have no page in common.
Apart(S) == \A p, q \in S : p.req = q.req /\ p # q => PartPages(p) \cap PartPages(q) = {}

\* The pages of the parts of request r in a set of parts.
Of(r, S) == UNION {PartPages(p) : p \in {q \in S : q.req = r}}

\* A part is once where it is.  A thread has parts and callbacks of its own requests, and callbacks
\* are left only while it makes them.
AppBook(a, x) ==
    /\ Single(x.complete) /\ Single(x.calls) /\ \A d \in Stripe : Single(x.senders[d])
    /\ \A d \in Stripe : \A p \in ToSet(x.senders[d]) : p.req[1] = a
    /\ \A p \in ToSet(x.complete) : p.req[1] = a
    /\ \A r \in ToSet(x.calls) : r[1] = a
    /\ \/ x.pc = "call" \/ (x.pc \in {"flush", "flushed"} /\ x.ret = "call")
       \/ x.calls = <<>> /\ x.batch = 0
    /\ x.mode \in {"none", "wait", "select"}

\* The same for an I/O thread: nothing is left behind where the next parts go.
IOBook(x) ==
    /\ Single(x.queue) /\ Single(x.local) /\ Single(x.finished) /\ Single(x.tcbs)
    /\ x.pc \in {"wait", "comm", "fetch"} \/ x.ret = "fetch" => x.local = <<>>
    /\ x.pc \notin {"added", "notify", "notified"} => x.tcbs = <<>>

\* ... and for the completion thread.
CTBook(x) == Single(x.queue) /\ Single(x.tcbs) /\ (x.pc = "wait" => x.tcbs = <<>>)

RqRec == [state : {"new", "issued", "done"}, off : Nat, size : Nat, left : Nat, moved : SUBSET Nat]

\* What is left of request r, with record q, is its parts that are under way (U); what has been moved
\* is all but the early ones (E).
RqBook(r, q, U, E) ==
    /\ q \in RqRec
    /\ q.state = "new" => q.off = 0 /\ q.size = 0
    /\ q.state # "new" => <<q.off, q.size>> \in Extents[r[1]]
    /\ q.state # "issued" => Of(r, U) = {}
    /\ Of(r, U) \subseteq Pages(q.off, q.size) /\ q.left = Cardinality(Of(r, U))
    /\ q.moved = Pages(q.off, q.size) \ Of(r, E)
    /\ BlockIdx(q.off) = BlockIdx(q.off + q.size - 1) => \A p \in U : p.req = r => PartPages(p) = Pages(q.off, q.size)

\* The requests that a thread has issued and that were not reported.
Open(a, q) == {r \in Req : r[1] = a /\ q[r].state = "issued"}

\* The counters of a thread.
CountBook(a, x, q, U) ==
    /\ x.issued \in 0 .. MaxReqs[a] /\ x.completed \in Nat /\ x.batch \in Nat
    /\ \A i \in x.issued + 1 .. MaxReqs[a] : q[<<a, i>>].state = "new"
    /\ x.issued - x.completed = Cardinality(Open(a, q)) + x.batch - Len(x.calls)
    /\ Len(x.calls) <= x.batch
    /\ \A r \in ToSet(x.calls) : q[r].state = "issued" /\ Of(r, U) = {}
    /\ x.pc \in {"none", "drain", "destroyed"} => Open(a, q) = {}

\* The command an I/O thread has got, and whether its file is open.
FileIO(f, d, x) ==
    /\ x.comm = IF f.disk = d /\ f.pc \in {"commanded", "answer"} /\ ~f.answered THEN <<f.op>> ELSE <<>>
    /\ /\ f.op = "open"
       /\ d < f.disk \/ f.pc = "opened" \/ (d = f.disk /\ f.pc \in {"commanded", "answer"} /\ f.answered)
       => x.open

\* Threads have their instances between the opening and the closing of the file.
FileApp(f, x) == (f.pc # "opened" /\ f.op = "open" => x.pc = "none") /\ (f.op = "close" => x.pc = "destroyed")

Books ==
    /\ \A a \in App : AppBook(a, app[a]) /\ CountBook(a, app[a], rq, Under) /\ FileApp(file, app[a])
    /\ \A d \in Stripe : IOBook(io[d]) /\ FileIO(file, d, io[d])
    /\ CTBook(ct) /\ (file.pc = "opened" => file.op = "open")
    /\ Disjoint(Boxes) /\ Apart(Under)
    /\ DOMAIN rq = Req /\ \A r \in Req : RqBook(r, rq[r], Under, Early)
-------------------------------------------------------------------------------
(* Induction, sums and sequences                                           *)

\* A set of numbers that is not empty has a least element ...
LEMMA LeastNumber == ASSUME NEW T, T \subseteq Nat, T # {}
                     PROVE \E x \in T : \A y \in T : x <= y
<1>1. PICK R : R = OpToRel(<, Nat)
  OBVIOUS
<1>2. IsWellFoundedOn(R, Nat)
  BY <1>1, NatLessThanWellFounded
<1>3. PICK x \in T : \A y \in T : ~ (<<y, x>> \in R)
  BY <1>2, WFMin
<1>4. \A y \in T : y < x => <<y, x>> \in R
  BY <1>1 DEF OpToRel
<1>5. \A y \in T : ~(y < x)
  BY <1>3, <1>4
<1>6. \A y \in T : x <= y
  <2> TAKE y \in T
  <2>1. x \in Nat /\ y \in Nat
    OBVIOUS
  <2> QED BY <1>5, <2>1
<1> QED BY <1>6

\* ... which is induction, with a set in place of a predicate.
LEMMA SetInduction == ASSUME NEW T, 0 \in T, \A n \in Nat : n \in T => n + 1 \in T
                      PROVE Nat \subseteq T
<1> SUFFICES ASSUME Nat \ T # {} PROVE FALSE
  OBVIOUS
<1>1. PICK x \in Nat \ T : \A y \in Nat \ T : x <= y
  BY LeastNumber
<1>2. x - 1 \in Nat /\ x - 1 \in T
  BY <1>1
<1> QED BY <1>1, <1>2

\* The ranks of two positions differ.
LEMMA RankApart == ASSUME NEW I, IsFiniteSet(I), I \subseteq Nat, NEW i \in I, NEW j \in I,
                          Cardinality({x \in I : x <= i}) = Cardinality({x \in I : x <= j})
                   PROVE i = j
<1>1. ASSUME NEW m \in I, NEW n \in I, m < n PROVE Cardinality({x \in I : x <= m}) # Cardinality({x \in I : x <= n})
  <2>1. PICK U : U = {x \in I : x <= m}
    OBVIOUS
  <2>2. PICK V : V = {x \in I : x <= n}
    OBVIOUS
  <2>3. V \subseteq I /\ U \subseteq V /\ n \in V /\ n \notin U
    <3>1. m \in Nat /\ n \in Nat /\ \A x \in I : x \in Nat /\ (x <= m => x <= n)
      BY <1>1
    <3>2. n <= n /\ ~(n <= m)
      BY <1>1, <3>1
    <3> QED BY <2>1, <2>2, <3>1, <3>2
  <2>4. IsFiniteSet(V)
    BY <2>3, FS_Subset
  <2>5. Cardinality(V) = Cardinality(U) => U = V
    BY <2>3, <2>4, FS_Subset
  <2> QED BY <2>1, <2>2, <2>3, <2>5
<1>2. i < j \/ j < i \/ i = j
  OBVIOUS
<1> QED BY <1>1, <1>2

\* The elements at some positions are selected all, and each once.
LEMMA SelectionAll == ASSUME NEW S, NEW s \in Seq(S), NEW I, I \subseteq DOMAIN s
                      PROVE /\ ElementsAt(s, I) \in Seq(S)
                            /\ ToSet(ElementsAt(s, I)) = {s[i] : i \in I}
                            /\ (\A i, j \in I : s[i] = s[j] => i = j) => Single(ElementsAt(s, I))
<1>1. Len(s) \in Nat /\ DOMAIN s = 1 .. Len(s)
  OBVIOUS
<1>2. IsFiniteSet(I) /\ I \subseteq Nat
  <2>1. IsFiniteSet(DOMAIN s)
    BY <1>1, FS_Interval
  <2> QED BY <1>1, <2>1, FS_Subset
<1>3. PICK n \in Nat : n = Cardinality(I)
  BY <1>2, FS_CardinalityType
<1> DEFINE rank(i) == Cardinality({j \in I : j <= i})
           pos(k) == CHOOSE i \in I : rank(i) = k
<1>4. \A k \in 1 .. n : pos(k) \in I /\ rank(pos(k)) = k
  <2> TAKE k \in 1 .. n
  <2>1. \E i \in I : rank(i) = k
    BY <1>2, <1>3, RankExists
  <2> HIDE DEF rank
  <2> QED BY <2>1
<1>5. \A i \in I : rank(i) \in 1 .. n
  <2> TAKE i \in I
  <2>1. PICK U : U = {j \in I : j <= i}
    OBVIOUS
  <2>2. U \subseteq I /\ i \in U
    BY <1>2, <2>1
  <2>3. IsFiniteSet(U) /\ Cardinality(U) <= n
    BY <1>2, <1>3, <2>2, FS_Subset
  <2>4. Cardinality(U) \in Nat /\ Cardinality(U) # 0
    BY <2>2, <2>3, FS_CardinalityType, FS_EmptySet
  <2>5. Cardinality(U) \in 1 .. n
    BY <2>3, <2>4
  <2> QED BY <2>1, <2>5
<1>6. \A i, j \in I : rank(i) = rank(j) => i = j
  BY <1>2, RankApart
<1>7. ElementsAt(s, I) = [k \in 1 .. n |-> s[pos(k)]]
  BY <1>3 DEF ElementsAt
<1> HIDE DEF rank
<1>8. \A i \in I : pos(rank(i)) = i
  BY <1>4, <1>5, <1>6
<1> HIDE DEF pos
<1>9. PICK e : e = ElementsAt(s, I)
  OBVIOUS
<1>10. e \in Seq(S)
  BY <1>9, Selection
<1>11. DOMAIN e = 1 .. n /\ Len(e) = n /\ \A k \in 1 .. n : e[k] = s[pos(k)]
  BY <1>7, <1>9
<1>12. ToSet(e) = {s[i] : i \in I}
  <2>1. ToSet(e) = {e[k] : k \in 1 .. n}
    BY <1>11 DEF ToSet
  <2>2. \A k \in 1 .. n : e[k] \in {s[i] : i \in I}
    BY <1>4, <1>11
  <2>3. \A i \in I : s[i] \in {e[k] : k \in 1 .. n}
    BY <1>5, <1>8, <1>11
  <2> QED BY <2>1, <2>2, <2>3
<1>13. ASSUME \A i, j \in I : s[i] = s[j] => i = j PROVE Single(e)
  <2> SUFFICES ASSUME NEW k \in 1 .. n, NEW l \in 1 .. n, e[k] = e[l] PROVE k = l
    BY <1>11 DEF Single
  <2>1. pos(k) = pos(l)
    BY <1>4, <1>11, <1>13
  <2> QED BY <1>4, <2>1
<1> QED BY <1>9, <1>10, <1>12, <1>13

\* One sequence after another.
LEMMA CatSets == ASSUME NEW S, NEW s \in Seq(S), NEW t \in Seq(S)
                 PROVE /\ s \o t \in Seq(S) /\ ToSet(s \o t) = ToSet(s) \cup ToSet(t)
                       /\ Single(s) /\ Single(t) /\ ToSet(s) \cap ToSet(t) = {} => Single(s \o t)
<1>1. PICK c : c = s \o t
  OBVIOUS
<1>2. PICK m \in Nat, n \in Nat : m = Len(s) /\ n = Len(t)
  OBVIOUS
<1>3. /\ c \in Seq(S) /\ Len(c) = m + n /\ DOMAIN c = 1 .. m + n /\ DOMAIN s = 1 .. m /\ DOMAIN t = 1 .. n
      /\ (\A i \in 1 .. m : c[i] = s[i]) /\ \A i \in 1 .. n : c[m + i] = t[i]
  BY <1>1, <1>2
<1>4. \A i \in 1 .. m + n : i \in 1 .. m \/ (i - m \in 1 .. n /\ m + (i - m) = i)
  OBVIOUS
<1>5. \A i \in 1 .. n : m + i \in 1 .. m + n
  OBVIOUS
<1>5a. \A i \in 1 .. m : i \in 1 .. m + n
  OBVIOUS
<1>6. ToSet(c) = ToSet(s) \cup ToSet(t)
  <2>1. ASSUME NEW i \in 1 .. m + n PROVE c[i] \in {s[j] : j \in 1 .. m} \cup {t[j] : j \in 1 .. n}
    <3>1. CASE i \in 1 .. m
      BY <1>3, <3>1
    <3>2. CASE i - m \in 1 .. n /\ m + (i - m) = i
      <4>1. c[i] = t[i - m]
        BY <1>3, <3>2
      <4> QED BY <3>2, <4>1
    <3> QED BY <1>4, <3>1, <3>2
  <2>2. \A i \in 1 .. m : s[i] \in {c[j] : j \in 1 .. m + n}
    BY <1>3, <1>5a
  <2>3. \A i \in 1 .. n : t[i] \in {c[j] : j \in 1 .. m + n}
    BY <1>3, <1>5
  <2>4. ToSet(c) = {c[j] : j \in 1 .. m + n} /\ ToSet(s) = {s[j] : j \in 1 .. m} /\ ToSet(t) = {t[j] : j \in 1 .. n}
    BY <1>3 DEF ToSet
  <2> QED BY <2>1, <2>2, <2>3, <2>4
<1>7. ASSUME Single(s), Single(t), ToSet(s) \cap ToSet(t) = {} PROVE Single(c)
  <2> SUFFICES ASSUME NEW i \in 1 .. m + n, NEW j \in 1 .. m + n, c[i] = c[j] PROVE i = j
    BY <1>3 DEF Single
  <2>1. \A k \in 1 .. m, l \in 1 .. n : s[k] # t[l]
    BY <1>3, <1>7 DEF ToSet
  <2>2. CASE i \in 1 .. m /\ j \in 1 .. m
    BY <1>2, <1>3, <1>7, <2>2 DEF Single
  <2>3. CASE i \in 1 .. m /\ j - m \in 1 .. n /\ m + (j - m) = j
    <3>1. c[i] = s[i] /\ c[j] = t[j - m]
      BY <1>3, <2>3
    <3> QED BY <2>1, <2>3, <3>1
  <2>4. CASE j \in 1 .. m /\ i - m \in 1 .. n /\ m + (i - m) = i
    <3>1. c[j] = s[j] /\ c[i] = t[i - m]
      BY <1>3, <2>4
    <3> QED BY <2>1, <2>4, <3>1
  <2>5. CASE i - m \in 1 .. n /\ m + (i - m) = i /\ j - m \in 1 .. n /\ m + (j - m) = j
    <3>1. c[j] = t[j - m] /\ c[i] = t[i - m]
      BY <1>3, <2>5
    <3>2. i - m = j - m
      BY <1>2, <1>7, <2>5, <3>1 DEF Single
    <3> QED BY <2>5, <3>2
  <2> QED BY <1>4, <2>2, <2>3, <2>4, <2>5
<1> QED BY <1>1, <1>3, <1>6, <1>7

\* The two pieces of a sequence that is cut.
LEMMA CutSets == ASSUME NEW S, NEW s \in Seq(S), NEW n \in Nat, n <= Len(s), Single(s)
                 PROVE LET x == SubSeq(s, 1, n)
                           y == SubSeq(s, n + 1, Len(s))
                       IN  /\ x \in Seq(S) /\ y \in Seq(S) /\ Single(x) /\ Single(y)
                           /\ ToSet(x) \cap ToSet(y) = {} /\ ToSet(x) \cup ToSet(y) = ToSet(s)
<1>1. PICK x, y : x = SubSeq(s, 1, n) /\ y = SubSeq(s, n + 1, Len(s))
  OBVIOUS
<1>2. PICK m \in Nat, l \in Nat : m = Len(s) - n /\ l = Len(s) /\ l = n + m
  OBVIOUS
<1>3. /\ x \in Seq(S) /\ y \in Seq(S) /\ Len(x) = n /\ Len(y) = m /\ DOMAIN x = 1 .. n /\ DOMAIN y = 1 .. m /\ DOMAIN s = 1 .. l
  BY <1>1, <1>2, Pieces
<1>4. (\A i \in 1 .. n : x[i] = s[i] /\ i \in 1 .. l) /\ \A i \in 1 .. m : y[i] = s[n + i] /\ n + i \in 1 .. l
  <2>1. \A i \in 1 .. n : i \in 1 .. l
    BY <1>2
  <2>2. \A i \in 1 .. m : n + i \in 1 .. l
    BY <1>2
  <2>3. \A i \in 1 .. n : x[i] = s[i]
    BY <1>1, <1>2, <1>3
  <2>4. \A i \in 1 .. m : y[i] = s[n + i]
    <3> TAKE i \in 1 .. m
    <3>1. y = SubSeq(s, n + 1, l) /\ (n + 1) \in Nat /\ i \in 1 .. (l - (n + 1) + 1)
      BY <1>1, <1>2
    <3>2. y[i] = s[(n + 1) + i - 1]
      BY <3>1
    <3>3. (n + 1) + i - 1 = n + i
      OBVIOUS
    <3> QED BY <3>2, <3>3
  <2> QED BY <2>1, <2>2, <2>3, <2>4
<1>5. \A i, j \in 1 .. l : s[i] = s[j] => i = j
  BY <1>2 DEF Single
<1>6. Single(x)
  BY <1>3, <1>4, <1>5 DEF Single
<1>7. Single(y)
  <2> SUFFICES ASSUME NEW i \in 1 .. m, NEW j \in 1 .. m, y[i] = y[j] PROVE i = j
    BY <1>3 DEF Single
  <2>1. n + i = n + j
    BY <1>4, <1>5
  <2> QED BY <2>1
<1>8. ToSet(x) = {x[i] : i \in 1 .. n} /\ ToSet(y) = {y[i] : i \in 1 .. m} /\ ToSet(s) = {s[i] : i \in 1 .. l}
  BY <1>3 DEF ToSet
<1>9. ToSet(x) \cap ToSet(y) = {}
  <2>1. \A i \in 1 .. n, j \in 1 .. m : x[i] # y[j]
    <3> TAKE i \in 1 .. n, j \in 1 .. m
    <3>1. i # n + j
      OBVIOUS
    <3> QED BY <1>4, <1>5, <3>1
  <2> QED BY <1>8, <2>1
<1>10. ToSet(x) \cup ToSet(y) = ToSet(s)
  <2>1. \A i \in 1 .. l : s[i] \in {x[j] : j \in 1 .. n} \cup {y[j] : j \in 1 .. m}
    <3> TAKE i \in 1 .. l
    <3>1. i \in 1 .. n \/ (i - n \in 1 .. m /\ n + (i - n) = i)
      BY <1>2
    <3>2. CASE i \in 1 .. n
      BY <1>4, <3>2
    <3>3. CASE i - n \in 1 .. m /\ n + (i - n) = i
      <4>1. y[i - n] = s[i]
        BY <1>4, <3>3
      <4> QED BY <3>3, <4>1
    <3> QED BY <3>1, <3>2, <3>3
  <2>2. (\A i \in 1 .. n : x[i] \in {s[j] : j \in 1 .. l}) /\ \A i \in 1 .. m : y[i] \in {s[j] : j \in 1 .. l}
    BY <1>4
  <2> QED BY <1>8, <2>1, <2>2
<1> QED BY <1>1, <1>3, <1>6, <1>7, <1>9, <1>10

\* The first element and the others.
LEMMA HeadTail == ASSUME NEW S, NEW s \in Seq(S), s # <<>>
                  PROVE /\ Head(s) \in ToSet(s) /\ Tail(s) \in Seq(S) /\ ToSet(Tail(s)) \subseteq ToSet(s)
                        /\ Len(Tail(s)) = Len(s) - 1 /\ Len(s) \in Nat \ {0}
                        /\ Single(s) => /\ Single(Tail(s)) /\ Head(s) \notin ToSet(Tail(s))
                                        /\ ToSet(Tail(s)) = ToSet(s) \ {Head(s)}
<1>1. PICK t : t = Tail(s)
  OBVIOUS
<1>2. PICK l \in Nat \ {0} : l = Len(s)
  OBVIOUS
<1>3. /\ t \in Seq(S) /\ Len(t) = l - 1 /\ DOMAIN t = 1 .. l - 1 /\ DOMAIN s = 1 .. l /\ Head(s) = s[1]
      /\ \A i \in 1 .. l - 1 : t[i] = s[i + 1] /\ i + 1 \in 1 .. l
  BY <1>1, <1>2
<1>4. ToSet(t) = {t[i] : i \in 1 .. l - 1} /\ ToSet(s) = {s[i] : i \in 1 .. l} /\ 1 \in 1 .. l
  BY <1>3 DEF ToSet
<1>5. Head(s) \in ToSet(s) /\ ToSet(t) \subseteq ToSet(s)
  BY <1>3, <1>4
<1>6. ASSUME Single(s) PROVE Single(t) /\ Head(s) \notin ToSet(t) /\ ToSet(t) = ToSet(s) \ {Head(s)}
  <2>1. \A i, j \in 1 .. l : s[i] = s[j] => i = j
    BY <1>2, <1>6 DEF Single
  <2>2. Single(t)
    <3> SUFFICES ASSUME NEW i \in 1 .. l - 1, NEW j \in 1 .. l - 1, t[i] = t[j] PROVE i = j
      BY <1>3 DEF Single
    <3>1. i + 1 = j + 1
      BY <1>3, <2>1
    <3> QED BY <3>1
  <2>3. \A i \in 1 .. l - 1 : t[i] # s[1]
    <3> TAKE i \in 1 .. l - 1
    <3>1. i + 1 # 1
      OBVIOUS
    <3> QED BY <1>3, <1>4, <2>1, <3>1
  <2>4. \A i \in 1 .. l : i # 1 => s[i] \in ToSet(t)
    <3> TAKE i \in 1 .. l
    <3> HAVE i # 1
    <3>1. i - 1 \in 1 .. l - 1 /\ (i - 1) + 1 = i
      OBVIOUS
    <3>2. t[i - 1] = s[i]
      BY <1>3, <3>1
    <3> QED BY <1>4, <3>1, <3>2
  <2>5. Head(s) \notin ToSet(t)
    BY <1>3, <1>4, <2>3
  <2>6. \A x \in ToSet(s) : x # Head(s) => x \in ToSet(t)
    BY <1>3, <1>4, <2>4
  <2> QED BY <1>5, <2>2, <2>5, <2>6
<1> QED BY <1>1, <1>2, <1>3, <1>5, <1>6

\* The empty sequence, and those of one element.
LEMMA ShortSets == /\ Single(<<>>) /\ ToSet(<<>>) = {}
                   /\ \A x : Single(<<x>>) /\ ToSet(<<x>>) = {x}
<1>1. ToSet(<<>>) = {}
  BY DEF ToSet
<1>2. ASSUME NEW x PROVE ToSet(<<x>>) = {x}
  BY DEF ToSet
<1> QED BY <1>1, <1>2 DEF Single

-------------------------------------------------------------------------------
(* Pages of parts                                                          *)

\* A part has as many pages as its size says.
LEMMA PartCount == ASSUME NEW p \in Part
                   PROVE /\ p.req \in Req /\ p.off \in Nat /\ p.size \in Nat \ {0} /\ p.off \in PartPages(p)
                         /\ IsFiniteSet(PartPages(p)) /\ Cardinality(PartPages(p)) = p.size /\ PartPages(p) \subseteq Nat
<1>1. p.req \in Req /\ p.off \in Nat /\ p.size \in Nat \ {0}
  BY Params DEF Part
<1>2. PICK o \in Nat, n \in Nat \ {0} : o = p.off /\ n = p.size
  BY <1>1
<1>3. PartPages(p) = o .. o + n - 1
  BY <1>2 DEF PartPages, Pages
<1>4. PICK h \in Nat : h = o + n - 1
  OBVIOUS
<1>5. IsFiniteSet(o .. h) /\ Cardinality(o .. h) = IF o > h THEN 0 ELSE h - o + 1
  BY FS_Interval
<1>6. ~(o > h) /\ h - o + 1 = n /\ o \in o .. h /\ o .. h \subseteq Nat
  BY <1>4
<1> QED BY <1>1, <1>2, <1>3, <1>4, <1>5, <1>6

\* The pages of a request in some parts, one by one ...
LEMMA OfIn == ASSUME NEW r, NEW S, NEW x
              PROVE x \in Of(r, S) <=> \E p \in S : p.req = r /\ x \in PartPages(p)
BY DEF Of

\* ... and in two sets of parts.
LEMMA OfUnion == ASSUME NEW r, NEW S, NEW T
                 PROVE Of(r, S \cup T) = Of(r, S) \cup Of(r, T)
<1>1. \A x : x \in Of(r, S \cup T) <=> x \in Of(r, S) \/ x \in Of(r, T)
  <2> TAKE x
  <2> QED BY OfIn
<1> QED BY <1>1

\* The sum of PagesOf, part by part.
IsSum(g, n, parts, r) ==
    g = [i \in 0 .. n |-> IF i = 0 THEN 0 ELSE g[i - 1] + IF parts[i].req = r THEN parts[i].size ELSE 0]

\* It exists ...
LEMMA SumExists == ASSUME NEW n \in Nat, NEW parts, NEW r
                   PROVE \E g : IsSum(g, n, parts, r)
<1> DEFINE more(i) == IF parts[i].req = r THEN parts[i].size ELSE 0
           Def(m, g) == g = [i \in 0 .. m |-> IF i = 0 THEN 0 ELSE g[i - 1] + more(i)]
           T == {m \in Nat : \E g : Def(m, g)}
<1> HIDE DEF more
<1>1. 0 \in T
  <2>1. Def(0, [i \in 0 .. 0 |-> 0])
    OBVIOUS
  <2> QED BY <2>1
<1>2. \A m \in Nat : m \in T => m + 1 \in T
  <2> TAKE m \in Nat
  <2> HAVE m \in T
  <2>1. PICK g : Def(m, g)
    OBVIOUS
  <2> DEFINE h == [i \in 0 .. m + 1 |-> IF i = m + 1 THEN g[m] + more(i) ELSE g[i]]
  <2>2. m + 1 # 0 /\ m \in 0 .. m
    OBVIOUS
  <2>3. \A i \in 0 .. m + 1 : h[i] = IF i = 0 THEN 0 ELSE h[i - 1] + more(i)
    <3> TAKE i \in 0 .. m + 1
    <3>1. CASE i = m + 1
      <4>1. h[i] = g[m] + more(i)
        BY <3>1
      <4>2. i - 1 = m /\ i # 0 /\ m \in 0 .. m + 1 /\ m # m + 1
        BY <3>1
      <4>3. h[m] = g[m]
        BY <4>2
      <4> QED BY <4>1, <4>2, <4>3
    <3>2. CASE i # m + 1
      <4>1. i \in 0 .. m /\ (i # 0 => i - 1 \in 0 .. m /\ i - 1 \in 0 .. m + 1 /\ i - 1 # m + 1)
        BY <3>2
      <4>2. h[i] = g[i] /\ (i # 0 => h[i - 1] = g[i - 1])
        BY <4>1, <3>2
      <4>3. g[i] = IF i = 0 THEN 0 ELSE g[i - 1] + more(i)
        BY <4>1, <2>1
      <4> QED BY <4>2, <4>3
    <3> QED BY <3>1, <3>2
  <2>4. Def(m + 1, h)
    BY <2>3
  <2>5. m + 1 \in Nat
    OBVIOUS
  <2> HIDE DEF h, Def
  <2> QED BY <2>4, <2>5
<1>3. n \in T
  <2> HIDE DEF T
  <2> QED BY <1>1, <1>2, SetInduction
<1> QED BY <1>3 DEF more, IsSum

\* ... and PagesOf is its last value.
LEMMA SumSteps == ASSUME NEW parts \in Seq(Part), NEW r
                  PROVE \E g : /\ g[0] = 0 /\ PagesOf(r, parts) = g[Len(parts)]
                               /\ \A i \in 1 .. Len(parts) : g[i] = g[i - 1] + IF parts[i].req = r THEN parts[i].size ELSE 0
<1>1. PICK n \in Nat : n = Len(parts)
  OBVIOUS
<1>2. PICK g : g = CHOOSE h : IsSum(h, n, parts, r)
  OBVIOUS
<1>3. \E h : IsSum(h, n, parts, r)
  BY SumExists
<1>4. IsSum(g, n, parts, r)
  BY <1>2, <1>3, Zenon
<1>5. PagesOf(r, parts) = g[n]
  BY <1>1, <1>2 DEF PagesOf, IsSum
<1>6. 0 \in 0 .. n /\ \A i \in 1 .. n : i \in 0 .. n /\ i # 0
  OBVIOUS
<1>7. g[0] = 0
  BY <1>4, <1>6 DEF IsSum
<1>8. \A i \in 1 .. n : g[i] = g[i - 1] + IF parts[i].req = r THEN parts[i].size ELSE 0
  BY <1>4, <1>6 DEF IsSum
<1> QED BY <1>1, <1>2, <1>5, <1>7, <1>8

\* Parts without a common page have as many pages of a request as the sum of their sizes.
LEMMA PagesSum ==
    ASSUME NEW parts \in Seq(Part), Single(parts), NEW r,
           \A p, q \in ToSet(parts) : p.req = q.req /\ p # q => PartPages(p) \cap PartPages(q) = {}
    PROVE  /\ IsFiniteSet(Of(r, ToSet(parts))) /\ PagesOf(r, parts) = Cardinality(Of(r, ToSet(parts)))
           /\ PagesOf(r, parts) \in Nat
<1>1. PICK n \in Nat : n = Len(parts) /\ DOMAIN parts = 1 .. n /\ \A i \in 1 .. n : parts[i] \in Part
  OBVIOUS
<1>2. PICK g : /\ g[0] = 0 /\ PagesOf(r, parts) = g[n]
               /\ \A i \in 1 .. n : g[i] = g[i - 1] + IF parts[i].req = r THEN parts[i].size ELSE 0
  BY <1>1, SumSteps
<1> DEFINE first(m) == {parts[j] : j \in 1 .. m}
           T == {m \in Nat : m <= n => IsFiniteSet(Of(r, first(m))) /\ g[m] = Cardinality(Of(r, first(m))) /\ g[m] \in Nat}
<1>3. ToSet(parts) = first(n)
  BY <1>1 DEF ToSet
<1>4. 0 \in T
  <2>1. first(0) = {}
    OBVIOUS
  <2>2. Of(r, {}) = {}
    BY DEF Of
  <2> HIDE DEF first
  <2>3. IsFiniteSet({}) /\ Cardinality({}) = 0
    BY FS_EmptySet
  <2>4. Of(r, first(0)) = {}
    BY <2>1, <2>2, Zenon
  <2>5. IsFiniteSet(Of(r, first(0))) /\ g[0] = Cardinality(Of(r, first(0)))
    BY <1>2, <2>3, <2>4, Zenon
  <2>6. g[0] \in Nat
    BY <1>2
  <2> QED BY <2>5, <2>6
<1>5. ASSUME NEW m \in Nat, m \in T PROVE m + 1 \in T
  <2> SUFFICES ASSUME m + 1 <= n
               PROVE  /\ IsFiniteSet(Of(r, first(m + 1))) /\ g[m + 1] = Cardinality(Of(r, first(m + 1)))
                      /\ g[m + 1] \in Nat
    OBVIOUS
  <2>1. PICK A : A = Of(r, first(m)) /\ IsFiniteSet(A) /\ g[m] = Cardinality(A) /\ g[m] \in Nat
    <3>1. m <= n
      OBVIOUS
    <3> HIDE DEF first
    <3> QED BY <1>5, <3>1
  <2>2. PICK p \in Part : p = parts[m + 1]
    BY <1>1
  <2>3. g[m + 1] = g[m] + IF p.req = r THEN p.size ELSE 0
    <3>1. m + 1 \in 1 .. n /\ (m + 1) - 1 = m
      OBVIOUS
    <3> QED BY <1>2, <2>2, <3>1
  <2>4. first(m + 1) = first(m) \cup {p}
    <3>1. \A j \in 1 .. m + 1 : j \in 1 .. m \/ j = m + 1
      OBVIOUS
    <3>2. (\A j \in 1 .. m : j \in 1 .. m + 1) /\ m + 1 \in 1 .. m + 1
      OBVIOUS
    <3> QED BY <2>2, <3>1, <3>2
  <2>5. p \notin first(m) /\ first(m) \subseteq ToSet(parts) /\ p \in ToSet(parts)
    <3>1. \A j \in 1 .. m : j \in 1 .. n /\ j # m + 1
      OBVIOUS
    <3>2. m + 1 \in 1 .. n
      OBVIOUS
    <3>3. \A j \in 1 .. m : parts[j] # parts[m + 1]
      BY <1>1, <3>1, <3>2 DEF Single
    <3>4. ToSet(parts) = {parts[j] : j \in 1 .. n}
      BY <1>3
    <3> QED BY <2>2, <3>1, <3>2, <3>3, <3>4
  <2> HIDE DEF first
  <2>6. Of(r, first(m + 1)) = A \cup Of(r, {p})
    BY <2>1, <2>4, OfUnion
  <2>7. CASE p.req = r
    <3>1. Of(r, {p}) = PartPages(p)
      BY <2>7 DEF Of
    <3>2. A \cap PartPages(p) = {}
      <4> SUFFICES ASSUME NEW x \in A, x \in PartPages(p) PROVE FALSE
        OBVIOUS
      <4>1. PICK q \in first(m) : q.req = r /\ x \in PartPages(q)
        BY <2>1, OfIn
      <4> QED BY <2>5, <2>7, <4>1
    <3>3. PICK B : B = PartPages(p) /\ IsFiniteSet(B) /\ Cardinality(B) = p.size /\ p.size \in Nat
      BY PartCount
    <3>4. IsFiniteSet(A \cup B) /\ Cardinality(A \cup B) = Cardinality(A) + Cardinality(B) - Cardinality(A \cap B)
      BY <2>1, <3>3, FS_Union
    <3>5. Cardinality(A \cap B) = 0
      BY <3>2, <3>3, FS_EmptySet
    <3>6. Cardinality(A \cup B) = g[m] + p.size
      BY <2>1, <3>3, <3>4, <3>5
    <3>7. Of(r, first(m + 1)) = A \cup B
      BY <2>6, <3>1, <3>3
    <3>8. g[m + 1] = g[m] + p.size
      BY <2>3, <2>7
    <3>9. g[m + 1] = Cardinality(A \cup B) /\ g[m + 1] \in Nat
      BY ONLY <2>1, <3>3, <3>6, <3>8
    <3> QED BY ONLY <3>4, <3>7, <3>9, Zenon
  <2>8. CASE p.req # r
    <3>1. Of(r, {p}) = {}
      BY <2>8 DEF Of
    <3>2. A \cup {} = A
      OBVIOUS
    <3>3. Of(r, first(m + 1)) = A
      BY <2>6, <3>1, <3>2
    <3>4. g[m + 1] = g[m]
      BY <2>1, <2>3, <2>8
    <3> QED BY ONLY <2>1, <3>3, <3>4, Zenon
  <2> QED BY <2>7, <2>8
<1>6. n \in T
  <2> HIDE DEF T
  <2> QED BY <1>4, <1>5, SetInduction
<1> QED BY <1>2, <1>3, <1>6

\* The parts s of a request, one for every block from first to last.
SplitInto(s, r, off, size, first, last, num) ==
    /\ first = BlockIdx(off) /\ last = BlockIdx(off + size - 1) /\ num = last - first + 1 /\ Len(s) = num
    /\ \A j \in Pages(off, size) : BlockIdx(j) \in first .. last
    /\ \A i \in 1 .. num : s[i].req = r /\ PartPages(s[i]) = {j \in Pages(off, size) : BlockIdx(j) = first + i - 1}

\* A part has the pages of the request in its RAID block.
LEMMA SplitPages ==
    ASSUME NEW r \in Req, NEW off \in Nat, NEW size \in Nat \ {0}, off + size <= FilePages
    PROVE  \E first, last, num \in Nat : SplitInto(Split(r, off, size), r, off, size, first, last, num)
<1> DEFINE S == StripeBlockSize
<1>0. S \in Nat \ {0} /\ FilePages \in Nat
  BY Params, DiskIOAssumption
<1>1. PICK first \in Nat, r0 \in Nat : off \div S = first /\ off % S = r0 /\ r0 < S /\ off = S * first + r0
  BY <1>0, DivMod
<1>2. PICK e \in Nat : e = off + size - 1
  OBVIOUS
<1>3. PICK last \in Nat, r1 \in Nat : e \div S = last /\ e % S = r1 /\ r1 < S /\ e = S * last + r1
  BY <1>0, DivMod
<1>4. first <= last
  <2>1. S * first + r0 <= S * last + r1
    BY <1>1, <1>2, <1>3
  <2> QED BY <1>0, <1>3, <2>1, QuotientOrder
<1>5. BlockIdx(off) = first /\ BlockIdx(off + size - 1) = last
  BY <1>1, <1>2, <1>3 DEF BlockIdx
<1>6. PICK num \in Nat : num = last - first + 1
  BY <1>4
<1> DEFINE begin(i) == Max({off, (first + i - 1) * S})
           end(i) == Min({off + size, (first + i) * S})
           part(i) == [req |-> r, off |-> begin(i), size |-> end(i) - begin(i)]
<1>7. Split(r, off, size) = [i \in 1 .. num |-> part(i)]
  BY <1>5, <1>6 DEF Split
<1>8. ASSUME NEW j \in Pages(off, size)
      PROVE  j \in Nat /\ off <= j /\ j <= e /\ \E q, x \in Nat : BlockIdx(j) = q /\ x < S /\ j = S * q + x
  <2>1. j \in Nat /\ off <= j /\ j <= e
    BY <1>2, <1>8 DEF Pages
  <2>2. PICK q \in Nat, x \in Nat : j \div S = q /\ x < S /\ j = S * q + x
    BY <1>0, <2>1, DivMod
  <2>3. BlockIdx(j) = q
    BY <2>2 DEF BlockIdx
  <2> QED BY <2>1, <2>2, <2>3
<1>9. ASSUME NEW j \in Pages(off, size) PROVE BlockIdx(j) \in first .. last
  <2>1. PICK q \in Nat, x \in Nat : BlockIdx(j) = q /\ x < S /\ j = S * q + x
    BY <1>8
  <2>2. S * first + r0 <= S * q + x /\ S * q + x <= S * last + r1
    BY <1>1, <1>3, <1>8, <1>9, <2>1
  <2>3. first <= q
    BY <1>0, <2>1, <2>2, QuotientOrder
  <2>4. q <= last
    BY <1>0, <1>3, <2>2, QuotientOrder
  <2> QED BY <2>1, <2>3, <2>4
<1>10. ASSUME NEW i \in 1 .. num
       PROVE  part(i).req = r /\ PartPages(part(i)) = {j \in Pages(off, size) : BlockIdx(j) = first + i - 1}
  <2>1. PICK k \in Nat : k = first + i - 1
    BY <1>6
  <2>2. PICK low \in Nat, high \in Nat : low = S * k /\ high = low + S /\ low = (first + i - 1) * S /\ high = (first + i) * S
    <3>1. first + i = k + 1
      BY <2>1
    <3>2. S * k \in Nat /\ S * k = k * S /\ (k + 1) * S = S * k + S
      BY <1>0
    <3> QED BY <1>0, <2>1, <3>1, <3>2
  <2>3. PICK b \in Nat : b = begin(i) /\ b = IF off >= low THEN off ELSE low
    <3>1. begin(i) = Max({off, low})
      BY <2>2
    <3>2. off \in Int /\ low \in Int
      OBVIOUS
    <3>3. Max({off, low}) = IF off >= low THEN off ELSE low
      BY <3>2, MinMax, Zenon
    <3> HIDE DEF begin
    <3> QED BY <3>1, <3>3
  <2>4. PICK n \in Nat : n = end(i) /\ n = IF e + 1 <= high THEN e + 1 ELSE high
    <3>1. PICK o \in Nat : o = off + size /\ o = e + 1
      BY <1>2
    <3>2. o \in Int /\ high \in Int
      OBVIOUS
    <3>3. Min({o, high}) = IF o <= high THEN o ELSE high
      BY <3>2, MinMax, Zenon
    <3>4. end(i) = Min({o, high})
      BY <2>2, <3>1
    <3> HIDE DEF end
    <3> QED BY <3>1, <3>3, <3>4
  <2> HIDE DEF begin, end
  <2>5. part(i) = [req |-> r, off |-> b, size |-> n - b]
    BY <2>3, <2>4
  <2>6. PartPages(part(i)) = b .. n - 1 /\ part(i).req = r
    <3>1. b + (n - b) - 1 = n - 1
      OBVIOUS
    <3> QED BY <2>5, <3>1 DEF PartPages, Pages
  <2>7. Pages(off, size) = off .. e
    BY <1>2 DEF Pages
  <2>8. \A j \in b .. n - 1 : j \in off .. e /\ low <= j /\ j < high
    BY <1>2, <2>3, <2>4
  <2>9. \A j \in off .. e : low <= j /\ j < high => j \in b .. n - 1
    BY <1>2, <2>3, <2>4
  <2>10. ASSUME NEW j \in off .. e PROVE BlockIdx(j) = k <=> low <= j /\ j < high
    <3>1. PICK q \in Nat, x \in Nat : BlockIdx(j) = q /\ x < S /\ j = S * q + x
      BY <1>8, <2>7, <2>10
    <3>2. ASSUME low <= j, j < high PROVE q = k
      <4>1. PICK y \in Nat : y = j - low /\ y < S /\ j = S * k + y
        BY <1>0, <2>2, <3>1, <3>2
      <4>2. (S * k + y) \div S = k
        BY <1>0, <4>1, DivUnique
      <4> QED BY <3>1, <4>1, <4>2 DEF BlockIdx
    <3>3. ASSUME q = k PROVE low <= j /\ j < high
      BY <1>0, <2>2, <3>1, <3>3
    <3> QED BY <3>1, <3>2, <3>3
  <2>11. b .. n - 1 = {j \in off .. e : BlockIdx(j) = k}
    BY <2>8, <2>9, <2>10
  <2> QED BY <2>1, <2>6, <2>7, <2>11
<1> HIDE DEF part
<1>11. Len(Split(r, off, size)) = num /\ \A i \in 1 .. num : Split(r, off, size)[i] = part(i)
  BY <1>7
<1>12. \A i \in 1 .. num : /\ Split(r, off, size)[i].req = r
                           /\ PartPages(Split(r, off, size)[i]) = {j \in Pages(off, size) : BlockIdx(j) = first + i - 1}
  BY <1>10, <1>11
<1>13. SplitInto(Split(r, off, size), r, off, size, first, last, num)
  BY <1>5, <1>6, <1>9, <1>11, <1>12 DEF SplitInto
<1> QED BY <1>5, <1>6, <1>13

\* The parts of a request have its pages, each in one of them.
LEMMA SplitParts ==
    ASSUME NEW r \in Req, NEW off \in Nat, NEW size \in Nat \ {0}, off + size <= FilePages
    PROVE  LET s == Split(r, off, size)
           IN  /\ s \in Seq(GoodPart) /\ s \in Seq(Part) /\ Single(s) /\ \A p \in ToSet(s) : p.req = r
               /\ \A p, q \in ToSet(s) : p # q => PartPages(p) \cap PartPages(q) = {}
               /\ Of(r, ToSet(s)) = Pages(off, size)
               /\ BlockIdx(off) = BlockIdx(off + size - 1) => \A p \in ToSet(s) : PartPages(p) = Pages(off, size)
<1>1. PICK s : s = Split(r, off, size)
  OBVIOUS
<1>2. s \in Seq(GoodPart) /\ s \in Seq(Part)
  <2>1. s \in Seq(GoodPart)
    BY <1>1, SplitType
  <2>2. GoodPart \subseteq Part
    BY DEF GoodPart
  <2> QED BY <2>1, <2>2
<1>d. PICK first \in Nat, last \in Nat, num \in Nat : SplitInto(s, r, off, size, first, last, num)
  <2>1. \E first, last, num \in Nat : SplitInto(Split(r, off, size), r, off, size, first, last, num)
    BY ONLY r \in Req, off \in Nat, size \in Nat \ {0}, off + size <= FilePages, SplitPages
  <2> QED BY ONLY <1>1, <2>1
<1>3. /\ first = BlockIdx(off) /\ last = BlockIdx(off + size - 1) /\ num = last - first + 1 /\ Len(s) = num
      /\ \A j \in Pages(off, size) : BlockIdx(j) \in first .. last
      /\ \A i \in 1 .. num : s[i].req = r /\ PartPages(s[i]) = {j \in Pages(off, size) : BlockIdx(j) = first + i - 1}
  BY ONLY <1>d DEF SplitInto
<1>c. num = last - first + 1
  BY <1>3, Zenon
<1>a. DOMAIN s = 1 .. num /\ \A i \in 1 .. num : s[i] \in Part
  BY <1>2, <1>3
<1>4. ToSet(s) = {s[i] : i \in 1 .. num}
  BY <1>a, Zenon DEF ToSet
<1>b. ASSUME NEW i \in 1 .. num, NEW j
      PROVE  j \in PartPages(s[i]) <=> j \in Pages(off, size) /\ BlockIdx(j) = first + i - 1
  BY <1>3, Zenon
<1>5. \A i, k \in 1 .. num : i # k => PartPages(s[i]) \cap PartPages(s[k]) = {}
  <2> SUFFICES ASSUME NEW i \in 1 .. num, NEW k \in 1 .. num, NEW j \in PartPages(s[i]), j \in PartPages(s[k]) PROVE i = k
    OBVIOUS
  <2>1. first + i - 1 = first + k - 1
    BY <1>b, Zenon
  <2> QED BY <2>1
<1>6. \A i \in 1 .. num : PartPages(s[i]) # {}
  <2> TAKE i \in 1 .. num
  <2>1. s[i] \in Part
    BY <1>a
  <2> QED BY <2>1, PartCount
<1>7. Single(s)
  BY <1>3, <1>5, <1>6 DEF Single
<1>8. \A p, q \in ToSet(s) : p # q => PartPages(p) \cap PartPages(q) = {}
  BY <1>4, <1>5
<1>9. Of(r, ToSet(s)) = Pages(off, size)
  <2>1. ASSUME NEW j \in Pages(off, size) PROVE j \in Of(r, ToSet(s))
    <3>1. PICK q \in first .. last : q = BlockIdx(j)
      BY <1>3, <2>1
    <3>2. q - first + 1 \in 1 .. num /\ first + (q - first + 1) - 1 = q
      BY ONLY <1>c, first \in Nat, last \in Nat, num \in Nat, q \in first .. last
    <3>3. PICK i \in 1 .. num : first + i - 1 = q
      BY <3>2
    <3>4. s[i] \in ToSet(s) /\ s[i].req = r /\ j \in PartPages(s[i])
      BY <1>3, <1>4, <1>b, <2>1, <3>1, <3>3, Zenon
    <3> QED BY <3>4, OfIn
  <2>2. ASSUME NEW j \in Of(r, ToSet(s)) PROVE j \in Pages(off, size)
    <3>1. PICK p \in ToSet(s) : j \in PartPages(p)
      BY <2>2, OfIn
    <3> QED BY <1>4, <1>b, <3>1, Zenon
  <2> QED BY <2>1, <2>2
<1>10. ASSUME first = last PROVE \A i \in 1 .. num : PartPages(s[i]) = Pages(off, size)
  <2> TAKE i \in 1 .. num
  <2>1. i = 1 /\ first + i - 1 = first
    BY ONLY <1>c, <1>10, first \in Nat, num \in Nat, i \in 1 .. num
  <2>2. \A j \in Pages(off, size) : BlockIdx(j) = first
    BY <1>3, <1>10
  <2>3. \A j : j \in PartPages(s[i]) <=> j \in Pages(off, size)
    BY <1>b, <2>1, <2>2, Zenon
  <2> QED BY <2>3
<1>11. \A p \in ToSet(s) : p.req = r
  BY <1>3, <1>4, Zenon
<1>12. BlockIdx(off) = BlockIdx(off + size - 1) => \A p \in ToSet(s) : PartPages(p) = Pages(off, size)
  BY <1>3, <1>4, <1>10, Zenon
<1> QED BY ONLY <1>1, <1>2, <1>7, <1>8, <1>9, <1>11, <1>12, Zenon

-------------------------------------------------------------------------------
(* Places                                                                  *)

\* A part knows its thread and its disk.
LEMMA PartHome == ASSUME NEW p \in Part
                  PROVE p.req \in Req /\ p.req[1] \in App /\ DiskOf(p) \in Stripe /\ p.req \in Req
<1>1. p.req \in Req /\ p.off \in Nat
  BY PartCount
<1>2. \A r \in Req : r[1] \in App
  BY DEF Req
<1>3. Map(Mapping, p.off).idx = Map2File(Mapping, p.off) /\ Map(Mapping, p.off) \in [idx : Stripe, off : Nat]
  BY <1>1, MapFindsTheFile, DiskIOAssumption
<1> QED BY <1>1, <1>2, <1>3 DEF DiskOf

\* The elements of a sequence of parts.
LEMMA SetOfSeq == ASSUME NEW S, NEW s \in Seq(S) PROVE ToSet(s) \subseteq S /\ (s # <<>> <=> ToSet(s) # {})
<1>1. DOMAIN s = 1 .. Len(s) /\ Len(s) \in Nat /\ \A i \in 1 .. Len(s) : s[i] \in S
  OBVIOUS
<1>2. ToSet(s) = {s[i] : i \in 1 .. Len(s)}
  BY <1>1 DEF ToSet
<1>3. s # <<>> => 1 \in 1 .. Len(s)
  BY <1>1
<1>4. s = <<>> => ToSet(s) = {}
  BY <1>2
<1> QED BY <1>1, <1>2, <1>3, <1>4

\* What the types say of the parts in the places.
LEMMA PlaceTypes ==
    ASSUME IInv
    PROVE  /\ \A a \in App : /\ app[a].complete \in Seq(Part) /\ app[a].calls \in Seq(Req)
                             /\ \A d \in Stripe : app[a].senders[d] \in Seq(PartAt(d))
           /\ \A d \in Stripe : /\ io[d].queue \in Seq(PartAt(d)) /\ io[d].local \in Seq(PartAt(d))
                                /\ io[d].finished \in Seq(PartAt(d)) /\ io[d].tcbs \in Seq(PartAt(d))
                                /\ io[d].kernel \subseteq PartAt(d)
           /\ ct.queue \in Seq(Part) /\ ct.tcbs \in Seq(Part)
<1>1. \A a \in App : AppOK(app[a])
  BY DEF IInv, AppsOK
<1>2. \A d \in Stripe : io[d] \in IORec(d)
  BY DEF IInv, IOsOK, IOOK
<1>3. ct \in CTRec
  BY DEF IInv, CTOK
<1>4. ASSUME NEW a \in App
      PROVE app[a].complete \in Seq(Part) /\ app[a].calls \in Seq(Req) /\ \A d \in Stripe : app[a].senders[d] \in Seq(PartAt(d))
  BY <1>1 DEF AppOK, AppRec
<1>5. ASSUME NEW d \in Stripe
      PROVE  /\ io[d].queue \in Seq(PartAt(d)) /\ io[d].local \in Seq(PartAt(d)) /\ io[d].finished \in Seq(PartAt(d))
             /\ io[d].tcbs \in Seq(PartAt(d)) /\ io[d].kernel \subseteq PartAt(d)
  BY <1>2 DEF IORec
<1>6. ct.queue \in Seq(Part) /\ ct.tcbs \in Seq(Part)
  BY <1>3 DEF CTRec
<1> QED BY <1>4, <1>5, <1>6

\* The parts of a disk are parts, and theirs is that disk.
LEMMA PartAtPart == ASSUME NEW d PROVE PartAt(d) \subseteq Part /\ \A p \in PartAt(d) : DiskOf(p) = d
BY DEF PartAt, GoodPart

\* The same, by sets.
LEMMA PlaceSets ==
    ASSUME IInv
    PROVE  /\ \A a \in App : /\ ToSet(app[a].complete) \subseteq Part /\ ToSet(app[a].calls) \subseteq Req
                             /\ \A d \in Stripe : ToSet(app[a].senders[d]) \subseteq PartAt(d)
           /\ \A d \in Stripe : /\ ToSet(io[d].queue) \subseteq PartAt(d) /\ ToSet(io[d].local) \subseteq PartAt(d)
                                /\ ToSet(io[d].finished) \subseteq PartAt(d) /\ ToSet(io[d].tcbs) \subseteq PartAt(d)
                                /\ io[d].kernel \subseteq PartAt(d)
           /\ ToSet(ct.queue) \subseteq Part /\ ToSet(ct.tcbs) \subseteq Part
<1>1. ASSUME NEW a \in App
      PROVE /\ ToSet(app[a].complete) \subseteq Part /\ ToSet(app[a].calls) \subseteq Req
            /\ \A d \in Stripe : ToSet(app[a].senders[d]) \subseteq PartAt(d)
  BY PlaceTypes, SetOfSeq
<1>2. ASSUME NEW d \in Stripe
      PROVE /\ ToSet(io[d].queue) \subseteq PartAt(d) /\ ToSet(io[d].local) \subseteq PartAt(d)
            /\ ToSet(io[d].finished) \subseteq PartAt(d) /\ ToSet(io[d].tcbs) \subseteq PartAt(d)
            /\ io[d].kernel \subseteq PartAt(d)
  BY PlaceTypes, SetOfSeq
<1>3. ToSet(ct.queue) \subseteq Part /\ ToSet(ct.tcbs) \subseteq Part
  BY PlaceTypes, SetOfSeq
<1> QED BY <1>1, <1>2, <1>3

\* What changes when the record of one I/O thread changes.
LEMMA IOBoxes ==
    ASSUME IInv, IInv', NEW d \in Stripe, \A e \in Stripe \ {d} : io'[e] = io[e]
    PROVE  /\ InQueue' = (InQueue \ ToSet(io[d].queue)) \cup ToSet(io'[d].queue) /\ ToSet(io[d].queue) \subseteq InQueue
           /\ InLocal' = (InLocal \ ToSet(io[d].local)) \cup ToSet(io'[d].local) /\ ToSet(io[d].local) \subseteq InLocal
           /\ InKernel' = (InKernel \ io[d].kernel) \cup io'[d].kernel /\ io[d].kernel \subseteq InKernel
           /\ InFinished' = (InFinished \ ToSet(io[d].finished)) \cup ToSet(io'[d].finished)
           /\ ToSet(io[d].finished) \subseteq InFinished
           /\ InTcbs' = (InTcbs \ ToSet(io[d].tcbs)) \cup ToSet(io'[d].tcbs) /\ ToSet(io[d].tcbs) \subseteq InTcbs
<1>1. /\ ToSet(io[d].queue) \subseteq PartAt(d) /\ ToSet(io[d].local) \subseteq PartAt(d)
      /\ ToSet(io[d].finished) \subseteq PartAt(d) /\ ToSet(io[d].tcbs) \subseteq PartAt(d) /\ io[d].kernel \subseteq PartAt(d)
  BY PlaceSets
<1>2. /\ ToSet(io'[d].queue) \subseteq PartAt(d) /\ ToSet(io'[d].local) \subseteq PartAt(d)
      /\ ToSet(io'[d].finished) \subseteq PartAt(d) /\ ToSet(io'[d].tcbs) \subseteq PartAt(d) /\ io'[d].kernel \subseteq PartAt(d)
  <2>1. io'[d] \in IORec(d)
    BY DEF IInv, IOsOK, IOOK
  <2>2. /\ io'[d].queue \in Seq(PartAt(d)) /\ io'[d].local \in Seq(PartAt(d)) /\ io'[d].finished \in Seq(PartAt(d))
        /\ io'[d].tcbs \in Seq(PartAt(d)) /\ io'[d].kernel \subseteq PartAt(d)
    BY <2>1 DEF IORec
  <2> QED BY <2>2, SetOfSeq
<1>3. PartAt(d) \subseteq Part /\ \A p \in PartAt(d) : DiskOf(p) = d
  BY PartAtPart
<1>4. \A p \in Part : DiskOf(p) \in Stripe
  BY PartHome
<1>5. \A p \in Part : DiskOf(p) # d => io'[DiskOf(p)] = io[DiskOf(p)]
  BY <1>4
<1>6. InQueue' = (InQueue \ ToSet(io[d].queue)) \cup ToSet(io'[d].queue) /\ ToSet(io[d].queue) \subseteq InQueue
  BY <1>1, <1>2, <1>3, <1>5 DEF InQueue
<1>7. InLocal' = (InLocal \ ToSet(io[d].local)) \cup ToSet(io'[d].local) /\ ToSet(io[d].local) \subseteq InLocal
  BY <1>1, <1>2, <1>3, <1>5 DEF InLocal
<1>8. InKernel' = (InKernel \ io[d].kernel) \cup io'[d].kernel /\ io[d].kernel \subseteq InKernel
  BY <1>1, <1>2, <1>3, <1>5 DEF InKernel
<1>9. InFinished' = (InFinished \ ToSet(io[d].finished)) \cup ToSet(io'[d].finished) /\ ToSet(io[d].finished) \subseteq InFinished
  BY <1>1, <1>2, <1>3, <1>5 DEF InFinished
<1>10. InTcbs' = (InTcbs \ ToSet(io[d].tcbs)) \cup ToSet(io'[d].tcbs) /\ ToSet(io[d].tcbs) \subseteq InTcbs
  BY <1>1, <1>2, <1>3, <1>5 DEF InTcbs
<1> QED BY <1>6, <1>7, <1>8, <1>9, <1>10

\* What changes when the queue or the list of the completion thread changes.
LEMMA CTBoxes ==
    ASSUME IInv, IInv'
    PROVE  /\ InCTQueue = ToSet(ct.queue) /\ InCTTcbs = ToSet(ct.tcbs)
           /\ InCTQueue' = ToSet(ct'.queue) /\ InCTTcbs' = ToSet(ct'.tcbs)
<1>1. ct \in CTRec /\ ct' \in CTRec
  BY DEF IInv, CTOK
<1>2. ct.queue \in Seq(Part) /\ ct.tcbs \in Seq(Part) /\ ct'.queue \in Seq(Part) /\ ct'.tcbs \in Seq(Part)
  BY <1>1 DEF CTRec
<1>3. ToSet(ct.queue) \subseteq Part /\ ToSet(ct.tcbs) \subseteq Part /\ ToSet(ct'.queue) \subseteq Part /\ ToSet(ct'.tcbs) \subseteq Part
  BY <1>2, SetOfSeq
<1> QED BY <1>3 DEF InCTQueue, InCTTcbs

\* What changes when the record of one application thread changes.
LEMMA AppBoxes ==
    ASSUME IInv, IInv', NEW a \in App, \A b \in App \ {a} : app'[b] = app[b], AppBook(a, app[a]), AppBook(a, app'[a])
    PROVE  /\ InComplete' = (InComplete \ ToSet(app[a].complete)) \cup ToSet(app'[a].complete)
           /\ ToSet(app[a].complete) \subseteq InComplete
           /\ \A p \in Part : p.req[1] # a => (p \in InSender' <=> p \in InSender)
           /\ \A p \in Part : p.req[1] = a => /\ p \in InSender <=> p \in ToSet(app[a].senders[DiskOf(p)])
                                              /\ p \in InSender' <=> p \in ToSet(app'[a].senders[DiskOf(p)])
<1>1. app[a].complete \in Seq(Part) /\ app'[a].complete \in Seq(Part)
  BY DEF IInv, AppsOK, AppOK, AppRec
<1>2. ToSet(app[a].complete) \subseteq Part /\ ToSet(app'[a].complete) \subseteq Part
  BY <1>1, SetOfSeq
<1>3. (\A p \in ToSet(app[a].complete) : p.req[1] = a) /\ \A p \in ToSet(app'[a].complete) : p.req[1] = a
  BY DEF AppBook
<1>4. \A p \in Part : p.req[1] \in App
  BY PartHome
<1>5. \A p \in Part : p.req[1] # a => app'[p.req[1]] = app[p.req[1]]
  BY <1>4
<1>6. InComplete' = (InComplete \ ToSet(app[a].complete)) \cup ToSet(app'[a].complete) /\ ToSet(app[a].complete) \subseteq InComplete
  BY <1>2, <1>3, <1>5 DEF InComplete
<1>7. \A p \in Part : p.req[1] # a => (p \in InSender' <=> p \in InSender)
  BY <1>5 DEF InSender
<1>8. \A p \in Part : p.req[1] = a => /\ p \in InSender <=> p \in ToSet(app[a].senders[DiskOf(p)])
                                      /\ p \in InSender' <=> p \in ToSet(app'[a].senders[DiskOf(p)])
  BY DEF InSender
<1> QED BY <1>6, <1>7, <1>8

\* A place by its number.
LEMMA BoxAt ==
    /\ Boxes[1] = InSender /\ Boxes[2] = InQueue /\ Boxes[3] = InLocal /\ Boxes[4] = InKernel /\ Boxes[5] = InFinished
    /\ Boxes[6] = InTcbs /\ Boxes[7] = InCTQueue /\ Boxes[8] = InCTTcbs /\ Boxes[9] = InComplete
    /\ Boxes'[1] = InSender' /\ Boxes'[2] = InQueue' /\ Boxes'[3] = InLocal' /\ Boxes'[4] = InKernel' /\ Boxes'[5] = InFinished'
    /\ Boxes'[6] = InTcbs' /\ Boxes'[7] = InCTQueue' /\ Boxes'[8] = InCTTcbs' /\ Boxes'[9] = InComplete'
BY DEF Boxes

\* Numbers of places.
LEMMA Nine == ASSUME NEW i \in 1 .. 9
              PROVE i = 1 \/ i = 2 \/ i = 3 \/ i = 4 \/ i = 5 \/ i = 6 \/ i = 7 \/ i = 8 \/ i = 9
OBVIOUS

\* Parts X and Y go from place i to places j and k.
MoveOf(B, C, i, j, k, X, Y) ==
    /\ {i, j, k} \subseteq 1 .. 9 /\ i # j /\ i # k /\ j # k
    /\ X \cup Y \subseteq B[i] /\ X \cap Y = {}
    /\ C[i] = B[i] \ (X \cup Y) /\ C[j] = B[j] \cup X /\ C[k] = B[k] \cup Y
    /\ \A l \in 1 .. 9 : l # i /\ l # j /\ l # k => C[l] = B[l]

\* Then the places are still apart, and what is in them is the same.
LEMMA Moved ==
    ASSUME NEW B, NEW C, NEW i, NEW j, NEW k, NEW X, NEW Y, Disjoint(B), MoveOf(B, C, i, j, k, X, Y)
    PROVE  /\ Disjoint(C) /\ All(C) = All(B)
           /\ {i, j, k} \subseteq 1 .. 4 \/ {i, j, k} \cap (1 .. 4) = {} => First4(C) = First4(B)
<1> USE DEF MoveOf
<1>0. i \in 1 .. 9 /\ j \in 1 .. 9 /\ k \in 1 .. 9 /\ i # j /\ i # k /\ j # k
  OBVIOUS
<1>1. \A m, n \in 1 .. 9 : \A x : x \in B[m] /\ x \in B[n] => m = n
  BY DEF Disjoint
<1>2. ASSUME NEW l \in 1 .. 9, NEW x
      PROVE  x \in C[l] <=> \/ x \in B[l] /\ ~(l = i /\ x \in X \cup Y)
                            \/ l = j /\ x \in X
                            \/ l = k /\ x \in Y
  <2>1. l = i \/ l = j \/ l = k \/ (l # i /\ l # j /\ l # k)
    OBVIOUS
  <2> QED BY <2>1
<1> HIDE DEF MoveOf
<1>a. X \cup Y \subseteq B[i] /\ X \cap Y = {}
  BY DEF MoveOf
<1>3. Disjoint(C)
  <2> SUFFICES ASSUME NEW m \in 1 .. 9, NEW n \in 1 .. 9, NEW x, x \in C[m], x \in C[n] PROVE m = n
    BY DEF Disjoint
  <2>1. CASE x \in X
    <3>1. x \in B[i] /\ x \notin Y
      BY <1>a, <2>1
    <3>2. ASSUME NEW l \in 1 .. 9, x \in C[l] PROVE l = j
      BY <1>0, <1>1, <1>2, <2>1, <3>1, <3>2
    <3> QED BY <3>2
  <2>2. CASE x \in Y
    <3>1. x \in B[i] /\ x \notin X
      BY <1>a, <2>2
    <3>2. ASSUME NEW l \in 1 .. 9, x \in C[l] PROVE l = k
      BY <1>0, <1>1, <1>2, <2>2, <3>1, <3>2
    <3> QED BY <3>2
  <2>3. CASE x \notin X /\ x \notin Y
    <3>1. x \in B[m] /\ x \in B[n]
      BY <1>2, <2>3
    <3> QED BY <1>1, <3>1
  <2> QED BY <2>1, <2>2, <2>3
<1>4. ASSUME NEW x, NEW l \in 1 .. 9, x \in C[l] PROVE x \in B[l] \/ x \in B[i]
  BY <1>a, <1>2, <1>4
<1>5. ASSUME NEW x, NEW l \in 1 .. 9, x \in B[l] PROVE x \in C[l] \/ (l = i /\ (x \in C[j] \/ x \in C[k]))
  BY <1>0, <1>2, <1>5
<1>6. All(C) = All(B)
  BY <1>0, <1>4, <1>5 DEF All
<1>7. \A l \in 1 .. 4 : l \in 1 .. 9
  OBVIOUS
<1>8. ASSUME {i, j, k} \subseteq 1 .. 4 PROVE First4(C) = First4(B)
  BY <1>4, <1>5, <1>7, <1>8 DEF First4
<1>9. ASSUME {i, j, k} \cap (1 .. 4) = {} PROVE First4(C) = First4(B)
  <2>1. \A l \in 1 .. 4 : C[l] = B[l]
    BY <1>7, <1>9 DEF MoveOf
  <2> QED BY <2>1 DEF First4
<1> QED BY <1>3, <1>6, <1>8, <1>9

\* Every part that is under way is a part, and the early ones are under way.
LEMMA UnderParts == Under \subseteq Part /\ Early \subseteq Under
<1>1. \A i \in 1 .. 9 : Boxes[i] \subseteq Part
  BY Nine, BoxAt DEF InSender, InQueue, InLocal, InKernel, InFinished, InTcbs, InCTQueue, InCTTcbs, InComplete
<1>2. \A l \in 1 .. 4 : l \in 1 .. 9
  OBVIOUS
<1> QED BY <1>1, <1>2 DEF Under, Early, All, First4

-------------------------------------------------------------------------------
(* Steps that move no part                                                 *)

\* The places are what they are made of.
LEMMA SameBoxes ==
    ASSUME \A a \in App : app'[a].senders = app[a].senders /\ app'[a].complete = app[a].complete,
           \A d \in Stripe : /\ io'[d].queue = io[d].queue /\ io'[d].local = io[d].local /\ io'[d].kernel = io[d].kernel
                             /\ io'[d].finished = io[d].finished /\ io'[d].tcbs = io[d].tcbs,
           ct'.queue = ct.queue, ct'.tcbs = ct.tcbs
    PROVE  Boxes' = Boxes
<1>1. \A p \in Part : p.req[1] \in App /\ DiskOf(p) \in Stripe
  BY PartHome
<1>2. InSender' = InSender /\ InComplete' = InComplete
  BY <1>1 DEF InSender, InComplete
<1>3. InQueue' = InQueue /\ InLocal' = InLocal
  BY <1>1 DEF InQueue, InLocal
<1>4. InKernel' = InKernel /\ InFinished' = InFinished
  BY <1>1 DEF InKernel, InFinished
<1>5. InTcbs' = InTcbs /\ InCTQueue' = InCTQueue /\ InCTTcbs' = InCTTcbs
  BY <1>1 DEF InTcbs, InCTQueue, InCTTcbs
<1> QED BY <1>2, <1>3, <1>4, <1>5 DEF Boxes

\* Requests are kept as long as the same parts are under way.
LEMMA BooksKept ==
    ASSUME Books, Disjoint(Boxes'), Under' = Under, Early' = Early, rq' = rq,
           \A a \in App : AppBook(a, app'[a]) /\ CountBook(a, app'[a], rq, Under) /\ FileApp(file', app'[a]),
           \A d \in Stripe : IOBook(io'[d]) /\ FileIO(file', d, io'[d]),
           CTBook(ct'), file'.pc = "opened" => file'.op = "open"
    PROVE  Books'
<1>1. (\A a \in App : AppBook(a, app[a]) /\ CountBook(a, app[a], rq, Under) /\ FileApp(file, app[a]))'
  OBVIOUS
<1>2. (Apart(Under) /\ DOMAIN rq = Req /\ \A r \in Req : RqBook(r, rq[r], Under, Early))'
  BY DEF Books
<1> QED BY <1>1, <1>2 DEF Books

\* What an I/O thread keeps when it is activated.
KeptIO(x, y) ==
    /\ y.pc = x.pc /\ y.ret = x.ret /\ y.queue = x.queue /\ y.local = x.local /\ y.kernel = x.kernel
    /\ y.finished = x.finished /\ y.tcbs = x.tcbs /\ y.comm = x.comm /\ y.open = x.open

\* An I/O thread that is activated keeps its books.
LEMMA KeptIOBook == ASSUME NEW x, NEW y, KeptIO(x, y), IOBook(x), NEW d, NEW f, FileIO(f, d, x)
                    PROVE IOBook(y) /\ FileIO(f, d, y)
<1>1. IOBook(y)
  BY DEF KeptIO, IOBook
<1>2. FileIO(f, d, y)
  BY DEF KeptIO, FileIO
<1> QED BY <1>1, <1>2

\* A step of an application thread that moves no part.
LEMMA AppQuiet ==
    ASSUME Books, NEW a \in App, \A b \in App \ {a} : app'[b] = app[b],
           AppBook(a, app'[a]), CountBook(a, app'[a], rq, Under), FileApp(file, app'[a]),
           app'[a].senders = app[a].senders, app'[a].complete = app[a].complete,
           UNCHANGED <<file, rq, ct>>, \A d \in Stripe : KeptIO(io[d], io'[d])
    PROVE  Books'
<1>1. Boxes' = Boxes
  <2>1. \A b \in App : app'[b].senders = app[b].senders /\ app'[b].complete = app[b].complete
    OBVIOUS
  <2>2. \A d \in Stripe : /\ io'[d].queue = io[d].queue /\ io'[d].local = io[d].local /\ io'[d].kernel = io[d].kernel
                          /\ io'[d].finished = io[d].finished /\ io'[d].tcbs = io[d].tcbs
    BY DEF KeptIO
  <2> QED BY <2>1, <2>2, SameBoxes
<1>2. Disjoint(Boxes') /\ Under' = Under /\ Early' = Early
  BY <1>1 DEF Books, Under, Early
<1>3. \A b \in App : AppBook(b, app'[b]) /\ CountBook(b, app'[b], rq, Under) /\ FileApp(file', app'[b])
  <2> TAKE b \in App
  <2>1. CASE b = a
    BY <2>1
  <2>2. CASE b # a
    BY <2>2 DEF Books
  <2> QED BY <2>1, <2>2
<1>4. \A d \in Stripe : IOBook(io'[d]) /\ FileIO(file', d, io'[d])
  BY KeptIOBook DEF Books
<1>5. CTBook(ct') /\ (file'.pc = "opened" => file'.op = "open")
  BY DEF Books
<1> QED BY <1>2, <1>3, <1>4, <1>5, BooksKept

\* The counters, where they do not change.
LEMMA CountSame ==
    ASSUME NEW a, NEW x, NEW y, NEW q, NEW U, CountBook(a, x, q, U), y.issued = x.issued, y.completed = x.completed,
           y.batch = x.batch, y.calls = x.calls, y.pc \in {"none", "drain", "destroyed"} => Open(a, q) = {}
    PROVE  CountBook(a, y, q, U)
BY DEF CountBook

\* The requests of a thread are finitely many.
LEMMA OpenFinite == ASSUME NEW a \in App, NEW q
                    PROVE IsFiniteSet(Open(a, q)) /\ Cardinality(Open(a, q)) \in Nat /\ (Cardinality(Open(a, q)) = 0 <=> Open(a, q) = {})
<1>1. PICK n \in Nat : n = MaxReqs[a]
  BY DiskIOAssumption
<1>2. IsFiniteSet(1 .. n)
  BY IntervalCard
<1>3. IsFiniteSet({a} \X (1 .. n))
  BY <1>2, FS_Singleton, FS_Product
<1>4. Open(a, q) \subseteq {a} \X (1 .. n)
  <2> SUFFICES ASSUME NEW r \in Req, r[1] = a PROVE r \in {a} \X (1 .. n)
    BY DEF Open
  <2>1. PICK b \in App : r \in {b} \X (1 .. MaxReqs[b])
    BY DEF Req
  <2>2. b = a
    BY <2>1
  <2> QED BY <1>1, <2>1, <2>2
<1>5. IsFiniteSet(Open(a, q))
  BY <1>3, <1>4, FS_Subset
<1> QED BY <1>5, FS_CardinalityType, FS_EmptySet

\* The record of a thread, which has the fields it has.
LEMMA AppNow == ASSUME IInv, Books, NEW a \in App
                PROVE  /\ DOMAIN app = App /\ app[a] \in AppRec(app[a])
                       /\ AppBook(a, app[a]) /\ CountBook(a, app[a], rq, Under) /\ FileApp(file, app[a])
BY DEF IInv, AppsOK, AppOK, Books

\* A thread that has an instance has an open file.
LEMMA Instance == ASSUME IInv, Books, NEW a \in App, app[a].pc \notin {"none", "destroyed"}
                  PROVE file.pc = "opened" /\ file.op = "open" /\ \A d \in Stripe : io[d].open
<1>1. file \in FileRec /\ FileApp(file, app[a])
  BY DEF IInv, Books
<1>2. file.pc = "opened" /\ file.op = "open"
  BY <1>1 DEF FileApp, FileRec
<1> QED BY <1>2 DEF Books, FileIO

\* create_io.
LEMMA CreateIOBook == ASSUME IInv, Books, NEW a \in App, CreateIO(a) PROVE Books'
<1>1. PICK x : x = app[a] /\ x \in AppRec(x) /\ x.pc = "none" /\ AppBook(a, x) /\ CountBook(a, x, rq, Under)
  BY AppNow DEF CreateIO
<1>2. PICK y : y = app'[a] /\ y = [x EXCEPT !.pc = "idle"] /\ \A b \in App \ {a} : app'[b] = app[b]
  BY <1>1, AppNow DEF CreateIO
<1>3. /\ y.pc = "idle" /\ y.senders = x.senders /\ y.complete = x.complete /\ y.calls = x.calls /\ y.batch = x.batch
      /\ y.mode = x.mode /\ y.issued = x.issued /\ y.completed = x.completed
  BY <1>1, <1>2 DEF AppRec
<1>4. AppBook(a, y)
  BY <1>1, <1>3 DEF AppBook
<1>5. CountBook(a, y, rq, Under)
  BY <1>1, <1>3, CountSame
<1>6. FileApp(file, y)
  BY <1>3 DEF CreateIO, FileApp, Books
<1>7. UNCHANGED <<file, rq, ct>> /\ \A d \in Stripe : KeptIO(io[d], io'[d])
  BY DEF CreateIO, KeptIO
<1>8. /\ AppBook(a, app'[a]) /\ CountBook(a, app'[a], rq, Under) /\ FileApp(file, app'[a])
      /\ app'[a].senders = app[a].senders /\ app'[a].complete = app[a].complete /\ \A b \in App \ {a} : app'[b] = app[b]
  BY <1>1, <1>2, <1>3, <1>4, <1>5, <1>6, Zenon
<1> QED BY ONLY a \in App, Books, <1>7, <1>8, AppQuiet

\* A thread that goes on with its instance.
LEMMA GoesOn == ASSUME IInv, Books, NEW a \in App, app[a].pc \notin {"none", "destroyed"}, NEW y,
                       y.pc \notin {"none", "destroyed"}
                PROVE FileApp(file, y)
BY Instance DEF FileApp

\* A flush request.
LEMMA FlushRequestBook == ASSUME IInv, Books, NEW a \in App, FlushRequest(a) PROVE Books'
<1>1. PICK x : x = app[a] /\ x \in AppRec(x) /\ x.pc = "idle" /\ AppBook(a, x) /\ CountBook(a, x, rq, Under)
  BY AppNow DEF FlushRequest
<1>a. PICK pc \in {"flush", "idle"} : pc = FlushOr(x.senders, "idle")
  BY FlushOrForm
<1>2. PICK y : /\ y = app'[a] /\ \A b \in App \ {a} : app'[b] = app[b]
               /\ y = [x EXCEPT !.issued = x.issued + 1, !.completed = x.completed + 1, !.pc = pc, !.ret = "idle"]
  BY <1>1, <1>a, AppNow DEF FlushRequest
<1>3. /\ y.pc = pc /\ y.senders = x.senders /\ y.complete = x.complete /\ y.calls = x.calls /\ y.batch = x.batch
      /\ y.mode = x.mode /\ y.issued = x.issued + 1 /\ y.completed = x.completed + 1
  BY <1>1, <1>2 DEF AppRec
<1>4. AppBook(a, y)
  BY <1>1, <1>3 DEF AppBook
<1>5. CountBook(a, y, rq, Under)
  <2>1. x.issued \in 0 .. MaxReqs[a] /\ MaxReqs[a] \in Nat /\ x.completed \in Nat
    BY <1>1, DiskIOAssumption DEF CountBook
  <2>2. x.issued < MaxReqs[a]
    <3>1. MaxDirect \in Int /\ MaxReqs[a] \in Int /\ x.issued < Min({MaxDirect, MaxReqs[a]})
      BY <1>1, <2>1, DiskIOAssumption DEF FlushRequest
    <3>2. Min({MaxDirect, MaxReqs[a]}) <= MaxReqs[a] /\ Min({MaxDirect, MaxReqs[a]}) \in Int
      BY <3>1, MinMax
    <3> QED BY <2>1, <3>1, <3>2
  <2>3. y.issued \in 0 .. MaxReqs[a] /\ y.completed \in Nat /\ y.issued - y.completed = x.issued - x.completed
    BY <1>3, <2>1, <2>2
  <2>4. \A i \in y.issued + 1 .. MaxReqs[a] : i \in x.issued + 1 .. MaxReqs[a]
    BY <1>3, <2>1
  <2>5. y.pc \notin {"none", "drain", "destroyed"}
    BY <1>3
  <2> QED BY <1>1, <1>3, <2>3, <2>4, <2>5 DEF CountBook
<1>6. FileApp(file, y)
  BY <1>1, <1>3, GoesOn
<1>7. UNCHANGED <<file, rq, ct>> /\ \A d \in Stripe : KeptIO(io[d], io'[d])
  BY DEF FlushRequest, KeptIO
<1>8. /\ AppBook(a, app'[a]) /\ CountBook(a, app'[a], rq, Under) /\ FileApp(file, app'[a])
      /\ app'[a].senders = app[a].senders /\ app'[a].complete = app[a].complete /\ \A b \in App \ {a} : app'[b] = app[b]
  BY <1>1, <1>2, <1>3, <1>4, <1>5, <1>6, Zenon
<1> QED BY ONLY a \in App, Books, <1>7, <1>8, AppQuiet

\* The beginning of wait4complete.
LEMMA Wait4CompleteBook ==
    ASSUME IInv, Books, NEW a \in App, NEW mode \in {"wait", "select"}, NEW num, Wait4Complete(a, mode, num) PROVE Books'
<1>1. PICK x : x = app[a] /\ x \in AppRec(x) /\ x.pc = "idle" /\ AppBook(a, x) /\ CountBook(a, x, rq, Under)
  BY AppNow DEF Wait4Complete
<1>a. PICK pc \in {"flush", "take"} : pc = FlushOr(x.senders, "take")
  BY FlushOrForm
<1>b. PICK base, target : base = Pending(a) /\ target = Min({Pending(a), num})
  OBVIOUS
<1>2. PICK y : /\ y = app'[a] /\ \A b \in App \ {a} : app'[b] = app[b]
               /\ y = [x EXCEPT !.mode = mode, !.ret = "take", !.pc = pc, !.base = base, !.target = target]
  BY <1>1, <1>a, <1>b, AppNow DEF Wait4Complete
<1>3. /\ y.pc = pc /\ y.senders = x.senders /\ y.complete = x.complete /\ y.calls = x.calls /\ y.batch = x.batch
      /\ y.mode = mode /\ y.issued = x.issued /\ y.completed = x.completed
  BY <1>1, <1>2 DEF AppRec
<1>4. AppBook(a, y)
  BY <1>1, <1>3 DEF AppBook
<1>5. CountBook(a, y, rq, Under)
  BY <1>1, <1>3, CountSame
<1>6. FileApp(file, y)
  BY <1>1, <1>3, GoesOn
<1>7. UNCHANGED <<file, rq, ct>> /\ \A d \in Stripe : KeptIO(io[d], io'[d])
  BY DEF Wait4Complete, KeptIO
<1>8. /\ AppBook(a, app'[a]) /\ CountBook(a, app'[a], rq, Under) /\ FileApp(file, app'[a])
      /\ app'[a].senders = app[a].senders /\ app'[a].complete = app[a].complete /\ \A b \in App \ {a} : app'[b] = app[b]
  BY <1>1, <1>2, <1>3, <1>4, <1>5, <1>6, Zenon
<1> QED BY ONLY a \in App, Books, <1>7, <1>8, AppQuiet

\* thread::wait of the application.
LEMMA WakeAppBook == ASSUME IInv, Books, NEW a \in App, WakeApp(a) PROVE Books'
<1>1. PICK x : x = app[a] /\ x \in AppRec(x) /\ x.pc = "wait" /\ AppBook(a, x) /\ CountBook(a, x, rq, Under)
  BY AppNow DEF WakeApp
<1>a. PICK pc \in {"flush", "take"} : pc = IF x.mode = "select" THEN FlushOr(x.senders, "take") ELSE "take"
  BY FlushOrForm
<1>2. PICK y : /\ y = app'[a] /\ \A b \in App \ {a} : app'[b] = app[b]
               /\ y = [x EXCEPT !.act = FALSE, !.ret = "take", !.pc = pc]
  BY <1>1, <1>a, AppNow DEF WakeApp
<1>3. /\ y.pc = pc /\ y.senders = x.senders /\ y.complete = x.complete /\ y.calls = x.calls /\ y.batch = x.batch
      /\ y.mode = x.mode /\ y.issued = x.issued /\ y.completed = x.completed
  BY <1>1, <1>2 DEF AppRec
<1>4. AppBook(a, y)
  BY <1>1, <1>3 DEF AppBook
<1>5. CountBook(a, y, rq, Under)
  BY <1>1, <1>3, CountSame
<1>6. FileApp(file, y)
  BY <1>1, <1>3, GoesOn
<1>7. UNCHANGED <<file, rq, ct>> /\ \A d \in Stripe : KeptIO(io[d], io'[d])
  BY DEF WakeApp, KeptIO
<1>8. /\ AppBook(a, app'[a]) /\ CountBook(a, app'[a], rq, Under) /\ FileApp(file, app'[a])
      /\ app'[a].senders = app[a].senders /\ app'[a].complete = app[a].complete /\ \A b \in App \ {a} : app'[b] = app[b]
  BY <1>1, <1>2, <1>3, <1>4, <1>5, <1>6, Zenon
<1> QED BY ONLY a \in App, Books, <1>7, <1>8, AppQuiet

\* cleanup: a thread whose count is zero has no request that is not reported.
LEMMA CleanupBook == ASSUME IInv, Books, NEW a \in App, Cleanup(a) PROVE Books'
<1>1. PICK x : x = app[a] /\ x \in AppRec(x) /\ x.pc = "idle" /\ AppBook(a, x) /\ CountBook(a, x, rq, Under)
  BY AppNow DEF Cleanup
<1>2. PICK y : y = app'[a] /\ y = [x EXCEPT !.pc = "drain"] /\ \A b \in App \ {a} : app'[b] = app[b]
  BY <1>1, AppNow DEF Cleanup
<1>3. /\ y.pc = "drain" /\ y.senders = x.senders /\ y.complete = x.complete /\ y.calls = x.calls /\ y.batch = x.batch
      /\ y.mode = x.mode /\ y.issued = x.issued /\ y.completed = x.completed
  BY <1>1, <1>2 DEF AppRec
<1>a. x.calls = <<>> /\ x.batch = 0
  BY <1>1 DEF AppBook
<1>4. AppBook(a, y)
  BY <1>1, <1>3, <1>a DEF AppBook
<1>5. CountBook(a, y, rq, Under)
  <2>1. PICK n \in Nat : n = Cardinality(Open(a, rq)) /\ (n = 0 <=> Open(a, rq) = {})
    BY OpenFinite
  <2>2. x.issued - x.completed = n + 0 - Len(<<>>) /\ x.issued - x.completed = 0
    BY <1>1, <1>a, <2>1 DEF CountBook, Cleanup, Pending
  <2>3. n = 0
    BY <2>2
  <2> QED BY <1>1, <1>3, <2>1, <2>3, CountSame
<1>6. FileApp(file, y)
  BY <1>1, <1>3, GoesOn
<1>7. UNCHANGED <<file, rq, ct>> /\ \A d \in Stripe : KeptIO(io[d], io'[d])
  BY DEF Cleanup, KeptIO
<1>8. /\ AppBook(a, app'[a]) /\ CountBook(a, app'[a], rq, Under) /\ FileApp(file, app'[a])
      /\ app'[a].senders = app[a].senders /\ app'[a].complete = app[a].complete /\ \A b \in App \ {a} : app'[b] = app[b]
  BY <1>1, <1>2, <1>3, <1>4, <1>5, <1>6, Zenon
<1> QED BY ONLY a \in App, Books, <1>7, <1>8, AppQuiet

\* After the callbacks.
LEMMA CountedBook == ASSUME IInv, Books, NEW a \in App, Counted(a) PROVE Books'
<1>1. PICK x : /\ x = app[a] /\ x \in AppRec(x) /\ x.pc = "call" /\ x.calls = <<>>
               /\ AppBook(a, x) /\ CountBook(a, x, rq, Under)
  BY AppNow DEF Counted
<1>2. PICK y : /\ y = app'[a] /\ \A b \in App \ {a} : app'[b] = app[b]
               /\ \/ y = [x EXCEPT !.completed = x.completed + x.batch, !.batch = 0, !.pc = "idle", !.ret = "idle",
                                   !.mode = "none", !.base = 0, !.target = 0, !.num = 0]
                  \/ y = [x EXCEPT !.completed = x.completed + x.batch, !.batch = 0, !.pc = "wait"]
  BY <1>1, AppNow DEF Counted, Returned
<1>3. /\ y.pc \in {"idle", "wait"} /\ y.senders = x.senders /\ y.complete = x.complete /\ y.calls = x.calls /\ y.batch = 0
      /\ y.mode \in {x.mode, "none"} /\ y.issued = x.issued /\ y.completed = x.completed + x.batch
  <2>1. CASE y = [x EXCEPT !.completed = x.completed + x.batch, !.batch = 0, !.pc = "idle", !.ret = "idle",
                           !.mode = "none", !.base = 0, !.target = 0, !.num = 0]
    BY <1>1, <2>1 DEF AppRec
  <2>2. CASE y = [x EXCEPT !.completed = x.completed + x.batch, !.batch = 0, !.pc = "wait"]
    BY <1>1, <2>2 DEF AppRec
  <2> QED BY <1>2, <2>1, <2>2
<1>4. AppBook(a, y)
  BY <1>1, <1>3 DEF AppBook
<1>5. CountBook(a, y, rq, Under)
  <2>1. PICK n \in Nat : n = Cardinality(Open(a, rq)) /\ (n = 0 <=> Open(a, rq) = {})
    BY OpenFinite
  <2>2. x.issued \in Nat /\ x.completed \in Nat /\ x.batch \in Nat /\ x.issued - x.completed = n + x.batch - 0
    BY <1>1, <2>1 DEF CountBook, AppRec
  <2>a. Len(y.calls) = 0 /\ Len(x.calls) = 0
    BY <1>1, <1>3
  <2>3. y.completed \in Nat /\ y.batch \in Nat /\ y.issued - y.completed = n + y.batch - 0
    BY <1>3, <2>2
  <2>4. y.pc \notin {"none", "drain", "destroyed"} /\ Len(y.calls) <= y.batch
    BY <1>3, <2>a, <2>3
  <2> QED BY <1>1, <1>3, <2>1, <2>a, <2>3, <2>4 DEF CountBook
<1>6. FileApp(file, y)
  BY <1>1, <1>3, GoesOn
<1>7. UNCHANGED <<file, rq, ct>> /\ \A d \in Stripe : KeptIO(io[d], io'[d])
  BY DEF Counted, KeptIO
<1>8. /\ AppBook(a, app'[a]) /\ CountBook(a, app'[a], rq, Under) /\ FileApp(file, app'[a])
      /\ app'[a].senders = app[a].senders /\ app'[a].complete = app[a].complete /\ \A b \in App \ {a} : app'[b] = app[b]
  BY <1>1, <1>2, <1>3, <1>4, <1>5, <1>6, Zenon
<1> QED BY ONLY a \in App, Books, <1>7, <1>8, AppQuiet

\* An I/O thread that is activated.
LEMMA ActivatedKept == ASSUME IInv, NEW d \in Stripe, NEW y, y = [io[d] EXCEPT !.act = TRUE]
                       PROVE KeptIO(io[d], y)
<1>1. io[d] \in IORec(d)
  BY DEF IInv, IOsOK, IOOK
<1> QED BY <1>1 DEF IORec, KeptIO

\* The activation after flush_requests.
LEMMA ActivateIOBook == ASSUME IInv, Books, NEW a \in App, ActivateIO(a) PROVE Books'
<1>1. PICK x : x = app[a] /\ x \in AppRec(x) /\ x.pc = "flushed" /\ AppBook(a, x) /\ CountBook(a, x, rq, Under)
  BY AppNow DEF ActivateIO
<1>a. PICK pc \in {"flush", x.ret} : pc = FlushOr(x.senders, x.ret)
  BY FlushOrForm
<1>b. x.ret \in {"idle", "take", "call"} /\ x.disk \in Stripe
  BY <1>1 DEF AppRec
<1>2. PICK y : y = app'[a] /\ y = [x EXCEPT !.pc = pc] /\ \A b \in App \ {a} : app'[b] = app[b]
  BY <1>1, <1>a, AppNow DEF ActivateIO
<1>3. /\ y.pc = pc /\ y.ret = x.ret /\ y.senders = x.senders /\ y.complete = x.complete /\ y.calls = x.calls
      /\ y.batch = x.batch /\ y.mode = x.mode /\ y.issued = x.issued /\ y.completed = x.completed
  BY <1>1, <1>2 DEF AppRec
<1>4. AppBook(a, y)
  BY <1>1, <1>3 DEF AppBook
<1>c. y.pc \in {"flush", "idle", "take", "call"}
  BY <1>3, <1>b
<1>5. CountBook(a, y, rq, Under)
  BY <1>1, <1>3, <1>c, CountSame
<1>6. FileApp(file, y)
  BY <1>1, <1>c, GoesOn
<1>7. UNCHANGED <<file, rq, ct>> /\ \A d \in Stripe : KeptIO(io[d], io'[d])
  <2>1. DOMAIN io = Stripe /\ io' = [io EXCEPT ![x.disk].act = TRUE] /\ UNCHANGED <<file, rq, ct>>
    BY <1>1 DEF IInv, IOsOK, ActivateIO
  <2>2. io'[x.disk] = [io[x.disk] EXCEPT !.act = TRUE] /\ \A d \in Stripe \ {x.disk} : io'[d] = io[d]
    BY <1>b, <2>1
  <2>3. KeptIO(io[x.disk], io'[x.disk])
    BY <1>b, <2>2, ActivatedKept
  <2>4. \A d \in Stripe \ {x.disk} : KeptIO(io[d], io'[d])
    BY <2>2 DEF KeptIO
  <2> QED BY <2>1, <2>3, <2>4
<1>8. /\ AppBook(a, app'[a]) /\ CountBook(a, app'[a], rq, Under) /\ FileApp(file, app'[a])
      /\ app'[a].senders = app[a].senders /\ app'[a].complete = app[a].complete /\ \A b \in App \ {a} : app'[b] = app[b]
  BY <1>1, <1>2, <1>3, <1>4, <1>5, <1>6, Zenon
<1> QED BY ONLY a \in App, Books, <1>7, <1>8, AppQuiet

\* The end of an instance.
LEMMA DrainBook == ASSUME IInv, Books, NEW a \in App, Drain(a) PROVE Books'
<1>1. PICK x : x = app[a] /\ x \in AppRec(x) /\ x.pc = "drain" /\ AppBook(a, x) /\ CountBook(a, x, rq, Under)
  BY AppNow DEF Drain
<1>a. PICK pc \in {"drain", "destroyed"} : pc = IF \A d \in Stripe : io[d].queue = <<>> THEN "destroyed" ELSE "drain"
  OBVIOUS
<1>2. PICK y : y = app'[a] /\ y = [x EXCEPT !.pc = pc] /\ \A b \in App \ {a} : app'[b] = app[b]
  BY <1>1, <1>a, AppNow DEF Drain
<1>3. /\ y.pc = pc /\ y.senders = x.senders /\ y.complete = x.complete /\ y.calls = x.calls /\ y.batch = x.batch
      /\ y.mode = x.mode /\ y.issued = x.issued /\ y.completed = x.completed
  BY <1>1, <1>2 DEF AppRec
<1>4. AppBook(a, y)
  BY <1>1, <1>3 DEF AppBook
<1>5. CountBook(a, y, rq, Under)
  <2>1. Open(a, rq) = {}
    BY <1>1 DEF CountBook
  <2> QED BY <1>1, <1>3, <2>1, CountSame
<1>6. FileApp(file, y)
  <2>1. file.pc = "opened" /\ file.op = "open"
    BY <1>1, Instance
  <2> QED BY <2>1 DEF FileApp
<1>7. UNCHANGED <<file, rq, ct>> /\ \A d \in Stripe : KeptIO(io[d], io'[d])
  BY ActivatedKept DEF Drain
<1>8. /\ AppBook(a, app'[a]) /\ CountBook(a, app'[a], rq, Under) /\ FileApp(file, app'[a])
      /\ app'[a].senders = app[a].senders /\ app'[a].complete = app[a].complete /\ \A b \in App \ {a} : app'[b] = app[b]
  BY <1>1, <1>2, <1>3, <1>4, <1>5, <1>6, Zenon
<1> QED BY ONLY a \in App, Books, <1>7, <1>8, AppQuiet

\* What an application thread keeps when it is activated.
KeptApp(x, y) ==
    /\ y.pc = x.pc /\ y.ret = x.ret /\ y.senders = x.senders /\ y.complete = x.complete /\ y.calls = x.calls
    /\ y.mode = x.mode /\ y.issued = x.issued /\ y.completed = x.completed /\ y.batch = x.batch

\* A thread that is activated keeps its books.
LEMMA KeptAppBook == ASSUME NEW x, NEW y, KeptApp(x, y), NEW a, NEW q, NEW U, AppBook(a, x), CountBook(a, x, q, U)
                     PROVE AppBook(a, y) /\ CountBook(a, y, q, U)
<1>1. AppBook(a, y)
  BY DEF KeptApp, AppBook
<1>2. CountBook(a, y, q, U)
  BY DEF KeptApp, CountBook
<1> QED BY <1>1, <1>2

\* The places of an I/O thread where parts are.
SamePlaces(x, y) == /\ y.queue = x.queue /\ y.local = x.local /\ y.kernel = x.kernel /\ y.finished = x.finished
                    /\ y.tcbs = x.tcbs

\* A step of another thread that moves no part.
LEMMA IOQuiet ==
    ASSUME Books, rq' = rq, \A a \in App : KeptApp(app[a], app'[a]) /\ FileApp(file', app'[a]),
           \A d \in Stripe : SamePlaces(io[d], io'[d]) /\ IOBook(io'[d]) /\ FileIO(file', d, io'[d]),
           CTBook(ct'), ct'.queue = ct.queue, ct'.tcbs = ct.tcbs, file'.pc = "opened" => file'.op = "open"
    PROVE  Books'
<1>1. Boxes' = Boxes
  <2>1. \A b \in App : app'[b].senders = app[b].senders /\ app'[b].complete = app[b].complete
    BY DEF KeptApp
  <2>2. \A d \in Stripe : /\ io'[d].queue = io[d].queue /\ io'[d].local = io[d].local /\ io'[d].kernel = io[d].kernel
                          /\ io'[d].finished = io[d].finished /\ io'[d].tcbs = io[d].tcbs
    BY DEF SamePlaces
  <2> QED BY <2>1, <2>2, SameBoxes
<1>2. Disjoint(Boxes') /\ Under' = Under /\ Early' = Early
  BY <1>1 DEF Books, Under, Early
<1>3. \A a \in App : AppBook(a, app'[a]) /\ CountBook(a, app'[a], rq, Under) /\ FileApp(file', app'[a])
  BY KeptAppBook DEF Books
<1> QED BY <1>2, <1>3, BooksKept

\* A thread that does nothing ...
LEMMA SameApp == ASSUME NEW x PROVE KeptApp(x, x)
BY DEF KeptApp

\* ... and an I/O thread that does nothing.
LEMMA SameIO == ASSUME NEW x PROVE SamePlaces(x, x)
BY DEF SamePlaces

\* The record of an I/O thread.
LEMMA IONow == ASSUME IInv, Books, NEW d \in Stripe
               PROVE DOMAIN io = Stripe /\ io[d] \in IORec(d) /\ IOOK(d, io[d]) /\ IOBook(io[d]) /\ FileIO(file, d, io[d])
BY DEF IInv, IOsOK, IOOK, Books

\* The record of the factory.
LEMMA FileNow == ASSUME IInv
                 PROVE /\ file \in FileRec /\ file.pc \in {"command", "commanded", "answer", "opened", "closed"}
                       /\ file.op \in {"open", "close"} /\ file.disk \in Stripe /\ file.disk \in Nat /\ file.answered \in BOOLEAN
<1>1. file \in FileRec
  BY DEF IInv
<1>2. \A d \in Stripe : d \in Nat
  BY DEF Stripe
<1> QED BY <1>1, <1>2 DEF FileRec

\* A command for an I/O thread.
LEMMA CommandBook == ASSUME IInv, Books, Command PROVE Books'
<1>1. PICK d \in Stripe : d = file.disk
  BY FileNow
<1>2. PICK x : x = io[d] /\ x \in IORec(d) /\ IOBook(x) /\ FileIO(file, d, x)
  BY IONow
<1>3. x.comm = <<>> /\ file.pc = "command"
  BY <1>1, <1>2 DEF FileIO, Command
<1>4. PICK y : y = io'[d] /\ y = [x EXCEPT !.comm = <<file.op>>] /\ \A e \in Stripe \ {d} : io'[e] = io[e]
  <2>1. DOMAIN io = Stripe /\ io' = [io EXCEPT ![d].comm = Append(@, file.op)]
    BY <1>1, IONow DEF Command
  <2>2. Append(<<>>, file.op) = <<file.op>>
    OBVIOUS
  <2> QED BY <1>2, <1>3, <2>1, <2>2 DEF IORec
<1>5. /\ file'.pc = "commanded" /\ file'.answered = FALSE /\ file'.op = file.op /\ file'.disk = file.disk
  BY FileNow DEF Command, FileRec
<1>6. /\ y.pc = x.pc /\ y.ret = x.ret /\ y.queue = x.queue /\ y.local = x.local /\ y.kernel = x.kernel
      /\ y.finished = x.finished /\ y.tcbs = x.tcbs /\ y.comm = <<file.op>> /\ y.open = x.open
  BY <1>2, <1>4 DEF IORec
<1>7. IOBook(y) /\ SamePlaces(x, y)
  BY <1>2, <1>6 DEF IOBook, SamePlaces
<1>8. FileIO(file', d, y)
  <2>1. d \in Nat /\ ~(d < d)
    BY <1>1, FileNow
  <2> QED BY <1>1, <1>5, <1>6, <2>1 DEF FileIO
<1>9. \A e \in Stripe : e # d => SamePlaces(io[e], io'[e]) /\ IOBook(io'[e]) /\ FileIO(file', e, io'[e])
  <2> TAKE e \in Stripe
  <2> HAVE e # d
  <2>1. io'[e] = io[e] /\ IOBook(io[e]) /\ FileIO(file, e, io[e])
    BY <1>4, IONow
  <2>2. FileIO(file', e, io[e])
    BY <1>1, <1>3, <1>5, <2>1 DEF FileIO
  <2> QED BY <2>1, <2>2, SameIO
<1>10. \A e \in Stripe : SamePlaces(io[e], io'[e]) /\ IOBook(io'[e]) /\ FileIO(file', e, io'[e])
  BY <1>2, <1>4, <1>7, <1>8, <1>9
<1>11. \A a \in App : KeptApp(app[a], app'[a]) /\ FileApp(file', app'[a])
  <2> TAKE a \in App
  <2>1. FileApp(file, app[a]) /\ app' = app
    BY DEF Books, Command
  <2> QED BY <1>3, <1>5, <2>1, SameApp DEF FileApp
<1>12. CTBook(ct') /\ ct'.queue = ct.queue /\ ct'.tcbs = ct.tcbs /\ rq' = rq
  BY DEF Books, Command
<1> QED BY <1>5, <1>10, <1>11, <1>12, IOQuiet

\* ... which is activated.
LEMMA CommandActivateBook == ASSUME IInv, Books, CommandActivate PROVE Books'
<1>1. PICK d \in Stripe : d = file.disk /\ file.pc = "commanded"
  BY FileNow DEF CommandActivate
<1>2. io'[d] = [io[d] EXCEPT !.act = TRUE] /\ \A e \in Stripe \ {d} : io'[e] = io[e]
  BY <1>1, IONow DEF CommandActivate
<1>3. \A e \in Stripe : KeptIO(io[e], io'[e])
  <2>1. KeptIO(io[d], io'[d])
    BY <1>2, ActivatedKept
  <2>2. \A e \in Stripe \ {d} : KeptIO(io[e], io'[e])
    BY <1>2 DEF KeptIO
  <2> QED BY <2>1, <2>2
<1>4. /\ file'.pc = "answer" /\ file'.answered = file.answered /\ file'.op = file.op /\ file'.disk = file.disk
  BY FileNow DEF CommandActivate, FileRec
<1>5. \A e \in Stripe : SamePlaces(io[e], io'[e]) /\ IOBook(io'[e]) /\ FileIO(file', e, io'[e])
  <2> TAKE e \in Stripe
  <2>1. IOBook(io'[e]) /\ FileIO(file, e, io'[e])
    BY <1>3, IONow, KeptIOBook
  <2>2. FileIO(file', e, io'[e])
    BY <1>1, <1>4, <2>1 DEF FileIO
  <2> QED BY <1>3, <2>1, <2>2 DEF KeptIO, SamePlaces
<1>6. \A a \in App : KeptApp(app[a], app'[a]) /\ FileApp(file', app'[a])
  <2> TAKE a \in App
  <2>1. FileApp(file, app[a]) /\ app' = app
    BY DEF Books, CommandActivate
  <2> QED BY <1>1, <1>4, <2>1, SameApp DEF FileApp
<1>7. CTBook(ct') /\ ct'.queue = ct.queue /\ ct'.tcbs = ct.tcbs /\ rq' = rq
  BY DEF Books, CommandActivate
<1> QED BY <1>4, <1>5, <1>6, <1>7, IOQuiet

\* The answer to a command, and the next thread.
LEMMA AnsweredBook == ASSUME IInv, Books, Answered PROVE Books'
<1>1. file.pc = "answer" /\ file.answered /\ UNCHANGED <<rq, app, io, ct>>
  BY DEF Answered
<1>2. /\ file'.op = file.op /\ file'.answered = file.answered
      /\ \/ file.disk < NumFiles - 1 /\ file'.pc = "command" /\ file'.disk = file.disk + 1
         \/ /\ ~(file.disk < NumFiles - 1) /\ file'.disk = 0
            /\ file'.pc = IF file.op = "open" THEN "opened" ELSE "closed"
  <2>1. CASE file.disk < NumFiles - 1
    BY <2>1, FileNow DEF Answered, FileRec
  <2>2. CASE ~(file.disk < NumFiles - 1)
    BY <2>2, FileNow DEF Answered, FileRec
  <2> QED BY <2>1, <2>2
<1>3. ASSUME NEW d \in Stripe PROVE FileIO(file', d, io'[d])
  <2>1. FileIO(file, d, io[d]) /\ io' = io
    BY <1>1, IONow
  <2>2. d \in Nat /\ d <= NumFiles - 1 /\ NumFiles \in Nat
    BY Params DEF Stripe
  <2>3. io[d].comm = <<>>
    BY <1>1, <2>1 DEF FileIO
  <2>4. ASSUME file.op = "open", d < file.disk \/ d = file.disk PROVE io[d].open
    BY <1>1, <2>1, <2>4 DEF FileIO
  <2>5. ASSUME file.op = "open", d < file'.disk \/ file'.pc = "opened" PROVE d < file.disk \/ d = file.disk
    BY <1>2, <2>2, <2>5, FileNow
  <2>6. file'.pc \notin {"commanded", "answer"}
    BY <1>2
  <2> QED BY <1>2, <2>1, <2>3, <2>4, <2>5, <2>6 DEF FileIO
<1>4. \A d \in Stripe : SamePlaces(io[d], io'[d]) /\ IOBook(io'[d]) /\ FileIO(file', d, io'[d])
  BY <1>1, <1>3, IONow, SameIO
<1>5. \A a \in App : KeptApp(app[a], app'[a]) /\ FileApp(file', app'[a])
  <2> TAKE a \in App
  <2>1. FileApp(file, app[a]) /\ app' = app
    BY <1>1 DEF Books
  <2> QED BY <1>1, <1>2, <2>1, SameApp DEF FileApp
<1>6. CTBook(ct') /\ ct'.queue = ct.queue /\ ct'.tcbs = ct.tcbs /\ rq' = rq
  BY <1>1 DEF Books
<1>7. file'.pc = "opened" => file'.op = "open"
  BY <1>2
<1> QED BY <1>4, <1>5, <1>6, <1>7, IOQuiet

\* ~remote_io_factory.
LEMMA CloseBook == ASSUME IInv, Books, Close PROVE Books'
<1>1. file.pc = "opened" /\ (\A a \in App : app[a].pc = "destroyed") /\ UNCHANGED <<rq, app, io, ct>>
  BY DEF Close
<1>2. file'.pc = "command" /\ file'.op = "close"
  BY FileNow DEF Close, FileRec
<1>3. \A d \in Stripe : FileIO(file', d, io'[d])
  <2> TAKE d \in Stripe
  <2>1. FileIO(file, d, io[d]) /\ io' = io
    BY <1>1, IONow
  <2> QED BY <1>1, <1>2, <2>1 DEF FileIO
<1>4. \A d \in Stripe : SamePlaces(io[d], io'[d]) /\ IOBook(io'[d]) /\ FileIO(file', d, io'[d])
  BY <1>1, <1>3, IONow, SameIO
<1>5. \A a \in App : KeptApp(app[a], app'[a]) /\ FileApp(file', app'[a])
  BY <1>1, <1>2, SameApp DEF FileApp
<1>6. CTBook(ct') /\ ct'.queue = ct.queue /\ ct'.tcbs = ct.tcbs /\ rq' = rq
  BY <1>1 DEF Books
<1> QED BY <1>2, <1>4, <1>5, <1>6, IOQuiet

\* A step of one I/O thread, and what the others keep.
LEMMA OneIO ==
    ASSUME IInv, Books, NEW d \in Stripe, \A e \in Stripe \ {d} : io'[e] = io[e], file' = file,
           SamePlaces(io[d], io'[d]), IOBook(io'[d]), io'[d].comm = io[d].comm, io'[d].open = io[d].open
    PROVE  \A e \in Stripe : SamePlaces(io[e], io'[e]) /\ IOBook(io'[e]) /\ FileIO(file', e, io'[e])
<1> TAKE e \in Stripe
<1>1. CASE e = d
  BY <1>1, IONow DEF FileIO
<1>2. CASE e # d
  BY <1>2, IONow, SameIO
<1> QED BY <1>1, <1>2

\* The activation of the completion thread.
LEMMA ActivateCTBook == ASSUME IInv, Books, NEW d \in Stripe, ActivateCT(d) PROVE Books'
<1>1. PICK x : x = io[d] /\ x \in IORec(d) /\ IOBook(x) /\ x.pc = "added"
  BY IONow DEF ActivateCT
<1>2. PICK y : /\ y = io'[d] /\ \A e \in Stripe \ {d} : io'[e] = io[e]
               /\ y = IF x.tcbs = <<>> THEN [x EXCEPT !.pc = x.ret, !.events = 0, !.grouped = FALSE] ELSE [x EXCEPT !.pc = "notify"]
  BY <1>1, IONow DEF ActivateCT, IOWaited
<1>3. /\ y.pc = (IF x.tcbs = <<>> THEN x.ret ELSE "notify") /\ y.ret = x.ret /\ y.comm = x.comm /\ y.open = x.open
      /\ y.queue = x.queue /\ y.local = x.local /\ y.kernel = x.kernel /\ y.finished = x.finished /\ y.tcbs = x.tcbs
  <2>1. CASE x.tcbs = <<>>
    BY <1>1, <1>2, <2>1 DEF IORec
  <2>2. CASE x.tcbs # <<>>
    BY <1>1, <1>2, <2>2 DEF IORec
  <2> QED BY <2>1, <2>2
<1>4. x.ret \in {"fetch", "access"}
  BY <1>1 DEF IORec
<1>5. IOBook(y)
  BY <1>1, <1>3, <1>4 DEF IOBook
<1>6. SamePlaces(x, y)
  BY <1>3 DEF SamePlaces
<1>7. \A e \in Stripe : SamePlaces(io[e], io'[e]) /\ IOBook(io'[e]) /\ FileIO(file', e, io'[e])
  <2>1. SamePlaces(io[d], io'[d]) /\ IOBook(io'[d]) /\ io'[d].comm = io[d].comm /\ io'[d].open = io[d].open
    BY <1>1, <1>2, <1>3, <1>5, <1>6, Zenon
  <2>2. (\A e \in Stripe \ {d} : io'[e] = io[e]) /\ file' = file
    BY <1>2 DEF ActivateCT
  <2> QED BY <2>1, <2>2, OneIO
<1>8. /\ \A a \in App : KeptApp(app[a], app'[a]) /\ FileApp(file', app'[a])
      /\ rq' = rq /\ (file'.pc = "opened" => file'.op = "open")
  BY SameApp DEF Books, ActivateCT
<1>9. CTBook(ct') /\ ct'.queue = ct.queue /\ ct'.tcbs = ct.tcbs
  <2>1. ct \in CTRec /\ CTBook(ct) /\ ct' = [ct EXCEPT !.act = TRUE]
    BY DEF IInv, CTOK, Books, ActivateCT
  <2>2. ct'.queue = ct.queue /\ ct'.tcbs = ct.tcbs /\ ct'.pc = ct.pc
    BY <2>1 DEF CTRec
  <2> QED BY <2>1, <2>2 DEF CTBook
<1> QED BY <1>7, <1>8, <1>9, IOQuiet

\* The activation of an application thread.
LEMMA WokenApp == ASSUME IInv, Books, NEW to \in App, app' = [app EXCEPT ![to].act = TRUE], file' = file
                  PROVE \A a \in App : KeptApp(app[a], app'[a]) /\ FileApp(file', app'[a])
<1>1. ASSUME NEW a \in App PROVE KeptApp(app[a], app'[a])
  <2>1. DOMAIN app = App /\ app[a] \in AppRec(app[a])
    BY AppNow
  <2>2. app'[a] = IF a = to THEN [app[a] EXCEPT !.act = TRUE] ELSE app[a]
    BY <2>1
  <2> QED BY <2>1, <2>2 DEF AppRec, KeptApp
<1>2. ASSUME NEW a \in App PROVE FileApp(file', app'[a])
  <2>1. FileApp(file, app[a]) /\ app'[a].pc = app[a].pc
    BY <1>1 DEF Books, KeptApp
  <2> QED BY <2>1 DEF FileApp
<1> QED BY <1>1, <1>2

\* An I/O thread activates the thread to which it has handed parts back ...
LEMMA WakeByIOBook == ASSUME IInv, Books, NEW d \in Stripe, WakeByIO(d) PROVE Books'
<1>1. PICK x : x = io[d] /\ x \in IORec(d) /\ IOBook(x) /\ x.pc = "notified" /\ x.to \in App
  BY IONow DEF WakeByIO, IOOK, HandsOK
<1>2. PICK y : /\ y = io'[d] /\ \A e \in Stripe \ {d} : io'[e] = io[e]
               /\ y = IF x.tcbs = <<>> THEN [x EXCEPT !.pc = x.ret, !.to = None, !.events = 0, !.grouped = FALSE]
                      ELSE [x EXCEPT !.pc = "notify", !.to = None]
  <2>1. PICK t : t = [x EXCEPT !.pc = "notify", !.to = None]
    OBVIOUS
  <2>2. t.tcbs = x.tcbs /\ t.ret = x.ret
    BY <1>1, <2>1 DEF IORec
  <2>3. io' = [io EXCEPT ![d] = IF t.tcbs = <<>> THEN IOWaited(t) ELSE t]
    BY <1>1, <2>1 DEF WakeByIO
  <2>4. IOWaited(t) = [x EXCEPT !.pc = x.ret, !.to = None, !.events = 0, !.grouped = FALSE]
    BY <1>1, <2>1, <2>2 DEF IOWaited, IORec
  <2>5. DOMAIN io = Stripe
    BY IONow
  <2> QED BY <2>1, <2>2, <2>3, <2>4, <2>5
<1>3. /\ y.pc = (IF x.tcbs = <<>> THEN x.ret ELSE "notify") /\ y.ret = x.ret /\ y.comm = x.comm /\ y.open = x.open
      /\ y.queue = x.queue /\ y.local = x.local /\ y.kernel = x.kernel /\ y.finished = x.finished /\ y.tcbs = x.tcbs
  <2>1. CASE x.tcbs = <<>>
    BY <1>1, <1>2, <2>1 DEF IORec
  <2>2. CASE x.tcbs # <<>>
    BY <1>1, <1>2, <2>2 DEF IORec
  <2> QED BY <2>1, <2>2
<1>4. x.ret \in {"fetch", "access"}
  BY <1>1 DEF IORec
<1>5. IOBook(y)
  BY <1>1, <1>3, <1>4 DEF IOBook
<1>6. SamePlaces(x, y)
  BY <1>3 DEF SamePlaces
<1>7. \A e \in Stripe : SamePlaces(io[e], io'[e]) /\ IOBook(io'[e]) /\ FileIO(file', e, io'[e])
  <2>1. SamePlaces(io[d], io'[d]) /\ IOBook(io'[d]) /\ io'[d].comm = io[d].comm /\ io'[d].open = io[d].open
    BY <1>1, <1>2, <1>3, <1>5, <1>6, Zenon
  <2>2. (\A e \in Stripe \ {d} : io'[e] = io[e]) /\ file' = file
    BY <1>2 DEF WakeByIO
  <2> QED BY <2>1, <2>2, OneIO
<1>8. /\ rq' = rq /\ file' = file /\ ct' = ct /\ app' = [app EXCEPT ![x.to].act = TRUE]
  BY <1>1 DEF WakeByIO
<1>9. \A a \in App : KeptApp(app[a], app'[a]) /\ FileApp(file', app'[a])
  BY <1>1, <1>8, WokenApp
<1>10. CTBook(ct') /\ ct'.queue = ct.queue /\ ct'.tcbs = ct.tcbs /\ (file'.pc = "opened" => file'.op = "open")
  BY <1>8 DEF Books
<1> QED BY <1>7, <1>8, <1>9, <1>10, IOQuiet

\* ... and so does the completion thread.
LEMMA WakeByCTBook == ASSUME IInv, Books, WakeByCT PROVE Books'
<1>1. ct \in CTRec /\ CTBook(ct) /\ ct.pc = "notified" /\ ct.to \in App
  BY DEF IInv, CTOK, HandsOK, Books, WakeByCT
<1>2. ct'.queue = ct.queue /\ ct'.tcbs = ct.tcbs /\ ct'.pc = IF ct.tcbs = <<>> THEN "wait" ELSE "notify"
  BY <1>1 DEF WakeByCT, CTRec
<1>3. CTBook(ct')
  BY <1>1, <1>2 DEF CTBook
<1>4. rq' = rq /\ file' = file /\ io' = io /\ app' = [app EXCEPT ![ct.to].act = TRUE]
  BY DEF WakeByCT
<1>5. \A a \in App : KeptApp(app[a], app'[a]) /\ FileApp(file', app'[a])
  BY <1>1, <1>4, WokenApp
<1>6. \A e \in Stripe : SamePlaces(io[e], io'[e]) /\ IOBook(io'[e]) /\ FileIO(file', e, io'[e])
  BY <1>4, IONow, SameIO
<1>7. file'.pc = "opened" => file'.op = "open"
  BY <1>4 DEF Books
<1> QED BY <1>2, <1>3, <1>4, <1>5, <1>6, <1>7, IOQuiet

-------------------------------------------------------------------------------
(* Steps that move parts from one place to another                         *)

\* Parts that change their place, all of them before or all of them after their pages are moved.
LEMMA MovedBooks ==
    ASSUME Books, NEW i, NEW j, NEW k, NEW X, NEW Y, MoveOf(Boxes, Boxes', i, j, k, X, Y),
           {i, j, k} \subseteq 1 .. 4 \/ {i, j, k} \cap (1 .. 4) = {},
           rq' = rq, \A a \in App : AppBook(a, app'[a]) /\ CountBook(a, app'[a], rq, Under) /\ FileApp(file', app'[a]),
           \A d \in Stripe : IOBook(io'[d]) /\ FileIO(file', d, io'[d]),
           CTBook(ct'), file'.pc = "opened" => file'.op = "open"
    PROVE  Books'
<1>1. Disjoint(Boxes)
  BY DEF Books
<1>2. PICK B, C : B = Boxes /\ C = Boxes' /\ Disjoint(B) /\ MoveOf(B, C, i, j, k, X, Y)
  BY <1>1
<1>3. Disjoint(C) /\ All(C) = All(B) /\ First4(C) = First4(B)
  BY <1>2, Moved
<1>4. Disjoint(Boxes') /\ Under' = Under /\ Early' = Early
  BY <1>2, <1>3 DEF Under, Early
<1> QED BY <1>4, BooksKept

\* Places with different numbers have no part in common.
LEMMA BoxesApart == ASSUME Books, NEW i \in 1 .. 9, NEW j \in 1 .. 9, i # j PROVE Boxes[i] \cap Boxes[j] = {}
BY DEF Books, Disjoint

\* Some of the parts S go to K, the others to the sequence l.
Parted(S, k, K, l) == \E X, Y : X \cup Y = S /\ X \cap Y = {} /\ K = k \cup X /\ ToSet(l) = Y

\* What async_io::access submits, and what is left of it.
LEMMA SubmittedBook ==
    ASSUME NEW d \in Stripe, NEW t \in IORec(d), NEW busy \in Nat, busy <= AIODepth, Single(t.queue), Single(t.local),
           Single(t.finished), t.tcbs = <<>>
    PROVE  LET s == Submitted(t, busy)
           IN  /\ Parted(ToSet(t.local), t.kernel, s.kernel, s.local)
               /\ IOBook(s) /\ s.queue = t.queue /\ s.finished = t.finished /\ s.tcbs = t.tcbs
               /\ s.comm = t.comm /\ s.open = t.open
<1>1. PICK l \in Seq(PartAt(d)) : l = t.local /\ Single(l)
  BY DEF IORec
<1>3. PICK len \in Nat : len = Len(l)
  <2>1. Len(l) \in Nat
    OBVIOUS
  <2> QED BY <2>1
<1>4. PICK num \in Nat : num = Min({AIODepth - busy, Len(l)}) /\ num <= Len(l)
  <2>1. AIODepth - busy \in Nat
    BY DiskIOAssumption
  <2>a. AIODepth - busy \in Int /\ len \in Int
    BY <2>1
  <2>2. Min({AIODepth - busy, len}) = IF AIODepth - busy <= len THEN AIODepth - busy ELSE len
    BY <2>a, MinMax, Zenon
  <2> QED BY <1>3, <2>1, <2>2
<1>5. PICK u, v : u = SubSeq(l, 1, num) /\ v = SubSeq(l, num + 1, Len(l))
  OBVIOUS
<1>6. /\ u \in Seq(PartAt(d)) /\ v \in Seq(PartAt(d)) /\ Single(u) /\ Single(v)
      /\ ToSet(u) \cap ToSet(v) = {} /\ ToSet(u) \cup ToSet(v) = ToSet(l)
  <2>1. num <= Len(l) /\ Single(l)
    BY <1>1, <1>4
  <2>2. /\ SubSeq(l, 1, num) \in Seq(PartAt(d)) /\ SubSeq(l, num + 1, Len(l)) \in Seq(PartAt(d))
        /\ Single(SubSeq(l, 1, num)) /\ Single(SubSeq(l, num + 1, Len(l)))
        /\ ToSet(SubSeq(l, 1, num)) \cap ToSet(SubSeq(l, num + 1, Len(l))) = {}
        /\ ToSet(SubSeq(l, 1, num)) \cup ToSet(SubSeq(l, num + 1, Len(l))) = ToSet(l)
    BY ONLY l \in Seq(PartAt(d)), num \in Nat, <2>1, CutSets
  <2> QED BY ONLY <1>5, <2>2, Zenon
<1>7. num = Len(l) => v = <<>>
  <2>1. Len(v) = Len(l) - num
    BY <1>4, <1>5, Pieces
  <2> QED BY <1>3, <1>6, <2>1
<1>8. PICK s : s = Submitted(t, busy)
  OBVIOUS
<1>9. s = [t EXCEPT !.kernel = t.kernel \cup ToSet(u), !.local = v,
                    !.pc = IF num = Len(l) THEN "comm" ELSE "iowait",
                    !.ret = IF num = Len(l) THEN "fetch" ELSE "access"]
  BY <1>1, <1>4, <1>5, <1>8 DEF Submitted
<1>10. /\ s.kernel = t.kernel \cup ToSet(u) /\ s.local = v /\ s.queue = t.queue /\ s.finished = t.finished /\ s.tcbs = t.tcbs
       /\ s.comm = t.comm /\ s.open = t.open
       /\ s.pc = (IF num = Len(l) THEN "comm" ELSE "iowait") /\ s.ret = (IF num = Len(l) THEN "fetch" ELSE "access")
  BY <1>9 DEF IORec
<1>11. IOBook(s)
  <2>1. Single(s.tcbs) /\ Single(s.queue) /\ Single(s.finished) /\ Single(s.local) /\ s.tcbs = <<>>
    BY <1>6, <1>10, ShortSets
  <2> QED BY <1>7, <1>10, <2>1 DEF IOBook
<1>12. Parted(ToSet(t.local), t.kernel, s.kernel, s.local)
  BY <1>1, <1>6, <1>10 DEF Parted
<1> QED BY <1>8, <1>10, <1>11, <1>12

\* What get_all_reqs has fetched and submitted.
LEMMA FetchedBook ==
    ASSUME IInv, Books, NEW d \in Stripe, io[d].pc \in {"wait", "comm", "fetch"}
    PROVE  LET s == Fetched(d)
           IN  /\ Parted(ToSet(io[d].queue), io[d].kernel, s.kernel, s.local)
               /\ IOBook(s) /\ s.queue = <<>> /\ s.finished = io[d].finished /\ s.tcbs = io[d].tcbs /\ io[d].local = <<>>
               /\ s.comm = io[d].comm /\ s.open = io[d].open /\ s \in IORec(d)
<1>1. PICK x : x = io[d] /\ IOOK(d, x) /\ x \in IORec(d) /\ IOBook(x) /\ x.pc \in {"wait", "comm", "fetch"}
  BY IONow
<1>2. x.local = <<>> /\ x.tcbs = <<>> /\ Single(x.queue) /\ Single(x.finished)
  BY <1>1 DEF IOBook
<1>3. PICK busy \in Nat : busy = Busy(d) /\ busy <= AIODepth
  BY <1>1, UsedType DEF Busy
<1>4. PICK s : s = Fetched(d)
  OBVIOUS
<1>a. s \in IORec(d)
  BY <1>1, <1>4, FetchedForm DEF IOOK
<1>5. CASE x.queue # <<>>
  <2>1. PICK t : t = [x EXCEPT !.queue = <<>>, !.local = x.queue]
    OBVIOUS
  <2>2. /\ t \in IORec(d) /\ t.queue = <<>> /\ t.local = x.queue /\ t.kernel = x.kernel /\ t.finished = x.finished
        /\ t.tcbs = x.tcbs /\ t.comm = x.comm /\ t.open = x.open
    <3>1. <<>> \in Seq(PartAt(d)) /\ x.queue \in Seq(PartAt(d))
      BY <1>1 DEF IORec
    <3> QED BY <1>1, <2>1, <3>1 DEF IORec
  <2>3. s = Submitted(t, busy)
    BY <1>1, <1>3, <1>4, <1>5, <2>1 DEF Fetched
  <2>4. Single(t.queue) /\ Single(t.local) /\ Single(t.finished) /\ t.tcbs = <<>>
    BY <1>2, <2>2, ShortSets
  <2>5. /\ Parted(ToSet(t.local), t.kernel, s.kernel, s.local)
        /\ IOBook(s) /\ s.queue = t.queue /\ s.finished = t.finished /\ s.tcbs = t.tcbs
        /\ s.comm = t.comm /\ s.open = t.open
    <3>1. t \in IORec(d)
      BY <2>2
    <3> QED BY ONLY d \in Stripe, <1>3, busy \in Nat, <2>3, <2>4, <3>1, SubmittedBook
  <2>6. Parted(ToSet(x.queue), x.kernel, s.kernel, s.local)
    BY <2>2, <2>5
  <2> QED BY <1>1, <1>2, <1>4, <1>a, <2>2, <2>5, <2>6
<1>6. CASE x.queue = <<>>
  <2>1. s = [x EXCEPT !.pc = IF busy > 0 THEN "iowait" ELSE "wait"]
    BY <1>1, <1>3, <1>4, <1>6 DEF Fetched
  <2>2. /\ s.queue = x.queue /\ s.local = x.local /\ s.kernel = x.kernel /\ s.finished = x.finished /\ s.ret = x.ret
        /\ s.tcbs = x.tcbs /\ s.comm = x.comm /\ s.open = x.open /\ s.pc = IF busy > 0 THEN "iowait" ELSE "wait"
    BY <1>1, <2>1 DEF IORec
  <2>3. IOBook(s)
    BY <1>1, <1>2, <2>2 DEF IOBook
  <2>4. ToSet(x.queue) = {} /\ ToSet(s.local) = {}
    BY <1>2, <1>6, <2>2, ShortSets
  <2>5. {} \cup {} = ToSet(x.queue) /\ {} \cap {} = {} /\ s.kernel = x.kernel \cup {} /\ ToSet(s.local) = {}
    BY <2>2, <2>4
  <2>6. Parted(ToSet(x.queue), x.kernel, s.kernel, s.local)
    BY <2>5 DEF Parted
  <2> QED BY <1>1, <1>2, <1>4, <1>6, <1>a, <2>2, <2>3, <2>6
<1> QED BY <1>5, <1>6

\* Application threads, when only the answer to a command changes.
LEMMA SameApps == ASSUME Books, app' = app, file'.pc = file.pc, file'.op = file.op
                  PROVE /\ \A a \in App : AppBook(a, app'[a]) /\ CountBook(a, app'[a], rq, Under) /\ FileApp(file', app'[a])
                        /\ file'.pc = "opened" => file'.op = "open"
<1>1. \A a \in App : AppBook(a, app[a]) /\ CountBook(a, app[a], rq, Under) /\ FileApp(file, app[a])
  BY DEF Books
<1> QED BY <1>1 DEF FileApp, Books

\* The requests of the queue of a disk go to the kernel, or are kept by its thread.
LEMMA FetchMove ==
    ASSUME IInv, IInv', Books, NEW d \in Stripe, \A e \in Stripe \ {d} : io'[e] = io[e], UNCHANGED <<rq, app, ct>>,
           file'.pc = file.pc, file'.op = file.op, IOBook(io'[d]), \A e \in Stripe : FileIO(file', e, io'[e]),
           NEW X, NEW Y, X \cup Y = ToSet(io[d].queue), X \cap Y = {}, io[d].local = <<>>,
           io'[d].queue = <<>>, io'[d].kernel = io[d].kernel \cup X, ToSet(io'[d].local) = Y,
           io'[d].finished = io[d].finished, io'[d].tcbs = io[d].tcbs
    PROVE  Books'
<1>1. /\ InQueue' = (InQueue \ ToSet(io[d].queue)) \cup ToSet(io'[d].queue) /\ ToSet(io[d].queue) \subseteq InQueue
      /\ InLocal' = (InLocal \ ToSet(io[d].local)) \cup ToSet(io'[d].local) /\ ToSet(io[d].local) \subseteq InLocal
      /\ InKernel' = (InKernel \ io[d].kernel) \cup io'[d].kernel /\ io[d].kernel \subseteq InKernel
      /\ InFinished' = (InFinished \ ToSet(io[d].finished)) \cup ToSet(io'[d].finished)
      /\ ToSet(io[d].finished) \subseteq InFinished
      /\ InTcbs' = (InTcbs \ ToSet(io[d].tcbs)) \cup ToSet(io'[d].tcbs) /\ ToSet(io[d].tcbs) \subseteq InTcbs
  BY IOBoxes
<1>2. ToSet(io'[d].queue) = {} /\ ToSet(io[d].local) = {}
  BY ShortSets
<1>3. InQueue' = InQueue \ (X \cup Y) /\ X \cup Y \subseteq InQueue
  BY <1>1, <1>2
<1>4. InLocal' = InLocal \cup Y /\ InKernel' = InKernel \cup X
  BY <1>1, <1>2
<1>5. InFinished' = InFinished /\ InTcbs' = InTcbs
  BY <1>1
<1>6. InSender' = InSender /\ InComplete' = InComplete /\ InCTQueue' = InCTQueue /\ InCTTcbs' = InCTTcbs
  BY DEF InSender, InComplete, InCTQueue, InCTTcbs
<1>7. /\ X \cup Y \subseteq Boxes[2] /\ Boxes'[2] = Boxes[2] \ (X \cup Y) /\ Boxes'[4] = Boxes[4] \cup X /\ Boxes'[3] = Boxes[3] \cup Y
  BY <1>3, <1>4, BoxAt
<1>8. \A l \in 1 .. 9 : l # 2 /\ l # 4 /\ l # 3 => Boxes'[l] = Boxes[l]
  BY <1>5, <1>6, BoxAt, Nine
<1>9. /\ \A a \in App : AppBook(a, app'[a]) /\ CountBook(a, app'[a], rq, Under) /\ FileApp(file', app'[a])
      /\ file'.pc = "opened" => file'.op = "open"
  BY SameApps
<1>10. \A e \in Stripe : IOBook(io'[e]) /\ FileIO(file', e, io'[e])
  <2> TAKE e \in Stripe
  <2>1. e # d => IOBook(io'[e])
    BY IONow
  <2> QED BY <2>1
<1>11. CTBook(ct')
  BY DEF Books
<1>12. {2, 4, 3} \subseteq 1 .. 4 \/ {2, 4, 3} \cap (1 .. 4) = {}
  OBVIOUS
<1>13. MoveOf(Boxes, Boxes', 2, 4, 3, X, Y)
  BY <1>7, <1>8 DEF MoveOf
<1> QED BY <1>9, <1>10, <1>11, <1>12, <1>13, MovedBooks

\* The commands of an I/O thread, and their answers.
LEMMA CommandsRun ==
    ASSUME IInv, Books, NEW d \in Stripe, NEW t \in IORec(d), t.comm = io[d].comm, t.open = io[d].open, RunCommands(d, t)
    PROVE  /\ \A e \in Stripe \ {d} : io'[e] = io[e]
           /\ \A e \in Stripe : FileIO(file', e, io'[e])
           /\ file'.pc = file.pc /\ file'.op = file.op /\ UNCHANGED <<rq, app, ct>>
           /\ io'[d].pc = t.pc /\ io'[d].ret = t.ret /\ SamePlaces(t, io'[d])
<1>1. PICK x : x = io[d] /\ x \in IORec(d) /\ FileIO(file, d, x)
  BY IONow
<1>2. UNCHANGED <<rq, app, ct>> /\ \A e \in Stripe \ {d} : io'[e] = io[e]
  BY IONow DEF RunCommands
<1>3. PICK b : b = IF t.comm = <<>> THEN t.open ELSE Last(t.comm) = "open"
  OBVIOUS
<1>4. PICK y : y = io'[d] /\ y = [t EXCEPT !.comm = <<>>, !.open = b]
  <2>1. io' = [io EXCEPT ![d] = [t EXCEPT !.comm = <<>>, !.open = b]]
    BY <1>3, Zenon DEF RunCommands
  <2>2. DOMAIN io = Stripe
    BY IONow
  <2> QED BY <2>1, <2>2
<1>5. y.comm = <<>> /\ y.open = b /\ y.pc = t.pc /\ y.ret = t.ret /\ SamePlaces(t, y)
  BY <1>4 DEF IORec, SamePlaces
<1>6. PICK ans \in BOOLEAN : /\ file' = [file EXCEPT !.answered = ans] /\ (ans <=> (file.answered \/ io[d].comm # <<>>))
  <2>1. (file.answered \/ io[d].comm # <<>>) \in BOOLEAN
    BY Zenon
  <2>2. file' = [file EXCEPT !.answered = (file.answered \/ io[d].comm # <<>>)]
    BY Zenon DEF RunCommands
  <2> QED BY <2>1, <2>2, Zenon
<1>7. file'.pc = file.pc /\ file'.op = file.op /\ file'.disk = file.disk /\ (file'.answered <=> ans)
  <2>1. file \in FileRec /\ file' = [file EXCEPT !.answered = ans]
    BY <1>6, FileNow
  <2>2. file'.pc = file.pc /\ file'.op = file.op /\ file'.disk = file.disk
    BY <2>1 DEF FileRec
  <2>3. file'.answered = ans
    BY <2>1 DEF FileRec
  <2> QED BY <2>2, <2>3
<1>8. ASSUME x.comm = <<>> PROVE \A e \in Stripe : FileIO(file', e, io'[e])
  <2>1. file'.answered <=> file.answered
    BY <1>1, <1>6, <1>7, <1>8
  <2>2. y.open = x.open /\ y.comm = x.comm
    BY <1>1, <1>3, <1>5, <1>8
  <2> TAKE e \in Stripe
  <2>3. FileIO(file, e, io[e]) /\ io'[e].comm = io[e].comm /\ io'[e].open = io[e].open
    BY <1>1, <1>2, <1>4, <2>2, IONow
  <2> QED BY <1>7, <2>1, <2>3 DEF FileIO
<1>9. ASSUME x.comm # <<>> PROVE \A e \in Stripe : FileIO(file', e, io'[e])
  <2>1. d = file.disk /\ file.pc \in {"commanded", "answer"} /\ ~file.answered /\ x.comm = <<file.op>>
    BY <1>1, <1>9 DEF FileIO
  <2>2. file'.answered
    BY <1>1, <1>6, <1>7, <1>9
  <2>3. file.op = "open" => y.open
    <3>1. Last(<<file.op>>) = file.op
      BY DEF Last
    <3> QED BY <1>1, <1>3, <1>5, <1>9, <2>1, <3>1
  <2>4. FileIO(file', d, y)
    BY <1>5, <1>7, <2>1, <2>2, <2>3 DEF FileIO
  <2>5. \A e \in Stripe : e # d => FileIO(file', e, io'[e])
    <3> TAKE e \in Stripe
    <3> HAVE e # d
    <3>1. FileIO(file, e, io[e]) /\ io'[e] = io[e]
      BY <1>2, IONow
    <3> QED BY <1>7, <2>1, <3>1 DEF FileIO
  <2> QED BY <1>4, <2>4, <2>5
<1> QED BY <1>2, <1>4, <1>5, <1>7, <1>8, <1>9

\* An I/O thread that looks at its queues.
LEMMA RunCommandsBook ==
    ASSUME IInv, IInv', Books, NEW d \in Stripe, io[d].pc \in {"wait", "comm"}, NEW t,
           t = Fetched(d) \/ t = [Fetched(d) EXCEPT !.act = FALSE], RunCommands(d, t)
    PROVE  Books'
<1>1. PICK s : s = Fetched(d)
  OBVIOUS
<1>2. /\ Parted(ToSet(io[d].queue), io[d].kernel, s.kernel, s.local)
      /\ IOBook(s) /\ s.queue = <<>> /\ s.finished = io[d].finished /\ s.tcbs = io[d].tcbs /\ io[d].local = <<>>
      /\ s.comm = io[d].comm /\ s.open = io[d].open /\ s \in IORec(d)
  BY <1>1, FetchedBook
<1>3. /\ t \in IORec(d) /\ t.comm = s.comm /\ t.open = s.open /\ t.pc = s.pc /\ t.ret = s.ret /\ t.queue = s.queue
      /\ t.local = s.local /\ t.kernel = s.kernel /\ t.finished = s.finished /\ t.tcbs = s.tcbs
  <2>1. CASE t = s
    BY <1>2, <2>1
  <2>2. CASE t = [s EXCEPT !.act = FALSE]
    BY <1>2, <2>2 DEF IORec
  <2> QED BY <1>1, <2>1, <2>2
<1>4. /\ \A e \in Stripe \ {d} : io'[e] = io[e]
      /\ \A e \in Stripe : FileIO(file', e, io'[e])
      /\ file'.pc = file.pc /\ file'.op = file.op /\ UNCHANGED <<rq, app, ct>>
      /\ io'[d].pc = t.pc /\ io'[d].ret = t.ret /\ SamePlaces(t, io'[d])
  BY <1>2, <1>3, CommandsRun
<1>5. /\ io'[d].pc = s.pc /\ io'[d].ret = s.ret /\ io'[d].queue = s.queue /\ io'[d].local = s.local /\ io'[d].kernel = s.kernel
      /\ io'[d].finished = s.finished /\ io'[d].tcbs = s.tcbs
  BY <1>3, <1>4 DEF SamePlaces
<1>6. IOBook(io'[d])
  BY <1>2, <1>5 DEF IOBook
<1>7. PICK X, Y : X \cup Y = ToSet(io[d].queue) /\ X \cap Y = {} /\ s.kernel = io[d].kernel \cup X /\ ToSet(s.local) = Y
  BY <1>2 DEF Parted
<1>8. /\ io'[d].queue = <<>> /\ io'[d].kernel = io[d].kernel \cup X /\ ToSet(io'[d].local) = Y
      /\ io'[d].finished = io[d].finished /\ io'[d].tcbs = io[d].tcbs /\ io[d].local = <<>>
  BY <1>2, <1>5, <1>7
<1> QED BY <1>4, <1>6, <1>7, <1>8, FetchMove

\* run, when thread::wait returns, and the next round of its loop.
LEMMA RunBook == ASSUME IInv, IInv', Books, NEW d \in Stripe, Run(d) \/ Round(d) PROVE Books'
<1>1. CASE Run(d)
  BY <1>1, RunCommandsBook DEF Run
<1>2. CASE Round(d)
  BY <1>2, RunCommandsBook DEF Round
<1> QED BY <1>1, <1>2

\* get_all_reqs again.
LEMMA FetchAgainBook == ASSUME IInv, IInv', Books, NEW d \in Stripe, FetchAgain(d) PROVE Books'
<1>1. io[d].pc = "fetch" /\ UNCHANGED <<file, rq, app, ct>> /\ io' = [io EXCEPT ![d] = Fetched(d)]
  BY DEF FetchAgain
<1>2. PICK s : s = Fetched(d)
  OBVIOUS
<1>3. io'[d] = s /\ \A e \in Stripe \ {d} : io'[e] = io[e]
  BY <1>1, <1>2, IONow
<1>4. /\ Parted(ToSet(io[d].queue), io[d].kernel, s.kernel, s.local)
      /\ IOBook(s) /\ s.queue = <<>> /\ s.finished = io[d].finished /\ s.tcbs = io[d].tcbs /\ io[d].local = <<>>
      /\ s.comm = io[d].comm /\ s.open = io[d].open /\ s \in IORec(d)
  BY <1>1, <1>2, FetchedBook
<1>5. PICK X, Y : X \cup Y = ToSet(io[d].queue) /\ X \cap Y = {} /\ s.kernel = io[d].kernel \cup X /\ ToSet(s.local) = Y
  BY <1>4 DEF Parted
<1>6. \A e \in Stripe : FileIO(file', e, io'[e])
  <2> TAKE e \in Stripe
  <2>1. FileIO(file, e, io[e]) /\ io'[e].comm = io[e].comm /\ io'[e].open = io[e].open /\ file' = file
    BY <1>1, <1>3, <1>4, IONow
  <2> QED BY <2>1 DEF FileIO
<1>7. /\ io'[d].queue = <<>> /\ io'[d].kernel = io[d].kernel \cup X /\ ToSet(io'[d].local) = Y /\ IOBook(io'[d])
      /\ io'[d].finished = io[d].finished /\ io'[d].tcbs = io[d].tcbs /\ io[d].local = <<>>
  BY <1>3, <1>4, <1>5
<1>8. file'.pc = file.pc /\ file'.op = file.op
  BY <1>1
<1> QED BY <1>1, <1>3, <1>5, <1>6, <1>7, <1>8, FetchMove

\* async_io::access, after io_wait has freed a slot.
LEMMA SubmitMoreBook == ASSUME IInv, IInv', Books, NEW d \in Stripe, SubmitMore(d) PROVE Books'
<1>1. PICK x : x = io[d] /\ IOOK(d, x) /\ x \in IORec(d) /\ IOBook(x) /\ x.pc = "access"
  BY IONow DEF SubmitMore
<1>2. x.tcbs = <<>> /\ Single(x.queue) /\ Single(x.finished) /\ Single(x.local)
  BY <1>1 DEF IOBook
<1>3. PICK busy \in Nat : busy = Busy(d) /\ busy <= AIODepth
  BY <1>1, UsedType DEF Busy
<1>4. PICK s : s = Submitted(x, busy)
  OBVIOUS
<1>5. /\ Parted(ToSet(x.local), x.kernel, s.kernel, s.local)
      /\ IOBook(s) /\ s.queue = x.queue /\ s.finished = x.finished /\ s.tcbs = x.tcbs /\ s.comm = x.comm /\ s.open = x.open
  <2>1. x \in IORec(d)
    BY <1>1
  <2> QED BY ONLY d \in Stripe, <1>2, <1>3, busy \in Nat, <1>4, <2>1, SubmittedBook
<1>6. io'[d] = s /\ (\A e \in Stripe \ {d} : io'[e] = io[e]) /\ UNCHANGED <<file, rq, app, ct>>
  BY <1>1, <1>3, <1>4, IONow DEF SubmitMore
<1>7. PICK X, Y : X \cup Y = ToSet(x.local) /\ X \cap Y = {} /\ s.kernel = x.kernel \cup X /\ ToSet(s.local) = Y
  BY <1>5 DEF Parted
<1>8. /\ InQueue' = (InQueue \ ToSet(io[d].queue)) \cup ToSet(io'[d].queue) /\ ToSet(io[d].queue) \subseteq InQueue
      /\ InLocal' = (InLocal \ ToSet(io[d].local)) \cup ToSet(io'[d].local) /\ ToSet(io[d].local) \subseteq InLocal
      /\ InKernel' = (InKernel \ io[d].kernel) \cup io'[d].kernel /\ io[d].kernel \subseteq InKernel
      /\ InFinished' = (InFinished \ ToSet(io[d].finished)) \cup ToSet(io'[d].finished)
      /\ ToSet(io[d].finished) \subseteq InFinished
      /\ InTcbs' = (InTcbs \ ToSet(io[d].tcbs)) \cup ToSet(io'[d].tcbs) /\ ToSet(io[d].tcbs) \subseteq InTcbs
  BY <1>6, IOBoxes
<1>9. InLocal' = InLocal \ X /\ X \subseteq InLocal /\ InKernel' = InKernel \cup X
  BY <1>1, <1>6, <1>7, <1>8
<1>10. InQueue' = InQueue /\ InFinished' = InFinished /\ InTcbs' = InTcbs
  BY <1>1, <1>5, <1>6, <1>8
<1>11. InSender' = InSender /\ InComplete' = InComplete /\ InCTQueue' = InCTQueue /\ InCTTcbs' = InCTTcbs
  BY <1>6 DEF InSender, InComplete, InCTQueue, InCTTcbs
<1>12. MoveOf(Boxes, Boxes', 3, 4, 2, X, {})
  <2>1. Boxes'[3] = Boxes[3] \ (X \cup {}) /\ X \cup {} \subseteq Boxes[3] /\ Boxes'[4] = Boxes[4] \cup X /\ Boxes'[2] = Boxes[2] \cup {}
    BY <1>9, <1>10, BoxAt
  <2>2. \A l \in 1 .. 9 : l # 3 /\ l # 4 /\ l # 2 => Boxes'[l] = Boxes[l]
    BY <1>10, <1>11, BoxAt, Nine
  <2> QED BY <2>1, <2>2 DEF MoveOf
<1>13. {3, 4, 2} \subseteq 1 .. 4 \/ {3, 4, 2} \cap (1 .. 4) = {}
  OBVIOUS
<1>14. /\ \A a \in App : AppBook(a, app'[a]) /\ CountBook(a, app'[a], rq, Under) /\ FileApp(file', app'[a])
       /\ file'.pc = "opened" => file'.op = "open"
  BY <1>6, SameApps
<1>15. \A e \in Stripe : IOBook(io'[e]) /\ FileIO(file', e, io'[e])
  <2> TAKE e \in Stripe
  <2>1. IOBook(io[e]) /\ FileIO(file, e, io[e]) /\ file' = file
    BY <1>6, IONow
  <2>2. CASE e # d
    BY <1>6, <2>1, <2>2
  <2>3. CASE e = d
    BY <1>1, <1>5, <1>6, <2>1, <2>3 DEF FileIO
  <2> QED BY <2>2, <2>3
<1>16. CTBook(ct') /\ rq' = rq
  BY <1>6 DEF Books
<1> QED BY <1>12, <1>13, <1>14, <1>15, <1>16, MovedBooks

\* io_wait gives the completion thread what its queue has room for.
LEMMA IOWaitBook == ASSUME IInv, IInv', Books, NEW d \in Stripe, IOWait(d) PROVE Books'
<1>1. PICK x : x = io[d] /\ x \in IORec(d) /\ IOBook(x) /\ FileIO(file, d, x) /\ x.pc = "iowait"
  BY IONow DEF IOWait
<1>2. PICK done \in Seq(PartAt(d)) : done = x.finished /\ Single(done)
  BY <1>1 DEF IORec, IOBook
<1>3. PICK q \in Seq(Part) : q = ct.queue /\ Single(q) /\ Len(q) \in Nat /\ Len(q) <= CompleteSize /\ CompleteSize \in Nat
  <2>1. ct.queue \in Seq(Part) /\ Len(ct.queue) <= CompleteSize /\ Single(ct.queue)
    BY DEF IInv, CTOK, CTRec, Books, CTBook
  <2>2. Len(ct.queue) \in Nat
    BY <2>1
  <2> QED BY <2>1, <2>2, DiskIOAssumption
<1>4. PICK n \in Nat : n = Len(done)
  <2>1. Len(done) \in Nat
    OBVIOUS
  <2> QED BY <2>1
<1>5. PICK room \in Nat : room = Min({Len(done), CompleteSize - Len(q)}) /\ room <= Len(done)
  <2>1. PICK c \in Nat : c = CompleteSize - Len(q)
    <3>1. CompleteSize - Len(q) \in Nat
      BY <1>3
    <3> QED BY <3>1
  <2>a. n \in Int /\ c \in Int
    OBVIOUS
  <2>2. Min({n, c}) = IF n <= c THEN n ELSE c
    BY <2>a, MinMax, Zenon
  <2> QED BY <1>3, <1>4, <2>1, <2>2
<1>6. PICK u, v : u = SubSeq(done, 1, room) /\ v = SubSeq(done, room + 1, Len(done))
  OBVIOUS
<1>7. /\ u \in Seq(PartAt(d)) /\ v \in Seq(PartAt(d)) /\ Single(u) /\ Single(v)
      /\ ToSet(u) \cap ToSet(v) = {} /\ ToSet(u) \cup ToSet(v) = ToSet(done)
  <2>1. room <= Len(done) /\ Single(done)
    BY <1>2, <1>5
  <2>2. /\ SubSeq(done, 1, room) \in Seq(PartAt(d)) /\ SubSeq(done, room + 1, Len(done)) \in Seq(PartAt(d))
        /\ Single(SubSeq(done, 1, room)) /\ Single(SubSeq(done, room + 1, Len(done)))
        /\ ToSet(SubSeq(done, 1, room)) \cap ToSet(SubSeq(done, room + 1, Len(done))) = {}
        /\ ToSet(SubSeq(done, 1, room)) \cup ToSet(SubSeq(done, room + 1, Len(done))) = ToSet(done)
    BY ONLY done \in Seq(PartAt(d)), room \in Nat, <2>1, CutSets
  <2> QED BY ONLY <1>6, <2>2, Zenon
<1>8. PICK y : /\ y = io'[d] /\ \A e \in Stripe \ {d} : io'[e] = io[e]
               /\ y = [x EXCEPT !.pc = "added", !.finished = <<>>, !.events = Len(done), !.tcbs = v,
                                !.grouped = (Len(done) - room >= GroupFrom)]
  <2>1. io' = [io EXCEPT ![d].pc = "added", ![d].finished = <<>>, ![d].events = Len(done), ![d].tcbs = v,
                         ![d].grouped = (Len(done) - room >= GroupFrom)]
    BY <1>1, <1>2, <1>3, <1>5, <1>6, Zenon DEF IOWait
  <2>2. DOMAIN io = Stripe
    BY IONow
  <2> QED BY <1>1, <2>1, <2>2, Zenon
<1>9. /\ y.pc = "added" /\ y.finished = <<>> /\ y.tcbs = v /\ y.queue = x.queue /\ y.local = x.local /\ y.kernel = x.kernel
      /\ y.comm = x.comm /\ y.open = x.open /\ y.ret = x.ret
  BY <1>1, <1>8 DEF IORec
<1>10. ct' = [ct EXCEPT !.queue = q \o u] /\ UNCHANGED <<file, rq, app>>
  BY <1>1, <1>2, <1>3, <1>5, <1>6, Zenon DEF IOWait
<1>11. ct'.queue = q \o u /\ ct'.tcbs = ct.tcbs /\ ct'.pc = ct.pc
  <2>1. ct \in CTRec
    BY DEF IInv, CTOK
  <2> QED BY <1>10, <2>1 DEF CTRec
<1>12. /\ InQueue' = (InQueue \ ToSet(io[d].queue)) \cup ToSet(io'[d].queue) /\ ToSet(io[d].queue) \subseteq InQueue
       /\ InLocal' = (InLocal \ ToSet(io[d].local)) \cup ToSet(io'[d].local) /\ ToSet(io[d].local) \subseteq InLocal
       /\ InKernel' = (InKernel \ io[d].kernel) \cup io'[d].kernel /\ io[d].kernel \subseteq InKernel
       /\ InFinished' = (InFinished \ ToSet(io[d].finished)) \cup ToSet(io'[d].finished)
       /\ ToSet(io[d].finished) \subseteq InFinished
       /\ InTcbs' = (InTcbs \ ToSet(io[d].tcbs)) \cup ToSet(io'[d].tcbs) /\ ToSet(io[d].tcbs) \subseteq InTcbs
  BY <1>8, IOBoxes
<1>13. /\ InCTQueue = ToSet(ct.queue) /\ InCTTcbs = ToSet(ct.tcbs)
       /\ InCTQueue' = ToSet(ct'.queue) /\ InCTTcbs' = ToSet(ct'.tcbs)
  BY CTBoxes
<1>14. ToSet(u) \subseteq InFinished /\ ToSet(v) \subseteq InFinished
  BY <1>1, <1>2, <1>7, <1>12
<1>15. ToSet(q) \cap ToSet(u) = {}
  <2>1. Boxes[7] \cap Boxes[5] = {}
    BY BoxesApart
  <2> QED BY <1>3, <1>13, <1>14, <2>1, BoxAt
<1>16. Single(q \o u) /\ ToSet(q \o u) = ToSet(q) \cup ToSet(u)
  <2>1. u \in Seq(Part)
    BY <1>7, PartAtPart
  <2> QED BY <1>3, <1>7, <1>15, <2>1, CatSets
<1>17. CTBook(ct') /\ InCTQueue' = InCTQueue \cup ToSet(u) /\ InCTTcbs' = InCTTcbs
  BY <1>3, <1>11, <1>13, <1>16 DEF CTBook, Books
<1>18. x.tcbs = <<>>
  BY <1>1 DEF IOBook
<1>19. InFinished' = InFinished \ (ToSet(u) \cup ToSet(v)) /\ InTcbs' = InTcbs \cup ToSet(v)
  <2>1. ToSet(io[d].finished) = ToSet(u) \cup ToSet(v)
    BY <1>1, <1>2, <1>7
  <2>2. ToSet(io'[d].finished) = {} /\ ToSet(io[d].tcbs) = {}
    BY <1>1, <1>8, <1>9, <1>18, ShortSets
  <2>3. ToSet(io'[d].tcbs) = ToSet(v)
    BY <1>8, <1>9
  <2> QED BY ONLY <1>12, <2>1, <2>2, <2>3
<1>20. InQueue' = InQueue /\ InLocal' = InLocal /\ InKernel' = InKernel
  <2>1. io'[d].queue = io[d].queue /\ io'[d].local = io[d].local /\ io'[d].kernel = io[d].kernel
    BY <1>1, <1>8, <1>9
  <2> QED BY ONLY <1>12, <2>1
<1>21. InSender' = InSender /\ InComplete' = InComplete
  BY <1>10 DEF InSender, InComplete
<1>22. MoveOf(Boxes, Boxes', 5, 7, 6, ToSet(u), ToSet(v))
  <2>1. /\ Boxes'[5] = Boxes[5] \ (ToSet(u) \cup ToSet(v)) /\ ToSet(u) \cup ToSet(v) \subseteq Boxes[5]
        /\ Boxes'[7] = Boxes[7] \cup ToSet(u) /\ Boxes'[6] = Boxes[6] \cup ToSet(v) /\ ToSet(u) \cap ToSet(v) = {}
    BY <1>7, <1>14, <1>17, <1>19, BoxAt
  <2>2. \A l \in 1 .. 9 : l # 5 /\ l # 7 /\ l # 6 => Boxes'[l] = Boxes[l]
    BY <1>17, <1>20, <1>21, BoxAt, Nine
  <2> QED BY <2>1, <2>2 DEF MoveOf
<1>23. {5, 7, 6} \subseteq 1 .. 4 \/ {5, 7, 6} \cap (1 .. 4) = {}
  OBVIOUS
<1>24. /\ \A a \in App : AppBook(a, app'[a]) /\ CountBook(a, app'[a], rq, Under) /\ FileApp(file', app'[a])
       /\ file'.pc = "opened" => file'.op = "open"
  BY <1>10, SameApps
<1>25. IOBook(y) /\ FileIO(file, d, y)
  BY <1>1, <1>7, <1>9, ShortSets DEF IOBook, FileIO
<1>26. \A e \in Stripe : IOBook(io'[e]) /\ FileIO(file', e, io'[e])
  <2> TAKE e \in Stripe
  <2>1. IOBook(io[e]) /\ FileIO(file, e, io[e]) /\ file' = file
    BY <1>10, IONow
  <2> QED BY <1>8, <1>25, <2>1
<1>27. rq' = rq
  BY <1>10
<1> QED BY <1>17, <1>22, <1>23, <1>24, <1>26, <1>27, MovedBooks

\* What is handed back at once, and what is left: all of it, and of the first only parts of one thread.
LEMMA GroupBook ==
    ASSUME NEW S, S \subseteq Part, NEW t, t.tcbs \in Seq(S), t.tcbs # <<>>, Single(t.tcbs)
    PROVE  /\ Group(t) \in Seq(S) /\ Ungrouped(t) \in Seq(S) /\ Single(Group(t)) /\ Single(Ungrouped(t))
           /\ ToSet(Group(t)) \cap ToSet(Ungrouped(t)) = {} /\ ToSet(Group(t)) \cup ToSet(Ungrouped(t)) = ToSet(t.tcbs)
           /\ Head(t.tcbs).req[1] \in App /\ \A p \in ToSet(Group(t)) : p.req[1] = Head(t.tcbs).req[1]
<1>1. PICK s \in Seq(S) : s = t.tcbs /\ s # <<>> /\ Single(s)
  OBVIOUS
<1>2. PICK to \in App : to = Head(s).req[1]
  BY <1>1, GroupType
<1>3. Group(t) \in Seq(S) /\ Ungrouped(t) \in Seq(S)
  BY GroupType
<1>4. CASE t.grouped
  <2>1. PICK I, J : I = {i \in DOMAIN s : s[i].req[1] = to} /\ J = {i \in DOMAIN s : s[i].req[1] # to}
    OBVIOUS
  <2>2. Group(t) = ElementsAt(s, I) /\ Ungrouped(t) = ElementsAt(s, J)
    BY <1>1, <1>2, <1>4, <2>1 DEF Group, Ungrouped
  <2>3. I \subseteq DOMAIN s /\ J \subseteq DOMAIN s /\ DOMAIN s = 1 .. Len(s) /\ I \cup J = DOMAIN s /\ I \cap J = {}
    <3>1. DOMAIN s = 1 .. Len(s)
      OBVIOUS
    <3>2. I \subseteq DOMAIN s /\ J \subseteq DOMAIN s /\ I \cup J = DOMAIN s /\ I \cap J = {}
      BY ONLY <2>1
    <3> QED BY <3>1, <3>2
  <2>4. \A i, j \in DOMAIN s : s[i] = s[j] => i = j
    BY <1>1, <2>3 DEF Single
  <2>5. ToSet(Group(t)) = {s[i] : i \in I} /\ Single(Group(t))
    BY <2>2, <2>3, <2>4, SelectionAll
  <2>6. ToSet(Ungrouped(t)) = {s[i] : i \in J} /\ Single(Ungrouped(t))
    BY <2>2, <2>3, <2>4, SelectionAll
  <2>7. ToSet(Group(t)) \cap ToSet(Ungrouped(t)) = {}
    BY <2>1, <2>5, <2>6
  <2>8. ToSet(Group(t)) \cup ToSet(Ungrouped(t)) = ToSet(s)
    <3>1. ToSet(s) = {s[i] : i \in DOMAIN s}
      BY DEF ToSet
    <3> QED BY <2>3, <2>5, <2>6, <3>1
  <2>9. \A p \in ToSet(Group(t)) : p.req[1] = to
    BY <2>1, <2>5
  <2> QED BY <1>1, <1>2, <1>3, <2>5, <2>6, <2>7, <2>8, <2>9
<1>5. CASE ~t.grouped
  <2>1. Group(t) = <<Head(s)>> /\ Ungrouped(t) = Tail(s)
    BY <1>1, <1>5 DEF Group, Ungrouped
  <2>2. /\ Head(s) \in ToSet(s) /\ Single(Tail(s)) /\ Head(s) \notin ToSet(Tail(s)) /\ ToSet(Tail(s)) = ToSet(s) \ {Head(s)}
    BY <1>1, HeadTail
  <2>3. Single(<<Head(s)>>) /\ ToSet(<<Head(s)>>) = {Head(s)}
    BY ShortSets
  <2> QED BY <1>1, <1>2, <1>3, <2>1, <2>2, <2>3
<1> QED BY <1>4, <1>5

\* Parts that are handed back to their thread.
LEMMA NotifiedApps ==
    ASSUME IInv, IInv', Books, NEW to \in App, NEW g \in Seq(Part), Single(g), \A p \in ToSet(g) : p.req[1] = to,
           ToSet(g) \cap InComplete = {}, app' = [app EXCEPT ![to].complete = @ \o g], file' = file
    PROVE  /\ \A a \in App : AppBook(a, app'[a]) /\ CountBook(a, app'[a], rq, Under) /\ FileApp(file', app'[a])
           /\ InComplete' = InComplete \cup ToSet(g) /\ InSender' = InSender
           /\ file'.pc = "opened" => file'.op = "open"
<1>1. PICK x : x = app[to] /\ x \in AppRec(x) /\ AppBook(to, x) /\ CountBook(to, x, rq, Under) /\ FileApp(file, x) /\ DOMAIN app = App
  BY AppNow
<1>2. PICK y : y = app'[to] /\ y = [x EXCEPT !.complete = x.complete \o g] /\ \A b \in App \ {to} : app'[b] = app[b]
  BY <1>1
<1>3. /\ y.pc = x.pc /\ y.ret = x.ret /\ y.senders = x.senders /\ y.complete = x.complete \o g /\ y.calls = x.calls
      /\ y.batch = x.batch /\ y.mode = x.mode /\ y.issued = x.issued /\ y.completed = x.completed
  BY <1>1, <1>2 DEF AppRec
<1>4. x.complete \in Seq(Part)
  BY <1>1 DEF AppRec
<1>5. ToSet(x.complete) \subseteq InComplete
  <2>1. ToSet(x.complete) \subseteq Part /\ \A p \in ToSet(x.complete) : p.req[1] = to
    BY <1>1, <1>4, SetOfSeq DEF AppBook
  <2> QED BY <1>1, <2>1 DEF InComplete
<1>6. ToSet(y.complete) = ToSet(x.complete) \cup ToSet(g) /\ Single(y.complete)
  <2>1. Single(x.complete) /\ ToSet(x.complete) \cap ToSet(g) = {}
    BY <1>1, <1>5 DEF AppBook
  <2> QED BY <1>3, <1>4, <2>1, CatSets
<1>7. AppBook(to, y)
  BY <1>1, <1>3, <1>6 DEF AppBook
<1>8. CountBook(to, y, rq, Under)
  <2>1. x.pc \in {"none", "drain", "destroyed"} => Open(to, rq) = {}
    BY <1>1 DEF CountBook
  <2> QED BY <1>1, <1>3, <2>1, CountSame
<1>9. FileApp(file', y)
  BY <1>1, <1>3 DEF FileApp
<1>10. InComplete' = (InComplete \ ToSet(x.complete)) \cup ToSet(y.complete) /\ InSender' = InSender
  <2>1. AppBook(to, app[to]) /\ AppBook(to, app'[to])
    BY <1>1, <1>2, <1>7
  <2>2. InComplete' = (InComplete \ ToSet(app[to].complete)) \cup ToSet(app'[to].complete)
    BY <1>2, <2>1, AppBoxes
  <2>3. \A b \in App : app'[b].senders = app[b].senders
    BY <1>1, <1>2, <1>3
  <2>4. \A p \in Part : p.req[1] \in App
    BY PartHome
  <2>5. InSender' = InSender
    BY <2>3, <2>4 DEF InSender
  <2> QED BY <1>1, <1>2, <2>2, <2>5
<1>11. InComplete' = InComplete \cup ToSet(g)
  BY <1>5, <1>6, <1>10
<1>12. \A a \in App : AppBook(a, app'[a]) /\ CountBook(a, app'[a], rq, Under) /\ FileApp(file', app'[a])
  <2> TAKE a \in App
  <2>1. CASE a = to
    BY <1>2, <1>7, <1>8, <1>9, <2>1
  <2>2. CASE a # to
    BY <1>2, <2>2 DEF Books
  <2> QED BY <2>1, <2>2
<1> QED BY <1>10, <1>11, <1>12 DEF Books

\* complete_queue.add, by an I/O thread.
LEMMA NotifyByIOBook == ASSUME IInv, IInv', Books, NEW d \in Stripe, NotifyByIO(d) PROVE Books'
<1>1. PICK x : /\ x = io[d] /\ x \in IORec(d) /\ IOBook(x) /\ FileIO(file, d, x) /\ x.pc = "notify"
               /\ x.tcbs # <<>> /\ x.tcbs \in Seq(PartAt(d)) /\ Single(x.tcbs)
  BY IONow DEF NotifyByIO, IOOK, HandsOK, IORec, IOBook
<1>2. PICK to, g, u : to = Head(x.tcbs).req[1] /\ g = Group(x) /\ u = Ungrouped(x)
  OBVIOUS
<1>3. /\ g \in Seq(PartAt(d)) /\ u \in Seq(PartAt(d)) /\ Single(g) /\ Single(u)
      /\ ToSet(g) \cap ToSet(u) = {} /\ ToSet(g) \cup ToSet(u) = ToSet(x.tcbs)
      /\ to \in App /\ \A p \in ToSet(g) : p.req[1] = to
  <2>1. PartAt(d) \subseteq Part
    BY PartAtPart
  <2> QED BY <1>1, <1>2, <2>1, GroupBook
<1>4. app' = [app EXCEPT ![to].complete = @ \o g] /\ UNCHANGED <<file, rq, ct>>
  <2>1. Notify(x) /\ UNCHANGED <<file, rq, ct>>
    BY <1>1 DEF NotifyByIO
  <2>2. app' = [app EXCEPT ![Head(x.tcbs).req[1]].complete = @ \o Group(x)]
    BY <2>1, Zenon DEF Notify
  <2> QED BY <1>2, <2>1, <2>2, Zenon
<1>5. PICK y : y = io'[d] /\ y = [x EXCEPT !.pc = "notified", !.to = to, !.tcbs = u] /\ \A e \in Stripe \ {d} : io'[e] = io[e]
  <2>1. io' = [io EXCEPT ![d] = [x EXCEPT !.pc = "notified", !.to = to, !.tcbs = u]] /\ DOMAIN io = Stripe
    BY <1>1, <1>2, IONow DEF NotifyByIO, Notified
  <2> QED BY <2>1
<1>6. /\ y.pc = "notified" /\ y.tcbs = u /\ y.queue = x.queue /\ y.local = x.local /\ y.kernel = x.kernel
      /\ y.finished = x.finished /\ y.comm = x.comm /\ y.open = x.open /\ y.ret = x.ret
  BY <1>1, <1>5 DEF IORec
<1>7. /\ InQueue' = (InQueue \ ToSet(io[d].queue)) \cup ToSet(io'[d].queue) /\ ToSet(io[d].queue) \subseteq InQueue
      /\ InLocal' = (InLocal \ ToSet(io[d].local)) \cup ToSet(io'[d].local) /\ ToSet(io[d].local) \subseteq InLocal
      /\ InKernel' = (InKernel \ io[d].kernel) \cup io'[d].kernel /\ io[d].kernel \subseteq InKernel
      /\ InFinished' = (InFinished \ ToSet(io[d].finished)) \cup ToSet(io'[d].finished)
      /\ ToSet(io[d].finished) \subseteq InFinished
      /\ InTcbs' = (InTcbs \ ToSet(io[d].tcbs)) \cup ToSet(io'[d].tcbs) /\ ToSet(io[d].tcbs) \subseteq InTcbs
  BY <1>5, IOBoxes
<1>8. InTcbs' = InTcbs \ ToSet(g) /\ ToSet(g) \subseteq InTcbs
  BY <1>1, <1>3, <1>5, <1>6, <1>7
<1>9. InQueue' = InQueue /\ InLocal' = InLocal /\ InKernel' = InKernel /\ InFinished' = InFinished
  <2>1. /\ io'[d].queue = io[d].queue /\ io'[d].local = io[d].local /\ io'[d].kernel = io[d].kernel
        /\ io'[d].finished = io[d].finished
    BY <1>1, <1>5, <1>6
  <2> QED BY ONLY <1>7, <2>1
<1>10. InCTQueue' = InCTQueue /\ InCTTcbs' = InCTTcbs
  BY <1>4 DEF InCTQueue, InCTTcbs
<1>11. ToSet(g) \cap InComplete = {}
  <2>1. Boxes[6] \cap Boxes[9] = {}
    BY BoxesApart
  <2> QED BY <1>8, <2>1, BoxAt
<1>12. /\ \A a \in App : AppBook(a, app'[a]) /\ CountBook(a, app'[a], rq, Under) /\ FileApp(file', app'[a])
       /\ InComplete' = InComplete \cup ToSet(g) /\ InSender' = InSender
       /\ file'.pc = "opened" => file'.op = "open"
  <2>1. g \in Seq(Part)
    BY <1>3, PartAtPart
  <2>2. file' = file
    BY <1>4
  <2> QED BY <1>3, <1>4, <1>11, <2>1, <2>2, NotifiedApps
<1>13. MoveOf(Boxes, Boxes', 6, 9, 5, ToSet(g), {})
  <2>1. /\ Boxes'[6] = Boxes[6] \ (ToSet(g) \cup {}) /\ ToSet(g) \cup {} \subseteq Boxes[6]
        /\ Boxes'[9] = Boxes[9] \cup ToSet(g) /\ Boxes'[5] = Boxes[5] \cup {}
    BY <1>8, <1>9, <1>12, BoxAt
  <2>2. \A l \in 1 .. 9 : l # 6 /\ l # 9 /\ l # 5 => Boxes'[l] = Boxes[l]
    BY <1>9, <1>10, <1>12, BoxAt, Nine
  <2> QED BY <2>1, <2>2 DEF MoveOf
<1>14. {6, 9, 5} \subseteq 1 .. 4 \/ {6, 9, 5} \cap (1 .. 4) = {}
  OBVIOUS
<1>15. IOBook(y) /\ FileIO(file, d, y)
  BY <1>1, <1>3, <1>6 DEF IOBook, FileIO
<1>16. \A e \in Stripe : IOBook(io'[e]) /\ FileIO(file', e, io'[e])
  <2> TAKE e \in Stripe
  <2>1. IOBook(io[e]) /\ FileIO(file, e, io[e]) /\ file' = file
    BY <1>4, IONow
  <2> QED BY <1>5, <1>15, <2>1
<1>17. CTBook(ct') /\ rq' = rq
  BY <1>4 DEF Books
<1> QED BY <1>12, <1>13, <1>14, <1>16, <1>17, MovedBooks

\* The completion thread takes what is in its queue.
LEMMA TakeTcbsBook == ASSUME IInv, IInv', Books, TakeTcbs PROVE Books'
<1>1. ct \in CTRec /\ CTBook(ct) /\ ct.pc = "wait" /\ UNCHANGED <<file, rq, app, io>>
  BY DEF IInv, CTOK, Books, TakeTcbs
<1>2. PICK b : b = (Len(ct.queue) >= GroupFrom)
  OBVIOUS
<1>3. PICK pc : pc = IF ct.queue = <<>> THEN "wait" ELSE "notify"
  OBVIOUS
<1>4. ct' = [ct EXCEPT !.act = FALSE, !.pc = pc, !.queue = <<>>, !.tcbs = ct.queue, !.grouped = b]
  BY <1>2, <1>3, Zenon DEF TakeTcbs
<1>5. ct'.pc = pc /\ ct'.queue = <<>> /\ ct'.tcbs = ct.queue
  BY <1>1, <1>4 DEF CTRec
<1>6. CTBook(ct') /\ ct.tcbs = <<>>
  BY <1>1, <1>3, <1>5, ShortSets DEF CTBook
<1>7. /\ InCTQueue = ToSet(ct.queue) /\ InCTTcbs = {} /\ InCTQueue' = {} /\ InCTTcbs' = ToSet(ct.queue)
  BY <1>5, <1>6, CTBoxes, ShortSets
<1>8. PICK X : X = ToSet(ct.queue)
  OBVIOUS
<1>9. /\ InSender' = InSender /\ InComplete' = InComplete /\ InQueue' = InQueue /\ InLocal' = InLocal
      /\ InKernel' = InKernel /\ InFinished' = InFinished /\ InTcbs' = InTcbs
  BY <1>1 DEF InSender, InComplete, InQueue, InLocal, InKernel, InFinished, InTcbs
<1>10. MoveOf(Boxes, Boxes', 7, 8, 9, X, {})
  <2>1. /\ Boxes'[7] = Boxes[7] \ (X \cup {}) /\ X \cup {} \subseteq Boxes[7]
        /\ Boxes'[8] = Boxes[8] \cup X /\ Boxes'[9] = Boxes[9] \cup {}
    BY <1>7, <1>8, <1>9, BoxAt
  <2>2. \A l \in 1 .. 9 : l # 7 /\ l # 8 /\ l # 9 => Boxes'[l] = Boxes[l]
    BY <1>9, BoxAt, Nine
  <2> QED BY <2>1, <2>2 DEF MoveOf
<1>11. {7, 8, 9} \subseteq 1 .. 4 \/ {7, 8, 9} \cap (1 .. 4) = {}
  OBVIOUS
<1>12. /\ \A a \in App : AppBook(a, app'[a]) /\ CountBook(a, app'[a], rq, Under) /\ FileApp(file', app'[a])
       /\ file'.pc = "opened" => file'.op = "open"
  BY <1>1, SameApps
<1>13. \A e \in Stripe : IOBook(io'[e]) /\ FileIO(file', e, io'[e])
  BY <1>1, IONow
<1>14. rq' = rq
  BY <1>1
<1> QED BY <1>6, <1>10, <1>11, <1>12, <1>13, <1>14, MovedBooks

\* complete_queue.add, by the completion thread.
LEMMA NotifyByCTBook == ASSUME IInv, IInv', Books, NotifyByCT PROVE Books'
<1>1. PICK x : /\ x = ct /\ x \in CTRec /\ CTBook(x) /\ x.pc = "notify"
               /\ x.tcbs # <<>> /\ x.tcbs \in Seq(Part) /\ Single(x.tcbs) /\ Single(x.queue)
  BY DEF NotifyByCT, IInv, CTOK, HandsOK, CTRec, Books, CTBook
<1>2. PICK to, g, u : to = Head(x.tcbs).req[1] /\ g = Group(x) /\ u = Ungrouped(x)
  OBVIOUS
<1>3. /\ g \in Seq(Part) /\ u \in Seq(Part) /\ Single(g) /\ Single(u)
      /\ ToSet(g) \cap ToSet(u) = {} /\ ToSet(g) \cup ToSet(u) = ToSet(x.tcbs)
      /\ to \in App /\ \A p \in ToSet(g) : p.req[1] = to
  <2>1. Part \subseteq Part
    OBVIOUS
  <2> QED BY <1>1, <1>2, <2>1, GroupBook
<1>4. app' = [app EXCEPT ![to].complete = @ \o g] /\ UNCHANGED <<file, rq, io>>
  <2>1. Notify(x) /\ UNCHANGED <<file, rq, io>>
    BY <1>1 DEF NotifyByCT
  <2>2. app' = [app EXCEPT ![Head(x.tcbs).req[1]].complete = @ \o Group(x)]
    BY <2>1, Zenon DEF Notify
  <2> QED BY <1>2, <2>1, <2>2, Zenon
<1>5. ct' = [x EXCEPT !.pc = "notified", !.to = to, !.tcbs = u]
  BY <1>1, <1>2 DEF NotifyByCT, Notified
<1>6. ct'.pc = "notified" /\ ct'.queue = x.queue /\ ct'.tcbs = u
  BY <1>1, <1>5 DEF CTRec
<1>7. CTBook(ct')
  BY <1>1, <1>3, <1>6 DEF CTBook
<1>8. InCTTcbs' = InCTTcbs \ ToSet(g) /\ ToSet(g) \subseteq InCTTcbs /\ InCTQueue' = InCTQueue
  BY <1>1, <1>3, <1>6, CTBoxes
<1>9. /\ InQueue' = InQueue /\ InLocal' = InLocal /\ InKernel' = InKernel /\ InFinished' = InFinished /\ InTcbs' = InTcbs
  BY <1>4 DEF InQueue, InLocal, InKernel, InFinished, InTcbs
<1>10. ToSet(g) \cap InComplete = {}
  <2>1. Boxes[8] \cap Boxes[9] = {}
    BY BoxesApart
  <2> QED BY <1>8, <2>1, BoxAt
<1>11. /\ \A a \in App : AppBook(a, app'[a]) /\ CountBook(a, app'[a], rq, Under) /\ FileApp(file', app'[a])
       /\ InComplete' = InComplete \cup ToSet(g) /\ InSender' = InSender
       /\ file'.pc = "opened" => file'.op = "open"
  <2>1. file' = file
    BY <1>4
  <2> QED BY <1>3, <1>4, <1>10, <2>1, NotifiedApps
<1>12. MoveOf(Boxes, Boxes', 8, 9, 5, ToSet(g), {})
  <2>1. /\ Boxes'[8] = Boxes[8] \ (ToSet(g) \cup {}) /\ ToSet(g) \cup {} \subseteq Boxes[8]
        /\ Boxes'[9] = Boxes[9] \cup ToSet(g) /\ Boxes'[5] = Boxes[5] \cup {}
    BY <1>8, <1>9, <1>11, BoxAt
  <2>2. \A l \in 1 .. 9 : l # 8 /\ l # 9 /\ l # 5 => Boxes'[l] = Boxes[l]
    BY <1>8, <1>9, <1>11, BoxAt, Nine
  <2> QED BY <2>1, <2>2 DEF MoveOf
<1>13. {8, 9, 5} \subseteq 1 .. 4 \/ {8, 9, 5} \cap (1 .. 4) = {}
  OBVIOUS
<1>14. \A e \in Stripe : IOBook(io'[e]) /\ FileIO(file', e, io'[e])
  BY <1>4, IONow
<1>15. rq' = rq
  BY <1>4
<1> QED BY <1>7, <1>11, <1>12, <1>13, <1>14, <1>15, MovedBooks

\* flush_requests moves what a sender has to the queue of its disk.
LEMMA FlushBook == ASSUME IInv, IInv', Books, NEW a \in App, Flush(a) PROVE Books'
<1>a. app[a].pc = "flush"
  BY Zenon DEF Flush
<1>1. PICK x : /\ x = app[a] /\ AppOK(x) /\ x \in AppRec(x) /\ x.pc = "flush" /\ DOMAIN app = App
               /\ AppBook(a, x) /\ CountBook(a, x, rq, Under)
  BY <1>a, AppNow DEF IInv, AppsOK
<1>2. PICK d \in Stripe : d = Min({e \in Stripe : app[a].senders[e] # <<>>})
  <2>1. PICK T : T = {e \in Stripe : x.senders[e] # <<>>}
    OBVIOUS
  <2>2. T # {} /\ T \subseteq Stripe
    BY <1>1, <2>1 DEF AppOK
  <2>3. T \subseteq Nat
    BY <2>2, Params DEF Stripe
  <2>4. Min(T) \in T
    BY <2>2, <2>3, MinOf
  <2> QED BY <1>1, <2>1, <2>2, <2>4
<1>3. PICK s \in Seq(PartAt(d)) : s = x.senders[d] /\ Single(s)
  BY <1>1 DEF AppOK, AppBook
<1>4. /\ app' = [app EXCEPT ![a].senders[d] = <<>>, ![a].disk = d, ![a].pc = "flushed"]
      /\ io' = [io EXCEPT ![d].queue = @ \o app[a].senders[d]]
      /\ UNCHANGED <<file, rq, ct>>
  BY <1>2, Zenon DEF Flush
<1>5. PICK f : f = [x.senders EXCEPT ![d] = <<>>] /\ f[d] = <<>> /\ \A e \in Stripe : e # d => f[e] = x.senders[e]
  <2>1. x.senders \in [Stripe -> Seq(Part)]
    BY <1>1 DEF AppRec
  <2>2. PICK f : f = [x.senders EXCEPT ![d] = <<>>]
    OBVIOUS
  <2>3. f[d] = <<>> /\ \A e \in Stripe : e # d => f[e] = x.senders[e]
    BY <2>1, <2>2
  <2> QED BY <2>2, <2>3
<1>6. PICK y : y = app'[a] /\ y = [x EXCEPT !.senders = f, !.disk = d, !.pc = "flushed"] /\ \A b \in App \ {a} : app'[b] = app[b]
  <2>1. app' = [app EXCEPT ![a] = [x EXCEPT !.senders = f, !.disk = d, !.pc = "flushed"]]
    BY <1>1, <1>4, <1>5 DEF AppRec
  <2> QED BY <1>1, <2>1
<1>7. /\ y.pc = "flushed" /\ y.senders = f /\ y.complete = x.complete /\ y.calls = x.calls /\ y.batch = x.batch
      /\ y.ret = x.ret /\ y.mode = x.mode /\ y.issued = x.issued /\ y.completed = x.completed
  BY <1>1, <1>6 DEF AppRec
<1>8. AppBook(a, y)
  <2>1. \A e \in Stripe : Single(y.senders[e]) /\ \A p \in ToSet(y.senders[e]) : p.req[1] = a
    <3> TAKE e \in Stripe
    <3>1. Single(x.senders[e]) /\ \A p \in ToSet(x.senders[e]) : p.req[1] = a
      BY <1>1 DEF AppBook
    <3> QED BY <1>5, <1>7, <3>1, ShortSets
  <2>2. /\ Single(y.complete) /\ Single(y.calls) /\ (\A p \in ToSet(y.complete) : p.req[1] = a)
        /\ (\A r \in ToSet(y.calls) : r[1] = a) /\ y.mode \in {"none", "wait", "select"}
        /\ y.ret = "call" \/ (y.calls = <<>> /\ y.batch = 0)
    BY <1>1, <1>7 DEF AppBook
  <2> QED BY <1>7, <2>1, <2>2 DEF AppBook
<1>9. CountBook(a, y, rq, Under)
  BY <1>1, <1>7, CountSame
<1>10. FileApp(file, y)
  BY <1>1, <1>7, GoesOn
<1>11. PICK w : w = io[d] /\ w \in IORec(d) /\ IOBook(w) /\ FileIO(file, d, w) /\ DOMAIN io = Stripe
  BY IONow
<1>12. PICK z : z = io'[d] /\ z = [w EXCEPT !.queue = w.queue \o s] /\ \A e \in Stripe \ {d} : io'[e] = io[e]
  BY <1>1, <1>3, <1>4, <1>11
<1>13. /\ z.queue = w.queue \o s /\ z.pc = w.pc /\ z.local = w.local /\ z.kernel = w.kernel /\ z.finished = w.finished
       /\ z.tcbs = w.tcbs /\ z.comm = w.comm /\ z.open = w.open /\ z.ret = w.ret
  BY <1>11, <1>12 DEF IORec
<1>14. /\ InQueue' = (InQueue \ ToSet(io[d].queue)) \cup ToSet(io'[d].queue) /\ ToSet(io[d].queue) \subseteq InQueue
       /\ InLocal' = (InLocal \ ToSet(io[d].local)) \cup ToSet(io'[d].local) /\ ToSet(io[d].local) \subseteq InLocal
       /\ InKernel' = (InKernel \ io[d].kernel) \cup io'[d].kernel /\ io[d].kernel \subseteq InKernel
       /\ InFinished' = (InFinished \ ToSet(io[d].finished)) \cup ToSet(io'[d].finished)
       /\ ToSet(io[d].finished) \subseteq InFinished
       /\ InTcbs' = (InTcbs \ ToSet(io[d].tcbs)) \cup ToSet(io'[d].tcbs) /\ ToSet(io[d].tcbs) \subseteq InTcbs
  BY <1>12, IOBoxes
<1>15. /\ InComplete' = (InComplete \ ToSet(app[a].complete)) \cup ToSet(app'[a].complete)
       /\ ToSet(app[a].complete) \subseteq InComplete
       /\ \A p \in Part : p.req[1] # a => (p \in InSender' <=> p \in InSender)
       /\ \A p \in Part : p.req[1] = a => /\ p \in InSender <=> p \in ToSet(app[a].senders[DiskOf(p)])
                                          /\ p \in InSender' <=> p \in ToSet(app'[a].senders[DiskOf(p)])
  <2>1. AppBook(a, app[a]) /\ AppBook(a, app'[a])
    BY <1>1, <1>6, <1>8
  <2> QED BY <1>6, <2>1, AppBoxes
<1>16. ToSet(s) \subseteq Part /\ \A p \in ToSet(s) : DiskOf(p) = d /\ p.req[1] = a
  <2>1. ToSet(s) \subseteq PartAt(d)
    BY SetOfSeq
  <2> QED BY <1>1, <1>3, <2>1, PartAtPart DEF AppBook
<1>17. InSender' = InSender \ ToSet(s) /\ ToSet(s) \subseteq InSender
  <2>1. ToSet(s) \subseteq InSender
    BY <1>1, <1>3, <1>15, <1>16
  <2>2. ASSUME NEW p \in Part PROVE p \in InSender' <=> (p \in InSender /\ p \notin ToSet(s))
    <3>1. CASE p.req[1] # a
      BY <1>15, <1>16, <3>1
    <3>2. CASE p.req[1] = a /\ DiskOf(p) = d
      <4>1. p \notin InSender'
        BY <1>5, <1>6, <1>7, <1>15, <3>2, ShortSets
      <4> QED BY <1>1, <1>3, <1>15, <3>2, <4>1
    <3>3. CASE p.req[1] = a /\ DiskOf(p) # d
      <4>1. DiskOf(p) \in Stripe
        BY PartHome
      <4> QED BY <1>1, <1>5, <1>6, <1>7, <1>15, <1>16, <3>3, <4>1
    <3> QED BY <3>1, <3>2, <3>3
  <2>3. InSender \subseteq Part /\ InSender' \subseteq Part
    BY DEF InSender
  <2> QED BY <2>1, <2>2, <2>3
<1>18. InComplete' = InComplete
  <2>1. app'[a].complete = app[a].complete
    BY <1>1, <1>6, <1>7
  <2> QED BY ONLY <1>15, <2>1
<1>19. InLocal' = InLocal /\ InKernel' = InKernel /\ InFinished' = InFinished /\ InTcbs' = InTcbs
  BY <1>11, <1>12, <1>13, <1>14
<1>20. InCTQueue' = InCTQueue /\ InCTTcbs' = InCTTcbs
  BY <1>4 DEF InCTQueue, InCTTcbs
<1>21. ToSet(z.queue) = ToSet(w.queue) \cup ToSet(s) /\ Single(z.queue)
  <2>1. ToSet(w.queue) \cap ToSet(s) = {}
    <3>1. Boxes[1] \cap Boxes[2] = {}
      BY BoxesApart
    <3> QED BY <1>11, <1>14, <1>17, <3>1, BoxAt
  <2>2. w.queue \in Seq(PartAt(d)) /\ Single(w.queue)
    BY <1>11 DEF IORec, IOBook
  <2> QED BY <1>3, <1>13, <2>1, <2>2, CatSets
<1>22. InQueue' = InQueue \cup ToSet(s)
  BY <1>11, <1>12, <1>14, <1>21
<1>23. MoveOf(Boxes, Boxes', 1, 2, 3, ToSet(s), {})
  <2>1. /\ Boxes'[1] = Boxes[1] \ (ToSet(s) \cup {}) /\ ToSet(s) \cup {} \subseteq Boxes[1]
        /\ Boxes'[2] = Boxes[2] \cup ToSet(s) /\ Boxes'[3] = Boxes[3] \cup {}
    BY <1>17, <1>19, <1>22, BoxAt
  <2>2. \A l \in 1 .. 9 : l # 1 /\ l # 2 /\ l # 3 => Boxes'[l] = Boxes[l]
    BY <1>18, <1>19, <1>20, BoxAt, Nine
  <2> QED BY <2>1, <2>2 DEF MoveOf
<1>24. {1, 2, 3} \subseteq 1 .. 4 \/ {1, 2, 3} \cap (1 .. 4) = {}
  OBVIOUS
<1>25. \A b \in App : AppBook(b, app'[b]) /\ CountBook(b, app'[b], rq, Under) /\ FileApp(file', app'[b])
  <2> TAKE b \in App
  <2>0. file' = file
    BY <1>4
  <2>1. CASE b = a
    BY <1>6, <1>8, <1>9, <1>10, <2>0, <2>1
  <2>2. CASE b # a
    BY <1>6, <2>0, <2>2 DEF Books
  <2> QED BY <2>1, <2>2
<1>26. \A e \in Stripe : IOBook(io'[e]) /\ FileIO(file', e, io'[e])
  <2>1. IOBook(z) /\ FileIO(file, d, z)
    BY <1>11, <1>13, <1>21 DEF IOBook, FileIO
  <2> TAKE e \in Stripe
  <2>2. IOBook(io[e]) /\ FileIO(file, e, io[e]) /\ file' = file
    BY <1>4, IONow
  <2> QED BY <1>12, <2>1, <2>2
<1>27. CTBook(ct') /\ rq' = rq /\ (file'.pc = "opened" => file'.op = "open")
  BY <1>4 DEF Books
<1> QED BY <1>23, <1>24, <1>25, <1>26, <1>27, MovedBooks

-------------------------------------------------------------------------------
(* The kernel moves pages                                                  *)

\* The requests of a thread, by their numbers.
LEMMA ReqOf == ASSUME NEW a \in App, NEW i \in 1 .. MaxReqs[a] PROVE <<a, i>> \in Req
<1>1. <<a, i>> \in {a} \X (1 .. MaxReqs[a])
  OBVIOUS
<1> QED BY <1>1, Zenon DEF Req

\* The counters depend on the states of the requests only.
LEMMA CountStates ==
    ASSUME NEW a \in App, NEW x, NEW q, NEW s, NEW U, CountBook(a, x, q, U), ToSet(x.calls) \subseteq Req,
           \A r \in Req : s[r].state = q[r].state
    PROVE  CountBook(a, x, s, U)
<1>1. Open(a, s) = Open(a, q)
  BY DEF Open
<1>2. x.issued \in Nat /\ MaxReqs[a] \in Nat
  BY DiskIOAssumption DEF CountBook
<1>3. ASSUME NEW i \in x.issued + 1 .. MaxReqs[a] PROVE s[<<a, i>>].state = "new"
  <2>1. i \in 1 .. MaxReqs[a]
    BY <1>2
  <2>2. <<a, i>> \in Req
    BY <2>1, ReqOf
  <2>3. q[<<a, i>>].state = "new"
    BY DEF CountBook
  <2> QED BY <2>2, <2>3
<1>4. \A r \in ToSet(x.calls) : s[r].state = "issued"
  BY DEF CountBook
<1> QED BY <1>1, <1>3, <1>4 DEF CountBook

\* The pages of the other parts of a request.
LEMMA OfWithout == ASSUME NEW r, NEW S, NEW p \in S, NEW T, S \subseteq T, Apart(T)
                   PROVE Of(r, S \ {p}) = IF p.req = r THEN Of(r, S) \ PartPages(p) ELSE Of(r, S)
<1>1. ASSUME NEW x PROVE x \in Of(r, S \ {p}) <=> \E q \in S : q # p /\ q.req = r /\ x \in PartPages(q)
  BY OfIn
<1>2. ASSUME NEW x PROVE x \in Of(r, S) <=> \E q \in S : q.req = r /\ x \in PartPages(q)
  BY OfIn
<1>3. \A q \in S : q # p /\ q.req = p.req => PartPages(q) \cap PartPages(p) = {}
  BY DEF Apart
<1>4. CASE p.req # r
  BY <1>1, <1>2, <1>4
<1>5. CASE p.req = r
  <2>1. \A x : x \in Of(r, S \ {p}) <=> x \in Of(r, S) /\ x \notin PartPages(p)
    <3> TAKE x
    <3>1. x \in Of(r, S \ {p}) => x \in Of(r, S) /\ x \notin PartPages(p)
      BY <1>1, <1>2, <1>3, <1>5
    <3>2. x \in Of(r, S) /\ x \notin PartPages(p) => x \in Of(r, S \ {p})
      BY <1>1, <1>2
    <3> QED BY <3>1, <3>2
  <2> QED BY <1>5, <2>1
<1> QED BY <1>4, <1>5

\* Parts that are no longer early.
LEMMA EarlyLess ==
    ASSUME NEW B, NEW C, NEW p, Disjoint(B), p \in B[4], C[4] = B[4] \ {p}, \A l \in 1 .. 3 : C[l] = B[l]
    PROVE  First4(C) = First4(B) \ {p}
<1>1. \A l \in 1 .. 4 : l \in 1 .. 9 /\ (l = 4 \/ l \in 1 .. 3)
  OBVIOUS
<1>2. \A l \in 1 .. 3 : l \in 1 .. 9 /\ l # 4
  OBVIOUS
<1>3. \A l \in 1 .. 3 : p \notin B[l]
  BY <1>2 DEF Disjoint
<1>4. \A l \in 1 .. 4 : C[l] = B[l] \ {p}
  BY <1>1, <1>3
<1> QED BY <1>4 DEF First4

\* The kernel moves the pages of a part.
LEMMA KernelDoneBook == ASSUME IInv, IInv', Books, NEW d \in Stripe, KernelDone(d) PROVE Books'
<1>1. PICK x : x = io[d] /\ x \in IORec(d) /\ IOBook(x) /\ FileIO(file, d, x) /\ DOMAIN io = Stripe
  BY IONow
<1>2. PICK p \in x.kernel : /\ io' = [io EXCEPT ![d].kernel = @ \ {p}, ![d].finished = Append(@, p)]
                            /\ rq' = [rq EXCEPT ![p.req].moved = @ \cup PartPages(p)]
                            /\ UNCHANGED <<file, app, ct>>
  BY <1>1 DEF KernelDone
<1>3. PICK y : y = io'[d] /\ y = [x EXCEPT !.kernel = x.kernel \ {p}, !.finished = Append(x.finished, p)] /\ \A e \in Stripe \ {d} : io'[e] = io[e]
  BY <1>1, <1>2
<1>4. /\ y.pc = x.pc /\ y.queue = x.queue /\ y.local = x.local /\ y.kernel = x.kernel \ {p} /\ y.finished = Append(x.finished, p)
      /\ y.tcbs = x.tcbs /\ y.comm = x.comm /\ y.open = x.open /\ y.ret = x.ret
  BY <1>1, <1>3 DEF IORec
<1>5. p \in PartAt(d) /\ p \in Part /\ x.finished \in Seq(PartAt(d)) /\ x.kernel \subseteq PartAt(d) /\ Single(x.finished)
  BY <1>1, PartAtPart DEF IORec, IOBook
<1>6. /\ InQueue' = (InQueue \ ToSet(io[d].queue)) \cup ToSet(io'[d].queue) /\ ToSet(io[d].queue) \subseteq InQueue
      /\ InLocal' = (InLocal \ ToSet(io[d].local)) \cup ToSet(io'[d].local) /\ ToSet(io[d].local) \subseteq InLocal
      /\ InKernel' = (InKernel \ io[d].kernel) \cup io'[d].kernel /\ io[d].kernel \subseteq InKernel
      /\ InFinished' = (InFinished \ ToSet(io[d].finished)) \cup ToSet(io'[d].finished)
      /\ ToSet(io[d].finished) \subseteq InFinished
      /\ InTcbs' = (InTcbs \ ToSet(io[d].tcbs)) \cup ToSet(io'[d].tcbs) /\ ToSet(io[d].tcbs) \subseteq InTcbs
  BY <1>3, IOBoxes
<1>7. p \in InKernel /\ p \notin InFinished
  <2>1. Boxes[4] \cap Boxes[5] = {}
    BY BoxesApart
  <2> QED BY <1>1, <1>6, <2>1, BoxAt
<1>8. ToSet(y.finished) = ToSet(x.finished) \cup {p} /\ Single(y.finished)
  <2>1. Append(x.finished, p) = x.finished \o <<p>> /\ <<p>> \in Seq(PartAt(d))
    BY <1>5
  <2>2. Single(<<p>>) /\ ToSet(<<p>>) = {p}
    BY ShortSets
  <2>3. ToSet(x.finished) \cap {p} = {}
    BY <1>1, <1>6, <1>7
  <2>a. PICK f \in Seq(PartAt(d)), o \in Seq(PartAt(d)) :
           f = x.finished /\ o = <<p>> /\ Single(f) /\ Single(o) /\ ToSet(f) \cap ToSet(o) = {} /\ ToSet(o) = {p}
    BY <1>5, <2>1, <2>2, <2>3
  <2>b. ToSet(f \o o) = ToSet(f) \cup ToSet(o) /\ Single(f \o o)
    <3>1. PICK S : S = PartAt(d)
      OBVIOUS
    <3>2. f \in Seq(S) /\ o \in Seq(S) /\ Single(f) /\ Single(o) /\ ToSet(f) \cap ToSet(o) = {}
      BY <2>a, <3>1
    <3> QED BY ONLY <3>2, CatSets
  <2>4. ToSet(x.finished \o <<p>>) = ToSet(x.finished) \cup {p} /\ Single(x.finished \o <<p>>)
    BY ONLY <2>a, <2>b, Zenon
  <2> QED BY <1>4, <2>1, <2>4
<1>9. InKernel' = InKernel \ {p} /\ InFinished' = InFinished \cup {p}
  BY <1>1, <1>3, <1>4, <1>6, <1>8
<1>10. InQueue' = InQueue /\ InLocal' = InLocal /\ InTcbs' = InTcbs
  <2>1. io'[d].queue = io[d].queue /\ io'[d].local = io[d].local /\ io'[d].tcbs = io[d].tcbs
    BY <1>1, <1>3, <1>4
  <2> QED BY ONLY <1>6, <2>1
<1>11. InSender' = InSender /\ InComplete' = InComplete /\ InCTQueue' = InCTQueue /\ InCTTcbs' = InCTTcbs
  BY <1>2 DEF InSender, InComplete, InCTQueue, InCTTcbs
<1>12. MoveOf(Boxes, Boxes', 4, 5, 6, {p}, {})
  <2>1. /\ Boxes'[4] = Boxes[4] \ ({p} \cup {}) /\ {p} \cup {} \subseteq Boxes[4]
        /\ Boxes'[5] = Boxes[5] \cup {p} /\ Boxes'[6] = Boxes[6] \cup {}
    BY <1>7, <1>9, <1>10, BoxAt
  <2>2. \A l \in 1 .. 9 : l # 4 /\ l # 5 /\ l # 6 => Boxes'[l] = Boxes[l]
    BY <1>10, <1>11, BoxAt, Nine
  <2> QED BY <2>1, <2>2 DEF MoveOf
<1>13. PICK U, E : U = Under /\ E = Early /\ U \subseteq Part /\ E \subseteq U /\ Apart(U) /\ p \in E
  <2>1. Under \subseteq Part /\ Early \subseteq Under
    BY UnderParts
  <2>2. p \in Early
    <3>1. p \in Boxes[4] /\ 4 \in 1 .. 4
      BY <1>7, BoxAt
    <3> QED BY <3>1 DEF Early, First4
  <2> QED BY <2>1, <2>2 DEF Books
<1>14. Disjoint(Boxes') /\ Under' = U /\ Early' = E \ {p}
  <2>1. Disjoint(Boxes)
    BY DEF Books
  <2>2. PICK B, C : B = Boxes /\ C = Boxes' /\ Disjoint(B) /\ MoveOf(B, C, 4, 5, 6, {p}, {})
    BY <1>12, <2>1
  <2>3. Disjoint(C) /\ All(C) = All(B)
    BY <2>2, Moved
  <2>4. p \in B[4] /\ C[4] = B[4] \ {p} /\ \A l \in 1 .. 3 : C[l] = B[l]
    BY <1>7, <1>9, <1>10, <1>11, <2>2, BoxAt
  <2>5. First4(C) = First4(B) \ {p}
    BY <2>2, <2>4, EarlyLess
  <2> QED BY <1>13, <2>2, <2>3, <2>5 DEF Under, Early
<1>15. PICK r \in Req : r = p.req /\ DOMAIN rq = Req
  BY <1>5, PartHome DEF Books
<1>16. /\ rq'[r] = [rq[r] EXCEPT !.moved = rq[r].moved \cup PartPages(p)]
       /\ DOMAIN rq' = Req /\ \A s \in Req : s # r => rq'[s] = rq[s]
  BY <1>2, <1>15
<1>17. RqBook(r, rq'[r], U, E \ {p})
  <2>1. PICK q : q = rq[r] /\ RqBook(r, q, U, E)
    BY <1>13 DEF Books
  <2>2. PICK m : m = q.moved \cup PartPages(p)
    OBVIOUS
  <2>3. PICK s : s = rq'[r] /\ s = [q EXCEPT !.moved = m]
    BY <1>16, <2>1, <2>2
  <2>4. /\ q.state \in {"new", "issued", "done"} /\ q.off \in Nat /\ q.size \in Nat /\ q.left \in Nat /\ q.moved \subseteq Nat
        /\ q \in RqRec
    BY <2>1 DEF RqBook, RqRec
  <2>5. PartPages(p) \subseteq Nat
    BY <1>5, PartCount
  <2>6. s.state = q.state /\ s.off = q.off /\ s.size = q.size /\ s.left = q.left /\ s.moved = m /\ s \in RqRec
    BY <2>2, <2>3, <2>4, <2>5 DEF RqRec
  <2>7. PartPages(p) \subseteq Of(r, U)
    BY <1>13, <1>15, OfIn
  <2>8. Of(r, E \ {p}) = Of(r, E) \ PartPages(p)
    BY <1>13, <1>15, OfWithout
  <2>9. s.moved = Pages(s.off, s.size) \ Of(r, E \ {p})
    <3>1. q.moved = Pages(q.off, q.size) \ Of(r, E) /\ Of(r, U) \subseteq Pages(q.off, q.size)
      BY <2>1 DEF RqBook
    <3> QED BY <2>2, <2>6, <2>7, <2>8, <3>1
  <2>10. RqBook(r, s, U, E \ {p})
    BY <2>1, <2>6, <2>9 DEF RqBook
  <2> QED BY <2>3, <2>10
<1>18. \A s \in Req : RqBook(s, rq'[s], U, E \ {p})
  <2> TAKE s \in Req
  <2>1. CASE s = r
    BY <1>17, <2>1
  <2>2. CASE s # r
    <3>1. RqBook(s, rq[s], U, E) /\ rq'[s] = rq[s]
      BY <1>13, <1>16, <2>2 DEF Books
    <3>2. Of(s, E \ {p}) = Of(s, E)
      BY <1>13, <1>15, <2>2, OfWithout
    <3> QED BY <3>1, <3>2 DEF RqBook
  <2> QED BY <2>1, <2>2
<1>19. \A s \in Req : rq'[s].state = rq[s].state
  <2>1. rq[r] \in RqRec
    BY DEF Books, RqBook
  <2>2. rq'[r].state = rq[r].state
    BY <1>16, <2>1 DEF RqRec
  <2> QED BY <1>16, <2>2
<1>20. \A a \in App : AppBook(a, app'[a]) /\ CountBook(a, app'[a], rq', Under') /\ FileApp(file', app'[a])
  <2> TAKE a \in App
  <2>1. app'[a] = app[a] /\ file' = file /\ Under' = Under
    BY <1>2, <1>13, <1>14
  <2>2. AppBook(a, app[a]) /\ CountBook(a, app[a], rq, Under) /\ FileApp(file, app[a]) /\ ToSet(app[a].calls) \subseteq Req
    BY PlaceSets, AppNow
  <2>3. CountBook(a, app[a], rq', Under)
    BY <1>19, <2>2, CountStates
  <2> QED BY <2>1, <2>2, <2>3
<1>21. \A e \in Stripe : IOBook(io'[e]) /\ FileIO(file', e, io'[e])
  <2>1. IOBook(y) /\ FileIO(file, d, y)
    BY <1>1, <1>4, <1>8 DEF IOBook, FileIO
  <2> TAKE e \in Stripe
  <2>2. IOBook(io[e]) /\ FileIO(file, e, io[e]) /\ file' = file
    BY <1>2, IONow
  <2> QED BY <1>3, <2>1, <2>2
<1>22. CTBook(ct') /\ (file'.pc = "opened" => file'.op = "open")
  BY <1>2 DEF Books
<1> QED BY <1>13, <1>14, <1>16, <1>18, <1>20, <1>21, <1>22 DEF Books

-------------------------------------------------------------------------------
(* Requests that are issued and reported                                   *)

\* The pages of a request are as many as its size says.
LEMMA PageCount == ASSUME NEW off \in Nat, NEW size \in Nat \ {0}
                   PROVE Cardinality(Pages(off, size)) = size /\ Pages(off, size) \subseteq Nat
<1>1. PICK h \in Nat : h = off + size - 1
  OBVIOUS
<1>2. IsFiniteSet(off .. h) /\ Cardinality(off .. h) = IF off > h THEN 0 ELSE h - off + 1
  BY FS_Interval
<1>3. ~(off > h) /\ h - off + 1 = size /\ off .. h \subseteq Nat
  BY <1>1
<1> QED BY <1>1, <1>2, <1>3 DEF Pages

\* A request that is about to be issued, of which no part is under way.
Fresh(r, off, size, U, E) ==
    /\ r \in Req /\ off \in Nat /\ size \in Nat \ {0} /\ off + size <= FilePages /\ <<off, size>> \in Extents[r[1]]
    /\ U \subseteq Part /\ Of(r, U) = {} /\ Apart(U) /\ E \subseteq U

\* Its parts P, among those that are.
NewIn(r, off, size, U, E, P) ==
    /\ P \subseteq Part /\ P \cap U = {} /\ Apart(U \cup P) /\ (\A p \in P : p.req = r)
    /\ RqBook(r, Issued(off, size), U \cup P, E \cup P)
    /\ \A s : s # r => Of(s, U \cup P) = Of(s, U) /\ Of(s, E \cup P) = Of(s, E)

\* The parts of a new request.
LEMMA NewParts ==
    ASSUME NEW r, NEW off, NEW size, NEW U, NEW E, Fresh(r, off, size, U, E)
    PROVE  NewIn(r, off, size, U, E, ToSet(Split(r, off, size)))
<1>0. /\ r \in Req /\ off \in Nat /\ size \in Nat \ {0} /\ off + size <= FilePages /\ <<off, size>> \in Extents[r[1]]
      /\ U \subseteq Part /\ Of(r, U) = {} /\ Apart(U) /\ E \subseteq U
  BY DEF Fresh
<1>a. PICK P : P = ToSet(Split(r, off, size))
  OBVIOUS
<1>1. PICK s : s = Split(r, off, size)
  OBVIOUS
<1>2. /\ s \in Seq(Part) /\ Single(s) /\ (\A p \in ToSet(s) : p.req = r)
      /\ (\A p, q \in ToSet(s) : p # q => PartPages(p) \cap PartPages(q) = {})
      /\ Of(r, ToSet(s)) = Pages(off, size)
      /\ (BlockIdx(off) = BlockIdx(off + size - 1) => \A p \in ToSet(s) : PartPages(p) = Pages(off, size))
  BY <1>0, <1>1, SplitParts
<1>3. P = ToSet(s) /\ P \subseteq Part
  BY <1>a, <1>1, <1>2, SetOfSeq
<1>4. ASSUME NEW p \in U PROVE p.req # r
  <2>1. p.off \in PartPages(p)
    BY <1>0, PartCount
  <2> QED BY <1>0, <2>1, OfIn
<1>5. P \cap U = {}
  BY <1>2, <1>3, <1>4
<1>6. Apart(U \cup P)
  <2> SUFFICES ASSUME NEW p \in U \cup P, NEW q \in U \cup P, p.req = q.req, p # q PROVE PartPages(p) \cap PartPages(q) = {}
    BY DEF Apart
  <2>1. CASE p.req = r
    BY <1>2, <1>3, <1>4, <2>1
  <2>2. CASE p.req # r
    <3>1. p \in U /\ q \in U
      BY <1>2, <1>3, <2>2
    <3> QED BY <1>0, <3>1 DEF Apart
  <2> QED BY <2>1, <2>2
<1>7. Of(r, P) = Pages(off, size)
  BY <1>2, <1>3
<1>8. Of(r, U \cup P) = Pages(off, size)
  <2>1. Of(r, U \cup P) = Of(r, U) \cup Of(r, P)
    BY OfUnion
  <2> QED BY <1>0, <1>7, <2>1
<1>9. Of(r, E \cup P) = Pages(off, size)
  <2>1. Of(r, E \cup P) = Of(r, E) \cup Of(r, P)
    BY OfUnion
  <2>2. Of(r, E) = {}
    BY <1>0, <1>4, OfIn
  <2> QED BY <1>7, <2>1, <2>2
<1>10. ASSUME NEW t, t # r PROVE Of(t, U \cup P) = Of(t, U) /\ Of(t, E \cup P) = Of(t, E)
  <2>1. Of(t, P) = {}
    BY <1>2, <1>3, <1>10, OfIn
  <2>2. Of(t, U \cup P) = Of(t, U) \cup Of(t, P) /\ Of(t, E \cup P) = Of(t, E) \cup Of(t, P)
    BY OfUnion
  <2> QED BY <2>1, <2>2
<1>11. RqBook(r, Issued(off, size), U \cup P, E \cup P)
  <2>1. PICK q : q = Issued(off, size)
    OBVIOUS
  <2>2. q.state = "issued" /\ q.off = off /\ q.size = size /\ q.left = size /\ q.moved = {} /\ q \in RqRec
    BY <1>0, <2>1 DEF Issued, RqRec
  <2>3. Cardinality(Pages(off, size)) = size
    BY <1>0, PageCount
  <2>4. \A p \in U \cup P : p.req = r => p \in ToSet(s)
    BY <1>3, <1>4
  <2>5. RqBook(r, q, U \cup P, E \cup P)
    BY <1>0, <1>2, <1>8, <1>9, <2>2, <2>3, <2>4 DEF RqBook
  <2> QED BY <2>1, <2>5
<1> QED BY <1>a, <1>2, <1>3, <1>5, <1>6, <1>10, <1>11 DEF NewIn

\* A request whose parts stay where they are.
LEMMA OtherRequest ==
    ASSUME NEW s, NEW q, NEW U, NEW E, NEW V, NEW F, RqBook(s, q, U, E), Of(s, V) = Of(s, U), Of(s, F) = Of(s, E),
           \A p \in V : p.req = s => p \in U
    PROVE  RqBook(s, q, V, F)
BY DEF RqBook

\* A request that is reported.
LEMMA ReportedRequest ==
    ASSUME NEW s, NEW q, NEW U, NEW E, RqBook(s, q, U, E), q.state = "issued", Of(s, U) = {}
    PROVE  RqBook(s, [q EXCEPT !.state = "done"], U, E) /\ [q EXCEPT !.state = "done"].state = "done"
<1>1. PICK t : t = [q EXCEPT !.state = "done"]
  OBVIOUS
<1>2. q \in RqRec
  BY DEF RqBook
<1>3. t.state = "done" /\ t.off = q.off /\ t.size = q.size /\ t.left = q.left /\ t.moved = q.moved /\ t \in RqRec
  BY <1>1, <1>2 DEF RqRec
<1>4. RqBook(s, t, U, E)
  BY <1>3 DEF RqBook
<1> QED BY <1>1, <1>3, <1>4

\* The counters of a thread that does nothing.
LEMMA CountOther ==
    ASSUME NEW a \in App, NEW x, NEW q, NEW s, NEW U, NEW V, CountBook(a, x, q, U),
           ToSet(x.calls) \subseteq Req, \A r \in ToSet(x.calls) : r[1] = a,
           \A r \in Req : r[1] = a => s[r].state = q[r].state /\ Of(r, V) = Of(r, U)
    PROVE  CountBook(a, x, s, V)
<1>1. Open(a, s) = Open(a, q)
  BY DEF Open
<1>2. x.issued \in Nat /\ MaxReqs[a] \in Nat
  BY DiskIOAssumption DEF CountBook
<1>3. ASSUME NEW i \in x.issued + 1 .. MaxReqs[a] PROVE s[<<a, i>>].state = "new"
  <2>1. i \in 1 .. MaxReqs[a]
    BY <1>2
  <2>2. <<a, i>> \in Req /\ <<a, i>>[1] = a
    BY <2>1, ReqOf
  <2>3. q[<<a, i>>].state = "new"
    BY DEF CountBook
  <2> QED BY <2>2, <2>3
<1>4. \A r \in ToSet(x.calls) : s[r].state = "issued" /\ Of(r, V) = {}
  BY DEF CountBook
<1> QED BY <1>1, <1>3, <1>4 DEF CountBook

\* The counters when a request is issued.
LEMMA IssueCount ==
    ASSUME NEW a \in App, NEW x, NEW y, NEW q, NEW s, NEW U, NEW V, CountBook(a, x, q, U), ToSet(x.calls) \subseteq Req,
           x.issued < MaxReqs[a], y.issued = x.issued + 1, y.completed = x.completed, y.batch = x.batch, y.calls = x.calls,
           y.pc \notin {"none", "drain", "destroyed"}, NEW r \in Req, r = <<a, x.issued + 1>>, s[r].state = "issued",
           \A t \in Req : t # r => s[t].state = q[t].state /\ Of(t, V) = Of(t, U)
    PROVE  CountBook(a, y, s, V)
<1>1. PICK n \in Nat : n = x.issued + 1
  BY DEF CountBook
<1>2. n \in 1 .. MaxReqs[a] /\ MaxReqs[a] \in Nat
  BY <1>1, DiskIOAssumption DEF CountBook
<1>3. r = <<a, n>>
  BY <1>1
<1>4. q[r].state = "new" /\ s[r].state = "issued"
  <2>1. n \in x.issued + 1 .. MaxReqs[a]
    BY <1>1, <1>2
  <2> QED BY <1>1, <1>3, <2>1 DEF CountBook
<1>5. \A t \in Req : t # r => s[t].state = q[t].state /\ Of(t, V) = Of(t, U)
  OBVIOUS
<1>6. Open(a, s) = Open(a, q) \cup {r} /\ r \notin Open(a, q)
  BY <1>3, <1>4, <1>5 DEF Open
<1>7. PICK k \in Nat : k = Cardinality(Open(a, q)) /\ Cardinality(Open(a, s)) = k + 1
  <2>1. IsFiniteSet(Open(a, q)) /\ Cardinality(Open(a, q)) \in Nat
    BY OpenFinite
  <2>2. Cardinality(Open(a, q) \cup {r}) = Cardinality(Open(a, q)) + 1
    BY <1>6, <2>1, FS_AddElement
  <2> QED BY <1>6, <2>1, <2>2
<1>8. \A t \in ToSet(y.calls) : s[t].state = "issued" /\ Of(t, V) = {}
  <2> TAKE t \in ToSet(y.calls)
  <2>1. q[t].state = "issued" /\ Of(t, U) = {} /\ t \in Req
    BY DEF CountBook
  <2> QED BY <1>4, <1>5, <2>1
<1>9. \A i \in n + 1 .. MaxReqs[a] : s[<<a, i>>].state = "new"
  <2> TAKE i \in n + 1 .. MaxReqs[a]
  <2>1. i \in 1 .. MaxReqs[a] /\ i \in x.issued + 1 .. MaxReqs[a] /\ i # n
    <3>1. x.issued \in Nat
      BY DEF CountBook
    <3> QED BY <1>1, <1>2, <3>1
  <2>2. <<a, i>> \in Req /\ <<a, i>> # r
    BY <1>3, <2>1, ReqOf
  <2>3. q[<<a, i>>].state = "new"
    BY <2>1 DEF CountBook
  <2> QED BY <1>5, <2>2, <2>3
<1>10. y.issued - y.completed = (k + 1) + y.batch - Len(y.calls)
  <2>1. /\ x.issued \in Nat /\ x.completed \in Nat /\ x.batch \in Nat
        /\ x.issued - x.completed = k + x.batch - Len(x.calls) /\ Len(x.calls) <= x.batch
    BY <1>7 DEF CountBook
  <2>2. Len(x.calls) \in Int
    BY <2>1
  <2>3. PICK i \in Nat, c \in Nat, b \in Nat, l \in Int : i = x.issued /\ c = x.completed /\ b = x.batch /\ l = Len(x.calls)
    BY <2>1, <2>2
  <2>4. i - c = k + b - l
    BY ONLY <2>1, <2>3, Zenon
  <2>5. (i + 1) - c = (k + 1) + b - l
    BY <2>4
  <2>6. y.issued = i + 1 /\ y.completed = c /\ y.batch = b /\ Len(y.calls) = l
    BY <2>3
  <2> QED BY <2>5, <2>6
<1> QED BY <1>1, <1>2, <1>7, <1>8, <1>9, <1>10 DEF CountBook

\* The counters when a request is reported.
LEMMA ReportCount ==
    ASSUME NEW a \in App, NEW x, NEW y, NEW q, NEW s, NEW U, CountBook(a, x, q, U), x.calls \in Seq(Req), x.calls # <<>>,
           Single(x.calls), \A r \in ToSet(x.calls) : r[1] = a,
           y.issued = x.issued, y.completed = x.completed, y.batch = x.batch, y.calls = Tail(x.calls),
           y.pc \notin {"none", "drain", "destroyed"}, s[Head(x.calls)].state = "done",
           \A r \in Req : r # Head(x.calls) => s[r].state = q[r].state
    PROVE  CountBook(a, y, s, U)
<1>1. /\ Head(x.calls) \in ToSet(x.calls) /\ Tail(x.calls) \in Seq(Req) /\ ToSet(Tail(x.calls)) = ToSet(x.calls) \ {Head(x.calls)}
      /\ Len(Tail(x.calls)) = Len(x.calls) - 1 /\ Len(x.calls) \in Nat \ {0}
  BY HeadTail
<1>2. ToSet(x.calls) \subseteq Req
  BY SetOfSeq
<1>3. PICK r \in Req : r = Head(x.calls) /\ r[1] = a /\ q[r].state = "issued" /\ s[r].state = "done"
  BY <1>1, <1>2 DEF CountBook
<1>4. Open(a, s) = Open(a, q) \ {r} /\ r \in Open(a, q)
  BY <1>3 DEF Open
<1>5. PICK k \in Nat : k = Cardinality(Open(a, q)) /\ Cardinality(Open(a, s)) = k - 1
  <2>1. IsFiniteSet(Open(a, q)) /\ Cardinality(Open(a, q)) \in Nat
    BY OpenFinite
  <2>2. Cardinality(Open(a, q) \ {r}) = Cardinality(Open(a, q)) - 1
    BY <1>4, <2>1, FS_RemoveElement
  <2> QED BY <1>4, <2>1, <2>2
<1>6. \A t \in ToSet(y.calls) : s[t].state = "issued" /\ Of(t, U) = {}
  <2> TAKE t \in ToSet(y.calls)
  <2>1. q[t].state = "issued" /\ Of(t, U) = {} /\ t \in Req /\ t # Head(x.calls)
    BY <1>1, <1>2 DEF CountBook
  <2> QED BY <2>1
<1>7. /\ x.issued \in 0 .. MaxReqs[a] /\ x.completed \in Nat /\ x.batch \in Nat /\ MaxReqs[a] \in Nat
      /\ x.issued - x.completed = k + x.batch - Len(x.calls) /\ Len(x.calls) <= x.batch
  BY <1>5, DiskIOAssumption DEF CountBook
<1>8. \A i \in y.issued + 1 .. MaxReqs[a] : s[<<a, i>>].state = "new"
  <2> TAKE i \in y.issued + 1 .. MaxReqs[a]
  <2>1. i \in 1 .. MaxReqs[a]
    BY <1>7
  <2>2. <<a, i>> \in Req
    BY <2>1, ReqOf
  <2>3. q[<<a, i>>].state = "new"
    BY DEF CountBook
  <2> QED BY <1>3, <2>2, <2>3
<1>9. PICK l \in Nat \ {0} : l = Len(x.calls) /\ Len(y.calls) = l - 1
  BY <1>1
<1>10. y.issued - y.completed = (k - 1) + y.batch - Len(y.calls) /\ Len(y.calls) <= y.batch
  BY <1>7, <1>9
<1> QED BY <1>5, <1>6, <1>7, <1>8, <1>10 DEF CountBook

\* Senders, and parts that they do not have.
Unsent(senders, parts) ==
    /\ \A d \in Stripe : /\ senders[d] \in Seq(PartAt(d)) /\ Single(senders[d])
                         /\ ToSet(senders[d]) \cap ToSet(parts) = {}
    /\ parts \in Seq(GoodPart) /\ Single(parts)

\* What a sender gets of the parts of a request.
LEMMA SentSets ==
    ASSUME NEW senders, NEW parts, Unsent(senders, parts), NEW d \in Stripe
    PROVE  /\ Single(Sent(senders, parts)[d])
           /\ ToSet(Sent(senders, parts)[d]) = ToSet(senders[d]) \cup {p \in ToSet(parts) : DiskOf(p) = d}
<1>0. /\ senders[d] \in Seq(PartAt(d)) /\ Single(senders[d]) /\ ToSet(senders[d]) \cap ToSet(parts) = {}
      /\ parts \in Seq(GoodPart) /\ Single(parts)
  BY DEF Unsent
<1>1. PICK I : I = {i \in DOMAIN parts : DiskOf(parts[i]) = d}
  OBVIOUS
<1>2. PICK u : u = ElementsAt(parts, I)
  OBVIOUS
<1>3. DOMAIN parts = 1 .. Len(parts) /\ I \subseteq DOMAIN parts
  BY <1>0, <1>1
<1>4. u \in Seq(GoodPart) /\ ToSet(u) = {parts[i] : i \in I} /\ Single(u)
  <2>1. \A i, j \in I : parts[i] = parts[j] => i = j
    BY <1>0, <1>3 DEF Single
  <2> QED BY <1>0, <1>2, <1>3, <2>1, SelectionAll
<1>5. ToSet(u) = {p \in ToSet(parts) : DiskOf(p) = d}
  <2>1. ToSet(parts) = {parts[i] : i \in DOMAIN parts}
    BY DEF ToSet
  <2> QED BY <1>1, <1>4, <2>1
<1>6. PICK v \in Seq(GoodPart) : v = senders[d] /\ Single(v)
  <2>1. senders[d] \in Seq(PartAt(d)) /\ PartAt(d) \subseteq GoodPart
    BY <1>0 DEF PartAt
  <2> QED BY <1>0, <2>1
<1>7. ToSet(v) \cap ToSet(u) = {}
  BY <1>0, <1>5, <1>6
<1>8. Single(v \o u) /\ ToSet(v \o u) = ToSet(v) \cup ToSet(u)
  BY <1>4, <1>6, <1>7, CatSets
<1>9. Sent(senders, parts)[d] = v \o u
  BY <1>1, <1>2, <1>6 DEF Sent
<1> QED BY <1>5, <1>6, <1>8, <1>9

\* New parts in the first place.
MoreOf(B, C, P) == P \cap All(B) = {} /\ C[1] = B[1] \cup P /\ \A l \in 2 .. 9 : C[l] = B[l]

\* The places after new parts have come to the first of them.
LEMMA MoreParts ==
    ASSUME NEW B, NEW C, NEW P, Disjoint(B), MoreOf(B, C, P)
    PROVE  Disjoint(C) /\ All(C) = All(B) \cup P /\ First4(C) = First4(B) \cup P
<1>1. \A l \in 1 .. 9 : (l = 1 \/ l \in 2 .. 9) /\ (l = 1 => l \notin 2 .. 9) /\ (l \in 2 .. 9 => l \in 1 .. 9)
  OBVIOUS
<1>2. ASSUME NEW l \in 1 .. 9, NEW x PROVE x \in C[l] <=> (x \in B[l] \/ (l = 1 /\ x \in P))
  BY <1>1 DEF MoreOf
<1>3. ASSUME NEW l \in 1 .. 9, NEW x, x \in B[l] PROVE x \notin P
  BY <1>3 DEF All, MoreOf
<1>4. Disjoint(C)
  <2> SUFFICES ASSUME NEW m \in 1 .. 9, NEW n \in 1 .. 9, NEW x, x \in C[m], x \in C[n] PROVE m = n
    BY DEF Disjoint
  <2>1. CASE x \in P
    BY <1>2, <1>3, <2>1
  <2>2. CASE x \notin P
    <3>1. x \in B[m] /\ x \in B[n]
      BY <1>2, <2>2
    <3> QED BY <3>1 DEF Disjoint
  <2> QED BY <2>1, <2>2
<1>5. 1 \in 1 .. 9 /\ 1 \in 1 .. 4 /\ \A l \in 1 .. 4 : l \in 1 .. 9
  OBVIOUS
<1>6. All(C) = All(B) \cup P
  BY <1>2, <1>5 DEF All
<1>7. First4(C) = First4(B) \cup P
  BY <1>2, <1>5 DEF First4
<1> QED BY <1>4, <1>6, <1>7

\* access: the new request, with the requests q as they are without it, and the thread z likewise.
LEMMA AccessByBook ==
    ASSUME IInv, IInv', Books, NEW a \in App, NEW e \in Extents[a], NEW sync \in BOOLEAN, NEW ret \in {"idle", "call"},
           app[a].pc = ret, ret = "call" => app[a].calls # <<>>, AccessBy(a, e[1], e[2], sync, ret), UNCHANGED <<file, io, ct>>,
           NEW q, DOMAIN q = Req, \A s \in Req : RqBook(s, q[s], Under, Early),
           \A b \in App \ {a} : CountBook(b, app[b], q, Under),
           NEW z, z.issued = app[a].issued, z.completed = app[a].completed, z.batch = app[a].batch,
           z.calls = IF ret = "call" THEN Tail(app[a].calls) ELSE app[a].calls, CountBook(a, z, q, Under),
           rq' = [q EXCEPT ![<<a, app[a].issued + 1>>] = Issued(e[1], e[2])]
    PROVE  Books'
<1>1. PICK x : x = app[a] /\ x \in AppRec(x) /\ AppOK(x) /\ x.pc = ret /\ AppBook(a, x) /\ DOMAIN app = App
  BY AppNow DEF IInv, AppsOK
<1>2. PICK n \in Nat : n = x.issued + 1 /\ x.issued \in Nat /\ x.issued < MaxReqs[a] /\ MaxReqs[a] \in Nat
  <2>1. x.issued \in Nat
    BY <1>1 DEF AppRec
  <2>2. x.issued < MaxReqs[a]
    BY <1>1 DEF AccessBy
  <2>3. MaxReqs[a] \in Nat
    BY DiskIOAssumption
  <2> QED BY <2>1, <2>2, <2>3
<1>3. PICK r \in Req : r = <<a, n>>
  <2>1. n \in 1 .. MaxReqs[a]
    BY <1>2
  <2>2. <<a, n>> \in Req
    BY ONLY a \in App, <2>1, ReqOf
  <2> QED BY <2>2
<1>4. PICK off \in Nat, size \in Nat \ {0} : off = e[1] /\ size = e[2] /\ off + size <= FilePages /\ e = <<off, size>>
  BY DiskIOAssumption
<1>5. PICK parts \in Seq(GoodPart) : parts = Split(r, off, size) /\ Single(parts)
  <2>1. Split(r, off, size) \in Seq(GoodPart) /\ Single(Split(r, off, size))
    BY <1>4, SplitParts
  <2> QED BY <2>1
<1>6. PICK U, E, P : U = Under /\ E = Early /\ U \subseteq Part /\ E \subseteq U /\ Apart(U) /\ P = ToSet(parts)
  BY UnderParts DEF Books
<1>7. q[r].state = "new" /\ Of(r, U) = {}
  <2>1. n \in z.issued + 1 .. MaxReqs[a]
    BY <1>1, <1>2
  <2>2. q[r].state = "new"
    BY <1>3, <2>1 DEF CountBook
  <2> QED BY <1>6, <2>2 DEF RqBook
<1>8. /\ P \subseteq Part /\ P \cap U = {} /\ Apart(U \cup P) /\ (\A p \in P : p.req = r)
      /\ RqBook(r, Issued(off, size), U \cup P, E \cup P)
      /\ \A s : s # r => Of(s, U \cup P) = Of(s, U) /\ Of(s, E \cup P) = Of(s, E)
  <2>1. <<off, size>> \in Extents[r[1]] /\ P = ToSet(Split(r, off, size))
    BY <1>3, <1>4, <1>5, <1>6
  <2>2. Fresh(r, off, size, U, E)
    BY <1>4, <1>6, <1>7, <2>1 DEF Fresh
  <2>3. NewIn(r, off, size, U, E, ToSet(Split(r, off, size)))
    BY ONLY <2>2, NewParts
  <2> QED BY <2>1, <2>3 DEF NewIn
<1>9. PICK sent : sent = Sent(x.senders, parts)
  OBVIOUS
<1>10. \A p \in P : p.req[1] = a /\ p \notin InSender
  <2>1. InSender \subseteq U
    <3>1. Boxes[1] = InSender /\ 1 \in 1 .. 9
      BY BoxAt
    <3> QED BY <1>6, <3>1 DEF Under, All
  <2> QED BY <1>3, <1>8, <2>1
<1>11. \A d \in Stripe : /\ x.senders[d] \in Seq(PartAt(d)) /\ Single(x.senders[d]) /\ ToSet(x.senders[d]) \subseteq InSender
  <2> TAKE d \in Stripe
  <2>1. x.senders[d] \in Seq(PartAt(d)) /\ Single(x.senders[d]) /\ \A p \in ToSet(x.senders[d]) : p.req[1] = a
    BY <1>1 DEF AppOK, AppBook
  <2>2. ToSet(x.senders[d]) \subseteq PartAt(d)
    BY <2>1, SetOfSeq
  <2>3. ToSet(x.senders[d]) \subseteq InSender
    BY <1>1, <2>1, <2>2, PartAtPart DEF InSender
  <2> QED BY <2>1, <2>3
<1>12. \A d \in Stripe : /\ Single(sent[d])
                         /\ ToSet(sent[d]) = ToSet(x.senders[d]) \cup {p \in P : DiskOf(p) = d}
  <2>1. \A d \in Stripe : ToSet(x.senders[d]) \cap ToSet(parts) = {}
    BY <1>6, <1>10, <1>11
  <2>2. \A d \in Stripe : x.senders[d] \in Seq(PartAt(d)) /\ Single(x.senders[d])
    BY <1>11
  <2> TAKE d \in Stripe
  <2>3. /\ Single(Sent(x.senders, parts)[d])
        /\ ToSet(Sent(x.senders, parts)[d]) = ToSet(x.senders[d]) \cup {p \in ToSet(parts) : DiskOf(p) = d}
    <3>1. Unsent(x.senders, parts)
      BY <1>5, <2>1, <2>2 DEF Unsent
    <3> QED BY ONLY <3>1, d \in Stripe, SentSets
  <2> QED BY ONLY <1>6, <1>9, <2>3
<1>13. PICK pc \in {"flush", ret} : pc = IF sync \/ NumRemaining(sent) > MaxCached THEN FlushOr(sent, ret) ELSE ret
  BY FlushOrForm
<1>14. PICK calls \in Seq(Req) : calls = z.calls /\ calls = IF ret = "call" THEN Tail(x.calls) ELSE x.calls
  <2>1. x.calls \in Seq(Req) /\ (ret = "call" => x.calls # <<>>)
    BY <1>1 DEF AppRec
  <2>2. ret = "call" => Tail(x.calls) \in Seq(Req)
    BY <2>1
  <2> QED BY <1>1, <2>1, <2>2
<1>15. PICK y : /\ y = app'[a] /\ (\A b \in App \ {a} : app'[b] = app[b])
                /\ y = [x EXCEPT !.issued = n, !.senders = sent, !.ret = ret, !.pc = pc, !.calls = calls]
  <2>1. app' = [app EXCEPT ![a].issued = @ + 1, ![a].senders = sent, ![a].ret = ret,
                           ![a].pc = IF sync \/ NumRemaining(sent) > MaxCached THEN FlushOr(sent, ret) ELSE ret,
                           ![a].calls = IF ret = "call" THEN Tail(@) ELSE @]
    BY <1>1, <1>2, <1>3, <1>4, <1>5, <1>9 DEF AccessBy
  <2>2. app' = [app EXCEPT ![a].issued = @ + 1, ![a].senders = sent, ![a].ret = ret, ![a].pc = pc,
                           ![a].calls = IF ret = "call" THEN Tail(@) ELSE @]
    BY <1>13, <2>1, Zenon
  <2>3. app' = [app EXCEPT ![a] = [x EXCEPT !.issued = n, !.senders = sent, !.ret = ret, !.pc = pc, !.calls = calls]]
    BY <1>1, <1>2, <1>14, <2>2 DEF AppRec
  <2> QED BY <1>1, <2>3
<1>16. /\ y.pc = pc /\ y.ret = ret /\ y.senders = sent /\ y.complete = x.complete /\ y.calls = calls /\ y.batch = x.batch
       /\ y.mode = x.mode /\ y.issued = n /\ y.completed = x.completed
  BY <1>1, <1>15 DEF AppRec
<1>17. AppBook(a, y)
  <2>1. Single(calls) /\ ToSet(calls) \subseteq ToSet(x.calls)
    <3>1. x.calls \in Seq(Req) /\ Single(x.calls)
      BY <1>1 DEF AppRec, AppBook
    <3>2. CASE ret = "call"
      BY <1>1, <1>14, <3>1, <3>2, HeadTail
    <3>3. CASE ret # "call"
      BY <1>14, <3>1, <3>3
    <3> QED BY <3>2, <3>3
  <2>2. \A d \in Stripe : Single(y.senders[d]) /\ \A p \in ToSet(y.senders[d]) : p.req[1] = a
    <3> TAKE d \in Stripe
    <3>1. \A p \in ToSet(x.senders[d]) : p.req[1] = a
      BY <1>1 DEF AppBook
    <3> QED BY <1>10, <1>12, <1>16, <3>1
  <2>3. ret # "call" => calls = <<>> /\ y.batch = 0
    BY <1>1, <1>14, <1>16 DEF AppBook
  <2>4. y.pc = "call" \/ (y.pc \in {"flush", "flushed"} /\ y.ret = "call") \/ (y.calls = <<>> /\ y.batch = 0)
    BY <1>13, <1>16, <2>3
  <2> QED BY <1>1, <1>16, <2>1, <2>2, <2>4 DEF AppBook
<1>18. /\ InComplete' = (InComplete \ ToSet(app[a].complete)) \cup ToSet(app'[a].complete)
       /\ ToSet(app[a].complete) \subseteq InComplete
       /\ \A p \in Part : p.req[1] # a => (p \in InSender' <=> p \in InSender)
       /\ \A p \in Part : p.req[1] = a => /\ p \in InSender <=> p \in ToSet(app[a].senders[DiskOf(p)])
                                          /\ p \in InSender' <=> p \in ToSet(app'[a].senders[DiskOf(p)])
  <2>1. AppBook(a, app[a]) /\ AppBook(a, app'[a])
    BY <1>1, <1>15, <1>17
  <2> QED BY <1>15, <2>1, AppBoxes
<1>19. InSender' = InSender \cup P
  <2>1. ASSUME NEW p \in Part PROVE p \in InSender' <=> (p \in InSender \/ p \in P)
    <3>1. CASE p.req[1] # a
      BY <1>10, <1>18, <3>1
    <3>2. CASE p.req[1] = a
      <4>1. DiskOf(p) \in Stripe
        BY PartHome
      <4>2. ToSet(sent[DiskOf(p)]) = ToSet(x.senders[DiskOf(p)]) \cup {o \in P : DiskOf(o) = DiskOf(p)}
        BY <1>12, <4>1
      <4> QED BY <1>1, <1>15, <1>16, <1>18, <3>2, <4>2
    <3> QED BY <3>1, <3>2
  <2>2. InSender \subseteq Part /\ InSender' \subseteq Part
    BY DEF InSender
  <2> QED BY <1>8, <2>1, <2>2
<1>20. InComplete' = InComplete
  <2>1. app'[a].complete = app[a].complete
    BY <1>1, <1>15, <1>16
  <2> QED BY ONLY <1>18, <2>1
<1>21. /\ InQueue' = InQueue /\ InLocal' = InLocal /\ InKernel' = InKernel /\ InFinished' = InFinished /\ InTcbs' = InTcbs
       /\ InCTQueue' = InCTQueue /\ InCTTcbs' = InCTTcbs
  BY DEF InQueue, InLocal, InKernel, InFinished, InTcbs, InCTQueue, InCTTcbs
<1>22. Disjoint(Boxes') /\ Under' = U \cup P /\ Early' = E \cup P
  <2>1. PICK B, C : B = Boxes /\ C = Boxes' /\ Disjoint(B)
    BY DEF Books
  <2>2. U = All(B) /\ E = First4(B) /\ Under' = All(C) /\ Early' = First4(C)
    BY <1>6, <2>1 DEF Under, Early
  <2>3. C[1] = B[1] \cup P
    BY <1>19, <2>1, BoxAt
  <2>4. \A l \in 2 .. 9 : C[l] = B[l]
    <3>1. \A l \in 2 .. 9 : l \in 1 .. 9 /\ l # 1
      OBVIOUS
    <3> QED BY <1>20, <1>21, <2>1, <3>1, BoxAt, Nine
  <2>5. P \cap All(B) = {}
    BY <1>8, <2>2
  <2>6. Disjoint(C) /\ All(C) = All(B) \cup P /\ First4(C) = First4(B) \cup P
    <3>1. MoreOf(B, C, P) /\ Disjoint(B)
      BY <2>1, <2>3, <2>4, <2>5 DEF MoreOf
    <3> QED BY ONLY <3>1, MoreParts
  <2> QED BY <2>1, <2>2, <2>6
<1>23. DOMAIN rq' = Req /\ rq'[r] = Issued(off, size) /\ \A s \in Req : s # r => rq'[s] = q[s]
  <2>1. rq' = [q EXCEPT ![r] = Issued(off, size)]
    BY <1>1, <1>2, <1>3, <1>4
  <2> QED BY <2>1
<1>24. \A s \in Req : RqBook(s, rq'[s], Under', Early')
  <2> TAKE s \in Req
  <2>1. CASE s = r
    BY <1>8, <1>22, <1>23, <2>1
  <2>2. CASE s # r
    <3>1. RqBook(s, q[s], U, E) /\ rq'[s] = q[s]
      BY <1>6, <1>23, <2>2
    <3>2. Of(s, U \cup P) = Of(s, U) /\ Of(s, E \cup P) = Of(s, E) /\ \A p \in U \cup P : p.req = s => p \in U
      BY <1>8, <2>2
    <3>3. RqBook(s, q[s], U \cup P, E \cup P)
      BY <3>1, <3>2, OtherRequest
    <3> QED BY <1>22, <3>1, <3>3
  <2> QED BY <2>1, <2>2
<1>25. CountBook(a, y, rq', Under')
  <2>a. PICK g, V : g = rq' /\ V = Under' /\ V = U \cup P
    BY <1>22
  <2>b. g[r].state = "issued"
    BY <1>23, <2>a DEF Issued
  <2>1. \A s \in Req : s # r => g[s].state = q[s].state /\ Of(s, V) = Of(s, U)
    BY <1>8, <1>23, <2>a
  <2>2. ToSet(z.calls) \subseteq Req /\ y.pc \notin {"none", "drain", "destroyed"}
    BY <1>13, <1>14, <1>16, SetOfSeq
  <2>3. /\ z.issued < MaxReqs[a] /\ y.issued = z.issued + 1 /\ y.completed = z.completed /\ y.batch = z.batch /\ y.calls = z.calls
        /\ r = <<a, z.issued + 1>> /\ CountBook(a, z, q, U)
    BY <1>1, <1>2, <1>3, <1>6, <1>14, <1>16
  <2>4. CountBook(a, y, g, V)
    BY ONLY a \in App, r \in Req, <2>b, <2>1, <2>2, <2>3, IssueCount
  <2> QED BY <2>a, <2>4
<1>26. FileApp(file, y)
  BY <1>1, <1>13, <1>16, GoesOn
<1>27. \A b \in App : AppBook(b, app'[b]) /\ CountBook(b, app'[b], rq', Under') /\ FileApp(file', app'[b])
  <2> TAKE b \in App
  <2>1. CASE b = a
    BY <1>15, <1>17, <1>25, <1>26, <2>1
  <2>2. CASE b # a
    <3>1. /\ app'[b] = app[b] /\ AppBook(b, app[b]) /\ CountBook(b, app[b], q, U) /\ FileApp(file, app[b])
          /\ ToSet(app[b].calls) \subseteq Req
      BY <1>6, <1>15, <2>2, AppNow, PlaceSets
    <3>2. \A s \in Req : s[1] = b => rq'[s].state = q[s].state /\ Of(s, Under') = Of(s, U)
      <4> TAKE s \in Req
      <4> HAVE s[1] = b
      <4>1. s # r
        BY <1>3, <2>2
      <4> QED BY <1>8, <1>22, <1>23, <4>1
    <3>3. \A s \in ToSet(app[b].calls) : s[1] = b
      BY <3>1 DEF AppBook
    <3>4. CountBook(b, app[b], rq', Under')
      <4>1. PICK w, g, V : w = app[b] /\ g = rq' /\ V = Under'
        OBVIOUS
      <4>2. /\ CountBook(b, w, q, U) /\ ToSet(w.calls) \subseteq Req /\ (\A s \in ToSet(w.calls) : s[1] = b)
            /\ \A s \in Req : s[1] = b => g[s].state = q[s].state /\ Of(s, V) = Of(s, U)
        BY <3>1, <3>2, <3>3, <4>1
      <4>3. CountBook(b, w, g, V)
        BY ONLY b \in App, <4>2, CountOther
      <4> QED BY <4>1, <4>3
    <3> QED BY <3>1, <3>4
  <2> QED BY <2>1, <2>2
<1>28. \A d \in Stripe : IOBook(io'[d]) /\ FileIO(file', d, io'[d])
  BY IONow
<1>29. CTBook(ct') /\ (file'.pc = "opened" => file'.op = "open")
  BY DEF Books
<1>30. Apart(Under')
  BY <1>8, <1>22
<1> QED BY <1>22, <1>23, <1>24, <1>27, <1>28, <1>29, <1>30 DEF Books

\* access by the application.
LEMMA AccessBook ==
    ASSUME IInv, IInv', Books, NEW a \in App, NEW e \in Extents[a], NEW sync \in BOOLEAN, Access(a, e[1], e[2], sync) PROVE Books'
<1>1. /\ app[a].pc = "idle" /\ AccessBy(a, e[1], e[2], sync, "idle") /\ UNCHANGED <<file, io, ct>>
      /\ rq' = [rq EXCEPT ![<<a, app[a].issued + 1>>] = Issued(e[1], e[2])]
  BY DEF Access
<1>2. PICK ret \in {"idle", "call"} : ret = "idle"
  OBVIOUS
<1>3. /\ app[a].pc = ret /\ (ret = "call" => app[a].calls # <<>>) /\ AccessBy(a, e[1], e[2], sync, ret)
  BY <1>1, <1>2
<1>4. PICK z, q : z = app[a] /\ q = rq
  OBVIOUS
<1>5. /\ z.issued = app[a].issued /\ z.completed = app[a].completed /\ z.batch = app[a].batch
      /\ z.calls = (IF ret = "call" THEN Tail(app[a].calls) ELSE app[a].calls) /\ CountBook(a, z, q, Under)
  BY <1>2, <1>4, AppNow
<1>6. DOMAIN q = Req /\ (\A s \in Req : RqBook(s, q[s], Under, Early)) /\ \A b \in App \ {a} : CountBook(b, app[b], q, Under)
  BY <1>4 DEF Books
<1>7. rq' = [q EXCEPT ![<<a, app[a].issued + 1>>] = Issued(e[1], e[2])]
  BY <1>1, <1>4
<1> QED BY <1>1, <1>3, <1>5, <1>6, <1>7, AccessByBook

\* The requests after one is reported.
LEMMA ReportedBook ==
    ASSUME IInv, Books, NEW a \in App, app[a].pc = "call", app[a].calls # <<>>, NEW q,
           q = [rq EXCEPT ![Head(app[a].calls)].state = "done"]
    PROVE  /\ DOMAIN q = Req /\ \A s \in Req : RqBook(s, q[s], Under, Early)
           /\ \A b \in App \ {a} : CountBook(b, app[b], q, Under)
           /\ \A z : /\ z.issued = app[a].issued /\ z.completed = app[a].completed /\ z.batch = app[a].batch
                     /\ z.calls = Tail(app[a].calls) /\ z.pc \notin {"none", "drain", "destroyed"}
                     => CountBook(a, z, q, Under)
<1>1. PICK x : x = app[a] /\ x \in AppRec(x) /\ AppBook(a, x) /\ CountBook(a, x, rq, Under)
  BY AppNow
<1>2. x.calls \in Seq(Req) /\ x.calls # <<>> /\ Single(x.calls) /\ \A r \in ToSet(x.calls) : r[1] = a
  BY <1>1 DEF AppRec, AppBook
<1>3. PICK r \in Req : r = Head(x.calls) /\ r[1] = a /\ rq[r].state = "issued" /\ Of(r, Under) = {}
  <2>1. Head(x.calls) \in ToSet(x.calls) /\ ToSet(x.calls) \subseteq Req
    BY <1>2, HeadTail, SetOfSeq
  <2> QED BY <1>1, <1>2, <2>1 DEF CountBook
<1>4. DOMAIN rq = Req /\ \A s \in Req : RqBook(s, rq[s], Under, Early)
  BY DEF Books
<1>5. DOMAIN q = Req /\ q[r] = [rq[r] EXCEPT !.state = "done"] /\ \A s \in Req : s # r => q[s] = rq[s]
  BY <1>1, <1>3, <1>4
<1>6. RqBook(r, q[r], Under, Early) /\ q[r].state = "done"
  <2>1. PICK g, U, E : g = rq[r] /\ U = Under /\ E = Early
    OBVIOUS
  <2>2. RqBook(r, g, U, E) /\ g.state = "issued" /\ Of(r, U) = {}
    BY <1>3, <1>4, <2>1
  <2>3. RqBook(r, [g EXCEPT !.state = "done"], U, E) /\ [g EXCEPT !.state = "done"].state = "done"
    BY ONLY <2>2, ReportedRequest
  <2> QED BY <1>5, <2>1, <2>3
<1>7. \A s \in Req : RqBook(s, q[s], Under, Early)
  BY <1>4, <1>5, <1>6
<1>8. \A b \in App \ {a} : CountBook(b, app[b], q, Under)
  <2> TAKE b \in App \ {a}
  <2>1. /\ AppBook(b, app[b]) /\ CountBook(b, app[b], rq, Under) /\ ToSet(app[b].calls) \subseteq Req
    BY AppNow, PlaceSets
  <2>2. \A s \in Req : s[1] = b => q[s].state = rq[s].state /\ Of(s, Under) = Of(s, Under)
    BY <1>3, <1>5
  <2>3. \A s \in ToSet(app[b].calls) : s[1] = b
    BY <2>1 DEF AppBook
  <2> QED BY <2>1, <2>2, <2>3, CountOther
<1>9. ASSUME NEW z, z.issued = app[a].issued, z.completed = app[a].completed, z.batch = app[a].batch,
             z.calls = Tail(app[a].calls), z.pc \notin {"none", "drain", "destroyed"}
      PROVE  CountBook(a, z, q, Under)
  <2>1. q[Head(x.calls)].state = "done" /\ \A s \in Req : s # Head(x.calls) => q[s].state = rq[s].state
    BY <1>3, <1>5, <1>6
  <2>2. z.issued = x.issued /\ z.completed = x.completed /\ z.batch = x.batch /\ z.calls = Tail(x.calls)
    BY <1>1, <1>9
  <2>3. PICK h, U : h = rq /\ U = Under
    OBVIOUS
  <2>4. /\ CountBook(a, x, h, U) /\ q[Head(x.calls)].state = "done"
        /\ \A s \in Req : s # Head(x.calls) => q[s].state = h[s].state
    BY <1>1, <2>1, <2>3
  <2>5. z.pc \notin {"none", "drain", "destroyed"}
    BY <1>9
  <2>6. CountBook(a, z, q, U)
    BY ONLY a \in App, <1>2, <2>2, <2>4, <2>5, ReportCount
  <2> QED BY <2>3, <2>6
<1> QED BY <1>5, <1>7, <1>8, <1>9

\* The callback of a request, which may issue another one.
LEMMA CallbackBook == ASSUME IInv, IInv', Books, NEW a \in App, Callback(a) PROVE Books'
<1>1. app[a].pc = "call" /\ app[a].calls # <<>> /\ UNCHANGED <<file, io, ct>>
  BY DEF Callback
<1>2. PICK x : x = app[a] /\ x \in AppRec(x) /\ AppBook(a, x) /\ CountBook(a, x, rq, Under) /\ DOMAIN app = App
  BY AppNow
<1>3. PICK q : q = [rq EXCEPT ![Head(app[a].calls)].state = "done"]
  OBVIOUS
<1>4. DOMAIN q = Req /\ (\A s \in Req : RqBook(s, q[s], Under, Early)) /\ \A b \in App \ {a} : CountBook(b, app[b], q, Under)
  BY <1>1, <1>3, ReportedBook
<1>5. PICK z : z = [x EXCEPT !.calls = Tail(x.calls)]
  OBVIOUS
<1>6. /\ z.pc = "call" /\ z.ret = x.ret /\ z.senders = x.senders /\ z.complete = x.complete /\ z.calls = Tail(x.calls)
      /\ z.batch = x.batch /\ z.mode = x.mode /\ z.issued = x.issued /\ z.completed = x.completed
  BY <1>1, <1>2, <1>5 DEF AppRec
<1>7. CountBook(a, z, q, Under)
  <2>1. /\ z.issued = app[a].issued /\ z.completed = app[a].completed /\ z.batch = app[a].batch
        /\ z.calls = Tail(app[a].calls) /\ z.pc \notin {"none", "drain", "destroyed"}
    BY <1>2, <1>6
  <2> QED BY <1>1, <1>3, <2>1, ReportedBook
<1>8. CASE app' = [app EXCEPT ![a].calls = Tail(@)] /\ rq' = [rq EXCEPT ![Head(app[a].calls)].state = "done"]
  <2>1. app'[a] = z /\ rq' = q /\ \A b \in App \ {a} : app'[b] = app[b]
    BY <1>2, <1>3, <1>5, <1>8
  <2>2. Boxes' = Boxes
    <3>1. \A b \in App : app'[b].senders = app[b].senders /\ app'[b].complete = app[b].complete
      BY <1>2, <1>6, <2>1
    <3> QED BY <1>1, <3>1, SameBoxes
  <2>3. Disjoint(Boxes') /\ Apart(Under') /\ Under' = Under /\ Early' = Early
    BY <2>2 DEF Books, Under, Early
  <2>4. AppBook(a, z)
    <3>1. x.calls \in Seq(Req) /\ x.calls # <<>> /\ Single(x.calls)
      BY <1>1, <1>2 DEF AppRec, AppBook
    <3>2. Single(z.calls) /\ ToSet(z.calls) \subseteq ToSet(x.calls)
      BY <1>6, <3>1, HeadTail
    <3> QED BY <1>2, <1>6, <3>2 DEF AppBook
  <2>5. FileApp(file, z)
    BY <1>1, <1>6, GoesOn
  <2>6. \A b \in App : AppBook(b, app'[b]) /\ CountBook(b, app'[b], rq', Under') /\ FileApp(file', app'[b])
    <3> TAKE b \in App
    <3>1. CASE b = a
      BY <1>1, <1>7, <2>1, <2>3, <2>4, <2>5, <3>1
    <3>2. CASE b # a
      BY <1>1, <1>4, <2>1, <2>3, <3>2, AppNow
    <3> QED BY <3>1, <3>2
  <2>7. \A d \in Stripe : IOBook(io'[d]) /\ FileIO(file', d, io'[d])
    BY <1>1, IONow
  <2>8. CTBook(ct') /\ (file'.pc = "opened" => file'.op = "open")
    BY <1>1 DEF Books
  <2>9. DOMAIN rq' = Req /\ \A s \in Req : RqBook(s, rq'[s], Under', Early')
    BY <1>4, <2>1, <2>3
  <2> QED BY <2>3, <2>6, <2>7, <2>8, <2>9 DEF Books
<1>9. ASSUME NEW e \in Extents[a], AccessBy(a, e[1], e[2], FALSE, "call"),
             rq' = [rq EXCEPT ![Head(app[a].calls)].state = "done", ![<<a, app[a].issued + 1>>] = Issued(e[1], e[2])]
      PROVE  Books'
  <2>1. rq' = [q EXCEPT ![<<a, app[a].issued + 1>>] = Issued(e[1], e[2])]
    BY <1>3, <1>9
  <2>2. PICK ret \in {"idle", "call"}, sync \in BOOLEAN : ret = "call" /\ sync = FALSE
    OBVIOUS
  <2>3. AccessBy(a, e[1], e[2], sync, ret) /\ app[a].pc = ret /\ (ret = "call" => app[a].calls # <<>>)
    BY <1>1, <1>9, <2>2
  <2>4. /\ z.issued = app[a].issued /\ z.completed = app[a].completed /\ z.batch = app[a].batch
        /\ z.calls = (IF ret = "call" THEN Tail(app[a].calls) ELSE app[a].calls)
    BY <1>2, <1>6, <2>2
  <2> QED BY <1>1, <1>4, <1>7, <2>1, <2>3, <2>4, AccessByBook
<1> QED BY <1>8, <1>9 DEF Callback

-------------------------------------------------------------------------------
(* Parts that come back                                                    *)

\* Parts that leave the last place.
LessOf(B, C, K) == K \subseteq B[9] /\ C[9] = B[9] \ K /\ \A l \in 1 .. 8 : C[l] = B[l]

\* The places after some parts have left the last of them.
LEMMA LessParts ==
    ASSUME NEW B, NEW C, NEW K, Disjoint(B), LessOf(B, C, K)
    PROVE  Disjoint(C) /\ All(C) = All(B) \ K /\ First4(C) = First4(B) /\ K \subseteq All(B)
<1>1. \A l \in 1 .. 9 : l = 9 \/ l \in 1 .. 8
  OBVIOUS
<1>2. \A l \in 1 .. 4 : l \in 1 .. 8
  OBVIOUS
<1>a. \A l \in 1 .. 8 : l \in 1 .. 9 /\ l # 9
  OBVIOUS
<1>3. ASSUME NEW l \in 1 .. 9, NEW x PROVE x \in C[l] <=> (x \in B[l] /\ ~(l = 9 /\ x \in K))
  BY <1>1, <1>a DEF LessOf
<1>4. ASSUME NEW l \in 1 .. 9, NEW x \in K, x \in B[l] PROVE l = 9
  <2>1. x \in B[9] /\ 9 \in 1 .. 9
    BY DEF LessOf
  <2> QED BY <1>4, <2>1 DEF Disjoint
<1>5. Disjoint(C)
  <2> SUFFICES ASSUME NEW m \in 1 .. 9, NEW n \in 1 .. 9, NEW x, x \in C[m], x \in C[n] PROVE m = n
    BY DEF Disjoint
  <2>1. x \in B[m] /\ x \in B[n]
    BY <1>3
  <2> QED BY <2>1 DEF Disjoint
<1>6. All(C) = All(B) \ K
  <2>1. \A x : x \in All(C) <=> x \in All(B) /\ x \notin K
    <3> TAKE x
    <3>1. x \in All(C) <=> \E l \in 1 .. 9 : x \in C[l]
      BY DEF All
    <3>2. x \in All(B) <=> \E l \in 1 .. 9 : x \in B[l]
      BY DEF All
    <3> QED BY <1>3, <1>4, <3>1, <3>2
  <2> QED BY <2>1
<1>7. First4(C) = First4(B)
  BY <1>2 DEF First4, LessOf
<1>8. K \subseteq All(B)
  <2>1. 9 \in 1 .. 9
    OBVIOUS
  <2> QED BY <2>1 DEF All, LessOf
<1> QED BY <1>5, <1>6, <1>7, <1>8

\* The pages of the parts that stay.
LEMMA OfLess == ASSUME NEW r, NEW U, NEW K, K \subseteq U, Apart(U)
                PROVE Of(r, U \ K) = Of(r, U) \ Of(r, K) /\ Of(r, K) \subseteq Of(r, U)
<1>1. \A x : x \in Of(r, U \ K) <=> \E p \in U \ K : p.req = r /\ x \in PartPages(p)
  BY OfIn
<1>2. \A x : x \in Of(r, U) <=> \E p \in U : p.req = r /\ x \in PartPages(p)
  BY OfIn
<1>3. \A x : x \in Of(r, K) <=> \E p \in K : p.req = r /\ x \in PartPages(p)
  BY OfIn
<1>4. \A x : x \in Of(r, U \ K) => x \in Of(r, U) /\ x \notin Of(r, K)
  <2> SUFFICES ASSUME NEW x, x \in Of(r, U \ K), x \in Of(r, K) PROVE FALSE
    BY <1>1, <1>2
  <2>1. PICK p \in U \ K : p.req = r /\ x \in PartPages(p)
    BY <1>1
  <2>2. PICK q \in K : q.req = r /\ x \in PartPages(q)
    BY <1>3
  <2>3. p \in U /\ q \in U /\ p # q /\ p.req = q.req
    BY <2>1, <2>2
  <2> QED BY <2>1, <2>2, <2>3 DEF Apart
<1>5. \A x : x \in Of(r, U) /\ x \notin Of(r, K) => x \in Of(r, U \ K)
  BY <1>1, <1>2, <1>3
<1>6. Of(r, K) \subseteq Of(r, U)
  BY <1>2, <1>3
<1> QED BY <1>4, <1>5, <1>6

\* What is left of a request, of which some parts have come back.
LEMMA TakenRequest ==
    ASSUME NEW r, NEW q, NEW U, NEW E, NEW K, RqBook(r, q, U, E), K \subseteq U, Apart(U), NEW n, n = Cardinality(Of(r, K))
    PROVE  /\ RqBook(r, [q EXCEPT !.left = q.left - n], U \ K, E)
           /\ [q EXCEPT !.left = q.left - n].state = q.state
           /\ q.left = n => Of(r, U \ K) = {}
<1>1. q \in RqRec /\ Of(r, U) \subseteq Pages(q.off, q.size) /\ q.left = Cardinality(Of(r, U))
  BY DEF RqBook
<1>2. q.off \in Nat /\ q.size \in Nat /\ q.left \in Nat
  BY <1>1 DEF RqRec
<1>3. IsFiniteSet(Of(r, U))
  <2>1. PICK l \in Int, h \in Int : l = q.off /\ h = q.off + q.size - 1
    BY <1>2
  <2>2. IsFiniteSet(l .. h)
    BY FS_Interval
  <2>3. Pages(q.off, q.size) = l .. h
    BY <2>1 DEF Pages
  <2> QED BY <1>1, <2>2, <2>3, FS_Subset
<1>4. Of(r, U \ K) = Of(r, U) \ Of(r, K) /\ Of(r, K) \subseteq Of(r, U)
  BY OfLess
<1>5. PICK A, D : A = Of(r, U) /\ D = Of(r, K) /\ IsFiniteSet(A) /\ D \subseteq A /\ Of(r, U \ K) = A \ D
  BY <1>3, <1>4
<1>6. IsFiniteSet(D) /\ Cardinality(D) = n /\ n \in Nat /\ Cardinality(A) \in Nat /\ n <= Cardinality(A)
      /\ (n = Cardinality(A) => D = A)
  BY <1>5, FS_Subset, FS_CardinalityType
<1>7. IsFiniteSet(A \ D) /\ Cardinality(A \ D) = Cardinality(A) - n
  <2>1. IsFiniteSet(A \ D) /\ Cardinality(A \ D) = Cardinality(A) - Cardinality(A \cap D)
    BY <1>5, <1>6, FS_Difference
  <2>2. A \cap D = D
    BY <1>5
  <2> QED BY <1>6, <2>1, <2>2
<1>8. PICK t : t = [q EXCEPT !.left = q.left - n]
  OBVIOUS
<1>9. q.left - n \in Nat /\ q.left - n = Cardinality(Of(r, U \ K))
  <2>1. PICK k \in Nat : k = Cardinality(A)
    BY <1>6
  <2>2. q.left = k /\ n \in Nat /\ n <= k
    BY <1>1, <1>5, <1>6, <2>1
  <2>3. k - n \in Nat
    BY <2>1, <2>2
  <2>4. Cardinality(Of(r, U \ K)) = k - n
    BY <1>5, <1>7, <2>1
  <2> QED BY <2>2, <2>3, <2>4
<1>10. t.state = q.state /\ t.off = q.off /\ t.size = q.size /\ t.left = q.left - n /\ t.moved = q.moved /\ t \in RqRec
  BY <1>1, <1>8, <1>9 DEF RqRec
<1>11. RqBook(r, t, U \ K, E)
  <2>1. \A p \in U \ K : p \in U
    OBVIOUS
  <2>2. Of(r, U \ K) \subseteq Of(r, U)
    BY <1>4
  <2> QED BY <1>9, <1>10, <2>1, <2>2 DEF RqBook
<1>12. q.left = n => Of(r, U \ K) = {}
  BY <1>1, <1>5, <1>6
<1> QED BY <1>8, <1>10, <1>11, <1>12

\* process_completed_requests selects the parts at W and L: the only part of a request, and the last one
\* of a request whose parts have all come back.
DoneAt(parts, W, L, done) ==
    /\ W \subseteq DOMAIN parts /\ L \subseteq DOMAIN parts
    /\ done = ElementsAt([i \in DOMAIN parts |-> parts[i].req], W) \o ElementsAt([i \in DOMAIN parts |-> parts[i].req], L)
    /\ \A i \in W : ~IsSplit(parts[i].req)
    /\ \A i \in L : /\ IsSplit(parts[i].req) /\ PagesOf(parts[i].req, parts) = rq[parts[i].req].left
                    /\ \A j \in i + 1 .. Len(parts) : parts[j].req # parts[i].req

\* What is put together is selected in this way.
LEMMA CompletedAt == ASSUME NEW parts \in Seq(Part) PROVE \E W, L : DoneAt(parts, W, L, Completed(parts))
<1> DEFINE ends == [i \in DOMAIN parts |->
                    IF ~IsSplit(parts[i].req) THEN "whole"
                    ELSE IF /\ PagesOf(parts[i].req, parts) = rq[parts[i].req].left
                            /\ \A j \in i + 1 .. Len(parts) : parts[j].req # parts[i].req
                         THEN "last" ELSE "part"]
           at(kind) == {i \in DOMAIN parts : ends[i] = kind}
<1>1. Completed(parts) = ElementsAt([i \in DOMAIN parts |-> parts[i].req], at("whole"))
                         \o ElementsAt([i \in DOMAIN parts |-> parts[i].req], at("last"))
  BY Zenon DEF Completed
<1>2. ASSUME NEW i \in DOMAIN parts, ends[i] = "whole" PROVE ~IsSplit(parts[i].req)
  BY <1>2
<1>3. ASSUME NEW i \in DOMAIN parts, ends[i] = "last"
      PROVE  /\ IsSplit(parts[i].req) /\ PagesOf(parts[i].req, parts) = rq[parts[i].req].left
             /\ \A j \in i + 1 .. Len(parts) : parts[j].req # parts[i].req
  <2>1. PICK b \in BOOLEAN, c \in BOOLEAN :
            /\ b = IsSplit(parts[i].req)
            /\ c = (/\ PagesOf(parts[i].req, parts) = rq[parts[i].req].left
                    /\ \A j \in i + 1 .. Len(parts) : parts[j].req # parts[i].req)
    BY Zenon DEF IsSplit
  <2>2. (IF ~b THEN "whole" ELSE IF c THEN "last" ELSE "part") = "last"
    BY <1>3, <2>1
  <2>3. b /\ c
    BY <2>2
  <2> QED BY <2>1, <2>3
<1> HIDE DEF ends
<1>4. PICK W, L : W = at("whole") /\ L = at("last")
  OBVIOUS
<1>5. /\ W \subseteq DOMAIN parts /\ L \subseteq DOMAIN parts
      /\ (\A i \in W : ends[i] = "whole") /\ \A i \in L : ends[i] = "last"
  BY <1>4
<1> HIDE DEF at
<1>6. Completed(parts) = ElementsAt([i \in DOMAIN parts |-> parts[i].req], W)
                         \o ElementsAt([i \in DOMAIN parts |-> parts[i].req], L)
  BY <1>1, <1>4
<1>7. DoneAt(parts, W, L, Completed(parts))
  BY <1>2, <1>3, <1>5, <1>6 DEF DoneAt
<1> QED BY <1>7

\* Parts that have come back, among those under way.
Back(parts, U, E) ==
    /\ parts \in Seq(Part) /\ Single(parts) /\ ToSet(parts) \subseteq U /\ Apart(U) /\ U \subseteq Part
    /\ \A r \in Req : RqBook(r, rq[r], U, E)

\* A request with a part under way is issued.
LEMMA UnderIssued == ASSUME NEW r, NEW q, NEW U, NEW E, U \subseteq Part, RqBook(r, q, U, E), NEW p \in U, p.req = r
                     PROVE q.state = "issued" /\ p.off \in PartPages(p)
<1>1. p.off \in PartPages(p)
  BY PartCount
<1>2. p.off \in Of(r, U)
  BY <1>1, OfIn
<1> QED BY <1>1, <1>2 DEF RqBook

\* A request in one part has no other part.
LEMMA WholeDone ==
    ASSUME NEW parts, NEW U, NEW E, Back(parts, U, E), NEW p \in ToSet(parts), ~IsSplit(p.req), NEW o \in U, o.req = p.req
    PROVE  o = p
<1>1. p \in U /\ p \in Part /\ o \in Part /\ p.req \in Req /\ RqBook(p.req, rq[p.req], U, E) /\ Apart(U)
  BY PartCount DEF Back
<1>2. PartPages(p) = Pages(rq[p.req].off, rq[p.req].size) /\ PartPages(o) = Pages(rq[p.req].off, rq[p.req].size)
  BY <1>1 DEF RqBook, IsSplit
<1>3. p.off \in PartPages(p)
  BY <1>1, PartCount
<1>4. PartPages(p) \cap PartPages(o) # {}
  BY <1>2, <1>3
<1> QED BY <1>1, <1>4 DEF Apart

\* The requests that are put together are done, and each is there once.
LEMMA DoneRequests ==
    ASSUME NEW parts, NEW U, NEW E, Back(parts, U, E), NEW done, done = Completed(parts)
    PROVE  /\ done \in Seq(Req) /\ Single(done)
           /\ \A r \in ToSet(done) : /\ rq[r].state = "issued" /\ Of(r, U \ ToSet(parts)) = {}
                                     /\ \E p \in ToSet(parts) : p.req = r
<1>0. parts \in Seq(Part)
  BY DEF Back
<1>1. PICK W, L : DoneAt(parts, W, L, done)
  BY <1>0, CompletedAt
<1>2. PICK K : K = ToSet(parts)
  OBVIOUS
<1>3. Single(parts) /\ K \subseteq U /\ Apart(U) /\ U \subseteq Part /\ \A r \in Req : RqBook(r, rq[r], U, E)
  BY <1>2 DEF Back
<1>4. Len(parts) \in Nat /\ DOMAIN parts = 1 .. Len(parts) /\ \A i \in DOMAIN parts : parts[i] \in Part
  BY <1>0
<1>5. \A i \in DOMAIN parts : parts[i] \in K /\ parts[i].req \in Req
  <2>1. \A i \in DOMAIN parts : parts[i].req \in Req
    BY <1>4 DEF Part
  <2>2. \A i \in DOMAIN parts : parts[i] \in K
    BY <1>2 DEF ToSet
  <2> QED BY <2>1, <2>2
<1>6. PICK reqs : reqs = [i \in DOMAIN parts |-> parts[i].req]
  OBVIOUS
<1>7. reqs \in Seq(Req) /\ DOMAIN reqs = DOMAIN parts /\ \A i \in DOMAIN parts : reqs[i] = parts[i].req
  BY <1>4, <1>5, <1>6
<1>8. /\ W \subseteq DOMAIN parts /\ L \subseteq DOMAIN parts /\ done = ElementsAt(reqs, W) \o ElementsAt(reqs, L)
      /\ (\A i \in W : ~IsSplit(reqs[i]))
      /\ \A i \in L : /\ IsSplit(reqs[i]) /\ PagesOf(reqs[i], parts) = rq[reqs[i]].left
                      /\ \A j \in i + 1 .. Len(parts) : reqs[j] # reqs[i]
  <2>1. \A i \in L : \A j \in i + 1 .. Len(parts) : i \in DOMAIN parts /\ j \in DOMAIN parts
    BY <1>1, <1>4 DEF DoneAt
  <2> QED BY <1>1, <1>6, <1>7, <2>1 DEF DoneAt
<1>9. \A i, j \in W : reqs[i] = reqs[j] => i = j
  <2> SUFFICES ASSUME NEW i \in W, NEW j \in W, reqs[i] = reqs[j] PROVE i = j
    OBVIOUS
  <2>1. i \in DOMAIN parts /\ j \in DOMAIN parts /\ ~IsSplit(parts[i].req) /\ parts[j].req = parts[i].req
    BY <1>7, <1>8
  <2>2. parts[i] \in ToSet(parts) /\ parts[j] \in U
    BY <1>2, <1>3, <1>5, <2>1
  <2>3. parts[j] = parts[i]
    BY <2>1, <2>2, WholeDone
  <2> QED BY <1>3, <1>4, <2>1, <2>3 DEF Single
<1>10. \A i, j \in L : reqs[i] = reqs[j] => i = j
  <2> SUFFICES ASSUME NEW i \in L, NEW j \in L, reqs[i] = reqs[j] PROVE i = j
    OBVIOUS
  <2>1. i \in 1 .. Len(parts) /\ j \in 1 .. Len(parts)
    BY <1>4, <1>8
  <2>2. ~(i < j)
    <3>1. i < j => j \in i + 1 .. Len(parts)
      BY <1>4, <2>1
    <3> QED BY <1>8, <3>1
  <2>3. ~(j < i)
    <3>1. j < i => i \in j + 1 .. Len(parts)
      BY <1>4, <2>1
    <3> QED BY <1>8, <3>1
  <2> QED BY <2>1, <2>2, <2>3
<1>11. PICK w, l : w = ElementsAt(reqs, W) /\ l = ElementsAt(reqs, L)
  OBVIOUS
<1>12. /\ w \in Seq(Req) /\ ToSet(w) = {reqs[i] : i \in W} /\ Single(w)
       /\ l \in Seq(Req) /\ ToSet(l) = {reqs[i] : i \in L} /\ Single(l)
  BY <1>7, <1>8, <1>9, <1>10, <1>11, SelectionAll
<1>13. ToSet(w) \cap ToSet(l) = {}
  BY <1>8, <1>12
<1>14. done \in Seq(Req) /\ Single(done) /\ ToSet(done) = ToSet(w) \cup ToSet(l)
  BY <1>8, <1>11, <1>12, <1>13, CatSets
<1>15. ASSUME NEW i \in DOMAIN parts PROVE rq[reqs[i]].state = "issued"
  <2>1. RqBook(reqs[i], rq[reqs[i]], U, E) /\ parts[i] \in U /\ parts[i].req = reqs[i]
    BY <1>3, <1>5, <1>7
  <2> QED BY <1>3, <2>1, UnderIssued
<1>16. ASSUME NEW i \in W PROVE Of(reqs[i], U \ K) = {}
  <2>1. i \in DOMAIN parts /\ ~IsSplit(parts[i].req) /\ reqs[i] = parts[i].req /\ parts[i] \in K
    BY <1>5, <1>7, <1>8
  <2>2. \A o \in U : o.req = parts[i].req => o = parts[i]
    BY <1>2, <2>1, WholeDone
  <2>3. ~ \E o \in U \ K : o.req = reqs[i]
    BY <2>1, <2>2
  <2> QED BY <2>3 DEF Of
<1>17. ASSUME NEW i \in L PROVE Of(reqs[i], U \ K) = {}
  <2>1. i \in DOMAIN parts /\ PagesOf(reqs[i], parts) = rq[reqs[i]].left /\ reqs[i] \in Req
    BY <1>5, <1>7, <1>8
  <2>2. \A p, q \in ToSet(parts) : p.req = q.req /\ p # q => PartPages(p) \cap PartPages(q) = {}
    BY <1>2, <1>3 DEF Apart
  <2>3. PagesOf(reqs[i], parts) = Cardinality(Of(reqs[i], K))
    BY <1>0, <1>2, <1>3, <2>2, PagesSum
  <2>4. PICK r, g, n : r = reqs[i] /\ g = rq[reqs[i]] /\ n = Cardinality(Of(r, K))
    OBVIOUS
  <2>5. RqBook(r, g, U, E) /\ K \subseteq U /\ Apart(U) /\ n = Cardinality(Of(r, K)) /\ g.left = n
    BY <1>3, <2>1, <2>3, <2>4
  <2>6. g.left = n => Of(r, U \ K) = {}
    BY ONLY <2>5, TakenRequest
  <2> QED BY <2>4, <2>5, <2>6
<1>18. ASSUME NEW r \in ToSet(done)
       PROVE  rq[r].state = "issued" /\ Of(r, U \ ToSet(parts)) = {} /\ \E p \in ToSet(parts) : p.req = r
  <2>1. PICK i \in W \cup L : r = reqs[i]
    BY <1>12, <1>14, <1>18
  <2>2. i \in DOMAIN parts
    BY <1>8
  <2> QED BY <1>2, <1>5, <1>7, <1>15, <1>16, <1>17, <2>1, <2>2
<1> QED BY <1>14, <1>18

\* The counters when requests are put together: nothing is reported yet.
LEMMA TakeCount ==
    ASSUME NEW a \in App, NEW x, NEW y, NEW q, NEW s, NEW U, NEW V, CountBook(a, x, q, U), x.calls = <<>>, x.batch = 0,
           y.issued = x.issued, y.completed = x.completed, y.calls \in Seq(Req), y.batch = Len(y.calls),
           y.pc \notin {"none", "drain", "destroyed"},
           \A r \in Req : s[r].state = q[r].state,
           \A r \in ToSet(y.calls) : q[r].state = "issued" /\ Of(r, V) = {}
    PROVE  CountBook(a, y, s, V)
<1>1. Open(a, s) = Open(a, q)
  BY DEF Open
<1>2. PICK k \in Nat : k = Cardinality(Open(a, q))
  BY OpenFinite
<1>3. /\ x.issued \in 0 .. MaxReqs[a] /\ x.completed \in Nat /\ MaxReqs[a] \in Nat
      /\ x.issued - x.completed = k + x.batch - Len(x.calls)
  BY <1>2, DiskIOAssumption DEF CountBook
<1>4. PICK n \in Nat, i \in Nat, c \in Nat : n = Len(y.calls) /\ i = x.issued /\ c = x.completed
  BY <1>3
<1>5. i - c = k
  BY <1>3, <1>4
<1>6. y.issued - y.completed = Cardinality(Open(a, s)) + y.batch - Len(y.calls) /\ y.batch \in Nat /\ Len(y.calls) <= y.batch
  BY <1>1, <1>2, <1>4, <1>5
<1>7. \A j \in y.issued + 1 .. MaxReqs[a] : s[<<a, j>>].state = "new"
  <2> TAKE j \in y.issued + 1 .. MaxReqs[a]
  <2>1. j \in 1 .. MaxReqs[a]
    BY <1>3
  <2>2. <<a, j>> \in Req
    BY <2>1, ReqOf
  <2>3. q[<<a, j>>].state = "new"
    BY DEF CountBook
  <2> QED BY <2>2, <2>3
<1>8. \A r \in ToSet(y.calls) : s[r].state = "issued" /\ Of(r, V) = {}
  BY SetOfSeq
<1> QED BY <1>3, <1>6, <1>7, <1>8 DEF CountBook

\* Fetching the parts that have come back.
LEMMA TakeCompletedBook == ASSUME IInv, IInv', Books, NEW a \in App, TakeCompleted(a) PROVE Books'
<1>1. PICK x : /\ x = app[a] /\ x \in AppRec(x) /\ x.pc = "take" /\ AppBook(a, x) /\ CountBook(a, x, rq, Under) /\ DOMAIN app = App
               /\ x.calls = <<>> /\ x.batch = 0
  <2>1. app[a].pc = "take"
    BY DEF TakeCompleted
  <2>2. app[a].calls = <<>> /\ app[a].batch = 0
    BY <2>1, AppNow DEF AppBook
  <2> QED BY <2>1, <2>2, AppNow
<1>2. PICK parts \in Seq(Part) : parts = x.complete
  BY <1>1 DEF AppRec
<1>3. PICK U, E, K : U = Under /\ E = Early /\ U \subseteq Part /\ E \subseteq U /\ Apart(U) /\ K = ToSet(parts)
  BY UnderParts DEF Books
<1>4. K \subseteq InComplete /\ InComplete \subseteq U /\ \A p \in K : p.req[1] = a
  <2>1. K \subseteq Part /\ \A p \in K : p.req[1] = a
    BY <1>1, <1>2, <1>3, SetOfSeq DEF AppBook
  <2>2. K \subseteq InComplete
    BY <1>1, <1>2, <1>3, <2>1 DEF InComplete
  <2>3. Boxes[9] = InComplete /\ 9 \in 1 .. 9
    BY BoxAt
  <2>4. InComplete \subseteq U
    BY <1>3, <2>3 DEF Under, All
  <2> QED BY <2>1, <2>2, <2>4
<1>5. Back(parts, U, E)
  <2>1. \A r \in Req : RqBook(r, rq[r], U, E)
    BY <1>3 DEF Books
  <2>2. Single(parts)
    BY <1>1, <1>2 DEF AppBook
  <2> QED BY <1>3, <1>4, <2>1, <2>2 DEF Back
<1>6. PICK done : done = Completed(parts)
  OBVIOUS
<1>7. /\ done \in Seq(Req) /\ Single(done)
      /\ \A r \in ToSet(done) : rq[r].state = "issued" /\ Of(r, U \ K) = {} /\ \E p \in K : p.req = r
  BY <1>3, <1>5, <1>6, DoneRequests
<1>8. PICK num, batch : num = x.num + Len(parts) /\ batch = Len(done)
  OBVIOUS
<1>9. PICK y : /\ y = app'[a] /\ (\A b \in App \ {a} : app'[b] = app[b])
               /\ y = [x EXCEPT !.pc = "call", !.complete = <<>>, !.num = num, !.calls = done, !.batch = batch]
  <2>1. app' = [app EXCEPT ![a] = [x EXCEPT !.pc = "call", !.complete = <<>>, !.num = num, !.calls = done, !.batch = batch]]
    BY <1>1, <1>2, <1>6, <1>8 DEF TakeCompleted
  <2> QED BY <1>1, <2>1
<1>10. /\ y.pc = "call" /\ y.ret = x.ret /\ y.senders = x.senders /\ y.complete = <<>> /\ y.calls = done /\ y.batch = batch
       /\ y.mode = x.mode /\ y.issued = x.issued /\ y.completed = x.completed
  BY <1>1, <1>9 DEF AppRec
<1>11. AppBook(a, y)
  <2>1. \A r \in ToSet(done) : r[1] = a
    BY <1>4, <1>7
  <2>2. Single(y.complete) /\ ToSet(y.complete) = {}
    BY <1>10, ShortSets
  <2> QED BY <1>1, <1>7, <1>10, <2>1, <2>2 DEF AppBook
<1>12. UNCHANGED <<file, io, ct>>
  BY DEF TakeCompleted
<1>13. InComplete' = InComplete \ K /\ InSender' = InSender
  <2>1. AppBook(a, app[a]) /\ AppBook(a, app'[a])
    BY <1>1, <1>9, <1>11
  <2>2. /\ InComplete' = (InComplete \ ToSet(app[a].complete)) \cup ToSet(app'[a].complete)
        /\ \A p \in Part : p.req[1] # a => (p \in InSender' <=> p \in InSender)
        /\ \A p \in Part : p.req[1] = a => /\ p \in InSender <=> p \in ToSet(app[a].senders[DiskOf(p)])
                                           /\ p \in InSender' <=> p \in ToSet(app'[a].senders[DiskOf(p)])
    BY <1>9, <2>1, AppBoxes
  <2>3. ToSet(app'[a].complete) = {}
    BY <1>9, <1>10, ShortSets
  <2>4. InComplete' = InComplete \ K
    BY <1>1, <1>2, <1>3, <2>2, <2>3
  <2>5. InSender \subseteq Part /\ InSender' \subseteq Part
    BY DEF InSender
  <2>6. InSender' = InSender
    <3>1. app'[a].senders = app[a].senders
      BY <1>1, <1>9, <1>10
    <3>2. \A p \in Part : p \in InSender' <=> p \in InSender
      BY ONLY <2>2, <3>1
    <3> QED BY <2>5, <3>2
  <2> QED BY <2>4, <2>6
<1>14. /\ InQueue' = InQueue /\ InLocal' = InLocal /\ InKernel' = InKernel /\ InFinished' = InFinished /\ InTcbs' = InTcbs
       /\ InCTQueue' = InCTQueue /\ InCTTcbs' = InCTTcbs
  BY <1>12 DEF InQueue, InLocal, InKernel, InFinished, InTcbs, InCTQueue, InCTTcbs
<1>15. Disjoint(Boxes') /\ Under' = U \ K /\ Early' = E
  <2>1. PICK B, C : B = Boxes /\ C = Boxes' /\ Disjoint(B)
    BY DEF Books
  <2>2. U = All(B) /\ E = First4(B) /\ Under' = All(C) /\ Early' = First4(C)
    BY <1>3, <2>1 DEF Under, Early
  <2>3. C[9] = B[9] \ K /\ K \subseteq B[9]
    BY <1>4, <1>13, <2>1, BoxAt
  <2>4. \A l \in 1 .. 8 : C[l] = B[l]
    <3>1. \A l \in 1 .. 8 : l \in 1 .. 9 /\ l # 9
      OBVIOUS
    <3> QED BY <1>13, <1>14, <2>1, <3>1, BoxAt, Nine
  <2>5. LessOf(B, C, K) /\ Disjoint(B)
    BY <2>1, <2>3, <2>4 DEF LessOf
  <2>6. Disjoint(C) /\ All(C) = All(B) \ K /\ First4(C) = First4(B)
    BY ONLY <2>5, LessParts
  <2> QED BY <2>1, <2>2, <2>6
<1>16. ASSUME NEW r \in Req, r[1] = a
       PROVE  RqBook(r, rq'[r], U \ K, E) /\ rq'[r].state = rq[r].state
  <2>1. rq'[r] = [rq[r] EXCEPT !.left = @ - PagesOf(r, parts)]
    BY <1>1, <1>2, <1>16 DEF TakeCompleted
  <2>2. \A p, q \in ToSet(parts) : p.req = q.req /\ p # q => PartPages(p) \cap PartPages(q) = {}
    BY <1>3, <1>4 DEF Apart
  <2>3. PagesOf(r, parts) = Cardinality(Of(r, K))
    BY <1>3, <1>5, <2>2, PagesSum DEF Back
  <2>4. PICK g, n : g = rq[r] /\ n = Cardinality(Of(r, K))
    OBVIOUS
  <2>5. RqBook(r, g, U, E) /\ K \subseteq U /\ Apart(U) /\ n = Cardinality(Of(r, K))
    BY <1>3, <1>4, <1>5, <2>4 DEF Back
  <2>6. RqBook(r, [g EXCEPT !.left = g.left - n], U \ K, E) /\ [g EXCEPT !.left = g.left - n].state = g.state
    <3>1. RqBook(r, [g EXCEPT !.left = g.left - n], U \ K, E)
      BY ONLY <2>5, TakenRequest, Zenon
    <3>2. [g EXCEPT !.left = g.left - n].state = g.state
      BY <2>5 DEF RqBook, RqRec
    <3> QED BY <3>1, <3>2
  <2>7. rq'[r] = [g EXCEPT !.left = g.left - n]
    BY <2>1, <2>3, <2>4
  <2> QED BY <2>4, <2>6, <2>7
<1>17. ASSUME NEW r \in Req, r[1] # a
       PROVE  RqBook(r, rq'[r], U \ K, E) /\ rq'[r] = rq[r] /\ Of(r, U \ K) = Of(r, U)
  <2>1. rq'[r] = rq[r]
    BY <1>17 DEF TakeCompleted
  <2>2. \A p \in U : p.req = r => p \in U \ K
    BY <1>4, <1>17
  <2>3. Of(r, U \ K) = Of(r, U) /\ \A p \in U \ K : p.req = r => p \in U
    BY <2>2 DEF Of
  <2>4. PICK g : g = rq[r] /\ RqBook(r, g, U, E)
    BY <1>5 DEF Back
  <2>5. RqBook(r, g, U \ K, E)
    BY ONLY <2>3, <2>4, OtherRequest
  <2> QED BY <2>1, <2>3, <2>4, <2>5
<1>18. DOMAIN rq' = Req /\ \A r \in Req : RqBook(r, rq'[r], Under', Early')
  <2>1. DOMAIN rq' = Req
    BY DEF TakeCompleted
  <2> QED BY <1>15, <1>16, <1>17, <2>1
<1>19. CountBook(a, y, rq', Under')
  <2>1. PICK g, q, V : g = rq' /\ q = rq /\ V = Under' /\ V = U \ K
    BY <1>15
  <2>2. CountBook(a, x, q, U) /\ x.calls = <<>> /\ x.batch = 0
    BY <1>1, <1>3, <2>1
  <2>3. /\ y.issued = x.issued /\ y.completed = x.completed /\ y.calls \in Seq(Req) /\ y.batch = Len(y.calls)
        /\ y.pc \notin {"none", "drain", "destroyed"}
    BY <1>7, <1>8, <1>10
  <2>4. \A r \in Req : g[r].state = q[r].state
    BY <1>16, <1>17, <2>1
  <2>5. \A r \in ToSet(y.calls) : q[r].state = "issued" /\ Of(r, V) = {}
    BY <1>7, <1>10, <2>1
  <2>6. CountBook(a, y, g, V)
    BY ONLY a \in App, <2>2, <2>3, <2>4, <2>5, TakeCount
  <2> QED BY <2>1, <2>6
<1>20. FileApp(file, y)
  BY <1>1, <1>10, GoesOn
<1>21. \A b \in App : AppBook(b, app'[b]) /\ CountBook(b, app'[b], rq', Under') /\ FileApp(file', app'[b])
  <2> TAKE b \in App
  <2>1. CASE b = a
    BY <1>9, <1>11, <1>12, <1>19, <1>20, <2>1
  <2>2. CASE b # a
    <3>1. /\ app'[b] = app[b] /\ AppBook(b, app[b]) /\ CountBook(b, app[b], rq, U) /\ FileApp(file, app[b])
          /\ ToSet(app[b].calls) \subseteq Req
      BY <1>3, <1>9, <2>2, AppNow, PlaceSets
    <3>2. \A s \in Req : s[1] = b => rq'[s].state = rq[s].state /\ Of(s, Under') = Of(s, U)
      BY <1>15, <1>17, <2>2
    <3>3. \A s \in ToSet(app[b].calls) : s[1] = b
      BY <3>1 DEF AppBook
    <3>4. CountBook(b, app[b], rq', Under')
      BY <3>1, <3>2, <3>3, CountOther
    <3> QED BY <1>12, <3>1, <3>4
  <2> QED BY <2>1, <2>2
<1>22. \A d \in Stripe : IOBook(io'[d]) /\ FileIO(file', d, io'[d])
  BY <1>12, IONow
<1>23. CTBook(ct') /\ (file'.pc = "opened" => file'.op = "open")
  BY <1>12 DEF Books
<1>24. Apart(Under')
  BY <1>3, <1>15 DEF Apart
<1> QED BY <1>15, <1>18, <1>21, <1>22, <1>23, <1>24 DEF Books

-------------------------------------------------------------------------------
(* The books hold                                                          *)

\* In the beginning no part is under way, and nothing has been issued.
LEMMA InitBook == Init => Books
<1> SUFFICES ASSUME Init PROVE Books
  OBVIOUS
<1>1. \A a \in App : app[a] = [pc |-> "none", ret |-> "idle", disk |-> 0, act |-> FALSE,
                 senders |-> [d \in Stripe |-> <<>>], complete |-> <<>>, calls |-> <<>>,
                 mode |-> "none", issued |-> 0, completed |-> 0, batch |-> 0,
                 base |-> 0, target |-> 0, num |-> 0]
  BY DEF Init
<1>2. \A d \in Stripe : io[d] =
                [pc |-> "wait", act |-> FALSE, queue |-> <<>>, comm |-> <<>>, open |-> FALSE,
                 local |-> <<>>, kernel |-> {}, finished |-> <<>>, events |-> 0,
                 tcbs |-> <<>>, grouped |-> FALSE, to |-> None, ret |-> "fetch"]
  BY DEF Init
<1>3. ct.pc = "wait" /\ ct.queue = <<>> /\ ct.tcbs = <<>> /\ file.pc = "command" /\ file.op = "open" /\ file.disk = 0
  BY DEF Init
<1>4. Single(<<>>) /\ ToSet(<<>>) = {} /\ Len(<<>>) = 0
  BY ShortSets
<1>5. \A p \in Part : p.req[1] \in App /\ DiskOf(p) \in Stripe
  BY PartHome
<1>6. \A a \in App : app[a].complete = <<>> /\ \A d \in Stripe : app[a].senders[d] = <<>>
  BY <1>1
<1>7. \A d \in Stripe : /\ io[d].queue = <<>> /\ io[d].local = <<>> /\ io[d].kernel = {} /\ io[d].finished = <<>>
                        /\ io[d].tcbs = <<>>
  BY <1>2
<1>8. /\ InSender = {} /\ InQueue = {} /\ InLocal = {} /\ InKernel = {} /\ InFinished = {} /\ InTcbs = {}
      /\ InCTQueue = {} /\ InCTTcbs = {} /\ InComplete = {}
  BY <1>3, <1>4, <1>5, <1>6, <1>7
     DEF InSender, InQueue, InLocal, InKernel, InFinished, InTcbs, InCTQueue, InCTTcbs, InComplete
<1>9. \A i \in 1 .. 9 : Boxes[i] = {}
  BY <1>8, BoxAt, Nine
<1>10. Disjoint(Boxes) /\ Under = {} /\ Early = {}
  <2>1. \A i \in 1 .. 4 : i \in 1 .. 9
    OBVIOUS
  <2> QED BY <1>9, <2>1 DEF Disjoint, Under, Early, All, First4
<1>11. \A r : Of(r, {}) = {}
  BY DEF Of
<1>12. \A r \in Req : rq[r] = [state |-> "new", off |-> 0, size |-> 0, left |-> 0, moved |-> {}]
  BY DEF Init
<1>13. ASSUME NEW r \in Req PROVE RqBook(r, rq[r], {}, {})
  <2>1. rq[r].state = "new" /\ rq[r].off = 0 /\ rq[r].size = 0 /\ rq[r].left = 0 /\ rq[r].moved = {} /\ rq[r] \in RqRec
    BY <1>12 DEF RqRec
  <2>2. Pages(0, 0) = {} /\ Cardinality({}) = 0
    BY FS_EmptySet DEF Pages
  <2> QED BY <1>11, <2>1, <2>2 DEF RqBook
<1>14. DOMAIN rq = Req
  BY DEF Init
<1>15. ASSUME NEW a \in App PROVE AppBook(a, app[a]) /\ CountBook(a, app[a], rq, {}) /\ FileApp(file, app[a])
  <2>1. /\ app[a].pc = "none" /\ app[a].calls = <<>> /\ app[a].batch = 0 /\ app[a].mode = "none" /\ app[a].issued = 0
        /\ app[a].completed = 0
    BY <1>1
  <2>2. AppBook(a, app[a])
    BY <1>4, <1>6, <2>1 DEF AppBook
  <2>3. Open(a, rq) = {}
    BY <1>12 DEF Open
  <2>4. MaxReqs[a] \in Nat /\ Cardinality({}) = 0
    BY DiskIOAssumption, FS_EmptySet
  <2>5. ASSUME NEW i \in 0 + 1 .. MaxReqs[a] PROVE rq[<<a, i>>].state = "new"
    <3>1. i \in 1 .. MaxReqs[a]
      OBVIOUS
    <3>2. <<a, i>> \in Req
      BY <3>1, ReqOf
    <3> QED BY <1>12, <3>2
  <2>6. CountBook(a, app[a], rq, {})
    BY <1>4, <2>1, <2>3, <2>4, <2>5 DEF CountBook
  <2>7. FileApp(file, app[a])
    BY <1>3, <2>1 DEF FileApp
  <2> QED BY <2>2, <2>6, <2>7
<1>16. ASSUME NEW d \in Stripe PROVE IOBook(io[d]) /\ FileIO(file, d, io[d])
  <2>1. IOBook(io[d])
    BY <1>2, <1>4 DEF IOBook
  <2>2. io[d].comm = <<>> /\ d \in Nat
    BY <1>2 DEF Stripe
  <2>3. FileIO(file, d, io[d])
    BY <1>3, <2>2 DEF FileIO
  <2> QED BY <2>1, <2>3
<1>17. CTBook(ct) /\ (file.pc = "opened" => file.op = "open")
  BY <1>3, <1>4 DEF CTBook
<1>18. Apart({})
  BY DEF Apart
<1> QED BY <1>10, <1>13, <1>14, <1>15, <1>16, <1>17, <1>18 DEF Books

\* Every step keeps them.
LEMMA NextBook == ASSUME IInv, Books, [Next]_vars PROVE Books'
<1>0. IInv'
  BY NextInv
<1>1. CASE UNCHANGED vars
  <2>1. Boxes' = Boxes
    <3>1. app' = app /\ io' = io /\ ct' = ct
      BY <1>1 DEF vars
    <3> QED BY <3>1, SameBoxes
  <2>2. UNCHANGED <<file, rq, app, io, ct, Boxes, Under, Early>>
    BY <1>1, <2>1 DEF vars, Under, Early
  <2> QED BY <2>2 DEF Books
<1>2. ASSUME NEW a \in App, NEW e \in Extents[a], NEW sync \in BOOLEAN, Access(a, e[1], e[2], sync) PROVE Books'
  BY <1>0, <1>2, AccessBook
<1>3. ASSUME NEW a \in App, Waits(a) PROVE Books'
  <2>1. PICK mode \in Modes[a], num \in {1, MaxReqs[a]} : Wait4Complete(a, mode, num)
    BY <1>3 DEF Waits
  <2>2. mode \in {"wait", "select"}
    BY DiskIOAssumption
  <2> QED BY <2>1, <2>2, Wait4CompleteBook
<1>4. ASSUME NEW a \in App, FlushRequest(a) \/ Cleanup(a) PROVE Books'
  BY <1>4, FlushRequestBook, CleanupBook
<1>5. ASSUME NEW a \in App, AppStep(a) PROVE Books'
  BY <1>0, <1>5, CreateIOBook, FlushBook, ActivateIOBook, TakeCompletedBook, CallbackBook, CountedBook, WakeAppBook, DrainBook
     DEF AppStep
<1>6. ASSUME NEW d \in Stripe, IOStep(d) PROVE Books'
  BY <1>0, <1>6, RunBook, FetchAgainBook, SubmitMoreBook, IOWaitBook, ActivateCTBook, NotifyByIOBook, WakeByIOBook
     DEF IOStep
<1>7. ASSUME NEW d \in Stripe, KernelDone(d) PROVE Books'
  BY <1>0, <1>7, KernelDoneBook
<1>8. CASE CTStep
  BY <1>0, <1>8, TakeTcbsBook, NotifyByCTBook, WakeByCTBook DEF CTStep
<1>9. CASE FileStep
  BY <1>9, CommandBook, CommandActivateBook, AnsweredBook, CloseBook DEF FileStep
<1> QED BY <1>1, <1>2, <1>3, <1>4, <1>5, <1>6, <1>7, <1>8, <1>9 DEF Next

\* The books hold: every part that is under way is in one place and once there, what is left of a
\* request is the pages of its parts under way, and what was moved is all but those in front of the
\* kernel or with it.
THEOREM DiskIOBooks == Spec => []Books
<1>1. Init => IInv /\ Books
  BY InitInv, InitBook
<1>2. IInv /\ Books /\ [Next]_vars => (IInv /\ Books)'
  BY NextInv, NextBook
<1> QED BY <1>1, <1>2, PTL DEF Spec

-------------------------------------------------------------------------------
(* What the books say                                                      *)

\* Types.
LEMMA TypesHold == IInv /\ Books => TypeOK
<1> SUFFICES ASSUME IInv, Books PROVE TypeOK
  OBVIOUS
<1>1. ASSUME NEW r \in Req
      PROVE  /\ rq[r].state \in {"new", "issued", "done"}
             /\ <<rq[r].off, rq[r].size>> \in Extents[r[1]] \cup {<<0, 0>>}
             /\ rq[r].left \in 0 .. rq[r].size
  <2>1. PICK q, U, E : q = rq[r] /\ U = Under /\ E = Early /\ RqBook(r, q, U, E) /\ q \in RqRec
    BY DEF Books, RqBook
  <2>2. q.state \in {"new", "issued", "done"} /\ q.off \in Nat /\ q.size \in Nat /\ q.left \in Nat
    BY <2>1 DEF RqRec
  <2>3. <<q.off, q.size>> \in Extents[r[1]] \cup {<<0, 0>>}
    BY <2>1 DEF RqBook
  <2>4. Of(r, U) \subseteq Pages(q.off, q.size) /\ q.left = Cardinality(Of(r, U))
    BY <2>1 DEF RqBook
  <2>5. IsFiniteSet(Pages(q.off, q.size)) /\ Cardinality(Pages(q.off, q.size)) = q.size
    <3>1. PICK l \in Nat, n \in Nat, h \in Int : l = q.off /\ n = q.size /\ h = l + n - 1
      BY <2>2
    <3>2. IsFiniteSet(l .. h) /\ Cardinality(l .. h) = IF l > h THEN 0 ELSE h - l + 1
      BY FS_Interval
    <3>3. (IF l > h THEN 0 ELSE h - l + 1) = n
      BY <3>1
    <3>4. Pages(q.off, q.size) = l .. h
      BY <3>1 DEF Pages
    <3> QED BY <3>1, <3>2, <3>3, <3>4
  <2>6. Cardinality(Of(r, U)) <= q.size
    BY <2>4, <2>5, FS_Subset
  <2>7. q.left \in 0 .. q.size
    BY <2>2, <2>4, <2>6
  <2> QED BY <2>1, <2>2, <2>3, <2>7
<1>2. ASSUME NEW a \in App
      PROVE  /\ app[a].pc \in {"none", "idle", "flush", "flushed", "take", "call", "wait", "drain", "destroyed"}
             /\ app[a].ret \in {"idle", "take", "call"}
             /\ app[a].mode \in {"none", "wait", "select"}
             /\ app[a].disk \in Stripe /\ app[a].issued \in 0 .. MaxReqs[a] /\ app[a].completed \in Nat
             /\ \A d \in Stripe : ToSet(app[a].senders[d]) \subseteq Part
             /\ ToSet(app[a].complete) \subseteq Part /\ ToSet(app[a].calls) \subseteq Req
  <2>1. app[a] \in AppRec(app[a]) /\ AppBook(a, app[a]) /\ CountBook(a, app[a], rq, Under)
    BY AppNow
  <2>2. /\ app[a].pc \in {"none", "idle", "flush", "flushed", "take", "call", "wait", "drain", "destroyed"}
        /\ app[a].ret \in {"idle", "take", "call"} /\ app[a].disk \in Stripe
    BY <2>1 DEF AppRec
  <2>3. app[a].mode \in {"none", "wait", "select"} /\ app[a].issued \in 0 .. MaxReqs[a] /\ app[a].completed \in Nat
    BY <2>1 DEF AppBook, CountBook
  <2>4. /\ ToSet(app[a].complete) \subseteq Part /\ ToSet(app[a].calls) \subseteq Req
        /\ \A d \in Stripe : ToSet(app[a].senders[d]) \subseteq PartAt(d)
    BY PlaceSets
  <2>5. \A d \in Stripe : ToSet(app[a].senders[d]) \subseteq Part
    BY <2>4, PartAtPart
  <2> QED BY <2>2, <2>3, <2>4, <2>5
<1>3. ASSUME NEW d \in Stripe
      PROVE  /\ io[d].pc \in {"comm", "fetch", "access", "iowait", "added", "notify", "notified", "wait"}
             /\ ToSet(io[d].queue \o io[d].local \o io[d].finished \o io[d].tcbs) \cup io[d].kernel \subseteq Part
             /\ io[d].open \in BOOLEAN
             /\ Busy(d) \in 0 .. AIODepth /\ io[d].to \in App \cup {None}
  <2>1. io[d] \in IORec(d) /\ SlotsOK(io[d])
    BY DEF IInv, IOsOK, IOOK
  <2>2. /\ io[d].pc \in {"comm", "fetch", "access", "iowait", "added", "notify", "notified", "wait"}
        /\ io[d].open \in BOOLEAN /\ io[d].to \in App \cup {None} /\ io[d].events \in Nat
        /\ io[d].kernel \subseteq PartAt(d)
        /\ io[d].queue \in Seq(PartAt(d)) /\ io[d].local \in Seq(PartAt(d))
        /\ io[d].finished \in Seq(PartAt(d)) /\ io[d].tcbs \in Seq(PartAt(d))
    BY <2>1 DEF IORec
  <2>3. PICK s : s = io[d].queue \o io[d].local \o io[d].finished \o io[d].tcbs
    OBVIOUS
  <2>4. s \in Seq(PartAt(d))
    BY <2>2, <2>3
  <2>5. ToSet(s) \subseteq PartAt(d) /\ PartAt(d) \subseteq Part
    BY <2>4, SetOfSeq, PartAtPart
  <2>6. Busy(d) \in 0 .. AIODepth
    <3>1. Cardinality(io[d].kernel) \in Nat /\ Len(io[d].finished) \in Nat
      BY <2>1, <2>2, FS_CardinalityType DEF SlotsOK
    <3>2. Busy(d) <= AIODepth /\ AIODepth \in Nat
      BY <2>1, DiskIOAssumption DEF SlotsOK, Busy
    <3>3. Busy(d) \in Nat
      BY <2>2, <3>1 DEF Busy
    <3> QED BY <3>2, <3>3
  <2> QED BY <2>2, <2>3, <2>5, <2>6
<1>4. /\ ct.pc \in {"notify", "notified", "wait"} /\ ct.to \in App \cup {None}
      /\ ToSet(ct.queue \o ct.tcbs) \subseteq Part /\ Len(ct.queue) <= CompleteSize
  <2>1. ct \in CTRec /\ Len(ct.queue) <= CompleteSize
    BY DEF IInv, CTOK
  <2>2. ct.pc \in {"notify", "notified", "wait"} /\ ct.to \in App \cup {None} /\ ct.queue \in Seq(Part) /\ ct.tcbs \in Seq(Part)
    BY <2>1 DEF CTRec
  <2>3. ct.queue \o ct.tcbs \in Seq(Part)
    BY <2>2
  <2>4. ToSet(ct.queue \o ct.tcbs) \subseteq Part
    BY <2>3, SetOfSeq
  <2> QED BY <2>1, <2>2, <2>4
<1> QED BY <1>1, <1>2, <1>3, <1>4 DEF TypeOK

\* Whoever has a part under way has an instance, and so the file is open.
LEMMA PendingExact == IInv /\ Books => PendingIsExact
<1> SUFFICES ASSUME IInv, Books PROVE PendingIsExact
  OBVIOUS
<1>1. ASSUME NEW a \in App
      PROVE  Pending(a) = Cardinality({r \in Req : r[1] = a /\ rq[r].state = "issued"}) + app[a].batch - Len(app[a].calls)
  <2>1. CountBook(a, app[a], rq, Under)
    BY AppNow
  <2> QED BY <2>1 DEF CountBook, Open, Pending
<1>2. ASSUME NEW d \in Stripe, io[d].kernel # {} PROVE io[d].open
  <2>1. PICK p \in Part : p \in io[d].kernel /\ DiskOf(p) = d
    BY <1>2, PlaceSets, PartAtPart
  <2>2. p \in Under
    <3>1. p \in InKernel
      BY <2>1 DEF InKernel
    <3>2. p \in Boxes[4] /\ 4 \in 1 .. 9
      BY <3>1, BoxAt
    <3> QED BY <3>2 DEF Under, All
  <2>3. PICK r \in Req : r = p.req /\ r[1] \in App /\ RqBook(r, rq[r], Under, Early)
    BY PartHome DEF Books
  <2>4. rq[r].state = "issued"
    BY <2>2, <2>3, UnderParts, UnderIssued
  <2>5. r \in Open(r[1], rq)
    BY <2>4 DEF Open
  <2>6. app[r[1]].pc \notin {"none", "destroyed"}
    BY <2>3, <2>5, AppNow DEF CountBook
  <2> QED BY <2>3, <2>6, Instance
<1> QED BY <1>1, <1>2 DEF PendingIsExact

-------------------------------------------------------------------------------
(* The service                                                             *)

\* Nothing that the service is about changes.
LEMMA ServiceStutter ==
    ASSUME \A r \in Req : rq'[r].state = rq[r].state /\ rq'[r].off = rq[r].off /\ rq'[r].size = rq[r].size /\ rq'[r].moved = rq[r].moved
    PROVE  UNCHANGED Service!vars
BY DEF Service!vars

\* A request that is issued, and perhaps another one that is reported.
LEMMA ServiceIssue ==
    ASSUME NEW r \in Req, NEW a \in App, NEW e \in Extents[a], rq[r].state = "new", rq[r].moved = {},
           rq'[r] = Issued(e[1], e[2]), \A s \in Req : s # r => rq'[s] = rq[s]
    PROVE  Service!Next
<1>1. rq'[r].state = "issued" /\ rq'[r].off = e[1] /\ rq'[r].size = e[2] /\ rq'[r].moved = {}
  BY DEF Issued
<1>2. Pages(e[1], e[2]) \in {Pages(x[1], x[2]) : x \in UNION {Extents[b] : b \in App}}
  OBVIOUS
<1>3. Service!Issue(r, Pages(e[1], e[2]))
  BY <1>1 DEF Service!Issue
<1> QED BY <1>2, <1>3 DEF Service!Next

\* Pages that are moved.
LEMMA ServiceTransfer ==
    ASSUME NEW r \in Req, rq[r].state = "issued", NEW P, P # {}, P \subseteq Pages(rq[r].off, rq[r].size) \ rq[r].moved,
           rq'[r].state = rq[r].state, rq'[r].off = rq[r].off, rq'[r].size = rq[r].size, rq'[r].moved = rq[r].moved \cup P,
           \A s \in Req : s # r => rq'[s] = rq[s]
    PROVE  Service!Next
<1>1. Service!Transfer(r, P)
  BY DEF Service!Transfer
<1>2. P \in SUBSET ([s \in Req |-> Pages(rq[s].off, rq[s].size)][r] \ [s \in Req |-> rq[s].moved][r])
  OBVIOUS
<1> QED BY <1>1, <1>2 DEF Service!Next

\* A request that is reported.
LEMMA ServiceReport ==
    ASSUME NEW r \in Req, rq[r].state = "issued", rq[r].moved = Pages(rq[r].off, rq[r].size), rq'[r].state = "done",
           rq'[r].off = rq[r].off, rq'[r].size = rq[r].size, rq'[r].moved = rq[r].moved, \A s \in Req : s # r => rq'[s] = rq[s]
    PROVE  Service!Next
<1>1. Service!Report(r)
  BY DEF Service!Report
<1> QED BY <1>1 DEF Service!Next

\* ... while another one is issued.
LEMMA ServiceBoth ==
    ASSUME NEW r \in Req, rq[r].state = "issued", rq[r].moved = Pages(rq[r].off, rq[r].size), rq'[r].state = "done",
           rq'[r].off = rq[r].off, rq'[r].size = rq[r].size, rq'[r].moved = rq[r].moved,
           NEW t \in Req, NEW a \in App, NEW e \in Extents[a], rq[t].state = "new", rq[t].moved = {}, rq'[t] = Issued(e[1], e[2]),
           \A s \in Req : s # r /\ s # t => rq'[s] = rq[s]
    PROVE  Service!Next
<1>1. rq'[t].state = "issued" /\ rq'[t].off = e[1] /\ rq'[t].size = e[2] /\ rq'[t].moved = {} /\ t # r
  BY DEF Issued
<1>2. Pages(e[1], e[2]) \in {Pages(x[1], x[2]) : x \in UNION {Extents[b] : b \in App}}
  OBVIOUS
<1>3. Service!ReportAndIssue(r, t, Pages(e[1], e[2]))
  BY <1>1 DEF Service!ReportAndIssue
<1> QED BY <1>2, <1>3 DEF Service!Next

\* A request that is about to be issued is new.
LEMMA NextNew == ASSUME IInv, Books, NEW a \in App, app[a].issued < MaxReqs[a]
                 PROVE /\ <<a, app[a].issued + 1>> \in Req
                       /\ rq[<<a, app[a].issued + 1>>].state = "new" /\ rq[<<a, app[a].issued + 1>>].moved = {}
<1>1. CountBook(a, app[a], rq, Under) /\ MaxReqs[a] \in Nat
  BY AppNow, DiskIOAssumption
<1>2. PICK n \in 1 .. MaxReqs[a] : n = app[a].issued + 1 /\ n \in app[a].issued + 1 .. MaxReqs[a]
  BY <1>1 DEF CountBook
<1>3. PICK r \in Req : r = <<a, n>>
  BY <1>2, ReqOf
<1>4. rq[r].state = "new"
  BY <1>1, <1>2, <1>3 DEF CountBook
<1>5. RqBook(r, rq[r], Under, Early)
  BY DEF Books
<1>6. rq[r].off = 0 /\ rq[r].size = 0 /\ rq[r].moved \subseteq Pages(rq[r].off, rq[r].size)
  BY <1>4, <1>5 DEF RqBook
<1>7. Pages(0, 0) = {}
  BY DEF Pages
<1> QED BY <1>2, <1>3, <1>4, <1>6, <1>7

\* A request that is about to be reported has been moved.
LEMMA CalledMoved == ASSUME IInv, Books, NEW a \in App, app[a].calls # <<>>, NEW r, r = Head(app[a].calls)
                     PROVE r \in Req /\ rq[r].state = "issued" /\ rq[r].moved = Pages(rq[r].off, rq[r].size)
<1>1. app[a].calls \in Seq(Req) /\ CountBook(a, app[a], rq, Under)
  BY PlaceTypes, AppNow
<1>2. r \in ToSet(app[a].calls) /\ r \in Req
  <2>1. Head(app[a].calls) \in Req
    BY <1>1
  <2>2. /\ 1 \in DOMAIN app[a].calls /\ Head(app[a].calls) = app[a].calls[1]
    BY <1>1
  <2> QED BY <2>1, <2>2 DEF ToSet
<1>3. rq[r].state = "issued" /\ Of(r, Under) = {}
  BY <1>1, <1>2 DEF CountBook
<1>4. RqBook(r, rq[r], Under, Early)
  BY <1>2 DEF Books
<1>5. Of(r, Early) = {}
  <2>1. Early \subseteq Under
    BY UnderParts
  <2>2. \A x : x \in Of(r, Early) => x \in Of(r, Under)
    BY <2>1, OfIn
  <2> QED BY <1>3, <2>2
<1> QED BY <1>2, <1>3, <1>4, <1>5 DEF RqBook

\* Every step is one of the service, or none.
LEMMA ServiceStep == ASSUME IInv, Books, [Next]_vars PROVE [Service!Next]_(Service!vars)
<1>0. DOMAIN rq = Req /\ \A r \in Req : rq[r] \in RqRec /\ RqBook(r, rq[r], Under, Early)
  BY DEF Books, RqBook
<1>1. ASSUME rq' = rq PROVE UNCHANGED Service!vars
  BY <1>1, ServiceStutter
<1>2. ASSUME NEW a \in App, NEW e \in Extents[a], NEW sync \in BOOLEAN, Access(a, e[1], e[2], sync) PROVE Service!Next
  <2>1. app[a].issued < MaxReqs[a] /\ rq' = [rq EXCEPT ![<<a, app[a].issued + 1>>] = Issued(e[1], e[2])]
    BY <1>2 DEF Access, AccessBy
  <2>2. PICK r \in Req : r = <<a, app[a].issued + 1>> /\ rq[r].state = "new" /\ rq[r].moved = {}
    BY <2>1, NextNew
  <2>3. rq'[r] = Issued(e[1], e[2]) /\ \A s \in Req : s # r => rq'[s] = rq[s]
    BY <1>0, <2>1, <2>2
  <2> QED BY <2>2, <2>3, ServiceIssue
<1>3. ASSUME NEW a \in App, TakeCompleted(a) PROVE UNCHANGED Service!vars
  <2>1. ASSUME NEW r \in Req
        PROVE  rq'[r].state = rq[r].state /\ rq'[r].off = rq[r].off /\ rq'[r].size = rq[r].size /\ rq'[r].moved = rq[r].moved
    <3>1. PICK n : n = rq[r].left - PagesOf(r, app[a].complete)
      OBVIOUS
    <3>2. rq'[r] = IF r[1] = a THEN [rq[r] EXCEPT !.left = n] ELSE rq[r]
      BY <1>3, <3>1 DEF TakeCompleted
    <3> QED BY <1>0, <3>2 DEF RqRec
  <2> QED BY <2>1, ServiceStutter
<1>4. ASSUME NEW a \in App, Callback(a) PROVE Service!Next
  <2>1. PICK r \in Req : r = Head(app[a].calls) /\ rq[r].state = "issued" /\ rq[r].moved = Pages(rq[r].off, rq[r].size)
    BY <1>4, CalledMoved DEF Callback
  <2>a. PICK q : q = [rq[r] EXCEPT !.state = "done"]
    OBVIOUS
  <2>2. q.state = "done" /\ q.off = rq[r].off /\ q.size = rq[r].size /\ q.moved = rq[r].moved
    BY <1>0, <2>a DEF RqRec
  <2>3. CASE rq' = [rq EXCEPT ![Head(app[a].calls)].state = "done"]
    <3>1. rq'[r] = q /\ \A s \in Req : s # r => rq'[s] = rq[s]
      BY <1>0, <2>a, <2>1, <2>3
    <3>2. /\ rq'[r].state = "done" /\ rq'[r].off = rq[r].off /\ rq'[r].size = rq[r].size /\ rq'[r].moved = rq[r].moved
      BY <2>2, <3>1
    <3> QED BY <2>1, <3>1, <3>2, ServiceReport
  <2>4. ASSUME NEW e \in Extents[a], AccessBy(a, e[1], e[2], FALSE, "call"),
               rq' = [rq EXCEPT ![Head(app[a].calls)].state = "done", ![<<a, app[a].issued + 1>>] = Issued(e[1], e[2])]
        PROVE  Service!Next
    <3>1. app[a].issued < MaxReqs[a]
      BY <2>4 DEF AccessBy
    <3>2. PICK t \in Req : t = <<a, app[a].issued + 1>> /\ rq[t].state = "new" /\ rq[t].moved = {}
      BY <3>1, NextNew
    <3>3. t # r
      BY <2>1, <3>2
    <3>4. rq' = [rq EXCEPT ![r].state = "done", ![t] = Issued(e[1], e[2])]
      BY <2>1, <2>4, <3>2
    <3>5. rq'[r] = q /\ rq'[t] = Issued(e[1], e[2]) /\ \A s \in Req : s # r /\ s # t => rq'[s] = rq[s]
      BY <1>0, <2>a, <3>3, <3>4
    <3>6. /\ rq'[r].state = "done" /\ rq'[r].off = rq[r].off /\ rq'[r].size = rq[r].size /\ rq'[r].moved = rq[r].moved
      BY <2>2, <3>5
    <3> QED BY <2>1, <3>2, <3>5, <3>6, ServiceBoth
  <2> QED BY <1>4, <2>3, <2>4 DEF Callback
<1>5. ASSUME NEW d \in Stripe, KernelDone(d) PROVE Service!Next
  <2>1. PICK p \in io[d].kernel : rq' = [rq EXCEPT ![p.req].moved = @ \cup PartPages(p)]
    BY <1>5 DEF KernelDone
  <2>2. p \in Part /\ DiskOf(p) = d
    BY PlaceSets, PartAtPart
  <2>3. p \in Early /\ p \in Under
    <3>1. p \in InKernel
      BY <2>2 DEF InKernel
    <3>2. p \in Boxes[4] /\ 4 \in 1 .. 4
      BY <3>1, BoxAt
    <3>3. p \in Early
      BY <3>2 DEF Early, First4
    <3> QED BY <3>3, UnderParts
  <2>4. PICK r \in Req : r = p.req
    BY <2>2, PartHome
  <2>5. RqBook(r, rq[r], Under, Early) /\ rq[r].state = "issued" /\ p.off \in PartPages(p)
    BY <1>0, <2>3, <2>4, UnderParts, UnderIssued
  <2>6. PartPages(p) \subseteq Of(r, Early) /\ PartPages(p) \subseteq Of(r, Under)
    BY <2>3, <2>4, OfIn
  <2>7. PartPages(p) # {} /\ PartPages(p) \subseteq Pages(rq[r].off, rq[r].size) \ rq[r].moved
    BY <2>5, <2>6 DEF RqBook
  <2>a. PICK q : q = [rq[r] EXCEPT !.moved = rq[r].moved \cup PartPages(p)]
    OBVIOUS
  <2>8. q.state = rq[r].state /\ q.off = rq[r].off /\ q.size = rq[r].size /\ q.moved = rq[r].moved \cup PartPages(p)
    BY <1>0, <2>a DEF RqRec
  <2>9. rq'[r] = q /\ \A s \in Req : s # r => rq'[s] = rq[s]
    BY <1>0, <2>a, <2>1, <2>4
  <2>10. /\ rq'[r].state = rq[r].state /\ rq'[r].off = rq[r].off /\ rq'[r].size = rq[r].size
         /\ rq'[r].moved = rq[r].moved \cup PartPages(p)
    BY <2>8, <2>9
  <2> QED BY <2>5, <2>7, <2>9, <2>10, ServiceTransfer
<1>6. CASE UNCHANGED vars
  BY <1>1, <1>6 DEF vars
<1>7. ASSUME NEW a \in App, FlushRequest(a) \/ Waits(a) \/ Cleanup(a) PROVE rq' = rq
  BY <1>7 DEF FlushRequest, Waits, Wait4Complete, Cleanup
<1>8. ASSUME NEW a \in App, AppStep(a) PROVE [Service!Next]_(Service!vars)
  <2>1. CASE CreateIO(a) \/ Flush(a) \/ ActivateIO(a) \/ Counted(a) \/ WakeApp(a) \/ Drain(a)
    <3>1. rq' = rq
      BY <2>1 DEF CreateIO, Flush, ActivateIO, Counted, WakeApp, Drain
    <3> QED BY <1>1, <3>1
  <2> QED BY <1>3, <1>4, <1>8, <2>1 DEF AppStep
<1>9. ASSUME NEW d \in Stripe, IOStep(d) PROVE rq' = rq
  BY <1>9 DEF IOStep, Run, Round, RunCommands, FetchAgain, SubmitMore, IOWait, ActivateCT, NotifyByIO, WakeByIO
<1>10. ASSUME CTStep \/ FileStep PROVE rq' = rq
  BY <1>10 DEF CTStep, TakeTcbs, NotifyByCT, WakeByCT, FileStep, Command, CommandActivate, Answered, Close
<1> QED BY <1>1, <1>2, <1>5, <1>6, <1>7, <1>8, <1>9, <1>10 DEF Next

\* Requests, threads and queues keep their types: among others a part stays inside a RAID block, and
\* no more parts are with the kernel than an I/O thread has slots.
THEOREM DiskIOTypeOK == Spec => []TypeOK
BY DiskIOInvariant, DiskIOBooks, TypesHold, PTL

\* num_pending_ios is the number of the requests that were issued and not reported, and the kernel has
\* requests of an I/O thread only while the file is open.
THEOREM DiskIOPendingIsExact == Spec => []PendingIsExact
BY DiskIOInvariant, DiskIOBooks, PendingExact, PTL

\* A request is reported once, after the kernel has moved each of its pages once: splitting, queues,
\* grouping and putting together neither lose nor repeat nor mix up a part.
THEOREM DiskIOImplementsService == Spec => ImplementsDiskService
<1>1. Init => Service!Init
  <2> SUFFICES ASSUME Init PROVE Service!Init
    OBVIOUS
  <2>1. \A r \in Req : rq[r].state = "new" /\ rq[r].off = 0 /\ rq[r].size = 0 /\ rq[r].moved = {}
    BY DEF Init
  <2>2. Pages(0, 0) = {}
    BY DEF Pages
  <2> QED BY <2>1, <2>2 DEF Service!Init
<1>2. IInv /\ Books /\ [Next]_vars => [Service!Next]_(Service!vars)
  BY ServiceStep
<1> QED BY <1>1, <1>2, DiskIOInvariant, DiskIOBooks, PTL DEF Spec, ImplementsDiskService, Service!Spec

===============================================================================
