-------------------------- MODULE IsoVolumeProofs --------------------------
(***************************************************************************)
(* Theorems about a volume, for any images, descriptors, sector sizes,     *)
(* requests and widths of a ULONG.                                         *)
(***************************************************************************)
EXTENDS IsoContents, Recursion, FiniteSetTheorems, SequenceTheorems

-----------------------------------------------------------------------------
(* What an image has in its sectors                                        *)

Sizes == 0 .. Range32 - 1

RecordTypes == [kind : {"self", "parent", "named"}, name : Seq(Nat), dir : BOOLEAN,
                hsdir : BOOLEAN, extent : Nat, size : Sizes]

LEMMA ZeroIsSize == 0 \in Sizes /\ 1 \in Sizes /\ Range32 \in Nat /\ Range32 >= 2
BY HighBitAssumption DEF Sizes, Range32

LEMMA MasterTyped ==
  ASSUME NEW img \in DOMAIN Images
  PROVE  LET m == Masters[img]
         IN  /\ m.last \in Nat /\ m.per \in Nat \ {0}
             /\ \A e \in DOMAIN m.dirs : e \in Nat /\ m.dirs[e] \in Seq(Nodes)
             /\ \A n \in DOMAIN m.descs : n \in 0 .. m.last /\ m.descs[n] \in Descs
             /\ Images[img] = ImageOf(m)
BY ImagesAssumption, MastersAssumption

\* A run of a sequence
LEMMA RunOf ==
  ASSUME NEW S, NEW s \in Seq(S), NEW a \in Nat \ {0}, NEW b \in Nat, b <= Len(s)
  PROVE  /\ SubSeq(s, a, b) \in Seq(S)
         /\ Len(SubSeq(s, a, b)) = IF a <= b THEN b - a + 1 ELSE 0
         /\ \A i \in 1 .. Len(SubSeq(s, a, b)) : SubSeq(s, a, b)[i] = s[a + i - 1]
<1>1. CASE a <= b
  BY <1>1, SubSeqProperties
<1>2. CASE a > b
  BY <1>2, SubSeqProperties
<1> QED BY <1>1, <1>2

LEMMA DirRecordsTyped ==
  ASSUME NEW img \in DOMAIN Images, NEW e \in DOMAIN Masters[img].dirs
  PROVE  DirRecords(Masters[img], e) \in Seq(RecordTypes)
<1> DEFINE m == Masters[img]
           nodes == m.dirs[e]
           named == [i \in DOMAIN nodes |-> RecordOf(m, nodes[i])]
<1>1. e \in Nat /\ nodes \in Seq(Nodes)
  BY MasterTyped
<1>2. NodesOf(m, e) = nodes
  BY DEF NodesOf, At
<1>3. <<Special("self", e), Special("parent", e)>> \in Seq(RecordTypes)
  <2>1. Special("self", e) \in RecordTypes /\ Special("parent", e) \in RecordTypes
    BY <1>1, ZeroIsSize DEF Special, RecordTypes
  <2> QED BY <2>1
<1>4. \A node \in Nodes : RecordOf(m, node) \in RecordTypes
  <2> SUFFICES ASSUME NEW node \in Nodes PROVE RecordOf(m, node) \in RecordTypes
    OBVIOUS
  <2>1. HS(m) \in BOOLEAN
    BY DEF HS
  <2> QED BY <2>1 DEF Nodes, RecordOf, RecordTypes, Sizes
<1>5. named \in Seq(RecordTypes)
  <2> HIDE DEF m, nodes
  <2> QED BY <1>1, <1>4
<1> QED BY <1>2, <1>3, <1>5 DEF DirRecords

LEMMA DirSectorsTyped ==
  ASSUME NEW img \in DOMAIN Images, NEW e \in DOMAIN Masters[img].dirs
  PROVE  \A n \in DOMAIN DirSectors(Masters[img], e) :
           DirSectors(Masters[img], e)[n] \in Seq(RecordTypes)
<1> DEFINE m == Masters[img]
           r == DirRecords(m, e)
<1>1. r \in Seq(RecordTypes) /\ Len(r) \in Nat
  BY DirRecordsTyped
<1>2. m.per \in Nat /\ e \in Nat
  BY MasterTyped
<1>3. ASSUME NEW n \in DOMAIN DirSectors(m, e)
      PROVE  DirSectors(m, e)[n] \in Seq(RecordTypes)
  <2> DEFINE a == (n - e) * m.per + 1
             b == Min2((n - e + 1) * m.per, Len(r))
  <2>1. /\ n \in e .. (e + (Len(r) - 1) \div m.per)
        /\ DirSectors(m, e)[n] = SubSeq(r, a, b)
    BY <1>3 DEF DirSectors
  <2>2. n - e \in Nat
    BY <1>2, <2>1
  <2>3. (n - e) * m.per \in Nat /\ (n - e + 1) * m.per \in Nat
    BY <1>2, <2>2
  <2>4. a \in Nat \ {0} /\ b \in Nat /\ b <= Len(r)
    BY <1>1, <2>3 DEF Min2
  <2> HIDE DEF a, b, r, m
  <2> QED BY <1>1, <2>1, <2>4, RunOf
<1> QED BY <1>3

\* Whatever sector is read as a part of a directory, it has records.
LEMMA RecsTyped ==
  ASSUME NEW img \in DOMAIN Images, NEW n, NEW kept \in Seq(RecordTypes)
  PROVE  ReadRecs(img, n, kept) \in Seq(RecordTypes)
<1> DEFINE m    == Masters[img]
           dirs == {DirSectors(m, e) : e \in DOMAIN m.dirs}
           recs == ImageOf(m).recs
<1>1. Stored[img].recs = recs
  BY MasterTyped DEF Stored
<1>2. <<Garbage>> \in Seq(RecordTypes)
  BY ZeroIsSize DEF Garbage, RecordTypes
<1>3. \A d \in dirs : \A k \in DOMAIN d : d[k] \in Seq(RecordTypes)
  BY DirSectorsTyped
<1>4. ASSUME NEW k \in DOMAIN recs PROVE recs[k] \in Seq(RecordTypes)
  <2>1. recs[k] = IF \E d \in dirs : k \in DOMAIN d
                  THEN (CHOOSE d \in dirs : k \in DOMAIN d)[k] ELSE <<Garbage>>
    BY <1>4 DEF ImageOf
  <2> HIDE DEF recs, dirs
  <2> QED BY <1>2, <1>3, <2>1
<1>5. At(recs, n, <<>>) \in Seq(RecordTypes)
  <2> HIDE DEF recs
  <2> QED BY <1>4 DEF At
<1> HIDE DEF recs
<1> QED BY <1>1, <1>5 DEF ReadRecs

-----------------------------------------------------------------------------
(* Sectors                                                                 *)

\* A product with a number that is not smaller is not smaller.
LEMMA CancelFactor ==
  ASSUME NEW a \in Int, NEW b \in Int, NEW s \in Nat \ {0}, a * s < b * s
  PROVE  a < b
<1>1. SUFFICES ASSUME b <= a PROVE FALSE
  OBVIOUS
<1>2. PICK d \in Nat : a = b + d
  <2>1. a - b \in Nat /\ a = b + (a - b)
    BY <1>1
  <2> QED BY <2>1
<1>3. (b + d) * s = b * s + d * s /\ d * s \in Nat /\ b * s \in Int
  OBVIOUS
<1> QED BY <1>2, <1>3

LEMMA Divided ==
  ASSUME NEW p \in Nat, NEW s \in Nat \ {0}
  PROVE  /\ p \div s \in Nat
         /\ p % s \in 0 .. s - 1
         /\ p = (p \div s) * s + (p % s)
<1>1. p \div s \in Nat
  OBVIOUS
<1>2. p % s \in 0 .. s - 1
  OBVIOUS
<1>3. s * (p \div s) + (p % s) = p
  BY <1>1, <1>2, SMTT(20)
<1>4. s * (p \div s) = (p \div s) * s
  BY <1>1
<1> QED BY <1>1, <1>2, <1>3, <1>4

\* There are enough sectors for the bytes.
LEMMA SectorsEnough ==
  ASSUME NEW n \in Nat
  PROVE  Sectors(n) \in Nat /\ n <= Sectors(n) * SectorSize
<1> DEFINE m == n + SectorSize - 1
<1>1. m \in Nat
  BY SectorSizeAssumption
<1>2. Sectors(n) = m \div SectorSize
  BY DEF Sectors
<1>3. /\ m \div SectorSize \in Nat /\ m % SectorSize \in 0 .. SectorSize - 1
      /\ m = (m \div SectorSize) * SectorSize + (m % SectorSize)
  <2> HIDE DEF m
  <2> QED BY <1>1, Divided, SectorSizeAssumption
<1>4. m = Sectors(n) * SectorSize + (m % SectorSize) /\ Sectors(n) * SectorSize \in Nat
  BY <1>2, <1>3, SectorSizeAssumption
<1> QED BY <1>2, <1>3, <1>4, SectorSizeAssumption

Buffers == [1 .. SectorSize -> Int]

\* What a read leaves in a buffer
LEMMA BytesRead ==
  ASSUME NEW img \in DOMAIN Images, NEW n \in Nat, NEW len \in Nat,
         NEW kept \in Buffers
  PROVE  /\ ReadBytes(img, n, len, kept) \in Buffers
         /\ n <= Masters[img].last =>
              \A i \in 1 .. SectorSize :
                i <= len => ReadBytes(img, n, len, kept)[i] = ByteAt(n, i)
<1> DEFINE end   == Masters[img].last
           bytes == [k \in 0 .. end |-> [i \in 1 .. SectorSize |-> ByteAt(k, i)]]
           got   == ReadBytes(img, n, len, kept)
<1>1. end \in Nat /\ LastSector(img) = end /\ Stored[img].bytes = bytes
  <2>1. Images[img] = ImageOf(Masters[img]) /\ end \in Nat
    BY MasterTyped
  <2>2. Images[img].last = end
    BY <2>1 DEF ImageOf
  <2>3. Images[img].bytes = bytes
    BY <2>1 DEF ImageOf
  <2> QED BY <2>1, <2>2, <2>3 DEF LastSector, Stored
<1>2. \A i \in 1 .. SectorSize : ByteAt(n, i) \in Int
  BY SectorSizeAssumption DEF ByteAt
<1>3. CASE n > end
  BY <1>1, <1>3 DEF ReadBytes
<1>4. CASE n <= end
  <2>1. At(bytes, n, Zeros) = [i \in 1 .. SectorSize |-> ByteAt(n, i)]
    BY <1>1, <1>4 DEF At
  <2>2. got = [i \in 1 .. SectorSize |->
                 IF i <= len THEN At(bytes, n, Zeros)[i] ELSE kept[i]]
    <3> HIDE DEF bytes, end
    <3> QED BY <1>1, <1>4 DEF ReadBytes
  <2>3. \A i \in 1 .. SectorSize : kept[i] \in Int
    BY DEF Buffers
  <2> HIDE DEF bytes, end
  <2> QED BY <1>2, <1>4, <2>1, <2>2, <2>3 DEF Buffers
<1> QED BY <1>1, <1>3, <1>4

-----------------------------------------------------------------------------
(* What a read copies.  In the file from its extent on, block k after the  *)
(* first one is copied when all blocks before it are.                      *)

StartBlock   == file.iExtent + (sfi_position \div SectorSize)
InBlock      == sfi_position % SectorSize
FirstPart(n) == Min2(SectorSize - InBlock, n)
FirstBuffer  == ReadBytes(vol.img, StartBlock, SectorSize, NewBuffer)

CopyStates   == [buff : Buffers, left : Nat, out : Seq(Int)]
CopyStart(n) == [buff |-> FirstBuffer, left |-> n - FirstPart(n),
                 out |-> SubSeq(FirstBuffer, InBlock + 1, InBlock + FirstPart(n))]
CopyBlock(k, x) ==
  LET toRead == Min2(SectorSize, x.left)
      buff   == ReadBytes(vol.img, StartBlock + k, toRead, x.buff)
  IN  IF x.left = 0 THEN x
      ELSE [buff |-> buff, left |-> x.left - toRead,
            out |-> x.out \o SubSeq(buff, 1, toRead)]

\* A file is open on an image.
Reading == /\ vol.img \in DOMAIN Images
           /\ file.iExtent \in Nat /\ sfi_position \in Nat

\* The next n bytes of the file are in the image.
Fits(n) == file.iExtent * SectorSize + sfi_position + n
             <= (Masters[vol.img].last + 1) * SectorSize

\* How far it is after block k
Progress(n, k, x) ==
  /\ x \in CopyStates
  /\ Len(x.out) + x.left = n
  /\ x.left # 0 => Len(x.out) = SectorSize - InBlock + k * SectorSize
  /\ Fits(n) => \A j \in 1 .. Len(x.out) :
                  x.out[j] = ByteAt(file.iExtent, sfi_position + j)

LEMMA PlaceInFile ==
  ASSUME Reading
  PROVE  /\ StartBlock \in Nat /\ InBlock \in 0 .. SectorSize - 1
         /\ StartBlock * SectorSize + InBlock
              = file.iExtent * SectorSize + sfi_position
<1> DEFINE q == sfi_position \div SectorSize
           r == sfi_position % SectorSize
           e == file.iExtent
<1>1. q \in Nat /\ r \in 0 .. SectorSize - 1 /\ sfi_position = q * SectorSize + r
  BY Divided, SectorSizeAssumption DEF Reading
<1>2. e \in Nat
  BY DEF Reading
<1>3. StartBlock = e + q /\ InBlock = r
  BY DEF StartBlock, InBlock
<1> HIDE DEF q, r, e
<1>4. (e + q) * SectorSize = e * SectorSize + q * SectorSize
      /\ e * SectorSize \in Nat /\ q * SectorSize \in Nat
  BY <1>1, <1>2, SectorSizeAssumption
<1>5. e = file.iExtent
  BY DEF e
<1> QED BY <1>1, <1>2, <1>3, <1>4, <1>5, SectorSizeAssumption

\* A block that has bytes of the file that fit is in the image.
LEMMA BlockInImage ==
  ASSUME Reading, NEW n \in Nat, Fits(n), NEW k \in Nat, NEW got \in Nat, got < n,
         StartBlock * SectorSize + k * SectorSize
           <= file.iExtent * SectorSize + sfi_position + got
  PROVE  StartBlock + k <= Masters[vol.img].last
<1> DEFINE b == StartBlock + k
           end == Masters[vol.img].last + 1
           e == file.iExtent
           s == SectorSize
<1>1. StartBlock \in Nat /\ s \in Nat \ {0}
  BY PlaceInFile, SectorSizeAssumption
<1>2. e \in Nat /\ sfi_position \in Nat /\ end \in Nat
  BY MasterTyped DEF Reading
<1>3. e * s \in Nat /\ end * s \in Nat
  BY <1>1, <1>2
<1>4. b * s = StartBlock * s + k * s
  BY <1>1
<1>5. e * s + sfi_position + n <= end * s
  BY DEF Fits
<1>6. b * s <= e * s + sfi_position + got
  BY <1>4
<1>7. b \in Nat /\ b * s \in Nat
  BY <1>1
<1> HIDE DEF b, end, e, s
<1>8. b * s < end * s
  BY <1>2, <1>3, <1>5, <1>6, <1>7
<1>9. b < end
  BY <1>1, <1>2, <1>7, <1>8, CancelFactor
<1> QED BY <1>2, <1>7, <1>9, MasterTyped DEF b, end, Reading

LEMMA StartProgress ==
  ASSUME Reading, NEW n \in Nat
  PROVE  Progress(n, 0, CopyStart(n))
<1> DEFINE f == FirstPart(n)
           o == InBlock
           b == FirstBuffer
           out == SubSeq(b, o + 1, o + f)
           e == file.iExtent
<1>1. /\ StartBlock \in Nat /\ o \in 0 .. SectorSize - 1
      /\ StartBlock * SectorSize + o = e * SectorSize + sfi_position
  BY PlaceInFile
<1>2. NewBuffer \in Buffers
  BY DEF NewBuffer, Buffers, Junk
<1>3. /\ b \in Buffers
      /\ StartBlock <= Masters[vol.img].last =>
           \A i \in 1 .. SectorSize : b[i] = ByteAt(StartBlock, i)
  BY <1>1, <1>2, BytesRead, SectorSizeAssumption DEF Reading, FirstBuffer
<1>4. f \in Nat /\ f <= n /\ f <= SectorSize - o /\ (f < n => f = SectorSize - o)
  BY <1>1, SectorSizeAssumption DEF FirstPart, Min2
<1> HIDE DEF f, b, o, e
<1>5. \A i \in o + 1 .. o + f : i \in 1 .. SectorSize /\ b[i] \in Int
  BY <1>1, <1>3, <1>4, SectorSizeAssumption DEF Buffers
<1>6. /\ out \in Seq(Int) /\ Len(out) = f
      /\ \A i \in 1 .. f : out[i] = b[o + i]
  <2> DEFINE first == o + 1
             end == o + f
  <2>1. first \in Int /\ end \in Int
    BY <1>1, <1>4
  <2>2. \A i \in first .. end : b[i] \in Int
    BY <1>5
  <2>3. end - first + 1 = f /\ (first <= end <=> f # 0)
        /\ \A i \in 1 .. f : first + i - 1 = o + i
    BY <1>1, <1>4
  <2>4. out = SubSeq(b, first, end)
    OBVIOUS
  <2> HIDE DEF first, end, out
  <2>5. /\ SubSeq(b, first, end) \in Seq(Int)
        /\ Len(SubSeq(b, first, end))
             = IF first <= end THEN end - first + 1 ELSE 0
        /\ \A i \in 1 .. end - first + 1 :
             SubSeq(b, first, end)[i] = b[first + i - 1]
    BY <2>1, <2>2, SubSeqProperties
  <2> QED BY <1>1, <1>4, <2>3, <2>4, <2>5
<1>7. ASSUME Fits(n), NEW j \in 1 .. f PROVE out[j] = ByteAt(e, sfi_position + j)
  <2>1. StartBlock * SectorSize + 0 * SectorSize <= e * SectorSize + sfi_position + 0
    <3>1. StartBlock * SectorSize \in Nat /\ 0 * SectorSize = 0
      BY <1>1, SectorSizeAssumption
    <3> QED BY <1>1, <3>1
  <2>2. 0 < n
    BY <1>4, <1>7
  <2>3. StartBlock + 0 <= Masters[vol.img].last
    BY <1>7, <2>1, <2>2, BlockInImage DEF e
  <2>4. StartBlock <= Masters[vol.img].last
    BY <1>1, <2>3
  <2>5. o + j \in 1 .. SectorSize
    BY <1>1, <1>4, <1>7, SectorSizeAssumption
  <2>6. out[j] = ByteAt(StartBlock, o + j)
    BY <1>3, <1>6, <2>4, <2>5, <1>7
  <2>7. StartBlock * SectorSize + (o + j) = e * SectorSize + (sfi_position + j)
    <3>1. StartBlock * SectorSize \in Nat /\ e * SectorSize \in Nat
          /\ sfi_position \in Nat
      BY <1>1, SectorSizeAssumption DEF Reading, e
    <3> QED BY <1>1, <1>7, <3>1
  <2> QED BY <2>6, <2>7 DEF ByteAt
<1>8. CopyStart(n) = [buff |-> b, left |-> n - f, out |-> out]
  BY DEF CopyStart, b, o, f
<1>9. n - f \in Nat /\ f + (n - f) = n
      /\ (n - f # 0 => f = SectorSize - o + 0 * SectorSize)
  BY <1>1, <1>4, SectorSizeAssumption
<1> HIDE DEF out
<1>10. CopyStart(n) \in CopyStates
  BY <1>3, <1>6, <1>8, <1>9 DEF CopyStates
<1>11. CopyStart(n).out = out /\ CopyStart(n).left = n - f
  BY <1>8
<1> QED BY <1>6, <1>7, <1>9, <1>10, <1>11 DEF Progress, o, e

LEMMA BlockProgress ==
  ASSUME Reading, NEW n \in Nat, NEW k \in Nat \ {0}, NEW x, Progress(n, k - 1, x)
  PROVE  Progress(n, k, CopyBlock(k, x))
<1> DEFINE y == CopyBlock(k, x)
           t == Min2(SectorSize, x.left)
           buff == ReadBytes(vol.img, StartBlock + k, t, x.buff)
           more == SubSeq(buff, 1, t)
           e == file.iExtent
           o == InBlock
           L == Len(x.out)
           at == StartBlock + k
<1>1. /\ x \in CopyStates /\ L + x.left = n
      /\ x.left # 0 => L = SectorSize - o + (k - 1) * SectorSize
      /\ Fits(n) => \A j \in 1 .. L : x.out[j] = ByteAt(e, sfi_position + j)
  BY DEF Progress
<1>2. /\ StartBlock \in Nat /\ o \in 0 .. SectorSize - 1 /\ at \in Nat
      /\ StartBlock * SectorSize + o = e * SectorSize + sfi_position
  BY PlaceInFile
<1>3. x.buff \in Buffers /\ x.left \in Nat /\ x.out \in Seq(Int) /\ L \in Nat
  BY <1>1 DEF CopyStates
<1>4. CASE x.left = 0
  <2>1. y = x
    BY <1>4 DEF CopyBlock
  <2> HIDE DEF y, e
  <2>2. Progress(n, k, x)
    BY <1>1, <1>4 DEF Progress, e
  <2> QED BY <2>1, <2>2 DEF y
<1>5. CASE x.left # 0
  <2>1. y = [buff |-> buff, left |-> x.left - t, out |-> x.out \o more]
    BY <1>5 DEF CopyBlock
  <2>2. /\ t \in Nat /\ t <= SectorSize /\ t <= x.left /\ 0 < t
        /\ (t # x.left => t = SectorSize)
    BY <1>3, <1>5, SectorSizeAssumption DEF Min2
  <2> HIDE DEF t, y, L, at
  <2>3. /\ buff \in Buffers
        /\ at <= Masters[vol.img].last =>
             \A i \in 1 .. SectorSize : i <= t => buff[i] = ByteAt(at, i)
    BY <1>2, <1>3, <2>2, BytesRead DEF Reading, at
  <2> HIDE DEF buff
  <2>4. \A i \in 1 .. t : buff[i] \in Int
    BY <2>2, <2>3, SectorSizeAssumption DEF Buffers
  <2>5. /\ more \in Seq(Int) /\ Len(more) = t
        /\ \A i \in 1 .. t : more[i] = buff[i]
    <3>1. /\ more \in Seq(Int)
          /\ Len(more) = IF 1 <= t THEN t - 1 + 1 ELSE 0
          /\ \A i \in 1 .. t - 1 + 1 : more[i] = buff[1 + i - 1]
      BY <2>2, <2>4, SubSeqProperties
    <3> QED BY <2>2, <3>1
  <2> HIDE DEF more
  <2>6. /\ x.out \o more \in Seq(Int) /\ Len(x.out \o more) = L + t
        /\ \A j \in 1 .. L + t : (x.out \o more)[j] =
             IF j <= L THEN x.out[j] ELSE more[j - L]
    BY <1>3, <2>5, ConcatProperties DEF L
  <2>7. L = SectorSize - o + (k - 1) * SectorSize
    BY <1>1, <1>5
  <2>8. (k - 1) * SectorSize + SectorSize = k * SectorSize
        /\ k * SectorSize \in Nat /\ StartBlock * SectorSize \in Nat
        /\ at * SectorSize = StartBlock * SectorSize + k * SectorSize
        /\ (k - 1) * SectorSize \in Nat
    <3>1. SectorSize \in Nat
      BY SectorSizeAssumption
    <3>2. (k - 1) * SectorSize \in Nat /\ k * SectorSize \in Nat
      BY <3>1
    <3> QED BY <1>2, <3>1, <3>2 DEF at
  <2>9. /\ e * SectorSize \in Nat /\ sfi_position \in Nat
        /\ at * SectorSize = e * SectorSize + sfi_position + L
    <3>1. e * SectorSize \in Nat /\ sfi_position \in Nat
      BY SectorSizeAssumption DEF Reading
    <3> QED BY <1>2, <2>7, <2>8, <3>1, SectorSizeAssumption
  <2>10. ASSUME Fits(n), NEW j \in 1 .. L + t
         PROVE  (x.out \o more)[j] = ByteAt(e, sfi_position + j)
    <3>1. CASE j <= L
      BY <1>1, <1>3, <2>6, <2>10, <3>1
    <3>2. CASE j > L
      <4> DEFINE i == j - L
      <4>1. i \in 1 .. t /\ j = L + i
        BY <1>3, <2>2, <2>10, <3>2
      <4> HIDE DEF i
      <4>2. L < n
        BY <1>1, <1>3, <2>2
      <4>3. at <= Masters[vol.img].last
        <5>1. StartBlock * SectorSize + k * SectorSize
                <= e * SectorSize + sfi_position + L
          BY <1>3, <2>8, <2>9
        <5> HIDE DEF e
        <5> QED BY <1>3, <2>10, <4>2, <5>1, BlockInImage DEF at, e
      <4>4. i \in 1 .. SectorSize /\ i <= t
        BY <2>2, <4>1, SectorSizeAssumption
      <4>5. buff[i] = ByteAt(at, i)
        BY <2>3, <4>3, <4>4
      <4>6. (x.out \o more)[j] = more[i]
        <5>1. (x.out \o more)[j] = IF j <= L THEN x.out[j] ELSE more[j - L]
          BY <2>6, <2>10
        <5>2. ~(j <= L)
          BY <1>3, <2>10, <3>2
        <5> QED BY <5>1, <5>2 DEF i
      <4>7. (x.out \o more)[j] = ByteAt(at, i)
        BY <2>5, <4>1, <4>5, <4>6
      <4>8. at * SectorSize + i = e * SectorSize + (sfi_position + j)
        BY <1>3, <2>9, <4>1, <2>2
      <4> QED BY <4>7, <4>8 DEF ByteAt
    <3>3. j \in Int /\ L \in Int
      BY <1>3, <2>10
    <3>4. j <= L \/ j > L
      BY <3>3
    <3> QED BY <3>1, <3>2, <3>4
  <2>11. /\ x.left - t \in Nat /\ L + t + (x.left - t) = n
         /\ (x.left - t # 0 => L + t = SectorSize - o + k * SectorSize)
    BY <1>1, <1>2, <1>3, <2>2, <2>7, <2>8, SectorSizeAssumption
  <2>12. y \in CopyStates /\ y.left = x.left - t /\ y.out = x.out \o more
    BY <2>1, <2>3, <2>6, <2>11 DEF CopyStates
  <2> QED BY <2>6, <2>10, <2>11, <2>12 DEF Progress, y, e, o
<1> QED BY <1>4, <1>5

\* A read copies as many bytes as it is to copy, and they are those of the file
\* from the position on.
LEMMA CopiedBytes ==
  ASSUME Reading, NEW n \in Nat
  PROVE  /\ Copied(n) \in Seq(Int) /\ Len(Copied(n)) = n
         /\ Fits(n) => \A j \in 1 .. n :
                         Copied(n)[j] = ByteAt(file.iExtent, sfi_position + j)
<1> DEFINE N == Sectors(n)
           S == CopyStates
           a == CopyStart(n)
           Good(k, x) == Progress(n, k, x)
           Step(k, x) == CopyBlock(k, x)
           F == [k \in 1 .. N |-> [x \in S |->
                   IF Good(k - 1, x) THEN Step(k, x) ELSE a]]
           Body(f) == [k \in 0 .. N |-> IF k = 0 THEN a ELSE Step(k, f[k - 1])]
           p == CHOOSE f : f = Body(f)
<1>1. N \in Nat /\ n <= N * SectorSize
  BY SectorsEnough
<1>2. Copied(n) = p[N].out
  BY DEF Copied, CopyBlock, CopyStart, StartBlock, InBlock, FirstPart, FirstBuffer
<1>3. Good(0, a) /\ a \in S
  BY StartProgress DEF Progress
<1>4. \A k \in Nat \ {0} : \A x : Good(k - 1, x) => Good(k, Step(k, x))
  BY BlockProgress
<1>5. \A k \in Nat : \A x : Good(k, x) => x \in S
  BY DEF Progress
<1> HIDE DEF N, S, a, Good, Step
<1>6. F \in Steps(N, S)
  <2>1. \A k \in 1 .. N, x \in S : (IF Good(k - 1, x) THEN Step(k, x) ELSE a) \in S
    BY <1>1, <1>3, <1>4, <1>5
  <2> QED BY <2>1 DEF Steps
<1>7. PICK f : f \in Recursive(N, S, a, F)
  <2> HIDE DEF F
  <2> QED BY <1>1, <1>3, <1>6, PrimitiveRecursion
<1>8. /\ f \in [0 .. N -> S] /\ f[0] = a
      /\ \A k \in 1 .. N : f[k] = IF Good(k - 1, f[k - 1]) THEN Step(k, f[k - 1]) ELSE a
  <2>1. f \in [0 .. N -> S] /\ f[0] = a
    BY <1>7 DEF Recursive
  <2>2. \A k \in 1 .. N : f[k] = F[k][f[k - 1]]
    <3> HIDE DEF F
    <3> QED BY <1>7 DEF Recursive
  <2>3. \A k \in 1 .. N : f[k - 1] \in S
    BY <1>1, <2>1
  <2> QED BY <2>1, <2>2, <2>3
<1>9. \A k \in 0 .. N : Good(k, f[k])
  <2> DEFINE T == {k \in 0 .. N : Good(k, f[k])}
  <2>1. 0 \in T
    BY <1>1, <1>3, <1>8
  <2>2. ASSUME NEW k \in 0 .. N - 1, k \in T PROVE k + 1 \in T
    <3>1. PICK j \in 1 .. N : j = k + 1
      BY <1>1
    <3>2. j - 1 = k /\ j \in Nat \ {0}
      BY <3>1
    <3>3. Good(j - 1, f[j - 1])
      BY <2>2, <3>2
    <3>4. f[j] = Step(j, f[j - 1])
      BY <1>8, <3>3
    <3>5. Good(j, f[j])
      BY <1>4, <3>2, <3>3, <3>4
    <3> QED BY <1>1, <3>1, <3>5
  <2> HIDE DEF T
  <2>3. \A k \in 0 .. N : k \in T
    BY <1>1, <2>1, <2>2, BoundedInduction
  <2> QED BY <2>3 DEF T
<1>10. f = Body(f)
  <2>1. \A k \in 1 .. N : Good(k - 1, f[k - 1])
    BY <1>1, <1>9
  <2>2. \A k \in 1 .. N : f[k] = Step(k, f[k - 1])
    BY <1>8, <2>1
  <2> QED BY <1>1, <1>8, <2>2
<1>11. p = Body(p)
  BY <1>10
<1> HIDE DEF p
<1>12. p[0] = a /\ \A k \in 1 .. N : p[k] = Step(k, p[k - 1])
  BY <1>1, <1>11
<1>13. Good(N, p[N])
  <2> DEFINE T == {k \in 0 .. N : Good(k, p[k])}
  <2>1. 0 \in T
    BY <1>1, <1>3, <1>12
  <2>2. ASSUME NEW k \in 0 .. N - 1, k \in T PROVE k + 1 \in T
    <3>1. PICK j \in 1 .. N : j = k + 1
      BY <1>1
    <3>2. j - 1 = k /\ j \in Nat \ {0}
      BY <3>1
    <3>3. Good(j - 1, p[j - 1])
      BY <2>2, <3>2
    <3>4. Good(j, p[j])
      BY <1>4, <1>12, <3>2, <3>3
    <3> QED BY <1>1, <3>1, <3>4
  <2> HIDE DEF T
  <2>3. \A k \in 0 .. N : k \in T
    BY <1>1, <2>1, <2>2, BoundedInduction
  <2>4. N \in T
    BY <1>1, <2>3
  <2> QED BY <2>4 DEF T
<1> DEFINE z == p[N]
           o == InBlock
<1>14. /\ z \in CopyStates /\ Len(z.out) + z.left = n
       /\ z.left # 0 => Len(z.out) = SectorSize - o + N * SectorSize
       /\ Fits(n) => \A j \in 1 .. Len(z.out) :
                       z.out[j] = ByteAt(file.iExtent, sfi_position + j)
  BY <1>13 DEF Good, Progress
<1>15. o \in 0 .. SectorSize - 1
  BY PlaceInFile
<1>16. Copied(n) = z.out
  BY <1>2
<1> HIDE DEF z, o
<1>17. z.left \in Nat /\ z.out \in Seq(Int) /\ Len(z.out) \in Nat
  BY <1>14 DEF CopyStates
<1>18. z.left = 0
  <2>1. N * SectorSize \in Nat
    BY <1>1, SectorSizeAssumption
  <2> QED BY <1>1, <1>14, <1>15, <1>17, <2>1, SectorSizeAssumption
<1>19. Len(z.out) = n
  BY <1>14, <1>17, <1>18
<1> QED BY <1>14, <1>16, <1>17, <1>19

-----------------------------------------------------------------------------
(* The entries of directories, and what a path leads to                    *)

EntriesOf(v) == {Entry(v, r) : r \in RecordTypes}

LEMMA EntryTyped ==
  ASSUME NEW v, NEW e \in EntriesOf(v)
  PROVE  e.iExtent \in Nat /\ e.iSize \in Sizes
<1>1. PICK r \in RecordTypes : e = Entry(v, r)
  BY DEF EntriesOf
<1>2. e.iExtent = r.extent /\ e.iSize = r.size
  BY <1>1 DEF Entry
<1>3. r.extent \in Nat /\ r.size \in Sizes
  BY DEF RecordTypes
<1> QED BY <1>2, <1>3

\* One sector of a directory more
NothingRead == [buffer |-> <<>>, entries |-> <<>>]
ReadSector(v, extent, k, x) ==
  LET recs == ReadRecs(v.img, extent + k - 1, x.buffer)
  IN  [buffer  |-> recs,
       entries |-> x.entries \o [i \in DOMAIN recs |-> Entry(v, recs[i])]]

\* p is what has been read after each sector.
DirReads(v, extent, len, p) ==
  /\ p[0] = NothingRead
  /\ \A k \in 1 .. Sectors(len) : p[k] = ReadSector(v, extent, k, p[k - 1])
  /\ getDirEntries(v, extent, len)
       = IF 0 < len /\ len < HighBit THEN p[Sectors(len)].entries ELSE <<>>

\* The entries of a directory are those of its sectors, one after the other.
LEMMA DirEntriesRead ==
  ASSUME NEW v, v.img \in DOMAIN Images, NEW extent, NEW len \in Nat
  PROVE  \E p : DirReads(v, extent, len, p)
<1> DEFINE N == Sectors(len)
           E == EntriesOf(v)
           R == Seq(RecordTypes)
           S == [buffer : R, entries : Seq(E)]
           a == NothingRead
           Step(k, x) == ReadSector(v, extent, k, x)
           F == [k \in 1 .. N |-> [x \in S |-> Step(k, x)]]
           Body(f) == [k \in 0 .. N |-> IF k = 0 THEN a ELSE Step(k, f[k - 1])]
           p == CHOOSE f : f = Body(f)
<1>1. N \in Nat
  BY SectorsEnough
<1>2. getDirEntries(v, extent, len)
        = IF 0 < len /\ len < HighBit THEN p[N].entries ELSE <<>>
  BY DEF getDirEntries, ReadSector, NothingRead
<1>3. a \in S
  BY DEF NothingRead
<1>4. \A k \in 1 .. N, x \in S : Step(k, x) \in S
  <2> SUFFICES ASSUME NEW k \in 1 .. N, NEW x \in S PROVE Step(k, x) \in S
    OBVIOUS
  <2> DEFINE recs == ReadRecs(v.img, extent + k - 1, x.buffer)
  <2>1. x.buffer \in R /\ x.entries \in Seq(E)
    OBVIOUS
  <2>2. recs \in R
    BY <2>1, RecsTyped
  <2>3. Step(k, x) = [buffer  |-> recs,
          entries |-> x.entries \o [i \in DOMAIN recs |-> Entry(v, recs[i])]]
    BY DEF ReadSector
  <2> HIDE DEF recs
  <2>4. \A r \in RecordTypes : Entry(v, r) \in E
    BY DEF EntriesOf
  <2> HIDE DEF E, Step
  <2>5. [i \in DOMAIN recs |-> Entry(v, recs[i])] \in Seq(E)
    BY <2>2, <2>4
  <2> QED BY <2>1, <2>2, <2>3, <2>5
<1> HIDE DEF N, S, a, Step
<1>5. F \in Steps(N, S)
  BY <1>4 DEF Steps
<1>6. PICK f : f \in Recursive(N, S, a, F)
  <2> HIDE DEF F
  <2> QED BY <1>1, <1>3, <1>5, PrimitiveRecursion
<1>7. f = Body(f)
  <2>1. f \in [0 .. N -> S] /\ f[0] = a
    BY <1>6 DEF Recursive
  <2>2. \A k \in 1 .. N : f[k] = F[k][f[k - 1]]
    <3> HIDE DEF F
    <3> QED BY <1>6 DEF Recursive
  <2>3. \A k \in 1 .. N : f[k - 1] \in S
    BY <1>1, <2>1
  <2>4. \A k \in 1 .. N : f[k] = Step(k, f[k - 1])
    BY <2>2, <2>3
  <2> QED BY <1>1, <2>1, <2>4
<1>8. p = Body(p)
  BY <1>7
<1> HIDE DEF p
<1>9. p[0] = a /\ \A k \in 1 .. N : p[k] = Step(k, p[k - 1])
  BY <1>1, <1>8
<1>10. DirReads(v, extent, len, p)
  BY <1>2, <1>9 DEF N, a, Step, DirReads
<1> QED BY <1>10

\* The entries are made from the records that are in the sectors.
LEMMA EntriesFrom ==
  ASSUME NEW v, v.img \in DOMAIN Images, NEW extent, NEW len \in Nat, NEW R,
         \A k \in 1 .. Sectors(len) : \A b \in Seq(R) :
           ReadRecs(v.img, extent + k - 1, b) \in Seq(R)
  PROVE  getDirEntries(v, extent, len) \in Seq({Entry(v, r) : r \in R})
<1>1. Sectors(len) \in Nat
  BY SectorsEnough
<1>2. PICK p : DirReads(v, extent, len, p)
  BY DirEntriesRead
<1> DEFINE N == Sectors(len)
           E == {Entry(v, r) : r \in R}
           S == [buffer : Seq(R), entries : Seq(E)]
<1> DEFINE T == {k \in 0 .. N : p[k] \in S}
<1>7. N \in Nat
  BY <1>1
<1>8. /\ \A k \in 1 .. N : p[k] = ReadSector(v, extent, k, p[k - 1])
      /\ getDirEntries(v, extent, len)
           = IF 0 < len /\ len < HighBit THEN p[N].entries ELSE <<>>
      /\ p[0] = NothingRead
  BY <1>2 DEF DirReads
<1> HIDE DEF N
<1>3. 0 \in T
  <2>1. NothingRead \in S
    <3> HIDE DEF E
    <3> QED BY DEF NothingRead
  <2> HIDE DEF S
  <2> QED BY <1>8, <1>7, <2>1
<1>4. ASSUME NEW k \in 0 .. N - 1, k \in T PROVE k + 1 \in T
  <2>1. PICK j \in 1 .. N : j = k + 1
    BY <1>7
  <2>2. j - 1 = k
    BY <2>1
  <2> DEFINE x == p[k]
             recs == ReadRecs(v.img, extent + j - 1, x.buffer)
  <2>3. x.buffer \in Seq(R) /\ x.entries \in Seq(E)
    BY <1>4
  <2>4. recs \in Seq(R)
    <3> HIDE DEF E, x
    <3> QED BY <2>3 DEF N
  <2>5. p[j] = ReadSector(v, extent, j, p[j - 1])
    BY <1>8
  <2>6. p[j] = [buffer  |-> recs,
          entries |-> x.entries \o [i \in DOMAIN recs |-> Entry(v, recs[i])]]
    BY <2>2, <2>5 DEF ReadSector
  <2>7. \A r \in R : Entry(v, r) \in E
    OBVIOUS
  <2> HIDE DEF recs, x, E, T
  <2>8. [i \in DOMAIN recs |-> Entry(v, recs[i])] \in Seq(E)
    BY <2>4, <2>7
  <2>9. p[j] \in S
    <3> DEFINE more == [i \in DOMAIN recs |-> Entry(v, recs[i])]
    <3>1. more \in Seq(E)
      BY <2>8
    <3> HIDE DEF more
    <3>2. x.entries \o more \in Seq(E)
      BY <2>3, <3>1
    <3>3. p[j] = [buffer |-> recs, entries |-> x.entries \o more]
      BY <2>6 DEF more
    <3> QED BY <2>4, <3>2, <3>3
  <2> HIDE DEF S
  <2> QED BY <1>7, <2>1, <2>9 DEF T
<1> HIDE DEF T
<1>5. \A k \in 0 .. N : k \in T
  BY <1>7, <1>3, <1>4, BoundedInduction
<1>6. p[N].entries \in Seq(E)
  BY <1>7, <1>5 DEF T
<1> HIDE DEF E
<1> QED BY <1>8, <1>6 DEF E

LEMMA DirEntriesTyped ==
  ASSUME NEW v, v.img \in DOMAIN Images, NEW extent, NEW len \in Nat
  PROVE  getDirEntries(v, extent, len) \in Seq(EntriesOf(v))
<1>1. \A k \in 1 .. Sectors(len) : \A b \in Seq(RecordTypes) :
        ReadRecs(v.img, extent + k - 1, b) \in Seq(RecordTypes)
  BY RecsTyped
<1>2. getDirEntries(v, extent, len) \in Seq({Entry(v, r) : r \in RecordTypes})
  BY <1>1, EntriesFrom
<1> QED BY <1>2 DEF EntriesOf

LEMMA FirstMatchIn ==
  ASSUME NEW S, NEW entries \in Seq(S), NEW name
  PROVE  FirstMatch(entries, name) \in S \cup {NotFound}
<1> DEFINE I == {i \in 1 .. Len(entries) : SameName(entries[i].chrName, name)}
           i == SelectInSeq(entries, LAMBDA e : SameName(e.chrName, name))
<1>1. i = IF I # {} THEN Min(I) ELSE 0
  BY DEF SelectInSeq
<1>2. CASE I = {}
  BY <1>1, <1>2 DEF FirstMatch
<1>3. CASE I # {}
  <2>1. I \subseteq Nat
    OBVIOUS
  <2>2. \E x \in I : \A y \in I : x <= y
    <3> HIDE DEF I
    <3> QED BY <1>3, <2>1, LeastNumber
  <2>3. Min(I) \in I
    <3> HIDE DEF I
    <3> QED BY <2>2 DEF Min
  <2>4. i \in 1 .. Len(entries)
    BY <1>1, <1>3, <2>3
  <2> HIDE DEF i, I
  <2>5. i # 0 /\ entries[i] \in S
    BY <2>4
  <2> QED BY <2>5 DEF FirstMatch, i
<1> QED BY <1>2, <1>3

\* The scan of a path, character by character
AtStart        == [parts |-> <<>>, part |-> <<>>]
ScanStep(c, x) == IF c \in Separators THEN [parts |-> Ended(x), part |-> <<>>]
                  ELSE [parts |-> x.parts, part |-> Append(x.part, c)]

\* p is where the scan is after each character.
Scans(path, p) ==
  /\ p \in [0 .. Len(path) -> [parts : Seq(Seq(Nat)), part : Seq(Nat)]]
  /\ p[0] = AtStart
  /\ \A k \in 1 .. Len(path) : p[k] = ScanStep(path[k], p[k - 1])
  /\ Components(path) = Ended(p[Len(path)])

LEMMA EndedTyped ==
  ASSUME NEW x \in [parts : Seq(Seq(Nat)), part : Seq(Nat)]
  PROVE  Ended(x) \in Seq(Seq(Nat))
<1> DEFINE P == Seq(Nat)
<1>1. x.parts \in Seq(P) /\ x.part \in P
  OBVIOUS
<1> HIDE DEF P
<1>2. Append(x.parts, x.part) \in Seq(P)
  BY <1>1, AppendProperties
<1>3. Ended(x) \in Seq(P)
  BY <1>1, <1>2 DEF Ended
<1> QED BY <1>3 DEF P

LEMMA PathScanned ==
  ASSUME NEW path \in Seq(Nat)
  PROVE  \E p : Scans(path, p)
<1> DEFINE N == Len(path)
           P == Seq(Nat)
           S == [parts : Seq(P), part : P]
           a == AtStart
           Step(k, x) == ScanStep(path[k], x)
           F == [k \in 1 .. N |-> [x \in S |-> Step(k, x)]]
           Body(f) == [k \in 0 .. N |-> IF k = 0 THEN a ELSE Step(k, f[k - 1])]
           p == CHOOSE f : f = Body(f)
<1>1. N \in Nat
  OBVIOUS
<1>2. Components(path) = Ended(p[N])
  BY DEF Components, ScanStep, AtStart
<1>3. a \in S
  BY DEF AtStart
<1>5. \A k \in 1 .. N, x \in S : Step(k, x) \in S
  <2> SUFFICES ASSUME NEW k \in 1 .. N, NEW x \in S PROVE Step(k, x) \in S
    OBVIOUS
  <2>1. Ended(x) \in Seq(P) /\ x.parts \in Seq(P) /\ <<>> \in P
    BY EndedTyped
  <2>2. Append(x.part, path[k]) \in P
    OBVIOUS
  <2> HIDE DEF P
  <2> QED BY <2>1, <2>2 DEF ScanStep
<1> HIDE DEF N, S, a, Step
<1>6. F \in Steps(N, S)
  BY <1>5 DEF Steps
<1>7. PICK f : f \in Recursive(N, S, a, F)
  <2> HIDE DEF F
  <2> QED BY <1>1, <1>3, <1>6, PrimitiveRecursion
<1>8. f = Body(f)
  <2>1. f \in [0 .. N -> S] /\ f[0] = a
    BY <1>7 DEF Recursive
  <2>2. \A k \in 1 .. N : f[k] = F[k][f[k - 1]]
    <3> HIDE DEF F
    <3> QED BY <1>7 DEF Recursive
  <2>3. \A k \in 1 .. N : f[k - 1] \in S
    BY <1>1, <2>1
  <2>4. \A k \in 1 .. N : f[k] = Step(k, f[k - 1])
    BY <2>2, <2>3
  <2> QED BY <1>1, <2>1, <2>4
<1>9. p = Body(p)
  BY <1>8
<1> HIDE DEF p
<1>10. p = [k \in 0 .. N |-> p[k]] /\ p[0] = a
       /\ \A k \in 1 .. N : p[k - 1] \in S => p[k] = F[k][p[k - 1]]
  <2>1. p[0] = a /\ \A k \in 1 .. N : p[k] = Step(k, p[k - 1])
    BY <1>1, <1>9
  <2>2. p = [k \in 0 .. N |-> p[k]]
    BY <1>1, <1>9
  <2> QED BY <2>1, <2>2
<1>11. p \in Recursive(N, S, a, F)
  <2> HIDE DEF F
  <2> QED BY <1>1, <1>3, <1>6, <1>10, RecursionMet
<1>12. p \in [0 .. N -> S]
  BY <1>11 DEF Recursive
<1>13. p[0] = a /\ \A k \in 1 .. N : p[k] = Step(k, p[k - 1])
  BY <1>1, <1>9
<1>14. Scans(path, p)
  BY <1>2, <1>12, <1>13 DEF Scans, N, S, a, Step
<1> QED BY <1>14

LEMMA ComponentsTyped ==
  ASSUME NEW path \in Seq(Nat)
  PROVE  Components(path) \in Seq(Seq(Nat))
<1>1. PICK p : Scans(path, p)
  BY PathScanned
<1>2. Len(path) \in Nat
  OBVIOUS
<1>3. p[Len(path)] \in [parts : Seq(Seq(Nat)), part : Seq(Nat)]
  BY <1>1, <1>2 DEF Scans
<1>4. Ended(p[Len(path)]) \in Seq(Seq(Nat))
  BY <1>3, EndedTyped
<1> QED BY <1>1, <1>4 DEF Scans

\* What a path leads to: the root directory, an entry of a directory, or nothing
Found(v) == EntriesOf(v) \cup {NotFound, RootEntry(v)}

\* p is what has been found after each component.
Finds(v, path, p) ==
  LET parts == Components(path)
  IN  /\ p \in [0 .. Len(parts) -> Found(v)]
      /\ p[0] = RootEntry(v)
      /\ \A k \in 1 .. Len(parts) : p[k] = EntryIn(v, p[k - 1], parts[k])
      /\ isoQueryIsoEntryFromPath(v, path) = p[Len(parts)]

\* The entry of a path is found component by component.
LEMMA QueryFound ==
  ASSUME NEW v, v.img \in DOMAIN Images, v.iRootSize \in Nat,
         NEW path \in Seq(Nat)
  PROVE  \E p : Finds(v, path, p)
<1> DEFINE parts == Components(path)
           N == Len(parts)
           S == Found(v)
           a == RootEntry(v)
           Step(k, x) == EntryIn(v, x, parts[k])
           F == [k \in 1 .. N |-> [x \in S |-> Step(k, x)]]
           Body(f) == [k \in 0 .. N |-> IF k = 0 THEN a ELSE Step(k, f[k - 1])]
           p == CHOOSE f : f = Body(f)
<1>1. N \in Nat
  BY ComponentsTyped
<1>2. isoQueryIsoEntryFromPath(v, path) = p[N]
  BY DEF isoQueryIsoEntryFromPath
<1>3. a \in S
  BY DEF Found
<1>4. \A k \in 1 .. N, x \in S : Step(k, x) \in S
  <2> SUFFICES ASSUME NEW k \in 1 .. N, NEW x \in S PROVE Step(k, x) \in S
    OBVIOUS
  <2>1. CASE x = NotFound
    BY <2>1 DEF EntryIn, Found
  <2>2. CASE x # NotFound
    <3>1. x.iSize \in Nat
      <4>1. CASE x \in EntriesOf(v)
        BY <4>1, EntryTyped DEF Sizes
      <4>2. CASE x = RootEntry(v)
        BY <4>2 DEF RootEntry
      <4> QED BY <2>2, <4>1, <4>2 DEF Found
    <3>2. getDirEntries(v, x.iExtent, x.iSize) \in Seq(EntriesOf(v))
      BY <3>1, DirEntriesTyped
    <3>3. Step(k, x) = FirstMatch(getDirEntries(v, x.iExtent, x.iSize), parts[k])
      BY <2>2 DEF EntryIn
    <3> HIDE DEF Step, parts
    <3>4. Step(k, x) \in EntriesOf(v) \cup {NotFound}
      BY <3>2, <3>3, FirstMatchIn
    <3> QED BY <3>4 DEF Found
  <2> QED BY <2>1, <2>2
<1> HIDE DEF N, S, a, Step
<1>5. F \in Steps(N, S)
  BY <1>4 DEF Steps
<1>6. PICK f : f \in Recursive(N, S, a, F)
  <2> HIDE DEF F
  <2> QED BY <1>1, <1>3, <1>5, PrimitiveRecursion
<1>7. f = Body(f)
  <2>1. f \in [0 .. N -> S] /\ f[0] = a
    BY <1>6 DEF Recursive
  <2>2. \A k \in 1 .. N : f[k] = F[k][f[k - 1]]
    <3> HIDE DEF F
    <3> QED BY <1>6 DEF Recursive
  <2>3. \A k \in 1 .. N : f[k - 1] \in S
    BY <1>1, <2>1
  <2>4. \A k \in 1 .. N : f[k] = Step(k, f[k - 1])
    BY <2>2, <2>3
  <2> QED BY <1>1, <2>1, <2>4
<1>8. p = Body(p)
  BY <1>7
<1> HIDE DEF p
<1>9. p = [k \in 0 .. N |-> p[k]] /\ p[0] = a
      /\ \A k \in 1 .. N : p[k - 1] \in S => p[k] = F[k][p[k - 1]]
  <2>1. p[0] = a /\ \A k \in 1 .. N : p[k] = Step(k, p[k - 1])
    BY <1>1, <1>8
  <2>2. p = [k \in 0 .. N |-> p[k]]
    BY <1>1, <1>8
  <2> QED BY <2>1, <2>2
<1>10. p \in Recursive(N, S, a, F)
  <2> HIDE DEF F
  <2> QED BY <1>1, <1>3, <1>5, <1>9, RecursionMet
<1>11. p \in [0 .. N -> S]
  BY <1>10 DEF Recursive
<1>12. p[0] = a /\ \A k \in 1 .. N : p[k] = Step(k, p[k - 1])
  BY <1>1, <1>8
<1>13. Finds(v, path, p)
  BY <1>2, <1>11, <1>12 DEF S, N, a, Step, Finds
<1> QED BY <1>13

LEMMA QueryTyped ==
  ASSUME NEW v, v.img \in DOMAIN Images, v.iRootSize \in Nat,
         NEW path \in Seq(Nat)
  PROVE  isoQueryIsoEntryFromPath(v, path) \in Found(v)
<1>1. Len(Components(path)) \in Nat
  BY ComponentsTyped
<1>2. PICK p : Finds(v, path, p)
  BY QueryFound
<1> QED BY <1>1, <1>2 DEF Finds

-----------------------------------------------------------------------------
(* The state of a volume                                                   *)

First == 16 + parms.iOffset

\* A volume that is attached, or on the way, has a primary descriptor.
Attached ==
  st \in {"scanning", "mounted"} =>
    /\ parms \in Attachments /\ parms.iOffset \in Nat
    /\ parms.img \in DOMAIN Images
    /\ First \in DOMAIN Master.descs
    /\ st = "scanning" => IsPrimary(Master.descs[First])

\* A file is opened on a mounted volume.
OpenFile ==
  /\ file # NoFile => /\ st = "mounted"
                      /\ file.iExtent \in Nat /\ file.sfi_size \in Sizes
  /\ st = "mounted" => vol.img = parms.img /\ vol.iRootSize \in Sizes
  /\ sfi_position \in Sizes

\* What was read is forgotten when the file is closed.
LastRead ==
  /\ file = NoFile => last = NoRead
  /\ Len(last.bytes) <= last.asked
  /\ ReadsAreContent

\* The search has come to a sector that it has read, unless it is beyond the
\* image; the sectors before are descriptors that do not end it.
Passed(n) == /\ n \in DOMAIN Master.descs
             /\ GoesOn(Master.descs[n]) /\ ~IsJoliet(Master.descs[n])
Place     == parms.iOffset + block
Scanned ==
  /\ block \in Nat
  /\ st = "scanning" =>
       /\ block >= 16
       /\ \A n \in First .. Place - 1 : n <= Master.last => Passed(n)
       /\ jpd \in Descs \cup {NoDesc}
       /\ IF Place <= Master.last THEN jpd = At(Master.descs, Place, NoDesc)
          ELSE GoesOn(jpd) /\ ~IsJoliet(jpd)

\* What is mounted is the volume of its image.
VolumeIs == st = "mounted" => vol = VolumeFor(parms)

VolumeInv ==
  /\ st \in {"detached", "scanning", "mounted"}
  /\ parms \in Attachments \cup {NoParms}
  /\ Attached /\ VolumeIs /\ OpenFile /\ LastRead /\ Scanned /\ JolietPreferred

IsoTypes == /\ ipc \in {"off", "scan", "list", "done", "failed"}
            /\ opt \in Commands \cup {NoOpt}

LEMMA VolumeInit == Init => VolumeInv
<1> SUFFICES ASSUME Init PROVE VolumeInv
  OBVIOUS
<1>1. /\ st = "detached" /\ parms = NoParms /\ block = 0
      /\ file = NoFile /\ sfi_position = 0 /\ last = NoRead
  BY DEF Init
<1>2. Attached
  BY <1>1 DEF Attached
<1>3. OpenFile
  BY <1>1, ZeroIsSize DEF OpenFile
<1>4. LastRead
  BY <1>1 DEF LastRead, ReadsAreContent, NoRead
<1>5. Scanned
  BY <1>1 DEF Scanned
<1>6. JolietPreferred /\ VolumeIs
  BY <1>1 DEF JolietPreferred, Mounted, VolumeIs
<1> QED BY <1>1, <1>2, <1>3, <1>4, <1>5, <1>6 DEF VolumeInv

LEMMA VolumeStutters == VolumeInv /\ UNCHANGED volvars => VolumeInv'
BY DEF VolumeInv, volvars, Attached, VolumeIs, OpenFile, LastRead, Scanned, JolietPreferred,
       ReadsAreContent, WithinImage, Master, Mounted, First, Place, Passed

\* What reading a sector as a descriptor gives
LEMMA DescRead ==
  ASSUME NEW img \in DOMAIN Images, NEW n \in Nat, NEW kept
  PROVE  LET m == Masters[img]
         IN  /\ LastSector(img) = m.last /\ m.last \in Nat
             /\ ReadDesc(img, n, kept)
                  = IF n <= m.last THEN At(m.descs, n, NoDesc) ELSE kept
             /\ At(m.descs, n, NoDesc) \in Descs \cup {NoDesc}
<1> DEFINE m == Masters[img]
<1>1. Images[img] = ImageOf(m) /\ m.last \in Nat
      /\ \A k \in DOMAIN m.descs : m.descs[k] \in Descs
  BY MasterTyped
<1> HIDE DEF m
<1>2. Images[img].last = m.last /\ Images[img].desc = m.descs
  BY <1>1 DEF ImageOf
<1>3. At(m.descs, n, NoDesc) \in Descs \cup {NoDesc}
  BY <1>1 DEF At
<1> QED BY <1>1, <1>2, <1>3 DEF ReadDesc, LastSector, Stored, m

LEMMA NoDescEnds == ~GoesOn(NoDesc) /\ ~IsPrimary(NoDesc) /\ ~IsHighSierra(NoDesc)
                    /\ ~IsJoliet(NoDesc)
BY DEF NoDesc, GoesOn, IsPrimary, IsHighSierra, IsJoliet

\* No Joliet descriptor is before a sector that ends the list, if none of the
\* descriptors up to it is one.
LEMMA NoneBeforeEnd ==
  ASSUME NEW m, NEW first \in Int, NEW at \in Int, first <= at,
         DOMAIN m.descs \subseteq Int,
         \A n \in first .. at - 1 : n \in DOMAIN m.descs => ~IsJoliet(m.descs[n]),
         ~(at \in DOMAIN m.descs /\ GoesOn(m.descs[at]))
  PROVE  JolietFrom(m, first) = {}
<1> SUFFICES ASSUME NEW n \in JolietFrom(m, first) PROVE FALSE
  OBVIOUS
<1>1. /\ n \in DOMAIN m.descs /\ n >= first /\ IsJoliet(m.descs[n]) /\ n \in Int
      /\ \A s \in first .. n : s \in DOMAIN m.descs /\ GoesOn(m.descs[s])
  BY DEF JolietFrom
<1>2. CASE n < at
  <2>1. n \in first .. at - 1
    BY <1>1, <1>2
  <2> QED BY <1>1, <2>1
<1>3. CASE n >= at
  <2>1. at \in first .. n
    BY <1>1, <1>3
  <2> QED BY <1>1, <2>1
<1> QED BY <1>1, <1>2, <1>3

\* A Joliet descriptor is the one, if none of those before it is.
LEMMA FirstOfThem ==
  ASSUME NEW m, NEW first \in Int, NEW at \in Int, first <= at,
         DOMAIN m.descs \subseteq Int,
         \A n \in first .. at - 1 :
           n \in DOMAIN m.descs /\ GoesOn(m.descs[n]) /\ ~IsJoliet(m.descs[n]),
         at \in DOMAIN m.descs, GoesOn(m.descs[at]), IsJoliet(m.descs[at])
  PROVE  LET hits == JolietFrom(m, first)
         IN  hits # {} /\ (CHOOSE n \in hits : \A h \in hits : n <= h) = at
<1> DEFINE hits == JolietFrom(m, first)
<1>1. \A s \in first .. at : s \in DOMAIN m.descs /\ GoesOn(m.descs[s])
  <2> SUFFICES ASSUME NEW s \in first .. at
               PROVE  s \in DOMAIN m.descs /\ GoesOn(m.descs[s])
    OBVIOUS
  <2>1. s \in first .. at - 1 \/ s = at
    OBVIOUS
  <2> QED BY <2>1
<1>2. at \in hits
  BY <1>1 DEF JolietFrom
<1>3. \A h \in hits : h \in Int /\ at <= h
  <2> SUFFICES ASSUME NEW h \in hits PROVE h \in Int /\ at <= h
    OBVIOUS
  <2>1. h \in DOMAIN m.descs /\ h >= first /\ IsJoliet(m.descs[h]) /\ h \in Int
    BY DEF JolietFrom
  <2>2. ~(h \in first .. at - 1)
    BY <2>1
  <2> QED BY <2>1, <2>2
<1> HIDE DEF hits
<1>4. \A n \in hits : (\A h \in hits : n <= h) => n = at
  BY <1>2, <1>3
<1>5. (CHOOSE n \in hits : \A h \in hits : n <= h) = at
  BY <1>2, <1>3, <1>4
<1> QED BY <1>2, <1>5 DEF hits

LEMMA DescsNumbered ==
  ASSUME NEW img \in DOMAIN Images
  PROVE  DOMAIN Masters[img].descs \subseteq 0 .. Masters[img].last
BY MasterTyped

LEMMA AttachKeeps ==
  ASSUME VolumeInv, NEW p \in Attachments, AttachVolume(p)
  PROVE  VolumeInv'
<1> DEFINE m == Masters[p.img]
           first == 16 + p.iOffset
           ipd == ReadDesc(p.img, first, NoDesc)
<1>1. /\ st = "detached" /\ p.iOffset \in Nat /\ p.img \in DOMAIN Images
      /\ parms' = p /\ file' = file /\ last' = last /\ sfi_position' = sfi_position
      /\ \/ /\ IsHighSierra(ipd)
            /\ st' = "mounted" /\ vol' = NewVolume(p, TRUE, 0, ipd.root)
            /\ block' = block /\ jpd' = jpd
         \/ /\ IsPrimary(ipd)
            /\ st' = "scanning" /\ block' = 16 /\ jpd' = ipd /\ vol' = vol
  <2>1. p.iOffset \in Int /\ p.iOffset >= 0 /\ st = "detached"
    BY RequestsAssumption DEF AttachVolume
  <2>2. /\ p.img \in DOMAIN Images
        /\ parms' = p /\ UNCHANGED <<file, sfi_position, last>>
    BY DEF AttachVolume, Stored
  <2>3. \/ /\ IsHighSierra(ipd)
           /\ st' = "mounted" /\ vol' = NewVolume(p, TRUE, 0, ipd.root)
           /\ UNCHANGED <<block, jpd>>
        \/ /\ IsPrimary(ipd)
           /\ st' = "scanning" /\ block' = 16 /\ jpd' = ipd /\ UNCHANGED vol
    BY DEF AttachVolume
  <2>4. p.iOffset \in Nat
    BY <2>1
  <2> HIDE DEF ipd
  <2> QED BY <2>1, <2>2, <2>3, <2>4, Zenon
<1>2. file = NoFile /\ last = NoRead
  BY <1>1 DEF VolumeInv, OpenFile, LastRead
<1>3. first \in Nat /\ first >= 16 /\ m.last \in Nat
      /\ ipd = (IF first <= m.last THEN At(m.descs, first, NoDesc) ELSE NoDesc)
      /\ At(m.descs, first, NoDesc) \in Descs \cup {NoDesc}
  <2>1. first \in Nat /\ first >= 16
    BY <1>1
  <2> HIDE DEF first
  <2> QED BY <1>1, <2>1, DescRead
<1>4. ipd # NoDesc
  BY <1>1, NoDescEnds
<1>5. first \in DOMAIN m.descs /\ ipd = m.descs[first] /\ first <= m.last
      /\ ipd \in Descs
  BY <1>3, <1>4 DEF At
<1>6. ipd.root.size \in Sizes
  BY <1>5 DEF Descs, Sizes
<1>7. First' = first /\ Master' = m
  BY <1>1 DEF First, Master, Made
<1> HIDE DEF ipd, m, first
<1>8. Attached'
  <2>1. st' = "scanning" => IsPrimary(ipd)
    BY <1>1
  <2> QED BY <1>1, <1>5, <1>7, <2>1 DEF Attached, first
<1>9. OpenFile'
  BY <1>1, <1>2, <1>6 DEF OpenFile, VolumeInv, NewVolume
<1>10. LastRead'
  BY <1>1, <1>2 DEF LastRead, ReadsAreContent, VolumeInv
<1>11. Scanned'
  <2>1. CASE st' = "mounted"
    BY <1>1, <2>1 DEF Scanned, VolumeInv
  <2>2. CASE st' = "scanning"
    <3>1. block' = 16 /\ jpd' = ipd
      BY <1>1, <2>2
    <3>2. Place' = first
      BY <1>1, <3>1 DEF Place, first
    <3>3. \A n \in first .. first - 1 : FALSE
      BY <1>3
    <3>4. jpd' = At(m.descs, first, NoDesc)
      BY <1>5, <3>1 DEF At
    <3>5. block' \in Nat /\ block' >= 16
      BY <3>1
    <3>6. jpd' \in Descs \cup {NoDesc}
      BY <1>5, <3>1
    <3> QED BY <1>5, <1>7, <3>2, <3>3, <3>4, <3>5, <3>6 DEF Scanned
  <2> QED BY <1>1, <2>1, <2>2
<1>12. JolietPreferred' /\ VolumeIs'
  <2>1. CASE st' = "scanning"
    BY <2>1 DEF JolietPreferred, Mounted, VolumeIs
  <2>2. CASE st' = "mounted"
    <3>1. IsHighSierra(ipd) /\ vol' = NewVolume(p, TRUE, 0, ipd.root)
      BY <1>1, <2>2
    <3>2. ~GoesOn(ipd)
      BY <3>1 DEF IsHighSierra, GoesOn
    <3>3. DOMAIN m.descs \subseteq Int
      BY <1>1, DescsNumbered DEF m
    <3>4. \A n \in first .. first - 1 : FALSE
      BY <1>3
    <3>5. JolietFrom(m, first) = {}
      BY <1>3, <1>5, <3>2, <3>3, <3>4, NoneBeforeEnd
    <3>6. vol'.iRootExtent = m.descs[first].root.extent /\ vol'.ucs_level = 0
      BY <1>5, <3>1 DEF NewVolume
    <3>7. 16 + parms'.iOffset = first
      BY <1>1 DEF first
    <3>8. Used(m, first) = first
      BY <3>5 DEF Used
    <3>9. ~IsJoliet(ipd)
      BY <3>1 DEF IsHighSierra, IsJoliet
    <3>10. vol' = VolumeFor(p)
      <4>1. VolumeFor(p) =
              NewVolume(p, IsHighSierra(m.descs[first]),
                        IF IsJoliet(m.descs[first]) THEN UcsLevel(m.descs[first].esc)
                        ELSE 0, m.descs[first].root)
        BY <3>8 DEF VolumeFor, Made, m, first
      <4>2. IsHighSierra(ipd) = TRUE
        BY <3>1 DEF IsHighSierra
      <4> QED BY <1>5, <3>1, <3>9, <4>1, <4>2
    <3> QED BY <1>1, <1>7, <3>5, <3>6, <3>7, <3>8, <3>10
            DEF JolietPreferred, VolumeIs
  <2> QED BY <1>1, <2>1, <2>2
<1> QED BY <1>1, <1>8, <1>9, <1>10, <1>11, <1>12 DEF VolumeInv

LEMMA UpToNext ==
  ASSUME NEW a \in Int, NEW b \in Int, NEW c \in Int, c <= b + 1, NEW n \in a .. c - 1
  PROVE  n \in a .. b - 1 \/ n = b
OBVIOUS

LEMMA ScanKeeps ==
  ASSUME VolumeInv, ScanDescriptor
  PROVE  VolumeInv'
<1> DEFINE m == Masters[parms.img]
           i == parms.iOffset
<1>1. /\ st = "scanning" /\ GoesOn(jpd) /\ ~IsJoliet(jpd)
      /\ block' = Min2(block + 1, LastSector(parms.img) + 1)
      /\ jpd' = ReadDesc(parms.img, i + block', jpd)
      /\ UNCHANGED <<st, parms, vol, file, sfi_position, last>>
  BY DEF ScanDescriptor
<1>2. /\ i \in Nat /\ parms.img \in DOMAIN Images /\ First \in DOMAIN m.descs
      /\ block \in Nat /\ block >= 16
      /\ \A n \in First .. Place - 1 : n <= m.last => Passed(n)
      /\ jpd \in Descs \cup {NoDesc}
      /\ Place <= m.last => jpd = At(m.descs, Place, NoDesc)
  BY <1>1 DEF VolumeInv, Attached, Scanned, Master, Made
<1>3. m.last \in Nat /\ LastSector(parms.img) = m.last
  BY <1>2, DescRead, MasterTyped
<1>4. First \in Nat /\ First <= m.last /\ First = 16 + i /\ Place = i + block
  BY <1>2, DescsNumbered DEF First, Place
<1>5. block' \in Nat /\ block' >= 16
      /\ (block' = block + 1 \/ (block' = block /\ block >= m.last + 1)
            \/ (block' < block /\ block' = m.last + 1))
  <2>1. m.last >= 16
    BY <1>2, <1>3, <1>4
  <2> HIDE DEF m
  <2> QED BY <1>1, <1>2, <1>3, <2>1 DEF Min2
<1>6. Place <= m.last => Passed(Place)
  <2> SUFFICES ASSUME Place <= m.last PROVE Passed(Place)
    OBVIOUS
  <2>1. jpd = At(m.descs, Place, NoDesc) /\ jpd # NoDesc
    BY <1>1, <1>2, NoDescEnds
  <2>2. Place \in DOMAIN m.descs /\ jpd = m.descs[Place]
    BY <2>1 DEF At
  <2> QED BY <1>1, <2>2 DEF Passed, Master, Made
<1>7. Place' = i + block' /\ First' = First /\ Master' = Master /\ Master = m
  BY <1>1 DEF Place, First, Master, Made
<1>8. \A n : Passed(n)' <=> Passed(n)
  BY <1>1 DEF Passed, Master
<1>9. \A n \in First .. Place' - 1 : n <= m.last => Passed(n)
  <2> SUFFICES ASSUME NEW n \in First .. Place' - 1, n <= m.last PROVE Passed(n)
    OBVIOUS
  <2>1. Place \in Nat /\ Place' \in Nat /\ n \in Int
    BY <1>2, <1>4, <1>5, <1>7
  <2>2. Place' <= Place + 1
    BY <1>2, <1>4, <1>5, <1>7, <1>3
  <2>3. n \in First .. Place - 1 \/ n = Place
    <3>1. First \in Int /\ Place \in Int /\ Place' \in Int
      BY <1>4, <2>1
    <3> QED BY <2>2, <3>1, UpToNext
  <2> QED BY <1>2, <1>6, <2>3
<1>10. /\ jpd' = (IF Place' <= m.last THEN At(m.descs, Place', NoDesc) ELSE jpd)
       /\ At(m.descs, Place', NoDesc) \in Descs \cup {NoDesc}
  <2>1. Place' \in Nat
    BY <1>2, <1>5, <1>7
  <2> QED BY <1>1, <1>2, <1>7, <2>1, DescRead
<1>11. jpd' \in Descs \cup {NoDesc}
  BY <1>2, <1>10
<1> HIDE DEF m
<1>12. IF Place' <= m.last THEN jpd' = At(m.descs, Place', NoDesc)
       ELSE GoesOn(jpd') /\ ~IsJoliet(jpd')
  BY <1>1, <1>10
<1>13. Scanned'
  BY <1>5, <1>7, <1>8, <1>9, <1>11, <1>12 DEF Scanned
<1>14. Attached' /\ OpenFile' /\ LastRead' /\ JolietPreferred' /\ VolumeIs'
  <2>1. Attached'
    BY <1>1 DEF VolumeInv, Attached, First, Master
  <2>2. OpenFile'
    BY <1>1 DEF VolumeInv, OpenFile
  <2>3. LastRead'
    BY <1>1 DEF VolumeInv, LastRead, ReadsAreContent, WithinImage, Master
  <2>4. JolietPreferred' /\ VolumeIs'
    BY <1>1 DEF JolietPreferred, Mounted, VolumeIs
  <2> QED BY <2>1, <2>2, <2>3, <2>4
<1> QED BY <1>1, <1>13, <1>14 DEF VolumeInv

LEMMA MountKeeps ==
  ASSUME VolumeInv, Mount
  PROVE  VolumeInv'
<1> DEFINE m == Masters[parms.img]
           ipd == ReadDesc(parms.img, First, NoDesc)
<1>1. /\ st = "scanning" /\ (~GoesOn(jpd) \/ IsJoliet(jpd)) /\ st' = "mounted"
      /\ vol' = IF GoesOn(jpd) /\ IsJoliet(jpd)
                THEN NewVolume(parms, FALSE, UcsLevel(jpd.esc), jpd.root)
                ELSE NewVolume(parms, FALSE, 0, ipd.root)
      /\ UNCHANGED <<parms, block, jpd, file, sfi_position, last>>
  BY DEF Mount, First
<1>2. /\ parms.iOffset \in Nat /\ parms.img \in DOMAIN Images
      /\ First \in DOMAIN m.descs /\ IsPrimary(m.descs[First])
      /\ block \in Nat /\ block >= 16
      /\ \A n \in First .. Place - 1 : n <= m.last => Passed(n)
      /\ jpd \in Descs \cup {NoDesc}
      /\ Place <= m.last => jpd = At(m.descs, Place, NoDesc)
      /\ ~(Place <= m.last) => GoesOn(jpd) /\ ~IsJoliet(jpd)
  BY <1>1 DEF VolumeInv, Attached, Scanned, Master, Made
<1>3. m.last \in Nat /\ DOMAIN m.descs \subseteq 0 .. m.last
  BY <1>2, MasterTyped, DescsNumbered
<1>4. First \in Nat /\ First <= m.last /\ Place \in Nat /\ First <= Place
  BY <1>2, <1>3 DEF First, Place
<1>5. Place <= m.last /\ jpd = At(m.descs, Place, NoDesc)
  BY <1>1, <1>2
<1>6. ipd = m.descs[First] /\ m.descs[First] \in Descs
  <2>1. ipd = At(m.descs, First, NoDesc)
    BY <1>2, <1>4, DescRead
  <2> QED BY <1>2, <2>1, MasterTyped DEF At
<1>7. \A n \in First .. Place - 1 :
        n \in DOMAIN m.descs /\ GoesOn(m.descs[n]) /\ ~IsJoliet(m.descs[n])
  <2>1. \A n \in First .. Place - 1 : n <= m.last
    BY <1>3, <1>4, <1>5
  <2>2. \A n \in First .. Place - 1 : Passed(n)
    BY <1>2, <2>1
  <2> QED BY <2>2 DEF Passed, Master, Made
<1>8. First' = First /\ Master' = m /\ First = 16 + parms.iOffset
  BY <1>1 DEF First, Master, Made
<1>9. DOMAIN m.descs \subseteq Int
  BY <1>3
<1> DEFINE hits == JolietFrom(m, First)
           used == Used(m, First)
           d    == m.descs[used]
<1> HIDE DEF m, ipd
<1>10. /\ vol'.img = parms.img /\ vol'.iRootSize \in Sizes
       /\ vol'.iRootExtent = m.descs[used].root.extent
       /\ vol'.ucs_level > 0 <=> hits # {}
       /\ vol' = NewVolume(parms, FALSE, IF IsJoliet(d) THEN UcsLevel(d.esc) ELSE 0,
                           d.root)
  <2>1. CASE GoesOn(jpd) /\ IsJoliet(jpd)
    <3>1. jpd # NoDesc
      BY <2>1, NoDescEnds
    <3>2. Place \in DOMAIN m.descs /\ jpd = m.descs[Place] /\ jpd \in Descs
      BY <1>2, <1>5, <3>1 DEF At
    <3>3. hits # {} /\ used = Place
      <4>1. First \in Int /\ Place \in Int
        BY <1>4
      <4>2. /\ JolietFrom(m, First) # {}
            /\ (CHOOSE n \in JolietFrom(m, First) :
                  \A h \in JolietFrom(m, First) : n <= h) = Place
        BY <1>4, <1>7, <1>9, <2>1, <3>2, <4>1, FirstOfThem
      <4> QED BY <4>2 DEF Used
    <3>4. UcsLevel(jpd.esc) > 0
      BY <2>1 DEF IsJoliet, UcsLevel
    <3>5. jpd.root.size \in Sizes
      BY <3>2 DEF Descs, Sizes
    <3>6. vol' = NewVolume(parms, FALSE, UcsLevel(jpd.esc), jpd.root)
      BY <1>1, <2>1
    <3>7. d = jpd
      BY <3>2, <3>3
    <3> HIDE DEF hits, used, d
    <3> QED BY <2>1, <3>7, <3>2, <3>3, <3>4, <3>5, <3>6 DEF NewVolume
  <2>2. CASE ~(GoesOn(jpd) /\ IsJoliet(jpd))
    <3>1. ~GoesOn(jpd)
      BY <1>1, <2>2
    <3>2. ~(Place \in DOMAIN m.descs /\ GoesOn(m.descs[Place]))
      BY <1>5, <3>1 DEF At
    <3>3. hits = {}
      BY <1>4, <1>7, <1>9, <3>2, NoneBeforeEnd
    <3>4. used = First
      BY <3>3 DEF Used
    <3>5. m.descs[First].root.size \in Sizes
      BY <1>6 DEF Descs, Sizes
    <3>6. vol' = NewVolume(parms, FALSE, 0, m.descs[First].root)
      BY <1>1, <1>6, <2>2
    <3>7. d = m.descs[First]
      BY <3>4
    <3>8. ~IsJoliet(m.descs[First])
      BY <1>2 DEF IsPrimary, IsJoliet
    <3> HIDE DEF hits, used, d
    <3> QED BY <3>3, <3>4, <3>5, <3>6, <3>7, <3>8 DEF NewVolume
  <2> QED BY <2>1, <2>2
<1>11. JolietPreferred'
  <2>1. 16 + parms'.iOffset = First
    BY <1>1, <1>8
  <2> QED BY <1>8, <1>10, <2>1 DEF JolietPreferred
<1>17. VolumeIs'
  <2>1. VolumeFor(parms) =
          NewVolume(parms, IsHighSierra(m.descs[First]),
                    IF IsJoliet(d) THEN UcsLevel(d.esc) ELSE 0, d.root)
    BY DEF VolumeFor, Made, m, First
  <2>2. IsHighSierra(m.descs[First]) = FALSE
    BY <1>2 DEF IsPrimary, IsHighSierra
  <2> HIDE DEF d
  <2> QED BY <1>1, <1>10, <2>1, <2>2 DEF VolumeIs
<1>12. file = NoFile
  BY <1>1 DEF VolumeInv, OpenFile
<1>13. OpenFile'
  BY <1>1, <1>10, <1>12 DEF VolumeInv, OpenFile
<1>14. Attached'
  BY <1>1 DEF VolumeInv, Attached, First, Master
<1>15. LastRead'
  BY <1>1, <1>12 DEF VolumeInv, LastRead, ReadsAreContent
<1>16. Scanned'
  BY <1>1 DEF VolumeInv, Scanned
<1> QED BY <1>1, <1>11, <1>13, <1>14, <1>15, <1>16, <1>17 DEF VolumeInv

LEMMA DetachKeeps ==
  ASSUME VolumeInv, DetachVolume
  PROVE  VolumeInv'
<1>1. /\ st' = "detached" /\ file' = NoFile /\ parms' = NoParms /\ block' = 0
      /\ last' = NoRead /\ sfi_position' = sfi_position
  BY DEF DetachVolume
<1>2. Attached' /\ JolietPreferred' /\ VolumeIs'
  BY <1>1 DEF Attached, JolietPreferred, Mounted, VolumeIs
<1>3. OpenFile'
  BY <1>1 DEF VolumeInv, OpenFile
<1>4. LastRead'
  BY <1>1 DEF LastRead, ReadsAreContent, NoRead
<1>5. Scanned'
  BY <1>1 DEF Scanned
<1> QED BY <1>1, <1>2, <1>3, <1>4, <1>5 DEF VolumeInv

LEMMA OpenKeeps ==
  ASSUME VolumeInv, NEW path \in Paths[parms.img], OpenCreate(path)
  PROVE  VolumeInv'
<1> DEFINE e == isoQueryIsoEntryFromPath(vol, path)
<1>1. /\ st = "mounted" /\ file = NoFile /\ e # NotFound /\ ~e.dir
      /\ file' = [iExtent |-> e.iExtent, sfi_size |-> e.iSize]
      /\ sfi_position' = 0 /\ last' = NoRead
      /\ UNCHANGED <<st, parms, block, jpd, vol>>
  BY DEF OpenCreate
<1>2. /\ parms.img \in DOMAIN Images /\ vol.img = parms.img /\ vol.iRootSize \in Nat
  BY <1>1 DEF VolumeInv, Attached, OpenFile, Sizes
<1>3. path \in Seq(Nat)
  BY <1>2, RequestsAssumption
<1>4. e \in Found(vol)
  BY <1>2, <1>3, QueryTyped
<1> HIDE DEF e
<1>5. e \in EntriesOf(vol)
  BY <1>1, <1>4 DEF Found, RootEntry
<1>6. e.iExtent \in Nat /\ e.iSize \in Sizes
  BY <1>5, EntryTyped
<1>7. file'.iExtent = e.iExtent /\ file'.sfi_size = e.iSize
  BY <1>1
<1>8. OpenFile'
  BY <1>1, <1>6, <1>7, ZeroIsSize DEF VolumeInv, OpenFile
<1>9. Attached'
  BY <1>1 DEF VolumeInv, Attached, First, Master
<1>10. LastRead'
  BY <1>1 DEF LastRead, ReadsAreContent, NoRead
<1>11. Scanned'
  BY <1>1 DEF VolumeInv, Scanned
<1>12. JolietPreferred' /\ VolumeIs'
  BY <1>1 DEF VolumeInv, JolietPreferred, Mounted, Master, VolumeIs
<1> QED BY <1>1, <1>8, <1>9, <1>10, <1>11, <1>12 DEF VolumeInv

LEMMA CloseKeeps ==
  ASSUME VolumeInv, Close
  PROVE  VolumeInv'
<1>1. /\ file # NoFile /\ file' = NoFile /\ sfi_position' = 0 /\ last' = NoRead
      /\ UNCHANGED <<st, parms, block, jpd, vol>>
  BY DEF Close
<1>2. OpenFile'
  BY <1>1, ZeroIsSize DEF VolumeInv, OpenFile
<1>3. Attached'
  BY <1>1 DEF VolumeInv, Attached, First, Master
<1>4. LastRead'
  BY <1>1 DEF LastRead, ReadsAreContent, NoRead
<1>5. Scanned'
  BY <1>1 DEF VolumeInv, Scanned, Place, First, Passed, Master
<1>6. JolietPreferred' /\ VolumeIs'
  BY <1>1 DEF VolumeInv, JolietPreferred, Mounted, Master, VolumeIs
<1> QED BY <1>1, <1>2, <1>3, <1>4, <1>5, <1>6 DEF VolumeInv

\* Of a file that is in the image, what is left of it is.
LEMMA RestFits ==
  ASSUME Reading, file.sfi_size \in Nat, vol.img = parms.img,
         WithinImage(file.iExtent, file.sfi_size),
         NEW n \in Nat, sfi_position + n <= file.sfi_size
  PROVE  Fits(n)
<1> DEFINE e   == file.iExtent
           s   == SectorSize
           c   == Sectors(file.sfi_size)
           end == Masters[vol.img].last + 1
           sz  == file.sfi_size
<1>1. c \in Nat /\ sz <= c * s /\ s \in Nat \ {0} /\ sz \in Nat
  BY SectorsEnough, SectorSizeAssumption
<1>2. e \in Nat /\ sfi_position \in Nat /\ end \in Nat
  BY MasterTyped DEF Reading
<1>3. e + c <= end
  <2>1. e + c - 1 <= Masters[vol.img].last
    BY DEF WithinImage, Master, Made
  <2> QED BY <1>1, <1>2, <2>1, MasterTyped DEF Reading
<1>4. sfi_position + n <= sz
  OBVIOUS
<1> HIDE DEF e, s, c, end, sz
<1>5. PICK d \in Nat : end = e + c + d
  <2>1. end - (e + c) \in Nat /\ end = e + c + (end - (e + c))
    BY <1>1, <1>2, <1>3
  <2> QED BY <2>1
<1>6. end * s = e * s + c * s + d * s /\ e * s \in Nat /\ c * s \in Nat
      /\ d * s \in Nat
  BY <1>1, <1>2, <1>5
<1>7. e * s + sfi_position + n <= end * s
  BY <1>1, <1>2, <1>4, <1>6
<1> QED BY <1>7 DEF Fits, e, s, end

LEMMA ReadKeeps ==
  ASSUME VolumeInv, NEW asked \in Lengths, Read(asked)
  PROVE  VolumeInv'
<1> DEFINE n     == Available(asked)
           bytes == Copied(n)
           from  == sfi_position
           size  == file.sfi_size
<1>1. /\ st = "mounted" /\ file # NoFile
      /\ last' = [from |-> from, asked |-> asked, bytes |-> bytes]
      /\ sfi_position' = from + Len(bytes)
      /\ UNCHANGED <<st, parms, block, jpd, vol, file>>
  BY DEF Read
<1>2. /\ parms.img \in DOMAIN Images /\ vol.img = parms.img
      /\ file.iExtent \in Nat /\ size \in Nat /\ from \in Nat
      /\ size \in Sizes /\ from \in Sizes
  BY <1>1 DEF VolumeInv, Attached, OpenFile, Sizes
<1>3. asked \in Nat
  BY LengthsAssumption
<1>4. /\ n = (IF from >= size THEN 0 ELSE Min2(asked, size - from))
      /\ n \in Nat /\ n <= asked
      /\ (n = 0 \/ from + n <= size)
  BY <1>2, <1>3 DEF Available, Min2
<1> HIDE DEF n
<1>5. Reading
  BY <1>2 DEF Reading
<1>6. /\ Len(bytes) = n /\ bytes \in Seq(Int)
      /\ Fits(n) => \A j \in 1 .. n : bytes[j] = ByteAt(file.iExtent, from + j)
  BY <1>4, <1>5, CopiedBytes
<1> HIDE DEF bytes
<1>7. sfi_position' \in Sizes
  <2>1. sfi_position' = from + n
    BY <1>1, <1>6
  <2>2. from + n \in Sizes
    <3>1. Range32 \in Nat
      BY ZeroIsSize
    <3> HIDE DEF from, size
    <3> QED BY <1>2, <1>4, <3>1 DEF Sizes
  <2> QED BY <2>1, <2>2
<1>8. /\ last'.from = from /\ last'.asked = asked /\ last'.bytes = bytes
  BY <1>1
<1>9. Len(last'.bytes) <= last'.asked
  BY <1>4, <1>6, <1>8
<1>10. ReadsAreContent'
  <2> SUFFICES ASSUME WithinImage(file.iExtent, size)'
               PROVE  /\ Len(bytes) = IF from >= size THEN 0
                                      ELSE Min2(asked, size - from)
                      /\ \A i \in DOMAIN bytes :
                           bytes[i] = ByteAt(file.iExtent, from + i)
                      /\ sfi_position' = from + Len(bytes)
    BY <1>1, <1>8 DEF ReadsAreContent
  <2>1. WithinImage(file.iExtent, size)
    BY <1>1 DEF WithinImage, Master
  <2>2. DOMAIN bytes = 1 .. n
    BY <1>6
  <2>3. CASE n = 0
    BY <1>1, <1>4, <1>6, <2>2, <2>3
  <2>4. CASE n # 0
    <3>1. from + n <= size
      BY <1>4, <2>4
    <3>2. Fits(n)
      BY <1>2, <1>4, <1>5, <2>1, <3>1, RestFits
    <3> QED BY <1>1, <1>4, <1>6, <2>2, <3>2
  <2> QED BY <2>3, <2>4
<1>11. LastRead'
  BY <1>1, <1>9, <1>10 DEF LastRead
<1>12. OpenFile'
  BY <1>1, <1>7 DEF VolumeInv, OpenFile
<1>13. Attached'
  BY <1>1 DEF VolumeInv, Attached, First, Master
<1>14. Scanned'
  BY <1>1 DEF VolumeInv, Scanned
<1>15. JolietPreferred' /\ VolumeIs'
  BY <1>1 DEF VolumeInv, JolietPreferred, Mounted, Master, VolumeIs
<1> QED BY <1>1, <1>11, <1>12, <1>13, <1>14, <1>15 DEF VolumeInv

-----------------------------------------------------------------------------
(* Positions                                                               *)

LEMMA AsUlongIs ==
  ASSUME NEW n \in Int
  PROVE  /\ AsUlong(n) \in Sizes
         /\ n \in Sizes => AsUlong(n) = n
         /\ n \in -HighBit .. -1 => AsUlong(n) = n + Range32
<1> DEFINE R == Range32
<1>1. R \in Nat /\ R >= 2 /\ R = 2 * HighBit
  BY ZeroIsSize DEF Range32
<1> HIDE DEF R
<1>2. n % R \in 0 .. R - 1
  BY <1>1
<1>3. n \in 0 .. R - 1 => n % R = n
  BY <1>1
<1>4. n \in -HighBit .. -1 => n % R = n + R
  BY <1>1, HighBitAssumption
<1> QED BY <1>2, <1>3, <1>4 DEF AsUlong, Sizes, R

\* A target that is not negative is a position, in the lower half.
LEMMA TargetIsPosition ==
  ASSUME NEW from \in Sizes, NEW o \in Offsets, Target(from, o) >= 0
  PROVE  /\ Target(from, o) \in Sizes /\ Target(from, o) < HighBit
         /\ from < HighBit => Target(from, o) = from + o
<1>1. o \in Int /\ from \in Int /\ HighBit \in Nat \ {0}
      /\ o >= -HighBit /\ o < HighBit
  BY OffsetsAssumption, HighBitAssumption, ZeroIsSize DEF Sizes
<1>2. Range32 = 2 * HighBit
  BY DEF Range32
<1> DEFINE n == AsLong(from) + o
           u == AsUlong(n)
<1>3. n \in Int
  BY <1>1, <1>2 DEF AsLong
<1>4. /\ u \in Sizes
      /\ n \in Sizes => u = n
      /\ n \in -HighBit .. -1 => u = n + Range32
  BY <1>3, AsUlongIs
<1>5. Target(from, o) = IF u >= HighBit THEN u - Range32 ELSE u
  BY DEF Target, AsLong
<1> HIDE DEF u
<1>6. u < HighBit /\ Target(from, o) = u
  BY <1>1, <1>2, <1>4, <1>5 DEF Sizes
<1>7. ASSUME from < HighBit PROVE u = from + o
  <2>1. n = from + o
    BY <1>1, <1>7 DEF AsLong
  <2>2. from >= 0
    BY ZeroIsSize DEF Sizes
  <2> HIDE DEF n
  <2> QED BY <1>1, <1>2, <1>4, <1>6, <1>7, <2>1, <2>2 DEF Sizes
<1> QED BY <1>4, <1>6, <1>7

LEMMA SeekKeeps ==
  ASSUME VolumeInv, NEW t \in SeekTypes, NEW o \in Offsets, ChgFilePtr(t, o)
  PROVE  VolumeInv'
<1>1. /\ st = "mounted" /\ file # NoFile /\ last' = NoRead
      /\ UNCHANGED <<st, parms, block, jpd, vol, file>>
  BY DEF ChgFilePtr
<1>2. sfi_position \in Sizes /\ file.sfi_size \in Sizes
  BY <1>1 DEF VolumeInv, OpenFile
<1>3. sfi_position' \in Sizes
  <2>1. CASE sfi_position' = AsUlong(o)
    BY <2>1, AsUlongIs, OffsetsAssumption, HighBitAssumption
  <2>2. CASE Target(sfi_position, o) >= 0 /\ sfi_position' = Target(sfi_position, o)
    BY <1>2, <2>2, TargetIsPosition
  <2>3. CASE /\ Target(file.sfi_size, o) >= 0
             /\ sfi_position' = Target(file.sfi_size, o)
    BY <1>2, <2>3, TargetIsPosition
  <2> QED BY <2>1, <2>2, <2>3 DEF ChgFilePtr
<1>4. OpenFile'
  BY <1>1, <1>3 DEF VolumeInv, OpenFile
<1>5. Attached'
  BY <1>1 DEF VolumeInv, Attached, First, Master
<1>6. LastRead'
  BY <1>1 DEF LastRead, ReadsAreContent, NoRead
<1>7. Scanned'
  BY <1>1 DEF VolumeInv, Scanned
<1>8. JolietPreferred' /\ VolumeIs'
  BY <1>1 DEF VolumeInv, JolietPreferred, Mounted, Master, VolumeIs
<1> QED BY <1>1, <1>4, <1>5, <1>6, <1>7, <1>8 DEF VolumeInv

-----------------------------------------------------------------------------
(* The volume and isoinfo beside it                                        *)

LEMMA VolumeNext ==
  ASSUME VolumeInv, Next
  PROVE  VolumeInv'
<1>1. CASE \E p \in Attachments : AttachVolume(p)
  BY <1>1, AttachKeeps
<1>2. CASE ScanDescriptor
  BY <1>2, ScanKeeps
<1>3. CASE Mount
  BY <1>3, MountKeeps
<1>4. CASE DetachVolume
  BY <1>4, DetachKeeps
<1>5. CASE st = "mounted" /\ \E path \in Paths[parms.img] : OpenCreate(path)
  BY <1>5, OpenKeeps
<1>6. CASE Close
  BY <1>6, CloseKeeps
<1>7. CASE \E n \in Lengths : Read(n)
  BY <1>7, ReadKeeps
<1>8. CASE \E t \in SeekTypes, o \in Offsets : ChgFilePtr(t, o)
  BY <1>8, SeekKeeps
<1> QED BY <1>1, <1>2, <1>3, <1>4, <1>5, <1>6, <1>7, <1>8 DEF Next

LEMMA IsoinfoNext ==
  ASSUME IsoTypes, INext \/ Again
  PROVE  IsoTypes'
<1> USE DEF IsoTypes
<1>1. CASE \E o \in Commands : Start(o)
  BY <1>1 DEF Start
<1>2. CASE Search
  BY <1>2 DEF Search
<1>3. CASE OpenRoot
  BY <1>3 DEF OpenRoot
<1>4. CASE ParseDir
  BY <1>4 DEF ParseDir
<1>5. CASE ParseDirAstray
  BY <1>5 DEF ParseDirAstray
<1>6. CASE Finish
  BY <1>6 DEF Finish
<1>7. CASE Again
  BY <1>7 DEF Again
<1> QED BY <1>1, <1>2, <1>3, <1>4, <1>5, <1>6, <1>7 DEF INext

\* What holds in every state of the two programs
THEOREM VolumeInvariant == BothSpec => [](VolumeInv /\ IsoTypes)
<1>1. BothInit => VolumeInv /\ IsoTypes
  BY VolumeInit DEF BothInit, IInit, IsoTypes
<1>2. VolumeInv /\ IsoTypes /\ [BothNext]_bothvars => (VolumeInv /\ IsoTypes)'
  <2> SUFFICES ASSUME VolumeInv, IsoTypes, [BothNext]_bothvars
               PROVE  (VolumeInv /\ IsoTypes)'
    OBVIOUS
  <2>1. CASE Next /\ UNCHANGED isovars
    BY <2>1, VolumeNext DEF isovars, IsoTypes
  <2>2. CASE (INext \/ Again) /\ UNCHANGED volvars
    BY <2>2, VolumeStutters, IsoinfoNext
  <2>3. CASE UNCHANGED bothvars
    BY <2>3, VolumeStutters DEF bothvars, isovars, IsoTypes
  <2> QED BY <2>1, <2>2, <2>3 DEF BothNext
<1> QED BY <1>1, <1>2, PTL DEF BothSpec

\* The states have their types: sizes and positions are ULONGs (attach.c,
\* openclos.c, fileio.c).
THEOREM VolumeTypes == BothSpec => []TypeOK
<1>1. VolumeInv /\ IsoTypes => TypeOK
  <2> SUFFICES ASSUME VolumeInv, IsoTypes PROVE TypeOK
    OBVIOUS
  <2>1. st = "scanning" =>
          jpd.type \in {"primary", "supplementary", "boot", "end", "none"}
    BY DEF VolumeInv, Scanned, Descs, NoDesc
  <2>2. file.sfi_size \in Sizes
    BY ZeroIsSize DEF VolumeInv, OpenFile, NoFile
  <2> QED BY <2>1, <2>2 DEF VolumeInv, OpenFile, LastRead, Scanned, IsoTypes,
                            TypeOK, Sizes
<1> QED BY <1>1, VolumeInvariant, PTL

\* Whatever descriptors an image has, in whatever order, its volume is read by
\* the first Joliet descriptor before one that ends the list, or else by the
\* primary one (attachVolume).
THEOREM JolietIsPreferred == BothSpec => []JolietPreferred
<1>1. VolumeInv => JolietPreferred
  BY DEF VolumeInv
<1> QED BY <1>1, VolumeInvariant, PTL

\* Every read copies the bytes of the file from the position on, block by block,
\* whatever the sector size, the lengths and the seeks before (fsRead).
THEOREM ReadsShowContent == BothSpec => []ReadsAreContent
<1>1. VolumeInv => ReadsAreContent
  BY DEF VolumeInv, LastRead
<1> QED BY <1>1, VolumeInvariant, PTL

\* Relative seeks end where they should, whatever the width of a ULONG
\* (fsChgFilePtr).
THEOREM SeeksDoLand == BothSpec => SeeksLand
<1>1. ASSUME VolumeInv, NEW t \in {"FILE_CURRENT", "FILE_END"}, NEW o \in Offsets,
             (IF t = "FILE_END" THEN file.sfi_size ELSE sfi_position) < HighBit,
             ChgFilePtr(t, o)
      PROVE  /\ sfi_position' =
                  (IF t = "FILE_END" THEN file.sfi_size ELSE sfi_position) + o
             /\ sfi_position' < HighBit
  <2>1. file.sfi_size \in Sizes /\ sfi_position \in Sizes
    BY <1>1 DEF VolumeInv, OpenFile, ChgFilePtr
  <2>2. CASE t = "FILE_END"
    <3>1. Target(file.sfi_size, o) >= 0 /\ sfi_position' = Target(file.sfi_size, o)
      BY <1>1, <2>2 DEF ChgFilePtr
    <3> QED BY <1>1, <2>1, <2>2, <3>1, TargetIsPosition
  <2>3. CASE t = "FILE_CURRENT"
    <3>1. Target(sfi_position, o) >= 0 /\ sfi_position' = Target(sfi_position, o)
      BY <1>1, <2>3 DEF ChgFilePtr
    <3> QED BY <1>1, <2>1, <2>3, <3>1, TargetIsPosition
  <2> QED BY <2>2, <2>3
<1>2. VolumeInv =>
        [\A t \in {"FILE_CURRENT", "FILE_END"}, o \in Offsets :
           LET from == IF t = "FILE_END" THEN file.sfi_size ELSE sfi_position
           IN  from < HighBit =>
                 (ChgFilePtr(t, o) => /\ sfi_position' = from + o
                                      /\ sfi_position' < HighBit)]_volvars
  BY <1>1
<1> QED BY <1>2, VolumeInvariant, PTL DEF SeeksLand
=============================================================================
