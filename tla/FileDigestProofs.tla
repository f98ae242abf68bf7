-------------------------- MODULE FileDigestProofs --------------------------
(***************************************************************************)
(* Safety of module FileDigest, for any block size, any files and any      *)
(* bytes: what the rows of a file hold after a scan, and what a size and a *)
(* digest say of the file.                                                 *)
(***************************************************************************)
EXTENDS FileDigest, FiniteSetTheorems, SequenceTheorems, TLAPS

-----------------------------------------------------------------------------
(* Where a block starts.  What is known of the products is stated here, as *)
(* the provers know little of them.                                        *)

Upto(k) == k * BlockSize

LEMMA UptoStep ==
    ASSUME NEW k \in Nat
    PROVE  Upto(k) \in Nat /\ Upto(k + 1) = Upto(k) + BlockSize /\ Upto(0) = 0
BY DigestAssumption DEF Upto

LEMMA UptoGrows ==
    ASSUME NEW j \in Nat, NEW k \in Nat, j < k
    PROVE  Upto(j) + BlockSize <= Upto(k)
<1>1. k - 1 - j \in Nat /\ (k - 1 - j) * BlockSize \in Nat
  BY DigestAssumption
<1>2. Upto(k) = Upto(j) + BlockSize + (k - 1 - j) * BlockSize
  BY DigestAssumption DEF Upto
<1>3. Upto(j) \in Nat /\ BlockSize \in Nat
  BY UptoStep, DigestAssumption
<1> QED
  BY <1>1, <1>2, <1>3

\* The number of blocks of n bytes.
LEMMA CeilDivIs ==
    ASSUME NEW n \in Nat, NEW c \in Nat, n <= Upto(c), c = 0 \/ Upto(c - 1) < n
    PROVE  CeilDiv(n, BlockSize) = c
<1> DEFINE q == CeilDiv(n, BlockSize)
           r == (n + BlockSize - 1) % BlockSize
<1>1. /\ q \in Nat /\ r \in 0 .. BlockSize - 1
      /\ n + BlockSize - 1 = Upto(q) + r
  BY DigestAssumption DEF CeilDiv, Upto
<1> HIDE DEF q, r
<1>2. BlockSize \in Nat /\ BlockSize > 1
  BY DigestAssumption
<1>3. ~(q < c)
  <2> SUFFICES ASSUME q < c PROVE FALSE
    OBVIOUS
  <2>1. c - 1 \in Nat /\ (q = c - 1 \/ q < c - 1)
    BY <1>1
  <2>2. Upto(q) <= Upto(c - 1) /\ Upto(q) \in Nat /\ Upto(c - 1) \in Nat
    BY <1>1, <1>2, <2>1, UptoGrows, UptoStep
  <2> QED
    BY <1>1, <1>2, <2>1, <2>2
<1>4. ~(c < q)
  BY <1>1, <1>2, UptoGrows, UptoStep
<1> QED
  BY <1>1, <1>3, <1>4 DEF q

\* The block in which the i-th byte is, and where in it.
LEMMA BlockOfByte ==
    ASSUME NEW i \in Nat \ {0}
    PROVE  \E k \in Nat \ {0}, j \in 1 .. BlockSize : i = Upto(k - 1) + j
<1> DEFINE k == (i - 1) \div BlockSize
           j == (i - 1) % BlockSize
<1>1. k \in Nat /\ j \in 0 .. BlockSize - 1 /\ i - 1 = Upto(k) + j
  BY DigestAssumption DEF Upto
<1> HIDE DEF k, j
<1>2. k + 1 \in Nat \ {0} /\ j + 1 \in 1 .. BlockSize /\ i = Upto((k + 1) - 1) + (j + 1)
  <2>1. (k + 1) - 1 = k /\ Upto(k) \in Nat
    BY <1>1, UptoStep
  <2> QED
    BY <1>1, <2>1, DigestAssumption
<1> QED
  BY <1>2

-----------------------------------------------------------------------------
(* Reading in text mode.                                                   *)

LEMMA MinOfTwo ==
    ASSUME NEW a \in Nat, NEW b \in Nat
    PROVE  Min({a, b}) = IF a <= b THEN a ELSE b
BY DEF Min

LEMMA RawBytes ==
    ASSUME file \in Seq(Byte), pos \in Nat, pos <= Len(file)
    PROVE  /\ Raw \in Seq(Byte)
           /\ Len(Raw) = IF pos + BlockSize <= Len(file) THEN BlockSize ELSE Len(file) - pos
           /\ \A i \in 1 .. Len(Raw) : Raw[i] = file[pos + i]
<1> DEFINE hi == IF pos + BlockSize <= Len(file) THEN pos + BlockSize ELSE Len(file)
<1>1. Raw = SubSeq(file, pos + 1, hi)
  BY MinOfTwo, DigestAssumption DEF Raw
<1>2. hi \in Nat /\ pos <= hi /\ hi <= Len(file)
  BY DigestAssumption
<1> QED
  BY <1>1, <1>2, DigestAssumption

\* In order to tell the i-th of the bytes that stay the model counts.
LEMMA UpToCounts ==
    ASSUME NEW n \in Nat, NEW kept, kept = 1 .. n
    PROVE  Cardinality(kept) = n /\ \A i \in kept : Cardinality({j \in kept : j <= i}) = i
<1>1. \A i \in Nat : Cardinality(1 .. i) = i
  BY FS_Interval
<1>2. \A i \in kept : Cardinality({j \in kept : j <= i}) = i
  <2> TAKE i \in kept
  <2>1. {j \in kept : j <= i} = 1 .. i /\ i \in Nat
    OBVIOUS
  <2> QED
    BY <1>1, <2>1
<1> QED
  BY <1>1, <1>2

\* If none of the first n bytes goes, and no more are read, the text is these.
LEMMA TextKept ==
    ASSUME NEW s, NEW n \in Nat, Min({i - 1 : i \in Ends(s)} \cup {Len(s)}) = n,
           \A i \in 1 .. n : ~(s[i] = CR /\ pos + i < Len(file) /\ file[pos + i + 1] = LF)
    PROVE  TextOf(s) = [k \in 1 .. n |-> s[k]]
<1> DEFINE m == Min({i - 1 : i \in Ends(s)} \cup {Len(s)})
           kept == {i \in 1 .. m : ~(s[i] = CR /\ pos + i < Len(file) /\ file[pos + i + 1] = LF)}
           at(k) == CHOOSE i \in kept : Cardinality({j \in kept : j <= i}) = k
<1>1. TextOf(s) = [k \in 1 .. Cardinality(kept) |-> s[at(k)]]
  BY DEF TextOf
<1>2. kept = 1 .. n
  OBVIOUS
<1> HIDE DEF m, kept
<1>3. Cardinality(kept) = n /\ \A i \in kept : Cardinality({j \in kept : j <= i}) = i
  BY <1>2, UpToCounts
<1>4. \A k \in 1 .. n : at(k) = k
  BY <1>2, <1>3
<1> HIDE DEF at
<1> QED
  BY <1>1, <1>3, <1>4

\* Where there is nothing to read nothing is read.
LEMMA EmptyText == TextOf(<<>>) = <<>>
<1>1. Min({i - 1 : i \in Ends(<<>>)} \cup {Len(<<>>)}) = 0
  <2>1. Ends(<<>>) = {}
    BY DEF Ends
  <2>2. {i - 1 : i \in Ends(<<>>)} \cup {Len(<<>>)} = {0}
    BY <2>1
  <2> QED
    BY <2>2 DEF Min
<1>2. TextOf(<<>>) = [k \in 1 .. 0 |-> <<>>[k]]
  BY <1>1, TextKept
<1> QED
  BY <1>2

\* Of a file without Ctrl-Z and without a CR LF pair nothing is lost.
LEMMA PlainText ==
    ASSUME file \in Seq(Byte), pos \in Nat, pos <= Len(file), Plain(file)
    PROVE  Ends(Raw) = {} /\ TextOf(Raw) = Raw
<1>1. PICK s \in Seq(Byte) : s = Raw
  BY RawBytes
<1>2. PICK n \in Nat : n = Len(s)
  OBVIOUS
<1>3. pos + n <= Len(file) /\ \A i \in 1 .. n : s[i] = file[pos + i] /\ pos + i \in DOMAIN file
  BY <1>1, <1>2, RawBytes, DigestAssumption
<1>4. /\ \A i \in 1 .. n : s[i] # CtrlZ
      /\ \A i \in 1 .. n : ~(s[i] = CR /\ pos + i < Len(file) /\ file[pos + i + 1] = LF)
  BY <1>3 DEF Plain
<1>5. Ends(s) = {}
  BY <1>2, <1>4 DEF Ends
<1>6. Min({i - 1 : i \in Ends(s)} \cup {Len(s)}) = n
  <2>1. {i - 1 : i \in Ends(s)} \cup {Len(s)} = {n}
    BY <1>2, <1>5
  <2> QED
    BY <2>1 DEF Min
<1>7. TextOf(s) = [k \in 1 .. n |-> s[k]]
  BY <1>4, <1>6, TextKept
<1> QED
  BY <1>1, <1>2, <1>5, <1>7

-----------------------------------------------------------------------------
(* The invariant.                                                          *)

\* The blocks of a file of which nothing is lost, as a sequence.
DigestOf(f) == [k \in 1 .. BlocksOf(f) |-> BlockOf(f, k)]

IsSequence(d) == d \in Seq({d[k] : k \in DOMAIN d})

\* The rows are the blocks of d, if there are any.
RowsAre(d) ==
    d # <<>> => \A k \in BlockNos : blocks[k] = IF k <= Len(d) THEN d[k] ELSE Null

\* The position after the reads so far, and how many blocks were stored, each
\* of them from inside the file.
Progress ==
    /\ blkNo \in Nat /\ pos = (IF Upto(blkNo) <= Len(file) THEN Upto(blkNo) ELSE Len(file))
    /\ blkNo = IF stage = "read" THEN Len(ctx) ELSE Len(ctx) + 1
    /\ Len(ctx) = 0 \/ Upto(Len(ctx) - 1) < Len(file)
    /\ stage = "store" => Upto(blkNo - 1) < Len(file)

\* What was stored and what is in the buffer, if text mode loses nothing.
PlainSoFar ==
    /\ ~atEof
    /\ \A k \in 1 .. Len(ctx) : ctx[k] = BlockOf(file, k)
    /\ stage = "store" => Padded = BlockOf(file, blkNo)
    /\ stage = "finish" => Len(file) <= Upto(Len(ctx))

Scanning == stage \in {"read", "store", "finish"}

\* A row with a digest tells of its file.
Tells(e, f) == f \in Contents /\ e.size = Len(f) /\ (Plain(f) => e.digest = DigestOf(f))

DigestInv ==
    /\ file \in Contents
    /\ stage \in {"open", "read", "store", "finish", "done"}
    /\ Scanning => /\ IsSequence(ctx) /\ RowsAre(ctx) /\ Progress
                   /\ DOMAIN entry = {"size", "digest"} /\ entry.size = Len(file)
                   /\ Plain(file) => PlainSoFar
    /\ stage = "done" => RowsAre(entry.digest) /\ Tells(entry, file) /\ DOMAIN entry = {"size", "digest"}
    /\ before.entry.digest # Null => Tells(before.entry, before.file)

LEMMA FileType == ASSUME file \in Contents PROVE file \in Seq(Byte) /\ Len(file) \in Nat
BY DigestAssumption

LEMMA DigestInitially == DigestInit => DigestInv
BY DEF DigestInit, DigestInv, NoDigest, Scanning

LEMMA OpenStep ==
    ASSUME DigestInv, Open
    PROVE  DigestInv'
<1>1. UNCHANGED <<file, blocks, before>> /\ stage' = "read" /\ ctx' = <<>> /\ blkNo' = 0 /\ pos' = 0
      /\ ~atEof' /\ entry' = [size |-> Len(file), digest |-> Null]
  BY DEF Open
<1>2. IsSequence(<<>>) /\ RowsAre(<<>>)' /\ Len(<<>>) = 0
  BY DEF IsSequence, RowsAre
<1>3. Progress'
  BY <1>1, <1>2, UptoStep, FileType DEF Progress, DigestInv
<1>4. PlainSoFar'
  BY <1>1, <1>2 DEF PlainSoFar
<1> QED
  BY <1>1, <1>2, <1>3, <1>4 DEF DigestInv, Scanning, RowsAre

LEMMA ReadStep ==
    ASSUME DigestInv, Read
    PROVE  DigestInv'
<1>1. /\ UNCHANGED <<file, ctx, blocks, entry, before>>
      /\ stage = "read" /\ stage' = IF Text = <<>> THEN "finish" ELSE "store"
      /\ blkNo' = blkNo + 1 /\ pos' = pos + Len(Raw) /\ got' = Len(Text) /\ buf' = Filled
      /\ atEof' = (atEof \/ Ends(Raw) # {})
  BY DEF Read, BytesRead
<1>2. /\ file \in Seq(Byte) /\ Len(file) \in Nat /\ BlockSize \in Nat /\ BlockSize > 0
      /\ blkNo \in Nat /\ blkNo = Len(ctx)
      /\ pos = IF Upto(blkNo) <= Len(file) THEN Upto(blkNo) ELSE Len(file)
  BY <1>1, FileType, DigestAssumption DEF DigestInv, Scanning, Progress
<1>3. Upto(blkNo) \in Nat /\ Upto(blkNo + 1) = Upto(blkNo) + BlockSize
  BY <1>2, UptoStep
<1>4. pos \in Nat /\ pos <= Len(file)
  BY <1>2, <1>3
<1>5. /\ Raw \in Seq(Byte)
      /\ Len(Raw) = IF pos + BlockSize <= Len(file) THEN BlockSize ELSE Len(file) - pos
      /\ \A i \in 1 .. Len(Raw) : Raw[i] = file[pos + i]
  BY <1>2, <1>4, RawBytes
<1>6. Text # <<>> => Upto(blkNo) < Len(file)
  <2>1. ~(Upto(blkNo) < Len(file)) => Raw = <<>>
    BY <1>2, <1>3, <1>4, <1>5
  <2> QED
    BY <1>2, <1>3, <2>1, EmptyText DEF Text
<1>7. Progress'
  <2>1. pos' = IF Upto(blkNo + 1) <= Len(file) THEN Upto(blkNo + 1) ELSE Len(file)
    BY <1>1, <1>2, <1>3, <1>4, <1>5
  <2>2. (blkNo + 1) - 1 = blkNo
    BY <1>2
  <2> QED
    BY <1>1, <1>2, <1>6, <2>1, <2>2 DEF Progress, DigestInv, Scanning
<1>8. ASSUME Plain(file) PROVE PlainSoFar'
  <2>1. ~atEof /\ \A k \in 1 .. Len(ctx) : ctx[k] = BlockOf(file, k)
    BY <1>1, <1>8 DEF DigestInv, Scanning, PlainSoFar
  <2>2. Ends(Raw) = {} /\ Text = Raw
    BY <1>2, <1>4, <1>8, <2>1, PlainText DEF Text
  <2>5. ~atEof'
    <3>1. Ends(Raw) = {} /\ (atEof' = (atEof \/ Ends(Raw) # {}))
      BY <1>1, <2>2
    <3> QED
      BY <2>1, <3>1, Zenon
  <2>3. CASE Raw = <<>>
    <3>1. stage' = "finish" /\ Len(file) <= Upto(blkNo)
      BY <1>1, <1>2, <1>3, <1>4, <1>5, <2>2, <2>3
    <3> QED
      BY <1>1, <1>2, <2>1, <2>5, <3>1 DEF PlainSoFar
  <2>4. CASE Raw # <<>>
    <3>1. stage' = "store" /\ pos = Upto(blkNo)
      BY <1>1, <1>2, <1>3, <1>6, <2>2, <2>4
    <3>2. got' = Len(Raw) /\ \A i \in 1 .. BlockSize : i <= Len(Raw) => buf'[i] = Raw[i]
      BY <1>1, <2>2 DEF Filled
    <3>3. Padded' = [i \in 1 .. BlockSize |-> IF i <= Len(Raw) THEN Raw[i] ELSE Zero]
      BY <3>2 DEF Padded
    <3>4. \A i \in 1 .. BlockSize :
            /\ i <= Len(Raw) <=> Upto(blkNo) + i <= Len(file)
            /\ i <= Len(Raw) => Raw[i] = file[Upto(blkNo) + i]
      BY <1>2, <1>3, <1>5, <3>1
    <3>5. BlockOf(file, blkNo + 1) =
            [i \in 1 .. BlockSize |-> IF Upto(blkNo) + i <= Len(file) THEN file[Upto(blkNo) + i] ELSE Zero]
      <4>1. (blkNo + 1) - 1 = blkNo
        BY <1>2
      <4> QED
        BY <4>1 DEF BlockOf, Upto
    <3>6. Padded' = BlockOf(file, blkNo + 1)
      BY <3>3, <3>4, <3>5
    <3> QED
      BY <1>1, <2>1, <2>5, <3>1, <3>6 DEF PlainSoFar
  <2> QED
    BY <2>3, <2>4
<1> QED
  BY <1>1, <1>7, <1>8 DEF DigestInv, Scanning, RowsAre

LEMMA StoreStep ==
    ASSUME DigestInv, Store
    PROVE  DigestInv'
<1>1. /\ UNCHANGED <<file, pos, atEof, buf, got, blkNo, entry, before>>
      /\ stage = "store" /\ stage' = "read" /\ ctx' = Append(ctx, Padded)
      /\ blocks' = [k \in BlockNos |-> IF k = blkNo THEN Padded ELSE IF k > blkNo THEN Null ELSE blocks[k]]
  BY DEF Store, AllBlocks, Later
<1>2. /\ IsSequence(ctx) /\ RowsAre(ctx) /\ blkNo = Len(ctx) + 1
      /\ Upto(blkNo - 1) < Len(file)
  BY <1>1 DEF DigestInv, Scanning, Progress
<1>3. PICK S : S = {ctx[k] : k \in DOMAIN ctx} \cup {Padded}
  OBVIOUS
<1>4. ctx \in Seq(S) /\ Padded \in S
  BY <1>2, <1>3 DEF IsSequence
<1>5. /\ ctx' \in Seq(S) /\ Len(ctx) \in Nat /\ Len(ctx') = Len(ctx) + 1
      /\ \A k \in 1 .. Len(ctx) : ctx'[k] = ctx[k]
      /\ ctx'[Len(ctx) + 1] = Padded
  BY <1>1, <1>4
<1>6. IsSequence(ctx')
  BY <1>5 DEF IsSequence
<1>7. RowsAre(ctx)'
  <2>1. ASSUME NEW k \in BlockNos
        PROVE  blocks'[k] = IF k <= Len(ctx') THEN ctx'[k] ELSE Null
    <3>1. k \in Nat \ {0}
      BY DigestAssumption DEF BlockNos
    <3>2. k < blkNo => ctx # <<>> /\ blocks'[k] = blocks[k] /\ blocks[k] = ctx[k]
      BY <1>1, <1>2, <1>4, <1>5, <3>1 DEF RowsAre
    <3> QED
      BY <1>1, <1>2, <1>5, <3>1, <3>2
  <2> QED
    BY <2>1 DEF RowsAre
<1>8. Progress'
  BY <1>1, <1>2, <1>5 DEF DigestInv, Scanning, Progress
<1>9. ASSUME Plain(file) PROVE PlainSoFar'
  BY <1>1, <1>2, <1>5, <1>9 DEF DigestInv, Scanning, PlainSoFar
<1> QED
  BY <1>1, <1>6, <1>7, <1>8, <1>9 DEF DigestInv, Scanning

LEMMA FinishStep ==
    ASSUME DigestInv, Finish
    PROVE  DigestInv'
<1>1. /\ UNCHANGED <<file, ctx, blocks, before>>
      /\ stage = "finish" /\ stage' = "done" /\ entry' = [entry EXCEPT !.digest = ctx]
  BY DEF Finish
<1>2. /\ DOMAIN entry = {"size", "digest"} /\ entry.size = Len(file) /\ file \in Contents
      /\ IsSequence(ctx) /\ RowsAre(ctx) /\ Progress /\ (Plain(file) => PlainSoFar)
  BY <1>1 DEF DigestInv, Scanning
<1>3. DOMAIN entry' = {"size", "digest"} /\ entry'.size = Len(file) /\ entry'.digest = ctx
  BY <1>1, <1>2
<1>4. ASSUME Plain(file) PROVE ctx = DigestOf(file)
  <2>1. /\ Len(ctx) \in Nat /\ Len(file) <= Upto(Len(ctx))
        /\ Len(ctx) = 0 \/ Upto(Len(ctx) - 1) < Len(file)
        /\ ctx = [k \in 1 .. Len(ctx) |-> ctx[k]]
        /\ \A k \in 1 .. Len(ctx) : ctx[k] = BlockOf(file, k)
    BY <1>1, <1>2, <1>4 DEF Progress, PlainSoFar, IsSequence
  <2>2. BlocksOf(file) = Len(ctx)
    BY <1>2, <2>1, CeilDivIs, FileType DEF BlocksOf
  <2> QED
    BY <2>1, <2>2 DEF DigestOf
<1> QED
  BY <1>1, <1>2, <1>3, <1>4 DEF DigestInv, Scanning, RowsAre, Tells

LEMMA RewriteStep ==
    ASSUME DigestInv, Rewrite
    PROVE  DigestInv'
<1>1. /\ stage = "done" /\ stage' = "open" /\ file' \in Contents
      /\ before' = [file |-> file, entry |-> entry]
  BY DEF Rewrite
<1>2. Tells(entry, file)
  BY <1>1 DEF DigestInv
<1>3. Tells(before'.entry, before'.file)
  BY <1>1, <1>2
<1> QED
  BY <1>1, <1>3 DEF DigestInv, Scanning, Tells

LEMMA DigestInvariant == DigestSpec => []DigestInv
<1>1. DigestInit => DigestInv
  BY DigestInitially
<1>2. DigestInv /\ [DigestNext]_digestVars => DigestInv'
  <2> SUFFICES ASSUME DigestInv, [DigestNext]_digestVars PROVE DigestInv'
    OBVIOUS
  <2>1. CASE UNCHANGED digestVars
    BY <2>1 DEF digestVars, DigestInv, Scanning, RowsAre, Progress, PlainSoFar, Padded, Tells
  <2> QED
    BY <2>1, OpenStep, ReadStep, StoreStep, FinishStep, RewriteStep DEF DigestNext
<1> QED
  BY <1>1, <1>2, PTL DEF DigestSpec

-----------------------------------------------------------------------------
\* After a scan the rows of the file are the blocks its digest was made of, and
\* none is left of a longer file that was there before (but of a file in
\* which nothing was read); and if text mode loses nothing of the file
\* they are its blocks.
THEOREM RowsAlwaysFaithful == DigestSpec => []RowsFaithful
<1>1. DigestInv => RowsFaithful
  BY DEF DigestInv, RowsFaithful, RowsAre, Tells, DigestOf
<1> QED
  BY <1>1, DigestInvariant, PTL

\* Files of the same size and the same padded blocks are the same.
LEMMA SameBlocks ==
    ASSUME NEW f \in Seq(Byte), NEW g \in Seq(Byte), Len(f) = Len(g), DigestOf(f) = DigestOf(g)
    PROVE  f = g
<1>1. ASSUME NEW i \in 1 .. Len(f) PROVE f[i] = g[i]
  <2>1. PICK k \in Nat \ {0}, j \in 1 .. BlockSize : i = Upto(k - 1) + j
    BY BlockOfByte
  <2>2. k \in 1 .. BlocksOf(f)
    <3> DEFINE n == Len(f)
               c == CeilDiv(n, BlockSize)
    <3>1. c \in Nat /\ n <= Upto(c)
      BY DigestAssumption DEF CeilDiv, Upto
    <3>2. c < k => c = k - 1 \/ (c < k - 1 /\ Upto(c) + BlockSize <= Upto(k - 1))
      BY <3>1, UptoGrows
    <3> HIDE DEF c
    <3>3. Upto(k - 1) \in Nat /\ Upto(c) \in Nat /\ BlockSize \in Nat /\ i <= n /\ n \in Nat
      BY <2>1, <3>1, UptoStep, DigestAssumption
    <3>4. ~(c < k)
      BY <2>1, <3>1, <3>2, <3>3
    <3> QED
      BY <3>1, <3>4 DEF BlocksOf, c
  <2>3. BlockOf(f, k) = BlockOf(g, k)
    <3>1. DigestOf(f)[k] = BlockOf(f, k)
      BY <2>2 DEF DigestOf
    <3>2. DigestOf(g)[k] = BlockOf(g, k)
      BY <2>2 DEF DigestOf, BlocksOf
    <3> QED
      BY <3>1, <3>2
  <2>4. BlockOf(f, k)[j] = f[i] /\ BlockOf(g, k)[j] = g[i]
    BY <2>1 DEF BlockOf, Upto
  <2> QED
    BY <2>3, <2>4
<1> QED
  BY <1>1

\* What the size and the digest in entries say of a file of which text mode
\* loses nothing: if both are what they were the contents are, although the
\* last block was padded.
THEOREM SizeAndDigestAlwaysIdentify == DigestSpec => []SizeAndDigestIdentify
<1>1. DigestInv => SizeAndDigestIdentify
  <2> SUFFICES ASSUME DigestInv, stage = "done", before.entry.digest # Null,
                      Plain(file), Plain(before.file), entry = before.entry
               PROVE  file = before.file
    BY DEF SizeAndDigestIdentify
  <2>1. Tells(entry, file) /\ Tells(before.entry, before.file)
    BY DEF DigestInv
  <2> QED
    BY <2>1, SameBlocks, DigestAssumption DEF Tells
<1> QED
  BY <1>1, DigestInvariant, PTL
=============================================================================
