----------------------------- MODULE FileDigest -----------------------------
(***************************************************************************)
(* update_blocks, byte by byte: a file is read in blocks through a         *)
(* descriptor in text mode (_wsopen_s without _O_BINARY), short reads are  *)
(* padded with zeros, each block is digested, and the file's digest is     *)
(* that of the padded blocks.  The file is rewritten between two scans.    *)
(* A digest determines what was digested and is represented by it.         *)
(***************************************************************************)
EXTENDS Naturals, Sequences, FiniteSets, SequencesExt

CONSTANTS
    Byte, CR, LF, CtrlZ, Zero,
    BlockSize,    \* block_size, 4096 in the code
    Contents,     \* the contents a file may have
    MaxBlocks,    \* the longest of them, in blocks
    Null

ASSUME DigestAssumption ==
    /\ {CR, LF, CtrlZ, Zero} \subseteq Byte /\ Cardinality({CR, LF, CtrlZ, Zero}) = 4
    /\ BlockSize \in Nat \ {0, 1}
    /\ Contents \subseteq Seq(Byte) /\ MaxBlocks \in Nat
    /\ \A c \in Contents : Len(c) <= MaxBlocks * BlockSize
    /\ Null \notin Seq(Byte)

VARIABLES
    file,     \* the file's bytes
    pos,      \* the descriptor's position
    atEof,    \* the run-time library has met Ctrl-Z
    buf,      \* buf
    got,      \* r, what _read returned
    blkNo,    \* blk_no
    ctx,      \* what file_ctx has digested
    blocks,   \* the file's rows in blocks_digests
    entry,    \* file_size and digest of the file's row in entries
    stage,    \* where update_blocks is
    before    \* history: the file that was digested before, and its row then

digestVars == <<file, pos, atEof, buf, got, blkNo, ctx, blocks, entry, stage, before>>

-----------------------------------------------------------------------------
CeilDiv(n, d) == (n + d - 1) \div d

BlockNos == 1 .. MaxBlocks

NoDigest == [size |-> 0, digest |-> Null]

\* _read in text mode.  Raw is what a read of BlockSize bytes gets; Ctrl-Z
\* ends the file, and of a CR LF pair the CR goes, also when the LF is only
\* seen by looking one byte past the block.
Raw == SubSeq(file, pos + 1, Min({pos + BlockSize, Len(file)}))

Ends(s) == {i \in DOMAIN s : s[i] = CtrlZ}

TextOf(s) ==
    LET n == Min({i - 1 : i \in Ends(s)} \cup {Len(s)})
        dropped(i) == s[i] = CR /\ pos + i < Len(file) /\ file[pos + i + 1] = LF
        kept == {i \in 1 .. n : ~dropped(i)}
    IN  [k \in 1 .. Cardinality(kept) |->
            s[CHOOSE i \in kept : Cardinality({j \in kept : j <= i}) = k]]

Text == IF atEof THEN <<>> ELSE TextOf(Raw)

\* What the buffer holds after a read, whose bytes are translated in place,
\* and after memset over the rest.
Filled ==
    [i \in 1 .. BlockSize |->
        IF i <= Len(Text) THEN Text[i] ELSE IF ~atEof /\ i <= Len(Raw) THEN Raw[i] ELSE buf[i]]

Padded == [i \in 1 .. BlockSize |-> IF i <= got THEN buf[i] ELSE Zero]

-----------------------------------------------------------------------------
DigestInit ==
    /\ file \in Contents
    /\ pos = 0 /\ atEof = FALSE /\ got = 0 /\ blkNo = 0 /\ ctx = <<>>
    /\ buf = [i \in 1 .. BlockSize |-> Zero]
    /\ blocks = [k \in BlockNos |-> Null]
    /\ entry = NoDigest /\ before = [file |-> <<>>, entry |-> NoDigest]
    /\ stage = "open"

\* update_entry has found the file modified, has stored its size and has
\* forgotten its digest; the file is opened.
Open ==
    /\ stage = "open"
    /\ entry' = [size |-> Len(file), digest |-> Null]
    /\ pos' = 0 /\ atEof' = FALSE /\ blkNo' = 0 /\ ctx' = <<>>
    /\ buf' = [i \in 1 .. BlockSize |-> Zero]
    /\ stage' = "read"
    /\ UNCHANGED <<file, got, blocks, before>>

BytesRead == Len(Raw)

Read ==
    /\ stage = "read"
    /\ blkNo' = blkNo + 1
    /\ got' = Len(Text) /\ buf' = Filled
    /\ pos' = pos + BytesRead
    /\ atEof' = (atEof \/ Ends(Raw) # {})
    /\ stage' = IF Text = <<>> THEN "finish" ELSE "store"
    /\ UNCHANGED <<file, ctx, blocks, entry, before>>

FullBlocksOnly ==    \* mutant: the padded block is not part of the file's digest
    IF got = BlockSize THEN Append(ctx, Padded) ELSE ctx
AllBlocks == Append(ctx, Padded)

LaterButOne(k) == k > blkNo + 1    \* mutant: off by one
Later(k) == k > blkNo

\* The block's digest is stored, those of later blocks are deleted, and the
\* file's digest goes on.
Store ==
    /\ stage = "store"
    /\ blocks' = [k \in BlockNos |->
          IF k = blkNo THEN Padded ELSE IF Later(k) THEN Null ELSE blocks[k]]
    /\ ctx' = AllBlocks
    /\ stage' = "read"
    /\ UNCHANGED <<file, pos, atEof, buf, got, blkNo, entry, before>>

\* _read returned 0.
Finish ==
    /\ stage = "finish"
    /\ entry' = [entry EXCEPT !.digest = ctx]
    /\ stage' = "done"
    /\ UNCHANGED <<file, pos, atEof, buf, got, blkNo, ctx, blocks, before>>

\* Another program rewrites the file before the next scan.
Rewrite ==
    /\ stage = "done" /\ before.entry.digest = Null
    /\ file' \in Contents
    /\ before' = [file |-> file, entry |-> entry]
    /\ stage' = "open"
    /\ UNCHANGED <<pos, atEof, buf, got, blkNo, ctx, blocks, entry>>

DigestNext == Open \/ Read \/ Store \/ Finish \/ Rewrite

DigestSpec == DigestInit /\ [][DigestNext]_digestVars

-----------------------------------------------------------------------------
\* The files that text mode leaves alone.
Plain(f) == \A i \in DOMAIN f : f[i] # CtrlZ /\ (f[i] = CR /\ i < Len(f) => f[i + 1] # LF)

BlocksOf(f) == CeilDiv(Len(f), BlockSize)

BlockOf(f, k) ==
    [i \in 1 .. BlockSize |->
        IF (k - 1) * BlockSize + i <= Len(f) THEN f[(k - 1) * BlockSize + i] ELSE Zero]

\* The rows are the padded blocks of the file's digest and no others, so that
\* the two tables agree (but for a file in which nothing was read, whose old
\* rows stay); and of a file that text mode leaves alone they are its blocks,
\* whatever longer file was there before.
RowsFaithful ==
    stage = "done" =>
        /\ entry.digest # <<>> =>
              \A k \in BlockNos : blocks[k] = IF k <= Len(entry.digest) THEN entry.digest[k] ELSE Null
        /\ Plain(file) => entry.digest = [k \in 1 .. BlocksOf(file) |-> BlockOf(file, k)]

\* Of two files of that kind that have the same size and digest the contents are the
\* same: the padding hides nothing that the size does not tell.
SizeAndDigestIdentify ==
    stage = "done" /\ before.entry.digest # Null /\ Plain(file) /\ Plain(before.file) =>
        (entry = before.entry => file = before.file)
=============================================================================
