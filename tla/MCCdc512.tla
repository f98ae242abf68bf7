------------------------------ MODULE MCCdc512 ------------------------------
(* Cdc512 twice.  Its state machine runs on words of two bits, in blocks of *)
(* eight, with every twin that differs from the context in one word or two. *)
(* Its operators are evaluated on uint64_t and the data of                  *)
(* tests/cdc512_test.cpp.                                                   *)
EXTENDS Cdc512, TLC

U == INSTANCE Uint64

-----------------------------------------------------------------------------
(* Words of two bits.                                                       *)

MCWord == 0 .. 3
MCAdd(x, y) == (x + y) % 4
MCSub(x, y) == (x - y + 4) % 4
MCXor(x, y) ==
    LET low == (x + y) % 2
        high == (x \div 2 + y \div 2) % 2
    IN  low + 2 * high
MCShift(i, w) == IF i % 2 = 0 THEN w \div 2 ELSE (2 * w) % 4
MCSwap(w) == 2 * (w % 2) + w \div 2
MCNumber(n) == n % 4
MCWords(b) == [i \in 0 .. 7 |-> b[i + 1]]
MCIV == [i \in 0 .. 7 |-> (3 * i + 1) % 4]
MCTwins == {[[MCIV EXCEPT ![i] = x] EXCEPT ![j] = y] : i, j \in 0 .. 7, x, y \in MCWord} \ {MCIV}

Ones(n) == [i \in 1 .. n |-> 1]
MCChunks == {Ones(3), Ones(8), <<0, 1, 0>>, Ones(8) \o <<0, 1>>}

-----------------------------------------------------------------------------
(* Words of 64 bits.                                                        *)

\* The shifts of the eight lines.
ShiftOf(i, w) ==
    LET by == <<9, 9, 23, 15, 14, 20, 17, 14>>[i + 1]
    IN  IF i % 2 = 0 THEN U!ShiftRight(w, by) ELSE U!ShiftLeft(w, by)

\* A word as init() writes it, by its limbs from the highest down.
Const(w) == U!SwapBytes(<<w[4], w[3], w[2], w[1]>>)

InitState ==
    0 :> Const(<<\hA640, \h524A, \h5B44, \hF1FC>>) @@ 1 :> Const(<<\hC535, \h0597, \h05F0, \hBB7E>>)
    @@ 2 :> Const(<<\hC8ED, \h76CF, \h6B6E, \hA626>>) @@ 3 :> Const(<<\h531D, \h1E8E, \h254E, \hA59E>>)
    @@ 4 :> Const(<<\h8C0F, \hE7F3, \hE46E, \h2A80>>) @@ 5 :> Const(<<\h1C53, \hF41F, \hD1E3, \hA7F8>>)
    @@ 6 :> Const(<<\h08D4, \hDEAA, \hA1C3, \h3335>>) @@ 7 :> Const(<<\h4C59, \h2980, \hFBE9, \hB011>>)

WordsOf(b) == [i \in 0 .. 7 |-> U!FromBytes(SubSeq(b, 8 * i + 1, 8 * i + 8))]

NumberOf(n) == <<n % U!Limb, n \div U!Limb, 0, 0>>

Wide == INSTANCE Cdc512 WITH
    Word <- {}, Add <- U!AddWords, Sub <- U!SubWords, Xor <- U!XorWords, Shift <- ShiftOf,
    Swap <- U!SwapBytes, Number <- NumberOf, Modulus <- 2147483647, Byte <- 0 .. 255, Zero <- 0,
    BlockLen <- 64, Words <- WordsOf, IV <- InitState, Twins <- {}, Chunks <- {}, MaxUpdates <- 0

\* The test's data, and the same with one bit changed.
Counted == [i \in 1 .. 240 |-> i - 1]
Flipped == [Counted EXCEPT ![4] = 3 + 64]

\* to_string: the bytes of the digest in memory, two by two.
Printed(d) == [k \in 1 .. 32 |-> U!SwapLimb(d[(k - 1) \div 4][((k - 1) % 4) + 1])]

Expected1 ==
    <<\hF427, \hCCD4, \h183C, \h79B9, \h731E, \h1E79, \h2796, \h7C54,
      \h560A, \hDD7F, \h6AA4, \hD302, \h354C, \h5F15, \h02B2, \h3D6B,
      \h1B46, \hF16C, \hAEA6, \h7A55, \h2A3A, \hF4D2, \hF388, \h5916,
      \h7769, \h8A3A, \h160A, \h3DBD, \h79B4, \h150B, \h026D, \hCEA0>>
Expected2 ==
    <<\hA0AA, \h3C5A, \h2B41, \h1585, \h53F4, \h17E4, \hF0F1, \hFE9D,
      \h7E68, \h9734, \h3B6F, \h42AB, \hB641, \hD3A9, \hD44E, \hC426,
      \hFC61, \hC99C, \hB47B, \h795A, \h913B, \h2A91, \h8E40, \h6733,
      \h19E0, \hAF37, \h4781, \hB5E0, \h3BFD, \hD83F, \h69DB, \h3460>>

\* The two digests that tests/cdc512_test.cpp expects.
TestVectors ==
    fed = <<>> =>
        /\ Printed(Wide!DigestOf(Counted)) = Expected1
        /\ Printed(Wide!DigestOf(Flipped)) = Expected2
=============================================================================
