------------------------------- MODULE Cdc512 -------------------------------
(***************************************************************************)
(* cdc512: a context of eight words into which update() mixes the data in  *)
(* blocks, padding the last one of each call with zeros, and finish() the  *)
(* number of bytes.  Arithmetic on words is a parameter, so that what does *)
(* not depend on their width can be proved: module MCCdc512 makes them     *)
(* uint64_t.  Beside the context runs its twin, which came to a different  *)
(* state by different data of the same size and goes on alike.             *)
(***************************************************************************)
EXTENDS Integers, Sequences

CONSTANTS
    Word, Add(_, _), Sub(_, _), Xor(_, _),
    Shift(_, _),    \* Shift(i, w): w shifted as in the i-th line of shuffle()
    Swap(_),        \* vhtobe64
    Number(_),      \* a number below Modulus as a word
    Modulus,        \* p counts modulo 2^64
    Byte, Zero,     \* the bytes, and 0 among them
    BlockLen,       \* sizeof(cdc512_data)
    Words(_),       \* the eight words that BlockLen bytes in memory are
    IV,             \* what init() sets
    Twins,          \* states a twin may be in
    Chunks,         \* the data update() may be called with
    MaxUpdates,     \* bound on the calls of update()
    Null

Field == 0 .. 7    \* a .. h
State == [Field -> Word]

ASSUME WordAssumption ==
    /\ \A x, y \in Word :
          /\ {Add(x, y), Sub(x, y), Xor(x, y)} \subseteq Word
          /\ Add(Sub(x, y), y) = x /\ Sub(Add(x, y), y) = x /\ Xor(Xor(x, y), y) = x
    /\ \A x \in Word : \A i \in Field : Shift(i, x) \in Word
    /\ \A x, y \in Word : Swap(x) \in Word /\ (Swap(x) = Swap(y) => x = y)
ASSUME NumberAssumption == Modulus \in Nat \ {0} /\ \A n \in 0 .. Modulus - 1 : Number(n) \in Word
ASSUME BlockAssumption ==
    /\ BlockLen \in Nat \ {0} /\ MaxUpdates \in Nat
    /\ \A b \in [1 .. BlockLen -> Byte] : Words(b) \in State
    /\ Zero \in Byte /\ Chunks \subseteq Seq(Byte)
ASSUME StateAssumption == IV \in State /\ Twins \subseteq State \ {IV}

VARIABLES
    ctx,       \* a .. h
    twin,      \* a .. h of the twin
    p,         \* p
    rest,      \* what update() has not yet mixed in
    digest,    \* ba .. bh of both, once finished
    fed,       \* history: the data of all calls of update()
    ragged,    \* history: a call of update() followed one whose data was padded
    updates    \* the calls of update()

cdcVars == <<ctx, twin, p, rest, digest, fed, ragged, updates>>

-----------------------------------------------------------------------------
Plus(i, n) == (i + n) % 8

\* The three statements of a line, a -= e; f ^= h >> 9; h += a; for i = 0,
\* with the operands taken from v. The lines differ in the shift only.
Subtract(i, s, v) == [s EXCEPT ![i] = Sub(@, v[Plus(i, 4)])]

Flip(i, s, v) == [s EXCEPT ![Plus(i, 5)] = Xor(@, Shift(i, v[Plus(i, 7)]))]

AddTwice(i, s, v) ==    \* mutant: h += h for h += a
    [s EXCEPT ![Plus(i, 7)] = Add(@, @)]

AddUp(i, s, v) == [s EXCEPT ![Plus(i, 7)] = Add(@, v[i])]

\* A line of shuffle(): the operands are the state's own.
SubtractOwn(i, s) == Subtract(i, s, s)
FlipOwn(i, s) == Flip(i, s, s)
AddUpOwn(i, s) == AddUp(i, s, s)

Row(i, s) == AddUpOwn(i, FlipOwn(i, SubtractOwn(i, s)))

Shuffle(s) == Row(7, Row(6, Row(5, Row(4, Row(3, Row(2, Row(1, Row(0, s))))))))

\* The same line of shuffle(v).
RowWith(i, s, v) == AddUp(i, Flip(i, Subtract(i, s, v), v), v)

ShuffleWith(s, v) ==
    RowWith(7, RowWith(6, RowWith(5, RowWith(4,
        RowWith(3, RowWith(2, RowWith(1, RowWith(0, s, v), v), v), v), v), v), v), v)

Mixed(s, v) == Shuffle(ShuffleWith(s, v))

Block(data, k) == SubSeq(data, k * BlockLen + 1, (k + 1) * BlockLen)

Padded(data) == [i \in 1 .. BlockLen |-> IF i <= Len(data) THEN data[i] ELSE Zero]

PadOf(n) == [i \in Field |-> Number(n)]

-----------------------------------------------------------------------------
CdcInit ==
    /\ ctx = IV /\ twin \in Twins
    /\ p = 0 /\ rest = <<>> /\ digest = Null
    /\ fed = <<>> /\ ragged = FALSE /\ updates = 0

Update(data) ==
    /\ rest = <<>> /\ digest = Null /\ updates < MaxUpdates
    /\ p' = (p + Len(data)) % Modulus
    /\ rest' = data
    /\ fed' = fed \o data
    /\ ragged' = (ragged \/ (Len(fed) % BlockLen # 0 /\ data # <<>>))
    /\ updates' = updates + 1
    /\ UNCHANGED <<ctx, twin, digest>>

MixBoth(v) == ctx' = Mixed(ctx, v) /\ twin' = Mixed(twin, v)

WholeBlock ==
    /\ Len(rest) >= BlockLen
    /\ MixBoth(Words(Block(rest, 0)))
    /\ rest' = SubSeq(rest, BlockLen + 1, Len(rest))
    /\ UNCHANGED <<p, digest, fed, ragged, updates>>

LastDropped ==    \* mutant: what is less than a block is not mixed in
    /\ Len(rest) \in 1 .. BlockLen - 1
    /\ rest' = <<>>
    /\ UNCHANGED <<ctx, twin, p, digest, fed, ragged, updates>>

LastBlock ==
    /\ Len(rest) \in 1 .. BlockLen - 1
    /\ MixBoth(Words(Padded(rest)))
    /\ rest' = <<>>
    /\ UNCHANGED <<p, digest, fed, ragged, updates>>

Swapped(s) == [i \in Field |-> Swap(s[i])]

Sealed(s, n) == Swapped(IF n = 0 THEN s ELSE Mixed(s, PadOf(n)))

Finish ==
    /\ rest = <<>> /\ digest = Null
    /\ digest' = <<Sealed(ctx, p), Sealed(twin, p)>>
    /\ UNCHANGED <<ctx, twin, p, rest, fed, ragged, updates>>

CdcNext == (\E data \in Chunks : Update(data)) \/ WholeBlock \/ LastBlock \/ Finish

CdcSpec == CdcInit /\ [][CdcNext]_cdcVars

-----------------------------------------------------------------------------
\* What cdc512(first, last) makes of all the data at once.  A state is a set
\* of one: that has TLC compute it before it goes on to the next.
DigestOf(data) ==
    LET n == Len(data) \div BlockLen
        tail == SubSeq(data, n * BlockLen + 1, Len(data))
        after[k \in 0 .. n] ==
            IF k = 0 THEN {IV} ELSE {Mixed(s, Words(Block(data, k - 1))) : s \in after[k - 1]}
        whole == IF tail = <<>> THEN after[n] ELSE {Mixed(s, Words(Padded(tail))) : s \in after[n]}
    IN  CHOOSE d \in {Sealed(s, Len(data) % Modulus) : s \in whole} : TRUE

\* Data given to update() piece by piece, as the indexer gives a file block by
\* block, has the digest it has as a whole, unless a piece other than the last
\* was padded.
PiecesMakeWhole == digest # Null /\ ~ragged => digest[1] = DigestOf(fed)

\* Mixing loses nothing: two contexts that once differ are never made equal by
\* the data that follows, and neither are the digests.
StaysApart == ctx # twin /\ (digest # Null => digest[1] # digest[2])
=============================================================================
