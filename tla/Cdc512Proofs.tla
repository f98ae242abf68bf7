---------------------------- MODULE Cdc512Proofs ----------------------------
(***************************************************************************)
(* Theorems about module Cdc512, for words of any width with any addition, *)
(* exclusive or and shifts: every line of the two shuffles can be undone,  *)
(* and data given piece by piece has the digest it has as a whole.         *)
(***************************************************************************)
EXTENDS Cdc512, SequenceTheorems, FiniteSetTheorems, WellFoundedInduction, TLAPS

-----------------------------------------------------------------------------
(* The three statements of a line.                                         *)

LEMMA WordOps ==
    ASSUME NEW x \in Word, NEW y \in Word
    PROVE  /\ Add(x, y) \in Word /\ Sub(x, y) \in Word /\ Xor(x, y) \in Word
           /\ Add(Sub(x, y), y) = x /\ Sub(Add(x, y), y) = x /\ Xor(Xor(x, y), y) = x
BY WordAssumption

LEMMA Cancel ==
    ASSUME NEW x \in Word, NEW z \in Word, NEW y \in Word
    PROVE  /\ Sub(x, y) = Sub(z, y) => x = z
           /\ Xor(x, y) = Xor(z, y) => x = z
           /\ Add(x, y) = Add(z, y) => x = z
<1>1. Add(Sub(x, y), y) = x /\ Sub(Add(x, y), y) = x /\ Xor(Xor(x, y), y) = x
  BY WordOps
<1>2. Add(Sub(z, y), y) = z /\ Sub(Add(z, y), y) = z /\ Xor(Xor(z, y), y) = z
  BY WordOps
<1> QED
  BY <1>1, <1>2

LEMMA Shifted ==
    ASSUME NEW i \in Field, NEW x \in Word
    PROVE  Shift(i, x) \in Word
BY WordAssumption

\* Setting a field to a value from which, with the others, its old value
\* follows.
LEMMA ExceptType ==
    ASSUME NEW s \in State, NEW x \in Field, NEW w \in Word
    PROVE  [s EXCEPT ![x] = w] \in State
BY DEF State

LEMMA ExceptEqual ==
    ASSUME NEW s \in State, NEW t \in State, NEW x \in Field, NEW v, NEW w,
           [s EXCEPT ![x] = v] = [t EXCEPT ![x] = w]
    PROVE  /\ v = w
           /\ \A y \in Field \ {x} : s[y] = t[y]
           /\ s[x] = t[x] => s = t
<1>1. \A y \in Field : [s EXCEPT ![x] = v][y] = [t EXCEPT ![x] = w][y]
  OBVIOUS
<1>2. DOMAIN s = Field /\ DOMAIN t = Field /\ s = [y \in Field |-> s[y]] /\ t = [y \in Field |-> t[y]]
  BY DEF State
<1>3. v = w
  BY <1>1, <1>2
<1>4. \A y \in Field \ {x} : s[y] = t[y]
  BY <1>1, <1>2
<1> QED
  BY <1>2, <1>3, <1>4

LEMMA SubStep ==
    ASSUME NEW s \in State, NEW t \in State, NEW x \in Field, NEW y \in Word, NEW z \in Word,
           [s EXCEPT ![x] = Sub(s[x], y)] = [t EXCEPT ![x] = Sub(t[x], z)],
           (\A f \in Field \ {x} : s[f] = t[f]) => y = z
    PROVE  s = t
<1>1. s[x] \in Word /\ t[x] \in Word
  BY DEF State
<1>2. Sub(s[x], y) = Sub(t[x], z) /\ y = z
  BY ExceptEqual
<1>3. s[x] = t[x]
  BY <1>1, <1>2, Cancel
<1> QED
  BY <1>3, ExceptEqual

LEMMA XorStep ==
    ASSUME NEW s \in State, NEW t \in State, NEW x \in Field, NEW y \in Word, NEW z \in Word,
           [s EXCEPT ![x] = Xor(s[x], y)] = [t EXCEPT ![x] = Xor(t[x], z)],
           (\A f \in Field \ {x} : s[f] = t[f]) => y = z
    PROVE  s = t
<1>1. s[x] \in Word /\ t[x] \in Word
  BY DEF State
<1>2. Xor(s[x], y) = Xor(t[x], z) /\ y = z
  BY ExceptEqual
<1>3. s[x] = t[x]
  BY <1>1, <1>2, Cancel
<1> QED
  BY <1>3, ExceptEqual

LEMMA AddStep ==
    ASSUME NEW s \in State, NEW t \in State, NEW x \in Field, NEW y \in Word, NEW z \in Word,
           [s EXCEPT ![x] = Add(s[x], y)] = [t EXCEPT ![x] = Add(t[x], z)],
           (\A f \in Field \ {x} : s[f] = t[f]) => y = z
    PROVE  s = t
<1>1. s[x] \in Word /\ t[x] \in Word
  BY DEF State
<1>2. Add(s[x], y) = Add(t[x], z) /\ y = z
  BY ExceptEqual
<1>3. s[x] = t[x]
  BY <1>1, <1>2, Cancel
<1> QED
  BY <1>3, ExceptEqual

-----------------------------------------------------------------------------
(* A line, and the shuffles.                                               *)

\* The fields that a line reads are others than the one it writes.
LEMMA Offsets ==
    ASSUME NEW i \in Field
    PROVE  /\ Plus(i, 4) \in Field \ {i}
           /\ Plus(i, 5) \in Field
           /\ Plus(i, 7) \in Field \ {Plus(i, 5), i}
BY DEF Field, Plus

LEMMA StepType ==
    ASSUME NEW i \in Field, NEW s \in State, NEW v \in State
    PROVE  Subtract(i, s, v) \in State /\ Flip(i, s, v) \in State /\ AddUp(i, s, v) \in State
<1>1. \A f \in Field : s[f] \in Word /\ v[f] \in Word
  BY DEF State
<1>2. Subtract(i, s, v) \in State
  BY <1>1, Offsets, WordOps, ExceptType DEF Subtract
<1>3. Flip(i, s, v) \in State
  BY <1>1, Offsets, WordOps, Shifted, ExceptType DEF Flip
<1>4. AddUp(i, s, v) \in State
  BY <1>1, Offsets, WordOps, ExceptType DEF AddUp
<1> QED
  BY <1>2, <1>3, <1>4

\* Each statement can be undone: with its own operands, and with those of v.
LEMMA SubtractInjective ==
    ASSUME NEW i \in Field, NEW s \in State, NEW t \in State, NEW v \in State
    PROVE  /\ Subtract(i, s, s) = Subtract(i, t, t) => s = t
           /\ Subtract(i, s, v) = Subtract(i, t, v) => s = t
<1>1. \A f \in Field, u \in State : u[f] \in Word
  BY DEF State
<1>2. ASSUME Subtract(i, s, s) = Subtract(i, t, t) PROVE s = t
  BY <1>1, <1>2, Offsets, SubStep DEF Subtract
<1>3. ASSUME Subtract(i, s, v) = Subtract(i, t, v) PROVE s = t
  BY <1>1, <1>3, Offsets, SubStep DEF Subtract
<1> QED
  BY <1>2, <1>3

LEMMA FlipInjective ==
    ASSUME NEW i \in Field, NEW s \in State, NEW t \in State, NEW v \in State
    PROVE  /\ Flip(i, s, s) = Flip(i, t, t) => s = t
           /\ Flip(i, s, v) = Flip(i, t, v) => s = t
<1>1. \A f \in Field, u \in State : u[f] \in Word
  BY DEF State
<1>2. ASSUME Flip(i, s, s) = Flip(i, t, t) PROVE s = t
  BY <1>1, <1>2, Offsets, Shifted, XorStep DEF Flip
<1>3. ASSUME Flip(i, s, v) = Flip(i, t, v) PROVE s = t
  BY <1>1, <1>3, Offsets, Shifted, XorStep DEF Flip
<1> QED
  BY <1>2, <1>3

LEMMA AddUpInjective ==
    ASSUME NEW i \in Field, NEW s \in State, NEW t \in State, NEW v \in State
    PROVE  /\ AddUp(i, s, s) = AddUp(i, t, t) => s = t
           /\ AddUp(i, s, v) = AddUp(i, t, v) => s = t
<1>1. \A f \in Field, u \in State : u[f] \in Word
  BY DEF State
<1>2. ASSUME AddUp(i, s, s) = AddUp(i, t, t) PROVE s = t
  BY <1>1, <1>2, Offsets, AddStep DEF AddUp
<1>3. ASSUME AddUp(i, s, v) = AddUp(i, t, v) PROVE s = t
  BY <1>1, <1>3, Offsets, AddStep DEF AddUp
<1> QED
  BY <1>2, <1>3

LEMMA RowType ==
    ASSUME NEW i \in Field, NEW s \in State
    PROVE  Row(i, s) \in State
<1>1. \A u \in State : SubtractOwn(i, u) \in State /\ FlipOwn(i, u) \in State /\ AddUpOwn(i, u) \in State
  BY StepType DEF SubtractOwn, FlipOwn, AddUpOwn
<1> QED
  BY <1>1 DEF Row

LEMMA RowInjective ==
    ASSUME NEW i \in Field, NEW s \in State, NEW t \in State, Row(i, s) = Row(i, t)
    PROVE  s = t
<1>1. \A u \in State : SubtractOwn(i, u) \in State /\ FlipOwn(i, u) \in State
  BY StepType DEF SubtractOwn, FlipOwn
<1>2. \A u, w \in State : AddUpOwn(i, u) = AddUpOwn(i, w) => u = w
  BY AddUpInjective DEF AddUpOwn
<1>3. \A u, w \in State : FlipOwn(i, u) = FlipOwn(i, w) => u = w
  BY FlipInjective DEF FlipOwn
<1>4. \A u, w \in State : SubtractOwn(i, u) = SubtractOwn(i, w) => u = w
  BY SubtractInjective DEF SubtractOwn
<1> QED
  BY <1>1, <1>2, <1>3, <1>4 DEF Row

LEMMA RowWithType ==
    ASSUME NEW i \in Field, NEW s \in State, NEW v \in State
    PROVE  RowWith(i, s, v) \in State
BY StepType DEF RowWith

LEMMA RowWithInjective ==
    ASSUME NEW i \in Field, NEW s \in State, NEW t \in State, NEW v \in State,
           RowWith(i, s, v) = RowWith(i, t, v)
    PROVE  s = t
<1>1. ASSUME NEW u \in State
      PROVE  Subtract(i, u, v) \in State /\ Flip(i, u, v) \in State
  BY StepType
<1>2. Flip(i, Subtract(i, s, v), v) = Flip(i, Subtract(i, t, v), v)
  BY <1>1, AddUpInjective DEF RowWith
<1>3. Subtract(i, s, v) = Subtract(i, t, v)
  BY <1>1, <1>2, FlipInjective
<1> QED
  BY <1>3, SubtractInjective

LEMMA FieldNumbers == 0 \in Field /\ 1 \in Field /\ 2 \in Field /\ 3 \in Field
                      /\ 4 \in Field /\ 5 \in Field /\ 6 \in Field /\ 7 \in Field
BY DEF Field

LEMMA ShuffleType ==
    ASSUME NEW s \in State
    PROVE  Shuffle(s) \in State
BY RowType, FieldNumbers, Zenon DEF Shuffle

LEMMA ShuffleInjective ==
    ASSUME NEW s \in State, NEW t \in State, Shuffle(s) = Shuffle(t)
    PROVE  s = t
<1>1. \A i \in Field, u \in State : Row(i, u) \in State
  BY RowType
<1>2. \A i \in Field, u, w \in State : Row(i, u) = Row(i, w) => u = w
  BY RowInjective
<1> QED
  BY <1>1, <1>2, FieldNumbers DEF Shuffle

LEMMA ShuffleWithType ==
    ASSUME NEW s \in State, NEW v \in State
    PROVE  ShuffleWith(s, v) \in State
BY RowWithType, FieldNumbers, Zenon DEF ShuffleWith

LEMMA ShuffleWithInjective ==
    ASSUME NEW s \in State, NEW t \in State, NEW v \in State, ShuffleWith(s, v) = ShuffleWith(t, v)
    PROVE  s = t
<1>1. \A i \in Field, u \in State : RowWith(i, u, v) \in State
  BY RowWithType
<1>2. \A i \in Field, u, w \in State : RowWith(i, u, v) = RowWith(i, w, v) => u = w
  BY RowWithInjective
<1> QED
  BY <1>1, <1>2, FieldNumbers DEF ShuffleWith

\* What mixing in one block and the same block makes of two states.
LEMMA MixedApart ==
    ASSUME NEW s \in State, NEW t \in State, NEW v \in State, s # t
    PROVE  Mixed(s, v) \in State /\ Mixed(t, v) \in State /\ Mixed(s, v) # Mixed(t, v)
<1>1. ShuffleWith(s, v) \in State /\ ShuffleWith(t, v) \in State
  BY ShuffleWithType
<1>2. ShuffleWith(s, v) # ShuffleWith(t, v)
  BY ShuffleWithInjective
<1> QED
  BY <1>1, <1>2, ShuffleType, ShuffleInjective DEF Mixed

-----------------------------------------------------------------------------
(* The data.                                                               *)

LEMMA WholeBlockType ==
    ASSUME NEW data \in Seq(Byte), Len(data) >= BlockLen
    PROVE  /\ Words(Block(data, 0)) \in State
           /\ SubSeq(data, BlockLen + 1, Len(data)) \in Seq(Byte)
<1>1. BlockLen \in Nat \ {0} /\ Len(data) \in Nat /\ \A i \in 1 .. Len(data) : data[i] \in Byte
  BY BlockAssumption, LenProperties, ElementOfSeq
<1>2. Block(data, 0) = SubSeq(data, 1, BlockLen)
  BY <1>1 DEF Block
<1>3. SubSeq(data, 1, BlockLen) \in Seq(Byte) /\ Len(SubSeq(data, 1, BlockLen)) = BlockLen
  BY <1>1, SubSeqProperties
<1>4. SubSeq(data, 1, BlockLen) \in [1 .. BlockLen -> Byte]
  BY <1>1, <1>3, LenProperties
<1>5. SubSeq(data, BlockLen + 1, Len(data)) \in Seq(Byte)
  BY <1>1, SubSeqProperties
<1> QED
  BY <1>2, <1>4, <1>5, BlockAssumption

LEMMA PaddedType ==
    ASSUME NEW data \in Seq(Byte)
    PROVE  Words(Padded(data)) \in State
<1>1. BlockLen \in Nat \ {0} /\ Len(data) \in Nat /\ Zero \in Byte
      /\ \A i \in 1 .. Len(data) : data[i] \in Byte
  BY BlockAssumption, LenProperties, ElementOfSeq
<1>2. Padded(data) \in [1 .. BlockLen -> Byte]
  BY <1>1 DEF Padded
<1> QED
  BY <1>2, BlockAssumption

LEMMA SealedApart ==
    ASSUME NEW s \in State, NEW t \in State, NEW n \in 0 .. Modulus - 1, s # t
    PROVE  Sealed(s, n) # Sealed(t, n)
<1>1. PadOf(n) \in State
  BY NumberAssumption DEF PadOf, State
<1>2. \A u, w \in State : Swapped(u) = Swapped(w) => u = w
  <2> SUFFICES ASSUME NEW u \in State, NEW w \in State, Swapped(u) = Swapped(w)
               PROVE  u = w
    OBVIOUS
  <2>1. \A i \in Field : Swap(u[i]) = Swap(w[i])
    BY DEF Swapped
  <2>2. \A i \in Field : u[i] \in Word /\ w[i] \in Word
    BY DEF State
  <2>3. \A i \in Field : u[i] = w[i]
    BY <2>1, <2>2, WordAssumption
  <2> QED
    BY <2>3 DEF State
<1>3. CASE n = 0
  BY <1>2, <1>3 DEF Sealed
<1>4. CASE n # 0
  BY <1>1, <1>2, <1>4, MixedApart DEF Sealed
<1> QED
  BY <1>3, <1>4

-----------------------------------------------------------------------------
(* The machine.                                                            *)

\* Both contexts are states, not the same, and once finished the digests are
\* theirs: what StaysApart needs to be inductive.
CdcInv ==
    /\ ctx \in State /\ twin \in State /\ ctx # twin
    /\ p \in 0 .. Modulus - 1
    /\ rest \in Seq(Byte)
    /\ digest # Null => rest = <<>> /\ digest = <<Sealed(ctx, p), Sealed(twin, p)>>

LEMMA CdcInvInit == CdcInit => CdcInv
<1>1. <<>> \in Seq(Byte) /\ 0 \in 0 .. Modulus - 1
  BY NumberAssumption
<1> QED
  BY <1>1, StateAssumption DEF CdcInit, CdcInv

LEMMA CdcInvNext == CdcInv /\ [CdcNext]_cdcVars => CdcInv'
<1> SUFFICES ASSUME CdcInv, [CdcNext]_cdcVars PROVE CdcInv'
  OBVIOUS
<1> USE DEF CdcInv
<1>1. ASSUME NEW data \in Chunks, Update(data) PROVE CdcInv'
  <2>1. data \in Seq(Byte) /\ Len(data) \in Nat
    BY BlockAssumption, LenProperties
  <2>2. (p + Len(data)) % Modulus \in 0 .. Modulus - 1
    BY <2>1, NumberAssumption
  <2> QED
    BY <1>1, <2>1, <2>2 DEF Update
<1>2. CASE WholeBlock
  <2>1. rest # <<>>
    BY <1>2, BlockAssumption, EmptySeq DEF WholeBlock
  <2>2. Words(Block(rest, 0)) \in State /\ SubSeq(rest, BlockLen + 1, Len(rest)) \in Seq(Byte)
    BY <1>2, WholeBlockType DEF WholeBlock
  <2>3. ctx' \in State /\ twin' \in State /\ ctx' # twin'
    BY <1>2, <2>2, MixedApart DEF WholeBlock, MixBoth
  <2> QED
    BY <1>2, <2>1, <2>2, <2>3 DEF WholeBlock
<1>3. CASE LastBlock
  <2>1. rest # <<>>
    BY <1>3, EmptySeq DEF LastBlock
  <2>2. ctx' \in State /\ twin' \in State /\ ctx' # twin'
    BY <1>3, PaddedType, MixedApart DEF LastBlock, MixBoth
  <2>3. <<>> \in Seq(Byte)
    OBVIOUS
  <2> QED
    BY <1>3, <2>1, <2>2, <2>3 DEF LastBlock
<1>4. CASE Finish
  BY <1>4 DEF Finish
<1>5. CASE UNCHANGED cdcVars
  BY <1>5 DEF cdcVars
<1> QED
  BY <1>1, <1>2, <1>3, <1>4, <1>5 DEF CdcNext

\* The digests of two files of the same size whose beginnings gave different
\* states differ, whatever the rest of both is and whatever the width of the
\* words: shuffle() and shuffle(v) lose nothing of what was mixed in before.
THEOREM StaysApartAlways == CdcSpec => []StaysApart
<1>1. CdcInv => StaysApart
  <2> SUFFICES ASSUME CdcInv, digest # Null PROVE digest[1] # digest[2]
    BY DEF CdcInv, StaysApart
  <2>1. Sealed(ctx, p) # Sealed(twin, p)
    BY SealedApart DEF CdcInv
  <2> QED
    BY <2>1 DEF CdcInv
<1> QED
  BY <1>1, CdcInvInit, CdcInvNext, PTL DEF CdcSpec

-----------------------------------------------------------------------------
(* Lengths: where a block starts, quotients and remainders.                *)

Upto(k) == k * BlockLen

LEMMA UptoStep ==
    ASSUME NEW k \in Nat
    PROVE  Upto(k) \in Nat /\ Upto(k + 1) = Upto(k) + BlockLen /\ Upto(0) = 0
BY BlockAssumption DEF Upto

LEMMA ProductGrows ==
    ASSUME NEW d \in Nat, NEW j \in Nat, NEW k \in Nat, j < k
    PROVE  j * d \in Nat /\ k * d \in Nat /\ j * d + d <= k * d
<1>1. k - 1 - j \in Nat /\ (k - 1 - j) * d \in Nat /\ j * d \in Nat
  OBVIOUS
<1>2. k * d = j * d + d + (k - 1 - j) * d
  OBVIOUS
<1> QED
  BY <1>1, <1>2

LEMMA DivisionUnique ==
    ASSUME NEW d \in Nat \ {0}, NEW n \in Nat, NEW k \in Nat, NEW r \in 0 .. d - 1, n = k * d + r
    PROVE  n \div d = k /\ n % d = r
<1> DEFINE q == n \div d
           s == n % d
<1>1. q \in Nat /\ s \in 0 .. d - 1 /\ n = q * d + s
  OBVIOUS
<1> HIDE DEF q, s
<1>2. q * d \in Nat /\ k * d \in Nat
  BY <1>1
<1>3. ~(q < k) /\ ~(k < q)
  BY <1>1, <1>2, ProductGrows
<1>4. q = k
  BY <1>1, <1>3
<1> QED
  BY <1>1, <1>2, <1>4 DEF q, s

LEMMA ModularSum ==
    ASSUME NEW a \in Nat, NEW b \in Nat
    PROVE  ((a % Modulus) + b) % Modulus = (a + b) % Modulus
<1>0. Modulus \in Nat \ {0}
  BY NumberAssumption
<1> DEFINE q == a \div Modulus
           r == a % Modulus
           k == (r + b) \div Modulus
           s == (r + b) % Modulus
<1>1. q \in Nat /\ r \in 0 .. Modulus - 1 /\ a = q * Modulus + r
  BY <1>0
<1> HIDE DEF q, r
<1>2. k \in Nat /\ s \in 0 .. Modulus - 1 /\ r + b = k * Modulus + s
  BY <1>0, <1>1
<1> HIDE DEF k, s
<1>3. q + k \in Nat /\ (q + k) * Modulus = q * Modulus + k * Modulus
      /\ q * Modulus \in Nat /\ k * Modulus \in Nat
  BY <1>0, <1>1, <1>2
<1>4. a + b = (q + k) * Modulus + s
  BY <1>0, <1>1, <1>2, <1>3
<1>5. (a + b) % Modulus = s
  <2>1. PICK n \in Nat : n = a + b
    OBVIOUS
  <2>4. PICK j \in Nat : j = q + k
    BY <1>3
  <2>2. n = j * Modulus + s
    BY <1>4, <2>1, <2>4
  <2>3. n % Modulus = s
    BY ONLY <1>0, <1>2, <2>2, DivisionUnique, n \in Nat, j \in Nat
  <2> QED
    BY <2>1, <2>3
<1> QED
  BY <1>5 DEF r, s

LEMMA BlockBytes ==
    ASSUME NEW data \in Seq(Byte), NEW k \in Nat, Upto(k) + BlockLen <= Len(data)
    PROVE  /\ Block(data, k) = [i \in 1 .. BlockLen |-> data[Upto(k) + i]]
<1>1. BlockLen \in Nat \ {0} /\ Upto(k) \in Nat /\ Len(data) \in Nat
  BY BlockAssumption, UptoStep, LenProperties
<1>2. Block(data, k) = SubSeq(data, Upto(k) + 1, Upto(k) + BlockLen)
  <2>1. (k + 1) * BlockLen = Upto(k) + BlockLen
    BY UptoStep DEF Upto
  <2> QED
    BY <2>1 DEF Block, Upto
<1>3. Upto(k) + BlockLen - (Upto(k) + 1) + 1 = BlockLen
  BY <1>1
<1>4. \A i \in 1 .. BlockLen : (Upto(k) + 1) + i - 1 = Upto(k) + i
  BY <1>1
<1> QED
  BY <1>1, <1>2, <1>3, <1>4

LEMMA TailBytes ==
    ASSUME NEW data \in Seq(Byte), NEW u \in Nat, u <= Len(data)
    PROVE  LET tail == SubSeq(data, u + 1, Len(data))
           IN  /\ tail \in Seq(Byte) /\ Len(tail) = Len(data) - u
               /\ \A i \in 1 .. Len(data) - u : tail[i] = data[u + i]
<1>1. PICK n \in Nat : n = Len(data)
  OBVIOUS
<1> DEFINE tail == SubSeq(data, u + 1, n)
<1>2. tail \in Seq(Byte) /\ Len(tail) = n - u
  BY <1>1
<1>3. \A i \in 1 .. n - u : tail[i] = data[u + i]
  BY <1>1
<1> QED
  BY <1>1, <1>2, <1>3

-----------------------------------------------------------------------------
(* The chain of states that the whole blocks of data lead to, one by one,  *)
(* each as a set of one like in DigestOf.                                  *)

Chain(g, data, n) ==
    g = [k \in 0 .. n |->
            IF k = 0 THEN {IV} ELSE {Mixed(s, Words(Block(data, k - 1))) : s \in g[k - 1]}]

\* After the first n blocks of data the context is c.
Reaches(data, n, c) == \E g : Chain(g, data, n) /\ g[n] = {c}

LEMMA ChainStart == ASSUME NEW data PROVE Reaches(data, 0, IV)
<1>1. Chain([k \in 0 .. 0 |-> {IV}], data, 0)
  BY DEF Chain
<1> QED
  BY <1>1 DEF Reaches

LEMMA ChainFurther ==
    ASSUME NEW data, NEW n \in Nat, NEW c, Reaches(data, n, c)
    PROVE  Reaches(data, n + 1, Mixed(c, Words(Block(data, n))))
<1>1. PICK g : Chain(g, data, n) /\ g[n] = {c}
  BY DEF Reaches
<1> DEFINE step(k, t) == {Mixed(s, Words(Block(data, k))) : s \in t}
           last == step(n, {c})
           h == [k \in 0 .. n + 1 |-> IF k = n + 1 THEN last ELSE g[k]]
<1>2. last = {Mixed(c, Words(Block(data, n)))}
  OBVIOUS
<1>3. g = [k \in 0 .. n |-> IF k = 0 THEN {IV} ELSE step(k - 1, g[k - 1])]
  BY <1>1 DEF Chain
<1> HIDE DEF last, step
<1>4. \A k \in 0 .. n : g[k] = IF k = 0 THEN {IV} ELSE step(k - 1, g[k - 1])
  BY <1>3
<1>5. /\ h = [k \in 0 .. n + 1 |-> h[k]] /\ h[n + 1] = last
      /\ \A k \in 0 .. n : h[k] = g[k]
  OBVIOUS
<1> HIDE DEF h
<1>6. \A k \in 0 .. n + 1 : h[k] = IF k = 0 THEN {IV} ELSE step(k - 1, h[k - 1])
  <2> TAKE k \in 0 .. n + 1
  <2>1. CASE k = n + 1
    <3>1. k - 1 = n /\ k # 0 /\ n \in 0 .. n
      BY <2>1
    <3>2. h[n] = {c}
      BY <1>1, <1>5, <3>1
    <3> QED
      BY <1>5, <2>1, <3>1, <3>2 DEF last
  <2>2. CASE k \in 0 .. n
    <3>1. k # 0 => k - 1 \in 0 .. n
      BY <2>2
    <3> QED
      BY <1>4, <1>5, <2>2, <3>1
  <2> QED
    BY <2>1, <2>2
<1>7. h = [k \in 0 .. n + 1 |-> IF k = 0 THEN {IV} ELSE step(k - 1, h[k - 1])]
  BY <1>5, <1>6
<1>8. Chain(h, data, n + 1)
  BY <1>7 DEF Chain, step
<1> QED
  BY <1>2, <1>5, <1>8 DEF Reaches

\* More data behind the first n blocks changes nothing of this.
LEMMA ChainPrefix ==
    ASSUME NEW data, NEW more, NEW n \in Nat, NEW c, Reaches(data, n, c),
           \A k \in 0 .. n - 1 : Block(more, k) = Block(data, k)
    PROVE  Reaches(more, n, c)
<1>1. PICK g : Chain(g, data, n) /\ g[n] = {c}
  BY DEF Reaches
<1> DEFINE step(d, k) == {Mixed(s, Words(Block(d, k))) : s \in g[k]}
<1>2. \A k \in 0 .. n : k # 0 => step(data, k - 1) = step(more, k - 1)
  BY DEF step
<1>3. g = [k \in 0 .. n |-> IF k = 0 THEN {IV} ELSE step(data, k - 1)]
  BY <1>1 DEF Chain
<1> HIDE DEF step
<1>4. g = [k \in 0 .. n |-> IF k = 0 THEN {IV} ELSE step(more, k - 1)]
  BY <1>2, <1>3
<1>5. Chain(g, more, n)
  BY <1>4 DEF Chain, step
<1> QED
  BY <1>1, <1>5 DEF Reaches

\* A set of numbers that is not empty has a least one.
LEMMA LeastNat ==
    ASSUME NEW T \in SUBSET Nat, T # {}
    PROVE  \E k \in T : \A j \in T : k <= j
<1> DEFINE I(k) == 1 .. k
           R == StrictSubsetOrdering(Nat)
           U == {I(k) : k \in T}
<1>1. U \subseteq FiniteSubsetsOf(Nat)
  <2>1. ASSUME NEW k \in T PROVE I(k) \in FiniteSubsetsOf(Nat)
    <3>1. IsFiniteSet(1 .. k)
      BY FS_Interval
    <3> QED
      BY <3>1 DEF FiniteSubsetsOf
  <2> QED
    BY <2>1
<1>2. U # {}
  OBVIOUS
<1>3. PICK u \in U : \A v \in U : <<v, u>> \notin R
  <2>1. IsWellFoundedOn(R, FiniteSubsetsOf(Nat))
    BY FS_StrictSubsetOrderingWellFounded
  <2> HIDE DEF U, R
  <2> QED
    BY <1>1, <1>2, <2>1, WFMin
<1>4. PICK k \in T : u = I(k)
  BY <1>3
<1>5. ASSUME NEW j \in T, ~(k <= j) PROVE FALSE
  <2>1. k \in Nat /\ j \in Nat /\ j < k
    BY <1>5
  <2>2. I(j) \subseteq I(k) /\ k \in I(k) /\ k \notin I(j)
    BY <2>1
  <2>3. I(j) \in SUBSET Nat /\ I(k) \in SUBSET Nat
    OBVIOUS
  <2>4. <<I(j), I(k)>> \in R
    BY <2>2, <2>3 DEF StrictSubsetOrdering
  <2> QED
    BY <1>3, <1>4, <2>4
<1> QED
  BY <1>5


\* There is one chain only: if two differed they would differ somewhere first.
LEMMA ChainUnique ==
    ASSUME NEW data, NEW n \in Nat, NEW g, NEW h, Chain(g, data, n), Chain(h, data, n)
    PROVE  g[n] = h[n]
<1> DEFINE step(k, t) == {Mixed(s, Words(Block(data, k))) : s \in t}
           T == {k \in 0 .. n : g[k] # h[k]}
<1>1. /\ g = [k \in 0 .. n |-> IF k = 0 THEN {IV} ELSE step(k - 1, g[k - 1])]
      /\ h = [k \in 0 .. n |-> IF k = 0 THEN {IV} ELSE step(k - 1, h[k - 1])]
  BY DEF Chain
<1> HIDE DEF step
<1>2. ASSUME T # {} PROVE FALSE
  <2>1. PICK k \in T : \A j \in T : k <= j
    <3>1. T \in SUBSET Nat
      OBVIOUS
    <3> HIDE DEF T
    <3> QED
      BY <1>2, <3>1, LeastNat
  <2>2. k \in 0 .. n /\ g[k] # h[k]
    OBVIOUS
  <2>3. k # 0
    BY <1>1, <2>2
  <2>4. k - 1 \in 0 .. n /\ g[k - 1] = h[k - 1]
    BY <2>1, <2>2, <2>3
  <2>5. g[k] = step(k - 1, g[k - 1]) /\ h[k] = step(k - 1, h[k - 1])
    BY <1>1, <2>2, <2>3
  <2> QED
    BY <2>2, <2>4, <2>5
<1> QED
  BY <1>2

\* What DigestOf does with data whose whole blocks lead to c.
LEMMA DigestOfIs ==
    ASSUME NEW data \in Seq(Byte), NEW n \in Nat, NEW r \in 0 .. BlockLen - 1, NEW c,
           Len(data) = Upto(n) + r, Reaches(data, n, c)
    PROVE  LET tail == SubSeq(data, Upto(n) + 1, Len(data))
           IN  DigestOf(data) =
                  Sealed(IF tail = <<>> THEN c ELSE Mixed(c, Words(Padded(tail))), Len(data) % Modulus)
<1> DEFINE tail == SubSeq(data, Upto(n) + 1, Len(data))
           after == CHOOSE g : Chain(g, data, n)
           whole == IF tail = <<>> THEN after[n] ELSE {Mixed(s, Words(Padded(tail))) : s \in after[n]}
           e == IF tail = <<>> THEN c ELSE Mixed(c, Words(Padded(tail)))
           m == Len(data) % Modulus
<1>1. Len(data) \div BlockLen = n
  BY DivisionUnique, BlockAssumption, LenProperties DEF Upto
<1>2. DigestOf(data) = CHOOSE d \in {Sealed(s, m) : s \in whole} : TRUE
  BY <1>1 DEF DigestOf, Chain, Upto
<1>3. PICK g : Chain(g, data, n) /\ g[n] = {c}
  BY DEF Reaches
<1>4. Chain(after, data, n)
  BY <1>3
<1>5. after[n] = {c}
  BY <1>3, <1>4, ChainUnique
<1> HIDE DEF after
<1>6. whole = {e}
  BY <1>5
<1> HIDE DEF whole, e, m
<1>7. {Sealed(s, m) : s \in whole} = {Sealed(e, m)}
  BY <1>6
<1>8. DigestOf(data) = Sealed(e, m)
  BY <1>2, <1>7
<1> QED
  BY <1>8 DEF e, m

-----------------------------------------------------------------------------
(* The machine: what is mixed in is what fed begins with, and rest is what *)
(* it ends with.                                                           *)

\* The whole blocks are mixed in, and rest is what follows them.
Midway(k) ==
    /\ Len(fed) = Upto(k) + Len(rest)
    /\ \A i \in 1 .. Len(rest) : rest[i] = fed[Upto(k) + i]
    /\ Reaches(fed, k, ctx)

\* The last block was padded and mixed in too.
Rounded(k, c) ==
    /\ Len(fed) > Upto(k) /\ Len(fed) < Upto(k) + BlockLen
    /\ rest = <<>> /\ Reaches(fed, k, c)
    /\ ctx = Mixed(c, Words(Padded(SubSeq(fed, Upto(k) + 1, Len(fed)))))

PiecesInv ==
    /\ fed \in Seq(Byte) /\ rest \in Seq(Byte)
    /\ p = Len(fed) % Modulus
    /\ digest # Null => rest = <<>> /\ digest[1] = Sealed(ctx, p)
    /\ ragged \in BOOLEAN
    /\ ~ragged => \E k \in Nat : Midway(k) \/ \E c : Rounded(k, c)

LEMMA PiecesInit == CdcInit => PiecesInv
<1> SUFFICES ASSUME CdcInit PROVE PiecesInv
  OBVIOUS
<1>1. ctx = IV /\ p = 0 /\ rest = <<>> /\ digest = Null /\ fed = <<>> /\ ragged = FALSE
  BY DEF CdcInit
<1>2. <<>> \in Seq(Byte) /\ Len(<<>>) = 0 /\ Upto(0) = 0 /\ 0 \in Nat /\ 0 % Modulus = 0
  BY UptoStep, NumberAssumption
<1>3. Midway(0)
  BY <1>1, <1>2, ChainStart DEF Midway
<1> QED
  BY <1>1, <1>2, <1>3 DEF PiecesInv

LEMMA PiecesUpdate ==
    ASSUME PiecesInv, NEW data \in Chunks, Update(data)
    PROVE  PiecesInv'
<1>1. /\ data \in Seq(Byte) /\ Len(data) \in Nat /\ fed \in Seq(Byte) /\ Len(fed) \in Nat
      /\ BlockLen \in Nat \ {0} /\ rest = <<>> /\ digest = Null
      /\ p' = (p + Len(data)) % Modulus /\ rest' = data /\ fed' = fed \o data
      /\ ragged' = (ragged \/ (Len(fed) % BlockLen # 0 /\ data # <<>>))
      /\ ctx' = ctx /\ digest' = Null
  BY BlockAssumption, LenProperties DEF Update, PiecesInv
<1>2. /\ fed' \in Seq(Byte) /\ Len(fed') = Len(fed) + Len(data)
      /\ \A i \in 1 .. Len(fed) : fed'[i] = fed[i]
      /\ \A i \in 1 .. Len(data) : fed'[Len(fed) + i] = data[i]
  BY <1>1
<1>3. p' = Len(fed') % Modulus
  BY <1>1, <1>2, ModularSum DEF PiecesInv
<1>4. ASSUME ~ragged' PROVE \E k \in Nat : (Midway(k) \/ \E c : Rounded(k, c))'
  <2>1. ~ragged /\ (Len(fed) % BlockLen = 0 \/ data = <<>>)
    BY <1>1, <1>4
  <2>2. PICK k \in Nat : Midway(k) \/ \E c : Rounded(k, c)
    BY <2>1 DEF PiecesInv
  <2>3. CASE data = <<>>
    <3>1. fed' = fed /\ rest' = rest
      BY <1>1, <2>3
    <3> QED
      BY <1>1, <2>2, <3>1 DEF Midway, Rounded
  <2>4. CASE data # <<>>
    <3>1. Upto(k) \in Nat
      BY UptoStep
    <3>2. ~\E c : Rounded(k, c)
      <4>1. ASSUME NEW c, Rounded(k, c) PROVE FALSE
        <5>1. PICK r \in 1 .. BlockLen - 1 : Len(fed) = Upto(k) + r
          <6>1. Len(fed) - Upto(k) \in 1 .. BlockLen - 1
            BY <1>1, <3>1, <4>1 DEF Rounded
          <6> QED
            BY <1>1, <3>1, <6>1
        <5>2. Len(fed) % BlockLen = r
          <6>1. PICK n \in Nat : n = Len(fed)
            BY <1>1
          <6>2. r \in 0 .. BlockLen - 1 /\ n = k * BlockLen + r
            BY <1>1, <5>1, <6>1 DEF Upto
          <6>3. n % BlockLen = r
            BY <1>1, <6>2, DivisionUnique
          <6> QED
            BY <6>1, <6>3
        <5> QED
          BY <1>1, <2>1, <2>4, <5>1, <5>2
      <4> QED
        BY <4>1
    <3>3. Len(fed) = Upto(k) /\ Reaches(fed, k, ctx)
      BY <1>1, <2>2, <3>1, <3>2 DEF Midway
    <3>4. ASSUME NEW j \in 0 .. k - 1 PROVE Block(fed', j) = Block(fed, j)
      <4>1. j \in Nat /\ Upto(j) \in Nat /\ Upto(j) + BlockLen <= Upto(k)
        BY <3>4, ProductGrows, BlockAssumption DEF Upto
      <4>2. /\ Block(fed, j) = [i \in 1 .. BlockLen |-> fed[Upto(j) + i]]
            /\ Block(fed', j) = [i \in 1 .. BlockLen |-> fed'[Upto(j) + i]]
        <5>1. Upto(j) + BlockLen <= Len(fed) /\ Upto(j) + BlockLen <= Len(fed')
          BY <1>1, <1>2, <3>1, <3>3, <4>1
        <5> QED
          BY <1>1, <1>2, <4>1, <5>1, BlockBytes
      <4>3. \A i \in 1 .. BlockLen : fed'[Upto(j) + i] = fed[Upto(j) + i]
        BY <1>1, <1>2, <3>1, <3>3, <4>1
      <4> QED
        BY <4>2, <4>3
    <3>5. Reaches(fed', k, ctx)
      BY <3>3, <3>4, ChainPrefix
    <3>6. Midway(k)'
      BY <1>1, <1>2, <3>3, <3>5 DEF Midway
    <3> QED
      BY <3>6
  <2> QED
    BY <2>3, <2>4
<1>5. ragged' \in BOOLEAN
  BY <1>1
<1> QED
  BY <1>1, <1>2, <1>3, <1>4, <1>5 DEF PiecesInv

LEMMA PiecesWhole ==
    ASSUME PiecesInv, WholeBlock
    PROVE  PiecesInv'
<1>1. /\ Len(rest) >= BlockLen /\ ctx' = Mixed(ctx, Words(Block(rest, 0)))
      /\ rest' = SubSeq(rest, BlockLen + 1, Len(rest))
      /\ UNCHANGED <<p, digest, fed, ragged>>
  BY DEF WholeBlock, MixBoth
<1>2. /\ rest \in Seq(Byte) /\ fed \in Seq(Byte) /\ Len(rest) \in Nat /\ Len(fed) \in Nat
      /\ BlockLen \in Nat \ {0} /\ rest # <<>> /\ digest = Null
  BY <1>1, BlockAssumption, LenProperties, EmptySeq DEF PiecesInv
<1>3. /\ rest' \in Seq(Byte) /\ Len(rest') = Len(rest) - BlockLen
      /\ \A i \in 1 .. Len(rest') : rest'[i] = rest[BlockLen + i]
  BY <1>1, <1>2
<1>4. ASSUME ~ragged' PROVE \E k \in Nat : Midway(k)'
  <2>1. PICK k \in Nat : Midway(k)
    BY <1>1, <1>2, <1>4 DEF PiecesInv, Rounded
  <2>2. Upto(k) \in Nat /\ Upto(k + 1) = Upto(k) + BlockLen /\ k + 1 \in Nat /\ Upto(0) = 0
    BY UptoStep
  <2>3. Block(rest, 0) = Block(fed, k)
    <3>1. Block(rest, 0) = [i \in 1 .. BlockLen |-> rest[0 + i]]
      BY <1>1, <1>2, <2>2, BlockBytes
    <3>2. Block(fed, k) = [i \in 1 .. BlockLen |-> fed[Upto(k) + i]]
      <4>1. Upto(k) + BlockLen <= Len(fed)
        BY <1>1, <1>2, <2>1, <2>2 DEF Midway
      <4> QED
        BY <1>2, <4>1, BlockBytes
    <3>3. \A i \in 1 .. BlockLen : rest[0 + i] = fed[Upto(k) + i]
      BY <1>1, <1>2, <2>1 DEF Midway
    <3> QED
      BY <3>1, <3>2, <3>3
  <2>4. Reaches(fed, k + 1, ctx')
    BY <1>1, <2>1, <2>3, ChainFurther DEF Midway
  <2>5. Len(fed) = Upto(k + 1) + Len(rest')
    BY <1>2, <1>3, <2>1, <2>2 DEF Midway
  <2>6. \A i \in 1 .. Len(rest') : rest'[i] = fed[Upto(k + 1) + i]
    <3> TAKE i \in 1 .. Len(rest')
    <3>1. rest'[i] = rest[BlockLen + i] /\ BlockLen + i \in 1 .. Len(rest)
      BY <1>2, <1>3
    <3>2. rest[BlockLen + i] = fed[Upto(k) + (BlockLen + i)]
      BY <2>1, <3>1 DEF Midway
    <3>3. Upto(k) + (BlockLen + i) = Upto(k + 1) + i
      BY <1>2, <1>3, <2>2
    <3> QED
      BY <3>1, <3>2, <3>3
  <2>7. Midway(k + 1)'
    BY <1>1, <2>4, <2>5, <2>6 DEF Midway
  <2> QED
    BY <2>2, <2>7
<1> QED
  BY <1>1, <1>2, <1>3, <1>4 DEF PiecesInv

LEMMA PiecesLast ==
    ASSUME PiecesInv, LastBlock
    PROVE  PiecesInv'
<1>1. /\ Len(rest) \in 1 .. BlockLen - 1 /\ ctx' = Mixed(ctx, Words(Padded(rest)))
      /\ rest' = <<>> /\ UNCHANGED <<p, digest, fed, ragged>>
  BY DEF LastBlock, MixBoth
<1>2. /\ rest \in Seq(Byte) /\ fed \in Seq(Byte) /\ Len(rest) \in Nat /\ Len(fed) \in Nat
      /\ BlockLen \in Nat \ {0} /\ rest # <<>> /\ digest = Null
  BY <1>1, BlockAssumption, LenProperties, EmptySeq DEF PiecesInv
<1>3. ASSUME ~ragged' PROVE \E k \in Nat : \E c : Rounded(k, c)'
  <2>1. PICK k \in Nat : Midway(k)
    BY <1>1, <1>2, <1>3 DEF PiecesInv, Rounded
  <2>2. Upto(k) \in Nat
    BY UptoStep
  <2>3. SubSeq(fed, Upto(k) + 1, Len(fed)) = rest
    <3> DEFINE tail == SubSeq(fed, Upto(k) + 1, Len(fed))
    <3>1. tail \in Seq(Byte) /\ Len(tail) = Len(rest)
          /\ \A i \in 1 .. Len(rest) : tail[i] = fed[Upto(k) + i]
      <4>1. Upto(k) <= Len(fed) /\ Len(fed) - Upto(k) = Len(rest)
        BY <1>2, <2>1, <2>2 DEF Midway
      <4> QED
        BY <1>2, <2>2, <4>1, TailBytes
    <3> HIDE DEF tail
    <3>2. \A i \in 1 .. Len(rest) : tail[i] = rest[i]
      BY <2>1, <3>1 DEF Midway
    <3>3. tail = rest
      BY <1>2, <3>1, <3>2
    <3> QED
      BY <3>3 DEF tail
  <2>4. PICK c : c = ctx
    OBVIOUS
  <2>5. Len(fed) > Upto(k) /\ Len(fed) < Upto(k) + BlockLen
    BY <1>1, <1>2, <2>1, <2>2 DEF Midway
  <2>6. Reaches(fed, k, c)
    BY <2>1, <2>4 DEF Midway
  <2>7. Rounded(k, c)'
    BY <1>1, <2>3, <2>4, <2>5, <2>6 DEF Rounded
  <2> QED
    BY <2>7
<1> QED
  BY <1>1, <1>2, <1>3, EmptySeq DEF PiecesInv

LEMMA PiecesInvariant == CdcSpec => []PiecesInv
<1>1. PiecesInv /\ [CdcNext]_cdcVars => PiecesInv'
  <2> SUFFICES ASSUME PiecesInv, [CdcNext]_cdcVars PROVE PiecesInv'
    OBVIOUS
  <2>1. CASE UNCHANGED cdcVars
    BY <2>1 DEF cdcVars, PiecesInv, Midway, Rounded
  <2>2. CASE Finish
    <3>1. rest = <<>> /\ digest'[1] = Sealed(ctx, p) /\ UNCHANGED <<ctx, p, rest, fed, ragged>>
      BY <2>2 DEF Finish
    <3> QED
      BY <3>1 DEF PiecesInv, Midway, Rounded
  <2> QED
    BY <2>1, <2>2, PiecesUpdate, PiecesWhole, PiecesLast DEF CdcNext
<1> QED
  BY <1>1, PiecesInit, PTL DEF CdcSpec

\* A file whose blocks are given to update() one by one has the digest of the
\* whole: however many pieces and however long, what update() does with its
\* data is one chain of states through the blocks of all of them, as long as
\* no piece but the last leaves a block to pad.
THEOREM PiecesAlwaysMakeWhole == CdcSpec => []PiecesMakeWhole
<1>1. PiecesInv => PiecesMakeWhole
  <2> SUFFICES ASSUME PiecesInv, digest # Null, ~ragged PROVE digest[1] = DigestOf(fed)
    BY DEF PiecesMakeWhole
  <2>1. /\ fed \in Seq(Byte) /\ Len(fed) \in Nat /\ BlockLen \in Nat \ {0}
        /\ rest = <<>> /\ digest[1] = Sealed(ctx, p) /\ p = Len(fed) % Modulus
    BY BlockAssumption, LenProperties DEF PiecesInv
  <2>2. PICK k \in Nat : Midway(k) \/ \E c : Rounded(k, c)
    BY DEF PiecesInv
  <2>3. Upto(k) \in Nat
    BY UptoStep
  <2> DEFINE tail == SubSeq(fed, Upto(k) + 1, Len(fed))
  <2>4. CASE Midway(k)
    <3>1. Len(fed) = Upto(k) + 0 /\ 0 \in 0 .. BlockLen - 1 /\ Reaches(fed, k, ctx)
      BY <2>1, <2>3, <2>4 DEF Midway
    <3>2. tail = <<>>
      BY <2>1, <2>3, <3>1
    <3> QED
      BY <2>1, <3>1, <3>2, DigestOfIs
  <2>5. CASE \E c : Rounded(k, c)
    <3>1. PICK c : Rounded(k, c)
      BY <2>5
    <3>2. PICK r \in 1 .. BlockLen - 1 : Len(fed) = Upto(k) + r
      <4>1. Len(fed) - Upto(k) \in 1 .. BlockLen - 1
        BY <2>1, <2>3, <3>1 DEF Rounded
      <4> QED
        BY <2>1, <2>3, <4>1
    <3>3. tail # <<>>
      <4>1. Len(tail) = r
        <5>1. Upto(k) <= Len(fed) /\ Len(fed) - Upto(k) = r
          BY <2>1, <2>3, <3>2
        <5> QED
          BY <2>1, <2>3, <5>1, TailBytes
      <4>2. Len(<<>>) = 0
        OBVIOUS
      <4> HIDE DEF tail
      <4> QED
        BY <4>1, <4>2
    <3>4. r \in 0 .. BlockLen - 1 /\ Reaches(fed, k, c) /\ ctx = Mixed(c, Words(Padded(tail)))
      BY <3>1, <3>2 DEF Rounded
    <3> QED
      BY <2>1, <3>2, <3>3, <3>4, DigestOfIs
  <2> QED
    BY <2>2, <2>4, <2>5
<1> QED
  BY <1>1, PiecesInvariant, PTL
=============================================================================
