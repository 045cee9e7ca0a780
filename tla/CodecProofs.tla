----------------------------- MODULE CodecProofs -----------------------------
(***************************************************************************)
(* Theorems about the codec, for every byte size and every schema whose    *)
(* vectors nest at most twice: writer and strict reader are inverse.       *)
(*                                                                         *)
(* A reader is faithful to a way of spelling values when it returns, at    *)
(* each offset, exactly the value that is spelt there.  Leaves are         *)
(* faithful by arithmetic; rows of fields, and vectors, keep that: by      *)
(* induction on how many items have been read.                             *)
(***************************************************************************)
EXTENDS Vectors, SequenceTheorems, WellFoundedInduction, TLAPS

-----------------------------------------------------------------------------
(* A set that holds 0, and with a number the next one, holds them all.     *)
LEMMA NatSetInduction ==
  ASSUME NEW S, 0 \in S, \A n \in Nat : n \in S => n + 1 \in S
  PROVE  Nat \subseteq S
<1> DEFINE Less == {p \in Nat \X Nat : p[1] < p[2]}
           Missed == Nat \ S
<1>1. IsWellFoundedOn(Less, Nat)
  BY NatLessThanWellFounded DEF OpToRel
<1>2. \A n \in Nat : n # 0 => n - 1 \in Nat /\ <<n - 1, n>> \in Less
  OBVIOUS
<1> HIDE DEF Less
<1>3. ASSUME Missed # {}
      PROVE  FALSE
  <2>1. PICK n \in Missed : \A m \in Missed : <<m, n>> \notin Less
    <3>1. Missed \subseteq Nat
      OBVIOUS
    <3> HIDE DEF Missed
    <3> QED
      BY <1>1, <1>3, <3>1, WFMin
  <2>2. n - 1 \in S
    BY <1>2, <2>1
  <2> QED
    BY <1>2, <2>1, <2>2
<1> QED
  BY <1>3

(* FlattenSeq puts one sequence after another.                             *)
Flattening(f, s) ==
  f = [i \in 1..Len(s) |-> IF i = 1 THEN s[i] ELSE f[i - 1] \o s[i]]

(* There is such a sequence of partial results.                            *)
LEMMA FlattenExists ==
  ASSUME NEW S, NEW s \in Seq(Seq(S))
  PROVE  \E f : Flattening(f, s) /\ \A i \in 1..Len(s) : f[i] \in Seq(S)
<1> DEFINE Partial(f, n) ==
      /\ f = [i \in 1..n |-> IF i = 1 THEN s[i] ELSE f[i - 1] \o s[i]]
      /\ \A i \in 1..n : f[i] \in Seq(S)
    Some(n) == \E f : Partial(f, n)
    Reached == {n \in Nat : n <= Len(s) => Some(n)}
<1>1. Some(0)
  <2>1. Partial([i \in 1..0 |-> s[i]], 0)
    OBVIOUS
  <2> QED
    BY <2>1
<1>2. ASSUME NEW n \in Nat, Some(n), n + 1 <= Len(s)
      PROVE  Some(n + 1)
  <2>1. PICK f : Partial(f, n)
    BY <1>2
  <2> DEFINE part == IF n = 0 THEN s[1] ELSE f[n] \o s[n + 1]
             g == [i \in 1..(n + 1) |-> IF i = n + 1 THEN part ELSE f[i]]
  <2>2. part \in Seq(S)
    BY <1>2, <2>1
  <2>3. \A i \in 1..n : f[i] = IF i = 1 THEN s[i] ELSE f[i - 1] \o s[i]
    BY <2>1
  <2>4. \A i \in 1..(n + 1) :
          g[i] = IF i = 1 THEN s[i] ELSE g[i - 1] \o s[i]
    BY <2>3
  <2>5. g = [i \in 1..(n + 1) |-> IF i = 1 THEN s[i] ELSE g[i - 1] \o s[i]]
    BY <2>4
  <2>6. \A i \in 1..(n + 1) : g[i] \in Seq(S)
    BY <2>1, <2>2
  <2>7. Partial(g, n + 1)
    BY <2>5, <2>6
  <2> HIDE DEF Partial, g
  <2> QED
    BY <2>7
<1>3. Some(Len(s))
  <2>1. 0 \in Reached
    BY <1>1
  <2> HIDE DEF Some
  <2>2. \A n \in Nat : n \in Reached => n + 1 \in Reached
    BY <1>2
  <2>3. Nat \subseteq Reached
    <3> HIDE DEF Reached
    <3> QED
      BY <2>1, <2>2, NatSetInduction
  <2> QED
    BY <2>3
<1> QED
  BY <1>3 DEF Flattening

Starts(s, t) == Len(s) <= Len(t) /\ \A i \in 1..Len(s) : s[i] = t[i]

(* It is determined by the parts.                                          *)
LEMMA FlattenAgrees ==
  ASSUME NEW S, NEW s \in Seq(Seq(S)), NEW t \in Seq(Seq(S)),
         NEW f, Flattening(f, s), NEW g, Flattening(g, t),
         Starts(s, t)
  PROVE  \A i \in 1..Len(s) : f[i] = g[i]
<1> DEFINE Reached == {n \in Nat : n \in 1..Len(s) => f[n] = g[n]}
<1>1. 0 \in Reached
  OBVIOUS
<1>0. /\ \A i \in 1..Len(s) : f[i] = IF i = 1 THEN s[i] ELSE f[i - 1] \o s[i]
      /\ \A i \in 1..Len(t) : g[i] = IF i = 1 THEN t[i] ELSE g[i - 1] \o t[i]
  BY DEF Flattening
<1>4. Len(s) \in Nat /\ Len(t) \in Nat
  BY LenProperties
<1>2. ASSUME NEW n \in Nat, n \in Reached, n + 1 \in 1..Len(s)
      PROVE  f[n + 1] = g[n + 1]
  <2>0. n + 1 \in 1..Len(s) /\ n + 1 \in 1..Len(t)
    BY <1>4, <1>2 DEF Starts
  <2>1. f[n + 1] = IF n + 1 = 1 THEN s[n + 1] ELSE f[n + 1 - 1] \o s[n + 1]
    BY <1>0, <2>0
  <2>2. g[n + 1] = IF n + 1 = 1 THEN t[n + 1] ELSE g[n + 1 - 1] \o t[n + 1]
    BY <1>0, <2>0
  <2>3. s[n + 1] = t[n + 1]
    BY <1>2 DEF Starts
  <2>4. n # 0 => n \in 1..Len(s)
    BY <1>2
  <2> QED
    BY <1>2, <2>1, <2>2, <2>3, <2>4
<1>3. Nat \subseteq Reached
  <2>1. \A n \in Nat : n \in Reached => n + 1 \in Reached
    <3>1. TAKE n \in Nat
    <3>2. HAVE n \in Reached
    <3>3. n + 1 \in 1..Len(s) => f[n + 1] = g[n + 1]
      BY <1>2, <3>2
    <3> QED
      BY <3>3
  <2> HIDE DEF Reached
  <2> QED
    BY <1>1, <2>1, NatSetInduction
<1> QED
  BY <1>3

(* So the one FlattenSeq chooses is such a sequence.                       *)
LEMMA FlattenIs ==
  ASSUME NEW S, NEW s \in Seq(Seq(S)), s # << >>
  PROVE  \E f : /\ Flattening(f, s)
                /\ \A i \in 1..Len(s) : f[i] \in Seq(S)
                /\ FlattenSeq(s) = f[Len(s)]
<1> DEFINE chosen == CHOOSE f : Flattening(f, s)
<1>1. FlattenSeq(s) = chosen[Len(s)]
  BY DEF FlattenSeq, Flattening
<1>2. PICK f : Flattening(f, s) /\ \A i \in 1..Len(s) : f[i] \in Seq(S)
  BY FlattenExists
<1>3. Flattening(chosen, s)
  BY <1>2
<1> HIDE DEF chosen
<1>4. \A i \in 1..Len(s) : f[i] = chosen[i]
  <2>1. Starts(s, s)
    BY LenProperties DEF Starts
  <2> QED
    BY <1>2, <1>3, <2>1, FlattenAgrees
<1> QED
  BY <1>1, <1>2, <1>3, <1>4

(* One part more is one more concatenation.                                *)
LEMMA FlattenAppend ==
  ASSUME NEW S, NEW s \in Seq(Seq(S)), NEW w \in Seq(S)
  PROVE  /\ FlattenSeq(Append(s, w)) = FlattenSeq(s) \o w
         /\ FlattenSeq(s) \in Seq(S)
<1> DEFINE t == Append(s, w)
<1>1. /\ t \in Seq(Seq(S)) /\ Len(t) = Len(s) + 1
      /\ \A i \in 1..Len(s) : t[i] = s[i]
      /\ t[Len(s) + 1] = w
  OBVIOUS
<1>0. t # << >> /\ Len(t) \in 1..Len(t) /\ Len(s) \in Nat
      /\ Len(t) - 1 = Len(s)
  <2>1. Len(s) \in Nat
    BY LenProperties
  <2>2. Len(t) # 0
    BY <1>1, <2>1
  <2> HIDE DEF t
  <2>3. t # << >>
    BY <2>2, EmptySeq
  <2> QED
    BY <1>1, <2>1, <2>3
<1> HIDE DEF t
<1>2. PICK g : /\ Flattening(g, t)
               /\ \A i \in 1..Len(t) : g[i] \in Seq(S)
               /\ FlattenSeq(t) = g[Len(t)]
  BY <1>0, <1>1, FlattenIs
<1>3. g[Len(t)] = IF Len(s) = 0 THEN w ELSE g[Len(s)] \o w
  <2>0. \A i \in 1..Len(t) : g[i] = IF i = 1 THEN t[i] ELSE g[i - 1] \o t[i]
    BY <1>2 DEF Flattening
  <2>1. g[Len(t)] =
          IF Len(t) = 1 THEN t[Len(t)] ELSE g[Len(t) - 1] \o t[Len(t)]
    BY <1>0, <2>0
  <2> QED
    BY <1>0, <1>1, <2>1
<1>4. CASE s = << >>
  <2>1. FlattenSeq(s) = << >>
    BY <1>4 DEF FlattenSeq
  <2>2. FlattenSeq(t) = w
    BY <1>2, <1>3, <1>4
  <2>3. << >> \o w = w /\ << >> \in Seq(S)
    BY ConcatEmptySeq
  <2> QED
    BY <1>4, <2>1, <2>2, <2>3 DEF t
<1>5. CASE s # << >>
  <2>1. PICK f : /\ Flattening(f, s)
                 /\ \A i \in 1..Len(s) : f[i] \in Seq(S)
                 /\ FlattenSeq(s) = f[Len(s)]
    <3> QED
      BY <1>5, FlattenIs
  <2>3. Len(s) \in 1..Len(s)
    BY <1>5, EmptySeq
  <2>4. Starts(s, t)
    BY <1>0, <1>1 DEF Starts
  <2>2. f[Len(s)] = g[Len(s)]
    <3>0. Flattening(f, s) /\ Flattening(g, t) /\ t \in Seq(Seq(S))
      BY <1>1, <1>2, <2>1
    <3>1. \A i \in 1..Len(s) : f[i] = g[i]
      BY <2>4, <3>0, FlattenAgrees
    <3> QED
      BY <2>3, <3>1
  <2> QED
    BY <1>2, <1>3, <1>5, <2>1, <2>2, <2>3 DEF t
<1> QED
  BY <1>4, <1>5

(* No parts, no bytes.                                                     *)
LEMMA FlattenEmpty ==
  FlattenSeq(<< >>) = << >>
BY DEF FlattenSeq

-----------------------------------------------------------------------------
(* What a reader must be for what a writer spells.                         *)
Byte == 0..Top

(* The bytes w stand in a buffer at an offset.                             *)
Spells(bytes, at, w) ==
  /\ at + Len(w) <= Len(bytes) + 1
  /\ \A i \in 1..Len(w) : bytes[at + i - 1] = w[i]

(* Two spellings stand in a row when each stands in its place.             *)
LEMMA SpellsConcat ==
  ASSUME NEW bytes \in Seq(Byte), NEW at \in Offsets(bytes),
         NEW v \in Seq(Byte), NEW w \in Seq(Byte)
  PROVE  Spells(bytes, at, v \o w) <=>
           Spells(bytes, at, v) /\ Spells(bytes, at + Len(v), w)
<1>0. Len(v) \in Nat /\ Len(w) \in Nat /\ at \in Nat /\ Len(bytes) \in Nat
  BY LenProperties DEF Offsets
<1>1. /\ Len(v \o w) = Len(v) + Len(w)
      /\ \A i \in 1..(Len(v) + Len(w)) :
           (v \o w)[i] = IF i <= Len(v) THEN v[i] ELSE w[i - Len(v)]
  BY ConcatProperties
<1>2. ASSUME Spells(bytes, at, v \o w)
      PROVE  Spells(bytes, at, v) /\ Spells(bytes, at + Len(v), w)
  <2>1. ASSUME NEW i \in 1..Len(v)
        PROVE  bytes[at + i - 1] = v[i]
    <3>1. i \in 1..(Len(v) + Len(w)) /\ i <= Len(v)
      BY <1>0
    <3>2. (v \o w)[i] = v[i]
      BY <1>1, <3>1
    <3> QED
      BY <1>1, <1>2, <3>1, <3>2 DEF Spells
  <2>2. ASSUME NEW i \in 1..Len(w)
        PROVE  bytes[at + Len(v) + i - 1] = w[i]
    <3>1. /\ Len(v) + i \in 1..(Len(v) + Len(w))
          /\ ~(Len(v) + i <= Len(v)) /\ Len(v) + i - Len(v) = i
          /\ at + (Len(v) + i) - 1 = at + Len(v) + i - 1
      BY <1>0
    <3>2. (v \o w)[Len(v) + i] = w[i]
      BY <1>1, <3>1
    <3>3. bytes[at + (Len(v) + i) - 1] = (v \o w)[Len(v) + i]
      BY <1>1, <1>2, <3>1 DEF Spells
    <3> QED
      BY <3>1, <3>2, <3>3
  <2> QED
    BY <1>0, <1>1, <1>2, <2>1, <2>2 DEF Spells
<1>3. ASSUME Spells(bytes, at, v), Spells(bytes, at + Len(v), w)
      PROVE  Spells(bytes, at, v \o w)
  <2>1. ASSUME NEW i \in 1..(Len(v) + Len(w))
        PROVE  bytes[at + i - 1] = (v \o w)[i]
    <3>1. CASE i <= Len(v)
      BY <1>0, <1>1, <1>3, <3>1 DEF Spells
    <3>2. CASE ~(i <= Len(v))
      <4>1. i - Len(v) \in 1..Len(w)
            /\ at + Len(v) + (i - Len(v)) - 1 = at + i - 1
        BY <1>0, <3>2
      <4>2. bytes[at + Len(v) + (i - Len(v)) - 1] = w[i - Len(v)]
        BY <1>3, <4>1 DEF Spells
      <4> QED
        BY <1>1, <3>2, <4>1, <4>2
    <3> QED
      BY <3>1, <3>2
  <2> QED
    BY <1>0, <1>1, <1>3, <2>1 DEF Spells
<1> QED
  BY <1>2, <1>3

(* A result at an offset: what it returns stands there, and whatever value *)
(* stands there it returns, with the offset after it.                      *)
ReadsAs(bytes, at, read, fits, spelt) ==
  /\ read.ok => /\ read.value \in fits
                /\ Spells(bytes, at, spelt[read.value])
                /\ read = Got(read.value, at + Len(spelt[read.value]))
  /\ \A v \in fits : Spells(bytes, at, spelt[v]) =>
       read = Got(v, at + Len(spelt[v]))

Faithful(bytes, reader, fits, spelt) ==
  \A at \in Offsets(bytes) : ReadsAs(bytes, at, reader[at], fits, spelt)

(* A row of values, one of each set, and how it is spelt.                  *)
Rows(U, n, fits) ==
  {d \in Seq(U) : Len(d) = n /\ \A i \in 1..n : d[i] \in fits[i]}
Written(U, n, fits, spelt) ==
  \A i \in 1..n :
    fits[i] \subseteq U /\ \A v \in fits[i] : spelt[i][v] \in Seq(Byte)
RowSpelling(spelt, d) == FlattenSeq([i \in 1..Len(d) |-> spelt[i][d[i]]])

RowSpelt(U, n, fits, spelt) ==
  [d \in Rows(U, n, fits) |-> RowSpelling(spelt, d)]

(* The spelling of a row that is one value longer.                         *)
LEMMA RowSpellingAppend ==
  ASSUME NEW U, NEW d \in Seq(U), NEW v \in U, NEW spelt,
         \A i \in 1..Len(d) : spelt[i][d[i]] \in Seq(Byte),
         spelt[Len(d) + 1][v] \in Seq(Byte)
  PROVE  /\ RowSpelling(spelt, Append(d, v)) =
              RowSpelling(spelt, d) \o spelt[Len(d) + 1][v]
         /\ RowSpelling(spelt, d) \in Seq(Byte)
<1> DEFINE e == Append(d, v)
           parts == [i \in 1..Len(d) |-> spelt[i][d[i]]]
           more == [i \in 1..Len(e) |-> spelt[i][e[i]]]
<1>1. /\ Len(d) \in Nat /\ Len(e) = Len(d) + 1
      /\ \A i \in 1..Len(d) : e[i] = d[i]
      /\ e[Len(d) + 1] = v
  OBVIOUS
<1>2. parts \in Seq(Seq(Byte)) /\ Len(parts) = Len(d)
  BY <1>1
<1>3. more = Append(parts, spelt[Len(d) + 1][v])
  BY <1>1, <1>2
<1>4. /\ FlattenSeq(Append(parts, spelt[Len(d) + 1][v])) =
           FlattenSeq(parts) \o spelt[Len(d) + 1][v]
      /\ FlattenSeq(parts) \in Seq(Byte)
  <2> HIDE DEF parts
  <2> QED
    BY <1>2, FlattenAppend
<1> QED
  BY <1>3, <1>4 DEF RowSpelling

(* A spelt row is bytes.                                                   *)
LEMMA RowSpellingBytes ==
  ASSUME NEW d, Len(d) \in Nat, NEW spelt,
         \A i \in 1..Len(d) : spelt[i][d[i]] \in Seq(Byte)
  PROVE  RowSpelling(spelt, d) \in Seq(Byte)
<1> DEFINE parts == [i \in 1..Len(d) |-> spelt[i][d[i]]]
<1>1. parts \in Seq(Seq(Byte)) /\ << >> \in Seq(Byte)
  OBVIOUS
<1>2. FlattenSeq(parts) \in Seq(Byte)
  <2> HIDE DEF parts
  <2> QED
    BY <1>1, FlattenAppend
<1> QED
  BY <1>2 DEF RowSpelling

(* One reader more: the row read so far, and after it one value.           *)
LEMMA ExtendedReads ==
  ASSUME NEW bytes \in Seq(Byte), NEW at \in Offsets(bytes),
         NEW U, NEW n \in Nat, NEW fits, NEW spelt,
         Written(U, n + 1, fits, spelt), NEW row, NEW reader,
         ReadsAs(bytes, at, row, Rows(U, n, fits),
                 RowSpelt(U, n, fits, spelt)),
         Faithful(bytes, reader, fits[n + 1], spelt[n + 1])
  PROVE  ReadsAs(bytes, at, Extended(row, reader), Rows(U, n + 1, fits),
                 RowSpelt(U, n + 1, fits, spelt))
<1> DEFINE Old == Rows(U, n, fits)
           New == Rows(U, n + 1, fits)
           read == Extended(row, reader)
           Both(d, v) ==
             /\ Append(d, v) \in New
             /\ RowSpelling(spelt, d) \in Seq(Byte)
             /\ RowSpelling(spelt, Append(d, v)) =
                  RowSpelling(spelt, d) \o spelt[n + 1][v]
             /\ Len(RowSpelling(spelt, Append(d, v))) =
                  Len(RowSpelling(spelt, d)) + Len(spelt[n + 1][v])
             /\ Spells(bytes, at, RowSpelling(spelt, Append(d, v))) <=>
                  /\ Spells(bytes, at, RowSpelling(spelt, d))
                  /\ Spells(bytes, at + Len(RowSpelling(spelt, d)),
                       spelt[n + 1][v])
<1>5. \A i \in 1..(n + 1) :
        fits[i] \subseteq U /\ \A v \in fits[i] : spelt[i][v] \in Seq(Byte)
  BY DEF Written
<1>1. ASSUME NEW d \in Old, NEW v \in fits[n + 1]
      PROVE  Both(d, v)
  <2>1. /\ d \in Seq(U) /\ Len(d) = n /\ v \in U
        /\ \A i \in 1..n : d[i] \in fits[i]
    BY <1>5 DEF Rows
  <2>2. Append(d, v) \in New
    <3>1. Append(d, v) \in Seq(U) /\ Len(Append(d, v)) = n + 1
      BY <2>1
    <3>2. ASSUME NEW i \in 1..(n + 1)
          PROVE  Append(d, v)[i] \in fits[i]
      <4>1. CASE i = n + 1
        BY <2>1, <4>1
      <4>2. CASE i \in 1..n
        BY <2>1, <4>2
      <4>3. i = n + 1 \/ i \in 1..n
        OBVIOUS
      <4> QED
        BY <4>1, <4>2, <4>3
    <3> DEFINE e == Append(d, v)
    <3> HIDE DEF e
    <3>3. e \in Seq(U) /\ Len(e) = n + 1
          /\ \A i \in 1..(n + 1) : e[i] \in fits[i]
      BY <3>1, <3>2 DEF e
    <3>4. e \in New
      BY <3>3 DEF Rows
    <3> QED
      BY <3>4 DEF e
  <2>3. /\ \A i \in 1..Len(d) : spelt[i][d[i]] \in Seq(Byte)
        /\ spelt[n + 1][v] \in Seq(Byte)
    BY <1>5, <2>1
  <2>4. /\ RowSpelling(spelt, Append(d, v)) =
             RowSpelling(spelt, d) \o spelt[n + 1][v]
        /\ RowSpelling(spelt, d) \in Seq(Byte)
    BY <2>1, <2>3, RowSpellingAppend
  <2> QED
    BY <2>2, <2>3, <2>4, SpellsConcat, ConcatProperties
<1>0. ASSUME NEW d \in Old
      PROVE  RowSpelling(spelt, d) \in Seq(Byte)
  <2>1. Len(d) = n /\ \A i \in 1..n : d[i] \in fits[i]
    BY DEF Rows
  <2>2. \A i \in 1..n : i \in 1..(n + 1)
    OBVIOUS
  <2> QED
    BY <1>5, <2>1, <2>2, RowSpellingBytes
<1>2. ASSUME NEW d \in Old, Spells(bytes, at, RowSpelling(spelt, d))
      PROVE  at + Len(RowSpelling(spelt, d)) \in Offsets(bytes)
  <2>1. RowSpelling(spelt, d) \in Seq(Byte)
    BY <1>0
  <2> QED
    BY <1>2, <2>1, LenProperties DEF Spells, Offsets
<1>3. ASSUME read.ok
      PROVE  /\ read.value \in New
             /\ Spells(bytes, at, RowSpelling(spelt, read.value))
             /\ read = Got(read.value,
                           at + Len(RowSpelling(spelt, read.value)))
  <2> DEFINE d == row.value
             v == reader[row.next].value
  <2>1. /\ row.ok /\ reader[row.next].ok
        /\ read = Got(Append(d, v), reader[row.next].next)
    BY <1>3 DEF Extended, Refusal
  <2>2. /\ d \in Old /\ Spells(bytes, at, RowSpelling(spelt, d))
        /\ row = Got(d, at + Len(RowSpelling(spelt, d)))
    BY <2>1 DEF ReadsAs, RowSpelt
  <2>3. row.next = at + Len(RowSpelling(spelt, d))
    BY <2>2 DEF Got
  <2>4. row.next \in Offsets(bytes)
    BY <1>2, <2>2, <2>3
  <2>5. /\ v \in fits[n + 1] /\ Spells(bytes, row.next, spelt[n + 1][v])
        /\ reader[row.next] = Got(v, row.next + Len(spelt[n + 1][v]))
    BY <2>1, <2>4 DEF ReadsAs, Faithful
  <2>6. Both(d, v)
    BY <1>1, <2>2, <2>5
  <2>7. /\ read.value = Append(d, v)
        /\ reader[row.next].next = row.next + Len(spelt[n + 1][v])
    BY <2>1, <2>5 DEF Got
  <2> HIDE DEF d, v, read, Old, New
  <2>8. Spells(bytes, at, RowSpelling(spelt, Append(d, v)))
    BY <2>2, <2>3, <2>5, <2>6
  <2>9. at + Len(RowSpelling(spelt, Append(d, v))) =
          row.next + Len(spelt[n + 1][v])
    <3>1. at \in Nat /\ v \in fits[n + 1] /\ spelt[n + 1][v] \in Seq(Byte)
      BY <1>5, <2>5 DEF Offsets
    <3>2. RowSpelling(spelt, d) \in Seq(Byte)
      BY <1>0, <2>2
    <3>3. Len(RowSpelling(spelt, Append(d, v))) =
            Len(RowSpelling(spelt, d)) + Len(spelt[n + 1][v])
      BY <2>6
    <3>4. /\ Len(RowSpelling(spelt, d)) \in Nat
          /\ Len(spelt[n + 1][v]) \in Nat
      BY <3>1, <3>2, LenProperties
    <3>5. \A a, b \in Nat : at + (a + b) = (at + a) + b
      BY <3>1
    <3> QED
      BY <2>3, <3>3, <3>4, <3>5
  <2> QED
    BY <2>1, <2>6, <2>7, <2>8, <2>9
<1>4. ASSUME NEW e \in New, Spells(bytes, at, RowSpelling(spelt, e))
      PROVE  read = Got(e, at + Len(RowSpelling(spelt, e)))
  <2> DEFINE d == SubSeq(e, 1, n)
             v == e[n + 1]
  <2>1. d \in Old /\ v \in fits[n + 1] /\ e = Append(d, v)
    <3>1. /\ e \in Seq(U) /\ Len(e) = n + 1
          /\ \A i \in 1..(n + 1) : e[i] \in fits[i] /\ e[i] \in U
      BY <1>5 DEF Rows
    <3>2. /\ d \in Seq(U) /\ Len(d) = n
          /\ \A i \in 1..n : d[i] = e[i]
      BY <3>1
    <3> HIDE DEF d, v
    <3>3. d \in Old
      <4>1. \A i \in 1..n : d[i] \in fits[i]
        BY <3>1, <3>2
      <4> QED
        BY <3>2, <4>1 DEF Rows
    <3>4. e = Append(d, v)
      BY <3>1, <3>2 DEF v
    <3> QED
      BY <3>1, <3>3, <3>4 DEF v
  <2> HIDE DEF d, v
  <2>2. Both(d, v)
    BY <1>1, <2>1
  <2>3. row = Got(d, at + Len(RowSpelling(spelt, d)))
    BY <1>4, <2>1, <2>2 DEF ReadsAs, RowSpelt
  <2>4. row.ok /\ row.value = d /\ row.next = at + Len(RowSpelling(spelt, d))
    BY <2>3 DEF Got
  <2>5. row.next \in Offsets(bytes)
    BY <1>2, <1>4, <2>1, <2>2, <2>4
  <2>6. reader[row.next] = Got(v, row.next + Len(spelt[n + 1][v]))
    BY <1>4, <2>1, <2>2, <2>4, <2>5 DEF ReadsAs, Faithful
  <2>7. read = Got(e, row.next + Len(spelt[n + 1][v]))
    BY <2>1, <2>4, <2>6 DEF Extended, Got
  <2>8. at + Len(RowSpelling(spelt, e)) = row.next + Len(spelt[n + 1][v])
    <3>1. at \in Nat /\ spelt[n + 1][v] \in Seq(Byte)
      BY <1>5, <2>1 DEF Offsets
    <3>2. RowSpelling(spelt, d) \in Seq(Byte)
      BY <1>0, <2>1
    <3> QED
      <4>1. Len(RowSpelling(spelt, e)) =
              Len(RowSpelling(spelt, d)) + Len(spelt[n + 1][v])
        BY <2>1, <2>2
      <4>2. /\ Len(RowSpelling(spelt, d)) \in Nat
            /\ Len(spelt[n + 1][v]) \in Nat
        BY <3>1, <3>2, LenProperties
      <4>3. \A a, b \in Nat : at + (a + b) = (at + a) + b
        BY <3>1
      <4>4. row.next = at + Len(RowSpelling(spelt, d))
        BY <2>4
      <4> HIDE DEF read, Old, New, Both
      <4> QED
        BY <4>1, <4>2, <4>3, <4>4
  <2> QED
    BY <2>7, <2>8
<1> QED
  BY <1>3, <1>4 DEF ReadsAs, RowSpelt

(* ReadRow is that, as often as there are readers.                         *)
Chained(f, readers, at, n) ==
  f = [i \in 0..n |->
         IF i = 0 THEN Got(<< >>, at) ELSE Extended(f[i - 1], readers[i])]

(* As often as wished: the row of results exists.                          *)
LEMMA ChainExists ==
  ASSUME NEW readers, NEW at, NEW n \in Nat
  PROVE  \E f : Chained(f, readers, at, n)
<1> DEFINE Reached == {m \in Nat : \E f : Chained(f, readers, at, m)}
<1>1. 0 \in Reached
  <2> DEFINE f == [i \in 0..0 |-> Got(<< >>, at)]
  <2>1. Chained(f, readers, at, 0)
    BY DEF Chained
  <2> QED
    BY <2>1
<1>2. ASSUME NEW m \in Nat, NEW f, Chained(f, readers, at, m)
      PROVE  \E g : Chained(g, readers, at, m + 1)
  <2> DEFINE g == [i \in 0..(m + 1) |->
                     IF i = m + 1 THEN Extended(f[m], readers[i]) ELSE f[i]]
  <2>1. \A i \in 0..m : f[i] =
          IF i = 0 THEN Got(<< >>, at) ELSE Extended(f[i - 1], readers[i])
    BY <1>2 DEF Chained
  <2>2. \A i \in 0..(m + 1) : g[i] =
          IF i = 0 THEN Got(<< >>, at) ELSE Extended(g[i - 1], readers[i])
    BY <2>1
  <2>3. Chained(g, readers, at, m + 1)
    BY <2>2 DEF Chained
  <2> QED
    BY <2>3
<1>3. Nat \subseteq Reached
  <2>1. \A m \in Nat : m \in Reached => m + 1 \in Reached
    BY <1>2
  <2> HIDE DEF Reached
  <2> QED
    BY <1>1, <2>1, NatSetInduction
<1> QED
  BY <1>3

AllFaithful(bytes, n, readers, fits, spelt) ==
  \A i \in 1..n : Faithful(bytes, readers[i], fits[i], spelt[i])

(* Readers in a row read rows.                                             *)
LEMMA RowReads ==
  ASSUME NEW bytes \in Seq(Byte), NEW at \in Offsets(bytes),
         NEW U, NEW n \in Nat, NEW R, NEW readers \in [1..n -> R],
         NEW fits, NEW spelt,
         Written(U, n, fits, spelt),
         AllFaithful(bytes, n, readers, fits, spelt)
  PROVE  ReadsAs(bytes, at, ReadRow(readers, at), Rows(U, n, fits),
                 RowSpelt(U, n, fits, spelt))
<1> DEFINE row == CHOOSE f : Chained(f, readers, at, n)
           Good(m) == ReadsAs(bytes, at, row[m], Rows(U, m, fits),
                        RowSpelt(U, m, fits, spelt))
           Reached == {m \in Nat : m <= n => Good(m)}
<1>1. Len(readers) = n
  OBVIOUS
<1>2. ReadRow(readers, at) = row[n]
  BY <1>1 DEF ReadRow, Chained
<1>3. Chained(row, readers, at, n)
  BY ChainExists
<1> HIDE DEF row
<1>4. /\ row[0] = Got(<< >>, at)
      /\ \A i \in 1..n : row[i] = Extended(row[i - 1], readers[i])
  BY <1>3 DEF Chained
<1>5. Good(0)
  <2>1. Rows(U, 0, fits) = {<< >>}
    <3>1. << >> \in Rows(U, 0, fits)
      BY EmptySeq DEF Rows
    <3>2. ASSUME NEW d \in Rows(U, 0, fits)
          PROVE  d = << >>
      <4>1. d \in Seq(U) /\ Len(d) = 0
        BY DEF Rows
      <4> QED
        BY <4>1, EmptySeq
    <3> QED
      BY <3>1, <3>2
  <2>2. RowSpelling(spelt, << >>) = << >>
    BY FlattenEmpty DEF RowSpelling
  <2>3. Spells(bytes, at, << >>)
    BY EmptySeq, LenProperties DEF Spells, Offsets
  <2>4. Got(<< >>, at) = Got(<< >>, at + Len(<< >>))
        /\ Got(<< >>, at).value = << >>
    BY DEF Got, Offsets
  <2> QED
    BY <1>4, <2>1, <2>2, <2>3, <2>4 DEF ReadsAs, RowSpelt
<1>6. ASSUME NEW m \in Nat, m + 1 <= n, Good(m)
      PROVE  Good(m + 1)
  <2>1. row[m + 1] = Extended(row[m], readers[m + 1])
    BY <1>4, <1>6
  <2>2. Written(U, m + 1, fits, spelt)
    BY <1>6 DEF Written
  <2>3. Faithful(bytes, readers[m + 1], fits[m + 1], spelt[m + 1])
    BY <1>6 DEF AllFaithful
  <2>4. ReadsAs(bytes, at, Extended(row[m], readers[m + 1]),
                Rows(U, m + 1, fits), RowSpelt(U, m + 1, fits, spelt))
    BY <1>6, <2>2, <2>3, ExtendedReads
  <2> QED
    BY <2>1, <2>4
<1>7. Nat \subseteq Reached
  <2>1. 0 \in Reached
    BY <1>5
  <2>2. \A m \in Nat : m \in Reached => m + 1 \in Reached
    <3> HIDE DEF Good
    <3> QED
      BY <1>6
  <2> HIDE DEF Reached
  <2> QED
    BY <2>1, <2>2, NatSetInduction
<1>8. Good(n)
  <2> HIDE DEF Good
  <2> QED
    BY <1>7
<1> QED
  BY <1>2, <1>8

-----------------------------------------------------------------------------
(* Numbers.                                                                *)
LEMMA DivisionBy ==
  ASSUME NEW B \in Nat, B > 0, NEW v \in Nat
  PROVE  v = (v % B) + B * (v \div B)
<1>1. ASSUME NEW q \in Int, q = v \div B, NEW r \in Int, r = v % B
      PROVE  v = r + B * q
  BY <1>1, SMTT(30)
<1>2. v \div B \in Int /\ v % B \in Int
  OBVIOUS
<1> QED
  BY <1>1, <1>2

(* A number below the divisor.                                             *)
LEMMA DivisionSmall ==
  ASSUME NEW B \in Nat, NEW v \in Nat, v < B
  PROVE  v % B = v /\ v \div B = 0
OBVIOUS

(* Quotient and remainder are those a number was made of.                  *)
LEMMA DivisionBack ==
  ASSUME NEW B \in Nat, NEW q \in Nat, NEW r \in 0..(B - 1)
  PROVE  r + B * q \in Nat /\ (r + B * q) \div B = q /\ (r + B * q) % B = r
OBVIOUS

(* The quotient of a number below a product.                               *)
LEMMA DivisionBelow ==
  ASSUME NEW B \in Nat, NEW M \in Nat, NEW v \in Nat, v < B * M
  PROVE  v \div B < M
OBVIOUS

(* A number below a product, from quotient and remainder.                  *)
LEMMA ProductBelow ==
  ASSUME NEW B \in Nat, NEW M \in Nat, NEW q \in 0..(M - 1),
           NEW r \in 0..(B - 1)
  PROVE  r + B * q < B * M
OBVIOUS

(* How many numbers have so many digits.                                   *)
Power(width) ==
  IF width = 1 THEN Base ELSE IF width = 2 THEN Base * Base ELSE Count64

(* The base of the digits, and its powers.                                 *)
LEMMA Bases ==
  /\ Base \in Nat /\ Base > 0 /\ 1 \in Byte /\ 0 \in Byte
  /\ Base = Top + 1 /\ Byte = 0..(Base - 1)
  /\ Base * Base \in Nat /\ Count64 \in Nat /\ Count64 > 0
  /\ Base <= Base * Base /\ Base * Base <= Count64
<1>1. Base \in Nat /\ Base > 1 /\ Base = Top + 1 /\ Byte = 0..(Base - 1)
  BY TopAssumption DEF Base, Byte
<1>2. \A B \in Nat : B > 0 =>
        B * B \in Nat /\ B * (B * B) \in Nat /\ B <= B * B
        /\ B * B <= B * (B * B)
  OBVIOUS
<1>3. Base * Base \in Nat /\ Count64 \in Nat /\ Base <= Base * Base
        /\ Base * Base <= Count64
  BY <1>1, <1>2 DEF Count64
<1> QED
  BY <1>1, <1>3

(* A number and its last digit.                                            *)
LEMMA Division ==
  ASSUME NEW v \in Nat
  PROVE  /\ v \div Base \in Nat /\ v % Base \in Byte
         /\ v = (v % Base) + Base * (v \div Base)
<1>1. \A B \in Nat : B > 0 => v \div B \in Nat /\ v % B \in 0..(B - 1)
  OBVIOUS
<1>2. v \div Base \in Nat /\ v % Base \in Byte
  BY <1>1, Bases
<1> QED
  BY <1>2, Bases, DivisionBy

(* A number and its digits, of which so many are not 0.                    *)
Numeral(v, width, d0, d1, d2) ==
  /\ d0 \in Byte /\ d1 \in Byte /\ d2 \in Byte
  /\ width < 2 => d1 = 0
  /\ width < 3 => d2 = 0
  /\ v = d0 + Base * (d1 + Base * d2)

(* Every number that fits has such digits: what division leaves.           *)
LEMMA DigitsOf ==
  ASSUME NEW width \in 1..3, NEW v \in 0..(Power(width) - 1),
         NEW d0, d0 = v % Base, NEW d1, d1 = (v \div Base) % Base,
         NEW d2, d2 = ((v \div Base) \div Base) % Base
  PROVE  Numeral(v, width, d0, d1, d2)
<1> DEFINE q == v \div Base
           p == q \div Base
<1>0. v \in Nat /\ v < Power(width)
  BY Bases DEF Power
<1>1. q \in Nat /\ d0 \in Byte /\ v = d0 + Base * q
  BY <1>0, Division
<1>2. p \in Nat /\ d1 \in Byte /\ q = d1 + Base * p
  BY <1>1, Division
<1>3. width < 2 => v < Base
  BY <1>0 DEF Power
<1>4. width < 3 => v < Base * Base
  BY <1>0, Bases DEF Power
<1>5. v < Base * (Base * Base)
  <2>1. v < Count64
    BY <1>0, Bases DEF Power
  <2> QED
    BY <2>1 DEF Count64
<1>6. width < 2 => q = 0
  BY <1>0, <1>3, Bases, DivisionSmall
<1>7. width < 3 => q < Base
  BY <1>0, <1>4, Bases, DivisionBelow
<1>8. q < Base * Base
  BY <1>0, <1>5, Bases, DivisionBelow
<1>9. p < Base
  BY <1>1, <1>8, Bases, DivisionBelow
<1>10. p % Base = p
  BY <1>2, <1>9, Bases, DivisionSmall
<1>11. width < 3 => p = 0
  BY <1>1, <1>7, Bases, DivisionSmall
<1>12. width < 2 => d1 = 0
  <2>1. 0 % Base = 0
    BY Bases, DivisionSmall
  <2> QED
    BY <1>6, <2>1
<1> HIDE DEF q, p
<1>13. d2 = p /\ p \in Byte
  BY <1>2, <1>9, <1>10, Bases DEF p, q
<1> QED
  BY <1>1, <1>2, <1>11, <1>12, <1>13 DEF Numeral

(* A numeral is a number that fits, and its digits are unique.             *)
LEMMA DigitsTo ==
  ASSUME NEW width \in 1..3, NEW v, NEW d0, NEW d1, NEW d2,
         Numeral(v, width, d0, d1, d2)
  PROVE  /\ v \in 0..(Power(width) - 1)
         /\ d0 = v % Base /\ d1 = (v \div Base) % Base
         /\ d2 = ((v \div Base) \div Base) % Base
<1> DEFINE q == d1 + Base * d2
<1>0. /\ d0 \in 0..(Base - 1) /\ d1 \in 0..(Base - 1) /\ d2 \in 0..(Base - 1)
      /\ Base \in Nat /\ Base * Base \in Nat /\ d2 \in Nat /\ d2 < Base
      /\ (width < 2 => d1 = 0) /\ (width < 3 => d2 = 0)
  BY Bases DEF Numeral
<1>1. d2 % Base = d2
  BY <1>0, DivisionSmall
<1>2. q \in Nat /\ q \div Base = d2 /\ q % Base = d1
  BY <1>0, DivisionBack
<1>3. q < Base * Base
  BY <1>0, ProductBelow
<1>4. width < 3 => q = d1
  <2>1. Base * 0 = 0 /\ d1 + 0 = d1
    BY <1>0
  <2> QED
    BY <1>0, <2>1
<1>5. width < 3 => q < Base
  BY <1>0, <1>4
<1> HIDE DEF q
<1>6. v = d0 + Base * q
  BY DEF q, Numeral
<1>7. v \in Nat /\ v \div Base = q /\ v % Base = d0
  <2>1. /\ d0 + Base * q \in Nat
        /\ (d0 + Base * q) \div Base = q /\ (d0 + Base * q) % Base = d0
    <3>1. q \in Nat /\ Base \in Nat /\ d0 \in 0..(Base - 1)
      BY <1>0, <1>2
    <3> QED
      BY <3>1, DivisionBack
  <2> QED
    BY <1>6, <2>1
<1>8. v < Base * (Base * Base)
  <2>1. q \in 0..(Base * Base - 1)
    BY <1>0, <1>2, <1>3
  <2> QED
    BY <1>0, <1>6, <2>1, ProductBelow
<1>9. width < 3 => v < Base * Base
  <2>1. width < 3 => q \in 0..(Base - 1)
    BY <1>0, <1>2, <1>5
  <2> QED
    BY <1>0, <1>6, <2>1, ProductBelow
<1>10. width < 2 => v < Base
  <2>1. width < 2 => q = 0
    BY <1>0, <1>4
  <2>2. Base * 0 = 0 /\ d0 + 0 = d0
    BY <1>0
  <2> QED
    BY <1>0, <1>6, <2>1, <2>2
<1>11. v < Power(width) /\ Power(width) \in Nat
  <2>1. CASE width = 1
    BY <1>10, <2>1, Bases DEF Power
  <2>2. CASE width = 2
    BY <1>9, <2>2, Bases DEF Power
  <2>3. CASE width = 3
    BY <1>8, <2>3, Bases DEF Power, Count64
  <2> QED
    BY <2>1, <2>2, <2>3
<1> QED
  BY <1>1, <1>2, <1>7, <1>11

(* The digits are what the writer puts down, last one first.               *)
LEMMA LittleEndianIs ==
  ASSUME NEW width \in 1..3, NEW v \in Nat
  PROVE  /\ LittleEndian(v, width) \in Seq(Byte)
         /\ Len(LittleEndian(v, width)) = width
         /\ LittleEndian(v, width)[1] = v % Base
         /\ width > 1 => LittleEndian(v, width)[2] = (v \div Base) % Base
         /\ width > 2 =>
              LittleEndian(v, width)[3] = ((v \div Base) \div Base) % Base
<1> DEFINE d == <<v % Base, (v \div Base) % Base,
             ((v \div Base) \div Base) % Base>>
<1>1. v % Base \in Byte /\ v \div Base \in Nat
  BY Division
<1>2. (v \div Base) % Base \in Byte /\ (v \div Base) \div Base \in Nat
  BY <1>1, Division
<1>3. ((v \div Base) \div Base) % Base \in Byte
  BY <1>2, Division
<1>4. \A i \in 1..width : d[i] \in Byte
  BY <1>1, <1>2, <1>3
<1>5. /\ SubSeq(d, 1, width) \in Seq(Byte) /\ Len(SubSeq(d, 1, width)) = width
      /\ \A i \in 1..width : SubSeq(d, 1, width)[i] = d[i]
  <2> HIDE DEF d
  <2> QED
    BY <1>4, SubSeqProperties
<1> QED
  BY <1>5 DEF LittleEndian

-----------------------------------------------------------------------------
(* The leaves.                                                             *)
LEMMA ByteAt ==
  ASSUME NEW bytes \in Seq(Byte), NEW at \in Offsets(bytes)
  PROVE  /\ at \in Nat /\ at >= 1 /\ Len(bytes) \in Nat
         /\ at <= Len(bytes) => bytes[at] \in Byte
<1>1. Len(bytes) \in Nat /\ at \in 1..(Len(bytes) + 1)
  BY LenProperties DEF Offsets
<1>2. ASSUME at <= Len(bytes)
      PROVE  bytes[at] \in Byte
  <2>1. at \in 1..Len(bytes)
    BY <1>1, <1>2
  <2> QED
    BY <2>1, ElementOfSeq
<1> QED
  BY <1>1, <1>2

(* One byte stands at an offset.                                           *)
LEMMA SpellsByte ==
  ASSUME NEW bytes \in Seq(Byte), NEW at \in Offsets(bytes), NEW v
  PROVE  /\ Spells(bytes, at, <<v>>) <=> at <= Len(bytes) /\ bytes[at] = v
         /\ Len(<<v>>) = 1
<1>1. /\ Len(<<v>>) = 1 /\ <<v>>[1] = v /\ Len(bytes) \in Nat /\ at \in Nat
  BY ByteAt
<1>2. \A i \in 1..1 : i = 1 /\ at + i - 1 = at
  BY <1>1
<1>3. Spells(bytes, at, <<v>>) <=> at <= Len(bytes) /\ bytes[at] = v
  BY <1>1, <1>2 DEF Spells
<1> QED
  BY <1>1, <1>3

(* An enum tag, or a fixed array: a byte below the limit.                  *)
LEMMA ByteReads ==
  ASSUME NEW bytes \in Seq(Byte), NEW at \in Offsets(bytes),
           NEW limit \in 1..Base
  PROVE  ReadsAs(bytes, at, ReadByte(bytes, at, limit), 0..(limit - 1),
                 [v \in 0..(limit - 1) |-> <<v>>])
<1> DEFINE fits == 0..(limit - 1)
           read == ReadByte(bytes, at, limit)
<1>0. limit \in Nat /\ Byte \subseteq Nat /\ at \in Nat /\ Len(bytes) \in Nat
  BY Bases, ByteAt
<1>1. ASSUME read.ok
      PROVE  /\ read.value \in fits /\ Spells(bytes, at, <<read.value>>)
             /\ read = Got(read.value, at + Len(<<read.value>>))
  <2>1. /\ at <= Len(bytes) /\ ~(bytes[at] >= limit)
        /\ read = Got(bytes[at], at + 1)
    BY <1>0, <1>1 DEF ReadByte, Refusal
  <2>2. read.value = bytes[at]
    BY <2>1 DEF Got
  <2>3. bytes[at] \in fits
    <3>1. bytes[at] \in Nat
      BY <1>0, <2>1, ByteAt
    <3>2. \A n \in Nat : n >= limit \/ n \in fits
      BY <1>0
    <3> QED
      BY <2>1, <3>1, <3>2
  <2>4. Spells(bytes, at, <<bytes[at]>>) /\ Len(<<bytes[at]>>) = 1
    BY <2>1, SpellsByte
  <2> QED
    BY <2>1, <2>2, <2>3, <2>4
<1>2. ASSUME NEW v \in fits, Spells(bytes, at, <<v>>)
      PROVE  read = Got(v, at + Len(<<v>>))
  <2>1. at <= Len(bytes) /\ bytes[at] = v /\ ~(v >= limit)
    BY <1>0, <1>2, SpellsByte
  <2> QED
    BY <1>0, <2>1, SpellsByte DEF ReadByte
<1> QED
  BY <1>1, <1>2 DEF ReadsAs

(* A boolean is 0 or 1; the strict reader takes nothing else.              *)
LEMMA BoolReads ==
  ASSUME NEW bytes \in Seq(Byte), NEW at \in Offsets(bytes)
  PROVE  ReadsAs(bytes, at, ReadBool(bytes, at), BOOLEAN,
                 [v \in BOOLEAN |-> <<IF v THEN 1 ELSE 0>>])
<1> DEFINE read == ReadBool(bytes, at)
           as(v) == <<IF v THEN 1 ELSE 0>>
<1>0. /\ Byte \subseteq Nat /\ at \in Nat /\ Len(bytes) \in Nat
      /\ as(TRUE) = <<1>> /\ as(FALSE) = <<0>>
  BY Bases, ByteAt
<1>1. at <= Len(bytes) => bytes[at] \in Nat
  BY <1>0, ByteAt
<1>2. CASE at > Len(bytes) \/ bytes[at] > 1
  <2>1. read = Refusal /\ ~read.ok
    BY <1>2 DEF ReadBool, Refusal
  <2>2. ~Spells(bytes, at, <<1>>) /\ ~Spells(bytes, at, <<0>>)
    BY <1>0, <1>2, SpellsByte
  <2>3. \A v \in BOOLEAN : ~Spells(bytes, at, as(v))
    <3>1. \A v \in BOOLEAN : as(v) = <<1>> \/ as(v) = <<0>>
      OBVIOUS
    <3> QED
      BY <2>2, <3>1
  <2> QED
    BY <2>1, <2>3 DEF ReadsAs
<1>3. CASE at <= Len(bytes) /\ bytes[at] = 1
  <2>1. (bytes[at] = 1) = TRUE /\ ~(at > Len(bytes) \/ bytes[at] > 1)
    BY <1>0, <1>3
  <2>2. read = Got(TRUE, at + 1)
    BY <2>1 DEF ReadBool
  <2>3. Spells(bytes, at, as(TRUE)) /\ Len(as(TRUE)) = 1
    BY <1>0, <1>3, SpellsByte
  <2>4. \A v \in BOOLEAN : Spells(bytes, at, as(v)) => v = TRUE
    <3>1. ~Spells(bytes, at, <<0>>)
      BY <1>3, SpellsByte
    <3>2. \A v \in BOOLEAN : v = TRUE \/ as(v) = <<0>>
      OBVIOUS
    <3> QED
      BY <3>1, <3>2
  <2>5. read.value = TRUE
    BY <2>2 DEF Got
  <2> HIDE DEF as, read
  <2>6. /\ read.value \in BOOLEAN /\ Spells(bytes, at, as(read.value))
        /\ read = Got(read.value, at + Len(as(read.value)))
    BY <2>2, <2>3, <2>5
  <2>7. \A v \in BOOLEAN : Spells(bytes, at, as(v)) =>
          read = Got(v, at + Len(as(v)))
    BY <2>2, <2>3, <2>4
  <2> QED
    BY <2>6, <2>7 DEF ReadsAs, as, read
<1>4. CASE at <= Len(bytes) /\ bytes[at] = 0
  <2>1. (bytes[at] = 1) = FALSE /\ ~(at > Len(bytes) \/ bytes[at] > 1)
    BY <1>0, <1>4
  <2>2. read = Got(FALSE, at + 1)
    BY <2>1 DEF ReadBool
  <2>3. Spells(bytes, at, as(FALSE)) /\ Len(as(FALSE)) = 1
    BY <1>0, <1>4, SpellsByte
  <2>4. \A v \in BOOLEAN : Spells(bytes, at, as(v)) => v = FALSE
    <3>1. ~Spells(bytes, at, <<1>>)
      BY <1>4, SpellsByte
    <3>2. \A v \in BOOLEAN : v = FALSE \/ as(v) = <<1>>
      OBVIOUS
    <3> QED
      BY <3>1, <3>2
  <2>5. read.value = FALSE
    BY <2>2 DEF Got
  <2> HIDE DEF as, read
  <2>6. /\ read.value \in BOOLEAN /\ Spells(bytes, at, as(read.value))
        /\ read = Got(read.value, at + Len(as(read.value)))
    BY <2>2, <2>3, <2>5
  <2>7. \A v \in BOOLEAN : Spells(bytes, at, as(v)) =>
          read = Got(v, at + Len(as(v)))
    BY <2>2, <2>3, <2>4
  <2> QED
    BY <2>6, <2>7 DEF ReadsAs, as, read
<1> QED
  BY <1>0, <1>1, <1>2, <1>3, <1>4

(* An integer of one, two or three bytes.                                  *)
LEMMA IntReads ==
  ASSUME NEW bytes \in Seq(Byte), NEW at \in Offsets(bytes), NEW width \in 1..3
  PROVE  ReadsAs(bytes, at, ReadInt(bytes, at, width), 0..(Power(width) - 1),
                 [v \in 0..(Power(width) - 1) |-> LittleEndian(v, width)])
<1> DEFINE fits == 0..(Power(width) - 1)
           digit(i) == IF i < width THEN bytes[at + i] ELSE 0
           value == digit(0) + Base * (digit(1) + Base * digit(2))
           read == ReadInt(bytes, at, width)
           le(v) == LittleEndian(v, width)
<1>0. /\ Byte \subseteq Nat /\ 0 \in Byte /\ at \in Nat /\ at >= 1
      /\ Len(bytes) \in Nat /\ width \in {1, 2, 3}
  BY Bases, LenProperties DEF Offsets
<1>1. fits \subseteq Nat
  BY Bases DEF Power
<1>2. \A i \in 0..2 : at + width <= Len(bytes) + 1 => digit(i) \in Byte
  <2>1. ASSUME NEW i \in 0..2, at + width <= Len(bytes) + 1, i < width
        PROVE  bytes[at + i] \in Byte
    <3>1. at + i \in 1..Len(bytes)
      BY <1>0, <2>1
    <3> QED
      BY <3>1, ElementOfSeq
  <2> QED
    BY <1>0, <2>1
<1>3. ASSUME at + width <= Len(bytes) + 1
      PROVE  /\ value \in fits /\ Spells(bytes, at, le(value))
             /\ at + Len(le(value)) = at + width
  <2> DEFINE d0 == digit(0)
             d1 == digit(1)
             d2 == digit(2)
  <2>1. /\ d0 \in Byte /\ d1 \in Byte /\ d2 \in Byte
        /\ (width < 2 => d1 = 0) /\ (width < 3 => d2 = 0)
    BY <1>0, <1>2, <1>3
  <2>2. /\ d0 = bytes[at]
        /\ width > 1 => d1 = bytes[at + 1]
        /\ width > 2 => d2 = bytes[at + 2]
    BY <1>0
  <2>3. value = d0 + Base * (d1 + Base * d2)
    OBVIOUS
  <2> HIDE DEF d0, d1, d2, value, fits
  <2>4. /\ value \in 0..(Power(width) - 1)
        /\ d0 = value % Base /\ d1 = (value \div Base) % Base
        /\ d2 = ((value \div Base) \div Base) % Base
    <3>1. Numeral(value, width, d0, d1, d2)
      BY <2>1, <2>3 DEF Numeral
    <3> QED
      BY <3>1, DigitsTo
  <2>5. value \in Nat
    BY <1>1, <2>4 DEF fits
  <2>6. /\ Len(le(value)) = width /\ le(value)[1] = d0
        /\ width > 1 => le(value)[2] = d1
        /\ width > 2 => le(value)[3] = d2
    BY <2>4, <2>5, LittleEndianIs
  <2>7. ASSUME NEW i \in 1..width
        PROVE  bytes[at + i - 1] = le(value)[i]
    <3> HIDE DEF le
    <3>1. CASE i = 1
      BY <1>0, <2>2, <2>6, <3>1
    <3>2. CASE i = 2
      <4>1. at + 2 - 1 = at + 1 /\ width > 1
        BY <1>0, <3>2
      <4> QED
        BY <2>2, <2>6, <3>2, <4>1
    <3>3. CASE i = 3
      <4>1. at + 3 - 1 = at + 2 /\ width > 2
        BY <1>0, <3>3
      <4> QED
        BY <2>2, <2>6, <3>3, <4>1
    <3> QED
      BY <1>0, <3>1, <3>2, <3>3
  <2> QED
    BY <1>3, <2>4, <2>6, <2>7 DEF Spells, fits
<1>4. ASSUME NEW v \in fits, Spells(bytes, at, le(v))
      PROVE  /\ at + width <= Len(bytes) + 1 /\ value = v
             /\ at + Len(le(v)) = at + width
  <2> DEFINE d0 == v % Base
             d1 == (v \div Base) % Base
             d2 == ((v \div Base) \div Base) % Base
  <2>0. v \in Nat
    BY <1>1
  <2>1. /\ d0 \in Byte /\ d1 \in Byte /\ d2 \in Byte
        /\ width < 2 => d1 = 0
        /\ width < 3 => d2 = 0
        /\ v = d0 + Base * (d1 + Base * d2)
    BY DigitsOf DEF Numeral
  <2>2. /\ Len(le(v)) = width /\ le(v)[1] = d0
        /\ width > 1 => le(v)[2] = d1
        /\ width > 2 => le(v)[3] = d2
    BY <2>0, LittleEndianIs
  <2> HIDE DEF d0, d1, d2, le
  <2>3. /\ at + width <= Len(bytes) + 1
        /\ \A i \in 1..width : bytes[at + i - 1] = le(v)[i]
    BY <1>4, <2>2 DEF Spells
  <2>4. digit(0) = d0
    <3>1. 1 \in 1..width /\ at + 1 - 1 = at /\ at + 0 = at /\ 0 < width
      BY <1>0
    <3> QED
      BY <2>2, <2>3, <3>1
  <2>5. digit(1) = d1
    <3>1. CASE width = 1
      BY <2>1, <3>1
    <3>2. CASE width > 1
      <4>1. 2 \in 1..width /\ at + 2 - 1 = at + 1 /\ 1 < width
        BY <1>0, <3>2
      <4> QED
        BY <2>2, <2>3, <3>2, <4>1
    <3> QED
      BY <1>0, <3>1, <3>2
  <2>6. digit(2) = d2
    <3>1. CASE width < 3
      BY <1>0, <2>1, <3>1
    <3>2. CASE width > 2
      <4>1. 3 \in 1..width /\ at + 3 - 1 = at + 2 /\ 2 < width
        BY <1>0, <3>2
      <4> QED
        BY <2>2, <2>3, <3>2, <4>1
    <3> QED
      BY <1>0, <3>1, <3>2
  <2> QED
    BY <2>1, <2>2, <2>3, <2>4, <2>5, <2>6
<1>5. read = IF at + width > Len(bytes) + 1 THEN Refusal
             ELSE Got(value, at + width)
  BY DEF ReadInt
<1>6. ASSUME read.ok
      PROVE  /\ read.value \in fits /\ Spells(bytes, at, le(read.value))
             /\ read = Got(read.value, at + Len(le(read.value)))
  <2> HIDE DEF value, le, fits, read
  <2>1. at + width <= Len(bytes) + 1 /\ read = Got(value, at + width)
    BY <1>0, <1>5, <1>6 DEF Refusal
  <2>2. read.value = value
    BY <2>1 DEF Got
  <2> QED
    BY <1>3, <2>1, <2>2
<1>7. ASSUME NEW v \in fits, Spells(bytes, at, le(v))
      PROVE  read = Got(v, at + Len(le(v)))
  <2> HIDE DEF value, le, fits, read
  <2>1. ~(at + width > Len(bytes) + 1)
    BY <1>0, <1>4, <1>7
  <2> QED
    BY <1>4, <1>5, <1>7, <2>1
<1> HIDE DEF read, fits
<1> QED
  BY <1>6, <1>7 DEF ReadsAs, fits, read

Signed == {v \in Int : -Count64 <= 2 * v /\ 2 * v < Count64}

(* Two's complement: half of the numbers are negative.                     *)
LEMMA SignedNumbers ==
  /\ \A v \in Signed :
       /\ v % Count64 \in 0..(Power(3) - 1)
       /\ v = IF 2 * (v % Count64) < Count64 THEN v % Count64
              ELSE (v % Count64) - Count64
  /\ \A n \in 0..(Power(3) - 1) :
       LET v == IF 2 * n < Count64 THEN n ELSE n - Count64 IN
       v \in Signed /\ v % Count64 = n
<1> DEFINE C == Count64
<1>0. C \in Nat /\ C > 0 /\ Power(3) = C
  BY Bases DEF Power
<1>1. \A v \in Int : 0 <= v /\ v < C => v % C = v
  BY <1>0
<1>2. \A v \in Int : -C <= v /\ v < 0 => v % C = v + C
  BY <1>0
<1> HIDE DEF C
<1>3. ASSUME NEW v \in Signed
      PROVE  v % C \in 0..(C - 1)
             /\ v = IF 2 * (v % C) < C THEN v % C ELSE (v % C) - C
  <2>1. v \in Int /\ -C <= 2 * v /\ 2 * v < C
    BY DEF Signed, C
  <2>2. CASE 0 <= v
    BY <1>0, <1>1, <2>1, <2>2
  <2>3. CASE v < 0
    <3>1. v % C = v + C
      BY <1>0, <1>2, <2>1, <2>3
    <3> QED
      BY <1>0, <2>1, <2>3, <3>1
  <2> QED
    BY <2>1, <2>2, <2>3
<1>4. ASSUME NEW n \in 0..(C - 1), NEW v, v = IF 2 * n < C THEN n ELSE n - C
      PROVE  v \in Signed /\ v % C = n
  <2>0. n \in Nat /\ n < C
    BY <1>0
  <2>1. CASE 2 * n < C
    BY <1>0, <1>1, <1>4, <2>0, <2>1 DEF Signed, C
  <2>2. CASE ~(2 * n < C)
    <3>1. v = n - C /\ v \in Int /\ -C <= v /\ v < 0 /\ v + C = n
      BY <1>0, <1>4, <2>0, <2>2
    <3>2. -C <= 2 * v /\ 2 * v < C
      BY <1>0, <2>0, <2>2, <3>1
    <3> QED
      BY <1>2, <3>1, <3>2 DEF Signed, C
  <2> QED
    BY <2>1, <2>2
<1> QED
  BY <1>0, <1>3, <1>4 DEF C

(* A signed integer is the unsigned one, seen from the middle.             *)
LEMMA SignedReads ==
  ASSUME NEW bytes \in Seq(Byte), NEW at \in Offsets(bytes)
  PROVE  ReadsAs(bytes, at, ReadSigned(bytes, at), Signed,
                 [v \in Signed |-> LittleEndian(v % Count64, 3)])
<1> DEFINE fits == 0..(Power(3) - 1)
           plain == ReadInt(bytes, at, 3)
           read == ReadSigned(bytes, at)
           le(n) == LittleEndian(n, 3)
           signed(n) == IF 2 * n < Count64 THEN n ELSE n - Count64
<1>1. /\ plain.ok => /\ plain.value \in fits
                     /\ Spells(bytes, at, le(plain.value))
                     /\ plain = Got(plain.value, at + Len(le(plain.value)))
      /\ \A n \in fits : Spells(bytes, at, le(n)) =>
           plain = Got(n, at + Len(le(n)))
  <2>1. ReadsAs(bytes, at, plain, fits, [n \in fits |-> le(n)])
    <3>1. 3 \in 1..3
      OBVIOUS
    <3> QED
      BY <3>1, IntReads
  <2> HIDE DEF plain, fits, le
  <2> QED
    BY <2>1 DEF ReadsAs
<1>2. read = IF ~plain.ok THEN plain ELSE Got(signed(plain.value), plain.next)
  <2>1. plain.ok => plain = Got(plain.value, plain.next)
    BY <1>1 DEF Got
  <2> HIDE DEF plain
  <2> QED
    BY <2>1 DEF ReadSigned, plain
<1>3. /\ \A v \in Signed : v % Count64 \in fits /\ v = signed(v % Count64)
      /\ \A n \in fits : signed(n) \in Signed /\ signed(n) % Count64 = n
  BY SignedNumbers
<1> HIDE DEF plain, read, le, signed, fits
<1>4. ASSUME read.ok
      PROVE  /\ read.value \in Signed
             /\ Spells(bytes, at, le(read.value % Count64))
             /\ read = Got(read.value, at + Len(le(read.value % Count64)))
  <2>1. plain.ok
    BY <1>2, <1>4
  <2>2. read = Got(signed(plain.value), plain.next)
    BY <1>2, <2>1
  <2>3. read.value = signed(plain.value)
    BY <2>2 DEF Got
  <2>4. plain.next = at + Len(le(plain.value))
    BY <1>1, <2>1 DEF Got
  <2> QED
    BY <1>1, <1>3, <2>1, <2>2, <2>3, <2>4
<1>5. ASSUME NEW v \in Signed, Spells(bytes, at, le(v % Count64))
      PROVE  read = Got(v, at + Len(le(v % Count64)))
  <2>1. plain = Got(v % Count64, at + Len(le(v % Count64)))
    BY <1>1, <1>3, <1>5
  <2>2. /\ plain.ok /\ plain.value = v % Count64
        /\ plain.next = at + Len(le(v % Count64))
    BY <2>1 DEF Got
  <2> QED
    BY <1>2, <1>3, <2>2
<1> QED
  BY <1>4, <1>5 DEF ReadsAs, le, read

(* A byte string: its length, and as many bytes.                           *)
LEMMA BytesReads ==
  ASSUME NEW bytes \in Seq(Byte), NEW at \in Offsets(bytes)
  PROVE  ReadsAs(bytes, at, ReadBytes(bytes, at),
                 {s \in Seq(Byte) : Len(s) <= Top},
                 [s \in {s \in Seq(Byte) : Len(s) <= Top} |-> <<Len(s)>> \o s])
<1> DEFINE fits == {s \in Seq(Byte) : Len(s) <= Top}
           read == ReadBytes(bytes, at)
           as(s) == <<Len(s)>> \o s
<1>0. /\ at \in Nat /\ at >= 1 /\ Len(bytes) \in Nat
      /\ at <= Len(bytes) => bytes[at] \in Byte
      /\ Byte \subseteq Nat /\ Top \in Nat /\ Byte = 0..Top
  BY ByteAt, TopAssumption DEF Byte
<1>1. ASSUME NEW s \in fits
      PROVE  /\ Len(s) \in Nat /\ Len(s) \in Byte
             /\ Len(as(s)) = 1 + Len(s)
             /\ Spells(bytes, at, as(s)) <=>
                  /\ at <= Len(bytes) /\ bytes[at] = Len(s)
                  /\ Spells(bytes, at + 1, s)
  <2>1. Len(s) \in Nat /\ Len(s) \in Byte /\ s \in Seq(Byte)
    BY <1>0, LenProperties
  <2>2. <<Len(s)>> \in Seq(Byte) /\ Len(<<Len(s)>>) = 1
    BY <2>1
  <2>3. Len(as(s)) = 1 + Len(s)
    BY <2>1, <2>2, ConcatProperties
  <2>4. Spells(bytes, at, as(s)) <=>
          Spells(bytes, at, <<Len(s)>>) /\ Spells(bytes, at + 1, s)
    BY <2>1, <2>2, SpellsConcat
  <2> QED
    BY <2>1, <2>3, <2>4, SpellsByte
<1>2. ASSUME at <= Len(bytes), at + bytes[at] <= Len(bytes)
      PROVE  LET s == SubSeq(bytes, at + 1, at + bytes[at]) IN
             /\ s \in fits /\ Len(s) = bytes[at] /\ Spells(bytes, at + 1, s)
  <2> DEFINE n == bytes[at]
             from == at + 1
             to == at + n
             s == SubSeq(bytes, from, to)
  <2>1. n \in Byte /\ n \in Nat /\ to <= Len(bytes)
    BY <1>0, <1>2
  <2>2. /\ from \in Int /\ to \in Int
        /\ \A i \in from..to : i \in 1..Len(bytes)
        /\ to - from + 1 = n /\ n = IF from <= to THEN to - from + 1 ELSE 0
        /\ \A i \in 1..n : at + 1 + i - 1 = from + i - 1
        /\ at + 1 + n <= Len(bytes) + 1
    BY <1>0, <2>1
  <2> HIDE DEF from, to, n
  <2>3. \A i \in from..to : bytes[i] \in Byte
    BY <2>2, ElementOfSeq
  <2>4. /\ s \in Seq(Byte)
        /\ Len(s) = IF from <= to THEN to - from + 1 ELSE 0
        /\ \A i \in 1..(to - from + 1) : s[i] = bytes[from + i - 1]
    BY <2>2, <2>3, SubSeqProperties
  <2>5. Len(s) = n /\ \A i \in 1..n : s[i] = bytes[from + i - 1]
    BY <2>2, <2>4
  <2> HIDE DEF s
  <2>6. s \in fits
    BY <1>0, <2>1, <2>4, <2>5
  <2>7. Spells(bytes, at + 1, s)
    BY <2>2, <2>5 DEF Spells
  <2> QED
    BY <2>5, <2>6, <2>7 DEF s, n, from, to
<1>3. ASSUME NEW s \in fits, at <= Len(bytes), bytes[at] = Len(s),
             Spells(bytes, at + 1, s)
      PROVE  /\ at + bytes[at] <= Len(bytes)
             /\ SubSeq(bytes, at + 1, at + bytes[at]) = s
  <2>1. /\ Len(s) \in Nat /\ at + 1 + Len(s) <= Len(bytes) + 1
        /\ \A i \in 1..Len(s) : bytes[at + 1 + i - 1] = s[i]
    BY <1>1, <1>3 DEF Spells
  <2>2. at + bytes[at] <= Len(bytes)
    BY <1>0, <1>3, <2>1
  <2> DEFINE r == SubSeq(bytes, at + 1, at + bytes[at])
  <2>3. r \in Seq(Byte) /\ Len(r) = Len(s) /\ Spells(bytes, at + 1, r)
    BY <1>2, <1>3, <2>2
  <2> HIDE DEF r
  <2>4. \A i \in 1..Len(r) : r[i] = s[i]
    BY <2>1, <2>3 DEF Spells
  <2>5. r = s
    BY <2>3, <2>4, SeqEqual
  <2> QED
    BY <2>2, <2>5 DEF r
<1>4. ASSUME read.ok
      PROVE  /\ read.value \in fits /\ Spells(bytes, at, as(read.value))
             /\ read = Got(read.value, at + Len(as(read.value)))
  <2> DEFINE s == SubSeq(bytes, at + 1, at + bytes[at])
  <2>1. /\ at <= Len(bytes) /\ at + bytes[at] <= Len(bytes)
        /\ read = Got(s, at + bytes[at] + 1)
    <3>1. ~(at > Len(bytes) \/ at + bytes[at] > Len(bytes))
      BY <1>4 DEF ReadBytes, Refusal
    <3> QED
      BY <1>0, <3>1 DEF ReadBytes
  <2>2. s \in fits /\ Len(s) = bytes[at] /\ Spells(bytes, at + 1, s)
    BY <1>2, <2>1
  <2> HIDE DEF s, fits, read
  <2>3. read.value = s
    BY <2>1 DEF Got
  <2>4. Spells(bytes, at, as(s)) /\ Len(as(s)) = 1 + Len(s) /\ Len(s) \in Nat
    BY <1>1, <2>1, <2>2
  <2>5. at + bytes[at] + 1 = at + (1 + Len(s))
    BY <1>0, <2>2, <2>4
  <2> QED
    BY <2>1, <2>2, <2>3, <2>4, <2>5
<1>5. ASSUME NEW s \in fits, Spells(bytes, at, as(s))
      PROVE  read = Got(s, at + Len(as(s)))
  <2>1. /\ at <= Len(bytes) /\ bytes[at] = Len(s) /\ Spells(bytes, at + 1, s)
        /\ Len(as(s)) = 1 + Len(s) /\ Len(s) \in Nat
    BY <1>1, <1>5
  <2>2. /\ at + bytes[at] <= Len(bytes)
        /\ SubSeq(bytes, at + 1, at + bytes[at]) = s
    BY <1>3, <2>1
  <2>3. read = Got(s, at + bytes[at] + 1)
    <3>1. ~(at > Len(bytes) \/ at + bytes[at] > Len(bytes))
      BY <1>0, <2>1, <2>2
    <3> QED
      BY <2>2, <3>1 DEF ReadBytes
  <2>4. at + bytes[at] + 1 = at + (1 + Len(s))
    BY <1>0, <2>1
  <2> QED
    BY <2>1, <2>3, <2>4
<1> HIDE DEF read
<1> QED
  BY <1>4, <1>5 DEF ReadsAs, read

LeafTypes ==
  {IntOf(width) : width \in 1..3} \cup {I64, Fixed, Bool, Data}
    \cup {Enum(n) : n \in 1..Base}

(* The values a field may hold.                                            *)
LeafFits(type) ==
  CASE type.t = "bool" -> BOOLEAN
    [] type.t = "enum" -> 0..(type.n - 1)
    [] type.t = "int" -> 0..(Power(type.width) - 1)
    [] type.t = "i64" -> Signed
    [] type.t = "bytes" -> {s \in Seq(Byte) : Len(s) <= Top}
    [] OTHER -> 0..(Base - 1)
LeafSpelt(type) == [v \in LeafFits(type) |-> WriteLeaf(type, v)]

(* Whatever the type of a field without a vector, it is read faithfully.   *)
LEMMA LeafReads ==
  ASSUME NEW bytes \in Seq(Byte), NEW type \in LeafTypes
  PROVE  Faithful(bytes, LeafReader(type, bytes), LeafFits(type),
           LeafSpelt(type))
<1> SUFFICES ASSUME NEW at \in Offsets(bytes)
             PROVE  ReadsAs(bytes, at, ReadLeaf(type, bytes, at),
                            LeafFits(type), LeafSpelt(type))
  BY DEF Faithful, LeafReader
<1>1. CASE type = Bool
  <2>1. /\ ReadLeaf(type, bytes, at) = ReadBool(bytes, at)
        /\ LeafFits(type) = BOOLEAN
        /\ \A v : WriteLeaf(type, v) = <<IF v THEN 1 ELSE 0>>
    BY <1>1 DEF Bool, ReadLeaf, LeafFits, WriteLeaf
  <2> QED
    BY <2>1, BoolReads DEF LeafSpelt
<1>2. CASE type = Data
  <2>1. /\ ReadLeaf(type, bytes, at) = ReadBytes(bytes, at)
        /\ LeafFits(type) = {s \in Seq(Byte) : Len(s) <= Top}
        /\ \A v : WriteLeaf(type, v) = <<Len(v)>> \o v
    BY <1>2 DEF Data, ReadLeaf, LeafFits, WriteLeaf
  <2> QED
    BY <2>1, BytesReads DEF LeafSpelt
<1>3. CASE type = I64
  <2>1. /\ ReadLeaf(type, bytes, at) = ReadSigned(bytes, at)
        /\ LeafFits(type) = Signed
        /\ \A v : WriteLeaf(type, v) = LittleEndian(v % Count64, 3)
    BY <1>3 DEF I64, ReadLeaf, LeafFits, WriteLeaf
  <2> QED
    BY <2>1, SignedReads DEF LeafSpelt
<1>4. CASE type = Fixed
  <2>1. /\ ReadLeaf(type, bytes, at) = ReadByte(bytes, at, Base)
        /\ LeafFits(type) = 0..(Base - 1)
        /\ \A v : WriteLeaf(type, v) = <<v>>
    BY <1>4 DEF Fixed, ReadLeaf, LeafFits, WriteLeaf
  <2>2. Base \in 1..Base
    BY Bases
  <2> QED
    BY <2>1, <2>2, ByteReads DEF LeafSpelt
<1>5. ASSUME NEW n \in 1..Base, type = Enum(n)
      PROVE  ReadsAs(bytes, at, ReadLeaf(type, bytes, at),
                     LeafFits(type), LeafSpelt(type))
  <2>1. /\ ReadLeaf(type, bytes, at) = ReadByte(bytes, at, n)
        /\ LeafFits(type) = 0..(n - 1)
        /\ \A v : WriteLeaf(type, v) = <<v>>
    BY <1>5 DEF Enum, ReadLeaf, LeafFits, WriteLeaf
  <2> QED
    BY <2>1, ByteReads DEF LeafSpelt
<1>6. ASSUME NEW width \in 1..3, type = IntOf(width)
      PROVE  ReadsAs(bytes, at, ReadLeaf(type, bytes, at),
                     LeafFits(type), LeafSpelt(type))
  <2>1. /\ ReadLeaf(type, bytes, at) = ReadInt(bytes, at, width)
        /\ LeafFits(type) = 0..(Power(width) - 1)
        /\ \A v : WriteLeaf(type, v) = LittleEndian(v, width)
    BY <1>6 DEF IntOf, ReadLeaf, LeafFits, WriteLeaf
  <2> QED
    BY <2>1, IntReads DEF LeafSpelt
<1> QED
  BY <1>1, <1>2, <1>3, <1>4, <1>5, <1>6 DEF LeafTypes

(* What the writer makes of a value of such a field is bytes.              *)
LEMMA LeafWritten ==
  ASSUME NEW type \in LeafTypes, NEW v \in LeafFits(type)
  PROVE  WriteLeaf(type, v) \in Seq(Byte)
<1>0. Byte \subseteq Nat /\ 0 \in Byte /\ 1 \in Byte /\ Byte = 0..(Base - 1)
  BY Bases
<1>1. CASE type = Bool
  <2>1. WriteLeaf(type, v) = <<IF v THEN 1 ELSE 0>>
    BY <1>1 DEF Bool, WriteLeaf
  <2>2. (IF v THEN 1 ELSE 0) \in Byte
    BY <1>0
  <2> QED
    BY <2>1, <2>2
<1>2. CASE type = Data
  <2>1. WriteLeaf(type, v) = <<Len(v)>> \o v /\ v \in Seq(Byte)
        /\ Len(v) <= Top
    BY <1>2 DEF Data, WriteLeaf, LeafFits
  <2>2. Len(v) \in Byte
    BY <2>1, LenProperties, TopAssumption DEF Byte
  <2>3. <<Len(v)>> \in Seq(Byte)
    BY <2>2
  <2> QED
    BY <2>1, <2>3, ConcatProperties
<1>3. CASE type = I64
  <2>1. WriteLeaf(type, v) = LittleEndian(v % Count64, 3) /\ v \in Signed
    BY <1>3 DEF I64, WriteLeaf, LeafFits
  <2>2. v % Count64 \in 0..(Power(3) - 1) /\ 3 \in 1..3
    BY <2>1, SignedNumbers
  <2>3. v % Count64 \in Nat
    BY <2>2, Bases DEF Power
  <2> QED
    BY <2>1, <2>2, <2>3, LittleEndianIs
<1>4. CASE type = Fixed
  <2>1. WriteLeaf(type, v) = <<v>> /\ v \in Byte
    BY <1>0, <1>4 DEF Fixed, WriteLeaf, LeafFits
  <2> QED
    BY <2>1
<1>5. ASSUME NEW n \in 1..Base, type = Enum(n)
      PROVE  WriteLeaf(type, v) \in Seq(Byte)
  <2>1. WriteLeaf(type, v) = <<v>> /\ v \in 0..(n - 1)
    BY <1>5 DEF Enum, WriteLeaf, LeafFits
  <2>2. v \in Byte
    BY <2>1, Bases
  <2> QED
    BY <2>1, <2>2
<1>6. ASSUME NEW width \in 1..3, type = IntOf(width)
      PROVE  WriteLeaf(type, v) \in Seq(Byte)
  <2>1. WriteLeaf(type, v) = LittleEndian(v, width)
        /\ v \in 0..(Power(width) - 1)
    BY <1>6 DEF IntOf, WriteLeaf, LeafFits
  <2>2. v \in Nat
    BY <2>1, Bases DEF Power
  <2> QED
    BY <2>1, <2>2, LittleEndianIs
<1> QED
  BY <1>1, <1>2, <1>3, <1>4, <1>5, <1>6 DEF LeafTypes

-----------------------------------------------------------------------------
(* Vectors, and records of fields.                                         *)
VecFits(fits) == {s \in Seq(fits) : Len(s) <= Top}
VecSpelling(spelt, s) ==
  <<Len(s)>> \o FlattenSeq([i \in 1..Len(s) |-> spelt[s[i]]])

VecSpelt(fits, spelt) == [s \in VecFits(fits) |-> VecSpelling(spelt, s)]

(* A vector: its length, and as many items one after another.              *)
LEMMA VecReads ==
  ASSUME NEW bytes \in Seq(Byte), NEW fits, NEW spelt, NEW reader,
         \A v \in fits : spelt[v] \in Seq(Byte),
         Faithful(bytes, reader, fits, spelt)
  PROVE  /\ Faithful(bytes, VecReader(reader, bytes), VecFits(fits),
                     VecSpelt(fits, spelt))
         /\ \A s \in VecFits(fits) : VecSpelling(spelt, s) \in Seq(Byte)
<1> DEFINE body(s) == FlattenSeq([i \in 1..Len(s) |-> spelt[s[i]]])
           vec(s) == VecSpelling(spelt, s)
           rows(n) == Rows(fits, n, [i \in 1..n |-> fits])
           row(n, d) == RowSpelling([i \in 1..n |-> spelt], d)
<1>0. Byte = 0..Top /\ Top \in Nat /\ Byte \subseteq Nat
  BY TopAssumption DEF Byte
<1>1. ASSUME NEW s \in VecFits(fits)
      PROVE  /\ Len(s) \in Nat /\ Len(s) \in Byte /\ s \in rows(Len(s))
             /\ body(s) = row(Len(s), s) /\ body(s) \in Seq(Byte)
  <2>1. /\ s \in Seq(fits) /\ Len(s) \in Nat /\ Len(s) \in Byte
        /\ \A i \in 1..Len(s) : s[i] \in fits
    BY <1>0, LenProperties, ElementOfSeq DEF VecFits
  <2>2. s \in rows(Len(s))
    BY <2>1 DEF Rows
  <2>3. [i \in 1..Len(s) |-> spelt[s[i]]] =
          [i \in 1..Len(s) |-> [j \in 1..Len(s) |-> spelt][i][s[i]]]
    OBVIOUS
  <2>4. body(s) = row(Len(s), s)
    BY <2>3 DEF RowSpelling
  <2>5. row(Len(s), s) \in Seq(Byte)
    <3>1. \A i \in 1..Len(s) :
            [j \in 1..Len(s) |-> spelt][i][s[i]] \in Seq(Byte)
      BY <2>1
    <3> QED
      BY <2>1, <3>1, RowSpellingBytes
  <2> QED
    BY <2>1, <2>2, <2>4, <2>5
<1>2. ASSUME NEW n \in Byte, NEW d \in rows(n)
      PROVE  d \in VecFits(fits) /\ Len(d) = n
  BY <1>0 DEF Rows, VecFits
<1>3. ASSUME NEW s \in VecFits(fits)
      PROVE  vec(s) \in Seq(Byte) /\ Len(vec(s)) = 1 + Len(body(s))
             /\ Len(body(s)) \in Nat
  <2> HIDE DEF body
  <2>1. vec(s) = <<Len(s)>> \o body(s)
    BY DEF VecSpelling, body
  <2>2. <<Len(s)>> \in Seq(Byte) /\ Len(<<Len(s)>>) = 1
    <3>1. Len(s) \in Byte
      BY <1>1
    <3> QED
      BY <3>1
  <2>3. body(s) \in Seq(Byte)
    BY <1>1
  <2> QED
    BY <2>1, <2>2, <2>3, ConcatProperties, LenProperties
<1>4. ASSUME NEW s \in VecFits(fits), NEW at \in Offsets(bytes)
      PROVE  Spells(bytes, at, vec(s)) <=>
               /\ at <= Len(bytes) /\ bytes[at] = Len(s)
               /\ Spells(bytes, at + 1, body(s))
  <2> HIDE DEF body
  <2>1. vec(s) = <<Len(s)>> \o body(s)
    BY DEF VecSpelling, body
  <2>2. <<Len(s)>> \in Seq(Byte) /\ Len(<<Len(s)>>) = 1
        /\ body(s) \in Seq(Byte)
    <3>1. Len(s) \in Byte /\ body(s) \in Seq(Byte)
      BY <1>1
    <3> QED
      BY <3>1
  <2>3. Spells(bytes, at, vec(s)) <=>
          Spells(bytes, at, <<Len(s)>>) /\ Spells(bytes, at + 1, body(s))
    <3>1. Spells(bytes, at, <<Len(s)>> \o body(s)) <=>
            /\ Spells(bytes, at, <<Len(s)>>)
            /\ Spells(bytes, at + Len(<<Len(s)>>), body(s))
      BY <2>2, SpellsConcat
    <3> QED
      BY <2>1, <2>2, <3>1
  <2> QED
    BY <2>3, SpellsByte
<1>5. ASSUME NEW at \in Offsets(bytes)
      PROVE  ReadsAs(bytes, at, VecReader(reader, bytes)[at], VecFits(fits),
                     [s \in VecFits(fits) |-> vec(s)])
  <2> DEFINE n == bytes[at]
             read == VecReader(reader, bytes)[at]
             readers == [i \in 1..n |-> reader]
  <2>0. at \in Nat /\ Len(bytes) \in Nat /\ (at <= Len(bytes) => n \in Byte)
    BY ByteAt
  <2>1. CASE at > Len(bytes)
    <3>1. ~read.ok
      BY <2>1 DEF VecReader, Refusal
    <3>2. \A s \in VecFits(fits) : ~Spells(bytes, at, vec(s))
      <4>1. ~(at <= Len(bytes))
        BY <2>0, <2>1
      <4> HIDE DEF vec, body
      <4> QED
        BY <1>4, <4>1
    <3> HIDE DEF vec, read
    <3> QED
      BY <3>1, <3>2 DEF ReadsAs, read
  <2>2. CASE at <= Len(bytes)
    <3>1. n \in Byte /\ n \in Nat /\ at + 1 \in Offsets(bytes)
      BY <1>0, <2>0, <2>2 DEF Offsets
    <3>2. read = ReadRow(readers, at + 1)
      BY <2>0, <2>2 DEF VecReader
    <3>3. ReadsAs(bytes, at + 1, read, rows(n), [d \in rows(n) |-> row(n, d)])
      <4> DEFINE F == [i \in 1..n |-> fits]
                 S == [i \in 1..n |-> spelt]
      <4>1. readers \in [1..n -> {reader}]
        OBVIOUS
      <4>2. Written(fits, n, F, S)
        BY DEF Written
      <4>3. AllFaithful(bytes, n, readers, F, S)
        BY DEF AllFaithful
      <4> HIDE DEF readers, n, F, S, read
      <4>4. ReadsAs(bytes, at + 1, ReadRow(readers, at + 1), Rows(fits, n, F),
                    RowSpelt(fits, n, F, S))
        <5> DEFINE p == at + 1
                   R == {reader}
        <5>1. p \in Offsets(bytes) /\ n \in Nat
          BY <3>1
        <5>2. readers \in [1..n -> R]
          BY <4>1
        <5> HIDE DEF p, R
        <5>3. ReadsAs(bytes, p, ReadRow(readers, p), Rows(fits, n, F),
                      RowSpelt(fits, n, F, S))
          BY <5>1, <5>2, <4>2, <4>3, RowReads
        <5> QED
          BY <5>3 DEF p
      <4> QED
        BY <3>2, <4>4 DEF F, S, RowSpelt
    <3> HIDE DEF read, n, rows, row, vec, body
    <3>4. ASSUME read.ok
          PROVE  /\ read.value \in VecFits(fits)
                 /\ Spells(bytes, at, vec(read.value))
                 /\ read = Got(read.value, at + Len(vec(read.value)))
      <4> DEFINE s == read.value
      <4>1. /\ s \in rows(n) /\ Spells(bytes, at + 1, row(n, s))
            /\ read = Got(s, at + 1 + Len(row(n, s)))
        BY <3>3, <3>4 DEF ReadsAs
      <4>2. s \in VecFits(fits) /\ Len(s) = n
        BY <1>2, <3>1, <4>1
      <4>3. body(s) = row(n, s)
        BY <1>1, <4>2
      <4>4. Spells(bytes, at, vec(s))
        BY <1>4, <2>2, <4>1, <4>2, <4>3 DEF n
      <4>5. at + 1 + Len(row(n, s)) = at + Len(vec(s))
        <5>1. Len(vec(s)) = 1 + Len(body(s)) /\ Len(body(s)) \in Nat
          BY <1>3, <4>2
        <5>2. \A a \in Nat : at + 1 + a = at + (1 + a)
          BY <2>0
        <5> QED
          BY <4>3, <5>1, <5>2
      <4> QED
        BY <4>1, <4>2, <4>4, <4>5
    <3>5. ASSUME NEW s \in VecFits(fits), Spells(bytes, at, vec(s))
          PROVE  read = Got(s, at + Len(vec(s)))
      <4>1. n = Len(s) /\ Spells(bytes, at + 1, body(s))
        BY <1>4, <3>5 DEF n
      <4>2. s \in rows(n) /\ body(s) = row(n, s)
        BY <1>1, <4>1
      <4>3. read = Got(s, at + 1 + Len(row(n, s)))
        BY <3>3, <4>1, <4>2 DEF ReadsAs
      <4>4. at + 1 + Len(row(n, s)) = at + Len(vec(s))
        <5>1. Len(vec(s)) = 1 + Len(body(s)) /\ Len(body(s)) \in Nat
          BY <1>3
        <5>2. \A a \in Nat : at + 1 + a = at + (1 + a)
          BY <2>0
        <5> QED
          BY <4>2, <5>1, <5>2
      <4> QED
        BY <4>3, <4>4
    <3> QED
      BY <3>4, <3>5 DEF ReadsAs, read
  <2> QED
    BY <2>0, <2>1, <2>2
<1> QED
  BY <1>3, <1>5 DEF Faithful, VecSpelt

AnyOf(n, fits) == UNION {fits[i] : i \in 1..n}
RowFits(n, fits) == Rows(AnyOf(n, fits), n, fits)

(* A record: one reader for each field, in the order of the schema.        *)
LEMMA RecordReads ==
  ASSUME NEW bytes \in Seq(Byte), NEW n \in Nat, NEW R,
         NEW readers \in [1..n -> R], NEW fits, NEW spelt,
         \A i \in 1..n : \A v \in fits[i] : spelt[i][v] \in Seq(Byte),
         AllFaithful(bytes, n, readers, fits, spelt)
  PROVE  /\ Faithful(bytes, RowReader(readers, bytes), RowFits(n, fits),
                     RowSpelt(AnyOf(n, fits), n, fits, spelt))
         /\ \A d \in RowFits(n, fits) :
              /\ d \in Seq(AnyOf(n, fits)) /\ Len(d) = n
              /\ \A i \in 1..n : d[i] \in fits[i]
              /\ RowSpelling(spelt, d) \in Seq(Byte)
<1> DEFINE U == AnyOf(n, fits)
<1>1. Written(U, n, fits, spelt)
  BY DEF Written, AnyOf
<1>2. ASSUME NEW at \in Offsets(bytes)
      PROVE  ReadsAs(bytes, at, RowReader(readers, bytes)[at],
                     RowFits(n, fits), RowSpelt(U, n, fits, spelt))
  <2> HIDE DEF U
  <2>1. ReadsAs(bytes, at, ReadRow(readers, at), Rows(U, n, fits),
                RowSpelt(U, n, fits, spelt))
    BY <1>1, RowReads
  <2> QED
    BY <2>1 DEF RowReader, RowFits, U
<1>3. ASSUME NEW d \in RowFits(n, fits)
      PROVE  /\ d \in Seq(U) /\ Len(d) = n
             /\ \A i \in 1..n : d[i] \in fits[i]
             /\ RowSpelling(spelt, d) \in Seq(Byte)
  <2>1. /\ d \in Seq(U) /\ Len(d) = n
        /\ \A i \in 1..n : d[i] \in fits[i]
    BY DEF RowFits, Rows
  <2>2. \A i \in 1..Len(d) : spelt[i][d[i]] \in Seq(Byte)
    BY <2>1
  <2> QED
    BY <2>1, <2>2, RowSpellingBytes
<1> QED
  BY <1>2, <1>3 DEF Faithful

(* The fields' names; nothing reads them.                                  *)
Names ==
  {"may_pause", "may_unpause", "max_value_moved", "pubkey", "is_signer",
   "is_writable", "action_index", "adapter_program_id", "adapter_version",
   "adapter_capability", "target_program_id", "instruction_discriminator",
   "account_metas", "instruction_data", "capability_nonce", "domain",
   "cluster_genesis_hash", "covenant", "circle_epoch", "incident_id",
   "policy_id", "member_set_hash", "bundle_expiry_slot", "operation_id",
   "actions", "role", "template_version", "action_category", "member",
   "dependency_namespace", "dependency_id", "eligible_member_set_hash",
   "required_approvals", "maximum_rejections", "required_roles",
   "response_window_slots", "certificate_ttl_slots",
   "action_bundle_template_hash", "version", "action_bundle_hash",
   "certificate_nonce", "approval_count", "rejection_count",
   "certified_at_slot", "expires_at_slot", "steward", "policies_hash",
   "adapter_set_hash", "valid_from_slot", "decision", "submission_nonce",
   "submitted_at_slot", "state", "observation_window_start",
   "observation_window_end", "claim_schema_hash", "private_evidence_digest",
   "signal_category", "confidence_bucket", "requested_action_category",
   "submitter", "original_operation_id", "recovery_nonce"}

MetaFits(schema) ==
  RowFits(Len(schema), [i \in DOMAIN schema |-> LeafFits(schema[i][2])])
MetaSpelt(schema) == [d \in MetaFits(schema) |-> WriteMeta(schema, d)]
MetaSchemas == Seq(Names \X LeafTypes)

ActionTypes == LeafTypes \cup {Vec(schema) : schema \in MetaSchemas}
ActionFieldFits(type) ==
  IF type.t = "vec" THEN VecFits(MetaFits(type.of)) ELSE LeafFits(type)
ActionFieldSpelt(type) ==
  [v \in ActionFieldFits(type) |-> WriteActionField(type, v)]

ActionFits(schema) ==
  RowFits(Len(schema), [i \in DOMAIN schema |-> ActionFieldFits(schema[i][2])])
ActionSpelt(schema) == [d \in ActionFits(schema) |-> WriteAction(schema, d)]
ActionSchemas == Seq(Names \X ActionTypes)

Types == LeafTypes \cup {Vec(schema) : schema \in ActionSchemas}
FieldFits(type) ==
  IF type.t = "vec" THEN VecFits(ActionFits(type.of)) ELSE LeafFits(type)
FieldSpelt(type) == [v \in FieldFits(type) |-> Write(type, v)]

Documents(schema) ==
  RowFits(Len(schema), [i \in DOMAIN schema |-> FieldFits(schema[i][2])])
DocumentSpelt(schema) == [d \in Documents(schema) |-> WriteAll(schema, d)]
DocumentSchemas == Seq(Names \X Types)

(* Only vectors have the tag of a vector.                                  *)
LEMMA LeafIsNotVec ==
  ASSUME NEW type \in LeafTypes
  PROVE  type.t # "vec"
BY DEF LeafTypes, IntOf, I64, Fixed, Bool, Data, Enum

(* The innermost records.                                                  *)
LEMMA MetaReads ==
  ASSUME NEW bytes \in Seq(Byte), NEW schema \in MetaSchemas
  PROVE  /\ Faithful(bytes, MetaReader(schema, bytes), MetaFits(schema),
                     MetaSpelt(schema))
         /\ \A d \in MetaFits(schema) : WriteMeta(schema, d) \in Seq(Byte)
<1> DEFINE n == Len(schema)
           fits == [i \in DOMAIN schema |-> LeafFits(schema[i][2])]
           spelt == [i \in DOMAIN schema |-> LeafSpelt(schema[i][2])]
           readers == [i \in DOMAIN schema |-> LeafReader(schema[i][2], bytes)]
           R == {readers[i] : i \in 1..n}
<1>1. n \in Nat /\ DOMAIN schema = 1..n
      /\ \A i \in 1..n : schema[i][2] \in LeafTypes
  BY LenProperties, ElementOfSeq DEF MetaSchemas
<1>2. readers \in [1..n -> R]
  BY <1>1
<1>3. \A i \in 1..n : \A v \in fits[i] : spelt[i][v] \in Seq(Byte)
  BY <1>1, LeafReads, LeafWritten DEF LeafSpelt
<1>4. AllFaithful(bytes, n, readers, fits, spelt)
  BY <1>1, LeafReads, LeafWritten DEF AllFaithful
<1> HIDE DEF n, fits, spelt, readers, R
<1>5. /\ Faithful(bytes, RowReader(readers, bytes), RowFits(n, fits),
                  RowSpelt(AnyOf(n, fits), n, fits, spelt))
      /\ \A d \in RowFits(n, fits) :
           /\ d \in Seq(AnyOf(n, fits)) /\ Len(d) = n
           /\ \A i \in 1..n : d[i] \in fits[i]
           /\ RowSpelling(spelt, d) \in Seq(Byte)
  BY <1>1, <1>2, <1>3, <1>4, RecordReads
<1>6. MetaFits(schema) = RowFits(n, fits)
  BY DEF MetaFits, n, fits
<1>7. ASSUME NEW d \in RowFits(n, fits)
      PROVE  RowSpelling(spelt, d) = WriteMeta(schema, d)
  <2>1. Len(d) = n /\ \A i \in 1..n : d[i] \in LeafFits(schema[i][2])
    BY <1>1, <1>5 DEF fits
  <2>2. \A i \in 1..n : spelt[i][d[i]] = WriteLeaf(schema[i][2], d[i])
    BY <1>1, <2>1 DEF spelt, LeafSpelt
  <2>3. [i \in 1..n |-> spelt[i][d[i]]] =
          [i \in 1..n |-> WriteLeaf(schema[i][2], d[i])]
    BY <2>2
  <2> QED
    BY <1>1, <2>1, <2>3 DEF RowSpelling, WriteMeta
<1>8. MetaSpelt(schema) = RowSpelt(AnyOf(n, fits), n, fits, spelt)
  BY <1>6, <1>7 DEF MetaSpelt, RowSpelt, RowFits
<1>9. MetaReader(schema, bytes) = RowReader(readers, bytes)
  BY DEF MetaReader, readers
<1> QED
  BY <1>5, <1>6, <1>7, <1>8, <1>9

(* A field of an action, which may be a vector of these.                   *)
LEMMA ActionFieldReads ==
  ASSUME NEW bytes \in Seq(Byte), NEW type \in ActionTypes
  PROVE  /\ Faithful(bytes, ActionFieldReader(type, bytes),
              ActionFieldFits(type),
                     ActionFieldSpelt(type))
         /\ \A v \in ActionFieldFits(type) :
              WriteActionField(type, v) \in Seq(Byte)
<1>1. CASE type \in LeafTypes
  <2>1. type.t # "vec"
    BY <1>1, LeafIsNotVec
  <2>2. /\ ActionFieldReader(type, bytes) = LeafReader(type, bytes)
        /\ ActionFieldFits(type) = LeafFits(type)
        /\ \A v : WriteActionField(type, v) = WriteLeaf(type, v)
    BY <2>1 DEF ActionFieldReader, ActionFieldFits, WriteActionField
  <2>3. ActionFieldSpelt(type) = LeafSpelt(type)
    BY <2>2 DEF ActionFieldSpelt, LeafSpelt
  <2> QED
    BY <1>1, <2>2, <2>3, LeafReads, LeafWritten
<1>2. ASSUME NEW schema \in MetaSchemas, type = Vec(schema)
      PROVE  /\ Faithful(bytes, ActionFieldReader(type, bytes),
                  ActionFieldFits(type),
                         ActionFieldSpelt(type))
             /\ \A v \in ActionFieldFits(type) :
                  WriteActionField(type, v) \in Seq(Byte)
  <2> DEFINE fits == MetaFits(schema)
             spelt == MetaSpelt(schema)
             reader == MetaReader(schema, bytes)
  <2>1. /\ Faithful(bytes, reader, fits, spelt)
        /\ \A d \in fits : spelt[d] = WriteMeta(schema, d)
             /\ spelt[d] \in Seq(Byte)
    BY MetaReads DEF MetaSpelt
  <2>2. /\ ActionFieldReader(type, bytes) = VecReader(reader, bytes)
        /\ ActionFieldFits(type) = VecFits(fits)
        /\ \A v : WriteActionField(type, v) =
             <<Len(v)>> \o FlattenSeq(
                 [i \in DOMAIN v |-> WriteMeta(schema, v[i])])
    BY <1>2 DEF Vec, ActionFieldReader, ActionFieldFits, WriteActionField
  <2> HIDE DEF fits, spelt, reader
  <2>3. /\ Faithful(bytes, VecReader(reader, bytes), VecFits(fits),
                    VecSpelt(fits, spelt))
        /\ \A s \in VecFits(fits) : VecSpelling(spelt, s) \in Seq(Byte)
    BY <2>1, VecReads
  <2>4. ASSUME NEW v \in VecFits(fits)
        PROVE  VecSpelling(spelt, v) = WriteActionField(type, v)
    <3>1. DOMAIN v = 1..Len(v) /\ \A i \in 1..Len(v) : v[i] \in fits
      BY LenProperties, ElementOfSeq DEF VecFits
    <3>2. [i \in 1..Len(v) |-> spelt[v[i]]] =
            [i \in DOMAIN v |-> WriteMeta(schema, v[i])]
      BY <2>1, <3>1
    <3> QED
      BY <2>2, <3>2 DEF VecSpelling
  <2>5. ActionFieldSpelt(type) = VecSpelt(fits, spelt)
    BY <2>2, <2>4 DEF ActionFieldSpelt, VecSpelt
  <2> QED
    BY <2>2, <2>3, <2>4, <2>5
<1> QED
  BY <1>1, <1>2 DEF ActionTypes

(* The records of the middle.                                              *)
LEMMA ActionReads ==
  ASSUME NEW bytes \in Seq(Byte), NEW schema \in ActionSchemas
  PROVE  /\ Faithful(bytes, ActionReader(schema, bytes), ActionFits(schema),
                     ActionSpelt(schema))
         /\ \A d \in ActionFits(schema) : WriteAction(schema, d) \in Seq(Byte)
<1> DEFINE n == Len(schema)
           fits == [i \in DOMAIN schema |-> ActionFieldFits(schema[i][2])]
           spelt == [i \in DOMAIN schema |-> ActionFieldSpelt(schema[i][2])]
           readers == [i \in DOMAIN schema |->
             ActionFieldReader(schema[i][2], bytes)]
           R == {readers[i] : i \in 1..n}
<1>1. n \in Nat /\ DOMAIN schema = 1..n
      /\ \A i \in 1..n : schema[i][2] \in ActionTypes
  BY LenProperties, ElementOfSeq DEF ActionSchemas
<1>2. readers \in [1..n -> R]
  BY <1>1
<1>3. \A i \in 1..n : \A v \in fits[i] : spelt[i][v] \in Seq(Byte)
  BY <1>1, ActionFieldReads DEF ActionFieldSpelt
<1>4. AllFaithful(bytes, n, readers, fits, spelt)
  BY <1>1, ActionFieldReads DEF AllFaithful
<1> HIDE DEF n, fits, spelt, readers, R
<1>5. /\ Faithful(bytes, RowReader(readers, bytes), RowFits(n, fits),
                  RowSpelt(AnyOf(n, fits), n, fits, spelt))
      /\ \A d \in RowFits(n, fits) :
           /\ d \in Seq(AnyOf(n, fits)) /\ Len(d) = n
           /\ \A i \in 1..n : d[i] \in fits[i]
           /\ RowSpelling(spelt, d) \in Seq(Byte)
  BY <1>1, <1>2, <1>3, <1>4, RecordReads
<1>6. ActionFits(schema) = RowFits(n, fits)
  BY DEF ActionFits, n, fits
<1>7. ASSUME NEW d \in RowFits(n, fits)
      PROVE  RowSpelling(spelt, d) = WriteAction(schema, d)
  <2>1. Len(d) = n /\ \A i \in 1..n : d[i] \in ActionFieldFits(schema[i][2])
    BY <1>1, <1>5 DEF fits
  <2>2. \A i \in 1..n : spelt[i][d[i]] = WriteActionField(schema[i][2], d[i])
    BY <1>1, <2>1 DEF spelt, ActionFieldSpelt
  <2>3. [i \in 1..n |-> spelt[i][d[i]]] =
          [i \in 1..n |-> WriteActionField(schema[i][2], d[i])]
    BY <2>2
  <2> QED
    BY <1>1, <2>1, <2>3 DEF RowSpelling, WriteAction
<1>8. ActionSpelt(schema) = RowSpelt(AnyOf(n, fits), n, fits, spelt)
  BY <1>6, <1>7 DEF ActionSpelt, RowSpelt, RowFits
<1>9. ActionReader(schema, bytes) = RowReader(readers, bytes)
  BY DEF ActionReader, readers
<1> QED
  BY <1>5, <1>6, <1>7, <1>8, <1>9

(* A field of a document, which may be a vector of those.                  *)
LEMMA FieldReads ==
  ASSUME NEW bytes \in Seq(Byte), NEW type \in Types
  PROVE  /\ Faithful(bytes, Reader(type, bytes), FieldFits(type),
                     FieldSpelt(type))
         /\ \A v \in FieldFits(type) : Write(type, v) \in Seq(Byte)
<1>1. CASE type \in LeafTypes
  <2>1. type.t # "vec"
    BY <1>1, LeafIsNotVec
  <2>2. /\ Reader(type, bytes) = LeafReader(type, bytes)
        /\ FieldFits(type) = LeafFits(type)
        /\ \A v : Write(type, v) = WriteLeaf(type, v)
    BY <2>1 DEF Reader, FieldFits, Write
  <2>3. FieldSpelt(type) = LeafSpelt(type)
    BY <2>2 DEF FieldSpelt, LeafSpelt
  <2> QED
    BY <1>1, <2>2, <2>3, LeafReads, LeafWritten
<1>2. ASSUME NEW schema \in ActionSchemas, type = Vec(schema)
      PROVE  /\ Faithful(bytes, Reader(type, bytes), FieldFits(type),
                         FieldSpelt(type))
             /\ \A v \in FieldFits(type) : Write(type, v) \in Seq(Byte)
  <2> DEFINE fits == ActionFits(schema)
             spelt == ActionSpelt(schema)
             reader == ActionReader(schema, bytes)
  <2>1. /\ Faithful(bytes, reader, fits, spelt)
        /\ \A d \in fits : spelt[d] = WriteAction(schema, d)
             /\ spelt[d] \in Seq(Byte)
    BY ActionReads DEF ActionSpelt
  <2>2. /\ Reader(type, bytes) = VecReader(reader, bytes)
        /\ FieldFits(type) = VecFits(fits)
        /\ \A v : Write(type, v) =
             <<Len(v)>> \o FlattenSeq(
                 [i \in DOMAIN v |-> WriteAction(schema, v[i])])
    BY <1>2 DEF Vec, Reader, FieldFits, Write
  <2> HIDE DEF fits, spelt, reader
  <2>3. /\ Faithful(bytes, VecReader(reader, bytes), VecFits(fits),
                    VecSpelt(fits, spelt))
        /\ \A s \in VecFits(fits) : VecSpelling(spelt, s) \in Seq(Byte)
    BY <2>1, VecReads
  <2>4. ASSUME NEW v \in VecFits(fits)
        PROVE  VecSpelling(spelt, v) = Write(type, v)
    <3>1. DOMAIN v = 1..Len(v) /\ \A i \in 1..Len(v) : v[i] \in fits
      BY LenProperties, ElementOfSeq DEF VecFits
    <3>2. [i \in 1..Len(v) |-> spelt[v[i]]] =
            [i \in DOMAIN v |-> WriteAction(schema, v[i])]
      BY <2>1, <3>1
    <3> QED
      BY <2>2, <3>2 DEF VecSpelling
  <2>5. FieldSpelt(type) = VecSpelt(fits, spelt)
    BY <2>2, <2>4 DEF FieldSpelt, VecSpelt
  <2> QED
    BY <2>2, <2>3, <2>4, <2>5
<1> QED
  BY <1>1, <1>2 DEF Types

(* A whole document is read faithfully.                                    *)
LEMMA DocumentReads ==
  ASSUME NEW bytes \in Seq(Byte), NEW schema \in DocumentSchemas
  PROVE  /\ Faithful(bytes, DocumentReader(schema, bytes), Documents(schema),
                     DocumentSpelt(schema))
         /\ \A d \in Documents(schema) : WriteAll(schema, d) \in Seq(Byte)
<1> DEFINE n == Len(schema)
           fits == [i \in DOMAIN schema |-> FieldFits(schema[i][2])]
           spelt == [i \in DOMAIN schema |-> FieldSpelt(schema[i][2])]
           readers == [i \in DOMAIN schema |-> Reader(schema[i][2], bytes)]
           R == {readers[i] : i \in 1..n}
<1>1. n \in Nat /\ DOMAIN schema = 1..n
      /\ \A i \in 1..n : schema[i][2] \in Types
  BY LenProperties, ElementOfSeq DEF DocumentSchemas
<1>2. readers \in [1..n -> R]
  BY <1>1
<1>3. \A i \in 1..n : \A v \in fits[i] : spelt[i][v] \in Seq(Byte)
  BY <1>1, FieldReads DEF FieldSpelt
<1>4. AllFaithful(bytes, n, readers, fits, spelt)
  BY <1>1, FieldReads DEF AllFaithful
<1> HIDE DEF n, fits, spelt, readers, R
<1>5. /\ Faithful(bytes, RowReader(readers, bytes), RowFits(n, fits),
                  RowSpelt(AnyOf(n, fits), n, fits, spelt))
      /\ \A d \in RowFits(n, fits) :
           /\ d \in Seq(AnyOf(n, fits)) /\ Len(d) = n
           /\ \A i \in 1..n : d[i] \in fits[i]
           /\ RowSpelling(spelt, d) \in Seq(Byte)
  BY <1>1, <1>2, <1>3, <1>4, RecordReads
<1>6. Documents(schema) = RowFits(n, fits)
  BY DEF Documents, n, fits
<1>7. ASSUME NEW d \in RowFits(n, fits)
      PROVE  RowSpelling(spelt, d) = WriteAll(schema, d)
  <2>1. Len(d) = n /\ \A i \in 1..n : d[i] \in FieldFits(schema[i][2])
    BY <1>1, <1>5 DEF fits
  <2>2. \A i \in 1..n : spelt[i][d[i]] = Write(schema[i][2], d[i])
    BY <1>1, <2>1 DEF spelt, FieldSpelt
  <2>3. [i \in 1..n |-> spelt[i][d[i]]] =
          [i \in 1..n |-> Write(schema[i][2], d[i])]
    BY <2>2
  <2> QED
    BY <1>1, <2>1, <2>3 DEF RowSpelling, WriteAll
<1>8. DocumentSpelt(schema) = RowSpelt(AnyOf(n, fits), n, fits, spelt)
  BY <1>6, <1>7 DEF DocumentSpelt, RowSpelt, RowFits
<1>9. DocumentReader(schema, bytes) = RowReader(readers, bytes)
  BY DEF DocumentReader, readers
<1> QED
  BY <1>5, <1>6, <1>7, <1>8, <1>9

-----------------------------------------------------------------------------
(* What one reading of a whole buffer shows.                               *)
LEMMA SpellsWhole ==
  ASSUME NEW bytes \in Seq(Byte), NEW w \in Seq(Byte)
  PROVE  /\ 1 \in Offsets(bytes)
         /\ Spells(bytes, 1, w) /\ 1 + Len(w) = Len(bytes) + 1 <=> w = bytes
<1>1. Len(bytes) \in Nat /\ Len(w) \in Nat
  BY LenProperties
<1>2. ASSUME Spells(bytes, 1, w), 1 + Len(w) = Len(bytes) + 1
      PROVE  w = bytes
  <2>1. Len(w) = Len(bytes)
    BY <1>1, <1>2
  <2>2. \A i \in 1..Len(w) : w[i] = bytes[i]
    BY <1>1, <1>2 DEF Spells
  <2> QED
    BY <2>1, <2>2, SeqEqual
<1>3. Spells(bytes, 1, bytes) /\ 1 + Len(bytes) = Len(bytes) + 1
  BY <1>1 DEF Spells
<1> QED
  BY <1>1, <1>2, <1>3 DEF Offsets

(* The strict reader accepts an encoding only as what the writer makes of  *)
(* the document it returns: no other bytes have that reading, whatever the *)
(* schema (BorshReader, canonical.ts).                                     *)
THEOREM AcceptedBytesAreTheEncoding ==
  ASSUME NEW schema \in DocumentSchemas, NEW bytes \in Seq(Byte),
         Decode(schema, bytes).ok
  PROVE  /\ Decode(schema, bytes).value \in Documents(schema)
         /\ WriteAll(schema, Decode(schema, bytes).value) = bytes
<1> DEFINE read == DocumentReader(schema, bytes)[1]
<1>1. /\ read.ok /\ read.next = Len(bytes) + 1
      /\ Decode(schema, bytes) = read
  BY DEF Decode, Refusal
<1>2. 1 \in Offsets(bytes)
  BY SpellsWhole
<1>3. /\ Faithful(bytes, DocumentReader(schema, bytes), Documents(schema),
                  DocumentSpelt(schema))
      /\ \A d \in Documents(schema) : WriteAll(schema, d) \in Seq(Byte)
  BY DocumentReads
<1> HIDE DEF read
<1>4. /\ read.value \in Documents(schema)
      /\ Spells(bytes, 1, WriteAll(schema, read.value))
      /\ read = Got(read.value, 1 + Len(WriteAll(schema, read.value)))
  BY <1>1, <1>2, <1>3 DEF Faithful, ReadsAs, DocumentSpelt, read
<1>5. read.next = 1 + Len(WriteAll(schema, read.value))
  BY <1>4 DEF Got
<1>6. WriteAll(schema, read.value) \in Seq(Byte)
  BY <1>3, <1>4
<1>7. WriteAll(schema, read.value) = bytes
  BY <1>1, <1>4, <1>5, <1>6, SpellsWhole
<1> QED
  BY <1>1, <1>4, <1>7

(* What the writer wrote is read back: every document, nothing left over.  *)
THEOREM EncodingIsReadBack ==
  ASSUME NEW schema \in DocumentSchemas, NEW d \in Documents(schema)
  PROVE  /\ WriteAll(schema, d) \in Seq(Byte)
         /\ Decode(schema, WriteAll(schema, d)) =
              Got(d, Len(WriteAll(schema, d)) + 1)
<1> DEFINE bytes == WriteAll(schema, d)
           read == DocumentReader(schema, bytes)[1]
<1>1. bytes \in Seq(Byte)
  <2>1. << >> \in Seq(Byte)
    OBVIOUS
  <2> QED
    BY <2>1, DocumentReads
<1>2. /\ Faithful(bytes, DocumentReader(schema, bytes), Documents(schema),
                  DocumentSpelt(schema))
      /\ DocumentSpelt(schema)[d] = bytes
  BY <1>1, DocumentReads DEF DocumentSpelt
<1>3. 1 \in Offsets(bytes) /\ Spells(bytes, 1, bytes)
      /\ 1 + Len(bytes) = Len(bytes) + 1
  BY <1>1, SpellsWhole
<1> HIDE DEF bytes
<1>4. read = Got(d, 1 + Len(bytes))
  BY <1>2, <1>3 DEF Faithful, ReadsAs
<1>5. read.ok /\ read.next = Len(bytes) + 1
  BY <1>3, <1>4 DEF Got
<1>6. Decode(schema, bytes) = read
  BY <1>5 DEF Decode
<1> QED
  BY <1>1, <1>3, <1>4, <1>6 DEF bytes

(* So a digest binds one document: two documents of a kind with one digest *)
(* are equal field by field (sha256, canonical.ts).                        *)
THEOREM DigestBindsOneDocument ==
  ASSUME NEW schema \in DocumentSchemas,
         NEW d \in Documents(schema), NEW e \in Documents(schema),
         Sha(WriteAll(schema, d)) = Sha(WriteAll(schema, e))
  PROVE  d = e
<1>1. WriteAll(schema, d) = WriteAll(schema, e)
  BY DEF Sha
<1>2. Got(d, Len(WriteAll(schema, d)) + 1) =
        Got(e, Len(WriteAll(schema, e)) + 1)
  BY <1>1, EncodingIsReadBack
<1> QED
  BY <1>2 DEF Got

-----------------------------------------------------------------------------
(* The schemas of the program, and what a delivery sends.                  *)
LEMMA Leaves ==
  /\ U8 \in LeafTypes /\ U16 \in LeafTypes /\ U64 \in LeafTypes
  /\ I64 \in LeafTypes /\ Fixed \in LeafTypes /\ Bool \in LeafTypes
  /\ Data \in LeafTypes /\ Roles \in LeafTypes /\ Categories \in LeafTypes
  /\ Namespaces \in LeafTypes /\ Enum(3) \in LeafTypes /\ Enum(4) \in LeafTypes
<1>1. 255 <= Top /\ Top \in Nat
  BY TopAssumption
<1>2. U8 \in LeafTypes /\ U16 \in LeafTypes /\ U64 \in LeafTypes
  BY DEF LeafTypes, U8, U16, U64
<1>3. Enum(1) \in LeafTypes /\ Enum(3) \in LeafTypes /\ Enum(4) \in LeafTypes
  BY <1>1 DEF LeafTypes, Base
<1> QED
  BY <1>2, <1>3 DEF LeafTypes, Roles, Categories, Namespaces

(* What may stand deep inside may stand further out.                       *)
LEMMA Deeper ==
  /\ LeafTypes \subseteq ActionTypes /\ LeafTypes \subseteq Types
  /\ MetaSchemas \subseteq ActionSchemas
BY DEF ActionTypes, Types, MetaSchemas, ActionSchemas

(* The schemas that nest in others are among those the readers are for.    *)
LEMMA NestedSchemas ==
  /\ AccountMeta \in MetaSchemas /\ AccountMeta \in ActionSchemas
  /\ TemplateAccountMeta \in ActionSchemas
  /\ <<<<"role", Roles>>>> \in ActionSchemas
  /\ CanonicalAction \in ActionSchemas /\ ActionTemplate \in ActionSchemas
<1>1. AccountMeta \in Seq(Names \X LeafTypes)
  BY Leaves DEF AccountMeta, Names
<1>2. /\ <<<<"role", Enum(4)>>>> \in Seq(Names \X LeafTypes)
      /\ <<<<"role", Roles>>>> \in Seq(Names \X LeafTypes)
  BY Leaves DEF Names
<1>3. TemplateAccountMeta \in Seq(Names \X LeafTypes)
  BY <1>1, <1>2, ConcatProperties DEF TemplateAccountMeta
<1>4. CanonicalAction \in Seq(Names \X ActionTypes)
  <2> DEFINE first ==
        <<<<"action_index", U16>>, <<"adapter_program_id", Fixed>>,
          <<"adapter_version", U16>>, <<"adapter_capability", Fixed>>,
          <<"target_program_id", Fixed>>,
          <<"instruction_discriminator", Fixed>>,
          <<"account_metas", Vec(AccountMeta)>>, <<"instruction_data", Data>>>>
      last == <<<<"capability_nonce", U64>>>>
      All == Names \X ActionTypes
  <2>1. Vec(AccountMeta) \in ActionTypes
    BY <1>1 DEF ActionTypes, MetaSchemas
  <2>2. first \in Seq(All)
    BY <2>1, Leaves, Deeper DEF Names
  <2>3. last \in Seq(All) /\ EffectLimit \in Seq(All)
    BY Leaves, Deeper DEF Names, EffectLimit
  <2>4. CanonicalAction = first \o EffectLimit \o last
    BY DEF CanonicalAction
  <2> HIDE DEF first, last, All
  <2>5. CanonicalAction \in Seq(All)
    BY <2>2, <2>3, <2>4, ConcatProperties
  <2> QED
    BY <2>5 DEF All
<1>5. ActionTemplate \in Seq(Names \X ActionTypes)
  <2> DEFINE first ==
        <<<<"domain", Fixed>>, <<"template_version", U16>>,
          <<"action_index", U16>>, <<"cluster_genesis_hash", Fixed>>,
          <<"covenant", Fixed>>, <<"circle_epoch", U64>>,
          <<"policy_id", Fixed>>, <<"action_category", Categories>>,
          <<"adapter_program_id", Fixed>>, <<"adapter_version", U16>>,
          <<"adapter_capability", Fixed>>, <<"target_program_id", Fixed>>,
          <<"instruction_discriminator", Fixed>>,
          <<"account_metas", Vec(TemplateAccountMeta)>>,
          <<"instruction_data", Data>>>>
      All == Names \X ActionTypes
  <2>1. Vec(TemplateAccountMeta) \in ActionTypes
    BY <1>3 DEF ActionTypes, MetaSchemas
  <2>2. first \in Seq(All) /\ EffectLimit \in Seq(All)
    BY <2>1, Leaves, Deeper DEF Names, EffectLimit
  <2>3. ActionTemplate = first \o EffectLimit
    BY DEF ActionTemplate
  <2> HIDE DEF first, All
  <2>4. ActionTemplate \in Seq(All)
    BY <2>2, <2>3, ConcatProperties
  <2> QED
    BY <2>4 DEF All
<1> QED
  BY <1>1, <1>2, <1>3, <1>4, <1>5, Deeper DEF MetaSchemas, ActionSchemas

(* Every document whose digest the program computes is of such a schema.   *)
LEMMA ProgramSchemas ==
  \A kind \in Kinds : Schemas[kind] \in DocumentSchemas
<1> DEFINE All == Names \X Types
<1>1. /\ Vec(CanonicalAction) \in Types /\ Vec(TemplateAccountMeta) \in Types
      /\ Vec(<<<<"role", Roles>>>>) \in Types /\ Vec(AccountMeta) \in Types
      /\ Vec(ActionTemplate) \in Types
  BY NestedSchemas DEF Types
<1>2. Member \in Seq(All) /\ AccountMeta \in Seq(All)
  BY Leaves, Deeper DEF Member, AccountMeta, Names
<1>3. ResponsePolicy \in Seq(All)
  BY <1>1, Leaves, Deeper DEF ResponsePolicy, Names
<1>4. ActionBundle \in Seq(All)
  BY <1>1, Leaves, Deeper DEF ActionBundle, Names
<1>5. Certificate \in Seq(All)
  BY Leaves, Deeper DEF Certificate, Names
<1>6. CovenantDigest \in Seq(All) /\ OperationInputs \in Seq(All)
  BY Leaves, Deeper DEF CovenantDigest, OperationInputs, Names
<1>7. Attestation \in Seq(All) /\ RecoveryInputs \in Seq(All)
  BY Leaves, Deeper DEF Attestation, RecoveryInputs, Names
<1>8. IncidentClaim \in Seq(All)
  BY Leaves, Deeper DEF IncidentClaim, Names
<1>9. ActionTemplate \in Seq(All) /\ CanonicalAction \in Seq(All)
  <2> DEFINE first ==
        <<<<"domain", Fixed>>, <<"template_version", U16>>,
          <<"action_index", U16>>, <<"cluster_genesis_hash", Fixed>>,
          <<"covenant", Fixed>>, <<"circle_epoch", U64>>,
          <<"policy_id", Fixed>>, <<"action_category", Categories>>,
          <<"adapter_program_id", Fixed>>, <<"adapter_version", U16>>,
          <<"adapter_capability", Fixed>>, <<"target_program_id", Fixed>>,
          <<"instruction_discriminator", Fixed>>,
          <<"account_metas", Vec(TemplateAccountMeta)>>,
          <<"instruction_data", Data>>>>
      front ==
        <<<<"action_index", U16>>, <<"adapter_program_id", Fixed>>,
          <<"adapter_version", U16>>, <<"adapter_capability", Fixed>>,
          <<"target_program_id", Fixed>>,
          <<"instruction_discriminator", Fixed>>,
          <<"account_metas", Vec(AccountMeta)>>, <<"instruction_data", Data>>>>
      last == <<<<"capability_nonce", U64>>>>
  <2>1. first \in Seq(All)
    BY <1>1, Leaves, Deeper DEF Names
  <2>2. front \in Seq(All)
    BY <1>1, Leaves, Deeper DEF Names
  <2>3. EffectLimit \in Seq(All) /\ last \in Seq(All)
    BY Leaves, Deeper DEF EffectLimit, Names
  <2>4. /\ ActionTemplate = first \o EffectLimit
        /\ CanonicalAction = front \o EffectLimit \o last
    BY DEF ActionTemplate, CanonicalAction
  <2> HIDE DEF first, front, last, All
  <2> QED
    BY <2>1, <2>2, <2>3, <2>4, ConcatProperties
<1>10. TemplateAccountMeta \in Seq(All)
  <2>1. <<<<"role", Enum(4)>>>> \in Seq(All)
    BY Leaves, Deeper DEF Names
  <2> HIDE DEF All
  <2> QED
    BY <1>2, <2>1, ConcatProperties DEF TemplateAccountMeta
<1>12. ActionBundleTemplate \in Seq(All)
  BY <1>1 DEF ActionBundleTemplate, Names
<1> HIDE DEF All
<1>11. \A kind \in Kinds : Schemas[kind] \in Seq(All)
  BY <1>12, <1>2, <1>3, <1>4, <1>5, <1>6, <1>7, <1>8, <1>9, <1>10
     DEF Kinds, Schemas
<1> QED
  BY <1>11 DEF DocumentSchemas, All

(* In particular the bundle of actions, the one that is delivered.         *)
LEMMA BundleIsRead == ActionBundle \in DocumentSchemas
BY ProgramSchemas DEF Kinds, Schemas

(* A row of values that each fit their field fits.                         *)
LEMMA FittingRow ==
  ASSUME NEW S, NEW d \in Seq(S), NEW fits,
         \A i \in 1..Len(d) : d[i] \in fits[i]
  PROVE  d \in RowFits(Len(d), fits)
<1> DEFINE U == AnyOf(Len(d), fits)
<1>1. Len(d) \in Nat
  BY LenProperties
<1>2. \A i \in 1..Len(d) : d[i] \in U
  BY DEF AnyOf
<1>3. d \in Seq(U)
  BY <1>1, <1>2
<1> QED
  BY <1>3 DEF RowFits, Rows

(* The values of the bundles that are delivered fit their fields.          *)
LEMMA NumbersFit ==
  /\ \A n \in 0..255 :
       n \in LeafFits(Fixed) /\ n \in LeafFits(U16) /\ n \in LeafFits(U64)
  /\ 300 \in LeafFits(U64)
  /\ TRUE \in LeafFits(Bool) /\ FALSE \in LeafFits(Bool)
  /\ << >> \in LeafFits(Data) /\ <<1, 2>> \in LeafFits(Data)
<1>1. Top \in Nat /\ Top >= 255
  BY TopAssumption
<1>2. /\ Base \in Nat /\ Base >= 256
      /\ Base * Base \in Nat /\ Base * Base >= 512
  <2>1. Base \in Nat /\ Base >= 256
    BY <1>1 DEF Base
  <2>2. \A B \in Nat : B >= 256 => B * B \in Nat /\ B * B >= 512
    OBVIOUS
  <2> QED
    BY <2>1, <2>2
<1>3. Count64 \in Nat /\ Count64 >= 512
  BY <1>2, Bases
<1>4. LeafFits(Fixed) = 0..(Base - 1) /\ LeafFits(Bool) = BOOLEAN
      /\ LeafFits(Data) = {s \in Seq(Byte) : Len(s) <= Top}
  BY DEF LeafFits, Fixed, Bool, Data
<1>5. LeafFits(U16) = 0..(Base * Base - 1) /\ LeafFits(U64) = 0..(Count64 - 1)
  BY DEF LeafFits, U16, U64, IntOf, Power
<1>6. << >> \in LeafFits(Data) /\ <<1, 2>> \in LeafFits(Data)
  BY <1>1, <1>4 DEF Byte
<1> QED
  BY <1>2, <1>3, <1>4, <1>5, <1>6

(* Their lists of account metas fit.                                       *)
LEMMA SomeMetas ==
  /\ << >> \in VecFits(MetaFits(AccountMeta))
  /\ <<<<190, FALSE, TRUE>>>> \in VecFits(MetaFits(AccountMeta))
<1> DEFINE meta == <<190, FALSE, TRUE>>
           fits == [i \in DOMAIN AccountMeta |-> LeafFits(AccountMeta[i][2])]
           S == {meta[1], meta[2], meta[3]}
<1>1. /\ Len(AccountMeta) = 3 /\ DOMAIN AccountMeta = 1..3
      /\ AccountMeta[1][2] = Fixed
      /\ AccountMeta[2][2] = Bool /\ AccountMeta[3][2] = Bool
  BY DEF AccountMeta
<1>2. meta \in Seq(S) /\ Len(meta) = 3
  OBVIOUS
<1>3. fits[1] = LeafFits(Fixed) /\ fits[2] = LeafFits(Bool)
      /\ fits[3] = LeafFits(Bool)
  BY <1>1
<1>4. 190 \in LeafFits(Fixed) /\ FALSE \in LeafFits(Bool)
      /\ TRUE \in LeafFits(Bool)
  <2>1. 190 \in 0..255
    OBVIOUS
  <2> QED
    BY <2>1, NumbersFit
<1>5. /\ meta[1] \in LeafFits(Fixed) /\ meta[2] \in LeafFits(Bool)
      /\ meta[3] \in LeafFits(Bool)
  <2>1. meta[1] = 190
    OBVIOUS
  <2>2. meta[2] \in LeafFits(Bool)
    BY <1>4, Zenon
  <2>3. meta[3] \in LeafFits(Bool)
    BY <1>4, Zenon
  <2> QED
    BY <1>4, <2>1, <2>2, <2>3
<1> HIDE DEF meta, fits, S
<1>6. \A i \in 1..Len(meta) : meta[i] \in fits[i]
  <2>1. \A i \in 1..Len(meta) : i = 1 \/ i = 2 \/ i = 3
    BY <1>2
  <2> QED
    BY <1>3, <1>4, <1>5, <2>1
<1>7. meta \in RowFits(Len(meta), fits)
  BY <1>2, <1>6, FittingRow
<1>8. meta \in MetaFits(AccountMeta)
  BY <1>1, <1>2, <1>7 DEF MetaFits, fits
<1>9. 1 <= Top
  BY TopAssumption
<1> QED
  BY <1>8, <1>9, TopAssumption DEF VecFits, meta

(* The types of the fields of an action.                                   *)
LEMMA ActionTypesAre ==
  /\ DOMAIN CanonicalAction = 1..12 /\ Len(CanonicalAction) = 12
  /\ \A i \in {2, 4, 5, 6} : CanonicalAction[i][2] = Fixed
  /\ \A i \in {1, 3} : CanonicalAction[i][2] = U16
  /\ CanonicalAction[7][2] = Vec(AccountMeta)
  /\ CanonicalAction[8][2] = Data
  /\ \A i \in {9, 10} : CanonicalAction[i][2] = Bool
  /\ \A i \in {11, 12} : CanonicalAction[i][2] = U64
BY DEF CanonicalAction, EffectLimit

(* Twelve values, each of its field's type, are an action.                 *)
LEMMA ActionFits12 ==
  ASSUME NEW a1 \in LeafFits(U16), NEW a2 \in LeafFits(Fixed),
         NEW a3 \in LeafFits(U16), NEW a4 \in LeafFits(Fixed),
         NEW a5 \in LeafFits(Fixed), NEW a6 \in LeafFits(Fixed),
         NEW a7 \in VecFits(MetaFits(AccountMeta)), NEW a8 \in LeafFits(Data),
         NEW a9 \in LeafFits(Bool), NEW a10 \in LeafFits(Bool),
         NEW a11 \in LeafFits(U64), NEW a12 \in LeafFits(U64)
  PROVE  <<a1, a2, a3, a4, a5, a6, a7, a8, a9, a10, a11, a12>>
           \in ActionFits(CanonicalAction)
<1> DEFINE fits == [i \in DOMAIN CanonicalAction |->
                      ActionFieldFits(CanonicalAction[i][2])]
           action == <<a1, a2, a3, a4, a5, a6, a7, a8, a9, a10, a11, a12>>
           S == {a1, a2, a3, a4, a5, a6, a7, a8, a9, a10, a11, a12}
<1>1. action \in Seq(S) /\ Len(action) = 12
  OBVIOUS
<1>2. /\ fits[1] = LeafFits(U16) /\ fits[3] = LeafFits(U16)
      /\ \A i \in {2, 4, 5, 6} : fits[i] = LeafFits(Fixed)
      /\ fits[7] = VecFits(MetaFits(AccountMeta)) /\ fits[8] = LeafFits(Data)
      /\ \A i \in {9, 10} : fits[i] = LeafFits(Bool)
      /\ \A i \in {11, 12} : fits[i] = LeafFits(U64)
  <2>1. \A type \in {U16, Fixed, Data, Bool, U64} :
          ActionFieldFits(type) = LeafFits(type)
    BY Leaves, LeafIsNotVec DEF ActionFieldFits
  <2>2. ActionFieldFits(Vec(AccountMeta)) = VecFits(MetaFits(AccountMeta))
    BY DEF ActionFieldFits, Vec
  <2> QED
    BY <2>1, <2>2, ActionTypesAre
<1> HIDE DEF fits
<1>3. \A i \in 1..12 : action[i] \in fits[i]
  BY <1>2
<1> HIDE DEF action, S
<1>4. action \in RowFits(12, fits)
  BY <1>1, <1>3, FittingRow
<1>5. action \in ActionFits(CanonicalAction)
  BY <1>4, ActionTypesAre DEF ActionFits, fits
<1> QED
  BY <1>5 DEF action

(* The actions that are delivered.                                         *)
LEMMA SomeActionsFit ==
  SomeActions \subseteq ActionFits(CanonicalAction)
<1> DEFINE With(metas, data, pause, unpause) ==
      <<0, 124, 1, 161, 125, 126, metas, data, pause, unpause, 300, 7>>
           Act(metas, data) == With(metas, data, TRUE, FALSE)
<1>1. ASSUME NEW metas \in {<< >>, <<<<190, FALSE, TRUE>>>>},
             NEW data \in {<< >>, <<1, 2>>}
      PROVE  Act(metas, data) \in ActionFits(CanonicalAction)
  <2>1. metas \in VecFits(MetaFits(AccountMeta)) /\ data \in LeafFits(Data)
    BY SomeMetas, NumbersFit
  <2>2. /\ 0 \in LeafFits(U16) /\ 1 \in LeafFits(U16)
        /\ 124 \in LeafFits(Fixed) /\ 161 \in LeafFits(Fixed)
        /\ 125 \in LeafFits(Fixed) /\ 126 \in LeafFits(Fixed)
        /\ 300 \in LeafFits(U64) /\ 7 \in LeafFits(U64)
    <3>1. /\ 0 \in 0..255 /\ 1 \in 0..255 /\ 124 \in 0..255 /\ 161 \in 0..255
          /\ 125 \in 0..255 /\ 126 \in 0..255 /\ 7 \in 0..255
      OBVIOUS
    <3> QED
      BY <3>1, NumbersFit
  <2>3. TRUE \in LeafFits(Bool) /\ FALSE \in LeafFits(Bool)
    BY NumbersFit
  <2>4. \A pause, unpause \in LeafFits(Bool) :
          With(metas, data, pause, unpause) \in ActionFits(CanonicalAction)
    BY <2>1, <2>2, ActionFits12
  <2> HIDE DEF With
  <2> QED
    BY <2>3, <2>4, Zenon
<1>2. SomeActions = {Act(metas, data) :
                       metas \in {<< >>, <<<<190, FALSE, TRUE>>>>},
                       data \in {<< >>, <<1, 2>>}}
  BY DEF SomeActions
<1> HIDE DEF Act, With
<1> QED
  BY <1>1, <1>2

(* The bundles that are delivered.                                         *)
LEMMA SomeBundlesFit ==
  SomeBundles \subseteq Documents(ActionBundle)
<1> DEFINE fits == [i \in DOMAIN ActionBundle |->
             FieldFits(ActionBundle[i][2])]
           Listed == VecFits(ActionFits(CanonicalAction))
<1>1. /\ DOMAIN ActionBundle = 1..10 /\ Len(ActionBundle) = 10
      /\ \A i \in {1, 2, 3, 6, 7, 9} : ActionBundle[i][2] = Fixed
      /\ \A i \in {4, 5, 8} : ActionBundle[i][2] = U64
      /\ ActionBundle[10][2] = Vec(CanonicalAction)
  BY DEF ActionBundle
<1>2. /\ \A i \in {1, 2, 3, 6, 7, 9} : fits[i] = LeafFits(Fixed)
      /\ \A i \in {4, 5, 8} : fits[i] = LeafFits(U64)
      /\ fits[10] = Listed
  <2>1. \A type \in {Fixed, U64} : FieldFits(type) = LeafFits(type)
    BY Leaves, LeafIsNotVec DEF FieldFits
  <2>2. FieldFits(Vec(CanonicalAction)) = Listed
    BY DEF FieldFits, Vec
  <2> QED
    BY <1>1, <2>1, <2>2
<1>3. ASSUME NEW actions \in Listed
      PROVE  <<208, 111, 112, 1, 7, 113, 114, 17, 116, actions>>
               \in Documents(ActionBundle)
  <2> DEFINE bundle == <<208, 111, 112, 1, 7, 113, 114, 17, 116, actions>>
             S == {208, 111, 112, 1, 7, 113, 114, 17, 116, actions}
  <2>1. bundle \in Seq(S) /\ Len(bundle) = 10
    OBVIOUS
  <2>2. /\ \A n \in {208, 111, 112, 113, 114, 116} : n \in LeafFits(Fixed)
        /\ \A n \in {1, 7, 17} : n \in LeafFits(U64)
    <3>1. \A n \in {208, 111, 112, 113, 114, 116, 1, 7, 17} : n \in 0..255
      OBVIOUS
    <3> QED
      BY <3>1, NumbersFit
  <2> HIDE DEF fits, Listed
  <2>3. \A i \in 1..10 : bundle[i] \in fits[i]
    BY <1>2, <1>3, <2>2
  <2> HIDE DEF bundle, S
  <2>4. bundle \in RowFits(10, fits)
    BY <2>1, <2>3, FittingRow
  <2>5. bundle \in Documents(ActionBundle)
    BY <1>1, <2>4 DEF Documents, fits
  <2> QED
    BY <2>5 DEF bundle
<1>4. /\ << >> \in Listed
      /\ \A a \in SomeActions : <<a>> \in Listed /\ <<a, a>> \in Listed
  <2>1. Top \in Nat /\ Top >= 2
    BY TopAssumption
  <2>2. \A a \in SomeActions : a \in ActionFits(CanonicalAction)
    BY SomeActionsFit
  <2> HIDE DEF SomeActions, ActionFits
  <2> QED
    BY <2>1, <2>2 DEF VecFits
<1>5. Tag("ACTION_BUNDLE") = 208
  BY DEF Tag, Labels
<1>6. SomeBundles =
        {<<208, 111, 112, 1, 7, 113, 114, 17, 116, actions>> :
           actions \in {<< >>} \cup {<<a>> : a \in SomeActions}
                               \cup {<<a, a>> : a \in SomeActions}}
  BY <1>5, Zenon DEF SomeBundles, Genesis, Covenant, PolicyId,
                    MemberSetHash, OperationId
<1> HIDE DEF Listed, fits
<1>7. \A actions \in {<< >>} \cup {<<a>> : a \in SomeActions}
                             \cup {<<a, a>> : a \in SomeActions} :
        actions \in Listed
  BY <1>4
<1> QED
  BY <1>3, <1>6, <1>7

(* Bytes damaged in one place are bytes.                                   *)
LEMMA DamagedBytes ==
  ASSUME NEW bytes \in Seq(Byte)
  PROVE  Damages(bytes) \subseteq Seq(Byte)
<1>1. SomeBytes \subseteq Byte
  BY TopAssumption DEF SomeBytes, Byte
<1>2. Len(bytes) \in Nat /\ \A i \in 1..Len(bytes) : bytes[i] \in Byte
  BY LenProperties, ElementOfSeq
<1>0. DOMAIN bytes = 1..Len(bytes)
  BY LenProperties
<1>3. ASSUME NEW i \in 1..Len(bytes), NEW b \in SomeBytes
      PROVE  [bytes EXCEPT ![i] = b] \in Seq(Byte)
  BY <1>1, ExceptSeq
<1>4. ASSUME NEW i \in 1..Len(bytes)
      PROVE  RemoveAt(bytes, i) \in Seq(Byte)
  <2>1. /\ SubSeq(bytes, 1, i - 1) \in Seq(Byte)
        /\ SubSeq(bytes, i + 1, Len(bytes)) \in Seq(Byte)
    BY <1>2, SubSeqProperties
  <2> QED
    BY <2>1, ConcatProperties DEF RemoveAt
<1>5. ASSUME NEW i \in 1..(Len(bytes) + 1), NEW b \in SomeBytes
      PROVE  InsertAt(bytes, i, b) \in Seq(Byte)
  <2>1. /\ SubSeq(bytes, 1, i - 1) \in Seq(Byte)
        /\ SubSeq(bytes, i, Len(bytes)) \in Seq(Byte)
    BY <1>2, SubSeqProperties
  <2>2. <<b>> \in Seq(Byte)
    BY <1>1
  <2> QED
    BY <2>1, <2>2, ConcatProperties DEF InsertAt
<1> QED
  BY <1>0, <1>3, <1>4, <1>5 DEF Damages

(* What a delivery has sent is a bundle, and what arrived is bytes; the    *)
(* reader's result is what it makes of those bytes.                        *)
DeliveryInv ==
  work = "delivery" =>
    /\ stage \in {"start", "sent", "damaged", "read"}
    /\ stage # "start" =>
         file \in Documents(ActionBundle) /\ wire \in Seq(Byte)
    /\ stage = "read" => result = Decode(ActionBundle, wire)

(* Every step keeps this.                                                  *)
LEMMA DeliveryStepInv ==
  DeliveryInv /\ [VectorNext]_vectorVars => DeliveryInv'
<1> SUFFICES ASSUME DeliveryInv, [VectorNext]_vectorVars, work' = "delivery"
             PROVE  DeliveryInv'
  BY DEF DeliveryInv
<1> USE DEF DeliveryInv
<1>1. CASE Generate \/ Tamper \/ VerifyVectors
  BY <1>1 DEF Generate, Tamper, VerifyVectors, ParityStep
<1>2. CASE Send
  <2>1. file' \in Documents(ActionBundle)
        /\ wire' = WriteAll(ActionBundle, file')
    BY <1>2, SomeBundlesFit DEF Send
  <2>2. wire' \in Seq(Byte)
    BY <2>1, EncodingIsReadBack, BundleIsRead
  <2>3. stage' = "sent"
    BY <1>2 DEF Send, DeliveryStep
  <2> QED
    BY <2>1, <2>2, <2>3
<1>3. CASE Damage
  <2>1. work = "delivery" /\ stage = "sent" /\ stage' = "damaged"
        /\ file' = file
    BY <1>3 DEF Damage, DeliveryStep
  <2>2. wire' \in Damages(wire) /\ wire \in Seq(Byte)
    BY <1>3, <2>1 DEF Damage
  <2>3. wire' \in Seq(Byte)
    BY <2>2, DamagedBytes
  <2> QED
    BY <2>1, <2>3
<1>4. CASE DecodeActionBundle
  <2>1. /\ work = "delivery" /\ stage \in {"sent", "damaged"}
        /\ stage' = "read" /\ file' = file /\ wire' = wire
        /\ result' = Decode(ActionBundle, wire)
    BY <1>4 DEF DecodeActionBundle, DeliveryStep
  <2> QED
    BY <2>1
<1>5. CASE UNCHANGED vectorVars
  BY <1>5 DEF vectorVars
<1> QED
  BY <1>1, <1>2, <1>3, <1>4, <1>5 DEF VectorNext

(* With the theorems about the codec this gives the property.              *)
LEMMA DeliveryReads ==
  DeliveryInv => ReadsBackExactly
<1>1. ASSUME DeliveryInv, work = "delivery", stage = "read", result.ok
      PROVE  WriteAll(ActionBundle, result.value) = wire
  BY <1>1, BundleIsRead, AcceptedBytesAreTheEncoding DEF DeliveryInv
<1>2. ASSUME DeliveryInv, work = "delivery", stage = "read",
             wire = WriteAll(ActionBundle, file)
      PROVE  result.ok /\ result.value = file
  <2>1. result = Got(file, Len(wire) + 1)
    BY <1>2, BundleIsRead, EncodingIsReadBack DEF DeliveryInv
  <2> QED
    BY <2>1 DEF Got
<1> QED
  BY <1>1, <1>2 DEF ReadsBackExactly, StrictReading, ReadsWhatWasWritten

(* Writer and strict reader are inverse on every bundle that is delivered, *)
(* however it was damaged on the way (BorshReader, decodeActionBundle).    *)
THEOREM DeliveriesReadBack == VectorSpec => []ReadsBackExactly
<1>1. ASSUME NEW workload, VectorInit(workload)
      PROVE  DeliveryInv
  BY <1>1 DEF VectorInit, DeliveryInv
<1>2. (\E workload \in {"parity", "delivery", "none"} : VectorInit(workload))
        => DeliveryInv
  BY <1>1
<1> QED
  BY <1>2, DeliveryStepInv, DeliveryReads, PTL DEF VectorSpec
=============================================================================
