------------------------- MODULE FileContentProofs -------------------------
(***************************************************************************)
(* For any characters and any number of writes of any lengths: a reader    *)
(* gets what was written, the code fits its buffer, and a write does not   *)
(* make it shorter.                                                        *)
(*                                                                         *)
(* A recursive definition is a CHOOSE of a function that obeys its         *)
(* equation, so each is first shown to have one, by RecursionExists.       *)
(* FromSteps then takes the code of a text apart into the code of its      *)
(* first chunk, of one to nine equal characters, and that of the rest of   *)
(* the text.  What follows about the code (its length, what it is decoded  *)
(* to) takes one chunk at a time, by a least counterexample.               *)
(***************************************************************************)
EXTENDS FileContent, DataLemmas

-----------------------------------------------------------------------------
\* The code of a run

Chunk(c, k) == <<c, c, Char0 + k>>

\* g is the function by which Encode is defined.
Encodes(g, c) ==
  g = [k \in Nat |-> CASE k > 9 -> Chunk(c, 9) \o g[k - 9]
                       [] k \in 2 .. 9 -> Chunk(c, k)
                       [] OTHER -> <<c>>]

\* Encode is well defined.
LEMMA EncodesExists ==
  ASSUME NEW c \in Int
  PROVE  \E g : Encodes(g, c)
<1> DEFINE S == Seq(Int)
           rank == [k \in Nat |-> k]
           body(k, g) == CASE k > 9 -> Chunk(c, 9) \o g[k - 9]
                           [] k \in 2 .. 9 -> Chunk(c, k)
                           [] OTHER -> <<c>>
           F == [p \in Nat \X [Nat -> S] |-> body(p[1], p[2])]
<1>1. \A k \in 0 .. 9 : Chunk(c, k) \in S
  BY DEF Chunk, Char0
<1>2. <<c>> \in S
  OBVIOUS
<1>3. ASSUME NEW k \in Nat, NEW g \in [Nat -> S] PROVE body(k, g) \in S
  <2>1. CASE k > 9
    <3>1. k - 9 \in Nat
      BY <2>1
    <3>2. g[k - 9] \in S /\ Chunk(c, 9) \in S
      BY <1>1, <3>1
    <3> HIDE DEF S
    <3>3. Chunk(c, 9) \o g[k - 9] \in S
      BY <3>2, ConcatProperties DEF S
    <3>4. ~ (k \in 2 .. 9)
      BY <2>1
    <3> QED
      BY <2>1, <3>3, <3>4
  <2>2. CASE k \in 2 .. 9
    <3>1. ~ k > 9
      BY <2>2
    <3> HIDE DEF S
    <3> QED
      BY <1>1, <2>2, <3>1
  <2>3. CASE ~ k > 9 /\ k \notin 2 .. 9
    BY <1>2, <2>3
  <2> QED
    BY <2>1, <2>2, <2>3
<1>4. ASSUME NEW k \in Nat, NEW g \in [Nat -> S] PROVE F[<<k, g>>] = body(k, g)
  <2> HIDE DEF body, S
  <2> QED
    OBVIOUS
<1>5. F \in [Nat \X [Nat -> S] -> S]
  <2> HIDE DEF body, S
  <2> QED
    BY <1>3
<1>6. LooksDown(Nat, S, rank, F)
  <2> SUFFICES ASSUME NEW k \in Nat, NEW g \in [Nat -> S], NEW h \in [Nat -> S],
                      \A e \in Nat : rank[e] < rank[k] => g[e] = h[e]
               PROVE  F[<<k, g>>] = F[<<k, h>>]
    BY DEF LooksDown
  <2>1. k > 9 => k - 9 \in Nat /\ k - 9 < k
    OBVIOUS
  <2>2. k > 9 => g[k - 9] = h[k - 9]
    BY <2>1
  <2>3. body(k, g) = body(k, h)
    BY <2>2
  <2> QED
    BY <1>4, <2>3
<1>7. rank \in [Nat -> Nat]
  OBVIOUS
<1>8. Recursion(Nat, S, rank, F) /\ <<c>> \in S
  BY <1>2, <1>5, <1>6, <1>7 DEF Recursion
<1> HIDE DEF F, rank, S
<1>9. Solvable(Nat, S, F)
  BY <1>8, RecursionExists
<1>10. PICK g \in [Nat -> S] : \A k \in Nat : g[k] = F[<<k, g>>]
  BY <1>9 DEF Solvable
<1>11. g = [k \in Nat |-> body(k, g)]
  BY <1>4, <1>10
<1> QED
  BY <1>11 DEF Encodes

\* What Encode returns: nines as long as there are more, then the rest.
LEMMA EncodeIs ==
  ASSUME NEW c \in Int, NEW n \in Nat
  PROVE  /\ n > 9 => Encode(c, n) = Chunk(c, 9) \o Encode(c, n - 9)
         /\ n \in 2 .. 9 => Encode(c, n) = Chunk(c, n)
         /\ n <= 1 => Encode(c, n) = <<c>>
<1> DEFINE code == CHOOSE g : Encodes(g, c)
<1>1. Encodes(code, c)
  BY EncodesExists
<1>2. \A k : Encode(c, k) = code[k]
  BY DEF Encode, Encodes, Chunk, Char0
<1> HIDE DEF code
<1>3. code[n] = CASE n > 9 -> Chunk(c, 9) \o code[n - 9]
                  [] n \in 2 .. 9 -> Chunk(c, n)
                  [] OTHER -> <<c>>
  BY <1>1 DEF Encodes
<1>4. Encode(c, n) = code[n] /\ Encode(c, n - 9) = code[n - 9]
  BY <1>2
<1> HIDE DEF Chunk
<1>5. CASE n > 9
  <2>1. n \notin 2 .. 9 /\ ~ n <= 1
    BY <1>5
  <2>2. code[n] = Chunk(c, 9) \o code[n - 9]
    BY <1>3, <1>5, <2>1
  <2> QED
    BY <1>4, <2>1, <2>2
<1>6. CASE n \in 2 .. 9
  BY <1>3, <1>4, <1>6
<1>7. CASE n <= 1
  BY <1>3, <1>4, <1>7
<1> QED
  BY <1>5, <1>6, <1>7
-----------------------------------------------------------------------------
\* The code of a text

\* What Count returns: the length of the run that begins at i.
LEMMA CountIs ==
  ASSUME NEW data \in Seq(Int), NEW i \in 1 .. Len(data)
  PROVE  /\ Count(data, i) \in 1 .. Len(data) + 1 - i
         /\ \A k \in i .. i + Count(data, i) - 1 : data[k] = data[i]
         /\ i + Count(data, i) <= Len(data) => data[i + Count(data, i)] # data[i]
<1> DEFINE Ends(n) == n \in Nat /\ n > 0 /\ (i + n <= Len(data) => data[i + n] # data[i])
           I == {n \in Nat : Ends(n)}
           IsCount(n) == /\ n \in 1 .. Len(data) + 1 - i
                         /\ \A k \in i .. i + n - 1 : data[k] = data[i]
                         /\ i + n <= Len(data) => data[i + n] # data[i]
<1>1. Len(data) \in Nat /\ i \in Nat /\ i >= 1 /\ i <= Len(data)
  OBVIOUS
<1>2. Len(data) + 1 - i \in I
  BY <1>1
<1>3. I \in SUBSET Nat /\ I # {}
  BY <1>2
<1> HIDE DEF I
<1>4. PICK m \in I : \A n \in I : m <= n
  BY <1>3, LeastNatural
<1>5. m \in Nat /\ m > 0 /\ m <= Len(data) + 1 - i /\ Ends(m)
  BY <1>1, <1>2, <1>4 DEF I
<1>6. ASSUME NEW k \in i .. i + m - 1, data[k] # data[i] PROVE FALSE
  <2>1. k \in Nat /\ k # i /\ k - i \in Nat /\ k - i > 0 /\ k - i < m /\ i + (k - i) = k
    BY <1>1, <1>5, <1>6
  <2>2. k - i \in I
    BY <1>6, <2>1 DEF I
  <2> QED
    BY <1>4, <1>5, <2>1, <2>2
<1>7. IsCount(m)
  BY <1>1, <1>5, <1>6
<1>8. Count(data, i) = CHOOSE n \in 1 .. Len(data) + 1 - i :
                         /\ \A k \in i .. i + n - 1 : data[k] = data[i]
                         /\ i + n <= Len(data) => data[i + n] # data[i]
  BY DEF Count
<1>9. Count(data, i) = CHOOSE n : IsCount(n)
  BY <1>8
<1>10. IsCount(Count(data, i))
  <2> HIDE DEF IsCount
  <2> QED
    BY <1>7, <1>9
<1> QED
  BY <1>10

\* A character of a text.
LEMMA CharOf ==
  ASSUME NEW data \in Seq(Int), NEW i \in 1 .. Len(data)
  PROVE  data[i] \in Int
OBVIOUS

LEMMA ChunkIs ==
  ASSUME NEW c \in Int, NEW k \in Nat
  PROVE  /\ Chunk(c, k) \in Seq(Int) /\ Len(Chunk(c, k)) = 3
         /\ Chunk(c, k)[1] = c /\ Chunk(c, k)[2] = c /\ Chunk(c, k)[3] = Char0 + k
BY DEF Chunk, Char0

LEMMA EncodeType ==
  ASSUME NEW c \in Int
  PROVE  \A n \in Nat : Encode(c, n) \in Seq(Int)
<1> DEFINE Bad == {n \in Nat : Encode(c, n) \notin Seq(Int)}
<1> SUFFICES ASSUME Bad # {} PROVE FALSE
  OBVIOUS
<1>1. Bad \in SUBSET Nat
  OBVIOUS
<1> HIDE DEF Bad
<1>2. PICK n \in Bad : \A k \in Bad : n <= k
  BY <1>1, LeastNatural
<1>3. n \in Nat /\ Encode(c, n) \notin Seq(Int)
  BY <1>2 DEF Bad
<1>4. CASE n > 9
  <2>1. n - 9 \in Nat /\ n - 9 < n
    BY <1>3, <1>4
  <2>2. n - 9 \notin Bad
    BY <1>2, <1>3, <2>1
  <2>3. Encode(c, n - 9) \in Seq(Int)
    BY <2>1, <2>2 DEF Bad
  <2>4. Chunk(c, 9) \o Encode(c, n - 9) \in Seq(Int)
    BY <2>3, ChunkIs, ConcatProperties
  <2>5. Encode(c, n) = Chunk(c, 9) \o Encode(c, n - 9)
    BY <1>3, <1>4, EncodeIs
  <2> QED
    BY <1>3, <2>4, <2>5
<1>5. CASE n \in 2 .. 9
  <2>1. Encode(c, n) = Chunk(c, n)
    BY <1>3, <1>5, EncodeIs
  <2> QED
    BY <1>3, <2>1, ChunkIs
<1>6. CASE n <= 1
  <2>1. Encode(c, n) = <<c>>
    BY <1>3, <1>6, EncodeIs
  <2> QED
    BY <1>3, <2>1
<1> QED
  BY <1>3, <1>4, <1>5, <1>6

\* g is the function by which RLEcompress is defined.
Compresses(g, data) ==
  g = [i \in Nat \ {0} |->
         IF i > Len(data) THEN <<>>
           ELSE Encode(data[i], Count(data, i)) \o g[i + Count(data, i)]]

\* RLEcompress is well defined.
LEMMA CompressesExists ==
  ASSUME NEW data \in Seq(Int)
  PROVE  \E g : Compresses(g, data)
<1> DEFINE S == Seq(Int)
           D == Nat \ {0}
           rank == [i \in D |-> IF i > Len(data) THEN 0 ELSE Len(data) + 1 - i]
           body(i, g) == IF i > Len(data) THEN <<>>
                           ELSE Encode(data[i], Count(data, i)) \o g[i + Count(data, i)]
           F == [p \in D \X [D -> S] |-> body(p[1], p[2])]
<1>1. ASSUME NEW i \in D, ~ i > Len(data)
      PROVE  /\ i + Count(data, i) \in D
             /\ rank[i + Count(data, i)] < rank[i]
             /\ Encode(data[i], Count(data, i)) \in S
  <2>1. i \in 1 .. Len(data)
    BY <1>1
  <2>2. Count(data, i) \in 1 .. Len(data) + 1 - i /\ data[i] \in Int
    BY <2>1, CountIs, CharOf
  <2>3. Count(data, i) \in Nat /\ Count(data, i) > 0 /\ Len(data) \in Nat
    BY <2>1, <2>2
  <2>4. i + Count(data, i) \in D
    BY <2>1, <2>3
  <2>5. rank[i] = Len(data) + 1 - i /\ Len(data) + 1 - i > 0
    BY <2>1
  <2>6. rank[i + Count(data, i)] \in {0, Len(data) + 1 - (i + Count(data, i))}
    BY <2>4
  <2>7. rank[i + Count(data, i)] < rank[i]
    <3> HIDE DEF rank, D
    <3> QED
      BY <2>1, <2>3, <2>5, <2>6
  <2> QED
    BY <2>2, <2>3, <2>4, <2>7, EncodeType
<1>2. rank \in [D -> Nat]
  OBVIOUS
<1>3. <<>> \in S
  OBVIOUS
<1>4. ASSUME NEW i \in D, NEW g \in [D -> S] PROVE body(i, g) \in S
  <2>1. CASE i > Len(data)
    BY <1>3, <2>1
  <2>2. CASE ~ i > Len(data)
    <3>1. Encode(data[i], Count(data, i)) \in S /\ g[i + Count(data, i)] \in S
      BY <1>1, <2>2
    <3>2. Encode(data[i], Count(data, i)) \o g[i + Count(data, i)] \in S
      BY <3>1, ConcatProperties
    <3> QED
      BY <2>2, <3>2
  <2> QED
    BY <2>1, <2>2
<1>5. ASSUME NEW i \in D, NEW g \in [D -> S] PROVE F[<<i, g>>] = body(i, g)
  <2> HIDE DEF body, S, D
  <2> QED
    OBVIOUS
<1>6. F \in [D \X [D -> S] -> S]
  <2> HIDE DEF body, S, D
  <2> QED
    BY <1>4
<1>7. LooksDown(D, S, rank, F)
  <2> SUFFICES ASSUME NEW i \in D, NEW g \in [D -> S], NEW h \in [D -> S],
                      \A e \in D : rank[e] < rank[i] => g[e] = h[e]
               PROVE  F[<<i, g>>] = F[<<i, h>>]
    BY DEF LooksDown
  <2> HIDE DEF rank, S, D, F
  <2>1. body(i, g) = body(i, h)
    BY <1>1
  <2> HIDE DEF body
  <2> QED
    BY <1>5, <2>1
<1>8. Recursion(D, S, rank, F)
  BY <1>2, <1>6, <1>7 DEF Recursion
<1> HIDE DEF F, rank, S, D
<1>9. Solvable(D, S, F)
  BY <1>3, <1>8, RecursionExists
<1>10. PICK g \in [D -> S] : \A i \in D : g[i] = F[<<i, g>>]
  BY <1>9 DEF Solvable
<1>11. g = [i \in D |-> body(i, g)]
  BY <1>5, <1>10
<1> QED
  BY <1>11 DEF Compresses, D

\* The code of the text from each place on.
From(data) == CHOOSE g : Compresses(g, data)

LEMMA CompressIsFrom ==
  ASSUME NEW data
  PROVE  RLEcompress(data) = From(data)[1]
BY DEF RLEcompress, From, Compresses

LEMMA FromIs ==
  ASSUME NEW data \in Seq(Int), NEW i \in Nat \ {0}
  PROVE  From(data)[i] =
           IF i > Len(data) THEN <<>>
             ELSE Encode(data[i], Count(data, i)) \o From(data)[i + Count(data, i)]
<1> DEFINE g == From(data)
<1>1. Compresses(g, data)
  BY CompressesExists DEF From
<1> HIDE DEF g
<1>2. g[i] = IF i > Len(data) THEN <<>>
               ELSE Encode(data[i], Count(data, i)) \o g[i + Count(data, i)]
  BY <1>1 DEF Compresses
<1> QED
  BY <1>2 DEF g
\* Count is the only number that says how long the run is.
LEMMA CountUnique ==
  ASSUME NEW data \in Seq(Int), NEW i \in 1 .. Len(data), NEW n \in 1 .. Len(data) + 1 - i,
         \A k \in i .. i + n - 1 : data[k] = data[i],
         i + n <= Len(data) => data[i + n] # data[i]
  PROVE  n = Count(data, i)
<1> DEFINE m == Count(data, i)
<1>1. /\ m \in 1 .. Len(data) + 1 - i
      /\ \A k \in i .. i + m - 1 : data[k] = data[i]
      /\ i + m <= Len(data) => data[i + m] # data[i]
  BY CountIs
<1> HIDE DEF m
<1>2. Len(data) \in Nat /\ m \in Nat /\ n \in Nat /\ i \in Nat
  BY <1>1
<1>3. ~ m < n
  <2> SUFFICES ASSUME m < n PROVE FALSE
    OBVIOUS
  <2>1. i + m \in i .. i + n - 1 /\ i + m <= Len(data)
    BY <1>1, <1>2
  <2> QED
    BY <1>1, <2>1
<1>4. ~ n < m
  <2> SUFFICES ASSUME n < m PROVE FALSE
    OBVIOUS
  <2>1. i + n \in i .. i + m - 1 /\ i + n <= Len(data)
    BY <1>1, <1>2
  <2> QED
    BY <1>1, <2>1
<1>5. m = n
  BY <1>2, <1>3, <1>4
<1> QED
  BY <1>5 DEF m

\* How many characters the first chunk of the code stands for, from i on, and the
\* chunk.
Step(data, i) == IF Count(data, i) > 9 THEN 9 ELSE Count(data, i)

Piece(c, k) == IF k = 1 THEN <<c>> ELSE Chunk(c, k)

LEMMA StepIs ==
  ASSUME NEW data \in Seq(Int), NEW i \in 1 .. Len(data)
  PROVE  /\ Step(data, i) \in 1 .. 9 /\ i + Step(data, i) \in 1 .. Len(data) + 1
         /\ \A k \in i .. i + Step(data, i) - 1 : data[k] = data[i]
         /\ Step(data, i) = 1 /\ i < Len(data) => data[i + 1] # data[i]
<1> DEFINE m == Count(data, i)
<1>1. /\ m \in 1 .. Len(data) + 1 - i
      /\ \A k \in i .. i + m - 1 : data[k] = data[i]
      /\ i + m <= Len(data) => data[i + m] # data[i]
  BY CountIs
<1> HIDE DEF m
<1>2. Len(data) \in Nat /\ m \in Nat /\ i \in Nat
  BY <1>1
<1>3. Step(data, i) = IF m > 9 THEN 9 ELSE m
  BY DEF Step, m
<1>4. CASE m > 9
  <2>1. Step(data, i) = 9
    BY <1>3, <1>4
  <2>2. \A k \in i .. i + 8 : k \in i .. i + m - 1
    BY <1>2, <1>4
  <2> QED
    BY <1>1, <1>2, <1>4, <2>1, <2>2
<1>5. CASE ~ m > 9
  <2>1. Step(data, i) = m
    BY <1>3, <1>5
  <2> QED
    BY <1>1, <1>2, <1>5, <2>1
<1> QED
  BY <1>4, <1>5

LEMMA PieceIs ==
  ASSUME NEW c \in Int, NEW k \in 1 .. 9
  PROVE  /\ Piece(c, k) \in Seq(Int)
         /\ Len(Piece(c, k)) = IF k = 1 THEN 1 ELSE 3
         /\ Piece(c, k)[1] = c
         /\ k # 1 => Piece(c, k)[2] = c /\ Piece(c, k)[3] = Char0 + k
<1>1. CASE k = 1
  <2>1. Piece(c, k) = <<c>>
    BY <1>1 DEF Piece
  <2>2. <<c>> \in Seq(Int) /\ Len(<<c>>) = 1 /\ <<c>>[1] = c
    OBVIOUS
  <2> QED
    BY <1>1, <2>1, <2>2
<1>2. CASE k # 1
  <2>1. Piece(c, k) = Chunk(c, k)
    BY <1>2 DEF Piece
  <2>2. k \in Nat
    OBVIOUS
  <2>3. /\ Chunk(c, k) \in Seq(Int) /\ Len(Chunk(c, k)) = 3
        /\ Chunk(c, k)[1] = c /\ Chunk(c, k)[2] = c /\ Chunk(c, k)[3] = Char0 + k
    BY <2>2, ChunkIs
  <2> QED
    BY <1>2, <2>1, <2>3
<1> QED
  BY <1>1, <1>2

LEMMA FromEnds ==
  ASSUME NEW data \in Seq(Int)
  PROVE  From(data)[Len(data) + 1] = <<>> /\ From(data)[Len(data) + 1] \in Seq(Int)
<1>1. Len(data) + 1 \in Nat \ {0} /\ Len(data) + 1 > Len(data)
  OBVIOUS
<1> QED
  BY <1>1, FromIs, EmptySeq

LEMMA FromType ==
  ASSUME NEW data \in Seq(Int)
  PROVE  \A i \in 1 .. Len(data) + 1 : From(data)[i] \in Seq(Int)
<1> DEFINE Bad == {n \in Nat : \E i \in 1 .. Len(data) + 1 :
                                 n = Len(data) + 1 - i /\ From(data)[i] \notin Seq(Int)}
<1>1. Len(data) \in Nat
  OBVIOUS
<1>2. Bad = {}
  <2> SUFFICES ASSUME Bad # {} PROVE FALSE
    OBVIOUS
  <2>1. Bad \in SUBSET Nat
    OBVIOUS
  <2> HIDE DEF Bad
  <2>2. PICK n \in Bad : \A k \in Bad : n <= k
    BY <2>1, LeastNatural
  <2>3. PICK i \in 1 .. Len(data) + 1 :
          n \in Nat /\ n = Len(data) + 1 - i /\ From(data)[i] \notin Seq(Int)
    BY <2>2 DEF Bad
  <2>4. i # Len(data) + 1
    BY <2>3, FromEnds
  <2>5. i \in 1 .. Len(data) /\ i \in Nat \ {0} /\ ~ i > Len(data)
    BY <1>1, <2>4
  <2> DEFINE j == i + Count(data, i)
  <2>6. Count(data, i) \in Nat /\ data[i] \in Int /\ j \in 1 .. Len(data) + 1 /\ j > i
    BY <1>1, <2>5, CountIs, CharOf
  <2> HIDE DEF j
  <2>7. Len(data) + 1 - j \notin Bad /\ Len(data) + 1 - j \in Nat
    BY <1>1, <2>2, <2>3, <2>6
  <2>8. From(data)[j] \in Seq(Int)
    BY <2>6, <2>7 DEF Bad
  <2>9. From(data)[i] = Encode(data[i], Count(data, i)) \o From(data)[j]
    BY <2>5, FromIs DEF j
  <2>10. Encode(data[i], Count(data, i)) \in Seq(Int)
    BY <2>6, EncodeType
  <2>11. Encode(data[i], Count(data, i)) \o From(data)[j] \in Seq(Int)
    BY <2>8, <2>10, ConcatProperties
  <2> QED
    BY <2>3, <2>9, <2>11
<1>3. ASSUME NEW i \in 1 .. Len(data) + 1 PROVE From(data)[i] \in Seq(Int)
  <2>1. Len(data) + 1 - i \in Nat
    BY <1>1
  <2>2. Len(data) + 1 - i \notin Bad
    <3> HIDE DEF Bad
    <3> QED
      BY <1>2
  <2> QED
    BY <2>1, <2>2
<1> QED
  BY <1>3

\* The code from i on is that of the first chunk, and the code of what follows.
LEMMA FromSteps ==
  ASSUME NEW data \in Seq(Int), NEW i \in 1 .. Len(data)
  PROVE  From(data)[i] = Piece(data[i], Step(data, i)) \o From(data)[i + Step(data, i)]
<1> DEFINE c == data[i]
           m == Count(data, i)
           j == i + m
<1>1. /\ m \in 1 .. Len(data) + 1 - i
      /\ \A k \in i .. i + m - 1 : data[k] = c
      /\ i + m <= Len(data) => data[i + m] # c
  BY CountIs
<1>2. From(data)[i] = Encode(c, m) \o From(data)[j]
  <2>1. i \in Nat \ {0} /\ ~ i > Len(data)
    OBVIOUS
  <2> QED
    BY <2>1, FromIs
<1>3. c \in Int
  BY CharOf
<1>4. Step(data, i) = IF m > 9 THEN 9 ELSE m
  BY DEF Step
<1>5. j \in 1 .. Len(data) + 1 /\ m \in Nat /\ Len(data) \in Nat /\ i \in Nat
  BY <1>1
<1>6. j = i + m
  OBVIOUS
<1> HIDE DEF c, m, j
<1>7. CASE m > 9
  <2> DEFINE h == i + 9
  <2>1. /\ h \in 1 .. Len(data) /\ m - 9 \in 1 .. Len(data) + 1 - h /\ h + (m - 9) = j
        /\ m - 9 \in Nat /\ h \in i .. i + m - 1
    BY <1>1, <1>5, <1>6, <1>7
  <2>2. data[h] = c
    BY <1>1, <2>1
  <2>3. \A k \in h .. h + (m - 9) - 1 : k \in i .. i + m - 1
    BY <1>5
  <2>4. \A k \in h .. h + (m - 9) - 1 : data[k] = data[h]
    BY <1>1, <2>2, <2>3
  <2>5. h + (m - 9) <= Len(data) => data[h + (m - 9)] # data[h]
    BY <1>1, <1>6, <2>1, <2>2
  <2> HIDE DEF h
  <2>6. Count(data, h) = m - 9
    BY <2>1, <2>4, <2>5, CountUnique
  <2>7. From(data)[h] = Encode(c, m - 9) \o From(data)[j]
    <3>1. h \in Nat \ {0} /\ ~ h > Len(data)
      BY <2>1
    <3> QED
      BY <2>1, <2>2, <2>6, <3>1, FromIs
  <2>8. Encode(c, m) = Chunk(c, 9) \o Encode(c, m - 9)
    BY <1>3, <1>5, <1>7, EncodeIs
  <2>9. /\ Chunk(c, 9) \in Seq(Int) /\ Encode(c, m - 9) \in Seq(Int)
        /\ From(data)[j] \in Seq(Int)
    BY <1>3, <1>5, <2>1, ChunkIs, EncodeType, FromType
  <2>10. From(data)[i] = Chunk(c, 9) \o From(data)[h]
    <3>1. (Chunk(c, 9) \o Encode(c, m - 9)) \o From(data)[j]
            = Chunk(c, 9) \o (Encode(c, m - 9) \o From(data)[j])
      <4>1. \A s, t, u \in Seq(Int) : (s \o t) \o u = s \o (t \o u)
        OBVIOUS
      <4> QED
        BY <2>9, <4>1, Zenon
    <3>2. From(data)[i] = (Chunk(c, 9) \o Encode(c, m - 9)) \o From(data)[j]
      BY <1>2, <2>8
    <3> QED
      BY <2>7, <3>1, <3>2
  <2>11. Step(data, i) = 9 /\ i + Step(data, i) = h /\ Piece(c, 9) = Chunk(c, 9)
    BY <1>4, <1>7 DEF Piece, h
  <2> QED
    BY <2>10, <2>11 DEF c
<1>8. CASE ~ m > 9 /\ m # 1
  <2>1. m \in 2 .. 9
    BY <1>1, <1>5, <1>8
  <2>2. Encode(c, m) = Chunk(c, m)
    BY <1>3, <1>5, <2>1, EncodeIs
  <2> QED
    <3>1. Step(data, i) = m /\ i + Step(data, i) = j /\ Piece(c, m) = Chunk(c, m)
      BY <1>4, <1>6, <1>8 DEF Piece
    <3> QED
      BY <1>2, <2>2, <3>1 DEF c
<1>9. CASE m = 1
  <2>1. Encode(c, m) = <<c>>
    BY <1>3, <1>9, EncodeIs
  <2> QED
    <3>1. Step(data, i) = 1 /\ i + Step(data, i) = j /\ Piece(c, 1) = <<c>>
      BY <1>4, <1>6, <1>9 DEF Piece
    <3> QED
      BY <1>2, <2>1, <3>1 DEF c
<1> QED
  BY <1>7, <1>8, <1>9
-----------------------------------------------------------------------------
\* Decoding

LEMMA RunIs ==
  ASSUME NEW c \in Int, NEW n \in Nat
  PROVE  /\ Run(c, n) \in Seq(Int) /\ Len(Run(c, n)) = n
         /\ \A k \in 1 .. n : Run(c, n)[k] = c
BY DEF Run

\* How far the decoder goes on from i, and how many characters it writes, when n are
\* done.
Skip(code, size, i) == IF code[i] = Byte(code, size, i + 1) THEN 3 ELSE 1

Occ(code, size, i, n) ==
  LET twice == code[i] = Byte(code, size, i + 1)
      digit == Byte(code, size, i + 2) - Char0
      room == IF size - n > 1 THEN size - n ELSE 1
  IN IF ~ twice \/ digit \in {0, 1} THEN 1
       ELSE IF digit \in 2 .. room THEN digit ELSE room

LEMMA OccType ==
  ASSUME NEW code, NEW size \in Nat, NEW i, NEW n \in Nat
  PROVE  Occ(code, size, i, n) \in Nat
<1> DEFINE room == IF size - n > 1 THEN size - n ELSE 1
           digit == Byte(code, size, i + 2) - Char0
<1>1. room \in Nat
  OBVIOUS
<1>2. Occ(code, size, i, n) \in {1, room} \cup 2 .. room
  <2> HIDE DEF digit
  <2> QED
    BY DEF Occ, digit
<1> QED
  BY <1>1, <1>2

\* g is the function by which RLEdecompress is defined.
Decodes(g, code, size) ==
  g = [at \in (Nat \ {0}) \X Nat |->
         IF at[1] > Len(code) THEN <<>>
           ELSE Run(code[at[1]], Occ(code, size, at[1], at[2]))
                  \o g[<<at[1] + Skip(code, size, at[1]),
                         at[2] + Occ(code, size, at[1], at[2])>>]]

\* RLEdecompress is well defined.
LEMMA DecodesExists ==
  ASSUME NEW code \in Seq(Int), NEW size \in Nat
  PROVE  \E g : Decodes(g, code, size)
<1> DEFINE S == Seq(Int)
           D == (Nat \ {0}) \X Nat
           rank == [p \in D |-> IF p[1] > Len(code) THEN 0 ELSE Len(code) + 1 - p[1]]
           run(i, n) == Run(code[i], Occ(code, size, i, n))
           next(i, n) == <<i + Skip(code, size, i), n + Occ(code, size, i, n)>>
           body(i, n, g) == IF i > Len(code) THEN <<>> ELSE run(i, n) \o g[next(i, n)]
           F == [q \in D \X [D -> S] |-> body(q[1][1], q[1][2], q[2])]
<1>1. ASSUME NEW i \in Nat \ {0}, NEW n \in Nat, ~ i > Len(code)
      PROVE  /\ next(i, n) \in D
             /\ rank[next(i, n)] < rank[<<i, n>>]
             /\ run(i, n) \in S
  <2>1. i \in 1 .. Len(code)
    BY <1>1
  <2>2. code[i] \in Int /\ Occ(code, size, i, n) \in Nat /\ Skip(code, size, i) \in {1, 3}
    BY <2>1, CharOf, OccType DEF Skip
  <2>3. run(i, n) \in S
    BY <2>2, RunIs
  <2> DEFINE j == i + Skip(code, size, i)
             m == n + Occ(code, size, i, n)
  <2>4. j \in Nat \ {0} /\ j > i /\ m \in Nat
    BY <2>1, <2>2
  <2> HIDE DEF j, m
  <2>5. <<i, n>> \in D /\ <<j, m>> \in D
    BY <2>4
  <2>6. rank[<<i, n>>] = Len(code) + 1 - i
    BY <2>1, <2>5
  <2>7. rank[<<j, m>>] \in {0, Len(code) + 1 - j}
    BY <2>5
  <2>8. rank[<<j, m>>] < rank[<<i, n>>]
    <3> HIDE DEF rank
    <3> QED
      BY <2>1, <2>4, <2>6, <2>7
  <2> QED
    BY <2>3, <2>5, <2>8 DEF j, m
<1>2. rank \in [D -> Nat]
  OBVIOUS
<1>3. <<>> \in S
  OBVIOUS
<1>4. ASSUME NEW i \in Nat \ {0}, NEW n \in Nat, NEW g \in [D -> S]
      PROVE  body(i, n, g) \in S
  <2>1. CASE i > Len(code)
    BY <1>3, <2>1
  <2>2. CASE ~ i > Len(code)
    <3> HIDE DEF run, next, D
    <3>1. run(i, n) \in S /\ g[next(i, n)] \in S
      BY <1>1, <2>2
    <3>2. run(i, n) \o g[next(i, n)] \in S
      BY <3>1, ConcatProperties
    <3> QED
      BY <2>2, <3>2
  <2> QED
    BY <2>1, <2>2
<1>5. ASSUME NEW i \in Nat \ {0}, NEW n \in Nat, NEW g \in [D -> S]
      PROVE  F[<<<<i, n>>, g>>] = body(i, n, g)
  <2> HIDE DEF body, S
  <2> QED
    OBVIOUS
<1>6. F \in [D \X [D -> S] -> S]
  <2> HIDE DEF body, S
  <2> QED
    BY <1>4
<1>7. LooksDown(D, S, rank, F)
  <2> SUFFICES ASSUME NEW p \in D, NEW g \in [D -> S], NEW h \in [D -> S],
                      \A e \in D : rank[e] < rank[p] => g[e] = h[e]
               PROVE  F[<<p, g>>] = F[<<p, h>>]
    BY DEF LooksDown
  <2>1. PICK i \in Nat \ {0}, n \in Nat : p = <<i, n>>
    OBVIOUS
  <2> HIDE DEF rank, S, F, next, run, D
  <2>2. body(i, n, g) = body(i, n, h)
    BY <1>1, <2>1
  <2> HIDE DEF body
  <2> QED
    BY <1>5, <2>1, <2>2
<1>8. Recursion(D, S, rank, F)
  BY <1>2, <1>6, <1>7 DEF Recursion
<1>9. Solvable(D, S, F)
  <2> HIDE DEF F, rank, S, D
  <2> QED
    BY <1>3, <1>8, RecursionExists
<1> HIDE DEF F, rank, S
<1>10. PICK g \in [D -> S] : \A p \in D : g[p] = F[<<p, g>>]
  BY <1>9 DEF Solvable
<1>11. ASSUME NEW p \in D PROVE g[p] = body(p[1], p[2], g)
  <2>1. PICK i \in Nat \ {0}, n \in Nat : p = <<i, n>>
    OBVIOUS
  <2>2. p[1] = i /\ p[2] = n
    BY <2>1
  <2> HIDE DEF body, D
  <2>3. g[p] = body(i, n, g)
    BY <1>5, <1>10, <2>1
  <2> QED
    BY <2>2, <2>3
<1>12. g = [at \in D |-> body(at[1], at[2], g)]
  <2> HIDE DEF body, D
  <2> QED
    BY <1>10, <1>11
<1> QED
  BY <1>12 DEF Decodes

\* What the decoder makes of the code from each place on.
Decoder(code, size) == CHOOSE g : Decodes(g, code, size)

LEMMA DecompressIsDecoder ==
  ASSUME NEW code, NEW size
  PROVE  RLEdecompress(code, size) = Decoder(code, size)[<<1, 0>>]
BY DEF RLEdecompress, Decoder, Decodes, Occ, Skip

LEMMA DecoderIs ==
  ASSUME NEW code \in Seq(Int), NEW size \in Nat, NEW i \in Nat \ {0}, NEW n \in Nat
  PROVE  Decoder(code, size)[<<i, n>>] =
           IF i > Len(code) THEN <<>>
             ELSE Run(code[i], Occ(code, size, i, n))
                    \o Decoder(code, size)[<<i + Skip(code, size, i),
                                             n + Occ(code, size, i, n)>>]
<1> DEFINE g == Decoder(code, size)
<1>1. Decodes(g, code, size)
  BY DecodesExists DEF Decoder
<1> HIDE DEF g
<1>2. g[<<i, n>>] = IF i > Len(code) THEN <<>>
                      ELSE Run(code[i], Occ(code, size, i, n))
                             \o g[<<i + Skip(code, size, i),
                                    n + Occ(code, size, i, n)>>]
  BY <1>1 DEF Decodes
<1> QED
  BY <1>2 DEF g
LEMMA DecoderGoesOn ==
  ASSUME NEW code \in Seq(Int), NEW size \in Nat, NEW i \in 1 .. Len(code), NEW n \in Nat
  PROVE  Decoder(code, size)[<<i, n>>] =
           Run(code[i], Occ(code, size, i, n))
             \o Decoder(code, size)[<<i + Skip(code, size, i), n + Occ(code, size, i, n)>>]
<1>1. i \in Nat \ {0} /\ ~ i > Len(code)
  OBVIOUS
<1> QED
  BY <1>1, DecoderIs

\* Inside the code the decoder sees the code.
LEMMA ByteInside ==
  ASSUME NEW code \in Seq(Int), NEW size \in Nat, NEW i \in 1 .. Len(code)
  PROVE  Byte(code, size, i) = code[i]
<1>1. /\ i <= Len(code)
      /\ i \notin Len(code) + 1 .. 2 * size
      /\ ~ (i > 2 * size /\ i > Len(code))
  OBVIOUS
<1> QED
  BY <1>1 DEF Byte

\* The code of what is left begins with the first character that is left.
LEMMA FromFirst ==
  ASSUME NEW data \in Seq(Int), NEW i \in 1 .. Len(data)
  PROVE  From(data)[i][1] = data[i] /\ Len(From(data)[i]) >= 1
<1> DEFINE k == Step(data, i)
           j == i + k
           piece == Piece(data[i], k)
<1>1. k \in 1 .. 9 /\ j \in 1 .. Len(data) + 1
  BY StepIs
<1>2. data[i] \in Int
  BY CharOf
<1>3. From(data)[i] = piece \o From(data)[j]
  BY FromSteps
<1> HIDE DEF j
<1>4. /\ piece \in Seq(Int) /\ piece[1] = data[i]
      /\ Len(piece) = IF k = 1 THEN 1 ELSE 3
  BY <1>1, <1>2, PieceIs
<1> HIDE DEF piece, k
<1>5. From(data)[j] \in Seq(Int) /\ Len(From(data)[j]) \in Nat
  BY <1>1, FromType
<1>6. /\ Len(piece \o From(data)[j]) = Len(piece) + Len(From(data)[j])
      /\ \A q \in 1 .. Len(piece) + Len(From(data)[j]) :
           (piece \o From(data)[j])[q]
             = IF q <= Len(piece) THEN piece[q] ELSE From(data)[j][q - Len(piece)]
  BY <1>4, <1>5, ConcatProperties
<1> DEFINE a == Len(piece)
           b == Len(From(data)[j])
<1>7. a \in {1, 3} /\ b \in Nat
  BY <1>4, <1>5
<1> HIDE DEF a, b
<1>8. 1 <= a /\ 1 \in 1 .. a + b /\ a + b >= 1
  BY <1>7
<1> QED
  BY <1>3, <1>4, <1>6, <1>8 DEF a, b

\* The code of a part of the text, decoded from where it stands in the code.
LEMMA DecodesRest ==
  ASSUME NEW data \in Seq(Int), NEW code \in Seq(Int)
  PROVE  \A i \in 1 .. Len(data) + 1, l \in Nat :
           /\ Len(code) = l + Len(From(data)[i])
           /\ \A q \in 1 .. Len(From(data)[i]) : code[l + q] = From(data)[i][q]
           => Decoder(code, Len(data))[<<l + 1, i - 1>>] = SubSeq(data, i, Len(data))
<1> DEFINE size == Len(data)
           rest(i) == From(data)[i]
           At(i, l) == /\ Len(code) = l + Len(rest(i))
                       /\ \A q \in 1 .. Len(rest(i)) : code[l + q] = rest(i)[q]
           Fine(i, l) == Decoder(code, size)[<<l + 1, i - 1>>] = SubSeq(data, i, size)
           Bad == {n \in Nat : \E i \in 1 .. size + 1, l \in Nat :
                                 n = size + 1 - i /\ At(i, l) /\ ~ Fine(i, l)}
<1>0. size \in Nat
  OBVIOUS
<1>1. Bad = {}
  <2> SUFFICES ASSUME Bad # {} PROVE FALSE
    OBVIOUS
  <2>1. Bad \in SUBSET Nat
    OBVIOUS
  <2> HIDE DEF Bad
  <2>2. PICK m \in Bad : \A k \in Bad : m <= k
    BY <2>1, LeastNatural
  <2>3. PICK i \in 1 .. size + 1, l \in Nat :
          m \in Nat /\ m = size + 1 - i /\ At(i, l) /\ ~ Fine(i, l)
    BY <2>2 DEF Bad
  <2>4. CASE i = size + 1
    <3>1. rest(i) = <<>>
      BY <2>4, FromEnds
    <3>2. Len(code) = l
      BY <2>3, <3>1
    <3>3. l + 1 \in Nat \ {0} /\ l + 1 > Len(code) /\ i - 1 \in Nat
      BY <1>0, <2>3, <2>4, <3>2
    <3>4. Decoder(code, size)[<<l + 1, i - 1>>] = <<>>
      BY <1>0, <3>3, DecoderIs
    <3>5. SubSeq(data, size + 1, size) = <<>>
      BY <1>0
    <3> QED
      BY <2>3, <2>4, <3>4, <3>5
  <2>5. CASE i # size + 1
    <3> DEFINE k == Step(data, i)
               j == i + k
               c == data[i]
               piece == Piece(c, k)
    <3>1. i \in 1 .. size /\ i - 1 \in Nat
      BY <1>0, <2>3, <2>5
    <3>2. /\ k \in 1 .. 9 /\ j \in 1 .. size + 1
          /\ \A e \in i .. j - 1 : data[e] = c
          /\ k = 1 /\ i < size => data[i + 1] # c
      <4>1. /\ Step(data, i) \in 1 .. 9 /\ i + Step(data, i) \in 1 .. Len(data) + 1
            /\ \A e \in i .. i + Step(data, i) - 1 : data[e] = data[i]
            /\ Step(data, i) = 1 /\ i < Len(data) => data[i + 1] # data[i]
        BY <3>1, StepIs
      <4>2. k \in 1 .. 9 /\ j \in 1 .. size + 1
        BY <4>1
      <4>3. \A e \in i .. j - 1 : data[e] = c
        <5>1. i + Step(data, i) - 1 = j - 1
          <6>1. i \in Int /\ Step(data, i) \in Int
            BY <3>1, <4>1
          <6> HIDE DEF size
          <6> QED
            BY <6>1
        <5> QED
          BY <4>1, <5>1
      <4>4. k = 1 /\ i < size => data[i + 1] # c
        BY <4>1
      <4> QED
        BY <4>2, <4>3, <4>4
    <3>3. c \in Int
      BY <3>1, CharOf
    <3>4. /\ piece \in Seq(Int) /\ Len(piece) = IF k = 1 THEN 1 ELSE 3
          /\ piece[1] = c
          /\ k # 1 => piece[2] = c /\ piece[3] = Char0 + k
      BY <3>2, <3>3, PieceIs
    <3>5. rest(i) = piece \o rest(j)
      BY <3>1, FromSteps
    <3>6. rest(j) \in Seq(Int) /\ Len(rest(j)) \in Nat
      BY <3>2, FromType
    <3>7. j = i + k
      OBVIOUS
    <3> DEFINE a == Len(piece)
    <3>8. a \in Nat /\ a = IF k = 1 THEN 1 ELSE 3
      BY <3>4
    <3> HIDE DEF k, j, c, piece, a, rest, size
    <3>. l \in Nat /\ m \in Nat /\ m = size + 1 - i /\ size \in Nat /\ i \in 1 .. size
      BY <1>0, <2>3, <3>1
    <3>9. /\ Len(rest(i)) = a + Len(rest(j))
          /\ \A q \in 1 .. a + Len(rest(j)) :
               rest(i)[q] = IF q <= a THEN piece[q] ELSE rest(j)[q - a]
      <4>1. /\ Len(piece \o rest(j)) = Len(piece) + Len(rest(j))
            /\ \A q \in 1 .. Len(piece) + Len(rest(j)) : (piece \o rest(j))[q]
                 = IF q <= Len(piece) THEN piece[q] ELSE rest(j)[q - Len(piece)]
        BY <3>4, <3>6, ConcatProperties
      <4> QED
        BY <3>5, <4>1 DEF a
    <3>10. At(j, l + a)
      <4>1. Len(code) = (l + a) + Len(rest(j))
        BY <2>3, <3>6, <3>8, <3>9
      <4>2. ASSUME NEW q \in 1 .. Len(rest(j)) PROVE code[(l + a) + q] = rest(j)[q]
        <5>1. /\ a + q \in 1 .. a + Len(rest(j)) /\ ~ a + q <= a /\ (a + q) - a = q
              /\ (l + a) + q = l + (a + q)
          BY <2>3, <3>6, <3>8
        <5>2. rest(i)[a + q] = rest(j)[q]
          BY <3>9, <5>1
        <5>3. code[l + (a + q)] = rest(i)[a + q]
          BY <2>3, <3>9, <5>1
        <5> QED
          BY <5>1, <5>2, <5>3
      <4> QED
        BY <4>1, <4>2
    <3>11. Fine(j, l + a)
      <4>1. size + 1 - j \in Nat /\ size + 1 - j < m /\ l + a \in Nat
        BY <3>2, <3>7, <3>8
      <4>2. size + 1 - j \notin Bad
        BY <2>2, <2>3, <4>1
      <4> HIDE DEF At, Fine
      <4> QED
        BY <3>2, <3>10, <4>1, <4>2 DEF Bad
    <3>12. /\ code[l + 1] = c
           /\ k # 1 => code[l + 2] = c /\ code[l + 3] = Char0 + k /\ l + 3 <= Len(code)
           /\ l + 1 <= Len(code)
      <4>1. 1 \in 1 .. a + Len(rest(j)) /\ 1 <= a
        BY <3>6, <3>8
      <4>2. k # 1 => /\ 2 \in 1 .. a + Len(rest(j)) /\ 2 <= a
                     /\ 3 \in 1 .. a + Len(rest(j)) /\ 3 <= a
        BY <3>6, <3>8
      <4>3. \A q \in 1 .. a + Len(rest(j)) : q <= a => code[l + q] = piece[q]
        BY <2>3, <3>9
      <4>4. Len(code) = l + (a + Len(rest(j)))
        BY <2>3, <3>9
      <4>5. l + 1 <= Len(code) /\ (k # 1 => l + 3 <= Len(code))
        BY <3>6, <3>8, <4>4
      <4> QED
        BY <3>4, <4>1, <4>2, <4>3, <4>5
    <3>13. /\ Occ(code, size, l + 1, i - 1) = k
           /\ \/ Skip(code, size, l + 1) = a
              \/ Skip(code, size, l + 1) \in {1, 3} /\ a = 1 /\ j = size + 1
      <4> DEFINE room == IF size - (i - 1) > 1 THEN size - (i - 1) ELSE 1
                 twice == code[l + 1] = Byte(code, size, l + 2)
                 digit == Byte(code, size, l + 3) - Char0
      <4>1. Occ(code, size, l + 1, i - 1)
              = IF ~ twice \/ digit \in {0, 1} THEN 1
                  ELSE IF digit \in 2 .. room THEN digit ELSE room
        <5>1. (l + 1) + 1 = l + 2 /\ (l + 1) + 2 = l + 3
          OBVIOUS
        <5> QED
          BY <5>1 DEF Occ
      <4>2. Skip(code, size, l + 1) = IF twice THEN 3 ELSE 1
        <5>1. (l + 1) + 1 = l + 2
          OBVIOUS
        <5> QED
          BY <5>1 DEF Skip
      <4>3. CASE k # 1
        <5>1. l + 2 \in 1 .. Len(code) /\ l + 3 \in 1 .. Len(code)
          BY <3>12, <4>3
        <5>2. twice
          BY <3>12, <4>3, <5>1, ByteInside
        <5>3. digit = k
          <6>1. Byte(code, size, l + 3) = Char0 + k
            BY <3>12, <4>3, <5>1, ByteInside
          <6> QED
            BY <3>2, <6>1 DEF Char0
        <5>4. k \in 2 .. room /\ k \notin {0, 1}
          BY <3>2, <3>7, <4>3
        <5> HIDE DEF twice, digit, room
        <5> QED
          BY <3>8, <4>1, <4>2, <4>3, <5>2, <5>3, <5>4
      <4>4. CASE k = 1 /\ i < size
        <5>1. j \in 1 .. size /\ j = i + 1 /\ a = 1
          BY <3>7, <3>8, <4>4
        <5>2. rest(j)[1] = data[i + 1] /\ Len(rest(j)) >= 1
          BY <5>1, FromFirst DEF rest, size
        <5>3. 1 \in 1 .. Len(rest(j)) /\ (l + a) + 1 = l + 2
          BY <3>6, <5>1, <5>2
        <5>4. code[l + 2] = rest(j)[1] /\ Len(code) = (l + a) + Len(rest(j))
          BY <3>10, <5>3
        <5>5. l + 2 \in 1 .. Len(code)
          BY <3>6, <5>1, <5>2, <5>4
        <5>6. ~ twice
          BY <3>2, <3>12, <4>4, <5>2, <5>4, <5>5, ByteInside
        <5> HIDE DEF twice, digit, room
        <5> QED
          BY <4>1, <4>2, <4>4, <5>1, <5>6
      <4>5. CASE k = 1 /\ ~ i < size
        <5>1. room = 1 /\ a = 1 /\ j = size + 1
          BY <3>7, <3>8, <4>5
        <5>2. digit \notin 2 .. room
          BY <5>1
        <5> HIDE DEF twice, digit, room
        <5> QED
          BY <4>1, <4>2, <4>5, <5>1, <5>2
      <4> QED
        BY <4>3, <4>4, <4>5
    <3>15. Decoder(code, size)[<<(l + 1) + Skip(code, size, l + 1), (i - 1) + k>>]
             = SubSeq(data, j, size)
      <4>1. (i - 1) + k = j - 1 /\ j - 1 \in Nat
        BY <3>2, <3>7
      <4>2. CASE Skip(code, size, l + 1) = a
        <5>1. (l + 1) + Skip(code, size, l + 1) = (l + a) + 1
          BY <3>8, <4>2
        <5> QED
          BY <3>11, <4>1, <5>1
      <4>3. CASE Skip(code, size, l + 1) \in {1, 3} /\ a = 1 /\ j = size + 1
        <5> DEFINE next == (l + 1) + Skip(code, size, l + 1)
        <5>1. rest(j) = <<>>
          BY <4>3, FromEnds DEF rest, size
        <5>2. Len(code) = l + 1
          BY <3>10, <4>3, <5>1
        <5>3. next \in Nat \ {0} /\ next > Len(code)
          BY <4>3, <5>2
        <5>4. SubSeq(data, j, size) = <<>>
          BY <4>3 DEF size
        <5> HIDE DEF next
        <5>5. Decoder(code, size)[<<next, j - 1>>] = <<>>
          BY <4>1, <5>3, DecoderIs
        <5> QED
          BY <4>1, <5>4, <5>5 DEF next
      <4> QED
        BY <3>13, <4>2, <4>3
    <3>16. Decoder(code, size)[<<l + 1, i - 1>>] = Run(c, k) \o SubSeq(data, j, size)
      <4>1. l + 1 \in Nat \ {0} /\ ~ l + 1 > Len(code)
        BY <2>3, <3>12
      <4> QED
        <5>1. Decoder(code, size)[<<l + 1, i - 1>>]
                = Run(code[l + 1], Occ(code, size, l + 1, i - 1))
                    \o Decoder(code, size)[<<(l + 1) + Skip(code, size, l + 1),
                                             (i - 1) + Occ(code, size, l + 1, i - 1)>>]
          <6> DEFINE at == l + 1
                     n == i - 1
          <6>1. at \in 1 .. Len(code) /\ n \in Nat
            BY <3>1, <4>1
          <6> HIDE DEF at, n
          <6>2. Decoder(code, size)[<<at, n>>]
                  = Run(code[at], Occ(code, size, at, n))
                      \o Decoder(code, size)[<<at + Skip(code, size, at),
                                               n + Occ(code, size, at, n)>>]
            BY <6>1, DecoderGoesOn
          <6> QED
            BY <6>2 DEF at, n
        <5> QED
          BY <3>12, <3>13, <3>15, <5>1
    <3>17. Run(c, k) \o SubSeq(data, j, size) = SubSeq(data, i, size)
      <4>1. Run(c, k) = SubSeq(data, i, j - 1)
        <5>1. Run(c, k) \in Seq(Int) /\ Len(Run(c, k)) = k
              /\ \A e \in 1 .. k : Run(c, k)[e] = c
          <6>1. k \in Nat
            BY <3>2
          <6> QED
            BY <3>3, <6>1, RunIs
        <5>2. SubSeq(data, i, j - 1) \in Seq(Int) /\ Len(SubSeq(data, i, j - 1)) = k
              /\ \A e \in 1 .. k : SubSeq(data, i, j - 1)[e] = data[i + e - 1]
          BY <3>2, <3>7, SubSeqProperties DEF size
        <5>3. \A e \in 1 .. k : data[i + e - 1] = c
          BY <3>2, <3>7
        <5> QED
          BY <5>1, <5>2, <5>3
      <4>2. SubSeq(data, i, j - 1) \o SubSeq(data, j, size) = SubSeq(data, i, size)
        <5>1. /\ i \in 1 .. size + 1 /\ j - 1 \in i - 1 .. size /\ size \in j - 1 .. size
              /\ (j - 1) + 1 = j
          BY <3>2, <3>7
        <5>2. SubSeq(data, i, j - 1) \o SubSeq(data, (j - 1) + 1, size)
                = SubSeq(data, i, size)
          BY <5>1, ConcatAdjacentSubSeq DEF size
        <5> QED
          BY <5>1, <5>2
      <4> QED
        BY <4>1, <4>2
    <3> QED
      BY <2>3, <3>16, <3>17
  <2> QED
    BY <2>4, <2>5
<1>2. ASSUME NEW i \in 1 .. size + 1, NEW l \in Nat, At(i, l) PROVE Fine(i, l)
  <2>1. size + 1 - i \in Nat
    BY <1>0
  <2>2. size + 1 - i \notin Bad
    <3> HIDE DEF Bad
    <3> QED
      BY <1>1
  <2> HIDE DEF At, Fine, size
  <2> QED
    BY <1>2, <2>1, <2>2
<1> QED
  BY <1>2
\* What RLEdecompress makes of what RLEcompress made of a text is the text.
LEMMA RoundTrip ==
  ASSUME NEW data \in Seq(Int)
  PROVE  RLEdecompress(RLEcompress(data), Len(data)) = data
<1> DEFINE code == From(data)[1]
<1>1. 1 \in 1 .. Len(data) + 1 /\ 0 \in Nat
  OBVIOUS
<1>2. code \in Seq(Int)
  BY <1>1, FromType
<1>3. RLEcompress(data) = code
  BY CompressIsFrom
<1>4. Len(code) \in Nat /\ Len(code) = 0 + Len(code) /\ \A q \in 1 .. Len(code) : 0 + q = q
  BY <1>2
<1> HIDE DEF code
<1>5. Decoder(code, Len(data))[<<0 + 1, 1 - 1>>] = SubSeq(data, 1, Len(data))
  BY <1>1, <1>2, <1>4, DecodesRest DEF code
<1>6. SubSeq(data, 1, Len(data)) = data
  BY SubSeqFull
<1>7. 0 + 1 = 1 /\ 1 - 1 = 0
  OBVIOUS
<1> QED
  BY <1>3, <1>5, <1>6, <1>7, DecompressIsDecoder

-----------------------------------------------------------------------------
\* The length of the code

\* The code of what is left takes at most two bytes for each character.
LEMMA FromFits ==
  ASSUME NEW data \in Seq(Int)
  PROVE  \A i \in 1 .. Len(data) + 1 : Len(From(data)[i]) <= 2 * (Len(data) + 1 - i)
<1> DEFINE size == Len(data)
           rest(i) == From(data)[i]
           Bad == {n \in Nat : \E i \in 1 .. size + 1 :
                                 n = size + 1 - i /\ ~ Len(rest(i)) <= 2 * n}
<1>0. size \in Nat
  OBVIOUS
<1>1. Bad = {}
  <2> SUFFICES ASSUME Bad # {} PROVE FALSE
    OBVIOUS
  <2>1. Bad \in SUBSET Nat
    OBVIOUS
  <2> HIDE DEF Bad
  <2>2. PICK m \in Bad : \A k \in Bad : m <= k
    BY <2>1, LeastNatural
  <2>3. PICK i \in 1 .. size + 1 : m \in Nat /\ m = size + 1 - i /\ ~ Len(rest(i)) <= 2 * m
    BY <2>2 DEF Bad
  <2>4. i # size + 1
    <3> SUFFICES ASSUME i = size + 1 PROVE FALSE
      OBVIOUS
    <3>1. rest(i) = <<>> /\ Len(<<>>) = 0
      BY FromEnds
    <3> QED
      BY <1>0, <2>3, <3>1
  <2> DEFINE k == Step(data, i)
             j == i + k
  <2>5. i \in 1 .. size
    BY <1>0, <2>4
  <2>6. k \in 1 .. 9 /\ j \in 1 .. size + 1
    BY <2>5, StepIs
  <2>7. Len(rest(i)) = Len(Piece(data[i], k)) + Len(rest(j))
    <3>1. rest(i) = Piece(data[i], k) \o rest(j)
      BY <2>5, FromSteps
    <3>2. Piece(data[i], k) \in Seq(Int) /\ rest(j) \in Seq(Int)
      BY <2>5, <2>6, CharOf, PieceIs, FromType
    <3> HIDE DEF rest, k, j
    <3> QED
      BY <3>1, <3>2, ConcatProperties
  <2>8. Len(Piece(data[i], k)) = IF k = 1 THEN 1 ELSE 3
    BY <2>5, <2>6, CharOf, PieceIs
  <2>9. j = i + k
    OBVIOUS
  <2>10. Len(rest(j)) \in Nat
    BY <2>6, FromType
  <2> HIDE DEF k, j, rest, size
  <2>11. size + 1 - j \in Nat /\ size + 1 - j < m
    BY <1>0, <2>3, <2>5, <2>6, <2>9
  <2>12. size + 1 - j \notin Bad
    BY <2>2, <2>3, <2>11
  <2>13. Len(rest(j)) <= 2 * (size + 1 - j)
    BY <2>6, <2>11, <2>12 DEF Bad
  <2> DEFINE a == Len(Piece(data[i], k))
             b == Len(rest(j))
  <2> HIDE DEF a, b
  <2>14. a <= 2 * k /\ a \in Nat
    BY <2>6, <2>8 DEF a
  <2>15. a + b <= 2 * m
    BY <1>0, <2>3, <2>5, <2>6, <2>9, <2>10, <2>13, <2>14 DEF b
  <2> QED
    BY <2>3, <2>7, <2>15 DEF a, b
<1>2. ASSUME NEW i \in 1 .. size + 1 PROVE Len(rest(i)) <= 2 * (size + 1 - i)
  <2>1. size + 1 - i \in Nat
    BY <1>0
  <2>2. size + 1 - i \notin Bad
    <3> HIDE DEF Bad
    <3> QED
      BY <1>1
  <2> HIDE DEF rest, size
  <2> QED
    BY <2>1, <2>2
<1> QED
  BY <1>2
\* A text that is continued has the same first chunk, unless that chunk is all that
\* is left of it: then it may get longer.
LEMMA StepGrows ==
  ASSUME NEW data \in Seq(Int), NEW more \in Seq(Int), NEW i \in 1 .. Len(data)
  PROVE  \/ Step(data \o more, i) = Step(data, i)
         \/ /\ Step(data \o more, i) >= Step(data, i)
            /\ i + Step(data, i) = Len(data) + 1
<1> DEFINE all == data \o more
           size == Len(data)
           m == Count(data, i)
           n == Count(all, i)
<1>1. /\ all \in Seq(Int) /\ Len(all) = size + Len(more)
      /\ size \in Nat /\ Len(more) \in Nat
      /\ \A k \in 1 .. size + Len(more) :
           all[k] = IF k <= size THEN data[k] ELSE more[k - size]
  BY ConcatProperties
<1>2. /\ m \in 1 .. size + 1 - i
      /\ \A k \in i .. i + m - 1 : data[k] = data[i]
      /\ i + m <= size => data[i + m] # data[i]
  BY CountIs
<1>3. i \in 1 .. Len(all)
  BY <1>1
<1>4. /\ n \in 1 .. Len(all) + 1 - i
      /\ \A k \in i .. i + n - 1 : all[k] = all[i]
      /\ i + n <= Len(all) => all[i + n] # all[i]
  BY <1>1, <1>3, CountIs
<1>5. \A k \in 1 .. size : all[k] = data[k]
  BY <1>1
<1>6. Step(data, i) = (IF m > 9 THEN 9 ELSE m) /\ Step(all, i) = IF n > 9 THEN 9 ELSE n
  BY DEF Step
<1> HIDE DEF all, m, n
<1>7. i \in Nat /\ i >= 1 /\ i <= size /\ m \in Nat /\ n \in Nat
  BY <1>1, <1>2, <1>4
<1>8. CASE i + m <= size
  <2>1. ~ n < m
    <3> SUFFICES ASSUME n < m PROVE FALSE
      OBVIOUS
    <3>1. i + n \in i .. i + m - 1 /\ i + n \in 1 .. size /\ i + n <= Len(all)
      BY <1>1, <1>7, <1>8
    <3> QED
      BY <1>2, <1>4, <1>5, <3>1
  <2>2. ~ m < n
    <3> SUFFICES ASSUME m < n PROVE FALSE
      OBVIOUS
    <3>1. i + m \in i .. i + n - 1 /\ i + m \in 1 .. size
      BY <1>7, <1>8
    <3> QED
      BY <1>2, <1>4, <1>5, <1>8, <3>1
  <2>3. m = n
    BY <1>7, <2>1, <2>2
  <2> QED
    BY <1>6, <2>3 DEF all
<1>9. CASE ~ i + m <= size
  <2>1. i + m = size + 1
    <3>1. m <= size + 1 - i /\ size \in Nat
      BY <1>1, <1>2
    <3> HIDE DEF size
    <3> QED
      BY <1>7, <1>9, <3>1
  <2>2. ~ n < m
    <3> SUFFICES ASSUME n < m PROVE FALSE
      OBVIOUS
    <3>1. i + n \in i .. i + m - 1 /\ i + n \in 1 .. size /\ i + n <= Len(all)
      BY <1>1, <1>7, <2>1
    <3> QED
      BY <1>2, <1>4, <1>5, <3>1
  <2>3. CASE m > 9
    BY <1>6, <1>7, <2>2, <2>3 DEF all
  <2>4. CASE ~ m > 9
    <3>1. Step(data, i) = m /\ Step(all, i) >= m
      BY <1>6, <1>7, <2>2, <2>4
    <3> QED
      BY <2>1, <3>1 DEF all
  <2> QED
    BY <2>3, <2>4
<1> QED
  BY <1>8, <1>9

\* The code of a text that is continued is no shorter.
LEMMA FromGrows ==
  ASSUME NEW data \in Seq(Int), NEW more \in Seq(Int)
  PROVE  \A i \in 1 .. Len(data) + 1 : Len(From(data)[i]) <= Len(From(data \o more)[i])
<1> DEFINE size == Len(data)
           all == data \o more
           rest(i) == From(data)[i]
           long(i) == From(all)[i]
           Bad == {n \in Nat : \E i \in 1 .. size + 1 :
                                 n = size + 1 - i /\ ~ Len(rest(i)) <= Len(long(i))}
<1>0. size \in Nat
  OBVIOUS
<1>1. /\ all \in Seq(Int) /\ Len(all) = size + Len(more) /\ Len(more) \in Nat
      /\ \A k \in 1 .. size + Len(more) :
           all[k] = IF k <= size THEN data[k] ELSE more[k - size]
  BY ConcatProperties
<1>2. \A i \in 1 .. size : data[i] \in Int
  BY CharOf
<1>3. \A i \in 1 .. size + 1 : Len(rest(i)) \in Nat /\ Len(long(i)) \in Nat
  <2> TAKE i \in 1 .. size + 1
  <2>1. i \in 1 .. Len(all) + 1
    BY <1>0, <1>1
  <2>2. rest(i) \in Seq(Int)
    BY FromType
  <2> HIDE DEF all
  <2>3. long(i) \in Seq(Int)
    BY <1>1, <2>1, FromType
  <2> QED
    BY <2>2, <2>3
<1>4. ASSUME NEW i \in 1 .. size
      PROVE  LET k == Step(data, i)
             IN /\ k \in 1 .. 9 /\ i + k \in 1 .. size + 1
                /\ Len(rest(i)) = (IF k = 1 THEN 1 ELSE 3) + Len(rest(i + k))
  <2> DEFINE k == Step(data, i)
             j == i + k
  <2>1. k \in 1 .. 9 /\ j \in 1 .. size + 1
    BY StepIs
  <2>2. rest(i) = Piece(data[i], k) \o rest(j)
    BY FromSteps
  <2>3. Piece(data[i], k) \in Seq(Int) /\ rest(j) \in Seq(Int)
    BY <1>2, <2>1, PieceIs, FromType
  <2>4. Len(Piece(data[i], k)) = IF k = 1 THEN 1 ELSE 3
    BY <1>2, <2>1, PieceIs
  <2>5. Len(rest(i)) = Len(Piece(data[i], k)) + Len(rest(j))
    <3> HIDE DEF rest, k, j
    <3> QED
      BY <2>2, <2>3, ConcatProperties
  <2> QED
    BY <2>1, <2>4, <2>5
<1>5. ASSUME NEW i \in 1 .. size
      PROVE  LET k == Step(all, i)
             IN /\ k \in 1 .. 9 /\ i + k \in 1 .. Len(all) + 1
                /\ Len(long(i)) = (IF k = 1 THEN 1 ELSE 3) + Len(long(i + k))
                /\ Len(long(i + k)) \in Nat
  <2> DEFINE k == Step(all, i)
             j == i + k
  <2>0. i \in 1 .. Len(all)
    BY <1>0, <1>1
  <2> HIDE DEF all, size
  <2>1. k \in 1 .. 9 /\ j \in 1 .. Len(all) + 1
    BY <1>1, <2>0, StepIs
  <2>2. long(i) = Piece(all[i], k) \o long(j)
    BY <1>1, <2>0, FromSteps
  <2>3. all[i] \in Int
    BY <1>1, <2>0, CharOf
  <2>4. Piece(all[i], k) \in Seq(Int) /\ long(j) \in Seq(Int)
    BY <1>1, <2>1, <2>3, PieceIs, FromType
  <2>5. Len(Piece(all[i], k)) = IF k = 1 THEN 1 ELSE 3
    BY <2>1, <2>3, PieceIs
  <2>6. Len(long(i)) = Len(Piece(all[i], k)) + Len(long(j))
    <3> HIDE DEF long, k, j
    <3> QED
      BY <2>2, <2>4, ConcatProperties
  <2> QED
    BY <2>1, <2>4, <2>5, <2>6
<1>6. ASSUME NEW i \in 1 .. size
      PROVE  \/ Step(all, i) = Step(data, i)
             \/ Step(all, i) >= Step(data, i) /\ i + Step(data, i) = size + 1
  BY StepGrows
<1>7. Len(rest(size + 1)) = 0
  BY FromEnds
<1>8. Bad = {}
  <2> SUFFICES ASSUME Bad # {} PROVE FALSE
    OBVIOUS
  <2>1. Bad \in SUBSET Nat
    OBVIOUS
  <2> HIDE DEF Bad
  <2>2. PICK m \in Bad : \A k \in Bad : m <= k
    BY <2>1, LeastNatural
  <2>3. PICK i \in 1 .. size + 1 :
          m \in Nat /\ m = size + 1 - i /\ ~ Len(rest(i)) <= Len(long(i))
    BY <2>2 DEF Bad
  <2> HIDE DEF size, all, rest, long
  <2>4. i # size + 1
    <3> SUFFICES ASSUME i = size + 1 PROVE FALSE
      OBVIOUS
    <3>1. size + 1 \in 1 .. size + 1
      BY <1>0
    <3>2. Len(long(i)) \in Nat
      BY <1>3, <3>1
    <3>3. ~ Len(rest(i)) <= Len(long(i)) /\ Len(rest(i)) = 0
      BY <1>7, <2>3
    <3> QED
      BY <3>2, <3>3
  <2>5. i \in 1 .. size
    BY <1>0, <2>4
  <2> DEFINE k == Step(data, i)
             n == Step(all, i)
  <2>6. /\ k \in 1 .. 9 /\ i + k \in 1 .. size + 1
        /\ Len(rest(i)) = (IF k = 1 THEN 1 ELSE 3) + Len(rest(i + k))
    BY <1>4, <2>5
  <2>7. /\ n \in 1 .. 9
        /\ Len(long(i)) = (IF n = 1 THEN 1 ELSE 3) + Len(long(i + n))
        /\ Len(long(i + n)) \in Nat
    BY <1>5, <2>5
  <2>8. n = k \/ (n >= k /\ i + k = size + 1)
    BY <1>6, <2>5
  <2> HIDE DEF k, n
  <2>9. CASE i + k = size + 1
    <3>1. Len(rest(i)) = IF k = 1 THEN 1 ELSE 3
      BY <1>7, <2>6, <2>9
    <3>2. n >= k
      BY <2>6, <2>7, <2>8
    <3>3. (IF n = 1 THEN 1 ELSE 3) >= (IF k = 1 THEN 1 ELSE 3)
      BY <2>6, <2>7, <3>2
    <3> QED
      BY <2>3, <2>7, <3>1, <3>3
  <2>10. CASE i + k # size + 1
    <3> DEFINE j == i + k
    <3>1. n = k
      BY <2>8, <2>10
    <3>2. size + 1 - j \in Nat /\ size + 1 - j < m /\ j \in 1 .. size + 1
      BY <1>0, <2>3, <2>5, <2>6
    <3>3. size + 1 - j \notin Bad
      BY <2>2, <2>3, <3>2
    <3> HIDE DEF j
    <3>4. Len(rest(j)) <= Len(long(j)) /\ Len(rest(j)) \in Nat /\ Len(long(j)) \in Nat
      BY <1>3, <3>2, <3>3 DEF Bad
    <3> QED
      BY <2>3, <2>6, <2>7, <3>1, <3>4 DEF j
  <2> QED
    BY <2>9, <2>10
<1>9. ASSUME NEW i \in 1 .. size + 1 PROVE Len(rest(i)) <= Len(long(i))
  <2>1. size + 1 - i \in Nat
    BY <1>0
  <2>2. size + 1 - i \notin Bad
    <3> HIDE DEF Bad
    <3> QED
      BY <1>8
  <2> HIDE DEF rest, long, size
  <2> QED
    BY <2>1, <2>2
<1> QED
  BY <1>9

\* The code of a text that is continued is no shorter, as a whole.
LEMMA CompressGrows ==
  ASSUME NEW data \in Seq(Int), NEW more \in Seq(Int)
  PROVE  Len(RLEcompress(data)) <= Len(RLEcompress(data \o more))
<1>1. 1 \in 1 .. Len(data) + 1
  OBVIOUS
<1> QED
  BY <1>1, FromGrows, CompressIsFrom

\* The code of a text is at most twice as long.
LEMMA CompressFits ==
  ASSUME NEW data \in Seq(Int)
  PROVE  Len(RLEcompress(data)) <= 2 * Len(data)
<1>1. 1 \in 1 .. Len(data) + 1 /\ Len(data) + 1 - 1 = Len(data)
  OBVIOUS
<1>2. Len(From(data)[1]) <= 2 * (Len(data) + 1 - 1)
  BY <1>1, FromFits
<1> QED
  BY <1>1, <1>2, CompressIsFrom

-----------------------------------------------------------------------------
\* What is written to a file

\* The file holds the code of everything that was written to it.
CInv ==
  /\ written \in Seq(Int)
  /\ uncompressedSize = Len(written)
  /\ content = RLEcompress(written)

LEMMA InitCInv == Init => CInv
<1> SUFFICES ASSUME Init PROVE CInv
  OBVIOUS
<1>1. written = <<>> /\ content = <<>> /\ uncompressedSize = 0
  BY DEF Init
<1>2. <<>> \in Seq(Int) /\ Len(<<>>) = 0
  OBVIOUS
<1>3. From(<<>>)[Len(<<>>) + 1] = <<>>
  BY <1>2, FromEnds
<1>4. RLEcompress(<<>>) = <<>>
  <2>1. Len(<<>>) + 1 = 1
    BY <1>2
  <2> QED
    BY <1>3, <2>1, CompressIsFrom
<1> QED
  BY <1>1, <1>2, <1>4 DEF CInv

\* What a write adds, and what it leaves in the file.
LEMMA WriteIs ==
  ASSUME CInv, NEW c \in Chars, NEW n \in RunLengths, Write(c, n)
  PROVE  /\ Run(c, n) \in Seq(Int) /\ written' = written \o Run(c, n)
         /\ written' \in Seq(Int) /\ uncompressedSize' = Len(written')
         /\ content' = RLEcompress(written')
<1>1. c \in Int /\ n \in Nat
  BY CharsAssumption, RunsAssumption
<1>2. Run(c, n) \in Seq(Int) /\ Len(Run(c, n)) = n
  BY <1>1, RunIs
<1>3. written' = written \o Run(c, n) /\ uncompressedSize' = uncompressedSize + n
  BY DEF Write
<1>4. written \in Seq(Int) /\ uncompressedSize = Len(written)
  BY DEF CInv
<1>5. written' \in Seq(Int) /\ Len(written') = Len(written) + n
  BY <1>2, <1>3, <1>4, ConcatProperties
<1>6. RLEdecompress(content, uncompressedSize) = written
  BY RoundTrip DEF CInv
<1>7. content' = RLEcompress(RLEdecompress(content, uncompressedSize) \o Run(c, n))
  BY DEF Write
<1>8. content' = RLEcompress(written')
  BY <1>3, <1>6, <1>7
<1> QED
  BY <1>2, <1>3, <1>4, <1>5, <1>8

LEMMA NextCInv == CInv /\ [Next]_vars => CInv'
<1> SUFFICES ASSUME CInv, [Next]_vars PROVE CInv'
  OBVIOUS
<1>1. CASE Next
  <2>1. PICK c \in Chars, n \in RunLengths : Write(c, n)
    BY <1>1 DEF Next
  <2> QED
    BY <2>1, WriteIs DEF CInv
<1>2. CASE UNCHANGED vars
  BY <1>2 DEF CInv, vars
<1> QED
  BY <1>1, <1>2

LEMMA ContentInvariance == Spec => []CInv
BY InitCInv, NextCInv, PTL DEF Spec

\* A reader gets what was written, after any writes of any characters (ReadsBack):
\* RLEdecompress undoes RLEcompress for every text.
THEOREM AlwaysReadsBack == Spec => []ReadsBack
<1>1. CInv => ReadsBack
  BY RoundTrip DEF CInv, ReadsBack
<1> QED
  BY <1>1, ContentInvariance, PTL

\* RLEcompress never writes past its buffer of twice the size of the text (FitsBuffer).
THEOREM AlwaysFits == Spec => []FitsBuffer
<1>1. CInv => FitsBuffer
  BY CompressFits DEF CInv, FitsBuffer
<1> QED
  BY <1>1, ContentInvariance, PTL

\* A write to a file does not make its code shorter (NeverShrinks).
THEOREM NeverGetsShorter == Spec => NeverShrinks
<1>1. CInv /\ [Next]_vars => [Len(content') >= Len(content)]_vars
  <2> SUFFICES ASSUME CInv, Next PROVE Len(content') >= Len(content)
    BY DEF vars
  <2>1. PICK c \in Chars, n \in RunLengths : Write(c, n)
    BY DEF Next
  <2>2. /\ Run(c, n) \in Seq(Int) /\ written' = written \o Run(c, n)
        /\ content' = RLEcompress(written')
    BY <2>1, WriteIs
  <2>3. written \in Seq(Int) /\ content = RLEcompress(written)
    BY DEF CInv
  <2>4. Len(content) <= Len(content')
    BY <2>2, <2>3, CompressGrows
  <2> QED
    BY <2>4
<1> QED
  BY <1>1, ContentInvariance, PTL DEF Spec, NeverShrinks
=============================================================================
