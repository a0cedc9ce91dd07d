------------------------- MODULE ConformanceProofs --------------------------
(***************************************************************************)
(* What decode and the payload grammars promise a receiver, for payloads   *)
(* of every length and octets: the record loop accepts exactly what        *)
(* records divide without a rest, a capability list has one encoding,      *)
(* sender and receiver agree on the instants of a SERIES, what decode      *)
(* accepts encodes again to the same octets, and what the constructors     *)
(* and encode let out decode accepts and gives back as it was built.       *)
(*                                                                         *)
(* The loops of the code are recursive functions, which exist (and may be  *)
(* unfolded) once a least index at which they fail to has been excluded:   *)
(* LeastNumber takes the place of induction throughout.                    *)
(***************************************************************************)
EXTENDS Conformance, SequenceTheorems, NaturalsInduction, WellFoundedInduction, TLAPS

\* A set of numbers that is not empty has a least one.
LEMMA LeastNumber ==
    ASSUME NEW T \in SUBSET Nat, T # {}
    PROVE  \E m \in T : \A n \in T : m <= n
<1> DEFINE Less == {pair \in Nat \X Nat : pair[1] < pair[2]}
<1>1. IsWellFoundedOn(Less, Nat)
  BY NatLessThanWellFounded DEF OpToRel
<1>2. \A m, n \in Nat : <<m, n>> \in Less <=> m < n
  OBVIOUS
<1> HIDE DEF Less
<1>3. PICK m \in T : \A n \in T : ~(<<n, m>> \in Less)
  BY <1>1, WFMin
<1>4. ASSUME NEW n \in T PROVE m <= n
  <2>1. m \in Nat /\ n \in Nat /\ ~(n < m)
    BY <1>2, <1>3
  <2>2. QED
    BY <2>1
<1>5. QED
  BY <1>4

-----------------------------------------------------------------------------
\* The header of a record, in its octets.
LEMMA HeaderAt ==
    ASSUME NEW p \in Seq(Byte), NEW i \in Nat \ {0}, i + 2 <= Len(p)
    PROVE  /\ SizeAt(p, i) \in Nat
           /\ SizeAt(p, i) = (p[i + 1] % 16) * 256 + p[i + 2]
           /\ SchemaAt(p, i) = (p[i] % 16) * 16 + (p[i + 1] \div 16)
           /\ FormatAt(p, i) = p[i] \div 16
<1>1. Len(p) \in Nat /\ \A j \in 1 .. Len(p) : p[j] \in Byte
  BY LenProperties, ElementOfSeq
<1>2. i \in 1 .. Len(p) /\ i + 1 \in 1 .. Len(p) /\ i + 2 \in 1 .. Len(p)
  BY <1>1
<1>3. p[i] \in Byte /\ p[i + 1] \in Byte /\ p[i + 2] \in Byte
  BY <1>1, <1>2
<1>4. (i + 1) + 1 = i + 2
  OBVIOUS
<1>5. WordAt(p, i) = p[i] * 65536 + (256 * p[i + 1] + p[i + 2])
  BY <1>4 DEF WordAt, U16
<1> DEFINE a == p[i]
           b == p[i + 1]
           c == p[i + 2]
<1>6. a \in 0 .. 255 /\ b \in 0 .. 255 /\ c \in 0 .. 255
  BY <1>3 DEF Byte
<1>7. WordAt(p, i) = a * 65536 + (256 * b + c)
  BY <1>5
<1> HIDE DEF a, b, c
<1>8. SizeAt(p, i) = (b % 16) * 256 + c
  BY <1>6, <1>7 DEF SizeAt
<1>9. SchemaAt(p, i) = (a % 16) * 16 + (b \div 16)
  <2> DEFINE d == b \div 16
             e == a * 16 + d
  <2>1. d \in 0 .. 15 /\ 16 * d <= b /\ b < 16 * d + 16
    BY <1>6
  <2>2. WordAt(p, i) \div 4096 = e
    <3> HIDE DEF d
    <3>1. e \in Nat /\ e * 4096 <= WordAt(p, i) /\ WordAt(p, i) < e * 4096 + 4096
      BY <1>6, <1>7, <2>1
    <3> HIDE DEF e
    <3>2. WordAt(p, i) \in Nat
      BY <1>6, <1>7
    <3>3. QED
      BY <3>1, <3>2
  <2>3. e % 256 = (a % 16) * 16 + d
    <3> HIDE DEF d
    <3> DEFINE k == a \div 16
               l == a % 16
    <3>1. k \in Nat /\ l \in 0 .. 15 /\ a = 16 * k + l
      BY <1>6
    <3> HIDE DEF k, l
    <3>2. e = 256 * k + (l * 16 + d) /\ l * 16 + d \in 0 .. 255
      BY <2>1, <3>1
    <3> HIDE DEF e
    <3> DEFINE f == l * 16 + d
    <3>3. e = 256 * k + f /\ f \in 0 .. 255
      BY <3>2
    <3> HIDE DEF f
    <3>4. e % 256 = f
      BY <3>1, <3>3
    <3>5. QED
      BY <3>4 DEF f, l
  <2>4. QED
    BY <2>2, <2>3 DEF SchemaAt
<1>10. FormatAt(p, i) = a \div 16
  BY <1>6, <1>7 DEF FormatAt
<1>11. SizeAt(p, i) \in Nat
  BY <1>6, <1>8
<1>12. QED
  BY <1>8, <1>9, <1>10, <1>11 DEF a, b, c

NextAt(p, i) == i + RECORD_HEADER_LEN + SizeAt(p, i)

\* What RecordsOf says of the payload from an octet on, given what it says of the rest.
FramedFrom(p, u, i) ==
    IF i > Len(p) THEN Ok(<<>>)
    ELSE IF ~RecordIsAt(p, i) THEN Err("Framing")
    ELSE LET rest == u[NextAt(p, i)]
         IN  IF IsOk(rest) THEN Ok(<<RecordAt(p, i)>> \o rest.value) ELSE rest

Framing(p, u) == [i \in 1 .. Len(p) + 1 |-> FramedFrom(p, u, i)]

\* With whole sizes, what the record loop reads next is the next start or the end.
LEMMA NextIs ==
    ASSUME NEW p \in Seq(Byte), NEW i \in Nat \ {0}, RecordIsAt(p, i)
    PROVE  NextAt(p, i) \in i + 4 .. Len(p) + 1 /\ i \in 1 .. Len(p)
<1>1. Len(p) \in Nat /\ i + 2 <= Len(p) /\ \A j \in 1 .. Len(p) : p[j] \in Byte
  BY LenProperties, ElementOfSeq DEF RecordIsAt, RECORD_HEADER_LEN
<1>2. p[i] \in Byte /\ p[i + 1] \in Byte /\ p[i + 2] \in Byte
  <2>1. i \in 1 .. Len(p) /\ i + 1 \in 1 .. Len(p) /\ i + 2 \in 1 .. Len(p)
    BY <1>1
  <2>2. QED
    BY <1>1, <2>1
<1>3. SizeAt(p, i) \in Nat
  BY <1>1, HeaderAt
<1>4. SizeAt(p, i) # 0 /\ i + 3 + SizeAt(p, i) - 1 <= Len(p)
  BY DEF RecordIsAt, RECORD_HEADER_LEN
<1>5. QED
  BY <1>1, <1>3, <1>4 DEF NextAt, RECORD_HEADER_LEN

Solves(p, u, m) == \A i \in m .. Len(p) + 1 : u[i] = FramedFrom(p, u, i)

\* The loop ends: there is a solution, found from the end.
LEMMA FramingSolved ==
    ASSUME NEW p \in Seq(Byte)
    PROVE  \E u : u = Framing(p, u)
<1> DEFINE n == Len(p)
           T == {k \in 0 .. n : ~\E u : Solves(p, u, n + 1 - k)}
<1>1. n \in Nat
  BY LenProperties
<1> HIDE DEF n
<1>2. T = {}
  <2> SUFFICES ASSUME T # {} PROVE FALSE
    OBVIOUS
  <2>1. PICK k \in T : \A j \in T : k <= j
    <3>1. T \in SUBSET Nat
      BY <1>1
    <3> HIDE DEF T
    <3>2. QED
      BY <3>1, LeastNumber
  <2>2. k \in 0 .. n /\ ~\E u : Solves(p, u, n + 1 - k)
    BY <2>1
  <2>3. \E w : \A i \in n + 2 - k .. n + 1 : w[i] = FramedFrom(p, w, i)
    <3>1. CASE k = 0
      <4>1. \A i \in n + 2 - k .. n + 1 : FALSE
        BY <1>1, <3>1
      <4>2. QED
        BY <4>1
    <3>2. CASE k # 0
      <4>1. k - 1 \in 0 .. n /\ ~(k <= k - 1)
        BY <1>1, <2>2, <3>2
      <4>2. k - 1 \notin T
        BY <2>1, <4>1
      <4>3. PICK w : Solves(p, w, n + 1 - (k - 1))
        BY <4>1, <4>2
      <4>4. n + 1 - (k - 1) = n + 2 - k
        BY <1>1, <2>2
      <4>5. QED
        BY <4>3, <4>4 DEF Solves, n
    <3>3. QED
      BY <3>1, <3>2
  <2>4. PICK w : \A i \in n + 2 - k .. n + 1 : w[i] = FramedFrom(p, w, i)
    BY <2>3
  <2> DEFINE m == n + 1 - k
             v == [i \in 1 .. n + 1 |-> IF i = m THEN FramedFrom(p, w, i) ELSE w[i]]
  <2>5. m \in 1 .. n + 1
    BY <1>1, <2>2
  <2>6. \A i \in m .. n + 1 : i \in 1 .. n + 1 /\ (i = m \/ i \in n + 2 - k .. n + 1)
    BY <1>1, <2>2
  <2>7. \A i \in m .. n + 1 : v[i] = FramedFrom(p, w, i)
    BY <2>4, <2>6
  <2>8. \A i \in 1 .. n + 1 : i # m => v[i] = w[i]
    OBVIOUS
  <2> HIDE DEF v
  <2>9. ASSUME NEW i \in m .. n + 1
        PROVE  FramedFrom(p, v, i) = FramedFrom(p, w, i)
    <3>1. CASE RecordIsAt(p, i)
      <4>1. i \in Nat \ {0}
        BY <1>1, <2>5
      <4>2. NextAt(p, i) \in i + 4 .. n + 1
        BY <3>1, <4>1, NextIs DEF n
      <4>3. NextAt(p, i) \in 1 .. n + 1 /\ NextAt(p, i) # m
        BY <1>1, <2>5, <4>1, <4>2
      <4>4. v[NextAt(p, i)] = w[NextAt(p, i)]
        BY <2>8, <4>3
      <4>5. QED
        BY <4>4 DEF FramedFrom
    <3>2. CASE ~RecordIsAt(p, i)
      BY <3>2 DEF FramedFrom
    <3>3. QED
      BY <3>1, <3>2
  <2>10. Solves(p, v, m)
    BY <2>7, <2>9 DEF Solves, n
  <2>11. QED
    BY <2>2, <2>10
<1>3. PICK w : Solves(p, w, 1)
  <2>1. n \notin T
    BY <1>2
  <2>2. n \in 0 .. n /\ n + 1 - n = 1
    BY <1>1
  <2>3. QED
    BY <2>1, <2>2
<1> DEFINE v == [i \in 1 .. n + 1 |-> w[i]]
<1>4. \A i \in 1 .. n + 1 : v[i] = w[i]
  OBVIOUS
<1>5. v = [i \in 1 .. n + 1 |-> v[i]]
  OBVIOUS
<1> HIDE DEF v
<1>6. ASSUME NEW i \in 1 .. n + 1 PROVE v[i] = FramedFrom(p, v, i)
  <2>1. v[i] = FramedFrom(p, w, i)
    BY <1>3, <1>4 DEF Solves, n
  <2>2. CASE RecordIsAt(p, i)
    <3>1. i \in Nat \ {0}
      BY <1>1
    <3>2. NextAt(p, i) \in i + 4 .. n + 1
      BY <2>2, <3>1, NextIs DEF n
    <3>3. NextAt(p, i) \in 1 .. n + 1
      BY <1>1, <3>1, <3>2
    <3>4. v[NextAt(p, i)] = w[NextAt(p, i)]
      BY <1>4, <3>3
    <3>5. QED
      BY <2>1, <3>4 DEF FramedFrom
  <2>3. CASE ~RecordIsAt(p, i)
    BY <2>1, <2>3 DEF FramedFrom
  <2>4. QED
    BY <2>2, <2>3
<1>7. v = Framing(p, v)
  BY <1>5, <1>6 DEF Framing, n
<1>8. QED
  BY <1>7

\* Step 9 of decode for a record-framed type, by the solution of its loop.
LEMMA RecordsFramed ==
    ASSUME NEW p \in Seq(Byte)
    PROVE  \E u : /\ u = Framing(p, u)
                  /\ RecordsOf(p) = IF Len(p) < RECORD_HEADER_LEN THEN Err("Framing") ELSE u[1]
<1> DEFINE u == CHOOSE u : u = Framing(p, u)
<1>1. u = Framing(p, u)
  BY FramingSolved
<1>2. RecordsOf(p) = IF Len(p) < RECORD_HEADER_LEN THEN Err("Framing") ELSE u[1]
  BY DEF RecordsOf, Framing, FramedFrom, NextAt
<1>3. QED
  BY <1>1, <1>2

-----------------------------------------------------------------------------
\* The starts of a payload's records: what FramingExact asks of them.
Starts(p, S) ==
    /\ 1 \in S
    /\ \A i \in S :
        /\ i + 3 <= Len(p)
        /\ p[i] \div 16 > 0
        /\ (p[i] % 16) * 16 + (p[i + 1] \div 16) > 0
        /\ LET size == (p[i + 1] % 16) * 256 + p[i + 2]
           IN  size > 0 /\ i + 3 + size \in S \cup {Len(p) + 1}

\* What Ok and Err answer.
LEMMA Answers ==
    /\ \A v : IsOk(Ok(v)) /\ Ok(v).value = v
    /\ \A e : e # "" => ~IsOk(Err(e))
    /\ \A e : Err(e).error = e
BY DEF IsOk, Ok, Err

\* The three ways of the loop at an octet.
LEMMA FramedCases ==
    ASSUME NEW p, NEW u, NEW i
    PROVE  /\ i > Len(p) => FramedFrom(p, u, i) = Ok(<<>>)
           /\ ~(i > Len(p)) /\ ~RecordIsAt(p, i) => ~IsOk(FramedFrom(p, u, i))
           /\ ~(i > Len(p)) /\ RecordIsAt(p, i) /\ IsOk(u[NextAt(p, i)]) =>
                FramedFrom(p, u, i) = Ok(<<RecordAt(p, i)>> \o u[NextAt(p, i)].value)
           /\ ~(i > Len(p)) /\ RecordIsAt(p, i) /\ ~IsOk(u[NextAt(p, i)]) =>
                FramedFrom(p, u, i) = u[NextAt(p, i)]
<1>1. ~IsOk(Err("Framing"))
  BY Answers
<1>2. QED
  BY <1>1 DEF FramedFrom

\* One start is a record that fits, and leads to another one or to the end.
LEMMA StartIs ==
    ASSUME NEW p \in Seq(Byte), NEW i \in Nat \ {0}, NEW S
    PROVE  (/\ i + 3 <= Len(p)
            /\ p[i] \div 16 > 0
            /\ (p[i] % 16) * 16 + (p[i + 1] \div 16) > 0
            /\ LET size == (p[i + 1] % 16) * 256 + p[i + 2]
               IN  size > 0 /\ i + 3 + size \in S \cup {Len(p) + 1}
            /\ i + 3 + ((p[i + 1] % 16) * 256 + p[i + 2]) <= Len(p) + 1)
           <=> RecordIsAt(p, i) /\ NextAt(p, i) \in S \cup {Len(p) + 1}
<1>1. Len(p) \in Nat /\ \A j \in 1 .. Len(p) : p[j] \in Byte
  BY LenProperties, ElementOfSeq
<1>2. ASSUME i + 2 <= Len(p)
      PROVE  /\ SizeAt(p, i) \in Nat
             /\ SizeAt(p, i) = (p[i + 1] % 16) * 256 + p[i + 2]
             /\ SchemaAt(p, i) = (p[i] % 16) * 16 + (p[i + 1] \div 16)
             /\ FormatAt(p, i) = p[i] \div 16
             /\ SchemaAt(p, i) \in Nat
             /\ FormatAt(p, i) \in Nat
  <2>1. i \in 1 .. Len(p) /\ i + 1 \in 1 .. Len(p)
    BY <1>1, <1>2
  <2>2. p[i] \in 0 .. 255 /\ p[i + 1] \in 0 .. 255
    BY <1>1, <2>1 DEF Byte
  <2>3. \A b \in 0 .. 255 : b \div 16 \in Nat /\ b % 16 \in Nat
    OBVIOUS
  <2>4. \A k, l \in Nat : k * 16 + l \in Nat
    OBVIOUS
  <2>5. p[i] \div 16 \in Nat /\ (p[i] % 16) * 16 + (p[i + 1] \div 16) \in Nat
    BY <2>2, <2>3, <2>4
  <2>6. QED
    BY <1>2, <2>5, HeaderAt
<1> DEFINE f == p[i] \div 16
           v == (p[i] % 16) * 16 + (p[i + 1] \div 16)
           z == (p[i + 1] % 16) * 256 + p[i + 2]
<1>3. i + 2 <= Len(p) => /\ z \in Nat /\ v \in Nat /\ f \in Nat
                         /\ SizeAt(p, i) = z /\ SchemaAt(p, i) = v /\ FormatAt(p, i) = f
  BY <1>2
<1> HIDE DEF f, v, z
<1>4. (i + 3 <= Len(p) /\ f > 0 /\ v > 0 /\ z > 0 /\ i + 3 + z <= Len(p) + 1)
        <=> RecordIsAt(p, i)
  BY <1>1, <1>3 DEF RecordIsAt, RECORD_HEADER_LEN
<1>5. RecordIsAt(p, i) => NextAt(p, i) = i + 3 + z
  BY <1>1, <1>3 DEF RecordIsAt, NextAt, RECORD_HEADER_LEN
<1>6. QED
  BY <1>4, <1>5 DEF f, v, z

\* The values the loop gathers are sequences of records, of one at least before
\* the end.
LEMMA FramedValues ==
    ASSUME NEW p \in Seq(Byte), NEW u, u = Framing(p, u)
    PROVE  \A i \in 1 .. Len(p) + 1 : IsOk(u[i]) =>
               /\ u[i].value \in Seq({RecordAt(p, j) : j \in 1 .. Len(p)})
               /\ i <= Len(p) => Len(u[i].value) > 0
<1> DEFINE n == Len(p)
           R == {RecordAt(p, j) : j \in 1 .. n}
           Good(i) == /\ u[i].value \in Seq(R)
                      /\ i <= n => Len(u[i].value) > 0
           T == {k \in 0 .. n : IsOk(u[n + 1 - k]) /\ ~Good(n + 1 - k)}
<1>1. n \in Nat
  BY LenProperties
<1>2. \A i \in 1 .. n + 1 : u[i] = FramedFrom(p, u, i)
  BY DEF Framing
<1>3. \A j \in 1 .. n : RecordAt(p, j) \in R
  OBVIOUS
<1> HIDE DEF R
<1>4. ASSUME NEW k \in T, \A j \in T : k <= j PROVE FALSE
  <2> DEFINE i == n + 1 - k
  <2>1. k \in 0 .. n /\ IsOk(u[i]) /\ ~Good(i)
    OBVIOUS
  <2>2. i \in 1 .. n + 1 /\ i = n + 1 - k
    BY <1>1, <2>1
  <2> HIDE DEF i
  <2>3. u[i] = FramedFrom(p, u, i)
    BY <1>2, <2>2
  <2>4. CASE i > n
    <3>1. u[i] = Ok(<<>>)
      BY <2>3, <2>4, FramedCases
    <3>2. u[i].value = <<>>
      BY <3>1, Answers
    <3>3. QED
      BY <1>1, <2>1, <2>2, <2>4, <3>2, EmptySeq
  <2>5. CASE i <= n
    <3>1. ~(i > n) /\ RecordIsAt(p, i)
      <4>1. ~(i > n)
        BY <1>1, <2>2, <2>5
      <4>2. QED
        BY <2>1, <2>3, <4>1, FramedCases
    <3> DEFINE m == NextAt(p, i)
    <3>2. m \in i + 4 .. n + 1
      BY <2>2, <3>1, NextIs
    <3> HIDE DEF m
    <3>3. IsOk(u[m]) /\ u[i] = Ok(<<RecordAt(p, i)>> \o u[m].value)
      BY <2>1, <2>3, <3>1, FramedCases DEF m
    <3>4. u[m].value \in Seq(R)
      <4>1. n + 1 - m \in 0 .. n /\ n + 1 - (n + 1 - m) = m /\ ~(k <= n + 1 - m)
        BY <1>1, <2>1, <2>2, <3>2
      <4>2. n + 1 - m \notin T
        BY <1>4, <4>1
      <4>3. QED
        BY <3>3, <4>1, <4>2
    <3>5. u[i].value = <<RecordAt(p, i)>> \o u[m].value
      BY <3>3, Answers
    <3>6. RecordAt(p, i) \in R
      BY <1>1, <1>3, <2>2, <2>5
    <3>7. <<RecordAt(p, i)>> \in Seq(R) /\ Len(<<RecordAt(p, i)>>) = 1
      BY <3>6
    <3>8. u[i].value \in Seq(R) /\ Len(u[i].value) = 1 + Len(u[m].value)
      BY <3>4, <3>5, <3>7, ConcatProperties
    <3>9. Len(u[i].value) > 0
      BY <3>4, <3>8, LenProperties
    <3>10. QED
      BY <2>1, <3>8, <3>9
  <2>6. QED
    BY <1>1, <2>2, <2>4, <2>5
<1>5. T = {}
  <2>1. T \in SUBSET Nat
    BY <1>1
  <2> HIDE DEF T
  <2>2. QED
    BY <1>4, <2>1, LeastNumber
<1>6. ASSUME NEW i \in 1 .. n + 1, IsOk(u[i]) PROVE Good(i)
  <2>1. n + 1 - i \in 0 .. n /\ n + 1 - (n + 1 - i) = i
    BY <1>1
  <2>2. n + 1 - i \notin T
    BY <1>5
  <2>3. QED
    BY <1>6, <2>1, <2>2
<1>7. QED
  BY <1>6 DEF R

\* The loop ends well exactly when such starts exist.
LEMMA FramedByStarts ==
    ASSUME NEW p \in Seq(Byte), NEW u, u = Framing(p, u)
    PROVE  /\ Len(p) >= RECORD_HEADER_LEN /\ IsOk(u[1]) =>
                 \E S \in SUBSET (1 .. Len(p) - 3) : Starts(p, S)
           /\ \A S \in SUBSET (1 .. Len(p) - 3) : Starts(p, S) => IsOk(u[1])
<1> DEFINE n == Len(p)
<1>1. n \in Nat
  BY LenProperties
<1>2. \A i \in 1 .. n + 1 : u[i] = FramedFrom(p, u, i)
  BY DEF Framing
<1>3. ASSUME n >= RECORD_HEADER_LEN, IsOk(u[1])
      PROVE  \E S \in SUBSET (1 .. n - 3) : Starts(p, S)
  <2> DEFINE S == {i \in 1 .. n : IsOk(u[i])}
  <2>1. 1 \in S
    BY <1>1, <1>3 DEF RECORD_HEADER_LEN
  <2>2. ASSUME NEW i \in S
        PROVE  RecordIsAt(p, i) /\ NextAt(p, i) \in S \cup {n + 1} /\ NextAt(p, i) \in i + 4 .. n + 1
    <3>1. i \in 1 .. n /\ IsOk(u[i]) /\ u[i] = FramedFrom(p, u, i) /\ ~(i > n)
      BY <1>1, <1>2
    <3>3. RecordIsAt(p, i) /\ IsOk(u[NextAt(p, i)])
      BY <3>1, FramedCases
    <3>4. i \in Nat \ {0}
      BY <3>1
    <3>5. NextAt(p, i) \in i + 4 .. n + 1
      BY <3>3, <3>4, NextIs
    <3>6. NextAt(p, i) \in 1 .. n \/ NextAt(p, i) = n + 1
      BY <1>1, <3>1, <3>5
    <3>7. QED
      BY <3>3, <3>5, <3>6
  <2>3. \A i \in S : i \in Nat \ {0} /\ i \in Int
    OBVIOUS
  <2> HIDE DEF S
  <2>4. Starts(p, S)
    <3>1. ASSUME NEW i \in S
          PROVE  /\ i + 3 <= n
                 /\ p[i] \div 16 > 0
                 /\ (p[i] % 16) * 16 + (p[i + 1] \div 16) > 0
                 /\ LET size == (p[i + 1] % 16) * 256 + p[i + 2]
                    IN  size > 0 /\ i + 3 + size \in S \cup {n + 1}
      <4>1. i \in Nat \ {0} /\ RecordIsAt(p, i) /\ NextAt(p, i) \in S \cup {n + 1}
        BY <2>2, <2>3
      <4>2. QED
        BY <4>1, StartIs
    <3>2. QED
      BY <2>1, <3>1 DEF Starts
  <2>5. S \in SUBSET (1 .. n - 3)
    BY <1>1, <2>2, <2>3
  <2>6. QED
    BY <2>4, <2>5
<1>4. ASSUME NEW S \in SUBSET (1 .. n - 3), Starts(p, S) PROVE IsOk(u[1])
  <2> DEFINE T == {k \in 0 .. n : n + 1 - k \in S /\ ~IsOk(u[n + 1 - k])}
  <2>1. ASSUME NEW k \in T, \A j \in T : k <= j PROVE FALSE
    <3> DEFINE i == n + 1 - k
    <3>1. k \in 0 .. n /\ i \in S /\ ~IsOk(u[i]) /\ i \in 1 .. n + 1 /\ i \in 1 .. n - 3
      BY <1>1
    <3> HIDE DEF i
    <3>2. RecordIsAt(p, i) /\ NextAt(p, i) \in S \cup {n + 1}
      <4>1. i \in Nat \ {0}
        BY <3>1
      <4> DEFINE z == (p[i + 1] % 16) * 256 + p[i + 2]
      <4>2. i + 3 + z \in S \cup {n + 1}
        BY <1>4, <3>1 DEF Starts
      <4>3. i + 3 + z <= n + 1
        <5> HIDE DEF z
        <5>1. \A j \in S \cup {n + 1} : j <= n + 1
          BY <1>1
        <5>2. QED
          BY <4>2, <5>1
      <4>4. /\ i + 3 <= n
            /\ p[i] \div 16 > 0
            /\ (p[i] % 16) * 16 + (p[i + 1] \div 16) > 0
            /\ LET size == (p[i + 1] % 16) * 256 + p[i + 2]
               IN  size > 0 /\ i + 3 + size \in S \cup {n + 1}
        BY <1>4, <3>1 DEF Starts
      <4>5. QED
        BY <4>1, <4>3, <4>4, StartIs
    <3> DEFINE m == NextAt(p, i)
    <3>3. m \in i + 4 .. n + 1 /\ ~(i > n)
      BY <1>1, <3>1, <3>2, NextIs
    <3> HIDE DEF m
    <3>4. u[i] = FramedFrom(p, u, i) /\ ~IsOk(u[m])
      <4>1. u[i] = FramedFrom(p, u, i)
        BY <1>2, <3>1
      <4>2. ASSUME IsOk(u[m]) PROVE FALSE
        <5>1. u[i] = Ok(<<RecordAt(p, i)>> \o u[m].value)
          BY <3>2, <3>3, <4>1, <4>2, FramedCases DEF m
        <5>2. QED
          BY <3>1, <5>1, Answers
      <4>3. QED
        BY <4>1, <4>2
    <3>5. CASE m = n + 1
      <4>1. u[m] = Ok(<<>>)
        <5>1. n + 1 \in 1 .. n + 1 /\ n + 1 > n
          BY <1>1
        <5>2. u[n + 1] = FramedFrom(p, u, n + 1)
          BY <1>2, <5>1
        <5>3. QED
          BY <3>5, <5>1, <5>2, FramedCases
      <4>2. QED
        BY <3>4, <4>1, Answers
    <3>6. CASE m \in S
      <4>1. n + 1 - m \in 0 .. n /\ n + 1 - (n + 1 - m) = m /\ ~(k <= n + 1 - m)
        BY <1>1, <3>1, <3>3 DEF i
      <4>2. n + 1 - m \in T
        BY <3>4, <3>6, <4>1
      <4>3. QED
        BY <2>1, <4>1, <4>2
    <3>7. QED
      BY <3>2, <3>5, <3>6 DEF m
  <2>2. T = {}
    <3>1. T \in SUBSET Nat
      BY <1>1
    <3> HIDE DEF T
    <3>2. QED
      BY <2>1, <3>1, LeastNumber
  <2>3. 1 \in S /\ n \in 0 .. n /\ n + 1 - n = 1
    BY <1>1, <1>4 DEF Starts
  <2>4. QED
    BY <2>2, <2>3
<1>5. QED
  BY <1>3, <1>4

\* Step 9 accepts a MESSAGE or an EVENT exactly when such starts exist.
LEMMA FramedIs ==
    ASSUME NEW p \in Seq(Byte), NEW mt \in {MESSAGE, EVENT}, NEW off
    PROVE  IsOk(Framed(mt, p, off)) <=>
               \E S \in SUBSET (1 .. Len(p) - 3) : Starts(p, S) /\ (mt = EVENT => S = {1})
<1> DEFINE n == Len(p)
           rs == RecordsOf(p)
<1>1. n \in Nat
  BY LenProperties
<1>2. PICK u : u = Framing(p, u) /\ rs = IF n < RECORD_HEADER_LEN THEN Err("Framing") ELSE u[1]
  BY RecordsFramed
<1>3. \A i \in 1 .. n + 1 : u[i] = FramedFrom(p, u, i)
  BY <1>2 DEF Framing
<1>4. IsOk(rs) => n >= RECORD_HEADER_LEN /\ rs = u[1]
  <2>1. n < RECORD_HEADER_LEN \/ n >= RECORD_HEADER_LEN
    BY <1>1 DEF RECORD_HEADER_LEN
  <2>2. n >= RECORD_HEADER_LEN => ~(n < RECORD_HEADER_LEN)
    BY <1>1 DEF RECORD_HEADER_LEN
  <2> HIDE DEF rs, n
  <2>3. QED
    BY <1>2, <2>1, <2>2, Answers
<1>5. \A S \in SUBSET (1 .. n - 3) : Starts(p, S) => n >= 4 /\ rs = u[1]
  BY <1>1, <1>2 DEF Starts, RECORD_HEADER_LEN
<1>6. IsOk(rs) <=> \E S \in SUBSET (1 .. n - 3) : Starts(p, S)
  BY <1>2, <1>4, <1>5, FramedByStarts
<1> HIDE DEF rs
<1>7. CASE mt = MESSAGE
  <2>1. Framed(mt, p, off) = rs /\ mt # EVENT
    BY <1>7 DEF Framed, rs, IsRecordFramed, SingleRecord, MESSAGE, EVENT, ALARM
  <2>2. QED
    BY <1>6, <2>1
<1>8. CASE mt = EVENT
  <2>1. IsOk(Framed(mt, p, off)) <=> IsOk(rs) /\ ~(Len(rs.value) > 1)
    <3>1. Framed(mt, p, off) = IF IsOk(rs) /\ Len(rs.value) > 1 THEN Err("Framing") ELSE rs
      BY <1>8 DEF Framed, rs, IsRecordFramed, SingleRecord, MESSAGE, EVENT, ALARM
    <3>2. QED
      BY <3>1, Answers
  <2>2. ASSUME n >= 4, RecordIsAt(p, 1)
        PROVE  /\ NextAt(p, 1) \in 5 .. n + 1
               /\ u[1] = FramedFrom(p, u, 1)
               /\ u[NextAt(p, 1)] = FramedFrom(p, u, NextAt(p, 1))
               /\ ~(1 > n)
    <3>1. NextAt(p, 1) \in 5 .. n + 1
      BY <2>2, NextIs
    <3>2. NextAt(p, 1) \in 1 .. n + 1 /\ 1 \in 1 .. n + 1 /\ ~(1 > n)
      BY <1>1, <2>2, <3>1
    <3>3. QED
      BY <1>3, <3>1, <3>2
  <2>3. ASSUME IsOk(rs), ~(Len(rs.value) > 1)
        PROVE  Starts(p, {1}) /\ {1} \in SUBSET (1 .. n - 3)
    <3>1. PICK S \in SUBSET (1 .. n - 3) : Starts(p, S)
      BY <1>6, <2>3
    <3>2. 1 \in S /\ n >= 4 /\ rs = u[1]
      BY <1>5, <3>1 DEF Starts
    <3>3. RecordIsAt(p, 1)
      <4>1. u[1] = FramedFrom(p, u, 1) /\ ~(1 > n)
        BY <1>1, <1>3, <3>2
      <4>2. QED
        BY <2>3, <3>2, <4>1, FramedCases
    <3> DEFINE m == NextAt(p, 1)
    <3>4. m \in 5 .. n + 1 /\ u[1] = FramedFrom(p, u, 1) /\ ~(1 > n) /\ u[m] = FramedFrom(p, u, m)
      BY <2>2, <3>2, <3>3
    <3> HIDE DEF m
    <3>5. IsOk(u[m]) /\ u[1] = Ok(<<RecordAt(p, 1)>> \o u[m].value)
      BY <2>3, <3>2, <3>3, <3>4, FramedCases DEF m
    <3>6. m = n + 1
      <4> SUFFICES ASSUME m <= n PROVE FALSE
        BY <1>1, <3>4
      <4>1. m \in 1 .. n + 1
        BY <1>1, <3>4
      <4> DEFINE R == {RecordAt(p, j) : j \in 1 .. n}
      <4>2. u[m].value \in Seq(R) /\ Len(u[m].value) > 0
        BY <1>2, <3>5, <4>1, FramedValues
      <4>3. RecordAt(p, 1) \in R
        BY <1>1, <3>2
      <4> HIDE DEF R
      <4>4. <<RecordAt(p, 1)>> \in Seq(R) /\ Len(<<RecordAt(p, 1)>>) = 1
        BY <4>3
      <4>5. Len(<<RecordAt(p, 1)>> \o u[m].value) = 1 + Len(u[m].value)
        BY <4>2, <4>4, ConcatProperties
      <4>6. rs.value = <<RecordAt(p, 1)>> \o u[m].value
        BY <3>2, <3>5, Answers
      <4>7. Len(u[m].value) \in Nat
        BY <4>2, LenProperties
      <4>8. QED
        BY <2>3, <4>2, <4>5, <4>6, <4>7
    <3>7. 1 \in Nat \ {0} /\ m \in {1} \cup {n + 1}
      BY <3>6
    <3>8. \A i \in {1} : i = 1
      OBVIOUS
    <3> DEFINE Q == {1}
    <3>9. Starts(p, Q)
      <4>1. 1 \in Q /\ \A i \in Q : i = 1
        OBVIOUS
      <4>2. m \in Q \cup {n + 1}
        BY <3>7
      <4> HIDE DEF Q
      <4>3. ASSUME NEW i \in Q
            PROVE  /\ i + 3 <= n
                   /\ p[i] \div 16 > 0
                   /\ (p[i] % 16) * 16 + (p[i + 1] \div 16) > 0
                   /\ LET size == (p[i + 1] % 16) * 256 + p[i + 2]
                      IN  size > 0 /\ i + 3 + size \in Q \cup {n + 1}
        <5>1. i \in Nat \ {0} /\ RecordIsAt(p, i) /\ NextAt(p, i) \in Q \cup {n + 1}
          BY <3>3, <4>1, <4>2 DEF m
        <5>2. QED
          BY <5>1, StartIs
      <4>4. QED
        BY <4>1, <4>3 DEF Starts
    <3>10. QED
      BY <1>1, <3>2, <3>9
  <2>4. ASSUME Starts(p, {1}), {1} \in SUBSET (1 .. n - 3)
        PROVE  IsOk(rs) /\ ~(Len(rs.value) > 1)
    <3>1. IsOk(rs) /\ n >= 4 /\ rs = u[1]
      BY <1>5, <1>6, <2>4
    <3>2. RecordIsAt(p, 1)
      <4>1. u[1] = FramedFrom(p, u, 1) /\ ~(1 > n)
        BY <1>1, <1>3, <3>1
      <4>2. QED
        BY <3>1, <4>1, FramedCases
    <3> DEFINE m == NextAt(p, 1)
    <3>3. m \in 5 .. n + 1 /\ u[1] = FramedFrom(p, u, 1) /\ ~(1 > n) /\ u[m] = FramedFrom(p, u, m)
      BY <2>2, <3>1, <3>2
    <3>4. m = n + 1
      <4>1. m = 1 + 3 + ((p[1 + 1] % 16) * 256 + p[1 + 2])
        <5>1. 1 + 2 <= n /\ 1 \in Nat \ {0}
          BY <1>1, <3>1
        <5>2. SizeAt(p, 1) = (p[1 + 1] % 16) * 256 + p[1 + 2]
          BY <5>1, HeaderAt
        <5>3. QED
          BY <5>2 DEF NextAt, RECORD_HEADER_LEN
      <4>2. 1 + 3 + ((p[1 + 1] % 16) * 256 + p[1 + 2]) \in {1} \cup {n + 1}
        BY <2>4 DEF Starts
      <4> HIDE DEF m
      <4>3. QED
        BY <3>3, <4>1, <4>2
    <3> HIDE DEF m
    <3>5. u[m] = Ok(<<>>)
      <4>1. m > n
        BY <1>1, <3>4
      <4>2. QED
        BY <3>3, <4>1, FramedCases
    <3>6. u[1] = Ok(<<RecordAt(p, 1)>> \o <<>>)
      <4>1. IsOk(u[m]) /\ u[m].value = <<>>
        BY <3>5, Answers
      <4>2. FramedFrom(p, u, 1) = Ok(<<RecordAt(p, 1)>> \o u[m].value)
        BY <3>2, <3>3, <4>1, FramedCases DEF m
      <4>3. QED
        BY <3>3, <4>1, <4>2
    <3>7. <<RecordAt(p, 1)>> \o <<>> = <<RecordAt(p, 1)>>
      <4>1. <<RecordAt(p, 1)>> \in Seq({RecordAt(p, 1)})
        OBVIOUS
      <4>2. QED
        BY <4>1, ConcatEmptySeq
    <3>8. rs.value = <<RecordAt(p, 1)>>
      BY <3>1, <3>6, <3>7, Answers
    <3>9. Len(<<RecordAt(p, 1)>>) = 1
      OBVIOUS
    <3>10. QED
      BY <3>1, <3>8, <3>9
  <2>5. QED
    BY <1>8, <2>1, <2>3, <2>4
<1>9. QED
  BY <1>7, <1>8

-----------------------------------------------------------------------------
\* A datagram whose fields have the widths of the header.
Fits(d) ==
    /\ d.version \in 0 .. 7
    /\ d.msg_type \in 0 .. 31
    /\ d.cipher_id \in 0 .. 15
    /\ d.epoch_low \in 0 .. 15
    /\ d.reserved \in 0 .. 31
    /\ d.datagram_offset \in 0 .. TICKS_PER_EPOCH - 1
    /\ d.sender_id \in Seq(Byte)
    /\ Len(d.sender_id) = 4

\* The length of an epoch is a number.
LEMMA TicksNat == TICKS_PER_EPOCH \in Nat
BY DEF TICKS_PER_EPOCH

\* An offset below the end of the epoch has nothing above its nineteen bits.
LEMMA OffsetBits ==
    ASSUME NEW o \in Nat, o < TICKS_PER_EPOCH
    PROVE  o \div 65536 < 8 /\ o % TICKS_PER_EPOCH = o
BY DEF TICKS_PER_EPOCH

\* write_header spreads an offset over three octets, and they add up to it again.
LEMMA OffsetOctets ==
    ASSUME NEW o \in Nat, o < TICKS_PER_EPOCH
    PROVE  /\ o \div 65536 \in 0 .. 7
           /\ (o \div 256) % 256 \in 0 .. 255
           /\ o % 256 \in 0 .. 255
           /\ (o \div 65536) * 65536 + (256 * ((o \div 256) % 256) + (o % 256)) = o
<1> DEFINE k == o \div 65536
           r == o \div 256
           l == o % 256
           m == r % 256
<1>1. k \in 0 .. 7 /\ k * 65536 <= o /\ o < k * 65536 + 65536
  <2>1. k < 8
    BY OffsetBits
  <2>2. k \in Nat /\ k * 65536 <= o /\ o < k * 65536 + 65536
    BY SMT
  <2>3. QED
    BY <2>1, <2>2
<1>2. l \in 0 .. 255 /\ r \in Nat /\ o = 256 * r + l
  BY SMT
<1> HIDE DEF k, r, l
<1>3. r - 256 * k \in 0 .. 255
  BY <1>1, <1>2, SMT
<1>4. m = r - 256 * k
  <2> DEFINE q == r - 256 * k
  <2>1. r = 256 * k + q /\ q \in 0 .. 255
    BY <1>1, <1>2, <1>3, SMT
  <2> HIDE DEF q
  <2>2. m = q
    BY <1>1, <1>2, <2>1, SMT
  <2>3. QED
    BY <2>2 DEF q
<1> HIDE DEF m
<1>5. k * 65536 + (256 * m + l) = o
  BY <1>1, <1>2, <1>4, SMT
<1>6. m \in 0 .. 255
  BY <1>3, <1>4
<1>7. QED
  BY <1>1, <1>2, <1>5, <1>6 DEF k, r, l, m

\* The nine octets of such a header.
LEMMA HeaderIs ==
    ASSUME NEW d, Fits(d)
    PROVE  /\ HeaderBytes(d) \in Seq(Byte)
           /\ Len(HeaderBytes(d)) = 9
           /\ HeaderBytes(d)[1] = d.version * 32 + d.msg_type
           /\ HeaderBytes(d)[2] = d.cipher_id * 16 + d.epoch_low
           /\ HeaderBytes(d)[3] = d.reserved * 8 + (d.datagram_offset \div 65536)
           /\ HeaderBytes(d)[4] = (d.datagram_offset \div 256) % 256
           /\ HeaderBytes(d)[5] = d.datagram_offset % 256
           /\ \A j \in 1 .. 4 : HeaderBytes(d)[5 + j] = d.sender_id[j]
<1> DEFINE o == d.datagram_offset
           a == d.version * 32 + d.msg_type
           b == d.cipher_id * 16 + d.epoch_low
           c == d.reserved * 8 + (o \div 65536)
           e == (o \div 256) % 256
           f == o % 256
           s == d.sender_id
<1>1. /\ d.version % 8 = d.version /\ d.msg_type % 32 = d.msg_type
      /\ d.cipher_id % 16 = d.cipher_id /\ d.epoch_low % 16 = d.epoch_low
      /\ d.reserved % 32 = d.reserved
      /\ a \in 0 .. 255 /\ b \in 0 .. 255
  <2>1. /\ d.version \in 0 .. 7 /\ d.msg_type \in 0 .. 31 /\ d.cipher_id \in 0 .. 15
        /\ d.epoch_low \in 0 .. 15 /\ d.reserved \in 0 .. 31
    BY DEF Fits
  <2>2. QED
    BY <2>1
<1>2. o \in Nat /\ o < TICKS_PER_EPOCH /\ o % TICKS_PER_EPOCH = o
  BY TicksNat, OffsetBits DEF Fits
<1>3. c \in 0 .. 255 /\ e \in 0 .. 255 /\ f \in 0 .. 255
  <2>1. o \div 65536 \in 0 .. 7 /\ (o \div 256) % 256 \in 0 .. 255 /\ o % 256 \in 0 .. 255
    BY <1>2, OffsetOctets
  <2>2. d.reserved \in 0 .. 31
    BY DEF Fits
  <2>3. \A r \in 0 .. 31, q \in 0 .. 7 : r * 8 + q \in 0 .. 255
    OBVIOUS
  <2>4. QED
    BY <2>1, <2>2, <2>3
<1>4. s \in Seq(Byte) /\ Len(s) = 4
  BY DEF Fits
<1>5. HeaderBytes(d) = (<<a, b, c>> \o <<e, f>>) \o s
  BY <1>1, <1>2 DEF HeaderBytes, U16Bytes
<1> HIDE DEF a, b, c, e, f, s, o
<1> DEFINE x == <<a, b, c>>
           y == <<e, f>>
<1>6. x \in Seq(Byte) /\ Len(x) = 3 /\ x[1] = a /\ x[2] = b /\ x[3] = c
  BY <1>1, <1>3 DEF Byte
<1>7. y \in Seq(Byte) /\ Len(y) = 2 /\ y[1] = e /\ y[2] = f
  BY <1>3 DEF Byte
<1> HIDE DEF x, y
<1> DEFINE w == x \o y
<1>8. /\ w \in Seq(Byte) /\ Len(w) = 5
      /\ w[1] = a /\ w[2] = b /\ w[3] = c /\ w[4] = e /\ w[5] = f
  <2>1. /\ w \in Seq(Byte) /\ Len(w) = Len(x) + Len(y)
        /\ \A i \in 1 .. Len(x) + Len(y) : w[i] = IF i <= Len(x) THEN x[i] ELSE y[i - Len(x)]
    BY <1>6, <1>7, ConcatProperties
  <2> HIDE DEF w
  <2>2. QED
    BY <1>6, <1>7, <2>1
<1> HIDE DEF w
<1>9. /\ w \o s \in Seq(Byte) /\ Len(w \o s) = 9
      /\ \A i \in 1 .. 9 : (w \o s)[i] = IF i <= 5 THEN w[i] ELSE s[i - 5]
  <2>1. /\ w \o s \in Seq(Byte) /\ Len(w \o s) = Len(w) + Len(s)
        /\ \A i \in 1 .. Len(w) + Len(s) : (w \o s)[i] = IF i <= Len(w) THEN w[i] ELSE s[i - Len(w)]
    BY <1>4, <1>8, ConcatProperties
  <2>2. QED
    BY <1>4, <1>8, <2>1
<1>10. HeaderBytes(d) = w \o s
  BY <1>5 DEF w, x, y
<1>11. \A j \in 1 .. 4 : (w \o s)[5 + j] = s[j]
  <2>1. \A j \in 1 .. 4 : 5 + j \in 1 .. 9 /\ ~(5 + j <= 5) /\ (5 + j) - 5 = j
    OBVIOUS
  <2>2. QED
    BY <1>9, <2>1
<1>12. /\ (w \o s)[1] = a /\ (w \o s)[2] = b /\ (w \o s)[3] = c
       /\ (w \o s)[4] = e /\ (w \o s)[5] = f
  BY <1>8, <1>9
<1>13. QED
  BY <1>9, <1>10, <1>11, <1>12 DEF a, b, c, e, f, s, o

\* A buffer with such a header reads as the datagram it was written from.
LEMMA HeaderRead ==
    ASSUME NEW d, Fits(d), NEW payload \in Seq(Byte), NEW buf,
           buf.octets = HeaderBytes(d) \o payload
    PROVE  /\ VersionOf(buf) = d.version
           /\ TypeOf(buf) = d.msg_type
           /\ CipherOf(buf) = d.cipher_id
           /\ LowOf(buf) = d.epoch_low
           /\ ReservedOf(buf) = d.reserved
           /\ OffsetOf(buf) = d.datagram_offset
           /\ SenderOf(buf) = d.sender_id
           /\ PayloadOf(buf) = payload
           /\ Len(buf.octets) = 9 + Len(payload)
<1> DEFINE h == HeaderBytes(d)
           z == h \o payload
<1>0. buf.octets = z
  OBVIOUS
<1>1. h \in Seq(Byte) /\ Len(h) = 9
  BY HeaderIs
<1>2. Len(payload) \in Nat /\ \A i \in 1 .. Len(payload) : payload[i] \in Byte
  BY LenProperties, ElementOfSeq
<1> HIDE DEF h
<1>3. /\ z \in Seq(Byte) /\ Len(z) = 9 + Len(payload)
      /\ \A i \in 1 .. 9 + Len(payload) : z[i] = IF i <= 9 THEN h[i] ELSE payload[i - 9]
  <2>1. /\ z \in Seq(Byte) /\ Len(z) = Len(h) + Len(payload)
        /\ \A i \in 1 .. Len(h) + Len(payload) :
              z[i] = IF i <= Len(h) THEN h[i] ELSE payload[i - Len(h)]
    BY <1>1, ConcatProperties
  <2>2. QED
    BY <1>1, <2>1
<1> HIDE DEF z
<1>4. \A i \in 1 .. 9 : z[i] = h[i]
  BY <1>2, <1>3
<1>5. /\ z[1] = d.version * 32 + d.msg_type
      /\ z[2] = d.cipher_id * 16 + d.epoch_low
      /\ z[3] = d.reserved * 8 + (d.datagram_offset \div 65536)
      /\ z[4] = (d.datagram_offset \div 256) % 256
      /\ z[5] = d.datagram_offset % 256
      /\ \A j \in 1 .. 4 : z[5 + j] = d.sender_id[j]
  <2>1. \A j \in 1 .. 4 : 5 + j \in 1 .. 9
    OBVIOUS
  <2>2. QED
    BY <1>4, <2>1, HeaderIs DEF h
<1>6. VersionOf(buf) = d.version /\ TypeOf(buf) = d.msg_type
  <2> DEFINE v == d.version
             t == d.msg_type
             k == v * 32 + t
  <2>1. v \in 0 .. 7 /\ t \in 0 .. 31
    BY DEF Fits
  <2>2. VersionOf(buf) = k \div 32 /\ TypeOf(buf) = k % 32
    BY <1>0, <1>5 DEF VersionOf, TypeOf
  <2> HIDE DEF v, t
  <2>3. k \div 32 = v /\ k % 32 = t
    BY <2>1
  <2> HIDE DEF k
  <2>4. QED
    BY <2>2, <2>3 DEF v, t
<1>7. CipherOf(buf) = d.cipher_id /\ LowOf(buf) = d.epoch_low
  <2> DEFINE v == d.cipher_id
             t == d.epoch_low
             k == v * 16 + t
  <2>1. v \in 0 .. 15 /\ t \in 0 .. 15
    BY DEF Fits
  <2>2. CipherOf(buf) = k \div 16 /\ LowOf(buf) = k % 16
    BY <1>0, <1>5 DEF CipherOf, LowOf
  <2> HIDE DEF v, t
  <2>3. k \div 16 = v /\ k % 16 = t
    BY <2>1
  <2> HIDE DEF k
  <2>4. QED
    BY <2>2, <2>3 DEF v, t
<1>8. ReservedOf(buf) = d.reserved /\ OffsetOf(buf) = d.datagram_offset
  <2> DEFINE o == d.datagram_offset
             v == d.reserved
             t == o \div 65536
             k == v * 8 + t
             x == 256 * ((o \div 256) % 256) + (o % 256)
  <2>1. v \in 0 .. 31 /\ o \in Nat /\ o < TICKS_PER_EPOCH
    BY TicksNat DEF Fits
  <2>2. t \in 0 .. 7 /\ t * 65536 + x = o
    <3> HIDE DEF o
    <3>1. QED
      BY <2>1, OffsetOctets
  <2>3. ReservedOf(buf) = k \div 8
    BY <1>0, <1>5 DEF ReservedOf
  <2>4. OffsetOf(buf) = (k % 8) * 65536 + x
    <3>1. 4 + 1 = 5
      OBVIOUS
    <3>2. QED
      BY <1>0, <1>5, <3>1 DEF OffsetOf, U16
  <2> HIDE DEF o, v, t, x
  <2>5. k \div 8 = v /\ k % 8 = t
    <3>1. v \in 0 .. 31 /\ t \in 0 .. 7
      BY <2>1, <2>2
    <3>2. QED
      BY <3>1
  <2> HIDE DEF k
  <2>6. QED
    BY <2>2, <2>3, <2>4, <2>5 DEF v, o
<1>9. SenderOf(buf) = d.sender_id
  <2>1. d.sender_id \in Seq(Byte) /\ Len(d.sender_id) = 4
    BY DEF Fits
  <2>2. \A i \in 6 .. 9 : z[i] \in Byte
    BY <1>2, <1>3, ElementOfSeq
  <2>3. /\ SubSeq(z, 6, 9) \in Seq(Byte) /\ Len(SubSeq(z, 6, 9)) = 4
        /\ \A i \in 1 .. 4 : SubSeq(z, 6, 9)[i] = z[6 + i - 1]
    BY <2>2, SubSeqProperties
  <2>4. \A i \in 1 .. 4 : 6 + i - 1 = 5 + i
    OBVIOUS
  <2>5. SubSeq(z, 6, 9) = d.sender_id
    BY <1>5, <2>1, <2>3, <2>4, SeqEqual
  <2>6. QED
    BY <1>0, <2>5 DEF SenderOf, HEADER_LEN
<1>10. PayloadOf(buf) = payload
  <2> DEFINE n == Len(payload)
             t == SubSeq(z, 10, 9 + n)
  <2>1. \A i \in 10 .. 9 + n : i \in 1 .. Len(z)
    BY <1>2, <1>3
  <2>2. \A i \in 10 .. 9 + n : z[i] \in Byte
    BY <1>3, <2>1, ElementOfSeq
  <2>3. 10 \in Int /\ 9 + n \in Int /\ n \in Nat
    BY <1>2
  <2> HIDE DEF n
  <2>4. /\ t \in Seq(Byte)
        /\ Len(t) = IF 10 <= 9 + n THEN 9 + n - 10 + 1 ELSE 0
        /\ \A i \in 1 .. 9 + n - 10 + 1 : t[i] = z[10 + i - 1]
    BY <2>2, <2>3, SubSeqProperties
  <2>5. Len(t) = n
    BY <2>3, <2>4
  <2>6. ASSUME NEW i \in 1 .. n PROVE t[i] = payload[i]
    <3>1. i \in 1 .. 9 + n - 10 + 1 /\ 10 + i - 1 = 9 + i /\ (9 + i) - 9 = i
          /\ 9 + i \in 1 .. 9 + n /\ ~(9 + i <= 9)
      BY <2>3
    <3>2. t[i] = z[9 + i]
      BY <2>4, <3>1
    <3>3. z[9 + i] = payload[i]
      BY <1>3, <3>1 DEF n
    <3>4. QED
      BY <3>2, <3>3
  <2> HIDE DEF t
  <2>7. t = payload
    BY <2>4, <2>5, <2>6, SeqEqual DEF n
  <2>8. QED
    BY <1>0, <1>3, <2>7 DEF PayloadOf, HEADER_LEN, t, n
<1>11. QED
  BY <1>0, <1>3, <1>6, <1>7, <1>8, <1>9, <1>10

-----------------------------------------------------------------------------
\* A datagram of the harness: its header, and what it carries.
Carrying(mt, cipher, off, reserved, records, raw) ==
    [version |-> VERSION, msg_type |-> mt, cipher_id |-> cipher,
     epoch_low |-> Epoch!LowBits(epoch), reserved |-> reserved,
     datagram_offset |-> off, sender_id |-> id,
     records |-> records, raw |-> raw]

\* The epoch of the harness is one.
LEMMA EpochIs == epoch \in Nat /\ epoch # Epoch!NoEpoch
BY SMT DEF epoch, Epoch!NoEpoch

\* The suites of the harness have tags of 8 and of 16 octets.
LEMMA CiphersAre ==
    ASSUME NEW cipher \in Ciphers
    PROVE  cipher \in CipherIds /\ cipher \in 0 .. 15 /\ TagLen(cipher) \in Nat
<1>1. CASE cipher = HmacSha256T64
  BY <1>1 DEF CipherIds, TagLen, HmacSha256T64, SipHash24, ChaCha20Poly1305, HmacSha256T32
<1>2. CASE cipher = ChaCha20Poly1305
  BY <1>2 DEF CipherIds, TagLen, HmacSha256T64, SipHash24, ChaCha20Poly1305, HmacSha256T32
<1>3. QED
  BY <1>1, <1>2 DEF Ciphers

\* The fields of such a datagram have the widths of the header.
LEMMA CarryingFits ==
    ASSUME NEW mt \in MsgTypes, NEW cipher \in Ciphers, NEW off \in 0 .. TICKS_PER_EPOCH - 1,
           NEW reserved \in 0 .. 31
    PROVE  Fits(Carrying(mt, cipher, off, reserved, <<>>, <<>>))
<1> DEFINE low == Epoch!LowBits(epoch)
           d == Carrying(mt, cipher, off, reserved, <<>>, <<>>)
<1>1. low \in 0 .. 15
  <2>1. \A n \in Nat : n % 16 \in 0 .. 15
    OBVIOUS
  <2>2. QED
    BY <2>1, EpochIs DEF Epoch!LowBits
<1>2. d = [version |-> VERSION, msg_type |-> mt, cipher_id |-> cipher,
           epoch_low |-> low, reserved |-> reserved,
           datagram_offset |-> off, sender_id |-> id,
           records |-> <<>>, raw |-> <<>>]
  BY DEF Carrying
<1> HIDE DEF low, d
<1>3. mt \in 0 .. 31
  BY DEF MsgTypes, MESSAGE, EVENT, ALARM, NUMBER, SERIES, EPOCH_ANNOUNCE, TIME_ANNOUNCE,
         TIME_REQUEST, HEARTBEAT, CAPABILITY_ADVERTISE
<1>4. VERSION \in 0 .. 7 /\ cipher \in 0 .. 15
  BY CiphersAre DEF VERSION
<1>5. id \in Seq(Byte) /\ Len(id) = 4
  BY DEF id, Byte
<1>6. Fits(d)
  BY <1>1, <1>2, <1>3, <1>4, <1>5 DEF Fits
<1>7. QED
  BY <1>6 DEF d

\* What a sealed datagram is made of, and what a receiver reads of it.
ReadsAs(buf, mt, cipher, off, reserved, p) ==
    /\ Len(buf.octets) = 9 + Len(p) /\ buf.tag.len = TagLen(cipher)
    /\ HeaderOf(buf) = Carrying(mt, cipher, off, reserved, <<>>, <<>>)
    /\ VersionOf(buf) = VERSION /\ TypeOf(buf) = mt /\ CipherOf(buf) = cipher
    /\ LowOf(buf) = Epoch!LowBits(epoch) /\ OffsetOf(buf) = off /\ SenderOf(buf) = id
    /\ PayloadOf(buf) = p

\* What is sealed reads as it was built.
LEMMA SealedReads ==
    ASSUME NEW mt \in MsgTypes, NEW cipher \in Ciphers, NEW off \in 0 .. TICKS_PER_EPOCH - 1,
           NEW reserved \in 0 .. 31, NEW p \in Seq(Byte), NEW buf,
           Sealed(Carrying(mt, cipher, off, reserved, <<>>, <<>>),
                  EpochKey(secret, id, epoch, n2c), epoch, p) = Ok(buf)
    PROVE  ReadsAs(buf, mt, cipher, off, reserved, p)
<1> DEFINE d == Carrying(mt, cipher, off, reserved, <<>>, <<>>)
           key == EpochKey(secret, id, epoch, n2c)
           tag == Mac(cipher, key, AuthHeader(d, epoch) \o p, off)
<1>1. d = [version |-> VERSION, msg_type |-> mt, cipher_id |-> cipher,
           epoch_low |-> Epoch!LowBits(epoch), reserved |-> reserved,
           datagram_offset |-> off, sender_id |-> id,
           records |-> <<>>, raw |-> <<>>]
  BY DEF Carrying
<1>2. /\ d.cipher_id = cipher /\ d.sender_id = id /\ d.datagram_offset = off
      /\ d.version = VERSION /\ d.msg_type = mt /\ d.epoch_low = Epoch!LowBits(epoch)
      /\ d.reserved = reserved
  BY <1>1
<1>3. Fits(d)
  BY CarryingFits
<1>4. Sealed(d, key, epoch, p) = Ok(buf)
  OBVIOUS
<1> HIDE DEF d, key
<1>5. IsOk(tag) => tag.value.len = TagLen(cipher)
  <2> DEFINE t == [len |-> TagLen(cipher),
                   mac |-> <<cipher, key,
                             IF cipher = ChaCha20Poly1305 THEN off ELSE 0,
                             AuthHeader(d, epoch) \o p>>]
  <2>1. tag = Err("Oversize") \/ tag = Ok(t)
    BY DEF Mac
  <2>2. t.len = TagLen(cipher)
    OBVIOUS
  <2> HIDE DEF t, tag
  <2>3. ~IsOk(Err("Oversize")) /\ Ok(t).value = t
    BY Answers
  <2>4. QED
    BY <2>1, <2>2, <2>3
<1> HIDE DEF tag
<1>6. Sealed(d, key, epoch, p)
        = IF IsOk(tag) THEN Ok([octets |-> HeaderBytes(d) \o p, tag |-> tag.value]) ELSE tag
  BY <1>2 DEF Sealed, tag
<1>7. IsOk(tag)
  <2>1. IsOk(Ok(buf))
    BY Answers
  <2>2. QED
    BY <1>4, <1>6, <2>1
<1>8. buf = [octets |-> HeaderBytes(d) \o p, tag |-> tag.value]
  <2> DEFINE b == [octets |-> HeaderBytes(d) \o p, tag |-> tag.value]
  <2>1. Ok(b) = Ok(buf)
    BY <1>4, <1>6, <1>7
  <2> HIDE DEF b
  <2>2. Ok(b).value = b /\ Ok(buf).value = buf
    BY Answers
  <2>3. QED
    BY <2>1, <2>2 DEF b
<1>9. buf.octets = HeaderBytes(d) \o p /\ buf.tag.len = TagLen(cipher)
  BY <1>5, <1>7, <1>8
<1>10. /\ VersionOf(buf) = d.version /\ TypeOf(buf) = d.msg_type /\ CipherOf(buf) = d.cipher_id
       /\ LowOf(buf) = d.epoch_low /\ ReservedOf(buf) = d.reserved
       /\ OffsetOf(buf) = d.datagram_offset /\ SenderOf(buf) = d.sender_id
       /\ PayloadOf(buf) = p /\ Len(buf.octets) = 9 + Len(p)
  BY <1>3, <1>9, HeaderRead
<1>11. HeaderOf(buf) = d
  BY <1>1, <1>2, <1>10 DEF HeaderOf
<1>12. QED
  BY <1>2, <1>9, <1>10, <1>11 DEF d, ReadsAs

\* Steps 1 to 7 let through what is sealed under the key of the peer, unless it is a
\* time message.
LEMMA SealedPasses ==
    ASSUME NEW mt \in MsgTypes, NEW cipher \in Ciphers, NEW off \in 0 .. TICKS_PER_EPOCH - 1,
           NEW reserved \in 0 .. 31, NEW p \in Seq(Byte), NEW buf, NEW layouts,
           Sealed(Carrying(mt, cipher, off, reserved, <<>>, <<>>),
                  EpochKey(secret, id, epoch, n2c), epoch, p) = Ok(buf)
    PROVE  HeaderError(buf, Peer(id, cipher, layouts), epoch, n2c)
             = IF mt \in TimeTypes THEN "BadMsgType" ELSE ""
<1> DEFINE peer == Peer(id, cipher, layouts)
<1>1. peer.sender_id = id /\ peer.secret = secret /\ peer.cipher = cipher
  BY DEF Peer
<1> HIDE DEF peer
<1>0. ReadsAs(buf, mt, cipher, off, reserved, p)
  BY SealedReads, Zenon
<1>2. /\ Len(buf.octets) = 9 + Len(p) /\ buf.tag.len = TagLen(cipher)
      /\ HeaderOf(buf) = Carrying(mt, cipher, off, reserved, <<>>, <<>>)
      /\ VersionOf(buf) = VERSION /\ TypeOf(buf) = mt /\ CipherOf(buf) = cipher
      /\ LowOf(buf) = Epoch!LowBits(epoch) /\ SenderOf(buf) = id
      /\ PayloadOf(buf) = p
  BY <1>0 DEF ReadsAs
<1>3. ~(Length(buf) < HEADER_LEN) /\ ~(Length(buf) < HEADER_LEN + TagLen(cipher))
  <2>1. Len(p) \in Nat /\ TagLen(cipher) \in Nat
    BY LenProperties, CiphersAre
  <2>2. QED
    BY <1>2, <2>1 DEF Length, HEADER_LEN
<1>4. Reconstructed(buf, epoch) = epoch /\ epoch # Epoch!NoEpoch
  BY <1>2, EpochIs DEF Reconstructed, Epoch!ReconstructEpoch
<1>5. Sealed(HeaderOf(buf), EpochKey(peer.secret, peer.sender_id, epoch, n2c), epoch, PayloadOf(buf))
        = Ok(buf)
  BY <1>1, <1>2
<1>6. IsOk(Ok(buf)) /\ Ok(buf).value.tag = buf.tag
  BY Answers
<1>7. CASE mt \in TimeTypes
  BY <1>2, <1>3, <1>7 DEF HeaderError, peer
<1>8. CASE mt \notin TimeTypes
  BY <1>1, <1>2, <1>3, <1>4, <1>5, <1>6, <1>8 DEF HeaderError, peer
<1>9. QED
  BY <1>7, <1>8

\* The octets of a payload that is not one of records.
RawOf(mt, p) == IF IsRecordFramed(mt) THEN <<>> ELSE p

\* What a receiver that holds these layouts makes of a payload that frames.
Arrived(mt, cipher, off, reserved, p, peer, rs) ==
    [datagram |-> Carrying(mt, cipher, off, reserved, Partition(peer, rs, TRUE), RawOf(mt, p)),
     epoch_id |-> epoch,
     skipped  |-> Partition(peer, rs, FALSE)]

\* The records of a payload that frames, where there are any.
FramedRecords(mt, framed) == IF IsRecordFramed(mt) THEN framed.value ELSE <<>>

\* The answer to what is sealed under the key of the peer.
LEMMA Received ==
    ASSUME NEW mt \in MsgTypes, NEW cipher \in Ciphers, NEW off \in 0 .. TICKS_PER_EPOCH - 1,
           NEW reserved \in 0 .. 31, NEW p \in Seq(Byte), NEW buf,
           Sealed(Carrying(mt, cipher, off, reserved, <<>>, <<>>),
                  EpochKey(secret, id, epoch, n2c), epoch, p) = Ok(buf)
    PROVE  /\ mt \in TimeTypes => ~IsOk(Answer(buf, cipher))
           /\ mt \notin TimeTypes =>
                /\ IsOk(Answer(buf, cipher)) <=> IsOk(Framed(mt, p, off))
                /\ IsOk(Answer(buf, cipher)) =>
                     Answer(buf, cipher).value
                       = Arrived(mt, cipher, off, reserved, p, Peer(id, cipher, PermissiveLayouts),
                                 FramedRecords(mt, Framed(mt, p, off)))
<1> DEFINE peer == Peer(id, cipher, PermissiveLayouts)
           framed == Framed(mt, p, off)
           rs == FramedRecords(mt, framed)
<1>1. HeaderError(buf, peer, epoch, n2c) = IF mt \in TimeTypes THEN "BadMsgType" ELSE ""
  BY SealedPasses
<1>0. ReadsAs(buf, mt, cipher, off, reserved, p)
  BY SealedReads, Zenon
<1>2. /\ HeaderOf(buf) = Carrying(mt, cipher, off, reserved, <<>>, <<>>)
      /\ TypeOf(buf) = mt /\ PayloadOf(buf) = p /\ OffsetOf(buf) = off
      /\ LowOf(buf) = Epoch!LowBits(epoch)
  BY <1>0 DEF ReadsAs
<1>3. Replay!Admits(Replay!NewWindow, OffsetOf(buf))
  BY DEF Replay!Admits, Replay!NewWindow
<1>4. Reconstructed(buf, epoch) = epoch
  BY <1>2 DEF Reconstructed, Epoch!ReconstructEpoch
<1> HIDE DEF peer, framed, rs
<1>5. Answer(buf, cipher) = Decode(buf, peer, epoch, n2c, Replay!NewWindow).result
  BY DEF Answer, peer
<1>6. CASE mt \in TimeTypes
  <2>1. Answer(buf, cipher) = Err("BadMsgType")
    BY <1>1, <1>5, <1>6 DEF Decode
  <2>2. QED
    BY <1>6, <2>1, Answers
<1>7. CASE mt \notin TimeTypes
  <2> DEFINE kept == [HeaderOf(buf) EXCEPT !.records = Partition(peer, rs, TRUE),
                                           !.raw = RawOf(mt, p)]
             value == [datagram |-> kept, epoch_id |-> epoch, skipped |-> Partition(peer, rs, FALSE)]
  <2>1. Answer(buf, cipher) = IF ~IsOk(framed) THEN Err(framed.error) ELSE Ok(value)
    BY <1>1, <1>2, <1>3, <1>4, <1>5, <1>7 DEF Decode, framed, rs, FramedRecords, RawOf
  <2>2. kept = Carrying(mt, cipher, off, reserved, Partition(peer, rs, TRUE), RawOf(mt, p))
    <3> DEFINE kept_records == Partition(peer, rs, TRUE)
               raw == RawOf(mt, p)
    <3>1. kept = [Carrying(mt, cipher, off, reserved, <<>>, <<>>)
                    EXCEPT !.records = kept_records, !.raw = raw]
      BY <1>2
    <3> HIDE DEF kept, kept_records, raw
    <3>2. kept = Carrying(mt, cipher, off, reserved, kept_records, raw)
      BY <3>1 DEF Carrying
    <3>3. QED
      BY <3>2 DEF kept_records, raw
  <2>3. value = Arrived(mt, cipher, off, reserved, p, peer, rs)
    BY <2>2 DEF Arrived
  <2> HIDE DEF kept, value
  <2>4. IsOk(Answer(buf, cipher)) <=> IsOk(framed)
    BY <2>1, Answers DEF IsOk
  <2>5. IsOk(Answer(buf, cipher)) => Answer(buf, cipher).value = value
    BY <2>1, <2>4, Answers
  <2>6. QED
    BY <1>7, <2>3, <2>4, <2>5 DEF peer, framed, rs
<1>8. QED
  BY <1>6, <1>7

-----------------------------------------------------------------------------
\* The datagram FuzzDecode seals a payload under.
FuzzDatagram(mt) ==
    [Base(mt, HmacSha256T64, id, epoch, FuzzOffset) EXCEPT !.reserved = 3]

\* The fields of the fuzzed datagram have the widths of the header.
LEMMA FuzzFits ==
    ASSUME NEW mt \in MsgTypes
    PROVE  /\ Fits(FuzzDatagram(mt))
           /\ FuzzDatagram(mt) =
                [version |-> VERSION, msg_type |-> mt, cipher_id |-> HmacSha256T64,
                 epoch_low |-> Epoch!LowBits(epoch), reserved |-> 3,
                 datagram_offset |-> FuzzOffset, sender_id |-> id,
                 records |-> <<>>, raw |-> <<>>]
<1> DEFINE low == Epoch!LowBits(epoch)
<1>1. low \in 0 .. 15
  <2>1. \A n \in Nat : n % 16 \in 0 .. 15
    OBVIOUS
  <2>2. QED
    BY <2>1, EpochIs DEF Epoch!LowBits
<1>2. FuzzDatagram(mt) =
        [version |-> VERSION, msg_type |-> mt, cipher_id |-> HmacSha256T64,
         epoch_low |-> low, reserved |-> 3,
         datagram_offset |-> FuzzOffset, sender_id |-> id,
         records |-> <<>>, raw |-> <<>>]
  BY DEF FuzzDatagram, Base
<1> HIDE DEF low
<1>3. mt \in 0 .. 31
  BY DEF MsgTypes, MESSAGE, EVENT, ALARM, NUMBER, SERIES, EPOCH_ANNOUNCE, TIME_ANNOUNCE,
         TIME_REQUEST, HEARTBEAT, CAPABILITY_ADVERTISE
<1>4. VERSION \in 0 .. 7 /\ HmacSha256T64 \in 0 .. 15 /\ 3 \in 0 .. 31
  BY DEF VERSION, HmacSha256T64
<1>5. FuzzOffset \in 0 .. TICKS_PER_EPOCH - 1
  BY HarnessAssumption
<1>6. id \in Seq(Byte) /\ Len(id) = 4
  BY DEF id, Byte
<1>7. Fits(FuzzDatagram(mt))
  BY <1>1, <1>2, <1>3, <1>4, <1>5, <1>6 DEF Fits
<1>8. QED
  BY <1>2, <1>7 DEF low

\* What Authentic answers: header, payload and the tag over both.
LEMMA FuzzBuffer ==
    ASSUME NEW mt \in MsgTypes, NEW payload \in Seq(Byte), NEW buf,
           buf = Authentic(FuzzDatagram(mt), payload)
    PROVE  /\ buf.octets = HeaderBytes(FuzzDatagram(mt)) \o payload
           /\ buf.tag.len = 8
           /\ Sealed(FuzzDatagram(mt), EpochKey(secret, id, epoch, n2c), epoch, payload) = Ok(buf)
           /\ HeaderOf(buf) = FuzzDatagram(mt)
           /\ TypeOf(buf) = mt
           /\ PayloadOf(buf) = payload
           /\ OffsetOf(buf) = FuzzOffset
<1> DEFINE d == FuzzDatagram(mt)
           key == EpochKey(secret, id, epoch, n2c)
           tag == Mac(HmacSha256T64, key, AuthHeader(d, epoch) \o payload, FuzzOffset)
<1>1. /\ d.cipher_id = HmacSha256T64 /\ d.sender_id = id /\ d.datagram_offset = FuzzOffset
      /\ d.version = VERSION /\ d.msg_type = mt /\ d.epoch_low = Epoch!LowBits(epoch)
      /\ d.reserved = 3
  BY FuzzFits
<1>2. d = [version |-> VERSION, msg_type |-> mt, cipher_id |-> HmacSha256T64,
           epoch_low |-> Epoch!LowBits(epoch), reserved |-> 3,
           datagram_offset |-> FuzzOffset, sender_id |-> id,
           records |-> <<>>, raw |-> <<>>]
  BY FuzzFits
<1>3. Fits(d)
  BY FuzzFits
<1> HIDE DEF d
<1>4. IsOk(tag) /\ tag.value.len = 8
  <2>1. HmacSha256T64 # ChaCha20Poly1305 /\ TagLen(HmacSha256T64) = 8
    BY DEF HmacSha256T64, SipHash24, ChaCha20Poly1305, HmacSha256T32, TagLen
  <2>2. \A v : IsOk(Ok(v)) /\ Ok(v).value = v
    BY Answers
  <2>3. QED
    BY <2>1, <2>2 DEF Mac
<1> HIDE DEF tag
<1>5. Sealed(d, key, epoch, payload) = Ok([octets |-> HeaderBytes(d) \o payload, tag |-> tag.value])
  BY <1>1, <1>4 DEF Sealed, tag
<1>6. buf = [octets |-> HeaderBytes(d) \o payload, tag |-> tag.value]
  BY <1>1, <1>5, Answers DEF Authentic, Unwrap, d
<1>7. /\ VersionOf(buf) = d.version /\ TypeOf(buf) = d.msg_type /\ CipherOf(buf) = d.cipher_id
      /\ LowOf(buf) = d.epoch_low /\ ReservedOf(buf) = d.reserved
      /\ OffsetOf(buf) = d.datagram_offset /\ SenderOf(buf) = d.sender_id
      /\ PayloadOf(buf) = payload
  <2>1. buf.octets = HeaderBytes(d) \o payload
    BY <1>6
  <2>2. QED
    BY <1>3, <2>1, HeaderRead
<1>8. HeaderOf(buf) = d
  BY <1>1, <1>2, <1>7 DEF HeaderOf
<1>9. buf.octets = HeaderBytes(d) \o payload /\ buf.tag.len = 8
  BY <1>4, <1>6
<1>10. QED
  BY <1>1, <1>5, <1>6, <1>7, <1>8, <1>9 DEF d

\* A fuzzed datagram gets the answer of its framing.
LEMMA FuzzAnswer ==
    ASSUME NEW mt \in MsgTypes \ TimeTypes, NEW payload \in Seq(Byte), NEW buf,
           buf = Authentic(FuzzDatagram(mt), payload)
    PROVE  IsOk(Answer(buf, HmacSha256T64)) <=> IsOk(Framed(mt, payload, FuzzOffset))
<1> DEFINE c == HmacSha256T64
<1>1. FuzzDatagram(mt) = Carrying(mt, c, FuzzOffset, 3, <<>>, <<>>)
  BY FuzzFits DEF Carrying
<1>2. Sealed(Carrying(mt, c, FuzzOffset, 3, <<>>, <<>>), EpochKey(secret, id, epoch, n2c), epoch,
             payload) = Ok(buf)
  BY <1>1, FuzzBuffer
<1>3. c \in Ciphers /\ FuzzOffset \in 0 .. TICKS_PER_EPOCH - 1 /\ 3 \in 0 .. 31
  BY HarnessAssumption DEF Ciphers
<1> HIDE DEF c
<1>4. IsOk(Answer(buf, c)) <=> IsOk(Framed(mt, payload, FuzzOffset))
  BY <1>2, <1>3, Received
<1>5. QED
  BY <1>4 DEF c

-----------------------------------------------------------------------------
\* What the harness remembers of a fuzzed datagram.
FuzzInv ==
    /\ line \in Nat
    /\ input.kind = "fuzz" =>
         \E mt \in FuzzTypes, payload \in Payloads :
             /\ input.buf = Authentic(FuzzDatagram(mt), payload)
             /\ answer = Answer(input.buf, HmacSha256T64)

\* The fuzzer's payloads are sequences of octets, of any length up to the bound.
LEMMA PayloadsAreOctets == Payloads \subseteq Seq(Byte)
<1> SUFFICES ASSUME NEW n \in 0 .. MaxPayload, NEW p \in [1 .. n -> FuzzOctets]
             PROVE  p \in Seq(Byte)
  BY DEF Payloads
<1>1. n \in Nat /\ FuzzOctets \subseteq Byte
  BY HarnessAssumption
<1>2. p \in [1 .. n -> Byte]
  BY <1>1
<1>3. QED
  BY <1>1, <1>2

\* FuzzInv is an invariant: only FuzzDecode makes an input of this kind.
LEMMA FuzzInvHolds == Spec => []FuzzInv
<1>1. Init => FuzzInv
  BY DEF Init, FuzzInv, NoInput
<1>2. FuzzInv /\ [Next]_vars => FuzzInv'
  <2> SUFFICES ASSUME FuzzInv, [Next]_vars PROVE FuzzInv'
    OBVIOUS
  <2>1. CASE ReadVector
    <3>1. line' = line + 1 /\ line < Len(VectorFile) /\ input' = VectorFile[line + 1]
      BY <2>1 DEF ReadVector
    <3>2. line + 1 \in 1 .. Len(VectorFile) /\ line + 1 \in Nat
      BY <3>1, HarnessAssumption DEF FuzzInv
    <3>3. input'.kind # "fuzz"
      BY <3>1, <3>2, HarnessAssumption
    <3>4. QED
      BY <3>1, <3>2, <3>3 DEF FuzzInv
  <2>2. ASSUME NEW mt \in FuzzTypes, NEW p \in Payloads, FuzzDecode(mt, p)
        PROVE  FuzzInv'
    <3>1. PICK buf \in {Authentic(FuzzDatagram(mt), p)} :
              /\ input' = [kind |-> "fuzz", buf |-> buf]
              /\ answer' = Answer(buf, HmacSha256T64)
              /\ line' = line
      BY <2>2 DEF FuzzDecode, FuzzDatagram
    <3>2. input'.buf = Authentic(FuzzDatagram(mt), p) /\ answer' = Answer(input'.buf, HmacSha256T64)
      BY <3>1
    <3>3. QED
      BY <3>1, <3>2 DEF FuzzInv
  <2>3. ASSUME NEW built, NEW readings, Build(built, readings)
        PROVE  FuzzInv'
    <3>1. line' = line /\ input'.kind = "built"
      BY <2>3 DEF Build
    <3>2. QED
      BY <3>1 DEF FuzzInv
  <2>4. CASE UNCHANGED vars
    BY <2>4 DEF FuzzInv, vars
  <2>5. QED
    BY <2>1, <2>2, <2>3, <2>4 DEF Next, BuildData, BuildNumber, BuildSeries, BuildControl
<1>3. QED
  BY <1>1, <1>2, PTL DEF Spec

\* What the harness remembers settles how the record loop framed the payload.
LEMMA FuzzInvFrames == FuzzInv => FramingExact
<1> SUFFICES ASSUME FuzzInv, NEW mt \in {MESSAGE, EVENT}, Fuzzed(mt)
             PROVE  IsOk(answer) <=>
                       \E S \in SUBSET (1 .. Len(PayloadOf(input.buf)) - 3) :
                           Starts(PayloadOf(input.buf), S) /\ (mt = EVENT => S = {1})
  BY DEF FramingExact, Starts
<1>1. PICK t \in FuzzTypes, p \in Payloads :
          /\ input.buf = Authentic(FuzzDatagram(t), p)
          /\ answer = Answer(input.buf, HmacSha256T64)
  BY DEF FuzzInv, Fuzzed
<1>2. t \in MsgTypes /\ p \in Seq(Byte)
  BY HarnessAssumption, PayloadsAreOctets
<1>3. TypeOf(input.buf) = t /\ PayloadOf(input.buf) = p
  BY <1>1, <1>2, FuzzBuffer
<1>4. t = mt
  BY <1>3 DEF Fuzzed
<1>5. mt \in MsgTypes \ TimeTypes
  BY <1>2, <1>4 DEF TimeTypes, TIME_ANNOUNCE, TIME_REQUEST, MESSAGE, EVENT
<1>6. IsOk(answer) <=> IsOk(Framed(mt, p, FuzzOffset))
  BY <1>1, <1>2, <1>4, <1>5, FuzzAnswer
<1>7. QED
  BY <1>2, <1>3, <1>6, FramedIs

\* The record loop of decode accepts exactly the payloads that records divide
\* without a rest, whatever their octets and their length.
THEOREM PayloadsFramedExactly == Spec => []FramingExact
BY FuzzInvHolds, FuzzInvFrames, PTL

-----------------------------------------------------------------------------
\* What FlattenSeq says of the first k members, given what it says of k - 1.
Joined(seqs, u, k) == IF k = 1 THEN seqs[k] ELSE u[k - 1] \o seqs[k]

Joining(seqs, u) == [k \in 1 .. Len(seqs) |-> Joined(seqs, u, k)]

\* The recursive function FlattenSeq chooses exists, whatever is joined.
LEMMA JoiningSolved ==
    ASSUME NEW seqs, Len(seqs) \in Nat
    PROVE  \E u : u = Joining(seqs, u)
<1> DEFINE n == Len(seqs)
           T == {k \in 0 .. n : ~\E u : \A i \in 1 .. k : u[i] = Joined(seqs, u, i)}
<1>1. n \in Nat
  OBVIOUS
<1> HIDE DEF n
<1>2. ASSUME NEW k \in T, \A j \in T : k <= j PROVE FALSE
  <2>1. k \in 0 .. n /\ ~\E u : \A i \in 1 .. k : u[i] = Joined(seqs, u, i)
    OBVIOUS
  <2>2. k # 0
    <3>1. k = 0 => \A i \in 1 .. k : FALSE
      OBVIOUS
    <3>2. QED
      BY <2>1, <3>1
  <2>3. k - 1 \in 0 .. n /\ ~(k <= k - 1)
    BY <1>1, <2>1, <2>2
  <2>4. k - 1 \notin T
    BY <1>2, <2>3
  <2>5. PICK w : \A i \in 1 .. k - 1 : w[i] = Joined(seqs, w, i)
    BY <2>3, <2>4
  <2> DEFINE v == [i \in 1 .. n |-> IF i = k THEN Joined(seqs, w, k) ELSE w[i]]
  <2>6. ASSUME NEW i \in 1 .. k PROVE v[i] = Joined(seqs, v, i)
    <3>1. i \in 1 .. n /\ (i = k \/ i \in 1 .. k - 1) /\ (i # 1 => i - 1 \in 1 .. n /\ i - 1 # k)
      BY <1>1, <2>1
    <3>2. v[i] = Joined(seqs, w, i)
      BY <2>5, <3>1
    <3>3. i # 1 => v[i - 1] = w[i - 1]
      BY <3>1
    <3> HIDE DEF v
    <3>4. QED
      BY <3>2, <3>3 DEF Joined
  <2> HIDE DEF v
  <2>7. QED
    BY <2>1, <2>6
<1>3. T = {}
  <2>1. T \in SUBSET Nat
    BY <1>1
  <2> HIDE DEF T
  <2>2. QED
    BY <1>2, <2>1, LeastNumber
<1>4. PICK w : \A i \in 1 .. n : w[i] = Joined(seqs, w, i)
  <2>1. n \notin T /\ n \in 0 .. n
    BY <1>1, <1>3
  <2>2. QED
    BY <2>1
<1> DEFINE v == [i \in 1 .. n |-> w[i]]
<1>5. ASSUME NEW i \in 1 .. n PROVE v[i] = Joined(seqs, v, i)
  <2>1. i # 1 => i - 1 \in 1 .. n
    BY <1>1
  <2>2. QED
    BY <1>4, <2>1 DEF Joined
<1>6. v = [i \in 1 .. n |-> v[i]]
  OBVIOUS
<1> HIDE DEF v
<1>7. v = Joining(seqs, v)
  BY <1>5, <1>6 DEF Joining, n
<1>8. QED
  BY <1>7

\* Members of two or of four octets, one behind the other: the octets of the i-th
\* stand behind those of the i - 1 before it.
Flat(f, seqs, n, w) ==
    /\ f \in Seq(Byte) /\ Len(f) = w * n
    /\ \A i \in 1 .. n, j \in 1 .. w : f[w * (i - 1) + j] = seqs[i][j]

LEMMA FlattenedEvenly ==
    ASSUME NEW w \in {2, 4}, NEW n \in Nat, NEW seqs \in [1 .. n -> Seq(Byte)],
           \A i \in 1 .. n : Len(seqs[i]) = w
    PROVE  Flat(FlattenSeq(seqs), seqs, n, w)
<1>1. seqs \in Seq(Seq(Byte)) /\ Len(seqs) = n
  OBVIOUS
<1>2. CASE n = 0
  <2>1. FlattenSeq(seqs) = seqs /\ seqs = <<>>
    BY <1>1, <1>2, EmptySeq DEF FlattenSeq
  <2>2. <<>> \in Seq(Byte) /\ Len(<<>>) = 0 /\ w * n = 0
    BY <1>2
  <2>3. \A i \in 1 .. n : FALSE
    BY <1>2
  <2>4. QED
    BY <2>1, <2>2, <2>3 DEF Flat
<1>3. CASE n # 0
  <2> DEFINE u == CHOOSE u : u = Joining(seqs, u)
  <2>1. u = Joining(seqs, u)
    BY <1>1, JoiningSolved
  <2>2. FlattenSeq(seqs) = u[n]
    BY <1>1, <1>3 DEF FlattenSeq, Joining, Joined
  <2> HIDE DEF u
  <2>3. \A k \in 1 .. n : u[k] = Joined(seqs, u, k)
    BY <1>1, <2>1 DEF Joining
  <2> DEFINE Good(k) == /\ u[k] \in Seq(Byte)
                        /\ Len(u[k]) = w * k
                        /\ \A i \in 1 .. k, j \in 1 .. w : u[k][w * (i - 1) + j] = seqs[i][j]
             T == {k \in 1 .. n : ~Good(k)}
  <2>4. ASSUME NEW k \in T, \A j \in T : k <= j PROVE FALSE
    <3>1. k \in 1 .. n /\ ~Good(k)
      OBVIOUS
    <3>2. seqs[k] \in Seq(Byte) /\ Len(seqs[k]) = w
      BY <3>1
    <3>3. CASE k = 1
      <4>1. u[k] = seqs[k]
        BY <2>3, <3>3 DEF Joined
      <4>2. w * k = w
        BY <3>3
      <4>3. ASSUME NEW i \in 1 .. k, NEW j \in 1 .. w PROVE u[k][w * (i - 1) + j] = seqs[i][j]
        <5>1. i = 1 /\ w * (i - 1) + j = j
          BY <3>3
        <5>2. QED
          BY <3>3, <4>1, <5>1
      <4>4. QED
        BY <3>1, <3>2, <4>1, <4>2, <4>3
    <3>4. CASE k # 1
      <4> DEFINE h == u[k - 1]
                 t == seqs[k]
      <4>1. k - 1 \in 1 .. n /\ ~(k <= k - 1)
        BY <3>1, <3>4
      <4>2. Good(k - 1)
        BY <2>4, <4>1
      <4>3. h \in Seq(Byte) /\ Len(h) = w * (k - 1) /\ t \in Seq(Byte) /\ Len(t) = w
        BY <3>2, <4>2
      <4>4. u[k] = h \o t
        BY <2>3, <3>1, <3>4 DEF Joined
      <4>5. \A i \in 1 .. k - 1, j \in 1 .. w : h[w * (i - 1) + j] = seqs[i][j]
        BY <4>2
      <4> HIDE DEF h, Good
      <4>6. /\ h \o t \in Seq(Byte) /\ Len(h \o t) = w * (k - 1) + w
            /\ \A x \in 1 .. w * (k - 1) + w :
                   (h \o t)[x] = IF x <= w * (k - 1) THEN h[x] ELSE t[x - w * (k - 1)]
        <5> HIDE DEF t
        <5>1. /\ h \o t \in Seq(Byte) /\ Len(h \o t) = Len(h) + Len(t)
              /\ \A x \in 1 .. Len(h) + Len(t) :
                   (h \o t)[x] = IF x <= Len(h) THEN h[x] ELSE t[x - Len(h)]
          BY <4>3, ConcatProperties
        <5>2. QED
          BY <4>3, <5>1
      <4>7. w * (k - 1) + w = w * k
        BY <3>1
      <4>8. ASSUME NEW i \in 1 .. k, NEW j \in 1 .. w
            PROVE  (h \o t)[w * (i - 1) + j] = seqs[i][j]
        <5> DEFINE x == w * (i - 1) + j
        <5>1. CASE i = k
          <6>1. x \in 1 .. w * (k - 1) + w /\ ~(x <= w * (k - 1)) /\ x - w * (k - 1) = j
            BY <3>1, <5>1
          <6>2. QED
            BY <4>6, <5>1, <6>1
        <5>2. CASE i # k
          <6>1. i \in 1 .. k - 1
            BY <3>1, <5>2
          <6>2. x \in 1 .. w * (k - 1) + w /\ x <= w * (k - 1)
            <7>1. CASE w = 2
              BY <3>1, <6>1, <7>1
            <7>2. CASE w = 4
              BY <3>1, <6>1, <7>2
            <7>3. QED
              BY <7>1, <7>2
          <6>3. QED
            BY <4>5, <4>6, <6>1, <6>2
        <5>3. QED
          BY <5>1, <5>2
      <4>9. Good(k)
        BY <4>4, <4>6, <4>7, <4>8 DEF Good
      <4>10. QED
        BY <3>1, <4>9
    <3>5. QED
      BY <3>3, <3>4
  <2>5. T = {}
    <3>1. T \in SUBSET Nat
      OBVIOUS
    <3> HIDE DEF T
    <3>2. QED
      BY <2>4, <3>1, LeastNumber
  <2>6. Good(n)
    <3>1. n \in 1 .. n /\ n \notin T
      BY <1>3, <2>5
    <3>2. QED
      BY <3>1
  <2>7. QED
    BY <2>2, <2>6 DEF Flat
<1>4. QED
  BY <1>2, <1>3

-----------------------------------------------------------------------------
\* The octets m to n of a payload.
LEMMA Slice ==
    ASSUME NEW p \in Seq(Byte), NEW m \in Nat \ {0}, NEW n \in Nat, n <= Len(p), m <= n + 1
    PROVE  /\ SubSeq(p, m, n) \in Seq(Byte)
           /\ Len(SubSeq(p, m, n)) = n - m + 1
           /\ \A i \in 1 .. n - m + 1 : SubSeq(p, m, n)[i] = p[m + i - 1]
<1>1. \A i \in m .. n : p[i] \in Byte
  <2>1. Len(p) \in Nat /\ \A i \in 1 .. Len(p) : p[i] \in Byte
    BY LenProperties, ElementOfSeq
  <2>2. QED
    BY <2>1
<1>2. m \in Int /\ n \in Int
  OBVIOUS
<1>3. /\ SubSeq(p, m, n) \in Seq(Byte)
      /\ Len(SubSeq(p, m, n)) = IF m <= n THEN n - m + 1 ELSE 0
      /\ \A i \in 1 .. n - m + 1 : SubSeq(p, m, n)[i] = p[m + i - 1]
  BY <1>1, <1>2, SubSeqProperties
<1>4. m <= n \/ n - m + 1 = 0
  OBVIOUS
<1>5. QED
  BY <1>3, <1>4

\* The encoding of what was parsed is what was parsed.
LEMMA CapabilityReencoded ==
    ASSUME NEW p \in Seq(Byte), IsOk(ParseCapability(p))
    PROVE  EncodeCapability(ParseCapability(p).value) = Ok(p)
<1> DEFINE nc == p[2]
           nl == p[3 + nc]
           n == Len(p)
           ciphers == SubSeq(p, 3, 2 + nc)
           layouts == [i \in 1 .. nl |-> <<p[2 + nc + 2 * i], p[3 + nc + 2 * i]>>]
<1>1. n \in Nat /\ \A i \in 1 .. n : p[i] \in Byte
  BY LenProperties, ElementOfSeq
<1>2. /\ ~(n < 3) /\ ~(n < 3 + nc) /\ n = 3 + nc + 2 * nl
      /\ ParseCapability(p) = Ok([max_version |-> p[1], ciphers |-> ciphers, layouts |-> layouts])
  BY Answers DEF ParseCapability
<1>3. ParseCapability(p).value = [max_version |-> p[1], ciphers |-> ciphers, layouts |-> layouts]
  BY <1>2, Answers
<1>4. nc \in 0 .. 255
  BY <1>1, <1>2 DEF Byte
<1> HIDE DEF nc
<1>5. nl \in 0 .. 255 /\ nl \in Byte
  <2>1. 3 + nc \in 1 .. n
    BY <1>1, <1>2, <1>4
  <2>2. QED
    BY <1>1, <2>1 DEF Byte
<1>6. n = 3 + nc + 2 * nl
  BY <1>2
<1> HIDE DEF n, nl
<1>7. /\ ciphers \in Seq(Byte) /\ Len(ciphers) = nc
      /\ \A i \in 1 .. nc : ciphers[i] = p[2 + i]
  <2> DEFINE k == 2 + nc
  <2>1. 3 \in Nat \ {0} /\ k \in Nat /\ k <= Len(p) /\ 3 <= k + 1
    BY <1>4, <1>5, <1>6 DEF n
  <2>2. ciphers = SubSeq(p, 3, k)
    OBVIOUS
  <2> HIDE DEF k, ciphers
  <2>3. /\ ciphers \in Seq(Byte)
        /\ Len(ciphers) = k - 3 + 1
        /\ \A i \in 1 .. k - 3 + 1 : ciphers[i] = p[3 + i - 1]
    BY <2>1, <2>2, Slice
  <2>4. k - 3 + 1 = nc /\ \A i \in 1 .. nc : 3 + i - 1 = 2 + i
    BY <1>4 DEF k
  <2>5. QED
    BY <2>3, <2>4
<1>8. ASSUME NEW i \in 1 .. nl
      PROVE  /\ layouts[i] \in Seq(Byte) /\ Len(layouts[i]) = 2
             /\ layouts[i][1] = p[2 + nc + 2 * i] /\ layouts[i][2] = p[3 + nc + 2 * i]
  <2>1. 2 + nc + 2 * i \in 1 .. n /\ 3 + nc + 2 * i \in 1 .. n
    BY <1>4, <1>5, <1>6
  <2>2. layouts[i] = <<p[2 + nc + 2 * i], p[3 + nc + 2 * i]>>
    OBVIOUS
  <2> DEFINE x == p[2 + nc + 2 * i]
             y == p[3 + nc + 2 * i]
  <2>3. x \in Byte /\ y \in Byte
    BY <1>1, <2>1
  <2> HIDE DEF x, y
  <2>4. <<x, y>> \in Seq(Byte) /\ Len(<<x, y>>) = 2 /\ <<x, y>>[1] = x /\ <<x, y>>[2] = y
    BY <2>3
  <2>5. QED
    BY <2>2, <2>4 DEF x, y
<1>9. layouts \in [1 .. nl -> Seq(Byte)] /\ Len(layouts) = nl
  <2>1. layouts \in [1 .. nl -> Seq(Byte)]
    BY <1>8
  <2> HIDE DEF layouts
  <2>2. layouts \in Seq(Seq(Byte)) /\ Len(layouts) = nl
    BY <1>5, <2>1
  <2>3. QED
    BY <2>1, <2>2
<1> HIDE DEF ciphers, layouts
<1> DEFINE f == FlattenSeq(layouts)
<1>10. /\ f \in Seq(Byte) /\ Len(f) = 2 * nl
       /\ \A i \in 1 .. nl, j \in 1 .. 2 : f[2 * (i - 1) + j] = layouts[i][j]
  <2>1. Flat(f, layouts, nl, 2)
    <3> HIDE DEF nl
    <3>1. nl \in Nat /\ (\A i \in 1 .. nl : Len(layouts[i]) = 2) /\ 2 \in {2, 4}
      BY <1>5, <1>8
    <3>2. QED
      BY <1>9, <3>1, FlattenedEvenly, Zenon
  <2> HIDE DEF f
  <2>2. QED
    BY <2>1 DEF Flat
<1>11. \A x \in 1 .. 2 * nl : f[x] = p[3 + nc + x]
  <2> SUFFICES ASSUME NEW x \in 1 .. 2 * nl PROVE f[x] = p[3 + nc + x]
    OBVIOUS
  <2> DEFINE i == (x + 1) \div 2
  <2>1. i \in 1 .. nl /\ (x = 2 * (i - 1) + 1 \/ x = 2 * (i - 1) + 2)
    BY <1>5
  <2> HIDE DEF i, f
  <2>2. CASE x = 2 * (i - 1) + 1
    <3>1. 2 + nc + 2 * i = 3 + nc + x
      BY <1>4, <2>1, <2>2
    <3>2. f[2 * (i - 1) + 1] = p[2 + nc + 2 * i]
      BY <1>8, <1>10, <2>1
    <3>3. QED
      BY <2>2, <3>1, <3>2
  <2>3. CASE x = 2 * (i - 1) + 2
    <3>1. 3 + nc + 2 * i = 3 + nc + x
      BY <1>4, <2>1, <2>3
    <3>2. f[2 * (i - 1) + 2] = p[3 + nc + 2 * i]
      BY <1>8, <1>10, <2>1
    <3>3. QED
      BY <2>3, <3>1, <3>2
  <2>4. QED
    BY <2>1, <2>2, <2>3
<1> HIDE DEF f
<1> DEFINE a == <<p[1], nc>>
           b == a \o ciphers
           c == b \o <<nl>>
           e == c \o f
<1>12. a \in Seq(Byte) /\ Len(a) = 2 /\ a[1] = p[1] /\ a[2] = p[2]
  <2>1. p[1] \in Byte /\ nc \in Byte
    BY <1>1, <1>4, <1>5, <1>6 DEF Byte
  <2>2. QED
    BY <2>1 DEF nc
<1> HIDE DEF a
<1>13. b \in Seq(Byte) /\ Len(b) = 2 + nc /\ \A x \in 1 .. 2 + nc : b[x] = p[x]
  <2>0. /\ b \in Seq(Byte) /\ Len(b) = Len(a) + Len(ciphers)
        /\ \A x \in 1 .. Len(a) + Len(ciphers) :
               b[x] = IF x <= Len(a) THEN a[x] ELSE ciphers[x - Len(a)]
    BY <1>7, <1>12, ConcatProperties
  <2> HIDE DEF b
  <2>1. /\ b \in Seq(Byte) /\ Len(b) = 2 + nc
        /\ \A x \in 1 .. Len(a) + Len(ciphers) :
               b[x] = IF x <= Len(a) THEN a[x] ELSE ciphers[x - Len(a)]
    BY <1>7, <1>12, <2>0
  <2>2. ASSUME NEW x \in 1 .. 2 + nc PROVE b[x] = p[x]
    <3>1. b[x] = IF x <= 2 THEN a[x] ELSE ciphers[x - 2]
      BY <1>7, <1>12, <2>1
    <3>2. CASE x <= 2
      <4>1. x = 1 \/ x = 2
        BY <1>4, <3>2
      <4>2. QED
        BY <1>12, <3>1, <4>1
    <3>3. CASE ~(x <= 2)
      <4>1. x - 2 \in 1 .. nc /\ 2 + (x - 2) = x
        BY <1>4, <3>3
      <4>2. QED
        BY <1>7, <3>1, <3>3, <4>1
    <3>4. QED
      BY <3>2, <3>3
  <2>3. QED
    BY <2>1, <2>2
<1> HIDE DEF b
<1>14. c \in Seq(Byte) /\ Len(c) = 3 + nc /\ \A x \in 1 .. 3 + nc : c[x] = p[x]
  <2>1. <<nl>> \in Seq(Byte) /\ Len(<<nl>>) = 1 /\ <<nl>>[1] = p[3 + nc]
    BY <1>5 DEF nl
  <2>2. /\ c \in Seq(Byte) /\ Len(c) = Len(b) + 1
        /\ \A x \in 1 .. Len(b) + 1 : c[x] = IF x <= Len(b) THEN b[x] ELSE <<nl>>[x - Len(b)]
    BY <1>13, <2>1, ConcatProperties
  <2> HIDE DEF c
  <2>3. ASSUME NEW x \in 1 .. 3 + nc PROVE c[x] = p[x]
    <3>1. x \in 1 .. Len(b) + 1
      BY <1>4, <1>13
    <3>2. CASE x <= 2 + nc
      <4>1. x \in 1 .. 2 + nc
        BY <1>4, <3>2
      <4>2. QED
        BY <1>13, <2>2, <3>1, <3>2, <4>1
    <3>3. CASE ~(x <= 2 + nc)
      <4>1. x = 3 + nc /\ x - (2 + nc) = 1
        BY <1>4, <3>3
      <4>2. QED
        BY <1>13, <2>1, <2>2, <3>1, <3>3, <4>1
    <3>4. QED
      BY <3>2, <3>3
  <2>4. Len(c) = 3 + nc
    BY <1>4, <1>13, <2>2
  <2>5. QED
    BY <2>2, <2>3, <2>4
<1> HIDE DEF c
<1>15. e = p
  <2>1. /\ e \in Seq(Byte) /\ Len(e) = Len(c) + Len(f)
        /\ \A x \in 1 .. Len(c) + Len(f) : e[x] = IF x <= Len(c) THEN c[x] ELSE f[x - Len(c)]
    BY <1>10, <1>14, ConcatProperties
  <2> HIDE DEF e
  <2>2. Len(e) = Len(p)
    BY <1>6, <1>10, <1>14, <2>1 DEF n
  <2>3. ASSUME NEW x \in 1 .. Len(e) PROVE e[x] = p[x]
    <3>1. x \in 1 .. 3 + nc + 2 * nl /\ x \in 1 .. Len(c) + Len(f)
      BY <1>10, <1>14, <2>1
    <3>2. CASE x <= 3 + nc
      <4>1. x \in 1 .. 3 + nc
        BY <1>4, <3>1, <3>2
      <4>2. QED
        BY <1>14, <2>1, <3>1, <3>2, <4>1
    <3>3. CASE ~(x <= 3 + nc)
      <4>1. x - (3 + nc) \in 1 .. 2 * nl /\ 3 + nc + (x - (3 + nc)) = x
        BY <1>4, <1>5, <3>1, <3>3
      <4>2. QED
        BY <1>11, <1>14, <2>1, <3>1, <3>3, <4>1
    <3>4. QED
      BY <3>2, <3>3
  <2>4. QED
    BY <2>1, <2>2, <2>3, SeqEqual
<1>16. EncodeCapability([max_version |-> p[1], ciphers |-> ciphers, layouts |-> layouts]) = Ok(e)
  <2>1. ~(nc > 255) /\ ~(nl > 255)
    BY <1>4, <1>5
  <2>2. QED
    BY <1>7, <1>9, <2>1 DEF EncodeCapability, a, b, c, e, f
<1>17. QED
  BY <1>3, <1>15, <1>16

\* The same for a capability list.
LEMMA FuzzInvCapability == FuzzInv => CapabilityExact
<1> SUFFICES ASSUME FuzzInv, Fuzzed(CAPABILITY_ADVERTISE),
                    IsOk(ParseControl(CAPABILITY_ADVERTISE, PayloadOf(input.buf)))
             PROVE  EncodeControl(ParseControl(CAPABILITY_ADVERTISE, PayloadOf(input.buf)).value)
                        = Ok(PayloadOf(input.buf))
  BY DEF CapabilityExact
<1> DEFINE p == PayloadOf(input.buf)
           parsed == ParseCapability(p)
<1>1. p \in Seq(Byte)
  <2>1. PICK t \in FuzzTypes, q \in Payloads : input.buf = Authentic(FuzzDatagram(t), q)
    BY DEF FuzzInv, Fuzzed
  <2>2. t \in MsgTypes /\ q \in Seq(Byte)
    BY HarnessAssumption, PayloadsAreOctets
  <2>3. QED
    BY <2>1, <2>2, FuzzBuffer
<1> HIDE DEF p
<1>2. ParseControl(CAPABILITY_ADVERTISE, p)
        = IF IsOk(parsed) THEN Ok([mt |-> CAPABILITY_ADVERTISE, body |-> parsed.value]) ELSE parsed
  BY DEF ParseControl, CAPABILITY_ADVERTISE, EPOCH_ANNOUNCE, TIME_ANNOUNCE, HEARTBEAT
<1>3. IsOk(parsed)
  BY <1>2 DEF p
<1>4. EncodeCapability(parsed.value) = Ok(p)
  BY <1>1, <1>3, CapabilityReencoded
<1> HIDE DEF parsed
<1>5. ParseControl(CAPABILITY_ADVERTISE, p).value = [mt |-> CAPABILITY_ADVERTISE, body |-> parsed.value]
  BY <1>2, <1>3, Answers
<1>6. EncodeControl([mt |-> CAPABILITY_ADVERTISE, body |-> parsed.value]) = Ok(p)
  BY <1>4 DEF EncodeControl, CAPABILITY_ADVERTISE, EPOCH_ANNOUNCE, TIME_ANNOUNCE, HEARTBEAT
<1>7. QED
  BY <1>5, <1>6 DEF p

\* A capability list that parses has no other encoding than the one parsed,
\* whatever its counts.
THEOREM CapabilityHasOneEncoding == Spec => []CapabilityExact
BY FuzzInvHolds, FuzzInvCapability, PTL

-----------------------------------------------------------------------------
\* The two octets of a number.
High(x) == (x \div 256) % 256

Low(x) == x % 256

\* The number two octets stand for, with and without a sign.
Signed(v) == IF v > 32767 THEN v - 65536 ELSE v

\* to_be_bytes gives two octets, the high one first.
LEMMA OctetsOf ==
    ASSUME NEW x \in Int
    PROVE  High(x) \in Byte /\ Low(x) \in Byte /\ U16Bytes(x) = <<High(x), Low(x)>>
<1>1. x \div 256 \in Int /\ x % 256 \in 0 .. 255
  OBVIOUS
<1>2. \A q \in Int : q % 256 \in 0 .. 255
  OBVIOUS
<1>3. QED
  BY <1>1, <1>2 DEF High, Low, U16Bytes, Byte

\* Any sixteen bits with a sign come back, and so do those without.
LEMMA OctetsBack ==
    ASSUME NEW x \in Int, NEW v \in {0, 1}, 0 <= x + 65536 * v, x + 65536 * v < 65536
    PROVE  256 * High(x) + Low(x) = x + 65536 * v
<1> DEFINE q == x \div 256
           l == x % 256
<1>1. q \in Int /\ l \in 0 .. 255 /\ x = 256 * q + l
  OBVIOUS
<1> HIDE DEF q, l
<1>2. 0 <= q + 256 * v /\ q + 256 * v < 256
  BY <1>1
<1>3. q % 256 = q + 256 * v
  <2> DEFINE e == q + 256 * v
  <2>1. e \in 0 .. 255 /\ q = 256 * (-v) + e /\ -v \in {0, -1}
    BY <1>1, <1>2
  <2> HIDE DEF e
  <2>2. q % 256 = e
    BY <2>1
  <2>3. QED
    BY <2>2 DEF e
<1>4. High(x) = q + 256 * v /\ Low(x) = l
  BY <1>3 DEF High, Low, q, l
<1>5. QED
  BY <1>1, <1>4

\* from_be_bytes reads an u16 back from its octets, and an i16 too.
LEMMA OctetsRead ==
    ASSUME NEW x \in Int
    PROVE  /\ 0 <= x /\ x < 65536 => 256 * High(x) + Low(x) = x
           /\ -32768 <= x /\ x < 32768 => Signed(256 * High(x) + Low(x)) = x
<1>1. ASSUME 0 <= x, x < 65536 PROVE 256 * High(x) + Low(x) = x
  <2>1. 0 <= x + 65536 * 0 /\ x + 65536 * 0 < 65536 /\ x + 65536 * 0 = x
    BY <1>1
  <2>2. QED
    BY <2>1, OctetsBack
<1>2. ASSUME -32768 <= x, x < 32768 PROVE Signed(256 * High(x) + Low(x)) = x
  <2>1. CASE x < 0
    <3>1. 0 <= x + 65536 * 1 /\ x + 65536 * 1 < 65536
      BY <1>2, <2>1
    <3>2. 256 * High(x) + Low(x) = x + 65536 * 1
      BY <3>1, OctetsBack
    <3> DEFINE v == 256 * High(x) + Low(x)
    <3>3. v = x + 65536
      BY <3>2
    <3> HIDE DEF v
    <3>4. Signed(v) = x
      BY <1>2, <2>1, <3>3 DEF Signed
    <3>5. QED
      BY <3>4 DEF v
  <2>2. CASE x >= 0
    <3>1. 256 * High(x) + Low(x) = x
      BY <1>1, <1>2, <2>2
    <3>2. Signed(x) = x
      BY <1>2, <2>2 DEF Signed
    <3>3. QED
      BY <3>1, <3>2
  <2>3. QED
    BY <2>1, <2>2
<1>3. QED
  BY <1>1, <1>2

\* And the octets of the number two octets stand for are these octets.
LEMMA OctetsAgain ==
    ASSUME NEW a \in Byte, NEW b \in Byte
    PROVE  LET v == 256 * a + b
           IN  /\ v \in Nat /\ v < 65536
               /\ High(v) = a /\ Low(v) = b
               /\ Signed(v) \in Int
               /\ High(Signed(v)) = a /\ Low(Signed(v)) = b
<1> DEFINE v == 256 * a + b
           m == v - 65536
<1>1. a \in 0 .. 255 /\ b \in 0 .. 255
  BY DEF Byte
<1>2. v \in Nat /\ v < 65536
  BY <1>1
<1>3. ASSUME NEW w \in Int, NEW e \in {0, 256}, w = 256 * (a - e) + b
      PROVE  High(w) = a /\ Low(w) = b
  <2>1. w \div 256 = a - e /\ w % 256 = b
    BY <1>1, <1>3
  <2>2. (a - e) % 256 = a
    BY <1>1
  <2>3. QED
    BY <2>1, <2>2 DEF High, Low
<1>4. High(v) = a /\ Low(v) = b
  <2>1. v = 256 * (a - 0) + b /\ v \in Int
    BY <1>1
  <2>2. QED
    BY <1>3, <2>1
<1>5. High(m) = a /\ Low(m) = b
  <2>1. m = 256 * (a - 256) + b /\ m \in Int
    BY <1>1
  <2>2. QED
    BY <1>3, <2>1
<1>6. Signed(v) = v \/ Signed(v) = m
  BY DEF Signed
<1>7. v \in Int /\ m \in Int
  BY <1>1
<1> HIDE DEF m
<1>8. QED
  BY <1>2, <1>4, <1>5, <1>6, <1>7

-----------------------------------------------------------------------------
\* Readings of a batch: n + 1 pairs of numbers.
Batch(r, n) ==
    /\ Len(r) = n + 1
    /\ \A k \in 1 .. n + 1 : r[k][1] \in Int /\ r[k][2] \in Int

\* The octets of a batch: three, and four for every reading but the first.
LaidOut(p, scale, r, n) ==
    /\ p \in Seq(Byte) /\ Len(p) = 3 + 4 * n
    /\ p[1] = scale /\ p[2] = High(r[1][2]) /\ p[3] = Low(r[1][2])
    /\ \A k \in 1 .. n :
          /\ p[4 * k]     = High(r[k + 1][1] - r[k][1])
          /\ p[4 * k + 1] = Low(r[k + 1][1] - r[k][1])
          /\ p[4 * k + 2] = High(r[k + 1][2])
          /\ p[4 * k + 3] = Low(r[k + 1][2])

\* series writes a batch in this form.
LEMMA SeriesLaidOut ==
    ASSUME NEW n \in Nat, NEW r, Batch(r, n), NEW scale \in Byte
    PROVE  LaidOut(SeriesPayload(scale, r), scale, r, n)
<1> DEFINE entries == [k \in 1 .. n |-> U16Bytes(r[k + 1][1] - r[k][1]) \o U16Bytes(r[k + 1][2])]
           m == r[1][2]
           a == <<scale>>
           b == U16Bytes(m)
           h == a \o b
           f == FlattenSeq(entries)
           p == h \o f
<1>1. SeriesPayload(scale, r) = p
  <2>1. Len(r) - 1 = n
    BY DEF Batch
  <2>2. QED
    BY <2>1 DEF SeriesPayload
<1>2. ASSUME NEW k \in 1 .. n
      PROVE  /\ entries[k] \in Seq(Byte) /\ Len(entries[k]) = 4
             /\ entries[k][1] = High(r[k + 1][1] - r[k][1])
             /\ entries[k][2] = Low(r[k + 1][1] - r[k][1])
             /\ entries[k][3] = High(r[k + 1][2])
             /\ entries[k][4] = Low(r[k + 1][2])
  <2> DEFINE x == r[k + 1][1] - r[k][1]
             y == r[k + 1][2]
             u == <<High(x), Low(x)>>
             v == <<High(y), Low(y)>>
  <2>1. x \in Int /\ y \in Int
    <3>1. k \in 1 .. n + 1 /\ k + 1 \in 1 .. n + 1
      OBVIOUS
    <3>2. QED
      BY <3>1 DEF Batch
  <2>2. entries[k] = U16Bytes(x) \o U16Bytes(y)
    OBVIOUS
  <2> HIDE DEF x, y
  <2>3. U16Bytes(x) = u /\ U16Bytes(y) = v
    BY <2>1, OctetsOf
  <2>4. /\ High(x) \in Byte /\ Low(x) \in Byte /\ High(y) \in Byte /\ Low(y) \in Byte
    BY <2>1, OctetsOf
  <2>5. /\ u \in Seq(Byte) /\ Len(u) = 2 /\ u[1] = High(x) /\ u[2] = Low(x)
        /\ v \in Seq(Byte) /\ Len(v) = 2 /\ v[1] = High(y) /\ v[2] = Low(y)
    BY <2>4
  <2> HIDE DEF u, v
  <2>6. /\ u \o v \in Seq(Byte) /\ Len(u \o v) = Len(u) + Len(v)
        /\ \A i \in 1 .. Len(u) + Len(v) : (u \o v)[i] = IF i <= Len(u) THEN u[i] ELSE v[i - Len(u)]
    BY <2>5, ConcatProperties
  <2>7. /\ u \o v \in Seq(Byte) /\ Len(u \o v) = 4
        /\ (u \o v)[1] = High(x) /\ (u \o v)[2] = Low(x)
        /\ (u \o v)[3] = High(y) /\ (u \o v)[4] = Low(y)
    BY <2>5, <2>6
  <2>8. entries[k] = u \o v
    BY <2>2, <2>3
  <2>9. QED
    BY <2>7, <2>8 DEF x, y
<1>3. entries \in [1 .. n -> Seq(Byte)] /\ \A k \in 1 .. n : Len(entries[k]) = 4
  BY <1>2
<1>4. /\ h \in Seq(Byte) /\ Len(h) = 3 /\ h[1] = scale /\ h[2] = High(m) /\ h[3] = Low(m)
  <2>1. m \in Int
    <3>1. 1 \in 1 .. n + 1
      OBVIOUS
    <3>2. QED
      BY <3>1 DEF Batch
  <2> HIDE DEF m
  <2>2. High(m) \in Byte /\ Low(m) \in Byte /\ b = <<High(m), Low(m)>>
    BY <2>1, OctetsOf
  <2>3. b \in Seq(Byte) /\ Len(b) = 2 /\ b[1] = High(m) /\ b[2] = Low(m)
    BY <2>2
  <2>4. a \in Seq(Byte) /\ Len(a) = 1 /\ a[1] = scale
    OBVIOUS
  <2> HIDE DEF a, b
  <2>5. /\ h \in Seq(Byte) /\ Len(h) = Len(a) + Len(b)
        /\ \A i \in 1 .. Len(a) + Len(b) : h[i] = IF i <= Len(a) THEN a[i] ELSE b[i - Len(a)]
    BY <2>3, <2>4, ConcatProperties
  <2> HIDE DEF h
  <2>6. QED
    BY <2>3, <2>4, <2>5
<1> HIDE DEF entries
<1>5. /\ f \in Seq(Byte) /\ Len(f) = 4 * n
      /\ \A i \in 1 .. n, j \in 1 .. 4 : f[4 * (i - 1) + j] = entries[i][j]
  <2>1. Flat(f, entries, n, 4)
    <3>1. 4 \in {2, 4}
      OBVIOUS
    <3>2. QED
      BY <1>3, <3>1, FlattenedEvenly, Zenon
  <2> HIDE DEF f
  <2>2. QED
    BY <2>1 DEF Flat
<1> HIDE DEF h, f
<1>6. /\ p \in Seq(Byte) /\ Len(p) = 3 + 4 * n
      /\ \A i \in 1 .. 3 + 4 * n : p[i] = IF i <= 3 THEN h[i] ELSE f[i - 3]
  <2>1. /\ p \in Seq(Byte) /\ Len(p) = Len(h) + Len(f)
        /\ \A i \in 1 .. Len(h) + Len(f) : p[i] = IF i <= Len(h) THEN h[i] ELSE f[i - Len(h)]
    BY <1>4, <1>5, ConcatProperties
  <2> HIDE DEF p
  <2>2. QED
    BY <1>4, <1>5, <2>1
<1> HIDE DEF p
<1>7. p[1] = scale /\ p[2] = High(m) /\ p[3] = Low(m)
  <2>1. 1 \in 1 .. 3 + 4 * n /\ 2 \in 1 .. 3 + 4 * n /\ 3 \in 1 .. 3 + 4 * n
    OBVIOUS
  <2>2. QED
    BY <1>4, <1>6, <2>1
<1>8. ASSUME NEW k \in 1 .. n
      PROVE  /\ p[4 * k]     = entries[k][1]
             /\ p[4 * k + 1] = entries[k][2]
             /\ p[4 * k + 2] = entries[k][3]
             /\ p[4 * k + 3] = entries[k][4]
  <2>1. ASSUME NEW j \in 1 .. 4 PROVE p[3 + (4 * (k - 1) + j)] = entries[k][j]
    <3> DEFINE x == 4 * (k - 1) + j
    <3>1. 3 + x \in 1 .. 3 + 4 * n /\ ~(3 + x <= 3) /\ (3 + x) - 3 = x
      OBVIOUS
    <3>2. f[x] = entries[k][j]
      BY <1>5
    <3> HIDE DEF x
    <3>3. p[3 + x] = entries[k][j]
      BY <1>6, <3>1, <3>2
    <3>4. QED
      BY <3>3 DEF x
  <2>2. /\ 3 + (4 * (k - 1) + 1) = 4 * k
        /\ 3 + (4 * (k - 1) + 2) = 4 * k + 1
        /\ 3 + (4 * (k - 1) + 3) = 4 * k + 2
        /\ 3 + (4 * (k - 1) + 4) = 4 * k + 3
    OBVIOUS
  <2>3. /\ p[3 + (4 * (k - 1) + 1)] = entries[k][1]
        /\ p[3 + (4 * (k - 1) + 2)] = entries[k][2]
        /\ p[3 + (4 * (k - 1) + 3)] = entries[k][3]
        /\ p[3 + (4 * (k - 1) + 4)] = entries[k][4]
    BY <2>1
  <2>4. QED
    BY <2>2, <2>3
<1>9. LaidOut(p, scale, r, n)
  BY <1>2, <1>6, <1>7, <1>8 DEF LaidOut
<1>10. QED
  BY <1>1, <1>9

-----------------------------------------------------------------------------
\* What Instants says of the k-th reading, given what it says of the one before.
Summed(p, anchor, u, k) == IF k = 0 THEN anchor ELSE u[k - 1] + U16(p, EntryAt(k))

\* The recursive function Instants chooses exists, whatever the payload.
LEMMA SumSolved ==
    ASSUME NEW n \in Nat, NEW p, NEW anchor
    PROVE  \E u : u = [k \in 0 .. n |-> Summed(p, anchor, u, k)]
<1> DEFINE T == {k \in 0 .. n : ~\E u : \A i \in 0 .. k : u[i] = Summed(p, anchor, u, i)}
<1>1. ASSUME NEW k \in T, \A j \in T : k <= j PROVE FALSE
  <2>1. k \in 0 .. n /\ ~\E u : \A i \in 0 .. k : u[i] = Summed(p, anchor, u, i)
    OBVIOUS
  <2>2. \E w : \A i \in 0 .. k - 1 : w[i] = Summed(p, anchor, w, i)
    <3>1. CASE k = 0
      <4>1. \A i \in 0 .. k - 1 : FALSE
        BY <3>1
      <4>2. QED
        BY <4>1
    <3>2. CASE k # 0
      <4>1. k - 1 \in 0 .. n /\ ~(k <= k - 1)
        BY <2>1, <3>2
      <4>2. k - 1 \notin T
        BY <1>1, <4>1
      <4>3. QED
        BY <4>1, <4>2
    <3>3. QED
      BY <3>1, <3>2
  <2>3. PICK w : \A i \in 0 .. k - 1 : w[i] = Summed(p, anchor, w, i)
    BY <2>2
  <2> DEFINE v == [i \in 0 .. n |-> IF i = k THEN Summed(p, anchor, w, k) ELSE w[i]]
  <2>4. ASSUME NEW i \in 0 .. k PROVE v[i] = Summed(p, anchor, v, i)
    <3>1. i \in 0 .. n /\ (i = k \/ i \in 0 .. k - 1) /\ (i # 0 => i - 1 \in 0 .. n /\ i - 1 # k)
      BY <2>1
    <3>2. v[i] = Summed(p, anchor, w, i)
      BY <2>3, <3>1
    <3>3. i # 0 => v[i - 1] = w[i - 1]
      BY <3>1
    <3> HIDE DEF v
    <3>4. QED
      BY <3>2, <3>3 DEF Summed
  <2> HIDE DEF v
  <2>5. QED
    BY <2>1, <2>4
<1>2. T = {}
  <2>1. T \in SUBSET Nat
    OBVIOUS
  <2> HIDE DEF T
  <2>2. QED
    BY <1>1, <2>1, LeastNumber
<1>3. PICK w : \A i \in 0 .. n : w[i] = Summed(p, anchor, w, i)
  <2>1. n \notin T /\ n \in 0 .. n
    BY <1>2
  <2>2. QED
    BY <2>1
<1> DEFINE v == [i \in 0 .. n |-> w[i]]
<1>4. ASSUME NEW i \in 0 .. n PROVE v[i] = Summed(p, anchor, v, i)
  <2>1. i # 0 => i - 1 \in 0 .. n
    OBVIOUS
  <2>2. QED
    BY <1>3, <2>1 DEF Summed
<1>5. v = [i \in 0 .. n |-> v[i]]
  OBVIOUS
<1> HIDE DEF v
<1>6. v = [k \in 0 .. n |-> Summed(p, anchor, v, k)]
  BY <1>4, <1>5
<1>7. QED
  BY <1>6

\* The instants of validate_series: the anchor, and each delta added to the last.
LEMMA InstantsAre ==
    ASSUME NEW n \in Nat, NEW p, (Len(p) - NUMBER_PAYLOAD_LEN) \div SERIES_ENTRY_LEN = n, NEW anchor
    PROVE  /\ Instants(p, anchor)[0] = anchor
           /\ \A k \in 1 .. n :
                Instants(p, anchor)[k] = Instants(p, anchor)[k - 1] + U16(p, EntryAt(k))
<1> DEFINE u == CHOOSE u : u = [k \in 0 .. n |-> Summed(p, anchor, u, k)]
<1>1. u = [k \in 0 .. n |-> Summed(p, anchor, u, k)]
  BY SumSolved
<1>2. Instants(p, anchor) = u
  BY DEF Instants, Summed
<1> HIDE DEF u
<1>3. \A k \in 0 .. n : u[k] = Summed(p, anchor, u, k)
  BY <1>1
<1>4. 0 \in 0 .. n /\ \A k \in 1 .. n : k \in 0 .. n /\ k # 0
  OBVIOUS
<1>5. QED
  BY <1>2, <1>3, <1>4 DEF Summed

\* The octets at which an entry and its mantissa start.
LEMMA EntryIs == \A k \in Int : EntryAt(k) = 4 * k /\ EntryAt(k) + 2 = 4 * k + 2
BY DEF EntryAt, NUMBER_PAYLOAD_LEN, SERIES_ENTRY_LEN

\* The length of a payload with whole entries.
LEMMA Entries4 ==
    ASSUME NEW l \in Nat
    PROVE  /\ ~(l <= NUMBER_PAYLOAD_LEN) /\ (l - NUMBER_PAYLOAD_LEN) % SERIES_ENTRY_LEN = 0 =>
                \E n \in Nat \ {0} : l = 3 + 4 * n
           /\ \A n \in Nat \ {0} : l = 3 + 4 * n =>
                /\ ~(l <= NUMBER_PAYLOAD_LEN)
                /\ (l - NUMBER_PAYLOAD_LEN) % SERIES_ENTRY_LEN = 0
                /\ (l - NUMBER_PAYLOAD_LEN) \div SERIES_ENTRY_LEN = n
<1>1. ASSUME ~(l <= 3), (l - 3) % 4 = 0 PROVE \E n \in Nat \ {0} : l = 3 + 4 * n
  <2> DEFINE n == (l - 3) \div 4
  <2>1. n \in Nat \ {0} /\ l = 3 + 4 * n
    BY <1>1
  <2>2. QED
    BY <2>1
<1>2. ASSUME NEW n \in Nat \ {0}, l = 3 + 4 * n
      PROVE  ~(l <= 3) /\ (l - 3) % 4 = 0 /\ (l - 3) \div 4 = n
  BY <1>2
<1>3. QED
  BY <1>1, <1>2 DEF NUMBER_PAYLOAD_LEN, SERIES_ENTRY_LEN

\* What validate_series accepts, and what it answers.
ReadingsAt(p, at, n) ==
    [k \in 1 .. n + 1 |-> <<at[k - 1], I16(p, IF k = 1 THEN 2 ELSE EntryAt(k - 1) + 2)>>]

Acceptable(p, at, n) ==
    /\ ScaleIsValid(p[1])
    /\ \A k \in 1 .. n : U16(p, EntryAt(k)) # 0
    /\ ~(at[n] >= TICKS_PER_EPOCH)

\* validate_series accepts the payloads that are Acceptable, and reads ReadingsAt.
LEMMA ValidateIs ==
    ASSUME NEW p \in Seq(Byte), NEW n \in Nat \ {0}, Len(p) = 3 + 4 * n, NEW anchor
    PROVE  /\ IsOk(ValidateSeries(p, anchor)) <=> Acceptable(p, Instants(p, anchor), n)
           /\ IsOk(ValidateSeries(p, anchor)) =>
                ValidateSeries(p, anchor)
                    = Ok([scale |-> p[1], readings |-> ReadingsAt(p, Instants(p, anchor), n)])
<1> DEFINE at == Instants(p, anchor)
           readings == ReadingsAt(p, at, n)
           bad == \/ ~ScaleIsValid(p[1])
                  \/ \E k \in 1 .. n : U16(p, EntryAt(k)) = 0
                  \/ at[n] >= TICKS_PER_EPOCH
<1>1. /\ ~(Len(p) <= NUMBER_PAYLOAD_LEN)
      /\ (Len(p) - NUMBER_PAYLOAD_LEN) % SERIES_ENTRY_LEN = 0
      /\ (Len(p) - NUMBER_PAYLOAD_LEN) \div SERIES_ENTRY_LEN = n
  <2>1. Len(p) \in Nat
    BY LenProperties
  <2>2. QED
    BY <2>1, Entries4
<1>2. ValidateSeries(p, anchor)
        = IF bad THEN Err("BadSeries") ELSE Ok([scale |-> p[1], readings |-> readings])
  BY <1>1 DEF ValidateSeries, ReadingsAt
<1>3. bad <=> ~Acceptable(p, at, n)
  BY DEF Acceptable
<1> HIDE DEF at, readings, bad
<1>4. /\ IsOk(ValidateSeries(p, anchor)) <=> ~bad
      /\ ~bad => ValidateSeries(p, anchor) = Ok([scale |-> p[1], readings |-> readings])
  BY <1>2, Answers
<1>5. QED
  BY <1>3, <1>4 DEF at, readings

\* The largest u16, as a bound.
LEMMA U16Max == U16_MAX \in Int /\ \A x \in Int : x <= U16_MAX <=> x < 65536
BY DEF U16_MAX

\* The batches series accepts, and what it builds of them.
Sendable(scale, r, n) ==
    /\ ScaleIsValid(scale)
    /\ ~(r[1][1] >= TICKS_PER_EPOCH)
    /\ \A k \in 2 .. n + 1 : r[k][1] - r[k - 1][1] \in 1 .. U16_MAX
    /\ ~(r[n + 1][1] >= TICKS_PER_EPOCH)

SeriesBuilt(built, scale, r, n) ==
    /\ IsOk(built) <=> Sendable(scale, r, n)
    /\ IsOk(built) => /\ built.value.raw = SeriesPayload(scale, r)
                      /\ built.value.datagram_offset = r[1][1]

\* series accepts the batches that are Sendable.
LEMMA SeriesIs ==
    ASSUME NEW cipher, NEW sender_id, NEW epoch_id, NEW scale,
           NEW n \in Nat \ {0}, NEW r, Batch(r, n)
    PROVE  SeriesBuilt(Series(cipher, sender_id, epoch_id, scale, r), scale, r, n)
<1> DEFINE built == Series(cipher, sender_id, epoch_id, scale, r)
           apart == \A k \in 2 .. n + 1 : r[k][1] - r[k - 1][1] \in 1 .. U16_MAX
           d == [Base(SERIES, cipher, sender_id, epoch_id, r[1][1])
                    EXCEPT !.raw = SeriesPayload(scale, r)]
<1>1. Len(r) = n + 1 /\ ~(Len(r) < 2)
  BY DEF Batch
<1>2. Last(r) = r[n + 1]
  BY <1>1 DEF Last
<1>3. apart <=> ~\E k \in 2 .. Len(r) : r[k][1] - r[k - 1][1] \notin 1 .. U16_MAX
  BY <1>1
<1>4. d.raw = SeriesPayload(scale, r) /\ d.datagram_offset = r[1][1]
  BY DEF Base
<1> HIDE DEF apart
<1>5. built = IF ~ScaleIsValid(scale) THEN Err("BadSeries")
              ELSE IF r[1][1] >= TICKS_PER_EPOCH THEN Err("Framing")
              ELSE IF ~apart \/ r[n + 1][1] >= TICKS_PER_EPOCH THEN Err("BadSeries")
              ELSE Ok(d)
  BY <1>1, <1>2, <1>3 DEF Series
<1> HIDE DEF built, d
<1>6. /\ IsOk(built) <=> /\ ScaleIsValid(scale) /\ ~(r[1][1] >= TICKS_PER_EPOCH)
                         /\ apart /\ ~(r[n + 1][1] >= TICKS_PER_EPOCH)
      /\ IsOk(built) => built = Ok(d)
  BY <1>5, Answers
<1>7. IsOk(built) => built.value = d
  BY <1>6, Answers
<1>8. IsOk(built) <=> Sendable(scale, r, n)
  BY <1>6 DEF Sendable, apart
<1>9. SeriesBuilt(built, scale, r, n)
  BY <1>4, <1>7, <1>8 DEF SeriesBuilt
<1>10. QED
  BY <1>9 DEF built

\* The number at an octet of a payload.
LEMMA NumberAtOctet ==
    ASSUME NEW p \in Seq(Byte), NEW i \in Nat \ {0}, i + 1 <= Len(p)
    PROVE  /\ U16(p, i) \in Nat /\ U16(p, i) < 65536 /\ I16(p, i) \in Int
           /\ High(U16(p, i)) = p[i] /\ Low(U16(p, i)) = p[i + 1]
           /\ High(I16(p, i)) = p[i] /\ Low(I16(p, i)) = p[i + 1]
<1>1. p[i] \in Byte /\ p[i + 1] \in Byte
  <2>1. Len(p) \in Nat /\ \A j \in 1 .. Len(p) : p[j] \in Byte
    BY LenProperties, ElementOfSeq
  <2>2. i \in 1 .. Len(p) /\ i + 1 \in 1 .. Len(p)
    BY <2>1
  <2>3. QED
    BY <2>1, <2>2
<1>2. U16(p, i) = 256 * p[i] + p[i + 1] /\ I16(p, i) = Signed(U16(p, i))
  BY DEF U16, I16, Signed
<1> DEFINE a == p[i]
           b == p[i + 1]
           v == 256 * a + b
<1>3. a \in Byte /\ b \in Byte /\ U16(p, i) = v /\ I16(p, i) = Signed(v)
  BY <1>1, <1>2
<1> HIDE DEF a, b
<1>4. /\ v \in Nat /\ v < 65536
      /\ High(v) = a /\ Low(v) = b
      /\ Signed(v) \in Int
      /\ High(Signed(v)) = a /\ Low(Signed(v)) = b
  BY <1>3, OctetsAgain
<1> HIDE DEF v
<1>5. /\ U16(p, i) \in Nat /\ U16(p, i) < 65536 /\ I16(p, i) \in Int
      /\ High(U16(p, i)) = a /\ Low(U16(p, i)) = b
      /\ High(I16(p, i)) = a /\ Low(I16(p, i)) = b
  BY <1>3, <1>4
<1>6. QED
  BY <1>5 DEF a, b

\* Every payload validate_series accepts is the one series builds from the
\* readings it gives.
THEOREM SeriesReencoded ==
    ASSUME NEW p \in Seq(Byte), NEW anchor \in 0 .. TICKS_PER_EPOCH - 1,
           IsOk(ValidateSeries(p, anchor)), NEW cipher, NEW sender_id, NEW epoch_id
    PROVE  LET read == ValidateSeries(p, anchor).value
               again == Series(cipher, sender_id, epoch_id, read.scale, read.readings)
           IN  IsOk(again) /\ again.value.raw = p
<1>1. Len(p) \in Nat /\ \A i \in 1 .. Len(p) : p[i] \in Byte
  BY LenProperties, ElementOfSeq
<1>2. PICK n \in Nat \ {0} : Len(p) = 3 + 4 * n
  <2>1. ~(Len(p) <= NUMBER_PAYLOAD_LEN) /\ (Len(p) - NUMBER_PAYLOAD_LEN) % SERIES_ENTRY_LEN = 0
    BY Answers DEF ValidateSeries
  <2>2. QED
    BY <1>1, <2>1, Entries4
<1> DEFINE at == Instants(p, anchor)
           r == ReadingsAt(p, at, n)
<1>3. /\ ScaleIsValid(p[1])
      /\ \A k \in 1 .. n : U16(p, EntryAt(k)) # 0
      /\ ~(at[n] >= TICKS_PER_EPOCH)
      /\ ValidateSeries(p, anchor) = Ok([scale |-> p[1], readings |-> r])
  <2>1. /\ Acceptable(p, at, n)
        /\ ValidateSeries(p, anchor) = Ok([scale |-> p[1], readings |-> r])
    BY <1>2, ValidateIs
  <2> HIDE DEF at, r
  <2>2. QED
    BY <2>1 DEF Acceptable
<1>4. ValidateSeries(p, anchor).value = [scale |-> p[1], readings |-> r]
  BY <1>3, Answers
<1>5. at[0] = anchor /\ \A k \in 1 .. n : at[k] = at[k - 1] + U16(p, 4 * k)
  <2>1. (Len(p) - NUMBER_PAYLOAD_LEN) \div SERIES_ENTRY_LEN = n
    BY <1>1, <1>2, Entries4
  <2>2. \A k \in 1 .. n : EntryAt(k) = 4 * k
    BY EntryIs
  <2>3. QED
    BY <2>1, <2>2, InstantsAre
<1> HIDE DEF at
<1>6. \A k \in 1 .. n : U16(p, 4 * k) \in Nat
  BY <1>2, NumberAtOctet
<1>7. \A k \in 0 .. n : at[k] \in Int
  <2> DEFINE T == {k \in 0 .. n : at[k] \notin Int}
  <2>1. ASSUME NEW k \in T, \A j \in T : k <= j PROVE FALSE
    <3>1. anchor \in Int
      BY TicksNat
    <3>2. k # 0
      BY <1>5, <3>1
    <3>3. k - 1 \in 0 .. n /\ ~(k <= k - 1) /\ k \in 1 .. n
      BY <3>2
    <3>4. at[k - 1] \in Int
      BY <2>1, <3>3
    <3>5. QED
      BY <1>5, <1>6, <3>3, <3>4
  <2>2. T \in SUBSET Nat
    OBVIOUS
  <2> HIDE DEF T
  <2>3. T = {}
    BY <2>1, <2>2, LeastNumber
  <2>4. QED
    BY <2>3 DEF T
<1>8. /\ \A k \in 1 .. n + 1 : r[k][1] = at[k - 1]
      /\ r[1][2] = I16(p, 2)
      /\ \A k \in 1 .. n : r[k + 1][2] = I16(p, 4 * k + 2)
  <2>1. 1 \in 1 .. n + 1 /\ \A k \in 1 .. n : k + 1 \in 1 .. n + 1 /\ k + 1 # 1 /\ (k + 1) - 1 = k
    OBVIOUS
  <2>2. \A k \in 1 .. n : EntryAt(k) + 2 = 4 * k + 2
    BY EntryIs
  <2>3. QED
    BY <2>1, <2>2 DEF ReadingsAt
<1>9. Len(r) = n + 1
  <2> DEFINE R == {r[k] : k \in 1 .. n + 1}
             l == n + 1
  <2>1. r \in [1 .. l -> R] /\ l \in Nat
    BY DEF ReadingsAt
  <2> HIDE DEF r, R, l
  <2>2. DOMAIN r = 1 .. l /\ r \in Seq(R)
    BY <2>1
  <2>3. Len(r) = l
    BY <2>1, <2>2, LenProperties
  <2>4. QED
    BY <2>3 DEF l
<1> HIDE DEF r
<1>10. I16(p, 2) \in Int /\ High(I16(p, 2)) = p[2] /\ Low(I16(p, 2)) = p[3]
  <2>1. 2 + 1 = 3
    OBVIOUS
  <2>2. 2 \in Nat \ {0} /\ 2 + 1 <= Len(p)
    BY <1>2
  <2>3. QED
    BY <2>1, <2>2, NumberAtOctet
<1>11. ASSUME NEW k \in 1 .. n
       PROVE  /\ I16(p, 4 * k + 2) \in Int
              /\ High(I16(p, 4 * k + 2)) = p[4 * k + 2] /\ Low(I16(p, 4 * k + 2)) = p[4 * k + 3]
              /\ r[k + 1][1] - r[k][1] = U16(p, 4 * k)
              /\ High(U16(p, 4 * k)) = p[4 * k] /\ Low(U16(p, 4 * k)) = p[4 * k + 1]
  <2> DEFINE i == 4 * k
             j == 4 * k + 2
  <2>1. i \in Nat \ {0} /\ i + 1 <= Len(p) /\ j \in Nat \ {0} /\ j + 1 <= Len(p) /\ j + 1 = 4 * k + 3
    BY <1>2
  <2>2. r[k + 1][1] - r[k][1] = U16(p, i)
    <3>1. k + 1 \in 1 .. n + 1 /\ k \in 1 .. n + 1 /\ (k + 1) - 1 = k /\ k - 1 \in 0 .. n
      OBVIOUS
    <3>2. r[k + 1][1] = at[k] /\ r[k][1] = at[k - 1]
      BY <1>8, <3>1
    <3>3. at[k] = at[k - 1] + U16(p, i) /\ at[k - 1] \in Int /\ U16(p, i) \in Nat
      BY <1>5, <1>6, <1>7, <3>1
    <3>4. QED
      BY <3>2, <3>3
  <2> HIDE DEF i, j
  <2>3. /\ High(U16(p, i)) = p[i] /\ Low(U16(p, i)) = p[i + 1]
        /\ I16(p, j) \in Int /\ High(I16(p, j)) = p[j] /\ Low(I16(p, j)) = p[j + 1]
    BY <2>1, NumberAtOctet
  <2>4. p[j + 1] = p[4 * k + 3]
    BY <2>1
  <2>5. QED
    BY <2>2, <2>3, <2>4 DEF i, j
<1>12. Batch(r, n)
  <2>1. ASSUME NEW k \in 1 .. n + 1 PROVE r[k][1] \in Int /\ r[k][2] \in Int
    <3>1. k - 1 \in 0 .. n /\ (k = 1 \/ (k - 1 \in 1 .. n /\ (k - 1) + 1 = k))
      OBVIOUS
    <3>2. r[k][1] \in Int
      BY <1>7, <1>8, <3>1
    <3>3. CASE k = 1
      BY <1>8, <1>10, <3>2, <3>3
    <3>4. CASE k - 1 \in 1 .. n /\ (k - 1) + 1 = k
      <4> DEFINE i == k - 1
      <4>1. i \in 1 .. n /\ i + 1 = k
        BY <3>4
      <4> HIDE DEF i
      <4>2. r[i + 1][2] \in Int
        BY <1>8, <1>11, <4>1
      <4>3. QED
        BY <3>2, <4>1, <4>2
    <3>5. QED
      BY <3>1, <3>3, <3>4
  <2>2. QED
    BY <1>9, <2>1 DEF Batch
<1>13. SeriesPayload(p[1], r) = p
  <2> DEFINE s == p[1]
             q == SeriesPayload(s, r)
  <2>1. s \in Byte
    BY <1>1, <1>2
  <2> HIDE DEF s
  <2>0. LaidOut(q, s, r, n)
    BY <1>12, <2>1, SeriesLaidOut
  <2> HIDE DEF q
  <2>2. /\ q \in Seq(Byte) /\ Len(q) = 3 + 4 * n
        /\ q[1] = s /\ q[2] = High(r[1][2]) /\ q[3] = Low(r[1][2])
        /\ \A k \in 1 .. n :
              /\ q[4 * k]     = High(r[k + 1][1] - r[k][1])
              /\ q[4 * k + 1] = Low(r[k + 1][1] - r[k][1])
              /\ q[4 * k + 2] = High(r[k + 1][2])
              /\ q[4 * k + 3] = Low(r[k + 1][2])
    BY <2>0 DEF LaidOut
  <2>3. q[1] = p[1] /\ q[2] = p[2] /\ q[3] = p[3]
    BY <1>8, <1>10, <2>2 DEF s
  <2>4. \A k \in 1 .. n :
            /\ q[4 * k] = p[4 * k] /\ q[4 * k + 1] = p[4 * k + 1]
            /\ q[4 * k + 2] = p[4 * k + 2] /\ q[4 * k + 3] = p[4 * k + 3]
    BY <1>8, <1>11, <2>2
  <2>5. ASSUME NEW x \in 1 .. Len(q) PROVE q[x] = p[x]
    <3> DEFINE k == x \div 4
    <3>1. CASE x <= 3
      <4>1. x = 1 \/ x = 2 \/ x = 3
        BY <2>2, <3>1
      <4>2. QED
        BY <2>3, <4>1
    <3>2. CASE ~(x <= 3)
      <4>1. /\ k \in 1 .. n
            /\ x = 4 * k \/ x = 4 * k + 1 \/ x = 4 * k + 2 \/ x = 4 * k + 3
        BY <2>2, <3>2
      <4> HIDE DEF k
      <4>2. QED
        BY <2>4, <4>1
    <3>3. QED
      BY <3>1, <3>2
  <2>6. q = p
    BY <1>2, <2>2, <2>5, SeqEqual
  <2>7. QED
    BY <2>6 DEF q, s
<1>14. \A k \in 2 .. n + 1 : r[k][1] - r[k - 1][1] \in 1 .. U16_MAX
  <2> SUFFICES ASSUME NEW k \in 2 .. n + 1 PROVE r[k][1] - r[k - 1][1] \in 1 .. U16_MAX
    OBVIOUS
  <2> DEFINE i == k - 1
             delta == U16(p, 4 * i)
  <2>1. i \in 1 .. n /\ i + 1 = k /\ k - 1 = i
    OBVIOUS
  <2> HIDE DEF i
  <2>2. delta \in Nat /\ delta < 65536
    BY <1>2, <2>1, NumberAtOctet
  <2>3. delta # 0
    <3>1. EntryAt(i) = 4 * i
      BY <2>1, EntryIs
    <3>2. QED
      BY <1>3, <2>1, <3>1
  <2>4. r[k][1] - r[k - 1][1] = delta
    BY <1>11, <2>1
  <2> HIDE DEF delta
  <2>5. delta <= U16_MAX
    BY <2>2, U16Max
  <2>6. delta \in 1 .. U16_MAX
    BY <2>2, <2>3, <2>5, U16Max
  <2>7. QED
    BY <2>4, <2>6
<1>15. ~(r[1][1] >= TICKS_PER_EPOCH) /\ ~(r[n + 1][1] >= TICKS_PER_EPOCH)
  <2>1. 1 \in 1 .. n + 1 /\ 1 - 1 = 0 /\ n + 1 \in 1 .. n + 1 /\ (n + 1) - 1 = n
    OBVIOUS
  <2>2. r[1][1] = at[0] /\ r[n + 1][1] = at[n]
    BY <1>8, <2>1
  <2>3. ~(anchor >= TICKS_PER_EPOCH)
    BY TicksNat
  <2>4. QED
    BY <1>3, <1>5, <2>2, <2>3
<1>16. LET again == Series(cipher, sender_id, epoch_id, p[1], r)
       IN  IsOk(again) /\ again.value.raw = SeriesPayload(p[1], r)
  <2> DEFINE s == p[1]
             again == Series(cipher, sender_id, epoch_id, s, r)
  <2>1. ScaleIsValid(s)
    BY <1>3
  <2> HIDE DEF s
  <2>2. SeriesBuilt(again, s, r, n)
    BY <1>12, SeriesIs
  <2> HIDE DEF again
  <2>5. Sendable(s, r, n)
    BY <1>14, <1>15, <2>1 DEF Sendable
  <2>3. IsOk(again) /\ again.value.raw = SeriesPayload(s, r)
    BY <2>2, <2>5 DEF SeriesBuilt
  <2>4. QED
    BY <2>3 DEF again, s
<1>17. QED
  BY <1>4, <1>13, <1>16

\* Mantissas of 16 bits with a sign, and what validate_series should read of a batch.
MantissasFit(r, n) == \A k \in 1 .. n + 1 : -32768 <= r[k][2] /\ r[k][2] < 32768

Read(r, n) == [k \in 1 .. n + 1 |-> <<r[k][1], r[k][2]>>]

\* validate_series undoes series: it gives back scale and readings of every batch
\* that series accepts, of any length and with any mantissas of 16 bits.
THEOREM SeriesDecoded ==
    ASSUME NEW n \in Nat \ {0}, NEW r, Batch(r, n), NEW scale \in Byte, Sendable(scale, r, n),
           MantissasFit(r, n)
    PROVE  LET p == SeriesPayload(scale, r)
           IN  ValidateSeries(p, r[1][1]) = Ok([scale |-> p[1], readings |-> Read(r, n)])
<1> DEFINE p == SeriesPayload(scale, r)
           anchor == r[1][1]
           at == Instants(p, anchor)
<1>1. LaidOut(p, scale, r, n)
  <2>1. n \in Nat
    OBVIOUS
  <2>2. QED
    BY <2>1, SeriesLaidOut, Zenon
<1> HIDE DEF p
<1>0. \A k \in 1 .. n : p[4 * k + 2] = High(r[k + 1][2]) /\ p[4 * k + 3] = Low(r[k + 1][2])
  BY <1>1 DEF LaidOut
<1>2. \A k \in 1 .. n + 1 : r[k][1] \in Int /\ r[k][2] \in Int
  BY DEF Batch
<1>3. ASSUME NEW k \in 1 .. n
      PROVE  U16(p, 4 * k) = r[k + 1][1] - r[k][1] /\ U16(p, 4 * k) # 0
  <2> DEFINE d == r[k + 1][1] - r[k][1]
             i == 4 * k
  <2>1. k + 1 \in 2 .. n + 1 /\ (k + 1) - 1 = k /\ k + 1 \in 1 .. n + 1 /\ k \in 1 .. n + 1
    OBVIOUS
  <2>2. \A j \in 2 .. n + 1 : r[j][1] - r[j - 1][1] \in 1 .. U16_MAX
    BY DEF Sendable
  <2>3. d \in 1 .. U16_MAX
    <3>1. r[k + 1][1] - r[(k + 1) - 1][1] \in 1 .. U16_MAX
      BY <2>1, <2>2
    <3>2. QED
      BY <2>1, <3>1
  <2>4. p[i] = High(d) /\ p[i + 1] = Low(d)
    BY <1>1 DEF LaidOut
  <2> HIDE DEF d, i
  <2>5. d \in Int /\ 0 <= d /\ d < 65536 /\ d # 0
    BY <2>3, U16Max
  <2>6. 256 * High(d) + Low(d) = d
    BY <2>5, OctetsRead
  <2>7. U16(p, i) = d
    BY <2>4, <2>6 DEF U16
  <2>8. QED
    BY <2>5, <2>7 DEF d, i
<1>4. ASSUME NEW i \in Nat, NEW m \in Int, -32768 <= m, m < 32768,
             p[i] = High(m), p[i + 1] = Low(m)
      PROVE  I16(p, i) = m
  <2>1. I16(p, i) = Signed(256 * High(m) + Low(m))
    BY <1>4 DEF I16, U16, Signed
  <2>2. QED
    BY <1>4, <2>1, OctetsRead
<1>5. at[0] = anchor /\ \A k \in 1 .. n : at[k] = at[k - 1] + U16(p, 4 * k)
  <2>1. Len(p) \in Nat /\ Len(p) = 3 + 4 * n
    BY <1>1 DEF LaidOut
  <2>2. (Len(p) - NUMBER_PAYLOAD_LEN) \div SERIES_ENTRY_LEN = n
    BY <2>1, Entries4
  <2>3. \A k \in 1 .. n : EntryAt(k) = 4 * k
    BY EntryIs
  <2>4. QED
    BY <2>2, <2>3, InstantsAre
<1> HIDE DEF at
<1>6. \A k \in 0 .. n : at[k] = r[k + 1][1]
  <2> DEFINE T == {k \in 0 .. n : at[k] # r[k + 1][1]}
  <2>1. ASSUME NEW k \in T, \A j \in T : k <= j PROVE FALSE
    <3>1. k # 0
      BY <1>5
    <3>2. k - 1 \in 0 .. n /\ ~(k <= k - 1) /\ k \in 1 .. n /\ (k - 1) + 1 = k
      BY <3>1
    <3>3. at[k - 1] = r[k][1]
      BY <2>1, <3>2
    <3>4. at[k] = at[k - 1] + (r[k + 1][1] - r[k][1])
      BY <1>3, <1>5, <3>2
    <3>5. r[k][1] \in Int /\ r[k + 1][1] \in Int
      BY <1>2, <3>2
    <3>6. at[k] = r[k + 1][1]
      BY <3>3, <3>4, <3>5
    <3>7. QED
      BY <3>6
  <2>2. T \in SUBSET Nat
    OBVIOUS
  <2> HIDE DEF T
  <2>3. T = {}
    BY <2>1, <2>2, LeastNumber
  <2>4. QED
    BY <2>3 DEF T
<1>7. Acceptable(p, at, n)
  <2>1. p[1] = scale
    BY <1>1 DEF LaidOut
  <2>2. \A k \in 1 .. n : EntryAt(k) = 4 * k
    BY EntryIs
  <2>3. n \in 0 .. n
    OBVIOUS
  <2>4. at[n] = r[n + 1][1]
    BY <1>6, <2>3
  <2>5. \A k \in 1 .. n : U16(p, EntryAt(k)) # 0
    BY <1>3, <2>2
  <2>6. QED
    BY <2>1, <2>4, <2>5 DEF Sendable, Acceptable
<1>8. ASSUME NEW k \in 1 .. n + 1
      PROVE  <<at[k - 1], I16(p, IF k = 1 THEN 2 ELSE EntryAt(k - 1) + 2)>>
                = <<r[k][1], r[k][2]>>
  <2>1. k - 1 \in 0 .. n /\ (k - 1) + 1 = k
    OBVIOUS
  <2>2. at[k - 1] = r[k][1]
    BY <1>6, <2>1
  <2>3. r[k][2] \in Int /\ -32768 <= r[k][2] /\ r[k][2] < 32768
    BY <1>2 DEF MantissasFit
  <2>4. I16(p, IF k = 1 THEN 2 ELSE EntryAt(k - 1) + 2) = r[k][2]
    <3>1. CASE k = 1
      <4> DEFINE m == r[1][2]
      <4>1. p[2] = High(m) /\ p[2 + 1] = Low(m)
        <5>1. 2 + 1 = 3
          OBVIOUS
        <5>2. QED
          BY <1>1, <5>1 DEF LaidOut
      <4>2. m \in Int /\ -32768 <= m /\ m < 32768
        BY <2>3, <3>1
      <4> HIDE DEF m
      <4>3. I16(p, 2) = m
        BY <1>4, <4>1, <4>2
      <4>4. QED
        BY <3>1, <4>3 DEF m
    <3>2. CASE k # 1
      <4> DEFINE m == r[k][2]
                 j == k - 1
                 i == 4 * j + 2
      <4>1. j \in 1 .. n /\ j + 1 = k /\ i \in Nat /\ i + 1 = 4 * j + 3
        BY <3>2
      <4>2. m \in Int /\ -32768 <= m /\ m < 32768
        BY <2>3
      <4>3. EntryAt(k - 1) + 2 = i
        BY EntryIs
      <4>4. p[i] = High(m) /\ p[i + 1] = Low(m)
        <5>1. p[4 * j + 2] = High(r[j + 1][2]) /\ p[4 * j + 3] = Low(r[j + 1][2])
          BY <1>0, <4>1
        <5> HIDE DEF j
        <5>2. QED
          BY <4>1, <5>1
      <4> HIDE DEF m, i, j
      <4>5. I16(p, i) = m
        BY <1>4, <4>1, <4>2, <4>4
      <4>6. QED
        BY <3>2, <4>3, <4>5 DEF m
    <3>3. QED
      BY <3>1, <3>2
  <2>5. QED
    BY <2>2, <2>4
<1>9. ReadingsAt(p, at, n) = Read(r, n)
  BY <1>8 DEF ReadingsAt, Read
<1>10. /\ IsOk(ValidateSeries(p, anchor)) <=> Acceptable(p, at, n)
       /\ IsOk(ValidateSeries(p, anchor)) =>
            ValidateSeries(p, anchor) = Ok([scale |-> p[1], readings |-> ReadingsAt(p, at, n)])
  <2>1. p \in Seq(Byte) /\ Len(p) = 3 + 4 * n
    BY <1>1 DEF LaidOut
  <2> HIDE DEF anchor
  <2>2. QED
    BY <2>1, ValidateIs DEF at
<1>11. QED
  BY <1>7, <1>9, <1>10 DEF p

\* What the harness remembers of a batch that a caller sent.
SeriesInv ==
    input.kind = "built" /\ input.readings # <<>> =>
        \E cipher \in Ciphers, scale \in {1, 7, 8}, rs \in ReadingSeqs :
            /\ IsOk(Series(cipher, id, epoch, scale, rs))
            /\ input.datagram = Series(cipher, id, epoch, scale, rs).value
            /\ input.readings = rs

\* SeriesInv is an invariant: only BuildSeries makes an input with readings.
LEMMA SeriesInvHolds == Spec => []SeriesInv
<1>1. Init => SeriesInv
  BY DEF Init, SeriesInv, NoInput
<1>2. FuzzInv /\ SeriesInv /\ [Next]_vars => SeriesInv'
  <2> SUFFICES ASSUME FuzzInv, SeriesInv, [Next]_vars PROVE SeriesInv'
    OBVIOUS
  <2>1. CASE ReadVector
    <3>1. line' = line + 1 /\ line < Len(VectorFile) /\ input' = VectorFile[line + 1]
      BY <2>1 DEF ReadVector
    <3>2. line + 1 \in 1 .. Len(VectorFile)
      BY <3>1, HarnessAssumption DEF FuzzInv
    <3>3. input'.kind # "built"
      BY <3>1, <3>2, HarnessAssumption
    <3>4. QED
      BY <3>3 DEF SeriesInv
  <2>2. ASSUME NEW mt \in FuzzTypes, NEW p \in Payloads, FuzzDecode(mt, p)
        PROVE  SeriesInv'
    <3>1. input'.kind = "fuzz"
      BY <2>2 DEF FuzzDecode
    <3>2. QED
      BY <3>1 DEF SeriesInv
  <2>3. ASSUME NEW built, Build(built, <<>>)
        PROVE  SeriesInv'
    <3>1. input'.readings = <<>>
      BY <2>3 DEF Build
    <3>2. QED
      BY <3>1 DEF SeriesInv
  <2>4. ASSUME NEW cipher \in Ciphers, NEW scale \in {1, 7, 8}, NEW rs \in ReadingSeqs,
               Build(Series(cipher, id, epoch, scale, rs), rs)
        PROVE  SeriesInv'
    <3>1. /\ IsOk(Series(cipher, id, epoch, scale, rs))
          /\ input' = [kind |-> "built", datagram |-> Series(cipher, id, epoch, scale, rs).value,
                       readings |-> rs]
      BY <2>4 DEF Build
    <3>2. input'.datagram = Series(cipher, id, epoch, scale, rs).value /\ input'.readings = rs
      BY <3>1
    <3>3. QED
      BY <3>1, <3>2 DEF SeriesInv
  <2>5. CASE UNCHANGED vars
    BY <2>5 DEF SeriesInv, vars
  <2>6. QED
    BY <2>1, <2>2, <2>3, <2>4, <2>5 DEF Next, BuildData, BuildNumber, BuildSeries, BuildControl
<1>3. QED
  BY <1>1, <1>2, FuzzInvHolds, PTL DEF Spec

\* The batches of the harness, and those of more than one reading.
LEMMA ReadingsIn ==
    ASSUME NEW rs \in ReadingSeqs
    PROVE  \E m \in 1 .. 3 : \E at \in [1 .. m -> SeriesInstantSet] :
              rs = [k \in 1 .. m |-> <<at[k], 7 - 8 * k>>] /\ Len(rs) = m
<1>1. PICK m \in 1 .. 3 : \E at \in [1 .. m -> SeriesInstantSet] :
          rs = [k \in DOMAIN at |-> <<at[k], 7 - 8 * k>>]
  BY DEF ReadingSeqs
<1>2. PICK at \in [1 .. m -> SeriesInstantSet] : rs = [k \in DOMAIN at |-> <<at[k], 7 - 8 * k>>]
  BY <1>1
<1>3. rs = [k \in 1 .. m |-> <<at[k], 7 - 8 * k>>]
  BY <1>2
<1> DEFINE R == {rs[k] : k \in 1 .. m}
<1>4. rs \in [1 .. m -> R] /\ m \in Nat
  BY <1>3
<1> HIDE DEF R
<1>5. DOMAIN rs = 1 .. m /\ rs \in Seq(R)
  BY <1>4
<1>6. Len(rs) = m
  BY <1>4, <1>5, LenProperties
<1>7. QED
  BY <1>3, <1>6

\* A batch of more than one reading is n + 1 pairs of numbers, mantissas of 16 bits.
LEMMA ReadingSeqsAre ==
    ASSUME NEW rs \in ReadingSeqs, ~(Len(rs) < 2)
    PROVE  \E n \in Nat \ {0} :
              /\ Batch(rs, n)
              /\ MantissasFit(rs, n)
              /\ rs = Read(rs, n)
<1>1. SeriesInstantSet \subseteq Nat
  BY HarnessAssumption
<1>0. PICK m \in 1 .. 3 : \E at \in [1 .. m -> SeriesInstantSet] :
          rs = [k \in 1 .. m |-> <<at[k], 7 - 8 * k>>] /\ Len(rs) = m
  BY ReadingsIn
<1>2. PICK at \in [1 .. m -> SeriesInstantSet] :
          rs = [k \in 1 .. m |-> <<at[k], 7 - 8 * k>>] /\ Len(rs) = m
  BY <1>0
<1>3. rs = [k \in 1 .. m |-> <<at[k], 7 - 8 * k>>]
  BY <1>2
<1>4. Len(rs) = m /\ m >= 2
  BY <1>2
<1> DEFINE n == m - 1
<1>5. n \in Nat \ {0} /\ n + 1 = m
  BY <1>4
<1> HIDE DEF n
<1>6. ASSUME NEW k \in 1 .. m
      PROVE  /\ rs[k] = <<at[k], 7 - 8 * k>> /\ rs[k][1] = at[k] /\ rs[k][2] = 7 - 8 * k
             /\ rs[k][1] \in Int /\ rs[k][2] \in Int
             /\ -32768 <= rs[k][2] /\ rs[k][2] < 32768
  <2>1. rs[k] = <<at[k], 7 - 8 * k>>
    BY <1>3
  <2>2. at[k] \in Int
    <3>1. k \in 1 .. m /\ at \in [1 .. m -> SeriesInstantSet]
      OBVIOUS
    <3>2. at[k] \in SeriesInstantSet
      BY <3>1
    <3>3. at[k] \in Nat
      BY <1>1, <3>2, Zenon
    <3>4. QED
      BY <3>3, SMT
  <2>3. k \in Int /\ 1 <= k /\ k <= 3
    OBVIOUS
  <2> DEFINE x == 7 - 8 * k
  <2>4. x \in Int /\ -32768 <= x /\ x < 32768
    BY <2>3
  <2> HIDE DEF x
  <2>5. QED
    BY <2>1, <2>2, <2>4 DEF x
<1>7. Batch(rs, n)
  BY <1>4, <1>5, <1>6 DEF Batch
<1>8. rs = Read(rs, n)
  <2>1. \A k \in 1 .. m : <<at[k], 7 - 8 * k>> = <<rs[k][1], rs[k][2]>>
    BY <1>6
  <2>2. QED
    BY <1>3, <1>5, <2>1 DEF Read
<1>9. MantissasFit(rs, n)
  BY <1>5, <1>6 DEF MantissasFit
<1>10. QED
  BY <1>5, <1>7, <1>8, <1>9

\* What the harness remembers settles both directions: built and read, read and built.
LEMMA InvSeries == FuzzInv /\ SeriesInv => SeriesInstantsAgree
<1> SUFFICES ASSUME FuzzInv, SeriesInv PROVE SeriesInstantsAgree
  OBVIOUS
<1>1. ASSUME input.kind = "built", input.readings # <<>>
      PROVE  ValidateSeries(input.datagram.raw, input.datagram.datagram_offset)
                = Ok([scale |-> input.datagram.raw[1], readings |-> input.readings])
  <2>1. PICK cipher \in Ciphers, scale \in {1, 7, 8}, rs \in ReadingSeqs :
            /\ IsOk(Series(cipher, id, epoch, scale, rs))
            /\ input.datagram = Series(cipher, id, epoch, scale, rs).value
            /\ input.readings = rs
    BY <1>1 DEF SeriesInv
  <2> DEFINE built == Series(cipher, id, epoch, scale, rs)
  <2>2. ~(Len(rs) < 2)
    BY <2>1, Answers DEF Series
  <2>4. PICK n \in Nat \ {0} :
              /\ Batch(rs, n)
              /\ MantissasFit(rs, n)
              /\ rs = Read(rs, n)
    BY <2>2, ReadingSeqsAre
  <2>5. SeriesBuilt(built, scale, rs, n)
    BY <2>4, SeriesIs
  <2> HIDE DEF built
  <2>6. /\ Sendable(scale, rs, n)
        /\ built.value.raw = SeriesPayload(scale, rs)
        /\ built.value.datagram_offset = rs[1][1]
    BY <2>1, <2>5 DEF SeriesBuilt, built
  <2>7. scale \in Byte
    BY DEF Byte
  <2> DEFINE p == SeriesPayload(scale, rs)
  <2>8. ValidateSeries(p, rs[1][1]) = Ok([scale |-> p[1], readings |-> Read(rs, n)])
    BY <2>4, <2>6, <2>7, SeriesDecoded
  <2> HIDE DEF p
  <2>9. ValidateSeries(p, rs[1][1]) = Ok([scale |-> p[1], readings |-> rs])
    BY <2>4, <2>8
  <2>10. input.datagram.raw = p /\ input.datagram.datagram_offset = rs[1][1]
    BY <2>1, <2>6 DEF p, built
  <2>11. QED
    BY <2>1, <2>9, <2>10
<1>2. ASSUME Fuzzed(SERIES),
             NEW read \in {ValidateSeries(PayloadOf(input.buf), FuzzOffset)}, IsOk(read),
             NEW again \in {Series(HmacSha256T64, id, epoch, read.value.scale, read.value.readings)}
      PROVE  IsOk(again) /\ again.value.raw = PayloadOf(input.buf)
  <2> DEFINE p == PayloadOf(input.buf)
  <2>1. p \in Seq(Byte)
    <3>1. PICK t \in FuzzTypes, q \in Payloads : input.buf = Authentic(FuzzDatagram(t), q)
      BY <1>2 DEF FuzzInv, Fuzzed
    <3>2. t \in MsgTypes /\ q \in Seq(Byte)
      BY HarnessAssumption, PayloadsAreOctets
    <3>3. QED
      BY <3>1, <3>2, FuzzBuffer
  <2> HIDE DEF p
  <2>2. read = ValidateSeries(p, FuzzOffset)
    BY DEF p
  <2>3. FuzzOffset \in 0 .. TICKS_PER_EPOCH - 1
    BY HarnessAssumption
  <2>4. IsOk(again) /\ again.value.raw = p
    BY <1>2, <2>1, <2>2, <2>3, SeriesReencoded
  <2>5. QED
    BY <2>4 DEF p
<1>3. QED
  BY <1>1, <1>2 DEF SeriesInstantsAgree

\* Sender and receiver agree on the instants of a SERIES, up to the last tick of
\* the epoch, whatever the batch and whatever the octets.
THEOREM SenderAndReceiverAgree == Spec => []SeriesInstantsAgree
BY FuzzInvHolds, SeriesInvHolds, InvSeries, PTL

-----------------------------------------------------------------------------
\* What Partition says of the first n records, given what it says of n - 1.
Parted(peer, rs, held, u, n) ==
    IF n = 0 THEN <<>>
    ELSE IF Held(peer, rs[n]) <=> held THEN Append(u[n - 1], rs[n])
    ELSE u[n - 1]

Parting(peer, rs, held, u) == [n \in 0 .. Len(rs) |-> Parted(peer, rs, held, u, n)]

\* The recursive function Partition chooses exists.
LEMMA PartingSolved ==
    ASSUME NEW peer, NEW rs, NEW held, Len(rs) \in Nat
    PROVE  \E u : u = Parting(peer, rs, held, u)
<1> DEFINE n == Len(rs)
           T == {k \in 0 .. n : ~\E u : \A i \in 0 .. k : u[i] = Parted(peer, rs, held, u, i)}
<1> HIDE DEF n
<1>0. n \in Nat
  BY DEF n
<1>1. ASSUME NEW k \in T, \A j \in T : k <= j PROVE FALSE
  <2>1. k \in 0 .. n /\ ~\E u : \A i \in 0 .. k : u[i] = Parted(peer, rs, held, u, i)
    OBVIOUS
  <2>2. \E w : \A i \in 0 .. k - 1 : w[i] = Parted(peer, rs, held, w, i)
    <3>1. CASE k = 0
      <4>1. \A i \in 0 .. k - 1 : FALSE
        BY <3>1
      <4>2. QED
        BY <4>1
    <3>2. CASE k # 0
      <4>1. k - 1 \in 0 .. n /\ ~(k <= k - 1)
        BY <1>0, <2>1, <3>2
      <4>2. k - 1 \notin T
        BY <1>1, <4>1
      <4>3. QED
        BY <4>1, <4>2
    <3>3. QED
      BY <3>1, <3>2
  <2>3. PICK w : \A i \in 0 .. k - 1 : w[i] = Parted(peer, rs, held, w, i)
    BY <2>2
  <2> DEFINE v == [i \in 0 .. n |-> IF i = k THEN Parted(peer, rs, held, w, k) ELSE w[i]]
  <2>4. ASSUME NEW i \in 0 .. k PROVE v[i] = Parted(peer, rs, held, v, i)
    <3>1. i \in 0 .. n /\ (i = k \/ i \in 0 .. k - 1) /\ (i # 0 => i - 1 \in 0 .. n /\ i - 1 # k)
      BY <1>0, <2>1
    <3>2. v[i] = Parted(peer, rs, held, w, i)
      BY <2>3, <3>1
    <3>3. i # 0 => v[i - 1] = w[i - 1]
      BY <3>1
    <3> HIDE DEF v
    <3>4. QED
      BY <3>2, <3>3, Zenon DEF Parted
  <2> HIDE DEF v
  <2>5. QED
    BY <2>1, <2>4
<1>2. T = {}
  <2>1. T \in SUBSET Nat
    BY <1>0
  <2> HIDE DEF T
  <2>2. QED
    BY <1>1, <2>1, LeastNumber
<1>3. PICK w : \A i \in 0 .. n : w[i] = Parted(peer, rs, held, w, i)
  <2>1. n \in 0 .. n
    BY <1>0
  <2>2. n \notin T
    BY <1>2
  <2>3. QED
    BY <2>1, <2>2
<1> DEFINE v == [i \in 0 .. n |-> w[i]]
<1>4. ASSUME NEW i \in 0 .. n PROVE v[i] = Parted(peer, rs, held, v, i)
  <2>1. i # 0 => i - 1 \in 0 .. n
    BY <1>0
  <2>2. v[i] = Parted(peer, rs, held, w, i)
    BY <1>3
  <2>3. i # 0 => v[i - 1] = w[i - 1]
    BY <2>1
  <2> HIDE DEF v
  <2>4. QED
    BY <2>2, <2>3, Zenon DEF Parted
<1>5. v = [i \in 0 .. n |-> v[i]]
  OBVIOUS
<1> HIDE DEF v
<1>6. v = Parting(peer, rs, held, v)
  BY <1>4, <1>5 DEF Parting, n
<1>7. QED
  BY <1>6

\* Partition, by the solution of its loop.
LEMMA PartitionIs ==
    ASSUME NEW peer, NEW rs, NEW held, Len(rs) \in Nat
    PROVE  \E u : /\ Partition(peer, rs, held) = u[Len(rs)]
                  /\ \A n \in 0 .. Len(rs) : u[n] = Parted(peer, rs, held, u, n)
<1> DEFINE u == CHOOSE u : u = Parting(peer, rs, held, u)
<1>1. u = Parting(peer, rs, held, u)
  BY PartingSolved
<1>2. Partition(peer, rs, held) = u[Len(rs)]
  BY DEF Partition, Parting, Parted
<1> HIDE DEF u
<1>3. \A n \in 0 .. Len(rs) : u[n] = Parted(peer, rs, held, u, n)
  BY <1>1 DEF Parting
<1>4. QED
  BY <1>2, <1>3

\* A receiver that holds every layout keeps all records, and skips none.
LEMMA AllKept ==
    ASSUME NEW peer, NEW R, NEW rs \in Seq(R), \A k \in 1 .. Len(rs) : Held(peer, rs[k])
    PROVE  Partition(peer, rs, TRUE) = rs /\ Partition(peer, rs, FALSE) = <<>>
<1> DEFINE n == Len(rs)
<1>1. n \in Nat
  BY LenProperties
<1>2. PICK u : /\ Partition(peer, rs, TRUE) = u[n]
               /\ \A k \in 0 .. n : u[k] = Parted(peer, rs, TRUE, u, k)
  BY <1>1, PartitionIs
<1>3. PICK v : /\ Partition(peer, rs, FALSE) = v[n]
               /\ \A k \in 0 .. n : v[k] = Parted(peer, rs, FALSE, v, k)
  BY <1>1, PartitionIs
<1> HIDE DEF n
<1> DEFINE Good(k) == u[k] = SubSeq(rs, 1, k) /\ v[k] = <<>>
           T == {k \in 0 .. n : ~Good(k)}
<1>4. ASSUME NEW k \in T, \A j \in T : k <= j PROVE FALSE
  <2>1. k \in 0 .. n /\ ~Good(k)
    OBVIOUS
  <2>2. CASE k = 0
    <3>1. u[0] = <<>> /\ v[0] = <<>>
      BY <1>2, <1>3, <2>1, <2>2, Zenon DEF Parted
    <3>2. SubSeq(rs, 1, 0) = <<>>
      BY SubSeqEmpty
    <3>3. QED
      BY <2>1, <2>2, <3>1, <3>2
  <2>3. CASE k # 0
    <3>1. k - 1 \in 0 .. n /\ ~(k <= k - 1) /\ k \in 1 .. n /\ k \in 1 .. k
      BY <1>1, <2>1, <2>3
    <3>2. u[k - 1] = SubSeq(rs, 1, k - 1) /\ v[k - 1] = <<>>
      BY <1>4, <3>1
    <3>3. Held(peer, rs[k])
      BY <3>1 DEF n
    <3>4. u[k] = Append(u[k - 1], rs[k]) /\ v[k] = v[k - 1]
      BY <1>2, <1>3, <2>1, <2>3, <3>3, Zenon DEF Parted
    <3>5. SubSeq(rs, 1, k) = SubSeq(rs, 1, k - 1) \o <<rs[k]>>
      <4>1. 1 \in 1 .. Len(rs) /\ k \in 1 .. Len(rs)
        BY <3>1 DEF n
      <4>2. QED
        BY <4>1, SubSeqRecursiveSecond
    <3>6. SubSeq(rs, 1, k - 1) \in Seq(R) /\ rs[k] \in R
      <4>1. k \in 1 .. Len(rs) /\ k - 1 \in Int /\ 1 \in Int
        BY <3>1 DEF n
      <4>2. \A i \in 1 .. Len(rs) : rs[i] \in R
        BY ElementOfSeq
      <4>3. \A i \in 1 .. k - 1 : rs[i] \in R
        BY <3>1, <4>1, <4>2
      <4>4. QED
        BY <4>1, <4>2, <4>3, SubSeqProperties
    <3>7. u[k] = SubSeq(rs, 1, k)
      BY <3>2, <3>4, <3>5, <3>6, AppendIsConcat
    <3>8. QED
      BY <2>1, <3>2, <3>4, <3>7
  <2>4. QED
    BY <2>2, <2>3
<1>5. T = {}
  <2>1. T \in SUBSET Nat
    BY <1>1
  <2> HIDE DEF T
  <2>2. QED
    BY <1>4, <2>1, LeastNumber
<1>6. n \in 0 .. n /\ n \notin T
  BY <1>1, <1>5
<1>7. u[n] = SubSeq(rs, 1, n) /\ v[n] = <<>>
  BY <1>6
<1>8. SubSeq(rs, 1, n) = rs
  BY SubSeqFull DEF n
<1>9. QED
  BY <1>2, <1>3, <1>7, <1>8

\* A record that was skipped stays skipped.
LEMMA NoneSkipped ==
    ASSUME NEW peer, NEW R, NEW rs \in Seq(R), Partition(peer, rs, FALSE) = <<>>
    PROVE  \A k \in 1 .. Len(rs) : Held(peer, rs[k])
<1> DEFINE n == Len(rs)
<1>1. n \in Nat
  BY LenProperties
<1>2. PICK v : /\ Partition(peer, rs, FALSE) = v[n]
               /\ \A k \in 0 .. n : v[k] = Parted(peer, rs, FALSE, v, k)
  BY <1>1, PartitionIs
<1>3. \A k \in 1 .. n : rs[k] \in R
  BY ElementOfSeq
<1> HIDE DEF n
<1>4. \A k \in 1 .. n : v[k] = IF Held(peer, rs[k]) THEN v[k - 1] ELSE Append(v[k - 1], rs[k])
  <2>1. \A k \in 1 .. n : k \in 0 .. n /\ k # 0
    BY <1>1
  <2>2. QED
    BY <1>2, <2>1, Zenon DEF Parted
<1> DEFINE S == {k \in 0 .. n : v[k] \notin Seq(R)}
<1>5. S = {}
  <2>1. ASSUME NEW k \in S, \A j \in S : k <= j PROVE FALSE
    <3>1. CASE k = 0
      <4>1. v[0] = <<>>
        BY <1>2, <3>1, Zenon DEF Parted
      <4>2. QED
        BY <3>1, <4>1, EmptySeq
    <3>2. CASE k # 0
      <4>1. k - 1 \in 0 .. n /\ ~(k <= k - 1) /\ k \in 1 .. n
        BY <1>1, <3>2
      <4>2. v[k - 1] \in Seq(R) /\ rs[k] \in R
        BY <1>3, <2>1, <4>1
      <4>3. v[k] \in Seq(R)
        BY <1>4, <4>1, <4>2, AppendProperties
      <4>4. QED
        BY <4>3
    <3>3. QED
      BY <3>1, <3>2
  <2>2. S \in SUBSET Nat
    BY <1>1
  <2> HIDE DEF S
  <2>3. QED
    BY <2>1, <2>2, LeastNumber
<1>6. ASSUME NEW k \in 1 .. n PROVE k - 1 \in 0 .. n /\ v[k - 1] \in Seq(R) /\ rs[k] \in R
  BY <1>1, <1>3, <1>5
<1>7. ASSUME NEW k \in 1 .. n, v[k] = <<>> PROVE v[k - 1] = <<>> /\ Held(peer, rs[k])
  <2>1. Append(v[k - 1], rs[k]) # <<>>
    BY <1>6, AppendProperties
  <2>2. QED
    BY <1>4, <1>7, <2>1
<1> HIDE DEF S
<1> DEFINE T == {k \in 0 .. n : v[n - k] # <<>>}
<1>8. T = {}
  <2>1. ASSUME NEW k \in T, \A j \in T : k <= j PROVE FALSE
    <3>1. k \in 0 .. n /\ v[n - k] # <<>>
      OBVIOUS
    <3>2. k # 0
      <4>1. n - 0 = n
        BY <1>1
      <4>2. QED
        BY <1>2, <3>1, <4>1
    <3>3. k - 1 \in 0 .. n /\ ~(k <= k - 1) /\ n - (k - 1) \in 1 .. n /\ (n - (k - 1)) - 1 = n - k
      BY <1>1, <3>1, <3>2
    <3>4. v[n - (k - 1)] = <<>>
      BY <2>1, <3>3
    <3>5. v[n - k] = <<>>
      BY <1>7, <3>3, <3>4
    <3>6. QED
      BY <3>1, <3>5
  <2>2. T \in SUBSET Nat
    BY <1>1
  <2> HIDE DEF T
  <2>3. QED
    BY <2>1, <2>2, LeastNumber
<1>9. ASSUME NEW k \in 1 .. n PROVE v[k] = <<>>
  <2>1. n - k \in 0 .. n /\ n - (n - k) = k
    BY <1>1
  <2>2. n - k \notin T
    BY <1>8
  <2>3. QED
    BY <2>1, <2>2
<1>10. QED
  BY <1>7, <1>9 DEF n

-----------------------------------------------------------------------------
\* Records as their header can express them: a format and a schema_version that
\* are not zero, and a body of a size from 1 to MAX_BODY.
WholeRecords ==
    {r \in [format : 1 .. 15, schema_version : 1 .. 255, body : Seq(Byte)] :
        0 < Len(r.body) /\ Len(r.body) < 4096}

\* The three octets of a number below 2^24.
LEMMA ThreeOctets ==
    ASSUME NEW a \in Byte, NEW b \in Byte, NEW c \in Byte, NEW w, w = a * 65536 + (256 * b + c)
    PROVE  w \div 65536 = a /\ U16Bytes(w) = <<b, c>>
<1>1. a \in 0 .. 255 /\ b \in 0 .. 255 /\ c \in 0 .. 255
  BY DEF Byte
<1> DEFINE x == 256 * b + c
           y == a * 256 + b
<1>2. x \in Nat /\ x < 65536 /\ w = a * 65536 + x /\ w \in Nat
  BY <1>1
<1>3. w \div 65536 = a
  <2> HIDE DEF x
  <2>1. a * 65536 <= w /\ w < a * 65536 + 65536
    BY <1>1, <1>2
  <2>2. QED
    BY <1>1, <1>2, <2>1
<1>4. y \in Nat /\ w = 256 * y + c
  BY <1>1
<1>5. y % 256 = b
  BY <1>1
<1> HIDE DEF y
<1>6. w \div 256 = y /\ w % 256 = c
  BY <1>1, <1>4
<1>7. QED
  BY <1>3, <1>5, <1>6 DEF U16Bytes

\* Record::write_into packs the three fields of the header into three octets.
LEMMA RecordOctets ==
    ASSUME NEW r \in WholeRecords
    PROVE  LET a == r.format * 16 + (r.schema_version \div 16)
               b == (r.schema_version % 16) * 16 + (Len(r.body) \div 256)
               c == Len(r.body) % 256
           IN  /\ a \in Byte /\ b \in Byte /\ c \in Byte
               /\ RecordBytes(r) = <<a, b, c>> \o r.body
<1> DEFINE f == r.format
           s == r.schema_version
           z == Len(r.body)
           g == s \div 16
           h == s % 16
           y == z \div 256
           c == z % 256
           a == f * 16 + g
           b == h * 16 + y
           w == HeaderWord(r)
<1>1. f \in 1 .. 15 /\ s \in 1 .. 255 /\ z \in Nat /\ z < 4096
  <2>1. r.body \in Seq(Byte)
    BY DEF WholeRecords
  <2>2. QED
    BY <2>1, LenProperties DEF WholeRecords
<1>2. w = f * 1048576 + s * 4096 + z
  <2>1. f % 16 = f /\ s % 256 = s /\ z % 4096 = z
    <3> HIDE DEF f, s, z
    <3>1. QED
      BY <1>1
  <2>2. w = (f % 16) * 1048576 + (s % 256) * 4096 + (z % 4096)
    BY DEF HeaderWord
  <2> HIDE DEF f, s, z, w
  <2>3. QED
    BY <2>1, <2>2
<1> HIDE DEF f, s, z, w
<1>3. g \in 0 .. 15 /\ h \in 0 .. 15 /\ s = 16 * g + h
  BY <1>1
<1>4. y \in 0 .. 15 /\ c \in 0 .. 255 /\ z = 256 * y + c
  BY <1>1
<1> HIDE DEF g, h, y, c
<1>5. a \in Byte /\ b \in Byte /\ c \in Byte
  BY <1>1, <1>3, <1>4 DEF Byte
<1>6. w = a * 65536 + (256 * b + c)
  BY <1>1, <1>2, <1>3, <1>4
<1> HIDE DEF a, b
<1>7. w \div 65536 = a /\ U16Bytes(w) = <<b, c>>
  BY <1>5, <1>6, ThreeOctets
<1>8. <<a>> \o <<b, c>> = <<a, b, c>>
  <2> DEFINE x == <<a>>
             v == <<b, c>>
             u == <<a, b, c>>
  <2>1. x \in Seq(Byte) /\ Len(x) = 1 /\ x[1] = a
    BY <1>5
  <2>2. v \in Seq(Byte) /\ Len(v) = 2 /\ v[1] = b /\ v[2] = c
    BY <1>5
  <2>3. u \in Seq(Byte) /\ Len(u) = 3 /\ u[1] = a /\ u[2] = b /\ u[3] = c
    BY <1>5
  <2> HIDE DEF x, v, u
  <2>4. /\ x \o v \in Seq(Byte) /\ Len(x \o v) = Len(x) + Len(v)
        /\ \A i \in 1 .. Len(x) + Len(v) :
              (x \o v)[i] = IF i <= Len(x) THEN x[i] ELSE v[i - Len(x)]
    BY <2>1, <2>2, ConcatProperties
  <2>5. Len(x \o v) = Len(u) /\ \A i \in 1 .. Len(x \o v) : (x \o v)[i] = u[i]
    BY <2>1, <2>2, <2>3, <2>4
  <2>6. x \o v = u
    BY <2>3, <2>4, <2>5, SeqEqual
  <2>7. QED
    BY <2>6 DEF x, v, u
<1>9. RecordBytes(r) = <<a, b, c>> \o r.body
  BY <1>7, <1>8 DEF RecordBytes, w
<1>10. QED
  BY <1>5, <1>9 DEF a, b, c, f, s, z, g, h, y

\* The octets of a record, one by one.
LEMMA RecordBytesAre ==
    ASSUME NEW r \in WholeRecords
    PROVE  /\ RecordBytes(r) \in Seq(Byte)
           /\ Len(r.body) \in Nat
           /\ Len(RecordBytes(r)) = 3 + Len(r.body)
           /\ RecordBytes(r)[1] = r.format * 16 + (r.schema_version \div 16)
           /\ RecordBytes(r)[2] = (r.schema_version % 16) * 16 + (Len(r.body) \div 256)
           /\ RecordBytes(r)[3] = Len(r.body) % 256
           /\ \A j \in 1 .. Len(r.body) : RecordBytes(r)[3 + j] = r.body[j]
<1> DEFINE z == Len(r.body)
           a == r.format * 16 + (r.schema_version \div 16)
           b == (r.schema_version % 16) * 16 + (z \div 256)
           c == z % 256
           x == <<a, b, c>>
           w == x \o r.body
<1>1. a \in Byte /\ b \in Byte /\ c \in Byte /\ RecordBytes(r) = w
  BY RecordOctets
<1>2. r.body \in Seq(Byte) /\ z \in Nat
  <2>1. r.body \in Seq(Byte)
    BY DEF WholeRecords
  <2>2. QED
    BY <2>1, LenProperties
<1> HIDE DEF a, b, c
<1>3. x \in Seq(Byte) /\ Len(x) = 3 /\ x[1] = a /\ x[2] = b /\ x[3] = c
  BY <1>1
<1> HIDE DEF x
<1>4. /\ w \in Seq(Byte) /\ Len(w) = Len(x) + z
      /\ \A i \in 1 .. Len(x) + z : w[i] = IF i <= Len(x) THEN x[i] ELSE r.body[i - Len(x)]
  BY <1>2, <1>3, ConcatProperties
<1> HIDE DEF w, z
<1>5. w[1] = a /\ w[2] = b /\ w[3] = c /\ Len(w) = 3 + z
  BY <1>2, <1>3, <1>4
<1>6. ASSUME NEW j \in 1 .. z PROVE w[3 + j] = r.body[j]
  <2>1. 3 + j \in 1 .. Len(x) + z /\ ~(3 + j <= Len(x)) /\ 3 + j - Len(x) = j
    BY <1>2, <1>3
  <2>2. QED
    BY <1>4, <2>1
<1>7. QED
  BY <1>1, <1>2, <1>4, <1>5, <1>6 DEF a, b, c, z

\* A record read from a payload is one the header can express, and its encoding
\* is what it was read from.
LEMMA RecordReencoded ==
    ASSUME NEW p \in Seq(Byte), NEW i \in Nat \ {0}, RecordIsAt(p, i)
    PROVE  /\ RecordAt(p, i) \in WholeRecords
           /\ RecordBytes(RecordAt(p, i)) = SubSeq(p, i, NextAt(p, i) - 1)
<1> DEFINE n == Len(p)
           m == NextAt(p, i)
           r == RecordAt(p, i)
<1>1. n \in Nat /\ \A j \in 1 .. n : p[j] \in Byte
  BY LenProperties, ElementOfSeq
<1>2. m \in i + 4 .. n + 1 /\ i \in 1 .. n
  BY NextIs
<1>3. i + 2 <= n
  BY <1>1, <1>2
<1>4. /\ SizeAt(p, i) \in Nat
      /\ SizeAt(p, i) = (p[i + 1] % 16) * 256 + p[i + 2]
      /\ SchemaAt(p, i) = (p[i] % 16) * 16 + (p[i + 1] \div 16)
      /\ FormatAt(p, i) = p[i] \div 16
  BY <1>3, HeaderAt
<1> DEFINE a == p[i]
           b == p[i + 1]
           c == p[i + 2]
           z == SizeAt(p, i)
           s == SchemaAt(p, i)
           f == FormatAt(p, i)
<1>5. a \in 0 .. 255 /\ b \in 0 .. 255 /\ c \in 0 .. 255
  <2>1. i \in 1 .. n /\ i + 1 \in 1 .. n /\ i + 2 \in 1 .. n
    BY <1>1, <1>2, <1>3
  <2>2. QED
    BY <1>1, <2>1 DEF Byte
<1>6. z # 0 /\ s # 0 /\ f # 0 /\ m = i + 3 + z
  BY DEF RecordIsAt, NextAt, RECORD_HEADER_LEN
<1>7. r = [format |-> f, schema_version |-> s, body |-> SubSeq(p, i + 3, i + 3 + z - 1)]
  BY DEF RecordAt, RECORD_HEADER_LEN
<1>8. z = (b % 16) * 256 + c /\ s = (a % 16) * 16 + (b \div 16) /\ f = a \div 16 /\ z \in Nat
  BY <1>4
<1> HIDE DEF a, b, c, z, s, f, m, n
<1>9. z < 4096 /\ z > 0 /\ s \in 1 .. 255 /\ f \in 1 .. 15
  BY <1>5, <1>6, <1>8
<1>10. /\ f * 16 + (s \div 16) = a
       /\ (s % 16) * 16 + (z \div 256) = b
       /\ z % 256 = c
  <2> DEFINE g == a % 16
             h == b \div 16
             y == b % 16
  <2>1. g \in 0 .. 15 /\ a = 16 * f + g
    BY <1>5, <1>8
  <2>2. h \in 0 .. 15 /\ y \in 0 .. 15 /\ b = 16 * h + y
    BY <1>5
  <2>3. s = g * 16 + h /\ z = y * 256 + c
    BY <1>8
  <2> HIDE DEF g, h, y
  <2>4. s \div 16 = g /\ s % 16 = h
    BY <2>1, <2>2, <2>3
  <2>5. z \div 256 = y /\ z % 256 = c
    BY <1>5, <2>2, <2>3
  <2>6. QED
    BY <1>9, <2>1, <2>2, <2>4, <2>5
<1> DEFINE body == SubSeq(p, i + 3, i + 3 + z - 1)
<1>11. /\ body \in Seq(Byte) /\ Len(body) = z
       /\ \A j \in 1 .. z : body[j] = p[(i + 3) + j - 1]
  <2>1. i + 3 \in Nat \ {0} /\ i + 3 + z - 1 \in Nat /\ i + 3 + z - 1 <= n
        /\ i + 3 <= (i + 3 + z - 1) + 1 /\ (i + 3 + z - 1) - (i + 3) + 1 = z
    BY <1>1, <1>2, <1>6, <1>8, <1>9
  <2>2. QED
    BY <2>1, Slice DEF n
<1> HIDE DEF body
<1>12. r = [format |-> f, schema_version |-> s, body |-> body]
  BY <1>7 DEF body
<1> HIDE DEF r
<1>13. r \in WholeRecords /\ r.format = f /\ r.schema_version = s /\ r.body = body
  BY <1>9, <1>11, <1>12 DEF WholeRecords
<1> DEFINE x == RecordBytes(r)
           y == SubSeq(p, i, m - 1)
<1>14. /\ x \in Seq(Byte) /\ Len(x) = 3 + z
       /\ x[1] = a /\ x[2] = b /\ x[3] = c
       /\ \A j \in 1 .. z : x[3 + j] = body[j]
  BY <1>10, <1>11, <1>13, RecordBytesAre
<1>15. /\ y \in Seq(Byte) /\ Len(y) = 3 + z
       /\ \A j \in 1 .. 3 + z : y[j] = p[i + j - 1]
  <2>1. i \in Nat \ {0} /\ m - 1 \in Nat /\ m - 1 <= n /\ i <= (m - 1) + 1
        /\ (m - 1) - i + 1 = 3 + z
    BY <1>1, <1>2, <1>6, <1>8, <1>9
  <2>2. QED
    BY <2>1, Slice DEF n
<1> HIDE DEF x, y
<1>16. ASSUME NEW j \in 1 .. 3 + z PROVE x[j] = y[j]
  <2>1. j \in {1, 2, 3} \/ \E k \in 1 .. z : j = 3 + k /\ (i + 3) + k - 1 = i + j - 1
    <3>1. j \in {1, 2, 3} \/ (j - 3 \in 1 .. z /\ j = 3 + (j - 3) /\ (i + 3) + (j - 3) - 1 = i + j - 1)
      BY <1>8
    <3>2. QED
      BY <3>1
  <2>2. i + 1 - 1 = i /\ i + 2 - 1 = i + 1 /\ i + 3 - 1 = i + 2
    OBVIOUS
  <2>3. CASE j \in {1, 2, 3}
    BY <1>14, <1>15, <2>2, <2>3 DEF a, b, c
  <2>4. CASE j \notin {1, 2, 3}
    <3>1. PICK k \in 1 .. z : j = 3 + k /\ (i + 3) + k - 1 = i + j - 1
      BY <2>1, <2>4
    <3>2. x[j] = body[k] /\ body[k] = p[i + j - 1]
      BY <1>11, <1>14, <3>1
    <3>3. QED
      BY <1>15, <3>2
  <2>5. QED
    BY <2>3, <2>4
<1>17. x = y
  BY <1>14, <1>15, <1>16, SeqEqual
<1>18. QED
  BY <1>13, <1>17 DEF x, y, r, m

-----------------------------------------------------------------------------
\* The octets of each of the records.
EachBytes(rs) == [k \in DOMAIN rs |-> RecordBytes(rs[k])]

\* FlattenSeq, by the solution of its loop.
LEMMA FlattenIs ==
    ASSUME NEW seqs, Len(seqs) \in Nat
    PROVE  /\ Len(seqs) = 0 => FlattenSeq(seqs) = seqs
           /\ Len(seqs) # 0 =>
                \E u : /\ FlattenSeq(seqs) = u[Len(seqs)]
                       /\ \A k \in 1 .. Len(seqs) : u[k] = Joined(seqs, u, k)
<1> DEFINE u == CHOOSE u : u = Joining(seqs, u)
<1>1. u = Joining(seqs, u)
  BY JoiningSolved
<1>2. Len(seqs) # 0 => FlattenSeq(seqs) = u[Len(seqs)]
  BY DEF FlattenSeq, Joining, Joined
<1> HIDE DEF u
<1>3. \A k \in 1 .. Len(seqs) : u[k] = Joined(seqs, u, k)
  BY <1>1 DEF Joining
<1>4. Len(seqs) = 0 => FlattenSeq(seqs) = seqs
  BY DEF FlattenSeq
<1>5. QED
  BY <1>2, <1>3, <1>4

\* A sequence of sequences of octets, joined, is one of octets.
LEMMA FlattenedSoFar ==
    ASSUME NEW seqs \in Seq(Seq(Byte)), NEW u,
           \A k \in 1 .. Len(seqs) : u[k] = Joined(seqs, u, k)
    PROVE  \A k \in 1 .. Len(seqs) : u[k] \in Seq(Byte)
<1> DEFINE n == Len(seqs)
           T == {k \in 1 .. n : u[k] \notin Seq(Byte)}
<1>1. n \in Nat /\ \A k \in 1 .. n : seqs[k] \in Seq(Byte)
  BY LenProperties, ElementOfSeq
<1> HIDE DEF n
<1>2. ASSUME NEW k \in T, \A j \in T : k <= j PROVE FALSE
  <2>1. k \in 1 .. n /\ u[k] \notin Seq(Byte) /\ u[k] = Joined(seqs, u, k)
    BY DEF n
  <2>2. CASE k = 1
    <3>1. u[k] = seqs[k]
      BY <2>1, <2>2 DEF Joined
    <3>2. QED
      BY <1>1, <2>1, <3>1
  <2>3. CASE k # 1
    <3>1. k - 1 \in 1 .. n /\ ~(k <= k - 1)
      BY <1>1, <2>1, <2>3
    <3>2. u[k - 1] \in Seq(Byte)
      BY <1>2, <3>1
    <3>3. u[k] = u[k - 1] \o seqs[k] /\ seqs[k] \in Seq(Byte)
      BY <1>1, <2>1, <2>3 DEF Joined
    <3>4. QED
      BY <2>1, <3>2, <3>3, ConcatProperties
  <2>4. QED
    BY <2>2, <2>3
<1>3. T = {}
  <2>1. T \in SUBSET Nat
    BY <1>1
  <2> HIDE DEF T
  <2>2. QED
    BY <1>2, <2>1, LeastNumber
<1>4. QED
  BY <1>3 DEF n

\* What is joined with a sequence before it comes behind that.
LEMMA FlattenFront ==
    ASSUME NEW x \in Seq(Byte), NEW seqs \in Seq(Seq(Byte))
    PROVE  /\ FlattenSeq(seqs) \in Seq(Byte)
           /\ FlattenSeq(<<x>> \o seqs) = x \o FlattenSeq(seqs)
<1> DEFINE n == Len(seqs)
           t == <<x>> \o seqs
<1>1. n \in Nat
  BY LenProperties
<1>2. t \in Seq(Seq(Byte)) /\ Len(t) = n + 1 /\ t[1] = x /\ \A k \in 1 .. n : t[k + 1] = seqs[k]
  <2> DEFINE y == <<x>>
  <2>1. y \in Seq(Seq(Byte)) /\ Len(y) = 1 /\ y[1] = x
    OBVIOUS
  <2> HIDE DEF y
  <2>2. /\ y \o seqs \in Seq(Seq(Byte)) /\ Len(y \o seqs) = Len(y) + Len(seqs)
        /\ \A i \in 1 .. Len(y) + Len(seqs) :
              (y \o seqs)[i] = IF i <= Len(y) THEN y[i] ELSE seqs[i - Len(y)]
    BY <2>1, ConcatProperties
  <2>3. t = y \o seqs
    BY DEF y
  <2> HIDE DEF t, n
  <2>4. t \in Seq(Seq(Byte)) /\ Len(t) = n + 1 /\ t[1] = x
    BY <1>1, <2>1, <2>2, <2>3 DEF n
  <2>5. ASSUME NEW k \in 1 .. n PROVE t[k + 1] = seqs[k]
    <3>1. k + 1 \in 1 .. Len(y) + Len(seqs) /\ ~(k + 1 <= Len(y)) /\ (k + 1) - Len(y) = k
      BY <1>1, <2>1 DEF n
    <3>2. QED
      BY <2>2, <2>3, <3>1
  <2>6. QED
    BY <2>4, <2>5
<1> HIDE DEF t
<1>3. PICK w : FlattenSeq(t) = w[n + 1] /\ \A k \in 1 .. n + 1 : w[k] = Joined(t, w, k)
  <2>1. Len(t) \in Nat /\ Len(t) # 0
    BY <1>1, <1>2
  <2>2. QED
    BY <1>2, <2>1, FlattenIs
<1>4. w[1] = x
  <2>1. 1 \in 1 .. n + 1
    BY <1>1
  <2>2. QED
    BY <1>2, <1>3, <2>1 DEF Joined
<1>5. CASE n = 0
  <2>1. seqs = <<>> /\ FlattenSeq(seqs) = seqs
    BY <1>1, <1>5, FlattenIs, EmptySeq
  <2>2. FlattenSeq(t) = x
    BY <1>3, <1>4, <1>5
  <2>3. x \o <<>> = x /\ <<>> \in Seq(Byte)
    BY ConcatEmptySeq, EmptySeq
  <2>4. QED
    BY <2>1, <2>2, <2>3 DEF t
<1>6. CASE n # 0
  <2>1. PICK v : FlattenSeq(seqs) = v[n] /\ \A k \in 1 .. n : v[k] = Joined(seqs, v, k)
    BY <1>1, <1>6, FlattenIs
  <2>2. \A k \in 1 .. n : v[k] \in Seq(Byte)
    BY <2>1, FlattenedSoFar
  <2>3. \A k \in 1 .. n : seqs[k] \in Seq(Byte)
    BY ElementOfSeq
  <2> HIDE DEF n
  <2> DEFINE T == {k \in 1 .. n : w[k + 1] # x \o v[k]}
  <2>4. ASSUME NEW k \in T, \A j \in T : k <= j PROVE FALSE
    <3>1. k \in 1 .. n /\ w[k + 1] # x \o v[k] /\ k + 1 \in 1 .. n + 1 /\ k + 1 # 1 /\ (k + 1) - 1 = k
      BY <1>1
    <3>2. w[k + 1] = w[k] \o seqs[k]
      <4>1. w[k + 1] = w[(k + 1) - 1] \o t[k + 1]
        BY <1>3, <3>1 DEF Joined
      <4>2. QED
        BY <1>2, <3>1, <4>1
    <3>3. CASE k = 1
      <4>1. v[k] = seqs[k]
        BY <2>1, <3>1, <3>3 DEF Joined
      <4>2. QED
        BY <1>4, <3>1, <3>2, <3>3, <4>1
    <3>4. CASE k # 1
      <4>1. k - 1 \in 1 .. n /\ ~(k <= k - 1) /\ (k - 1) + 1 = k
        BY <1>1, <3>1, <3>4
      <4>2. w[k] = x \o v[k - 1]
        BY <2>4, <4>1
      <4>3. v[k] = v[k - 1] \o seqs[k]
        BY <2>1, <3>1, <3>4 DEF Joined
      <4>4. v[k - 1] \in Seq(Byte) /\ seqs[k] \in Seq(Byte)
        BY <2>2, <2>3, <3>1, <4>1
      <4>5. (x \o v[k - 1]) \o seqs[k] = x \o (v[k - 1] \o seqs[k])
        <5> DEFINE b == v[k - 1]
                   c == seqs[k]
        <5>1. b \in Seq(Byte) /\ c \in Seq(Byte)
          BY <4>4
        <5> HIDE DEF b, c
        <5>2. (x \o b) \o c = x \o (b \o c)
          BY <5>1, ConcatAssociative
        <5>3. QED
          BY <5>2 DEF b, c
      <4>6. QED
        BY <3>1, <3>2, <4>2, <4>3, <4>5
    <3>5. QED
      BY <3>3, <3>4
  <2>5. T = {}
    <3>1. T \in SUBSET Nat
      BY <1>1
    <3> HIDE DEF T
    <3>2. QED
      BY <2>4, <3>1, LeastNumber
  <2>6. n \in 1 .. n
    BY <1>1, <1>6
  <2>7. w[n + 1] = x \o v[n] /\ v[n] \in Seq(Byte)
    BY <2>2, <2>5, <2>6
  <2>8. QED
    BY <1>3, <2>1, <2>7 DEF t
<1>7. QED
  BY <1>5, <1>6

\* The octets of a record put before others.
LEMMA BytesFront ==
    ASSUME NEW r \in WholeRecords, NEW vs \in Seq(WholeRecords)
    PROVE  /\ EachBytes(vs) \in Seq(Seq(Byte)) /\ Len(EachBytes(vs)) = Len(vs)
           /\ EachBytes(<<r>> \o vs) = <<RecordBytes(r)>> \o EachBytes(vs)
<1>1. ASSUME NEW rs \in Seq(WholeRecords)
      PROVE  /\ EachBytes(rs) \in Seq(Seq(Byte)) /\ Len(EachBytes(rs)) = Len(rs)
             /\ \A k \in 1 .. Len(rs) : EachBytes(rs)[k] = RecordBytes(rs[k])
  <2> DEFINE n == Len(rs)
             e == [k \in 1 .. n |-> RecordBytes(rs[k])]
  <2>1. n \in Nat /\ DOMAIN rs = 1 .. n /\ \A k \in 1 .. n : rs[k] \in WholeRecords
    BY LenProperties, ElementOfSeq
  <2>2. EachBytes(rs) = e
    BY <2>1 DEF EachBytes
  <2>3. \A k \in 1 .. n : RecordBytes(rs[k]) \in Seq(Byte)
    BY <2>1, RecordBytesAre
  <2> HIDE DEF n
  <2>4. e \in Seq(Seq(Byte)) /\ Len(e) = n /\ \A k \in 1 .. n : e[k] = RecordBytes(rs[k])
    BY <2>1, <2>3
  <2>5. QED
    BY <2>2, <2>4 DEF n
<1> DEFINE z == <<r>>
           b == RecordBytes(r)
           y == <<b>>
           n == Len(vs)
           t == z \o vs
           f == EachBytes(vs)
<1>2. n \in Nat /\ f \in Seq(Seq(Byte)) /\ Len(f) = n /\ \A k \in 1 .. n : f[k] = RecordBytes(vs[k])
  BY <1>1, LenProperties
<1>3. b \in Seq(Byte)
  BY RecordBytesAre
<1> HIDE DEF b, f
<1>4. z \in Seq(WholeRecords) /\ Len(z) = 1 /\ z[1] = r
  OBVIOUS
<1>5. y \in Seq(Seq(Byte)) /\ Len(y) = 1 /\ y[1] = b
  BY <1>3
<1> HIDE DEF y, z
<1>6. /\ t \in Seq(WholeRecords) /\ Len(t) = Len(z) + Len(vs)
      /\ \A i \in 1 .. Len(z) + Len(vs) : t[i] = IF i <= Len(z) THEN z[i] ELSE vs[i - Len(z)]
  BY <1>4, ConcatProperties
<1>7. /\ y \o f \in Seq(Seq(Byte)) /\ Len(y \o f) = Len(y) + Len(f)
      /\ \A i \in 1 .. Len(y) + Len(f) : (y \o f)[i] = IF i <= Len(y) THEN y[i] ELSE f[i - Len(y)]
  BY <1>2, <1>5, ConcatProperties
<1> HIDE DEF t
<1>8. /\ EachBytes(t) \in Seq(Seq(Byte)) /\ Len(EachBytes(t)) = Len(t)
      /\ \A k \in 1 .. Len(t) : EachBytes(t)[k] = RecordBytes(t[k])
  BY <1>1, <1>6
<1>9. Len(t) = n + 1 /\ Len(y \o f) = n + 1
  BY <1>2, <1>4, <1>5, <1>6, <1>7 DEF n
<1>10. ASSUME NEW k \in 1 .. n + 1 PROVE EachBytes(t)[k] = (y \o f)[k]
  <2>1. EachBytes(t)[k] = RecordBytes(t[k])
    BY <1>8, <1>9
  <2>2. CASE k = 1
    <3>1. 1 \in 1 .. Len(z) + Len(vs) /\ 1 <= Len(z) /\ 1 \in 1 .. Len(y) + Len(f) /\ 1 <= Len(y)
      BY <1>2, <1>4, <1>5
    <3>2. t[1] = r /\ (y \o f)[1] = b
      BY <1>4, <1>5, <1>6, <1>7, <3>1
    <3>3. QED
      BY <2>1, <2>2, <3>2 DEF b
  <2>3. CASE k # 1
    <3>1. k - 1 \in 1 .. n /\ ~(k <= 1) /\ k \in 1 .. 1 + n
      BY <1>2, <2>3
    <3>2. t[k] = vs[k - 1]
      BY <1>4, <1>6, <3>1 DEF n
    <3>3. (y \o f)[k] = f[k - 1]
      BY <1>2, <1>5, <1>7, <3>1
    <3>4. QED
      BY <1>2, <2>1, <3>1, <3>2, <3>3
  <2>4. QED
    BY <2>2, <2>3
<1>11. EachBytes(t) = y \o f
  BY <1>7, <1>8, <1>9, <1>10, SeqEqual
<1>12. QED
  BY <1>2, <1>11 DEF t, y, z, b, f, n

\* What the loop gathers encodes to what it read.
LEMMA FramedReencoded ==
    ASSUME NEW p \in Seq(Byte), NEW u, u = Framing(p, u)
    PROVE  \A i \in 1 .. Len(p) + 1 : IsOk(u[i]) =>
               /\ u[i].value \in Seq(WholeRecords)
               /\ FlattenSeq(EachBytes(u[i].value)) = SubSeq(p, i, Len(p))
<1> DEFINE n == Len(p)
           Good(i) == /\ u[i].value \in Seq(WholeRecords)
                      /\ FlattenSeq(EachBytes(u[i].value)) = SubSeq(p, i, n)
           T == {k \in 0 .. n : IsOk(u[n + 1 - k]) /\ ~Good(n + 1 - k)}
<1>1. n \in Nat
  BY LenProperties
<1>2. \A i \in 1 .. n + 1 : u[i] = FramedFrom(p, u, i)
  BY DEF Framing
<1>3. ASSUME NEW k \in T, \A j \in T : k <= j PROVE FALSE
  <2> DEFINE i == n + 1 - k
  <2>1. k \in 0 .. n /\ IsOk(u[i]) /\ ~Good(i)
    OBVIOUS
  <2>2. i \in 1 .. n + 1 /\ i = n + 1 - k
    BY <1>1, <2>1
  <2> HIDE DEF i
  <2>3. u[i] = FramedFrom(p, u, i)
    BY <1>2, <2>2
  <2>4. CASE i > n
    <3>1. u[i].value = <<>>
      <4>1. u[i] = Ok(<<>>)
        BY <2>3, <2>4, FramedCases
      <4>2. QED
        BY <4>1, Answers
    <3>2. <<>> \in Seq(WholeRecords)
      BY EmptySeq
    <3>3. FlattenSeq(EachBytes(<<>>)) = <<>>
      <4>1. EachBytes(<<>>) = <<>>
        BY DEF EachBytes
      <4>2. Len(<<>>) = 0
        OBVIOUS
      <4>3. QED
        BY <4>1, <4>2, FlattenIs
    <3>4. SubSeq(p, i, n) = <<>>
      BY <1>1, <2>2, <2>4, SubSeqEmpty
    <3>5. QED
      BY <2>1, <3>1, <3>2, <3>3, <3>4
  <2>5. CASE i <= n
    <3>1. ~(i > n) /\ RecordIsAt(p, i)
      <4>1. ~(i > n)
        BY <1>1, <2>2, <2>5
      <4>2. QED
        BY <2>1, <2>3, <4>1, FramedCases
    <3> DEFINE m == NextAt(p, i)
               r == RecordAt(p, i)
    <3>2. m \in i + 4 .. n + 1
      BY <2>2, <3>1, NextIs
    <3>3. r \in WholeRecords /\ RecordBytes(r) = SubSeq(p, i, m - 1)
      BY <2>2, <3>1, RecordReencoded
    <3>4. IsOk(u[m]) /\ u[i] = Ok(<<r>> \o u[m].value)
      BY <2>1, <2>3, <3>1, FramedCases
    <3> HIDE DEF m, r
    <3>5. Good(m)
      <4>1. n + 1 - m \in 0 .. n /\ n + 1 - (n + 1 - m) = m /\ ~(k <= n + 1 - m)
        BY <1>1, <2>1, <2>2, <3>2
      <4>2. n + 1 - m \notin T
        BY <1>3, <4>1
      <4>3. QED
        BY <3>4, <4>1, <4>2
    <3> DEFINE vs == u[m].value
    <3>6. u[i].value = <<r>> \o vs /\ vs \in Seq(WholeRecords)
      BY <3>4, <3>5, Answers
    <3>7. FlattenSeq(EachBytes(vs)) = SubSeq(p, m, n)
      BY <3>5
    <3> HIDE DEF vs
    <3>8. <<r>> \o vs \in Seq(WholeRecords)
      <4>1. <<r>> \in Seq(WholeRecords)
        BY <3>3
      <4>2. QED
        BY <3>6, <4>1, ConcatProperties
    <3>9. /\ EachBytes(vs) \in Seq(Seq(Byte))
          /\ EachBytes(<<r>> \o vs) = <<RecordBytes(r)>> \o EachBytes(vs)
      BY <3>3, <3>6, BytesFront
    <3>10. RecordBytes(r) \in Seq(Byte)
      BY <3>3, RecordBytesAre
    <3>11. FlattenSeq(EachBytes(<<r>> \o vs)) = RecordBytes(r) \o FlattenSeq(EachBytes(vs))
      BY <3>9, <3>10, FlattenFront
    <3>12. SubSeq(p, i, m - 1) \o SubSeq(p, (m - 1) + 1, n) = SubSeq(p, i, n)
      <4>1. i \in 1 .. n + 1 /\ m - 1 \in i - 1 .. n /\ n \in m - 1 .. n
        BY <1>1, <2>2, <3>2
      <4>2. QED
        BY <4>1, ConcatAdjacentSubSeq
    <3>13. (m - 1) + 1 = m
      BY <3>2, <2>2, <1>1
    <3>14. FlattenSeq(EachBytes(u[i].value)) = SubSeq(p, i, n)
      BY <3>3, <3>6, <3>7, <3>11, <3>12, <3>13
    <3>15. QED
      BY <2>1, <3>6, <3>8, <3>14
  <2>6. QED
    BY <1>1, <2>2, <2>4, <2>5
<1>4. T = {}
  <2>1. T \in SUBSET Nat
    BY <1>1
  <2> HIDE DEF T
  <2>2. QED
    BY <1>3, <2>1, LeastNumber
<1>5. ASSUME NEW i \in 1 .. n + 1, IsOk(u[i]) PROVE Good(i)
  <2>1. n + 1 - i \in 0 .. n /\ n + 1 - (n + 1 - i) = i
    BY <1>1
  <2>2. n + 1 - i \notin T
    BY <1>4
  <2>3. QED
    BY <1>5, <2>1, <2>2
<1>6. QED
  BY <1>5

-----------------------------------------------------------------------------
\* What payload_len says of the first n records, given what it says of n - 1.
Measured(rs, u, n) == IF n = 0 THEN 0 ELSE u[n - 1] + (RECORD_HEADER_LEN + Len(rs[n].body))

Measuring(rs, u) == [n \in 0 .. Len(rs) |-> Measured(rs, u, n)]

\* The recursive function RecordsLen chooses exists.
LEMMA MeasuringSolved ==
    ASSUME NEW rs, Len(rs) \in Nat
    PROVE  \E u : u = Measuring(rs, u)
<1> DEFINE n == Len(rs)
           T == {k \in 0 .. n : ~\E u : \A i \in 0 .. k : u[i] = Measured(rs, u, i)}
<1> HIDE DEF n
<1>0. n \in Nat
  BY DEF n
<1>1. ASSUME NEW k \in T, \A j \in T : k <= j PROVE FALSE
  <2>1. k \in 0 .. n /\ ~\E u : \A i \in 0 .. k : u[i] = Measured(rs, u, i)
    OBVIOUS
  <2>2. \E w : \A i \in 0 .. k - 1 : w[i] = Measured(rs, w, i)
    <3>1. CASE k = 0
      <4>1. \A i \in 0 .. k - 1 : FALSE
        BY <3>1
      <4>2. QED
        BY <4>1
    <3>2. CASE k # 0
      <4>1. k - 1 \in 0 .. n /\ ~(k <= k - 1)
        BY <1>0, <2>1, <3>2
      <4>2. k - 1 \notin T
        BY <1>1, <4>1
      <4>3. QED
        BY <4>1, <4>2
    <3>3. QED
      BY <3>1, <3>2
  <2>3. PICK w : \A i \in 0 .. k - 1 : w[i] = Measured(rs, w, i)
    BY <2>2
  <2> DEFINE v == [i \in 0 .. n |-> IF i = k THEN Measured(rs, w, k) ELSE w[i]]
  <2>4. ASSUME NEW i \in 0 .. k PROVE v[i] = Measured(rs, v, i)
    <3>1. i \in 0 .. n /\ (i = k \/ i \in 0 .. k - 1) /\ (i # 0 => i - 1 \in 0 .. n /\ i - 1 # k)
      BY <1>0, <2>1
    <3>2. v[i] = Measured(rs, w, i)
      BY <2>3, <3>1
    <3>3. i # 0 => v[i - 1] = w[i - 1]
      BY <3>1
    <3> HIDE DEF v
    <3>4. QED
      BY <3>2, <3>3, Zenon DEF Measured
  <2> HIDE DEF v
  <2>5. QED
    BY <2>1, <2>4
<1>2. T = {}
  <2>1. T \in SUBSET Nat
    BY <1>0
  <2> HIDE DEF T
  <2>2. QED
    BY <1>1, <2>1, LeastNumber
<1>3. PICK w : \A i \in 0 .. n : w[i] = Measured(rs, w, i)
  <2>1. n \in 0 .. n
    BY <1>0
  <2>2. n \notin T
    BY <1>2
  <2>3. QED
    BY <2>1, <2>2
<1> DEFINE v == [i \in 0 .. n |-> w[i]]
<1>4. ASSUME NEW i \in 0 .. n PROVE v[i] = Measured(rs, v, i)
  <2>1. i # 0 => i - 1 \in 0 .. n
    BY <1>0
  <2>2. v[i] = Measured(rs, w, i)
    BY <1>3
  <2>3. i # 0 => v[i - 1] = w[i - 1]
    BY <2>1
  <2> HIDE DEF v
  <2>4. QED
    BY <2>2, <2>3, Zenon DEF Measured
<1>5. v = [i \in 0 .. n |-> v[i]]
  OBVIOUS
<1> HIDE DEF v
<1>6. v = Measuring(rs, v)
  BY <1>4, <1>5 DEF Measuring, n
<1>7. QED
  BY <1>6

\* payload_len is the length of the records' octets, joined.
LEMMA RecordsMeasured ==
    ASSUME NEW rs \in Seq(WholeRecords), rs # <<>>
    PROVE  /\ FlattenSeq(EachBytes(rs)) \in Seq(Byte)
           /\ RecordsLen(rs) = Len(FlattenSeq(EachBytes(rs)))
<1> DEFINE n == Len(rs)
           e == EachBytes(rs)
<1>1. n \in Nat \ {0} /\ \A k \in 1 .. n : rs[k] \in WholeRecords
  BY LenProperties, ElementOfSeq, EmptySeq
<1>2. 1 \in 1 .. n /\ n \in 1 .. n
  BY <1>1
<1>3. /\ e \in Seq(Seq(Byte)) /\ Len(e) = n
      /\ \A k \in 1 .. n : e[k] = RecordBytes(rs[k])
  <2>1. DOMAIN rs = 1 .. n
    BY LenProperties
  <2>2. rs[1] \in WholeRecords
    BY <1>1, <1>2
  <2>3. e \in Seq(Seq(Byte)) /\ Len(e) = n
    BY <2>2, BytesFront
  <2>4. QED
    BY <2>1, <2>3 DEF EachBytes
<1> HIDE DEF n, e
<1>4. PICK u : FlattenSeq(e) = u[n] /\ \A k \in 1 .. n : u[k] = Joined(e, u, k)
  <2>1. Len(e) \in Nat /\ Len(e) # 0
    BY <1>1, <1>3
  <2>2. QED
    BY <1>3, <2>1, FlattenIs
<1>5. \A k \in 1 .. n : u[k] \in Seq(Byte)
  BY <1>3, <1>4, FlattenedSoFar
<1> DEFINE w == CHOOSE w : w = Measuring(rs, w)
<1>6. w = Measuring(rs, w)
  BY <1>1, MeasuringSolved DEF n
<1>7. RecordsLen(rs) = w[n]
  BY DEF RecordsLen, Measuring, Measured, n
<1> HIDE DEF w
<1>8. \A k \in 0 .. n : w[k] = Measured(rs, w, k)
  BY <1>6 DEF Measuring, n
<1>9. ASSUME NEW k \in 1 .. n
      PROVE  /\ w[k] = w[k - 1] + (3 + Len(rs[k].body))
             /\ e[k] \in Seq(Byte) /\ Len(e[k]) = 3 + Len(rs[k].body)
             /\ Len(rs[k].body) \in Nat
  <2>1. k \in 0 .. n /\ k # 0
    BY <1>1
  <2>2. w[k] = w[k - 1] + (3 + Len(rs[k].body))
    BY <1>8, <2>1, Zenon DEF Measured, RECORD_HEADER_LEN
  <2>3. rs[k] \in WholeRecords /\ e[k] = RecordBytes(rs[k])
    BY <1>1, <1>3
  <2> DEFINE r == rs[k]
  <2> HIDE DEF r
  <2>4. RecordBytes(r) \in Seq(Byte) /\ Len(RecordBytes(r)) = 3 + Len(r.body) /\ Len(r.body) \in Nat
    BY <2>3, RecordBytesAre DEF r
  <2>5. QED
    BY <2>2, <2>3, <2>4 DEF r
<1>10. w[0] = 0
  <2>1. 0 \in 0 .. n
    BY <1>1
  <2>2. QED
    BY <1>8, <2>1, Zenon DEF Measured
<1> DEFINE T == {k \in 1 .. n : w[k] # Len(u[k])}
<1>11. ASSUME NEW k \in T, \A j \in T : k <= j PROVE FALSE
  <2>1. k \in 1 .. n /\ w[k] # Len(u[k]) /\ u[k] = Joined(e, u, k)
    BY <1>4
  <2>2. CASE k = 1
    <3>1. u[k] = e[k]
      BY <2>1, <2>2 DEF Joined
    <3>2. w[k] = w[0] + (3 + Len(rs[k].body))
      <4>1. k - 1 = 0
        BY <2>2
      <4>2. QED
        BY <1>9, <2>1, <4>1
    <3>3. QED
      BY <1>9, <1>10, <2>1, <3>1, <3>2
  <2>3. CASE k # 1
    <3>1. k - 1 \in 1 .. n /\ ~(k <= k - 1)
      BY <1>1, <2>1, <2>3
    <3>2. w[k - 1] = Len(u[k - 1]) /\ u[k - 1] \in Seq(Byte)
      BY <1>5, <1>11, <3>1
    <3>3. u[k] = u[k - 1] \o e[k]
      BY <2>1, <2>3 DEF Joined
    <3>4. Len(u[k]) = Len(u[k - 1]) + Len(e[k])
      BY <1>9, <2>1, <3>2, <3>3, ConcatProperties
    <3>5. QED
      BY <1>9, <2>1, <3>2, <3>4
  <2>4. QED
    BY <2>2, <2>3
<1>12. T = {}
  <2>1. T \in SUBSET Nat
    BY <1>1
  <2> HIDE DEF T
  <2>2. QED
    BY <1>11, <2>1, LeastNumber
<1>13. w[n] = Len(u[n]) /\ u[n] \in Seq(Byte)
  BY <1>2, <1>5, <1>12
<1>14. QED
  BY <1>4, <1>7, <1>13 DEF e

\* The header is written from the fields of the header.
LEMMA HeaderSame ==
    ASSUME NEW d, NEW e,
           d.version = e.version, d.msg_type = e.msg_type, d.cipher_id = e.cipher_id,
           d.epoch_low = e.epoch_low, d.reserved = e.reserved,
           d.datagram_offset = e.datagram_offset, d.sender_id = e.sender_id
    PROVE  HeaderBytes(d) = HeaderBytes(e)
BY DEF HeaderBytes

\* What is sealed depends on the header and the octets behind it alone.
LEMMA SealedSame ==
    ASSUME NEW mt, NEW cipher, NEW off, NEW reserved, NEW records, NEW raw,
           NEW key, NEW epoch_id, NEW payload
    PROVE  Sealed(Carrying(mt, cipher, off, reserved, records, raw), key, epoch_id, payload)
             = Sealed(Carrying(mt, cipher, off, reserved, <<>>, <<>>), key, epoch_id, payload)
<1> DEFINE d == Carrying(mt, cipher, off, reserved, records, raw)
           e == Carrying(mt, cipher, off, reserved, <<>>, <<>>)
           d0 == [d EXCEPT !.epoch_low = 0]
           e0 == [e EXCEPT !.epoch_low = 0]
<1>1. /\ d.version = e.version /\ d.msg_type = e.msg_type /\ d.cipher_id = e.cipher_id
      /\ d.epoch_low = e.epoch_low /\ d.reserved = e.reserved
      /\ d.datagram_offset = e.datagram_offset /\ d.sender_id = e.sender_id
  BY DEF Carrying
<1>2. /\ d0.version = e0.version /\ d0.msg_type = e0.msg_type /\ d0.cipher_id = e0.cipher_id
      /\ d0.epoch_low = e0.epoch_low /\ d0.reserved = e0.reserved
      /\ d0.datagram_offset = e0.datagram_offset /\ d0.sender_id = e0.sender_id
  BY DEF Carrying
<1> HIDE DEF d, e
<1>3. HeaderBytes(d) = HeaderBytes(e)
  BY <1>1, HeaderSame
<1>4. AuthHeader(d, epoch_id) = AuthHeader(e, epoch_id)
  <2> HIDE DEF d0, e0
  <2>1. HeaderBytes(d0) = HeaderBytes(e0)
    BY <1>2, HeaderSame
  <2>2. QED
    BY <1>1, <2>1 DEF AuthHeader, d0, e0
<1>5. Sealed(d, key, epoch_id, payload) = Sealed(e, key, epoch_id, payload)
  BY <1>1, <1>3, <1>4 DEF Sealed
<1>6. QED
  BY <1>5 DEF d, e

\* A datagram that carries records, or octets of its own, is encoded to the octets
\* it is sealed to, when they are as many as allowed.
LEMMA EncodesTo ==
    ASSUME NEW mt, NEW cipher \in CipherIds, NEW off, NEW reserved, NEW rs, NEW raw,
           NEW p \in Seq(Byte),
           \/ rs = <<>> /\ raw = p
           \/ rs # <<>> /\ rs \in Seq(WholeRecords) /\ FlattenSeq(EachBytes(rs)) = p,
           NEW buf, Len(buf.octets) = 9 + Len(p), buf.tag.len = TagLen(cipher),
           TagLen(cipher) \in Nat,
           Sealed(Carrying(mt, cipher, off, reserved, <<>>, <<>>),
                  EpochKey(secret, id, epoch, n2c), epoch, p) = Ok(buf)
    PROVE  Encode(Carrying(mt, cipher, off, reserved, rs, raw), secret, epoch, n2c, Length(buf))
             = Ok(buf)
<1> DEFINE d == Carrying(mt, cipher, off, reserved, rs, raw)
           key == EpochKey(secret, id, epoch, n2c)
           n == WireLen(d)
<1>1. d.cipher_id = cipher /\ d.sender_id = id /\ d.records = rs /\ d.raw = raw
  BY DEF Carrying
<1>2. Sealed(d, key, epoch, p) = Ok(buf)
  BY SealedSame
<1> HIDE DEF d
<1>3. Len(p) \in Nat
  BY LenProperties
<1>4. Payload(d) = p
  BY <1>1 DEF Payload, EachBytes
<1>5. (IF rs # <<>> THEN RecordsLen(rs) ELSE Len(raw)) = Len(p)
  <2>1. CASE rs = <<>>
    BY <2>1
  <2>2. CASE rs # <<>>
    BY <2>2, RecordsMeasured
  <2>3. QED
    BY <2>1, <2>2
<1>6. n = 9 + TagLen(cipher) + Len(p)
  BY <1>1, <1>5 DEF WireLen, HEADER_LEN
<1> HIDE DEF n
<1>7. n = Length(buf) /\ ~(n > Length(buf)) /\ ~(n < n)
  BY <1>3, <1>6 DEF Length
<1>8. ~\E i \in DOMAIN rs : Len(rs[i].body) \notin 1 .. MAX_BODY
  <2>1. CASE rs = <<>>
    BY <2>1
  <2>2. CASE rs \in Seq(WholeRecords)
    <3>1. DOMAIN rs = 1 .. Len(rs) /\ \A i \in 1 .. Len(rs) : rs[i] \in WholeRecords
      BY <2>2, LenProperties, ElementOfSeq
    <3>2. ASSUME NEW r \in WholeRecords PROVE Len(r.body) \in 1 .. MAX_BODY
      <4>1. Len(r.body) \in Nat
        BY RecordBytesAre
      <4>2. 0 < Len(r.body) /\ Len(r.body) < 4096
        BY DEF WholeRecords
      <4>3. MAX_BODY \in Int /\ \A x \in Int : x < 4096 => x <= MAX_BODY
        BY DEF MAX_BODY
      <4>4. QED
        BY <4>1, <4>2, <4>3
    <3>3. QED
      BY <3>1, <3>2
  <2>3. QED
    BY <2>1, <2>2
<1>9. EncodeInto(d, secret, epoch, n2c, n) = Ok(buf)
  <2>1. ~(d.cipher_id \notin CipherIds)
    BY <1>1
  <2>2. QED
    BY <1>1, <1>2, <1>4, <1>7, <1>8, <2>1, Zenon DEF EncodeInto, n
<1>10. Encode(d, secret, epoch, n2c, Length(buf)) = Ok(buf)
  BY <1>1, <1>7, <1>9 DEF Encode, n
<1>11. QED
  BY <1>10 DEF d

-----------------------------------------------------------------------------
\* What step 9 accepts of a record-framed type encodes to the payload.
LEMMA FramedRecordsReencode ==
    ASSUME NEW mt, IsRecordFramed(mt), NEW p \in Seq(Byte), NEW off, IsOk(Framed(mt, p, off))
    PROVE  LET rs == Framed(mt, p, off).value
           IN  rs \in Seq(WholeRecords) /\ rs # <<>> /\ FlattenSeq(EachBytes(rs)) = p
<1> DEFINE n == Len(p)
           all == RecordsOf(p)
<1>1. n \in Nat
  BY LenProperties
<1>2. PICK u : u = Framing(p, u) /\ all = IF n < RECORD_HEADER_LEN THEN Err("Framing") ELSE u[1]
  BY RecordsFramed
<1>3. Framed(mt, p, off) = all /\ IsOk(all)
  <2>1. ~IsOk(Err("Framing"))
    BY Answers
  <2>2. QED
    BY <2>1 DEF Framed
<1> HIDE DEF all
<1>4. ~(n < 3) /\ all = u[1]
  <2>1. ~IsOk(Err("Framing"))
    BY Answers
  <2>2. QED
    BY <1>2, <1>3, <2>1 DEF RECORD_HEADER_LEN
<1>5. 1 \in 1 .. n + 1 /\ 1 <= n
  BY <1>1, <1>4
<1>6. u[1].value \in Seq(WholeRecords) /\ FlattenSeq(EachBytes(u[1].value)) = SubSeq(p, 1, n)
  BY <1>2, <1>3, <1>4, <1>5, FramedReencoded
<1>7. Len(u[1].value) > 0
  BY <1>2, <1>3, <1>4, <1>5, FramedValues
<1>8. u[1].value # <<>>
  BY <1>7, EmptySeq
<1>9. SubSeq(p, 1, n) = p
  BY SubSeqFull
<1>10. QED
  BY <1>3, <1>4, <1>6, <1>8, <1>9

\* What the harness remembers settles that an accepted payload encodes again.
LEMMA FuzzInvRoundTrip == FuzzInv => RoundTrip
<1> SUFFICES ASSUME FuzzInv, input.kind = "fuzz", IsOk(answer), answer.value.skipped = <<>>
             PROVE  Encode(answer.value.datagram, secret, epoch, n2c, Length(input.buf))
                      = Ok(input.buf)
  BY DEF RoundTrip
<1> DEFINE buf == input.buf
           c == HmacSha256T64
           peer == Peer(id, c, PermissiveLayouts)
<1>1. PICK t \in FuzzTypes, p \in Payloads :
          /\ buf = Authentic(FuzzDatagram(t), p)
          /\ answer = Answer(buf, c)
  BY DEF FuzzInv
<1>2. t \in MsgTypes /\ p \in Seq(Byte) /\ c \in Ciphers
      /\ FuzzOffset \in 0 .. TICKS_PER_EPOCH - 1
  BY HarnessAssumption, PayloadsAreOctets DEF Ciphers
<1>3. FuzzDatagram(t) = Carrying(t, c, FuzzOffset, 3, <<>>, <<>>)
  BY <1>2, FuzzFits DEF Carrying
<1>4. Sealed(Carrying(t, c, FuzzOffset, 3, <<>>, <<>>), EpochKey(secret, id, epoch, n2c), epoch, p)
        = Ok(buf)
  BY <1>1, <1>2, <1>3, FuzzBuffer
<1>5. 3 \in 0 .. 31
  OBVIOUS
<1> HIDE DEF buf, c, peer
<1> DEFINE framed == Framed(t, p, FuzzOffset)
           rs == FramedRecords(t, framed)
           raw == RawOf(t, p)
<1>6. /\ IsOk(framed)
      /\ answer.value = Arrived(t, c, FuzzOffset, 3, p, peer, rs)
  BY <1>1, <1>2, <1>4, <1>5, Received DEF peer
<1>7. Len(buf.octets) = 9 + Len(p) /\ buf.tag.len = TagLen(c)
  BY <1>2, <1>4, <1>5, SealedReads DEF ReadsAs
<1>8. \/ rs = <<>> /\ raw = p
      \/ rs # <<>> /\ rs \in Seq(WholeRecords) /\ FlattenSeq(EachBytes(rs)) = p
  <2>1. CASE IsRecordFramed(t)
    <3>1. rs = framed.value
      BY <2>1 DEF FramedRecords
    <3>2. QED
      BY <1>2, <1>6, <2>1, <3>1, FramedRecordsReencode
  <2>2. CASE ~IsRecordFramed(t)
    BY <2>2 DEF FramedRecords, raw, RawOf
  <2>3. QED
    BY <2>1, <2>2
<1> HIDE DEF framed, rs, raw
<1>9. rs \in Seq(WholeRecords)
  BY <1>8, EmptySeq
<1>10. /\ Partition(peer, rs, FALSE) = <<>>
       /\ answer.value.datagram = Carrying(t, c, FuzzOffset, 3, Partition(peer, rs, TRUE), raw)
  <2>1. PICK a : a = answer.value
    OBVIOUS
  <2>2. a = Arrived(t, c, FuzzOffset, 3, p, peer, rs) /\ a.skipped = <<>>
    BY <1>6, <2>1
  <2>3. /\ a.skipped = Partition(peer, rs, FALSE)
        /\ a.datagram = Carrying(t, c, FuzzOffset, 3, Partition(peer, rs, TRUE), RawOf(t, p))
    BY <2>2 DEF Arrived
  <2>4. QED
    BY <2>1, <2>2, <2>3 DEF raw
<1>11. Partition(peer, rs, TRUE) = rs
  <2>1. \A k \in 1 .. Len(rs) : Held(peer, rs[k])
    BY <1>9, <1>10, NoneSkipped
  <2>2. QED
    BY <1>9, <2>1, AllKept
<1>12. answer.value.datagram = Carrying(t, c, FuzzOffset, 3, rs, raw)
  BY <1>10, <1>11
<1>13. c \in CipherIds /\ TagLen(c) \in Nat
  BY <1>2, CiphersAre
<1>14. Encode(Carrying(t, c, FuzzOffset, 3, rs, raw), secret, epoch, n2c, Length(buf)) = Ok(buf)
  BY <1>2, <1>4, <1>7, <1>8, <1>13, EncodesTo
<1>15. QED
  BY <1>12, <1>14 DEF buf

\* A payload that decode accepts encodes again to the octets it was decoded from,
\* whatever its type, its octets and their number.
THEOREM AcceptedEncodesAgain == Spec => []RoundTrip
BY FuzzInvHolds, FuzzInvRoundTrip, PTL

-----------------------------------------------------------------------------
\* From octet i on the payload p is q.
BehindIs(p, i, q) ==
    /\ i \in 1 .. Len(p) + 1
    /\ q \in Seq(Byte)
    /\ Len(p) - i + 1 = Len(q)
    /\ \A j \in 1 .. Len(q) : p[i + j - 1] = q[j]

\* Where a payload goes on with the octets of a record, that record is read, and
\* what is read next is what stands behind it.
LEMMA RecordRead ==
    ASSUME NEW p \in Seq(Byte), NEW i, NEW r \in WholeRecords, NEW q \in Seq(Byte),
           BehindIs(p, i, RecordBytes(r) \o q)
    PROVE  /\ ~(i > Len(p)) /\ RecordIsAt(p, i)
           /\ RecordAt(p, i) = r
           /\ BehindIs(p, NextAt(p, i), q)
<1> DEFINE n == Len(p)
           x == RecordBytes(r)
           z == Len(r.body)
           w == x \o q
           f == r.format
           s == r.schema_version
<1>1. n \in Nat /\ Len(q) \in Nat /\ \A j \in 1 .. n : p[j] \in Byte
  BY LenProperties, ElementOfSeq
<1>2. /\ x \in Seq(Byte) /\ z \in Nat /\ Len(x) = 3 + z
      /\ x[1] = f * 16 + (s \div 16) /\ x[2] = (s % 16) * 16 + (z \div 256) /\ x[3] = z % 256
      /\ \A j \in 1 .. z : x[3 + j] = r.body[j]
  BY RecordBytesAre
<1>3. /\ f \in 1 .. 15 /\ s \in 1 .. 255 /\ 0 < z /\ z < 4096 /\ r.body \in Seq(Byte)
      /\ r = [format |-> f, schema_version |-> s, body |-> r.body]
  BY DEF WholeRecords
<1>4. i \in 1 .. n + 1 /\ n - i + 1 = Len(w) /\ \A j \in 1 .. Len(w) : p[i + j - 1] = w[j]
  BY DEF BehindIs
<1>5. /\ w \in Seq(Byte) /\ Len(w) = Len(x) + Len(q)
      /\ \A j \in 1 .. Len(x) + Len(q) : w[j] = IF j <= Len(x) THEN x[j] ELSE q[j - Len(x)]
  <2>1. x \in Seq(Byte) /\ q \in Seq(Byte)
    BY <1>2
  <2> HIDE DEF x
  <2>2. QED
    BY <2>1, ConcatProperties
<1> HIDE DEF x, z, f, s, n, w
<1>6. n = i + 2 + z + Len(q) /\ Len(w) = 3 + z + Len(q) /\ i \in Nat \ {0}
      /\ n \in Nat /\ Len(q) \in Nat /\ z \in Nat /\ 0 < z
  <2>1. /\ n \in Nat /\ Len(q) \in Nat /\ z \in Nat /\ Len(x) = 3 + z
        /\ i \in 1 .. n + 1 /\ n - i + 1 = Len(w) /\ Len(w) = Len(x) + Len(q)
    BY <1>1, <1>2, <1>4, <1>5
  <2>2. 0 < z
    BY <1>3
  <2>3. QED
    BY <2>1, <2>2
<1>7. ASSUME NEW j \in 1 .. 3 + z PROVE p[i + j - 1] = x[j]
  <2>1. j \in 1 .. Len(w) /\ j \in 1 .. Len(x) + Len(q) /\ j <= Len(x)
    BY <1>1, <1>2, <1>6
  <2>2. QED
    BY <1>4, <1>5, <2>1
<1>8. ASSUME NEW j \in 1 .. Len(q) PROVE p[(i + 3 + z) + j - 1] = q[j]
  <2> DEFINE k == (3 + z) + j
  <2>1. k \in 1 .. Len(w) /\ k \in 1 .. Len(x) + Len(q) /\ ~(k <= Len(x)) /\ k - Len(x) = j
        /\ i + k - 1 = (i + 3 + z) + j - 1
    BY <1>1, <1>2, <1>4, <1>6
  <2> HIDE DEF k
  <2>2. p[i + k - 1] = w[k] /\ w[k] = q[j]
    BY <1>4, <1>5, <2>1
  <2>3. QED
    BY <2>1, <2>2
<1>9. p[i] = x[1] /\ p[i + 1] = x[2] /\ p[i + 2] = x[3]
  <2>1. 1 \in 1 .. 3 + z /\ 2 \in 1 .. 3 + z /\ 3 \in 1 .. 3 + z
        /\ i + 1 - 1 = i /\ i + 2 - 1 = i + 1 /\ i + 3 - 1 = i + 2
    BY <1>2, <1>4
  <2>2. QED
    BY <1>7, <2>1
<1>10. SizeAt(p, i) = z /\ SchemaAt(p, i) = s /\ FormatAt(p, i) = f
  <2>1. i \in Nat \ {0} /\ i + 2 <= n
    BY <1>1, <1>2, <1>4, <1>6
  <2>2. /\ SizeAt(p, i) = (p[i + 1] % 16) * 256 + p[i + 2]
        /\ SchemaAt(p, i) = (p[i] % 16) * 16 + (p[i + 1] \div 16)
        /\ FormatAt(p, i) = p[i] \div 16
    BY <2>1, HeaderAt DEF n
  <2> DEFINE g == s \div 16
             h == s % 16
             y == z \div 256
             c == z % 256
             a == p[i]
             b == p[i + 1]
  <2>3. g \in 0 .. 15 /\ h \in 0 .. 15 /\ s = 16 * g + h
    <3>1. s \in 0 .. 255
      BY <1>3
    <3>2. QED
      BY <3>1
  <2>4. y \in 0 .. 15 /\ c \in 0 .. 255 /\ z = 256 * y + c
    <3>1. z \in Nat /\ z < 4096
      BY <1>2, <1>3
    <3>2. QED
      BY <3>1
  <2>5. a = f * 16 + g /\ b = h * 16 + y /\ p[i + 2] = c
    BY <1>2, <1>9
  <2> HIDE DEF g, h, y, c, a, b
  <2>6. a % 16 = g /\ a \div 16 = f
    <3>1. f \in Nat
      BY <1>3
    <3>2. QED
      BY <2>3, <2>5, <3>1
  <2>7. b % 16 = y /\ b \div 16 = h
    BY <2>3, <2>4, <2>5
  <2>8. y * 256 + c = z /\ g * 16 + h = s
    BY <2>3, <2>4
  <2>9. QED
    BY <2>2, <2>5, <2>6, <2>7, <2>8 DEF a, b
<1>11. RecordIsAt(p, i) /\ ~(i > n) /\ NextAt(p, i) = i + 3 + z
  <2>1. i + 3 - 1 <= n /\ ~(i > n) /\ i + 3 + z - 1 <= n /\ z # 0
    BY <1>6
  <2>2. s # 0 /\ f # 0
    <3>1. s \in 1 .. 255 /\ f \in 1 .. 15
      BY <1>3
    <3>2. QED
      BY <3>1
  <2>3. QED
    BY <1>10, <2>1, <2>2 DEF RecordIsAt, NextAt, RECORD_HEADER_LEN, n
<1> DEFINE body == SubSeq(p, i + 3, i + 3 + z - 1)
<1>12. /\ body \in Seq(Byte) /\ Len(body) = z
       /\ \A j \in 1 .. z : body[j] = p[(i + 3) + j - 1]
  <2>1. i + 3 \in Nat \ {0} /\ i + 3 + z - 1 \in Nat /\ i + 3 + z - 1 <= n
        /\ i + 3 <= (i + 3 + z - 1) + 1 /\ (i + 3 + z - 1) - (i + 3) + 1 = z
    BY <1>6
  <2>2. QED
    BY <2>1, Slice DEF n
<1> HIDE DEF body
<1>13. body = r.body
  <2>1. ASSUME NEW j \in 1 .. z PROVE body[j] = r.body[j]
    <3>1. 3 + j \in 1 .. 3 + z /\ i + (3 + j) - 1 = (i + 3) + j - 1
      BY <1>6
    <3>2. body[j] = p[(i + 3) + j - 1] /\ p[i + (3 + j) - 1] = x[3 + j] /\ x[3 + j] = r.body[j]
      BY <1>2, <1>7, <1>12, <3>1
    <3>3. QED
      BY <3>1, <3>2
  <2>2. QED
    BY <1>3, <1>12, <2>1, SeqEqual DEF z
<1>14. RecordAt(p, i) = r
  BY <1>3, <1>10, <1>13 DEF RecordAt, RECORD_HEADER_LEN, body
<1>15. BehindIs(p, i + 3 + z, q)
  <2>1. i + 3 + z \in 1 .. n + 1 /\ n - (i + 3 + z) + 1 = Len(q)
    BY <1>6
  <2>2. QED
    BY <1>8, <2>1 DEF BehindIs, n
<1>16. QED
  BY <1>11, <1>14, <1>15 DEF n

\* The record loop gives back the records a payload was joined from.
LEMMA RecordsFramedAgain ==
    ASSUME NEW rs \in Seq(WholeRecords), rs # <<>>, NEW p \in Seq(Byte),
           p = FlattenSeq(EachBytes(rs))
    PROVE  RecordsOf(p) = Ok(rs)
<1> DEFINE n == Len(rs)
           Rest(k) == SubSeq(rs, n - k + 1, n)
           T == {k \in 0 .. n : ~\A u, i : u = Framing(p, u) /\ BehindIs(p, i, FlattenSeq(EachBytes(Rest(k))))
                                   => u[i] = Ok(Rest(k))}
<1>1. n \in Nat \ {0} /\ \A k \in 1 .. n : rs[k] \in WholeRecords
  BY LenProperties, ElementOfSeq, EmptySeq
<1>2. Rest(0) = <<>>
  <2>1. n - 0 + 1 = n + 1 /\ n + 1 \in Int /\ n \in Int /\ n < n + 1
    BY <1>1
  <2>2. QED
    BY <2>1, SubSeqEmpty
<1>3. ASSUME NEW k \in 1 .. n
      PROVE  Rest(k) = <<rs[n - k + 1]>> \o Rest(k - 1) /\ Rest(k - 1) \in Seq(WholeRecords)
  <2>1. n - k + 1 \in 1 .. n /\ n \in n - k + 1 .. n /\ n - (k - 1) + 1 = (n - k + 1) + 1
    BY <1>1
  <2>2. SubSeq(rs, n - k + 1, n) = <<rs[n - k + 1]>> \o SubSeq(rs, (n - k + 1) + 1, n)
    BY <2>1, SubSeqRecursiveFirst DEF n
  <2>3. SubSeq(rs, (n - k + 1) + 1, n) \in Seq(WholeRecords)
    <3>1. \A j \in (n - k + 1) + 1 .. n : rs[j] \in WholeRecords
      BY <1>1, <2>1
    <3>2. (n - k + 1) + 1 \in Int /\ n \in Int
      BY <1>1
    <3> HIDE DEF n
    <3>3. QED
      BY <3>1, <3>2, SubSeqProperties
  <2>4. QED
    BY <2>1, <2>2, <2>3
<1>4. Rest(n) = rs
  <2>1. n - n + 1 = 1
    BY <1>1
  <2>2. QED
    BY <2>1, SubSeqFull
<1> HIDE DEF n, Rest
<1>5. ASSUME NEW k \in T, \A j \in T : k <= j PROVE FALSE
  <2>1. PICK u, i : /\ u = Framing(p, u)
                    /\ BehindIs(p, i, FlattenSeq(EachBytes(Rest(k))))
                    /\ u[i] # Ok(Rest(k))
    OBVIOUS
  <2>2. k \in 0 .. n
    OBVIOUS
  <2>3. i \in 1 .. Len(p) + 1 /\ Len(p) \in Nat
    BY <2>1, LenProperties DEF BehindIs
  <2>4. u[i] = FramedFrom(p, u, i)
    BY <2>1, <2>3 DEF Framing
  <2>5. CASE k = 0
    <3>1. EachBytes(<<>>) = <<>> /\ Len(<<>>) = 0
      BY DEF EachBytes
    <3>2. FlattenSeq(EachBytes(Rest(k))) = <<>>
      BY <1>2, <2>5, <3>1, FlattenIs
    <3>3. Len(p) - i + 1 = 0
      BY <2>1, <3>1, <3>2 DEF BehindIs
    <3>4. i > Len(p)
      BY <2>3, <3>3
    <3>5. u[i] = Ok(<<>>)
      BY <2>4, <3>4, FramedCases
    <3>6. QED
      BY <1>2, <2>1, <2>5, <3>5
  <2>6. CASE k # 0
    <3> DEFINE r == rs[n - k + 1]
               vs == Rest(k - 1)
               q == FlattenSeq(EachBytes(vs))
               m == NextAt(p, i)
    <3>1. k \in 1 .. n /\ n - k + 1 \in 1 .. n /\ k - 1 \in 0 .. n /\ ~(k <= k - 1)
      BY <1>1, <2>2, <2>6
    <3>2. Rest(k) = <<r>> \o vs /\ vs \in Seq(WholeRecords) /\ r \in WholeRecords
      BY <1>1, <1>3, <3>1
    <3>3. k - 1 \notin T
      BY <1>5, <3>1
    <3>4. \A i1 : BehindIs(p, i1, q) => u[i1] = Ok(vs)
      BY <2>1, <3>1, <3>3
    <3> HIDE DEF r, vs
    <3>5. /\ EachBytes(vs) \in Seq(Seq(Byte))
          /\ EachBytes(<<r>> \o vs) = <<RecordBytes(r)>> \o EachBytes(vs)
          /\ RecordBytes(r) \in Seq(Byte)
      <4>1. RecordBytes(r) \in Seq(Byte)
        BY <3>2, RecordBytesAre
      <4>2. QED
        BY <3>2, <4>1, BytesFront
    <3>6. q \in Seq(Byte) /\ FlattenSeq(EachBytes(<<r>> \o vs)) = RecordBytes(r) \o q
      BY <3>5, FlattenFront
    <3> HIDE DEF q
    <3>7. BehindIs(p, i, RecordBytes(r) \o q)
      BY <2>1, <3>2, <3>6
    <3>8. /\ ~(i > Len(p)) /\ RecordIsAt(p, i)
          /\ RecordAt(p, i) = r
          /\ BehindIs(p, m, q)
      BY <3>2, <3>6, <3>7, RecordRead
    <3>9. u[m] = Ok(vs)
      BY <3>4, <3>8
    <3>10. IsOk(u[m]) /\ u[m].value = vs
      BY <3>9, Answers
    <3>11. u[i] = Ok(<<r>> \o vs)
      BY <2>4, <3>8, <3>10, FramedCases
    <3>12. QED
      BY <2>1, <3>2, <3>11
  <2>7. QED
    BY <2>5, <2>6
<1>6. T = {}
  <2>1. T \in SUBSET Nat
    BY <1>1
  <2> HIDE DEF T
  <2>2. QED
    BY <1>5, <2>1, LeastNumber
<1>7. PICK u : u = Framing(p, u) /\ RecordsOf(p) = IF Len(p) < RECORD_HEADER_LEN THEN Err("Framing") ELSE u[1]
  BY RecordsFramed
<1>8. BehindIs(p, 1, p)
  <2>1. Len(p) \in Nat
    BY LenProperties
  <2>2. 1 \in 1 .. Len(p) + 1 /\ Len(p) - 1 + 1 = Len(p) /\ \A j \in 1 .. Len(p) : 1 + j - 1 = j
    BY <2>1
  <2>3. QED
    BY <2>2 DEF BehindIs
<1>9. u[1] = Ok(rs)
  <2>1. n \in 0 .. n
    BY <1>1
  <2>2. n \notin T
    BY <1>6
  <2>3. QED
    BY <1>4, <1>7, <1>8, <2>1, <2>2
<1>10. ~(Len(p) < 3)
  <2>1. 1 \in 1 .. Len(p) + 1 /\ Len(p) \in Nat
    BY <1>8 DEF BehindIs
  <2> SUFFICES ASSUME Len(p) < 3 PROVE FALSE
    OBVIOUS
  <2>2. ~RecordIsAt(p, 1)
    BY <2>1 DEF RecordIsAt, RECORD_HEADER_LEN
  <2>3. u[1] = FramedFrom(p, u, 1)
    BY <1>7, <2>1 DEF Framing
  <2>4. 1 > Len(p)
    <3>1. IsOk(u[1])
      BY <1>9, Answers
    <3>2. QED
      BY <2>1, <2>2, <2>3, <3>1, FramedCases
  <2>5. u[1] = Ok(<<>>)
    BY <2>3, <2>4, FramedCases
  <2>6. Ok(rs).value = rs /\ Ok(<<>>).value = <<>>
    BY Answers
  <2>7. QED
    BY <1>9, <2>5, <2>6
<1>11. QED
  BY <1>7, <1>9, <1>10 DEF RECORD_HEADER_LEN

-----------------------------------------------------------------------------
\* What encode lets out is what it seals, and no body of it is empty or too large.
LEMMA EncodeSeals ==
    ASSUME NEW d, NEW limit, IsOk(Encode(d, secret, epoch, n2c, limit))
    PROVE  /\ Encode(d, secret, epoch, n2c, limit)
                = Sealed(d, EpochKey(secret, d.sender_id, epoch, n2c), epoch, Payload(d))
           /\ \A i \in DOMAIN d.records : Len(d.records[i].body) \in 1 .. MAX_BODY
<1> DEFINE room == WireLen(d)
           out == EncodeInto(d, secret, epoch, n2c, room)
           large == \E i \in DOMAIN d.records : Len(d.records[i].body) \notin 1 .. MAX_BODY
           sealed == Sealed(d, EpochKey(secret, d.sender_id, epoch, n2c), epoch, Payload(d))
<1>1. Encode(d, secret, epoch, n2c, limit)
        = IF d.cipher_id \notin CipherIds THEN Err("CipherUnimplemented")
          ELSE IF IsOk(out) /\ room > limit THEN Err("Oversize") ELSE out
  BY DEF Encode
<1>2. out = IF d.cipher_id \notin CipherIds THEN Err("CipherUnimplemented")
            ELSE IF room < room THEN Err("BufferTooSmall")
            ELSE IF large THEN Err("BodyTooLarge")
            ELSE sealed
  BY Zenon DEF EncodeInto
<1>3. /\ ~IsOk(Err("CipherUnimplemented")) /\ ~IsOk(Err("Oversize"))
      /\ ~IsOk(Err("BufferTooSmall")) /\ ~IsOk(Err("BodyTooLarge"))
  BY Answers
<1>4. (~large) <=> \A i \in DOMAIN d.records : Len(d.records[i].body) \in 1 .. MAX_BODY
  OBVIOUS
<1> HIDE DEF out, large, sealed, room
<1>5. Encode(d, secret, epoch, n2c, limit) = out /\ IsOk(out)
  BY <1>1, <1>3, Zenon
<1>6. out = sealed /\ ~large
  BY <1>2, <1>3, <1>5, Zenon
<1>7. QED
  BY <1>4, <1>5, <1>6 DEF sealed

\* What a constructor lets a datagram carry, by its type: records as the caller gave
\* them, one only in an EVENT or ALARM; or octets that step 9 accepts.
Carried(mt, off, records, raw) ==
    IF IsRecordFramed(mt)
    THEN /\ records \in Seq(RecordSet) /\ records # <<>> /\ raw = <<>>
         /\ SingleRecord(mt) => ~(Len(records) > 1)
    ELSE records = <<>> /\ raw \in Seq(Byte) /\ IsOk(Framed(mt, raw, off))

\* A datagram as the constructors make it for the harness.
Buildable(d) ==
    \E mt \in MsgTypes, cipher \in Ciphers, off \in 0 .. TICKS_PER_EPOCH - 1 :
        d = Carrying(mt, cipher, off, 0, d.records, d.raw) /\ Carried(mt, off, d.records, d.raw)

\* The fields of a datagram.
LEMMA CarryingIs ==
    ASSUME NEW mt, NEW cipher, NEW off, NEW records, NEW raw, NEW d,
           d = Carrying(mt, cipher, off, 0, records, raw)
    PROVE  d.records = records /\ d.raw = raw /\ d.cipher_id = cipher /\ d.sender_id = id
           /\ d.msg_type = mt
BY DEF Carrying

\* A constructor that sets the records of Base, or its octets, and nothing else.
LEMMA BaseIs ==
    ASSUME NEW mt, NEW cipher, NEW off, NEW x
    PROVE  /\ [Base(mt, cipher, id, epoch, off) EXCEPT !.records = x]
                = Carrying(mt, cipher, off, 0, x, <<>>)
           /\ [Base(mt, cipher, id, epoch, off) EXCEPT !.raw = x]
                = Carrying(mt, cipher, off, 0, <<>>, x)
<1> DEFINE low == Epoch!LowBits(epoch)
<1>1. Base(mt, cipher, id, epoch, off) =
        [version |-> VERSION, msg_type |-> mt, cipher_id |-> cipher,
         epoch_low |-> low, reserved |-> 0, datagram_offset |-> off, sender_id |-> id,
         records |-> <<>>, raw |-> <<>>]
  BY DEF Base
<1>2. \A records, raw : Carrying(mt, cipher, off, 0, records, raw) =
        [version |-> VERSION, msg_type |-> mt, cipher_id |-> cipher,
         epoch_low |-> low, reserved |-> 0, datagram_offset |-> off, sender_id |-> id,
         records |-> records, raw |-> raw]
  BY DEF Carrying
<1> HIDE DEF low
<1>3. QED
  BY <1>1, <1>2

\* One of the offsets of the harness that is not refused.
LEMMA EdgeIs ==
    ASSUME NEW off \in EdgeOffsets, ~(off >= TICKS_PER_EPOCH)
    PROVE  off \in 0 .. TICKS_PER_EPOCH - 1
<1> DEFINE t == TICKS_PER_EPOCH
<1>1. off \in {0, t - 1, t} /\ t \in Nat /\ FuzzOffset \in 0 .. t - 1 /\ ~(off >= t)
  BY TicksNat, HarnessAssumption DEF EdgeOffsets
<1> HIDE DEF t
<1>2. off \in 0 .. t - 1
  BY <1>1
<1>3. QED
  BY <1>2 DEF t

\* What each constructor makes.
LEMMA CarryingBuildable ==
    ASSUME NEW mt \in MsgTypes, NEW cipher \in Ciphers, NEW off \in 0 .. TICKS_PER_EPOCH - 1,
           NEW records, NEW raw, Carried(mt, off, records, raw),
           NEW d, d = Carrying(mt, cipher, off, 0, records, raw)
    PROVE  Buildable(d)
<1>1. d.records = records /\ d.raw = raw
  BY CarryingIs
<1>2. d = Carrying(mt, cipher, off, 0, d.records, d.raw) /\ Carried(mt, off, d.records, d.raw)
  BY <1>1
<1>3. QED
  BY <1>2 DEF Buildable

\* Datagram::data.
LEMMA DataBuilds ==
    ASSUME NEW mt \in MsgTypes, NEW cipher \in Ciphers, NEW off \in EdgeOffsets,
           NEW records \in Seq(RecordSet), IsOk(Data(mt, cipher, id, epoch, off, records))
    PROVE  Buildable(Data(mt, cipher, id, epoch, off, records).value)
<1> DEFINE d == [Base(mt, cipher, id, epoch, off) EXCEPT !.records = records]
           bad == \/ ~IsRecordFramed(mt)
                  \/ records = <<>>
                  \/ SingleRecord(mt) /\ Len(records) > 1
                  \/ off >= TICKS_PER_EPOCH
<1>1. Data(mt, cipher, id, epoch, off, records) = IF bad THEN Err("Framing") ELSE Ok(d)
  BY Zenon DEF Data
<1>2. ~IsOk(Err("Framing")) /\ Ok(d).value = d
  BY Answers
<1>3. d = Carrying(mt, cipher, off, 0, records, <<>>)
  BY BaseIs
<1>4. ~bad => /\ IsRecordFramed(mt) /\ records # <<>> /\ ~(off >= TICKS_PER_EPOCH)
              /\ SingleRecord(mt) => ~(Len(records) > 1)
  OBVIOUS
<1> HIDE DEF d, bad
<1>5. ~bad /\ Data(mt, cipher, id, epoch, off, records).value = d
  BY <1>1, <1>2, Zenon
<1>6. off \in 0 .. TICKS_PER_EPOCH - 1
  BY <1>4, <1>5, EdgeIs
<1>7. Carried(mt, off, records, <<>>)
  BY <1>4, <1>5 DEF Carried
<1>8. Buildable(d)
  BY <1>3, <1>6, <1>7, CarryingBuildable
<1>9. QED
  BY <1>5, <1>8

\* Datagram::number.
LEMMA NumberBuilds ==
    ASSUME NEW cipher \in Ciphers, NEW off \in EdgeOffsets, NEW scale \in Byte,
           NEW mantissa \in Int, IsOk(Number(cipher, id, epoch, off, scale, mantissa))
    PROVE  Buildable(Number(cipher, id, epoch, off, scale, mantissa).value)
<1> DEFINE p == <<scale>> \o U16Bytes(mantissa)
           d == [Base(NUMBER, cipher, id, epoch, off) EXCEPT !.raw = p]
           made == Number(cipher, id, epoch, off, scale, mantissa)
<1>1. made = IF ~ScaleIsValid(scale) THEN Err("BadNumber")
             ELSE IF off >= TICKS_PER_EPOCH THEN Err("Framing")
             ELSE Ok(d)
  BY Zenon DEF Number
<1>2. ~IsOk(Err("Framing")) /\ ~IsOk(Err("BadNumber")) /\ Ok(d).value = d
  <2>1. ~IsOk(Err("Framing")) /\ ~IsOk(Err("BadNumber"))
    BY Answers
  <2> HIDE DEF d
  <2>2. Ok(d).value = d
    BY Answers
  <2>3. QED
    BY <2>1, <2>2
<1>3. d = Carrying(NUMBER, cipher, off, 0, <<>>, p)
  <2> HIDE DEF p
  <2>1. QED
    BY BaseIs
<1>4. IsOk(made)
  OBVIOUS
<1> HIDE DEF d, made
<1>5. ScaleIsValid(scale) /\ ~(off >= TICKS_PER_EPOCH) /\ made.value = d
  BY <1>1, <1>2, <1>4, Zenon
<1>6. off \in 0 .. TICKS_PER_EPOCH - 1
  BY <1>5, EdgeIs
<1>7. p \in Seq(Byte) /\ Len(p) = 3 /\ p[1] = scale
  <2>1. High(mantissa) \in Byte /\ Low(mantissa) \in Byte
        /\ U16Bytes(mantissa) = <<High(mantissa), Low(mantissa)>>
    BY OctetsOf
  <2> DEFINE h == High(mantissa)
             l == Low(mantissa)
  <2> HIDE DEF h, l
  <2>2. p = <<scale>> \o <<h, l>> /\ h \in Byte /\ l \in Byte
    BY <2>1 DEF h, l
  <2> HIDE DEF p
  <2>3. <<scale>> \in Seq(Byte) /\ <<h, l>> \in Seq(Byte) /\ Len(<<scale>>) = 1 /\ Len(<<h, l>>) = 2
    BY <2>2
  <2>4. p \in Seq(Byte) /\ Len(p) = Len(<<scale>>) + Len(<<h, l>>) /\ p[1] = <<scale>>[1]
    BY <2>2, <2>3, ConcatProperties
  <2>5. QED
    BY <2>3, <2>4
<1> HIDE DEF p
<1>8. IsOk(ValidateNumber(p))
  <2>1. ValidateNumber(p) = Ok(<<p[1], I16(p, 2)>>)
    BY <1>5, <1>7 DEF ValidateNumber, NUMBER_PAYLOAD_LEN
  <2>2. QED
    BY <2>1, Answers
<1>9. NUMBER \in MsgTypes /\ ~IsRecordFramed(NUMBER)
  BY DEF MsgTypes, IsRecordFramed, NUMBER, MESSAGE, EVENT, ALARM
<1>10. IsOk(Framed(NUMBER, p, off))
  BY <1>8, <1>9 DEF Framed
<1>11. Carried(NUMBER, off, <<>>, p)
  BY <1>7, <1>9, <1>10 DEF Carried
<1>12. Buildable(d)
  BY <1>3, <1>6, <1>9, <1>11, CarryingBuildable
<1>13. QED
  BY <1>5, <1>12 DEF made

\* Datagram::series.
LEMMA SeriesBuilds ==
    ASSUME NEW cipher \in Ciphers, NEW scale \in {1, 7, 8}, NEW rs \in ReadingSeqs,
           IsOk(Series(cipher, id, epoch, scale, rs))
    PROVE  Buildable(Series(cipher, id, epoch, scale, rs).value)
<1> DEFINE p == SeriesPayload(scale, rs)
           off == rs[1][1]
           d == [Base(SERIES, cipher, id, epoch, off) EXCEPT !.raw = p]
           made == Series(cipher, id, epoch, scale, rs)
<1>1. ~(Len(rs) < 2) /\ made = Ok(d)
  <2> DEFINE bad == \/ \E k \in 2 .. Len(rs) : rs[k][1] - rs[k - 1][1] \notin 1 .. U16_MAX
                    \/ Last(rs)[1] >= TICKS_PER_EPOCH
  <2>1. made = IF ~ScaleIsValid(scale) \/ Len(rs) < 2 THEN Err("BadSeries")
               ELSE IF off >= TICKS_PER_EPOCH THEN Err("Framing")
               ELSE IF bad THEN Err("BadSeries")
               ELSE Ok(d)
    BY Zenon DEF Series
  <2>2. ~IsOk(Err("Framing")) /\ ~IsOk(Err("BadSeries"))
    BY Answers
  <2>3. IsOk(made)
    OBVIOUS
  <2> HIDE DEF bad, d, made, off
  <2>4. QED
    BY <2>1, <2>2, <2>3, Zenon
<1>2. made.value = d
  BY <1>1, Answers
<1>3. PICK n \in Nat \ {0} : Batch(rs, n) /\ MantissasFit(rs, n) /\ rs = Read(rs, n)
  BY <1>1, ReadingSeqsAre
<1>4. SeriesBuilt(made, scale, rs, n)
  BY <1>3, SeriesIs
<1>5. Sendable(scale, rs, n)
  BY <1>4 DEF SeriesBuilt
<1>6. scale \in Byte
  BY DEF Byte
<1>7. ValidateSeries(p, off) = Ok([scale |-> p[1], readings |-> Read(rs, n)])
  BY <1>3, <1>5, <1>6, SeriesDecoded
<1>8. p \in Seq(Byte)
  BY <1>3, <1>6, SeriesLaidOut DEF LaidOut
<1>9. d = Carrying(SERIES, cipher, off, 0, <<>>, p)
  BY BaseIs
<1>10. off \in 0 .. TICKS_PER_EPOCH - 1
  <2>1. PICK m \in 1 .. 3 : \E at \in [1 .. m -> SeriesInstantSet] :
            rs = [k \in 1 .. m |-> <<at[k], 7 - 8 * k>>] /\ Len(rs) = m
    BY ReadingsIn
  <2>2. PICK at \in [1 .. m -> SeriesInstantSet] : rs = [k \in 1 .. m |-> <<at[k], 7 - 8 * k>>]
    BY <2>1
  <2>3. 1 \in 1 .. m
    OBVIOUS
  <2>4. rs[1][1] = at[1] /\ at[1] \in SeriesInstantSet
    BY <2>2, <2>3
  <2>5. off \in Nat
    BY <2>4, HarnessAssumption
  <2>6. ~(off >= TICKS_PER_EPOCH)
    BY <1>5 DEF Sendable
  <2> HIDE DEF off
  <2>7. QED
    BY <2>5, <2>6, TicksNat
<1> HIDE DEF d, made, p, off
<1>11. SERIES \in MsgTypes /\ ~IsRecordFramed(SERIES) /\ SERIES # NUMBER
  BY DEF MsgTypes, IsRecordFramed, NUMBER, SERIES, MESSAGE, EVENT, ALARM
<1>12. IsOk(Framed(SERIES, p, off))
  BY <1>7, <1>11, Answers DEF Framed
<1>13. Carried(SERIES, off, <<>>, p)
  BY <1>8, <1>11, <1>12 DEF Carried
<1>14. Buildable(d)
  BY <1>9, <1>10, <1>11, <1>13, CarryingBuildable
<1>15. QED
  BY <1>2, <1>14 DEF made

\* Datagram::control.
LEMMA ControlBuilds ==
    ASSUME NEW mt \in MsgTypes, NEW cipher \in Ciphers, NEW off \in EdgeOffsets,
           NEW body \in Seq(Byte), IsOk(ControlDatagram(mt, cipher, id, epoch, off, body))
    PROVE  Buildable(ControlDatagram(mt, cipher, id, epoch, off, body).value)
<1> DEFINE d == [Base(mt, cipher, id, epoch, off) EXCEPT !.raw = body]
           made == ControlDatagram(mt, cipher, id, epoch, off, body)
<1>1. made = IF ~IsControl(mt) \/ off >= TICKS_PER_EPOCH THEN Err("Framing") ELSE Ok(d)
  BY Zenon DEF ControlDatagram
<1>2. ~IsOk(Err("Framing")) /\ Ok(d).value = d
  BY Answers
<1>3. d = Carrying(mt, cipher, off, 0, <<>>, body)
  BY BaseIs
<1>4. IsOk(made)
  OBVIOUS
<1> HIDE DEF d, made
<1>5. IsControl(mt) /\ ~(off >= TICKS_PER_EPOCH) /\ made.value = d
  BY <1>1, <1>2, <1>4, Zenon
<1>6. off \in 0 .. TICKS_PER_EPOCH - 1
  BY <1>5, EdgeIs
<1>7. ~IsRecordFramed(mt) /\ mt # NUMBER /\ mt # SERIES
  BY <1>5 DEF IsControl, IsRecordFramed, NUMBER, SERIES, MESSAGE, EVENT, ALARM
<1>8. IsOk(Framed(mt, body, off))
  BY <1>7, Answers DEF Framed
<1>9. Carried(mt, off, <<>>, body)
  BY <1>7, <1>8 DEF Carried
<1>10. Buildable(d)
  BY <1>3, <1>6, <1>9, CarryingBuildable
<1>11. QED
  BY <1>5, <1>10 DEF made

-----------------------------------------------------------------------------
\* What the caller's datagram became on the wire, and the answer to it.
Delivered(d, a) ==
    LET wire == Encode(d, secret, epoch, n2c, 65535)
    IN  IsOk(wire) /\ a = Answer(wire.value, d.cipher_id)

\* What the harness remembers of a datagram that a caller built and sent.
BuiltInv == input.kind = "built" => Buildable(input.datagram) /\ Delivered(input.datagram, answer)

\* Whatever a caller gives to a constructor, BuiltInv holds after Build.
LEMMA BuildKeeps ==
    ASSUME NEW built, NEW readings, IsOk(built) => Buildable(built.value), Build(built, readings)
    PROVE  BuiltInv'
<1> DEFINE d == built.value
           wire == Encode(d, secret, epoch, n2c, 65535)
<1>1. /\ IsOk(built) /\ IsOk(wire)
      /\ input' = [kind |-> "built", datagram |-> d, readings |-> readings]
      /\ answer' = Answer(wire.value, d.cipher_id)
  BY DEF Build
<1>2. Buildable(d)
  BY <1>1
<1>3. Delivered(d, answer')
  BY <1>1 DEF Delivered
<1> HIDE DEF d
<1>4. input'.datagram = d
  BY <1>1
<1>5. QED
  BY <1>2, <1>3, <1>4, Zenon DEF BuiltInv

\* BuiltInv is an invariant: only the constructors make an input of this kind.
LEMMA BuiltInvHolds == Spec => []BuiltInv
<1>1. Init => BuiltInv
  BY DEF Init, BuiltInv, NoInput
<1>2. FuzzInv /\ BuiltInv /\ [Next]_vars => BuiltInv'
  <2> SUFFICES ASSUME FuzzInv, BuiltInv, [Next]_vars PROVE BuiltInv'
    OBVIOUS
  <2>1. CASE ReadVector
    <3>1. line' = line + 1 /\ line < Len(VectorFile) /\ input' = VectorFile[line + 1]
      BY <2>1 DEF ReadVector
    <3>2. line + 1 \in 1 .. Len(VectorFile)
      BY <3>1, HarnessAssumption DEF FuzzInv
    <3>3. input'.kind # "built"
      BY <3>1, <3>2, HarnessAssumption
    <3>4. QED
      BY <3>3 DEF BuiltInv
  <2>2. ASSUME NEW mt \in FuzzTypes, NEW p \in Payloads, FuzzDecode(mt, p)
        PROVE  BuiltInv'
    <3>1. input'.kind = "fuzz"
      BY <2>2 DEF FuzzDecode
    <3>2. QED
      BY <3>1 DEF BuiltInv
  <2>3. ASSUME NEW rs \in {<<>>} \cup {<<r>> : r \in RecordSet} \cup (RecordSet \X RecordSet),
               BuildData(rs)
        PROVE  BuiltInv'
    <3>1. rs \in Seq(RecordSet)
      <4>1. CASE rs = <<>>
        BY <4>1
      <4>2. ASSUME NEW r \in RecordSet, rs = <<r>> PROVE rs \in Seq(RecordSet)
        BY <4>2
      <4>3. ASSUME NEW r \in RecordSet, NEW q \in RecordSet, rs = <<r, q>>
            PROVE  rs \in Seq(RecordSet)
        BY <4>3
      <4>4. QED
        BY <4>1, <4>2, <4>3
    <3>2. PICK mt \in MsgTypes, cipher \in Ciphers, off \in EdgeOffsets :
              Build(Data(mt, cipher, id, epoch, off, rs), <<>>)
      BY <2>3 DEF BuildData
    <3>3. QED
      BY <3>1, <3>2, DataBuilds, BuildKeeps
  <2>4. ASSUME NEW scale \in Scales, NEW mantissa \in Mantissas, BuildNumber(scale, mantissa)
        PROVE  BuiltInv'
    <3>1. scale \in Byte
      BY DEF Scales, Byte
    <3>2. mantissa \in Int
      BY DEF Mantissas
    <3>3. PICK cipher \in Ciphers, off \in EdgeOffsets :
              Build(Number(cipher, id, epoch, off, scale, mantissa), <<>>)
      BY <2>4 DEF BuildNumber
    <3>4. QED
      BY <3>1, <3>2, <3>3, NumberBuilds, BuildKeeps
  <2>5. ASSUME NEW scale \in {1, 7, 8}, NEW rs \in ReadingSeqs, BuildSeries(scale, rs)
        PROVE  BuiltInv'
    <3>1. PICK cipher \in Ciphers : Build(Series(cipher, id, epoch, scale, rs), rs)
      BY <2>5 DEF BuildSeries
    <3>2. QED
      BY <3>1, SeriesBuilds, BuildKeeps
  <2>6. ASSUME NEW mt \in MsgTypes, NEW body \in {<<>>, <<1, 0, 0>>}, BuildControl(mt, body)
        PROVE  BuiltInv'
    <3>1. body \in Seq(Byte)
      <4>1. 0 \in Byte /\ 1 \in Byte
        BY DEF Byte
      <4>2. <<>> \in Seq(Byte) /\ <<1, 0, 0>> \in Seq(Byte)
        BY <4>1
      <4>3. QED
        BY <4>2
    <3>2. PICK cipher \in Ciphers, off \in EdgeOffsets :
              Build(ControlDatagram(mt, cipher, id, epoch, off, body), <<>>)
      BY <2>6 DEF BuildControl
    <3>3. QED
      BY <3>1, <3>2, ControlBuilds, BuildKeeps
  <2>7. CASE UNCHANGED vars
    BY <2>7 DEF BuiltInv, vars
  <2>8. QED
    BY <2>1, <2>2, <2>3, <2>4, <2>5, <2>6, <2>7 DEF Next
<1>3. QED
  BY <1>1, <1>2, FuzzInvHolds, PTL DEF Spec

\* The largest body has a size below 2^12.
LEMMA MaxBody == MAX_BODY \in Int /\ \A x \in Int : x <= MAX_BODY => x < 4096
BY DEF MAX_BODY

\* Records of the harness that encode and decode both let pass.
LEMMA RecordsWhole ==
    ASSUME NEW rs \in Seq(RecordSet),
           \A i \in DOMAIN rs : Len(rs[i].body) \in 1 .. MAX_BODY,
           ~\E i \in DOMAIN rs : rs[i].schema_version = 0
    PROVE  /\ rs \in Seq(WholeRecords)
           /\ \A cipher : \A k \in 1 .. Len(rs) : Held(Peer(id, cipher, PermissiveLayouts), rs[k])
<1>1. ASSUME NEW k \in 1 .. Len(rs)
      PROVE  /\ rs[k] \in WholeRecords
             /\ \A cipher : Held(Peer(id, cipher, PermissiveLayouts), rs[k])
  <2>1. k \in DOMAIN rs /\ rs[k] \in RecordSet
    BY ElementOfSeq, LenProperties
  <2>2. PICK r : r = rs[k]
    OBVIOUS
  <2>3. r \in [format : Formats, schema_version : Byte, body : Seq(Byte)]
    BY <2>1, <2>2, HarnessAssumption
  <2>4. Len(r.body) \in 1 .. MAX_BODY /\ r.schema_version # 0
    BY <2>1, <2>2
  <2>5. r.format \in 1 .. 15
    BY <2>3 DEF Formats
  <2>6. r.schema_version \in 1 .. 255
    BY <2>3, <2>4 DEF Byte
  <2>7. 0 < Len(r.body) /\ Len(r.body) < 4096
    <3>1. MAX_BODY \in Int /\ \A x \in Int : x <= MAX_BODY => x < 4096
      BY MaxBody
    <3>2. Len(r.body) \in Int /\ 1 <= Len(r.body) /\ Len(r.body) <= MAX_BODY
      BY <2>4, <3>1
    <3>3. QED
      BY <3>1, <3>2
  <2>8. r \in WholeRecords
    BY <2>3, <2>5, <2>6, <2>7 DEF WholeRecords
  <2>9. <<r.format, r.schema_version>> \in PermissiveLayouts
    BY <2>3 DEF PermissiveLayouts
  <2>10. \A cipher : Held(Peer(id, cipher, PermissiveLayouts), r)
    BY <2>9 DEF Held, Peer
  <2>11. QED
    BY <2>2, <2>8, <2>10
<1>2. rs \in [1 .. Len(rs) -> WholeRecords] /\ Len(rs) \in Nat
  BY <1>1, LenProperties
<1>3. QED
  BY <1>1, <1>2

\* The payload of a datagram that was built frames into what it was built of.
LEMMA BuiltFrames ==
    ASSUME NEW mt, NEW cipher, NEW off, NEW records, NEW raw, Carried(mt, off, records, raw),
           NEW d, d = Carrying(mt, cipher, off, 0, records, raw), ~NotForDecode(d),
           \A i \in DOMAIN records : Len(records[i].body) \in 1 .. MAX_BODY
    PROVE  /\ Payload(d) \in Seq(Byte)
           /\ IsOk(Framed(mt, Payload(d), off))
           /\ FramedRecords(mt, Framed(mt, Payload(d), off)) = records
           /\ RawOf(mt, Payload(d)) = raw
           /\ records \in Seq(WholeRecords)
           /\ \A k \in 1 .. Len(records) : Held(Peer(id, cipher, PermissiveLayouts), records[k])
<1>1. d.records = records /\ d.raw = raw /\ d.msg_type = mt
  BY CarryingIs
<1>2. CASE IsRecordFramed(mt)
  <2>1. /\ records \in Seq(RecordSet) /\ records # <<>> /\ raw = <<>>
        /\ SingleRecord(mt) => ~(Len(records) > 1)
    BY <1>2 DEF Carried
  <2>2. ~\E i \in DOMAIN records : records[i].schema_version = 0
    BY <1>1 DEF NotForDecode
  <2>3. /\ records \in Seq(WholeRecords)
        /\ \A k \in 1 .. Len(records) : Held(Peer(id, cipher, PermissiveLayouts), records[k])
    BY <2>1, <2>2, RecordsWhole
  <2> DEFINE p == FlattenSeq(EachBytes(records))
             framed == Framed(mt, p, off)
  <2>4. Payload(d) = p
    BY <1>1, <2>1 DEF Payload, EachBytes
  <2>5. p \in Seq(Byte)
    BY <2>1, <2>3, RecordsMeasured
  <2> HIDE DEF p
  <2>6. RecordsOf(p) = Ok(records)
    BY <2>1, <2>3, <2>5, RecordsFramedAgain DEF p
  <2>7. framed = Ok(records)
    BY <1>2, <2>1, <2>6, Answers DEF Framed
  <2>8. IsOk(framed) /\ FramedRecords(mt, framed) = records
    BY <1>2, <2>7, Answers DEF FramedRecords
  <2>9. RawOf(mt, p) = raw
    BY <1>2, <2>1 DEF RawOf
  <2>10. QED
    BY <2>3, <2>4, <2>5, <2>8, <2>9
<1>3. CASE ~IsRecordFramed(mt)
  <2>1. records = <<>> /\ raw \in Seq(Byte) /\ IsOk(Framed(mt, raw, off))
    BY <1>3 DEF Carried
  <2>2. Payload(d) = raw
    BY <1>1, <2>1 DEF Payload
  <2>3. FramedRecords(mt, Framed(mt, raw, off)) = records /\ RawOf(mt, raw) = raw
    BY <1>3, <2>1 DEF FramedRecords, RawOf
  <2>4. records \in Seq(WholeRecords) /\ Len(records) = 0
    BY <2>1
  <2>5. QED
    BY <2>1, <2>2, <2>3, <2>4
<1>4. QED
  BY <1>2, <1>3

\* Sealed answers Ok with a buffer, or passes on the error of the MAC.
LEMMA SealedIsOk ==
    ASSUME NEW d, NEW key, NEW epoch_id, NEW payload, IsOk(Sealed(d, key, epoch_id, payload))
    PROVE  Sealed(d, key, epoch_id, payload) = Ok(Sealed(d, key, epoch_id, payload).value)
<1> DEFINE tag == Mac(d.cipher_id, key, AuthHeader(d, epoch_id) \o payload, d.datagram_offset)
           buf == [octets |-> HeaderBytes(d) \o payload, tag |-> tag.value]
           sealed == Sealed(d, key, epoch_id, payload)
<1>1. sealed = IF IsOk(tag) THEN Ok(buf) ELSE tag
  BY Zenon DEF Sealed
<1> HIDE DEF tag, buf
<1>2. sealed = Ok(buf)
  BY <1>1, Zenon
<1>3. Ok(buf).value = buf
  BY Answers
<1>4. QED
  BY <1>2, <1>3

\* What the harness remembers settles that what was built arrives as it was built.
LEMMA BuiltInvArrives == BuiltInv => BuiltIsAccepted
<1> SUFFICES ASSUME BuiltInv, input.kind = "built", ~NotForDecode(input.datagram)
             PROVE  /\ IsOk(answer)
                    /\ answer.value.datagram = input.datagram
                    /\ answer.value.skipped = <<>>
  BY DEF BuiltIsAccepted
<1>1. PICK d, a : d = input.datagram /\ a = answer
  OBVIOUS
<1>2. Buildable(d) /\ Delivered(d, a) /\ ~NotForDecode(d)
  BY <1>1 DEF BuiltInv
<1>3. PICK mt \in MsgTypes, cipher \in Ciphers, off \in 0 .. TICKS_PER_EPOCH - 1 :
          d = Carrying(mt, cipher, off, 0, d.records, d.raw) /\ Carried(mt, off, d.records, d.raw)
  BY <1>2 DEF Buildable
<1>4. PICK records, raw : records = d.records /\ raw = d.raw
  OBVIOUS
<1>5. d = Carrying(mt, cipher, off, 0, records, raw) /\ Carried(mt, off, records, raw)
  BY <1>3, <1>4
<1>6. d.cipher_id = cipher /\ d.sender_id = id /\ d.msg_type = mt
  BY <1>5, CarryingIs
<1> DEFINE wire == Encode(d, secret, epoch, n2c, 65535)
           key == EpochKey(secret, id, epoch, n2c)
           p == Payload(d)
           peer == Peer(id, cipher, PermissiveLayouts)
<1>7. IsOk(wire) /\ a = Answer(wire.value, cipher)
  BY <1>2, <1>6 DEF Delivered
<1>8. /\ wire = Sealed(d, key, epoch, p)
      /\ \A i \in DOMAIN records : Len(records[i].body) \in 1 .. MAX_BODY
  BY <1>4, <1>6, <1>7, EncodeSeals
<1> HIDE DEF wire
<1>9. /\ p \in Seq(Byte)
      /\ IsOk(Framed(mt, p, off))
      /\ FramedRecords(mt, Framed(mt, p, off)) = records
      /\ RawOf(mt, p) = raw
      /\ records \in Seq(WholeRecords)
      /\ \A k \in 1 .. Len(records) : Held(peer, records[k])
  BY <1>2, <1>5, <1>8, BuiltFrames
<1> HIDE DEF p, peer
<1>10. PICK buf : buf = wire.value
  OBVIOUS
<1>11. Sealed(Carrying(mt, cipher, off, 0, <<>>, <<>>), key, epoch, p) = Ok(buf)
  <2>1. wire = Sealed(Carrying(mt, cipher, off, 0, <<>>, <<>>), key, epoch, p)
    BY <1>5, <1>8, SealedSame
  <2>2. wire = Ok(buf)
    BY <1>7, <1>10, <2>1, SealedIsOk
  <2>3. QED
    BY <2>1, <2>2
<1>12. mt \notin TimeTypes
  BY <1>2, <1>6 DEF NotForDecode
<1>13. 0 \in 0 .. 31
  OBVIOUS
<1>14. /\ IsOk(Answer(buf, cipher))
       /\ Answer(buf, cipher).value = Arrived(mt, cipher, off, 0, p, peer, records)
  BY <1>9, <1>11, <1>12, <1>13, Received DEF peer
<1>15. Partition(peer, records, TRUE) = records /\ Partition(peer, records, FALSE) = <<>>
  BY <1>9, AllKept
<1>16. Arrived(mt, cipher, off, 0, p, peer, records)
         = [datagram |-> d, epoch_id |-> epoch, skipped |-> <<>>]
  BY <1>5, <1>9, <1>15 DEF Arrived
<1>17. IsOk(a) /\ a.value = [datagram |-> d, epoch_id |-> epoch, skipped |-> <<>>]
  BY <1>7, <1>10, <1>14, <1>16
<1>18. a.value.datagram = d /\ a.value.skipped = <<>>
  BY <1>17
<1>19. QED
  BY <1>1, <1>17, <1>18

\* Whatever a caller can build and encode, time messages and records of the
\* schema_version 0 aside, decode accepts, and it arrives as it was built.
THEOREM BuiltArrives == Spec => []BuiltIsAccepted
BY BuiltInvHolds, BuiltInvArrives, PTL
=============================================================================
