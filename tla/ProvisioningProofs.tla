------------------------- MODULE ProvisioningProofs -------------------------
(***************************************************************************)
(* Theorems about provisioning, for any ids, paths, suites and layouts.    *)
(*                                                                         *)
(* The disk: a file is a part of the text of one bundle, in a place for it,*)
(* and a node that has a file keeps one (DiskInv). The collector: what it  *)
(* has read and what it serves are parts of issued bundles, no node that   *)
(* is due is missing, and when no file was touched since its start, of the *)
(* bundles of a node the latest counts (CollectorInv).                     *)
(***************************************************************************)
EXTENDS Provisioning, SequenceTheorems, FiniteSetTheorems, TLAPS

\* A set of numbers that is not empty has a least one: a recursive function is compared
\* with another by the first place where they differ.
LEMMA LeastNumber ==
    ASSUME NEW T \in SUBSET Nat, T # {}
    PROVE  \E m \in T : \A n \in T : m <= n
<1> DEFINE Less == {pair \in Nat \X Nat : pair[1] < pair[2]}
<1>1. IsWellFoundedOn(Less, Nat)
  BY NatLessThanWellFounded DEF OpToRel
<1>2. \A m, n \in Nat : <<m, n>> \in Less <=> m < n
  OBVIOUS
<1> HIDE DEF Less
<1>3. PICK m \in T : \A n \in T : ~(<<n, m>> \in Less)
  BY <1>1, WFMin
<1>4. ASSUME NEW n \in T PROVE m <= n
  <2>1. m \in Nat /\ n \in Nat /\ ~(n < m)
    BY <1>2, <1>3
  <2>2. QED
    BY <2>1
<1>5. QED
  BY <1>4

\* What LayoutsOf has pushed after each line, as an equation.
Pushing(text, f) ==
    [n \in 0 .. Len(text) |->
        IF n = 0 THEN <<>>
        ELSE IF text[n].key = "layout" THEN Append(f[n - 1], text[n].value)
        ELSE f[n - 1]]

\* The equation has one solution.
LEMMA LayoutsPushed ==
    ASSUME NEW text, Len(text) \in Nat, NEW f, f = Pushing(text, f)
    PROVE  LayoutsOf(text) = f[Len(text)]
<1> DEFINE u == CHOOSE u : u = Pushing(text, u)
           T == {n \in 0 .. Len(text) : u[n] # f[n]}
<1>1. u = Pushing(text, u)
  OBVIOUS
<1>2. LayoutsOf(text) = u[Len(text)]
  BY DEF LayoutsOf, Pushing
<1> HIDE DEF u
<1>3. SUFFICES ASSUME T # {} PROVE FALSE
  BY <1>2
<1>4. T \in SUBSET Nat
  OBVIOUS
<1>5. PICK m \in T : \A n \in T : m <= n
  <2> HIDE DEF T
  <2>1. QED
    BY <1>3, <1>4, LeastNumber
<1>6. m # 0
  BY <1>1, <1>5 DEF Pushing
<1>7. m - 1 \in 0 .. Len(text) /\ m - 1 \notin T
  BY <1>5, <1>6
<1>8. u[m - 1] = f[m - 1]
  BY <1>7
<1>9. u[m] = f[m]
  BY <1>1, <1>5, <1>6, <1>8 DEF Pushing
<1>10. QED
  BY <1>5, <1>9

\* The layouts of a text that begins with the three fields are all that follows.
LEMMA LayoutsLast ==
    ASSUME NEW S, NEW text \in Seq(S), Len(text) >= 3,
           \A i \in 1 .. Len(text) : text[i].key = "layout" <=> i > 3
    PROVE  LayoutsOf(text) = [i \in 1 .. Len(text) - 3 |-> text[i + 3].value]
<1> DEFINE V == {text[i].value : i \in 1 .. Len(text)}
           to[n \in 0 .. Len(text)] == [i \in 1 .. n - 3 |-> text[i + 3].value]
<1>1. Len(text) \in Nat /\ DOMAIN text = 1 .. Len(text)
  BY LenProperties
<1>2. ASSUME NEW n \in 0 .. Len(text), n <= 3
      PROVE  to[n] = <<>>
  <2>1. 1 .. n - 3 = {}
    BY <1>1, <1>2
  <2>2. to[n] = [i \in {} |-> text[i + 3].value]
    BY <2>1
  <2>3. QED
    BY <2>2
<1>3. ASSUME NEW n \in 4 .. Len(text)
      PROVE  to[n] = Append(to[n - 1], text[n].value)
  <2>1. /\ to[n] = [i \in 1 .. n - 3 |-> text[i + 3].value]
        /\ to[n - 1] = [i \in 1 .. n - 4 |-> text[i + 3].value]
    BY <1>1
  <2>2. to[n] \in [1 .. n - 3 -> V] /\ to[n - 1] \in [1 .. n - 4 -> V] /\ text[n].value \in V
    <3>1. \A i \in 1 .. n - 3 : i + 3 \in 1 .. Len(text)
      BY <1>1
    <3>2. \A i \in 1 .. n - 3 : text[i + 3].value \in V
      BY <3>1
    <3>3. \A i \in 1 .. n - 4 : i \in 1 .. n - 3
      BY <1>1
    <3>4. text[n].value \in V
      BY <1>1
    <3> HIDE DEF V, to
    <3>5. QED
      BY <2>1, <3>2, <3>3, <3>4
  <2>3. n - 3 \in Nat /\ n - 4 \in Nat
    BY <1>1
  <2>4. to[n] \in Seq(V) /\ to[n - 1] \in Seq(V) /\ Len(to[n]) = n - 3 /\ Len(to[n - 1]) = n - 4
    <3> HIDE DEF V, to
    <3>1. QED
      BY <2>2, <2>3
  <2> DEFINE more == Append(to[n - 1], text[n].value)
  <2>5. /\ \A i \in 1 .. n - 3 : to[n][i] = text[i + 3].value
        /\ \A i \in 1 .. n - 4 : to[n - 1][i] = text[i + 3].value
    BY <2>1
  <2> HIDE DEF V, to
  <2>6. /\ more \in Seq(V) /\ Len(more) = n - 3 /\ more[n - 3] = text[n].value
        /\ \A i \in 1 .. n - 4 : more[i] = to[n - 1][i]
    BY <2>2, <2>3, <2>4, AppendProperties
  <2> HIDE DEF more
  <2>7. ASSUME NEW i \in 1 .. n - 3 PROVE to[n][i] = more[i]
    <3>1. CASE i \in 1 .. n - 4
      BY <2>5, <2>6, <3>1
    <3>2. CASE i = n - 3
      BY <2>3, <2>5, <2>6, <3>2
    <3>3. QED
      BY <2>3, <3>1, <3>2
  <2>8. QED
    BY <2>4, <2>6, <2>7, SeqEqual DEF more
<1>4. to = Pushing(text, to)
  <2>1. ASSUME NEW n \in 0 .. Len(text) PROVE to[n] = Pushing(text, to)[n]
    <3>1. n = 0 \/ n \in 1 .. 3 \/ n \in 4 .. Len(text)
      BY <1>1
    <3>2. n \in 1 .. 3 => n - 1 \in 0 .. Len(text) /\ n - 1 <= 3
      BY <1>1
    <3>3. to[n] = IF n = 0 THEN <<>>
                  ELSE IF n > 3 THEN Append(to[n - 1], text[n].value)
                  ELSE to[n - 1]
      <4> HIDE DEF to
      <4>1. CASE n = 0
        BY <1>1, <1>2, <4>1
      <4>2. CASE n \in 1 .. 3
        <5>1. n - 1 \in 0 .. Len(text) /\ n - 1 <= 3 /\ n <= 3 /\ n # 0
          BY <3>2, <4>2
        <5>2. to[n] = <<>> /\ to[n - 1] = <<>>
          BY <1>2, <5>1
        <5>3. QED
          BY <4>2, <5>1, <5>2
      <4>3. CASE n \in 4 .. Len(text)
        <5>1. n # 0 /\ n > 3
          BY <1>1, <4>3
        <5>2. to[n] = Append(to[n - 1], text[n].value)
          BY <1>3, <4>3
        <5>3. QED
          BY <5>1, <5>2
      <4>4. QED
        BY <3>1, <4>1, <4>2, <4>3
    <3>4. n # 0 => (text[n].key = "layout" <=> n > 3)
      BY <1>1
    <3> HIDE DEF to
    <3>5. QED
      BY <3>3, <3>4 DEF Pushing
  <2>2. to = [n \in 0 .. Len(text) |-> to[n]]
    OBVIOUS
  <2> HIDE DEF to
  <2>3. QED
    BY <2>1, <2>2 DEF Pushing
<1>5. LayoutsOf(text) = to[Len(text)]
  <2> HIDE DEF to
  <2>1. QED
    BY <1>1, <1>4, LayoutsPushed
<1>6. to[Len(text)] = [i \in 1 .. Len(text) - 3 |-> text[i + 3].value]
  BY <1>1
<1>7. QED
  BY <1>5, <1>6

-----------------------------------------------------------------------------
\* The bundles there may be: a reissue of a torn file may have its cipher_id lost.
IsBundle(b) ==
    /\ b.sender_id \in Ids
    /\ b.cipher_id \in CipherIds \cup {0}
    /\ b.layouts \in Seq(Nat \X Nat)

LinesIn(b) ==
    {Line("sender_id", <<b.sender_id>>), Line("device_secret", <<b.device_secret>>),
     Line("cipher_id", <<b.cipher_id>>)}
    \cup {Line("layout", b.layouts[i]) : i \in 1 .. Len(b.layouts)}

\* The lines of a bundle's text.
LEMMA TextIs ==
    ASSUME NEW b, IsBundle(b)
    PROVE  LET text == ToText(b)
           IN  /\ text \in Seq(LinesIn(b))
               /\ Len(text) = 3 + Len(b.layouts) /\ Len(b.layouts) \in Nat
               /\ text[1] = Line("sender_id", <<b.sender_id>>)
               /\ text[2] = Line("device_secret", <<b.device_secret>>)
               /\ text[3] = Line("cipher_id", <<b.cipher_id>>)
               /\ \A i \in 4 .. Len(text) : text[i] = Line("layout", b.layouts[i - 3])
<1> DEFINE head == << Line("sender_id", <<b.sender_id>>),
                      Line("device_secret", <<b.device_secret>>),
                      Line("cipher_id", <<b.cipher_id>>) >>
           rest == [i \in 1 .. Len(b.layouts) |-> Line("layout", b.layouts[i])]
<1>1. Len(b.layouts) \in Nat /\ DOMAIN b.layouts = 1 .. Len(b.layouts)
  BY LenProperties DEF IsBundle
<1>2. head \in Seq(LinesIn(b)) /\ Len(head) = 3
  <2> DEFINE S == LinesIn(b)
  <2>1. /\ Line("sender_id", <<b.sender_id>>) \in S
        /\ Line("device_secret", <<b.device_secret>>) \in S
        /\ Line("cipher_id", <<b.cipher_id>>) \in S
    BY DEF LinesIn
  <2> HIDE DEF S
  <2>2. head \in Seq(S) /\ Len(head) = 3
    BY <2>1
  <2>3. QED
    BY <2>2 DEF S
<1>3. rest \in Seq(LinesIn(b)) /\ Len(rest) = Len(b.layouts)
  <2> DEFINE S == LinesIn(b)
             n == Len(b.layouts)
  <2>1. rest \in [1 .. n -> S]
    BY DEF LinesIn
  <2>2. n \in Nat
    BY <1>1
  <2> HIDE DEF S, rest, n
  <2>3. rest \in Seq(S) /\ Len(rest) = n
    BY <2>1, <2>2
  <2>4. QED
    BY <2>3 DEF S, n
<1>4. ToText(b) = head \o rest
  BY <1>1 DEF ToText
<1>5. /\ head[1] = Line("sender_id", <<b.sender_id>>)
      /\ head[2] = Line("device_secret", <<b.device_secret>>)
      /\ head[3] = Line("cipher_id", <<b.cipher_id>>)
      /\ \A i \in 1 .. Len(b.layouts) : rest[i] = Line("layout", b.layouts[i])
  OBVIOUS
<1> HIDE DEF head, rest
<1>6. /\ head \o rest \in Seq(LinesIn(b)) /\ Len(head \o rest) = 3 + Len(b.layouts)
      /\ \A i \in 1 .. 3 + Len(b.layouts) :
            (head \o rest)[i] = IF i <= 3 THEN head[i] ELSE rest[i - 3]
  <2> DEFINE S == LinesIn(b)
  <2> HIDE DEF S
  <2>1. head \in Seq(S) /\ rest \in Seq(S)
    BY <1>2, <1>3 DEF S
  <2>2. /\ head \o rest \in Seq(S)
        /\ Len(head \o rest) = Len(head) + Len(rest)
        /\ \A i \in 1 .. Len(head) + Len(rest) :
              (head \o rest)[i] = IF i <= Len(head) THEN head[i] ELSE rest[i - Len(head)]
    BY <2>1, ConcatProperties
  <2>3. QED
    BY <1>2, <1>3, <2>2 DEF S
<1>7. ASSUME NEW i \in 4 .. 3 + Len(b.layouts)
      PROVE  (head \o rest)[i] = Line("layout", b.layouts[i - 3])
  <2>1. i - 3 \in 1 .. Len(b.layouts) /\ ~(i <= 3) /\ i \in 1 .. 3 + Len(b.layouts)
    BY <1>1
  <2>2. QED
    BY <1>5, <1>6, <2>1
<1>8. \A i \in 1 .. 3 : (head \o rest)[i] = head[i]
  <2>1. \A i \in 1 .. 3 : i \in 1 .. 3 + Len(b.layouts) /\ i <= 3
    BY <1>1
  <2>2. QED
    BY <1>6, <2>1
<1>9. /\ (head \o rest)[1] = Line("sender_id", <<b.sender_id>>)
      /\ (head \o rest)[2] = Line("device_secret", <<b.device_secret>>)
      /\ (head \o rest)[3] = Line("cipher_id", <<b.cipher_id>>)
  <2>1. 1 \in 1 .. 3 /\ 2 \in 1 .. 3 /\ 3 \in 1 .. 3
    OBVIOUS
  <2>2. QED
    BY <1>5, <1>8, <2>1, Zenon
<1>10. QED
  BY <1>1, <1>4, <1>6, <1>7, <1>9

\* A torn text is the text up to a line, which may be cut short.
TornAt(text, whole, n) ==
    /\ n \in 0 .. Len(whole) /\ Len(text) = n /\ DOMAIN text = 1 .. n
    /\ \A i \in 1 .. n : text[i] = whole[i] \/ (i = n /\ text[i] \in CutLines(whole[i]))

LEMMA TornIs ==
    ASSUME NEW S, NEW whole \in Seq(S), NEW text \in Torn(whole)
    PROVE  (\E L : text \in Seq(L)) /\ TornAt(text, whole, Len(text))
<1>1. Len(whole) \in Nat /\ DOMAIN whole = 1 .. Len(whole) /\ \A i \in 1 .. Len(whole) : whole[i] \in S
  BY LenProperties, ElementOfSeq
<1>2. ASSUME NEW n \in 0 .. Len(whole)
      PROVE  /\ SubSeq(whole, 1, n) \in Seq(S) /\ Len(SubSeq(whole, 1, n)) = n
             /\ \A i \in 1 .. n : SubSeq(whole, 1, n)[i] = whole[i]
  <2>1. n \in Int /\ \A i \in 1 .. n : i \in 1 .. Len(whole)
    BY <1>1
  <2>2. \A i \in 1 .. n : whole[i] \in S
    BY <1>1, <2>1
  <2>3. /\ SubSeq(whole, 1, n) \in Seq(S)
        /\ Len(SubSeq(whole, 1, n)) = IF 1 <= n THEN n - 1 + 1 ELSE 0
        /\ \A i \in 1 .. n - 1 + 1 : SubSeq(whole, 1, n)[i] = whole[1 + i - 1]
    BY <2>1, <2>2, SubSeqProperties
  <2>4. QED
    BY <1>1, <2>3
<1>3. ASSUME NEW n \in 0 .. Len(whole), text = SubSeq(whole, 1, n)
      PROVE  text \in Seq(S) /\ TornAt(text, whole, Len(text))
  <2>1. text \in Seq(S) /\ Len(text) = n /\ \A i \in 1 .. n : text[i] = whole[i]
    BY <1>2, <1>3
  <2>2. DOMAIN text = 1 .. n
    BY <2>1, LenProperties
  <2>3. TornAt(text, whole, n)
    BY <2>1, <2>2 DEF TornAt
  <2>4. QED
    BY <2>1, <2>3
<1>4. ASSUME NEW n \in 1 .. Len(whole), NEW line \in CutLines(whole[n]),
             text = Append(SubSeq(whole, 1, n - 1), line)
      PROVE  text \in Seq(S \cup {line}) /\ TornAt(text, whole, Len(text))
  <2> DEFINE front == SubSeq(whole, 1, n - 1)
             L == S \cup {line}
  <2>1. n - 1 \in 0 .. Len(whole)
    BY <1>1
  <2>2. front \in Seq(S) /\ Len(front) = n - 1 /\ \A i \in 1 .. n - 1 : front[i] = whole[i]
    BY <1>2, <2>1
  <2> HIDE DEF front
  <2>3. front \in Seq(L) /\ line \in L
    BY <2>2, SeqMonotonic
  <2> HIDE DEF L
  <2>4. /\ Append(front, line) \in Seq(L) /\ Len(Append(front, line)) = n
        /\ \A i \in 1 .. n - 1 : Append(front, line)[i] = front[i]
        /\ Append(front, line)[n] = line
    BY <2>1, <2>2, <2>3, AppendProperties
  <2>5. text \in Seq(L) /\ Len(text) = n /\ text[n] = line /\ \A i \in 1 .. n - 1 : text[i] = whole[i]
    BY <1>4, <2>2, <2>4 DEF front
  <2>6. DOMAIN text = 1 .. n
    BY <2>5, LenProperties
  <2>7. \A i \in 1 .. n : i = n \/ i \in 1 .. n - 1
    BY <1>1
  <2>8. \A i \in 1 .. n : text[i] = whole[i] \/ (i = n /\ text[i] \in CutLines(whole[i]))
    BY <1>4, <2>5, <2>7
  <2>9. TornAt(text, whole, Len(text))
    BY <1>1, <2>5, <2>6, <2>8 DEF TornAt
  <2>10. QED
    BY <2>5, <2>9 DEF L
<1>5. QED
  <2>1. \/ \E n \in 0 .. Len(whole) : text = SubSeq(whole, 1, n)
        \/ \E n \in 1 .. Len(whole) : \E line \in CutLines(whole[n]) :
              text = Append(SubSeq(whole, 1, n - 1), line)
    BY <1>1 DEF Torn
  <2>2. QED
    BY <2>1, <1>3, <1>4

\* A value whose last number has lost a digit.
Halved(value) == [value EXCEPT ![Len(value)] = @ \div 16]

LEMMA CutIs ==
    ASSUME NEW key, NEW value, NEW line \in CutLines(Line(key, value))
    PROVE  \/ line.key = "garbled"
           \/ /\ line.key = key /\ key # "device_secret"
              /\ line.value = Halved(value)
BY DEF CutLines, Line, Garbled, Halved

LEMMA LineIs ==
    ASSUME NEW key, NEW value
    PROVE  Line(key, value).key = key /\ Line(key, value).value = value
BY DEF Line

LEMMA FieldAt ==
    ASSUME NEW text, DOMAIN text \in SUBSET Int, NEW i \in DOMAIN text, NEW key,
           \A j \in DOMAIN text : text[j].key = key <=> j = i
    PROVE  Field(text, key) = text[i].value[1]
<1> DEFINE last == CHOOSE k \in DOMAIN text :
                       /\ text[k].key = key
                       /\ \A j \in DOMAIN text : text[j].key = key => j <= k
<1>1. last = i
  BY i <= i
<1>2. QED
  BY <1>1 DEF Field

\* What is left of a bundle that is read from a part of its text.
PartOf(v, b) ==
    /\ IsBundle(v)
    /\ v.sender_id = b.sender_id /\ v.device_secret = b.device_secret
    /\ v.cipher_id \in {b.cipher_id, 0}
    /\ ClippedFrom(v.layouts, b.layouts)

\* Half a number, or a layout cut short, is read; half a bundle is not.
LEMMA ParsedTorn ==
    ASSUME NEW b, IsBundle(b), NEW text \in Torn(ToText(b)), IsOk(Parse(text))
    PROVE  PartOf(Parse(text).value, b)
<1> DEFINE whole == ToText(b)
           n == Len(text)
           v == Parse(text).value
<1>1. /\ whole[1] = Line("sender_id", <<b.sender_id>>)
      /\ whole[2] = Line("device_secret", <<b.device_secret>>)
      /\ whole[3] = Line("cipher_id", <<b.cipher_id>>)
      /\ \A i \in 4 .. Len(whole) : whole[i] = Line("layout", b.layouts[i - 3])
      /\ Len(whole) = 3 + Len(b.layouts) /\ Len(b.layouts) \in Nat
  BY TextIs
<1>2. (\E L : text \in Seq(L)) /\ TornAt(text, whole, n)
  <2>1. whole \in Seq(LinesIn(b))
    BY TextIs
  <2>2. QED
    BY <2>1, TornIs
<1> HIDE DEF whole
<1>3. n \in 0 .. Len(whole) /\ DOMAIN text = 1 .. n
  BY <1>2 DEF TornAt
<1>4. /\ \A i \in 1 .. n : text[i].key \in Fields \cup {"layout"}
      /\ \A key \in Fields : HasField(text, key)
      /\ v = [sender_id     |-> Field(text, "sender_id"),
              device_secret |-> Field(text, "device_secret"),
              cipher_id     |-> Field(text, "cipher_id"),
              layouts       |-> LayoutsOf(text)]
  BY <1>3 DEF Parse, Ok, Err, IsOk
<1>5. ASSUME NEW i \in 1 .. n
      PROVE  \E key, value :
                /\ whole[i] = Line(key, value) /\ text[i].key = key
                /\ \/ text[i].value = value
                   \/ /\ i = n /\ key # "device_secret"
                      /\ text[i].value = Halved(value)
  <2>1. PICK key, value : whole[i] = Line(key, value)
    <3>1. i = 1 \/ i = 2 \/ i = 3 \/ i \in 4 .. Len(whole)
      BY <1>1, <1>3
    <3>2. QED
      BY <1>1, <3>1
  <2>2. text[i] = whole[i] \/ (i = n /\ text[i] \in CutLines(whole[i]))
    BY <1>2 DEF TornAt
  <2>3. text[i].key # "garbled"
    BY <1>4 DEF Fields
  <2>4. CASE text[i] = whole[i]
    BY <2>1, <2>4 DEF Line
  <2>5. CASE i = n /\ text[i] \in CutLines(whole[i])
    BY <2>1, <2>3, <2>5, CutIs
  <2>6. QED
    BY <2>1, <2>2, <2>4, <2>5
<1>6. ASSUME NEW i \in 1 .. n
      PROVE  text[i].key = IF i = 1 THEN "sender_id" ELSE IF i = 2 THEN "device_secret"
                           ELSE IF i = 3 THEN "cipher_id" ELSE "layout"
  <2>1. whole[i].key = IF i = 1 THEN "sender_id" ELSE IF i = 2 THEN "device_secret"
                       ELSE IF i = 3 THEN "cipher_id" ELSE "layout"
    <3>1. i = 1 \/ i = 2 \/ i = 3 \/ i \in 4 .. Len(whole)
      BY <1>1, <1>3
    <3>2. i \in 4 .. Len(whole) => i # 1 /\ i # 2 /\ i # 3
      BY <1>1
    <3>3. i \in 4 .. Len(whole) => whole[i].key = "layout"
      BY <1>1, LineIs
    <3>4. /\ whole[1].key = "sender_id" /\ whole[2].key = "device_secret"
          /\ whole[3].key = "cipher_id"
      BY <1>1, LineIs
    <3>5. QED
      BY <3>1, <3>2, <3>3, <3>4
  <2>2. text[i].key = whole[i].key
    BY <1>5, LineIs
  <2>3. QED
    BY <2>1, <2>2
<1>7. n >= 3 /\ n \in Nat
  <2>1. PICK i \in 1 .. n : text[i].key = "cipher_id"
    BY <1>3, <1>4 DEF HasField, Fields
  <2>2. i = 3
    BY <1>6, <2>1
  <2>3. QED
    BY <1>1, <1>3, <2>2
<1>8. /\ v.sender_id = text[1].value[1] /\ v.device_secret = text[2].value[1]
      /\ v.cipher_id = text[3].value[1]
  <2>1. DOMAIN text \in SUBSET Int /\ 1 \in DOMAIN text /\ 2 \in DOMAIN text /\ 3 \in DOMAIN text
    BY <1>3, <1>7
  <2>2. \A j \in DOMAIN text : text[j].key = "sender_id" <=> j = 1
    BY <1>3, <1>6
  <2>3. \A j \in DOMAIN text : text[j].key = "device_secret" <=> j = 2
    BY <1>3, <1>6
  <2>4. \A j \in DOMAIN text : text[j].key = "cipher_id" <=> j = 3
    BY <1>3, <1>6
  <2>5. QED
    BY <1>4, <2>1, <2>2, <2>3, <2>4, FieldAt
<1>9. v.layouts = [i \in 1 .. n - 3 |-> text[i + 3].value]
  <2>1. \A i \in 1 .. n : text[i].key = "layout" <=> i > 3
    BY <1>6
  <2>2. v.layouts = LayoutsOf(text)
    BY <1>4
  <2>3. PICK L : text \in Seq(L)
    BY <1>2
  <2> HIDE DEF v
  <2>4. QED
    BY <1>7, <2>1, <2>2, <2>3, LayoutsLast
<1> HIDE DEF v
<1>10. ASSUME NEW i \in 1 .. n, NEW key, NEW value, whole[i] = Line(key, value)
       PROVE  \/ text[i].value = value
              \/ /\ i = n /\ key # "device_secret"
                 /\ text[i].value = Halved(value)
  <2>1. PICK k, w : /\ whole[i] = Line(k, w)
                    /\ \/ text[i].value = w
                       \/ /\ i = n /\ k # "device_secret"
                          /\ text[i].value = Halved(w)
    BY <1>5
  <2>2. Line(k, w) = Line(key, value)
    BY <1>10, <2>1
  <2>3. k = key /\ w = value
    <3>1. Line(k, w).key = k /\ Line(k, w).value = w
      BY LineIs
    <3>2. Line(key, value).key = key /\ Line(key, value).value = value
      BY LineIs
    <3>3. QED
      BY <2>2, <3>1, <3>2, Zenon
  <2>4. QED
    BY <2>1, <2>3, Zenon
<1>11. v.sender_id = b.sender_id /\ v.device_secret = b.device_secret
  <2>1. 1 \in 1 .. n /\ 2 \in 1 .. n /\ 1 # n /\ 2 # n
    <3> HIDE DEF n
    <3>1. QED
      BY <1>7
  <2>2. text[1].value = <<b.sender_id>>
    BY <1>1, <1>10, <2>1
  <2>3. text[2].value = <<b.device_secret>>
    BY <1>1, <1>10, <2>1
  <2>4. QED
    BY <1>8, <2>2, <2>3
<1>12. v.cipher_id \in {b.cipher_id, 0} /\ v.cipher_id \in CipherIds \cup {0}
  <2>1. b.cipher_id \in 0 .. 4
    BY DEF IsBundle, CipherIds
  <2> DEFINE c == <<b.cipher_id>>
             cut == Halved(c)
  <2>2. 3 \in 1 .. n /\ whole[3] = Line("cipher_id", c)
    BY <1>1, <1>7
  <2>3. c[1] = b.cipher_id /\ cut[1] = b.cipher_id \div 16
    BY DEF Halved
  <2>4. b.cipher_id \div 16 = 0
    BY <2>1
  <2> HIDE DEF c
  <2>5. text[3].value = c \/ text[3].value = cut
    BY <1>10, <2>2
  <2> HIDE DEF cut
  <2>6. v.cipher_id = b.cipher_id \/ v.cipher_id = 0
    BY <1>8, <2>3, <2>4, <2>5
  <2>7. QED
    BY <2>6 DEF IsBundle
<1>13. ASSUME NEW i \in 1 .. n - 3
       PROVE  /\ i \in 1 .. Len(b.layouts)
              /\ v.layouts[i] \in Nat \X Nat
              /\ \/ v.layouts[i] = b.layouts[i]
                 \/ /\ i = n - 3
                    /\ v.layouts[i] = <<b.layouts[i][1], b.layouts[i][2] \div 16>>
  <2> DEFINE l == b.layouts[i]
  <2>1. i \in 1 .. Len(b.layouts) /\ i + 3 \in 1 .. n /\ i + 3 \in 4 .. Len(whole)
    BY <1>1, <1>3, <1>7
  <2>2. l \in Nat \X Nat
    BY <2>1, ElementOfSeq DEF IsBundle
  <2>3. whole[i + 3] = Line("layout", l)
    <3>1. (i + 3) - 3 = i
      BY <2>1
    <3>2. QED
      BY <1>1, <2>1, <3>1
  <2>4. v.layouts[i] = text[i + 3].value
    BY <1>9
  <2> HIDE DEF l
  <2>5. \/ v.layouts[i] = l
        \/ i + 3 = n /\ v.layouts[i] = Halved(l)
    BY <1>10, <2>1, <2>3, <2>4
  <2>6. PICK x \in Nat, y \in Nat : l = <<x, y>>
    BY <2>2
  <2>7. Halved(l) = <<l[1], l[2] \div 16>>
    BY <2>6 DEF Halved
  <2>8. <<l[1], l[2] \div 16>> \in Nat \X Nat
    <3>1. y \div 16 \in Nat
      BY <2>6
    <3>2. QED
      BY <2>6, <3>1
  <2>9. QED
    BY <2>1, <2>2, <2>5, <2>7, <2>8 DEF l
<1>14. v.layouts \in Seq(Nat \X Nat) /\ Len(v.layouts) = n - 3 /\ DOMAIN v.layouts = 1 .. n - 3
  <2> DEFINE P == Nat \X Nat
             m == n - 3
             ls == v.layouts
  <2>1. m \in Nat
    BY <1>7
  <2>2. ls \in [1 .. m -> P]
    BY <1>9, <1>13
  <2> HIDE DEF P, m, ls
  <2>3. ls \in Seq(P) /\ Len(ls) = m /\ DOMAIN ls = 1 .. m
    BY <2>1, <2>2
  <2>4. QED
    BY <2>3 DEF P, m, ls
<1>15. ClippedFrom(v.layouts, b.layouts)
  <2>1. n - 3 <= Len(b.layouts)
    BY <1>1, <1>3, <1>7
  <2>2. QED
    BY <1>13, <1>14, <2>1 DEF ClippedFrom
<1>16. QED
  <2>1. IsBundle(v)
    BY <1>11, <1>12, <1>14 DEF IsBundle
  <2>2. PartOf(v, b)
    BY <1>11, <1>12, <1>15, <2>1 DEF PartOf
  <2>3. QED
    BY <2>2 DEF v

-----------------------------------------------------------------------------
IsSequence(s) == \E S : s \in Seq(S)

\* The nodes that have a file at their own path, whole or not.
Known(f) == {id \in Ids : f[NodePath[id]] # NoFile}

\* Where a bundle may be put, given the files: at its node's path, or at another one if
\* its node has a file there.
Fits(f, b, p) == p = NodePath[b.sender_id] \/ (p \in OtherPaths /\ b.sender_id \in Known(f))

\* Each file is a part of one bundle that was issued, and in a place for it.
Kept(f, B) ==
    /\ f = [p \in Paths |-> f[p]]
    /\ \A b \in B : IsBundle(b)
    /\ \A p \in Paths : \/ f[p] = NoFile
                        \/ \E b \in B : Fits(f, b, p) /\ f[p] \in Torn(ToText(b))

\* A job writes issued bundles to places for them, and generate to new files only.
Orderly(j, f, B) ==
    /\ j = [cmd |-> j.cmd, writes |-> j.writes, opened |-> j.opened, existing |-> j.existing]
    /\ j # NoJob =>
        /\ IsSequence(j.writes) /\ j.writes # <<>>
        /\ j.existing \subseteq Paths
        /\ \A i \in DOMAIN j.writes :
              /\ j.writes[i].path \in Paths
              /\ j.writes[i].bundle \in B
              /\ Fits(f, j.writes[i].bundle, j.writes[i].path)
              /\ j.cmd = "generate" => j.writes[i].path \notin j.existing

\* The inductive invariant of the disk. A node that was enrolled has a file, since files
\* are overwritten and not removed.
DiskInv ==
    /\ Kept(files, issued)
    /\ Orderly(job, files, issued)
    /\ enrolled \subseteq Known(files)

LEMMA PathsAre ==
    /\ Paths \subseteq Nat
    /\ \A id \in Ids : NodePath[id] \in Paths /\ NodePath[id] \in Listed
                       /\ NodePath[id] \notin OtherPaths
    /\ \A p \in OtherPaths : p \in Paths
BY PathAssumption DEF Paths

\* Nothing and the whole are parts of a text; that there is no file is not.
LEMMA PartsOfText ==
    ASSUME NEW b, IsBundle(b)
    PROVE  /\ <<>> \in Torn(ToText(b)) /\ ToText(b) \in Torn(ToText(b))
           /\ NoFile \notin Torn(ToText(b))
<1> DEFINE whole == ToText(b)
<1>1. /\ whole \in Seq(LinesIn(b)) /\ Len(whole) \in Nat /\ Len(whole) >= 3
      /\ whole[1] = Line("sender_id", <<b.sender_id>>)
  <2>1. /\ whole \in Seq(LinesIn(b)) /\ whole[1] = Line("sender_id", <<b.sender_id>>)
        /\ Len(whole) = 3 + Len(b.layouts) /\ Len(b.layouts) \in Nat
    BY TextIs
  <2> HIDE DEF whole
  <2>2. QED
    BY <2>1
<1> HIDE DEF whole
<1>2. SubSeq(whole, 1, 0) = <<>> /\ SubSeq(whole, 1, Len(whole)) = whole
  BY <1>1, SubSeqEmpty, SubSeqFull
<1>3. 0 \in 0 .. Len(whole) /\ Len(whole) \in 0 .. Len(whole)
  BY <1>1
<1>4. <<>> \in Torn(whole) /\ whole \in Torn(whole)
  <2>1. \A n \in 0 .. Len(whole) : SubSeq(whole, 1, n) \in Torn(whole)
    BY DEF Torn
  <2>2. QED
    BY <1>2, <1>3, <2>1
<1>5. ASSUME NoFile \in Torn(whole) PROVE FALSE
  <2>1. TornAt(NoFile, whole, Len(NoFile))
    BY <1>1, <1>5, TornIs
  <2>2. Len(NoFile) = 1 /\ NoFile[1].key = "none"
    BY DEF NoFile
  <2>3. NoFile[1] = whole[1] \/ NoFile[1] \in CutLines(whole[1])
    BY <2>1, <2>2 DEF TornAt
  <2>4. NoFile[1].key = "sender_id" \/ NoFile[1].key = "garbled"
    BY <1>1, <2>3, CutIs, LineIs
  <2>5. QED
    BY <2>2, <2>4
<1>6. QED
  BY <1>4, <1>5 DEF whole

\* What a file parses to is a part of an issued bundle, whose node has a file.
LEMMA ParsedKept ==
    ASSUME NEW f, NEW B, Kept(f, B), NEW p \in Paths, IsOk(Parse(f[p]))
    PROVE  /\ f[p] # NoFile
           /\ \E b \in B : PartOf(Parse(f[p]).value, b)
           /\ IsBundle(Parse(f[p]).value)
           /\ Parse(f[p]).value.sender_id \in Known(f)
           /\ \A id \in Ids : p = NodePath[id] => Parse(f[p]).value.sender_id = id
<1>1. f[p] # NoFile
  <2>1. ~IsOk(Parse(NoFile))
    <3>1. 1 \in DOMAIN NoFile /\ NoFile[1].key \notin Fields \cup {"layout"}
      BY DEF NoFile, Fields
    <3>2. QED
      BY <3>1 DEF Parse, Err, IsOk
  <2>2. QED
    BY <2>1
<1>2. PICK b \in B : Fits(f, b, p) /\ f[p] \in Torn(ToText(b))
  BY <1>1 DEF Kept
<1>3. IsBundle(b)
  BY DEF Kept
<1>4. PartOf(Parse(f[p]).value, b)
  BY <1>2, <1>3, ParsedTorn
<1>5. b.sender_id \in Ids /\ Parse(f[p]).value.sender_id = b.sender_id
  BY <1>3, <1>4 DEF PartOf, IsBundle
<1>6. b.sender_id \in Known(f)
  BY <1>1, <1>2, <1>5 DEF Fits, Known
<1>7. \A id \in Ids : p = NodePath[id] => b.sender_id = id
  BY <1>2, <1>5, PathAssumption, PathsAre DEF Fits
<1>8. QED
  BY <1>1, <1>4, <1>5, <1>6, <1>7 DEF PartOf

\* A file of a node is never removed, so that what fits goes on fitting.
LEMMA FitsLater ==
    ASSUME NEW f, NEW g, Known(f) \subseteq Known(g), NEW b, NEW p, Fits(f, b, p)
    PROVE  Fits(g, b, p)
BY DEF Fits

LEMMA OrderlyLater ==
    ASSUME NEW j, NEW f, NEW B, Orderly(j, f, B),
           NEW g, Known(f) \subseteq Known(g), NEW C, B \subseteq C
    PROVE  Orderly(j, g, C)
BY FitsLater DEF Orderly

Put(f, p, text) == [f EXCEPT ![p] = text]

\* A part of a bundle is put where it fits.
LEMMA PutKept ==
    ASSUME NEW f, NEW B, Kept(f, B), NEW b \in B, NEW p \in Paths, Fits(f, b, p),
           NEW text \in Torn(ToText(b)),
           NEW g, g = Put(f, p, text)
    PROVE  /\ Kept(g, B)
           /\ Known(f) \subseteq Known(g) /\ b.sender_id \in Known(g)
           /\ \A q \in Paths : q # p => g[q] = f[q]
<1>1. IsBundle(b) /\ f = [q \in Paths |-> f[q]]
  BY DEF Kept
<1>2. text # NoFile
  BY <1>1, PartsOfText
<1>3. /\ g = [q \in Paths |-> IF q = p THEN text ELSE f[q]]
      /\ g = [q \in Paths |-> g[q]]
  BY <1>1 DEF Put
<1>4. Known(f) \subseteq Known(g)
  BY <1>2, <1>3, PathsAre DEF Known
<1>5. b.sender_id \in Known(g)
  <2>1. b.sender_id \in Ids
    BY <1>1 DEF IsBundle
  <2>2. CASE p = NodePath[b.sender_id]
    BY <1>2, <1>3, <2>1, <2>2 DEF Known
  <2>3. CASE b.sender_id \in Known(f)
    BY <1>4, <2>3
  <2>4. QED
    BY <2>2, <2>3 DEF Fits
<1>6. ASSUME NEW q \in Paths
      PROVE  g[q] = NoFile \/ \E c \in B : Fits(g, c, q) /\ g[q] \in Torn(ToText(c))
  <2>1. CASE q = p
    <3>1. g[q] = text /\ Fits(g, b, q)
      BY <1>3, <1>4, <2>1, FitsLater
    <3>2. QED
      BY <3>1
  <2>2. CASE q # p
    <3>1. g[q] = f[q]
      BY <1>3, <2>2
    <3>2. CASE f[q] # NoFile
      <4>1. PICK c \in B : Fits(f, c, q) /\ f[q] \in Torn(ToText(c))
        BY <3>2 DEF Kept
      <4>2. Fits(g, c, q)
        BY <1>4, <4>1, FitsLater
      <4>3. QED
        BY <3>1, <4>1, <4>2
    <3>3. QED
      BY <3>1, <3>2
  <2>3. QED
    BY <2>1, <2>2
<1>7. QED
  BY <1>3, <1>4, <1>5, <1>6 DEF Kept

-----------------------------------------------------------------------------
\* The steps, one lemma for each kind of job that starts, and one for what a job does
\* to a file.
LEMMA InitDisk == Init => DiskInv
<1> SUFFICES ASSUME Init PROVE DiskInv
  OBVIOUS
<1>1. Kept(files, issued)
  BY DEF Init, Kept
<1>2. Orderly(job, files, issued)
  BY DEF Init, Orderly, NoJob
<1>3. QED
  BY <1>1, <1>2 DEF Init, DiskInv

LEMMA StartDisk ==
    ASSUME DiskInv, NEW cmd, NEW writes, Start(cmd, writes),
           IsSequence(writes), writes # <<>>,
           \A i \in DOMAIN writes :
              /\ writes[i].path \in Paths
              /\ IsBundle(writes[i].bundle)
              /\ Fits(files, writes[i].bundle, writes[i].path)
              /\ cmd = "generate" => writes[i].path \notin Existing
    PROVE  DiskInv'
<1>1. /\ job' = [cmd |-> cmd, writes |-> writes, opened |-> FALSE, existing |-> Existing]
      /\ issued' = issued \cup {writes[i].bundle : i \in DOMAIN writes}
      /\ files' = files /\ enrolled' = enrolled
  BY DEF Start
<1>2. Kept(files, issued')
  BY <1>1 DEF DiskInv, Kept
<1>3. Orderly(job', files, issued')
  <2>1. /\ job'.cmd = cmd /\ job'.writes = writes /\ job'.existing = Existing
        /\ job' = [cmd |-> job'.cmd, writes |-> job'.writes, opened |-> job'.opened,
                   existing |-> job'.existing]
    BY <1>1
  <2>2. Existing \subseteq Paths
    BY DEF Existing
  <2>3. \A i \in DOMAIN writes : writes[i].bundle \in issued'
    BY <1>1
  <2>4. QED
    BY <2>1, <2>2, <2>3 DEF Orderly
<1>4. QED
  BY <1>1, <1>2, <1>3 DEF DiskInv

LEMMA GenerateDisk ==
    ASSUME DiskInv, NEW n \in 1 .. Cardinality(Ids), NEW ids \in Batches(n), NEW cipher,
           Generate(ids, cipher, Layouts)
    PROVE  DiskInv'
<1> DEFINE write(i) == [path   |-> NodePath[ids[i]],
                        bundle |-> [sender_id |-> ids[i],
                                    device_secret |-> Cardinality(issued) + i,
                                    cipher_id |-> cipher, layouts |-> Layouts]]
           writes == [i \in DOMAIN ids |-> write(i)]
<1>1. /\ n \in Nat \ {0} /\ DOMAIN ids = 1 .. n
      /\ \A i \in 1 .. n : ids[i] \in Ids /\ files[NodePath[ids[i]]] = NoFile
  <2>1. Cardinality(Ids) \in Nat
    BY PathAssumption, FS_CardinalityType
  <2>2. QED
    BY <2>1 DEF Batches
<1>2. Start("generate", writes) /\ cipher \in CipherIds
  BY DEF Generate
<1>3. ASSUME NEW i \in 1 .. n
      PROVE  /\ writes[i].path = NodePath[ids[i]] /\ writes[i].bundle.sender_id = ids[i]
             /\ IsBundle(writes[i].bundle)
  BY <1>1, <1>2, PathAssumption DEF IsBundle
<1>4. IsSequence(writes) /\ writes # <<>> /\ DOMAIN writes = 1 .. n
  <2> DEFINE S == {writes[i] : i \in 1 .. n}
  <2>1. writes \in [1 .. n -> S] /\ DOMAIN writes = 1 .. n
    BY <1>1
  <2> HIDE DEF S, writes
  <2>2. writes \in Seq(S) /\ Len(writes) = n
    BY <1>1, <2>1
  <2>3. writes # <<>>
    BY <1>1, <2>2
  <2>4. QED
    BY <2>1, <2>2, <2>3 DEF IsSequence
<1>5. ASSUME NEW i \in DOMAIN writes
      PROVE  /\ writes[i].path \in Paths
             /\ IsBundle(writes[i].bundle)
             /\ Fits(files, writes[i].bundle, writes[i].path)
             /\ writes[i].path \notin Existing
  <2>1. i \in 1 .. n
    BY <1>4
  <2> HIDE DEF writes
  <2>2. QED
    BY <1>1, <1>3, <2>1, PathsAre DEF Fits, Existing
<1> HIDE DEF writes
<1>6. QED
  BY <1>2, <1>4, <1>5, StartDisk

LEMMA ReissueDisk ==
    ASSUME DiskInv, NEW old \in Paths, IsOk(Parse(files[old])),
           NEW out \in Targets(Parse(files[old]).value.sender_id), Reissue(old, out)
    PROVE  DiskInv'
<1> DEFINE v == Parse(files[old]).value
           b == [v EXCEPT !.device_secret = Cardinality(issued) + 1]
           write == [path |-> out, bundle |-> b]
<1>1. IsBundle(v) /\ v.sender_id \in Known(files)
  BY ParsedKept DEF DiskInv
<1>2. v = [sender_id |-> v.sender_id, device_secret |-> v.device_secret,
           cipher_id |-> v.cipher_id, layouts |-> v.layouts]
  BY DEF Parse, Ok, Err, IsOk
<1>3. Start("reissue", <<write>>)
  BY DEF Reissue
<1>4. out = NodePath[v.sender_id] \/ out \in OtherPaths
  BY DEF Targets
<1> HIDE DEF v
<1>5. b.sender_id = v.sender_id /\ IsBundle(b)
  BY <1>1, <1>2 DEF IsBundle
<1> HIDE DEF b
<1>6. out \in Paths /\ Fits(files, b, out)
  <2>1. v.sender_id \in Ids
    BY <1>1 DEF IsBundle
  <2>2. QED
    BY <1>1, <1>4, <1>5, <2>1, PathsAre DEF Fits
<1>7. /\ <<write>> \in Seq({write}) /\ <<write>> # <<>> /\ DOMAIN <<write>> = {1}
      /\ <<write>>[1] = write /\ write.path = out /\ write.bundle = b
  OBVIOUS
<1> DEFINE writes == <<write>>
<1>8. \A i \in DOMAIN writes :
          /\ writes[i].path \in Paths
          /\ IsBundle(writes[i].bundle)
          /\ Fits(files, writes[i].bundle, writes[i].path)
  BY <1>5, <1>6, <1>7
<1>9. IsSequence(writes)
  BY <1>7 DEF IsSequence
<1>10. Start("reissue", writes) /\ writes # <<>> /\ "reissue" # "generate"
  BY <1>3, <1>7
<1> HIDE DEF writes
<1>11. QED
  BY <1>8, <1>9, <1>10, StartDisk

\* The job that is under way is at a bundle that was issued and a place for it.
LEMMA CurrentIs ==
    ASSUME DiskInv, job # NoJob
    PROVE  /\ Current.path \in Paths /\ Current.bundle \in issued
           /\ IsBundle(Current.bundle) /\ Fits(files, Current.bundle, Current.path)
           /\ job.existing \subseteq Paths
           /\ job.cmd = "generate" => Current.path \notin job.existing
<1>1. IsSequence(job.writes) /\ job.writes # <<>> /\ job.existing \subseteq Paths
  BY DEF DiskInv, Orderly
<1>2. 1 \in DOMAIN job.writes /\ Current = job.writes[1]
  <2>1. PICK S : job.writes \in Seq(S)
    BY <1>1 DEF IsSequence
  <2>2. Len(job.writes) \in Nat \ {0} /\ DOMAIN job.writes = 1 .. Len(job.writes)
    BY <1>1, <2>1, EmptySeq, LenProperties
  <2>3. Head(job.writes) = job.writes[1]
    BY <1>1, <2>1
  <2>4. QED
    BY <2>2, <2>3 DEF Current
<1>3. QED
  BY <1>1, <1>2 DEF DiskInv, Orderly, Kept

\* A job that goes on writes what is left of it.
LEMMA OrderlyRest ==
    ASSUME NEW j, NEW f, NEW B, Orderly(j, f, B), j # NoJob, NEW k,
           \/ k = NoJob
           \/ k = [j EXCEPT !.opened = TRUE]
           \/ (k = [j EXCEPT !.writes = Tail(@), !.opened = FALSE] /\ Len(j.writes) # 1)
    PROVE  Orderly(k, f, B)
<1>1. /\ j = [cmd |-> j.cmd, writes |-> j.writes, opened |-> j.opened, existing |-> j.existing]
      /\ IsSequence(j.writes) /\ j.writes # <<>> /\ j.existing \subseteq Paths
  BY DEF Orderly
<1>2. PICK S : j.writes \in Seq(S)
  BY <1>1 DEF IsSequence
<1>3. CASE k = NoJob
  BY <1>3 DEF Orderly, NoJob
<1>4. CASE k = [j EXCEPT !.opened = TRUE]
  <2>1. k = [cmd |-> j.cmd, writes |-> j.writes, opened |-> TRUE, existing |-> j.existing]
    BY <1>1, <1>4
  <2>2. k.cmd = j.cmd /\ k.writes = j.writes /\ k.opened = TRUE /\ k.existing = j.existing
    BY <2>1
  <2>3. QED
    BY <2>1, <2>2 DEF Orderly
<1>5. CASE k = [j EXCEPT !.writes = Tail(@), !.opened = FALSE] /\ Len(j.writes) # 1
  <2>1. k = [cmd |-> j.cmd, writes |-> Tail(j.writes), opened |-> FALSE, existing |-> j.existing]
    BY <1>1, <1>5
  <2>2. /\ k.cmd = j.cmd /\ k.writes = Tail(j.writes) /\ k.opened = FALSE
        /\ k.existing = j.existing
    BY <2>1
  <2>3. /\ Tail(j.writes) \in Seq(S) /\ Len(Tail(j.writes)) = Len(j.writes) - 1
        /\ \A i \in 1 .. Len(Tail(j.writes)) : Tail(j.writes)[i] = j.writes[i + 1]
    BY <1>1, <1>2, HeadTailProperties
  <2>4. /\ Len(j.writes) \in Nat \ {0} /\ DOMAIN j.writes = 1 .. Len(j.writes)
        /\ DOMAIN Tail(j.writes) = 1 .. Len(Tail(j.writes))
    BY <1>1, <1>2, <2>3, EmptySeq, LenProperties
  <2>5. Tail(j.writes) # <<>> /\ IsSequence(Tail(j.writes))
    <3>1. Len(Tail(j.writes)) # 0
      BY <1>5, <2>3, <2>4
    <3>2. QED
      BY <2>3, <3>1, EmptySeq DEF IsSequence
  <2>6. \A i \in DOMAIN Tail(j.writes) :
            i + 1 \in DOMAIN j.writes /\ Tail(j.writes)[i] = j.writes[i + 1]
    BY <2>3, <2>4
  <2>7. QED
    BY <1>1, <2>1, <2>2, <2>5, <2>6 DEF Orderly
<1>6. QED
  BY <1>3, <1>4, <1>5

\* A step of a job that puts a part of the bundle it is at to its place.
LEMMA PutDisk ==
    ASSUME DiskInv, job # NoJob, NEW text \in Torn(ToText(Current.bundle)),
           files' = [files EXCEPT ![Current.path] = text],
           \/ job' = NoJob
           \/ job' = [job EXCEPT !.opened = TRUE]
           \/ (job' = [job EXCEPT !.writes = Tail(@), !.opened = FALSE] /\ Len(job.writes) # 1),
           enrolled' \subseteq enrolled \cup {Current.bundle.sender_id},
           issued' = issued
    PROVE  DiskInv' /\ Known(files) \subseteq Known(files')
<1>1. /\ Current.path \in Paths /\ Current.bundle \in issued
      /\ Fits(files, Current.bundle, Current.path)
      /\ Kept(files, issued) /\ Orderly(job, files, issued) /\ enrolled \subseteq Known(files)
  BY CurrentIs DEF DiskInv
<1>2. /\ Kept(files', issued) /\ Known(files) \subseteq Known(files')
      /\ Current.bundle.sender_id \in Known(files')
  <2>1. files' = Put(files, Current.path, text)
    BY DEF Put
  <2>2. ASSUME NEW b \in issued, NEW p \in Paths, Fits(files, b, p), Kept(files, issued),
               NEW t \in Torn(ToText(b)), NEW g, g = Put(files, p, t)
        PROVE  Kept(g, issued) /\ Known(files) \subseteq Known(g) /\ b.sender_id \in Known(g)
    BY <2>2, PutKept
  <2>3. QED
    BY <1>1, <2>1, <2>2
<1>3. Orderly(job', files, issued)
  BY <1>1, OrderlyRest
<1>4. Orderly(job', files', issued)
  BY <1>2, <1>3, OrderlyLater
<1>5. QED
  BY <1>1, <1>2, <1>4 DEF DiskInv

\* Every step keeps DiskInv, and no node loses its file.
LEMMA NextDisk ==
    ASSUME DiskInv, [Next]_vars
    PROVE  DiskInv' /\ Known(files) \subseteq Known(files')
<1>1. CASE UNCHANGED <<files, job, issued, enrolled>>
  BY <1>1 DEF DiskInv
<1>2. ASSUME NEW n \in 1 .. Cardinality(Ids), NEW ids \in Batches(n), NEW cipher \in Ciphers,
             Generate(ids, cipher, Layouts)
      PROVE  DiskInv' /\ Known(files) \subseteq Known(files')
  <2>1. files' = files
    BY <1>2 DEF Generate, Start
  <2>2. QED
    BY <1>2, <2>1, GenerateDisk
<1>3. ASSUME NEW old \in Paths, IsOk(Parse(files[old])),
             NEW out \in Targets(Parse(files[old]).value.sender_id), Reissue(old, out)
      PROVE  DiskInv' /\ Known(files) \subseteq Known(files')
  <2>1. files' = files
    BY <1>3 DEF Reissue, Start
  <2>2. QED
    BY <1>3, <2>1, ReissueDisk
<1>4. CASE Open
  <2>1. <<>> \in Torn(ToText(Current.bundle)) /\ job # NoJob
    BY <1>4, CurrentIs, PartsOfText DEF Open
  <2>2. QED
    BY <1>4, <2>1, PutDisk DEF Open, Touched
<1>5. job.opened => job # NoJob
  BY DEF NoJob
<1>6. CASE Write
  <2>1. ToText(Current.bundle) \in Torn(ToText(Current.bundle)) /\ job # NoJob
    BY <1>5, <1>6, CurrentIs, PartsOfText DEF Write
  <2>2. /\ files' = [files EXCEPT ![Current.path] = ToText(Current.bundle)]
        /\ \/ job' = NoJob
           \/ job' = [job EXCEPT !.writes = Tail(@), !.opened = FALSE] /\ Len(job.writes) # 1
        /\ enrolled' \subseteq enrolled \cup {Current.bundle.sender_id}
        /\ issued' = issued
    BY <1>6 DEF Write, Touched
  <2>3. QED
    BY <2>1, <2>2, PutDisk
<1>7. CASE WriteFails
  <2>1. job # NoJob
    BY <1>5, <1>7 DEF WriteFails
  <2>2. PICK text \in Torn(ToText(Current.bundle)) :
            files' = [files EXCEPT ![Current.path] = text]
    BY <1>7 DEF WriteFails
  <2>3. job' = NoJob /\ enrolled' = enrolled /\ issued' = issued
    BY <1>7 DEF WriteFails, Touched
  <2>4. QED
    BY <2>1, <2>2, <2>3, PutDisk
<1>8. CASE Abort
  <2>1. job # NoJob /\ job' = NoJob /\ UNCHANGED <<files, issued, enrolled>>
    BY <1>8 DEF Abort
  <2>2. Orderly(job', files, issued)
    BY <2>1, OrderlyRest DEF DiskInv
  <2>3. QED
    BY <2>1, <2>2 DEF DiskInv
<1>9. StartCollector \/ ReadFile \/ ProvisionNext \/ Serve \/ UNCHANGED vars
      => UNCHANGED <<files, job, issued, enrolled>>
  BY DEF StartCollector, ReadFile, ProvisionNext, Serve, vars
<1>10. QED
  BY <1>1, <1>2, <1>3, <1>4, <1>6, <1>7, <1>8, <1>9 DEF Next

-----------------------------------------------------------------------------
\* Whatever is interrupted or torn, a file is a part of one issued bundle, at a place
\* for it: neither program appends to a file or renames one.
THEOREM DiskInductive == Spec => []DiskInv
<1>1. Init => DiskInv
  BY InitDisk
<1>2. DiskInv /\ [Next]_vars => DiskInv'
  BY NextDisk
<1>3. QED
  BY <1>1, <1>2, PTL DEF Spec

\* Generate changes no file that was there when it started: the paths of its batch were
\* free, and it writes to no other (cmd_generate).
THEOREM GenerateAdds == Spec => GenerateOnlyAdds
<1> DEFINE Adds == job.cmd = "generate" => \A p \in job.existing : files'[p] = files[p]
<1>1. DiskInv /\ [Next]_vars => [Adds]_vars
  <2> SUFFICES ASSUME DiskInv, Next, job.cmd = "generate", NEW p \in job.existing
               PROVE  files'[p] = files[p]
    OBVIOUS
  <2>1. job # NoJob
    BY DEF NoJob
  <2>2. p \in Paths /\ p # Current.path
    BY <2>1, CurrentIs
  <2>3. files = [q \in Paths |-> files[q]]
    BY DEF DiskInv, Kept
  <2>4. CASE \E text : files' = [files EXCEPT ![Current.path] = text]
    BY <2>2, <2>3, <2>4
  <2>5. CASE files' = files
    BY <2>5
  <2>6. files' = files \/ \E text : files' = [files EXCEPT ![Current.path] = text]
    <3>1. Open => files' = [files EXCEPT ![Current.path] = <<>>]
      BY DEF Open
    <3>2. Write => files' = [files EXCEPT ![Current.path] = ToText(Current.bundle)]
      BY DEF Write
    <3>3. WriteFails => \E text : files' = [files EXCEPT ![Current.path] = text]
      BY DEF WriteFails
    <3>4. \/ Open \/ Write \/ WriteFails
          \/ files' = files
      BY DEF Next, Generate, Reissue, Start, Abort, StartCollector, ReadFile, ProvisionNext, Serve
    <3>5. QED
      BY <3>1, <3>2, <3>3, <3>4
  <2>7. QED
    BY <2>4, <2>5, <2>6
<1>2. QED
  BY <1>1, DiskInductive, PTL DEF Spec, GenerateOnlyAdds

-----------------------------------------------------------------------------
\* A peer is what is left of an issued bundle of its node.
Serves(peer, id, b) ==
    /\ b.sender_id = id /\ b.device_secret = peer.secret /\ b.cipher_id = peer.cipher
    /\ ClippedFrom(peer.layouts, b.layouts)

\* What the collector has read and what it serves are parts of issued bundles.
Honest(c, B) ==
    /\ c = [up |-> c.up, starting |-> c.starting, pending |-> c.pending, read |-> c.read,
            peers |-> c.peers, due |-> c.due]
    /\ c.up => ~c.starting /\ c.pending = {} /\ c.read = <<>>
    /\ c.pending \subseteq Listed \cap Paths
    /\ IsSequence(c.read)
    /\ \A i \in DOMAIN c.read : \E b \in B : PartOf(c.read[i], b)
    /\ \A id \in DOMAIN c.peers : \E b \in B : Serves(c.peers[id], id, b)

\* A node that is due is served, or was read, or its file is still to be read.
NoneMissing(c) ==
    /\ c.due \subseteq Ids
    /\ \A id \in c.due : \/ NodePath[id] \in c.pending
                         \/ \E i \in DOMAIN c.read : c.read[i].sender_id = id
                         \/ id \in DOMAIN c.peers

BundleIn(f, p, id) == IsOk(Parse(f[p])) /\ Parse(f[p]).value.sender_id = id

\* The files that were read, when none was touched since the start.
Done(c, f) == {p \in Listed \cap Paths : f[p] # NoFile /\ p \notin c.pending}

\* The secret of a node is that of the last bundle of it that is read, or is served
\* already.
Says(read, peers, id, secret) ==
    /\ \A i \in DOMAIN read :
          /\ read[i].sender_id = id
          /\ \A j \in DOMAIN read : read[j].sender_id = id => j <= i
          => read[i].device_secret = secret
    /\ (\A i \in DOMAIN read : read[i].sender_id # id) /\ id \in DOMAIN peers
       => peers[id].secret = secret

\* The files are read in order, and of each node the latest counts.
Agreeing(c, f) ==
    /\ \A p \in Done(c, f), q \in c.pending : p < q
    /\ \A p \in Done(c, f), id \in Ids :
          /\ BundleIn(f, p, id)
          /\ \A q \in Done(c, f) : BundleIn(f, q, id) => q <= p
          => Says(c.read, c.peers, id, Parse(f[p]).value.device_secret)

\* The inductive invariant of the collector, with that of the disk.
CollectorInv ==
    /\ Honest(collector, issued)
    /\ NoneMissing(collector)
    /\ settled => Agreeing(collector, files)

\* A sequence with one more element, and without its first.
LEMMA AppendIs ==
    ASSUME NEW s, IsSequence(s), NEW v
    PROVE  /\ Len(s) \in Nat /\ DOMAIN s = 1 .. Len(s)
           /\ IsSequence(Append(s, v)) /\ DOMAIN Append(s, v) = 1 .. Len(s) + 1
           /\ \A i \in 1 .. Len(s) : Append(s, v)[i] = s[i]
           /\ Append(s, v)[Len(s) + 1] = v
<1>1. PICK S : s \in Seq(S)
  BY DEF IsSequence
<1> DEFINE L == S \cup {v}
<1>2. s \in Seq(L) /\ v \in L
  BY <1>1, SeqMonotonic
<1> HIDE DEF L
<1>3. /\ Append(s, v) \in Seq(L) /\ Len(Append(s, v)) = Len(s) + 1
      /\ \A i \in 1 .. Len(s) : Append(s, v)[i] = s[i]
      /\ Append(s, v)[Len(s) + 1] = v
  BY <1>2, AppendProperties
<1>4. /\ Len(s) \in Nat /\ DOMAIN s = 1 .. Len(s)
      /\ DOMAIN Append(s, v) = 1 .. Len(Append(s, v))
  BY <1>2, <1>3, LenProperties
<1>5. QED
  BY <1>3, <1>4 DEF IsSequence

LEMMA TailIs ==
    ASSUME NEW s, IsSequence(s), s # <<>>
    PROVE  /\ Len(s) \in Nat \ {0} /\ DOMAIN s = 1 .. Len(s) /\ Head(s) = s[1]
           /\ IsSequence(Tail(s)) /\ DOMAIN Tail(s) = 1 .. Len(s) - 1
           /\ \A i \in 1 .. Len(s) - 1 : Tail(s)[i] = s[i + 1]
<1>1. PICK S : s \in Seq(S)
  BY DEF IsSequence
<1>2. /\ Tail(s) \in Seq(S) /\ Len(Tail(s)) = Len(s) - 1
      /\ \A i \in 1 .. Len(Tail(s)) : Tail(s)[i] = s[i + 1]
  BY <1>1, HeadTailProperties
<1>3. /\ Len(s) \in Nat \ {0} /\ DOMAIN s = 1 .. Len(s)
      /\ DOMAIN Tail(s) = 1 .. Len(Tail(s))
  BY <1>1, <1>2, EmptySeq, LenProperties
<1>4. Head(s) = s[1]
  BY <1>1
<1>5. QED
  BY <1>2, <1>3, <1>4 DEF IsSequence

\* A bundle whose cipher_id was cut to 0 makes no peer; any other part keeps its suite.
LEMMA PeerOfPart ==
    ASSUME NEW v, NEW b, PartOf(v, b), IsOk(IntoPeerConfig(v, TRUE))
    PROVE  /\ Serves(IntoPeerConfig(v, TRUE).value, v.sender_id, b)
           /\ IntoPeerConfig(v, TRUE).value.secret = v.device_secret
<1>1. v.cipher_id \in CipherIds
  BY DEF IntoPeerConfig, Err, IsOk
<1>2. v.cipher_id = b.cipher_id
  BY <1>1 DEF PartOf, CipherIds
<1> DEFINE peer == IntoPeerConfig(v, TRUE).value
<1>3. peer = [secret |-> v.device_secret, cipher |-> v.cipher_id, layouts |-> v.layouts]
  BY <1>1 DEF IntoPeerConfig, Ok
<1> HIDE DEF peer
<1>4. peer.secret = v.device_secret /\ peer.cipher = v.cipher_id /\ peer.layouts = v.layouts
  BY <1>3
<1>5. QED
  BY <1>2, <1>4 DEF Serves, PartOf, peer

\* A bundle that is read is the last one of its node.
LEMMA SaysRead ==
    ASSUME NEW read, IsSequence(read), NEW peers, NEW v, NEW id, NEW secret,
           \/ v.sender_id = id /\ secret = v.device_secret
           \/ v.sender_id # id /\ Says(read, peers, id, secret)
    PROVE  Says(Append(read, v), peers, id, secret)
<1> DEFINE more == Append(read, v)
           n == Len(read)
<1>1. /\ n \in Nat /\ DOMAIN read = 1 .. n /\ DOMAIN more = 1 .. n + 1
      /\ \A i \in 1 .. n : more[i] = read[i]
      /\ more[n + 1] = v
  BY AppendIs
<1> HIDE DEF more, n
<1>2. \A i \in 1 .. n + 1 : i \in 1 .. n \/ i = n + 1
  BY <1>1
<1>3. \A i \in 1 .. n : i \in 1 .. n + 1 /\ ~(n + 1 <= i)
  BY <1>1
<1>4. n + 1 \in 1 .. n + 1
  BY <1>1
<1>5. CASE v.sender_id = id /\ secret = v.device_secret
  BY <1>1, <1>2, <1>3, <1>4, <1>5 DEF Says, more
<1>6. CASE v.sender_id # id /\ Says(read, peers, id, secret)
  <2>1. /\ \A i \in 1 .. n :
              /\ read[i].sender_id = id
              /\ \A j \in 1 .. n : read[j].sender_id = id => j <= i
              => read[i].device_secret = secret
        /\ (\A i \in 1 .. n : read[i].sender_id # id) /\ id \in DOMAIN peers
           => peers[id].secret = secret
    BY <1>1, <1>6 DEF Says
  <2>2. ASSUME NEW i \in 1 .. n + 1, more[i].sender_id = id,
               \A j \in 1 .. n + 1 : more[j].sender_id = id => j <= i
        PROVE  more[i].device_secret = secret
    <3>1. i \in 1 .. n /\ more[i] = read[i]
      BY <1>1, <1>2, <1>6, <2>2
    <3>2. \A j \in 1 .. n : read[j].sender_id = id => j <= i
      BY <1>1, <1>3, <2>2
    <3>3. QED
      BY <2>1, <2>2, <3>1, <3>2
  <2>3. (\A i \in 1 .. n + 1 : more[i].sender_id # id) => \A i \in 1 .. n : read[i].sender_id # id
    BY <1>1, <1>3
  <2>4. QED
    BY <1>1, <2>1, <2>2, <2>3 DEF Says, more
<1>7. QED
  BY <1>5, <1>6

\* A bundle that is provisioned takes the place of the one it follows.
LEMMA SaysNext ==
    ASSUME NEW read, IsSequence(read), read # <<>>, NEW peers, NEW id, NEW secret,
           Says(read, peers, id, secret),
           IntoPeerConfig(Head(read), TRUE).value.secret = Head(read).device_secret
    PROVE  Says(Tail(read), Provision(peers, Head(read)), id, secret)
<1> DEFINE rest == Tail(read)
           n == Len(read)
           served == Provision(peers, Head(read))
<1>1. /\ n \in Nat \ {0} /\ DOMAIN read = 1 .. n /\ DOMAIN rest = 1 .. n - 1
      /\ Head(read) = read[1]
      /\ \A i \in 1 .. n - 1 : rest[i] = read[i + 1]
  BY TailIs
<1>2. /\ DOMAIN served = DOMAIN peers \cup {read[1].sender_id}
      /\ id = read[1].sender_id => served[id].secret = read[1].device_secret
      /\ id # read[1].sender_id /\ id \in DOMAIN peers => served[id] = peers[id]
  BY <1>1 DEF Provision
<1> HIDE DEF rest, n, served
<1>3. \A i \in 1 .. n : i = 1 \/ (i - 1 \in 1 .. n - 1 /\ (i - 1) + 1 = i)
  BY <1>1
<1>4. \A i \in 1 .. n - 1 : i + 1 \in 1 .. n /\ 1 <= i + 1
  BY <1>1
<1>5. /\ \A i \in 1 .. n :
            /\ read[i].sender_id = id
            /\ \A j \in 1 .. n : read[j].sender_id = id => j <= i
            => read[i].device_secret = secret
      /\ (\A i \in 1 .. n : read[i].sender_id # id) /\ id \in DOMAIN peers
         => peers[id].secret = secret
  BY <1>1 DEF Says
<1>6. ASSUME NEW i \in 1 .. n - 1, rest[i].sender_id = id,
             \A j \in 1 .. n - 1 : rest[j].sender_id = id => j <= i
      PROVE  rest[i].device_secret = secret
  <2>1. i + 1 \in 1 .. n /\ rest[i] = read[i + 1]
    BY <1>1, <1>4
  <2>2. ASSUME NEW j \in 1 .. n, read[j].sender_id = id PROVE j <= i + 1
    <3>1. CASE j = 1
      BY <1>1, <3>1
    <3>2. CASE j - 1 \in 1 .. n - 1 /\ (j - 1) + 1 = j
      <4>1. rest[j - 1] = read[j]
        BY <1>1, <3>2
      <4>2. j - 1 <= i
        BY <1>6, <2>2, <3>2, <4>1
      <4>3. QED
        BY <1>1, <4>2
    <3>3. QED
      BY <1>3, <3>1, <3>2
  <2>3. QED
    BY <1>5, <1>6, <2>1, <2>2
<1>7. ASSUME \A i \in 1 .. n - 1 : rest[i].sender_id # id, id \in DOMAIN served
      PROVE  served[id].secret = secret
  <2>1. \A i \in 1 .. n : i = 1 \/ read[i].sender_id # id
    <3>1. \A i \in 1 .. n : i = 1 \/ read[i] = rest[i - 1]
      BY <1>1, <1>3
    <3>2. QED
      BY <1>3, <1>7, <3>1
  <2>2. CASE id = read[1].sender_id
    <3>1. 1 \in 1 .. n /\ \A j \in 1 .. n : read[j].sender_id = id => j <= 1
      BY <1>1, <2>1
    <3>2. read[1].device_secret = secret
      BY <1>5, <2>2, <3>1
    <3>3. QED
      BY <1>2, <2>2, <3>2
  <2>3. CASE id # read[1].sender_id
    BY <1>2, <1>5, <1>7, <2>1, <2>3
  <2>4. QED
    BY <2>2, <2>3
<1>8. QED
  BY <1>1, <1>6, <1>7 DEF Says, rest, served

-----------------------------------------------------------------------------
\* A collector that is down has nothing to answer for.
LEMMA DownIs ==
    ASSUME NEW B, NEW f
    PROVE  Honest(Down, B) /\ NoneMissing(Down) /\ Agreeing(Down, f)
<1>1. /\ Down.up = FALSE /\ Down.starting = FALSE /\ Down.pending = {} /\ Down.due = {}
      /\ Down.read = <<>> /\ DOMAIN Down.read = {} /\ IsSequence(Down.read)
      /\ DOMAIN Down.peers = {}
  <2>1. <<>> \in Seq({}) /\ DOMAIN <<>> = {}
    OBVIOUS
  <2>2. DOMAIN NoPeers = {}
    BY DEF NoPeers
  <2>3. QED
    BY <2>1, <2>2 DEF Down, IsSequence
<1>2. Down = [up |-> Down.up, starting |-> Down.starting, pending |-> Down.pending,
              read |-> Down.read, peers |-> Down.peers, due |-> Down.due]
  BY DEF Down
<1>3. Honest(Down, B)
  BY <1>1, <1>2 DEF Honest
<1>4. NoneMissing(Down)
  BY <1>1 DEF NoneMissing
<1>5. \A id, secret : Says(Down.read, Down.peers, id, secret)
  BY <1>1 DEF Says
<1>6. Agreeing(Down, f)
  BY <1>1, <1>5 DEF Agreeing
<1>7. QED
  BY <1>3, <1>4, <1>6

LEMMA InitCollector == Init => CollectorInv
BY DownIs DEF Init, CollectorInv

\* Bundles are only added to those that were issued.
LEMMA HonestLater ==
    ASSUME NEW c, NEW B, Honest(c, B), NEW C, B \subseteq C
    PROVE  Honest(c, C)
BY DEF Honest

\* A start has every file of a due node before it.
LEMMA StartsHonest ==
    ASSUME DiskInv, StartCollector
    PROVE  CollectorInv'
<1> DEFINE c == collector'
<1>1. c = [up |-> FALSE, starting |-> TRUE, pending |-> Existing \cap Listed,
           read |-> <<>>, peers |-> NoPeers, due |-> enrolled]
  BY DEF StartCollector, Down
<1>2. files' = files /\ issued' = issued
  BY DEF StartCollector
<1> HIDE DEF c
<1>3. /\ c.up = FALSE /\ c.starting = TRUE /\ c.pending = Existing \cap Listed
      /\ c.read = <<>> /\ c.peers = NoPeers /\ c.due = enrolled
      /\ c = [up |-> c.up, starting |-> c.starting, pending |-> c.pending, read |-> c.read,
              peers |-> c.peers, due |-> c.due]
  BY <1>1
<1>4. DOMAIN c.read = {} /\ IsSequence(c.read) /\ DOMAIN c.peers = {}
  <2>1. <<>> \in Seq({}) /\ DOMAIN <<>> = {}
    OBVIOUS
  <2>2. DOMAIN NoPeers = {}
    BY DEF NoPeers
  <2>3. QED
    BY <1>3, <2>1, <2>2 DEF IsSequence
<1>5. c.pending \subseteq Listed \cap Paths
  BY <1>3 DEF Existing
<1>6. Honest(c, issued')
  BY <1>3, <1>4, <1>5 DEF Honest
<1>7. c.due \subseteq Ids /\ \A id \in c.due : NodePath[id] \in c.pending
  BY <1>3, PathsAre DEF DiskInv, Known, Existing
<1>8. NoneMissing(c)
  BY <1>7 DEF NoneMissing
<1>9. Done(c, files') = {}
  BY <1>2, <1>3 DEF Done, Existing
<1>10. Agreeing(c, files')
  BY <1>9 DEF Agreeing
<1>11. QED
  BY <1>6, <1>8, <1>10 DEF CollectorInv, c

\* A file that is read adds a part of a bundle to what was read; one that is not stops
\* the start.
LEMMA ReadsHonest ==
    ASSUME DiskInv, CollectorInv, ReadFile
    PROVE  CollectorInv'
<1> DEFINE c == collector
           d == collector'
<1>1. PICK p \in c.pending : (\A q \in c.pending : p <= q) /\ d = Read(p)
  BY DEF ReadFile
<1>2. c.starting /\ files' = files /\ issued' = issued /\ settled' = settled
  BY DEF ReadFile
<1>3. CASE ~IsOk(Parse(files[p]))
  <2>1. collector' = Down
    BY <1>1, <1>3 DEF Read
  <2>2. QED
    BY <2>1, DownIs DEF CollectorInv
<1>4. CASE IsOk(Parse(files[p]))
  <2> DEFINE v == Parse(files[p]).value
  <2>1. Honest(c, issued) /\ NoneMissing(c) /\ (settled => Agreeing(c, files))
    BY DEF CollectorInv
  <2>2. /\ c = [up |-> c.up, starting |-> c.starting, pending |-> c.pending, read |-> c.read,
                peers |-> c.peers, due |-> c.due]
        /\ c.pending \subseteq Listed \cap Paths /\ c.pending \subseteq Nat
        /\ IsSequence(c.read) /\ c.up = FALSE
    <3>1. c.up => FALSE
      BY <1>2, <2>1 DEF Honest
    <3>2. c.pending \subseteq Listed \cap Paths
      BY <2>1 DEF Honest
    <3>3. QED
      BY <2>1, <3>1, <3>2, PathsAre DEF Honest
  <2>3. d = [c EXCEPT !.pending = @ \ {p}, !.read = Append(@, v)]
    BY <1>1, <1>4 DEF Read
  <2>4. /\ p \in Paths /\ p \in Listed /\ p \in Nat /\ files[p] # NoFile
        /\ \E b \in issued : PartOf(v, b)
        /\ \A id \in Ids : p = NodePath[id] => v.sender_id = id
    <3>1. p \in Paths /\ p \in Listed /\ p \in Nat
      BY <1>1, <2>2
    <3>2. QED
      BY <1>4, <3>1, ParsedKept DEF DiskInv
  <2> DEFINE n == Len(c.read)
  <2>5. /\ n \in Nat /\ DOMAIN c.read = 1 .. n
        /\ IsSequence(Append(c.read, v)) /\ DOMAIN Append(c.read, v) = 1 .. n + 1
        /\ \A i \in 1 .. n : Append(c.read, v)[i] = c.read[i]
        /\ Append(c.read, v)[n + 1] = v
    BY <2>2, AppendIs
  <2>6. BundleIn(files, p, v.sender_id)
    BY <1>4 DEF BundleIn
  <2>7. \A id : BundleIn(files, p, id) => id = v.sender_id
    BY DEF BundleIn
  <2> HIDE DEF c, d, v, n
  <2>8. /\ d.up = FALSE /\ d.starting = c.starting /\ d.pending = c.pending \ {p}
        /\ d.read = Append(c.read, v) /\ d.peers = c.peers /\ d.due = c.due
        /\ d = [up |-> d.up, starting |-> d.starting, pending |-> d.pending, read |-> d.read,
                peers |-> d.peers, due |-> d.due]
    <3>1. d = [up |-> c.up, starting |-> c.starting, pending |-> c.pending \ {p},
               read |-> Append(c.read, v), peers |-> c.peers, due |-> c.due]
      BY <2>2, <2>3
    <3>2. QED
      BY <2>2, <3>1
  <2>9. Honest(d, issued)
    <3>1. ASSUME NEW i \in DOMAIN d.read PROVE \E b \in issued : PartOf(d.read[i], b)
      <4>1. i \in 1 .. n \/ i = n + 1
        BY <2>5, <2>8
      <4>2. CASE i \in 1 .. n
        BY <2>1, <2>5, <2>8, <4>2 DEF Honest
      <4>3. CASE i = n + 1
        BY <2>4, <2>5, <2>8, <4>3
      <4>4. QED
        BY <4>1, <4>2, <4>3
    <3>2. \A id \in DOMAIN d.peers : \E b \in issued : Serves(d.peers[id], id, b)
      BY <2>1, <2>8 DEF Honest
    <3>3. QED
      BY <2>2, <2>5, <2>8, <3>1, <3>2 DEF Honest
  <2>10. NoneMissing(d)
    <3>1. ASSUME NEW id \in d.due
          PROVE  \/ NodePath[id] \in d.pending
                 \/ \E i \in DOMAIN d.read : d.read[i].sender_id = id
                 \/ id \in DOMAIN d.peers
      <4>1. id \in Ids /\ \/ NodePath[id] \in c.pending
                          \/ \E i \in DOMAIN c.read : c.read[i].sender_id = id
                          \/ id \in DOMAIN c.peers
        BY <2>1, <2>8 DEF NoneMissing
      <4>2. CASE NodePath[id] = p
        <5>1. n + 1 \in DOMAIN d.read /\ d.read[n + 1].sender_id = id
          BY <2>4, <2>5, <2>8, <4>1, <4>2
        <5>2. QED
          BY <5>1
      <4>3. CASE NodePath[id] \in c.pending /\ NodePath[id] # p
        BY <2>8, <4>3
      <4>4. CASE \E i \in DOMAIN c.read : c.read[i].sender_id = id
        <5>1. PICK i \in 1 .. n : c.read[i].sender_id = id
          BY <2>5, <4>4
        <5>2. i \in DOMAIN d.read /\ d.read[i] = c.read[i]
          BY <2>5, <2>8, <5>1
        <5>3. QED
          BY <5>1, <5>2
      <4>5. CASE id \in DOMAIN c.peers
        BY <2>8, <4>5
      <4>6. QED
        BY <4>1, <4>2, <4>3, <4>4, <4>5
    <3>2. QED
      BY <2>1, <2>8, <3>1 DEF NoneMissing
  <2>11. ASSUME settled PROVE Agreeing(d, files)
    <3>1. Agreeing(c, files)
      BY <2>1, <2>11
    <3>2. Done(d, files) = Done(c, files) \cup {p}
      BY <2>4, <2>8 DEF Done
    <3>3. /\ Done(c, files) \subseteq Nat /\ p \notin Done(c, files)
          /\ \A q \in Done(c, files) : q < p
      <4>1. p \in c.pending
        BY <1>1 DEF c
      <4>2. Done(c, files) \subseteq Nat /\ p \notin Done(c, files)
        BY <4>1, PathsAre DEF Done
      <4>3. QED
        BY <3>1, <4>1, <4>2 DEF Agreeing
    <3>4. ASSUME NEW r \in Done(d, files), NEW q \in d.pending PROVE r < q
      <4>1. q \in c.pending /\ q # p /\ q \in Nat /\ p <= q
        BY <1>1, <2>2, <2>8 DEF c
      <4>2. CASE r = p
        BY <2>4, <4>1, <4>2
      <4>3. CASE r \in Done(c, files)
        BY <3>1, <4>1, <4>3 DEF Agreeing
      <4>4. QED
        BY <3>2, <4>2, <4>3
    <3>5. ASSUME NEW r \in Done(d, files), NEW id \in Ids,
                 BundleIn(files, r, id),
                 \A q \in Done(d, files) : BundleIn(files, q, id) => q <= r
          PROVE  Says(d.read, d.peers, id, Parse(files[r]).value.device_secret)
      <4> DEFINE secret == Parse(files[r]).value.device_secret
      <4>1. CASE r = p
        <5>1. v.sender_id = id /\ secret = v.device_secret
          BY <2>7, <3>5, <4>1 DEF v
        <5> HIDE DEF secret
        <5>2. Says(Append(c.read, v), c.peers, id, secret)
          BY <2>2, <5>1, SaysRead
        <5>3. QED
          BY <2>8, <5>2 DEF secret
      <4>2. CASE r \in Done(c, files)
        <5>1. v.sender_id # id
          <6>1. BundleIn(files, p, id) => p <= r
            BY <3>2, <3>5
          <6>2. r < p /\ r \in Nat
            BY <3>3, <4>2
          <6>3. ~BundleIn(files, p, id)
            BY <2>4, <6>1, <6>2
          <6>4. QED
            BY <2>6, <6>3
        <5>2. Says(c.read, c.peers, id, secret)
          BY <3>1, <3>2, <3>5, <4>2 DEF Agreeing
        <5> HIDE DEF secret
        <5>3. Says(Append(c.read, v), c.peers, id, secret)
          BY <2>2, <5>1, <5>2, SaysRead
        <5>4. QED
          BY <2>8, <5>3 DEF secret
      <4>3. QED
        BY <3>2, <4>1, <4>2
    <3>6. QED
      BY <3>4, <3>5 DEF Agreeing
  <2>12. QED
    BY <1>2, <2>9, <2>10, <2>11 DEF CollectorInv, d
<1>5. QED
  BY <1>3, <1>4

\* A bundle that is provisioned goes from what was read to what is served.
LEMMA ProvisionsHonest ==
    ASSUME DiskInv, CollectorInv, ProvisionNext
    PROVE  CollectorInv'
<1> DEFINE c == collector
           d == collector'
           b == Head(collector.read)
<1>1. /\ c.starting /\ c.pending = {} /\ c.read # <<>>
      /\ files' = files /\ issued' = issued /\ settled' = settled
      /\ d = IF IsOk(IntoPeerConfig(b, TRUE))
             THEN [c EXCEPT !.read = Tail(@), !.peers = Provision(@, b)]
             ELSE Down
  BY DEF ProvisionNext
<1>2. CASE ~IsOk(IntoPeerConfig(b, TRUE))
  <2>1. collector' = Down
    BY <1>1, <1>2
  <2>2. QED
    BY <2>1, DownIs DEF CollectorInv
<1>3. CASE IsOk(IntoPeerConfig(b, TRUE))
  <2>1. Honest(c, issued) /\ NoneMissing(c) /\ (settled => Agreeing(c, files))
    BY DEF CollectorInv
  <2>2. /\ c = [up |-> c.up, starting |-> c.starting, pending |-> c.pending, read |-> c.read,
                peers |-> c.peers, due |-> c.due]
        /\ IsSequence(c.read) /\ c.up = FALSE
    <3>1. c.up => FALSE
      BY <1>1, <2>1 DEF Honest
    <3>2. QED
      BY <2>1, <3>1 DEF Honest
  <2>3. d = [c EXCEPT !.read = Tail(@), !.peers = Provision(@, b)]
    BY <1>1, <1>3
  <2> DEFINE n == Len(c.read)
  <2>4. /\ n \in Nat \ {0} /\ DOMAIN c.read = 1 .. n /\ b = c.read[1]
        /\ IsSequence(Tail(c.read)) /\ DOMAIN Tail(c.read) = 1 .. n - 1
        /\ \A i \in 1 .. n - 1 : Tail(c.read)[i] = c.read[i + 1]
    BY <1>1, <2>2, TailIs
  <2> DEFINE peer == IntoPeerConfig(b, TRUE).value
             served == Provision(c.peers, b)
  <2>5. /\ DOMAIN served = DOMAIN c.peers \cup {b.sender_id}
        /\ served[b.sender_id] = peer
        /\ \A id \in DOMAIN c.peers : id # b.sender_id => served[id] = c.peers[id]
    BY DEF Provision
  <2>6. PICK a \in issued : PartOf(b, a)
    <3>1. 1 \in DOMAIN c.read
      BY <2>4
    <3>2. QED
      BY <2>1, <2>4, <3>1 DEF Honest
  <2>7. Serves(peer, b.sender_id, a) /\ peer.secret = b.device_secret
    <3> HIDE DEF b
    <3>1. QED
      BY <1>3, <2>6, PeerOfPart
  <2>8. \A id, secret : Says(c.read, c.peers, id, secret) => Says(Tail(c.read), served, id, secret)
    BY <1>1, <2>2, <2>7, SaysNext
  <2>9. /\ d.up = FALSE /\ d.starting = c.starting /\ d.pending = c.pending
        /\ d.read = Tail(c.read) /\ d.peers = served /\ d.due = c.due
        /\ d = [up |-> d.up, starting |-> d.starting, pending |-> d.pending, read |-> d.read,
                peers |-> d.peers, due |-> d.due]
    <3> HIDE DEF c, d, b
    <3>1. d = [up |-> c.up, starting |-> c.starting, pending |-> c.pending,
               read |-> Tail(c.read), peers |-> served, due |-> c.due]
      BY <2>2, <2>3
    <3> HIDE DEF served
    <3>2. QED
      BY <2>2, <3>1
  <2> HIDE DEF c, d, b, n, peer, served
  <2>10. Honest(d, issued)
    <3>1. ASSUME NEW i \in DOMAIN d.read PROVE \E w \in issued : PartOf(d.read[i], w)
      <4>1. i + 1 \in DOMAIN c.read /\ d.read[i] = c.read[i + 1]
        BY <2>4, <2>9
      <4>2. QED
        BY <2>1, <4>1 DEF Honest
    <3>2. ASSUME NEW id \in DOMAIN d.peers PROVE \E w \in issued : Serves(d.peers[id], id, w)
      <4>1. CASE id = b.sender_id
        BY <2>5, <2>6, <2>7, <2>9, <4>1
      <4>2. CASE id # b.sender_id
        <5>1. id \in DOMAIN c.peers /\ d.peers[id] = c.peers[id]
          BY <2>5, <2>9, <4>2
        <5>2. QED
          BY <2>1, <5>1 DEF Honest
      <4>3. QED
        BY <4>1, <4>2
    <3>3. QED
      BY <2>1, <2>4, <2>9, <3>1, <3>2 DEF Honest
  <2>11. NoneMissing(d)
    <3>1. ASSUME NEW id \in d.due
          PROVE  \/ NodePath[id] \in d.pending
                 \/ \E i \in DOMAIN d.read : d.read[i].sender_id = id
                 \/ id \in DOMAIN d.peers
      <4>1. \/ NodePath[id] \in c.pending
            \/ \E i \in DOMAIN c.read : c.read[i].sender_id = id
            \/ id \in DOMAIN c.peers
        BY <2>1, <2>9 DEF NoneMissing
      <4>2. CASE \E i \in DOMAIN c.read : c.read[i].sender_id = id
        <5>1. PICK i \in 1 .. n : c.read[i].sender_id = id
          BY <2>4, <4>2
        <5>2. CASE i = 1
          BY <2>4, <2>5, <2>9, <5>1, <5>2
        <5>3. CASE i # 1
          <6>1. i - 1 \in 1 .. n - 1 /\ (i - 1) + 1 = i
            BY <2>4, <5>3
          <6>2. i - 1 \in DOMAIN d.read /\ d.read[i - 1] = c.read[i]
            BY <2>4, <2>9, <6>1
          <6>3. QED
            BY <5>1, <6>2
        <5>4. QED
          BY <5>2, <5>3
      <4>3. QED
        BY <2>5, <2>9, <4>1, <4>2
    <3>2. QED
      BY <2>1, <2>9, <3>1 DEF NoneMissing
  <2>12. ASSUME settled PROVE Agreeing(d, files)
    <3>1. Agreeing(c, files) /\ Done(d, files) = Done(c, files)
      BY <2>1, <2>9, <2>12 DEF Done
    <3>2. QED
      BY <2>8, <2>9, <3>1 DEF Agreeing
  <2>13. QED
    BY <1>1, <2>10, <2>11, <2>12 DEF CollectorInv, d
<1>4. QED
  BY <1>2, <1>3

\* The collector comes up with what it has.
LEMMA ServesHonest ==
    ASSUME CollectorInv, Serve
    PROVE  CollectorInv'
<1> DEFINE c == collector
           d == collector'
<1>1. /\ c.pending = {} /\ c.read = <<>>
      /\ files' = files /\ issued' = issued /\ settled' = settled
      /\ d = [c EXCEPT !.up = TRUE, !.starting = FALSE]
  BY DEF Serve
<1>2. Honest(c, issued) /\ NoneMissing(c) /\ (settled => Agreeing(c, files))
  BY DEF CollectorInv
<1>3. c = [up |-> c.up, starting |-> c.starting, pending |-> c.pending, read |-> c.read,
           peers |-> c.peers, due |-> c.due]
  BY <1>2 DEF Honest
<1> HIDE DEF c, d
<1>4. /\ d.starting = FALSE /\ d.pending = c.pending
      /\ d.read = c.read /\ d.peers = c.peers /\ d.due = c.due
      /\ d = [up |-> d.up, starting |-> d.starting, pending |-> d.pending, read |-> d.read,
              peers |-> d.peers, due |-> d.due]
  <2>1. d = [up |-> TRUE, starting |-> FALSE, pending |-> c.pending,
             read |-> c.read, peers |-> c.peers, due |-> c.due]
    BY <1>1, <1>3
  <2>2. QED
    BY <2>1
<1>5. Honest(d, issued)
  BY <1>1, <1>2, <1>4 DEF Honest
<1>6. NoneMissing(d)
  BY <1>2, <1>4 DEF NoneMissing
<1>7. settled => Agreeing(d, files)
  <2>1. Done(d, files) = Done(c, files)
    BY <1>4 DEF Done
  <2>2. QED
    BY <1>2, <1>4, <2>1 DEF Agreeing
<1>8. QED
  BY <1>1, <1>5, <1>6, <1>7 DEF CollectorInv, d

\* Every step keeps CollectorInv.
LEMMA NextCollector ==
    ASSUME DiskInv, CollectorInv, [Next]_vars
    PROVE  CollectorInv'
<1>1. CASE Touched
  BY <1>1 DEF Touched, CollectorInv
<1>2. CASE UNCHANGED <<files, collector, settled>> /\ issued \subseteq issued'
  <2>1. Honest(collector, issued')
    BY <1>2, HonestLater DEF CollectorInv
  <2>2. QED
    BY <1>2, <2>1 DEF CollectorInv
<1>3. (\E n \in 1 .. Cardinality(Ids) : \E ids \in Batches(n), cipher \in Ciphers :
          Generate(ids, cipher, Layouts))
      => UNCHANGED <<files, collector, settled>> /\ issued \subseteq issued'
  BY DEF Generate, Start
<1>4. (\E old \in {p \in Paths : IsOk(Parse(files[p]))} :
          \E out \in Targets(Parse(files[old]).value.sender_id) : Reissue(old, out))
      => UNCHANGED <<files, collector, settled>> /\ issued \subseteq issued'
  BY DEF Reissue, Start
<1>5. Open \/ Write \/ WriteFails => Touched
  BY DEF Open, Write, WriteFails
<1>6. Abort \/ UNCHANGED vars => UNCHANGED <<files, collector, settled>> /\ issued \subseteq issued'
  BY DEF Abort, vars
<1>7. QED
  BY <1>1, <1>2, <1>3, <1>4, <1>5, <1>6, StartsHonest, ReadsHonest, ProvisionsHonest, ServesHonest
  DEF Next

-----------------------------------------------------------------------------
\* What the collector has and what is on disk agree in every reachable state.
THEOREM CollectorInductive == Spec => [](DiskInv /\ CollectorInv)
<1>1. Init => CollectorInv
  BY InitCollector
<1>2. DiskInv /\ CollectorInv /\ [Next]_vars => CollectorInv'
  BY NextCollector
<1>3. QED
  BY <1>1, <1>2, DiskInductive, PTL DEF Spec

\* A collector that comes up serves every node that had been given a whole bundle when
\* the start began: a file that cannot be read stops the start (load_bundles_dir).
THEOREM NodesServed == Spec => []NoPeerMissing
<1>1. CollectorInv => NoPeerMissing
  <2> SUFFICES ASSUME CollectorInv, collector.up, NEW id \in collector.due
               PROVE  id \in DOMAIN collector.peers
    BY DEF NoPeerMissing
  <2>1. collector.pending = {} /\ collector.read = <<>>
    BY DEF CollectorInv, Honest
  <2>2. DOMAIN collector.read = {}
    BY <2>1
  <2>3. QED
    BY <2>1, <2>2 DEF CollectorInv, NoneMissing
<1>2. QED
  BY <1>1, CollectorInductive, PTL

\* A peer has the id, the secret and the suite of one issued bundle, and lacks at most
\* layouts at its end: Bundle::parse needs every other field.
THEOREM ServedAsIssued == Spec => []OnlyLayoutsLost
<1>1. CollectorInv => OnlyLayoutsLost
  BY DEF CollectorInv, Honest, Serves, OnlyLayoutsLost
<1>2. QED
  BY <1>1, CollectorInductive, PTL

\* A collector started since the last file was written serves each node with the secret
\* of its bundle on disk, the latest of them by path (load_bundles_dir, provision).
THEOREM ServedAsOnDisk == Spec => []CutoverAgrees
<1>1. DiskInv /\ CollectorInv => CutoverAgrees
  <2> SUFFICES ASSUME DiskInv, CollectorInv, collector.up, settled,
                      NEW id \in DOMAIN collector.peers, NEW p \in Listed \cap Paths,
                      BundleOf(p, id),
                      ~\E q \in Listed \cap Paths : q > p /\ BundleOf(q, id)
               PROVE  collector.peers[id].secret = Parse(files[p]).value.device_secret
    BY DEF CutoverAgrees
  <2> DEFINE c == collector
             secret == Parse(files[p]).value.device_secret
  <2>1. c.pending = {} /\ c.read = <<>> /\ Agreeing(c, files)
    BY DEF CollectorInv, Honest
  <2>2. DOMAIN c.read = {}
    BY <2>1
  <2>3. files[p] # NoFile /\ id \in Ids
    <3>1. IsOk(Parse(files[p])) /\ Parse(files[p]).value.sender_id = id
      BY DEF BundleOf
    <3>2. QED
      BY <3>1, ParsedKept DEF DiskInv, IsBundle
  <2>4. p \in Done(c, files)
    BY <2>1, <2>3 DEF Done
  <2>5. BundleIn(files, p, id)
    BY DEF BundleOf, BundleIn
  <2>6. ASSUME NEW q \in Done(c, files), BundleIn(files, q, id) PROVE q <= p
    <3>1. q \in Listed \cap Paths /\ BundleOf(q, id)
      BY <2>6 DEF Done, BundleIn, BundleOf
    <3>2. q \in Nat /\ p \in Nat
      BY <3>1, PathsAre
    <3>3. QED
      BY <3>1, <3>2
  <2>7. Says(c.read, c.peers, id, secret)
    <3> HIDE DEF c
    <3>1. QED
      BY <2>1, <2>3, <2>4, <2>5, <2>6 DEF Agreeing
  <2>8. QED
    BY <2>2, <2>7 DEF Says
<1>2. QED
  BY <1>1, CollectorInductive, PTL
=============================================================================
