---------------------------- MODULE MessagesProofs ----------------------------
(***************************************************************************)
(* What the parsers make of SSIDs and of lines, and the daemon of          *)
(* addresses, for texts of every length.                                   *)
(***************************************************************************)
EXTENDS Messages, FiniteSetTheorems, SequenceTheorems, WellFoundedInduction, TLAPS

------------------------------------------------------------------------------
(* Sequences.                                                              *)

\* Induction: what holds of no least number holds of none.
LEMMA LeastNumber ==
  ASSUME NEW T, T \subseteq Nat, T # {}
  PROVE  \E x \in T : \A y \in T : x <= y
<1> DEFINE R == OpToRel(<, Nat)
<1>1. IsWellFoundedOn(R, Nat)
  BY NatLessThanWellFounded
<1>2. \A x, y \in Nat : ~ (<<y, x>> \in R) => x <= y
  BY DEF OpToRel
<1> HIDE DEF R
<1>3. \E x \in T : \A y \in T : ~ (<<y, x>> \in R)
  BY <1>1, WFMin
<1> QED
  BY <1>2, <1>3, Zenon

\* The recursive function of FlattenSeq exists.
LEMMA FlattenSteps ==
  ASSUME NEW seqs, Len(seqs) \in Nat, Len(seqs) # 0
  PROVE  \E f : /\ FlattenSeq(seqs) = f[Len(seqs)]
                /\ f = [i \in 1..Len(seqs) |->
                          IF i = 1 THEN seqs[i] ELSE f[i - 1] \o seqs[i]]
<1> DEFINE Step(g, i) == IF i = 1 THEN seqs[i] ELSE g[i - 1] \o seqs[i]
           Upto(g, m) == g = [i \in 1..m |-> Step(g, i)]
           Missing    == {m \in Nat : ~ \E g : Upto(g, m)}
<1>1. PICK f : FlattenSeq(seqs) = f[Len(seqs)] /\ f = CHOOSE g : Upto(g, Len(seqs))
  BY Zenon DEF FlattenSeq
<1>2. Missing = {}
  <2> SUFFICES ASSUME Missing # {} PROVE FALSE
    OBVIOUS
  <2>1. PICK m \in Missing : \A k \in Missing : m <= k
    BY LeastNumber
  <2>2. m \in Nat /\ ~ \E g : Upto(g, m)
    OBVIOUS
  <2>3. m # 0
    <3>1. Upto([i \in 1..0 |-> 0], 0)
      OBVIOUS
    <3> QED BY <2>2, <3>1
  <2>4. m - 1 \in Nat /\ m - 1 \notin Missing
    <3>1. m - 1 \in Nat /\ ~ (m <= m - 1)
      BY <2>2, <2>3
    <3> HIDE DEF Missing
    <3> QED BY <2>1, <3>1, Zenon
  <2>5. PICK g : Upto(g, m - 1)
    BY <2>4
  <2> DEFINE h == [i \in 1..m |-> IF i \in 1..(m - 1) THEN g[i] ELSE Step(g, i)]
  <2>6. ASSUME NEW i \in 1..m PROVE h[i] = Step(h, i)
    <3>1. i = 1 \/ (i - 1 \in 1..(m - 1) /\ h[i - 1] = g[i - 1])
      BY <2>2, <2>3
    <3>2. Step(h, i) = Step(g, i)
      BY <3>1
    <3>3. i \in 1..(m - 1) => g[i] = Step(g, i)
      BY <2>5, Zenon
    <3> QED BY <3>2, <3>3
  <2>7. Upto(h, m)
    BY <2>6
  <2> QED BY <2>2, <2>7
<1>3. Upto(f, Len(seqs))
  <2>1. \E g : Upto(g, Len(seqs))
    BY <1>2
  <2> HIDE DEF Upto
  <2> QED BY <1>1, <2>1, Zenon
<1>4. FlattenSeq(seqs) = f[Len(seqs)]
  BY <1>1, Zenon
<1>5. f = [i \in 1..Len(seqs) |-> IF i = 1 THEN seqs[i] ELSE f[i - 1] \o seqs[i]]
  BY <1>3, Zenon
<1> QED
  BY <1>4, <1>5, Zenon

\* Places in a concatenation.
LEMMA Within ==
  \A a, b \in Nat : /\ \A p \in 1..a : p \in 1..(a + b) /\ p <= a
                    /\ \A p \in 1..b : a + p \in 1..(a + b) /\ ~(a + p <= a) /\ a + p - a = p
                    /\ \A c \in Nat : c <= a => c <= a + b
  OBVIOUS

\* The k-th of the sequences ends at off[k] of flat.
AreEnds(off, seqs, flat) ==
    /\ off \in [0..Len(seqs) -> Nat]
    /\ off[0] = 0 /\ off[Len(seqs)] = Len(flat)
    /\ \A k \in 1..Len(seqs) :
         /\ off[k] = off[k - 1] + Len(seqs[k])
         /\ off[k] <= Len(flat)
         /\ \A j \in 1..Len(seqs[k]) : flat[off[k - 1] + j] = seqs[k][j]

\* What is flattened is a sequence, in which each of the sequences has its place.
LEMMA FlattenPlaces ==
  ASSUME NEW S, NEW seqs \in Seq(Seq(S))
  PROVE  FlattenSeq(seqs) \in Seq(S) /\ \E off : AreEnds(off, seqs, FlattenSeq(seqs))
<1> DEFINE n == Len(seqs)
<1>0. n \in Nat
  OBVIOUS
<1>1. CASE n = 0
  <2>1. seqs = <<>> /\ FlattenSeq(seqs) = seqs
    BY <1>1 DEF FlattenSeq
  <2>2. [i \in {0} |-> 0] \in [0..n -> Nat]
    BY <1>1
  <2>3. <<>> \in Seq(S) /\ Len(<<>>) = 0 /\ 1..0 = {}
    OBVIOUS
  <2> DEFINE none == [i \in {0} |-> 0]
  <2>4. none[0] = 0 /\ 1..n = {}
    BY <1>1
  <2> HIDE DEF none, n
  <2>5. AreEnds(none, seqs, seqs)
    BY <1>1, <2>1, <2>2, <2>3, <2>4, Zenon DEF AreEnds, none, n
  <2> QED BY <2>1, <2>3, <2>5, Zenon
<1>2. CASE n # 0
  <2>1. PICK f : /\ FlattenSeq(seqs) = f[n]
                 /\ f = [i \in 1..n |-> IF i = 1 THEN seqs[i] ELSE f[i - 1] \o seqs[i]]
    BY <1>0, <1>2, FlattenSteps
  <2>2. f[1] = seqs[1] /\ \A i \in 2..n : f[i] = f[i - 1] \o seqs[i]
    <3>1. \A i \in 1..n : f[i] = IF i = 1 THEN seqs[i] ELSE f[i - 1] \o seqs[i]
      BY <2>1, Zenon
    <3>2. 1 \in 1..n /\ \A i \in 2..n : i \in 1..n /\ i # 1
      BY <1>0, <1>2
    <3> QED BY <3>1, <3>2, Zenon
  <2>3. \A i \in 1..n : seqs[i] \in Seq(S)
    BY <1>0, ElementOfSeq
  <2> DEFINE Ill == {i \in 1..n : f[i] \notin Seq(S)}
  <2>4. Ill = {}
    <3> SUFFICES ASSUME Ill # {} PROVE FALSE
      OBVIOUS
    <3>1. PICK i \in Ill : \A k \in Ill : i <= k
      <4>1. Ill \subseteq Nat
        BY <1>0
      <4> HIDE DEF Ill
      <4> QED BY <4>1, LeastNumber
    <3>2. i \in 1..n /\ f[i] \notin Seq(S)
      OBVIOUS
    <3>3. i # 1
      BY <1>0, <1>2, <2>2, <2>3, <3>2
    <3>4. i - 1 \in 1..n /\ i - 1 \notin Ill /\ i \in 2..n
      BY <1>0, <3>1, <3>2, <3>3
    <3>5. f[i - 1] \in Seq(S) /\ seqs[i] \in Seq(S)
      BY <2>3, <3>2, <3>4
    <3>6. f[i - 1] \o seqs[i] \in Seq(S)
      BY <3>5, ConcatProperties, Zenon
    <3> QED BY <2>2, <3>2, <3>4, <3>6, Zenon
  <2>5. \A i \in 1..n : f[i] \in Seq(S) /\ Len(f[i]) \in Nat
    BY <2>4, LenProperties
  <2> HIDE DEF Ill
  <2> DEFINE off == [i \in 0..n |-> IF i = 0 THEN 0 ELSE Len(f[i])]
  <2>6. off \in [0..n -> Nat]
    <3>1. \A i \in 0..n : i = 0 \/ i \in 1..n
      BY <1>0
    <3> QED BY <2>5, <3>1
  <2>7. \A i \in 2..n : /\ Len(f[i]) = Len(f[i - 1]) + Len(seqs[i])
                        /\ \A p \in 1..(Len(f[i - 1]) + Len(seqs[i])) :
                             f[i][p] = IF p <= Len(f[i - 1]) THEN f[i - 1][p]
                                                             ELSE seqs[i][p - Len(f[i - 1])]
    <3> SUFFICES ASSUME NEW i \in 2..n
                 PROVE  /\ Len(f[i]) = Len(f[i - 1]) + Len(seqs[i])
                        /\ \A p \in 1..(Len(f[i - 1]) + Len(seqs[i])) :
                             f[i][p] = IF p <= Len(f[i - 1]) THEN f[i - 1][p]
                                                             ELSE seqs[i][p - Len(f[i - 1])]
      OBVIOUS
    <3>1. i \in 1..n /\ i - 1 \in 1..n
      BY <1>0
    <3>2. f[i] = f[i - 1] \o seqs[i] /\ f[i - 1] \in Seq(S) /\ seqs[i] \in Seq(S)
      BY <2>2, <2>3, <2>5, <3>1
    <3>3. /\ Len(f[i - 1] \o seqs[i]) = Len(f[i - 1]) + Len(seqs[i])
          /\ \A p \in 1..(Len(f[i - 1]) + Len(seqs[i])) :
               (f[i - 1] \o seqs[i])[p] = IF p <= Len(f[i - 1]) THEN f[i - 1][p]
                                                            ELSE seqs[i][p - Len(f[i - 1])]
      BY <3>2, ConcatProperties, Zenon
    <3> QED BY <3>2, <3>3, Zenon
  <2>8. ASSUME NEW i \in 1..n
        PROVE  \A m \in i..n : Len(f[i]) <= Len(f[m]) /\ \A p \in 1..Len(f[i]) : f[m][p] = f[i][p]
    <3> DEFINE Extends(m) == Len(f[i]) <= Len(f[m]) /\ \A p \in 1..Len(f[i]) : f[m][p] = f[i][p]
               Not == {m \in i..n : ~Extends(m)}
    <3> SUFFICES ASSUME Not # {} PROVE FALSE
      OBVIOUS
    <3>1. PICK m \in Not : \A k \in Not : m <= k
      <4>1. Not \subseteq Nat
        BY <1>0
      <4> HIDE DEF Not
      <4> QED BY <4>1, LeastNumber
    <3>2. m \in i..n /\ ~Extends(m)
      OBVIOUS
    <3>3. m # i
      BY <2>5, <3>2
    <3>4. m - 1 \in i..n /\ m \in 2..n /\ m - 1 \in 1..n /\ m \in 1..n /\ ~ (m <= m - 1)
      <4> HIDE DEF Extends, Not
      <4> QED BY <1>0, <3>2, <3>3
    <3>5. Extends(m - 1)
      <4>1. m - 1 \notin Not
        <5> HIDE DEF Not
        <5> QED BY <3>1, <3>4, Zenon
      <4> HIDE DEF Extends
      <4> QED BY <3>4, <4>1, Zenon
    <3>6. Len(seqs[m]) \in Nat
      BY <2>3, <3>4, LenProperties
    <3>7. /\ Len(f[m]) = Len(f[m - 1]) + Len(seqs[m])
          /\ \A p \in 1..Len(f[m - 1]) : f[m][p] = f[m - 1][p]
      <4>1. Len(f[m - 1]) \in Nat
        BY <2>5, <3>4
      <4>2. \A p \in 1..Len(f[m - 1]) :
              p \in 1..(Len(f[m - 1]) + Len(seqs[m])) /\ p <= Len(f[m - 1])
        BY <3>6, <4>1, Within, Zenon
      <4> QED BY <2>7, <3>4, <4>2, Zenon
    <3>8. Len(f[i]) \in Nat /\ Len(f[m - 1]) \in Nat
      BY <2>5, <3>4
    <3>9. Extends(m)
      <4>1. Len(f[i]) <= Len(f[m])
        <5>1. Len(f[i]) <= Len(f[m - 1])
          BY <3>5, Zenon
        <5>2. Len(f[m]) = Len(f[m - 1]) + Len(seqs[m])
          BY <3>7, Zenon
        <5> DEFINE a == Len(f[i])
                   b == Len(f[m - 1])
                   c == Len(seqs[m])
                   d == Len(f[m])
        <5> HIDE DEF a, b, c, d
        <5>3. a \in Nat /\ b \in Nat /\ c \in Nat /\ a <= b /\ d = b + c
          BY <3>6, <3>8, <5>1, <5>2, Zenon DEF a, b, c, d
        <5>4. a <= d
          BY <5>3
        <5> QED BY <5>4 DEF a, d
      <4>2. \A p \in 1..Len(f[i]) : p \in 1..Len(f[m - 1])
        BY <3>5, <3>8
      <4>3. \A p \in 1..Len(f[i]) : f[m][p] = f[i][p]
        BY <3>5, <3>7, <4>2, Zenon
      <4> QED BY <4>1, <4>3
    <3> QED BY <3>2, <3>9
  <2>9. ASSUME NEW k \in 1..n
        PROVE  /\ off[k] = off[k - 1] + Len(seqs[k])
               /\ off[k] <= Len(f[n])
               /\ \A j \in 1..Len(seqs[k]) : f[n][off[k - 1] + j] = seqs[k][j]
    <3>1. off[k] = Len(f[k]) /\ off[k - 1] \in Nat /\ Len(seqs[k]) \in Nat
      BY <1>0, <2>3, <2>6, LenProperties
    <3>2. n \in k..n
      BY <1>0
    <3>3. Len(f[k]) <= Len(f[n]) /\ \A p \in 1..Len(f[k]) : f[n][p] = f[k][p]
      BY <2>8, <3>2
    <3>4. /\ Len(f[k]) = off[k - 1] + Len(seqs[k])
          /\ \A j \in 1..Len(seqs[k]) : f[k][off[k - 1] + j] = seqs[k][j]
      <4>1. CASE k = 1
        <5>1. off[k - 1] = 0 /\ f[k] = seqs[k]
          BY <1>0, <2>2, <4>1
        <5> HIDE DEF off
        <5> QED BY <3>1, <5>1
      <4>2. CASE k # 1
        <5>1. k \in 2..n /\ off[k - 1] = Len(f[k - 1])
          BY <1>0, <4>2
        <5> HIDE DEF off
        <5>2. Len(f[k]) = off[k - 1] + Len(seqs[k])
          BY <2>7, <5>1
        <5>3. ASSUME NEW j \in 1..Len(seqs[k]) PROVE f[k][off[k - 1] + j] = seqs[k][j]
          <6>1. off[k - 1] = Len(f[k - 1]) /\ off[k - 1] \in Nat /\ Len(seqs[k]) \in Nat
            BY <3>1, <5>1
          <6>2. PICK a \in Nat, c \in Nat : a = off[k - 1] /\ c = Len(seqs[k])
            BY <6>1, Zenon
          <6>3. j \in 1..c
            BY <6>2, Zenon
          <6>4. PICK p : p = a + j
            OBVIOUS
          <6>5. p \in 1..(a + c) /\ ~ (p <= a) /\ p - a = j
            BY <6>3, <6>4
          <6>6. f[k][p] = IF p <= a THEN f[k - 1][p] ELSE seqs[k][p - a]
            BY <2>7, <5>1, <6>1, <6>2, <6>5, Zenon
          <6>7. f[k][p] = seqs[k][j]
            BY <6>5, <6>6, Zenon
          <6> QED BY <6>2, <6>4, <6>7, Zenon
        <5> QED BY <5>2, <5>3
      <4> QED BY <4>1, <4>2
    <3> HIDE DEF off
    <3>5. \A j \in 1..Len(seqs[k]) : off[k - 1] + j \in 1..Len(f[k])
      BY <3>1, <3>4
    <3> QED BY <3>1, <3>3, <3>4, <3>5
  <2>10. off[0] = 0 /\ off[n] = Len(f[n]) /\ f[n] \in Seq(S)
    BY <1>0, <1>2, <2>5
  <2> HIDE DEF off
  <2>11. AreEnds(off, seqs, f[n])
    BY <2>6, <2>9, <2>10, Zenon DEF AreEnds
  <2> QED BY <2>1, <2>10, <2>11, Zenon
<1> QED
  BY <1>1, <1>2

\* Bounded sequences are sequences.
LEMMA BoundedIsSeq ==
  ASSUME NEW S, NEW n \in Nat
  PROVE  BoundedSeq(S, n) \subseteq Seq(S)
<1>1. 0..n \subseteq Nat
  OBVIOUS
<1> QED
  BY <1>1, SeqDef, Zenon DEF BoundedSeq, SeqOf

------------------------------------------------------------------------------
(* SSIDs.                                                                  *)

\* Where the characters of an SSID end in what hostapd makes of it.
Spelt(ssid) == [i \in DOMAIN ssid |-> PrintfEncode(ssid[i])]
AreOffsets(off, ssid) == AreEnds(off, Spelt(ssid), Encoded(ssid))

Offset(ssid) == CHOOSE off : AreOffsets(off, ssid)

\* How hostapd spells each character.
LEMMA Spelled ==
  /\ \A c \in {"a", "n", "x"} : PrintfEncode(c) = <<c>>
  /\ PrintfEncode("quote") = <<"backslash", "quote">>
  /\ PrintfEncode("backslash") = <<"backslash", "backslash">>
  /\ PrintfEncode("LF") = <<"backslash", "n">>
  /\ PrintfEncode("AA") = <<"backslash", "x", "a", "a">>
<1>1. \A c \in {"a", "n", "x"} : c # "quote" /\ c # "backslash" /\ c # "LF" /\ c # "AA"
  OBVIOUS
<1> QED
  BY <1>1 DEF PrintfEncode

\* A spelling is a text of its own alphabet, and never empty.
LEMMA SpelledInSsid ==
  ASSUME NEW c \in SsidChar
  PROVE  PrintfEncode(c) \in Seq(SsidChar) /\ Len(PrintfEncode(c)) \in Nat \ {0}
<1>1. {"a", "n", "x", "quote", "backslash", "LF", "AA"} = SsidChar
  BY DEF SsidChar
<1>2. \A x1 \in SsidChar : <<x1>> \in Seq(SsidChar) /\ Len(<<x1>>) = 1
  OBVIOUS
<1>3. \A x1, x2 \in SsidChar : <<x1, x2>> \in Seq(SsidChar) /\ Len(<<x1, x2>>) = 2
  OBVIOUS
<1>4. \A x1, x2, x3, x4 \in SsidChar :
         <<x1, x2, x3, x4>> \in Seq(SsidChar) /\ Len(<<x1, x2, x3, x4>>) = 4
  OBVIOUS
<1>5. "a" \in SsidChar /\ "n" \in SsidChar /\ "x" \in SsidChar /\ "quote" \in SsidChar
      /\ "backslash" \in SsidChar
  BY DEF SsidChar
<1>6. 1 \in Nat \ {0} /\ 2 \in Nat \ {0} /\ 4 \in Nat \ {0}
  OBVIOUS
<1>7. CASE c \in {"a", "n", "x"}
  BY <1>2, <1>6, <1>7, Spelled, Zenon
<1>8. CASE c = "quote"
  BY <1>3, <1>5, <1>6, <1>8, Spelled, Zenon
<1>9. CASE c = "backslash"
  BY <1>3, <1>5, <1>6, <1>9, Spelled, Zenon
<1>10. CASE c = "LF"
  BY <1>3, <1>5, <1>6, <1>10, Spelled, Zenon
<1>11. CASE c = "AA"
  <2> DEFINE e == <<"backslash", "x", "a", "a">>
  <2>1. e \in Seq(SsidChar) /\ Len(e) = 4
    BY <1>4, <1>5, Zenon
  <2>2. PrintfEncode(c) = e
    BY <1>11, Spelled, Zenon
  <2> HIDE DEF e
  <2> QED BY <1>6, <2>1, <2>2, Zenon
<1> QED
  BY <1>7, <1>8, <1>9, <1>10, <1>11 DEF SsidChar

\* So an encoded SSID is the spellings of its characters, each in its place.
LEMMA EncodedPlaces ==
  ASSUME NEW ssid \in Seq(SsidChar)
  PROVE  /\ Encoded(ssid) \in Seq(SsidChar)
         /\ AreOffsets(Offset(ssid), ssid)
         /\ Len(Spelt(ssid)) = Len(ssid)
         /\ \A i \in 1..Len(ssid) : Spelt(ssid)[i] = PrintfEncode(ssid[i])
<1>1. /\ Len(ssid) \in Nat /\ DOMAIN ssid = 1..Len(ssid)
      /\ \A i \in 1..Len(ssid) : ssid[i] \in SsidChar
  BY LenProperties, ElementOfSeq
<1>2. \A i \in 1..Len(ssid) : PrintfEncode(ssid[i]) \in Seq(SsidChar)
  BY <1>1, SpelledInSsid
<1>3. /\ Spelt(ssid) \in Seq(Seq(SsidChar)) /\ Len(Spelt(ssid)) = Len(ssid)
      /\ \A i \in 1..Len(ssid) : Spelt(ssid)[i] = PrintfEncode(ssid[i])
  BY <1>1, <1>2 DEF Spelt
<1>4. Encoded(ssid) = FlattenSeq(Spelt(ssid))
  BY Zenon DEF Encoded, Spelt
<1>5. Encoded(ssid) \in Seq(SsidChar) /\ \E off : AreOffsets(off, ssid)
  BY <1>3, <1>4, FlattenPlaces, Zenon DEF AreOffsets
<1> QED
  BY <1>3, <1>5, Zenon DEF Offset

\* Whatever is not decoded yet takes some of the text.
LEMMA OffsetsGrow ==
  ASSUME NEW ssid \in Seq(SsidChar), NEW k \in 0..Len(ssid), k + 1 \in 1..Len(ssid)
  PROVE  Offset(ssid)[k] < Len(Encoded(ssid)) /\ Offset(ssid)[k] \in Nat
<1> DEFINE off == Offset(ssid)
           e == PrintfEncode(ssid[k + 1])
           l == Len(Encoded(ssid))
<1>1. /\ Encoded(ssid) \in Seq(SsidChar) /\ AreEnds(off, Spelt(ssid), Encoded(ssid))
      /\ Len(Spelt(ssid)) = Len(ssid) /\ Spelt(ssid)[k + 1] = e
  BY EncodedPlaces, Zenon DEF AreOffsets
<1>2. off \in [0..Len(ssid) -> Nat] /\ off[k + 1] = off[(k + 1) - 1] + Len(e) /\ off[k + 1] <= l
  BY <1>1, Zenon DEF AreEnds
<1>3. Len(e) \in Nat \ {0}
  BY ElementOfSeq, SpelledInSsid
<1>4. off[k] \in Nat /\ l \in Nat /\ (k + 1) - 1 = k
  <2>1. off[k] \in Nat
    BY <1>2
  <2> QED BY <1>1, <2>1, LenProperties
<1> HIDE DEF off, e, l
<1>5. off[k] < l
  BY <1>2, <1>3, <1>4
<1> QED
  BY <1>4, <1>5 DEF off, l

\* After k characters, t goes on with the spelling of the next one.
GoesOn(ssid, cut, k, t) ==
    LET e == PrintfEncode(ssid[k + 1])
    IN  /\ k + 1 \in 1..Len(ssid) /\ ssid[k + 1] \in SsidChar
        /\ Offset(ssid)[k] \in Nat
        /\ Offset(ssid)[k + 1] = Offset(ssid)[k] + Len(e)
        /\ Offset(ssid)[k + 1] <= Len(Encoded(ssid))
        /\ t \in Seq(SsidChar) /\ Len(t) = cut - Offset(ssid)[k]
        /\ \A j \in 1..Len(e) : j <= Len(t) => t[j] = e[j]

\* What is left of a text that has been decoded up to a character is empty, or
\* it goes on with the spelling of the next one.
LEMMA NextChar ==
  ASSUME NEW ssid \in Seq(SsidChar), NEW cut \in 0..Len(Encoded(ssid)),
         NEW k \in 0..Len(ssid), Offset(ssid)[k] < cut
  PROVE  GoesOn(ssid, cut, k, SubSeq(Encoded(ssid), Offset(ssid)[k] + 1, cut))
<1> DEFINE off == Offset(ssid)
           enc == Encoded(ssid)
           n   == Len(ssid)
           e   == PrintfEncode(ssid[k + 1])
<1>1. /\ enc \in Seq(SsidChar) /\ Len(enc) \in Nat /\ n \in Nat
      /\ off \in [0..n -> Nat] /\ off[n] = Len(enc)
      /\ \A i \in 1..n : /\ off[i] = off[i - 1] + Len(PrintfEncode(ssid[i]))
                         /\ off[i] <= Len(enc)
                         /\ \A j \in 1..Len(PrintfEncode(ssid[i])) :
                              enc[off[i - 1] + j] = PrintfEncode(ssid[i])[j]
  <2>1. /\ enc \in Seq(SsidChar) /\ AreEnds(off, Spelt(ssid), enc)
        /\ Len(Spelt(ssid)) = n
        /\ \A i \in 1..n : Spelt(ssid)[i] = PrintfEncode(ssid[i])
    BY EncodedPlaces, Zenon DEF AreOffsets
  <2> HIDE DEF off, enc
  <2>2. Len(enc) \in Nat /\ n \in Nat
    BY <2>1, LenProperties
  <2> HIDE DEF n
  <2>3. /\ off \in [0..n -> Nat] /\ off[n] = Len(enc)
    BY <2>1, Zenon DEF AreEnds
  <2>4. \A i \in 1..n : /\ off[i] = off[i - 1] + Len(PrintfEncode(ssid[i]))
                        /\ off[i] <= Len(enc)
                        /\ \A j \in 1..Len(PrintfEncode(ssid[i])) :
                              enc[off[i - 1] + j] = PrintfEncode(ssid[i])[j]
    <3> SUFFICES ASSUME NEW i \in 1..n
                 PROVE  /\ off[i] = off[i - 1] + Len(PrintfEncode(ssid[i]))
                        /\ off[i] <= Len(enc)
                        /\ \A j \in 1..Len(PrintfEncode(ssid[i])) :
                              enc[off[i - 1] + j] = PrintfEncode(ssid[i])[j]
      OBVIOUS
    <3>1. Spelt(ssid)[i] = PrintfEncode(ssid[i]) /\ i \in 1..Len(Spelt(ssid))
      BY <2>1, Zenon
    <3>2. /\ off[i] = off[i - 1] + Len(Spelt(ssid)[i])
          /\ off[i] <= Len(enc)
          /\ \A j \in 1..Len(Spelt(ssid)[i]) : enc[off[i - 1] + j] = Spelt(ssid)[i][j]
      BY <2>1, <3>1, Zenon DEF AreEnds
    <3> QED BY <3>1, <3>2, Zenon
  <2> QED BY <2>1, <2>2, <2>3, <2>4
<1> DEFINE t == SubSeq(enc, off[k] + 1, cut)
<1>x. off[k] < cut /\ cut \in 0..Len(enc) /\ k \in 0..n
  OBVIOUS
<1>2. \A i \in 1..n : ssid[i] \in SsidChar
  BY ElementOfSeq
<1> HIDE DEF off, enc, n, t
<1>3. off[k] \in Nat /\ k # n
  BY <1>1, <1>x
<1>4. k + 1 \in 1..n /\ (k + 1) - 1 = k
  BY <1>1, <1>3, <1>x
<1>5. /\ ssid[k + 1] \in SsidChar
      /\ off[k + 1] = off[k] + Len(e) /\ off[k + 1] <= Len(enc)
      /\ \A j \in 1..Len(e) : enc[off[k] + j] = e[j]
  <2>1. /\ off[k + 1] = off[(k + 1) - 1] + Len(e) /\ off[k + 1] <= Len(enc)
        /\ \A j \in 1..Len(e) : enc[off[(k + 1) - 1] + j] = e[j]
    BY <1>1, <1>4, Zenon
  <2> QED BY <1>2, <1>4, <2>1
<1>6. /\ t \in Seq(SsidChar) /\ Len(t) = cut - off[k]
      /\ \A j \in 1..(cut - off[k]) : t[j] = enc[off[k] + j]
  <2>1. \A i \in (off[k] + 1)..cut : enc[i] \in SsidChar
    <3>1. \A i \in (off[k] + 1)..cut : i \in 1..Len(enc)
      BY <1>1, <1>3, <1>x
    <3> QED BY <1>1, <3>1, ElementOfSeq
  <2> DEFINE a == off[k] + 1
  <2>2. /\ a \in Int /\ cut \in Int /\ a <= cut /\ cut - a + 1 = cut - off[k]
        /\ \A j \in Int : a + j - 1 = off[k] + j
    BY <1>1, <1>3, <1>x
  <2> HIDE DEF a
  <2>3. /\ SubSeq(enc, a, cut) \in Seq(SsidChar)
        /\ Len(SubSeq(enc, a, cut)) = IF a <= cut THEN cut - a + 1 ELSE 0
        /\ \A j \in 1..(cut - a + 1) : SubSeq(enc, a, cut)[j] = enc[a + j - 1]
    <3>1. \A i \in a..cut : enc[i] \in SsidChar
      BY <2>1 DEF a
    <3>2. a \in Int /\ cut \in Int
      BY <2>2
    <3> QED BY <3>1, <3>2, SubSeqProperties
  <2>4. t = SubSeq(enc, a, cut)
    BY Zenon DEF a, t
  <2>5. t \in Seq(SsidChar) /\ Len(t) = cut - off[k]
    BY <2>2, <2>3, <2>4, Zenon
  <2>6. ASSUME NEW j \in 1..(cut - off[k]) PROVE t[j] = enc[off[k] + j]
    <3>1. j \in 1..(cut - a + 1) /\ j \in Int
      <4>1. j \in 1..(cut - a + 1)
        BY <2>2, Zenon
      <4>2. j \in Int
        OBVIOUS
      <4> QED BY <4>1, <4>2
    <3>2. a + j - 1 = off[k] + j
      BY <2>2, <3>1, Zenon
    <3> QED BY <2>3, <2>4, <3>1, <3>2, Zenon
  <2> QED BY <2>5, <2>6
<1>7. Len(e) \in Nat
  BY <1>5, SpelledInSsid
<1>8. ASSUME NEW j \in 1..Len(e), j <= Len(t) PROVE t[j] = e[j]
  <2>1. j \in 1..(cut - off[k])
    BY <1>1, <1>3, <1>6, <1>7, <1>8, <1>x
  <2> QED BY <1>5, <1>6, <2>1
<1> QED
  BY <1>3, <1>4, <1>5, <1>6, <1>8, Zenon DEF GoesOn, off, enc, n, t

\* The end of the end of a text.
LEMMA RestOfRest ==
  ASSUME NEW S, NEW s \in Seq(S), NEW a \in Nat, NEW b \in a..Len(s), NEW n \in 0..(b - a)
  PROVE  SubSeq(SubSeq(s, a + 1, b), n + 1, b - a) = SubSeq(s, a + n + 1, b)
<1>0. Len(s) \in Nat /\ b \in Int
  OBVIOUS
<1>1. CASE n = b - a
  <2>1. SubSeq(SubSeq(s, a + 1, b), n + 1, b - a) = <<>>
    <3>1. n + 1 \in Int /\ b - a \in Int /\ b - a < n + 1
      BY <1>0, <1>1
    <3> QED BY <3>1, SubSeqEmpty
  <2>2. SubSeq(s, a + n + 1, b) = <<>>
    <3>1. a + n + 1 \in Int /\ b \in Int /\ b < a + n + 1
      BY <1>0, <1>1
    <3> QED BY <3>1, SubSeqEmpty
  <2> QED BY <2>1, <2>2
<1>2. CASE n < b - a
  <2>1. /\ a + 1 \in 1..Len(s) /\ b \in 1..Len(s)
        /\ n + 1 \in 1..(b - (a + 1) + 1) /\ b - a \in 1..(b - (a + 1) + 1)
        /\ (a + 1) + (n + 1) - 1 = a + n + 1 /\ (a + 1) + (b - a) - 1 = b
    BY <1>0, <1>2
  <2>2. SubSeq(SubSeq(s, a + 1, b), n + 1, b - a)
           = SubSeq(s, (a + 1) + (n + 1) - 1, (a + 1) + (b - a) - 1)
    BY <2>1, SubSeqOfSubSeq
  <2> QED BY <2>1, <2>2, Zenon
<1> QED
  BY <1>0, <1>1, <1>2

\* What has been decoded is the beginning of the SSID.
Decoded ==
    /\ told.ssid \in Seq(SsidChar) /\ told.cut \in 0..Len(Encoded(told.ssid))
    /\ got \in Seq(SsidChar) /\ Len(got) <= Len(told.ssid)
    /\ \A i \in 1..Len(got) : got[i] = told.ssid[i]

\* What is left of the text is the rest of the spelling, as far as the text goes.
RestIsLeft ==
    /\ Offset(told.ssid)[Len(got)] <= told.cut
    /\ text = SubSeq(Encoded(told.ssid), Offset(told.ssid)[Len(got)] + 1, told.cut)

WasCut == told.cut < Len(Encoded(told.ssid))

SsidInv ==
    /\ Decoded
    /\ RestIsLeft \/ (text = <<>> /\ WasCut)
    /\ end = "error" => WasCut
    /\ end = "ok" => text = <<>>

\* What the text goes on with, when it does.
LEMMA CharIsNext ==
  ASSUME Decoded, RestIsLeft, text # <<>>
  PROVE  Len(got) \in 0..Len(told.ssid) /\ GoesOn(told.ssid, told.cut, Len(got), text)
<1>1. /\ told.ssid \in Seq(SsidChar) /\ told.cut \in 0..Len(Encoded(told.ssid))
      /\ Len(got) \in 0..Len(told.ssid)
  BY DEF Decoded
<1>2. Len(Encoded(told.ssid)) \in Nat /\ Offset(told.ssid)[Len(got)] \in Nat
  <2>1. Encoded(told.ssid) \in Seq(SsidChar) /\ AreOffsets(Offset(told.ssid), told.ssid)
        /\ Len(Spelt(told.ssid)) = Len(told.ssid)
    BY <1>1, EncodedPlaces, Zenon
  <2>2. Offset(told.ssid) \in [0..Len(told.ssid) -> Nat]
    BY <2>1, Zenon DEF AreOffsets, AreEnds
  <2>3. Offset(told.ssid)[Len(got)] \in Nat
    BY <1>1, <2>2
  <2> QED BY <2>1, <2>3, LenProperties
<1>3. Offset(told.ssid)[Len(got)] < told.cut
  <2> SUFFICES ASSUME Offset(told.ssid)[Len(got)] = told.cut PROVE FALSE
    BY <1>1, <1>2 DEF RestIsLeft
  <2>1. told.cut + 1 \in Int /\ told.cut \in Int /\ told.cut < told.cut + 1
    BY <1>1, <1>2
  <2>2. SubSeq(Encoded(told.ssid), told.cut + 1, told.cut) = <<>>
    BY <2>1, SubSeqEmpty
  <2> QED BY <2>2, Zenon DEF RestIsLeft
<1>4. text = SubSeq(Encoded(told.ssid), Offset(told.ssid)[Len(got)] + 1, told.cut)
  BY DEF RestIsLeft
<1> QED
  BY <1>1, <1>3, <1>4, NextChar, Zenon

\* A sequence with one more element.
LEMMA Appended ==
  ASSUME NEW S, NEW s \in Seq(S), NEW x \in S
  PROVE  /\ s \o <<x>> \in Seq(S) /\ Len(s \o <<x>>) = Len(s) + 1
         /\ \A i \in 1..Len(s) : (s \o <<x>>)[i] = s[i]
         /\ (s \o <<x>>)[Len(s) + 1] = x
<1> DEFINE w == <<x>>
<1>1. w \in Seq(S) /\ Len(w) = 1 /\ w[1] = x /\ Len(s) \in Nat
  OBVIOUS
<1> HIDE DEF w
<1> QED
  <2>1. s \o w \in Seq(S) /\ Len(s \o w) = Len(s) + 1
    <3>1. s \o w \in Seq(S) /\ Len(s \o w) = Len(s) + Len(w)
      BY <1>1, ConcatProperties
    <3> QED BY <1>1, <3>1
  <2>2. \A i \in 1..Len(s) : (s \o w)[i] = s[i]
    BY <1>1
  <2>3. (s \o w)[Len(s) + 1] = x
    BY <1>1
  <2> QED BY <2>1, <2>2, <2>3 DEF w

\* When it is read, it is decoded.
LEMMA CharIsRead ==
  ASSUME Decoded, RestIsLeft, text # <<>>, NEW n \in Nat, NEW c,
         c = told.ssid[Len(got) + 1], n = Len(PrintfEncode(c)), n <= Len(text),
         Continues(n, <<c>>)
  PROVE  Decoded' /\ RestIsLeft'
<1> DEFINE k    == Len(got)
           off  == Offset(told.ssid)
           enc  == Encoded(told.ssid)
<1>1. /\ told.ssid \in Seq(SsidChar) /\ told.cut \in 0..Len(enc)
      /\ got \in Seq(SsidChar) /\ k <= Len(told.ssid)
      /\ \A i \in 1..k : got[i] = told.ssid[i]
  BY DEF Decoded
<1>2. told' = told /\ text' = SubSeq(text, n + 1, Len(text)) /\ got' = got \o <<c>>
  BY DEF Continues
<1>3. /\ k + 1 \in 1..Len(told.ssid) /\ c \in SsidChar
      /\ off[k] \in Nat /\ off[k + 1] = off[k] + n
      /\ Len(text) = told.cut - off[k]
      /\ k \in 0..Len(told.ssid)
  BY CharIsNext, Zenon DEF GoesOn
<1>4. enc \in Seq(SsidChar) /\ Len(enc) \in Nat /\ Len(told.ssid) \in Nat
  BY <1>1, EncodedPlaces, LenProperties
<1>5. text = SubSeq(enc, off[k] + 1, told.cut)
  BY DEF RestIsLeft
<1> HIDE DEF off, enc
<1>6. /\ got' \in Seq(SsidChar) /\ Len(got') = k + 1
      /\ \A i \in 1..(k + 1) : got'[i] = told.ssid[i]
  <2>1. PICK g : g = got \o <<c>>
    OBVIOUS
  <2>2. /\ g \in Seq(SsidChar) /\ Len(g) = k + 1
        /\ \A i \in 1..k : g[i] = got[i]
        /\ g[k + 1] = c
    BY <1>1, <1>3, <2>1, Appended
  <2>3. \A i \in 1..(k + 1) : i \in 1..k \/ i = k + 1
    <3> HIDE DEF k
    <3> QED BY <1>3
  <2>4. \A i \in 1..(k + 1) : g[i] = told.ssid[i]
    BY <1>1, <2>2, <2>3, Zenon
  <2> QED BY <1>2, <2>1, <2>2, <2>4, Zenon
<1>7. Decoded'
  <2>1. k + 1 <= Len(told.ssid)
    BY <1>3, <1>4
  <2> QED BY <1>1, <1>2, <1>6, <2>1, Zenon DEF Decoded, enc
<1>8. off[k + 1] <= told.cut
  BY <1>1, <1>3, <1>4
<1>9. text' = SubSeq(enc, off[k + 1] + 1, told.cut)
  <2>1. PICK a, b : a = off[k] /\ b = told.cut
    OBVIOUS
  <2>2. a \in Nat /\ b \in a..Len(enc) /\ n \in 0..(b - a)
    BY <1>1, <1>3, <1>4, <2>1
  <2>3. SubSeq(SubSeq(enc, a + 1, b), n + 1, b - a) = SubSeq(enc, a + n + 1, b)
    BY <1>4, <2>2, RestOfRest
  <2>4. text' = SubSeq(SubSeq(enc, a + 1, b), n + 1, b - a)
    BY <1>2, <1>3, <1>5, <2>1, Zenon
  <2>5. off[k + 1] = a + n
    BY <1>3, <2>1, Zenon
  <2> QED BY <2>1, <2>3, <2>4, <2>5, Zenon
<1>10. RestIsLeft'
  BY <1>2, <1>6, <1>8, <1>9 DEF RestIsLeft, off, enc
<1> QED
  BY <1>7, <1>10

\* A spelling that does not begin with a backslash is one character; the others
\* go on with what Escape knows, or are hexadecimal.
LEMMA SpelledHow ==
  ASSUME NEW c \in SsidChar, NEW e, e = PrintfEncode(c)
  PROVE  /\ e[1] # "backslash" => e = <<c>> /\ Len(e) = 1 /\ e[1] = c
         /\ e[1] = "backslash" =>
               \/ Len(e) = 2 /\ e[2] # "x" /\ Escape(e[2]) = c
               \/ Len(e) = 4 /\ e[2] = "x" /\ e[3] = "a" /\ e[4] = "a" /\ c = "AA"
<1>1. CASE c \in {"a", "n", "x"}
  <2>1. e = <<c>>
    BY <1>1, Spelled, Zenon
  <2>2. Len(e) = 1 /\ e[1] = c
    BY <2>1
  <2>3. c # "backslash"
    BY <1>1
  <2> QED BY <2>1, <2>2, <2>3
<1>2. CASE c = "quote"
  <2>1. e = <<"backslash", "quote">>
    BY <1>2, Spelled, Zenon
  <2> QED BY <1>2, <2>1 DEF Escape
<1>3. CASE c = "backslash"
  <2>1. e = <<"backslash", "backslash">>
    BY <1>3, Spelled, Zenon
  <2> QED BY <1>3, <2>1 DEF Escape
<1>4. CASE c = "LF"
  <2>1. e = <<"backslash", "n">>
    BY <1>4, Spelled, Zenon
  <2> QED BY <1>4, <2>1 DEF Escape
<1>5. CASE c = "AA"
  <2>1. e = <<"backslash", "x", "a", "a">>
    BY <1>5, Spelled, Zenon
  <2> QED BY <1>5, <2>1
<1> QED
  BY <1>1, <1>2, <1>3, <1>4, <1>5 DEF SsidChar

\* The same of a spelling that is known to begin with a backslash.
LEMMA SpelledOn ==
  ASSUME NEW c \in SsidChar, NEW e, e = PrintfEncode(c), e[1] = "backslash"
  PROVE  \/ Len(e) = 2 /\ e[2] # "x" /\ Escape(e[2]) = c
         \/ Len(e) = 4 /\ e[2] = "x" /\ e[3] = "a" /\ e[4] = "a" /\ c = "AA"
BY SpelledHow, Zenon

\* At first nothing has been decoded, and the text is what was not cut off.
LEMMA InitSsidInv == Init => (task = "ssid" => SsidInv)
<1> SUFFICES ASSUME Init, task = "ssid" PROVE SsidInv
  OBVIOUS
<1>1. InitSsid /\ end # "ok" /\ end # "error"
  BY DEF Init, InitLines, InitMac
<1>2. PICK ssid \in BoundedSeq(SsidChar, MaxSsid) :
        \E cut \in 0..Len(Encoded(ssid)) :
           told = [ssid |-> ssid, cut |-> cut] /\ text = Start(Encoded(ssid), cut)
  BY <1>1, Zenon DEF InitSsid
<1>3. PICK cut \in 0..Len(Encoded(ssid)) :
        told = [ssid |-> ssid, cut |-> cut] /\ text = Start(Encoded(ssid), cut)
  BY <1>2, Zenon
<1>4. told.ssid = ssid /\ told.cut = cut /\ got = <<>>
  BY <1>1, <1>3 DEF InitSsid
<1>5. ssid \in Seq(SsidChar)
  BY <1>2, BoundedIsSeq, LengthAssumption
<1>6. Encoded(ssid) \in Seq(SsidChar) /\ AreOffsets(Offset(ssid), ssid)
  BY <1>5, EncodedPlaces
<1>7. Offset(ssid)[0] = 0
  BY <1>6, Zenon DEF AreOffsets, AreEnds
<1>8. Len(Encoded(ssid)) \in Nat /\ Len(ssid) \in Nat
  BY <1>5, <1>6, LenProperties
<1>9. text = SubSeq(Encoded(ssid), 1, cut)
  <2>1. (IF cut < Len(Encoded(ssid)) THEN cut ELSE Len(Encoded(ssid))) = cut
    BY <1>8
  <2> QED BY <1>3, <2>1, Zenon DEF Start
<1>10. Len(got) = 0 /\ got \in Seq(SsidChar) /\ 1..0 = {}
  BY <1>4
<1>11. Decoded
  BY <1>4, <1>5, <1>8, <1>10 DEF Decoded
<1>12. RestIsLeft
  <2>1. 0 + 1 = 1 /\ 0 <= cut
    BY <1>8
  <2> QED BY <1>4, <1>7, <1>9, <1>10, <2>1, Zenon DEF RestIsLeft
<1> QED
  BY <1>1, <1>11, <1>12 DEF SsidInv

\* A character that is not there as a whole has been cut.
LEMMA CutChar ==
  ASSUME Decoded, RestIsLeft, text # <<>>,
         Len(text) < Len(PrintfEncode(told.ssid[Len(got) + 1]))
  PROVE  WasCut
<1> DEFINE k == Len(got)
           off == Offset(told.ssid)
           e == PrintfEncode(told.ssid[k + 1])
           l == Len(Encoded(told.ssid))
<1>1. /\ off[k] \in Nat /\ off[k + 1] = off[k] + Len(e) /\ off[k + 1] <= l
      /\ Len(text) = told.cut - off[k] /\ told.ssid[k + 1] \in SsidChar
  BY CharIsNext, Zenon DEF GoesOn
<1>2. Len(e) \in Nat /\ told.cut \in 0..l /\ l \in Nat
  BY <1>1, SpelledInSsid, EncodedPlaces, LenProperties DEF Decoded
<1>3. Len(text) < Len(e)
  OBVIOUS
<1> HIDE DEF k, off, e, l
<1>4. told.cut < l
  BY <1>1, <1>2, <1>3
<1> QED
  BY <1>4 DEF WasCut, l

\* The text goes on with the spelling e of c.
LEMMA Spells ==
  ASSUME Decoded, RestIsLeft, text # <<>>,
         NEW c, c = told.ssid[Len(got) + 1], NEW e, e = PrintfEncode(c)
  PROVE  /\ c \in SsidChar /\ Len(e) \in Nat \ {0} /\ Len(text) \in Nat
         /\ text \in Seq(SsidChar)
         /\ \A j \in 1..Len(e) : j <= Len(text) => text[j] = e[j]
<1>1. /\ c \in SsidChar /\ text \in Seq(SsidChar)
      /\ \A j \in 1..Len(e) : j <= Len(text) => text[j] = e[j]
  BY CharIsNext, Zenon DEF GoesOn
<1> QED
  BY <1>1, SpelledInSsid, LenProperties

\* No step reads another character than the next one.
LEMMA NextSsidInv ==
  ASSUME SsidInv, task = "ssid", [Next]_vars
  PROVE  SsidInv'
<1> DEFINE c == told.ssid[Len(got) + 1]
           e == PrintfEncode(c)
<1>1. ASSUME text # <<>>
      PROVE  /\ Decoded /\ RestIsLeft
             /\ c \in SsidChar /\ Len(e) \in Nat \ {0} /\ Len(text) \in Nat \ {0}
             /\ text \in Seq(SsidChar)
             /\ \A j \in 1..Len(e) : j <= Len(text) => text[j] = e[j]
             /\ e[1] = text[1]
  <2>1. Decoded /\ RestIsLeft
    BY <1>1 DEF SsidInv
  <2>2. /\ c \in SsidChar /\ Len(e) \in Nat \ {0} /\ Len(text) \in Nat
        /\ text \in Seq(SsidChar)
        /\ \A j \in 1..Len(e) : j <= Len(text) => text[j] = e[j]
    BY <1>1, <2>1, Spells
  <2> HIDE DEF c, e
  <2>3. Len(text) # 0
    BY <1>1, <2>2
  <2>4. 1 \in 1..Len(e) /\ 1 <= Len(text)
    BY <2>2, <2>3
  <2> QED BY <2>1, <2>2, <2>3, <2>4
<1>2. ASSUME text # <<>>, NEW n \in Nat, n = Len(e), n <= Len(text), Continues(n, <<c>>),
             end # "ok", end # "error"
      PROVE  SsidInv'
  <2>1. Decoded' /\ RestIsLeft'
    BY <1>1, <1>2, CharIsRead
  <2>2. end' = end
    BY <1>2 DEF Continues
  <2> QED BY <1>2, <2>1, <2>2, Zenon DEF SsidInv
<1>3. ASSUME NEW how, Stops(how), how = "error" => WasCut, how = "ok" => text = <<>>
      PROVE  SsidInv'
  BY <1>3, Zenon DEF SsidInv, Stops, Decoded, RestIsLeft, WasCut
<1>4. CASE DecodePlain
  <2>1. /\ text # <<>> /\ Head(text) # "backslash" /\ Continues(1, <<Head(text)>>)
        /\ end # "ok" /\ end # "error"
    BY <1>4, Zenon DEF DecodePlain
  <2>2. c \in SsidChar /\ text \in Seq(SsidChar) /\ Len(text) \in Nat \ {0} /\ e[1] = text[1]
    BY <1>1, <2>1
  <2>3. Head(text) = text[1]
    BY <2>1, <2>2
  <2>4. Len(e) = 1 /\ e[1] = c
    BY <2>1, <2>2, <2>3, SpelledHow, Zenon
  <2> HIDE DEF c, e
  <2>5. Head(text) = c /\ 1 <= Len(text)
    BY <2>2, <2>3, <2>4
  <2> QED BY <1>2, <2>1, <2>4, <2>5
<1>5. CASE DecodeEscape
  <2>1. /\ Len(text) > 1 /\ text[1] = "backslash" /\ text[2] # "x"
        /\ Continues(2, <<Escape(text[2])>>)
        /\ end # "ok" /\ end # "error"
    BY <1>5, Zenon DEF DecodeEscape
  <2>2. text # <<>>
    BY <2>1
  <2>3. /\ c \in SsidChar /\ e[1] = text[1]
        /\ \A j \in 1..Len(e) : j <= Len(text) => text[j] = e[j]
    BY <1>1, <2>2
  <2>4. \/ Len(e) = 2 /\ e[2] # "x" /\ Escape(e[2]) = c
        \/ Len(e) = 4 /\ e[2] = "x" /\ e[3] = "a" /\ e[4] = "a" /\ c = "AA"
    <3>1. e = PrintfEncode(c)
      OBVIOUS
    <3> HIDE DEF c, e
    <3>2. e[1] = "backslash"
      BY <2>1, <2>3
    <3> QED BY <2>3, <3>1, <3>2, SpelledOn
  <2> HIDE DEF c, e
  <2>5. text[2] = e[2]
    BY <2>1, <2>3, <2>4
  <2>6. Len(e) = 2 /\ Escape(text[2]) = c /\ 2 <= Len(text)
    BY <1>1, <2>1, <2>2, <2>4, <2>5
  <2> QED BY <1>2, <2>1, <2>2, <2>6
<1>6. CASE DecodeHex
  <2> DEFINE rest   == SubSeq(text, 3, Len(text))
             digits == Start(rest, 2)
  <2>1. /\ Len(text) > 1 /\ text[1] = "backslash" /\ text[2] = "x"
        /\ end # "ok" /\ end # "error"
    BY <1>6, Zenon DEF DecodeHex
  <2>2. \/ digits = <<"a", "a">> /\ Continues(4, <<"AA">>)
        \/ digits = <<>> /\ Continues(2, <<>>)
        \/ digits # <<"a", "a">> /\ Stops("error")
    BY <1>6, Zenon DEF DecodeHex
  <2>3. text # <<>>
    BY <2>1
  <2>4. /\ c \in SsidChar /\ e[1] = text[1] /\ text \in Seq(SsidChar) /\ Len(text) \in Nat
        /\ \A j \in 1..Len(e) : j <= Len(text) => text[j] = e[j]
    BY <1>1, <2>3
  <2>5. \/ Len(e) = 2 /\ e[2] # "x" /\ Escape(e[2]) = c
        \/ Len(e) = 4 /\ e[2] = "x" /\ e[3] = "a" /\ e[4] = "a" /\ c = "AA"
    <3>1. e = PrintfEncode(c)
      OBVIOUS
    <3> HIDE DEF c, e
    <3>2. e[1] = "backslash"
      BY <2>1, <2>4
    <3> QED BY <2>4, <3>1, <3>2, SpelledOn
  <2>6. Len(e) = 4 /\ e[3] = "a" /\ e[4] = "a" /\ c = "AA"
    <3> HIDE DEF c, e
    <3> QED BY <2>1, <2>4, <2>5
  <2>7. /\ rest \in Seq(SsidChar) /\ Len(rest) = Len(text) - 2
        /\ \A i \in 1..(Len(text) - 2) : rest[i] = text[i + 2]
    <3>1. PICK l \in Nat : l = Len(text)
      BY <2>4
    <3>2. rest = SubSeq(text, 3, l) /\ l > 1 /\ text \in Seq(SsidChar)
      BY <2>1, <2>4, <3>1
    <3>3. \A i \in 3..l : text[i] \in SsidChar
      BY <2>4, <3>1, ElementOfSeq
    <3> HIDE DEF rest, c, e
    <3>4. CASE l < 3
      <4>1. rest = <<>> /\ l = 2
        BY <3>2, <3>4, SubSeqEmpty
      <4> QED BY <3>1, <4>1
    <3>5. CASE l >= 3
      <4>1. /\ rest \in Seq(SsidChar) /\ Len(rest) = l - 3 + 1
            /\ \A i \in 1..(l - 3 + 1) : rest[i] = text[3 + i - 1]
        BY <3>2, <3>3, <3>5, SubSeqProperties
      <4> QED BY <3>1, <3>5, <4>1
    <3> QED BY <3>4, <3>5
  <2> HIDE DEF rest
  <2>8. CASE Len(text) >= 4
    <3>1. text[3] = "a" /\ text[4] = "a"
      <4> HIDE DEF e
      <4> QED BY <2>4, <2>6, <2>8
    <3>2. rest[1] = "a" /\ rest[2] = "a"
      BY <2>4, <2>7, <2>8, <3>1
    <3>3. digits = SubSeq(rest, 1, 2)
      BY <2>4, <2>7, <2>8 DEF Start
    <3>4. digits = <<"a", "a">>
      BY <2>4, <2>7, <2>8, <3>2, <3>3
    <3> HIDE DEF digits
    <3>5. Continues(4, <<"AA">>)
      BY <2>2, <3>4, Zenon
    <3> QED BY <1>2, <2>1, <2>3, <2>6, <2>8, <3>5
  <2>9. CASE Len(text) < 4
    <3>1. WasCut
      BY <1>1, <2>3, <2>6, <2>9, CutChar
    <3>2. digits = SubSeq(rest, 1, Len(text) - 2) /\ Len(digits) = Len(text) - 2
      BY <2>1, <2>4, <2>7, <2>9 DEF Start
    <3>3. digits # <<"a", "a">>
      <4>1. Len(<<"a", "a">>) = 2
        OBVIOUS
      <4>2. Len(digits) # 2
        <5>1. PICK l \in Nat : l = Len(text)
          BY <2>4
        <5> HIDE DEF digits, c, e
        <5>2. Len(digits) = l - 2 /\ l < 4
          BY <2>9, <3>2, <5>1
        <5>3. l - 2 # 2
          BY <5>2
        <5> QED BY <5>2, <5>3
      <4> QED BY <4>1, <4>2, Zenon
    <3>4. digits = <<>> => Len(text) = 2
      BY <2>4, <3>2
    <3> HIDE DEF digits
    <3>5. CASE digits = <<>> /\ Continues(2, <<>>)
      <4>1. text' = <<>> /\ got' = got /\ UNCHANGED <<told, end>>
        <5>1. SubSeq(text, 2 + 1, Len(text)) = <<>> /\ got \o <<>> = got
          <6>1. Len(text) = 2
            BY <3>4, <3>5
          <6>2. SubSeq(text, 2 + 1, Len(text)) = <<>>
            BY <6>1, SubSeqEmpty
          <6>3. got \in Seq(SsidChar)
            BY <1>1, <2>3 DEF Decoded
          <6>4. got \o <<>> = got
            BY <6>3, ConcatEmptySeq
          <6> QED BY <6>2, <6>4
        <5> QED BY <3>5, <5>1 DEF Continues
      <4>2. Decoded' /\ WasCut'
        BY <1>1, <2>3, <3>1, <4>1 DEF Decoded, WasCut
      <4> QED BY <2>1, <4>1, <4>2 DEF SsidInv
    <3>6. CASE Stops("error")
      BY <1>3, <3>1, <3>6
    <3> QED BY <2>2, <3>3, <3>5, <3>6, Zenon
  <2> QED BY <2>4, <2>8, <2>9
<1>7. CASE DecodeDangling
  <2>1. text = <<"backslash">> /\ Stops("error")
    BY <1>7, Zenon DEF DecodeDangling
  <2>2. text # <<>> /\ Len(text) = 1 /\ text[1] = "backslash"
    BY <2>1
  <2>3. c \in SsidChar /\ e[1] = text[1]
    BY <1>1, <2>2
  <2>4. Len(e) = 2 \/ Len(e) = 4
    BY <2>2, <2>3, SpelledHow, Zenon
  <2>5. Len(text) < Len(e)
    <3> HIDE DEF c, e
    <3> QED BY <2>2, <2>4
  <2>6. WasCut
    BY <1>1, <2>2, <2>5, CutChar
  <2> QED BY <1>3, <2>1, <2>6
<1>8. CASE DecodeDone
  <2>1. text = <<>> /\ Stops("ok")
    BY <1>8, Zenon DEF DecodeDone
  <2> QED BY <1>3, <2>1
<1>9. CASE UNCHANGED vars
  BY <1>9 DEF vars, SsidInv, Decoded, RestIsLeft, WasCut
<1> QED
  BY <1>4, <1>5, <1>6, <1>7, <1>8, <1>9 DEF Next, StationFirstLine, StationLine,
     StationDone, StatusLine, StatusDone, DecodeMAC

\* What is decoded is the beginning of what was meant; and once nothing is left
\* of a text that was not cut, it is the whole.
LEMMA SsidInvSays ==
  ASSUME Decoded
  PROVE  /\ IsPrefix(got, told.ssid)
         /\ told.cut = Len(Encoded(told.ssid)) => ~WasCut
         /\ RestIsLeft /\ text = <<>> /\ told.cut = Len(Encoded(told.ssid)) => got = told.ssid
<1>1. /\ told.ssid \in Seq(SsidChar) /\ Len(told.ssid) \in Nat
      /\ got \in Seq(SsidChar) /\ Len(got) \in Nat /\ Len(got) <= Len(told.ssid)
      /\ \A i \in 1..Len(got) : got[i] = told.ssid[i]
  BY LenProperties DEF Decoded
<1>2. IsPrefix(got, told.ssid)
  <2>1. PICK a, b : a = got /\ b = told.ssid
    OBVIOUS
  <2>2. /\ a \in Seq(SsidChar) /\ b \in Seq(SsidChar)
        /\ Len(a) \in Nat /\ Len(b) \in Nat /\ Len(a) <= Len(b)
        /\ \A i \in 1..Len(a) : a[i] = b[i]
    BY <1>1, <2>1
  <2>3. SubSeq(a, 1, Len(a)) = SubSeq(b, 1, Len(a))
    BY <2>2
  <2> QED BY <2>1, <2>2, <2>3, Zenon DEF IsPrefix
<1>3. told.cut = Len(Encoded(told.ssid)) => ~WasCut
  <2>1. Len(Encoded(told.ssid)) \in Nat
    BY <1>1, EncodedPlaces, LenProperties
  <2> QED BY <2>1 DEF WasCut
<1>4. ASSUME RestIsLeft, text = <<>>, told.cut = Len(Encoded(told.ssid)) PROVE got = told.ssid
  <2>1. Len(got) = Len(told.ssid)
    <3> SUFFICES ASSUME Len(got) # Len(told.ssid) PROVE FALSE
      OBVIOUS
    <3>1. Len(got) \in 0..Len(told.ssid) /\ Len(got) + 1 \in 1..Len(told.ssid)
      <4>1. PICK a, b : a = Len(got) /\ b = Len(told.ssid)
        OBVIOUS
      <4>2. a \in Nat /\ b \in Nat /\ a <= b /\ a # b
        BY <1>1, <4>1
      <4>3. a \in 0..b /\ a + 1 \in 1..b
        BY <4>2
      <4> QED BY <4>1, <4>3
    <3>2. Offset(told.ssid)[Len(got)] < told.cut /\ Offset(told.ssid)[Len(got)] \in Nat
      BY <1>1, <1>4, <3>1, OffsetsGrow
    <3>3. told.cut \in 0..Len(Encoded(told.ssid))
      BY DEF Decoded
    <3>4. GoesOn(told.ssid, told.cut, Len(got), text)
      <4>1. text = SubSeq(Encoded(told.ssid), Offset(told.ssid)[Len(got)] + 1, told.cut)
        BY <1>4 DEF RestIsLeft
      <4> QED BY <1>1, <3>1, <3>2, <3>3, <4>1, NextChar, Zenon
    <3>5. Len(text) = told.cut - Offset(told.ssid)[Len(got)]
      BY <3>4, Zenon DEF GoesOn
    <3>6. Len(text) = 0
      BY <1>4
    <3>7. told.cut \in Nat
      <4>1. Len(Encoded(told.ssid)) \in Nat
        BY <1>1, EncodedPlaces, LenProperties
      <4> QED BY <3>3, <4>1
    <3> QED BY <3>2, <3>5, <3>6, <3>7
  <2> QED BY <1>1, <2>1, SeqEqual
<1> QED
  BY <1>2, <1>3, <1>4

\* Whatever the length of an SSID, and wherever its text is cut: what is told to
\* Home Assistant is what hostapd means, or the beginning of it, and a text that
\* is whole is decoded whole (hostapd/status.go:72-128).
THEOREM SsidIsDecoded == Spec => []SsidSurvives
<1> DEFINE Inv == task = "ssid" => SsidInv /\ (end = "" \/ end = "ok" \/ end = "error")
<1>1. Init => Inv
  BY InitSsidInv, Zenon DEF Init
<1>2. Inv /\ [Next]_vars => Inv'
  <2> SUFFICES ASSUME Inv, [Next]_vars, task' = "ssid" PROVE Inv'
    OBVIOUS
  <2>1. task = "ssid"
    BY DEF Next, vars, DecodePlain, DecodeEscape, DecodeHex, DecodeDangling, DecodeDone,
       StationFirstLine, StationLine, StationDone, StatusLine, StatusDone, DecodeMAC,
       Continues, Stops
  <2>2. SsidInv'
    BY <2>1, NextSsidInv
  <2>3. end' = end \/ end' = "ok" \/ end' = "error"
    BY DEF Next, vars, DecodePlain, DecodeEscape, DecodeHex, DecodeDangling, DecodeDone,
       StationFirstLine, StationLine, StationDone, StatusLine, StatusDone, DecodeMAC,
       Continues, Stops
  <2> QED BY <2>1, <2>2, <2>3, Zenon
<1>3. Inv => SsidSurvives
  <2> SUFFICES ASSUME Inv, task = "ssid" PROVE SsidSurvives
    BY DEF SsidSurvives
  <2>1. Decoded
    BY Zenon DEF SsidInv
  <2>2. end = "error" => WasCut
    BY Zenon DEF SsidInv
  <2>3. end = "ok" => (RestIsLeft \/ WasCut) /\ text = <<>>
    BY Zenon DEF SsidInv
  <2>4. end # "" => end = "ok" \/ end = "error"
    BY Zenon
  <2> QED BY <2>1, <2>2, <2>3, <2>4, SsidInvSays, Zenon DEF SsidSurvives
<1> QED
  BY <1>1, <1>2, <1>3, PTL DEF Spec

------------------------------------------------------------------------------
(* Lines.                                                                  *)

Flags == {"flags=[ASSOC]", "flags="}

\* The lines that have been read.
Seen == Len(told) - Len(text)

\* The last flags of the first n lines say that the station is associated.
SayAssoc(n) == \E i \in 1..n :
    /\ told[i] = "flags=[ASSOC]"
    /\ \A j \in 1..n : told[j] \in Flags => j <= i

\* What is left is the end of what was told, and no bad line was passed over.
RestInv ==
    /\ told \in Seq(Line)
    /\ text \in Seq(Line)
    /\ Len(text) <= Len(told)
    /\ \A i \in 1..Len(text) : text[i] = told[Seen + i]
    /\ end = "ok" => text = <<>>
    /\ \A i \in 1..Seen : told[i] \notin Bad \/ (i = 1 /\ task = "station")

\* The station is what the lines that have been read say of it.
StationInv ==
    /\ got \in [mac : BOOLEAN, assoc : BOOLEAN]
    /\ got.mac <=> Seen # 0
    /\ Seen # 0 => told[1] = "mac"
    /\ got.assoc <=> SayAssoc(Seen)

LinesInv ==
    /\ task \in {"station", "status"} => RestInv
    /\ task = "station" => StationInv

\* One more line: it decides if it has flags.
LEMMA SayNext ==
  /\ ~SayAssoc(0)
  /\ \A n \in Nat : SayAssoc(n + 1) <=>
        IF told[n + 1] \in Flags THEN told[n + 1] = "flags=[ASSOC]" ELSE SayAssoc(n)
<1>1. ~SayAssoc(0)
  BY DEF SayAssoc
<1>2. ASSUME NEW n \in Nat
      PROVE  SayAssoc(n + 1) <=>
        IF told[n + 1] \in Flags THEN told[n + 1] = "flags=[ASSOC]" ELSE SayAssoc(n)
  <2>1. /\ n + 1 \in 1..(n + 1)
        /\ \A i \in 1..(n + 1) : i <= n + 1 /\ (n + 1 <= i => i = n + 1)
        /\ \A i \in 1..n : i \in 1..(n + 1)
        /\ \A i \in 1..(n + 1) : i = n + 1 \/ i \in 1..n
    OBVIOUS
  <2>2. CASE told[n + 1] \in Flags
    BY <2>1, <2>2 DEF SayAssoc
  <2>3. CASE told[n + 1] \notin Flags
    <3>1. \A i \in 1..(n + 1) : told[i] \in Flags => i \in 1..n
      BY <2>1, <2>3
    <3>2. "flags=[ASSOC]" \in Flags
      BY DEF Flags
    <3> QED BY <2>1, <2>3, <3>1, <3>2 DEF SayAssoc
  <2> QED BY <2>2, <2>3
<1> QED
  BY <1>1, <1>2

LEMMA InitLinesInv == Init => LinesInv
<1> SUFFICES ASSUME Init, task \in {"station", "status"} PROVE RestInv /\ StationInv
  BY DEF LinesInv
<1>1. InitLines /\ end # "ok"
  BY DEF Init, InitSsid, InitMac
<1>2. told \in Seq(Line)
  <2>1. told \in BoundedSeq(Line, MaxLines)
    BY <1>1, Zenon DEF InitLines
  <2> QED BY <2>1, BoundedIsSeq, LengthAssumption
<1>3. text = told /\ got = NoStation
  BY <1>1, Zenon DEF InitLines
<1>4. Len(told) \in Nat
  BY <1>2
<1>5. Seen = 0
  BY <1>3, <1>4 DEF Seen
<1>6. RestInv
  BY <1>1, <1>2, <1>3, <1>4, <1>5 DEF RestInv
<1>7. got \in [mac : BOOLEAN, assoc : BOOLEAN] /\ ~got.mac /\ ~got.assoc
  BY <1>3 DEF NoStation
<1> QED
  BY <1>5, <1>6, <1>7, SayNext DEF StationInv

\* A line is read.
LEMMA LineIsRead ==
  ASSUME RestInv, text # <<>>, text' = Tail(text), UNCHANGED <<task, told, end>>, end # "ok",
         Head(text) \notin Bad \/ (Seen = 0 /\ task = "station")
  PROVE  /\ Seen \in Nat /\ Seen' = Seen + 1 /\ Head(text) = told[Seen + 1]
         /\ RestInv'
<1>1. /\ told \in Seq(Line) /\ text \in Seq(Line)
      /\ \A i \in 1..Len(text) : text[i] = told[Seen + i]
      /\ Len(text) <= Len(told)
  BY DEF RestInv
<1>2. /\ Len(text') = Len(text) - 1 /\ text' \in Seq(Line)
      /\ \A i \in 1..Len(text') : text'[i] = text[i + 1]
  BY <1>1
<1>3. Len(text) \in Nat \ {0} /\ Len(told) \in Nat /\ Head(text) = text[1]
  BY <1>1
<1>4. Seen' = Seen + 1 /\ Seen \in Nat
  BY <1>1, <1>2, <1>3 DEF Seen
<1>5. Head(text) = told[Seen + 1]
  BY <1>1, <1>3
<1>6. ASSUME NEW i \in 1..Len(text') PROVE text'[i] = told[Seen' + i]
  <2>1. i + 1 \in 1..Len(text) /\ Seen' + i = Seen + (i + 1)
    BY <1>2, <1>3, <1>4
  <2> QED BY <1>1, <1>2, <2>1
<1>7. ASSUME NEW i \in 1..Seen' PROVE told[i] \notin Bad \/ (i = 1 /\ task = "station")
  <2>1. CASE i \in 1..Seen
    BY <2>1 DEF RestInv
  <2>2. CASE i = Seen + 1
    BY <1>4, <1>5, <2>2
  <2> QED BY <1>4, <2>1, <2>2
<1> QED
  BY <1>1, <1>2, <1>3, <1>4, <1>5, <1>6, <1>7 DEF RestInv

\* What is read of a line of a station is what the line says.
LEMMA StationIsRead ==
  ASSUME StationInv, Seen \in Nat, Seen' = Seen + 1, Head(text) = told[Seen + 1],
         told' = told, NEW assoc \in BOOLEAN,
         got' = [mac |-> TRUE, assoc |-> assoc],
         Seen = 0 => Head(text) = "mac",
         assoc <=> IF Head(text) \in Flags THEN Head(text) = "flags=[ASSOC]" ELSE got.assoc
  PROVE  StationInv'
<1>1. got' \in [mac : BOOLEAN, assoc : BOOLEAN] /\ got'.mac = TRUE /\ got'.assoc = assoc
  OBVIOUS
<1>2. Seen' # 0 /\ told'[1] = "mac"
  BY DEF StationInv
<1>3. SayAssoc(Seen)' <=> SayAssoc(Seen + 1)
  BY DEF SayAssoc
<1>4. SayAssoc(Seen + 1) <=> assoc
  <2>1. got.assoc <=> SayAssoc(Seen)
    BY DEF StationInv
  <2> QED BY <2>1, SayNext
<1> QED
  BY <1>1, <1>2, <1>3, <1>4 DEF StationInv

LEMMA NextLines ==
  ASSUME LinesInv, [Next]_vars
  PROVE  LinesInv'
<1> SUFFICES ASSUME task' \in {"station", "status"} PROVE LinesInv'
  BY DEF LinesInv
<1>0. task \in {"station", "status"} /\ task' = task
  BY DEF Next, vars, DecodePlain, DecodeEscape, DecodeHex, DecodeDangling, DecodeDone,
       StationFirstLine, StationLine, StationDone, StatusLine, StatusDone, DecodeMAC,
       Continues, Stops
<1>r. RestInv /\ (task = "station" => StationInv)
  BY <1>0 DEF LinesInv
<1>1. ASSUME UNCHANGED <<task, told, text, got>>, end' = "ok" => text = <<>>
      PROVE  LinesInv'
  <2>1. RestInv'
    BY <1>r, <1>1 DEF RestInv, Seen
  <2>2. StationInv => StationInv'
    BY <1>1 DEF StationInv, SayAssoc, Seen
  <2> QED BY <1>r, <1>1, <2>1, <2>2 DEF LinesInv
<1>2. CASE StationFirstLine
  <2>1. CASE Head(text) # "mac"
    BY <1>1, <1>2, <2>1 DEF StationFirstLine, Stops
  <2>2. CASE Head(text) = "mac"
    <3>1. /\ text # <<>> /\ text' = Tail(text) /\ UNCHANGED <<task, told, end>> /\ end # "ok"
          /\ task = "station" /\ got' = [got EXCEPT !.mac = TRUE] /\ ~got.mac
      BY <1>2, <2>2, Zenon DEF StationFirstLine
    <3>2. StationInv /\ Seen = 0
      BY <1>r, <3>1 DEF StationInv
    <3>3. PICK assoc \in BOOLEAN : assoc <=> got.assoc
      OBVIOUS
    <3>4. got' = [mac |-> TRUE, assoc |-> assoc]
      BY <3>1, <3>2, <3>3 DEF StationInv
    <3>5. Seen \in Nat /\ Seen' = Seen + 1 /\ Head(text) = told[Seen + 1] /\ RestInv'
      BY <1>r, <3>1, <3>2, LineIsRead
    <3>6. Head(text) \notin Flags
      BY <2>2 DEF Flags
    <3>7. StationInv'
      BY <2>2, <3>1, <3>2, <3>3, <3>4, <3>5, <3>6, StationIsRead
    <3> QED BY <3>5, <3>7 DEF LinesInv
  <2> QED BY <2>1, <2>2
<1>3. CASE StationLine
  <2>1. CASE Head(text) \in Bad
    BY <1>1, <1>3, <2>1 DEF StationLine, Stops
  <2>2. CASE Head(text) \notin Bad
    <3>1. PICK assoc \in BOOLEAN :
            assoc <=> IF Head(text) \in Flags THEN Head(text) = "flags=[ASSOC]" ELSE got.assoc
      OBVIOUS
    <3>2. /\ text # <<>> /\ text' = Tail(text) /\ UNCHANGED <<task, told, end>> /\ end # "ok"
          /\ task = "station" /\ got.mac
      BY <1>3, <2>2, Zenon DEF StationLine
    <3>3. StationInv /\ Seen # 0
      BY <1>r, <3>2 DEF StationInv
    <3>4. got' = [mac |-> TRUE, assoc |-> assoc]
      BY <1>3, <2>2, <3>1, <3>2, <3>3 DEF StationLine, StationInv, Flags
    <3>5. Seen \in Nat /\ Seen' = Seen + 1 /\ Head(text) = told[Seen + 1] /\ RestInv'
      BY <1>r, <2>2, <3>2, LineIsRead
    <3>6. StationInv'
      BY <3>1, <3>2, <3>3, <3>4, <3>5, StationIsRead
    <3> QED BY <3>5, <3>6 DEF LinesInv
  <2> QED BY <2>1, <2>2
<1>4. CASE StatusLine
  <2>1. CASE Head(text) \in Bad
    BY <1>1, <1>4, <2>1 DEF StatusLine, Stops
  <2>2. CASE Head(text) \notin Bad
    <3>1. /\ text # <<>> /\ text' = Tail(text) /\ UNCHANGED <<task, told, end>> /\ end # "ok"
          /\ task = "status"
      BY <1>4, <2>2, Zenon DEF StatusLine
    <3>2. RestInv'
      BY <1>r, <2>2, <3>1, LineIsRead
    <3> QED BY <3>1, <3>2 DEF LinesInv
  <2> QED BY <2>1, <2>2
<1>5. CASE StationDone \/ StatusDone
  BY <1>1, <1>5 DEF StationDone, StatusDone, Stops
<1>6. CASE UNCHANGED vars
  BY <1>1, <1>6, <1>r DEF vars, RestInv
<1> QED
  BY <1>0, <1>2, <1>3, <1>4, <1>5, <1>6 DEF Next, DecodePlain, DecodeEscape, DecodeHex,
     DecodeDangling, DecodeDone, DecodeMAC

\* Whatever the number of lines: a bad line is an error wherever it is, and the
\* last line of flags decides (hostapd/station.go:24-96, status.go:26-70).
THEOREM LastFlagsDecide == Spec => []LinesDecide
<1>1. Init => LinesInv
  BY InitLinesInv
<1>2. LinesInv /\ [Next]_vars => LinesInv'
  BY NextLines
<1>3. LinesInv => LinesDecide
  <2> SUFFICES ASSUME LinesInv, task \in {"station", "status"}, end = "ok" PROVE LinesDecide
    BY DEF LinesDecide
  <2>1. RestInv /\ (task = "station" => StationInv)
    BY DEF LinesInv
  <2>2. told \in Seq(Line) /\ DOMAIN told = 1..Len(told) /\ text = <<>>
    BY <2>1 DEF RestInv
  <2>3. Seen = Len(told) /\ Len(told) \in Nat
    BY <2>2 DEF Seen
  <2>4. \A i \in DOMAIN told : told[i] \notin Bad \/ (i = 1 /\ task = "station")
    BY <2>1, <2>2, <2>3 DEF RestInv
  <2>5. ASSUME task = "station", told # <<>>
        PROVE  /\ told[1] = "mac"
               /\ got.assoc <=> SayAssoc(Seen)
    BY <2>1, <2>2, <2>3, <2>5 DEF StationInv
  <2>6. SayAssoc(Seen) <=>
          \E i \in {k \in DOMAIN told : told[k] \in Flags} :
             /\ \A j \in {k \in DOMAIN told : told[k] \in Flags} : j <= i
             /\ told[i] = "flags=[ASSOC]"
    BY <2>2, <2>3 DEF SayAssoc, Flags
  <2> QED BY <2>4, <2>5, <2>6 DEF LinesDecide, Flags
<1> QED
  BY <1>1, <1>2, <1>3, PTL DEF Spec

------------------------------------------------------------------------------
(* Addresses.                                                              *)

\* The characters that hex.DecodeString is given.
Lower == {"a", "b"}

LEMMA Spelling ==
  /\ \A c \in Digit : ToLower(c) \in Lower /\ c # ":" /\ ToLower(ToUpper(ToLower(c))) = ToLower(c)
  /\ \A c \in Lower : ToUpper(c) \in Digit /\ ToLower(ToUpper(c)) = c
  BY DEF Digit, Lower, ToLower, ToUpper

\* Where the k-th digit of an address is: a colon follows every two of them.
Place(k) == k + (k - 1) \div 2

LEMMA Places ==
  /\ \A k \in Nat \ {0} : /\ Place(k) \in Nat \ {0} /\ Place(k) % 3 # 0
                          /\ Place(k) - Place(k) \div 3 = k
  /\ \A k, l \in Nat \ {0} : k < l <=> Place(k) < Place(l)
  /\ \A n, k \in Nat \ {0} : k <= 2 * n <=> Place(k) <= 3 * n - 1
  /\ \A i \in Nat \ {0} : i % 3 # 0 =>
        i - i \div 3 \in Nat \ {0} /\ Place(i - i \div 3) = i
<1>1. \A k \in Nat \ {0} : /\ Place(k) \in Nat \ {0} /\ Place(k) % 3 # 0
                           /\ Place(k) - Place(k) \div 3 = k
  BY DEF Place
<1>2. \A k, l \in Nat \ {0} : k < l <=> Place(k) < Place(l)
  BY DEF Place
<1>3. \A n, k \in Nat \ {0} : k <= 2 * n <=> Place(k) <= 3 * n - 1
  BY DEF Place
<1>4. \A i \in Nat \ {0} : i % 3 # 0 =>
        i - i \div 3 \in Nat \ {0} /\ Place(i - i \div 3) = i
  BY DEF Place
<1> QED
  BY <1>1, <1>2, <1>3, <1>4

\* Colons and digits take turns, in an address of any number of bytes.
Colons == {i \in 1..(3 * Bytes - 1) : i % 3 = 0}
Digits == {i \in 1..(3 * Bytes - 1) : i % 3 # 0}

LEMMA DigitPlaces ==
  /\ \A k \in 1..(2 * Bytes) : Place(k) \in Digits /\ Place(k) - Place(k) \div 3 = k
  /\ \A i \in Digits : i - i \div 3 \in 1..(2 * Bytes) /\ Place(i - i \div 3) = i
<1>1. Bytes \in Nat \ {0}
  BY BytesAssumption
<1>2. ASSUME NEW k \in 1..(2 * Bytes)
      PROVE  Place(k) \in Digits /\ Place(k) - Place(k) \div 3 = k
  <2>1. k \in Nat \ {0} /\ k <= 2 * Bytes
    BY <1>1
  <2>2. /\ Place(k) \in Nat \ {0} /\ Place(k) % 3 # 0 /\ Place(k) - Place(k) \div 3 = k
        /\ Place(k) <= 3 * Bytes - 1
    BY <1>1, <2>1, Places
  <2>3. Place(k) \in 1..(3 * Bytes - 1)
    BY <1>1, <2>2
  <2> QED BY <2>2, <2>3 DEF Digits
<1>3. ASSUME NEW i \in Digits
      PROVE  i - i \div 3 \in 1..(2 * Bytes) /\ Place(i - i \div 3) = i
  <2>1. i \in 1..(3 * Bytes - 1) /\ i % 3 # 0
    BY DEF Digits
  <2>2. i \in Nat \ {0} /\ i <= 3 * Bytes - 1
    BY <1>1, <2>1
  <2>3. PICK k \in Nat \ {0} : k = i - i \div 3 /\ Place(k) = i
    BY <2>1, <2>2, Places
  <2>4. k <= 2 * Bytes
    BY <1>1, <2>2, <2>3, Places
  <2> QED BY <1>1, <2>3, <2>4
<1> QED
  BY <1>2, <1>3

\* Of the digits there are k - 1 before the k-th.
LEMMA DigitsBefore ==
  ASSUME NEW k \in 1..(2 * Bytes)
  PROVE  Cardinality({j \in Digits : j < Place(k)}) = k - 1
<1> DEFINE B == {j \in Digits : j < Place(k)}
           f == [m \in 1..(k - 1) |-> Place(m)]
<1>1. Bytes \in Nat \ {0} /\ k \in Nat \ {0} /\ k - 1 \in Nat /\ k <= 2 * Bytes
  BY BytesAssumption
<1>2. ASSUME NEW m \in 1..(k - 1) PROVE Place(m) \in B
  <2>1. m \in 1..(2 * Bytes) /\ m \in Nat \ {0} /\ m < k
    BY <1>1
  <2>2. Place(m) < Place(k)
    BY <1>1, <2>1, Places
  <2> QED BY <2>1, <2>2, DigitPlaces
<1>3. ASSUME NEW j \in B PROVE \E m \in 1..(k - 1) : Place(m) = j
  <2>1. PICK m \in 1..(2 * Bytes) : Place(m) = j
    BY DigitPlaces
  <2>2. m \in Nat \ {0}
    BY <1>1
  <2>3. m < k
    BY <1>1, <2>1, <2>2, Places
  <2> QED BY <1>1, <2>1, <2>2, <2>3
<1>4. ASSUME NEW m \in 1..(k - 1), NEW l \in 1..(k - 1), Place(m) = Place(l) PROVE m = l
  <2>1. m - 0 = Place(m) - Place(m) \div 3 /\ l = Place(l) - Place(l) \div 3
    <3>1. m \in 1..(2 * Bytes) /\ l \in 1..(2 * Bytes)
      BY <1>1
    <3> QED BY <3>1, DigitPlaces
  <2> QED BY <1>4, <2>1
<1> HIDE DEF B
<1>5. f \in Bijection(1..(k - 1), B)
  <2>1. f \in [1..(k - 1) -> B]
    BY <1>2
  <2>2. \A j \in B : \E m \in 1..(k - 1) : f[m] = j
    BY <1>3
  <2>3. \A m, l \in 1..(k - 1) : f[m] = f[l] => m = l
    BY <1>4
  <2> HIDE DEF f
  <2> QED BY <2>1, <2>2, <2>3 DEF Bijection, Injection, Surjection, IsInjective
<1>6. ExistsBijection(1..(k - 1), B)
  BY <1>5, Zenon DEF ExistsBijection
<1> QED
  BY <1>1, <1>6, FS_CountingElements DEF B

\* There is a colon after every byte but the last.
LEMMA ColonsCount == IsFiniteSet(Colons) /\ Cardinality(Colons) = Bytes - 1
<1> DEFINE f == [m \in 1..(Bytes - 1) |-> 3 * m]
<1>1. Bytes \in Nat \ {0} /\ Bytes - 1 \in Nat
  BY BytesAssumption
<1>2. \A m \in 1..(Bytes - 1) : 3 * m \in Colons
  <2>1. \A m \in 1..(Bytes - 1) : 3 * m \in 1..(3 * Bytes - 1) /\ (3 * m) % 3 = 0
    BY <1>1
  <2> QED BY <2>1 DEF Colons
<1>3. \A i \in Colons : \E m \in 1..(Bytes - 1) : 3 * m = i
  <2>1. \A i \in 1..(3 * Bytes - 1) : i % 3 = 0 =>
           i \div 3 \in 1..(Bytes - 1) /\ 3 * (i \div 3) = i
    BY <1>1
  <2> QED BY <2>1 DEF Colons
<1>4. f \in Bijection(1..(Bytes - 1), Colons)
  <2>1. f \in [1..(Bytes - 1) -> Colons]
    BY <1>2
  <2>2. \A i \in Colons : \E m \in 1..(Bytes - 1) : f[m] = i
    BY <1>3
  <2>3. \A m, l \in 1..(Bytes - 1) : f[m] = f[l] => m = l
    BY <1>1
  <2> HIDE DEF f
  <2> QED BY <2>1, <2>2, <2>3 DEF Bijection, Injection, Surjection, IsInjective
<1>5. ExistsBijection(1..(Bytes - 1), Colons)
  BY <1>4, Zenon DEF ExistsBijection
<1>6. Cardinality(Colons) = Bytes - 1
  BY <1>1, <1>5, FS_CountingElements
<1>7. IsFiniteSet(Colons)
  <2>1. Colons \subseteq 1..(3 * Bytes - 1) /\ IsFiniteSet(1..(3 * Bytes - 1))
    BY <1>1, FS_Interval DEF Colons
  <2> QED BY <2>1, FS_Subset
<1> QED
  BY <1>6, <1>7

\* An address, character by character.
LEMMA Characters ==
  ASSUME NEW t \in Seq(MacChar), IsMAC(t)
  PROVE  /\ Len(t) = 3 * Bytes - 1 /\ DOMAIN t = 1..(3 * Bytes - 1)
         /\ \A i \in Colons : t[i] = ":"
         /\ \A i \in Digits : t[i] \in Digit
<1>1. Len(t) = 3 * Bytes - 1 /\ DOMAIN t = 1..(3 * Bytes - 1)
  <2>1. DOMAIN t = 1..Len(t)
    BY LenProperties
  <2> QED BY <2>1 DEF IsMAC
<1>2. \A i \in 1..(3 * Bytes - 1) : IF i % 3 = 0 THEN t[i] = ":" ELSE t[i] \in Digit
  BY <1>1, Zenon DEF IsMAC
<1> QED
  BY <1>1, <1>2, Zenon DEF Colons, Digits

\* What is left of an address without its colons.
LEMMA ColonsGo ==
  ASSUME NEW t \in Seq(MacChar), IsMAC(t)
  PROVE  /\ WithoutColons(t) \in [1..(2 * Bytes) -> Digit]
         /\ \A k \in 1..(2 * Bytes) : WithoutColons(t)[k] = t[Place(k)]
         /\ Len(WithoutColons(t)) = 2 * Bytes
<1> DEFINE colons == {i \in DOMAIN t : t[i] = ":"}
           first  == {i \in colons : Cardinality({j \in colons : j < i}) < Bytes - 1}
           left   == DOMAIN t \ first
<1>0. Bytes \in Nat \ {0}
  BY BytesAssumption
<1>1. /\ Len(t) = 3 * Bytes - 1 /\ DOMAIN t = 1..(3 * Bytes - 1)
      /\ \A i \in Colons : t[i] = ":"
      /\ \A i \in Digits : t[i] \in Digit
  BY Characters
<1>2. colons = Colons
  <2>1. \A i \in 1..(3 * Bytes - 1) : i \in Colons \/ i \in Digits
    BY DEF Colons, Digits
  <2>2. Colons \subseteq 1..(3 * Bytes - 1)
    BY DEF Colons
  <2>3. \A c \in Digit : c # ":"
    BY Spelling
  <2> QED BY <1>1, <2>1, <2>2, <2>3
<1> HIDE DEF colons
<1>3. first = Colons
  <2>1. ASSUME NEW i \in Colons PROVE Cardinality({j \in colons : j < i}) < Bytes - 1
    <3> DEFINE B == {j \in Colons : j < i}
    <3>1. B \in SUBSET Colons /\ B # Colons
      <4>1. i \in Int /\ ~ (i < i)
        BY <1>0 DEF Colons
      <4> QED BY <4>1
    <3> HIDE DEF B
    <3>2. Cardinality(B) <= Cardinality(Colons) /\ Cardinality(B) # Cardinality(Colons)
          /\ IsFiniteSet(B)
      BY <3>1, ColonsCount, FS_Subset
    <3>3. Cardinality(B) \in Nat
      BY <3>2, FS_CardinalityType
    <3>4. Cardinality(B) < Bytes - 1
      BY <1>0, <3>2, <3>3, ColonsCount
    <3> QED BY <1>2, <3>4 DEF B
  <2> QED BY <1>2, <2>1
<1> HIDE DEF first
<1>4. Len(t) - Cardinality(first) = 2 * Bytes
  <2>1. 3 * Bytes - 1 - (Bytes - 1) = 2 * Bytes
    BY <1>0
  <2> QED BY <1>1, <1>3, <2>1, ColonsCount
<1>5. left = Digits
  BY <1>1, <1>3 DEF Colons, Digits
<1> HIDE DEF left
<1>6. WithoutColons(t) = [k \in 1..(2 * Bytes) |->
                            t[CHOOSE i \in left : Cardinality({j \in left : j < i}) = k - 1]]
  BY <1>4, Zenon DEF WithoutColons, colons, first, left
<1>7. ASSUME NEW k \in 1..(2 * Bytes)
      PROVE  (CHOOSE i \in Digits : Cardinality({j \in Digits : j < i}) = k - 1) = Place(k)
  <2>1. Place(k) \in Digits /\ Cardinality({j \in Digits : j < Place(k)}) = k - 1
    BY DigitPlaces, DigitsBefore
  <2>2. ASSUME NEW i \in Digits, Cardinality({j \in Digits : j < i}) = k - 1
        PROVE  i = Place(k)
    <3>1. PICK l \in 1..(2 * Bytes) : Place(l) = i
      BY DigitPlaces
    <3>2. Cardinality({j \in Digits : j < i}) = l - 1
      BY <3>1, DigitsBefore, Zenon
    <3>3. l = k
      BY <1>0, <2>2, <3>2
    <3> QED BY <3>1, <3>3
  <2> QED BY <2>1, <2>2, Zenon
<1>8. \A k \in 1..(2 * Bytes) : WithoutColons(t)[k] = t[Place(k)]
  BY <1>5, <1>6, <1>7, Zenon
<1>9. WithoutColons(t) \in [1..(2 * Bytes) -> Digit]
  <2> DEFINE w == WithoutColons(t)
             from(k) == t[CHOOSE i \in left : Cardinality({j \in left : j < i}) = k - 1]
  <2>1. \A k \in 1..(2 * Bytes) : w[k] \in Digit
    BY <1>1, <1>8, DigitPlaces, Zenon
  <2>2. w = [k \in 1..(2 * Bytes) |-> from(k)]
    BY <1>6
  <2> HIDE DEF w, from
  <2> QED BY <2>1, <2>2 DEF w
<1>10. Len(WithoutColons(t)) = 2 * Bytes
  <2> HIDE DEF WithoutColons
  <2>1. 2 * Bytes \in Nat
    BY <1>0
  <2> QED BY <1>9, <2>1
<1> QED
  BY <1>8, <1>9, <1>10

\* An address that hostapd's parsers accept decodes to its digits.
LEMMA AddressDecodes ==
  ASSUME NEW t \in Seq(MacChar), IsMAC(t)
  PROVE  /\ Decodes(t)
         /\ Decode(t) = [k \in 1..(2 * Bytes) |-> ToLower(t[Place(k)])]
<1>1. /\ DOMAIN WithoutColons(t) = 1..(2 * Bytes) /\ Len(WithoutColons(t)) = 2 * Bytes
      /\ \A k \in 1..(2 * Bytes) : WithoutColons(t)[k] \in Digit
      /\ \A k \in 1..(2 * Bytes) : WithoutColons(t)[k] = t[Place(k)]
  BY ColonsGo
<1>2. (2 * Bytes) % 2 = 0
  BY BytesAssumption
<1> QED
  BY <1>1, <1>2 DEF Decodes, IsHex, Decode

\* What decodes gives bytes.
LEMMA DecodedBytes ==
  ASSUME NEW t \in Seq(MacChar), Decodes(t)
  PROVE  Decode(t) \in [1..(2 * Bytes) -> Lower]
<1> DEFINE colons == {i \in DOMAIN t : t[i] = ":"}
           first  == {i \in colons : Cardinality({j \in colons : j < i}) < Bytes - 1}
           n      == Len(t) - Cardinality(first)
           s      == WithoutColons(t)
<1>1. Len(s) = 2 * Bytes /\ \A i \in DOMAIN s : s[i] \in Digit
  BY DEF Decodes, IsHex
<1>2. DOMAIN s = 1..n /\ s = [i \in 1..n |-> s[i]]
  <2> DEFINE from(k) == t[CHOOSE i \in DOMAIN t \ first :
                            Cardinality({j \in DOMAIN t \ first : j < i}) = k - 1]
  <2>1. s = [k \in 1..n |-> from(k)]
    BY Zenon DEF WithoutColons
  <2> HIDE DEF n, s, from
  <2> QED BY <2>1, Zenon
<1>3. n \in Nat
  <2>1. Len(t) \in Nat /\ DOMAIN t = 1..Len(t) /\ first \subseteq 1..Len(t)
    OBVIOUS
  <2>2. IsFiniteSet(1..Len(t)) /\ Cardinality(1..Len(t)) = Len(t)
    <3> HIDE DEF first
    <3>1. /\ IsFiniteSet(1..Len(t))
          /\ Cardinality(1..Len(t)) = IF 1 > Len(t) THEN 0 ELSE Len(t) - 1 + 1
      BY <2>1, FS_Interval
    <3> QED BY <2>1, <3>1
  <2> HIDE DEF first
  <2>3. Cardinality(first) \in Nat /\ Cardinality(first) <= Len(t)
    <3>1. IsFiniteSet(first) /\ Cardinality(first) <= Cardinality(1..Len(t))
      BY <2>1, <2>2, FS_Subset
    <3> QED BY <2>2, <3>1, FS_CardinalityType
  <2> QED BY <2>1, <2>3
<1> HIDE DEF n, s
<1>4. s \in [1..n -> Digit]
  BY <1>1, <1>2
<1>5. Len(s) = n
  BY <1>3, <1>4
<1>6. s \in [1..(2 * Bytes) -> Digit]
  BY <1>1, <1>4, <1>5
<1>7. Decode(t) = [i \in DOMAIN s |-> ToLower(s[i])]
  BY DEF Decode, s
<1> QED
  BY <1>6, <1>7, Spelling

\* What the daemon prints of an address, character by character.
LEMMA Printed ==
  ASSUME NEW mac \in [1..(2 * Bytes) -> Lower]
  PROVE  /\ String(mac) \in Seq(MacChar)
         /\ Len(String(mac)) = 3 * Bytes - 1 /\ DOMAIN String(mac) = 1..(3 * Bytes - 1)
         /\ \A i \in Colons : String(mac)[i] = ":"
         /\ \A k \in 1..(2 * Bytes) : String(mac)[Place(k)] = ToUpper(mac[k])
         /\ \A i \in Digits : String(mac)[i] \in Digit
<1> DEFINE t == String(mac)
<1>0. Bytes \in Nat \ {0} /\ 3 * Bytes - 1 \in Nat
  BY BytesAssumption
<1>1. t = [i \in 1..(3 * Bytes - 1) |-> IF i % 3 = 0 THEN ":" ELSE ToUpper(mac[i - i \div 3])]
  BY DEF String
<1>2. \A i \in Colons : t[i] = ":"
  BY <1>1 DEF Colons
<1>3. \A i \in Digits : t[i] = ToUpper(mac[i - i \div 3])
  BY <1>1 DEF Digits
<1>4. \A k \in 1..(2 * Bytes) : t[Place(k)] = ToUpper(mac[k])
  BY <1>3, DigitPlaces, Zenon
<1>5. \A i \in Digits : t[i] \in Digit
  <2>1. \A i \in Digits : mac[i - i \div 3] \in Lower
    BY DigitPlaces
  <2> QED BY <1>3, <2>1, Spelling
<1>6. \A i \in 1..(3 * Bytes - 1) : t[i] \in MacChar
  <2>1. \A i \in 1..(3 * Bytes - 1) : i \in Colons \/ i \in Digits
    BY DEF Colons, Digits
  <2>2. Digit \subseteq MacChar /\ ":" \in MacChar
    BY DEF Digit, MacChar
  <2> QED BY <1>2, <1>5, <2>1, <2>2, Zenon
<1>7. DOMAIN t = 1..(3 * Bytes - 1) /\ t = [i \in 1..(3 * Bytes - 1) |-> t[i]]
  BY <1>1
<1> HIDE DEF t
<1>8. t \in Seq(MacChar) /\ Len(t) = 3 * Bytes - 1
  BY <1>0, <1>6, <1>7
<1> QED
  BY <1>2, <1>4, <1>5, <1>7, <1>8 DEF t

\* What is printed is an address to hostapd, and decodes to what it was.
LEMMA PrintedDecodes ==
  ASSUME NEW mac \in [1..(2 * Bytes) -> Lower]
  PROVE  IsMAC(String(mac)) /\ Decodes(String(mac)) /\ Decode(String(mac)) = mac
<1> DEFINE t == String(mac)
<1>1. /\ t \in Seq(MacChar) /\ Len(t) = 3 * Bytes - 1 /\ DOMAIN t = 1..(3 * Bytes - 1)
      /\ \A i \in Colons : t[i] = ":"
      /\ \A k \in 1..(2 * Bytes) : t[Place(k)] = ToUpper(mac[k])
      /\ \A i \in Digits : t[i] \in Digit
  BY Printed
<1> HIDE DEF t
<1>2. \A k \in 1..(2 * Bytes) : ToLower(ToUpper(mac[k])) = mac[k]
  BY Spelling
<1>3. IsMAC(t)
  <2>1. \A i \in DOMAIN t : IF i % 3 = 0 THEN t[i] = ":" ELSE t[i] \in Digit
    BY <1>1 DEF Colons, Digits
  <2> QED BY <1>1, <2>1 DEF IsMAC
<1>4. Decodes(t) /\ Decode(t) = [k \in 1..(2 * Bytes) |-> ToLower(t[Place(k)])]
  BY <1>1, <1>3, AddressDecodes
<1>5. \A k \in 1..(2 * Bytes) : ToLower(t[Place(k)]) = mac[k]
  BY <1>1, <1>2, Zenon
<1>6. Decode(t) = mac
  BY <1>4, <1>5
<1> QED
  BY <1>3, <1>4, <1>6 DEF t

\* What is put around a text is not among what is between its ends.
LEMMA Wrapped ==
  ASSUME NEW S, NEW t \in Seq(S), NEW n \in Nat \ {0}, Len(t) = n, NEW x \in S
  PROVE  /\ Len(<<x>> \o t \o <<x>>) = n + 2
         /\ SubSeq(<<x>> \o t \o <<x>>, 2, n + 1) = t
<1> DEFINE w == <<x>>
           p == w \o t
           q == p \o w
<1>1. w \in Seq(S) /\ Len(w) = 1
  OBVIOUS
<1> HIDE DEF w
<1>2. /\ p \in Seq(S) /\ Len(p) = n + 1
      /\ \A i \in 1..(n + 1) : p[i] = IF i <= 1 THEN w[i] ELSE t[i - 1]
  <2>1. /\ p \in Seq(S) /\ Len(p) = Len(w) + Len(t)
        /\ \A i \in 1..(Len(w) + Len(t)) : p[i] = IF i <= Len(w) THEN w[i] ELSE t[i - Len(w)]
    BY <1>1, ConcatProperties, Zenon
  <2> HIDE DEF p
  <2> QED BY <1>1, <2>1
<1> HIDE DEF p
<1>3. /\ q \in Seq(S) /\ Len(q) = n + 2
      /\ \A i \in 1..(n + 2) : q[i] = IF i <= n + 1 THEN p[i] ELSE w[i - (n + 1)]
  <2>1. /\ q \in Seq(S) /\ Len(q) = Len(p) + Len(w)
        /\ \A i \in 1..(Len(p) + Len(w)) : q[i] = IF i <= Len(p) THEN p[i] ELSE w[i - Len(p)]
    BY <1>1, <1>2, ConcatProperties, Zenon
  <2> HIDE DEF q
  <2> QED BY <1>1, <1>2, <2>1
<1> HIDE DEF q
<1>4. \A i \in 1..n : 2 + i - 1 = i + 1 /\ q[i + 1] = t[i]
  BY <1>2, <1>3
<1> DEFINE u == SubSeq(q, 2, n + 1)
<1>5. /\ u \in Seq(S) /\ Len(u) = n
      /\ \A i \in 1..n : u[i] = q[2 + i - 1]
  <2>1. \A i \in 2..(n + 1) : q[i] \in S
    <3>1. \A i \in 1..Len(q) : q[i] \in S
      BY <1>3, ElementOfSeq
    <3>2. \A i \in 2..(n + 1) : i \in 1..(n + 2)
      OBVIOUS
    <3> QED BY <1>3, <3>1, <3>2
  <2>2. 2 \in Int /\ n + 1 \in Int /\ 2 <= n + 1 /\ (n + 1) - 2 + 1 = n
    OBVIOUS
  <2> QED BY <2>1, <2>2, SubSeqProperties
<1>6. u = t
  <2> HIDE DEF u
  <2>1. \A i \in 1..n : u[i] = t[i]
    BY <1>4, <1>5
  <2> QED BY <1>5, <2>1, SeqEqual
<1> QED
  BY <1>3, <1>6 DEF u, q, p, w

\* The quotes around an address go as they came.
LEMMA QuotesGo ==
  ASSUME NEW mac \in [1..(2 * Bytes) -> Lower]
  PROVE  UnmarshalJSON(MarshalJSON(mac)) = mac
<1> DEFINE t == String(mac)
           n == 3 * Bytes - 1
<1>0. n \in Nat \ {0}
  BY BytesAssumption
<1>1. t \in Seq(MacChar) /\ Len(t) = n
  BY Printed
<1>2. Decode(t) = mac
  BY PrintedDecodes
<1>3. MarshalJSON(mac) = <<"quote">> \o t \o <<"quote">>
  BY DEF MarshalJSON
<1> HIDE DEF t, n
<1>4. t \in Seq(MacChar \cup {"quote"})
  BY <1>1
<1>5. /\ Len(MarshalJSON(mac)) = n + 2
      /\ SubSeq(MarshalJSON(mac), 2, n + 1) = t
  BY <1>0, <1>1, <1>3, <1>4, Wrapped
<1>6. SubSeq(MarshalJSON(mac), 2, Len(MarshalJSON(mac)) - 1) = t
  <2>1. Len(MarshalJSON(mac)) - 1 = n + 1
    <3>1. PICK l \in Nat : l = n + 2
      BY <1>0
    <3>2. Len(MarshalJSON(mac)) = l /\ l - 1 = n + 1
      BY <1>0, <1>5, <3>1
    <3> QED BY <3>2, Zenon
  <2> QED BY <1>5, <2>1, Zenon
<1> QED
  BY <1>2, <1>6, Zenon DEF UnmarshalJSON

\* Of what decodes only the first half of the digits tells the vendor.
LEMMA VendorOfDecoded ==
  ASSUME NEW t, Decodes(t)
  PROVE  VendorByMAC(t) = IF SubSeq(Decode(t), 1, Bytes) \in VendorMACs THEN "vendor" ELSE ""
<1>1. 2 * Bytes >= Bytes
  BY BytesAssumption
<1>2. IsHex(WithoutColons(t)) /\ Len(WithoutColons(t)) >= Bytes
  BY <1>1, Zenon DEF Decodes
<1> QED
  BY <1>2, Zenon DEF VendorByMAC

\* The topics of an address are those of its printed form.
LEMMA SameTopics ==
  ASSUME NEW t \in Seq(MacChar), IsMAC(t)
  PROVE  SanitizeMAC(t) = SanitizeMAC(String(Decode(t)))
<1> DEFINE mac == Decode(t)
           s   == String(mac)
<1>1. Decodes(t) /\ mac = [k \in 1..(2 * Bytes) |-> ToLower(t[Place(k)])]
  BY AddressDecodes
<1>2. mac \in [1..(2 * Bytes) -> Lower]
  BY <1>1, DecodedBytes
<1>3. /\ DOMAIN s = 1..(3 * Bytes - 1)
      /\ \A i \in Colons : s[i] = ":"
      /\ \A k \in 1..(2 * Bytes) : s[Place(k)] = ToUpper(mac[k])
      /\ \A i \in Digits : s[i] \in Digit
  BY <1>2, Printed
<1> HIDE DEF mac, s
<1>4. /\ DOMAIN t = 1..(3 * Bytes - 1)
      /\ \A i \in Colons : t[i] = ":"
      /\ \A i \in Digits : t[i] \in Digit
  BY Characters
<1>5. ASSUME NEW i \in Digits
      PROVE  s[i] # ":" /\ t[i] # ":" /\ ToLower(s[i]) = ToLower(t[i])
  <2>1. PICK k \in 1..(2 * Bytes) : Place(k) = i
    BY DigitPlaces
  <2>2. s[i] = ToUpper(ToLower(t[i]))
    <3>1. mac[k] = ToLower(t[i])
      BY <1>1, <2>1
    <3> QED BY <1>3, <2>1, <3>1, Zenon
  <2>3. t[i] \in Digit /\ s[i] \in Digit
    BY <1>3, <1>4
  <2> QED BY <2>2, <2>3, Spelling
<1>6. \A i \in 1..(3 * Bytes - 1) : i \in Colons \/ i \in Digits
  BY DEF Colons, Digits
<1>7. \A i \in 1..(3 * Bytes - 1) : (IF t[i] = ":" THEN "-" ELSE ToLower(t[i]))
                                       = IF s[i] = ":" THEN "-" ELSE ToLower(s[i])
  BY <1>3, <1>4, <1>5, <1>6
<1>8. SanitizeMAC(t) = SanitizeMAC(s)
  BY <1>3, <1>4, <1>7 DEF SanitizeMAC
<1> QED
  BY <1>8 DEF s, mac

\* The daemon has decoded the address, or could not.
AddressInv == task = "mac" =>
    /\ told \in Seq(MacChar) /\ text = told
    /\ end = "ok" => Decodes(told) /\ got = Decode(told)
    /\ end = "error" => ~Decodes(told)

\* At first the text is what was told.
LEMMA InitAddressInv == Init => AddressInv
<1> SUFFICES ASSUME Init, task = "mac" PROVE AddressInv
  BY DEF AddressInv
<1>1. InitMac /\ end # "ok" /\ end # "error"
  BY DEF Init, InitSsid, InitLines
<1>2. told \in Seq(MacChar)
  BY <1>1, BoundedIsSeq, LengthAssumption DEF InitMac
<1> QED
  BY <1>1, <1>2 DEF AddressInv, InitMac

\* It is decoded in one step, and nothing else touches it.
LEMMA NextAddressInv ==
  ASSUME AddressInv, [Next]_vars
  PROVE  AddressInv'
<1> SUFFICES ASSUME task' = "mac" PROVE AddressInv'
  BY DEF AddressInv
<1>1. task = "mac" /\ (DecodeMAC \/ UNCHANGED vars)
  BY DEF Next, vars, DecodePlain, DecodeEscape, DecodeHex, DecodeDangling, DecodeDone,
       StationFirstLine, StationLine, StationDone, StatusLine, StatusDone, DecodeMAC,
       Continues, Stops
<1>2. CASE DecodeMAC
  BY <1>1, <1>2 DEF AddressInv, DecodeMAC
<1>3. CASE UNCHANGED vars
  BY <1>1, <1>3 DEF AddressInv, vars
<1> QED
  BY <1>1, <1>2, <1>3

\* Whatever the bytes of an address, the length of a text and the case of its
\* digits: what hostapd's parsers accept is an address to the daemon, and all the
\* forms of an address are one name (daemon.go:218, 379, 437, 519, mac.go:13-52).
THEOREM AddressesAreNames == Spec => []OneStationOneName
<1>1. Init => AddressInv
  BY InitAddressInv
<1>2. AddressInv /\ [Next]_vars => AddressInv'
  BY NextAddressInv
<1>3. AddressInv => OneStationOneName
  <2> SUFFICES ASSUME AddressInv, task = "mac" PROVE OneStationOneName
    BY DEF OneStationOneName
  <2>1. told \in Seq(MacChar)
    BY DEF AddressInv
  <2>2. ASSUME end = "error" PROVE ~IsMAC(told)
    BY <2>1, <2>2, AddressDecodes DEF AddressInv
  <2>3. ASSUME end = "ok"
        PROVE  /\ IsMAC(String(got)) /\ Decode(String(got)) = got
               /\ UnmarshalJSON(MarshalJSON(got)) = got
               /\ VendorByMAC(told) = VendorByMAC(String(got))
               /\ IsMAC(told) => SanitizeMAC(told) = SanitizeMAC(String(got))
    <3>1. Decodes(told) /\ got = Decode(told)
      BY <2>3 DEF AddressInv
    <3>2. got \in [1..(2 * Bytes) -> Lower]
      BY <2>1, <3>1, DecodedBytes
    <3>3. IsMAC(String(got)) /\ Decodes(String(got)) /\ Decode(String(got)) = got
      BY <3>2, PrintedDecodes
    <3>4. VendorByMAC(told) = VendorByMAC(String(got))
      BY <3>1, <3>3, VendorOfDecoded, Zenon
    <3>5. UnmarshalJSON(MarshalJSON(got)) = got
      BY <3>2, QuotesGo
    <3>6. IsMAC(told) => SanitizeMAC(told) = SanitizeMAC(String(got))
      BY <2>1, <3>1, SameTopics
    <3> QED BY <3>3, <3>4, <3>5, <3>6
  <2> QED BY <2>2, <2>3 DEF OneStationOneName
<1> QED
  BY <1>1, <1>2, <1>3, PTL DEF Spec
=============================================================================
